----------------------------- MODULE TextsProofs -----------------------------
(***************************************************************************)
(* What the line diff and the merge find, for any two or three texts.      *)
(***************************************************************************)
EXTENDS Texts, TLAPS, SequenceTheorems, WellFoundedInduction

-----------------------------------------------------------------------------
(* Numbers and sequences *)

\* A non-empty set of natural numbers has a least one.
LEMMA LeastOf == ASSUME NEW s \in SUBSET Nat, s # {} PROVE \E m \in s : \A k \in s : m <= k
  <1>1. IsWellFoundedOn(OpToRel(<, Nat), Nat)
    BY NatLessThanWellFounded
  <1>2. PICK m \in s : \A k \in s : <<k, m>> \notin OpToRel(<, Nat)
    BY <1>1, WFMin, Zenon
  <1>3. \A k \in s : ~(k < m)
    BY <1>2, Zenon DEF OpToRel
  <1> QED BY <1>3

\* A set that has 0, and with each number below n the next, has all of 0..n.
LEMMA Induction ==
    ASSUME NEW n \in Nat, NEW good, 0 \in good,
           \A k \in 0..n - 1 : k \in good => k + 1 \in good
    PROVE  \A k \in 0..n : k \in good
  <1> DEFINE bad == {k \in 0..n : k \notin good}
  <1> SUFFICES ASSUME bad # {} PROVE FALSE
    OBVIOUS
  <1>1. PICK k \in bad : \A j \in bad : k <= j
    <2>1. bad \in SUBSET Nat
      OBVIOUS
    <2> HIDE DEF bad
    <2> QED BY <2>1, LeastOf
  <1>2. k \in 0..n /\ k # 0 /\ k \notin good
    OBVIOUS
  <1>3. k - 1 \in 0..n - 1 /\ k - 1 \in 0..n /\ ~(k <= k - 1) /\ k - 1 + 1 = k
    BY <1>2
  <1>4. k - 1 \in good
    BY <1>1, <1>3
  <1>5. k - 1 + 1 \in good
    BY <1>3, <1>4
  <1> QED BY <1>2, <1>3, <1>5

\* Max and Min are in the set, at its ends.
LEMMA Ends ==
    ASSUME NEW n \in Nat, NEW s \in SUBSET (1..n), s # {}
    PROVE  /\ Max(s) \in s /\ \A k \in s : k <= Max(s)
           /\ Min(s) \in s /\ \A k \in s : Min(s) <= k
  <1>1. \E m \in s : \A k \in s : m <= k
    BY LeastOf
  <1>2. Min(s) \in s /\ \A k \in s : Min(s) <= k
    BY <1>1 DEF Min
  <1> DEFINE above == {m \in Nat : \A k \in s : k <= m}
  <1>3. n \in above
    OBVIOUS
  <1>4. PICK m \in above : \A k \in above : m <= k
    <2>1. above \in SUBSET Nat /\ above # {}
      BY <1>3
    <2> HIDE DEF above
    <2> QED BY <2>1, LeastOf
  <1>5. m \in s
    <2> SUFFICES ASSUME m \notin s PROVE FALSE
      OBVIOUS
    <2>1. m \in Nat /\ \A k \in s : k <= m /\ k # m /\ k \in 1..n
      BY <1>4
    <2>2. m - 1 \in Nat
      <3>1. PICK k : k \in s
        OBVIOUS
      <3>2. k <= m /\ k # m /\ k \in 1..n
        BY <2>1, <3>1
      <3> QED BY <2>1, <3>2
    <2>3. m - 1 \in above
      BY <2>1, <2>2
    <2> QED BY <1>4, <2>1, <2>3
  <1>6. \A k \in s : m >= k
    BY <1>4, <1>5
  <1>7. Max(s) \in s /\ \A k \in s : Max(s) >= k
    BY <1>5, <1>6 DEF Max
  <1> QED BY <1>2, <1>7

\* A part of a sequence.
LEMMA Part ==
    ASSUME NEW S, NEW p \in Seq(S), NEW i \in Nat, NEW n \in Nat, i + n <= Len(p)
    PROVE  /\ SubSeq(p, i + 1, i + n) \in Seq(S)
           /\ Len(SubSeq(p, i + 1, i + n)) = n
           /\ \A j \in 1..n : SubSeq(p, i + 1, i + n)[j] = p[i + j]
  <1> DEFINE a == i + 1
             b == i + n
  <1>1. a \in Int /\ b \in Int /\ b - a + 1 = n /\ (a <= b <=> 1 <= n)
    OBVIOUS
  <1>2. \A j \in a..b : p[j] \in S
    OBVIOUS
  <1>3. \A j \in 1..n : a + j - 1 = i + j
    OBVIOUS
  <1> HIDE DEF a, b
  <1>4. /\ SubSeq(p, a, b) \in Seq(S)
        /\ Len(SubSeq(p, a, b)) = IF a <= b THEN b - a + 1 ELSE 0
        /\ \A j \in 1..b - a + 1 : SubSeq(p, a, b)[j] = p[a + j - 1]
    BY <1>1, <1>2, SubSeqProperties
  <1>5. Len(SubSeq(p, a, b)) = n
    BY <1>1, <1>4
  <1>6. \A j \in 1..n : SubSeq(p, a, b)[j] = p[i + j]
    BY <1>1, <1>3, <1>4
  <1> QED BY <1>4, <1>5, <1>6 DEF a, b

\* Two sequences joined can be taken apart again.
LEMMA Joined ==
    ASSUME NEW S, NEW s \in Seq(S), NEW t \in Seq(S)
    PROVE  /\ s \o t \in Seq(S) /\ Len(s \o t) = Len(s) + Len(t)
           /\ \A j \in 1..Len(s) : (s \o t)[j] = s[j]
           /\ \A j \in 1..Len(t) : (s \o t)[Len(s) + j] = t[j]
           /\ SubSeq(s \o t, Len(s) + 1, Len(s) + Len(t)) = t
  <1>1. /\ s \o t \in Seq(S) /\ Len(s \o t) = Len(s) + Len(t)
        /\ \A i \in 1..Len(s) + Len(t) : (s \o t)[i] = IF i <= Len(s) THEN s[i] ELSE t[i - Len(s)]
    BY ConcatProperties, Zenon
  <1>2. Len(s) \in Nat /\ Len(t) \in Nat
    OBVIOUS
  <1>3. \A j \in 1..Len(s) : (s \o t)[j] = s[j]
    BY <1>1, <1>2
  <1>4. \A j \in 1..Len(t) : (s \o t)[Len(s) + j] = t[j]
    <2> TAKE j \in 1..Len(t)
    <2>1. PICK i \in 1..Len(s) + Len(t) : i = Len(s) + j
      BY <1>2
    <2> QED BY <1>1, <1>2, <2>1
  <1> DEFINE u == s \o t
             m == Len(s)
             n == Len(t)
  <1>5. SubSeq(u, m + 1, m + n) = t
    <2>1. u \in Seq(S) /\ m \in Nat /\ n \in Nat /\ m + n <= Len(u)
      BY <1>1, <1>2
    <2> HIDE DEF u, m
    <2>2. /\ SubSeq(u, m + 1, m + n) \in Seq(S) /\ Len(SubSeq(u, m + 1, m + n)) = n
          /\ \A j \in 1..n : SubSeq(u, m + 1, m + n)[j] = u[m + j]
      <3> HIDE DEF n
      <3> QED BY <2>1, Part
    <2>3. \A j \in 1..n : SubSeq(u, m + 1, m + n)[j] = t[j]
      BY <1>4, <2>2 DEF u, m
    <2> QED BY <2>2, <2>3, SeqEqual
  <1> QED BY <1>1, <1>3, <1>4, <1>5

\* The least number of a set.
LEMMA LeastIs ==
    ASSUME NEW s \in SUBSET Nat, s # {}
    PROVE  Min(s) \in s /\ \A k \in s : Min(s) <= k
  <1>1. \E m \in s : \A k \in s : m <= k
    BY LeastOf
  <1> QED BY <1>1 DEF Min

\* The lines of a text from position i to j, which counts from 0.
Cut(s, i, j) == SubSeq(s, i + 1, j)

\* Such a cut has the lines of its positions.
LEMMA CutIs ==
    ASSUME NEW S, NEW s \in Seq(S), NEW i \in Nat, NEW j \in Nat, i <= j, j <= Len(s)
    PROVE  /\ Cut(s, i, j) \in Seq(S) /\ Len(Cut(s, i, j)) = j - i
           /\ \A k \in 1..j - i : Cut(s, i, j)[k] = s[i + k]
  <1> DEFINE n == j - i
  <1>1. n \in Nat /\ i + n = j
    OBVIOUS
  <1> HIDE DEF n
  <1>2. i + n <= Len(s)
    BY <1>1
  <1>3. /\ SubSeq(s, i + 1, i + n) \in Seq(S) /\ Len(SubSeq(s, i + 1, i + n)) = n
        /\ \A k \in 1..n : SubSeq(s, i + 1, i + n)[k] = s[i + k]
    BY <1>1, <1>2, Part
  <1> QED BY <1>1, <1>3 DEF Cut, n

\* Lines up to a position and from there on are all of them together.
LEMMA CutsJoined ==
    ASSUME NEW S, NEW s \in Seq(S), NEW i \in Nat, NEW j \in Nat, NEW k \in Nat,
           i <= j, j <= k, k <= Len(s)
    PROVE  Cut(s, i, j) \o Cut(s, j, k) = Cut(s, i, k)
  <1> DEFINE x == Cut(s, i, j)
             y == Cut(s, j, k)
             z == Cut(s, i, k)
             m == j - i
             n == k - j
             h == k - i
  <1>1. m \in Nat /\ n \in Nat /\ h \in Nat /\ m + n = h /\ i + m = j
    OBVIOUS
  <1>a. j <= Len(s) /\ i <= k /\ k <= Len(s)
    OBVIOUS
  <1>2. x \in Seq(S) /\ Len(x) = m /\ \A l \in 1..m : x[l] = s[i + l]
    BY <1>a, CutIs
  <1>3. y \in Seq(S) /\ Len(y) = n /\ \A l \in 1..n : y[l] = s[j + l]
    BY CutIs
  <1>4. z \in Seq(S) /\ Len(z) = h /\ \A l \in 1..h : z[l] = s[i + l]
    BY <1>a, CutIs
  <1> HIDE DEF x, y, z
  <1>5. /\ x \o y \in Seq(S) /\ Len(x \o y) = Len(x) + Len(y)
        /\ \A l \in 1..Len(x) : (x \o y)[l] = x[l]
        /\ \A l \in 1..Len(y) : (x \o y)[Len(x) + l] = y[l]
    <2>1. x \in Seq(S) /\ y \in Seq(S)
      BY <1>2, <1>3
    <2> HIDE DEF m, n, h
    <2> QED BY <2>1, Joined
  <1> HIDE DEF m, n, h
  <1>6. ASSUME NEW l \in 1..h PROVE (x \o y)[l] = z[l]
    <2>1. CASE l <= m
      <3>1. l \in 1..m
        BY <1>1, <2>1
      <3> QED BY <1>2, <1>4, <1>5, <3>1
    <2>2. CASE ~(l <= m)
      <3>1. PICK q \in 1..n : l = m + q
        <4>1. l - m \in 1..n /\ m + (l - m) = l
          BY <1>1, <2>2
        <4> QED BY <4>1
      <3>2. j + q = i + l
        BY <1>1, <3>1
      <3>3. (x \o y)[m + q] = y[q] /\ y[q] = s[j + q]
        BY <1>2, <1>3, <1>5
      <3> QED BY <1>4, <3>1, <3>2, <3>3
    <2> QED BY <2>1, <2>2
  <1>7. Len(x \o y) = Len(z)
    BY <1>1, <1>2, <1>3, <1>4, <1>5
  <1>8. x \o y = z
    BY <1>4, <1>5, <1>6, <1>7, SeqEqual
  <1> QED BY <1>8 DEF x, y, z
-----------------------------------------------------------------------------
(* Folds *)

\* One turn of the folds of the diff: what names the fold and its arguments.
Joining(done, e) ==
    IF done # <<>> /\ Last(done).op = e.op
    THEN [done EXCEPT ![Len(done)].oldEnd = e.oldEnd, ![Len(done)].newEnd = e.newEnd]
    ELSE Append(done, e)
Applying(a, b, t, e) ==
    [pos |-> e.oldEnd,
     out |-> t.out \o SubSeq(a, t.pos + 1, e.oldStart) \o SubSeq(b, e.newStart + 1, e.newEnd)]
Keeping(text, t, e) == [pos |-> e.newEnd, out |-> t.out \o Lines(text, t.pos, e.newStart)]
Writing(a, b, v, d, r, x) == [r EXCEPT ![x] = Reach(a, b, v, d, x)]
Choosing(op, got, l) == IF l.op = op THEN Append(got, l) ELSE got
Counting(start, n, c, i) == IF start + c + i - 1 < n THEN c + 1 ELSE c

Turn(what, r, x) ==
    IF what[1] = "compact" THEN Joining(r, x)
    ELSE IF what[1] = "applied" THEN Applying(what[2], what[3], r, x)
    ELSE IF what[1] = "apply" THEN Keeping(what[2], r, x)
    ELSE IF what[1] = "size" THEN r + Size(x)
    ELSE IF what[1] = "round" THEN Writing(what[2], what[3], what[4], what[5], r, x)
    ELSE IF what[1] = "trace" THEN Append(r, Round(what[2], what[3], Last(r), x - 1))
    ELSE IF what[1] = "chosen" THEN Choosing(what[2], r, x)
    ELSE IF what[1] = "lines" THEN r \o Chosen(x.lines, what[2])
    ELSE IF what[1] = "touched" THEN r \o Touched(what[2], what[3], x, what[4])
    ELSE IF what[1] = "counted" THEN Counting(what[2], what[3], r, x)
    ELSE IF what[1] = "hunks" THEN AddEdit(r, x, what[2], what[3], what[4])
    ELSE StepBack(what[2], r, what[3] + 1 - x)

\* The table of a fold: what is made of every set of positions of v.
IsTable(what, start, v, f) ==
    f = [s \in SUBSET DOMAIN v |-> IF s = {} THEN start ELSE Turn(what, f[s \ {Max(s)}], v[Max(s)])]

\* There is one, whatever the fold.
LEMMA TableExists ==
    ASSUME NEW what, NEW start, NEW v, Len(v) \in Nat, DOMAIN v = 1..Len(v)
    PROVE  \E f : IsTable(what, start, v, f)
  <1> DEFINE n == Len(v)
             Made(f, s) == IF s = {} THEN start ELSE Turn(what, f[s \ {Max(s)}], v[Max(s)])
             Upto(k) == \E f : \A s \in SUBSET (1..k) : f[s] = Made(f, s)
  <1>1. Upto(0)
    <2> DEFINE f == [s \in {{}} |-> start]
    <2>1. \A s \in SUBSET (1..0) : s = {}
      OBVIOUS
    <2>2. f[{}] = start
      OBVIOUS
    <2> HIDE DEF f
    <2>3. \A s \in SUBSET (1..0) : f[s] = Made(f, s)
      BY <2>1, <2>2
    <2> QED BY <2>3
  <1>2. ASSUME NEW k \in Nat, Upto(k) PROVE Upto(k + 1)
    <2>1. PICK f : \A s \in SUBSET (1..k) : f[s] = Made(f, s)
      BY <1>2
    <2> DEFINE g == [s \in SUBSET (1..k + 1) |-> IF k + 1 \in s THEN Made(f, s) ELSE f[s]]
    <2>2. ASSUME NEW s \in SUBSET (1..k + 1) PROVE g[s] = Made(g, s)
      <3>1. CASE s = {}
        <4>1. k + 1 \notin s /\ s \in SUBSET (1..k)
          BY <3>1
        <4>2. g[s] = f[s] /\ f[s] = Made(f, s)
          BY <2>1, <4>1
        <4> QED BY <3>1, <4>2
      <3>2. CASE s # {}
        <4> DEFINE r == s \ {Max(s)}
        <4>1. Max(s) \in s /\ \A j \in s : j <= Max(s)
          <5>1. k + 1 \in Nat
            OBVIOUS
          <5> QED BY <3>2, <5>1, Ends
        <4>2. r \in SUBSET (1..k) /\ r \in SUBSET (1..k + 1) /\ k + 1 \notin r
          <5>1. Max(s) \in 1..k + 1
            BY <4>1
          <5>2. ASSUME NEW j \in r PROVE j \in 1..k
            <6>1. j \in 1..k + 1 /\ j # Max(s) /\ j <= Max(s)
              BY <4>1
            <6> QED BY <5>1, <6>1
          <5> HIDE DEF r
          <5>3. r \in SUBSET (1..k)
            BY <5>2
          <5> QED BY <5>3
        <4>3. g[r] = f[r]
          BY <4>2
        <4>4. g[s] = Made(f, s)
          <5>1. CASE k + 1 \in s
            BY <5>1
          <5>2. CASE k + 1 \notin s
            <6>1. s \in SUBSET (1..k)
              BY <5>2
            <6> QED BY <2>1, <5>2, <6>1
          <5> QED BY <5>1, <5>2
        <4> HIDE DEF g
        <4> QED BY <3>2, <4>3, <4>4
      <3> QED BY <3>1, <3>2
    <2> HIDE DEF g, Made
    <2> QED BY <2>2
  <1> HIDE DEF Upto
  <1>3. Upto(n)
    <2> DEFINE good == {k \in Nat : Upto(k)}
    <2>1. 0 \in good /\ \A k \in 0..n - 1 : k \in good => k + 1 \in good
      BY <1>1, <1>2
    <2>2. n \in Nat /\ n \in 0..n
      OBVIOUS
    <2> HIDE DEF good, n
    <2>3. n \in good
      BY <2>1, <2>2, Induction
    <2> QED BY <2>3 DEF good
  <1>4. PICK f : \A s \in SUBSET (1..n) : f[s] = Made(f, s)
    BY <1>3 DEF Upto
  <1> DEFINE g == [s \in SUBSET (1..n) |-> f[s]]
  <1>5. ASSUME NEW s \in SUBSET (1..n) PROVE g[s] = Made(g, s)
    <2>1. CASE s = {}
      BY <1>4, <2>1
    <2>2. CASE s # {}
      <3> DEFINE r == s \ {Max(s)}
      <3>1. r \in SUBSET (1..n)
        OBVIOUS
      <3>2. g[r] = f[r] /\ g[s] = f[s]
        BY <3>1
      <3> HIDE DEF g
      <3> QED BY <1>4, <2>2, <3>2
    <2> QED BY <2>1, <2>2
  <1>6. IsTable(what, start, v, g)
    BY <1>5 DEF IsTable
  <1> QED BY <1>6

\* The turns of a fold, one after the other: h[k] is what is made of the first k.
Turns(what, start, v, h) ==
    h[0] = start /\ \A k \in 1..Len(v) : h[k] = Turn(what, h[k - 1], v[k])

\* A table has the turns in it, and ends with the last of them.
LEMMA TableTurns ==
    ASSUME NEW what, NEW start, NEW v, Len(v) \in Nat, DOMAIN v = 1..Len(v),
           NEW f, IsTable(what, start, v, f)
    PROVE  \E h : Turns(what, start, v, h) /\ h[Len(v)] = f[DOMAIN v]
  <1> DEFINE n == Len(v)
             e == [k \in 0..n |-> f[1..k]]
  <1>1. n \in Nat /\ DOMAIN v = 1..n
    OBVIOUS
  <1>2. ASSUME NEW s \in SUBSET (1..n)
        PROVE  f[s] = IF s = {} THEN start ELSE Turn(what, f[s \ {Max(s)}], v[Max(s)])
    <2>1. f = [r \in SUBSET DOMAIN v |-> IF r = {} THEN start ELSE Turn(what, f[r \ {Max(r)}], v[Max(r)])]
      BY DEF IsTable
    <2>2. s \in SUBSET DOMAIN v
      BY <1>1
    <2> QED BY <2>1, <2>2, Zenon
  <1> HIDE DEF n
  <1>3. e[0] = start
    <2>1. 1..0 = {} /\ 0 \in 0..n
      BY <1>1
    <2> QED BY <1>2, <2>1
  <1>4. ASSUME NEW k \in 1..n PROVE e[k] = Turn(what, e[k - 1], v[k])
    <2>1. 1..k \in SUBSET (1..n) /\ 1..k # {} /\ k \in 1..k /\ k \in Nat /\ k \in 0..n /\ k - 1 \in 0..n
      BY <1>1
    <2>2. Max(1..k) = k
      <3>1. Max(1..k) \in 1..k /\ \A j \in 1..k : j <= Max(1..k)
        BY <2>1, Ends
      <3> QED BY <2>1, <3>1
    <2>3. (1..k) \ {k} = 1..k - 1
      BY <2>1
    <2>4. f[1..k] = Turn(what, f[(1..k) \ {Max(1..k)}], v[Max(1..k)])
      BY <1>2, <2>1
    <2>5. e[k] = f[1..k] /\ e[k - 1] = f[1..k - 1]
      BY <2>1
    <2> QED BY <2>2, <2>3, <2>4, <2>5
  <1>5. e[n] = f[DOMAIN v]
    <2>1. n \in 0..n
      BY <1>1
    <2> QED BY <1>1, <2>1
  <1> HIDE DEF e
  <1>6. Turns(what, start, v, e)
    BY <1>3, <1>4 DEF Turns, n
  <1> QED BY <1>5, <1>6 DEF n

\* compactEdits is such a fold.
LEMMA CompactTurns ==
    ASSUME NEW v, Len(v) \in Nat, DOMAIN v = 1..Len(v)
    PROVE  \E h : Turns(<<"compact">>, <<>>, v, h) /\ h[Len(v)] = Compact(v)
  <1> DEFINE Is(f) == f = [s \in SUBSET DOMAIN v |->
                              IF s = {} THEN <<>> ELSE Joining(f[s \ {Max(s)}], v[Max(s)])]
             table == CHOOSE f : Is(f)
  <1>1. Compact(v) = table[DOMAIN v]
    BY DEF Compact, FoldLeft, MapThenFoldSet, Joining
  <1>2. \A f : Is(f) <=> IsTable(<<"compact">>, <<>>, v, f)
    BY DEF IsTable, Turn
  <1>3. \E f : Is(f)
    BY <1>2, TableExists
  <1>4. Is(table)
    BY <1>3
  <1> HIDE DEF Is, table
  <1>5. IsTable(<<"compact">>, <<>>, v, table)
    BY <1>2, <1>4
  <1> QED BY <1>1, <1>5, TableTurns

\* So is the reading of edits as changes of the old text.
AppliedTo(a, b, es) ==
    FoldLeft(LAMBDA t, e : [pos |-> e.oldEnd,
                            out |-> t.out \o SubSeq(a, t.pos + 1, e.oldStart)
                                          \o SubSeq(b, e.newStart + 1, e.newEnd)],
             [pos |-> 0, out |-> <<>>], es)

\* It is a fold of turns.
LEMMA AppliedTurns ==
    ASSUME NEW a, NEW b, NEW v, Len(v) \in Nat, DOMAIN v = 1..Len(v)
    PROVE  \E h : /\ Turns(<<"applied", a, b>>, [pos |-> 0, out |-> <<>>], v, h)
                  /\ h[Len(v)] = AppliedTo(a, b, v)
  <1> DEFINE start == [pos |-> 0, out |-> <<>>]
             what == <<"applied", a, b>>
             Is(f) == f = [s \in SUBSET DOMAIN v |->
                              IF s = {} THEN start ELSE Applying(a, b, f[s \ {Max(s)}], v[Max(s)])]
             table == CHOOSE f : Is(f)
  <1>1. AppliedTo(a, b, v) = table[DOMAIN v]
    BY DEF AppliedTo, FoldLeft, MapThenFoldSet, Applying
  <1>2. \A f : Is(f) <=> IsTable(what, start, v, f)
    BY DEF IsTable, Turn
  <1> HIDE DEF start, what
  <1>3. \E f : Is(f)
    BY <1>2, TableExists
  <1>4. Is(table)
    BY <1>3
  <1> HIDE DEF Is, table
  <1>5. IsTable(what, start, v, table)
    BY <1>2, <1>4
  <1>6. \E h : Turns(what, start, v, h) /\ h[Len(v)] = table[DOMAIN v]
    BY <1>5, TableTurns
  <1> QED BY <1>1, <1>6 DEF start, what

-----------------------------------------------------------------------------
(* Chains of edits *)

\* An edit of two texts; a position in both; the lines between two positions are
\* equal in both texts.
EditOf(a, b) ==
    {e \in [op : {"insert", "delete"}, oldStart : 0..Len(a), oldEnd : 0..Len(a),
            newStart : 0..Len(b), newEnd : 0..Len(b)] :
        e.oldStart <= e.oldEnd /\ e.newStart <= e.newEnd}
Place(a, b) == (0..Len(a)) \X (0..Len(b))
Gap(a, b, p, q) ==
    /\ p \in Place(a, b) /\ q \in Place(a, b)
    /\ p[1] <= q[1] /\ q[1] - p[1] = q[2] - p[2]
    /\ \A j \in 1..q[1] - p[1] : a[p[1] + j] = b[p[2] + j]

\* The edits lead from one position to another, with equal lines between them.
EndOf(e) == <<e.oldEnd, e.newEnd>>
StartOf(e) == <<e.oldStart, e.newStart>>
Before(es, p, i) == IF i = 1 THEN p ELSE EndOf(es[i - 1])
Behind(es, q, i) == IF i = Len(es) + 1 THEN q ELSE StartOf(es[i])
Chain(a, b, es, p, q) ==
    /\ es \in Seq(EditOf(a, b))
    /\ \A i \in 1..Len(es) + 1 : Gap(a, b, Before(es, p, i), Behind(es, q, i))

\* Where an edit starts and ends.
LEMMA EditIs ==
    ASSUME NEW a, NEW b, Len(a) \in Nat, Len(b) \in Nat, NEW e \in EditOf(a, b)
    PROVE  /\ e.oldStart \in 0..Len(a) /\ e.oldEnd \in 0..Len(a) /\ e.oldStart <= e.oldEnd
           /\ e.newStart \in 0..Len(b) /\ e.newEnd \in 0..Len(b) /\ e.newStart <= e.newEnd
           /\ StartOf(e) \in Place(a, b) /\ EndOf(e) \in Place(a, b)
           /\ StartOf(e)[1] = e.oldStart /\ StartOf(e)[2] = e.newStart
           /\ EndOf(e)[1] = e.oldEnd /\ EndOf(e)[2] = e.newEnd
  <1>1. /\ e.oldStart \in 0..Len(a) /\ e.oldEnd \in 0..Len(a) /\ e.oldStart <= e.oldEnd
        /\ e.newStart \in 0..Len(b) /\ e.newEnd \in 0..Len(b) /\ e.newStart <= e.newEnd
    BY DEF EditOf
  <1> QED BY <1>1 DEF StartOf, EndOf, Place

\* A position is at no distance from itself.
LEMMA GapNone ==
    ASSUME NEW a, NEW b, Len(a) \in Nat, Len(b) \in Nat, NEW p \in Place(a, b)
    PROVE  Gap(a, b, p, p)
  <1>1. p[1] \in Nat /\ p[2] \in Nat
    BY DEF Place
  <1> QED BY <1>1 DEF Gap

\* Equal lines and then equal lines are equal lines.
LEMMA GapsJoined ==
    ASSUME NEW a, NEW b, Len(a) \in Nat, Len(b) \in Nat,
           NEW p, NEW q, NEW r, Gap(a, b, p, q), Gap(a, b, q, r)
    PROVE  Gap(a, b, p, r)
  <1> DEFINE x == p[1]
             y == p[2]
             u == q[1]
             v == q[2]
             z == r[1]
             w == r[2]
             m == u - x
             n == z - u
             h == z - x
  <1>1. /\ p \in Place(a, b) /\ q \in Place(a, b) /\ r \in Place(a, b)
        /\ x <= u /\ u <= z /\ m = v - y /\ n = w - v
        /\ \A j \in 1..m : a[x + j] = b[y + j]
        /\ \A j \in 1..n : a[u + j] = b[v + j]
    BY DEF Gap
  <1>2. x \in Nat /\ y \in Nat /\ u \in Nat /\ v \in Nat /\ z \in Nat /\ w \in Nat
    BY <1>1 DEF Place
  <1> HIDE DEF x, y, u, v, z, w
  <1>3. x <= z /\ z - x = w - y
    BY <1>1, <1>2
  <1>4. m \in Nat /\ n \in Nat /\ h = m + n /\ x + m = u /\ y + m = v
    BY <1>1, <1>2
  <1> HIDE DEF m, n, h
  <1>6. ASSUME NEW j \in 1..h PROVE a[x + j] = b[y + j]
    <2>1. CASE j <= m
      <3>1. j \in 1..m
        BY <1>4, <2>1
      <3> QED BY <1>1, <3>1
    <2>2. CASE ~(j <= m)
      <3>1. PICK l \in 1..n : j = m + l
        <4>1. j - m \in 1..n /\ m + (j - m) = j
          BY <1>4, <2>2
        <4> QED BY <4>1
      <3>2. x + j = u + l /\ y + j = v + l
        BY <1>2, <1>4, <3>1
      <3>3. a[u + l] = b[v + l]
        BY <1>1, <3>1
      <3> QED BY <3>2, <3>3
    <2> QED BY <2>1, <2>2
  <1> QED BY <1>1, <1>3, <1>6 DEF Gap, h, x, y, z, w

\* The first line of a chain may be further back.
LEMMA ChainBack ==
    ASSUME NEW a, NEW b, Len(a) \in Nat, Len(b) \in Nat,
           NEW es, NEW p, NEW q, NEW r, Gap(a, b, p, q), Chain(a, b, es, q, r)
    PROVE  Chain(a, b, es, p, r)
  <1> SUFFICES ASSUME NEW i \in 1..Len(es) + 1 PROVE Gap(a, b, Before(es, p, i), Behind(es, r, i))
    BY DEF Chain
  <1>1. Gap(a, b, Before(es, q, i), Behind(es, r, i))
    BY DEF Chain
  <1>2. CASE i = 1
    <2>1. Before(es, q, i) = q /\ Before(es, p, i) = p
      BY <1>2 DEF Before
    <2> QED BY <1>1, <2>1, GapsJoined
  <1>3. CASE i # 1
    <2>1. Before(es, q, i) = Before(es, p, i)
      BY <1>3 DEF Before
    <2> QED BY <1>1, <2>1
  <1> QED BY <1>2, <1>3

\* No edits, and one more edit, at the end or at the front.
LEMMA ChainNone ==
    ASSUME NEW a, NEW b, Len(a) \in Nat, Len(b) \in Nat, NEW p, NEW q, Gap(a, b, p, q)
    PROVE  Chain(a, b, <<>>, p, q)
  <1>1. Len(<<>>) + 1 = 1 /\ <<>> \in Seq(EditOf(a, b))
    OBVIOUS
  <1>2. \A i \in 1..1 : i = 1
    OBVIOUS
  <1>3. Before(<<>>, p, 1) = p /\ Behind(<<>>, q, 1) = q
    BY <1>1 DEF Before, Behind
  <1> QED BY <1>1, <1>2, <1>3 DEF Chain

\* One more edit at the end, from where the chain leads.
LEMMA ChainAppended ==
    ASSUME NEW a, NEW b, Len(a) \in Nat, Len(b) \in Nat, NEW es, NEW p, NEW q, NEW e \in EditOf(a, b),
           Chain(a, b, es, p, StartOf(e)), Gap(a, b, EndOf(e), q)
    PROVE  Chain(a, b, Append(es, e), p, q)
  <1> DEFINE n == Len(es)
             s == Append(es, e)
  <1>1. es \in Seq(EditOf(a, b)) /\ n \in Nat
    BY DEF Chain
  <1>2. s \in Seq(EditOf(a, b)) /\ Len(s) = n + 1 /\ s[n + 1] = e /\ \A i \in 1..n : s[i] = es[i]
    BY <1>1
  <1>3. \A i \in 1..n + 1 : Gap(a, b, Before(es, p, i), Behind(es, StartOf(e), i))
    BY DEF Chain
  <1> HIDE DEF s
  <1>4. ASSUME NEW i \in 1..(n + 1) + 1 PROVE Gap(a, b, Before(s, p, i), Behind(s, q, i))
    <2>1. CASE i = (n + 1) + 1
      <3>1. Behind(s, q, i) = q
        BY <1>2, <2>1 DEF Behind
      <3>2. i # 1 /\ i - 1 = n + 1
        BY <1>1, <2>1
      <3>3. Before(s, p, i) = EndOf(e)
        BY <1>2, <3>2 DEF Before
      <3> QED BY <3>1, <3>3
    <2>2. CASE i # (n + 1) + 1
      <3>1. i \in 1..n + 1
        BY <1>1, <2>2
      <3>2. Before(s, p, i) = Before(es, p, i)
        <4>1. CASE i = 1
          BY <4>1 DEF Before
        <4>2. CASE i # 1
          <5>1. i - 1 \in 1..n
            BY <1>1, <3>1, <4>2
          <5>2. s[i - 1] = es[i - 1]
            BY <1>2, <5>1
          <5> QED BY <4>2, <5>2 DEF Before
        <4> QED BY <4>1, <4>2
      <3>3. Behind(s, q, i) = Behind(es, StartOf(e), i)
        <4>1. CASE i = n + 1
          BY <1>2, <2>2, <4>1 DEF Behind
        <4>2. CASE i # n + 1
          <5>1. i \in 1..n
            BY <1>1, <3>1, <4>2
          <5> QED BY <1>2, <2>2, <4>2, <5>1 DEF Behind
        <4> QED BY <4>1, <4>2
      <3>4. Gap(a, b, Before(es, p, i), Behind(es, StartOf(e), i))
        BY <1>3, <3>1
      <3> QED BY <3>2, <3>3, <3>4
    <2> QED BY <2>1, <2>2
  <1> QED BY <1>2, <1>4 DEF Chain, s

\* One more edit at the front, to where the chain starts.
LEMMA ChainPrefixed ==
    ASSUME NEW a, NEW b, Len(a) \in Nat, Len(b) \in Nat, NEW es, NEW p, NEW q, NEW e \in EditOf(a, b),
           Gap(a, b, p, StartOf(e)), Chain(a, b, es, EndOf(e), q)
    PROVE  Chain(a, b, <<e>> \o es, p, q)
  <1> DEFINE n == Len(es)
             s == <<e>> \o es
  <1>1. es \in Seq(EditOf(a, b)) /\ n \in Nat
    BY DEF Chain
  <1>2. /\ s \in Seq(EditOf(a, b)) /\ Len(s) = 1 + n /\ s[1] = e
        /\ \A i \in 1..n : s[1 + i] = es[i]
    <2>1. <<e>> \in Seq(EditOf(a, b)) /\ Len(<<e>>) = 1 /\ <<e>>[1] = e
      OBVIOUS
    <2>2. /\ s \in Seq(EditOf(a, b)) /\ Len(s) = Len(<<e>>) + Len(es)
          /\ \A j \in 1..Len(<<e>>) : s[j] = <<e>>[j]
          /\ \A j \in 1..Len(es) : s[Len(<<e>>) + j] = es[j]
      BY <1>1, <2>1, Joined
    <2> HIDE DEF s
    <2>3. 1 \in 1..Len(<<e>>)
      BY <2>1
    <2> QED BY <2>1, <2>2, <2>3
  <1>3. \A i \in 1..n + 1 : Gap(a, b, Before(es, EndOf(e), i), Behind(es, q, i))
    BY DEF Chain
  <1> HIDE DEF s
  <1>4. ASSUME NEW i \in 1..(1 + n) + 1 PROVE Gap(a, b, Before(s, p, i), Behind(s, q, i))
    <2>1. CASE i = 1
      <3>1. i # Len(s) + 1
        BY <1>1, <1>2, <2>1
      <3>2. Behind(s, q, i) = StartOf(e) /\ Before(s, p, i) = p
        BY <1>2, <2>1, <3>1 DEF Behind, Before
      <3> QED BY <3>2
    <2>2. CASE i # 1
      <3>1. PICK j \in 1..n + 1 : i = 1 + j
        <4>1. i - 1 \in 1..n + 1 /\ i = 1 + (i - 1)
          BY <1>1, <2>2
        <4> QED BY <4>1
      <3>2. Before(s, p, i) = Before(es, EndOf(e), j)
        <4>1. i - 1 = j
          BY <3>1
        <4>2. CASE j = 1
          BY <1>2, <2>2, <4>1, <4>2 DEF Before
        <4>3. CASE j # 1
          <5>1. PICK l \in 1..n : j = 1 + l
            <6>1. j - 1 \in 1..n /\ j = 1 + (j - 1)
              BY <1>1, <3>1, <4>3
            <6> QED BY <6>1
          <5>2. s[j] = es[l] /\ j - 1 = l
            BY <1>2, <5>1
          <5> QED BY <2>2, <4>1, <4>3, <5>2 DEF Before
        <4> QED BY <4>2, <4>3
      <3>3. Behind(s, q, i) = Behind(es, q, j)
        <4>1. CASE j = n + 1
          BY <1>1, <1>2, <3>1, <4>1 DEF Behind
        <4>2. CASE j # n + 1
          <5>1. j \in 1..n /\ i # (1 + n) + 1
            BY <1>1, <3>1, <4>2
          <5>2. s[i] = es[j]
            BY <1>2, <3>1, <5>1
          <5> QED BY <1>2, <4>2, <5>1, <5>2 DEF Behind
        <4> QED BY <4>1, <4>2
      <3> QED BY <1>3, <3>1, <3>2, <3>3
    <2> QED BY <2>1, <2>2
  <1>5. Len(s) + 1 = (1 + n) + 1
    BY <1>2
  <1> QED BY <1>2, <1>4, <1>5 DEF Chain, s

\* The last edit of a chain may take in the next one, with the lines between.
LEMMA ChainMerged ==
    ASSUME NEW a, NEW b, Len(a) \in Nat, Len(b) \in Nat, NEW es, NEW p, NEW q, NEW e \in EditOf(a, b),
           Chain(a, b, es, p, StartOf(e)), Gap(a, b, EndOf(e), q), es # <<>>
    PROVE  LET s == [es EXCEPT ![Len(es)].oldEnd = e.oldEnd, ![Len(es)].newEnd = e.newEnd]
           IN  /\ Chain(a, b, s, p, q) /\ Len(s) = Len(es)
               /\ \A i \in 1..Len(es) : i # Len(es) => s[i] = es[i]
               /\ s[Len(es)].oldStart = es[Len(es)].oldStart
               /\ s[Len(es)].oldEnd = e.oldEnd
               /\ es[Len(es)].oldEnd <= e.oldEnd /\ es[Len(es)].oldStart <= e.oldStart
  <1> DEFINE n == Len(es)
             s == [es EXCEPT ![n].oldEnd = e.oldEnd, ![n].newEnd = e.newEnd]
             l == es[n]
             c == [l EXCEPT !.oldEnd = e.oldEnd, !.newEnd = e.newEnd]
  <1>1. es \in Seq(EditOf(a, b)) /\ n \in Nat /\ n \in 1..n /\ l \in EditOf(a, b)
    BY DEF Chain
  <1>2. s = [es EXCEPT ![n] = c]
    BY <1>1
  <1>3. /\ l.oldStart \in 0..Len(a) /\ l.oldEnd \in 0..Len(a) /\ l.oldStart <= l.oldEnd
        /\ l.newStart \in 0..Len(b) /\ l.newEnd \in 0..Len(b) /\ l.newStart <= l.newEnd
    BY <1>1, EditIs
  <1>4. /\ e.oldStart \in 0..Len(a) /\ e.oldEnd \in 0..Len(a) /\ e.oldStart <= e.oldEnd
        /\ e.newStart \in 0..Len(b) /\ e.newEnd \in 0..Len(b) /\ e.newStart <= e.newEnd
    BY EditIs
  <1>5. \A i \in 1..n + 1 : Gap(a, b, Before(es, p, i), Behind(es, StartOf(e), i))
    BY DEF Chain
  <1>6. l.oldEnd <= e.oldStart /\ l.newEnd <= e.newStart
    <2>1. n + 1 \in 1..n + 1 /\ n + 1 # 1 /\ (n + 1) - 1 = n
      BY <1>1
    <2>2. Gap(a, b, EndOf(l), StartOf(e))
      BY <1>5, <2>1 DEF Before, Behind
    <2>3. EndOf(l)[1] <= StartOf(e)[1] /\ StartOf(e)[1] - EndOf(l)[1] = StartOf(e)[2] - EndOf(l)[2]
      BY <2>2 DEF Gap
    <2>4. /\ StartOf(e)[1] = e.oldStart /\ StartOf(e)[2] = e.newStart
          /\ EndOf(l)[1] = l.oldEnd /\ EndOf(l)[2] = l.newEnd
      BY DEF StartOf, EndOf
    <2>5. l.oldEnd <= e.oldStart /\ e.oldStart - l.oldEnd = e.newStart - l.newEnd
      BY <2>3, <2>4
    <2> HIDE DEF l
    <2> QED BY <1>3, <1>4, <2>5
  <1>7. c \in EditOf(a, b)
    <2>1. l.oldStart <= e.oldEnd /\ l.newStart <= e.newEnd
      <3> HIDE DEF l
      <3> QED BY <1>3, <1>4, <1>6
    <2>2. c.oldStart = l.oldStart /\ c.oldEnd = e.oldEnd /\ c.newStart = l.newStart /\ c.newEnd = e.newEnd
      BY <1>1 DEF EditOf
    <2>3. c \in [op : {"insert", "delete"}, oldStart : 0..Len(a), oldEnd : 0..Len(a),
                 newStart : 0..Len(b), newEnd : 0..Len(b)]
      BY <1>1, <1>4 DEF EditOf
    <2> HIDE DEF c, l
    <2> QED BY <2>1, <2>2, <2>3 DEF EditOf
  <1>8. StartOf(c) = StartOf(l) /\ EndOf(c) = EndOf(e) /\ c.oldStart = l.oldStart /\ c.oldEnd = e.oldEnd
    BY <1>1 DEF StartOf, EndOf, EditOf
  <1> HIDE DEF c
  <1>9. /\ s \in Seq(EditOf(a, b)) /\ Len(s) = n /\ s[n] = c
        /\ \A i \in 1..n : i # n => s[i] = es[i]
    <2> HIDE DEF s, l
    <2> QED BY <1>1, <1>2, <1>7
  <1> HIDE DEF s
  <1>10. ASSUME NEW i \in 1..n + 1 PROVE Gap(a, b, Before(s, p, i), Behind(s, q, i))
    <2>1. CASE i = n + 1
      <3>1. i # 1 /\ i - 1 = n
        BY <1>1, <2>1
      <3>2. Before(s, p, i) = EndOf(e)
        BY <1>8, <1>9, <3>1 DEF Before
      <3>3. Behind(s, q, i) = q
        BY <1>9, <2>1 DEF Behind
      <3> QED BY <3>2, <3>3
    <2>2. CASE i # n + 1
      <3>1. i \in 1..n
        BY <1>1, <2>2
      <3>2. Before(s, p, i) = Before(es, p, i)
        <4>1. CASE i = 1
          BY <4>1 DEF Before
        <4>2. CASE i # 1
          <5>1. i - 1 \in 1..n /\ i - 1 # n
            BY <1>1, <3>1, <4>2
          <5>2. s[i - 1] = es[i - 1]
            BY <1>9, <5>1
          <5> QED BY <4>2, <5>2 DEF Before
        <4> QED BY <4>1, <4>2
      <3>3. Behind(s, q, i) = Behind(es, StartOf(e), i)
        <4>1. StartOf(s[i]) = StartOf(es[i])
          <5>1. CASE i = n
            BY <1>8, <1>9, <5>1
          <5>2. CASE i # n
            BY <1>9, <3>1, <5>2
          <5> QED BY <5>1, <5>2
        <4> QED BY <1>9, <2>2, <4>1 DEF Behind
      <3> QED BY <1>5, <3>2, <3>3
    <2> QED BY <2>1, <2>2
  <1>11. Chain(a, b, s, p, q)
    BY <1>9, <1>10 DEF Chain
  <1>12. l.oldEnd <= e.oldEnd /\ l.oldStart <= e.oldStart
    <2> HIDE DEF l
    <2> QED BY <1>3, <1>4, <1>6
  <1> QED BY <1>8, <1>9, <1>11, <1>12 DEF s, l, n

\* The first edits of a chain lead to the start of the next one.
LEMMA ChainStart ==
    ASSUME NEW a, NEW b, Len(a) \in Nat, Len(b) \in Nat, NEW es, NEW p, NEW q,
           Chain(a, b, es, p, q), NEW i \in 1..Len(es)
    PROVE  /\ es[i] \in EditOf(a, b)
           /\ Gap(a, b, EndOf(es[i]), Behind(es, q, i + 1))
           /\ Behind(es, q, i) = StartOf(es[i])
  <1>1. es \in Seq(EditOf(a, b)) /\ Len(es) \in Nat
    BY DEF Chain
  <1>2. i + 1 \in 1..Len(es) + 1 /\ i + 1 # 1 /\ (i + 1) - 1 = i /\ i # Len(es) + 1
    BY <1>1
  <1>3. Gap(a, b, Before(es, p, i + 1), Behind(es, q, i + 1))
    BY <1>2 DEF Chain
  <1> QED BY <1>1, <1>2, <1>3 DEF Before, Behind

\* Merging neighbours keeps where a chain leads, and what its edits cover.
Covered(es, cs) ==
    \A i \in 1..Len(es) : \E j \in 1..Len(cs) :
        cs[j].oldStart <= es[i].oldStart /\ es[i].oldEnd <= cs[j].oldEnd

\* Merging keeps the chain, and covers the old lines of every edit.
LEMMA CompactChain ==
    ASSUME NEW a, NEW b, Len(a) \in Nat, Len(b) \in Nat, NEW es, NEW p, NEW q, Chain(a, b, es, p, q)
    PROVE  Chain(a, b, Compact(es), p, q) /\ Covered(es, Compact(es))
  <1> DEFINE n == Len(es)
  <1>1. es \in Seq(EditOf(a, b)) /\ n \in Nat /\ DOMAIN es = 1..n
    BY DEF Chain
  <1>2. PICK h : Turns(<<"compact">>, <<>>, es, h) /\ h[n] = Compact(es)
    BY <1>1, CompactTurns
  <1>3. h[0] = <<>> /\ \A k \in 1..n : h[k] = Joining(h[k - 1], es[k])
    BY <1>2 DEF Turns, Turn
  <1> DEFINE Inside(i, j, k) == h[k][j].oldStart <= es[i].oldStart /\ es[i].oldEnd <= h[k][j].oldEnd
             Fine(k) == /\ Chain(a, b, h[k], p, Behind(es, q, k + 1))
                        /\ \A i \in 1..k : \E j \in 1..Len(h[k]) : Inside(i, j, k)
             good == {k \in 0..n : Fine(k)}
  <1>4. Fine(0)
    <2>1. 1 \in 1..n + 1 /\ 0 + 1 = 1
      BY <1>1
    <2>2. Gap(a, b, p, Behind(es, q, 1))
      BY <2>1 DEF Chain, Before
    <2>3. Chain(a, b, <<>>, p, Behind(es, q, 1))
      BY <2>2, ChainNone
    <2>4. \A i \in 1..0 : FALSE
      OBVIOUS
    <2> QED BY <1>3, <2>1, <2>3, <2>4
  <1>5. ASSUME NEW k \in 1..n, Fine(k - 1) PROVE Fine(k)
    <2> DEFINE e == es[k]
               d == h[k - 1]
               c == h[k]
               r == Behind(es, q, k + 1)
    <2>1. k \in Nat /\ k - 1 \in Nat /\ (k - 1) + 1 = k
      OBVIOUS
    <2>2. e \in EditOf(a, b) /\ Gap(a, b, EndOf(e), r) /\ Behind(es, q, k) = StartOf(e)
      BY ChainStart
    <2>3. Chain(a, b, d, p, StartOf(e))
      BY <1>5, <2>1, <2>2
    <2>4. \A i \in 1..k - 1 : \E j \in 1..Len(d) :
              d[j].oldStart <= es[i].oldStart /\ es[i].oldEnd <= d[j].oldEnd
      BY <1>5
    <2>5. d \in Seq(EditOf(a, b)) /\ Len(d) \in Nat
      BY <2>3 DEF Chain
    <2>6. c = Joining(d, e)
      BY <1>3
    <2>7. \A i \in 1..k : i = k \/ i \in 1..k - 1
      BY <2>1
    <2>8. e.oldStart \in Int /\ e.oldEnd \in Int /\ \A i \in 1..k - 1 : es[i].oldStart \in Int /\ es[i].oldEnd \in Int
      <3>1. \A i \in 1..n : es[i] \in EditOf(a, b)
        BY <1>1
      <3>2. \A i \in 1..n : es[i].oldStart \in Int /\ es[i].oldEnd \in Int
        BY <3>1 DEF EditOf
      <3> QED BY <2>1, <3>2
    <2>9. CASE d # <<>> /\ Last(d).op = e.op
      <3> DEFINE m == Len(d)
      <3>1. c = [d EXCEPT ![m].oldEnd = e.oldEnd, ![m].newEnd = e.newEnd]
        BY <2>6, <2>9 DEF Joining
      <3>2. /\ Chain(a, b, c, p, r) /\ Len(c) = m
            /\ \A i \in 1..m : i # m => c[i] = d[i]
            /\ c[m].oldStart = d[m].oldStart /\ c[m].oldEnd = e.oldEnd
            /\ d[m].oldEnd <= e.oldEnd /\ d[m].oldStart <= e.oldStart
        <4>1. d # <<>> /\ Gap(a, b, EndOf(e), r)
          BY <2>2, <2>9
        <4> HIDE DEF e, d, c, r
        <4> DEFINE s == [d EXCEPT ![Len(d)].oldEnd = e.oldEnd, ![Len(d)].newEnd = e.newEnd]
        <4>2. /\ Chain(a, b, s, p, r) /\ Len(s) = Len(d)
              /\ \A i \in 1..Len(d) : i # Len(d) => s[i] = d[i]
              /\ s[Len(d)].oldStart = d[Len(d)].oldStart
              /\ s[Len(d)].oldEnd = e.oldEnd
              /\ d[Len(d)].oldEnd <= e.oldEnd /\ d[Len(d)].oldStart <= e.oldStart
          BY <2>2, <2>3, <4>1, ChainMerged, Zenon
        <4>3. c = s
          BY <3>1
        <4> HIDE DEF s
        <4> QED BY <4>2, <4>3
      <3>3. m \in 1..m /\ d[m] \in EditOf(a, b)
        BY <2>5, <2>9
      <3>4. d[m].oldEnd \in Int /\ d[m].oldStart \in Int
        BY <3>3 DEF EditOf
      <3> HIDE DEF e, d, c, r, m
      <3>5. ASSUME NEW i \in 1..k
            PROVE  \E j \in 1..m : c[j].oldStart <= es[i].oldStart /\ es[i].oldEnd <= c[j].oldEnd
        <4>1. CASE i = k
          <5>1. c[m].oldStart <= e.oldStart /\ e.oldEnd <= c[m].oldEnd
            BY <2>8, <3>2
          <5> QED BY <3>3, <4>1, <5>1 DEF e
        <4>2. CASE i \in 1..k - 1
          <5>1. PICK j \in 1..m : d[j].oldStart <= es[i].oldStart /\ es[i].oldEnd <= d[j].oldEnd
            BY <2>4, <4>2 DEF m
          <5>2. CASE j = m
            <6>1. c[m].oldStart <= es[i].oldStart
              BY <3>2, <5>1, <5>2
            <6>2. es[i].oldEnd <= c[m].oldEnd
              BY <2>8, <3>2, <3>4, <4>2, <5>1, <5>2
            <6> QED BY <3>3, <6>1, <6>2
          <5>3. CASE j # m
            <6>1. c[j] = d[j]
              BY <3>2, <5>3
            <6> QED BY <5>1, <6>1
          <5> QED BY <5>2, <5>3
        <4> QED BY <2>7, <4>1, <4>2
      <3> QED BY <3>2, <3>5 DEF c, r
    <2>10. CASE ~(d # <<>> /\ Last(d).op = e.op)
      <3> DEFINE m == Len(d)
      <3>1. c = Append(d, e)
        BY <2>6, <2>10 DEF Joining
      <3>2. Chain(a, b, c, p, r)
        <4> HIDE DEF e, d, c, r
        <4> QED BY <2>2, <2>3, <3>1, ChainAppended
      <3> HIDE DEF e, d, c, r
      <3>3. Len(c) = m + 1 /\ c[m + 1] = e /\ \A i \in 1..m : c[i] = d[i]
        BY <2>2, <2>5, <3>1
      <3>4. m \in Nat /\ m + 1 \in 1..m + 1 /\ \A i \in 1..m : i \in 1..m + 1
        BY <2>5
      <3>5. e.oldStart <= e.oldStart /\ e.oldEnd <= e.oldEnd
        BY <2>8
      <3> HIDE DEF m
      <3>6. ASSUME NEW i \in 1..k
            PROVE  \E j \in 1..m + 1 : c[j].oldStart <= es[i].oldStart /\ es[i].oldEnd <= c[j].oldEnd
        <4>1. CASE i = k
          BY <3>3, <3>4, <3>5, <4>1 DEF e
        <4>2. CASE i \in 1..k - 1
          <5>1. PICK j \in 1..m : d[j].oldStart <= es[i].oldStart /\ es[i].oldEnd <= d[j].oldEnd
            BY <2>4, <4>2 DEF m
          <5>2. c[j] = d[j] /\ j \in 1..m + 1
            BY <3>3, <3>4
          <5> QED BY <5>1, <5>2
        <4> QED BY <2>7, <4>1, <4>2
      <3> QED BY <3>2, <3>3, <3>6 DEF c, r
    <2> QED BY <2>9, <2>10
  <1> HIDE DEF Fine
  <1>6. n \in good
    <2>1. 0 \in good /\ n \in 0..n
      BY <1>1, <1>4
    <2>2. \A k \in 0..n - 1 : k \in good => k + 1 \in good
      <3> TAKE k \in 0..n - 1
      <3> HAVE k \in good
      <3> DEFINE j == k + 1
      <3>1. j \in 1..n /\ j - 1 = k /\ j \in 0..n
        BY <1>1
      <3> HIDE DEF j
      <3>2. Fine(j - 1)
        BY <3>1
      <3>3. Fine(j)
        BY <1>5, <3>1, <3>2
      <3> QED BY <3>1, <3>3 DEF j
    <2> HIDE DEF good, n
    <2> QED BY <1>1, <2>1, <2>2, Induction
  <1>7. Fine(n)
    BY <1>6
  <1>8. Behind(es, q, n + 1) = q
    BY DEF Behind
  <1> QED BY <1>2, <1>7, <1>8 DEF Fine, Covered

\* Equal lines are the same cut of both texts.
LEMMA GapCut ==
    ASSUME NEW S, NEW a \in Seq(S), NEW b \in Seq(S), NEW p, NEW q, Gap(a, b, p, q)
    PROVE  /\ Cut(a, p[1], q[1]) = Cut(b, p[2], q[2])
           /\ p[1] \in Nat /\ p[2] \in Nat /\ q[1] \in Nat /\ q[2] \in Nat
           /\ p[1] <= q[1] /\ p[2] <= q[2] /\ q[1] <= Len(a) /\ q[2] <= Len(b)
  <1> DEFINE x == p[1]
             y == p[2]
             u == q[1]
             v == q[2]
             m == u - x
             s == Cut(a, x, u)
             r == Cut(b, y, v)
  <1>1. /\ x \in Nat /\ y \in Nat /\ u \in Nat /\ v \in Nat /\ u <= Len(a) /\ v <= Len(b)
        /\ x <= u /\ m = v - y
        /\ \A j \in 1..m : a[x + j] = b[y + j]
    BY DEF Gap, Place
  <1> HIDE DEF x, y, u, v
  <1>2. y <= v /\ m \in Nat
    BY <1>1
  <1>3. s \in Seq(S) /\ Len(s) = u - x /\ \A j \in 1..u - x : s[j] = a[x + j]
    <2>1. x \in Nat /\ u \in Nat /\ x <= u /\ u <= Len(a)
      BY <1>1
    <2> QED BY <2>1, CutIs
  <1>4. r \in Seq(S) /\ Len(r) = v - y /\ \A j \in 1..v - y : r[j] = b[y + j]
    BY <1>1, <1>2, CutIs
  <1> HIDE DEF s, r
  <1>5. Len(s) = Len(r) /\ \A j \in 1..Len(s) : s[j] = r[j]
    BY <1>1, <1>3, <1>4
  <1>6. s = r
    BY <1>3, <1>4, <1>5, SeqEqual
  <1> QED BY <1>1, <1>2, <1>6 DEF s, r, x, y, u, v

\* What a chain over the whole of two texts makes of the first is the second.
LEMMA ChainApplied ==
    ASSUME NEW S, NEW a \in Seq(S), NEW b \in Seq(S), NEW es,
           Chain(a, b, es, <<0, 0>>, <<Len(a), Len(b)>>)
    PROVE  AppliedTo(a, b, es).out \o SubSeq(a, AppliedTo(a, b, es).pos + 1, Len(a)) = b
  <1> DEFINE n == Len(es)
             o == <<0, 0>>
             z == <<Len(a), Len(b)>>
             start == [pos |-> 0, out |-> <<>>]
  <1>1. es \in Seq(EditOf(a, b)) /\ n \in Nat /\ DOMAIN es = 1..n
    BY DEF Chain
  <1>2. Chain(a, b, es, o, z) /\ o[1] = 0 /\ o[2] = 0 /\ z[1] = Len(a) /\ z[2] = Len(b)
        /\ Len(a) \in Nat /\ Len(b) \in Nat
    OBVIOUS
  <1>3. PICK h : Turns(<<"applied", a, b>>, start, es, h) /\ h[n] = AppliedTo(a, b, es)
    BY <1>1, AppliedTurns
  <1>4. h[0] = start /\ \A k \in 1..n : h[k] = Applying(a, b, h[k - 1], es[k])
    <2> DEFINE what == <<"applied", a, b>>
    <2>1. what[1] = "applied" /\ what[2] = a /\ what[3] = b
      OBVIOUS
    <2>2. Turns(what, start, es, h)
      BY <1>3
    <2> HIDE DEF what, start
    <2>3. \A r, x : Turn(what, r, x) = Applying(a, b, r, x)
      BY <2>1 DEF Turn
    <2> QED BY <2>2, <2>3 DEF Turns
  <1> HIDE DEF o, z, n
  <1> DEFINE Fine(k) == /\ h[k].pos = Before(es, o, k + 1)[1]
                        /\ h[k].out = Cut(b, 0, Before(es, o, k + 1)[2])
             good == {k \in 0..n : Fine(k)}
  <1>5. Fine(0)
    <2>1. Before(es, o, 0 + 1) = o
      BY DEF Before
    <2>2. Cut(b, 0, 0) = <<>>
      BY DEF Cut
    <2> QED BY <1>2, <1>4, <2>1, <2>2
  <1>6. ASSUME NEW k \in 1..n, Fine(k - 1) PROVE Fine(k)
    <2> DEFINE e == es[k]
               p == Before(es, o, k)
               q == StartOf(e)
               y == p[2]
               v == q[2]
               w == e.newEnd
    <2>1. (k - 1) + 1 = k /\ k \in 1..n + 1 /\ k + 1 # 1 /\ (k + 1) - 1 = k /\ k # n + 1
      BY <1>1
    <2>2. e \in EditOf(a, b) /\ Behind(es, z, k) = q
      <3>1. k \in 1..Len(es)
        BY DEF n
      <3>2. Chain(a, b, es, o, z)
        BY <1>2
      <3>3. Len(a) \in Nat /\ Len(b) \in Nat
        BY <1>2
      <3> HIDE DEF e, q
      <3>4. es[k] \in EditOf(a, b) /\ Behind(es, z, k) = StartOf(es[k])
        BY <3>1, <3>2, <3>3, ChainStart
      <3> QED BY <3>4 DEF e, q
    <2>3. Gap(a, b, p, q)
      <3>1. Gap(a, b, Before(es, o, k), Behind(es, z, k))
        BY <1>2, <2>1 DEF Chain, n
      <3> QED BY <2>2, <3>1
    <2>4. Before(es, o, k + 1) = EndOf(e)
      BY <2>1 DEF Before
    <2>5. h[k] = Applying(a, b, h[k - 1], e)
      BY <1>4
    <2>6. h[k - 1].pos = p[1] /\ h[k - 1].out = Cut(b, 0, y)
      BY <1>6, <2>1
    <2>7. q[1] = e.oldStart /\ v = e.newStart /\ EndOf(e)[1] = e.oldEnd /\ EndOf(e)[2] = w
      BY <2>2 DEF StartOf, EndOf
    <2>8. /\ h[k].pos = e.oldEnd
          /\ h[k].out = Cut(b, 0, y) \o Cut(a, p[1], q[1]) \o Cut(b, v, w)
      <3> DEFINE g == h[k - 1]
      <3> HIDE DEF e, p, q, v, y, g
      <3> DEFINE l == SubSeq(a, g.pos + 1, e.oldStart)
                 r == SubSeq(b, e.newStart + 1, e.newEnd)
                 x == g.out \o l \o r
      <3>1. h[k] = [pos |-> e.oldEnd, out |-> x]
        BY <2>5 DEF Applying, g
      <3>2. l = Cut(a, p[1], q[1])
        BY <2>6, <2>7 DEF Cut, g
      <3>3. r = Cut(b, v, w)
        BY <2>7 DEF Cut, w
      <3>4. g.out = Cut(b, 0, y)
        BY <2>6 DEF g
      <3> HIDE DEF w, l, r
      <3>5. x = Cut(b, 0, y) \o Cut(a, p[1], q[1]) \o Cut(b, v, w)
        BY <3>2, <3>3, <3>4
      <3> HIDE DEF x
      <3> QED BY <3>1, <3>5
    <2> HIDE DEF e, p, q
    <2>9. /\ Cut(a, p[1], q[1]) = Cut(b, y, v) /\ y \in Nat /\ v \in Nat /\ y <= v /\ v <= Len(b)
      BY <2>3, GapCut
    <2>10. w \in Nat /\ v <= w /\ w <= Len(b)
      BY <1>2, <2>2, <2>7, EditIs
    <2> HIDE DEF y, v, w
    <2>11. Cut(b, 0, y) \o Cut(b, y, v) = Cut(b, 0, v)
      <3>1. 0 <= y
        BY <2>9
      <3> QED BY <2>9, <3>1, CutsJoined
    <2>12. Cut(b, 0, v) \o Cut(b, v, w) = Cut(b, 0, w)
      <3>1. 0 <= v
        BY <2>9
      <3> QED BY <2>9, <2>10, <3>1, CutsJoined
    <2>13. h[k].out = Cut(b, 0, w)
      BY <2>8, <2>9, <2>11, <2>12
    <2> QED BY <2>4, <2>7, <2>8, <2>13
  <1> HIDE DEF Fine
  <1>7. n \in good
    <2>1. 0 \in good /\ n \in 0..n
      BY <1>1, <1>5
    <2>2. \A k \in 0..n - 1 : k \in good => k + 1 \in good
      <3> TAKE k \in 0..n - 1
      <3> HAVE k \in good
      <3> DEFINE j == k + 1
      <3>1. j \in 1..n /\ j - 1 = k /\ j \in 0..n
        BY <1>1
      <3> HIDE DEF j
      <3>2. Fine(j - 1)
        BY <3>1
      <3>3. Fine(j)
        BY <1>6, <3>1, <3>2
      <3> QED BY <3>1, <3>3 DEF j
    <2> HIDE DEF good
    <2> QED BY <1>1, <2>1, <2>2, Induction
  <1> DEFINE p == Before(es, o, n + 1)
             y == p[2]
  <1>8. h[n].pos = p[1] /\ h[n].out = Cut(b, 0, y)
    BY <1>7 DEF Fine
  <1>9. Gap(a, b, p, z)
    <2>1. n + 1 \in 1..n + 1
      BY <1>1
    <2>2. Behind(es, z, n + 1) = z
      BY DEF Behind, n
    <2> QED BY <1>2, <2>1, <2>2 DEF Chain, n
  <1> HIDE DEF p
  <1>10. Cut(a, p[1], Len(a)) = Cut(b, y, Len(b)) /\ y \in Nat /\ y <= Len(b)
    BY <1>2, <1>9, GapCut
  <1> HIDE DEF y
  <1>11. Cut(b, 0, y) \o Cut(b, y, Len(b)) = Cut(b, 0, Len(b))
    <2>1. 0 <= y /\ Len(b) <= Len(b)
      BY <1>2, <1>10
    <2> QED BY <1>2, <1>10, <2>1, CutsJoined
  <1>12. Cut(b, 0, Len(b)) = b
    BY DEF Cut
  <1>13. h[n].out \o Cut(a, h[n].pos, Len(a)) = b
    BY <1>8, <1>10, <1>11, <1>12
  <1> QED BY <1>3, <1>13 DEF Cut

-----------------------------------------------------------------------------
(* The search *)

\* A run ends in both texts and its lines are equal.
LEMMA RunIs ==
    ASSUME NEW S, NEW a \in Seq(S), NEW b \in Seq(S), NEW x \in Nat, NEW y \in Int
    PROVE  /\ Run(a, b, x, y) \in Nat
           /\ \A i \in 1..Run(a, b, x, y) :
                 x + i <= Len(a) /\ y + i <= Len(b) /\ a[x + i] = b[y + i]
  <1> DEFINE n == Len(a)
             s == {i \in 0..n : \/ x + i >= n \/ y + i >= Len(b) \/ a[x + i + 1] # b[y + i + 1]}
             r == Run(a, b, x, y)
  <1>1. n \in Nat /\ Len(b) \in Nat /\ n \in s
    OBVIOUS
  <1>2. r = Min(s)
    BY DEF Run
  <1>3. r \in s /\ \A i \in s : r <= i
    <2>1. s \in SUBSET Nat /\ s # {}
      BY <1>1
    <2> HIDE DEF s, r
    <2> QED BY <1>2, <2>1, LeastIs
  <1>4. r \in Nat /\ r <= n
    BY <1>1, <1>3
  <1> HIDE DEF r
  <1>5. ASSUME NEW i \in 1..r PROVE x + i <= n /\ y + i <= Len(b) /\ a[x + i] = b[y + i]
    <2> DEFINE j == i - 1
    <2>1. j \in 0..n /\ ~(r <= j) /\ x + j + 1 = x + i /\ y + j + 1 = y + i
      BY <1>1, <1>4
    <2> HIDE DEF j
    <2>2. j \notin s
      BY <1>3, <2>1
    <2>3. ~(x + j >= n) /\ ~(y + j >= Len(b)) /\ a[x + j + 1] = b[y + j + 1]
      BY <2>1, <2>2
    <2>4. x + j + 1 <= n /\ y + j + 1 <= Len(b)
      BY <1>1, <2>1, <2>3
    <2> QED BY <2>1, <2>3, <2>4
  <1> QED BY <1>4, <1>5 DEF r

\* The trace as its turns.
Numbers(n) == [i \in 1..n |-> i]
Zeros(n) == [k \in -n..n |-> 0]

\* The trace is a fold of turns over the rounds.
LEMMA TraceTurns ==
    ASSUME NEW a, NEW b, NEW n \in Nat, n = Len(a) + Len(b)
    PROVE  \E h : Turns(<<"trace", a, b>>, <<Zeros(n)>>, Numbers(n), h) /\ h[n] = Trace(a, b)
  <1> DEFINE v == Numbers(n)
             start == <<Zeros(n)>>
             what == <<"trace", a, b>>
             Is(f) == f = [s \in SUBSET DOMAIN v |->
                              IF s = {} THEN start
                              ELSE Append(f[s \ {Max(s)}],
                                          Round(a, b, Last(f[s \ {Max(s)}]), v[Max(s)] - 1))]
             table == CHOOSE f : Is(f)
  <1>1. Len(v) = n /\ DOMAIN v = 1..n
    BY DEF Numbers
  <1>2. Trace(a, b) = table[DOMAIN v]
    BY DEF Trace, FoldLeft, MapThenFoldSet, Zeros, Numbers
  <1> HIDE DEF v, start
  <1>3. \A f : Is(f) <=> IsTable(what, start, v, f)
    BY DEF IsTable, Turn
  <1> HIDE DEF what
  <1>4. \E f : Is(f)
    BY <1>1, <1>3, TableExists
  <1>5. Is(table)
    BY <1>4
  <1> HIDE DEF Is, table
  <1>6. IsTable(what, start, v, table)
    BY <1>3, <1>5
  <1>7. \E h : Turns(what, start, v, h) /\ h[Len(v)] = table[DOMAIN v]
    BY <1>1, <1>6, TableTurns
  <1> QED BY <1>1, <1>2, <1>7 DEF start, what, v

\* A round reaches some position on each of its diagonals, from the v it is given.
LEMMA ReachIs ==
    ASSUME NEW S, NEW a \in Seq(S), NEW b \in Seq(S), NEW n \in Nat, n = Len(a) + Len(b), n # 0,
           NEW v \in [-n..n -> Nat], NEW d \in 0..n, NEW k \in Diagonals(d)
    PROVE  /\ k \in -n..n /\ k \in -d..d
           /\ Entry(v, d, k) \in Nat
           /\ Reach(a, b, v, d, k) = Entry(v, d, k) + Run(a, b, Entry(v, d, k), Entry(v, d, k) - k)
           /\ Reach(a, b, v, d, k) \in Nat
  <1> DEFINE x == Entry(v, d, k)
  <1>1. k \in -d..d /\ k \in -n..n /\ k \in Int
    BY DEF Diagonals
  <1>2. x \in Nat
    <2>1. CASE k = -d
      <3>1. k + 1 \in -n..n
        BY <1>1, <2>1
      <3>2. Down(v, d, k)
        BY <2>1 DEF Down
      <3> QED BY <3>1, <3>2 DEF Entry
    <2>2. CASE k # -d /\ Down(v, d, k)
      <3>1. k # d
        BY <2>2 DEF Down
      <3>2. k + 1 \in -n..n
        BY <1>1, <3>1
      <3> QED BY <2>2, <3>2 DEF Entry
    <2>3. CASE k # -d /\ ~Down(v, d, k)
      <3>1. k - 1 \in -n..n
        BY <1>1, <2>3
      <3>2. v[k - 1] \in Nat /\ x = v[k - 1] + 1
        BY <2>3, <3>1 DEF Entry
      <3> QED BY <3>2
    <2> QED BY <2>1, <2>2, <2>3
  <1>3. Reach(a, b, v, d, k) = x + Run(a, b, x, x - k)
    BY DEF Reach
  <1> HIDE DEF x
  <1>4. x - k \in Int
    BY <1>1, <1>2
  <1>5. Run(a, b, x, x - k) \in Nat
    BY <1>2, <1>4, RunIs
  <1>6. Reach(a, b, v, d, k) \in Nat
    BY <1>2, <1>3, <1>5
  <1> QED BY <1>1, <1>2, <1>3, <1>6 DEF x

\* A round writes its diagonals, one after the other, and leaves the others.
Rounded(a, b, n, v, d) == [k \in -n..n |-> IF k \in Diagonals(d) THEN Reach(a, b, v, d, k) ELSE v[k]]

\* What is written on one diagonal is not read for another.
LEMMA RoundIs ==
    ASSUME NEW S, NEW a \in Seq(S), NEW b \in Seq(S), NEW n \in Nat, n = Len(a) + Len(b), n # 0,
           NEW v \in [-n..n -> Nat], NEW d \in 0..n
    PROVE  Round(a, b, v, d) = Rounded(a, b, n, v, d)
  <1> DEFINE e == d + 1
             ks == [i \in 1..e |-> 2 * (i - 1) - d]
             what == <<"round", a, b, v, d>>
             R(k) == Reach(a, b, v, d, k)
             Is(f) == f = [s \in SUBSET DOMAIN ks |->
                              IF s = {} THEN v
                              ELSE Writing(a, b, v, d, f[s \ {Max(s)}], ks[Max(s)])]
             table == CHOOSE f : Is(f)
  <1>1. e \in Nat /\ Len(ks) = e /\ Len(ks) \in Nat /\ DOMAIN ks = 1..e /\ DOMAIN ks = 1..Len(ks)
    OBVIOUS
  <1>2. Round(a, b, v, d) = table[DOMAIN ks]
    BY DEF Round, FoldLeft, MapThenFoldSet, Writing
  <1>3. \A i \in 1..e : ks[i] = 2 * (i - 1) - d
    OBVIOUS
  <1>4. \A k : R(k) = Reach(a, b, v, d, k)
    OBVIOUS
  <1>5. \A r, x : Turn(what, r, x) = [r EXCEPT ![x] = R(x)]
    BY DEF Turn, Writing
  <1> HIDE DEF ks, R
  <1>6. \A f : Is(f) <=> IsTable(what, v, ks, f)
    BY DEF IsTable, Turn
  <1> HIDE DEF what
  <1>7. \E f : Is(f)
    BY <1>1, <1>6, TableExists
  <1>8. Is(table)
    BY <1>7
  <1> HIDE DEF Is, table
  <1>9. IsTable(what, v, ks, table)
    BY <1>6, <1>8
  <1>10. PICK h : Turns(what, v, ks, h) /\ h[Len(ks)] = table[DOMAIN ks]
    BY <1>1, <1>9, TableTurns
  <1>11. h[0] = v /\ \A i \in 1..e : h[i] = [h[i - 1] EXCEPT ![ks[i]] = R(ks[i])]
    BY <1>1, <1>5, <1>10 DEF Turns
  <1> DEFINE Fine(j) == h[j] = [k \in -n..n |-> IF \E i \in 1..j : k = ks[i] THEN R(k) ELSE v[k]]
             good == {j \in 0..e : Fine(j)}
  <1>12. 0 \in good
    <2>1. v = [k \in -n..n |-> v[k]]
      OBVIOUS
    <2>2. \A k : ~\E i \in 1..0 : k = ks[i]
      OBVIOUS
    <2>3. 0 \in 0..e
      BY <1>1
    <2> QED BY <1>11, <2>1, <2>2, <2>3
  <1>13. ASSUME NEW j \in 0..e - 1, j \in good PROVE j + 1 \in good
    <2> DEFINE l == j + 1
    <2>1. l \in 1..e /\ l \in 0..e /\ l - 1 = j /\ 1..l = 1..j \cup {l}
      BY <1>1
    <2> HIDE DEF l
    <2>2. h[l] = [h[j] EXCEPT ![ks[l]] = R(ks[l])]
      BY <1>11, <2>1
    <2>3. h[j] = [k \in -n..n |-> IF \E i \in 1..j : k = ks[i] THEN R(k) ELSE v[k]]
      BY <1>13
    <2>4. \A k : (\E i \in 1..l : k = ks[i]) <=> (k = ks[l] \/ \E i \in 1..j : k = ks[i])
      BY <2>1
    <2>5. h[l] = [k \in -n..n |-> IF k = ks[l] THEN R(k) ELSE h[j][k]]
      BY <2>2, <2>3
    <2> DEFINE Left(k) == IF k = ks[l] THEN R(k) ELSE h[j][k]
               Right(k) == IF \E i \in 1..l : k = ks[i] THEN R(k) ELSE v[k]
    <2>6. ASSUME NEW k \in -n..n PROVE Left(k) = Right(k)
      <3>1. h[j][k] = IF \E i \in 1..j : k = ks[i] THEN R(k) ELSE v[k]
        BY <2>3
      <3>2. (\E i \in 1..l : k = ks[i]) <=> (k = ks[l] \/ \E i \in 1..j : k = ks[i])
        BY <2>4
      <3> QED BY <3>1, <3>2, Zenon
    <2>7. Fine(l)
      <3>1. h[l] = [k \in -n..n |-> Left(k)]
        BY <2>5
      <3> HIDE DEF Left, Right
      <3>2. h[l] = [k \in -n..n |-> Right(k)]
        BY <2>6, <3>1
      <3> QED BY <3>2 DEF Right
    <2> QED BY <2>1, <2>7 DEF l
  <1>14. Fine(e)
    <2>1. e \in 0..e
      BY <1>1
    <2> HIDE DEF good, Fine, e
    <2>2. e \in good
      BY <1>1, <1>12, <1>13, <2>1, Induction
    <2> QED BY <2>2 DEF good
  <1>15. ASSUME NEW k \in -n..n PROVE (\E i \in 1..e : k = ks[i]) <=> k \in Diagonals(d)
    <2>1. ASSUME NEW i \in 1..e, k = ks[i] PROVE k \in Diagonals(d)
      <3> DEFINE m == i - 1
      <3>1. m \in 0..d /\ ks[i] = 2 * m - d
        BY <1>3, <2>1
      <3> HIDE DEF m
      <3>2. k = 2 * m - d
        BY <2>1, <3>1
      <3>3. m \in Nat /\ d \in Nat /\ k + d = 2 * m /\ -d <= k /\ k <= d
        BY <3>1, <3>2
      <3>4. \A x \in Int : x = 2 * m => x % 2 = 0
        BY <3>3
      <3>5. k \in -d..d
        BY <3>3
      <3>6. k + d \in Int /\ k + d = 2 * m
        BY <3>3
      <3>7. (k + d) % 2 = 0
        BY <3>4, <3>6, Zenon
      <3> QED BY <3>5, <3>7 DEF Diagonals
    <2>2. ASSUME k \in Diagonals(d) PROVE \E i \in 1..e : k = ks[i]
      <3>1. k \in -d..d /\ (k + d) % 2 = 0
        BY <2>2 DEF Diagonals
      <3> DEFINE m == (k + d) \div 2
      <3>2. k + d = 2 * m /\ m \in Int
        BY <3>1
      <3> HIDE DEF m
      <3>3. m \in 0..d
        BY <3>1, <3>2
      <3> DEFINE i == m + 1
      <3>4. i \in 1..e /\ i - 1 = m
        BY <3>3
      <3> HIDE DEF i
      <3>5. ks[i] = 2 * m - d
        BY <1>3, <3>4
      <3>6. k = ks[i]
        BY <3>1, <3>2, <3>5
      <3> QED BY <3>4, <3>6
    <2> QED BY <2>1, <2>2
  <1>16. h[e] = [k \in -n..n |-> IF k \in Diagonals(d) THEN R(k) ELSE v[k]]
    <2> HIDE DEF e
    <2> QED BY <1>14, <1>15
  <1>17. h[e] = Rounded(a, b, n, v, d)
    BY <1>4, <1>16 DEF Rounded
  <1> QED BY <1>1, <1>2, <1>10, <1>17

\* The trace has a v for each round, and each comes from the one before it.
IsTrace(a, b, n, t) ==
    /\ t[1] = Zeros(n)
    /\ \A d \in 1..n + 1 : t[d] \in [-n..n -> Nat]
    /\ \A d \in 1..n : t[d + 1] = Round(a, b, t[d], d - 1)

\* So it is, for any two texts that are not both empty.
LEMMA TraceIs ==
    ASSUME NEW S, NEW a \in Seq(S), NEW b \in Seq(S), NEW n \in Nat, n = Len(a) + Len(b), n # 0
    PROVE  IsTrace(a, b, n, Trace(a, b))
  <1> DEFINE V == [-n..n -> Nat]
  <1>1. PICK h : Turns(<<"trace", a, b>>, <<Zeros(n)>>, Numbers(n), h) /\ h[n] = Trace(a, b)
    BY TraceTurns
  <1>2. h[0] = <<Zeros(n)>> /\ \A k \in 1..n : h[k] = Append(h[k - 1], Round(a, b, Last(h[k - 1]), k - 1))
    <2> DEFINE what == <<"trace", a, b>>
               v == Numbers(n)
               start == <<Zeros(n)>>
    <2>1. what[1] = "trace" /\ what[2] = a /\ what[3] = b
      OBVIOUS
    <2>2. Turns(what, start, v, h)
      BY <1>1
    <2>3. Len(v) = n /\ \A k \in 1..n : v[k] = k
      BY DEF Numbers
    <2> HIDE DEF what, start, v
    <2>4. \A r, x : Turn(what, r, x) = Append(r, Round(a, b, Last(r), x - 1))
      BY <2>1 DEF Turn
    <2>5. h[0] = start /\ \A k \in 1..n : h[k] = Turn(what, h[k - 1], v[k])
      BY <2>2, <2>3 DEF Turns
    <2> QED BY <2>3, <2>4, <2>5 DEF start
  <1>3. Zeros(n) \in V
    BY DEF Zeros
  <1> DEFINE Fine(k) == /\ h[k] \in Seq(V) /\ Len(h[k]) = k + 1 /\ h[k][1] = Zeros(n)
                        /\ \A d \in 1..k : h[k][d + 1] = Round(a, b, h[k][d], d - 1)
             good == {k \in 0..n : Fine(k)}
  <1>4. Fine(0)
    <2>1. <<Zeros(n)>> \in Seq(V) /\ Len(<<Zeros(n)>>) = 1 /\ <<Zeros(n)>>[1] = Zeros(n)
      BY <1>3
    <2>2. \A d \in 1..0 : FALSE
      OBVIOUS
    <2> QED BY <1>2, <2>1, <2>2
  <1>5. ASSUME NEW k \in 1..n, Fine(k - 1) PROVE Fine(k)
    <2> DEFINE g == h[k - 1]
               v == Last(g)
               r == Round(a, b, v, k - 1)
    <2>1. g \in Seq(V) /\ Len(g) = k /\ g[1] = Zeros(n)
      BY <1>5
    <2>2. \A d \in 1..k - 1 : g[d + 1] = Round(a, b, g[d], d - 1)
      BY <1>5
    <2>3. h[k] = Append(g, r)
      BY <1>2
    <2> HIDE DEF g
    <2>4. v = g[k] /\ v \in V
      BY <2>1 DEF Last
    <2>5. r \in V
      <3>1. \A j \in -n..n : v[j] \in Nat
        BY <2>4
      <3>2. k - 1 \in 0..n
        OBVIOUS
      <3>3. ASSUME NEW j \in Diagonals(k - 1) PROVE Reach(a, b, v, k - 1, j) \in Nat
        BY <2>4, <3>2, ReachIs
      <3> HIDE DEF v, V, r
      <3>4. r = [j \in -n..n |-> IF j \in Diagonals(k - 1) THEN Reach(a, b, v, k - 1, j) ELSE v[j]]
        <4>1. v \in [-n..n -> Nat]
          BY <2>4 DEF V
        <4> DEFINE c == k - 1
        <4>2. c \in 0..n
          BY <3>2
        <4> HIDE DEF c
        <4>3. Round(a, b, v, c) = Rounded(a, b, n, v, c)
          BY <4>1, <4>2, RoundIs
        <4> QED BY <4>3 DEF c, r, Rounded
      <3> QED BY <3>1, <3>3, <3>4 DEF V
    <2> HIDE DEF v, r, V
    <2>6. /\ h[k] \in Seq(V) /\ Len(h[k]) = k + 1 /\ h[k][k + 1] = r
          /\ \A d \in 1..k : h[k][d] = g[d]
      BY <2>1, <2>3, <2>5
    <2>7. h[k][1] = Zeros(n)
      <3>1. 1 \in 1..k
        OBVIOUS
      <3> QED BY <2>1, <2>6, <3>1
    <2>8. ASSUME NEW d \in 1..k PROVE h[k][d + 1] = Round(a, b, h[k][d], d - 1)
      <3>1. CASE d = k
        BY <2>4, <2>6, <3>1 DEF r
      <3>2. CASE d # k
        <4>1. d \in 1..k - 1 /\ d + 1 \in 1..k
          BY <3>2
        <4> QED BY <2>2, <2>6, <4>1
      <3> QED BY <3>1, <3>2
    <2> QED BY <2>6, <2>7, <2>8
  <1> HIDE DEF Fine
  <1>6. n \in good
    <2>1. 0 \in good /\ n \in 0..n
      BY <1>4
    <2>2. \A k \in 0..n - 1 : k \in good => k + 1 \in good
      <3> TAKE k \in 0..n - 1
      <3> HAVE k \in good
      <3> DEFINE j == k + 1
      <3>1. j \in 1..n /\ j - 1 = k /\ j \in 0..n
        OBVIOUS
      <3> HIDE DEF j
      <3>2. Fine(j - 1)
        BY <3>1
      <3>3. Fine(j)
        BY <1>5, <3>1, <3>2
      <3> QED BY <3>1, <3>3 DEF j
    <2> HIDE DEF good
    <2> QED BY <2>1, <2>2, Induction
  <1>7. Fine(n)
    BY <1>6
  <1>8. \A d \in 1..n + 1 : h[n][d] \in V
    BY <1>7 DEF Fine
  <1> QED BY <1>1, <1>7, <1>8 DEF Fine, IsTrace

\* The diagonals of one round and of the next.
LEMMA DiagonalsNext ==
    ASSUME NEW d \in Nat, NEW k \in Diagonals(d)
    PROVE  k \in Int /\ -d <= k /\ k <= d /\ k + 1 \in Diagonals(d + 1) /\ k - 1 \in Diagonals(d + 1)
  <1>1. k \in -d..d /\ (k + d) % 2 = 0
    BY DEF Diagonals
  <1>2. k + 1 \in -(d + 1)..(d + 1) /\ k - 1 \in -(d + 1)..(d + 1)
    BY <1>1
  <1>3. ((k + 1) + (d + 1)) % 2 = 0 /\ ((k - 1) + (d + 1)) % 2 = 0
    <2>1. (k - 1) + (d + 1) = k + d /\ (k + 1) + (d + 1) = (k + d) + 2 /\ k + d \in Nat
      BY <1>1
    <2>2. \A m \in Nat : m % 2 = 0 => (m + 2) % 2 = 0
      OBVIOUS
    <2> QED BY <1>1, <2>1, <2>2
  <1> QED BY <1>1, <1>2, <1>3 DEF Diagonals

\* The same from a round to the one before it.
LEMMA DiagonalsLast ==
    ASSUME NEW d \in Nat, d # 0, NEW k \in Diagonals(d)
    PROVE  (k # -d => k - 1 \in Diagonals(d - 1)) /\ (k # d => k + 1 \in Diagonals(d - 1))
  <1>1. k \in -d..d /\ (k + d) % 2 = 0
    BY DEF Diagonals
  <1> DEFINE m == k + d
  <1>2. m \in Nat /\ m % 2 = 0
    BY <1>1
  <1>3. \A j \in Nat : j % 2 = 0 /\ j # 0 => j - 2 \in Nat /\ (j - 2) % 2 = 0
    OBVIOUS
  <1>4. \A j \in Nat : j % 2 = 0 /\ j < 2 * d => j <= 2 * d - 2
    OBVIOUS
  <1>5. CASE k # -d
    <2>1. m # 0
      BY <1>1, <1>5
    <2> HIDE DEF m
    <2>2. m - 2 \in Nat /\ (m - 2) % 2 = 0
      BY <1>2, <1>3, <2>1
    <2>3. (k - 1) + (d - 1) = m - 2
      BY <1>1 DEF m
    <2>4. k - 1 \in -(d - 1)..(d - 1)
      BY <1>1, <2>2, <2>3
    <2>5. ((k - 1) + (d - 1)) % 2 = 0
      BY <2>2, <2>3
    <2> QED BY <1>1, <2>4, <2>5 DEF Diagonals, m
  <1>6. CASE k # d
    <2>1. m < 2 * d
      BY <1>1, <1>6
    <2> HIDE DEF m
    <2>2. m <= 2 * d - 2
      BY <1>2, <1>4, <2>1
    <2>3. (k + 1) + (d - 1) = m
      BY <1>1 DEF m
    <2>4. k + 1 \in -(d - 1)..(d - 1)
      BY <1>1, <1>2, <2>2, <2>3
    <2>5. ((k + 1) + (d - 1)) % 2 = 0
      BY <1>2, <2>3
    <2> QED BY <2>4, <2>5 DEF Diagonals
  <1>7. CASE k = -d
    BY <1>6, <1>7
  <1>8. CASE k = d
    BY <1>5, <1>8
  <1> QED BY <1>5, <1>6, <1>7, <1>8

\* The position reached in a round on a diagonal, and where the round enters it.
At(a, b, d, k) == Reach(a, b, Trace(a, b)[d + 1], d, k)
Downwards(a, b, d, k) == k = -d \/ (k # d /\ At(a, b, d - 1, k - 1) < At(a, b, d - 1, k + 1))
From(a, b, d, k) ==
    IF d = 0 THEN 0
    ELSE IF Downwards(a, b, d, k) THEN At(a, b, d - 1, k + 1)
    ELSE At(a, b, d - 1, k - 1) + 1

\* What round d reads is what round d - 1 has reached.
LEMMA TraceHolds ==
    ASSUME NEW S, NEW a \in Seq(S), NEW b \in Seq(S), NEW n \in Nat, n = Len(a) + Len(b), n # 0,
           NEW d \in 1..n, NEW k \in Diagonals(d - 1)
    PROVE  Trace(a, b)[d + 1][k] = At(a, b, d - 1, k)
  <1> DEFINE t == Trace(a, b)
  <1>1. IsTrace(a, b, n, t)
    BY TraceIs
  <1>2. t[d + 1] = Round(a, b, t[d], d - 1) /\ d \in 1..n + 1
    BY <1>1 DEF IsTrace
  <1>3. t[d] \in [-n..n -> Nat]
    BY <1>1, <1>2 DEF IsTrace
  <1>4. k \in -n..n
    BY DEF Diagonals
  <1>5. (d - 1) + 1 = d
    OBVIOUS
  <1> HIDE DEF t
  <1>6. Round(a, b, t[d], d - 1)[k] = Reach(a, b, t[d], d - 1, k)
    <2> DEFINE c == d - 1
               w == t[d]
    <2>1. c \in 0..n /\ w \in [-n..n -> Nat] /\ k \in Diagonals(c)
      BY <1>3
    <2> HIDE DEF c, w
    <2>2. Round(a, b, w, c) = Rounded(a, b, n, w, c)
      BY <2>1, RoundIs
    <2>3. Rounded(a, b, n, w, c)[k] = Reach(a, b, w, c, k)
      BY <1>4, <2>1 DEF Rounded
    <2> QED BY <2>2, <2>3 DEF c, w
  <1> QED BY <1>2, <1>5, <1>6 DEF At, t

\* The search without its trace.
LEMMA AtIs ==
    ASSUME NEW S, NEW a \in Seq(S), NEW b \in Seq(S), NEW n \in Nat, n = Len(a) + Len(b), n # 0,
           NEW d \in 0..n, NEW k \in Diagonals(d)
    PROVE  /\ At(a, b, d, k) \in Nat /\ From(a, b, d, k) \in Nat
           /\ At(a, b, d, k) = From(a, b, d, k) + Run(a, b, From(a, b, d, k), From(a, b, d, k) - k)
           /\ d > 0 => (Down(Trace(a, b)[d + 1], d, k) <=> Downwards(a, b, d, k))
  <1> DEFINE t == Trace(a, b)
             v == t[d + 1]
  <1>1. v \in [-n..n -> Nat]
    <2>1. IsTrace(a, b, n, t)
      BY TraceIs
    <2>2. d + 1 \in 1..n + 1
      OBVIOUS
    <2> HIDE DEF t
    <2> QED BY <2>1, <2>2 DEF IsTrace
  <1>2. /\ Entry(v, d, k) \in Nat
        /\ Reach(a, b, v, d, k) = Entry(v, d, k) + Run(a, b, Entry(v, d, k), Entry(v, d, k) - k)
        /\ Reach(a, b, v, d, k) \in Nat
    <2> HIDE DEF t, v
    <2>1. Entry(v, d, k) \in Nat
      BY <1>1, ReachIs
    <2>2. Reach(a, b, v, d, k) \in Nat
      BY <1>1, ReachIs
    <2>3. Reach(a, b, v, d, k) = Entry(v, d, k) + Run(a, b, Entry(v, d, k), Entry(v, d, k) - k)
      BY DEF Reach
    <2> QED BY <2>1, <2>2, <2>3
  <1>3. CASE d = 0
    <2>1. k = 0
      BY <1>3 DEF Diagonals
    <2>2. v = Zeros(n)
      <3>1. IsTrace(a, b, n, t)
        BY TraceIs
      <3> HIDE DEF t
      <3> QED BY <1>3, <3>1 DEF IsTrace
    <2>3. Entry(v, d, k) = 0
      <3>1. 1 \in -n..n /\ Zeros(n)[1] = 0
        BY DEF Zeros
      <3>2. k = -d /\ k + 1 = 1
        <4> DEFINE m == -d
        <4>1. d + m = 0 /\ m \in Int
          OBVIOUS
        <4> HIDE DEF m
        <4>2. m = k
          BY <1>3, <2>1, <4>1
        <4>3. k + 1 = 1
          BY <2>1
        <4> QED BY <4>2, <4>3 DEF m
      <3> HIDE DEF v
      <3>3. Down(v, d, k)
        BY <3>2 DEF Down
      <3> QED BY <2>2, <3>1, <3>2, <3>3 DEF Entry
    <2> QED BY <1>2, <1>3, <2>3 DEF At, From
  <1>4. CASE d # 0
    <2>1. d \in 1..n /\ d \in Nat /\ k \in Int
      BY <1>4 DEF Diagonals
    <2>2. /\ k # -d => v[k - 1] = At(a, b, d - 1, k - 1)
          /\ k # d => v[k + 1] = At(a, b, d - 1, k + 1)
      <3>1. (k # -d => k - 1 \in Diagonals(d - 1)) /\ (k # d => k + 1 \in Diagonals(d - 1))
        BY <1>4, <2>1, DiagonalsLast
      <3> QED BY <2>1, <3>1, TraceHolds
    <2>3. -d # d
      BY <2>1
    <2> HIDE DEF v
    <2>4. Down(v, d, k) <=> Downwards(a, b, d, k)
      BY <2>2 DEF Down, Downwards
    <2>5. Entry(v, d, k) = From(a, b, d, k)
      <3>1. CASE Down(v, d, k)
        <4>1. k # d
          BY <2>3, <3>1 DEF Down
        <4> QED BY <1>4, <2>2, <2>4, <3>1, <4>1 DEF Entry, From
      <3>2. CASE ~Down(v, d, k)
        <4>1. k # -d
          BY <3>2 DEF Down
        <4> QED BY <1>4, <2>2, <2>4, <3>2, <4>1 DEF Entry, From
      <3> QED BY <3>1, <3>2
    <2> QED BY <1>2, <2>4, <2>5 DEF At, v
  <1> QED BY <1>3, <1>4

\* A round of the search of two texts, and one of its diagonals.
Visited(a, b, d, k) ==
    /\ \E S : a \in Seq(S) /\ b \in Seq(S)
    /\ Len(a) + Len(b) # 0
    /\ d \in 0..Len(a) + Len(b) /\ k \in Diagonals(d)

\* What is known of a visited diagonal.
LEMMA AtHas ==
    ASSUME NEW a, NEW b, NEW d, NEW k, Visited(a, b, d, k)
    PROVE  /\ At(a, b, d, k) \in Nat /\ From(a, b, d, k) \in Nat
           /\ At(a, b, d, k) = From(a, b, d, k) + Run(a, b, From(a, b, d, k), From(a, b, d, k) - k)
           /\ d # 0 => (Down(Trace(a, b)[d + 1], d, k) <=> Downwards(a, b, d, k))
           /\ d \in Nat /\ k \in Int /\ -d <= k /\ k <= d /\ Len(a) \in Nat /\ Len(b) \in Nat
  <1>1. PICK S : a \in Seq(S) /\ b \in Seq(S)
    BY DEF Visited
  <1> DEFINE n == Len(a) + Len(b)
  <1>2. n \in Nat /\ n # 0 /\ d \in 0..n /\ k \in Diagonals(d) /\ n = Len(a) + Len(b)
        /\ Len(a) \in Nat /\ Len(b) \in Nat
    BY <1>1 DEF Visited
  <1> HIDE DEF n
  <1>3. /\ At(a, b, d, k) \in Nat /\ From(a, b, d, k) \in Nat
        /\ At(a, b, d, k) = From(a, b, d, k) + Run(a, b, From(a, b, d, k), From(a, b, d, k) - k)
        /\ d > 0 => (Down(Trace(a, b)[d + 1], d, k) <=> Downwards(a, b, d, k))
    BY <1>1, <1>2, AtIs, Zenon
  <1>4. d \in Nat /\ k \in Int /\ -d <= k /\ k <= d
    BY <1>2 DEF Diagonals
  <1>5. d # 0 => d > 0
    BY <1>4
  <1> QED BY <1>2, <1>3, <1>4, <1>5

\* How a round comes from the one before it: it enters each diagonal at the best
\* of its neighbours, and goes further only within both texts.
LEMMA AtStep ==
    ASSUME NEW a, NEW b, NEW d, NEW k, Visited(a, b, d, k), d # 0
    PROVE  /\ Downwards(a, b, d, k) => /\ k # d /\ Visited(a, b, d - 1, k + 1)
                                       /\ From(a, b, d, k) = At(a, b, d - 1, k + 1)
           /\ ~Downwards(a, b, d, k) => /\ k # -d /\ Visited(a, b, d - 1, k - 1)
                                        /\ From(a, b, d, k) = At(a, b, d - 1, k - 1) + 1
           /\ k # -d => From(a, b, d, k) >= At(a, b, d - 1, k - 1) + 1
           /\ k # d => From(a, b, d, k) >= At(a, b, d - 1, k + 1)
  <1>1. d \in Nat /\ d # 0 /\ k \in Int /\ -d # d
    <2>1. d \in Nat /\ k \in Int
      BY AtHas
    <2> QED BY <2>1
  <1>2. (k # -d => Visited(a, b, d - 1, k - 1)) /\ (k # d => Visited(a, b, d - 1, k + 1))
    <2>1. k \in Diagonals(d) /\ d \in 0..Len(a) + Len(b)
      BY DEF Visited
    <2>2. (k # -d => k - 1 \in Diagonals(d - 1)) /\ (k # d => k + 1 \in Diagonals(d - 1))
      BY <1>1, <2>1, DiagonalsLast
    <2>3. d - 1 \in 0..Len(a) + Len(b)
      BY <1>1, <2>1
    <2> QED BY <2>2, <2>3 DEF Visited
  <1>3. /\ k # -d => At(a, b, d - 1, k - 1) \in Nat
        /\ k # d => At(a, b, d - 1, k + 1) \in Nat
    BY <1>2, AtHas
  <1>4. CASE Downwards(a, b, d, k)
    <2>1. From(a, b, d, k) = At(a, b, d - 1, k + 1)
      BY <1>1, <1>4 DEF From
    <2>2. k # d
      BY <1>1, <1>4 DEF Downwards
    <2>3. k # -d => At(a, b, d - 1, k - 1) < At(a, b, d - 1, k + 1)
      BY <1>4 DEF Downwards
    <2>4. k # -d => At(a, b, d - 1, k + 1) >= At(a, b, d - 1, k - 1) + 1
      BY <1>3, <2>2, <2>3
    <2>5. At(a, b, d - 1, k + 1) >= At(a, b, d - 1, k + 1)
      BY <1>3, <2>2
    <2> QED BY <1>2, <1>4, <2>1, <2>2, <2>4, <2>5
  <1>5. CASE ~Downwards(a, b, d, k)
    <2>1. From(a, b, d, k) = At(a, b, d - 1, k - 1) + 1
      BY <1>1, <1>5 DEF From
    <2>2. k # -d
      BY <1>5 DEF Downwards
    <2>3. k # d => ~(At(a, b, d - 1, k - 1) < At(a, b, d - 1, k + 1))
      BY <1>5 DEF Downwards
    <2>4. k # d => At(a, b, d - 1, k - 1) + 1 >= At(a, b, d - 1, k + 1)
      BY <1>3, <2>2, <2>3
    <2>5. At(a, b, d - 1, k - 1) + 1 >= At(a, b, d - 1, k - 1) + 1
      BY <1>3, <2>2
    <2> QED BY <1>2, <1>5, <2>1, <2>2, <2>4, <2>5
  <1> QED BY <1>4, <1>5

\* A round goes beyond where it enters only within both texts.
LEMMA AtWithin ==
    ASSUME NEW a, NEW b, NEW d, NEW k, Visited(a, b, d, k)
    PROVE  /\ At(a, b, d, k) >= From(a, b, d, k)
           /\ At(a, b, d, k) # From(a, b, d, k) =>
                 At(a, b, d, k) <= Len(a) /\ At(a, b, d, k) - k <= Len(b)
  <1> DEFINE x == From(a, b, d, k)
             z == At(a, b, d, k)
             r == Run(a, b, x, x - k)
  <1>1. x \in Nat /\ z \in Nat /\ z = x + r /\ k \in Int
    BY AtHas
  <1>0. PICK S : a \in Seq(S) /\ b \in Seq(S)
    BY DEF Visited
  <1> HIDE DEF x, z
  <1>2. x - k \in Int
    BY <1>1
  <1>3. r \in Nat
    BY <1>0, <1>1, <1>2, RunIs
  <1>4. \A i \in 1..r : x + i <= Len(a) /\ (x - k) + i <= Len(b)
    BY <1>0, <1>1, <1>2, RunIs
  <1> HIDE DEF r
  <1>5. z >= x
    BY <1>1, <1>3
  <1>6. z # x => z <= Len(a) /\ z - k <= Len(b)
    <2> SUFFICES ASSUME z # x PROVE z <= Len(a) /\ z - k <= Len(b)
      OBVIOUS
    <2>1. r \in 1..r
      BY <1>1, <1>3
    <2>2. x + r <= Len(a) /\ (x - k) + r <= Len(b)
      BY <1>4, <2>1
    <2>3. (x - k) + r = z - k
      BY <1>1, <1>3
    <2> QED BY <1>1, <2>2, <2>3
  <1> QED BY <1>5, <1>6 DEF x, z

\* After d rounds at least d lines have been passed.
LEMMA AtLeast ==
    ASSUME NEW a, NEW b, NEW n \in Nat
    PROVE  \A d \in 0..n : \A k : Visited(a, b, d, k) => 2 * At(a, b, d, k) >= d + k
  <1> DEFINE Fine(d) == \A k : Visited(a, b, d, k) => 2 * At(a, b, d, k) >= d + k
             good == {d \in 0..n : Fine(d)}
  <1>1. Fine(0)
    <2> SUFFICES ASSUME NEW k, Visited(a, b, 0, k) PROVE 2 * At(a, b, 0, k) >= 0 + k
      OBVIOUS
    <2>1. k = 0
      BY DEF Visited, Diagonals
    <2>2. At(a, b, 0, k) \in Nat
      BY AtHas
    <2> QED BY <2>1, <2>2
  <1>2. ASSUME NEW d \in 0..n - 1, Fine(d) PROVE Fine(d + 1)
    <2> SUFFICES ASSUME NEW k, Visited(a, b, d + 1, k) PROVE 2 * At(a, b, d + 1, k) >= (d + 1) + k
      OBVIOUS
    <2> DEFINE e == d + 1
    <2>1. e - 1 = d /\ e # 0 /\ d \in Nat
      OBVIOUS
    <2>2. Visited(a, b, e, k)
      OBVIOUS
    <2> HIDE DEF e
    <2> DEFINE z == At(a, b, e, k)
               x == From(a, b, e, k)
    <2>3. k \in Int /\ e \in Nat
      BY <2>2, AtHas
    <2>4. x \in Nat /\ z \in Nat /\ z >= x
      BY <2>2, AtHas, AtWithin
    <2>5. CASE Downwards(a, b, e, k)
      <3> DEFINE y == At(a, b, d, k + 1)
      <3>1. Visited(a, b, e - 1, k + 1) /\ x = At(a, b, e - 1, k + 1)
        BY <2>1, <2>2, <2>5, AtStep
      <3>2. Visited(a, b, d, k + 1) /\ x = y
        BY <2>1, <3>1
      <3>3. 2 * y >= d + (k + 1)
        BY <1>2, <3>2
      <3> HIDE DEF x, y, z
      <3>4. 2 * z >= e + k
        BY <2>1, <2>3, <2>4, <3>2, <3>3
      <3> QED BY <3>4 DEF z, e
    <2>6. CASE ~Downwards(a, b, e, k)
      <3> DEFINE y == At(a, b, d, k - 1)
      <3>1. Visited(a, b, e - 1, k - 1) /\ x = At(a, b, e - 1, k - 1) + 1
        BY <2>1, <2>2, <2>6, AtStep
      <3>2. Visited(a, b, d, k - 1) /\ x = y + 1
        BY <2>1, <3>1
      <3>3. 2 * y >= d + (k - 1) /\ y \in Nat
        BY <1>2, <3>2, AtHas
      <3> HIDE DEF x, y, z
      <3>4. 2 * z >= e + k
        BY <2>1, <2>3, <2>4, <3>2, <3>3
      <3> QED BY <3>4 DEF z, e
    <2> QED BY <2>5, <2>6
  <1> HIDE DEF Fine
  <1>3. \A d \in 0..n : d \in good
    <2>1. 0 \in good
      BY <1>1
    <2>2. \A d \in 0..n - 1 : d \in good => d + 1 \in good
      BY <1>2
    <2> HIDE DEF good
    <2> QED BY <2>1, <2>2, Induction
  <1> QED BY <1>3 DEF Fine

\* The neighbours of a diagonal in the next round.
LEMMA VisitedNext ==
    ASSUME NEW a, NEW b, NEW d, NEW k, Visited(a, b, d, k), d < Len(a) + Len(b)
    PROVE  Visited(a, b, d + 1, k + 1) /\ Visited(a, b, d + 1, k - 1)
  <1>1. d \in Nat /\ Len(a) \in Nat /\ Len(b) \in Nat
    BY AtHas
  <1>2. d + 1 \in 0..Len(a) + Len(b)
    BY <1>1
  <1>3. k \in Diagonals(d)
    BY DEF Visited
  <1>4. k + 1 \in Diagonals(d + 1) /\ k - 1 \in Diagonals(d + 1)
    BY <1>1, <1>3, DiagonalsNext
  <1> QED BY <1>2, <1>4 DEF Visited

\* A position behind the old text comes, by deletions only, from one at its end
\* that an earlier round has reached.
LEMMA OldBehind ==
    ASSUME NEW a, NEW b, NEW n \in Nat
    PROVE  \A d \in 0..n : \A k, j :
              Visited(a, b, d, k) /\ j \in Nat \ {0} /\ At(a, b, d, k) = Len(a) + j =>
                  Visited(a, b, d - j, k - j) /\ At(a, b, d - j, k - j) >= Len(a)
  <1> DEFINE N == Len(a)
             Fine(d) == \A k, j : Visited(a, b, d, k) /\ j \in Nat \ {0} /\ At(a, b, d, k) = N + j =>
                            Visited(a, b, d - j, k - j) /\ At(a, b, d - j, k - j) >= N
             good == {d \in 0..n : Fine(d)}
  <1> HIDE DEF N
  <1>1. Fine(0)
    <2> SUFFICES ASSUME NEW k, NEW j \in Nat \ {0}, Visited(a, b, 0, k), At(a, b, 0, k) = N + j PROVE FALSE
      OBVIOUS
    <2>1. From(a, b, 0, k) = 0
      BY DEF From
    <2>2. N \in Nat
      BY AtHas DEF N
    <2>3. At(a, b, 0, k) # From(a, b, 0, k)
      BY <2>1, <2>2
    <2>4. At(a, b, 0, k) <= N
      BY <2>3, AtWithin DEF N
    <2> QED BY <2>2, <2>4
  <1>2. ASSUME NEW d \in 0..n - 1, Fine(d) PROVE Fine(d + 1)
    <2> SUFFICES ASSUME NEW k, NEW j \in Nat \ {0}, Visited(a, b, d + 1, k), At(a, b, d + 1, k) = N + j
                 PROVE  /\ Visited(a, b, (d + 1) - j, k - j)
                        /\ At(a, b, (d + 1) - j, k - j) >= N
      OBVIOUS
    <2> DEFINE e == d + 1
    <2>1. e - 1 = d /\ e # 0 /\ d \in Nat
      OBVIOUS
    <2>2. Visited(a, b, e, k) /\ At(a, b, e, k) = N + j
      OBVIOUS
    <2> HIDE DEF e
    <2>3. k \in Int /\ e \in Nat /\ N \in Nat /\ Len(b) \in Nat /\ e <= N + Len(b)
      BY <2>2, AtHas DEF Visited, N
    <2>4. From(a, b, e, k) = N + j
      <3>1. From(a, b, e, k) \in Nat /\ ~(N + j <= N)
        BY <2>2, <2>3, AtHas
      <3> QED BY <2>2, <3>1, AtWithin DEF N
    <2>5. CASE Downwards(a, b, e, k)
      <3>1. Visited(a, b, e - 1, k + 1) /\ From(a, b, e, k) = At(a, b, e - 1, k + 1)
        BY <2>1, <2>2, <2>5, AtStep
      <3>2. Visited(a, b, d, k + 1) /\ At(a, b, d, k + 1) = N + j
        BY <2>1, <2>4, <3>1
      <3> DEFINE f == d - j
                 g == (k + 1) - j
      <3>3. Visited(a, b, f, g) /\ At(a, b, f, g) >= N
        BY <1>2, <3>2
      <3>4. f + 1 = e - j /\ g - 1 = k - j /\ (f + 1) - 1 = f /\ (g - 1) + 1 = g
        BY <2>1, <2>3
      <3>5. f < N + Len(b)
        BY <2>1, <2>3
      <3> HIDE DEF f, g
      <3>6. Visited(a, b, f + 1, g - 1)
        BY <3>3, <3>5, VisitedNext DEF N
      <3> DEFINE p == f + 1
                 q == g - 1
      <3>7. f \in Nat /\ g \in Int /\ g <= f
        BY <3>3, AtHas
      <3>8. p # 0 /\ q # p /\ p - 1 = f /\ q + 1 = g
        BY <3>4, <3>7
      <3>9. Visited(a, b, p, q)
        BY <3>6
      <3> HIDE DEF p, q
      <3>10. From(a, b, p, q) >= At(a, b, p - 1, q + 1)
        BY <3>8, <3>9, AtStep
      <3>11. At(a, b, p, q) >= From(a, b, p, q) /\ At(a, b, p, q) \in Nat /\ From(a, b, p, q) \in Nat
             /\ At(a, b, f, g) \in Nat
        BY <3>3, <3>9, AtHas, AtWithin
      <3>12. At(a, b, p, q) >= N
        BY <2>3, <3>3, <3>8, <3>10, <3>11
      <3> QED BY <3>4, <3>9, <3>12 DEF e, p, q
    <2>6. CASE ~Downwards(a, b, e, k)
      <3>1. Visited(a, b, e - 1, k - 1) /\ From(a, b, e, k) = At(a, b, e - 1, k - 1) + 1
        BY <2>1, <2>2, <2>6, AtStep
      <3>2. Visited(a, b, d, k - 1) /\ At(a, b, d, k - 1) + 1 = N + j /\ At(a, b, d, k - 1) \in Nat
        BY <2>1, <2>4, <3>1, AtHas
      <3> DEFINE i == j - 1
      <3>3. i \in Nat /\ At(a, b, d, k - 1) = N + i /\ d - i = e - j /\ (k - 1) - i = k - j
        BY <2>1, <2>3, <3>2
      <3> HIDE DEF i
      <3>4. CASE i = 0
        <4>1. d = e - j /\ k - 1 = k - j /\ N + i = N /\ N >= N
          BY <2>1, <2>3, <3>3, <3>4
        <4> QED BY <3>2, <3>3, <4>1 DEF e
      <3>5. CASE i # 0
        <4>1. i \in Nat \ {0}
          BY <3>3, <3>5
        <4>2. Visited(a, b, d - i, (k - 1) - i) /\ At(a, b, d - i, (k - 1) - i) >= N
          BY <1>2, <3>2, <3>3, <4>1
        <4> QED BY <3>3, <4>2 DEF e
      <3> QED BY <3>4, <3>5
    <2> QED BY <2>5, <2>6
  <1> HIDE DEF Fine
  <1>3. \A d \in 0..n : d \in good
    <2>1. 0 \in good
      BY <1>1
    <2>2. \A d \in 0..n - 1 : d \in good => d + 1 \in good
      BY <1>2
    <2> HIDE DEF good
    <2> QED BY <2>1, <2>2, Induction
  <1> QED BY <1>3 DEF Fine, N

\* A position behind the new text comes, by insertions only, from one at its end
\* that is as far in the old text.
LEMMA NewBehind ==
    ASSUME NEW a, NEW b, NEW n \in Nat
    PROVE  \A d \in 0..n : \A k, j :
              Visited(a, b, d, k) /\ j \in Nat \ {0} /\ At(a, b, d, k) - k = Len(b) + j =>
                  Visited(a, b, d - j, k + j) /\ At(a, b, d - j, k + j) >= At(a, b, d, k)
  <1> DEFINE M == Len(b)
             Fine(d) == \A k, j : Visited(a, b, d, k) /\ j \in Nat \ {0} /\ At(a, b, d, k) - k = M + j =>
                            Visited(a, b, d - j, k + j) /\ At(a, b, d - j, k + j) >= At(a, b, d, k)
             good == {d \in 0..n : Fine(d)}
  <1> HIDE DEF M
  <1>1. Fine(0)
    <2> SUFFICES ASSUME NEW k, NEW j \in Nat \ {0}, Visited(a, b, 0, k), At(a, b, 0, k) - k = M + j PROVE FALSE
      OBVIOUS
    <2>1. From(a, b, 0, k) = 0 /\ k = 0
      BY DEF From, Visited, Diagonals
    <2>2. M \in Nat /\ At(a, b, 0, k) \in Nat
      BY AtHas DEF M
    <2>3. At(a, b, 0, k) # From(a, b, 0, k)
      BY <2>1, <2>2
    <2>4. At(a, b, 0, k) - k <= M
      BY <2>3, AtWithin DEF M
    <2> QED BY <2>2, <2>4
  <1>2. ASSUME NEW d \in 0..n - 1, Fine(d) PROVE Fine(d + 1)
    <2> SUFFICES ASSUME NEW k, NEW j \in Nat \ {0}, Visited(a, b, d + 1, k), At(a, b, d + 1, k) - k = M + j
                 PROVE  /\ Visited(a, b, (d + 1) - j, k + j)
                        /\ At(a, b, (d + 1) - j, k + j) >= At(a, b, d + 1, k)
      OBVIOUS
    <2> DEFINE e == d + 1
               z == At(a, b, e, k)
    <2>1. e - 1 = d /\ e # 0 /\ d \in Nat
      OBVIOUS
    <2>2. Visited(a, b, e, k) /\ z - k = M + j
      OBVIOUS
    <2> HIDE DEF e, z
    <2>3. k \in Int /\ e \in Nat /\ M \in Nat /\ Len(a) \in Nat /\ e <= Len(a) + M /\ z \in Nat
      BY <2>2, AtHas DEF Visited, M, z
    <2>4. From(a, b, e, k) = z
      <3>1. ~(z - k <= M)
        BY <2>2, <2>3
      <3> QED BY <2>2, <3>1, AtWithin DEF M, z
    <2>5. CASE ~Downwards(a, b, e, k)
      <3>1. Visited(a, b, e - 1, k - 1) /\ From(a, b, e, k) = At(a, b, e - 1, k - 1) + 1
        BY <2>1, <2>2, <2>5, AtStep
      <3>2. Visited(a, b, d, k - 1) /\ z = At(a, b, d, k - 1) + 1 /\ At(a, b, d, k - 1) \in Nat
        BY <2>1, <2>4, <3>1, AtHas
      <3>3. At(a, b, d, k - 1) - (k - 1) = M + j
        BY <2>2, <2>3, <3>2
      <3> DEFINE f == d - j
                 g == (k - 1) + j
      <3>4. Visited(a, b, f, g) /\ At(a, b, f, g) >= At(a, b, d, k - 1)
        BY <1>2, <3>2, <3>3
      <3>5. f + 1 = e - j /\ g + 1 = k + j /\ (f + 1) - 1 = f /\ (g + 1) - 1 = g
        BY <2>1, <2>3
      <3>6. f < Len(a) + M
        BY <2>1, <2>3
      <3> HIDE DEF f, g
      <3>7. Visited(a, b, f + 1, g + 1)
        BY <3>4, <3>6, VisitedNext DEF M
      <3> DEFINE p == f + 1
                 q == g + 1
                 r == -p
      <3>8. f \in Nat /\ g \in Int /\ -f <= g
        BY <3>4, AtHas
      <3>9. p # 0 /\ q # r /\ p - 1 = f /\ q - 1 = g
        BY <3>5, <3>8
      <3>10. Visited(a, b, p, q)
        BY <3>7
      <3>11. q # -p
        BY <3>9
      <3> HIDE DEF p, q
      <3>12. From(a, b, p, q) >= At(a, b, p - 1, q - 1) + 1
        BY <3>9, <3>10, <3>11, AtStep
      <3>13. At(a, b, p, q) >= From(a, b, p, q) /\ At(a, b, p, q) \in Nat /\ From(a, b, p, q) \in Nat
             /\ At(a, b, f, g) \in Nat
        BY <3>4, <3>10, AtHas, AtWithin
      <3>14. At(a, b, p, q) >= z
        BY <2>3, <3>2, <3>4, <3>9, <3>12, <3>13
      <3> QED BY <3>5, <3>10, <3>14 DEF e, p, q, z
    <2>6. CASE Downwards(a, b, e, k)
      <3>1. Visited(a, b, e - 1, k + 1) /\ From(a, b, e, k) = At(a, b, e - 1, k + 1)
        BY <2>1, <2>2, <2>6, AtStep
      <3>2. Visited(a, b, d, k + 1) /\ At(a, b, d, k + 1) = z
        BY <2>1, <2>4, <3>1
      <3> DEFINE i == j - 1
      <3>3. i \in Nat /\ At(a, b, d, k + 1) - (k + 1) = M + i /\ d - i = e - j /\ (k + 1) + i = k + j
        BY <2>1, <2>2, <2>3, <3>2
      <3> HIDE DEF i
      <3>4. CASE i = 0
        <4>1. d = e - j /\ k + 1 = k + j /\ z >= z
          BY <2>1, <2>3, <3>3, <3>4
        <4> QED BY <3>2, <4>1 DEF e, z
      <3>5. CASE i # 0
        <4>1. i \in Nat \ {0}
          BY <3>3, <3>5
        <4>2. /\ Visited(a, b, d - i, (k + 1) + i)
              /\ At(a, b, d - i, (k + 1) + i) >= At(a, b, d, k + 1)
          BY <1>2, <3>2, <3>3, <4>1
        <4> QED BY <3>2, <3>3, <4>2 DEF e, z
      <3> QED BY <3>4, <3>5
    <2> QED BY <2>5, <2>6
  <1> HIDE DEF Fine
  <1>3. \A d \in 0..n : d \in good
    <2>1. 0 \in good
      BY <1>1
    <2>2. \A d \in 0..n - 1 : d \in good => d + 1 \in good
      BY <1>2
    <2> HIDE DEF good
    <2> QED BY <2>1, <2>2, Induction
  <1> QED BY <1>3 DEF Fine, M

\* The first round to get to both ends gets there exactly, on their diagonal.
Reached(a, b, d, k) ==
    Visited(a, b, d, k) /\ At(a, b, d, k) >= Len(a) /\ At(a, b, d, k) - k >= Len(b)

\* Depth is that round, and on the diagonal of the ends it is at both of them.
LEMMA DepthIs ==
    ASSUME NEW S, NEW a \in Seq(S), NEW b \in Seq(S), Len(a) + Len(b) # 0
    PROVE  /\ Visited(a, b, Depth(a, b, Trace(a, b)), Len(a) - Len(b))
           /\ At(a, b, Depth(a, b, Trace(a, b)), Len(a) - Len(b)) = Len(a)
           /\ \A d, k : Reached(a, b, d, k) => Depth(a, b, Trace(a, b)) <= d
  <1> DEFINE n == Len(a)
             m == Len(b)
             t == Trace(a, b)
             c == Depth(a, b, t)
             rounds == {d \in 0..n + m : \E k : Reached(a, b, d, k)}
  <1>1. n \in Nat /\ m \in Nat /\ n + m \in Nat /\ n + m # 0
    OBVIOUS
  <1>2. c = Min(rounds)
    <2>1. ASSUME NEW d \in 0..n + m
          PROVE  (\E k \in Diagonals(d) : LET x == Reach(a, b, t[d + 1], d, k) IN x >= n /\ x - k >= m)
                 <=> \E k : Reached(a, b, d, k)
      <3>1. ASSUME NEW k \in Diagonals(d) PROVE Visited(a, b, d, k)
        BY <1>1 DEF Visited
      <3>2. ASSUME NEW k, Reached(a, b, d, k) PROVE k \in Diagonals(d)
        BY <3>2 DEF Reached, Visited
      <3>3. \A k : At(a, b, d, k) = Reach(a, b, t[d + 1], d, k)
        BY DEF At
      <3> HIDE DEF t
      <3> QED BY <3>1, <3>2, <3>3 DEF Reached
    <2>2. {d \in 0..n + m :
              \E k \in Diagonals(d) : LET x == Reach(a, b, t[d + 1], d, k) IN x >= n /\ x - k >= m} = rounds
      <3> HIDE DEF n, m, t
      <3> QED BY <2>1
    <2>3. c = Min({d \in 0..n + m :
              \E k \in Diagonals(d) : LET x == Reach(a, b, t[d + 1], d, k) IN x >= n /\ x - k >= m})
      <3> HIDE DEF t
      <3> QED BY DEF Depth
    <2> QED BY <2>2, <2>3, Zenon
  <1>3. n + m \in rounds
    <2> DEFINE d == n + m
               k == n - m
    <2>1. d \in Nat /\ k \in Int /\ d \in 0..n + m /\ k \in -d..d /\ k + d = 2 * n /\ (2 * n) % 2 = 0
      BY <1>1
    <2>2. Visited(a, b, d, k)
      <3> HIDE DEF d, k
      <3>1. k \in Diagonals(d)
        BY <2>1 DEF Diagonals
      <3> QED BY <1>1, <2>1, <3>1 DEF Visited
    <2>3. 2 * At(a, b, d, k) >= d + k
      <3> HIDE DEF k
      <3>1. d \in 0..d
        BY <2>1
      <3> HIDE DEF d
      <3> QED BY <2>1, <2>2, <3>1, AtLeast
    <2>4. At(a, b, d, k) \in Nat
      BY <2>2, AtHas
    <2> DEFINE z == At(a, b, d, k)
    <2> HIDE DEF z
    <2>5. z >= n /\ z - k >= m
      <3>1. 2 * z >= 2 * n /\ z \in Nat
        <4>1. d + k = 2 * n
          BY <1>1
        <4> HIDE DEF d, k
        <4> QED BY <2>3, <2>4, <4>1 DEF z
      <3>2. z - k = (z - n) + m
        BY <1>1, <3>1
      <3> HIDE DEF n, m, k
      <3> QED BY <1>1, <3>1, <3>2
    <2>6. Reached(a, b, d, k)
      <3> HIDE DEF d, k
      <3> QED BY <2>2, <2>5 DEF Reached, z
    <2> HIDE DEF k
    <2> QED BY <2>1, <2>6
  <1>4. c \in rounds /\ \A d \in rounds : c <= d
    <2>1. rounds \in SUBSET Nat /\ rounds # {}
      BY <1>1, <1>3
    <2> HIDE DEF rounds, c
    <2> QED BY <1>2, <2>1, LeastIs
  <1> HIDE DEF c, t
  <1>5. ASSUME NEW d, NEW k, Reached(a, b, d, k) PROVE c <= d
    <2>1. d \in 0..n + m
      BY <1>5 DEF Reached, Visited
    <2> QED BY <1>4, <1>5, <2>1
  <1>6. PICK k : Reached(a, b, c, k)
    BY <1>4
  <1> HIDE DEF rounds
  <1> DEFINE z == At(a, b, c, k)
  <1>7. z \in Nat /\ c \in Nat /\ k \in Int /\ z >= n /\ z - k >= m /\ Visited(a, b, c, k)
    BY <1>6, AtHas DEF Reached
  <1> HIDE DEF n, m, z
  <1>8. z = n
    <2> SUFFICES ASSUME z # n PROVE FALSE
      OBVIOUS
    <2> DEFINE j == z - n
    <2>1. j \in Nat \ {0} /\ z = n + j
      BY <1>1, <1>7
    <2> HIDE DEF j
    <2>2. c \in 0..c
      BY <1>7
    <2>3. Visited(a, b, c - j, k - j) /\ At(a, b, c - j, k - j) >= n
      BY <1>7, <2>1, <2>2, OldBehind DEF n, z
    <2>4. At(a, b, c - j, k - j) \in Nat
      BY <2>3, AtHas
    <2>5. At(a, b, c - j, k - j) - (k - j) >= m
      BY <1>1, <1>7, <2>1, <2>3, <2>4
    <2>6. c <= c - j
      BY <1>5, <2>3, <2>5 DEF Reached, n, m
    <2> QED BY <1>7, <2>1, <2>6
  <1>9. z - k = m
    <2> SUFFICES ASSUME z - k # m PROVE FALSE
      OBVIOUS
    <2> DEFINE j == (z - k) - m
    <2>1. j \in Nat \ {0} /\ z - k = m + j
      BY <1>1, <1>7
    <2> HIDE DEF j
    <2>2. c \in 0..c
      BY <1>7
    <2>3. Visited(a, b, c - j, k + j) /\ At(a, b, c - j, k + j) >= z
      BY <1>7, <2>1, <2>2, NewBehind DEF m, z
    <2>4. At(a, b, c - j, k + j) \in Nat
      BY <2>3, AtHas
    <2>5. At(a, b, c - j, k + j) - (k + j) >= m /\ At(a, b, c - j, k + j) >= n
      BY <1>1, <1>7, <1>8, <2>1, <2>3, <2>4
    <2>6. c <= c - j
      BY <1>5, <2>3, <2>5 DEF Reached, n, m
    <2> QED BY <1>7, <2>1, <2>6
  <1>10. k = n - m
    BY <1>1, <1>7, <1>8, <1>9
  <1> QED BY <1>5, <1>7, <1>8, <1>10 DEF c, t, n, m, z

-----------------------------------------------------------------------------
(* The walk back *)

\* The equal lines of one step back are the smaller of two distances.
LEMMA Smaller ==
    ASSUME NEW r \in Nat
    PROVE  Max({0, Min({r, r + 1})}) = r /\ Max({0, Min({r + 1, r})}) = r
  <1>1. Min({r, r + 1}) = r
    <2>1. \E m \in {r, r + 1} : \A k \in {r, r + 1} : m <= k
      OBVIOUS
    <2> QED BY <2>1 DEF Min
  <1>2. Max({0, r}) = r
    <2>1. \E m \in {0, r} : \A k \in {0, r} : m >= k
      OBVIOUS
    <2> QED BY <2>1 DEF Max
  <1>3. {r + 1, r} = {r, r + 1}
    OBVIOUS
  <1> QED BY <1>1, <1>2, <1>3

\* The walk is where the search was after round d, and its edits lead from there
\* to the end.
On(a, b, q, s, d) ==
    \E k : /\ Visited(a, b, d, k)
           /\ s.x = At(a, b, d, k) /\ s.y = At(a, b, d, k) - k
           /\ <<s.x, s.y>> \in Place(a, b)
           /\ Chain(a, b, s.edits, <<s.x, s.y>>, q)

\* A step back adds one edit, and it touches one line.
OneMore(a, b, es, new) == \E e \in EditOf(a, b) : Size(e) = 1 /\ new = <<e>> \o es

\* What the walk reads in a step back.
LEMMA BackReads ==
    ASSUME NEW a, NEW b, NEW d, NEW k, Visited(a, b, d, k), d # 0
    PROVE  /\ Downwards(a, b, d, k) => Trace(a, b)[d + 1][k + 1] = At(a, b, d - 1, k + 1)
           /\ ~Downwards(a, b, d, k) => Trace(a, b)[d + 1][k - 1] = At(a, b, d - 1, k - 1)
  <1>1. PICK S : a \in Seq(S) /\ b \in Seq(S)
    BY DEF Visited
  <1> DEFINE n == Len(a) + Len(b)
  <1>2. n \in Nat /\ n # 0 /\ d \in 1..n /\ n = Len(a) + Len(b)
    BY <1>1 DEF Visited
  <1> HIDE DEF n
  <1>3. CASE Downwards(a, b, d, k)
    <2>1. k + 1 \in Diagonals(d - 1)
      BY <1>3, AtStep DEF Visited
    <2> QED BY <1>1, <1>2, <1>3, <2>1, TraceHolds
  <1>4. CASE ~Downwards(a, b, d, k)
    <2>1. k - 1 \in Diagonals(d - 1)
      BY <1>4, AtStep DEF Visited
    <2> QED BY <1>1, <1>2, <1>4, <2>1, TraceHolds
  <1> QED BY <1>3, <1>4

\* One step back keeps that.
LEMMA BackStep ==
    ASSUME NEW a, NEW b, NEW q, NEW s, NEW d, d # 0, On(a, b, q, s, d)
    PROVE  /\ On(a, b, q, StepBack(Trace(a, b), s, d), d - 1)
           /\ OneMore(a, b, s.edits, StepBack(Trace(a, b), s, d).edits)
  <1> DEFINE t == Trace(a, b)
             v == t[d + 1]
             x == s.x
             y == s.y
             es == s.edits
             N == Len(a)
             M == Len(b)
  <1>1. PICK k : /\ Visited(a, b, d, k)
                 /\ x = At(a, b, d, k) /\ y = At(a, b, d, k) - k
                 /\ <<x, y>> \in Place(a, b)
                 /\ Chain(a, b, es, <<x, y>>, q)
    BY DEF On
  <1>2. PICK S : a \in Seq(S) /\ b \in Seq(S)
    BY <1>1 DEF Visited
  <1> DEFINE f == From(a, b, d, k)
             r == Run(a, b, f, f - k)
  <1>3. x \in Nat /\ f \in Nat /\ k \in Int /\ N \in Nat /\ M \in Nat /\ d \in Nat /\ -d <= k /\ k <= d
        /\ x = f + r
    BY <1>1, AtHas
  <1>4. x <= N /\ y \in Nat /\ y <= M
    BY <1>1 DEF Place
  <1>5. /\ Down(v, d, k) <=> Downwards(a, b, d, k)
        /\ Downwards(a, b, d, k) => v[k + 1] = At(a, b, d - 1, k + 1)
        /\ ~Downwards(a, b, d, k) => v[k - 1] = At(a, b, d - 1, k - 1)
    BY <1>1, AtHas, BackReads
  <1> HIDE DEF f, x, y, N, M
  <1>6. f - k \in Int
    BY <1>3
  <1>7. r \in Nat /\ \A i \in 1..r : a[f + i] = b[(f - k) + i]
    <2>1. r \in Nat
      BY <1>2, <1>3, <1>6, RunIs
    <2>2. \A i \in 1..r : a[f + i] = b[(f - k) + i]
      BY <1>2, <1>3, <1>6, RunIs
    <2> QED BY <2>1, <2>2
  <1> HIDE DEF r
  <1>8. y = x - k /\ x - y = k
    BY <1>1, <1>3, <1>4
  <1>9. ASSUME NEW e \in EditOf(a, b), NEW g, EndOf(e) = <<f, f - k>>,
               StartOf(e) = g
        PROVE  Chain(a, b, <<e>> \o es, g, q)
    <2> DEFINE p == <<f, f - k>>
               z == <<x, y>>
    <2>1. p[1] = f /\ p[2] = f - k /\ z[1] = x /\ z[2] = y
      OBVIOUS
    <2>2. p \in Place(a, b)
      BY <1>3, <1>9, EditIs DEF N, M
    <2>3. Gap(a, b, p, z)
      <3>1. z \in Place(a, b)
        BY <1>1
      <3> HIDE DEF p, z
      <3>2. p[1] <= z[1] /\ z[1] - p[1] = r /\ z[2] - p[2] = r
        BY <1>3, <1>7, <1>8, <2>1
      <3>3. \A i \in 1..z[1] - p[1] : a[p[1] + i] = b[p[2] + i]
        BY <1>7, <2>1, <3>2
      <3> QED BY <2>2, <3>1, <3>2, <3>3 DEF Gap
    <2>4. Chain(a, b, es, EndOf(e), q)
      <3>1. Chain(a, b, es, z, q) /\ Len(a) \in Nat /\ Len(b) \in Nat
        BY <1>1, <1>3 DEF N, M
      <3> HIDE DEF p, z
      <3>2. Chain(a, b, es, p, q)
        BY <2>3, <3>1, ChainBack
      <3> QED BY <1>9, <3>2 DEF p
    <2>5. Gap(a, b, g, StartOf(e)) /\ Len(a) \in Nat /\ Len(b) \in Nat
      <3>1. Len(a) \in Nat /\ Len(b) \in Nat
        BY <1>3 DEF N, M
      <3>2. StartOf(e) \in Place(a, b)
        BY <3>1, EditIs
      <3> QED BY <1>9, <3>1, <3>2, GapNone
    <2> HIDE DEF p, z
    <2> QED BY <2>4, <2>5, ChainPrefixed
  <1>10. \A l : Visited(a, b, d - 1, l) => 2 * At(a, b, d - 1, l) >= (d - 1) + l /\ At(a, b, d - 1, l) \in Nat
    <2>1. d - 1 \in Nat /\ d - 1 \in 0..d - 1
      BY <1>3
    <2> DEFINE c == d - 1
    <2> HIDE DEF c
    <2>2. c \in Nat /\ c \in 0..c
      BY <2>1 DEF c
    <2>3. \A l : Visited(a, b, c, l) => 2 * At(a, b, c, l) >= c + l
      BY <2>2, AtLeast
    <2>4. \A l : Visited(a, b, c, l) => At(a, b, c, l) \in Nat
      BY AtHas
    <2> QED BY <2>3, <2>4 DEF c
  <1>11. CASE Downwards(a, b, d, k)
    <2> DEFINE l == k + 1
               u == At(a, b, d - 1, l)
               w == u - l
               e == Edit("insert", u, u, w, w + 1)
    <2>1. Visited(a, b, d - 1, l) /\ f = u /\ k # d
      BY <1>1, <1>11, AtStep DEF f
    <2>2. u \in Nat /\ 2 * u >= (d - 1) + l
      BY <1>10, <2>1
    <2>3. v[l] = u /\ Down(v, d, k)
      BY <1>5, <1>11
    <2> HIDE DEF u
    <2>4. w \in Nat /\ w + 1 = f - k /\ u <= N /\ w + 1 <= M /\ u = f
      <3>1. f = u /\ k + 1 <= d /\ r \in Nat
        BY <1>3, <1>7, <2>1
      <3>2. 2 * u >= 2 * k + 1
        BY <1>3, <2>2, <3>1
      <3>3. u >= k + 1
        BY <1>3, <2>2, <3>2
      <3>4. w \in Nat /\ w + 1 = u - k
        BY <1>3, <2>2, <3>3
      <3>5. u <= N /\ w + 1 = y - r
        BY <1>3, <1>4, <1>8, <3>1, <3>4
      <3> QED BY <1>3, <1>4, <3>1, <3>4, <3>5
    <2>5. x - u = r /\ y - w = r + 1 /\ Max({0, Min({x - u, y - w})}) = r
      <3>1. x - u = r /\ y - w = r + 1
        BY <1>3, <1>7, <1>8, <2>4
      <3> QED BY <1>7, <3>1, Smaller
    <2>6. x - r = u /\ y - r = w + 1
      BY <1>3, <1>7, <1>8, <2>4
    <2> HIDE DEF l, w, t
    <2>7. StepBack(t, s, d) = [x |-> u, y |-> w, edits |-> <<e>> \o es]
      <3>1. l = IF Down(v, d, k) THEN k + 1 ELSE k - 1
        BY <2>3 DEF l
      <3>2. w = u - l
        BY DEF w
      <3>3. StepBack(t, s, d) =
              [x |-> v[l], y |-> v[l] - l,
               edits |-> <<IF x - r = v[l] THEN Edit("insert", x - r, x - r, v[l] - l, y - r)
                           ELSE Edit("delete", v[l], x - r, y - r, y - r)>> \o es]
        <4> HIDE DEF v, es
        <4>1. r = Max({0, Min({x - v[l], y - (v[l] - l)})})
          BY <2>3, <2>5, <3>2
        <4> QED BY <1>8, <3>1, <4>1, ZenonT(60) DEF StepBack, x, y, es, v
      <3> QED BY <2>3, <2>6, <3>2, <3>3
    <2>8. e \in EditOf(a, b) /\ EndOf(e) = <<u, w + 1>> /\ StartOf(e) = <<u, w>>
      <3>1. u \in 0..N /\ u \in 0..N /\ w \in 0..M /\ w + 1 \in 0..M
            /\ u <= u /\ w <= w + 1
        BY <1>3, <2>2, <2>4
      <3>2. /\ e.op = "insert" /\ e.oldStart = u /\ e.oldEnd = u /\ e.newStart = w /\ e.newEnd = w + 1
            /\ e = [op |-> "insert", oldStart |-> u, oldEnd |-> u, newStart |-> w, newEnd |-> w + 1]
        BY DEF Edit
      <3> HIDE DEF e
      <3>3. e \in [op : {"insert", "delete"}, oldStart : 0..N, oldEnd : 0..N, newStart : 0..M, newEnd : 0..M]
        BY <3>1, <3>2
      <3>4. e \in EditOf(a, b)
        BY <3>1, <3>2, <3>3 DEF EditOf, N, M
      <3> QED BY <3>2, <3>4 DEF EndOf, StartOf
    <2>13. Size(e) = 1
      <3>1. (u - u) + ((w + 1) - w) = 1 /\ ((u + 1) - u) + (w - w) = 1
        BY <2>2, <2>4
      <3> QED BY <3>1 DEF Size, Edit
    <2> HIDE DEF e
    <2>9. Chain(a, b, <<e>> \o es, <<u, w>>, q)
      BY <1>9, <2>4, <2>8
    <2> DEFINE n == StepBack(t, s, d)
    <2>10. n.x = u /\ n.y = w /\ n.edits = <<e>> \o es
      BY <2>7
    <2> HIDE DEF n, es
    <2>14. OneMore(a, b, es, n.edits)
      BY <2>8, <2>10, <2>13 DEF OneMore
    <2>11. <<u, w>> \in Place(a, b)
      BY <1>3, <2>8, EditIs DEF N, M
    <2>12. On(a, b, q, n, d - 1)
      BY <2>1, <2>9, <2>10, <2>11 DEF On, u, w
    <2> QED BY <2>12, <2>14 DEF n, t, es
  <1>12. CASE ~Downwards(a, b, d, k)
    <2> DEFINE l == k - 1
               u == At(a, b, d - 1, l)
               w == u - l
               e == Edit("delete", u, u + 1, w, w)
    <2>1. Visited(a, b, d - 1, l) /\ f = u + 1 /\ k # -d
      BY <1>1, <1>12, AtStep DEF f
    <2>2. u \in Nat /\ 2 * u >= (d - 1) + l
      BY <1>10, <2>1
    <2>3. v[l] = u /\ ~Down(v, d, k)
      BY <1>5, <1>12
    <2> HIDE DEF u
    <2>4. w \in Nat /\ w = f - k /\ u + 1 <= N /\ w <= M /\ u + 1 = f
      <3>1. f = u + 1 /\ k <= d /\ r \in Nat
        BY <1>3, <1>7, <2>1
      <3>2. 2 * u >= 2 * k - 2
        BY <1>3, <2>2, <3>1
      <3>3. u >= k - 1
        BY <1>3, <2>2, <3>2
      <3>4. w \in Nat /\ w = (u + 1) - k
        BY <1>3, <2>2, <3>3
      <3>5. u + 1 <= N /\ w = y - r
        BY <1>3, <1>4, <1>8, <3>1, <3>4
      <3> QED BY <1>3, <1>4, <3>1, <3>4, <3>5
    <2>5. x - u = r + 1 /\ y - w = r /\ Max({0, Min({x - u, y - w})}) = r
      <3>1. x - u = r + 1 /\ y - w = r
        BY <1>3, <1>7, <1>8, <2>2, <2>4
      <3> QED BY <1>7, <3>1, Smaller
    <2>6. x - r = u + 1 /\ y - r = w /\ u + 1 # u
      BY <1>3, <1>7, <1>8, <2>2, <2>4
    <2> HIDE DEF l, w, t
    <2>7. StepBack(t, s, d) = [x |-> u, y |-> w, edits |-> <<e>> \o es]
      <3>1. l = IF Down(v, d, k) THEN k + 1 ELSE k - 1
        BY <2>3 DEF l
      <3>2. w = u - l
        BY DEF w
      <3>3. StepBack(t, s, d) =
              [x |-> v[l], y |-> v[l] - l,
               edits |-> <<IF x - r = v[l] THEN Edit("insert", x - r, x - r, v[l] - l, y - r)
                           ELSE Edit("delete", v[l], x - r, y - r, y - r)>> \o es]
        <4> HIDE DEF v, es
        <4>1. r = Max({0, Min({x - v[l], y - (v[l] - l)})})
          BY <2>3, <2>5, <3>2
        <4> QED BY <1>8, <3>1, <4>1, ZenonT(60) DEF StepBack, x, y, es, v
      <3> QED BY <2>3, <2>6, <3>2, <3>3
    <2>8. e \in EditOf(a, b) /\ EndOf(e) = <<u + 1, w>> /\ StartOf(e) = <<u, w>>
      <3>1. u \in 0..N /\ u + 1 \in 0..N /\ w \in 0..M /\ w \in 0..M
            /\ u <= u + 1 /\ w <= w
        BY <1>3, <2>2, <2>4
      <3>2. /\ e.op = "delete" /\ e.oldStart = u /\ e.oldEnd = u + 1 /\ e.newStart = w /\ e.newEnd = w
            /\ e = [op |-> "delete", oldStart |-> u, oldEnd |-> u + 1, newStart |-> w, newEnd |-> w]
        BY DEF Edit
      <3> HIDE DEF e
      <3>3. e \in [op : {"insert", "delete"}, oldStart : 0..N, oldEnd : 0..N, newStart : 0..M, newEnd : 0..M]
        BY <3>1, <3>2
      <3>4. e \in EditOf(a, b)
        BY <3>1, <3>2, <3>3 DEF EditOf, N, M
      <3> QED BY <3>2, <3>4 DEF EndOf, StartOf
    <2>13. Size(e) = 1
      <3>1. (u - u) + ((w + 1) - w) = 1 /\ ((u + 1) - u) + (w - w) = 1
        BY <2>2, <2>4
      <3> QED BY <3>1 DEF Size, Edit
    <2> HIDE DEF e
    <2>9. Chain(a, b, <<e>> \o es, <<u, w>>, q)
      BY <1>9, <2>4, <2>8
    <2> DEFINE n == StepBack(t, s, d)
    <2>10. n.x = u /\ n.y = w /\ n.edits = <<e>> \o es
      BY <2>7
    <2> HIDE DEF n, es
    <2>14. OneMore(a, b, es, n.edits)
      BY <2>8, <2>10, <2>13 DEF OneMore
    <2>11. <<u, w>> \in Place(a, b)
      BY <1>3, <2>8, EditIs DEF N, M
    <2>12. On(a, b, q, n, d - 1)
      BY <2>1, <2>9, <2>10, <2>11 DEF On, u, w
    <2> QED BY <2>12, <2>14 DEF n, t, es
  <1> QED BY <1>11, <1>12

\* The walk back as its turns.
WalkStart(a, b) == [x |-> Len(a), y |-> Len(b), edits |-> <<>>]

\* Backtrack is a fold of turns, from the end of both texts.
LEMMA BackTurns ==
    ASSUME NEW a, NEW b, NEW t, NEW n \in Nat
    PROVE  \E h : /\ Turns(<<"back", t, n>>, WalkStart(a, b), Numbers(n), h)
                  /\ h[n].edits = Backtrack(a, b, t, n)
  <1> DEFINE v == Numbers(n)
             start == WalkStart(a, b)
             what == <<"back", t, n>>
             Is(f) == f = [s \in SUBSET DOMAIN v |->
                              IF s = {} THEN start
                              ELSE StepBack(t, f[s \ {Max(s)}], n + 1 - v[Max(s)])]
             table == CHOOSE f : Is(f)
  <1>1. Len(v) = n /\ DOMAIN v = 1..n
    BY DEF Numbers
  <1>2. Backtrack(a, b, t, n) = table[DOMAIN v].edits
    BY DEF Backtrack, FoldLeft, MapThenFoldSet, WalkStart, Numbers
  <1> HIDE DEF v, start
  <1>3. \A f : Is(f) <=> IsTable(what, start, v, f)
    BY DEF IsTable, Turn
  <1> HIDE DEF what
  <1>4. \E f : Is(f)
    BY <1>1, <1>3, TableExists
  <1>5. Is(table)
    BY <1>4
  <1> HIDE DEF Is, table
  <1>6. IsTable(what, start, v, table)
    BY <1>3, <1>5
  <1>7. \E h : Turns(what, start, v, h) /\ h[Len(v)] = table[DOMAIN v]
    BY <1>1, <1>6, TableTurns
  <1> QED BY <1>1, <1>2, <1>7 DEF start, what, v

\* So many edits, and each touches one line.
Ones(es, n) == Len(es) = n /\ \A i \in 1..n : Size(es[i]) = 1

\* A step back makes it one more.
LEMMA OnesMore ==
    ASSUME NEW a, NEW b, NEW es \in Seq(EditOf(a, b)), NEW new, NEW n \in Nat,
           Ones(es, n), OneMore(a, b, es, new)
    PROVE  Ones(new, n + 1)
  <1>1. PICK e \in EditOf(a, b) : Size(e) = 1 /\ new = <<e>> \o es
    BY DEF OneMore
  <1>2. Len(es) = n /\ \A i \in 1..n : Size(es[i]) = 1
    BY DEF Ones
  <1> DEFINE one == <<e>>
  <1>3. one \in Seq(EditOf(a, b)) /\ Len(one) = 1 /\ one[1] = e /\ new = one \o es
    BY <1>1
  <1> HIDE DEF one
  <1>4. /\ Len(new) = 1 + n
        /\ \A j \in 1..1 : new[j] = one[j]
        /\ \A j \in 1..n : new[1 + j] = es[j]
    <2>1. /\ Len(one \o es) = Len(one) + Len(es)
          /\ \A j \in 1..Len(one) : (one \o es)[j] = one[j]
          /\ \A j \in 1..Len(es) : (one \o es)[Len(one) + j] = es[j]
      <3>1. Len(one \o es) = Len(one) + Len(es)
        BY <1>3, Joined
      <3>2. \A j \in 1..Len(one) : (one \o es)[j] = one[j]
        BY <1>3, Joined
      <3>3. \A j \in 1..Len(es) : (one \o es)[Len(one) + j] = es[j]
        BY <1>3, Joined, Zenon
      <3> QED BY <3>1, <3>2, <3>3
    <2> QED BY <1>2, <1>3, <2>1
  <1>5. ASSUME NEW i \in 1..n + 1 PROVE Size(new[i]) = 1
    <2>1. CASE i = 1
      BY <1>1, <1>3, <1>4, <2>1
    <2>2. CASE i # 1
      <3> DEFINE j == i - 1
      <3>1. j \in 1..n /\ i = 1 + j
        BY <2>2
      <3> HIDE DEF j
      <3> QED BY <1>2, <1>4, <3>1
    <2> QED BY <2>1, <2>2
  <1>6. 1 + n = n + 1
    OBVIOUS
  <1> QED BY <1>4, <1>5, <1>6 DEF Ones

\* The walk back from the end of both texts gets to their start, in as many steps
\* as the search had rounds.
LEMMA BackChain ==
    ASSUME NEW S, NEW a \in Seq(S), NEW b \in Seq(S), Len(a) + Len(b) # 0
    PROVE  /\ Chain(a, b, Backtrack(a, b, Trace(a, b), Depth(a, b, Trace(a, b))), <<0, 0>>, <<Len(a), Len(b)>>)
           /\ Ones(Backtrack(a, b, Trace(a, b), Depth(a, b, Trace(a, b))), Depth(a, b, Trace(a, b)))
  <1> DEFINE t == Trace(a, b)
             c == Depth(a, b, t)
             q == <<Len(a), Len(b)>>
             k == Len(a) - Len(b)
  <1>1. Visited(a, b, c, k) /\ At(a, b, c, k) = Len(a)
    <2>1. Visited(a, b, c, k)
      BY DepthIs
    <2>2. At(a, b, c, k) = Len(a)
      BY DepthIs
    <2> QED BY <2>1, <2>2
  <1>2. Len(a) \in Nat /\ Len(b) \in Nat /\ c \in Nat
    BY <1>1, AtHas
  <1> HIDE DEF c
  <1>3. PICK h : /\ Turns(<<"back", t, c>>, WalkStart(a, b), Numbers(c), h)
                 /\ h[c].edits = Backtrack(a, b, t, c)
    <2> HIDE DEF t
    <2> QED BY <1>2, BackTurns
  <1>4. h[0] = WalkStart(a, b) /\ \A i \in 1..c : h[i] = StepBack(t, h[i - 1], c + 1 - i)
    <2>1. Len(Numbers(c)) = c /\ \A i \in 1..c : Numbers(c)[i] = i
      BY <1>2 DEF Numbers
    <2> HIDE DEF t
    <2> QED BY <1>3, <2>1 DEF Turns, Turn
  <1> HIDE DEF t
  <1> DEFINE good == {i \in 0..c : On(a, b, q, h[i], c - i) /\ Ones(h[i].edits, i)}
  <1>5. 0 \in good
    <2> DEFINE s == h[0]
               z == <<Len(a), Len(b)>>
    <2>1. s.x = Len(a) /\ s.y = Len(b) /\ s.edits = <<>> /\ Len(a) - k = Len(b)
      BY <1>2, <1>4 DEF WalkStart
    <2>2. z \in Place(a, b)
      BY <1>2 DEF Place
    <2> HIDE DEF z, k, s
    <2>3. Gap(a, b, z, z)
      BY <1>2, <2>2, GapNone
    <2>4. Chain(a, b, <<>>, z, z)
      BY <1>2, <2>3, ChainNone
    <2>5. On(a, b, z, s, c)
      BY <1>1, <2>1, <2>2, <2>4 DEF On, z
    <2>6. c - 0 = c /\ 0 \in 0..c
      BY <1>2
    <2>7. Ones(<<>>, 0)
      BY DEF Ones
    <2> QED BY <2>1, <2>5, <2>6, <2>7 DEF s, z
  <1>6. ASSUME NEW i \in 0..c - 1, i \in good PROVE i + 1 \in good
    <2> DEFINE d == c - i
               s == h[i]
    <2>1. d # 0 /\ On(a, b, q, s, d) /\ i + 1 \in 1..c /\ i + 1 \in 0..c /\ (i + 1) - 1 = i
          /\ c + 1 - (i + 1) = d /\ c - (i + 1) = d - 1
      BY <1>2, <1>6
    <2>2. h[i + 1] = StepBack(t, s, d)
      BY <1>4, <2>1
    <2>4. Ones(s.edits, i) /\ i \in Nat
      BY <1>2, <1>6
    <2> HIDE DEF d, s, q
    <2>3. On(a, b, q, StepBack(t, s, d), d - 1)
      BY <2>1, BackStep DEF t
    <2>5. OneMore(a, b, s.edits, StepBack(t, s, d).edits)
      BY <2>1, BackStep DEF t
    <2>6. s.edits \in Seq(EditOf(a, b))
      BY <2>1 DEF On, Chain
    <2>7. Ones(StepBack(t, s, d).edits, i + 1)
      BY <2>4, <2>5, <2>6, OnesMore
    <2> QED BY <2>1, <2>2, <2>3, <2>7
  <1>7. On(a, b, q, h[c], 0) /\ Ones(h[c].edits, c)
    <2> HIDE DEF good, q
    <2>1. \A i \in 0..c : i \in good
      BY <1>2, <1>5, <1>6, Induction
    <2>2. c \in 0..c /\ c - c = 0
      BY <1>2
    <2> QED BY <2>1, <2>2 DEF good
  <1> DEFINE s == h[c]
             p == <<0, 0>>
             z == <<s.x, s.y>>
             es == s.edits
  <1>8. PICK l : /\ Visited(a, b, 0, l)
                 /\ s.x = At(a, b, 0, l) /\ s.y = At(a, b, 0, l) - l
                 /\ z \in Place(a, b) /\ Chain(a, b, es, z, q)
    BY <1>7 DEF On
  <1>9. l = 0 /\ From(a, b, 0, l) = 0
    BY <1>8 DEF Visited, Diagonals, From
  <1> DEFINE r == Run(a, b, 0, 0)
  <1>10. s.x = r /\ s.y = r /\ r \in Nat /\ \A i \in 1..r : a[i] = b[i]
    <2>1. At(a, b, 0, l) = 0 + Run(a, b, 0, 0 - 0) /\ At(a, b, 0, l) \in Nat
      BY <1>8, <1>9, AtHas
    <2>2. 0 \in Nat /\ 0 \in Int
      OBVIOUS
    <2>3. r \in Nat
      BY <2>2, RunIs
    <2>4. \A i \in 1..r : a[0 + i] = b[0 + i]
      BY <2>2, RunIs
    <2>5. 0 - 0 = 0 /\ \A i \in 1..r : 0 + i = i
      OBVIOUS
    <2> HIDE DEF s, r
    <2>6. At(a, b, 0, l) = r
      BY <2>1, <2>3, <2>5 DEF r
    <2>7. s.x = r /\ s.y = r
      BY <1>8, <1>9, <2>3, <2>6
    <2>8. \A i \in 1..r : a[i] = b[i]
      BY <2>4, <2>5
    <2> QED BY <2>3, <2>7, <2>8
  <1> HIDE DEF s, es, r
  <1>11. Gap(a, b, p, z)
    <2>1. p \in Place(a, b) /\ p[1] = 0 /\ p[2] = 0 /\ z[1] = r /\ z[2] = r
      BY <1>2, <1>10 DEF Place
    <2> HIDE DEF p, z
    <2>2. p[1] <= z[1] /\ z[1] - p[1] = r /\ z[2] - p[2] = r
      BY <1>10, <2>1
    <2>3. \A i \in 1..z[1] - p[1] : a[p[1] + i] = b[p[2] + i]
      <3>1. \A i \in 1..r : 0 + i = i
        BY <1>10
      <3> QED BY <1>10, <2>1, <2>2, <3>1
    <2> QED BY <1>8, <2>1, <2>2, <2>3 DEF Gap
  <1>12. Chain(a, b, es, p, q)
    <2> HIDE DEF p, z, q
    <2> QED BY <1>2, <1>8, <1>11, ChainBack
  <1> QED BY <1>3, <1>7, <1>12 DEF c, t, q, p, es, s

\* Any script leads from the start of both texts to their end.
LEMMA ScriptChain ==
    ASSUME NEW S, NEW a \in Seq(S), NEW b \in Seq(S)
    PROVE  Chain(a, b, Script(a, b), <<0, 0>>, <<Len(a), Len(b)>>)
  <1> DEFINE p == <<0, 0>>
             q == <<Len(a), Len(b)>>
             n == Len(a)
             m == Len(b)
  <1>1. n \in Nat /\ m \in Nat
    OBVIOUS
  <1>2. p \in Place(a, b) /\ q \in Place(a, b)
    BY <1>1 DEF Place
  <1>3. ASSUME NEW e \in EditOf(a, b), StartOf(e) = p, EndOf(e) = q
        PROVE  Chain(a, b, <<e>>, p, q)
    <2> HIDE DEF p, q
    <2>1. Gap(a, b, p, StartOf(e)) /\ Gap(a, b, EndOf(e), q)
      BY <1>1, <1>2, <1>3, GapNone DEF n, m
    <2>2. Chain(a, b, <<>>, EndOf(e), q)
      BY <1>1, <2>1, ChainNone DEF n, m
    <2>3. Chain(a, b, <<e>> \o <<>>, p, q)
      BY <1>1, <2>1, <2>2, ChainPrefixed DEF n, m
    <2>4. <<e>> \o <<>> = <<e>>
      OBVIOUS
    <2> QED BY <2>3, <2>4
  <1>4. CASE a = <<>>
    <2> DEFINE e == Edit("insert", 0, 0, 0, m)
    <2>1. n = 0
      BY <1>4
    <2>2. /\ e.op = "insert" /\ e.oldStart = 0 /\ e.oldEnd = n /\ e.newStart = 0 /\ e.newEnd = m
          /\ e = [op |-> "insert", oldStart |-> 0, oldEnd |-> n, newStart |-> 0, newEnd |-> m]
      BY <2>1 DEF Edit
    <2> HIDE DEF n, m
    <2>3. Script(a, b) = <<e>>
      BY <1>4 DEF Script, m
    <2> HIDE DEF e
    <2>4. e \in [op : {"insert", "delete"}, oldStart : 0..n, oldEnd : 0..n, newStart : 0..m, newEnd : 0..m]
      BY <1>1, <2>2
    <2>5. e \in EditOf(a, b)
      BY <1>1, <2>2, <2>4 DEF EditOf, n, m
    <2>6. StartOf(e) = p /\ EndOf(e) = q
      BY <2>2 DEF StartOf, EndOf, n, m
    <2>7. Chain(a, b, <<e>>, p, q)
      BY <1>3, <2>5, <2>6
    <2> QED BY <2>3, <2>7 DEF n, m
  <1>5. CASE a # <<>> /\ b = <<>>
    <2> DEFINE e == Edit("delete", 0, n, 0, 0)
    <2>1. m = 0
      BY <1>5
    <2>2. /\ e.op = "delete" /\ e.oldStart = 0 /\ e.oldEnd = n /\ e.newStart = 0 /\ e.newEnd = m
          /\ e = [op |-> "delete", oldStart |-> 0, oldEnd |-> n, newStart |-> 0, newEnd |-> m]
      BY <2>1 DEF Edit
    <2> HIDE DEF n, m
    <2>3. Script(a, b) = <<e>>
      BY <1>5 DEF Script, n
    <2> HIDE DEF e
    <2>4. e \in [op : {"insert", "delete"}, oldStart : 0..n, oldEnd : 0..n, newStart : 0..m, newEnd : 0..m]
      BY <1>1, <2>2
    <2>5. e \in EditOf(a, b)
      BY <1>1, <2>2, <2>4 DEF EditOf, n, m
    <2>6. StartOf(e) = p /\ EndOf(e) = q
      BY <2>2 DEF StartOf, EndOf, n, m
    <2>7. Chain(a, b, <<e>>, p, q)
      BY <1>3, <2>5, <2>6
    <2> QED BY <2>3, <2>7 DEF n, m
  <1>6. CASE a # <<>> /\ b # <<>>
    <2>1. n + m # 0
      BY <1>6
    <2>2. Script(a, b) = Backtrack(a, b, Trace(a, b), Depth(a, b, Trace(a, b)))
      BY <1>6 DEF Script
    <2> QED BY <2>1, <2>2, BackChain
  <1> QED BY <1>4, <1>5, <1>6

\* So do merged scripts.
LEMMA DiffChain ==
    ASSUME NEW S, NEW a \in Seq(S), NEW b \in Seq(S)
    PROVE  /\ Chain(a, b, Diff(a, b), <<0, 0>>, <<Len(a), Len(b)>>)
           /\ Covered(Script(a, b), Diff(a, b))
  <1> DEFINE es == Script(a, b)
             p == <<0, 0>>
             q == <<Len(a), Len(b)>>
  <1>1. Chain(a, b, es, p, q) /\ Len(a) \in Nat /\ Len(b) \in Nat
    BY ScriptChain
  <1> HIDE DEF es, p, q
  <1>2. Chain(a, b, Compact(es), p, q) /\ Covered(es, Compact(es))
    BY <1>1, CompactChain
  <1> QED BY <1>2 DEF Diff, es, p, q

-----------------------------------------------------------------------------
(* A side that has not changed *)

\* A run does not stop before the end of a text without a difference.
LEMMA RunEnds ==
    ASSUME NEW S, NEW a \in Seq(S), NEW b \in Seq(S), NEW x \in Nat, NEW y \in Int
    PROVE  \/ x + Run(a, b, x, y) >= Len(a)
           \/ y + Run(a, b, x, y) >= Len(b)
           \/ a[x + Run(a, b, x, y) + 1] # b[y + Run(a, b, x, y) + 1]
  <1> DEFINE n == Len(a)
             s == {i \in 0..n : \/ x + i >= n \/ y + i >= Len(b) \/ a[x + i + 1] # b[y + i + 1]}
             r == Run(a, b, x, y)
  <1>1. n \in Nat /\ n \in s /\ s \in SUBSET Nat
    OBVIOUS
  <1>2. r = Min(s)
    BY DEF Run
  <1>3. r \in s
    <2> HIDE DEF s, r
    <2> QED BY <1>1, <1>2, LeastIs
  <1> HIDE DEF r
  <1> QED BY <1>3 DEF r

\* A text differs from itself by nothing, or, if it is empty, by an insertion of
\* nothing.
Nothing == {<<>>, <<Edit("insert", 0, 0, 0, 0)>>}

\* That is what Diff finds of a text and itself.
LEMMA SelfDiff ==
    ASSUME NEW S, NEW a \in Seq(S)
    PROVE  Diff(a, a) \in Nothing
  <1>1. ASSUME NEW e PROVE Compact(<<e>>) = <<e>>
    <2> DEFINE v == <<e>>
    <2>1. Len(v) = 1 /\ v[1] = e /\ Len(v) \in Nat /\ DOMAIN v = 1..Len(v)
      OBVIOUS
    <2> HIDE DEF v
    <2>2. PICK h : Turns(<<"compact">>, <<>>, v, h) /\ h[Len(v)] = Compact(v)
      BY <2>1, CompactTurns
    <2>3. h[0] = <<>> /\ h[1] = Turn(<<"compact">>, h[1 - 1], v[1])
      BY <2>1, <2>2 DEF Turns
    <2>4. h[1] = Joining(<<>>, e)
      BY <2>1, <2>3 DEF Turn
    <2>5. Joining(<<>>, e) = Append(<<>>, e)
      BY Zenon DEF Joining
    <2>6. Append(<<>>, e) = <<e>>
      OBVIOUS
    <2> QED BY <2>1, <2>2, <2>4, <2>5, <2>6 DEF v
  <1>2. Compact(<<>>) = <<>>
    <2> DEFINE v == <<>>
    <2>1. Len(v) = 0 /\ DOMAIN v = 1..0
      OBVIOUS
    <2> HIDE DEF v
    <2>2. PICK h : Turns(<<"compact">>, <<>>, v, h) /\ h[Len(v)] = Compact(v)
      BY <2>1, CompactTurns
    <2>3. h[0] = <<>>
      BY <2>2 DEF Turns
    <2> QED BY <2>1, <2>2, <2>3 DEF v
  <1>3. CASE a = <<>>
    <2>1. Script(a, a) = <<Edit("insert", 0, 0, 0, 0)>>
      BY <1>3 DEF Script
    <2> QED BY <1>1, <2>1 DEF Diff, Nothing
  <1>4. CASE a # <<>>
    <2> DEFINE t == Trace(a, a)
               c == Depth(a, a, t)
               n == Len(a)
    <2>1. n \in Nat /\ n # 0 /\ n + n # 0
      BY <1>4
    <2>2. Visited(a, a, 0, 0)
      <3>1. 0 \in Diagonals(0) /\ 0 \in 0..n + n
        BY <2>1 DEF Diagonals
      <3> QED BY <2>1, <3>1 DEF Visited
    <2>3. At(a, a, 0, 0) = 0 + Run(a, a, 0, 0 - 0)
      <3>1. From(a, a, 0, 0) = 0
        BY DEF From
      <3> QED BY <2>2, <3>1, AtHas
    <2> DEFINE r == Run(a, a, 0, 0)
    <2>4. r \in Nat /\ r >= n
      <3>1. 0 \in Nat /\ 0 \in Int
        OBVIOUS
      <3>2. r \in Nat
        BY <3>1, RunIs
      <3>3. 0 + r >= Len(a) \/ 0 + r >= Len(a) \/ a[0 + r + 1] # a[0 + r + 1]
        BY <3>1, RunEnds
      <3> HIDE DEF r
      <3> QED BY <3>2, <3>3
    <2>5. At(a, a, 0, 0) = r
      <3>1. 0 - 0 = 0 /\ 0 + r = r
        BY <2>4
      <3> QED BY <2>3, <3>1
    <2>6. Reached(a, a, 0, 0)
      <3> HIDE DEF r
      <3>1. At(a, a, 0, 0) >= Len(a) /\ At(a, a, 0, 0) - 0 >= Len(a)
        BY <2>1, <2>4, <2>5
      <3> QED BY <2>2, <3>1 DEF Reached
    <2>7. c <= 0 /\ c \in Nat
      <3>1. Visited(a, a, c, n - n) /\ c <= 0
        BY <2>1, <2>6, DepthIs
      <3> QED BY <3>1, AtHas
    <2>8. c = 0
      <3> HIDE DEF c
      <3> QED BY <2>7
    <2>9. PICK h : /\ Turns(<<"back", t, 0>>, WalkStart(a, a), Numbers(0), h)
                   /\ h[0].edits = Backtrack(a, a, t, 0)
      <3> HIDE DEF t
      <3> QED BY BackTurns
    <2>10. Backtrack(a, a, t, 0) = <<>>
      <3>1. h[0] = WalkStart(a, a)
        BY <2>9 DEF Turns
      <3> QED BY <2>9, <3>1 DEF WalkStart
    <2>11. Script(a, a) = Backtrack(a, a, t, c)
      BY <1>4 DEF Script
    <2>12. Script(a, a) = <<>>
      BY <2>8, <2>10, <2>11
    <2> QED BY <1>2, <2>12 DEF Diff, Nothing
  <1> QED BY <1>3, <1>4

\* Applying nothing leaves the lines of a text as they are.
LEMMA NothingTaken ==
    ASSUME NEW S, NEW text \in Seq(S), NEW es \in Nothing
    PROVE  Remaining(text, es) = text
  <1> DEFINE start == [pos |-> 0, out |-> <<>>]
             what == <<"apply", text>>
             Is(f) == f = [s \in SUBSET DOMAIN es |->
                              IF s = {} THEN start ELSE Keeping(text, f[s \ {Max(s)}], es[Max(s)])]
             table == CHOOSE f : Is(f)
             r == table[DOMAIN es]
  <1>1. Remaining(text, es) = r.out \o Lines(text, r.pos, Len(text))
    BY DEF Remaining, FoldLeft, MapThenFoldSet, Keeping
  <1>2. \A f : Is(f) <=> IsTable(what, start, es, f)
    BY DEF IsTable, Turn
  <1>3. Len(es) \in Nat /\ DOMAIN es = 1..Len(es)
    BY DEF Nothing
  <1>4. what[1] = "apply" /\ what[2] = text
    OBVIOUS
  <1> HIDE DEF start, what
  <1>5. \E f : Is(f)
    BY <1>2, <1>3, TableExists
  <1>6. Is(table)
    BY <1>5
  <1> HIDE DEF Is, table
  <1>7. IsTable(what, start, es, table)
    BY <1>2, <1>6
  <1>8. PICK h : Turns(what, start, es, h) /\ h[Len(es)] = r
    BY <1>3, <1>7, TableTurns
  <1>9. r = start
    <2>1. CASE es = <<>>
      BY <1>8, <2>1 DEF Turns
    <2>2. CASE es = <<Edit("insert", 0, 0, 0, 0)>>
      <3> DEFINE e == Edit("insert", 0, 0, 0, 0)
      <3>1. Len(es) = 1 /\ es[1] = e /\ e.newEnd = 0 /\ e.newStart = 0
        BY <2>2 DEF Edit
      <3> HIDE DEF e
      <3>2. h[0] = start /\ h[1] = Turn(what, h[1 - 1], es[1])
        BY <1>8, <3>1 DEF Turns
      <3>3. h[1] = Keeping(text, start, e)
        BY <1>4, <3>1, <3>2 DEF Turn
      <3>4. start.pos = 0 /\ start.out = <<>>
        BY DEF start
      <3>5. Lines(text, 0, 0) = <<>>
        <4>1. Min({0, Len(text)}) = 0
          <5>1. Len(text) \in Nat
            OBVIOUS
          <5>2. \E m \in {0, Len(text)} : \A k \in {0, Len(text)} : m <= k
            BY <5>1
          <5> QED BY <5>1, <5>2 DEF Min
        <4> QED BY <4>1 DEF Lines
      <3>6. Keeping(text, start, e) = start
        BY <3>1, <3>4, <3>5 DEF Keeping, start
      <3> QED BY <1>8, <3>1, <3>3, <3>6
    <2> QED BY <2>1, <2>2 DEF Nothing
  <1>10. Lines(text, 0, Len(text)) = text
    <2>1. Min({Len(text), Len(text)}) = Len(text)
      <3>1. Len(text) \in Nat
        OBVIOUS
      <3> QED BY <3>1 DEF Min
    <2> QED BY <2>1 DEF Lines
  <1> QED BY <1>1, <1>9, <1>10 DEF start

\* So it gives back the text, but for a line feed at its end.
LEMMA NothingApplied ==
    ASSUME NEW S, NEW text \in Seq(S), text # <<>>, NEW es \in Nothing
    PROVE  /\ Split(text) \in Seq(S)
           /\ ApplyEdits(text, es)
                 = IF Len(text) > 1 /\ Last(text) = Empty THEN Front(text) ELSE text
  <1> DEFINE n == Len(text)
  <1>1. n \in Nat /\ n >= 1 /\ Last(text) = text[n] /\ Front(text) = SubSeq(text, 1, n - 1)
    BY DEF Last, Front
  <1>2. Front(text) \in Seq(S) /\ Len(Front(text)) = n - 1
    <2> DEFINE m == n - 1
    <2>1. m \in Nat /\ 0 \in Nat /\ 0 + m <= Len(text)
      BY <1>1
    <2>2. 0 + 1 = 1 /\ 0 + m = m
      BY <2>1
    <2> HIDE DEF m
    <2>3. SubSeq(text, 0 + 1, 0 + m) \in Seq(S) /\ Len(SubSeq(text, 0 + 1, 0 + m)) = m
      BY <2>1, Part
    <2> QED BY <1>1, <2>2, <2>3 DEF m
  <1>3. Split(text) \in Seq(S)
    BY <1>2 DEF Split
  <1>4. ApplyEdits(text, es) = Join(Split(text))
    BY <1>3, NothingTaken DEF ApplyEdits
  <1>5. CASE Last(text) # Empty
    <2>1. Split(text) = text
      BY <1>5 DEF Split
    <2> QED BY <1>3, <1>4, <1>5, <2>1 DEF Join
  <1>6. CASE Last(text) = Empty
    <2>1. Split(text) = Front(text)
      BY <1>6 DEF Split
    <2>2. CASE n > 1
      <3>1. Front(text) # <<>>
        <4> SUFFICES ASSUME Front(text) = <<>> PROVE FALSE
          OBVIOUS
        <4>1. n - 1 = 0 /\ n \in Nat
          BY <1>1, <1>2
        <4> HIDE DEF n
        <4> QED BY <2>2, <4>1
      <3> QED BY <1>3, <1>4, <1>6, <2>1, <2>2, <3>1 DEF Join
    <2>3. CASE ~(n > 1)
      <3>1. n = 1
        <4>1. n \in Nat /\ n >= 1
          BY <1>1
        <4> HIDE DEF n
        <4> QED BY <2>3, <4>1
      <3>2. Front(text) = <<>>
        BY <1>2, <3>1
      <3>3. text = <<Empty>>
        <4>1. Empty \in S /\ text[1] = Empty
          <5>1. text[1] = Empty
            BY <1>1, <1>6, <3>1
          <5>2. 1 \in 1..Len(text)
            BY <3>1
          <5> QED BY <5>1, <5>2
        <4>2. /\ <<Empty>> \in Seq(S) /\ Len(<<Empty>>) = 1 /\ Len(text) = 1
              /\ \A i \in 1..1 : text[i] = <<Empty>>[i]
          BY <3>1, <4>1
        <4> QED BY <4>2, SeqEqual
      <3> QED BY <1>3, <1>4, <2>1, <2>3, <3>2, <3>3 DEF Join
    <2> QED BY <2>2, <2>3
  <1> QED BY <1>3, <1>5, <1>6

\* Nor does nothing overlap with the edits of the other side.
LEMMA NothingOverlaps ==
    ASSUME NEW S, NEW a \in Seq(S), NEW b \in Seq(S), NEW o \in ToSet(Diff(a, b)),
           NEW es \in Nothing, NEW t \in ToSet(es)
    PROVE  ~Overlap(o, t)
  <1> DEFINE d == Diff(a, b)
  <1>1. d \in Seq(EditOf(a, b))
    BY DiffChain DEF Chain
  <1>2. o \in EditOf(a, b)
    <2> HIDE DEF d
    <2>1. PICK i \in DOMAIN d : o = d[i]
      BY DEF ToSet, d
    <2> QED BY <1>1, <2>1
  <1>3. o.oldStart \in Nat
    BY <1>2 DEF EditOf
  <1>4. t = Edit("insert", 0, 0, 0, 0)
    BY DEF ToSet, Nothing
  <1>5. t.oldEnd = 0
    BY <1>4 DEF Edit
  <1> QED BY <1>3, <1>5 DEF Overlap

-----------------------------------------------------------------------------
(* Longest common subsequences *)

\* The table of a longest common subsequence.
Made(a, b, f, p) ==
    IF p[1] = 0 \/ p[2] = 0 THEN 0
    ELSE IF a[p[1]] = b[p[2]] THEN f[<<p[1] - 1, p[2] - 1>>] + 1
    ELSE Max({f[<<p[1] - 1, p[2]>>], f[<<p[1], p[2] - 1>>]})
IsLcs(a, b, f) == f = [p \in Place(a, b) |-> Made(a, b, f, p)]

\* There is one.
LEMMA LcsExists ==
    ASSUME NEW S, NEW a \in Seq(S), NEW b \in Seq(S)
    PROVE  \E f : IsLcs(a, b, f)
  <1> DEFINE n == Len(a)
             m == Len(b)
             Upto(k) == \E f : \A p \in Place(a, b) : p[1] + p[2] <= k => f[p] = Made(a, b, f, p)
             good == {k \in 0..n + m : Upto(k)}
  <1>1. n \in Nat /\ m \in Nat /\ n + m \in Nat
    OBVIOUS
  <1>2. \A p \in Place(a, b) : p[1] \in 0..n /\ p[2] \in 0..m /\ p = <<p[1], p[2]>>
    BY DEF Place
  <1>3. \A i \in 0..n, j \in 0..m : <<i, j>> \in Place(a, b) /\ <<i, j>>[1] = i /\ <<i, j>>[2] = j
    BY DEF Place
  <1> HIDE DEF n, m
  <1>4. ASSUME NEW f, NEW g, NEW p \in Place(a, b),
               \A q \in Place(a, b) : q[1] + q[2] < p[1] + p[2] => g[q] = f[q]
        PROVE  Made(a, b, g, p) = Made(a, b, f, p)
    <2> DEFINE i == p[1]
               j == p[2]
    <2>1. i \in 0..n /\ j \in 0..m
      BY <1>2
    <2>2. ASSUME NEW x \in 0..n, NEW y \in 0..m, x + y < i + j PROVE g[<<x, y>>] = f[<<x, y>>]
      <3> DEFINE q == <<x, y>>
      <3>1. q \in Place(a, b) /\ q[1] = x /\ q[2] = y
        BY <1>3
      <3> HIDE DEF q, i, j
      <3>2. g[q] = f[q]
        BY <1>4, <2>2, <3>1 DEF i, j
      <3> QED BY <3>2 DEF q
    <2>3. CASE i = 0 \/ j = 0
      BY <2>3 DEF Made
    <2>4. CASE ~(i = 0 \/ j = 0)
      <3> DEFINE x == i - 1
                 y == j - 1
      <3>1. x \in 0..n /\ y \in 0..m /\ x + y < i + j /\ x + j < i + j /\ i + y < i + j
        <4> HIDE DEF i, j
        <4> QED BY <1>1, <2>1, <2>4
      <3> HIDE DEF x, y, i, j
      <3>2. g[<<x, y>>] = f[<<x, y>>] /\ g[<<x, j>>] = f[<<x, j>>] /\ g[<<i, y>>] = f[<<i, y>>]
        BY <2>1, <2>2, <3>1
      <3> QED BY <3>2 DEF Made, x, y, i, j
    <2> QED BY <2>3, <2>4
  <1>5. Upto(0)
    <2> DEFINE f == [p \in Place(a, b) |-> 0]
    <2>1. ASSUME NEW p \in Place(a, b), p[1] + p[2] <= 0 PROVE f[p] = Made(a, b, f, p)
      <3>1. p[1] = 0
        BY <1>1, <1>2, <2>1
      <3>2. Made(a, b, f, p) = 0
        BY <3>1 DEF Made
      <3> QED BY <3>2
    <2> HIDE DEF f
    <2> QED BY <2>1
  <1>6. ASSUME NEW k \in 0..(n + m) - 1, k \in good PROVE k + 1 \in good
    <2>1. PICK f : \A p \in Place(a, b) : p[1] + p[2] <= k => f[p] = Made(a, b, f, p)
      BY <1>6
    <2> DEFINE g == [p \in Place(a, b) |-> IF p[1] + p[2] <= k THEN f[p] ELSE Made(a, b, f, p)]
    <2>2. k \in Nat /\ k + 1 \in 0..n + m
      BY <1>1
    <2>3. ASSUME NEW p \in Place(a, b), p[1] + p[2] <= k + 1 PROVE g[p] = Made(a, b, g, p)
      <3>1. ASSUME NEW q \in Place(a, b), q[1] + q[2] < p[1] + p[2] PROVE g[q] = f[q]
        <4>1. q[1] + q[2] <= k
          <5> DEFINE x == p[1] + p[2]
                     y == q[1] + q[2]
          <5>1. x \in Int /\ y \in Int
            <6> DEFINE e == p[1]
                       h == p[2]
                       i == q[1]
                       j == q[2]
            <6>1. e \in 0..n /\ h \in 0..m /\ i \in 0..n /\ j \in 0..m
              BY <1>2
            <6> HIDE DEF e, h, i, j
            <6>2. e + h \in Int /\ i + j \in Int
              BY <1>1, <6>1
            <6> QED BY <6>2 DEF e, h, i, j
          <5> HIDE DEF x, y
          <5>2. x <= k + 1 /\ y < x
            BY <2>3, <3>1 DEF x, y
          <5>3. y <= k
            BY <2>2, <5>1, <5>2
          <5> QED BY <5>3 DEF y
        <4> QED BY <4>1
      <3>2. g[p] = Made(a, b, f, p)
        BY <2>1
      <3> HIDE DEF g
      <3>3. Made(a, b, g, p) = Made(a, b, f, p)
        BY <1>4, <3>1
      <3> QED BY <3>2, <3>3
    <2> HIDE DEF g
    <2>4. Upto(k + 1)
      BY <2>3
    <2> QED BY <2>2, <2>4
  <1>7. Upto(n + m)
    <2>1. 0 \in good /\ n + m \in 0..n + m
      BY <1>1, <1>5
    <2> HIDE DEF good, Upto
    <2>2. n + m \in good
      BY <1>1, <1>6, <2>1, Induction
    <2> QED BY <2>2 DEF good
  <1>8. PICK f : \A p \in Place(a, b) : p[1] + p[2] <= n + m => f[p] = Made(a, b, f, p)
    BY <1>7
  <1> DEFINE g == [p \in Place(a, b) |-> f[p]]
  <1>9. ASSUME NEW p \in Place(a, b) PROVE g[p] = Made(a, b, g, p)
    <2>1. g[p] = Made(a, b, f, p)
      <3>1. p[1] + p[2] <= n + m
        BY <1>1, <1>2
      <3> QED BY <1>8, <3>1
    <2>2. \A q \in Place(a, b) : g[q] = f[q]
      OBVIOUS
    <2> HIDE DEF g
    <2>3. Made(a, b, g, p) = Made(a, b, f, p)
      BY <1>4, <2>2
    <2> QED BY <2>1, <2>3
  <1>10. g = [p \in Place(a, b) |-> Made(a, b, g, p)]
    <2>1. g = [p \in Place(a, b) |-> g[p]]
      OBVIOUS
    <2> HIDE DEF g
    <2> QED BY <1>9, <2>1
  <1> HIDE DEF g
  <1> QED BY <1>10 DEF IsLcs

\* What stands in it.
LcsAt(a, b, f, i, j) ==
    /\ i = 0 \/ j = 0 => f[<<i, j>>] = 0
    /\ i # 0 /\ j # 0 =>
          f[<<i, j>>] = IF a[i] = b[j] THEN f[<<i - 1, j - 1>>] + 1
                        ELSE Max({f[<<i - 1, j>>], f[<<i, j - 1>>]})

\* It does so at each place.
LEMMA LcsIs ==
    ASSUME NEW S, NEW a \in Seq(S), NEW b \in Seq(S), NEW f, IsLcs(a, b, f),
           NEW i \in 0..Len(a), NEW j \in 0..Len(b)
    PROVE  LcsAt(a, b, f, i, j)
  <1> DEFINE p == <<i, j>>
  <1>1. p \in Place(a, b) /\ p[1] = i /\ p[2] = j
    BY DEF Place
  <1> HIDE DEF p
  <1>2. f[p] = Made(a, b, f, p)
    BY <1>1 DEF IsLcs
  <1>3. i = 0 \/ j = 0 => Made(a, b, f, p) = 0
    BY <1>1 DEF Made
  <1>4. i # 0 /\ j # 0 =>
            Made(a, b, f, p) = IF a[i] = b[j] THEN f[<<i - 1, j - 1>>] + 1
                               ELSE Max({f[<<i - 1, j>>], f[<<i, j - 1>>]})
    BY <1>1 DEF Made
  <1> QED BY <1>2, <1>3, <1>4 DEF p, LcsAt

\* It grows by at most one from a place to the next.
Grows(a, b, f, i, j) ==
    /\ f[<<i, j>>] \in Nat /\ f[<<i, j>>] <= i /\ f[<<i, j>>] <= j
    /\ i # 0 => f[<<i - 1, j>>] <= f[<<i, j>>] /\ f[<<i, j>>] <= f[<<i - 1, j>>] + 1
    /\ j # 0 => f[<<i, j - 1>>] <= f[<<i, j>>] /\ f[<<i, j>>] <= f[<<i, j - 1>>] + 1
    /\ i # 0 /\ j # 0 => IF a[i] = b[j] THEN f[<<i, j>>] = f[<<i - 1, j - 1>>] + 1
                         ELSE f[<<i, j>>] \in {f[<<i - 1, j>>], f[<<i, j - 1>>]}

\* That is so everywhere.
LEMMA LcsGrows ==
    ASSUME NEW S, NEW a \in Seq(S), NEW b \in Seq(S), NEW f, IsLcs(a, b, f)
    PROVE  \A i \in 0..Len(a), j \in 0..Len(b) : Grows(a, b, f, i, j)
  <1> DEFINE n == Len(a)
             m == Len(b)
             Fine(k) == \A i \in 0..n, j \in 0..m : i + j <= k => Grows(a, b, f, i, j)
             good == {k \in 0..n + m : Fine(k)}
  <1>1. n \in Nat /\ m \in Nat /\ n + m \in Nat
    OBVIOUS
  <1>2. \A i \in 0..n, j \in 0..m : LcsAt(a, b, f, i, j)
    BY LcsIs
  <1> HIDE DEF n, m
  <1>4. ASSUME NEW i \in 0..n, NEW j \in 0..m, i = 0 \/ j = 0 PROVE Grows(a, b, f, i, j)
    <2>1. f[<<i, j>>] = 0
      BY <1>2, <1>4 DEF LcsAt
    <2>2. i # 0 => f[<<i - 1, j>>] = 0
      <3> SUFFICES ASSUME i # 0 PROVE f[<<i - 1, j>>] = 0
        OBVIOUS
      <3> DEFINE x == i - 1
      <3>1. x \in 0..n /\ j = 0
        BY <1>1, <1>4
      <3> HIDE DEF x
      <3>2. f[<<x, j>>] = 0
        BY <1>2, <3>1 DEF LcsAt
      <3> QED BY <3>2 DEF x
    <2>3. j # 0 => f[<<i, j - 1>>] = 0
      <3> SUFFICES ASSUME j # 0 PROVE f[<<i, j - 1>>] = 0
        OBVIOUS
      <3> DEFINE y == j - 1
      <3>1. y \in 0..m /\ i = 0
        BY <1>1, <1>4
      <3> HIDE DEF y
      <3>2. f[<<i, y>>] = 0
        BY <1>2, <3>1 DEF LcsAt
      <3> QED BY <3>2 DEF y
    <2> QED BY <1>1, <1>4, <2>1, <2>2, <2>3 DEF Grows
  <1>5. Fine(0)
    <2> SUFFICES ASSUME NEW i \in 0..n, NEW j \in 0..m, i + j <= 0 PROVE Grows(a, b, f, i, j)
      OBVIOUS
    <2>1. i = 0
      BY <1>1
    <2> QED BY <1>4, <2>1
  <1>6. ASSUME NEW k \in 0..(n + m) - 1, k \in good PROVE k + 1 \in good
    <2>1. k \in Nat /\ k + 1 \in 0..n + m /\ Fine(k)
      BY <1>1, <1>6
    <2>2. ASSUME NEW i \in 0..n, NEW j \in 0..m, i + j <= k + 1, i # 0, j # 0 PROVE Grows(a, b, f, i, j)
      <3> DEFINE x == i - 1
                 y == j - 1
                 c == f[<<i, j>>]
                 l == f[<<x, j>>]
                 r == f[<<i, y>>]
                 z == f[<<x, y>>]
      <3>1. x \in 0..n /\ y \in 0..m /\ x + j <= k /\ i + y <= k /\ x + y <= k
        BY <1>1, <2>1, <2>2
      <3>2. c = IF a[i] = b[j] THEN z + 1 ELSE Max({l, r})
        BY <1>2, <2>2 DEF LcsAt
      <3>3. l \in Nat /\ l <= x /\ l <= j /\ z <= l /\ l <= z + 1
        <4> HIDE DEF x
        <4>1. Grows(a, b, f, x, j)
          BY <2>1, <3>1
        <4> QED BY <2>2, <4>1 DEF Grows
      <3>4. r \in Nat /\ r <= i /\ r <= y /\ z <= r /\ r <= z + 1
        <4> HIDE DEF y
        <4>1. Grows(a, b, f, i, y)
          BY <2>1, <3>1
        <4> QED BY <2>2, <4>1 DEF Grows
      <3>5. z \in Nat /\ z <= x /\ z <= y
        <4> HIDE DEF x, y
        <4>1. Grows(a, b, f, x, y)
          BY <2>1, <3>1
        <4> QED BY <4>1 DEF Grows
      <3>6. x \in Int /\ y \in Int /\ i = x + 1 /\ j = y + 1
        BY <1>1
      <3> HIDE DEF c, l, r, z
      <3>7. Max({l, r}) \in {l, r} /\ Max({l, r}) >= l /\ Max({l, r}) >= r
        <4>1. \E h \in {l, r} : \A g \in {l, r} : h >= g
          BY <3>3, <3>4
        <4> QED BY <4>1 DEF Max
      <3> HIDE DEF x, y
      <3>8. CASE a[i] = b[j]
        <4>1. c = z + 1
          BY <3>2, <3>8
        <4>2. c \in Nat /\ c <= i /\ c <= j /\ l <= c /\ c <= l + 1 /\ r <= c /\ c <= r + 1
          BY <3>3, <3>4, <3>5, <3>6, <4>1
        <4> QED BY <2>2, <3>8, <4>1, <4>2 DEF Grows, c, l, r, z, x, y
      <3>9. CASE a[i] # b[j]
        <4>1. c \in {l, r} /\ c >= l /\ c >= r
          BY <3>2, <3>7, <3>9
        <4>2. c \in Nat /\ c <= i /\ c <= j /\ l <= c /\ c <= l + 1 /\ r <= c /\ c <= r + 1
          BY <3>3, <3>4, <3>5, <3>6, <4>1
        <4> QED BY <2>2, <3>9, <4>1, <4>2 DEF Grows, c, l, r, z, x, y
      <3> QED BY <3>8, <3>9
    <2>3. Fine(k + 1)
      BY <1>4, <2>2
    <2> HIDE DEF Fine
    <2> QED BY <2>1, <2>3
  <1>7. Fine(n + m)
    <2>1. 0 \in good /\ n + m \in 0..n + m
      BY <1>1, <1>5
    <2> HIDE DEF good, Fine
    <2>2. n + m \in good
      BY <1>1, <1>6, <2>1, Induction
    <2> QED BY <2>2 DEF good
  <1>8. \A i \in 0..n, j \in 0..m : i + j <= n + m
    BY <1>1
  <1> QED BY <1>7, <1>8 DEF n, m

\* Further on in both texts there is no less of it.
LEMMA LcsRises ==
    ASSUME NEW S, NEW a \in Seq(S), NEW b \in Seq(S), NEW f, IsLcs(a, b, f)
    PROVE  \A k \in 0..Len(a) + Len(b) :
              \A x \in 0..Len(a), y \in 0..Len(b) :
                 \A i \in 0..x, j \in 0..y : (x - i) + (y - j) = k => f[<<i, j>>] <= f[<<x, y>>]
  <1> DEFINE n == Len(a)
             m == Len(b)
             Fine(k) == \A x \in 0..n, y \in 0..m :
                           \A i \in 0..x, j \in 0..y : (x - i) + (y - j) = k => f[<<i, j>>] <= f[<<x, y>>]
             good == {k \in 0..n + m : Fine(k)}
  <1>1. n \in Nat /\ m \in Nat /\ n + m \in Nat
    OBVIOUS
  <1>2. \A i \in 0..n, j \in 0..m : Grows(a, b, f, i, j)
    BY LcsGrows
  <1> HIDE DEF n, m
  <1>3. Fine(0)
    <2> SUFFICES ASSUME NEW x \in 0..n, NEW y \in 0..m, NEW i \in 0..x, NEW j \in 0..y,
                        (x - i) + (y - j) = 0
                 PROVE  f[<<i, j>>] <= f[<<x, y>>]
      OBVIOUS
    <2>1. x = i /\ y = j
      BY <1>1
    <2>2. f[<<x, y>>] \in Nat
      BY <1>2 DEF Grows
    <2> QED BY <2>1, <2>2
  <1>4. ASSUME NEW k \in 0..(n + m) - 1, k \in good PROVE k + 1 \in good
    <2>1. k \in Nat /\ k + 1 \in 0..n + m
      BY <1>1
    <2>0. Fine(k)
      BY <1>4
    <2>2. ASSUME NEW x \in 0..n, NEW y \in 0..m, NEW i \in 0..x, NEW j \in 0..y,
                 (x - i) + (y - j) = k + 1
          PROVE  f[<<i, j>>] <= f[<<x, y>>]
      <3>1. i \in 0..n /\ j \in 0..m
        BY <1>1
      <3>2. f[<<i, j>>] \in Nat /\ f[<<x, y>>] \in Nat
        BY <1>2, <3>1 DEF Grows
      <3>3. CASE i # x
        <4> DEFINE z == x - 1
        <4>0. x \in Nat /\ y \in Nat /\ i \in Nat /\ j \in Nat /\ x <= n /\ i <= x
          BY <1>1
        <4>1. z \in 0..n /\ i \in 0..z /\ (z - i) + (y - j) = k /\ x # 0
          BY <1>1, <2>1, <2>2, <3>3, <4>0
        <4>2. f[<<z, y>>] <= f[<<x, y>>]
          BY <1>2, <4>1 DEF Grows
        <4> HIDE DEF z
        <4>3. f[<<z, y>>] \in Nat
          BY <1>2, <4>1 DEF Grows
        <4>4. f[<<i, j>>] <= f[<<z, y>>]
          BY <2>0, <4>1
        <4> DEFINE c == f[<<i, j>>]
                   d == f[<<z, y>>]
                   e == f[<<x, y>>]
        <4>5. c \in Nat /\ d \in Nat /\ e \in Nat /\ c <= d /\ d <= e
          BY <3>2, <4>2, <4>3, <4>4
        <4> HIDE DEF c, d, e
        <4>6. c <= e
          BY <4>5
        <4> QED BY <4>6 DEF c, e
      <3>4. CASE i = x
        <4> DEFINE z == y - 1
        <4>0. /\ x \in Nat /\ y \in Nat /\ i \in Nat /\ j \in Nat /\ y <= m /\ j <= y
              /\ y - j = k + 1
          BY <1>1, <2>1, <2>2, <3>4
        <4>1. z \in 0..m /\ j \in 0..z /\ z - j = k /\ y # 0 /\ x - i = 0
          BY <1>1, <2>1, <3>4, <4>0
        <4>2. f[<<x, z>>] <= f[<<x, y>>]
          BY <1>2, <4>1 DEF Grows
        <4> HIDE DEF z
        <4>3. f[<<x, z>>] \in Nat
          BY <1>2, <4>1 DEF Grows
        <4>4. (x - i) + (z - j) = k
          BY <2>1, <4>1
        <4>7. f[<<i, j>>] <= f[<<x, z>>]
          BY <2>0, <4>1, <4>4
        <4> DEFINE c == f[<<i, j>>]
                   d == f[<<x, z>>]
                   e == f[<<x, y>>]
        <4>5. c \in Nat /\ d \in Nat /\ e \in Nat /\ c <= d /\ d <= e
          BY <3>2, <4>2, <4>3, <4>7
        <4> HIDE DEF c, d, e
        <4>6. c <= e
          BY <4>5
        <4> QED BY <4>6 DEF c, e
      <3> QED BY <3>3, <3>4
    <2>3. Fine(k + 1)
      BY <2>2
    <2> HIDE DEF Fine
    <2> QED BY <2>1, <2>3
  <1> HIDE DEF Fine
  <1>5. \A k \in 0..n + m : k \in good
    <2>1. 0 \in good
      BY <1>1, <1>3
    <2> HIDE DEF good
    <2> QED BY <1>1, <1>4, <2>1, Induction
  <1> QED BY <1>5 DEF Fine, n, m

\* Every equal line adds one to it.
LEMMA LcsGap ==
    ASSUME NEW S, NEW a \in Seq(S), NEW b \in Seq(S), NEW f, IsLcs(a, b, f), NEW p, NEW q, Gap(a, b, p, q)
    PROVE  f[q] = f[p] + (q[1] - p[1]) /\ f[p] \in Nat
  <1> DEFINE n == Len(a)
             m == Len(b)
             x == p[1]
             y == p[2]
             g == q[1] - p[1]
  <1>1. n \in Nat /\ m \in Nat
    OBVIOUS
  <1>2. \A i \in 0..n, j \in 0..m : Grows(a, b, f, i, j)
    BY LcsGrows
  <1>3. /\ x \in 0..n /\ y \in 0..m /\ q[1] \in 0..n /\ q[2] \in 0..m
        /\ p = <<x, y>> /\ q = <<q[1], q[2]>>
        /\ x <= q[1] /\ g = q[2] - y /\ \A j \in 1..g : a[x + j] = b[y + j]
    <2>1. /\ p \in Place(a, b) /\ q \in Place(a, b) /\ p[1] <= q[1] /\ q[1] - p[1] = q[2] - p[2]
          /\ \A j \in 1..q[1] - p[1] : a[p[1] + j] = b[p[2] + j]
      BY DEF Gap
    <2> QED BY <2>1 DEF Place
  <1> DEFINE v == q[1]
             w == q[2]
  <1> HIDE DEF n, m, x, y, g, v, w
  <1>4. g \in Nat /\ x + g = v /\ y + g = w
    <2>1. v \in Int /\ w \in Int /\ x \in Int /\ y \in Int /\ g = v - x /\ g = w - y /\ x <= v
      BY <1>1, <1>3 DEF g, v, w, x
    <2> QED BY <2>1
  <1> DEFINE Fine(k) == f[<<x + k, y + k>>] = f[<<x, y>>] + k
             good == {k \in 0..g : Fine(k)}
  <1>5. f[<<x, y>>] \in Nat
    BY <1>2, <1>3 DEF Grows
  <1>6. 0 \in good
    <2> DEFINE c == f[<<x, y>>]
    <2>0. x \in Nat /\ y \in Nat /\ g \in Nat /\ c \in Nat
      BY <1>1, <1>3, <1>4, <1>5
    <2> HIDE DEF c
    <2>1. x + 0 = x /\ y + 0 = y /\ c + 0 = c /\ 0 \in 0..g
      BY <2>0
    <2> QED BY <2>1 DEF c
  <1>7. ASSUME NEW k \in 0..g - 1, k \in good PROVE k + 1 \in good
    <2> DEFINE i == x + (k + 1)
               j == y + (k + 1)
    <2>1. k + 1 \in 0..g /\ k + 1 \in 1..g /\ i \in 0..n /\ j \in 0..m /\ i # 0 /\ j # 0
          /\ i - 1 = x + k /\ j - 1 = y + k
      <3>1. v \in Nat /\ w \in Nat /\ v <= n /\ w <= m /\ x \in Nat /\ y \in Nat
        BY <1>1, <1>3 DEF v, w
      <3>2. k \in Nat /\ k + 1 <= g
        BY <1>4
      <3> QED BY <1>1, <1>4, <3>1, <3>2
    <2>2. a[i] = b[j]
      <3>1. \A l \in 1..g : a[x + l] = b[y + l]
        BY <1>3
      <3> QED BY <2>1, <3>1
    <2> HIDE DEF i, j
    <2>3. f[<<i, j>>] = f[<<i - 1, j - 1>>] + 1
      BY <1>2, <2>1, <2>2 DEF Grows
    <2>4. f[<<x + k, y + k>>] = f[<<x, y>>] + k
      BY <1>7
    <2> DEFINE c == f[<<x, y>>]
               e == f[<<i, j>>]
    <2>5. e = c + (k + 1)
      <3>1. c \in Nat /\ k \in Nat
        BY <1>4, <1>5
      <3>2. i - 1 = x + k /\ j - 1 = y + k
        BY <2>1
      <3>3. f[<<i - 1, j - 1>>] = c + k
        BY <2>4, <3>2
      <3>4. e = f[<<i - 1, j - 1>>] + 1
        BY <2>3
      <3> HIDE DEF c, e
      <3>5. e = (c + k) + 1
        BY <3>3, <3>4
      <3> QED BY <3>1, <3>5
    <2> QED BY <2>1, <2>5 DEF i, j, c, e
  <1>8. Fine(g)
    <2>1. g \in 0..g
      BY <1>4
    <2> HIDE DEF good, Fine
    <2>2. g \in good
      BY <1>4, <1>6, <1>7, <2>1, Induction
    <2> QED BY <2>2 DEF good
  <1>9. f[<<v, w>>] = f[<<x, y>>] + g
    BY <1>4, <1>8
  <1>10. <<v, w>> = q /\ <<x, y>> = p
    BY <1>3 DEF v, w
  <1> QED BY <1>5, <1>9, <1>10 DEF g, x

\* SizeOf is a fold of turns.
LEMMA SizeTurns ==
    ASSUME NEW v, Len(v) \in Nat, DOMAIN v = 1..Len(v)
    PROVE  \E h : Turns(<<"size">>, 0, v, h) /\ h[Len(v)] = SizeOf(v)
  <1> DEFINE Is(f) == f = [s \in SUBSET DOMAIN v |->
                              IF s = {} THEN 0 ELSE f[s \ {Max(s)}] + Size(v[Max(s)])]
             table == CHOOSE f : Is(f)
  <1>1. SizeOf(v) = table[DOMAIN v]
    BY DEF SizeOf, FoldLeft, MapThenFoldSet
  <1>2. \A f : Is(f) <=> IsTable(<<"size">>, 0, v, f)
    BY DEF IsTable, Turn
  <1>3. \E f : Is(f)
    BY <1>2, TableExists
  <1>4. Is(table)
    BY <1>3
  <1> HIDE DEF Is, table
  <1>5. IsTable(<<"size">>, 0, v, table)
    BY <1>2, <1>4
  <1> QED BY <1>1, <1>5, TableTurns

\* No edits that lead from the start of both texts to their end touch fewer lines
\* than those that are not in a longest common subsequence.
LEMMA NoneShorter ==
    ASSUME NEW S, NEW a \in Seq(S), NEW b \in Seq(S), NEW f, IsLcs(a, b, f), NEW es,
           Chain(a, b, es, <<0, 0>>, <<Len(a), Len(b)>>)
    PROVE  /\ SizeOf(es) \in Nat
           /\ SizeOf(es) >= (Len(a) + Len(b)) - 2 * f[<<Len(a), Len(b)>>]
  <1> DEFINE n == Len(es)
             o == <<0, 0>>
             z == <<Len(a), Len(b)>>
             Cost(p) == (p[1] + p[2]) - 2 * f[p]
  <1>1. es \in Seq(EditOf(a, b)) /\ n \in Nat /\ DOMAIN es = 1..n /\ Len(es) \in Nat /\ DOMAIN es = 1..Len(es)
    BY DEF Chain
  <1>2. Chain(a, b, es, o, z) /\ Len(a) \in Nat /\ Len(b) \in Nat
    OBVIOUS
  <1>3. PICK h : Turns(<<"size">>, 0, es, h) /\ h[n] = SizeOf(es)
    BY <1>1, SizeTurns
  <1>4. h[0] = 0 /\ \A k \in 1..n : h[k] = h[k - 1] + Size(es[k])
    BY <1>3 DEF Turns, Turn
  <1>5. Cost(o) = 0
    <2>1. Grows(a, b, f, 0, 0)
      BY <1>2, LcsGrows
    <2>2. f[<<0, 0>>] \in Nat /\ f[<<0, 0>>] <= 0
      BY <2>1 DEF Grows
    <2> QED BY <2>2
  <1>6. Cost(z) = (Len(a) + Len(b)) - 2 * f[<<Len(a), Len(b)>>]
    OBVIOUS
  <1>7. ASSUME NEW p, NEW q, Gap(a, b, p, q) PROVE Cost(q) = Cost(p) /\ Cost(p) \in Int
    <2>1. f[q] = f[p] + (q[1] - p[1]) /\ f[p] \in Nat
      BY <1>7, LcsGap
    <2>2. p[1] \in Nat /\ p[2] \in Nat /\ q[1] \in Nat /\ q[2] \in Nat
      BY <1>7, GapCut
    <2>3. q[1] - p[1] = q[2] - p[2]
      BY <1>7 DEF Gap
    <2> DEFINE g == f[q]
               e == f[p]
               i == p[1]
               j == p[2]
               x == q[1]
               y == q[2]
    <2>4. (x + y) - 2 * g = (i + j) - 2 * e /\ (i + j) - 2 * e \in Int
      <3>1. g = e + (x - i) /\ e \in Nat /\ i \in Nat /\ j \in Nat /\ x \in Nat /\ y \in Nat /\ x - i = y - j
        BY <2>1, <2>2, <2>3
      <3> HIDE DEF g, e, i, j, x, y
      <3>2. g \in Int /\ y = (x - i) + j
        BY <3>1
      <3> QED BY <3>1, <3>2
    <2> QED BY <2>4
  <1>8. ASSUME NEW e \in EditOf(a, b)
        PROVE  Size(e) \in Nat /\ Cost(EndOf(e)) <= Cost(StartOf(e)) + Size(e)
               /\ Cost(EndOf(e)) \in Int /\ Cost(StartOf(e)) \in Int
    <2> DEFINE i == e.oldStart
               j == e.newStart
               x == e.oldEnd
               y == e.newEnd
    <2>1. i \in 0..Len(a) /\ x \in 0..Len(a) /\ i <= x /\ j \in 0..Len(b) /\ y \in 0..Len(b) /\ j <= y
      BY DEF EditOf
    <2>2. StartOf(e) = <<i, j>> /\ EndOf(e) = <<x, y>> /\ Size(e) = (x - i) + (y - j)
      BY DEF StartOf, EndOf, Size
    <2> HIDE DEF i, j, x, y
    <2>3. f[<<i, j>>] \in Nat /\ f[<<x, y>>] \in Nat
      BY <2>1, LcsGrows DEF Grows
    <2>4. f[<<i, j>>] <= f[<<x, y>>]
      <3> DEFINE k == (x - i) + (y - j)
      <3>1. k \in 0..Len(a) + Len(b) /\ i \in 0..x /\ j \in 0..y
        BY <1>2, <2>1
      <3> QED BY <2>1, <3>1, LcsRises
    <2>5. /\ Cost(<<x, y>>) = (x + y) - 2 * f[<<x, y>>]
          /\ Cost(<<i, j>>) = (i + j) - 2 * f[<<i, j>>]
      OBVIOUS
    <2> DEFINE u == f[<<i, j>>]
               v == f[<<x, y>>]
               c == Cost(EndOf(e))
               d == Cost(StartOf(e))
               g == Size(e)
    <2>6. c = (x + y) - 2 * v /\ d = (i + j) - 2 * u /\ g = (x - i) + (y - j)
      <3> HIDE DEF Cost
      <3> QED BY <2>2, <2>5
    <2>7. u \in Nat /\ v \in Nat /\ u <= v
      BY <2>3, <2>4
    <2> HIDE DEF u, v, c, d, g, Cost
    <2>8. i \in Nat /\ j \in Nat /\ x \in Nat /\ y \in Nat /\ i <= x /\ j <= y
      BY <1>2, <2>1
    <2>9. g \in Nat /\ c \in Int /\ d \in Int /\ c <= d + g
      BY <2>6, <2>7, <2>8
    <2> QED BY <2>9 DEF c, d, g
  <1> HIDE DEF Cost, o, z, n
  <1> DEFINE Fine(k) == h[k] \in Nat /\ Cost(Before(es, o, k + 1)) <= h[k] /\ Cost(Before(es, o, k + 1)) \in Int
             good == {k \in 0..n : Fine(k)}
  <1>9. Fine(0)
    <2>1. Before(es, o, 0 + 1) = o
      BY DEF Before
    <2> QED BY <1>4, <1>5, <2>1
  <1>10. ASSUME NEW k \in 1..n, Fine(k - 1) PROVE Fine(k)
    <2> DEFINE e == es[k]
               p == Before(es, o, k)
    <2>1. (k - 1) + 1 = k /\ k \in 1..n + 1 /\ k + 1 # 1 /\ (k + 1) - 1 = k
      BY <1>1
    <2>2. e \in EditOf(a, b) /\ Behind(es, z, k) = StartOf(e)
      BY <1>2, ChainStart DEF n
    <2>3. Gap(a, b, p, StartOf(e))
      <3>1. Gap(a, b, Before(es, o, k), Behind(es, z, k))
        BY <1>2, <2>1 DEF Chain, n
      <3> QED BY <2>2, <3>1
    <2>4. Before(es, o, k + 1) = EndOf(e)
      BY <2>1 DEF Before
    <2>5. h[k - 1] \in Nat /\ Cost(p) <= h[k - 1] /\ Cost(p) \in Int
      BY <1>10, <2>1
    <2>6. h[k] = h[k - 1] + Size(e)
      BY <1>4
    <2> HIDE DEF e, p
    <2>7. Cost(StartOf(e)) = Cost(p)
      BY <1>7, <2>3
    <2>8. Size(e) \in Nat /\ Cost(EndOf(e)) <= Cost(StartOf(e)) + Size(e) /\ Cost(EndOf(e)) \in Int
      BY <1>8, <2>2
    <2>9. h[k] \in Nat /\ Cost(EndOf(e)) <= h[k]
      BY <2>5, <2>6, <2>7, <2>8
    <2> QED BY <2>4, <2>8, <2>9
  <1> HIDE DEF Fine
  <1>11. Fine(n)
    <2>1. 0 \in good /\ n \in 0..n
      BY <1>1, <1>9
    <2>2. \A k \in 0..n - 1 : k \in good => k + 1 \in good
      <3> TAKE k \in 0..n - 1
      <3> HAVE k \in good
      <3> DEFINE j == k + 1
      <3>1. j \in 1..n /\ j - 1 = k /\ j \in 0..n
        BY <1>1
      <3> HIDE DEF j
      <3>2. Fine(j - 1)
        BY <3>1
      <3>3. Fine(j)
        BY <1>10, <3>1, <3>2
      <3> QED BY <3>1, <3>3 DEF j
    <2> HIDE DEF good
    <2>3. n \in good
      BY <1>1, <2>1, <2>2, Induction
    <2> QED BY <2>3 DEF good
  <1>12. Gap(a, b, Before(es, o, n + 1), z)
    <2>1. n + 1 \in 1..n + 1 /\ Behind(es, z, n + 1) = z
      BY <1>1 DEF Behind, n
    <2> QED BY <1>2, <2>1 DEF Chain, n
  <1>13. Cost(z) = Cost(Before(es, o, n + 1))
    BY <1>7, <1>12
  <1>14. h[n] \in Nat /\ h[n] >= Cost(z)
    BY <1>11, <1>13 DEF Fine
  <1> QED BY <1>3, <1>6, <1>14

\* A deletion takes the search one round further.
LEMMA PassedByDeletion ==
    ASSUME NEW a, NEW b, NEW d, NEW k, NEW i \in Nat,
           Visited(a, b, d, k), d < Len(a) + Len(b), At(a, b, d, k) >= i
    PROVE  Visited(a, b, d + 1, k + 1) /\ At(a, b, d + 1, k + 1) >= i + 1
  <1> DEFINE c == d + 1
             l == k + 1
  <1>1. Visited(a, b, c, l)
    BY VisitedNext
  <1>2. d \in Nat /\ k \in Int /\ -d <= k /\ At(a, b, d, k) \in Nat
    BY AtHas
  <1>3. c # 0 /\ l # -c /\ c - 1 = d /\ l - 1 = k
    BY <1>2
  <1> HIDE DEF c, l
  <1>4. From(a, b, c, l) >= At(a, b, c - 1, l - 1) + 1
    BY <1>1, <1>3, AtStep
  <1>5. From(a, b, c, l) >= At(a, b, d, k) + 1
    BY <1>3, <1>4
  <1>6. At(a, b, c, l) >= From(a, b, c, l) /\ At(a, b, c, l) \in Nat /\ From(a, b, c, l) \in Nat
    BY <1>1, AtWithin, AtHas
  <1>7. At(a, b, c, l) >= i + 1
    BY <1>2, <1>5, <1>6
  <1> QED BY <1>1, <1>7 DEF c, l

\* So does an insertion.
LEMMA PassedByInsertion ==
    ASSUME NEW a, NEW b, NEW d, NEW k, NEW i \in Nat,
           Visited(a, b, d, k), d < Len(a) + Len(b), At(a, b, d, k) >= i
    PROVE  Visited(a, b, d + 1, k - 1) /\ At(a, b, d + 1, k - 1) >= i
  <1> DEFINE c == d + 1
             l == k - 1
  <1>1. Visited(a, b, c, l)
    BY VisitedNext
  <1>2. d \in Nat /\ k \in Int /\ k <= d /\ At(a, b, d, k) \in Nat
    BY AtHas
  <1>3. c # 0 /\ l # c /\ c - 1 = d /\ l + 1 = k
    BY <1>2
  <1> HIDE DEF c, l
  <1>4. From(a, b, c, l) >= At(a, b, c - 1, l + 1)
    BY <1>1, <1>3, AtStep
  <1>5. From(a, b, c, l) >= At(a, b, d, k)
    BY <1>3, <1>4
  <1>6. At(a, b, c, l) >= From(a, b, c, l) /\ At(a, b, c, l) \in Nat /\ From(a, b, c, l) \in Nat
    BY <1>1, AtWithin, AtHas
  <1>7. At(a, b, c, l) >= i
    BY <1>2, <1>5, <1>6
  <1> QED BY <1>1, <1>7 DEF c, l

\* Equal lines are followed in the same round.
LEMMA PassedByRun ==
    ASSUME NEW a, NEW b, NEW d, NEW k, NEW i \in Nat, NEW j \in Nat, k = i - j,
           Visited(a, b, d, k), At(a, b, d, k) >= i,
           i < Len(a), j < Len(b), a[i + 1] = b[j + 1]
    PROVE  At(a, b, d, k) >= i + 1
  <1> DEFINE x == From(a, b, d, k)
             z == At(a, b, d, k)
             r == Run(a, b, x, x - k)
  <1>0. PICK S : a \in Seq(S) /\ b \in Seq(S)
    BY DEF Visited
  <1>1. x \in Nat /\ z \in Nat /\ z = x + r /\ k \in Int /\ Len(a) \in Nat /\ Len(b) \in Nat
    BY AtHas
  <1> SUFFICES ASSUME ~(z >= i + 1) PROVE FALSE
    OBVIOUS
  <1>2. z = i
    BY <1>1
  <1> HIDE DEF x, z
  <1>3. x - k \in Int
    BY <1>1
  <1>4. r \in Nat
    BY <1>0, <1>1, <1>3, RunIs
  <1>5. x + r >= Len(a) \/ (x - k) + r >= Len(b) \/ a[x + r + 1] # b[(x - k) + r + 1]
    BY <1>0, <1>1, <1>3, RunEnds
  <1> HIDE DEF r
  <1>6. x + r = i
    BY <1>1, <1>2
  <1> DEFINE y == x - k
  <1>7. y + r = j
    <2>1. x = i - r /\ k \in Int /\ i \in Nat /\ j \in Nat /\ k = i - j
      BY <1>1, <1>4, <1>6
    <2> QED BY <1>4, <2>1
  <1>8. i >= Len(a) \/ j >= Len(b) \/ a[i + 1] # b[j + 1]
    <2>1. x + r >= Len(a) \/ y + r >= Len(b) \/ a[x + r + 1] # b[y + r + 1]
      BY <1>5
    <2> HIDE DEF y
    <2> QED BY <1>6, <1>7, <2>1
  <1> QED BY <1>1, <1>8

\* The search has passed each place after as many rounds as it takes edits to get
\* there along a longest common subsequence.
Passes(a, b, f, i, j) ==
    /\ Visited(a, b, (i + j) - 2 * f[<<i, j>>], i - j)
    /\ At(a, b, (i + j) - 2 * f[<<i, j>>], i - j) >= i

\* By induction on the place: the last line is deleted, inserted or equal.
LEMMA AllPassed ==
    ASSUME NEW S, NEW a \in Seq(S), NEW b \in Seq(S), NEW f, IsLcs(a, b, f), Len(a) + Len(b) # 0
    PROVE  \A i \in 0..Len(a), j \in 0..Len(b) : Passes(a, b, f, i, j)
  <1> DEFINE n == Len(a)
             m == Len(b)
             Fine(k) == \A i \in 0..n, j \in 0..m : i + j <= k => Passes(a, b, f, i, j)
             good == {k \in 0..n + m : Fine(k)}
  <1>1. n \in Nat /\ m \in Nat /\ n + m \in Nat /\ n + m # 0
    OBVIOUS
  <1>2. \A i \in 0..n, j \in 0..m : Grows(a, b, f, i, j)
    BY LcsGrows
  <1>3. \A i \in 0..n, j \in 0..m : LcsAt(a, b, f, i, j)
    BY LcsIs
  <1>4. Visited(a, b, 0, 0)
    <2>1. 0 \in 0..n + m /\ 0 \in -0..0 /\ (0 + 0) % 2 = 0
      BY <1>1
    <2>2. 0 \in Diagonals(0)
      BY <2>1 DEF Diagonals
    <2> QED BY <1>1, <2>1, <2>2 DEF Visited
  <1>5. ASSUME NEW i \in 0..n, NEW j \in 0..m, i # 0, Passes(a, b, f, i - 1, j), f[<<i, j>>] = f[<<i - 1, j>>]
        PROVE  Passes(a, b, f, i, j)
    <2> DEFINE h == i - 1
               c == f[<<h, j>>]
               d == (h + j) - 2 * c
               k == h - j
    <2>1. Visited(a, b, d, k) /\ At(a, b, d, k) >= h
      BY <1>5 DEF Passes
    <2>2. h \in 0..n /\ h \in Nat /\ h + 1 = i /\ h + 1 <= n /\ j \in Nat /\ j <= m /\ i \in Nat
      BY <1>1, <1>5
    <2>3. c \in Nat
      <3> HIDE DEF h
      <3>1. Grows(a, b, f, h, j)
        BY <1>2, <2>2
      <3> QED BY <3>1 DEF Grows
    <2>4. f[<<i, j>>] = c
      BY <1>5
    <2> HIDE DEF h, c
    <2>5. d < n + m /\ d + 1 = (i + j) - 2 * c /\ k + 1 = i - j
      BY <1>1, <2>2, <2>3
    <2> HIDE DEF d, k, n, m
    <2>6. Visited(a, b, d + 1, k + 1) /\ At(a, b, d + 1, k + 1) >= h + 1
      BY <2>1, <2>2, <2>5, PassedByDeletion DEF n, m
    <2> QED BY <2>2, <2>4, <2>5, <2>6 DEF Passes
  <1>6. ASSUME NEW i \in 0..n, NEW j \in 0..m, j # 0, Passes(a, b, f, i, j - 1), f[<<i, j>>] = f[<<i, j - 1>>]
        PROVE  Passes(a, b, f, i, j)
    <2> DEFINE h == j - 1
               c == f[<<i, h>>]
               d == (i + h) - 2 * c
               k == i - h
    <2>1. Visited(a, b, d, k) /\ At(a, b, d, k) >= i
      BY <1>6 DEF Passes
    <2>2. h \in 0..m /\ h \in Nat /\ h + 1 = j /\ h + 1 <= m /\ i \in Nat /\ i <= n /\ j \in Nat
      BY <1>1, <1>6
    <2>3. c \in Nat
      <3> HIDE DEF h
      <3>1. Grows(a, b, f, i, h)
        BY <1>2, <2>2
      <3> QED BY <3>1 DEF Grows
    <2>4. f[<<i, j>>] = c
      BY <1>6
    <2> HIDE DEF h, c
    <2>5. d < n + m /\ d + 1 = (i + j) - 2 * c /\ k - 1 = i - j
      BY <1>1, <2>2, <2>3
    <2> HIDE DEF d, k, n, m
    <2>6. Visited(a, b, d + 1, k - 1) /\ At(a, b, d + 1, k - 1) >= i
      BY <2>1, <2>2, <2>5, PassedByInsertion DEF n, m
    <2> QED BY <2>2, <2>4, <2>5, <2>6 DEF Passes
  <1>7. ASSUME NEW i \in 0..n, NEW j \in 0..m, i # 0, j # 0, Passes(a, b, f, i - 1, j - 1), a[i] = b[j]
        PROVE  Passes(a, b, f, i, j)
    <2> DEFINE h == i - 1
               l == j - 1
               c == f[<<h, l>>]
               d == (h + l) - 2 * c
               k == h - l
    <2>1. Visited(a, b, d, k) /\ At(a, b, d, k) >= h
      BY <1>7 DEF Passes
    <2>2. /\ h \in 0..n /\ h \in Nat /\ h + 1 = i /\ h < n /\ i \in Nat
          /\ l \in 0..m /\ l \in Nat /\ l + 1 = j /\ l < m /\ j \in Nat
      BY <1>1, <1>7
    <2>3. c \in Nat
      <3> HIDE DEF h, l
      <3>1. Grows(a, b, f, h, l)
        BY <1>2, <2>2
      <3> QED BY <3>1 DEF Grows
    <2>4. f[<<i, j>>] = c + 1
      <3>1. Grows(a, b, f, i, j)
        BY <1>2
      <3> QED BY <1>7, <3>1 DEF Grows
    <2> HIDE DEF h, l, c
    <2>5. d = (i + j) - 2 * (c + 1) /\ k = i - j
      BY <2>2, <2>3
    <2>6. a[h + 1] = b[l + 1]
      BY <1>7, <2>2
    <2>7. k = h - l
      OBVIOUS
    <2> HIDE DEF d, k, n, m
    <2>8. At(a, b, d, k) >= h + 1
      BY <2>1, <2>2, <2>6, <2>7, PassedByRun DEF n, m
    <2> QED BY <2>1, <2>2, <2>4, <2>5, <2>8 DEF Passes
  <1>8. Passes(a, b, f, 0, 0)
    <2>1. f[<<0, 0>>] = 0
      <3>1. 0 \in 0..n /\ 0 \in 0..m
        BY <1>1
      <3>2. LcsAt(a, b, f, 0, 0)
        BY <1>3, <3>1
      <3> QED BY <3>2 DEF LcsAt
    <2>2. At(a, b, 0, 0) \in Nat
      BY <1>4, AtHas
    <2>3. (0 + 0) - 2 * 0 = 0 /\ 0 - 0 = 0
      OBVIOUS
    <2>4. At(a, b, 0, 0) >= 0
      BY <2>2
    <2> QED BY <1>4, <2>1, <2>3, <2>4 DEF Passes
  <1> HIDE DEF n, m
  <1>9. Fine(0)
    <2> SUFFICES ASSUME NEW i \in 0..n, NEW j \in 0..m, i + j <= 0 PROVE Passes(a, b, f, i, j)
      OBVIOUS
    <2>1. i = 0 /\ j = 0
      BY <1>1
    <2> QED BY <1>8, <2>1
  <1>10. ASSUME NEW k \in 0..(n + m) - 1, k \in good PROVE k + 1 \in good
    <2>1. k \in Nat /\ k + 1 \in 0..n + m
      BY <1>1
    <2>2. Fine(k)
      BY <1>10
    <2>3. ASSUME NEW i \in 0..n, NEW j \in 0..m, i + j <= k + 1 PROVE Passes(a, b, f, i, j)
      <3> DEFINE h == i - 1
                 l == j - 1
      <3>1. /\ i # 0 => h \in 0..n /\ h + j <= k
            /\ j # 0 => l \in 0..m /\ i + l <= k
            /\ i # 0 /\ j # 0 => h + l <= k
        BY <1>1, <2>1, <2>3
      <3> HIDE DEF h, l
      <3>2. /\ i # 0 => Passes(a, b, f, h, j)
            /\ j # 0 => Passes(a, b, f, i, l)
            /\ i # 0 /\ j # 0 => Passes(a, b, f, h, l)
        BY <2>2, <3>1
      <3>3. Grows(a, b, f, i, j) /\ LcsAt(a, b, f, i, j)
        BY <1>2, <1>3
      <3>4. CASE i = 0 /\ j = 0
        BY <1>8, <3>4
      <3>5. CASE i # 0 /\ j = 0
        <4>1. f[<<i, j>>] = 0
          BY <3>3, <3>5 DEF LcsAt
        <4>2. LcsAt(a, b, f, h, j)
          BY <1>3, <3>1, <3>5
        <4>3. f[<<h, j>>] = 0
          BY <3>5, <4>2 DEF LcsAt
        <4> QED BY <1>5, <3>2, <3>5, <4>1, <4>3 DEF h
      <3>6. CASE i = 0 /\ j # 0
        <4>1. f[<<i, j>>] = 0
          BY <3>3, <3>6 DEF LcsAt
        <4>2. LcsAt(a, b, f, i, l)
          BY <1>3, <3>1, <3>6
        <4>3. f[<<i, l>>] = 0
          BY <3>6, <4>2 DEF LcsAt
        <4> QED BY <1>6, <3>2, <3>6, <4>1, <4>3 DEF l
      <3>7. CASE i # 0 /\ j # 0 /\ a[i] = b[j]
        BY <1>7, <3>2, <3>7 DEF h, l
      <3>8. CASE i # 0 /\ j # 0 /\ a[i] # b[j]
        <4>1. f[<<i, j>>] = f[<<i - 1, j>>] \/ f[<<i, j>>] = f[<<i, j - 1>>]
          BY <3>3, <3>8 DEF Grows
        <4> QED BY <1>5, <1>6, <3>2, <3>8, <4>1 DEF h, l
      <3> QED BY <3>4, <3>5, <3>6, <3>7, <3>8
    <2>4. Fine(k + 1)
      BY <2>3
    <2> HIDE DEF Fine
    <2> QED BY <2>1, <2>4
  <1>11. Fine(n + m)
    <2>1. 0 \in good /\ n + m \in 0..n + m
      BY <1>1, <1>9
    <2> HIDE DEF good, Fine
    <2>2. n + m \in good
      BY <1>1, <1>10, <2>1, Induction
    <2> QED BY <2>2 DEF good
  <1>12. \A i \in 0..n, j \in 0..m : i + j <= n + m
    BY <1>1
  <1> QED BY <1>11, <1>12 DEF n, m

\* So the search ends after at most so many rounds.
LEMMA DepthAtMost ==
    ASSUME NEW S, NEW a \in Seq(S), NEW b \in Seq(S), NEW f, IsLcs(a, b, f), Len(a) + Len(b) # 0
    PROVE  Depth(a, b, Trace(a, b)) <= (Len(a) + Len(b)) - 2 * f[<<Len(a), Len(b)>>]
  <1> DEFINE n == Len(a)
             m == Len(b)
             d == (n + m) - 2 * f[<<n, m>>]
             k == n - m
  <1>1. n \in Nat /\ m \in Nat /\ n \in 0..n /\ m \in 0..m
    OBVIOUS
  <1>2. Passes(a, b, f, n, m)
    BY <1>1, AllPassed
  <1>3. Visited(a, b, d, k) /\ At(a, b, d, k) >= n
    BY <1>2 DEF Passes
  <1>4. At(a, b, d, k) \in Nat
    BY <1>3, AtHas
  <1> HIDE DEF d
  <1>5. At(a, b, d, k) - k >= m
    BY <1>1, <1>3, <1>4
  <1>6. Reached(a, b, d, k)
    BY <1>3, <1>5 DEF Reached
  <1> HIDE DEF k
  <1>7. Depth(a, b, Trace(a, b)) <= d
    BY <1>6, DepthIs
  <1> QED BY <1>7 DEF d

\* Edits that touch one line each touch as many lines as they are.
LEMMA OnesSize ==
    ASSUME NEW es, NEW n \in Nat, Len(es) = n, DOMAIN es = 1..n, Ones(es, n)
    PROVE  SizeOf(es) = n
  <1>1. PICK h : Turns(<<"size">>, 0, es, h) /\ h[n] = SizeOf(es)
    <2>1. Len(es) \in Nat /\ DOMAIN es = 1..Len(es)
      OBVIOUS
    <2>2. PICK h : Turns(<<"size">>, 0, es, h) /\ h[Len(es)] = SizeOf(es)
      BY <2>1, SizeTurns
    <2> QED BY <2>2
  <1>2. h[0] = 0 /\ \A k \in 1..n : h[k] = h[k - 1] + Size(es[k])
    BY <1>1 DEF Turns, Turn
  <1>3. \A k \in 1..n : Size(es[k]) = 1
    BY DEF Ones
  <1> DEFINE good == {k \in 0..n : h[k] = k}
  <1>4. 0 \in good
    BY <1>2
  <1>5. ASSUME NEW k \in 0..n - 1, k \in good PROVE k + 1 \in good
    <2> DEFINE j == k + 1
    <2>1. j \in 1..n /\ j \in 0..n /\ j - 1 = k /\ h[k] = k
      BY <1>5
    <2> HIDE DEF j
    <2>2. h[j] = h[j - 1] + 1
      BY <1>2, <1>3, <2>1
    <2>3. h[j] = k + 1
      BY <2>1, <2>2
    <2> QED BY <2>1, <2>3 DEF j
  <1>6. n \in good
    <2>1. n \in 0..n
      OBVIOUS
    <2> HIDE DEF good
    <2> QED BY <1>4, <1>5, <2>1, Induction
  <1> QED BY <1>1, <1>6

\* One edit is a list of edits of its size.
LEMMA SizeOne ==
    ASSUME NEW e, Size(e) \in Nat
    PROVE  SizeOf(<<e>>) = Size(e)
  <1> DEFINE v == <<e>>
  <1>1. Len(v) = 1 /\ v[1] = e /\ Len(v) \in Nat /\ DOMAIN v = 1..Len(v)
    OBVIOUS
  <1> HIDE DEF v
  <1>2. PICK h : Turns(<<"size">>, 0, v, h) /\ h[Len(v)] = SizeOf(v)
    BY <1>1, SizeTurns
  <1>3. h[0] = 0 /\ \A k \in 1..1 : h[k] = h[k - 1] + Size(v[k])
    BY <1>1, <1>2 DEF Turns, Turn
  <1>4. h[1] = h[0] + Size(v[1])
    <2>1. 1 \in 1..1 /\ 1 - 1 = 0
      OBVIOUS
    <2> QED BY <1>3, <2>1
  <1>5. h[1] = 0 + Size(e)
    BY <1>1, <1>3, <1>4
  <1>6. SizeOf(v) = Size(e)
    BY <1>1, <1>2, <1>5
  <1> QED BY <1>6 DEF v

\* The script touches no more lines than those that are not in a longest common
\* subsequence.
LEMMA ScriptAtMost ==
    ASSUME NEW S, NEW a \in Seq(S), NEW b \in Seq(S), NEW f, IsLcs(a, b, f)
    PROVE  SizeOf(Script(a, b)) <= (Len(a) + Len(b)) - 2 * f[<<Len(a), Len(b)>>]
  <1> DEFINE n == Len(a)
             m == Len(b)
             l == f[<<n, m>>]
  <1>1. n \in Nat /\ m \in Nat /\ n \in 0..n /\ m \in 0..m
    OBVIOUS
  <1>2. LcsAt(a, b, f, n, m)
    BY <1>1, LcsIs
  <1>3. n = 0 \/ m = 0 => l = 0
    BY <1>2 DEF LcsAt
  <1> HIDE DEF l
  <1>4. CASE a = <<>>
    <2> DEFINE e == Edit("insert", 0, 0, 0, m)
    <2>1. n = 0
      BY <1>4
    <2>2. Script(a, b) = <<e>>
      BY <1>4 DEF Script
    <2>3. Size(e) = m /\ Size(e) \in Nat
      <3>1. (0 - 0) + (m - 0) = m
        BY <1>1
      <3> QED BY <1>1, <3>1 DEF Size, Edit
    <2> HIDE DEF e
    <2>4. SizeOf(<<e>>) = m
      BY <2>3, SizeOne
    <2> HIDE DEF n, m
    <2>5. SizeOf(Script(a, b)) <= (n + m) - 2 * l
      BY <1>1, <1>3, <2>1, <2>2, <2>4
    <2> QED BY <2>5 DEF n, m, l
  <1>5. CASE a # <<>> /\ b = <<>>
    <2> DEFINE e == Edit("delete", 0, n, 0, 0)
    <2>1. m = 0
      BY <1>5
    <2>2. Script(a, b) = <<e>>
      BY <1>5 DEF Script
    <2>3. Size(e) = n /\ Size(e) \in Nat
      <3>1. (n - 0) + (0 - 0) = n
        BY <1>1
      <3> QED BY <1>1, <3>1 DEF Size, Edit
    <2> HIDE DEF e
    <2>4. SizeOf(<<e>>) = n
      BY <2>3, SizeOne
    <2> HIDE DEF n, m
    <2>5. SizeOf(Script(a, b)) <= (n + m) - 2 * l
      BY <1>1, <1>3, <2>1, <2>2, <2>4
    <2> QED BY <2>5 DEF n, m, l
  <1>6. CASE a # <<>> /\ b # <<>>
    <2> DEFINE c == Depth(a, b, Trace(a, b))
               es == Backtrack(a, b, Trace(a, b), c)
    <2>1. n + m # 0
      BY <1>6
    <2>2. Script(a, b) = es
      BY <1>6 DEF Script
    <2>3. Chain(a, b, es, <<0, 0>>, <<n, m>>) /\ Ones(es, c)
      BY <2>1, BackChain
    <2>4. c <= (n + m) - 2 * l
      BY <2>1, DepthAtMost DEF l
    <2> HIDE DEF c, es
    <2>5. es \in Seq(EditOf(a, b)) /\ Len(es) = c
      BY <2>3 DEF Chain, Ones
    <2>6. c \in Nat /\ DOMAIN es = 1..c
      BY <2>5
    <2>7. SizeOf(es) = c
      BY <2>3, <2>5, <2>6, OnesSize
    <2> QED BY <2>2, <2>4, <2>7 DEF l
  <1> QED BY <1>4, <1>5, <1>6

\* It touches exactly those.
LEMMA ScriptSize ==
    ASSUME NEW S, NEW a \in Seq(S), NEW b \in Seq(S), NEW f, IsLcs(a, b, f)
    PROVE  SizeOf(Script(a, b)) = (Len(a) + Len(b)) - 2 * f[<<Len(a), Len(b)>>]
  <1> DEFINE es == Script(a, b)
             c == (Len(a) + Len(b)) - 2 * f[<<Len(a), Len(b)>>]
  <1>1. SizeOf(es) <= c
    BY ScriptAtMost
  <1>2. Chain(a, b, es, <<0, 0>>, <<Len(a), Len(b)>>)
    BY ScriptChain
  <1> HIDE DEF es
  <1>3. SizeOf(es) \in Nat /\ SizeOf(es) >= c
    BY <1>2, NoneShorter
  <1>4. c \in Int
    <2>1. Len(a) \in Nat /\ Len(b) \in Nat /\ Len(a) \in 0..Len(a) /\ Len(b) \in 0..Len(b)
      OBVIOUS
    <2>2. Grows(a, b, f, Len(a), Len(b))
      BY <2>1, LcsGrows
    <2>3. f[<<Len(a), Len(b)>>] \in Nat
      BY <2>2 DEF Grows
    <2> QED BY <2>1, <2>3
  <1> HIDE DEF c
  <1>5. SizeOf(es) = c
    BY <1>1, <1>3, <1>4
  <1> QED BY <1>5 DEF es, c

-----------------------------------------------------------------------------
(* The hunks *)

\* A set that has the empty sequence, and with each sequence every longer one by
\* one element, has them all.
LEMMA OneByOne ==
    ASSUME NEW T, NEW good, <<>> \in good,
           \A s \in Seq(T), x \in T : s \in good => Append(s, x) \in good
    PROVE  \A s \in Seq(T) : s \in good
  <1> DEFINE Upto(k) == \A s \in Seq(T) : Len(s) = k => s \in good
             full == {k \in Nat : Upto(k)}
  <1>1. 0 \in full
    <2>1. \A s \in Seq(T) : Len(s) = 0 => s = <<>>
      OBVIOUS
    <2> QED BY <2>1
  <1>2. ASSUME NEW k \in Nat, k \in full PROVE k + 1 \in full
    <2>1. ASSUME NEW s \in Seq(T), Len(s) = k + 1 PROVE s \in good
      <3>1. s # <<>>
        BY <2>1
      <3>2. PICK t \in Seq(T), x \in T : s = Append(t, x)
        BY <3>1, SequenceEmptyOrAppend
      <3>3. Len(t) = k
        BY <2>1, <3>2
      <3>4. t \in good
        BY <1>2, <3>3
      <3> QED BY <3>2, <3>4
    <2> QED BY <2>1
  <1> HIDE DEF full
  <1>3. ASSUME NEW s \in Seq(T) PROVE s \in good
    <2> DEFINE n == Len(s)
    <2>1. n \in Nat /\ n \in 0..n /\ \A k \in 0..n - 1 : k \in full => k + 1 \in full
      BY <1>2
    <2> HIDE DEF n
    <2>2. n \in full
      BY <1>1, <2>1, Induction
    <2> QED BY <2>2 DEF full, n
  <1> QED BY <1>3

\* A sequence and the same with one element more.
Longer(v, w, x) ==
    /\ Len(v) \in Nat /\ DOMAIN v = 1..Len(v)
    /\ Len(w) \in Nat /\ DOMAIN w = 1..Len(w)
    /\ Len(w) = Len(v) + 1 /\ w[Len(w)] = x /\ \A i \in 1..Len(v) : w[i] = v[i]

\* Append makes one.
LEMMA AppendedOne == ASSUME NEW T, NEW v \in Seq(T), NEW x \in T PROVE Longer(v, Append(v, x), x)
  <1> QED BY DEF Longer

\* A fold over one more element takes one more turn.
LEMMA OneTurnMore ==
    ASSUME NEW what, NEW start, NEW v, NEW w, NEW x, Longer(v, w, x),
           NEW h, Turns(what, start, v, h), NEW g, Turns(what, start, w, g)
    PROVE  g[Len(w)] = Turn(what, h[Len(v)], x)
  <1> DEFINE n == Len(v)
  <1>a. n \in Nat /\ Len(v) = n /\ Len(w) = n + 1 /\ w[n + 1] = x /\ \A i \in 1..n : w[i] = v[i]
    BY DEF Longer
  <1> HIDE DEF n
  <1>1. h[0] = start /\ \A k \in 1..n : h[k] = Turn(what, h[k - 1], v[k])
    BY <1>a DEF Turns
  <1>2. g[0] = start /\ \A k \in 1..n + 1 : g[k] = Turn(what, g[k - 1], w[k])
    BY <1>a DEF Turns
  <1> DEFINE good == {k \in 0..n : g[k] = h[k]}
  <1>3. 0 \in good
    BY <1>a, <1>1, <1>2
  <1>4. ASSUME NEW k \in 0..n - 1, k \in good PROVE k + 1 \in good
    <2> DEFINE j == k + 1
    <2>1. j \in 1..n /\ j \in 1..n + 1 /\ j \in 0..n /\ j - 1 = k /\ g[k] = h[k]
      BY <1>a, <1>4
    <2> HIDE DEF j
    <2>2. w[j] = v[j]
      BY <1>a, <2>1
    <2>3. g[j] = Turn(what, g[j - 1], w[j]) /\ h[j] = Turn(what, h[j - 1], v[j])
      BY <1>1, <1>2, <2>1
    <2>4. g[j] = h[j]
      BY <2>1, <2>2, <2>3
    <2> QED BY <2>1, <2>4 DEF j
  <1>5. n \in good
    <2>1. n \in 0..n
      BY <1>a
    <2> HIDE DEF good
    <2> QED BY <1>a, <1>3, <1>4, <2>1, Induction
  <1> DEFINE m == n + 1
  <1>6. m \in 1..n + 1 /\ m - 1 = n /\ w[m] = x
    BY <1>a
  <1> HIDE DEF m
  <1>7. g[m] = Turn(what, g[m - 1], w[m])
    BY <1>2, <1>6
  <1>8. g[n] = h[n]
    BY <1>5
  <1>9. g[m] = Turn(what, h[n], x)
    BY <1>6, <1>7, <1>8
  <1> QED BY <1>a, <1>9 DEF m, n

\* Chosen is a fold of turns.
LEMMA ChosenTurns ==
    ASSUME NEW op, NEW v, Len(v) \in Nat, DOMAIN v = 1..Len(v)
    PROVE  \E h : Turns(<<"chosen", op>>, <<>>, v, h) /\ h[Len(v)] = Chosen(v, op)
  <1> DEFINE what == <<"chosen", op>>
             Is(f) == f = [s \in SUBSET DOMAIN v |->
                              IF s = {} THEN <<>> ELSE Choosing(op, f[s \ {Max(s)}], v[Max(s)])]
             table == CHOOSE f : Is(f)
  <1>1. Chosen(v, op) = table[DOMAIN v]
    BY DEF Chosen, FoldLeft, MapThenFoldSet, Choosing
  <1>2. \A f : Is(f) <=> IsTable(what, <<>>, v, f)
    BY DEF IsTable, Turn
  <1> HIDE DEF what
  <1>3. \E f : Is(f)
    BY <1>2, TableExists
  <1>4. Is(table)
    BY <1>3
  <1> HIDE DEF Is, table
  <1>5. IsTable(what, <<>>, v, table)
    BY <1>2, <1>4
  <1>6. \E h : Turns(what, <<>>, v, h) /\ h[Len(v)] = table[DOMAIN v]
    BY <1>5, TableTurns
  <1> QED BY <1>1, <1>6 DEF what

\* So is LinesOf.
LEMMA LinesTurns ==
    ASSUME NEW op, NEW v, Len(v) \in Nat, DOMAIN v = 1..Len(v)
    PROVE  \E h : Turns(<<"lines", op>>, <<>>, v, h) /\ h[Len(v)] = LinesOf(v, op)
  <1> DEFINE what == <<"lines", op>>
             Is(f) == f = [s \in SUBSET DOMAIN v |->
                              IF s = {} THEN <<>>
                              ELSE f[s \ {Max(s)}] \o Chosen(v[Max(s)].lines, op)]
             table == CHOOSE f : Is(f)
  <1>1. LinesOf(v, op) = table[DOMAIN v]
    BY DEF LinesOf, FoldLeft, MapThenFoldSet
  <1>2. \A f : Is(f) <=> IsTable(what, <<>>, v, f)
    BY DEF IsTable, Turn
  <1> HIDE DEF what
  <1>3. \E f : Is(f)
    BY <1>2, TableExists
  <1>4. Is(table)
    BY <1>3
  <1> HIDE DEF Is, table
  <1>5. IsTable(what, <<>>, v, table)
    BY <1>2, <1>4
  <1>6. \E h : Turns(what, <<>>, v, h) /\ h[Len(v)] = table[DOMAIN v]
    BY <1>5, TableTurns
  <1> QED BY <1>1, <1>6 DEF what

\* So is TouchedBy.
LEMMA TouchedTurns ==
    ASSUME NEW a, NEW b, NEW op, NEW v, Len(v) \in Nat, DOMAIN v = 1..Len(v)
    PROVE  \E h : Turns(<<"touched", a, b, op>>, <<>>, v, h) /\ h[Len(v)] = TouchedBy(a, b, v, op)
  <1> DEFINE what == <<"touched", a, b, op>>
             Is(f) == f = [s \in SUBSET DOMAIN v |->
                              IF s = {} THEN <<>>
                              ELSE f[s \ {Max(s)}] \o Touched(a, b, v[Max(s)], op)]
             table == CHOOSE f : Is(f)
  <1>1. TouchedBy(a, b, v, op) = table[DOMAIN v]
    BY DEF TouchedBy, FoldLeft, MapThenFoldSet
  <1>2. \A f : Is(f) <=> IsTable(what, <<>>, v, f)
    BY DEF IsTable, Turn
  <1> HIDE DEF what
  <1>3. \E f : Is(f)
    BY <1>2, TableExists
  <1>4. Is(table)
    BY <1>3
  <1> HIDE DEF Is, table
  <1>5. IsTable(what, <<>>, v, table)
    BY <1>2, <1>4
  <1>6. \E h : Turns(what, <<>>, v, h) /\ h[Len(v)] = table[DOMAIN v]
    BY <1>5, TableTurns
  <1> QED BY <1>1, <1>6 DEF what

\* So is buildHunks, but for the lines after the last edit.
Hunked(es, a, b, c) == FoldLeft(LAMBDA hs, e : AddEdit(hs, e, a, b, c), <<>>, es)

\* It is a fold of turns.
LEMMA HunkedTurns ==
    ASSUME NEW a, NEW b, NEW c, NEW v, Len(v) \in Nat, DOMAIN v = 1..Len(v)
    PROVE  \E h : Turns(<<"hunks", a, b, c>>, <<>>, v, h) /\ h[Len(v)] = Hunked(v, a, b, c)
  <1> DEFINE what == <<"hunks", a, b, c>>
             Is(f) == f = [s \in SUBSET DOMAIN v |->
                              IF s = {} THEN <<>>
                              ELSE AddEdit(f[s \ {Max(s)}], v[Max(s)], a, b, c)]
             table == CHOOSE f : Is(f)
  <1>1. Hunked(v, a, b, c) = table[DOMAIN v]
    BY DEF Hunked, FoldLeft, MapThenFoldSet
  <1>2. \A f : Is(f) <=> IsTable(what, <<>>, v, f)
    BY DEF IsTable, Turn
  <1> HIDE DEF what
  <1>3. \E f : Is(f)
    BY <1>2, TableExists
  <1>4. Is(table)
    BY <1>3
  <1> HIDE DEF Is, table
  <1>5. IsTable(what, <<>>, v, table)
    BY <1>2, <1>4
  <1>6. \E h : Turns(what, <<>>, v, h) /\ h[Len(v)] = table[DOMAIN v]
    BY <1>5, TableTurns
  <1> QED BY <1>1, <1>6 DEF what

\* What the folds make of no elements, and of one element more.
LEMMA ChosenNone == ASSUME NEW op PROVE Chosen(<<>>, op) = <<>>
  <1> DEFINE v == <<>>
  <1>1. Len(v) = 0 /\ Len(v) \in Nat /\ DOMAIN v = 1..Len(v)
    OBVIOUS
  <1> HIDE DEF v
  <1>2. PICK h : Turns(<<"chosen", op>>, <<>>, v, h) /\ h[Len(v)] = Chosen(v, op)
    BY <1>1, ChosenTurns
  <1>3. Chosen(v, op) = <<>>
    BY <1>1, <1>2 DEF Turns
  <1> QED BY <1>3 DEF v

\* A line is chosen if it has the operation.
LEMMA ChosenAppended ==
    ASSUME NEW T, NEW v \in Seq(T), NEW x \in T, NEW op
    PROVE  Chosen(Append(v, x), op) = Choosing(op, Chosen(v, op), x)
  <1> DEFINE w == Append(v, x)
             what == <<"chosen", op>>
  <1>1. Longer(v, w, x)
    BY AppendedOne
  <1>2. what[1] = "chosen" /\ what[2] = op
    OBVIOUS
  <1> HIDE DEF w
  <1>3. Len(v) \in Nat /\ DOMAIN v = 1..Len(v) /\ Len(w) \in Nat /\ DOMAIN w = 1..Len(w)
    BY <1>1 DEF Longer
  <1>4. PICK h : Turns(what, <<>>, v, h) /\ h[Len(v)] = Chosen(v, op)
    BY <1>3, ChosenTurns
  <1>5. PICK g : Turns(what, <<>>, w, g) /\ g[Len(w)] = Chosen(w, op)
    BY <1>3, ChosenTurns
  <1> HIDE DEF what
  <1>6. g[Len(w)] = Turn(what, h[Len(v)], x)
    <2>1. Turns(what, <<>>, v, h) /\ Turns(what, <<>>, w, g)
      BY <1>4, <1>5
    <2> QED BY <1>1, <2>1, OneTurnMore
  <1>7. Turn(what, h[Len(v)], x) = Choosing(op, h[Len(v)], x)
    BY <1>2 DEF Turn
  <1>8. Chosen(w, op) = Choosing(op, Chosen(v, op), x)
    BY <1>4, <1>5, <1>6, <1>7
  <1> QED BY <1>8 DEF w

\* No hunks have no lines.
LEMMA LinesNone == ASSUME NEW op PROVE LinesOf(<<>>, op) = <<>>
  <1> DEFINE v == <<>>
  <1>1. Len(v) = 0 /\ Len(v) \in Nat /\ DOMAIN v = 1..Len(v)
    OBVIOUS
  <1> HIDE DEF v
  <1>2. PICK h : Turns(<<"lines", op>>, <<>>, v, h) /\ h[Len(v)] = LinesOf(v, op)
    BY <1>1, LinesTurns
  <1>3. LinesOf(v, op) = <<>>
    BY <1>1, <1>2 DEF Turns
  <1> QED BY <1>3 DEF v

\* One more hunk adds its own.
LEMMA LinesAppended ==
    ASSUME NEW T, NEW v \in Seq(T), NEW x \in T, NEW op
    PROVE  LinesOf(Append(v, x), op) = LinesOf(v, op) \o Chosen(x.lines, op)
  <1> DEFINE w == Append(v, x)
             what == <<"lines", op>>
  <1>1. Longer(v, w, x)
    BY AppendedOne
  <1>2. what[1] = "lines" /\ what[2] = op
    OBVIOUS
  <1> HIDE DEF w
  <1>3. Len(v) \in Nat /\ DOMAIN v = 1..Len(v) /\ Len(w) \in Nat /\ DOMAIN w = 1..Len(w)
    BY <1>1 DEF Longer
  <1>4. PICK h : Turns(what, <<>>, v, h) /\ h[Len(v)] = LinesOf(v, op)
    BY <1>3, LinesTurns
  <1>5. PICK g : Turns(what, <<>>, w, g) /\ g[Len(w)] = LinesOf(w, op)
    BY <1>3, LinesTurns
  <1> HIDE DEF what
  <1>6. g[Len(w)] = Turn(what, h[Len(v)], x)
    <2>1. Turns(what, <<>>, v, h) /\ Turns(what, <<>>, w, g)
      BY <1>4, <1>5
    <2> QED BY <1>1, <2>1, OneTurnMore
  <1>7. Turn(what, h[Len(v)], x) = h[Len(v)] \o Chosen(x.lines, op)
    BY <1>2 DEF Turn
  <1>8. LinesOf(w, op) = LinesOf(v, op) \o Chosen(x.lines, op)
    BY <1>4, <1>5, <1>6, <1>7
  <1> QED BY <1>8 DEF w

\* No edits touch no lines.
LEMMA TouchedNone == ASSUME NEW a, NEW b, NEW op PROVE TouchedBy(a, b, <<>>, op) = <<>>
  <1> DEFINE v == <<>>
  <1>1. Len(v) = 0 /\ Len(v) \in Nat /\ DOMAIN v = 1..Len(v)
    OBVIOUS
  <1> HIDE DEF v
  <1>2. PICK h : Turns(<<"touched", a, b, op>>, <<>>, v, h) /\ h[Len(v)] = TouchedBy(a, b, v, op)
    BY <1>1, TouchedTurns
  <1>3. TouchedBy(a, b, v, op) = <<>>
    BY <1>1, <1>2 DEF Turns
  <1> QED BY <1>3 DEF v

\* One more edit adds its own.
LEMMA TouchedAppended ==
    ASSUME NEW T, NEW v \in Seq(T), NEW x \in T, NEW a, NEW b, NEW op
    PROVE  TouchedBy(a, b, Append(v, x), op) = TouchedBy(a, b, v, op) \o Touched(a, b, x, op)
  <1> DEFINE w == Append(v, x)
             what == <<"touched", a, b, op>>
  <1>1. Longer(v, w, x)
    BY AppendedOne
  <1>2. what[1] = "touched" /\ what[2] = a /\ what[3] = b /\ what[4] = op
    OBVIOUS
  <1> HIDE DEF w
  <1>3. Len(v) \in Nat /\ DOMAIN v = 1..Len(v) /\ Len(w) \in Nat /\ DOMAIN w = 1..Len(w)
    BY <1>1 DEF Longer
  <1>4. PICK h : Turns(what, <<>>, v, h) /\ h[Len(v)] = TouchedBy(a, b, v, op)
    BY <1>3, TouchedTurns
  <1>5. PICK g : Turns(what, <<>>, w, g) /\ g[Len(w)] = TouchedBy(a, b, w, op)
    BY <1>3, TouchedTurns
  <1> HIDE DEF what
  <1>6. g[Len(w)] = Turn(what, h[Len(v)], x)
    <2>1. Turns(what, <<>>, v, h) /\ Turns(what, <<>>, w, g)
      BY <1>4, <1>5
    <2> QED BY <1>1, <2>1, OneTurnMore
  <1>7. Turn(what, h[Len(v)], x) = h[Len(v)] \o Touched(a, b, x, op)
    BY <1>2 DEF Turn
  <1>8. TouchedBy(a, b, w, op) = TouchedBy(a, b, v, op) \o Touched(a, b, x, op)
    BY <1>4, <1>5, <1>6, <1>7
  <1> QED BY <1>8 DEF w

\* No edits make no hunks.
LEMMA HunkedNone == ASSUME NEW a, NEW b, NEW c PROVE Hunked(<<>>, a, b, c) = <<>>
  <1> DEFINE v == <<>>
  <1>1. Len(v) = 0 /\ Len(v) \in Nat /\ DOMAIN v = 1..Len(v)
    OBVIOUS
  <1> HIDE DEF v
  <1>2. PICK h : Turns(<<"hunks", a, b, c>>, <<>>, v, h) /\ h[Len(v)] = Hunked(v, a, b, c)
    BY <1>1, HunkedTurns
  <1>3. Hunked(v, a, b, c) = <<>>
    BY <1>1, <1>2 DEF Turns
  <1> QED BY <1>3 DEF v

\* One more edit is added to those of the others.
LEMMA HunkedAppended ==
    ASSUME NEW T, NEW v \in Seq(T), NEW x \in T, NEW a, NEW b, NEW c
    PROVE  Hunked(Append(v, x), a, b, c) = AddEdit(Hunked(v, a, b, c), x, a, b, c)
  <1> DEFINE w == Append(v, x)
             what == <<"hunks", a, b, c>>
  <1>1. Longer(v, w, x)
    BY AppendedOne
  <1>2. what[1] = "hunks" /\ what[2] = a /\ what[3] = b /\ what[4] = c
    OBVIOUS
  <1> HIDE DEF w
  <1>3. Len(v) \in Nat /\ DOMAIN v = 1..Len(v) /\ Len(w) \in Nat /\ DOMAIN w = 1..Len(w)
    BY <1>1 DEF Longer
  <1>4. PICK h : Turns(what, <<>>, v, h) /\ h[Len(v)] = Hunked(v, a, b, c)
    BY <1>3, HunkedTurns
  <1>5. PICK g : Turns(what, <<>>, w, g) /\ g[Len(w)] = Hunked(w, a, b, c)
    BY <1>3, HunkedTurns
  <1> HIDE DEF what
  <1>6. g[Len(w)] = Turn(what, h[Len(v)], x)
    <2>1. Turns(what, <<>>, v, h) /\ Turns(what, <<>>, w, g)
      BY <1>4, <1>5
    <2> QED BY <1>1, <2>1, OneTurnMore
  <1>7. Turn(what, h[Len(v)], x) = AddEdit(h[Len(v)], x, a, b, c)
    BY <1>2 DEF Turn
  <1>8. Hunked(w, a, b, c) = AddEdit(Hunked(v, a, b, c), x, a, b, c)
    BY <1>4, <1>5, <1>6, <1>7
  <1> QED BY <1>8 DEF w

\* A hunk's lines.
LineOf(S) == [op : {"equal", "delete", "insert"}, content : S]

\* A sequence and one with an element appended are joined as if without it.
LEMMA AppendedLast ==
    ASSUME NEW T, NEW s \in Seq(T), NEW t \in Seq(T), NEW x \in T
    PROVE  s \o Append(t, x) = Append(s \o t, x)
  <1>1. <<x>> \in Seq(T) /\ s \o t \in Seq(T)
    OBVIOUS
  <1>2. Append(t, x) = t \o <<x>>
    BY AppendIsConcat
  <1>3. Append(s \o t, x) = (s \o t) \o <<x>>
    BY <1>1, AppendIsConcat
  <1>4. (s \o t) \o <<x>> = s \o (t \o <<x>>)
    BY <1>1, ConcatAssociative
  <1> QED BY <1>2, <1>3, <1>4

\* The chosen lines are lines.
LEMMA ChosenTyped == \A T, op : \A s \in Seq(T) : Chosen(s, op) \in Seq(T)
  <1> TAKE T, op
  <1> DEFINE typed == {r \in Seq(T) : Chosen(r, op) \in Seq(T)}
  <1>1. <<>> \in typed
    <2>1. Chosen(<<>>, op) = <<>> /\ <<>> \in Seq(T)
      BY ChosenNone
    <2> QED BY <2>1
  <1>2. ASSUME NEW r \in Seq(T), NEW x \in T, r \in typed PROVE Append(r, x) \in typed
    <2>1. Chosen(Append(r, x), op) = Choosing(op, Chosen(r, op), x)
      BY ChosenAppended
    <2>2. Chosen(r, op) \in Seq(T)
      BY <1>2
    <2>3. Choosing(op, Chosen(r, op), x) \in Seq(T)
      BY <2>2 DEF Choosing
    <2> QED BY <2>1, <2>3
  <1>3. \A r \in Seq(T) : r \in typed
    <2> HIDE DEF typed
    <2> QED BY <1>1, <1>2, OneByOne
  <1> QED BY <1>3

\* Those of two sequences joined are those of the one and then of the other.
LEMMA ChosenJoined ==
    \A T, op : \A s, t \in Seq(T) : Chosen(s \o t, op) = Chosen(s, op) \o Chosen(t, op)
  <1> TAKE T, op
  <1> TAKE s, t \in Seq(T)
  <1> DEFINE both == {r \in Seq(T) : Chosen(s \o r, op) = Chosen(s, op) \o Chosen(r, op)}
  <1>1. <<>> \in both
    <2>1. s \o <<>> = s
      BY ConcatEmptySeq
    <2>2. Chosen(s, op) \o <<>> = Chosen(s, op)
      BY ChosenTyped, ConcatEmptySeq
    <2>3. Chosen(<<>>, op) = <<>> /\ <<>> \in Seq(T)
      BY ChosenNone
    <2> QED BY <2>1, <2>2, <2>3
  <1>2. ASSUME NEW r \in Seq(T), NEW x \in T, r \in both PROVE Append(r, x) \in both
    <2> DEFINE u == s \o r
               p == Chosen(s, op)
               q == Chosen(r, op)
    <2>1. u \in Seq(T) /\ p \in Seq(T) /\ q \in Seq(T) /\ Chosen(u, op) = p \o q
      BY <1>2, ChosenTyped
    <2>2. s \o Append(r, x) = Append(u, x)
      BY AppendedLast
    <2>3. Chosen(Append(r, x), op) = Choosing(op, q, x)
      BY ChosenAppended
    <2> HIDE DEF u, p, q
    <2>4. Chosen(Append(u, x), op) = Choosing(op, p \o q, x)
      BY <2>1, ChosenAppended
    <2>5. Choosing(op, p \o q, x) = p \o Choosing(op, q, x)
      <3>1. CASE x.op = op
        <4>1. p \in Seq(T) /\ q \in Seq(T)
          BY <2>1
        <4>2. p \o Append(q, x) = Append(p \o q, x)
          BY <4>1, AppendedLast
        <4> QED BY <3>1, <4>2 DEF Choosing
      <3>2. CASE x.op # op
        BY <3>2 DEF Choosing
      <3> QED BY <3>1, <3>2
    <2>6. Chosen(s \o Append(r, x), op) = p \o Chosen(Append(r, x), op)
      BY <2>2, <2>3, <2>4, <2>5
    <2>7. Append(r, x) \in Seq(T)
      OBVIOUS
    <2> QED BY <2>6, <2>7 DEF p
  <1>3. \A r \in Seq(T) : r \in both
    <2> HIDE DEF both
    <2> QED BY <1>1, <1>2, OneByOne
  <1>4. t \in both
    BY <1>3, Zenon
  <1> QED BY <1>4

\* If all lines have the operation, or none, all are chosen, or none.
LEMMA ChosenAlike ==
    ASSUME NEW T, NEW s \in Seq(T), NEW op
    PROVE  /\ (\A i \in 1..Len(s) : s[i].op = op) => Chosen(s, op) = s
           /\ (\A i \in 1..Len(s) : s[i].op # op) => Chosen(s, op) = <<>>
  <1> DEFINE All(t) == \A i \in 1..Len(t) : t[i].op = op
             None(t) == \A i \in 1..Len(t) : t[i].op # op
             good == {t \in Seq(T) : /\ All(t) => Chosen(t, op) = t
                                     /\ None(t) => Chosen(t, op) = <<>>}
  <1>1. <<>> \in good
    BY ChosenNone
  <1>2. ASSUME NEW t \in Seq(T), NEW x \in T, t \in good PROVE Append(t, x) \in good
    <2> DEFINE u == Append(t, x)
               n == Len(t)
    <2>1. /\ u \in Seq(T) /\ n \in Nat /\ Len(u) = n + 1 /\ u[n + 1] = x
          /\ \A i \in 1..n : u[i] = t[i]
      OBVIOUS
    <2>2. Chosen(u, op) = Choosing(op, Chosen(t, op), x)
      BY ChosenAppended
    <2>3. u = Append(t, x)
      OBVIOUS
    <2> HIDE DEF u
    <2>4. ASSUME All(u) PROVE Chosen(u, op) = u
      <3>1. x.op = op /\ All(t)
        BY <2>1, <2>4
      <3>2. Chosen(t, op) = t
        BY <1>2, <3>1
      <3> QED BY <2>2, <2>3, <3>1, <3>2 DEF Choosing
    <2>5. ASSUME None(u) PROVE Chosen(u, op) = <<>>
      <3>1. x.op # op /\ None(t)
        BY <2>1, <2>5
      <3>2. Chosen(t, op) = <<>>
        BY <1>2, <3>1
      <3> QED BY <2>2, <3>1, <3>2 DEF Choosing
    <2>6. u \in good
      BY <2>1, <2>4, <2>5
    <2> QED BY <2>6 DEF u
  <1>3. \A t \in Seq(T) : t \in good
    <2> HIDE DEF good
    <2> QED BY <1>1, <1>2, OneByOne
  <1> QED BY <1>3

\* The larger and the smaller of two numbers.
LEMMA OfTwo ==
    ASSUME NEW x \in Int, NEW y \in Int
    PROVE  /\ Max({x, y}) = IF x <= y THEN y ELSE x
           /\ Min({x, y}) = IF x <= y THEN x ELSE y
  <1> DEFINE u == IF x <= y THEN y ELSE x
             l == IF x <= y THEN x ELSE y
             IsMax(m) == m \in {x, y} /\ \A k \in {x, y} : m >= k
             IsMin(m) == m \in {x, y} /\ \A k \in {x, y} : m <= k
  <1>1. IsMax(u) /\ IsMin(l)
    OBVIOUS
  <1>2. \A m : (IsMax(m) => m = u) /\ (IsMin(m) => m = l)
    OBVIOUS
  <1> HIDE DEF u, l
  <1>3. Max({x, y}) = CHOOSE m : IsMax(m)
    BY DEF Max
  <1>4. Min({x, y}) = CHOOSE m : IsMin(m)
    BY DEF Min
  <1> HIDE DEF IsMax, IsMin
  <1>5. Max({x, y}) = u /\ Min({x, y}) = l
    BY <1>1, <1>2, <1>3, <1>4
  <1> QED BY <1>5 DEF u, l

\* The lines of a hunk that stand for lines of a text.
LEMMA HunkLinesAre ==
    ASSUME NEW S, NEW text \in Seq(S), NEW from \in Nat, NEW to \in Nat,
           NEW op \in {"equal", "delete", "insert"}
    PROVE  /\ HunkLines(op, text, from, to) \in Seq(LineOf(S))
           /\ \A i \in 1..Len(HunkLines(op, text, from, to)) : HunkLines(op, text, from, to)[i].op = op
           /\ from <= to /\ to <= Len(text) =>
                  HunkLines(op, text, from, to) = Marked(op, SubSeq(text, from + 1, to))
  <1> DEFINE n == Len(text)
             m == Max({from, Min({to, n})}) - from
             ls == HunkLines(op, text, from, to)
             Shown(i) == [op |-> op, content |-> text[from + i]]
  <1>1. n \in Nat /\ \A i \in 1..n : text[i] \in S
    OBVIOUS
  <1>2. ls = [i \in 1..m |-> Shown(i)]
    BY DEF HunkLines
  <1>3. m \in Nat /\ (\A i \in 1..m : from + i \in 1..n) /\ (from <= to /\ to <= n => m = to - from)
    <2> HIDE DEF n
    <2>1. Min({to, n}) = IF to <= n THEN to ELSE n
      <3>1. to \in Int /\ n \in Int
        BY <1>1
      <3> QED BY <3>1, OfTwo
    <2> DEFINE u == Min({to, n})
    <2>2. u \in Nat /\ u <= n /\ (to <= n => u = to)
      BY <1>1, <2>1
    <2> HIDE DEF u
    <2>3. Max({from, u}) = IF from <= u THEN u ELSE from
      BY <2>2, OfTwo
    <2>4. m = (IF from <= u THEN u ELSE from) - from
      BY <2>3 DEF u
    <2> HIDE DEF m
    <2> QED BY <1>1, <2>2, <2>4
  <1> HIDE DEF n, m, ls
  <1>4. \A i \in 1..m : Shown(i) \in LineOf(S)
    <2> TAKE i \in 1..m
    <2>1. text[from + i] \in S
      BY <1>1, <1>3
    <2> QED BY <2>1 DEF LineOf
  <1>5. \A i \in 1..m : Shown(i).op = op
    OBVIOUS
  <1> HIDE DEF Shown
  <1>6. ls \in [1..m -> LineOf(S)]
    BY <1>2, <1>4
  <1>7. ls \in Seq(LineOf(S)) /\ Len(ls) = m
    BY <1>3, <1>6
  <1>8. \A i \in 1..Len(ls) : ls[i].op = op
    BY <1>2, <1>5, <1>7
  <1>9. ASSUME from <= to, to <= n PROVE ls = Marked(op, SubSeq(text, from + 1, to))
    <2> DEFINE cut == SubSeq(text, from + 1, to)
    <2>1. m = to - from
      BY <1>3, <1>9
    <2>2. Len(cut) = m /\ \A i \in 1..m : cut[i] = text[from + i]
      <3>1. Cut(text, from, to) = cut
        BY DEF Cut
      <3>2. /\ Len(Cut(text, from, to)) = to - from
            /\ \A k \in 1..to - from : Cut(text, from, to)[k] = text[from + k]
        BY <1>9, CutIs DEF n
      <3> HIDE DEF cut
      <3> QED BY <2>1, <3>1, <3>2
    <2> HIDE DEF cut
    <2>3. Marked(op, cut) = [i \in 1..m |-> [op |-> op, content |-> cut[i]]]
      BY <2>2 DEF Marked
    <2>4. \A i \in 1..m : [op |-> op, content |-> cut[i]] = Shown(i)
      BY <2>2 DEF Shown
    <2>5. Marked(op, cut) = [i \in 1..m |-> Shown(i)]
      BY <2>3, <2>4
    <2> QED BY <1>2, <2>5 DEF cut
  <1> QED BY <1>7, <1>8, <1>9 DEF ls, n

\* The new line count grows by what is counted.
Counted(start, n, c, k) ==
    FoldLeft(LAMBDA d, i : IF start + d + i - 1 < n THEN d + 1 ELSE d, c, [i \in 1..k |-> i])

\* It stays a number.
LEMMA CountedIs ==
    ASSUME NEW start, NEW n, NEW c \in Nat, NEW k \in Nat
    PROVE  Counted(start, n, c, k) \in Nat
  <1> DEFINE what == <<"counted", start, n>>
             v == [i \in 1..k |-> i]
             Is(f) == f = [s \in SUBSET DOMAIN v |->
                              IF s = {} THEN c ELSE Counting(start, n, f[s \ {Max(s)}], v[Max(s)])]
             table == CHOOSE f : Is(f)
  <1>1. Counted(start, n, c, k) = table[DOMAIN v]
    BY DEF Counted, FoldLeft, MapThenFoldSet, Counting
  <1>2. Len(v) = k /\ DOMAIN v = 1..Len(v) /\ Len(v) \in Nat
    OBVIOUS
  <1> HIDE DEF v
  <1>3. \A f : Is(f) <=> IsTable(what, c, v, f)
    BY DEF IsTable, Turn
  <1>4. what[1] = "counted" /\ what[2] = start /\ what[3] = n
    OBVIOUS
  <1> HIDE DEF what
  <1>5. \E f : Is(f)
    BY <1>2, <1>3, TableExists
  <1>6. Is(table)
    BY <1>5
  <1> HIDE DEF Is, table
  <1>7. IsTable(what, c, v, table)
    BY <1>3, <1>6
  <1>8. PICK h : Turns(what, c, v, h) /\ h[Len(v)] = table[DOMAIN v]
    BY <1>2, <1>7, TableTurns
  <1>9. h[0] = c /\ \A j \in 1..k : h[j] = Counting(start, n, h[j - 1], v[j])
    BY <1>2, <1>4, <1>8 DEF Turns, Turn
  <1> DEFINE good == {j \in 0..k : h[j] \in Nat}
  <1>10. 0 \in good
    BY <1>9
  <1>11. ASSUME NEW j \in 0..k - 1, j \in good PROVE j + 1 \in good
    <2> DEFINE i == j + 1
    <2>1. i \in 1..k /\ i \in 0..k /\ i - 1 = j /\ h[j] \in Nat
      BY <1>11
    <2> HIDE DEF i
    <2>2. h[i] = Counting(start, n, h[j], v[i])
      BY <1>9, <2>1
    <2>3. h[i] \in Nat
      BY <2>1, <2>2 DEF Counting
    <2> QED BY <2>1, <2>3 DEF i
  <1>12. k \in good
    <2>1. k \in 0..k
      OBVIOUS
    <2> HIDE DEF good
    <2> QED BY <1>10, <1>11, <2>1, Induction
  <1> QED BY <1>1, <1>2, <1>8, <1>12

\* A hunk of lines of S.
HunkOf(S) ==
    [oldStart : Nat, oldCount : Nat, newStart : Nat, newCount : Nat, lines : Seq(LineOf(S))]

\* A new hunk is one, without lines.
LEMMA NewHunkIs ==
    ASSUME NEW S, NEW e, e.oldStart \in Nat, e.newStart \in Nat, NEW c \in Nat
    PROVE  NewHunk(e, c) \in HunkOf(S) /\ NewHunk(e, c).lines = <<>>
  <1> DEFINE x == e.oldStart - c
             y == e.newStart - c
             h == NewHunk(e, c)
  <1>1. x \in Int /\ y \in Int
    OBVIOUS
  <1>2. h = [oldStart |-> Max({0, x}), oldCount |-> 0,
             newStart |-> Max({0, y}), newCount |-> 0, lines |-> <<>>]
    BY DEF NewHunk
  <1> HIDE DEF x, y, h
  <1>3. Max({0, x}) \in Nat /\ Max({0, y}) \in Nat
    BY <1>1, OfTwo
  <1>4. <<>> \in Seq(LineOf(S))
    OBVIOUS
  <1>5. h \in HunkOf(S) /\ h.lines = <<>>
    BY <1>2, <1>3, <1>4 DEF HunkOf
  <1> QED BY <1>5 DEF h

\* Lines that are equal in both texts are neither deleted nor inserted.
LEMMA EqualSkipped ==
    \A T : \A s, t \in Seq(T) : \A op \in {"delete", "insert"} :
        (\A i \in 1..Len(t) : t[i].op = "equal") => Chosen(s \o t, op) = Chosen(s, op)
  <1> TAKE T
  <1> TAKE s, t \in Seq(T)
  <1> TAKE op \in {"delete", "insert"}
  <1> SUFFICES ASSUME \A i \in 1..Len(t) : t[i].op = "equal"
               PROVE  Chosen(s \o t, op) = Chosen(s, op)
    OBVIOUS
  <1>1. \A i \in 1..Len(t) : t[i].op # op
    OBVIOUS
  <1>2. Chosen(t, op) = <<>>
    BY <1>1, ChosenAlike
  <1>3. Chosen(s \o t, op) = Chosen(s, op) \o Chosen(t, op)
    BY ChosenJoined
  <1>4. Chosen(s, op) \o <<>> = Chosen(s, op)
    <2>1. Chosen(s, op) \in Seq(T)
      BY ChosenTyped
    <2> QED BY <2>1, ConcatEmptySeq
  <1> QED BY <1>2, <1>3, <1>4

\* The lines before an edit: nothing is deleted or inserted in them.
LEMMA LeadIs ==
    ASSUME NEW S, NEW a \in Seq(S), NEW b, NEW h \in HunkOf(S), NEW e, e.oldStart \in Nat
    PROVE  /\ Lead(h, e, a, b) \in HunkOf(S)
           /\ \A op \in {"delete", "insert"} : Chosen(Lead(h, e, a, b).lines, op) = Chosen(h.lines, op)
  <1> DEFINE from == h.oldStart + h.oldCount
             ls == HunkLines("equal", a, from, e.oldStart)
             k == Len(ls)
             r == Lead(h, e, a, b)
             count == Counted(h.newStart, Len(b), h.newCount, k)
             all == h.lines \o ls
  <1>1. /\ h.oldStart \in Nat /\ h.oldCount \in Nat /\ h.newStart \in Nat /\ h.newCount \in Nat
        /\ h.lines \in Seq(LineOf(S)) /\ from \in Nat
    BY DEF HunkOf
  <1>2. r = [h EXCEPT !.lines = all, !.oldCount = @ + k, !.newCount = count]
    BY DEF Lead, Counted, FoldLeft, MapThenFoldSet
  <1> HIDE DEF from, r
  <1>3. ls \in Seq(LineOf(S)) /\ \A i \in 1..Len(ls) : ls[i].op = "equal"
    <2> DEFINE to == e.oldStart
    <2>1. to \in Nat /\ from \in Nat /\ "equal" \in {"equal", "delete", "insert"}
      BY <1>1
    <2> HIDE DEF to
    <2> QED BY <2>1, HunkLinesAre DEF ls
  <1> HIDE DEF ls
  <1>4. k \in Nat
    BY <1>3
  <1>5. count \in Nat
    BY <1>1, <1>4, CountedIs
  <1> HIDE DEF k, count
  <1>6. all \in Seq(LineOf(S))
    BY <1>1, <1>3
  <1>7. r \in HunkOf(S) /\ r.lines = all
    <2> DEFINE m == h.oldCount + k
    <2>1. m \in Nat
      BY <1>1, <1>4
    <2>2. r = [h EXCEPT !.lines = all, !.oldCount = m, !.newCount = count]
      BY <1>2
    <2> HIDE DEF all, m
    <2>3. [h EXCEPT !.lines = all, !.oldCount = m, !.newCount = count] \in HunkOf(S)
      BY <1>5, <1>6, <2>1 DEF HunkOf
    <2>4. [h EXCEPT !.lines = all, !.oldCount = m, !.newCount = count].lines = all
      BY DEF HunkOf
    <2> QED BY <2>2, <2>3, <2>4, Zenon
  <1>8. ASSUME NEW op \in {"delete", "insert"} PROVE Chosen(all, op) = Chosen(h.lines, op)
    <2>1. h.lines \in Seq(LineOf(S))
      BY <1>1
    <2> QED BY <1>3, <2>1, EqualSkipped
  <1> QED BY <1>7, <1>8 DEF r

\* The lines of an edit: those it deletes and those it inserts.
LEMMA ChangeIs ==
    ASSUME NEW S, NEW a \in Seq(S), NEW b \in Seq(S), NEW h \in HunkOf(S), NEW e \in EditOf(a, b)
    PROVE  /\ Change(h, e, a, b) \in HunkOf(S)
           /\ \A op \in {"delete", "insert"} :
                 Chosen(Change(h, e, a, b).lines, op) = Chosen(h.lines, op) \o Touched(a, b, e, op)
  <1> DEFINE x == h.lines
             dels == HunkLines("delete", a, e.oldStart, e.oldEnd)
             adds == HunkLines("insert", b, e.newStart, e.newEnd)
             k == Len(dels)
             l == Len(adds)
             all == (x \o dels) \o adds
             r == Change(h, e, a, b)
             Ls == Seq(LineOf(S))
  <1>1. h.oldStart \in Nat /\ h.oldCount \in Nat /\ h.newStart \in Nat /\ h.newCount \in Nat /\ x \in Ls
    BY DEF HunkOf
  <1>2. r = [h EXCEPT !.lines = all, !.oldCount = @ + k, !.newCount = @ + l]
    BY DEF Change
  <1>a. Len(a) \in Nat /\ Len(b) \in Nat
    OBVIOUS
  <1>3. /\ e.oldStart \in Nat /\ e.oldEnd \in Nat /\ e.oldStart <= e.oldEnd /\ e.oldEnd <= Len(a)
        /\ e.newStart \in Nat /\ e.newEnd \in Nat /\ e.newStart <= e.newEnd /\ e.newEnd <= Len(b)
    BY <1>a DEF EditOf
  <1>4. /\ dels \in Ls /\ \A i \in 1..Len(dels) : dels[i].op = "delete"
        /\ dels = Touched(a, b, e, "delete")
    <2> DEFINE from == e.oldStart
               to == e.oldEnd
    <2>1. from \in Nat /\ to \in Nat /\ from <= to /\ to <= Len(a) /\ "delete" \in {"equal", "delete", "insert"}
      BY <1>3
    <2>2. Touched(a, b, e, "delete") = Marked("delete", SubSeq(a, from + 1, to))
      BY DEF Touched
    <2> HIDE DEF from, to
    <2>3. /\ dels \in Ls /\ \A i \in 1..Len(dels) : dels[i].op = "delete"
          /\ dels = Marked("delete", SubSeq(a, from + 1, to))
      BY <2>1, HunkLinesAre DEF from, to
    <2> QED BY <2>2, <2>3
  <1>5. /\ adds \in Ls /\ \A i \in 1..Len(adds) : adds[i].op = "insert"
        /\ adds = Touched(a, b, e, "insert")
    <2> DEFINE from == e.newStart
               to == e.newEnd
    <2>1. from \in Nat /\ to \in Nat /\ from <= to /\ to <= Len(b) /\ "insert" \in {"equal", "delete", "insert"}
      BY <1>3
    <2>2. Touched(a, b, e, "insert") = Marked("insert", SubSeq(b, from + 1, to))
      BY DEF Touched
    <2> HIDE DEF from, to
    <2>3. /\ adds \in Ls /\ \A i \in 1..Len(adds) : adds[i].op = "insert"
          /\ adds = Marked("insert", SubSeq(b, from + 1, to))
      BY <2>1, HunkLinesAre DEF from, to
    <2> QED BY <2>2, <2>3
  <1> HIDE DEF dels, adds, r
  <1>6. k \in Nat /\ l \in Nat
    BY <1>4, <1>5
  <1>7. x \o dels \in Ls /\ all \in Ls
    <2>1. x \o dels \in Ls
      BY <1>1, <1>4
    <2> QED BY <1>5, <2>1
  <1> HIDE DEF k, l
  <1>8. r \in HunkOf(S) /\ r.lines = all
    <2> DEFINE m == h.oldCount + k
               n == h.newCount + l
    <2>1. m \in Nat /\ n \in Nat
      BY <1>1, <1>6
    <2>2. r = [h EXCEPT !.lines = all, !.oldCount = m, !.newCount = n]
      BY <1>2
    <2> HIDE DEF all, m, n
    <2>3. [h EXCEPT !.lines = all, !.oldCount = m, !.newCount = n] \in HunkOf(S)
      BY <1>7, <2>1 DEF HunkOf
    <2>4. [h EXCEPT !.lines = all, !.oldCount = m, !.newCount = n].lines = all
      BY DEF HunkOf
    <2> QED BY <2>2, <2>3, <2>4, Zenon
  <1>9. ASSUME NEW op \in {"delete", "insert"} PROVE Chosen(all, op) = Chosen(x, op) \o Touched(a, b, e, op)
    <2> DEFINE c == Chosen(x, op)
               d == Chosen(dels, op)
               i == Chosen(adds, op)
    <2> HIDE DEF x, all
    <2>a. x \in Ls /\ dels \in Ls /\ adds \in Ls
      BY <1>1, <1>4, <1>5
    <2>b. c \in Ls
      BY <2>a, ChosenTyped
    <2>1. Chosen(x \o dels, op) = c \o d
      BY <2>a, ChosenJoined
    <2>2. Chosen(all, op) = Chosen(x \o dels, op) \o i
      <3> DEFINE y == x \o dels
      <3>1. y \in Ls
        BY <1>7
      <3> HIDE DEF y
      <3>2. Chosen(y \o adds, op) = Chosen(y, op) \o i
        BY <2>a, <3>1, ChosenJoined
      <3> QED BY <3>2 DEF y, all
    <2>3. CASE op = "delete"
      <3>1. d = dels
        BY <1>4, <2>3, ChosenAlike
      <3>2. i = <<>>
        <4>1. \A j \in 1..Len(adds) : adds[j].op # op
          BY <1>5, <2>3
        <4> QED BY <1>5, <4>1, ChosenAlike
      <3>3. c \o dels \in Ls
        BY <1>4, <2>b
      <3> HIDE DEF c
      <3>4. (c \o dels) \o <<>> = c \o dels
        BY <3>3, ConcatEmptySeq
      <3>5. Chosen(all, op) = c \o dels
        BY <2>1, <2>2, <3>1, <3>2, <3>4 DEF c
      <3> QED BY <1>4, <2>3, <3>5 DEF c
    <2>4. CASE op = "insert"
      <3>1. i = adds
        BY <1>5, <2>4, ChosenAlike
      <3>2. d = <<>>
        <4>1. \A j \in 1..Len(dels) : dels[j].op # op
          BY <1>4, <2>4
        <4> QED BY <1>4, <4>1, ChosenAlike
      <3>3. c \o <<>> = c
        <4> HIDE DEF c
        <4> QED BY <2>b, ConcatEmptySeq
      <3>4. Chosen(all, op) = c \o adds
        BY <2>1, <2>2, <3>1, <3>2, <3>3
      <3> QED BY <1>5, <2>4, <3>4
    <2> QED BY <2>3, <2>4
  <1> QED BY <1>8, <1>9 DEF r

\* The lines after the last edit are equal ones.
LEMMA TrailIs ==
    ASSUME NEW S, NEW a \in Seq(S), NEW h \in HunkOf(S), NEW c \in Nat
    PROVE  /\ Trail(h, a, c) \in HunkOf(S)
           /\ \A op \in {"delete", "insert"} : Chosen(Trail(h, a, c).lines, op) = Chosen(h.lines, op)
  <1> DEFINE from == h.oldStart + h.oldCount
             to == from + c
             ls == HunkLines("equal", a, from, to)
             k == Len(ls)
             r == Trail(h, a, c)
             all == h.lines \o ls
  <1>1. /\ h.oldStart \in Nat /\ h.oldCount \in Nat /\ h.newStart \in Nat /\ h.newCount \in Nat
        /\ h.lines \in Seq(LineOf(S)) /\ from \in Nat /\ to \in Nat
    BY DEF HunkOf
  <1>2. r = [h EXCEPT !.lines = all, !.oldCount = @ + k, !.newCount = @ + k]
    BY DEF Trail
  <1> HIDE DEF from, to, r
  <1>3. ls \in Seq(LineOf(S)) /\ \A i \in 1..Len(ls) : ls[i].op = "equal"
    <2>1. "equal" \in {"equal", "delete", "insert"}
      OBVIOUS
    <2> QED BY <1>1, <2>1, HunkLinesAre
  <1> HIDE DEF ls
  <1>4. k \in Nat
    BY <1>3
  <1> HIDE DEF k
  <1>5. all \in Seq(LineOf(S))
    BY <1>1, <1>3
  <1>6. r \in HunkOf(S) /\ r.lines = all
    <2> DEFINE m == h.oldCount + k
               n == h.newCount + k
    <2>1. m \in Nat /\ n \in Nat
      BY <1>1, <1>4
    <2>2. r = [h EXCEPT !.lines = all, !.oldCount = m, !.newCount = n]
      BY <1>2
    <2> HIDE DEF all, m, n
    <2>3. [h EXCEPT !.lines = all, !.oldCount = m, !.newCount = n] \in HunkOf(S)
      BY <1>5, <2>1 DEF HunkOf
    <2>4. [h EXCEPT !.lines = all, !.oldCount = m, !.newCount = n].lines = all
      BY DEF HunkOf
    <2> QED BY <2>2, <2>3, <2>4, Zenon
  <1>7. ASSUME NEW op \in {"delete", "insert"} PROVE Chosen(all, op) = Chosen(h.lines, op)
    <2>1. h.lines \in Seq(LineOf(S))
      BY <1>1
    <2> QED BY <1>3, <2>1, EqualSkipped
  <1> QED BY <1>6, <1>7 DEF r

\* The lines of hunks are lines.
LEMMA LinesTyped == \A S, op : \A hs \in Seq(HunkOf(S)) : LinesOf(hs, op) \in Seq(LineOf(S))
  <1> TAKE S, op
  <1> DEFINE typed == {r \in Seq(HunkOf(S)) : LinesOf(r, op) \in Seq(LineOf(S))}
  <1>1. <<>> \in typed
    <2>1. LinesOf(<<>>, op) = <<>> /\ <<>> \in Seq(HunkOf(S)) /\ <<>> \in Seq(LineOf(S))
      BY LinesNone
    <2> QED BY <2>1
  <1>2. ASSUME NEW r \in Seq(HunkOf(S)), NEW x \in HunkOf(S), r \in typed PROVE Append(r, x) \in typed
    <2>1. LinesOf(Append(r, x), op) = LinesOf(r, op) \o Chosen(x.lines, op)
      BY LinesAppended
    <2>2. x.lines \in Seq(LineOf(S))
      BY DEF HunkOf
    <2>3. LinesOf(r, op) \in Seq(LineOf(S)) /\ Chosen(x.lines, op) \in Seq(LineOf(S))
      BY <1>2, <2>2, ChosenTyped
    <2>4. LinesOf(r, op) \o Chosen(x.lines, op) \in Seq(LineOf(S))
      BY <2>3
    <2>5. Append(r, x) \in Seq(HunkOf(S))
      OBVIOUS
    <2> QED BY <2>1, <2>4, <2>5
  <1>3. \A r \in Seq(HunkOf(S)) : r \in typed
    <2> HIDE DEF typed
    <2> QED BY <1>1, <1>2, OneByOne
  <1> QED BY <1>3

\* Replacing the last element is appending another one.
LEMMA LastReplaced ==
    ASSUME NEW T, NEW f \in Seq(T), NEW x \in T, NEW y \in T
    PROVE  /\ [Append(f, x) EXCEPT ![Len(Append(f, x))] = y] = Append(f, y)
           /\ Append(f, x)[Len(Append(f, x))] = x
  <1> DEFINE u == Append(f, x)
             w == Append(f, y)
             n == Len(f)
             v == [u EXCEPT ![Len(u)] = y]
  <1>1. u \in Seq(T) /\ n \in Nat /\ Len(u) = n + 1 /\ u[n + 1] = x /\ \A i \in 1..n : u[i] = f[i]
    OBVIOUS
  <1>2. w \in Seq(T) /\ Len(w) = n + 1 /\ w[n + 1] = y /\ \A i \in 1..n : w[i] = f[i]
    OBVIOUS
  <1> HIDE DEF u, w, n
  <1>3. v \in Seq(T) /\ Len(v) = n + 1 /\ v[n + 1] = y /\ \A i \in 1..n : v[i] = u[i]
    BY <1>1
  <1> HIDE DEF v
  <1>4. \A i \in 1..Len(v) : v[i] = w[i]
    <2> TAKE i \in 1..Len(v)
    <2>1. i \in 1..n \/ i = n + 1
      BY <1>1, <1>3
    <2> QED BY <1>1, <1>2, <1>3, <2>1
  <1>5. v = w
    BY <1>2, <1>3, <1>4, SeqEqual
  <1> QED BY <1>1, <1>5 DEF u, v, w

\* What an edit touches are lines.
LEMMA TouchedTyped ==
    \A S : \A a, b \in Seq(S) : \A e \in EditOf(a, b) : \A op \in {"delete", "insert"} :
        Touched(a, b, e, op) \in Seq(LineOf(S))
  <1> TAKE S
  <1> TAKE a, b \in Seq(S)
  <1> TAKE e \in EditOf(a, b)
  <1>1. ASSUME NEW text \in Seq(S), NEW op \in {"delete", "insert"}, NEW i \in Nat, NEW j \in Nat,
               i <= j, j <= Len(text)
        PROVE  Marked(op, SubSeq(text, i + 1, j)) \in Seq(LineOf(S))
    <2> DEFINE cut == SubSeq(text, i + 1, j)
    <2>1. cut \in Seq(S)
      <3>1. Cut(text, i, j) \in Seq(S)
        BY <1>1, CutIs
      <3> QED BY <3>1 DEF Cut
    <2> HIDE DEF cut
    <2>2. Len(cut) \in Nat /\ \A k \in 1..Len(cut) : cut[k] \in S
      BY <2>1
    <2>3. \A k \in 1..Len(cut) : [op |-> op, content |-> cut[k]] \in LineOf(S)
      BY <2>2 DEF LineOf
    <2>4. Marked(op, cut) \in Seq(LineOf(S))
      BY <2>2, <2>3 DEF Marked
    <2> QED BY <2>4 DEF cut
  <1>2. Len(a) \in Nat /\ Len(b) \in Nat
    OBVIOUS
  <1>3. /\ e.oldStart \in Nat /\ e.oldEnd \in Nat /\ e.oldStart <= e.oldEnd /\ e.oldEnd <= Len(a)
        /\ e.newStart \in Nat /\ e.newEnd \in Nat /\ e.newStart <= e.newEnd /\ e.newEnd <= Len(b)
    BY <1>2 DEF EditOf
  <1>4. Touched(a, b, e, "delete") \in Seq(LineOf(S))
    BY <1>1, <1>3 DEF Touched
  <1>5. Touched(a, b, e, "insert") \in Seq(LineOf(S))
    BY <1>1, <1>3 DEF Touched
  <1> QED BY <1>4, <1>5

\* Another edit adds its lines to those of the hunks.
LEMMA AddEditIs ==
    ASSUME NEW S, NEW a \in Seq(S), NEW b \in Seq(S), NEW c \in Nat,
           NEW hs \in Seq(HunkOf(S)), NEW e \in EditOf(a, b)
    PROVE  /\ AddEdit(hs, e, a, b, c) \in Seq(HunkOf(S))
           /\ \A op \in {"delete", "insert"} :
                 LinesOf(AddEdit(hs, e, a, b, c), op) = LinesOf(hs, op) \o Touched(a, b, e, op)
  <1> DEFINE new == hs = <<>> \/ Far(Last(hs), e, c)
             open == IF new THEN Append(hs, NewHunk(e, c)) ELSE hs
             H == HunkOf(S)
             Ls == Seq(LineOf(S))
             Changed(h) == Change(Lead(h, e, a, b), e, a, b)
             all == AddEdit(hs, e, a, b, c)
  <1>1. e.oldStart \in Nat /\ e.newStart \in Nat
    <2>1. Len(a) \in Nat /\ Len(b) \in Nat
      OBVIOUS
    <2> QED BY <2>1 DEF EditOf
  <1>2. all = [open EXCEPT ![Len(open)] = Changed(@)]
    BY DEF AddEdit
  <1>3. NewHunk(e, c) \in H /\ NewHunk(e, c).lines = <<>>
    BY <1>1, NewHunkIs
  <1>4. PICK f \in Seq(H), x \in H :
            open = Append(f, x) /\ \A op : LinesOf(open, op) = LinesOf(hs, op)
    <2>1. CASE new
      <3> DEFINE x == NewHunk(e, c)
      <3>1. open = Append(hs, x)
        BY <2>1
      <3> HIDE DEF open, x, new
      <3>2. ASSUME NEW op PROVE LinesOf(open, op) = LinesOf(hs, op)
        <4>1. LinesOf(open, op) = LinesOf(hs, op) \o Chosen(x.lines, op)
          BY <1>3, <3>1, LinesAppended DEF x
        <4>2. Chosen(x.lines, op) = <<>>
          BY <1>3, ChosenNone DEF x
        <4>3. LinesOf(hs, op) \in Ls
          BY LinesTyped
        <4>4. LinesOf(hs, op) \o <<>> = LinesOf(hs, op)
          BY <4>3, ConcatEmptySeq
        <4> QED BY <4>1, <4>2, <4>4
      <3> QED BY <1>3, <3>1, <3>2 DEF x
    <2>2. CASE ~new
      <3>1. open = hs /\ hs # <<>>
        BY <2>2
      <3>2. PICK f \in Seq(H), x \in H : hs = Append(f, x)
        BY <3>1, SequenceEmptyOrAppend
      <3> HIDE DEF open
      <3> QED BY <3>1, <3>2
    <2> QED BY <2>1, <2>2
  <1> DEFINE y == Lead(x, e, a, b)
             z == Change(y, e, a, b)
  <1>5. y \in H /\ \A op \in {"delete", "insert"} : Chosen(y.lines, op) = Chosen(x.lines, op)
    BY <1>1, LeadIs
  <1>6. /\ z \in H
        /\ \A op \in {"delete", "insert"} : Chosen(z.lines, op) = Chosen(y.lines, op) \o Touched(a, b, e, op)
    <2> HIDE DEF y
    <2> QED BY <1>5, ChangeIs
  <1>7. all = Append(f, z)
    <2>1. open[Len(open)] = x
      <3> HIDE DEF open
      <3> QED BY <1>4, LastReplaced
    <2>2. all = [open EXCEPT ![Len(open)] = z]
      BY <1>2, <2>1
    <2> HIDE DEF all, open, z
    <2> QED BY <1>4, <1>6, <2>2, LastReplaced
  <1> HIDE DEF all, open, y, z
  <1>8. ASSUME NEW op \in {"delete", "insert"} PROVE LinesOf(all, op) = LinesOf(hs, op) \o Touched(a, b, e, op)
    <2> DEFINE l == LinesOf(f, op)
               p == Chosen(x.lines, op)
               t == Touched(a, b, e, op)
    <2>1. LinesOf(all, op) = l \o Chosen(z.lines, op)
      BY <1>6, <1>7, LinesAppended
    <2>2. LinesOf(hs, op) = l \o p
      <3>1. LinesOf(Append(f, x), op) = l \o p
        BY LinesAppended
      <3> QED BY <1>4, <3>1
    <2>3. Chosen(z.lines, op) = p \o t
      BY <1>5, <1>6
    <2>4. l \in Ls
      BY LinesTyped
    <2>5. p \in Ls
      <3>1. x.lines \in Ls
        BY DEF HunkOf
      <3> QED BY <3>1, ChosenTyped
    <2>6. t \in Ls
      BY TouchedTyped
    <2> HIDE DEF l, p, t
    <2>7. (l \o p) \o t = l \o (p \o t)
      <3> DEFINE T == LineOf(S)
      <3>1. l \in Seq(T) /\ p \in Seq(T) /\ t \in Seq(T)
        BY <2>4, <2>5, <2>6
      <3> HIDE DEF T
      <3> QED BY <3>1, ConcatAssociative
    <2> QED BY <2>1, <2>2, <2>3, <2>7 DEF t
  <1>9. all \in Seq(H)
    BY <1>6, <1>7
  <1> QED BY <1>8, <1>9 DEF all

\* The hunks of a list of edits show its lines.
LEMMA HunksShow ==
    ASSUME NEW S, NEW a \in Seq(S), NEW b \in Seq(S), NEW c \in Nat, NEW es \in Seq(EditOf(a, b))
    PROVE  \A op \in {"delete", "insert"} : LinesOf(Hunks(es, a, b, c), op) = TouchedBy(a, b, es, op)
  <1> DEFINE E == EditOf(a, b)
             H == HunkOf(S)
             Ls == Seq(LineOf(S))
             good == {r \in Seq(E) :
                         /\ Hunked(r, a, b, c) \in Seq(H)
                         /\ \A op \in {"delete", "insert"} :
                               LinesOf(Hunked(r, a, b, c), op) = TouchedBy(a, b, r, op)}
  <1>1. <<>> \in good
    <2>1. Hunked(<<>>, a, b, c) = <<>> /\ <<>> \in Seq(H) /\ <<>> \in Seq(E)
      BY HunkedNone
    <2>2. \A op : LinesOf(<<>>, op) = TouchedBy(a, b, <<>>, op)
      BY LinesNone, TouchedNone
    <2> QED BY <2>1, <2>2
  <1>2. ASSUME NEW r \in Seq(E), NEW x \in E, r \in good PROVE Append(r, x) \in good
    <2> DEFINE hs == Hunked(r, a, b, c)
               u == Append(r, x)
    <2>1. hs \in Seq(H) /\ \A op \in {"delete", "insert"} : LinesOf(hs, op) = TouchedBy(a, b, r, op)
      BY <1>2
    <2>2. Hunked(u, a, b, c) = AddEdit(hs, x, a, b, c)
      BY HunkedAppended
    <2>3. \A op : TouchedBy(a, b, u, op) = TouchedBy(a, b, r, op) \o Touched(a, b, x, op)
      BY TouchedAppended
    <2>4. u \in Seq(E)
      OBVIOUS
    <2> HIDE DEF hs, u
    <2>5. /\ AddEdit(hs, x, a, b, c) \in Seq(H)
          /\ \A op \in {"delete", "insert"} :
                LinesOf(AddEdit(hs, x, a, b, c), op) = LinesOf(hs, op) \o Touched(a, b, x, op)
      BY <2>1, AddEditIs
    <2>6. u \in good
      BY <2>1, <2>2, <2>3, <2>4, <2>5
    <2> QED BY <2>6 DEF u
  <1>3. es \in good
    <2>1. \A r \in Seq(E) : r \in good
      <3> HIDE DEF good
      <3> QED BY <1>1, <1>2, OneByOne
    <2> QED BY <2>1, Zenon
  <1> DEFINE hs == Hunked(es, a, b, c)
             last == Trail(hs[Len(hs)], a, c)
             all == Hunks(es, a, b, c)
  <1>4. all = IF hs = <<>> THEN <<>> ELSE [hs EXCEPT ![Len(hs)] = last]
    BY DEF Hunks, Hunked, FoldLeft, MapThenFoldSet
  <1>5. hs \in Seq(H) /\ \A op \in {"delete", "insert"} : LinesOf(hs, op) = TouchedBy(a, b, es, op)
    BY <1>3
  <1> HIDE DEF hs, all
  <1>6. CASE hs = <<>>
    BY <1>4, <1>5, <1>6 DEF all
  <1>7. CASE hs # <<>>
    <2>1. PICK f \in Seq(H), x \in H : hs = Append(f, x)
      BY <1>5, <1>7, SequenceEmptyOrAppend
    <2> DEFINE y == Trail(x, a, c)
    <2>2. y \in H /\ \A op \in {"delete", "insert"} : Chosen(y.lines, op) = Chosen(x.lines, op)
      BY TrailIs
    <2>3. hs[Len(hs)] = x
      BY <2>1, LastReplaced
    <2>4. all = [hs EXCEPT ![Len(hs)] = y]
      BY <1>4, <1>7, <2>3
    <2> HIDE DEF y
    <2>5. all = Append(f, y)
      BY <2>1, <2>2, <2>4, LastReplaced
    <2>6. ASSUME NEW op \in {"delete", "insert"} PROVE LinesOf(all, op) = LinesOf(hs, op)
      <3>1. LinesOf(Append(f, y), op) = LinesOf(f, op) \o Chosen(y.lines, op)
        BY <2>2, LinesAppended
      <3>2. LinesOf(Append(f, x), op) = LinesOf(f, op) \o Chosen(x.lines, op)
        BY LinesAppended
      <3> QED BY <2>1, <2>2, <2>5, <3>1, <3>2
    <2> QED BY <1>5, <2>6 DEF all
  <1> QED BY <1>6, <1>7

-----------------------------------------------------------------------------
(* The two calls *)

\* Which steps each call has, and what the variables hold from each step on.
Sound ==
    /\ base \in Seq(Line) /\ ours \in Seq(Line) /\ theirs \in Seq(Line)
    /\ oursText \in Seq(Line) /\ oursText # <<>>
    /\ \/ call = "diff" /\ step \in {"search", "compact", "group", "done"}
       \/ call = "merge" /\ step \in {"sides", "compare", "apply", "done"}
Differs ==
    /\ Searched => script = Script(base, ours)
    /\ Compacted \/ HunksMade => edits = Diff(base, ours)
    /\ HunksMade => hunks = Hunks(edits, base, ours, Context)
Meeting(os, ts) ==
    {Max({p[1].oldStart, p[2].oldStart}) :
        p \in {q \in ToSet(os) \X ToSet(ts) : Overlap(q[1], q[2])}}
Merges ==
    call = "merge" =>
        /\ step # "sides" => oursEdits = Diff(base, ours) /\ theirsEdits = Diff(base, theirs)
        /\ step \in {"apply", "done"} => conflicts = Meeting(oursEdits, theirsEdits)
        /\ step = "done" /\ conflicts = {} => merged = ApplyEdits(oursText, theirsEdits)
IInv == Sound /\ Differs /\ Merges

\* A text of bounded length is a text.
LEMMA TextIs == ASSUME NEW n \in Nat, NEW t \in Text(n) PROVE t \in Seq(Line)
  <1>1. PICK m \in 0..n : t \in [1..m -> Line]
    BY DEF Text, BoundedSeq, SeqOf
  <1>2. m \in Nat
    OBVIOUS
  <1> QED BY <1>1, <1>2

\* The invariant holds when a call starts.
LEMMA InitInv == Init => IInv
  <1> SUFFICES ASSUME Init PROVE IInv
    OBVIOUS
  <1>1. <<>> \in Seq(Line)
    OBVIOUS
  <1>2. CASE /\ call = "diff" /\ step = "search"
             /\ base \in Text(MaxDiff) /\ ours \in Text(MaxDiff) /\ theirs = <<>>
             /\ oursText = Append(ours, Empty)
    <2>1. base \in Seq(Line) /\ ours \in Seq(Line)
      BY <1>2, TextIs, BoundAssumption
    <2>2. oursText \in Seq(Line) /\ oursText # <<>>
      BY <1>2, <2>1, LineAssumption
    <2> QED BY <1>1, <1>2, <2>1, <2>2 DEF IInv, Sound, Differs, Merges, Searched, Compacted, HunksMade
  <1>3. CASE /\ call = "merge" /\ step = "sides"
             /\ base \in Text(MaxMerge) /\ theirs \in Text(MaxMerge)
             /\ oursText \in Text(MaxMerge) \ {<<>>} /\ ours = Split(oursText)
    <2>1. base \in Seq(Line) /\ theirs \in Seq(Line)
      BY <1>3, TextIs, BoundAssumption
    <2>2. oursText \in Seq(Line) /\ oursText # <<>>
      BY <1>3, TextIs, BoundAssumption
    <2>3. ours \in Seq(Line)
      <3>1. <<>> \in Nothing
        BY DEF Nothing
      <3> QED BY <1>3, <2>2, <3>1, NothingApplied
    <2> QED BY <1>3, <2>1, <2>2, <2>3 DEF IInv, Sound, Differs, Merges, Searched, Compacted, HunksMade
  <1> QED BY <1>2, <1>3 DEF Init

\* Every step keeps it.
LEMMA NextInv == IInv /\ [Next]_vars => IInv'
  <1> SUFFICES ASSUME IInv, [Next]_vars PROVE IInv'
    OBVIOUS
  <1> USE DEF IInv, Sound, Differs, Merges, Searched, Compacted, HunksMade
  <1>1. CASE Search
    BY <1>1 DEF Search, texts, merging
  <1>2. CASE MergeEdits
    BY <1>2 DEF MergeEdits, texts, merging, Diff
  <1>3. CASE Group
    BY <1>3 DEF Group, texts, merging
  <1>4. CASE DiffSides
    BY <1>4 DEF DiffSides, texts, diffing
  <1>5. CASE FindConflicts
    BY <1>5 DEF FindConflicts, texts, diffing, Meeting
  <1>6. CASE ApplyClean
    BY <1>6 DEF ApplyClean, texts, diffing
  <1>7. CASE ApplyConflicts
    BY <1>7 DEF ApplyConflicts, texts, diffing
  <1>8. CASE UNCHANGED vars
    BY <1>8 DEF vars
  <1> QED BY <1>1, <1>2, <1>3, <1>4, <1>5, <1>6, <1>7, <1>8 DEF Next

\* So it always holds.
LEMMA Invariant == Spec => []IInv
  <1> QED BY InitInv, NextInv, PTL DEF Spec

\* The property's reading of edits is that of the chains.
LEMMA AppliedIs ==
    ASSUME base \in Seq(Line), ours \in Seq(Line), NEW es,
           Chain(base, ours, es, <<0, 0>>, <<Len(base), Len(ours)>>)
    PROVE  Applied(es) = ours
  <1> DEFINE r == AppliedTo(base, ours, es)
  <1>1. Applied(es) = r.out \o SubSeq(base, r.pos + 1, Len(base))
    BY DEF Applied, AppliedTo, FoldLeft, MapThenFoldSet
  <1> QED BY <1>1, ChainApplied

\* UnifiedDiff's search (ComputeDiff): the edits it finds turn the first text into
\* the second, whatever the two texts are.
THEOREM ScriptTurnsBaseIntoOurs == Spec => []ScriptCorrect
  <1>1. IInv => ScriptCorrect
    <2> SUFFICES ASSUME IInv, Searched PROVE Applied(script) = ours
      BY DEF ScriptCorrect
    <2>1. base \in Seq(Line) /\ ours \in Seq(Line) /\ script = Script(base, ours)
      BY DEF IInv, Sound, Differs
    <2>2. Chain(base, ours, script, <<0, 0>>, <<Len(base), Len(ours)>>)
      BY <2>1, ScriptChain
    <2> QED BY <2>1, <2>2, AppliedIs
  <1> QED BY <1>1, Invariant, PTL

\* It finds a shortest edit script: it touches exactly the lines that are not in a
\* longest common subsequence of the two texts.
THEOREM ScriptIsShortest == Spec => []ScriptShortest
  <1>1. IInv => ScriptShortest
    <2> SUFFICES ASSUME IInv, Searched PROVE SizeOf(script) = Len(base) + Len(ours) - 2 * Common
      BY DEF ScriptShortest
    <2>1. base \in Seq(Line) /\ ours \in Seq(Line) /\ script = Script(base, ours)
      BY DEF IInv, Sound, Differs
    <2> DEFINE f == CHOOSE g : IsLcs(base, ours, g)
    <2>2. Common = f[<<Len(base), Len(ours)>>]
      BY DEF Common, IsLcs, Made, Place
    <2>3. IsLcs(base, ours, f)
      <3>1. \E g : IsLcs(base, ours, g)
        BY <2>1, LcsExists
      <3> QED BY <3>1
    <2> HIDE DEF f
    <2>4. SizeOf(Script(base, ours)) = (Len(base) + Len(ours)) - 2 * f[<<Len(base), Len(ours)>>]
      BY <2>1, <2>3, ScriptSize
    <2> DEFINE n == Len(base)
               m == Len(ours)
               l == f[<<n, m>>]
    <2>5. n \in Nat /\ m \in Nat /\ n \in 0..n /\ m \in 0..m
      BY <2>1
    <2>6. Grows(base, ours, f, n, m)
      BY <2>1, <2>3, <2>5, LcsGrows
    <2>7. l \in Nat
      BY <2>6 DEF Grows
    <2> HIDE DEF l, n, m
    <2>8. (n + m) - 2 * l = n + m - 2 * l
      BY <2>5, <2>7
    <2> QED BY <2>1, <2>2, <2>4, <2>8 DEF l, n, m
  <1> QED BY <1>1, Invariant, PTL

\* compactEdits loses nothing: the merged edits still do.
THEOREM MergedEditsTurnBaseIntoOurs == Spec => []CompactedScript
  <1>1. IInv => CompactedScript
    <2> SUFFICES ASSUME IInv, Compacted PROVE Applied(edits) = ours
      BY DEF CompactedScript
    <2>1. base \in Seq(Line) /\ ours \in Seq(Line) /\ edits = Diff(base, ours)
      BY DEF IInv, Sound, Differs
    <2>2. Chain(base, ours, edits, <<0, 0>>, <<Len(base), Len(ours)>>)
      BY <2>1, DiffChain
    <2> QED BY <2>1, <2>2, AppliedIs
  <1> QED BY <1>1, Invariant, PTL

\* The unified diff shows each deleted and each inserted line once, in order, however
\* buildHunks groups the edits and whatever context it adds.
THEOREM HunksShowAllEdits == Spec => []HunksShowEdits
  <1>1. IInv => HunksShowEdits
    <2> SUFFICES ASSUME IInv, HunksMade,
                        NEW op \in {"delete", "insert"}
                 PROVE  LinesOf(hunks, op) = TouchedBy(base, ours, edits, op)
      BY DEF HunksShowEdits
    <2>1. /\ base \in Seq(Line) /\ ours \in Seq(Line)
          /\ edits = Diff(base, ours) /\ hunks = Hunks(edits, base, ours, Context)
      BY DEF IInv, Sound, Differs
    <2>2. edits \in Seq(EditOf(base, ours))
      BY <2>1, DiffChain DEF Chain
    <2>3. \A o \in {"delete", "insert"} :
             LinesOf(Hunks(edits, base, ours, Context), o) = TouchedBy(base, ours, edits, o)
      BY <2>1, <2>2, ContextAssumption, HunksShow
    <2> QED BY <2>1, <2>3
  <1> QED BY <1>1, Invariant, PTL

\* ThreeWay gives our text back, without the line feed it may end with, if the
\* other side has not changed.
THEOREM OursComesBack == Spec => []OnlyOursChanged
  <1>1. IInv => OnlyOursChanged
    <2> SUFFICES ASSUME IInv, MergeDone, theirs = base
                 PROVE  /\ conflicts = {}
                        /\ merged = IF Len(oursText) > 1 /\ Last(oursText) = Empty
                                    THEN Front(oursText) ELSE oursText
      BY DEF OnlyOursChanged
    <2>1. base \in Seq(Line) /\ ours \in Seq(Line) /\ oursText \in Seq(Line) /\ oursText # <<>>
      BY DEF IInv, Sound
    <2>2. /\ oursEdits = Diff(base, ours) /\ theirsEdits = Diff(base, base)
          /\ conflicts = Meeting(oursEdits, theirsEdits)
          /\ conflicts = {} => merged = ApplyEdits(oursText, theirsEdits)
      BY DEF IInv, Merges, MergeDone
    <2>3. theirsEdits \in Nothing
      BY <2>1, <2>2, SelfDiff
    <2>4. \A o \in ToSet(oursEdits), t \in ToSet(theirsEdits) : ~Overlap(o, t)
      BY <2>1, <2>2, <2>3, NothingOverlaps
    <2>5. conflicts = {}
      BY <2>2, <2>4 DEF Meeting
    <2>6. ApplyEdits(oursText, theirsEdits)
             = IF Len(oursText) > 1 /\ Last(oursText) = Empty THEN Front(oursText) ELSE oursText
      BY <2>1, <2>3, NothingApplied
    <2> QED BY <2>2, <2>5, <2>6
  <1> QED BY <1>1, Invariant, PTL

\* A merged edit covers the old lines of what it was merged from.
LEMMA CoveredIs ==
    ASSUME NEW S, NEW a \in Seq(S), NEW b \in Seq(S), NEW e \in ToSet(Script(a, b))
    PROVE  \E c \in ToSet(Diff(a, b)) :
              /\ c.oldStart \in Nat /\ c.oldEnd \in Nat /\ e.oldStart \in Nat /\ e.oldEnd \in Nat
              /\ c.oldStart <= e.oldStart /\ e.oldEnd <= c.oldEnd
  <1> DEFINE es == Script(a, b)
             cs == Diff(a, b)
  <1>1. es \in Seq(EditOf(a, b)) /\ cs \in Seq(EditOf(a, b)) /\ Covered(es, cs)
    BY ScriptChain, DiffChain DEF Chain
  <1>2. \A c \in EditOf(a, b) : c.oldStart \in Nat /\ c.oldEnd \in Nat
    BY DEF EditOf
  <1> HIDE DEF es, cs
  <1>3. PICK i \in 1..Len(es) : e = es[i]
    BY <1>1 DEF ToSet, es
  <1>4. PICK j \in 1..Len(cs) : cs[j].oldStart <= es[i].oldStart /\ es[i].oldEnd <= cs[j].oldEnd
    BY <1>1 DEF Covered
  <1>5. cs[j] \in ToSet(cs) /\ cs[j] \in EditOf(a, b) /\ es[i] \in EditOf(a, b)
    BY <1>1 DEF ToSet
  <1> QED BY <1>2, <1>3, <1>4, <1>5 DEF cs

\* ThreeWay reports a conflict whenever both sides delete a line of the base, also
\* when the edits that do are hidden in merged ones.
THEOREM DeletionsConflict == Spec => []BothDeleteConflict
  <1>1. IInv => BothDeleteConflict
    <2> SUFFICES ASSUME IInv, MergeDone,
                        NEW o \in ToSet(Script(base, ours)), NEW t \in ToSet(Script(base, theirs)),
                        (o.oldStart..o.oldEnd - 1) \cap (t.oldStart..t.oldEnd - 1) # {}
                 PROVE  conflicts # {}
      BY DEF BothDeleteConflict
    <2>1. base \in Seq(Line) /\ ours \in Seq(Line) /\ theirs \in Seq(Line)
      BY DEF IInv, Sound
    <2>2. /\ oursEdits = Diff(base, ours) /\ theirsEdits = Diff(base, theirs)
          /\ conflicts = Meeting(oursEdits, theirsEdits)
      BY DEF IInv, Merges, MergeDone
    <2>3. PICK c \in ToSet(oursEdits) :
              /\ c.oldStart \in Nat /\ c.oldEnd \in Nat /\ o.oldStart \in Nat /\ o.oldEnd \in Nat
              /\ c.oldStart <= o.oldStart /\ o.oldEnd <= c.oldEnd
      BY <2>1, <2>2, CoveredIs
    <2>4. PICK d \in ToSet(theirsEdits) :
              /\ d.oldStart \in Nat /\ d.oldEnd \in Nat /\ t.oldStart \in Nat /\ t.oldEnd \in Nat
              /\ d.oldStart <= t.oldStart /\ t.oldEnd <= d.oldEnd
      BY <2>1, <2>2, CoveredIs
    <2>5. PICK l : l \in (o.oldStart..o.oldEnd - 1) /\ l \in (t.oldStart..t.oldEnd - 1)
      OBVIOUS
    <2>6. c.oldStart < d.oldEnd /\ d.oldStart < c.oldEnd
      BY <2>3, <2>4, <2>5
    <2>7. <<c, d>> \in {q \in ToSet(oursEdits) \X ToSet(theirsEdits) : Overlap(q[1], q[2])}
      BY <2>6 DEF Overlap
    <2> QED BY <2>2, <2>7 DEF Meeting
  <1> QED BY <1>1, Invariant, PTL
==============================================================================
