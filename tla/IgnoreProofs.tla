---------------------------- MODULE IgnoreProofs ----------------------------
(***************************************************************************)
(* What holds of Ignore for any rules and paths: its types, and that going *)
(* back to the last star only, as globMatch does, decides as trying every  *)
(* length for every star would, whenever IsIgnored returns.                *)
(***************************************************************************)
EXTENDS Ignore, SequenceTheorems, WellFoundedInduction, TLAPS

-----------------------------------------------------------------------------
(* Facts about the data *)

\* A set of natural numbers has a least one.
LEMMA LeastOf == ASSUME NEW s \in SUBSET Nat, s # {} PROVE \E m \in s : \A k \in s : m <= k
  <1>1. IsWellFoundedOn(OpToRel(<, Nat), Nat)
    BY NatLessThanWellFounded
  <1>2. PICK m \in s : \A k \in s : <<k, m>> \notin OpToRel(<, Nat)
    BY <1>1, WFMin, Zenon
  <1>3. \A k \in s : ~(k < m)
    BY <1>2, Zenon DEF OpToRel
  <1> QED BY <1>3

\* Max chooses the greatest of finitely many positions.
LEMMA MaxOf ==
    ASSUME NEW n \in Nat, NEW s \in SUBSET (0..n), s # {}
    PROVE  Max(s) \in s /\ \A k \in s : k <= Max(s)
  <1> DEFINE below == {n - k : k \in s}
  <1>1. below \subseteq Nat /\ below # {}
    <2>1. \A k \in s : n - k \in Nat
      OBVIOUS
    <2> QED BY <2>1
  <1>2. PICK m \in below : \A k \in below : m <= k
    BY <1>1, LeastOf
  <1>3. n - m \in s /\ \A k \in s : n - m >= k
    BY <1>2
  <1> QED BY <1>3 DEF Max

\* The greatest is unique.
LEMMA MaxIs ==
    ASSUME NEW s \in SUBSET Int, NEW m \in s, \A k \in s : k <= m
    PROVE  Max(s) = m
  <1>1. \E x \in s : \A y \in s : x >= y
    OBVIOUS
  <1>2. Max(s) \in s /\ \A y \in s : Max(s) >= y
    BY <1>1 DEF Max
  <1>3. Max(s) \in Int /\ m \in Int /\ Max(s) <= m /\ Max(s) >= m
    BY <1>2
  <1> QED BY <1>3

Text == Seq(STRING)
RuleInfo == [raw : Text, negate : BOOLEAN, dirOnly : BOOLEAN]

\* What Load makes of a line, and what matchPattern hands to globMatch, are texts.
LEMMA RuleType == ASSUME NEW l \in Text, l # <<>> PROVE Rule(l) \in RuleInfo
  <1>1. ASSUME NEW first \in BOOLEAN, NEW last \in BOOLEAN PROVE Without(l, first, last) \in Text
    <2>1. 1 + (IF first THEN 1 ELSE 0) \in 1..2 /\ Len(l) - (IF last THEN 1 ELSE 0) \in 0..Len(l)
      BY DEF Text
    <2> QED BY <2>1, SubSeqProperties, SMT DEF Without, Text
  <1> QED BY <1>1 DEF Rule, RuleInfo

LEMMA PatternType == ASSUME NEW r \in Text PROVE PatternOf(r) \in Text
  BY HeadTailProperties DEF PatternOf, Text

LEMMA NameType == ASSUME NEW r \in Text, NEW p \in Text PROVE NameFor(r, p) \in Text
  <1>1. Max(Slashes(p) \cup {0}) \in 0..Len(p)
    <2>1. Len(p) \in Nat /\ Slashes(p) \cup {0} \in SUBSET (0..Len(p))
      BY DEF Slashes, Text
    <2> QED BY <2>1, MaxOf
  <1>2. Base(p) \in Text
    <2> DEFINE first == Max(Slashes(p) \cup {0}) + 1
    <2>1. first \in 1..Len(p) + 1 /\ Len(p) \in Nat
      BY <1>1 DEF Text
    <2> HIDE DEF first
    <2>2. \A i \in first..Len(p) : p[i] \in STRING
      BY <2>1 DEF Text
    <2>3. SubSeq(p, first, Len(p)) \in Seq(STRING)
      BY <2>1, <2>2, SubSeqProperties
    <2> QED BY <2>3 DEF Base, Text, first
  <1> QED BY <1>2 DEF NameFor

-----------------------------------------------------------------------------
(* The reference is well defined *)

\* What Matching says of one position of the pattern, given the later ones.
Rest(p, n, stop, from, i) ==
    IF i = Len(p) + 1 THEN {Len(n) + 1}
    ELSE IF p[i] = "*"
    THEN {j \in 1..Len(n) + 1 : \E k \in from[i + Width(p, i)] : Covers(p, i, n, j, k, stop)}
    ELSE {j \in 1..Len(n) : p[i] \in {"?", n[j]} /\ j + 1 \in from[i + 1]}

\* A star, double or single, is followed by the rest of the pattern.
LEMMA WidthIn ==
    ASSUME NEW p \in Text, NEW i \in 1..Len(p)
    PROVE  Width(p, i) \in 1..3 /\ i + Width(p, i) \in i + 1..Len(p) + 1
  BY DEF Width, Text

\* Only later positions count.
LEMMA RestAgrees ==
    ASSUME NEW p \in Text, NEW n \in Text, NEW stop, NEW f, NEW g, NEW i \in 1..Len(p) + 1,
           \A k \in i + 1..Len(p) + 1 : f[k] = g[k]
    PROVE  Rest(p, n, stop, f, i) = Rest(p, n, stop, g, i)
  <1>1. CASE i = Len(p) + 1
    BY <1>1 DEF Rest
  <1>2. CASE i # Len(p) + 1
    <2>1. i \in 1..Len(p) /\ i + 1 \in i + 1..Len(p) + 1
      BY <1>2 DEF Text
    <2>2. i + Width(p, i) \in i + 1..Len(p) + 1
      BY <2>1, WidthIn
    <2>3. f[i + Width(p, i)] = g[i + Width(p, i)] /\ f[i + 1] = g[i + 1]
      BY <2>1, <2>2
    <2> QED BY <2>3 DEF Rest
  <1> QED BY <1>1, <1>2

\* The table exists, from the end of the pattern to its start.
LEMMA TableExists ==
    ASSUME NEW p \in Text, NEW n \in Text, NEW stop
    PROVE  \E f : f = [i \in 1..Len(p) + 1 |-> Rest(p, n, stop, f, i)]
  <1> DEFINE Top == Len(p) + 1
             Upto(m) == \E f : \A i \in 1..Top : Top - i <= m => f[i] = Rest(p, n, stop, f, i)
             bad == {m \in Nat : ~Upto(m)}
  <1>1. Top \in Nat
    BY DEF Text
  <1> HIDE DEF Top
  <1>2. Upto(0)
    <2> DEFINE f == [i \in 1..Top |-> {Len(n) + 1}]
    <2>1. ASSUME NEW i \in 1..Top, Top - i <= 0 PROVE f[i] = Rest(p, n, stop, f, i)
      <3>1. i = Len(p) + 1
        BY <1>1, <2>1 DEF Top
      <3> QED BY <3>1 DEF Rest
    <2> QED BY <2>1
  <1>3. ASSUME NEW m \in Nat, Upto(m) PROVE Upto(m + 1)
    <2>1. PICK f : \A i \in 1..Top : Top - i <= m => f[i] = Rest(p, n, stop, f, i)
      BY <1>3
    <2> DEFINE g == [i \in 1..Top |-> IF Top - i <= m THEN f[i] ELSE Rest(p, n, stop, f, i)]
    <2>2. ASSUME NEW i \in 1..Top, Top - i <= m + 1 PROVE g[i] = Rest(p, n, stop, g, i)
      <3>1. g[i] = Rest(p, n, stop, f, i)
        BY <2>1
      <3>2. \A k \in i + 1..Top : f[k] = g[k]
        BY <1>1, <2>2
      <3> HIDE DEF g
      <3>3. Rest(p, n, stop, f, i) = Rest(p, n, stop, g, i)
        BY <3>2, RestAgrees DEF Top
      <3> QED BY <3>1, <3>3
    <2> QED BY <2>2
  <1>4. bad = {}
    <2> SUFFICES ASSUME bad # {} PROVE FALSE
      OBVIOUS
    <2> HIDE DEF Upto
    <2>1. PICK m \in bad : \A k \in bad : m <= k
      BY LeastOf
    <2>2. m # 0 /\ m \in Nat
      BY <1>2
    <2>3. m - 1 \in Nat /\ m - 1 \notin bad
      BY <2>1, <2>2
    <2>4. Upto(m - 1 + 1)
      BY <1>3, <2>3
    <2>5. m - 1 + 1 = m
      BY <2>2
    <2> QED BY <2>1, <2>4, <2>5
  <1>5. PICK f : \A i \in 1..Top : Top - i <= Top => f[i] = Rest(p, n, stop, f, i)
    BY <1>1, <1>4
  <1> DEFINE g == [i \in 1..Top |-> f[i]]
  <1>6. ASSUME NEW i \in 1..Top PROVE g[i] = Rest(p, n, stop, g, i)
    <2>1. g[i] = Rest(p, n, stop, f, i)
      BY <1>1, <1>5
    <2>2. \A k \in i + 1..Top : f[k] = g[k]
      BY <1>1
    <2> QED BY <2>1, <2>2, RestAgrees DEF Top
  <1>7. g = [i \in 1..Top |-> Rest(p, n, stop, g, i)]
    BY <1>6
  <1> QED BY <1>7 DEF Top

\* So Matching is what its definition says.
LEMMA MatchingIs ==
    ASSUME NEW p \in Text, NEW n \in Text, NEW stop, NEW i \in 1..Len(p) + 1
    PROVE  Matching(p, n, stop)[i] = Rest(p, n, stop, Matching(p, n, stop), i)
  <1> DEFINE f == Matching(p, n, stop)
  <1>1. f = CHOOSE g : g = [k \in 1..Len(p) + 1 |-> Rest(p, n, stop, g, k)]
    BY DEF Matching, Rest
  <1>2. f = [k \in 1..Len(p) + 1 |-> Rest(p, n, stop, f, k)]
    BY <1>1, TableExists
  <1> HIDE DEF f
  <1>3. f[i] = Rest(p, n, stop, f, i)
    BY <1>2
  <1> QED BY <1>3 DEF f

\* The table at a star that may stand for anything, at another character, and at
\* the end.
LEMMA AtStar ==
    ASSUME NEW p \in Text, NEW n \in Text, NEW i \in 1..Len(p), p[i] = "*", NEW j
    PROVE  j \in Matching(p, n, {})[i] <=>
              j \in 1..Len(n) + 1 /\ \E k \in Matching(p, n, {})[i + Width(p, i)] : j <= k
  <1> DEFINE f == Matching(p, n, {})
  <1>1. i \in 1..Len(p) + 1 /\ i # Len(p) + 1
    BY DEF Text
  <1>2. f[i] = Rest(p, n, {}, f, i)
    BY <1>1, MatchingIs
  <1> HIDE DEF f
  <1>3. f[i] = {x \in 1..Len(n) + 1 : \E k \in f[i + Width(p, i)] : Covers(p, i, n, x, k, {})}
    BY <1>1, <1>2 DEF Rest
  <1>4. \A x, k : Covers(p, i, n, x, k, {}) <=> x <= k
    BY DEF Covers
  <1> QED BY <1>3, <1>4 DEF f

LEMMA AtPlain ==
    ASSUME NEW p \in Text, NEW n \in Text, NEW i \in 1..Len(p), p[i] # "*", NEW j
    PROVE  j \in Matching(p, n, {})[i] <=>
              /\ j \in 1..Len(n) /\ p[i] \in {"?", n[j]}
              /\ j + 1 \in Matching(p, n, {})[i + 1]
  <1> DEFINE f == Matching(p, n, {})
  <1>1. i \in 1..Len(p) + 1 /\ i # Len(p) + 1
    BY DEF Text
  <1>2. f[i] = Rest(p, n, {}, f, i)
    BY <1>1, MatchingIs
  <1> HIDE DEF f
  <1>3. f[i] = {x \in 1..Len(n) : p[i] \in {"?", n[x]} /\ x + 1 \in f[i + 1]}
    BY <1>1, <1>2 DEF Rest
  <1> QED BY <1>3 DEF f

LEMMA AtEnd ==
    ASSUME NEW p \in Text, NEW n \in Text
    PROVE  Matching(p, n, {})[Len(p) + 1] = {Len(n) + 1}
  <1>1. Len(p) + 1 \in 1..Len(p) + 1
    BY DEF Text
  <1> QED BY <1>1, MatchingIs DEF Rest

\* The table holds positions of the name.
LEMMA InName ==
    ASSUME NEW p \in Text, NEW n \in Text, NEW i \in 1..Len(p) + 1
    PROVE  Matching(p, n, {})[i] \subseteq 1..Len(n) + 1
  <1>1. CASE i = Len(p) + 1
    BY <1>1, AtEnd DEF Text
  <1>2. CASE i # Len(p) + 1
    <2>1. i \in 1..Len(p)
      BY <1>2 DEF Text
    <2>2. Len(n) \in Nat
      BY DEF Text
    <2> QED BY <2>1, <2>2, AtStar, AtPlain
  <1> QED BY <1>1, <1>2

-----------------------------------------------------------------------------
(* The invariant *)

\* The variables keep their types.
TypeOK ==
    /\ lines \in Files /\ path \in Paths \cup {<<>>} /\ isDir \in BOOLEAN
    /\ rules \in Seq(RuleInfo)
    /\ at \in Nat \ {0} /\ ignored \in BOOLEAN /\ step \in {"load", "rule", "match", "done"}
    /\ pattern \in Text /\ name \in Text
    /\ px \in 0..Len(pattern) /\ nx \in 0..Len(name)
    /\ nextPx \in 0..Len(pattern) /\ nextNx \in 0..Len(name) + 1

\* Whether the name matches from its start, and from a position on.
Whole == 1 \in Matching(pattern, name, {})[1]
From(i, j) == j + 1 \in Matching(pattern, name, {})[i + 1]

\* The name matches if it does from where the loop is, or from one of the
\* positions to retry; and whatever a retry can still find, the rest of the pattern
\* finds from where the loop is or later, so that a new star may forget the old one.
Searching ==
    step = "match" =>
        /\ at \in 1..Len(rules) /\ ~Skipped(rules[at])
        /\ pattern = PatternOf(rules[at].raw) /\ name = NameFor(rules[at].raw, path)
        /\ Whole <=> \/ From(px, nx)
                     \/ 0 < nextNx /\ \E j \in nextNx..Len(name) : From(nextPx, j)
        /\ 0 < nextNx => \A j \in nextNx..Len(name) :
                            From(nextPx, j) => \E k \in nx..Len(name) : From(px, k)

\* The rules up to b that match, and what the last of them decides.
Applied(b) ==
    {i \in 1..b : /\ ~Skipped(rules[i])
                  /\ GlobMatches(PatternOf(rules[i].raw), NameFor(rules[i].raw, path), {})}
Decided(b) == Applied(b) # {} /\ ~rules[Max(Applied(b))].negate

\* What IsIgnored has decided so far is what the rules before this one say.
SoFar ==
    /\ step = "load" => ~ignored
    /\ step \in {"rule", "match"} => at \in 1..Len(rules) + 1 /\ (ignored <=> Decided(at - 1))
    /\ step = "done" => (ignored <=> Decided(Len(rules)))

IInv == TypeOK /\ Searching /\ SoFar

-----------------------------------------------------------------------------
(* Type correctness *)

\* Load, IsIgnored and the loop keep the types.
LEMMA TypeKeeps == TypeOK /\ [Next]_vars => TypeOK'
  <1> SUFFICES ASSUME TypeOK, [Next]_vars PROVE TypeOK'
    OBVIOUS
  <1>1. CASE UNCHANGED vars
    BY <1>1 DEF vars, TypeOK
  <1>2. CASE LoadLine
    <2>1. lines \in Seq(Seq(STRING)) /\ at \in 1..Len(lines)
      BY <1>2, FilesAssumption DEF LoadLine, TypeOK
    <2>2. lines[at] \in Text
      BY <2>1 DEF Text
    <2>3. rules' \in Seq(RuleInfo)
      BY <1>2, <2>2, RuleType DEF LoadLine, TypeOK, IsRule
    <2> QED BY <1>2, <2>3 DEF LoadLine, TypeOK, glob
  <1>3. CASE Ask
    BY <1>3 DEF Ask, TypeOK, glob
  <1>4. CASE NextRule
    <2>1. path \in Text
      <3>1. Paths \subseteq Text /\ <<>> \in Text
        BY PathsAssumption DEF Text
      <3> QED BY <3>1 DEF TypeOK
    <2>2. rules[at] \in RuleInfo
      BY <1>4 DEF NextRule, TypeOK
    <2>3. PatternOf(rules[at].raw) \in Text /\ NameFor(rules[at].raw, path) \in Text
      BY <2>1, <2>2, PatternType, NameType DEF RuleInfo
    <2>4. CASE Skipped(rules[at])
      BY <1>4, <2>4 DEF NextRule, TypeOK, args, glob
    <2>5. CASE ~Skipped(rules[at])
      BY <1>4, <2>3, <2>5 DEF NextRule, TypeOK, args, Text
    <2> QED BY <2>4, <2>5
  <1>5. CASE Return
    BY <1>5 DEF Return, TypeOK, args, glob
  <1>6. CASE Take
    BY <1>6 DEF Take, Fits, TypeOK, args
  <1>7. CASE DoubleStar
    BY <1>7 DEF DoubleStar, Star, Double, Symbol, TypeOK, args
  <1>8. CASE SingleStar
    BY <1>8 DEF SingleStar, Star, Double, Symbol, TypeOK, args
  <1>9. CASE Retry
    BY <1>9 DEF Retry, Stuck, CanRetry, TypeOK, args
  <1>10. CASE Fail
    BY <1>10 DEF Fail, TypeOK, args, glob
  <1>11. CASE Match
    <2>1. ignored' \in BOOLEAN
      BY <1>11 DEF Match
    <2> QED BY <1>11, <2>1 DEF Match, TypeOK, args, glob
  <1> QED BY <1>1, <1>2, <1>3, <1>4, <1>5, <1>6, <1>7, <1>8, <1>9, <1>10, <1>11 DEF Next

-----------------------------------------------------------------------------
(* The loop *)

\* What From says at the characters of the pattern.
LEMMA FromStar ==
    ASSUME TypeOK, NEW i \in 0..Len(pattern) - 1, pattern[i + 1] = "*", NEW j \in 0..Len(name)
    PROVE  From(i, j) <=> \E k \in j..Len(name) : From(i + Width(pattern, i + 1), k)
  <1> DEFINE f == Matching(pattern, name, {})
             w == Width(pattern, i + 1)
  <1>1. /\ pattern \in Text /\ name \in Text /\ Len(pattern) \in Nat /\ Len(name) \in Nat
        /\ i + 1 \in 1..Len(pattern)
    BY DEF TypeOK, Text
  <1>2. w \in 1..3 /\ i + 1 + w \in 1..Len(pattern) + 1
    BY <1>1, WidthIn
  <1>3. j + 1 \in f[i + 1] <=> j + 1 \in 1..Len(name) + 1 /\ \E k \in f[i + 1 + w] : j + 1 <= k
    BY <1>1, AtStar
  <1>4. f[i + 1 + w] \subseteq 1..Len(name) + 1
    BY <1>1, <1>2, InName
  <1>5. i + w + 1 = i + 1 + w
    BY <1>1, <1>2
  <1> HIDE DEF f, w
  <1>6. j + 1 \in f[i + 1] <=> \E k \in f[i + w + 1] : j + 1 <= k
    BY <1>1, <1>3, <1>5
  <1>7. ASSUME NEW k \in f[i + w + 1], j + 1 <= k PROVE \E x \in j..Len(name) : x + 1 \in f[i + w + 1]
    <2>1. k - 1 \in j..Len(name) /\ k - 1 + 1 = k
      BY <1>1, <1>4, <1>5, <1>7
    <2> QED BY <1>7, <2>1
  <1>8. ASSUME NEW x \in j..Len(name), x + 1 \in f[i + w + 1]
        PROVE  \E k \in f[i + w + 1] : j + 1 <= k
    BY <1>1, <1>8
  <1>9. j + 1 \in f[i + 1] <=> \E x \in j..Len(name) : x + 1 \in f[i + w + 1]
    BY <1>6, <1>7, <1>8
  <1> QED BY <1>9 DEF From, f, w

LEMMA FromPlain ==
    ASSUME TypeOK, NEW i \in 0..Len(pattern) - 1, pattern[i + 1] # "*", NEW j \in Nat
    PROVE  From(i, j) <=> /\ j < Len(name) /\ pattern[i + 1] \in {"?", name[j + 1]}
                          /\ From(i + 1, j + 1)
  <1>1. /\ pattern \in Text /\ name \in Text /\ Len(pattern) \in Nat /\ Len(name) \in Nat
        /\ i + 1 \in 1..Len(pattern)
    BY DEF TypeOK, Text
  <1>2. j + 1 \in 1..Len(name) <=> j < Len(name)
    BY <1>1
  <1> QED BY <1>1, <1>2, AtPlain DEF From

LEMMA FromEnd ==
    ASSUME TypeOK, NEW j \in Nat
    PROVE  From(Len(pattern), j) <=> j = Len(name)
  <1>1. pattern \in Text /\ name \in Text /\ Len(name) \in Nat
    BY DEF TypeOK, Text
  <1> QED BY <1>1, AtEnd DEF From

\* Where the loop is stuck the rest of the pattern does not match.
LEMMA StuckFails == ASSUME TypeOK, Stuck PROVE ~From(px, nx)
  <1>1. Len(pattern) \in Nat /\ Len(name) \in Nat /\ px \in 0..Len(pattern) /\ nx \in 0..Len(name)
    BY DEF TypeOK, Text
  <1>2. CASE px = Len(pattern)
    <2>1. nx # Len(name)
      BY <1>1, <1>2 DEF Stuck
    <2> QED BY <1>1, <1>2, <2>1, FromEnd
  <1>3. CASE px < Len(pattern)
    <2>1. pattern[px + 1] # "*" /\ ~Fits
      BY <1>3 DEF Stuck, Star, Symbol
    <2>2. ~(nx < Len(name) /\ pattern[px + 1] \in {"?", name[nx + 1]})
      BY <1>3, <2>1 DEF Fits, Symbol
    <2> QED BY <1>1, <1>3, <2>1, <2>2, FromPlain
  <1> QED BY <1>1, <1>2, <1>3

\* One iteration of the loop.
LEMMA SearchKeeps == TypeOK /\ Searching /\ [Next]_vars => Searching'
  <1> SUFFICES ASSUME TypeOK, Searching, [Next]_vars, step' = "match" PROVE Searching'
    BY DEF Searching
  <1>1. CASE UNCHANGED vars
    BY <1>1 DEF vars, Searching, Whole, From, Skipped
  <1>2. CASE LoadLine \/ Ask \/ Return \/ Fail \/ Match
    <2>1. step' # "match"
      BY <1>2 DEF LoadLine, Ask, Return, Fail, Match
    <2> QED BY <2>1
  <1>3. CASE NextRule
    <2>1. /\ step = "rule" /\ at <= Len(rules) /\ ~Skipped(rules[at])
          /\ pattern' = PatternOf(rules[at].raw) /\ name' = NameFor(rules[at].raw, path)
          /\ px' = 0 /\ nx' = 0 /\ nextNx' = 0
          /\ UNCHANGED <<at, rules, path, isDir>>
      BY <1>3 DEF NextRule, args
    <2>2. at \in 1..Len(rules)
      BY <2>1 DEF TypeOK
    <2>3. Whole' <=> From(px, nx)'
      BY <2>1 DEF Whole, From
    <2> QED BY <2>1, <2>2, <2>3 DEF Searching, Skipped
  <1>4. CASE Take \/ DoubleStar \/ SingleStar \/ Retry
    <2>1. step = "match" /\ UNCHANGED <<at, rules, path, isDir, pattern, name>>
      BY <1>4 DEF Take, DoubleStar, SingleStar, Retry, Star, Stuck, args
    <2>2. /\ at \in 1..Len(rules) /\ ~Skipped(rules[at])
          /\ pattern = PatternOf(rules[at].raw) /\ name = NameFor(rules[at].raw, path)
          /\ Whole <=> \/ From(px, nx)
                       \/ 0 < nextNx /\ \E j \in nextNx..Len(name) : From(nextPx, j)
          /\ 0 < nextNx => \A j \in nextNx..Len(name) :
                              From(nextPx, j) => \E k \in nx..Len(name) : From(px, k)
      BY <2>1 DEF Searching
    <2>3. ASSUME Whole <=> \/ From(px', nx')
                           \/ 0 < nextNx' /\ \E j \in nextNx'..Len(name) : From(nextPx', j),
                 0 < nextNx' => \A j \in nextNx'..Len(name) :
                              From(nextPx', j) => \E k \in nx'..Len(name) : From(px', k)
          PROVE  Searching'
      BY <2>1, <2>2, <2>3 DEF Searching, Whole, From, Skipped
    <2>4. /\ Len(pattern) \in Nat /\ Len(name) \in Nat
          /\ px \in 0..Len(pattern) /\ nx \in 0..Len(name)
          /\ nextPx \in 0..Len(pattern) /\ nextNx \in 0..Len(name) + 1
      BY DEF TypeOK, Text
    <2>5. CASE Take
      <3>1. /\ px < Len(pattern) /\ nx < Len(name) /\ pattern[px + 1] # "*"
            /\ pattern[px + 1] \in {"?", name[nx + 1]}
            /\ px' = px + 1 /\ nx' = nx + 1 /\ nextPx' = nextPx /\ nextNx' = nextNx
        BY <2>5 DEF Take, Fits, Symbol
      <3>2. \A k \in Nat : From(px, k) <=> /\ k < Len(name) /\ pattern[px + 1] \in {"?", name[k + 1]}
                                           /\ From(px + 1, k + 1)
        BY <2>4, <3>1, FromPlain
      <3>3. From(px, nx) <=> From(px', nx')
        BY <2>4, <3>1, <3>2
      <3>4. ASSUME NEW k \in nx..Len(name), From(px, k)
            PROVE  \E x \in nx'..Len(name) : From(px', x)
        <4>1. k < Len(name) /\ From(px + 1, k + 1)
          BY <2>4, <3>2, <3>4
        <4>2. k + 1 \in nx'..Len(name)
          BY <2>4, <3>1, <3>4, <4>1
        <4> QED BY <3>1, <4>1, <4>2
      <3> QED BY <2>2, <2>3, <3>1, <3>3, <3>4
    <2>6. CASE DoubleStar
      <3>1. /\ px < Len(pattern) /\ pattern[px + 1] = "*" /\ nx' = nx
            /\ px + 1 < Len(pattern) /\ pattern[px + 2] = "*"
            /\ px' = IF px + 2 < Len(pattern) /\ pattern[px + 3] = "/" THEN px + 3 ELSE px + 2
            /\ nextPx' = px' /\ nextNx' = nx + 1
        BY <2>6 DEF DoubleStar, Star, Double, Symbol
      <3>2. px' = px + Width(pattern, px + 1)
        BY <2>4, <3>1 DEF Width
      <3>3. \A j \in 0..Len(name) : From(px, j) <=> \E k \in j..Len(name) : From(px', k)
        BY <2>4, <3>1, <3>2, FromStar
      <3>4. Whole <=> From(px, nx)
        <4>1. ASSUME 0 < nextNx, NEW j \in nextNx..Len(name), From(nextPx, j) PROVE From(px, nx)
          <5>1. PICK k \in nx..Len(name) : From(px, k)
            BY <2>2, <4>1
          <5>2. PICK x \in k..Len(name) : From(px', x)
            BY <2>4, <3>3, <5>1
          <5>3. x \in nx..Len(name)
            BY <2>4, <5>1, <5>2
          <5> QED BY <2>4, <3>3, <5>2, <5>3
        <4> QED BY <2>2, <4>1
      <3>5. From(px, nx) <=> From(px', nx') \/ \E j \in nextNx'..Len(name) : From(px', j)
        <4>1. nx..Len(name) = {nx} \cup (nx + 1)..Len(name)
          BY <2>4
        <4> QED BY <2>4, <3>1, <3>3, <4>1
      <3>6. \A j \in nextNx'..Len(name) : j \in nx'..Len(name)
        BY <2>4, <3>1
      <3>7. 0 < nextNx'
        BY <2>4, <3>1
      <3> QED BY <2>3, <3>1, <3>4, <3>5, <3>6, <3>7
    <2>7. CASE SingleStar
      <3>1. /\ px < Len(pattern) /\ pattern[px + 1] = "*" /\ nx' = nx
            /\ px + 1 >= Len(pattern) \/ pattern[px + 2] # "*"
            /\ px' = px + 1 /\ nextPx' = px /\ nextNx' = nx + 1
        BY <2>4, <2>7 DEF SingleStar, Star, Double, Symbol
      <3>2. px' = px + Width(pattern, px + 1)
        BY <2>4, <3>1 DEF Width
      <3>3. \A j \in 0..Len(name) : From(px, j) <=> \E k \in j..Len(name) : From(px', k)
        BY <2>4, <3>1, <3>2, FromStar
      <3>4. Whole <=> From(px, nx)
        <4>1. ASSUME 0 < nextNx, NEW j \in nextNx..Len(name), From(nextPx, j) PROVE From(px, nx)
          <5>1. PICK k \in nx..Len(name) : From(px, k)
            BY <2>2, <4>1
          <5>2. PICK x \in k..Len(name) : From(px', x)
            BY <2>4, <3>3, <5>1
          <5>3. x \in nx..Len(name)
            BY <2>4, <5>1, <5>2
          <5> QED BY <2>4, <3>3, <5>2, <5>3
        <4> QED BY <2>2, <4>1
      <3>5. From(px, nx) <=> From(px', nx') \/ \E j \in nextNx'..Len(name) : From(px, j)
        <4>1. nx..Len(name) = {nx} \cup (nx + 1)..Len(name)
          BY <2>4
        <4>2. ASSUME NEW j \in (nx + 1)..Len(name), From(px', j) PROVE From(px, j)
          <5>1. j \in 0..Len(name) /\ j \in j..Len(name)
            BY <2>4
          <5> QED BY <3>3, <4>2, <5>1
        <4>3. ASSUME NEW j \in (nx + 1)..Len(name), From(px, j) PROVE From(px, nx)
          <5>1. PICK k \in j..Len(name) : From(px', k)
            BY <2>4, <3>3, <4>3
          <5>2. k \in nx..Len(name)
            BY <2>4, <5>1
          <5> QED BY <2>4, <3>3, <5>1, <5>2
        <4> QED BY <2>4, <3>1, <3>3, <4>1, <4>2, <4>3
      <3>6. ASSUME NEW j \in nextNx'..Len(name), From(nextPx', j)
            PROVE  \E k \in nx'..Len(name) : From(px', k)
        <4>1. PICK k \in j..Len(name) : From(px', k)
          BY <2>4, <3>1, <3>3, <3>6
        <4>2. k \in nx'..Len(name)
          BY <2>4, <3>1, <4>1
        <4> QED BY <4>1, <4>2
      <3>7. 0 < nextNx'
        BY <2>4, <3>1
      <3> QED BY <2>3, <3>1, <3>4, <3>5, <3>6, <3>7
    <2>8. CASE Retry
      <3>1. /\ 0 < nextNx /\ nextNx <= Len(name) /\ px' = nextPx /\ nx' = nextNx
            /\ nextPx' = nextPx /\ nextNx' = nextNx
        BY <2>8 DEF Retry, CanRetry
      <3>2. ~From(px, nx)
        BY <2>8, StuckFails DEF Retry
      <3>3. nextNx \in nextNx..Len(name)
        BY <2>4, <3>1
      <3> QED BY <2>2, <2>3, <3>1, <3>2, <3>3
    <2> QED BY <1>4, <2>5, <2>6, <2>7, <2>8
  <1> QED BY <1>1, <1>2, <1>3, <1>4 DEF Next

-----------------------------------------------------------------------------
(* The rules *)

\* One rule more.
LEMMA Decides ==
    ASSUME TypeOK, at \in 1..Len(rules), NEW hit \in BOOLEAN,
           hit <=> /\ ~Skipped(rules[at])
                   /\ GlobMatches(PatternOf(rules[at].raw), NameFor(rules[at].raw, path), {})
    PROVE  /\ hit => (Decided(at) <=> ~rules[at].negate)
           /\ ~hit => (Decided(at) <=> Decided(at - 1))
  <1>1. at - 1 \in Nat /\ 1..at = (1..at - 1) \cup {at}
    OBVIOUS
  <1>2. CASE hit
    <2>1. Applied(at) \in SUBSET Int /\ at \in Applied(at) /\ \A k \in Applied(at) : k <= at
      BY <1>1, <1>2 DEF Applied
    <2>2. Max(Applied(at)) = at
      BY <2>1, MaxIs
    <2> QED BY <1>2, <2>1, <2>2 DEF Decided
  <1>3. CASE ~hit
    <2>1. Applied(at) = Applied(at - 1)
      BY <1>1, <1>3 DEF Applied
    <2> QED BY <1>3, <2>1 DEF Decided
  <1> QED BY <1>2, <1>3

\* The end of a loop is the decision of its rule.
LEMMA SoFarKeeps == IInv /\ [Next]_vars => SoFar'
  <1> SUFFICES ASSUME IInv, [Next]_vars PROVE SoFar'
    OBVIOUS
  <1>1. TypeOK /\ Searching /\ SoFar
    BY DEF IInv
  <1>2. CASE UNCHANGED vars
    BY <1>1, <1>2 DEF vars, SoFar, Decided, Applied, Skipped
  <1>3. CASE LoadLine
    <2>1. step' = "load" /\ ignored' = ignored /\ step = "load"
      BY <1>3 DEF LoadLine
    <2> QED BY <1>1, <2>1 DEF SoFar
  <1>4. CASE Ask
    <2>1. step' = "rule" /\ at' = 1 /\ rules' = rules /\ ~ignored'
      BY <1>1, <1>4 DEF Ask, SoFar
    <2>2. Applied(at - 1)' = {}
      BY <2>1 DEF Applied
    <2>3. at' \in 1..Len(rules') + 1
      BY <1>1, <2>1 DEF TypeOK
    <2> QED BY <2>1, <2>2, <2>3 DEF SoFar, Decided
  <1>6. ASSUME at \in 1..Len(rules), at' = at + 1, UNCHANGED <<rules, path, isDir>>,
               step \in {"rule", "match"}, step' = "rule", NEW hit \in BOOLEAN,
               hit <=> /\ ~Skipped(rules[at])
                       /\ GlobMatches(PatternOf(rules[at].raw), NameFor(rules[at].raw, path), {}),
               hit => (ignored' <=> ~rules[at].negate), ~hit => (ignored' <=> ignored)
        PROVE  SoFar'
    <2>1. ignored <=> Decided(at - 1)
      BY <1>1, <1>6 DEF SoFar
    <2>2. /\ hit => (Decided(at) <=> ~rules[at].negate)
          /\ ~hit => (Decided(at) <=> Decided(at - 1))
      BY <1>1, <1>6, Decides
    <2>3. ignored' <=> Decided(at)
      BY <1>6, <2>1, <2>2
    <2>4. at' - 1 = at /\ at' \in 1..Len(rules') + 1
      BY <1>6
    <2>5. Applied(at - 1)' = Applied(at)
      BY <1>6, <2>4 DEF Applied, Skipped
    <2>6. ignored' <=> Decided(at - 1)'
      BY <1>6, <2>3, <2>5 DEF Decided
    <2> QED BY <1>6, <2>4, <2>6 DEF SoFar
  <1>7. CASE NextRule
    <2>1. /\ step = "rule" /\ at \in 1..Len(rules) /\ UNCHANGED <<rules, path, isDir, ignored>>
      BY <1>1, <1>7 DEF NextRule, TypeOK, args
    <2>2. CASE Skipped(rules[at])
      <3>1. at' = at + 1 /\ step' = "rule"
        BY <1>7, <2>1, <2>2 DEF NextRule
      <3> QED BY <1>6, <2>1, <2>2, <3>1
    <2>3. CASE ~Skipped(rules[at])
      <3>1. at' = at /\ step' = "match"
        BY <1>7, <2>3 DEF NextRule
      <3>2. Decided(at - 1)' <=> Decided(at - 1)
        BY <2>1, <3>1 DEF Decided, Applied, Skipped
      <3> QED BY <1>1, <2>1, <3>1, <3>2 DEF SoFar
    <2> QED BY <2>2, <2>3
  <1>8. CASE Return
    <2>1. /\ step = "rule" /\ at > Len(rules) /\ step' = "done"
          /\ UNCHANGED <<rules, path, isDir, ignored, at>>
      BY <1>8 DEF Return, args
    <2>2. at - 1 = Len(rules)
      BY <1>1, <2>1 DEF SoFar, TypeOK
    <2>3. ignored' <=> Decided(Len(rules))
      BY <1>1, <2>1, <2>2 DEF SoFar
    <2>4. Decided(Len(rules))' <=> Decided(Len(rules))
      BY <2>1 DEF Decided, Applied, Skipped
    <2> QED BY <2>1, <2>3, <2>4 DEF SoFar
  <1>9. CASE Take \/ DoubleStar \/ SingleStar \/ Retry
    <2>1. step = "match" /\ step' = "match" /\ UNCHANGED <<at, rules, path, isDir, ignored>>
      BY <1>9 DEF Take, DoubleStar, SingleStar, Retry, Star, Stuck, args
    <2>2. Decided(at - 1)' <=> Decided(at - 1)
      BY <2>1 DEF Decided, Applied, Skipped
    <2> QED BY <1>1, <2>1, <2>2 DEF SoFar
  <1>10. ASSUME step = "match"
         PROVE  /\ at \in 1..Len(rules) /\ ~Skipped(rules[at])
                /\ Whole <=> GlobMatches(PatternOf(rules[at].raw), NameFor(rules[at].raw, path), {})
                /\ Whole <=> \/ From(px, nx)
                             \/ 0 < nextNx /\ \E j \in nextNx..Len(name) : From(nextPx, j)
    BY <1>1, <1>10 DEF Searching, Whole, GlobMatches
  <1>11. CASE Fail
    <2>1. /\ step = "match" /\ at' = at + 1 /\ step' = "rule"
          /\ UNCHANGED <<rules, path, isDir, ignored>>
      BY <1>11 DEF Fail, Stuck, args
    <2>2. ~From(px, nx)
      BY <1>1, <1>11, StuckFails DEF Fail
    <2>3. ~(0 < nextNx /\ \E j \in nextNx..Len(name) : From(nextPx, j))
      <3>1. ~(0 < nextNx /\ nextNx <= Len(name))
        BY <1>11 DEF Fail, CanRetry
      <3>2. nextNx \in Nat /\ Len(name) \in Nat
        BY <1>1 DEF TypeOK, Text
      <3> QED BY <3>1, <3>2
    <2>4. ~Whole
      BY <1>10, <2>1, <2>2, <2>3
    <2> QED BY <1>6, <1>10, <2>1, <2>4
  <1>12. CASE Match
    <2>1. /\ step = "match" /\ at' = at + 1 /\ step' = "rule" /\ ignored' = ~rules[at].negate
          /\ px = Len(pattern) /\ nx = Len(name)
          /\ UNCHANGED <<rules, path, isDir>>
      BY <1>12 DEF Match, args
    <2>2. From(px, nx)
      BY <1>1, <2>1, FromEnd DEF TypeOK
    <2>3. Whole
      BY <1>10, <2>1, <2>2
    <2> QED BY <1>6, <1>10, <2>1, <2>3
  <1> QED BY <1>2, <1>3, <1>4, <1>7, <1>8, <1>9, <1>11, <1>12 DEF Next

\* The invariant holds at the start and is kept by every step.
LEMMA AlwaysIInv == Spec => []IInv
  <1>1. Init => IInv
    <2> SUFFICES ASSUME Init PROVE IInv
      OBVIOUS
    <2>1. rules = <<>> /\ pattern = <<>> /\ name = <<>> /\ step = "load" /\ ignored = FALSE
      BY DEF Init
    <2>2. <<>> \in Text /\ <<>> \in Seq(RuleInfo) /\ Len(<<>>) = 0
      BY DEF Text
    <2>3. TypeOK
      <3>1. px = 0 /\ nx = 0 /\ nextPx = 0 /\ nextNx = 0 /\ at = 1 /\ lines \in Files
            /\ path = <<>> /\ isDir = FALSE
        BY DEF Init
      <3>2. Len(pattern) = 0 /\ Len(name) = 0
        BY <2>1, <2>2
      <3>3. isDir \in BOOLEAN /\ ignored \in BOOLEAN
        BY <2>1, <3>1
      <3>4. pattern \in Text /\ name \in Text /\ rules \in Seq(RuleInfo)
        BY <2>1, <2>2
      <3>5. px \in 0..Len(pattern) /\ nx \in 0..Len(name)
            /\ nextPx \in 0..Len(pattern) /\ nextNx \in 0..Len(name) + 1
        BY <3>1, <3>2
      <3> QED BY <2>1, <3>1, <3>3, <3>4, <3>5 DEF TypeOK
    <2> QED BY <2>1, <2>3 DEF IInv, Searching, SoFar
  <1>2. IInv /\ [Next]_vars => IInv'
    BY TypeKeeps, SearchKeeps, SoFarKeeps DEF IInv
  <1> QED BY <1>1, <1>2, PTL DEF Spec

\* The types of the Matcher, of the arguments and of the positions in globMatch.
THEOREM TypeCorrect == Spec => []TypeOK
  <1>1. IInv => TypeOK
    BY DEF IInv
  <1> QED BY <1>1, AlwaysIInv, PTL

\* Whenever IsIgnored returns it has decided as the last matching rule says, where a
\* rule matches if some length for each of its stars does, slashes included: that
\* globMatch goes back to the last star only loses nothing.
THEOREM LastStarIsEnough == Spec => []LastMatchDecides
  <1>1. IInv => LastMatchDecides
    <2> SUFFICES ASSUME IInv, step = "done" PROVE ignored = Decision({})
      BY DEF LastMatchDecides
    <2>1. Decision({}) <=> Decided(Len(rules))
      BY DEF Decision, Decided, Applied
    <2>2. ignored <=> Decision({})
      BY <2>1 DEF IInv, SoFar
    <2>3. ignored \in BOOLEAN /\ Decision({}) \in BOOLEAN
      BY DEF IInv, TypeOK, Decision
    <2> QED BY <2>2, <2>3
  <1> QED BY <1>1, AlwaysIInv, PTL

=============================================================================
