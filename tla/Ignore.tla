------------------------------- MODULE Ignore --------------------------------
(***************************************************************************)
(* The ignore rules of internal/ignore: Load reads the rules of a          *)
(* .msyncign file line by line, one call of IsIgnored goes through them,   *)
(* and the loop of globMatch takes one step an iteration.                  *)
(*                                                                         *)
(* A line, a pattern and a path are sequences of characters.  px, nx and   *)
(* the positions to retry from count from 0, as in the code.               *)
(***************************************************************************)
EXTENDS Integers, SequencesExt, FiniteSetsExt

CONSTANTS
    Files,      \* the ignore files of this instance: sequences of trimmed lines
    Paths       \* the paths asked for, relative to the repository

ASSUME FilesAssumption == Files \subseteq Seq(Seq(STRING))
ASSUME PathsAssumption ==
    /\ Paths \subseteq Seq(STRING)
    /\ \A p \in Paths : p # <<>> /\ Last(p) # "/"

VARIABLES
    lines,                  \* the file
    rules, path, isDir,     \* the Matcher and the arguments of IsIgnored
    at,                     \* the line, and then the rule, it is at
    ignored,
    step,                   \* "load", "rule", "match", "done"
    pattern, name,          \* the arguments of globMatch
    px, nx, nextPx, nextNx

args == <<lines, rules, path, isDir>>
glob == <<pattern, name, px, nx, nextPx, nextNx>>
vars == <<lines, rules, path, isDir, at, ignored, step, pattern, name, px, nx, nextPx, nextNx>>

-----------------------------------------------------------------------------
(* Load *)

\* The text of a line from one position to another.
Without(line, first, last) ==
    SubSeq(line, 1 + (IF first THEN 1 ELSE 0), Len(line) - (IF last THEN 1 ELSE 0))

Rule(line) ==
    LET negate == Head(line) = "!"
        dirOnly == Last(line) = "/"
    IN  [raw |-> Without(line, negate, dirOnly), negate |-> negate, dirOnly |-> dirOnly]

\* Empty lines and comments are no rules.
IsRule(line) == line # <<>> /\ line[1] # "#"

LoadLine ==
    /\ step = "load" /\ at <= Len(lines)
    /\ rules' = IF IsRule(lines[at]) THEN Append(rules, Rule(lines[at])) ELSE rules
    /\ at' = at + 1
    /\ UNCHANGED <<lines, path, isDir, ignored, step, glob>>

-----------------------------------------------------------------------------
(* IsIgnored *)

Slashes(p) == {i \in 1..Len(p) : p[i] = "/"}
Base(p) == SubSeq(p, Max(Slashes(p) \cup {0}) + 1, Len(p))

\* matchPattern: a pattern without a slash is matched with the last element of
\* the path, any other one with the whole path.
PatternOf(raw) == IF raw # <<>> /\ Head(raw) = "/" THEN Tail(raw) ELSE raw
NameFor(raw, p) == IF Slashes(raw) = {} THEN Base(p) ELSE p

\* The file is read and a path asked for.
Ask ==
    /\ step = "load" /\ at > Len(lines)
    /\ path' \in Paths /\ isDir' \in BOOLEAN
    /\ at' = 1 /\ step' = "rule"
    /\ UNCHANGED <<lines, rules, ignored, glob>>

Skipped(rule) == rule.dirOnly /\ ~isDir

NextRule ==
    /\ step = "rule" /\ at <= Len(rules)
    /\ IF Skipped(rules[at])
       THEN at' = at + 1 /\ UNCHANGED <<step, glob>>
       ELSE /\ step' = "match"
            /\ pattern' = PatternOf(rules[at].raw) /\ name' = NameFor(rules[at].raw, path)
            /\ px' = 0 /\ nx' = 0 /\ nextPx' = 0 /\ nextNx' = 0
            /\ UNCHANGED at
    /\ UNCHANGED <<args, ignored>>

Return ==
    /\ step = "rule" /\ at > Len(rules)
    /\ step' = "done"
    /\ UNCHANGED <<args, at, ignored, glob>>

-----------------------------------------------------------------------------
(* globMatch: one action for each way through the loop *)

Symbol == pattern[px + 1]
Star == step = "match" /\ px < Len(pattern) /\ Symbol = "*"
Double == px + 1 < Len(pattern) /\ pattern[px + 2] = "*"

\* ? and a plain character take one character of the name.
Fits ==
    /\ px < Len(pattern) /\ nx < Len(name)
    /\ Symbol # "*"
    /\ Symbol = "?" \/ Symbol = name[nx + 1]

Take ==
    /\ step = "match" /\ Fits
    /\ px' = px + 1 /\ nx' = nx + 1
    /\ UNCHANGED <<args, at, ignored, step, pattern, name, nextPx, nextNx>>

\* ** and **/ are passed over; a retry starts behind them.
DoubleStar ==
    /\ Star /\ Double
    /\ px' = IF px + 2 < Len(pattern) /\ pattern[px + 3] = "/" THEN px + 3 ELSE px + 2
    /\ nextPx' = px' /\ nextNx' = nx + 1
    /\ UNCHANGED <<args, at, ignored, step, pattern, name, nx>>

\* Faulty variant: a retry starts behind the star.
SingleStarBehind ==
    /\ Star /\ ~Double
    /\ px' = px + 1
    /\ nextPx' = px + 1 /\ nextNx' = nx + 1
    /\ UNCHANGED <<args, at, ignored, step, pattern, name, nx>>

\* A retry of a single star starts at the star itself.
SingleStar ==
    /\ Star /\ ~Double
    /\ px' = px + 1
    /\ nextPx' = px /\ nextNx' = nx + 1
    /\ UNCHANGED <<args, at, ignored, step, pattern, name, nx>>

Stuck ==
    /\ step = "match" /\ ~Star /\ ~Fits
    /\ px < Len(pattern) \/ nx < Len(name)

\* Faulty variant: the last position of the name is not tried.
CanRetryShort == 0 < nextNx /\ nextNx < Len(name)

CanRetry == 0 < nextNx /\ nextNx <= Len(name)

Retry ==
    /\ Stuck /\ CanRetry
    /\ px' = nextPx /\ nx' = nextNx
    /\ UNCHANGED <<args, at, ignored, step, pattern, name, nextPx, nextNx>>

Fail ==
    /\ Stuck /\ ~CanRetry
    /\ step' = "rule" /\ at' = at + 1
    /\ UNCHANGED <<args, ignored, glob>>

Match ==
    /\ step = "match" /\ px = Len(pattern) /\ nx = Len(name)
    /\ step' = "rule" /\ at' = at + 1
    /\ ignored' = ~rules[at].negate
    /\ UNCHANGED <<args, glob>>

-----------------------------------------------------------------------------
Init ==
    /\ lines \in Files /\ rules = <<>> /\ path = <<>> /\ isDir = FALSE
    /\ at = 1 /\ ignored = FALSE /\ step = "load"
    /\ pattern = <<>> /\ name = <<>> /\ px = 0 /\ nx = 0 /\ nextPx = 0 /\ nextNx = 0

Next ==
    \/ LoadLine \/ Ask \/ NextRule \/ Return
    \/ Take \/ DoubleStar \/ SingleStar \/ Retry \/ Fail \/ Match

Spec == Init /\ [][Next]_vars

\* The loop keeps running.
FairSpec == Spec /\ WF_vars(Next)

-----------------------------------------------------------------------------
(* Properties *)

\* What the rule lines say: **/ and ** stand for any run of characters, a single
\* star for one without a character in stop.
Width(p, i) == IF i = Len(p) \/ p[i + 1] # "*" THEN 1
               ELSE IF i + 1 < Len(p) /\ p[i + 2] = "/" THEN 3 ELSE 2
Covers(p, i, n, j, k, stop) ==
    j <= k /\ (Width(p, i) = 1 => \A x \in j..k - 1 : n[x] \notin stop)

\* The reference: for every position of pattern p, the positions of n from
\* where the rest of p matches the rest of n.
Matching(p, n, stop) ==
    LET from[i \in 1..Len(p) + 1] ==
            IF i = Len(p) + 1 THEN {Len(n) + 1}
            ELSE IF p[i] = "*"
            THEN {j \in 1..Len(n) + 1 :
                    \E k \in from[i + Width(p, i)] : Covers(p, i, n, j, k, stop)}
            ELSE {j \in 1..Len(n) : p[i] \in {"?", n[j]} /\ j + 1 \in from[i + 1]}
    IN  from

GlobMatches(p, n, stop) == 1 \in Matching(p, n, stop)[1]

\* The last rule that applies and matches decides.
Decision(stop) ==
    LET matching == {i \in 1..Len(rules) :
                        /\ ~Skipped(rules[i])
                        /\ GlobMatches(PatternOf(rules[i].raw), NameFor(rules[i].raw, path), stop)}
    IN  matching # {} /\ ~rules[Max(matching)].negate

\* When IsIgnored returns it has decided as trying every length for every star
\* would: going back to the last star only is enough.  A single star stands for
\* slashes too here, as it does in the code, whose comment says it does not: a/*
\* matches a/b/b.  The property is about the search; StarStopsAtSlash is what
\* the comment promises.
LastMatchDecides == step = "done" => ignored = Decision({})

\* "Single * doesn't match /" (ignore.go:137).  Not so in the code: a retry of the
\* star takes whatever character is next.
StarStopsAtSlash == step = "done" => ignored = Decision({"/"})

DoubleStarred(raw) == \E i \in 1..Len(raw) - 1 : raw[i] = "*" /\ raw[i + 1] = "*"

\* IsIgnored returns if no rule has a double star: however many single stars
\* a pattern has, going back to them comes to an end.
PlainReturns == (step = "rule" /\ \A i \in 1..Len(rules) : ~DoubleStarred(rules[i].raw)) ~> (step = "done")

\* IsIgnored returns, whatever the rules.
Returns == <>(step = "done")
=============================================================================
