-------------------------------- MODULE Texts --------------------------------
(***************************************************************************)
(* The two callers of the diff: one call of UnifiedDiff on two texts (the  *)
(* search, the merging of the edits and the hunks), or one call of         *)
(* merge.ThreeWay on three (the diffs of both sides, the search for        *)
(* overlapping edits, and the merged text with or without conflicts).      *)
(***************************************************************************)
EXTENDS MyersDiff

CONSTANTS Line,      \* the lines texts are made of,
          Empty,     \* the empty one among them
          MaxDiff,   \* bound: lines in a text of UnifiedDiff
          MaxMerge,  \* bound: lines in a text of ThreeWay
          Context    \* lines of context around an edit

ASSUME BoundAssumption == MaxDiff \in Nat /\ MaxMerge \in Nat
ASSUME ContextAssumption == Context \in Nat
ASSUME LineAssumption == Empty \in Line

VARIABLES
    call,                       \* "diff" or "merge"
    base, ours, theirs,         \* the lines of the texts; the diff goes from base to ours
    oursText,                   \* what stands between the line feeds of our text
    step,
    script, edits, hunks,       \* the diff's progress
    oursEdits, theirsEdits,     \* the merge's: the diffs of both sides,
    conflicts,                  \* the start lines of the conflicts,
    merged                      \* and the result: what stands between its line feeds

texts == <<call, base, ours, theirs, oursText>>
merging == <<oursEdits, theirsEdits, conflicts, merged>>
diffing == <<script, edits, hunks>>
vars == <<call, base, ours, theirs, oursText, step, script, edits, hunks,
          oursEdits, theirsEdits, conflicts, merged>>

Text(n) == BoundedSeq(Line, n)
OpenMark == "<<<<<<< ours"
MiddleMark == "middle"
CloseMark == ">>>>>>> theirs"

\* A string is what stands between its line feeds: one piece at least, and an
\* empty last one if the string ends with a line feed or is empty itself.  Every
\* caller splits it and drops that last piece.
Split(text) == IF Last(text) = Empty THEN Front(text) ELSE text

\* strings.Join: of no lines, the empty string.
Join(lines) == IF lines = <<>> THEN <<Empty>> ELSE lines

Init ==
    /\ \/ /\ call = "diff" /\ step = "search"
          /\ base \in Text(MaxDiff) /\ ours \in Text(MaxDiff) /\ theirs = <<>>
          /\ oursText = Append(ours, Empty)
       \/ /\ call = "merge" /\ step = "sides"
          /\ base \in Text(MaxMerge) /\ theirs \in Text(MaxMerge)
          /\ oursText \in Text(MaxMerge) \ {<<>>} /\ ours = Split(oursText)
    /\ script = <<>> /\ edits = <<>> /\ hunks = <<>>
    /\ oursEdits = <<>> /\ theirsEdits = <<>> /\ conflicts = {} /\ merged = <<>>

-----------------------------------------------------------------------------
(* UnifiedDiff *)

Search ==
    /\ step = "search" /\ step' = "compact"
    /\ script' = Script(base, ours)
    /\ UNCHANGED <<texts, edits, hunks, merging>>

MergeEdits ==
    /\ step = "compact" /\ step' = "group"
    /\ edits' = Compact(script)
    /\ UNCHANGED <<texts, script, hunks, merging>>

Group ==
    /\ step = "group" /\ step' = "done"
    /\ hunks' = Hunks(edits, base, ours, Context)
    /\ UNCHANGED <<texts, script, edits, merging>>

-----------------------------------------------------------------------------
(* ThreeWay *)

DiffSides ==
    /\ step = "sides" /\ step' = "compare"
    /\ oursEdits' = Diff(base, ours)
    /\ theirsEdits' = Diff(base, theirs)
    /\ UNCHANGED <<texts, diffing, conflicts, merged>>

\* Faulty variant: only edits that start at the same line are in conflict.
OverlapAtStart(o, t) == o.oldStart = t.oldStart /\ o.oldStart < t.oldEnd

\* rangesOverlap of the old ranges; an empty range overlaps only the inside of
\* another one.
Overlap(o, t) == o.oldStart < t.oldEnd /\ t.oldStart < o.oldEnd

FindConflicts ==
    /\ step = "compare" /\ step' = "apply"
    /\ conflicts' = {Max({p[1].oldStart, p[2].oldStart}) :
                        p \in {q \in ToSet(oursEdits) \X ToSet(theirsEdits) :
                                  Overlap(q[1], q[2])}}
    /\ UNCHANGED <<texts, diffing, oursEdits, theirsEdits, merged>>

\* Lines from..to-1, as far as the text has them.
Lines(text, from, to) == SubSeq(text, from + 1, Min({to, Len(text)}))

\* Faulty variant: the lines after the last edit are forgotten.
ApplyEditsNoRest(text, es) ==
    LET s == FoldLeft(LAMBDA t, e : [pos |-> e.newEnd,
                                     out |-> t.out \o Lines(Split(text), t.pos, e.newStart)],
                      [pos |-> 0, out |-> <<>>], es)
    IN  Join(s.out)

\* The lines without the edits' new ranges.  A deletion has an empty one, and
\* inserted lines are not inserted.
Remaining(lines, es) ==
    LET s == FoldLeft(LAMBDA t, e : [pos |-> e.newEnd,
                                     out |-> t.out \o Lines(lines, t.pos, e.newStart)],
                      [pos |-> 0, out |-> <<>>], es)
    IN  s.out \o Lines(lines, s.pos, Len(lines))

\* applyEdits: whether the text ended with a line feed is forgotten.
ApplyEdits(text, es) == Join(Remaining(Split(text), es))

ApplyClean ==
    /\ step = "apply" /\ conflicts = {} /\ step' = "done"
    /\ merged' = ApplyEdits(oursText, theirsEdits)
    /\ UNCHANGED <<texts, diffing, oursEdits, theirsEdits, conflicts>>

\* mergeEditLists: by start line, ours first.
MergeEditLists(os, ts) ==
    LET from[i \in 1..Len(os) + 1, j \in 1..Len(ts) + 1] ==
            IF i > Len(os) THEN SubSeq(ts, j, Len(ts))
            ELSE IF j > Len(ts) THEN SubSeq(os, i, Len(os))
            ELSE IF os[i].oldStart <= ts[j].oldStart THEN <<os[i]>> \o from[i + 1, j]
            ELSE <<ts[j]>> \o from[i, j + 1]
    IN  from[1, 1]

\* One edit of applyMergeWithConflicts: the base lines before it, the marker
\* that opens a conflict at its start, or those that close one it is not in.
ApplyConflicting(s, e) ==
    LET opens == e.oldStart \in conflicts /\ ~s.inConflict
        inside == s.inConflict \/ opens
        closes == inside /\ conflicts \cap e.oldStart..(e.oldEnd - 1) = {}
    IN  [pos |-> e.oldEnd,
         inConflict |-> inside /\ ~closes,
         out |-> s.out \o Lines(base, s.pos, e.oldStart)
                       \o (IF opens THEN <<OpenMark>> ELSE <<>>)
                       \o (IF closes THEN <<MiddleMark, CloseMark>> ELSE <<>>)]

ApplyConflicts ==
    /\ step = "apply" /\ conflicts # {} /\ step' = "done"
    /\ LET s == FoldLeft(ApplyConflicting, [pos |-> 0, inConflict |-> FALSE, out |-> <<>>],
                         MergeEditLists(oursEdits, theirsEdits))
       IN  merged' = Join(s.out \o Lines(base, s.pos, Len(base)))
    /\ UNCHANGED <<texts, diffing, oursEdits, theirsEdits, conflicts>>

Next ==
    \/ Search \/ MergeEdits \/ Group
    \/ DiffSides \/ FindConflicts \/ ApplyClean \/ ApplyConflicts
Spec == Init /\ [][Next]_vars

-----------------------------------------------------------------------------
(* Properties *)

Searched == step = "compact"
Compacted == step = "group"
HunksMade == step = "done" /\ call = "diff"
MergeDone == step = "done" /\ call = "merge"

\* What a list of edits makes of base: the lines between the edits are
\* kept, those of an edit's old range are replaced by those of its new range.
\* This is how buildHunks reads edits, whatever their operation.
Applied(es) ==
    LET s == FoldLeft(LAMBDA t, e :
                          [pos |-> e.oldEnd,
                           out |-> t.out \o SubSeq(base, t.pos + 1, e.oldStart)
                                         \o SubSeq(ours, e.newStart + 1, e.newEnd)],
                      [pos |-> 0, out |-> <<>>], es)
    IN  s.out \o SubSeq(base, s.pos + 1, Len(base))

Size(e) == (e.oldEnd - e.oldStart) + (e.newEnd - e.newStart)
SizeOf(es) == FoldLeft(LAMBDA n, e : n + Size(e), 0, es)

\* The reference: lcs[<<i, j>>] is the length of a longest common subsequence of
\* the first i lines of base and the first j of ours.
Common ==
    LET lcs[p \in (0..Len(base)) \X (0..Len(ours))] ==
            IF p[1] = 0 \/ p[2] = 0 THEN 0
            ELSE IF base[p[1]] = ours[p[2]] THEN lcs[<<p[1] - 1, p[2] - 1>>] + 1
            ELSE Max({lcs[<<p[1] - 1, p[2]>>], lcs[<<p[1], p[2] - 1>>]})
    IN  lcs[<<Len(base), Len(ours)>>]

\* The search finds an edit script that turns base into ours.
ScriptCorrect == Searched => Applied(script) = ours

\* No shorter one exists: it touches exactly the lines that are not part of a
\* longest common subsequence.
ScriptShortest == Searched => SizeOf(script) = Len(base) + Len(ours) - 2 * Common

\* Merging neighbours keeps the meaning of the script: equal lines between two
\* of them are swallowed by the old and by the new range alike.
CompactedScript == Compacted => Applied(edits) = ours

\* The lines with an operation, in order: of a hunk's lines, and of all hunks.
Chosen(lines, op) ==
    FoldLeft(LAMBDA got, l : IF l.op = op THEN Append(got, l) ELSE got, <<>>, lines)
LinesOf(hs, op) == FoldLeft(LAMBDA got, h : got \o Chosen(h.lines, op), <<>>, hs)

\* The lines that edits from a to b delete or insert, in order.
Marked(op, text) == [i \in 1..Len(text) |-> [op |-> op, content |-> text[i]]]
Touched(a, b, e, op) ==
    IF op = "delete" THEN Marked("delete", SubSeq(a, e.oldStart + 1, e.oldEnd))
                     ELSE Marked("insert", SubSeq(b, e.newStart + 1, e.newEnd))
TouchedBy(a, b, es, op) == FoldLeft(LAMBDA got, e : got \o Touched(a, b, e, op), <<>>, es)

\* The hunks show every line the edits delete and insert once, in order.
HunksShowEdits ==
    HunksMade =>
        \A op \in {"delete", "insert"} : LinesOf(hunks, op) = TouchedBy(base, ours, edits, op)

\* Equal texts have no edits.
EqualTexts == Compacted /\ base = ours => edits = <<>>

\* The new line count of a hunk's header counts the hunk's lines.
HunkHeaders ==
    HunksMade =>
        \A i \in 1..Len(hunks) :
            hunks[i].newCount = Len(SelectSeq(hunks[i].lines, LAMBDA l : l.op # "delete"))

\* The hunks touch different lines of base, in order, as a patch needs.
HunksApart ==
    HunksMade =>
        \A i \in 1..Len(hunks) - 1 :
            hunks[i].oldStart + hunks[i].oldCount <= hunks[i + 1].oldStart

\* If only our side changed, the result is our side without a conflict: our text as
\* it is, but a line feed at its end is gone.
OnlyOursChanged ==
    MergeDone /\ theirs = base =>
        /\ conflicts = {}
        /\ merged = IF Len(oursText) > 1 /\ Last(oursText) = Empty THEN Front(oursText) ELSE oursText

\* Not so in the code: the result is our text, byte for byte.
OursUntouched == MergeDone /\ theirs = base => merged = oursText

\* Two sides that delete the same line of the base are always in conflict, also
\* when merging their edits has hidden where each of them starts.
BothDeleteConflict ==
    MergeDone =>
        \A o \in ToSet(Script(base, ours)), t \in ToSet(Script(base, theirs)) :
            (o.oldStart..o.oldEnd - 1) \cap (t.oldStart..t.oldEnd - 1) # {} => conflicts # {}

\* If only their side changed, the result is their side.
OnlyTheirsChanged == MergeDone /\ ours = base /\ conflicts = {} => Split(merged) = theirs

\* Every conflict that is opened is closed.
MarksClosed ==
    MergeDone =>
        Cardinality({i \in DOMAIN merged : merged[i] = OpenMark})
            = Cardinality({i \in DOMAIN merged : merged[i] = CloseMark})
==============================================================================
