------------------------------ MODULE MyersDiff ------------------------------
(***************************************************************************)
(* The line diff of internal/diff: the greedy search for a shortest edit   *)
(* script, the walk back along its trace, the merging of neighbouring      *)
(* edits and the hunks of a unified diff.                                  *)
(*                                                                         *)
(* A text is the sequence of its lines.  (Splitting drops one trailing     *)
(* newline, so "a" and "a\n" are the same text.)  Positions in edits count *)
(* from 0, as in the code: line i of a text t is t[i + 1].                 *)
(***************************************************************************)
EXTENDS Integers, SequencesExt, FiniteSetsExt

Edit(op, os, oe, ns, ne) ==
    [op |-> op, oldStart |-> os, oldEnd |-> oe, newStart |-> ns, newEnd |-> ne]

\* The number of equal lines from old position x and new position y on.
Run(a, b, x, y) ==
    Min({i \in 0..Len(a) : \/ x + i >= Len(a) \/ y + i >= Len(b)
                           \/ a[x + i + 1] # b[y + i + 1]})

\* Round d enters diagonal k from the one above it (an insertion) or from the
\* one below (a deletion).
Down(v, d, k) == k = -d \/ (k # d /\ v[k - 1] < v[k + 1])
Entry(v, d, k) == IF Down(v, d, k) THEN v[k + 1] ELSE v[k - 1] + 1

Diagonals(d) == {k \in -d..d : (k + d) % 2 = 0}

\* Faulty variant: the equal lines are not followed.
ReachNoRun(a, b, v, d, k) == Entry(v, d, k)

\* The furthest old position round d reaches on diagonal k.
Reach(a, b, v, d, k) ==
    LET x == Entry(v, d, k) IN x + Run(a, b, x, x - k)

\* v after round d.  The round reads the odd diagonals and writes the even ones,
\* or the reverse.
Round(a, b, v, d) ==
    FoldLeft(LAMBDA u, k : [u EXCEPT ![k] = Reach(a, b, v, d, k)],
             v, [i \in 1..d + 1 |-> 2 * (i - 1) - d])

\* trace[d + 1] is v before round d.
Trace(a, b) ==
    LET max == Len(a) + Len(b)
    IN  FoldLeft(LAMBDA tr, d : Append(tr, Round(a, b, Last(tr), d - 1)),
                 <<[k \in -max..max |-> 0]>>, [d \in 1..max |-> d])

\* The round that gets to the end of both texts.
Depth(a, b, trace) ==
    Min({d \in 0..Len(a) + Len(b) :
            \E k \in Diagonals(d) :
                LET x == Reach(a, b, trace[d + 1], d, k)
                IN  x >= Len(a) /\ x - k >= Len(b)})

\* One step back: from <<x, y>> along the equal lines, then one edit.
StepBack(trace, s, d) ==
    LET v == trace[d + 1]
        k == s.x - s.y
        prevK == IF Down(v, d, k) THEN k + 1 ELSE k - 1
        prevX == v[prevK]
        prevY == prevX - prevK
        run == Max({0, Min({s.x - prevX, s.y - prevY})})
        x == s.x - run
        y == s.y - run
        edit == IF x = prevX THEN Edit("insert", x, x, prevY, y)
                             ELSE Edit("delete", prevX, x, y, y)
    IN  [x |-> prevX, y |-> prevY, edits |-> <<edit>> \o s.edits]

\* Faulty variant: the edits are left in the order in which they are found.
BacktrackUnreversed(a, b, trace, depth) ==
    Reverse(FoldLeft(LAMBDA s, i : StepBack(trace, s, depth + 1 - i),
                     [x |-> Len(a), y |-> Len(b), edits |-> <<>>],
                     [i \in 1..depth |-> i]).edits)

Backtrack(a, b, trace, depth) ==
    FoldLeft(LAMBDA s, i : StepBack(trace, s, depth + 1 - i),
             [x |-> Len(a), y |-> Len(b), edits |-> <<>>],
             [i \in 1..depth |-> i]).edits

Script(a, b) ==
    IF a = <<>> THEN <<Edit("insert", 0, 0, 0, Len(b))>>
    ELSE IF b = <<>> THEN <<Edit("delete", 0, Len(a), 0, 0)>>
    ELSE LET trace == Trace(a, b) IN Backtrack(a, b, trace, Depth(a, b, trace))

\* Faulty variant: the first of the merged edits keeps its end.
CompactShort(edits) ==
    FoldLeft(LAMBDA done, e :
                 IF done # <<>> /\ Last(done).op = e.op
                 THEN done ELSE Append(done, e),
             <<>>, edits)

\* compactEdits: neighbours in the list with the same operation become one edit.
Compact(edits) ==
    FoldLeft(LAMBDA done, e :
                 IF done # <<>> /\ Last(done).op = e.op
                 THEN [done EXCEPT ![Len(done)].oldEnd = e.oldEnd,
                                   ![Len(done)].newEnd = e.newEnd]
                 ELSE Append(done, e),
             <<>>, edits)

Diff(a, b) == Compact(Script(a, b))

-----------------------------------------------------------------------------
(* Hunks *)

HunkLines(op, text, from, to) ==
    [i \in 1..(Max({from, Min({to, Len(text)})}) - from) |->
        [op |-> op, content |-> text[from + i]]]

\* The lines before an edit: each is counted in newCount only if the position
\* computed for it (which advances by two) lies in the new text.
Lead(h, e, a, b) ==
    LET lines == HunkLines("equal", a, h.oldStart + h.oldCount, e.oldStart)
    IN  [h EXCEPT !.lines = @ \o lines,
                  !.oldCount = @ + Len(lines),
                  !.newCount = FoldLeft(LAMBDA c, i :
                                            IF h.newStart + c + i - 1 < Len(b) THEN c + 1 ELSE c,
                                        @, [i \in 1..Len(lines) |-> i])]

Change(h, e, a, b) ==
    LET dels == HunkLines("delete", a, e.oldStart, e.oldEnd)
        adds == HunkLines("insert", b, e.newStart, e.newEnd)
    IN  [h EXCEPT !.lines = @ \o dels \o adds,
                  !.oldCount = @ + Len(dels),
                  !.newCount = @ + Len(adds)]

Trail(h, a, context) ==
    LET end == h.oldStart + h.oldCount
        lines == HunkLines("equal", a, end, end + context)
    IN  [h EXCEPT !.lines = @ \o lines,
                  !.oldCount = @ + Len(lines),
                  !.newCount = @ + Len(lines)]

NewHunk(e, context) ==
    [oldStart |-> Max({0, e.oldStart - context}), oldCount |-> 0,
     newStart |-> Max({0, e.newStart - context}), newCount |-> 0, lines |-> <<>>]

\* Does an edit start a hunk of its own?
Far(h, e, context) ==
    Max({e.oldStart, h.oldStart + h.oldCount}) - h.oldStart > 2 * context

\* Faulty variant: the hunk in progress is dropped when another one is started.
AddEditLost(hunks, e, a, b, context) ==
    LET open == IF hunks = <<>> \/ Far(Last(hunks), e, context)
                THEN <<NewHunk(e, context)>>
                ELSE hunks
    IN  [open EXCEPT ![Len(open)] = Change(Lead(@, e, a, b), e, a, b)]

AddEdit(hunks, e, a, b, context) ==
    LET open == IF hunks = <<>> \/ Far(Last(hunks), e, context)
                THEN Append(hunks, NewHunk(e, context))
                ELSE hunks
    IN  [open EXCEPT ![Len(open)] = Change(Lead(@, e, a, b), e, a, b)]

\* buildHunks: the last hunk alone gets lines after its edits.
Hunks(edits, a, b, context) ==
    LET hunks == FoldLeft(LAMBDA hs, e : AddEdit(hs, e, a, b, context), <<>>, edits)
    IN  IF hunks = <<>> THEN <<>> ELSE [hunks EXCEPT ![Len(hunks)] = Trail(@, a, context)]
=============================================================================
