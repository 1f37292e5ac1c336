------------------------------ MODULE Timeline ------------------------------
(***************************************************************************)
(* What a MinusSync repository promises a user who runs one command at a   *)
(* time, each of which may be killed: a line of committed snapshots that   *)
(* grows at its end, the snapshot staged for the next commit and what of   *)
(* it is saved, and how much of the line the remote is known to have.      *)
(***************************************************************************)
EXTENDS Naturals, Sequences

CONSTANTS Path, Content, Absent

VARIABLES
    staged,     \* the snapshot the next commit would have
    saved,      \* the snapshot that is left of it after a kill
    history,    \* the committed snapshots
    publishing, \* a commit is replacing the end of the line
    pushed      \* length of the part of the line that the remote is known to have

timeline == <<staged, saved, history, publishing, pushed>>

Snapshot == [Path -> Content \cup {Absent}]
Empty == [q \in Path |-> Absent]

Init ==
    /\ staged = Empty /\ saved = Empty
    /\ history = <<>> /\ publishing = FALSE /\ pushed = 0

Without(s, gone) == [q \in Path |-> IF q \in gone THEN Absent ELSE s[q]]

\* One path is staged, or the deleted ones are unstaged together.
Stage ==
    /\ \/ \E q \in Path, c \in Content : staged' = [staged EXCEPT ![q] = c]
       \/ \E gone \in SUBSET Path : staged' = Without(staged, gone)
    /\ UNCHANGED <<saved, history, publishing, pushed>>

\* What is staged is being saved: any part of it may be there.
Save ==
    /\ \E gone \in SUBSET Path : saved' = Without(staged, gone)
    /\ UNCHANGED <<staged, history, publishing, pushed>>

\* What is staged is about to be committed, never an empty snapshot and never the
\* same one twice in a row.
Publish ==
    /\ ~publishing
    /\ staged # Empty
    /\ history # <<>> => history[Len(history)] # staged
    /\ publishing' = TRUE
    /\ UNCHANGED <<staged, saved, history, pushed>>

Commit ==
    /\ publishing
    /\ history' = Append(history, staged)
    /\ publishing' = FALSE
    /\ UNCHANGED <<staged, saved, pushed>>

\* The remote takes over the whole line.
Push ==
    /\ history # <<>>
    /\ pushed' = Len(history)
    /\ UNCHANGED <<staged, saved, history, publishing>>

\* A remote is asked what it has of the line, and may show a commit that is none
\* of it; or it is forgotten.
Ask ==
    /\ pushed' \in 0..Len(history)
    /\ UNCHANGED <<staged, saved, history, publishing>>

\* A kill loses what is not saved, and the whole line if it hits a commit that is
\* replacing its end: the next commit starts another one.
Kill ==
    /\ staged' = saved
    /\ publishing' = FALSE
    /\ IF publishing THEN history' = <<>> /\ pushed' = 0
                     ELSE UNCHANGED <<history, pushed>>
    /\ UNCHANGED saved

Next == Stage \/ Save \/ Publish \/ Commit \/ Push \/ Ask \/ Kill

Spec == Init /\ [][Next]_timeline
=============================================================================
