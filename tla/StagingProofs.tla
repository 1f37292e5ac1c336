---------------------------- MODULE StagingProofs ----------------------------
(***************************************************************************)
(* What holds of Staging for any files, contents and window: the types,    *)
(* that the stat shortcut of Dirty is sound however the user's writes fall *)
(* between the steps of a command, and that check --fix repairs the rest.  *)
(***************************************************************************)
EXTENDS Staging, TLAPS

\* The types of the step within a file: from its stat on a command has the stat,
\* and from its read on the content.
StepOK ==
    /\ pc \in {"read", "enter"} => info \in StatInfo
    /\ pc = "enter" => data \in Content

\* No file and no entry is from the future, so a write is later than all of them.
TimesOK ==
    /\ \A p \in Path : work[p] # Absent => work[p].mtime <= clock
    /\ \A p \in Path : index[p] # Absent => index[p].mtime <= clock
    /\ pc \in {"read", "enter"} => info.mtime <= clock

\* A file that still has the mtime of an entry, or of the stat the command took
\* before it read the file, has the content that was read.
SameTime ==
    /\ \A p \in Path \ quiet :
          work[p] # Absent /\ index[p] # Absent /\ work[p].mtime = index[p].mtime
              => work[p].content = index[p].content
    /\ \A p \in Path \ quiet :
          pc = "enter" /\ ToDo(p) /\ work[p] # Absent /\ work[p].mtime = info.mtime
              => work[p].content = data

IInv == TypeOK /\ StepOK /\ TimesOK /\ SameTime

-----------------------------------------------------------------------------
(* Types *)

\* Only one file is the next one to do.
LEMMA OneToDo == ASSUME TypeOK, NEW p, NEW q, ToDo(p), ToDo(q) PROVE p = q
  BY PathAssumption DEF TypeOK, ToDo, Path

\* An entry made from a content and a stat has the type of an entry.
LEMMA EntryType ==
    ASSUME NEW c \in Content, NEW s \in StatInfo
    PROVE  LET e == Entry(c, s)
           IN  /\ e.content = c /\ e.fp = Fingerprint(e.content)
               /\ e.size \in Nat /\ e.mtime = s.mtime /\ e.mtime \in Nat /\ e.mode \in Mode
  BY DEF Entry, StatInfo

\* What a stat returns.
LEMMA StatType ==
    ASSUME TypeOK, NEW p \in Path, work[p] # Absent
    PROVE  Stat(p) \in StatInfo /\ Stat(p).mtime = work[p].mtime
  <1>1. work[p] \in File
    BY DEF TypeOK
  <1>2. work[p].content \in Seq(Block)
    BY <1>1, ContentAssumption DEF File
  <1> QED BY <1>1, <1>2 DEF Stat, StatInfo, File

\* The edits of the user keep the types.
LEMMA EditType ==
    ASSUME TypeOK, NEW p \in Path, NEW f \in File \cup {Absent}, Edit(p, f),
           clock' \in Nat, quiet' \subseteq Path
    PROVE  TypeOK'
  <1>1. index' = index /\ work' \in [Path -> File \cup {Absent}] /\ gone' \subseteq Path
    BY DEF TypeOK, Edit
  <1>2. edits' \in 0..MaxEdits
    <2>1. edits \in 0..MaxEdits /\ edits < MaxEdits /\ edits' = edits + 1
      BY DEF TypeOK, Edit
    <2> QED BY <2>1, BoundAssumption
  <1>3. /\ \A q \in Path : index'[q] # Absent =>
              /\ index'[q].content \in Content
              /\ index'[q].fp = Fingerprint(index'[q].content)
              /\ index'[q].size \in Nat /\ index'[q].mtime \in Nat /\ index'[q].mode \in Mode
        /\ DOMAIN index' = Path
        /\ head' = Absent \/ head' \in [Path -> Content \cup {Absent}]
    BY <1>1 DEF TypeOK, Edit
  <1>4. /\ cmd' \in Commands \cup {"none"} /\ pc' \in Steps
        /\ todo' \subseteq Path /\ found' \subseteq Path
        /\ info' \in StatInfo \cup {Absent} /\ data' \in Content \cup {<<>>}
    BY DEF TypeOK, Edit
  <1>5. runs' \in 0..MaxRuns /\ calm' \in BOOLEAN
    BY DEF TypeOK, Edit
  <1> QED BY <1>1, <1>2, <1>3, <1>4, <1>5 DEF TypeOK

\* Beginning a command keeps the types.
LEMMA BeginType ==
    ASSUME TypeOK, NEW c \in Commands, Begin(c), todo' \subseteq Path, pc' \in Steps
    PROVE  TypeOK'
  BY BoundAssumption DEF TypeOK, Begin, Present

\* A step within a command keeps the types, and so does leaving the index alone.
LEMMA RunningType ==
    ASSUME TypeOK, Running, todo' \subseteq Path, found' \subseteq Path, pc' \in Steps,
           info' \in StatInfo \cup {Absent}, data' \in Content \cup {<<>>},
           index' = index
           \/ \E p \in Path, c \in Content, s \in StatInfo :
                 index' = [index EXCEPT ![p] = Entry(c, s)]
    PROVE  TypeOK'
  <1>1. /\ \A p \in Path : index'[p] # Absent =>
              /\ index'[p].content \in Content
              /\ index'[p].fp = Fingerprint(index'[p].content)
              /\ index'[p].size \in Nat /\ index'[p].mtime \in Nat /\ index'[p].mode \in Mode
        /\ DOMAIN index' = Path
    <2>1. CASE index' = index
      BY <2>1 DEF TypeOK
    <2>2. CASE \E p \in Path, c \in Content, s \in StatInfo :
                  index' = [index EXCEPT ![p] = Entry(c, s)]
      BY <2>2, EntryType DEF TypeOK
    <2> QED BY <2>1, <2>2
  <1> QED BY <1>1 DEF TypeOK, Running, user

-----------------------------------------------------------------------------
(* The inductive step *)

\* A command that does not enter anything, and is not between its stat and its
\* entry afterwards, keeps the invariant; "walk" stands for all such steps.
LEMMA QuietStep ==
    ASSUME IInv, TypeOK', pc' \notin {"read", "enter"},
           UNCHANGED <<work, index, clock, quiet>>
    PROVE  IInv'
  BY DEF IInv, StepOK, TimesOK, SameTime

\* An edit is later than everything, or leaves the content alone, or is quiet.
LEMMA EditStep ==
    ASSUME IInv, TypeOK', NEW p \in Path, NEW f, Edit(p, f), clock \in Nat,
           clock' \in Nat, clock <= clock', quiet \subseteq quiet',
           f # Absent =>
              /\ f.mtime \in Nat /\ f.mtime <= clock'
              /\ \/ p \in quiet'
                 \/ f.mtime > clock
                 \/ /\ work[p] # Absent
                    /\ f.mtime = work[p].mtime /\ f.content = work[p].content
    PROVE  IInv'
  <1>1. /\ work' = [work EXCEPT ![p] = f] /\ DOMAIN work = Path
        /\ UNCHANGED <<index, pc, todo, info, data>>
    BY DEF Edit, IInv, TypeOK
  <1>2. StepOK'
    BY <1>1 DEF IInv, StepOK
  <1>3. \A q \in Path : index[q] # Absent => index[q].mtime \in Nat /\ index[q].mtime <= clock
    BY DEF IInv, TypeOK, TimesOK
  <1>4. pc \in {"read", "enter"} => info.mtime \in Nat /\ info.mtime <= clock
    BY DEF IInv, StepOK, TimesOK, StatInfo
  <1>5. \A q \in Path : work[q] # Absent => work[q].mtime \in Nat /\ work[q].mtime <= clock
    BY DEF IInv, TypeOK, TimesOK, File
  <1>6. TimesOK'
    BY <1>1, <1>3, <1>4, <1>5 DEF TimesOK
  <1>7. ASSUME NEW q \in Path \ quiet', work'[q] # Absent, index[q] # Absent,
               work'[q].mtime = index[q].mtime
        PROVE  work'[q].content = index[q].content
    <2>1. CASE q # p
      BY <1>1, <1>7, <2>1 DEF IInv, SameTime
    <2>2. CASE q = p
      BY <1>1, <1>3, <1>7, <2>2 DEF IInv, SameTime
    <2> QED BY <2>1, <2>2
  <1>8. ASSUME NEW q \in Path \ quiet', pc = "enter", ToDo(q), work'[q] # Absent,
               work'[q].mtime = info.mtime
        PROVE  work'[q].content = data
    <2>1. CASE q # p
      BY <1>1, <1>8, <2>1 DEF IInv, SameTime
    <2>2. CASE q = p
      BY <1>1, <1>4, <1>8, <2>2 DEF IInv, SameTime
    <2> QED BY <2>1, <2>2
  <1>9. SameTime'
    BY <1>1, <1>7, <1>8 DEF SameTime, ToDo
  <1> QED BY <1>2, <1>6, <1>9 DEF IInv

\* A command enters the content it read with the stat from before.
LEMMA EnterStep ==
    ASSUME IInv, TypeOK', NEW p \in Path, pc = "enter", ToDo(p), pc' \notin {"read", "enter"},
           index' = [index EXCEPT ![p] = NewEntry(p)], UNCHANGED <<work, clock, quiet>>
    PROVE  IInv'
  <1>1. DOMAIN index = Path /\ info \in StatInfo /\ data \in Content
    BY DEF IInv, TypeOK, StepOK
  <1>2. NewEntry(p).content = data /\ NewEntry(p).mtime = info.mtime
    BY <1>1, EntryType DEF NewEntry
  <1>3. TimesOK'
    BY <1>1, <1>2 DEF IInv, TimesOK
  <1>4. SameTime'
    BY <1>1, <1>2 DEF IInv, SameTime
  <1> QED BY <1>3, <1>4 DEF IInv, StepOK

\* Everything holds at the start.
LEMMA InitOK == Init => IInv
  <1> SUFFICES ASSUME Init PROVE IInv
    OBVIOUS
  <1>1. TypeOK
    BY BoundAssumption DEF Init, TypeOK, File, Steps, Path
  <1>2. \A p \in Path : work[p] # Absent => work[p].mtime = 0
    BY DEF Init
  <1> QED BY <1>1, <1>2 DEF Init, IInv, StepOK, TimesOK, SameTime

\* The edits of the user keep the invariant.
LEMMA UserKeeps == ASSUME IInv, Write \/ WriteQuietly \/ Chmod \/ Delete PROVE IInv'
  <1>1. TypeOK /\ clock \in Nat /\ quiet \subseteq Path
        /\ \A p \in Path : work[p] # Absent => work[p] \in File /\ work[p].mtime <= clock
    BY DEF IInv, TypeOK, TimesOK
  <1>2. CASE Write
    <2>1. PICK p \in Path, c \in Content, m \in Mode :
             /\ clock' = clock + 1 /\ quiet' = quiet
             /\ Edit(p, [content |-> c, mtime |-> clock + 1, mode |-> m])
      BY <1>2 DEF Write
    <2> DEFINE f == [content |-> c, mtime |-> clock + 1, mode |-> m]
    <2>2. f \in File /\ f.mtime \in Nat /\ f.mtime <= clock' /\ f.mtime > clock
          /\ clock' \in Nat /\ clock <= clock'
      BY <1>1, <2>1 DEF File
    <2>3. TypeOK'
      BY <1>1, <2>1, <2>2, EditType
    <2> QED BY <1>1, <2>1, <2>2, <2>3, EditStep
  <1>3. CASE WriteQuietly
    <2>1. PICK p \in Path, c \in Content :
             /\ work[p] # Absent /\ quiet' = quiet \cup {p} /\ clock' = clock
             /\ Edit(p, [work[p] EXCEPT !.content = c])
      BY <1>3 DEF WriteQuietly
    <2> DEFINE f == [work[p] EXCEPT !.content = c]
    <2>2. f \in File /\ f.mtime \in Nat /\ f.mtime <= clock' /\ Edit(p, f)
      BY <1>1, <2>1 DEF File
    <2> HIDE DEF f
    <2>3. TypeOK'
      BY <1>1, <2>1, <2>2, EditType
    <2>4. p \in quiet' /\ quiet \subseteq quiet' /\ clock' \in Nat /\ clock <= clock'
      BY <1>1, <2>1
    <2> QED BY <1>1, <2>2, <2>3, <2>4, EditStep
  <1>4. CASE Chmod
    <2>1. PICK p \in Path, m \in Mode :
             /\ work[p] # Absent /\ quiet' = quiet /\ clock' = clock
             /\ Edit(p, [work[p] EXCEPT !.mode = m])
      BY <1>4 DEF Chmod
    <2> DEFINE f == [work[p] EXCEPT !.mode = m]
    <2>2. f \in File /\ f.mtime \in Nat /\ f.mtime <= clock' /\ Edit(p, f)
          /\ f.mtime = work[p].mtime /\ f.content = work[p].content
      BY <1>1, <2>1 DEF File
    <2> HIDE DEF f
    <2>3. TypeOK'
      BY <1>1, <2>1, <2>2, EditType
    <2>4. quiet \subseteq quiet' /\ clock' \in Nat /\ clock <= clock'
      BY <1>1, <2>1
    <2> QED BY <1>1, <2>1, <2>2, <2>3, <2>4, EditStep
  <1>5. CASE Delete
    <2>1. PICK p \in Path : Edit(p, Absent) /\ quiet' = quiet /\ clock' = clock
      BY <1>5 DEF Delete
    <2>2. TypeOK'
      BY <1>1, <2>1, EditType
    <2> QED BY <1>1, <2>1, <2>2, EditStep
  <1> QED BY <1>2, <1>3, <1>4, <1>5

\* Beginning a command keeps the invariant.
LEMMA BeginKeeps ==
    ASSUME IInv, BeginWalk \/ BeginAdd \/ BeginCheck \/ BeginStaged \/ BeginCommit
    PROVE  IInv'
  <1>1. PICK c \in Commands : Begin(c)
    BY DEF BeginWalk, BeginAdd, BeginCheck, BeginStaged, BeginCommit, Walkers, Commands
  <1>2. todo' \subseteq Path /\ pc' \in Steps /\ pc' \notin {"read", "enter"}
    BY DEF BeginWalk, BeginAdd, BeginCheck, BeginStaged, BeginCommit, Steps, Present, Tracked
  <1>3. TypeOK'
    BY <1>1, <1>2, BeginType DEF IInv
  <1> QED BY <1>1, <1>2, <1>3, QuietStep DEF Begin

\* A step of the running command keeps the invariant.
LEMMA CommandKeeps ==
    ASSUME IInv,
           \/ Visit \/ Compare \/ WalkBroken \/ WalkEnd \/ LookForAbsent \/ LookEnd
           \/ TakeStat \/ ReadIt \/ AddIt \/ AddFails \/ CheckIt \/ CheckMissing \/ ListEnd
           \/ ScanEnd \/ Forget \/ Record
    PROVE  IInv'
  <1>1. TypeOK /\ todo \subseteq Path /\ found \subseteq Path /\ Absent \in StatInfo \cup {Absent}
        /\ info \in StatInfo \cup {Absent} /\ data \in Content \cup {<<>>}
        /\ <<>> \in Content \cup {<<>>} /\ Tracked \subseteq Path
    BY DEF IInv, TypeOK, Tracked
  <1>2. ASSUME Running, UNCHANGED index, UNCHANGED data, pc' \in Steps \ {"read", "enter"},
               todo' \subseteq Path, found' \subseteq Path, info' \in {info, Absent}
        PROVE  IInv'
    <2>1. TypeOK'
      BY <1>1, <1>2, RunningType
    <2> QED BY <1>2, <2>1, QuietStep DEF Running, user
  <1>3. CASE Visit
    <2>1. pc' \in {"walk", "stat", "compare"} /\ todo' \subseteq Path /\ found' \subseteq Path
      BY <1>1, <1>3 DEF Visit, Decide
    <2> QED BY <1>2, <1>3, <2>1 DEF Visit, Steps
  <1>4. CASE Compare
    <2>1. pc' \in {"walk", "stat"} /\ todo' \subseteq Path
      BY <1>1, <1>4 DEF Compare, Decide
    <2> QED BY <1>1, <1>2, <1>4, <2>1 DEF Compare, Steps
  <1>5. CASE WalkBroken
    BY <1>1, <1>2, <1>5 DEF WalkBroken, Steps
  <1>6. CASE WalkEnd
    BY <1>1, <1>2, <1>6 DEF WalkEnd, Steps
  <1>7. CASE LookForAbsent
    BY <1>1, <1>2, <1>7 DEF LookForAbsent, Steps
  <1>8. CASE LookEnd
    BY <1>1, <1>2, <1>8 DEF LookEnd, Steps
  <1>9. CASE TakeStat
    <2>1. PICK p \in Path : /\ work[p] # Absent /\ info' = Stat(p) /\ pc' = "read"
                            /\ UNCHANGED <<index, todo, report, found, data>> /\ Running
      BY <1>9 DEF TakeStat
    <2>2. info' \in StatInfo /\ info'.mtime = work[p].mtime /\ work[p].mtime <= clock
      BY <1>1, <2>1, StatType DEF IInv, TimesOK
    <2>3. TypeOK'
      BY <1>1, <2>1, <2>2, RunningType DEF Steps
    <2> QED BY <2>1, <2>2, <2>3 DEF IInv, StepOK, TimesOK, SameTime, Running, user
  <1>10. CASE ReadIt
    <2>1. PICK p \in Path : /\ pc = "read" /\ ToDo(p) /\ work[p] # Absent
                            /\ data' = work[p].content /\ pc' = "enter"
                            /\ UNCHANGED <<index, todo, found, info, report>> /\ Running
      BY <1>10 DEF ReadIt
    <2>2. data' \in Content /\ info' \in StatInfo /\ info'.mtime <= clock
      BY <1>1, <2>1 DEF IInv, TypeOK, StepOK, TimesOK, File
    <2>3. TypeOK'
      BY <1>1, <2>1, <2>2, RunningType DEF Steps
    <2>4. \A q \in Path : ToDo(q)' => q = p
      BY <1>1, <2>1, OneToDo DEF ToDo
    <2>5. StepOK' /\ TimesOK'
      BY <2>1, <2>2 DEF IInv, StepOK, TimesOK, Running, user
    <2>6. SameTime'
      BY <2>1, <2>4 DEF IInv, SameTime, Running, user
    <2> QED BY <2>3, <2>5, <2>6 DEF IInv
  <1>11. ASSUME NEW p \in Path, pc = "enter", ToDo(p), Running, After(p), found' = found,
                index' = [index EXCEPT ![p] = NewEntry(p)] \/ index' = index
         PROVE  IInv'
    <2>1. todo' \subseteq Path /\ info' = Absent /\ data' = <<>> /\ pc' \in {"walk", "stat"}
      BY <1>1, <1>11 DEF After
    <2>2. info \in StatInfo /\ data \in Content
      BY <1>11 DEF IInv, StepOK
    <2>3. TypeOK'
      BY <1>1, <1>11, <2>1, <2>2, RunningType DEF NewEntry, Steps
    <2>4. UNCHANGED <<work, clock, quiet>> /\ pc' \notin {"read", "enter"}
      BY <1>11, <2>1 DEF Running, user
    <2>5. CASE index' = index
      BY <2>3, <2>4, <2>5, QuietStep
    <2>6. CASE index' = [index EXCEPT ![p] = NewEntry(p)]
      BY <1>11, <2>3, <2>4, <2>6, EnterStep
    <2> QED BY <1>11, <2>5, <2>6
  <1>12. CASE AddIt
    BY <1>11, <1>12 DEF AddIt
  <1>13. CASE AddFails
    BY <1>1, <1>2, <1>13 DEF AddFails, Steps
  <1>14. CASE CheckIt
    BY <1>11, <1>14 DEF CheckIt
  <1>15. CASE CheckMissing
    <2>1. PICK p \in Path : After(p) /\ Running /\ UNCHANGED <<index, found>>
      BY <1>15 DEF CheckMissing
    <2>2. todo' \subseteq Path /\ info' = Absent /\ data' = <<>> /\ pc' \in {"walk", "stat"}
      BY <1>1, <2>1 DEF After
    <2>3. TypeOK'
      BY <1>1, <2>1, <2>2, RunningType DEF Steps
    <2> QED BY <2>1, <2>2, <2>3, QuietStep DEF Running, user
  <1>16. CASE ListEnd
    BY <1>1, <1>2, <1>16 DEF ListEnd, Steps
  <1>17. CASE ScanEnd
    <2>1. pc' \in {"stat", "done"} /\ todo' \subseteq Path
      BY <1>17 DEF ScanEnd, Reported
    <2> QED BY <1>1, <1>2, <1>17, <2>1 DEF ScanEnd, Steps
  <1>18. CASE Forget
    <2>1. /\ index' = [p \in Path |-> IF p \in Reported({"deleted"}) THEN Absent ELSE index[p]]
          /\ pc' \in {"done", "record"} /\ UNCHANGED <<todo, found, info, data, report>> /\ Running
      BY <1>18 DEF Forget
    <2>2. \A p \in Path : index'[p] # Absent => index'[p] = index[p] /\ index[p] # Absent
      BY <2>1
    <2>3. /\ \A p \in Path : index'[p] # Absent =>
                /\ index'[p].content \in Content
                /\ index'[p].fp = Fingerprint(index'[p].content)
                /\ index'[p].size \in Nat /\ index'[p].mtime \in Nat /\ index'[p].mode \in Mode
          /\ DOMAIN index' = Path
      BY <1>1, <2>1, <2>2 DEF TypeOK
    <2>4. TypeOK'
      BY <1>1, <2>1, <2>3 DEF TypeOK, Running, user, Steps
    <2> QED BY <2>1, <2>2, <2>4 DEF IInv, StepOK, TimesOK, SameTime, Running, user
  <1>19. CASE Record
    <2>1. /\ head' = [p \in Path |-> IF index[p] = Absent THEN Absent ELSE index[p].content]
          /\ pc' = "done"
          /\ UNCHANGED <<index, todo, found, info, data, report, cmd, runs, user>>
      BY <1>19 DEF Record
    <2>2. head' \in [Path -> Content \cup {Absent}]
      BY <1>1, <2>1 DEF TypeOK
    <2>3. TypeOK'
      BY <1>1, <2>1, <2>2 DEF TypeOK, user, Steps
    <2> QED BY <2>1, <2>3, QuietStep DEF user
  <1> QED BY <1>3, <1>4, <1>5, <1>6, <1>7, <1>8, <1>9, <1>10, <1>12, <1>13, <1>14,
             <1>15, <1>16, <1>17, <1>18, <1>19

\* The invariant is kept by every step.
LEMMA StepKeeps == IInv /\ [Next]_vars => IInv'
  <1> SUFFICES ASSUME IInv, [Next]_vars PROVE IInv'
    OBVIOUS
  <1>1. CASE UNCHANGED vars
    BY <1>1 DEF vars, IInv, TypeOK, StepOK, TimesOK, SameTime, ToDo
  <1>2. CASE Next
    BY <1>2, UserKeeps, BeginKeeps, CommandKeeps DEF Next
  <1> QED BY <1>1, <1>2

LEMMA AlwaysIInv == Spec => []IInv
  <1> QED BY InitOK, StepKeeps, PTL DEF Spec

\* The variables keep their types.
THEOREM TypeCorrect == Spec => []TypeOK
  <1>1. IInv => TypeOK
    BY DEF IInv
  <1> QED BY <1>1, AlwaysIInv, PTL

\* Dirty's shortcut is sound (Index.Dirty, addFile): whatever the user does
\* between the stat and the read of a command, a file whose size and mtime are
\* those of its entry has the entry's content, if its writes had times of their
\* own.
THEOREM StatShortcutSound == Spec => []CleanIsSame
  <1>1. IInv => CleanIsSame
    BY DEF IInv, SameTime, CleanIsSame, SameStat, Stat, Present, Tracked
  <1> QED BY <1>1, AlwaysIInv, PTL

-----------------------------------------------------------------------------
(* What check --fix has done so far *)

\* The entries it has visited have the contents of their files, those without a
\* file are reported, and it ends when none is left.
Fixing ==
    cmd = "fix" =>
        /\ pc \in {"stat", "read", "enter", "done"}
        /\ pc = "done" /\ calm => todo = {}
        /\ calm =>
              /\ todo \subseteq Tracked
              /\ \A p \in (Present \cap Tracked) \ todo : index[p].content = work[p].content
              /\ \A p \in Path : <<"missing", p>> \in report <=> p \in (Tracked \ Present) \ todo
              /\ pc = "enter" =>
                    \A p \in Path : ToDo(p) => work[p] # Absent /\ data = work[p].content

\* The loop of check --fix, one file at a time.
LEMMA FixKeeps == IInv /\ Fixing /\ [Next]_vars => Fixing'
  <1> SUFFICES ASSUME IInv, Fixing, [Next]_vars PROVE Fixing'
    OBVIOUS
  <1>1. TypeOK /\ DOMAIN index = Path
    BY DEF IInv, TypeOK
  <1>2. CASE UNCHANGED vars
    BY <1>2 DEF vars, Fixing, Tracked, Present, ToDo
  <1>3. CASE Write \/ WriteQuietly \/ Chmod \/ Delete
    <2>1. calm' = FALSE /\ UNCHANGED <<cmd, pc>>
      BY <1>3 DEF Write, WriteQuietly, Chmod, Delete, Edit
    <2> QED BY <2>1 DEF Fixing
  <1>4. CASE BeginWalk \/ BeginAdd \/ BeginStaged \/ BeginCommit
    <2>1. cmd' # "fix"
      BY <1>4 DEF BeginWalk, BeginAdd, BeginStaged, BeginCommit, Begin, Walkers
    <2> QED BY <2>1 DEF Fixing
  <1>5. CASE BeginCheck
    <2>1. /\ todo' = Tracked /\ report' = {} /\ pc' = "stat"
          /\ UNCHANGED <<work, index>>
      BY <1>5 DEF BeginCheck, Begin
    <2> QED BY <2>1 DEF Fixing, Tracked, Present
  <1>6. CASE \/ Visit \/ Compare \/ WalkBroken \/ WalkEnd \/ LookForAbsent \/ LookEnd
             \/ AddIt \/ AddFails \/ ScanEnd \/ Forget \/ Record
    <2>1. cmd # "fix" /\ cmd' = cmd
      BY <1>6 DEF Fixing, Visit, Compare, WalkBroken, WalkEnd, LookForAbsent, LookEnd,
                  AddIt, AddFails, ScanEnd, Forget, Record, Running
    <2> QED BY <2>1 DEF Fixing
  <1>7. CASE TakeStat
    <2>1. pc' = "read" /\ UNCHANGED <<cmd, work, index, calm, todo, report>>
      BY <1>7 DEF TakeStat, Running, user
    <2>2. pc = "stat"
      BY <1>7 DEF TakeStat
    <2> QED BY <2>1, <2>2 DEF Fixing, Tracked, Present
  <1>8. CASE ReadIt
    <2>1. PICK p \in Path : /\ ToDo(p) /\ work[p] # Absent /\ data' = work[p].content
                            /\ pc' = "enter"
                            /\ UNCHANGED <<cmd, work, index, calm, todo, report>>
      BY <1>8 DEF ReadIt, Running, user
    <2>2. \A q \in Path : ToDo(q)' => q = p
      BY <1>1, <2>1, OneToDo DEF ToDo
    <2> QED BY <2>1, <2>2 DEF Fixing, Tracked, Present
  <1>9. CASE CheckIt
    <2>1. PICK p \in Path :
             /\ pc = "enter" /\ ToDo(p)
             /\ report' = IF Differs(p) THEN report \cup {<<"modified", p>>} ELSE report
             /\ index' = IF cmd = "fix" /\ Differs(p)
                         THEN [index EXCEPT ![p] = NewEntry(p)] ELSE index
             /\ todo' = todo \ {p} /\ pc' \in {"walk", "stat"} /\ (cmd = "fix" => pc' = "stat")
             /\ UNCHANGED <<cmd, work, calm>>
      BY <1>9 DEF CheckIt, After, Running, user
    <2> SUFFICES ASSUME cmd = "fix", calm
                 PROVE  /\ todo' \subseteq Tracked'
                        /\ \A q \in (Present' \cap Tracked') \ todo' :
                              index'[q].content = work'[q].content
                        /\ \A q \in Path :
                              <<"missing", q>> \in report' <=> q \in (Tracked' \ Present') \ todo'
      BY <2>1 DEF Fixing
    <2>2. work[p] # Absent /\ data = work[p].content /\ todo \subseteq Tracked
      BY <2>1 DEF Fixing
    <2>3. \A q \in Path \ {p} : index'[q] = index[q]
      BY <1>1, <2>1
    <2>4. Present' = Present /\ Tracked' \ {p} = Tracked \ {p} /\ p \in Present
      BY <2>1, <2>2, <2>3 DEF Present, Tracked
    <2>5. index'[p].content = work[p].content
      BY <1>1, <2>1, <2>2 DEF Differs, NewEntry, Entry
    <2>6. todo' \subseteq Tracked'
      BY <2>1, <2>2, <2>4
    <2>7. \A q \in (Present' \cap Tracked') \ todo' : index'[q].content = work'[q].content
      BY <2>1, <2>3, <2>4, <2>5 DEF Fixing, Present
    <2>8. \A q \in Path : <<"missing", q>> \in report' <=> <<"missing", q>> \in report
      BY <2>1
    <2>9. \A q \in Path : <<"missing", q>> \in report' <=> q \in (Tracked' \ Present') \ todo'
      BY <2>1, <2>4, <2>8 DEF Fixing
    <2> QED BY <2>6, <2>7, <2>9
  <1>10. CASE CheckMissing
    <2>1. PICK p \in Path :
             /\ pc \in {"stat", "read"} /\ ToDo(p) /\ work[p] = Absent
             /\ report' = report \cup {<<"missing", p>>}
             /\ todo' = todo \ {p} /\ (cmd = "fix" => pc' = "stat")
             /\ UNCHANGED <<cmd, work, calm, index>>
      BY <1>10 DEF CheckMissing, After, Running, user
    <2> SUFFICES ASSUME cmd = "fix", calm
                 PROVE  /\ todo' \subseteq Tracked'
                        /\ \A q \in (Present' \cap Tracked') \ todo' :
                              index'[q].content = work'[q].content
                        /\ \A q \in Path :
                              <<"missing", q>> \in report' <=> q \in (Tracked' \ Present') \ todo'
      BY <2>1 DEF Fixing
    <2>2. Present' = Present /\ Tracked' = Tracked /\ p \notin Present /\ p \in todo
      BY <2>1 DEF Present, Tracked, ToDo
    <2>3. /\ todo \subseteq Tracked
          /\ \A q \in (Present \cap Tracked) \ todo : index[q].content = work[q].content
          /\ \A q \in Path : <<"missing", q>> \in report <=> q \in (Tracked \ Present) \ todo
      BY DEF Fixing
    <2>4. \A q \in Path : <<"missing", q>> \in report' <=>
                             <<"missing", q>> \in report \/ q = p
      BY <2>1
    <2>5. todo' \subseteq Tracked'
          /\ (Tracked' \ Present') \ todo' = ((Tracked \ Present) \ todo) \cup {p}
      <3>1. todo' = todo \ {p} /\ p \in Tracked
        BY <2>1, <2>2, <2>3
      <3> QED BY <2>2, <2>3, <3>1
    <2>6. ASSUME NEW q \in (Present' \cap Tracked') \ todo'
          PROVE  index'[q].content = work'[q].content
      <3>1. q \in (Present \cap Tracked) \ todo /\ index' = index /\ work' = work
        BY <2>1, <2>2, <2>6
      <3> QED BY <2>3, <3>1
    <2>7. ASSUME NEW q \in Path
          PROVE  <<"missing", q>> \in report' <=> q \in (Tracked' \ Present') \ todo'
      <3>1. q \in (Tracked' \ Present') \ todo' <=> q \in (Tracked \ Present) \ todo \/ q = p
        BY <2>5
      <3>2. <<"missing", q>> \in report <=> q \in (Tracked \ Present) \ todo
        BY <2>3
      <3>3. <<"missing", q>> \in report' <=> <<"missing", q>> \in report \/ q = p
        BY <2>4
      <3> QED BY <3>1, <3>2, <3>3
    <2> QED BY <2>5, <2>6, <2>7
  <1>11. CASE ListEnd
    <2>1. /\ todo = {} /\ (cmd = "fix" => pc' = "done")
          /\ UNCHANGED <<cmd, work, index, calm, todo, report>>
      BY <1>11 DEF ListEnd, Running, user
    <2> QED BY <2>1 DEF Fixing, Tracked, Present
  <1> QED BY <1>2, <1>3, <1>4, <1>5, <1>6, <1>7, <1>8, <1>9, <1>10, <1>11 DEF Next

\* check --fix repairs what neither stat nor fingerprint can show (check.go): if
\* nobody disturbs it, all entries with a file have its content in the end, and
\* it has named just those without one.
THEOREM CheckFixRepairs == Spec => []CheckRepairs
  <1>1. Init => Fixing
    BY DEF Init, Fixing
  <1>2. Fixing => CheckRepairs
    BY DEF Fixing, CheckRepairs, Reported, Tracked, Present
  <1> QED BY <1>1, <1>2, FixKeeps, AlwaysIInv, PTL DEF Spec

-----------------------------------------------------------------------------
(* What add --all and sync have staged so far *)

\* A file the index has, as far as a fingerprint tells.
Known(p) ==
    /\ p \in Tracked
    /\ p \notin quiet => index[p].fp = Fingerprint(work[p].content)

\* What an undisturbed command has read is the content of the file.
Fresh ==
    calm /\ pc = "enter" => \A p \in Path : ToDo(p) => work[p] # Absent /\ data = work[p].content

\* The files add --all has done are known.
AddingAll ==
    cmd = "addall" /\ calm =>
        /\ pc \in {"walk", "compare", "stat", "read", "enter", "done"}
        /\ todo \subseteq Present /\ (pc = "done" => todo = {})
        /\ \A p \in Present \ todo : Known(p)

\* The files sync has walked past are known or reported, the reported ones are
\* entered next, and the entries without a file go last.
Syncing ==
    cmd = "sync" /\ calm =>
        /\ pc \in {"walk", "compare", "scanned", "stat", "read", "enter", "forget", "record", "done"}
        /\ todo \subseteq Present
        /\ pc \in {"walk", "compare", "scanned"} =>
              /\ Present \ todo \subseteq found /\ found \subseteq Present
              /\ Reported({"deleted"}) = {} /\ Reported({"added", "modified"}) \subseteq Present
              /\ \A p \in Present \ todo : Known(p) \/ p \in Reported({"added", "modified"})
              /\ pc = "compare" => \A p \in Path : ToDo(p) => p \in found
        /\ pc \in {"scanned", "forget"} => todo = {}
        /\ pc \in {"stat", "read", "enter", "forget"} =>
              /\ \A p \in Present \ todo : Known(p)
              /\ Tracked \subseteq Present \cup Reported({"deleted"})
              /\ Reported({"deleted"}) \cap Present = {}
        /\ pc \in {"record", "done"} => Tracked \subseteq Present /\ \A p \in Present : Known(p)

\* Status reports what is staged first, then the files it does not know, and the
\* entries without a file in the end.
Looking ==
    cmd = "status" /\ calm =>
        /\ pc \in {"walk", "compare", "absent", "done"}
        /\ StagedNew \cup StagedDeleted \subseteq report
        /\ pc \in {"walk", "compare"} => todo \subseteq Present
        /\ report = {} =>
              /\ pc \in {"walk", "compare"} => \A p \in Present \ todo : Known(p)
              /\ pc = "absent" => (\A p \in Present : Known(p)) /\ Tracked \ todo \subseteq Present
              /\ pc = "done" => (\A p \in Present : Known(p)) /\ Tracked \subseteq Present

\* Dirty and clean alike: a file the shortcut passes is known.
LEMMA ShortcutKnown ==
    ASSUME IInv, NEW p \in Path, work[p] # Absent, index[p] # Absent, SameStat(index[p], Stat(p))
    PROVE  Known(p)
  <1>1. work[p].mtime = index[p].mtime
    BY DEF SameStat, Stat
  <1>2. p \notin quiet => work[p].content = index[p].content
    BY <1>1 DEF IInv, SameTime
  <1> QED BY <1>2 DEF Known, Tracked, IInv, TypeOK

\* A file stays known while neither it nor its entry changes.
LEMMA KnownStays ==
    ASSUME NEW p \in Path, Known(p), UNCHANGED <<work, quiet>>, index'[p] = index[p]
    PROVE  Known(p)'
  BY DEF Known, Tracked

\* A file that is entered with its content is known.
LEMMA KnownEntered ==
    ASSUME TypeOK, NEW p \in Path, work[p] # Absent, data = work[p].content,
           info \in StatInfo, data \in Content,
           UNCHANGED <<work, quiet>>, index' = [index EXCEPT ![p] = NewEntry(p)]
    PROVE  Known(p)'
  <1>1. index'[p] = Entry(data, info)
    BY DEF TypeOK, NewEntry
  <1>2. index'[p].fp = Fingerprint(data)
    BY <1>1 DEF Entry
  <1>3. index'[p] # Absent
    <2>1. Entry(data, info) \in EntryInfo
      BY DEF Entry, EntryInfo, StatInfo
    <2> QED BY <1>1, <2>1, AbsentAssumption
  <1> QED BY <1>2, <1>3 DEF Known, Tracked

\* The steps of the user, of the start of a command, and of a command.
Edits == Write \/ WriteQuietly \/ Chmod \/ Delete
Begins == BeginWalk \/ BeginAdd \/ BeginCheck \/ BeginStaged \/ BeginCommit

\* An edit disturbs the command.
LEMMA EditDisturbs == ASSUME Edits PROVE calm' = FALSE /\ UNCHANGED <<cmd, pc>>
  BY DEF Edits, Write, WriteQuietly, Chmod, Delete, Edit

\* What has been read is what the file holds.
LEMMA FreshKeeps == IInv /\ Fresh /\ [Next]_vars => Fresh'
  <1> SUFFICES ASSUME IInv, Fresh, [Next]_vars PROVE Fresh'
    OBVIOUS
  <1>1. CASE UNCHANGED vars
    BY <1>1 DEF vars, Fresh, ToDo
  <1>2. CASE Edits
    BY <1>2, EditDisturbs DEF Fresh
  <1>3. CASE Begins
    <2>1. pc' # "enter"
      BY <1>3 DEF Begins, BeginWalk, BeginAdd, BeginCheck, BeginStaged, BeginCommit
    <2> QED BY <2>1 DEF Fresh
  <1>4. CASE ReadIt
    <2>1. PICK p \in Path : /\ ToDo(p) /\ work[p] # Absent /\ data' = work[p].content
                            /\ UNCHANGED <<work, todo>>
      BY <1>4 DEF ReadIt, Running, user
    <2>2. \A q \in Path : ToDo(q)' => q = p
      BY <2>1, OneToDo DEF IInv, ToDo
    <2> QED BY <2>1, <2>2 DEF Fresh
  <1>5. CASE \/ Visit \/ Compare \/ WalkBroken \/ WalkEnd \/ LookForAbsent \/ LookEnd
             \/ TakeStat \/ AddIt \/ AddFails \/ CheckIt \/ CheckMissing \/ ListEnd
             \/ ScanEnd \/ Forget \/ Record
    <2>1. pc' # "enter"
      BY <1>5 DEF Visit, Compare, Decide, WalkBroken, WalkEnd, LookForAbsent, LookEnd, TakeStat,
                  AddIt, AddFails, CheckIt, CheckMissing, After, ListEnd, ScanEnd, Forget, Record
    <2> QED BY <2>1 DEF Fresh
  <1> QED BY <1>1, <1>2, <1>3, <1>4, <1>5 DEF Next, Edits, Begins

\* The file next to do.
LEMMA ToDoIn == ASSUME NEW p, ToDo(p) PROVE p \in todo
  BY DEF ToDo

\* add --all, one file at a time.
LEMMA AddingAllKeeps == IInv /\ Fresh /\ AddingAll /\ [Next]_vars => AddingAll'
  <1> SUFFICES ASSUME IInv, Fresh, AddingAll, [Next]_vars, (cmd = "addall")', calm'
               PROVE  AddingAll'
    BY DEF AddingAll
  <1>1. TypeOK /\ DOMAIN index = Path
    BY DEF IInv, TypeOK
  <1>2. CASE UNCHANGED vars
    BY <1>2 DEF vars, AddingAll, Known, Tracked, Present
  <1>3. CASE Edits
    BY <1>3, EditDisturbs
  <1>4. CASE Begins
    <2>1. todo' = Present /\ pc' = "walk" /\ work' = work
      BY <1>4 DEF Begins, BeginWalk, BeginAdd, BeginCheck, BeginStaged, BeginCommit, Begin
    <2> QED BY <2>1 DEF AddingAll, Present
  <1> DEFINE Walks == \/ Visit \/ Compare \/ WalkBroken \/ WalkEnd
             Enters == \/ TakeStat \/ ReadIt \/ AddIt \/ AddFails \/ ListEnd
             Others == \/ LookForAbsent \/ LookEnd \/ CheckIt \/ CheckMissing
                       \/ ScanEnd \/ Forget \/ Record
  <1>5. CASE Walks \/ Enters \/ Others
    <2>1. cmd = "addall" /\ calm /\ UNCHANGED <<work, quiet>> /\ Present' = Present
      BY <1>5 DEF Visit, Compare, WalkBroken, WalkEnd, TakeStat, ReadIt, AddIt, AddFails, ListEnd,
                  LookForAbsent, LookEnd, CheckIt, CheckMissing, ScanEnd, Forget, Record, Running,
                  user, Present
    <2>2. /\ pc \in {"walk", "compare", "stat", "read", "enter", "done"}
          /\ todo \subseteq Present /\ (pc = "done" => todo = {})
          /\ \A p \in Present \ todo : Known(p)
      BY <2>1 DEF AddingAll
    <2>3. ~Others
      BY <2>1, <2>2 DEF LookForAbsent, LookEnd, CheckIt, CheckMissing, ScanEnd, Forget, Record
    <2>4. ASSUME index' = index, todo' = todo,
                 pc' \in {"walk", "compare", "stat", "read", "enter", "done"},
                 pc' = "done" => todo = {}
          PROVE  AddingAll'
      <3>1. \A p \in Present \ todo : Known(p)'
        BY <2>1, <2>2, <2>4, KnownStays DEF Present
      <3> QED BY <2>1, <2>2, <2>4, <3>1 DEF AddingAll
    <2>5. ASSUME NEW p \in Path, NEW dirty, ToDo(p), index' = index, Decide(p, dirty),
                 ~dirty /\ index[p] # Absent => Known(p)
          PROVE  AddingAll'
      <3>1. CASE Verdict(p, dirty) # {}
        BY <2>1, <2>4, <2>5, <3>1 DEF Decide
      <3>2. CASE Verdict(p, dirty) = {}
        <4>1. index[p] # Absent /\ ~dirty
          BY <2>1, <3>2 DEF Verdict
        <4>2. todo' = todo \ {p} /\ pc' = "walk"
          BY <2>5, <3>2 DEF Decide
        <4>3. \A q \in Present \ todo' : Known(q)'
          BY <2>1, <2>2, <2>5, <4>1, <4>2, KnownStays DEF Present
        <4> QED BY <2>1, <2>2, <4>2, <4>3 DEF AddingAll
      <3> QED BY <3>1, <3>2
    <2>6. CASE Visit
      <3>1. PICK p \in Path :
               /\ ToDo(p) /\ work[p] # Absent /\ index' = index
               /\ IF index[p] = Absent \/ SameStat(index[p], Stat(p))
                  THEN Decide(p, index[p] = Absent \/ index[p].mode # work[p].mode)
                  ELSE pc' = "compare" /\ todo' = todo
        BY <2>6 DEF Visit
      <3>2. CASE index[p] = Absent \/ SameStat(index[p], Stat(p))
        <4>1. index[p] # Absent => Known(p)
          BY <3>1, <3>2, ShortcutKnown
        <4> QED BY <2>5, <3>1, <3>2, <4>1
      <3>3. CASE ~(index[p] = Absent \/ SameStat(index[p], Stat(p)))
        BY <2>4, <3>1, <3>3
      <3> QED BY <3>2, <3>3
    <2>7. CASE Compare
      <3>1. PICK p \in Path :
               /\ ToDo(p) /\ index' = index
               /\ Decide(p, work[p] = Absent \/ Fingerprint(work[p].content) # index[p].fp)
        BY <2>7 DEF Compare
      <3> DEFINE dirty == work[p] = Absent \/ Fingerprint(work[p].content) # index[p].fp
      <3>2. ~dirty /\ index[p] # Absent => Known(p)
        BY DEF Known, Tracked
      <3> QED BY <2>5, <3>1, <3>2
    <2>8. CASE WalkEnd \/ WalkBroken
      <3>1. ~WalkBroken
        BY <2>2, ToDoIn DEF WalkBroken, Present
      <3>2. todo = {} /\ todo' = todo /\ index' = index /\ pc' = "done"
        BY <2>1, <2>8, <3>1 DEF WalkEnd
      <3> QED BY <2>4, <3>2
    <2>9. CASE TakeStat \/ ReadIt \/ ListEnd
      <3>1. /\ index' = index /\ todo' = todo /\ pc' \in {"read", "enter", "done"}
            /\ pc' = "done" => todo = {}
        BY <2>1, <2>9 DEF TakeStat, ReadIt, ListEnd
      <3> QED BY <2>4, <3>1
    <2>10. CASE AddFails
      BY <2>2, <2>10, ToDoIn DEF AddFails, Present
    <2>11. CASE AddIt
      <3>1. PICK p \in Path : /\ pc = "enter" /\ ToDo(p) /\ index' = [index EXCEPT ![p] = NewEntry(p)]
                              /\ todo' = todo \ {p} /\ pc' = "walk"
        BY <2>1, <2>11 DEF AddIt, After
      <3>2. work[p] # Absent /\ data = work[p].content /\ info \in StatInfo /\ data \in Content
        BY <2>1, <3>1 DEF Fresh, IInv, StepOK
      <3>3. Known(p)'
        BY <1>1, <2>1, <3>1, <3>2, KnownEntered
      <3>4. ASSUME NEW q \in Present \ todo, q # p PROVE Known(q)'
        <4>1. q \in Path /\ index'[q] = index[q]
          BY <1>1, <3>1, <3>4 DEF Present
        <4> QED BY <2>1, <2>2, <3>4, <4>1, KnownStays
      <3> QED BY <2>1, <2>2, <3>1, <3>3, <3>4 DEF AddingAll
    <2> QED BY <1>5, <2>3, <2>6, <2>7, <2>8, <2>9, <2>10, <2>11
  <1> QED BY <1>2, <1>3, <1>4, <1>5 DEF Next, Edits, Begins

\* sync: the walk, the files it reported, and the entries it drops.
LEMMA SyncingKeeps == IInv /\ Fresh /\ Syncing /\ [Next]_vars => Syncing'
  <1> SUFFICES ASSUME IInv, Fresh, Syncing, [Next]_vars, (cmd = "sync")', calm'
               PROVE  Syncing'
    BY DEF Syncing
  <1>1. TypeOK /\ DOMAIN index = Path
    BY DEF IInv, TypeOK
  <1>2. CASE UNCHANGED vars
    BY <1>2 DEF vars, Syncing, Known, Tracked, Present, Reported, ToDo
  <1>3. CASE Edits
    BY <1>3, EditDisturbs
  <1>4. CASE Begins
    <2>1. /\ todo' = Present /\ pc' = "walk" /\ report' = {} /\ found' = {} /\ work' = work
      BY <1>4 DEF Begins, BeginWalk, BeginAdd, BeginCheck, BeginStaged, BeginCommit, Begin
    <2> QED BY <2>1 DEF Syncing, Present, Reported
  <1> DEFINE Walks == \/ Visit \/ Compare \/ WalkBroken \/ WalkEnd \/ ScanEnd
             Enters == \/ TakeStat \/ ReadIt \/ AddIt \/ AddFails \/ ListEnd \/ Forget \/ Record
             Others == \/ LookForAbsent \/ LookEnd \/ CheckIt \/ CheckMissing
             Dealt == Reported({"added", "modified"})
             Dropped == Reported({"deleted"})
  <1>5. CASE Walks \/ Enters \/ Others
    <2>1. cmd = "sync" /\ calm /\ UNCHANGED <<work, quiet>> /\ Present' = Present
      BY <1>5 DEF Visit, Compare, WalkBroken, WalkEnd, TakeStat, ReadIt, AddIt, AddFails, ListEnd,
                  LookForAbsent, LookEnd, CheckIt, CheckMissing, ScanEnd, Forget, Record, Running,
                  user, Present
    <2>2. /\ pc \in {"walk", "compare", "scanned", "stat", "read", "enter", "forget", "record", "done"}
          /\ todo \subseteq Present
          /\ pc \in {"walk", "compare", "scanned"} =>
                /\ Present \ todo \subseteq found /\ found \subseteq Present
                /\ Dropped = {} /\ Dealt \subseteq Present
                /\ \A p \in Present \ todo : Known(p) \/ p \in Dealt
                /\ pc = "compare" => \A p \in Path : ToDo(p) => p \in found
          /\ pc \in {"scanned", "forget"} => todo = {}
          /\ pc \in {"stat", "read", "enter", "forget"} =>
                /\ \A p \in Present \ todo : Known(p)
                /\ Tracked \subseteq Present \cup Dropped
                /\ Dropped \cap Present = {}
          /\ pc \in {"record", "done"} => Tracked \subseteq Present /\ \A p \in Present : Known(p)
      BY <2>1 DEF Syncing
    <2>3. ~Others
      BY <2>1, <2>2 DEF LookForAbsent, LookEnd, CheckIt, CheckMissing
    <2>4. index' = index => (Tracked' = Tracked /\ \A p \in Present : Known(p) => Known(p)')
      BY <2>1, KnownStays DEF Tracked, Present
    <2>5. report' = report => Dealt' = Dealt /\ Dropped' = Dropped
      BY DEF Reported
    <2>6. ASSUME NEW p \in Path, NEW dirty, ToDo(p), index' = index, Decide(p, dirty),
                 ~dirty /\ index[p] # Absent => Known(p), work[p] # Absent,
                 pc \in {"walk", "compare"}, Present \ (todo \ {p}) \subseteq found', found' \subseteq Present
          PROVE  Syncing'
      <3>1. todo' = todo \ {p} /\ pc' = "walk" /\ report' = report \cup Verdict(p, dirty)
        BY <2>1, <2>6 DEF Decide
      <3>2. /\ Verdict(p, dirty) \in {{<<"added", p>>}, {<<"modified", p>>}, {}}
            /\ Verdict(p, dirty) = {} => index[p] # Absent /\ ~dirty
        BY <2>1 DEF Verdict
      <3>3. Dropped' = {}
        BY <2>2, <2>6, <3>1, <3>2 DEF Reported
      <3>4. /\ Dealt \subseteq Dealt' /\ Dealt' \subseteq Dealt \cup {p}
            /\ Verdict(p, dirty) # {} => p \in Dealt'
        BY <2>6, <3>1, <3>2 DEF Reported
      <3>5. \A q \in Present \ todo' : Known(q)' \/ q \in Dealt'
        BY <2>2, <2>4, <2>6, <3>1, <3>2, <3>4
      <3>6. p \in Present
        BY <2>6 DEF Present
      <3> QED BY <2>1, <2>2, <2>6, <3>1, <3>3, <3>4, <3>5, <3>6 DEF Syncing
    <2>7. CASE Visit
      <3>1. PICK p \in Path :
               /\ pc = "walk" /\ ToDo(p) /\ work[p] # Absent /\ index' = index /\ found' = found \cup {p}
               /\ IF index[p] = Absent \/ SameStat(index[p], Stat(p))
                  THEN Decide(p, index[p] = Absent \/ index[p].mode # work[p].mode)
                  ELSE pc' = "compare" /\ todo' = todo /\ report' = report
        BY <2>7 DEF Visit
      <3>2. /\ p \in Present /\ found' \subseteq Present
            /\ Present \ (todo \ {p}) \subseteq found'
        BY <2>2, <3>1 DEF Present
      <3>3. CASE index[p] = Absent \/ SameStat(index[p], Stat(p))
        <4>1. index[p] # Absent => Known(p)
          BY <3>1, <3>3, ShortcutKnown
        <4> QED BY <2>6, <3>1, <3>2, <3>3, <4>1
      <3>4. CASE ~(index[p] = Absent \/ SameStat(index[p], Stat(p)))
        <4>1. /\ pc' = "compare" /\ todo' = todo /\ pc = "walk"
              /\ report' = report /\ index' = index
          BY <3>1, <3>4
        <4>2. Dropped' = {} /\ Dealt' \subseteq Present
          BY <2>2, <2>5, <4>1
        <4>3. \A q \in Present \ todo' : Known(q)' \/ q \in Dealt'
          BY <2>2, <2>4, <2>5, <4>1
        <4>4. \A q \in Path : ToDo(q)' => q \in found'
          BY <2>2, <3>1, <4>1, OneToDo DEF IInv, ToDo
        <4>5. todo' \subseteq Present /\ Present \ todo' \subseteq found'
          BY <2>2, <3>2, <4>1
        <4> HIDE DEF Dealt, Dropped
        <4>6. Dropped' = Reported({"deleted"})' /\ Dealt' = Reported({"added", "modified"})'
          BY DEF Dealt, Dropped
        <4> QED BY <2>1, <3>2, <4>1, <4>2, <4>3, <4>4, <4>5, <4>6 DEF Syncing
      <3> QED BY <3>3, <3>4
    <2>8. CASE Compare
      <3>1. PICK p \in Path :
               /\ pc = "compare" /\ ToDo(p) /\ index' = index /\ found' = found
               /\ Decide(p, work[p] = Absent \/ Fingerprint(work[p].content) # index[p].fp)
        BY <2>8 DEF Compare
      <3> DEFINE dirty == work[p] = Absent \/ Fingerprint(work[p].content) # index[p].fp
      <3>2. ~dirty /\ index[p] # Absent => Known(p)
        BY DEF Known, Tracked
      <3>3. p \in Present
        BY <2>2, <3>1, ToDoIn
      <3>4. work[p] # Absent /\ Present \ (todo \ {p}) \subseteq found /\ found \subseteq Present
        BY <2>2, <3>1, <3>3 DEF Present
      <3> QED BY <2>6, <3>1, <3>2, <3>4
    <2>9. CASE WalkEnd \/ WalkBroken
      <3>1. ~WalkBroken
        BY <2>2, ToDoIn DEF WalkBroken, Present
      <3>2. /\ pc = "walk" /\ todo = {} /\ todo' = {} /\ pc' = "scanned"
            /\ UNCHANGED <<index, report, found>>
        BY <2>1, <2>9, <3>1 DEF WalkEnd
      <3> QED BY <2>1, <2>2, <2>4, <2>5, <3>2 DEF Syncing
    <2>10. CASE ScanEnd
      <3>1. /\ pc = "scanned" /\ index' = index
            /\ report' = report \cup {<<"deleted", p>> : p \in Tracked \ found}
            /\ IF report' = {}
               THEN pc' = "done" /\ todo' = {}
               ELSE pc' = "stat" /\ todo' = Dealt
        BY <2>10 DEF ScanEnd
      <3>2. todo = {} /\ found = Present
        BY <2>2, <3>1
      <3>3. Dropped' = Tracked \ Present
        <4>1. \A p \in Path : <<"deleted", p>> \notin report
          BY <2>2, <3>1 DEF Reported
        <4>2. Tracked \subseteq Path
          BY DEF Tracked
        <4> QED BY <3>1, <3>2, <4>1, <4>2 DEF Reported
      <3>4. CASE report' = {}
        <4>1. Dealt = {} /\ Tracked \ Present = {}
          BY <3>1, <3>2, <3>4 DEF Reported
        <4> QED BY <2>1, <2>2, <2>4, <3>1, <3>2, <3>4, <4>1 DEF Syncing
      <3>5. CASE report' # {}
        <4>1. \A p \in Present \ todo' : Known(p)'
          BY <2>2, <2>4, <3>1, <3>2, <3>5
        <4>2. pc' = "stat" /\ todo' \subseteq Present
          BY <2>2, <3>1, <3>5
        <4>3. Tracked' \subseteq Present \cup Dropped' /\ Dropped' \cap Present = {}
          BY <2>4, <3>1, <3>3
        <4> QED BY <2>1, <4>1, <4>2, <4>3 DEF Syncing
      <3> QED BY <3>4, <3>5
    <2>11. CASE TakeStat \/ ReadIt \/ ListEnd
      <3>1. /\ pc \in {"stat", "read"} /\ pc' \in {"read", "enter", "forget"}
            /\ pc' = "forget" => todo = {}
            /\ UNCHANGED <<index, todo, report>>
        BY <2>1, <2>11 DEF TakeStat, ReadIt, ListEnd
      <3> QED BY <2>1, <2>2, <2>4, <2>5, <3>1 DEF Syncing
    <2>12. CASE AddFails
      BY <2>2, <2>12, ToDoIn DEF AddFails, Present
    <2>13. CASE AddIt
      <3>1. PICK p \in Path : /\ pc = "enter" /\ ToDo(p) /\ index' = [index EXCEPT ![p] = NewEntry(p)]
                              /\ todo' = todo \ {p} /\ pc' = "stat" /\ report' = report
        BY <2>1, <2>13 DEF AddIt, After
      <3>2. work[p] # Absent /\ data = work[p].content /\ info \in StatInfo /\ data \in Content
        BY <2>1, <3>1 DEF Fresh, IInv, StepOK
      <3>3. Known(p)'
        BY <1>1, <2>1, <3>1, <3>2, KnownEntered
      <3>4. ASSUME NEW q \in Present \ todo, q # p PROVE Known(q)'
        <4>1. q \in Path /\ index'[q] = index[q]
          BY <1>1, <3>1, <3>4 DEF Present
        <4> QED BY <2>1, <2>2, <3>1, <3>4, <4>1, KnownStays
      <3>5. Tracked' \subseteq Tracked \cup {p} /\ p \in Present
        BY <1>1, <3>1, <3>2 DEF Tracked, Present
      <3>6. \A q \in Present \ todo' : Known(q)'
        BY <3>1, <3>3, <3>4
      <3> QED BY <2>1, <2>2, <2>5, <3>1, <3>5, <3>6 DEF Syncing
    <2>14. CASE Forget
      <3>1. /\ pc = "forget" /\ pc' \in {"record", "done"} /\ todo' = todo
            /\ index' = [p \in Path |-> IF p \in Dropped THEN Absent ELSE index[p]]
        BY <2>14 DEF Forget
      <3>2. Tracked' = Tracked \ Dropped
        BY <3>1 DEF Tracked
      <3>3. ASSUME NEW p \in Present PROVE Known(p)'
        <4>1. p \in Path /\ p \notin Dropped /\ index'[p] = index[p] /\ Known(p)
          BY <2>2, <3>1 DEF Present
        <4> QED BY <2>1, <4>1, KnownStays
      <3> QED BY <2>1, <2>2, <3>1, <3>2, <3>3 DEF Syncing
    <2>15. CASE Record
      <3>1. pc = "record" /\ pc' = "done" /\ UNCHANGED <<index, todo, report>>
        BY <2>15 DEF Record
      <3> QED BY <2>1, <2>2, <2>4, <3>1 DEF Syncing
    <2> QED BY <1>5, <2>3, <2>7, <2>8, <2>9, <2>10, <2>11, <2>12, <2>13, <2>14, <2>15
  <1> QED BY <1>2, <1>3, <1>4, <1>5 DEF Next, Edits, Begins

\* An add --all or a sync nobody disturbs (add.go, sync.go) leaves an entry for every
\* file, with the fingerprint the file has unless it was ever written without a new
\* mtime; after a sync, but not after an add --all, the index has no other entries.
THEOREM EverythingStaged == Spec => []AllStaged
  <1>1. Init => Fresh /\ AddingAll /\ Syncing
    BY DEF Init, Fresh, AddingAll, Syncing
  <1>2. AddingAll /\ Syncing => AllStaged
    <2> SUFFICES ASSUME AddingAll, Syncing, pc = "done", calm, cmd \in {"addall", "sync"}
                 PROVE  /\ \A p \in Present : Known(p)
                        /\ cmd = "sync" => Tracked = Present
      BY DEF AllStaged, Known
    <2>1. \A p \in Present : Known(p)
      BY DEF AddingAll, Syncing
    <2>2. cmd = "sync" => Tracked \subseteq Present
      BY DEF Syncing
    <2> QED BY <2>1, <2>2 DEF Known
  <1> QED BY <1>1, <1>2, FreshKeeps, AddingAllKeeps, SyncingKeeps, AlwaysIInv, PTL DEF Spec

\* Status, one file at a time: it changes neither the index nor the report it began
\* with, and a file it passes in silence is known.
LEMMA LookingKeeps == IInv /\ Looking /\ [Next]_vars => Looking'
  <1> SUFFICES ASSUME IInv, Looking, [Next]_vars, (cmd = "status")', calm'
               PROVE  Looking'
    BY DEF Looking
  <1> DEFINE Staged == StagedNew \cup StagedDeleted
  <1>1. index' = index /\ head' = head => Staged' = Staged
    BY DEF StagedNew, StagedDeleted, Tracked, InHead
  <1>2. CASE UNCHANGED vars
    <2>1. /\ UNCHANGED <<cmd, calm, pc, todo, report, index, head, work, quiet>>
          /\ Present' = Present /\ Tracked' = Tracked
      BY <1>2 DEF vars, Present, Tracked
    <2>2. \A p \in Path : Known(p) => Known(p)'
      BY <2>1, KnownStays
    <2>3. Looking
      OBVIOUS
    <2> HIDE DEF Staged
    <2>4. Staged = StagedNew \cup StagedDeleted /\ Staged' = StagedNew' \cup StagedDeleted'
      BY DEF Staged
    <2> QED BY <1>1, <2>1, <2>2, <2>3, <2>4 DEF Looking, Present
  <1>3. CASE Edits
    BY <1>3, EditDisturbs
  <1>4. CASE Begins
    <2>1. /\ todo' = Present /\ pc' = "walk" /\ report' = Staged
          /\ UNCHANGED <<work, index, head>>
      BY <1>4 DEF Begins, BeginWalk, BeginAdd, BeginCheck, BeginStaged, BeginCommit, Begin
    <2> QED BY <1>1, <2>1 DEF Looking, Present
  <1> DEFINE Steps1 == \/ Visit \/ Compare \/ WalkBroken \/ WalkEnd \/ LookForAbsent \/ LookEnd
             Others == \/ TakeStat \/ ReadIt \/ AddIt \/ AddFails \/ CheckIt \/ CheckMissing
                       \/ ListEnd \/ ScanEnd \/ Forget \/ Record
  <1>5. CASE Steps1 \/ Others
    <2>1. cmd = "status" /\ calm /\ UNCHANGED <<work, quiet>> /\ Present' = Present
      BY <1>5 DEF Visit, Compare, WalkBroken, WalkEnd, TakeStat, ReadIt, AddIt, AddFails, ListEnd,
                  LookForAbsent, LookEnd, CheckIt, CheckMissing, ScanEnd, Forget, Record, Running,
                  user, Present
    <2>2. /\ pc \in {"walk", "compare", "absent", "done"}
          /\ Staged \subseteq report
          /\ pc \in {"walk", "compare"} => todo \subseteq Present
          /\ report = {} =>
                /\ pc \in {"walk", "compare"} => \A p \in Present \ todo : Known(p)
                /\ pc = "absent" => (\A p \in Present : Known(p)) /\ Tracked \ todo \subseteq Present
                /\ pc = "done" => (\A p \in Present : Known(p)) /\ Tracked \subseteq Present
      BY <2>1 DEF Looking
    <2>3. ~Others
      BY <2>1, <2>2 DEF TakeStat, ReadIt, AddIt, AddFails, CheckIt, CheckMissing, ListEnd, ScanEnd,
                        Forget, Record
    <2>4. index' = index /\ head' = head
      BY <1>5, <2>3 DEF Visit, Compare, WalkBroken, WalkEnd, LookForAbsent, LookEnd, Running
    <2>5. /\ Tracked' = Tracked /\ Staged' = Staged
          /\ \A p \in Present : Known(p) => Known(p)'
      BY <1>1, <2>1, <2>4, KnownStays DEF Tracked, Present
    <2>6. ASSUME pc' \in {"walk", "compare", "absent", "done"}, report \subseteq report',
                 pc' \in {"walk", "compare"} => todo' \subseteq Present,
                 report' = {} =>
                   /\ pc' \in {"walk", "compare"} => \A p \in Present \ todo' : Known(p)
                   /\ pc' = "absent" => (\A p \in Present : Known(p)) /\ Tracked \ todo' \subseteq Present
                   /\ pc' = "done" => (\A p \in Present : Known(p)) /\ Tracked \subseteq Present
          PROVE  Looking'
      <3>1. Staged' \subseteq report'
        BY <2>2, <2>5, <2>6
      <3> HIDE DEF Staged
      <3>2. Staged' = StagedNew' \cup StagedDeleted'
        BY DEF Staged
      <3> QED BY <2>1, <2>5, <2>6, <3>1, <3>2 DEF Looking
    <2>7. ASSUME NEW p \in Path, NEW dirty, ToDo(p), Decide(p, dirty), pc \in {"walk", "compare"},
                 ~dirty /\ index[p] # Absent => Known(p)
          PROVE  Looking'
      <3>1. todo' = todo \ {p} /\ pc' = "walk" /\ report' = report \cup Verdict(p, dirty)
        BY <2>1, <2>7 DEF Decide
      <3>2. Verdict(p, dirty) = {} => Known(p)
        BY <2>1, <2>7 DEF Verdict
      <3>3. todo' \subseteq Present /\ report \subseteq report'
        BY <2>2, <2>7, <3>1
      <3>4. report' = {} => \A q \in Present \ todo' : Known(q)
        BY <2>2, <2>7, <3>1, <3>2
      <3> QED BY <2>6, <3>1, <3>3, <3>4
    <2>8. CASE Visit
      <3>1. PICK p \in Path :
               /\ pc = "walk" /\ ToDo(p) /\ work[p] # Absent
               /\ IF index[p] = Absent \/ SameStat(index[p], Stat(p))
                  THEN Decide(p, index[p] = Absent \/ index[p].mode # work[p].mode)
                  ELSE pc' = "compare" /\ todo' = todo /\ report' = report
        BY <2>8 DEF Visit
      <3>2. CASE index[p] = Absent \/ SameStat(index[p], Stat(p))
        <4>1. index[p] # Absent => Known(p)
          BY <3>1, <3>2, ShortcutKnown
        <4> QED BY <2>7, <3>1, <3>2, <4>1
      <3>3. CASE ~(index[p] = Absent \/ SameStat(index[p], Stat(p)))
        BY <2>2, <2>6, <3>1, <3>3
      <3> QED BY <3>2, <3>3
    <2>9. CASE Compare
      <3>1. PICK p \in Path :
               /\ pc = "compare" /\ ToDo(p)
               /\ Decide(p, work[p] = Absent \/ Fingerprint(work[p].content) # index[p].fp)
        BY <2>9 DEF Compare
      <3> DEFINE dirty == work[p] = Absent \/ Fingerprint(work[p].content) # index[p].fp
      <3>2. ~dirty /\ index[p] # Absent => Known(p)
        BY DEF Known, Tracked
      <3> QED BY <2>7, <3>1, <3>2
    <2>10. CASE WalkEnd \/ WalkBroken
      <3>1. ~WalkBroken
        BY <2>2, ToDoIn DEF WalkBroken, Present
      <3>2. pc = "walk" /\ todo = {} /\ todo' = Tracked /\ pc' = "absent" /\ report' = report
        BY <2>1, <2>10, <3>1 DEF WalkEnd
      <3> QED BY <2>2, <2>6, <3>2
    <2>11. CASE LookForAbsent
      <3>1. PICK p \in Path :
               /\ pc = "absent" /\ todo' = todo \ {p} /\ pc' = pc
               /\ report' = IF work[p] = Absent THEN report \cup {<<"deleted", p>>} ELSE report
        BY <2>11 DEF LookForAbsent
      <3>2. report' = {} => report = {} /\ p \in Present
        BY <3>1 DEF Present
      <3> QED BY <2>2, <2>6, <3>1, <3>2
    <2>12. CASE LookEnd
      <3>1. pc = "absent" /\ todo = {} /\ pc' = "done" /\ report' = report
        BY <2>12 DEF LookEnd
      <3> QED BY <2>2, <2>6, <3>1
    <2> QED BY <1>5, <2>3, <2>8, <2>9, <2>10, <2>11, <2>12
  <1> QED BY <1>2, <1>3, <1>4, <1>5 DEF Next, Edits, Begins

\* "Working tree clean" (status.go): when an undisturbed status has nothing to say,
\* HEAD, the index and the working tree have the same files, HEAD and the index the
\* same contents, and the working tree those as far as fingerprints tell.
THEOREM CleanIsClean == Spec => []CleanStatus
  <1>1. Init => Looking
    BY DEF Init, Looking
  <1>2. Looking /\ TypeOK => CleanStatus
    <2> SUFFICES ASSUME Looking, TypeOK, pc = "done", calm, cmd = "status", report = {}
                 PROVE  /\ Tracked = Present
                        /\ \A p \in Path : InHead(p) <=> p \in Tracked
                        /\ \A p \in Tracked : /\ head[p] = index[p].content
                                              /\ p \notin quiet =>
                                                   index[p].fp = Fingerprint(work[p].content)
      BY DEF CleanStatus
    <2>1. (\A p \in Present : Known(p)) /\ Tracked \subseteq Present
      BY DEF Looking
    <2>2. StagedNew = {} /\ StagedDeleted = {}
      BY DEF Looking
    <2>3. ASSUME NEW p \in Path PROVE InHead(p) => p \in Tracked
      BY <2>2, <2>3 DEF StagedDeleted
    <2>4. ASSUME NEW p \in Tracked PROVE InHead(p) /\ head[p] = index[p].content
      BY <2>2, <2>4 DEF StagedNew
    <2> QED BY <2>1, <2>3, <2>4 DEF Known
  <1>3. IInv => TypeOK
    BY DEF IInv
  <1> QED BY <1>1, <1>2, <1>3, LookingKeeps, AlwaysIInv, PTL DEF Spec

=============================================================================
