------------------------------ MODULE Staging ------------------------------
(***************************************************************************)
(* How the commands of one repository learn what changed in the working    *)
(* tree.  An index entry remembers the stat of its file and a fingerprint  *)
(* of its content; Index.Dirty trusts the stat first and the fingerprint   *)
(* second, and only "check" reads whole files.  The user edits files       *)
(* between any two steps of a command; commands run one at a time (what    *)
(* they do to each other is the subject of Repository).                    *)
(***************************************************************************)
EXTENDS Integers, Sequences, FiniteSets

CONSTANTS
    NPaths,    \* the files of the working tree are 1..NPaths
    Block,
    Content,   \* the contents of files: sequences of blocks
    Sample,    \* blocks in a window of the fingerprint, an even number
    Mode,      \* permission bits
    Absent,
    MaxEdits,  \* bound: edits by the user
    MaxRuns    \* bound: commands

Path == 1..NPaths

ASSUME PathAssumption == NPaths \in Nat
ASSUME ContentAssumption ==
    /\ Content \subseteq Seq(Block)
    /\ Absent \notin Content
ASSUME SampleAssumption == Sample \in Nat /\ Sample % 2 = 0
ASSUME BoundAssumption == MaxEdits \in Nat /\ MaxRuns \in Nat

VARIABLES
    work,     \* the working tree: content, mtime and mode of each file
    index,    \* the index of the running command, saved when it ends
    head,     \* the flat tree of the HEAD commit, Absent before the first one
    clock,    \* time of the last edit
    cmd, pc,  \* the running command and its next step
    todo,     \* files the command has still to visit
    found,    \* files its walk came across
    info,     \* the stat the command took of the file it is at,
    data,     \* and the content it read
    report,   \* what the command has found: pairs of a kind and a file
    calm,     \* history: no edit since the command started
    gone,     \* history: files that were absent since the command started
    quiet,    \* history: files ever edited without a new mtime
    edits, runs

vars == <<work, index, head, clock, cmd, pc, todo, found, info, data, report,
          calm, gone, quiet, edits, runs>>
user == <<work, clock, calm, gone, quiet, edits>>

-----------------------------------------------------------------------------
(* Fingerprints *)

\* The bytes ComputeFingerprint hashes: everything, or three windows.
Fingerprint(c) ==
    LET mid == Len(c) \div 2
        half == Sample \div 2
    IN  IF Len(c) <= 3 * Sample
        THEN c
        ELSE SubSeq(c, 1, Sample) \o SubSeq(c, mid - half + 1, mid + half)
                \o SubSeq(c, Len(c) - Sample + 1, Len(c))

Stat(p) == [size |-> Len(work[p].content), mtime |-> work[p].mtime, mode |-> work[p].mode]

Entry(c, stat) == [content |-> c, fp |-> Fingerprint(c),
                   size |-> stat.size, mtime |-> stat.mtime, mode |-> stat.mode]

\* Faulty variant: the size alone is trusted.
SameSize(e, s) == e.size = s.size

\* The shortcut of Dirty: size and mtime as they were.
SameStat(e, s) == e.size = s.size /\ e.mtime = s.mtime

File == [content : Content, mtime : Nat, mode : Mode]
StatInfo == [size : Nat, mtime : Nat, mode : Mode]
EntryInfo == [content : Content, fp : {Fingerprint(c) : c \in Content},
              size : Nat, mtime : Nat, mode : Mode]

ASSUME AbsentAssumption == Absent \notin EntryInfo

Commands == {"add", "addall", "sync", "check", "fix", "status", "diff", "staged", "commit"}
Steps == {"walk", "compare", "stat", "read", "enter", "forget", "absent", "scanned", "record", "done"}
Walkers == {"addall", "sync", "status", "diff"}

-----------------------------------------------------------------------------
(* The user *)

Edit(p, f) ==
    /\ edits < MaxEdits /\ edits' = edits + 1
    /\ work' = [work EXCEPT ![p] = f]
    /\ calm' = FALSE
    /\ gone' = IF f = Absent THEN gone \cup {p} ELSE gone
    /\ UNCHANGED <<index, head, cmd, pc, todo, found, info, data, report, runs>>

\* A write, or a new file, with the time of its own.
Write == \E p \in Path, c \in Content, m \in Mode :
    /\ work[p] # Absent => m = work[p].mode
    /\ clock' = clock + 1
    /\ Edit(p, [content |-> c, mtime |-> clock + 1, mode |-> m])
    /\ UNCHANGED quiet

\* A write that keeps the mtime: a tool that restores it, or two writes in one
\* tick of a coarse file system clock.
WriteQuietly == \E p \in Path, c \in Content :
    /\ work[p] # Absent
    /\ quiet' = quiet \cup {p}
    /\ Edit(p, [work[p] EXCEPT !.content = c])
    /\ UNCHANGED clock

Chmod == \E p \in Path, m \in Mode :
    /\ work[p] # Absent /\ m # work[p].mode
    /\ Edit(p, [work[p] EXCEPT !.mode = m])
    /\ UNCHANGED <<clock, quiet>>

Delete == \E p \in Path :
    /\ work[p] # Absent
    /\ Edit(p, Absent)
    /\ UNCHANGED <<clock, quiet>>

-----------------------------------------------------------------------------
(* Commands *)

Init ==
    /\ work \in [Path -> {Absent} \cup [content : Content, mtime : {0}, mode : Mode]]
    /\ index = [p \in Path |-> Absent] /\ head = Absent
    /\ clock = 0 /\ quiet = {} /\ edits = 0 /\ runs = 0
    /\ cmd = "none" /\ pc = "done" /\ todo = {} /\ found = {} /\ info = Absent /\ data = <<>>
    /\ report = {} /\ calm = TRUE /\ gone = {}

Present == {p \in Path : work[p] # Absent}
Tracked == {p \in Path : index[p] # Absent}

\* What status and "diff --staged" say of the index and the HEAD commit; only
\* status looks for entries of HEAD the index does not have.
InHead(p) == head # Absent /\ head[p] # Absent

\* Faulty variant: nothing is staged as long as there is no HEAD commit.
StagedNewLater == {<<"staged", p>> : p \in {q \in Tracked :
                    head # Absent /\ (InHead(q) => head[q] # index[q].content)}}

StagedNew == {<<"staged", p>> : p \in {q \in Tracked :
                    InHead(q) => head[q] # index[q].content}}

StagedDeleted == {<<"staged", p>> : p \in {q \in Path \ Tracked : InHead(q)}}

Begin(c) ==
    /\ pc = "done" /\ runs < MaxRuns
    /\ cmd' = c /\ runs' = runs + 1 /\ info' = Absent /\ data' = <<>> /\ found' = {}
    /\ calm' = TRUE /\ gone' = Path \ Present
    /\ UNCHANGED <<work, index, head, clock, quiet, edits>>

\* The directory is listed once; a walker visits the names it found.
BeginWalk == \E c \in Walkers :
    /\ Begin(c) /\ todo' = Present /\ pc' = "walk"
    /\ report' = IF c = "status" THEN StagedNew \cup StagedDeleted ELSE {}

BeginAdd == \E p \in Path :
    Begin("add") /\ todo' = {p} /\ pc' = "stat" /\ report' = {}

BeginCheck == \E c \in {"check", "fix"} :
    Begin(c) /\ todo' = Tracked /\ pc' = "stat" /\ report' = {}

\* Without a HEAD commit "diff --staged" walks like "diff".
BeginStaged ==
    /\ Begin("staged")
    /\ IF head = Absent
       THEN todo' = Present /\ pc' = "walk" /\ report' = {}
       ELSE todo' = {} /\ pc' = "done" /\ report' = StagedNew

BeginCommit ==
    /\ Begin("commit") /\ todo' = {} /\ report' = {}
    /\ pc' = IF Tracked = {} THEN "done" ELSE "record"

ToDo(p) == p \in todo /\ \A q \in todo : p <= q
Running == UNCHANGED <<cmd, runs, head, user>>

\* What a walker says of a file it found to be dirty or not.
Verdict(p, dirty) ==
    CASE cmd \in {"addall", "sync"} ->
            IF index[p] = Absent THEN {<<"added", p>>}
            ELSE IF dirty THEN {<<"modified", p>>} ELSE {}
      [] cmd = "status" ->
            IF index[p] = Absent
            THEN {<<IF InHead(p) THEN "modified" ELSE "untracked", p>>}
            ELSE IF dirty THEN {<<"modified", p>>} ELSE {}
      [] OTHER ->  \* diff
            IF index[p] # Absent /\ ~dirty
               /\ (head # Absent => InHead(p) /\ head[p] = index[p].content)
            THEN {}
            ELSE {<<IF head = Absent THEN IF index[p] = Absent THEN "new" ELSE "modified"
                    ELSE IF InHead(p) THEN "modified" ELSE "new", p>>}

\* add --all stages the file at once, the others go on.
Decide(p, dirty) ==
    /\ report' = report \cup Verdict(p, dirty)
    /\ IF cmd = "addall" /\ Verdict(p, dirty) # {}
       THEN pc' = "stat" /\ UNCHANGED todo
       ELSE pc' = "walk" /\ todo' = todo \ {p}

\* The visit of a file: its stat decides, or its fingerprint must be taken.
Visit == \E p \in Path :
    /\ pc = "walk" /\ ToDo(p) /\ work[p] # Absent
    /\ found' = found \cup {p}
    /\ IF index[p] = Absent \/ SameStat(index[p], Stat(p))
       THEN Decide(p, index[p] = Absent \/ index[p].mode # work[p].mode)
       ELSE pc' = "compare" /\ UNCHANGED <<todo, report>>
    /\ UNCHANGED <<index, info, data>> /\ Running

\* fingerprintChanged; a file it cannot read is dirty.
Compare == \E p \in Path :
    /\ pc = "compare" /\ ToDo(p)
    /\ Decide(p, work[p] = Absent \/ Fingerprint(work[p].content) # index[p].fp)
    /\ UNCHANGED <<index, info, found, data>> /\ Running

\* A name that was listed and is gone ends the walk.  add --all fails; the
\* others do not look at the error and go on with what was visited.
WalkBroken == \E p \in Path :
    /\ pc = "walk" /\ ToDo(p) /\ work[p] = Absent
    /\ pc' = CASE cmd = "sync" -> "scanned" [] cmd = "status" -> "absent" [] OTHER -> "done"
    /\ todo' = IF cmd = "status" THEN Tracked ELSE todo
    /\ UNCHANGED <<index, info, report, found, data>> /\ Running

WalkEnd ==
    /\ pc = "walk" /\ todo = {}
    /\ pc' = CASE cmd = "sync" -> "scanned" [] cmd = "status" -> "absent" [] OTHER -> "done"
    /\ todo' = IF cmd = "status" THEN Tracked ELSE {}
    /\ UNCHANGED <<index, info, report, found, data>> /\ Running

\* The end of status: entries whose file is gone.
LookForAbsent == \E p \in Path :
    /\ pc = "absent" /\ ToDo(p)
    /\ report' = IF work[p] = Absent THEN report \cup {<<"deleted", p>>} ELSE report
    /\ todo' = todo \ {p}
    /\ UNCHANGED <<index, info, pc, found, data>> /\ Running

LookEnd ==
    /\ pc = "absent" /\ todo = {} /\ pc' = "done"
    /\ UNCHANGED <<index, info, todo, report, found, data>> /\ Running

-----------------------------------------------------------------------------
(* addFile, for add, add --all and sync, and the loop of check *)

TakeStat == \E p \in Path :
    /\ pc = "stat" /\ ToDo(p) /\ work[p] # Absent
    /\ info' = Stat(p) /\ pc' = "read"
    /\ UNCHANGED <<index, todo, report, found, data>> /\ Running

\* The next file: the walk goes on, or the list of files does.
After(p) ==
    /\ todo' = todo \ {p} /\ info' = Absent /\ data' = <<>>
    /\ pc' = IF cmd = "addall" THEN "walk" ELSE "stat"

ReadIt == \E p \in Path :
    /\ pc = "read" /\ ToDo(p) /\ work[p] # Absent
    /\ data' = work[p].content /\ pc' = "enter"
    /\ UNCHANGED <<index, todo, found, info, report>> /\ Running

\* Faulty variant: the entry is given the stat the file has in the end.
NewEntryLate(p) == Entry(data, IF work[p] = Absent THEN info ELSE Stat(p))

\* The content that was read, its blob written by now, and the stat from before.
NewEntry(p) == Entry(data, info)

AddIt == \E p \in Path :
    /\ pc = "enter" /\ cmd \in {"add", "addall", "sync"} /\ ToDo(p)
    /\ index' = [index EXCEPT ![p] = NewEntry(p)]
    /\ After(p)
    /\ UNCHANGED <<found, report>> /\ Running

\* A file that vanished ends the command with an error.
AddFails == \E p \in Path :
    /\ pc \in {"stat", "read"} /\ cmd \in {"add", "addall", "sync"}
    /\ ToDo(p) /\ work[p] = Absent
    /\ pc' = "done" /\ info' = Absent
    /\ UNCHANGED <<index, todo, found, data, report>> /\ Running

\* Faulty variant: check compares fingerprints.
DiffersInFingerprint(p) == Fingerprint(data) # index[p].fp

\* check compares the hashes of the whole contents, whatever the stat.
Differs(p) == data # index[p].content

CheckIt == \E p \in Path :
    /\ pc = "enter" /\ cmd \in {"check", "fix"} /\ ToDo(p)
    /\ report' = IF Differs(p) THEN report \cup {<<"modified", p>>} ELSE report
    /\ index' = IF cmd = "fix" /\ Differs(p)
                THEN [index EXCEPT ![p] = NewEntry(p)] ELSE index
    /\ After(p)
    /\ UNCHANGED found /\ Running

CheckMissing == \E p \in Path :
    /\ pc \in {"stat", "read"} /\ cmd \in {"check", "fix"} /\ ToDo(p) /\ work[p] = Absent
    /\ report' = report \cup {<<"missing", p>>}
    /\ After(p)
    /\ UNCHANGED <<index, found>> /\ Running

ListEnd ==
    /\ pc = "stat" /\ todo = {}
    /\ pc' = IF cmd = "sync" THEN "forget" ELSE "done"
    /\ UNCHANGED <<index, todo, found, info, data, report>> /\ Running

-----------------------------------------------------------------------------
(* The rest of sync, and commit *)

\* The files reported as of one of the kinds.
Reported(kinds) == {p \in Path : \E k \in kinds : <<k, p>> \in report}

\* The end of sync's scan: an entry the walk did not come across counts as
\* deleted.  Without changes sync ends here.
ScanEnd ==
    /\ pc = "scanned"
    /\ report' = report \cup {<<"deleted", p>> : p \in Tracked \ found}
    /\ IF report' = {}
       THEN pc' = "done" /\ todo' = {}
       ELSE pc' = "stat" /\ todo' = Reported({"added", "modified"})
    /\ UNCHANGED <<index, found, info, data>> /\ Running

\* Remove the deleted files, save, and commit what is left, if anything is.
Forget ==
    /\ pc = "forget"
    /\ index' = [p \in Path |-> IF p \in Reported({"deleted"}) THEN Absent ELSE index[p]]
    /\ pc' = IF Tracked \subseteq Reported({"deleted"}) THEN "done" ELSE "record"
    /\ UNCHANGED <<todo, found, info, data, report>> /\ Running

\* createCommit: the flat tree of the index; the same tree again is refused,
\* which leaves HEAD as it is.
Record ==
    /\ pc = "record" /\ pc' = "done"
    /\ head' = [p \in Path |-> IF index[p] = Absent THEN Absent ELSE index[p].content]
    /\ UNCHANGED <<index, todo, found, info, data, report, cmd, runs, user>>

Next ==
    \/ Write \/ WriteQuietly \/ Chmod \/ Delete
    \/ BeginWalk \/ BeginAdd \/ BeginCheck \/ BeginStaged \/ BeginCommit
    \/ Visit \/ Compare \/ WalkBroken \/ WalkEnd \/ LookForAbsent \/ LookEnd
    \/ TakeStat \/ ReadIt \/ AddIt \/ AddFails \/ CheckIt \/ CheckMissing \/ ListEnd
    \/ ScanEnd \/ Forget \/ Record

Spec == Init /\ [][Next]_vars

-----------------------------------------------------------------------------
(* Properties *)

\* The variables keep their types.
TypeOK ==
    /\ work \in [Path -> File \cup {Absent}]
    /\ \A p \in Path : index[p] # Absent =>
          /\ index[p].content \in Content /\ index[p].fp = Fingerprint(index[p].content)
          /\ index[p].size \in Nat /\ index[p].mtime \in Nat /\ index[p].mode \in Mode
    /\ DOMAIN index = Path
    /\ head = Absent \/ head \in [Path -> Content \cup {Absent}]
    /\ clock \in Nat /\ edits \in 0..MaxEdits /\ runs \in 0..MaxRuns
    /\ cmd \in Commands \cup {"none"} /\ pc \in Steps
    /\ todo \subseteq Path /\ found \subseteq Path /\ gone \subseteq Path
    /\ quiet \subseteq Path /\ calm \in BOOLEAN
    /\ info \in StatInfo \cup {Absent} /\ data \in Content \cup {<<>>}

\* The stat shortcut of Dirty is sound: a file whose size and mtime are those
\* of its entry has the content the entry names, as long as every write of it
\* got a time of its own, and whenever the user writes while a command is
\* between its stat and its read.
CleanIsSame ==
    \A p \in (Present \cap Tracked) \ quiet :
        SameStat(index[p], Stat(p)) => index[p].content = work[p].content

\* An add --all or a sync the user did not disturb leaves every present file
\* in the index with the fingerprint it has, and after a sync the index has no
\* other files.
AllStaged ==
    pc = "done" /\ calm /\ cmd \in {"addall", "sync"} =>
        /\ \A p \in Present : /\ p \in Tracked
                              /\ p \notin quiet => index[p].fp = Fingerprint(work[p].content)
        /\ cmd = "sync" => Tracked = Present

\* check --fix repairs what the stat and the fingerprint cannot see: when it is
\* not disturbed, every present entry has the content of its file afterwards,
\* and the entries it calls missing are those without a file.
CheckRepairs ==
    pc = "done" /\ calm /\ cmd = "fix" =>
        /\ \A p \in Present \cap Tracked : index[p].content = work[p].content
        /\ Reported({"missing"}) = Tracked \ Present

\* When status, not disturbed, has nothing to say ("working tree clean"), the
\* HEAD commit, the index and the working tree have the same files, and the
\* same contents as far as fingerprints tell.
CleanStatus ==
    pc = "done" /\ calm /\ cmd = "status" /\ report = {} =>
        /\ Tracked = Present
        /\ \A p \in Path : InHead(p) <=> p \in Tracked
        /\ \A p \in Tracked : /\ head[p] = index[p].content
                              /\ p \notin quiet => index[p].fp = Fingerprint(work[p].content)

\* Not so in the code: sync removes an entry only when its file was absent at
\* some time since it started.
RemovedWereGone ==
    [][\A p \in Path : index[p] # Absent /\ index'[p] = Absent => p \in gone]_vars

\* Not so in the code: diff, not disturbed, has something to say when a file of
\* the HEAD commit was deleted.
DiffShowsDeleted ==
    pc = "done" /\ calm /\ cmd = "diff" /\ report = {} =>
        \A p \in Path : InHead(p) => p \in Present
=============================================================================
