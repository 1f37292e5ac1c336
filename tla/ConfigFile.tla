----------------------------- MODULE ConfigFile -----------------------------
(***************************************************************************)
(* The configuration of a repository: a file of "key = value" lines in     *)
(* sections.  Every command loads it when it opens the repository, and     *)
(* every command that closes the repository writes back what it loaded,    *)
(* whether it changed it or not; "config" saves and never closes.          *)
(***************************************************************************)
EXTENDS Integers, SequencesExt

CONSTANTS
    Process,   \* commands that may run at the same time
    Key,       \* the keys of all sections, each in its section
    SectionOf, \* the section of a key
    RemoteKey, \* the url of the remote, alone in its section
    Value,     \* the values users and init give to keys: texts of characters
    Text,      \* texts the conversion is checked on
    Spaces,    \* the characters TrimSpace takes away
    EscapeOf,  \* what %q writes for each character it escapes
    Torn,      \* what a line may say once two saves have written over each other
    InitValue, \* what init writes, for the keys of "core"
    MaxRuns    \* bound: commands

NoSection == "none"

ASSUME KeyAssumption ==
    /\ SectionOf \in [Key -> STRING \ {NoSection}] /\ RemoteKey \in Key
    /\ DOMAIN InitValue \subseteq Key
    /\ \A k \in DOMAIN InitValue : InitValue[k] \in Value
ASSUME BoundAssumption == MaxRuns \in Nat
ASSUME TextAssumption == Text \subseteq Seq(STRING)

\* Every space but the blank is escaped, and nothing is escaped by spaces.
ASSUME CharAssumption ==
    /\ {" ", "\t", "\n"} \subseteq Spaces /\ "\"" \notin Spaces
    /\ (Spaces \ {" "}) \cup {"\"", "\\"} \subseteq DOMAIN EscapeOf
    /\ {" ", "'", "#", ";", "="} \cap DOMAIN EscapeOf = {}
    /\ \A c \in DOMAIN EscapeOf :
          /\ EscapeOf[c] \in Seq(STRING) /\ Len(EscapeOf[c]) >= 2
          /\ \A i \in 1..Len(EscapeOf[c]) : EscapeOf[c][i] \notin Spaces

\* The section of a key that follows a value of two lines may be another one:
\* such values are left out of the commands, not of the conversion.
ASSUME LineAssumption == \A v \in Value : \A i \in 1..Len(v) : v[i] # "\n"

VARIABLES
    disk,      \* the lines of the file: the text after "=" of each key
    mem,       \* the configuration a command has in memory: a value of each key
    pc,        \* its next step
    closes,    \* whether it will close the repository
    left,      \* the keys its save has still to write,
    inSection, \* and the section it is writing
    sole,      \* the command, if there is one, that emptied the file and
               \* alone has written to it since
    wanted,    \* history: what the users' requests add up to
    given,     \* history: every value a key was ever given
    alone,     \* history: no two commands overlapped and none was killed
    mixed,     \* history: a save has written into the lines of another one
    runs

vars == <<disk, mem, pc, closes, left, inSection, sole, wanted, given, alone, mixed, runs>>
history == <<wanted, given, alone, mixed, runs>>

-----------------------------------------------------------------------------
(* The text of a value *)

Blank == " "
Quote == "\""
Apostrophe == "'"
Backslash == "\\"
Newline == "\n"
Markers == {"#", ";", "="}

\* What %q does to a character.
Escape(c) == IF c \in DOMAIN EscapeOf THEN EscapeOf[c] ELSE <<c>>

\* Faulty variant: blanks need no quotes.
NeedsQuotesIfMarked(v) == Range(v) \cap Markers # {}

NeedsQuotes(v) == Range(v) \cap (Markers \cup {Blank}) # {}

\* Save: the value as it is, or quoted and escaped.
Written(v) ==
    IF NeedsQuotes(v)
    THEN <<Quote>> \o FoldLeft(LAMBDA t, c : t \o Escape(c), <<>>, v) \o <<Quote>>
    ELSE v

FirstLine(text) ==
    LET ends == {i \in 1..Len(text) : text[i] = Newline}
    IN  IF ends = {} THEN text ELSE SubSeq(text, 1, Min(ends) - 1)

\* strings.TrimSpace
Trim(v) ==
    LET solid == {i \in 1..Len(v) : v[i] \notin Spaces}
    IN  IF solid = {} THEN <<>> ELSE SubSeq(v, Min(solid), Max(solid))

\* Load reads a line: the spaces at both ends go, then one pair of quotes;
\* nothing is unescaped.
Parsed(text) ==
    LET v == Trim(FirstLine(text))
    IN  IF Len(v) >= 2 /\ v[1] = v[Len(v)] /\ v[1] \in {Quote, Apostrophe}
        THEN SubSeq(v, 2, Len(v) - 1)
        ELSE v

\* A value a save and a load leave alone.
Stable(v) == Parsed(Written(v)) = v

-----------------------------------------------------------------------------
(* Configurations: partial functions on the keys *)

With(cfg, k, v) == [j \in DOMAIN cfg \cup {k} |-> IF j = k THEN v ELSE cfg[j]]

\* Faulty variant: the whole section goes.
WithoutSection(cfg, ks) == [j \in {i \in DOMAIN cfg : \A k \in ks : SectionOf[i] # SectionOf[k]} |-> cfg[j]]

Without(cfg, ks) == [j \in DOMAIN cfg \ ks |-> cfg[j]]

RemoteSection == {k \in Key : SectionOf[k] = SectionOf[RemoteKey]}
NoKeys == [k \in {} |-> <<>>]

\* Faulty variant: the quotes stay.
LoadedRaw(file) == file

Loaded(file) == [k \in DOMAIN file |-> Parsed(file[k])]

Init ==
    /\ disk = [k \in DOMAIN InitValue |-> Written(InitValue[k])]
    /\ wanted = InitValue
    /\ given = [k \in Key |-> IF k \in DOMAIN InitValue THEN {InitValue[k]} ELSE {}]
    /\ mem = [p \in Process |-> NoKeys]
    /\ pc = [p \in Process |-> "idle"] /\ closes = [p \in Process |-> FALSE]
    /\ left = [p \in Process |-> {}] /\ inSection = [p \in Process |-> NoSection] /\ sole = {}
    /\ alone = TRUE /\ mixed = FALSE /\ runs = 0

\* repo.Open.  closes: "config" saves what it changed and leaves.
Open == \E p \in Process, c \in BOOLEAN :
    /\ pc[p] = "idle" /\ runs < MaxRuns /\ runs' = runs + 1
    /\ pc' = [pc EXCEPT ![p] = "open"]
    /\ closes' = [closes EXCEPT ![p] = c]
    /\ mem' = [mem EXCEPT ![p] = Loaded(disk)]
    /\ alone' = (alone /\ \A q \in Process : pc[q] = "idle")
    /\ UNCHANGED <<disk, left, inSection, sole, wanted, given, mixed>>

\* Save empties the file, whoever else is writing to it, and then writes its lines.
Truncate(p, cfg) ==
    /\ mem' = [mem EXCEPT ![p] = cfg]
    /\ pc' = [pc EXCEPT ![p] = "save"]
    /\ disk' = NoKeys /\ sole' = {p}
    /\ left' = [left EXCEPT ![p] = DOMAIN cfg]
    /\ inSection' = [inSection EXCEPT ![p] = NoSection]

\* What is wanted, and key k to be v.
Wishing(k, v) == [j \in DOMAIN wanted \cup {k} |-> IF j = k THEN v ELSE wanted[j]]

\* config <key> <value>
SetKey == \E p \in Process, k \in Key, v \in Value :
    /\ pc[p] = "open" /\ ~closes[p]
    /\ Truncate(p, With(mem[p], k, v))
    /\ wanted' = Wishing(k, v)
    /\ given' = [given EXCEPT ![k] = @ \cup {v}]
    /\ UNCHANGED <<closes, alone, mixed, runs>>

\* config --unset <key>
UnsetKey == \E p \in Process, k \in Key :
    /\ pc[p] = "open" /\ ~closes[p]
    /\ Truncate(p, Without(mem[p], {k}))
    /\ wanted' = Restrict(wanted, DOMAIN wanted \ {k})
    /\ UNCHANGED <<closes, given, alone, mixed, runs>>

\* config <key>, config --list: nothing is written, Close is never called.
ReadKey == \E p \in Process :
    /\ pc[p] = "open" /\ ~closes[p]
    /\ pc' = [pc EXCEPT ![p] = "idle"]
    /\ mem' = [mem EXCEPT ![p] = NoKeys]
    /\ UNCHANGED <<disk, closes, left, inSection, sole, history>>

\* remote add <name> <url>: a save, and another one by Close.
AddRemote == \E p \in Process, v \in Value :
    /\ pc[p] = "open" /\ closes[p]
    /\ Truncate(p, With(mem[p], RemoteKey, v))
    /\ wanted' = Wishing(RemoteKey, v)
    /\ given' = [given EXCEPT ![RemoteKey] = @ \cup {v}]
    /\ UNCHANGED <<closes, alone, mixed, runs>>

\* remote remove <name>
RemoveRemote == \E p \in Process :
    /\ pc[p] = "open" /\ closes[p]
    /\ Truncate(p, Without(mem[p], RemoteSection))
    /\ wanted' = Restrict(wanted, {k \in DOMAIN wanted : SectionOf[k] # SectionOf[RemoteKey]})
    /\ UNCHANGED <<closes, given, alone, mixed, runs>>

\* Close, of any command: what was loaded is written back.
Close == \E p \in Process :
    /\ pc[p] = "open" /\ closes[p]
    /\ closes' = [closes EXCEPT ![p] = FALSE]
    /\ Truncate(p, mem[p])
    /\ UNCHANGED history

\* The next line of a save.  Sections, and the keys in one, come in any order.
Line(p, k) ==
    /\ pc[p] = "save" /\ k \in left[p]
    /\ (\E j \in left[p] : SectionOf[j] = inSection[p]) => SectionOf[k] = inSection[p]
    /\ left' = [left EXCEPT ![p] = @ \ {k}]
    /\ inSection' = [inSection EXCEPT ![p] = SectionOf[k]]
    /\ UNCHANGED <<mem, pc, closes, wanted, given, alone, runs>>

WriteLine == \E p \in Process, k \in Key :
    /\ Line(p, k) /\ p \in sole
    /\ disk' = With(disk, k, Written(mem[p][k]))
    /\ UNCHANGED <<sole, mixed>>

\* Each save writes at its own offset.  A line written to a file that another
\* save has emptied or written to since lands in a hole or on other lines: which
\* keys the file has then, and which of the texts each of them, is any choice.
WriteOver == \E p \in Process, k \in Key, ks \in SUBSET Key :
    /\ Line(p, k) /\ p \notin sole
    /\ disk' \in [ks -> Torn]
    /\ sole' = {} /\ mixed' = TRUE

\* After the save of remote add or remove, Close is still to come.
SaveEnd == \E p \in Process :
    /\ pc[p] = "save" /\ left[p] = {}
    /\ pc' = [pc EXCEPT ![p] = IF closes[p] THEN "open" ELSE "idle"]
    /\ mem' = IF closes[p] THEN mem ELSE [mem EXCEPT ![p] = NoKeys]
    /\ UNCHANGED <<disk, closes, left, inSection, sole, history>>

Kill == \E p \in Process :
    /\ pc[p] # "idle"
    /\ pc' = [pc EXCEPT ![p] = "idle"] /\ closes' = [closes EXCEPT ![p] = FALSE]
    /\ mem' = [mem EXCEPT ![p] = NoKeys]
    /\ left' = [left EXCEPT ![p] = {}] /\ alone' = FALSE
    /\ UNCHANGED <<disk, inSection, sole, wanted, given, mixed, runs>>

Next ==
    \/ Open \/ SetKey \/ UnsetKey \/ ReadKey \/ AddRemote \/ RemoveRemote
    \/ Close \/ WriteLine \/ WriteOver \/ SaveEnd \/ Kill

Spec == Init /\ [][Next]_vars

-----------------------------------------------------------------------------
(* Properties *)

\* The variables keep their types.
TypeOK ==
    /\ DOMAIN disk \subseteq Key
    /\ pc \in [Process -> {"idle", "open", "save"}] /\ closes \in [Process -> BOOLEAN]
    /\ DOMAIN mem = Process /\ \A p \in Process : DOMAIN mem[p] \subseteq Key
    /\ left \in [Process -> SUBSET Key] /\ sole \subseteq Process /\ DOMAIN wanted \subseteq Key
    /\ given \in [Key -> SUBSET Value] /\ alone \in BOOLEAN /\ mixed \in BOOLEAN /\ runs \in 0..MaxRuns

\* Exactly these values survive a save and a load: those with a blank or a marker
\* (Save quotes them), if nothing in them had to be escaped; and of the others
\* those of one line that neither begin or end with a space, which Load takes
\* away, nor look quoted themselves.
Survives(v) ==
    IF \E i \in 1..Len(v) : v[i] \in {Blank, "#", ";", "="}
    THEN \A i \in 1..Len(v) : v[i] \notin DOMAIN EscapeOf
    ELSE /\ \A i \in 1..Len(v) : v[i] # Newline /\ (i \in {1, Len(v)} => v[i] \notin Spaces)
         /\ Len(v) < 2 \/ v[1] # v[Len(v)] \/ v[1] \notin {Quote, Apostrophe}

Survivors == runs = 0 => \A v \in Text : Stable(v) <=> Survives(v)

\* Whatever commands overlap, and wherever a save is cut off, until a save has
\* written into the lines of another one: a key whose values all survive a save
\* never has a value, in the file or in memory, that it was not given.
NothingInvented ==
    ~mixed => \A k \in Key : (\A v \in given[k] : Stable(v)) =>
        /\ k \in DOMAIN disk => Parsed(disk[k]) \in given[k]
        /\ \A p \in Process : k \in DOMAIN mem[p] => mem[p][k] \in given[k]

\* As long as commands do not overlap and none is killed, the file has what the
\* users asked for after any number of commands, for every value that survives
\* one save, and it has the same keys.
KeptAlone ==
    alone /\ (\A p \in Process : pc[p] = "idle") =>
        /\ DOMAIN disk = DOMAIN wanted
        /\ \A k \in DOMAIN wanted : Stable(wanted[k]) => Parsed(disk[k]) = wanted[k]

\* Not so in the code: every value is kept then.
AnyValueKept ==
    alone /\ (\A p \in Process : pc[p] = "idle") => Loaded(disk) = wanted

\* Not so in the code, where nothing keeps two saves apart: whatever overlaps, a
\* command that leaves the file alone finds only values it was given.
AlwaysGiven ==
    (\A p \in Process : pc[p] # "save") => \A k \in DOMAIN disk :
        (\A v \in given[k] : Stable(v)) => Parsed(disk[k]) \in given[k]

\* Not so in the code: a key leaves the file for good only when it is unset.
KeysKept ==
    (\A p \in Process : pc[p] = "idle") => DOMAIN wanted \subseteq DOMAIN disk
=============================================================================
