# MinusSync: TLA+ models and proofs

MinusSync (`msync`, `msyncd`) is a small version-control system with a single
line of history, and a "sync-only" mode in which it only mirrors a directory to
a server. This directory holds TLA+ models of its core, the TLC configurations
that check them on small instances, and proofs checked by TLAPS.

Run everything in this directory:

    tlc -workers 2 -config RepositoryConcurrent.cfg MCRepository.tla
    tlapm RepositoryProofs.tla

(`PROJECT.json` names the module of every configuration.)

## 1. Inventory of the system

| component | state | operations | correct when |
|---|---|---|---|
| repository (`internal/repo`) | the `.msync` directory, `Repository.Index` and `.Config` in memory | Init, Open, Close, SaveIndex, SaveConfig, IsSyncOnly | what Close writes does not undo what others wrote |
| index (`internal/index`) | the list of staged entries, in memory and in `.msync/index` | Load, Save, Add, Remove, Find, Dirty | every entry has its blob; a changed file is dirty; a cut file loads as a prefix |
| objects (`internal/object`) | `.msync/objects/xx/...`, content-addressed | Write (stat, temp, rename), Read, tree building and checkout | an object is complete when it is there, and so is what it names |
| pack files (`internal/object/pack.go`) | one file | PackWriter, PackReader, UnpackObjects | nothing but what was packed is unpacked; a part is not taken for the whole |
| configuration (`internal/config`) | `.msync/config`, `Repository.Config` | Load, Save, Set, Unset, RemoveSection | a key has a value it was given, and keeps it |
| references (`internal/refs`) | HEAD, tags, remote-tracking references | ReadHead/WriteHead, Set/Get/Delete/List | HEAD moves along one line; a reference names a stored object, except where fetch and clone set it |
| commands (`internal/cmd`) | none of their own | add, commit, sync, check, tag, status, log, diff, gc, fsck, search, config, remote, push, fetch, pull, clone | see the properties below |
| gc, fsck | none | Collect (mark, sweep), Verify | nothing reachable is removed |
| sync client (`internal/sync`) | the connection of one call | Clone, Fetch, Pull, Push | the remote-tracking reference says what the remote has |
| daemon (`internal/msyncd`, `internal/net`) | listener, repositories, one goroutine per connection | Start, Stop, handleConnection, handlers | every request is answered; a slow client does not stop others; Stop stops |
| wire protocol (`internal/protocol`) | none | encoders, decoders, handshake | decode is the inverse of encode |
| diff, merge (`internal/diff`, `internal/merge`) | local data structures | Diff, UnifiedDiff, ThreeWay | the script is right and shortest; a merge keeps both sides' changes (it does not: section 3) |
| delta, chunking (`internal/delta`) | local data structures | ComputeDelta, EncodeDelta, Patch, Split, BuildSyncPlan | patching gives the target; equal data is cut alike |
| search index (`internal/search`) | documents by word | Update, ParseQuery, Search | what is found has the words, and what has them is found |
| ignore rules (`internal/ignore`) | the rules of one file | Load, IsIgnored | the last matching rule decides; matching ends |

How they interact: a command is one operating-system process. It opens the
repository (index and configuration are read into memory), works on the object
store, the references and its in-memory index, and its deferred `Close` writes
index and configuration back, whatever the command was. Processes share only the
files. **Nothing is locked**: two commands, or a command and a daemon, interleave
at every file operation, and a command can be killed between any two. Objects and
tags are written to a temporary file and renamed; HEAD, the index and the
configuration are rewritten in place (truncate, then write). `push`, `fetch` and
`clone` talk to the daemon over one connection each; the daemon serves every
connection in a goroutine.

A command finds its repository with `repo.Open(".")`. The search in
`findMsyncDir` goes to `filepath.Dir(".")`, which is `"."` again, so commands only
run at the root of a repository, although the comment at `repo.go:41` says that
parent directories are searched.

What is hard here: interleaved commands on unlocked files, kills between two
writes, stale in-memory copies that are written back, files that are edited while
a command looks at them, a garbage collector that works from a snapshot of the
references, a client and a server whose message sequences must agree, and a
handful of index-heavy algorithms. `PROJECT.json`
lists each hazard at its line.

## 2. Modules

| module | what it is |
|---|---|
| `Repository` | one repository on disk and the commands that run in it |
| `Timeline` | the abstract promise to a user of one command at a time: a line of snapshots that grows at its end, the staged snapshot and what of it is saved, how much of the line the remote is known to have, and what a kill costs |
| `RepositoryTimeline` | the refinement mapping from `Repository` to `Timeline` |
| `RepositoryProofs` | theorems about `Repository`, with TLAPS proofs, and that it implements `Timeline` |
| `Staging`, `StagingProofs` | how commands learn what changed in the working tree: the walk, the stat shortcut, the sampled fingerprint, the whole content; theorems |
| `ConfigFile`, `ConfigFileProofs` | the configuration file and the commands that load, change and write it; theorems |
| `Session` | one client command (push, fetch, pull, clone), the daemon's handler of its connection, and the connection |
| `SessionProofs` | theorems about `Session`, with TLAPS proofs |
| `Server` | the daemon's life: accept loop, handshake, stop |
| `ServerProofs` | theorems about `Server`, with TLAPS proofs |
| `MyersDiff` | operators: the edit script, the merging of edits, the hunks |
| `Texts`, `TextsProofs` | one call of `UnifiedDiff` or of `ThreeWay`, on the operators of `MyersDiff`; theorems |
| `Ignore`, `IgnoreProofs` | ignore rules: `Load`, `IsIgnored` and the loop of `globMatch`; theorems |
| `Delta`, `Packs`, `SearchIndex`, `Wire` | operators: the delta and the chunks; pack files; the word index; payloads, frames and the handshake |
| `Library`, `LibraryProofs` | one call of one of these packages, step by step; theorems about connections, deltas, chunks, packs and searches |
| `MC...` | instances for TLC |

### Repository: state and steps

The disk is `work` (working tree), `index` (what `index.Load` would return),
`head` (what `ReadHead` would return: a commit, the zero hash, or `Garbage` for a
file that holds no hash), `objects`, `temps` (temporary object files), `tags` and
`remote` (the remote-tracking HEAD). `made` is the data of the commits ever
built here, by number: the hash of a commit is `<<"commit", n>>`. The hash of any
other object is its content, so the store is a set. `Foreign` are commits that a
daemon shows and that this repository does not have: `fetch` drops the objects it
receives and sets the remote-tracking reference (`fetch.go:76-80`), `clone` does the
same with HEAD (`clone.go:81-91`). So `head`, `remote` and a tag may name a commit
that is not stored, `CommitOnHead` cannot read such a parent and starts numbering
at 1 again, and the sequence check of `push` passes it by. A command is a process `p`
with a step `pc[p]`, its in-memory index `mem[p]`, the paths it has still to
stage `todo[p]`, the object it is writing or publishing `obj[p]` and, for gc, the
reachable set it computed.

| steps | code |
|---|---|
| `Start` | a command's `RunE` up to and including `repo.Open`, with its early refusals (`Entry`); `core.sync-only` may differ from command to command |
| `SyncScan`, `StageSkip/Missing/Read/End` | `scanSyncChanges`, `addFile`, `addAll`, `runCheck` file by file, `runSync` steps 4-6 |
| `PutExisting/Temp/Rename/Lost` | `object.Write`: stat, temporary file, rename, a rename that fails because gc removed the file |
| `BuildTree`, `NothingChanged`, `NewCommitData`, `WriteHeadBegin/End` | `createCommit` in the order of the code; HEAD is read in `NewCommitData` and written two file operations later |
| `SaveBegin`, `SaveEnd`, `CloseEnd` | `SaveIndex` inside a command and the deferred `Close`; between begin and end the file holds a prefix |
| `PushStart/Accepted/Failed` | `sync.Push` seen from the repository; the server is free to accept or not |
| `Fetch`, `FetchFailed` | `sync.Fetch` and `sync.Pull` seen from the repository: the server is free to show nothing, a commit of ours or a foreign one |
| `RemoveRemote` | `remote remove` deletes the remote's references |
| `Init` | `repo.Init` or what `sync.Clone` leaves: HEAD and the remote reference may be foreign |
| `TagTarget`, `SetTag`, `DeleteTag` | `tag` |
| `Mark`, `SweepObject`, `SweepTemp`, `SweepEnd` | `gc.Collect` with `--prune` |
| `Edit`, `Crash` | the user, and a kill |

The commands: `add` (given files), `addall` (`add --all`), `commit`, `commitall`
(`commit --all`), `sync`, `check` (`check --fix`), `push`, `fetch` (and `pull`,
which fetches and prints), `unremote` (`remote remove`), `tag`, `atag` (`tag -a`),
`untag` (`tag -d`), `gc` (`gc --prune`), `look` (every command that only reads the
repository: `status`, `log`, `diff`, `fsck`, `gc` without `--prune`, ...; what matters
of them is that `Close` writes the index). `init` and `clone` make a repository and
are the initial states. `config` and `remote add` change the configuration only
(`ConfigFile`).

Abstractions, and what they hide:

* The commits of other repositories stay unreadable, since no command stores them;
  a commit of ours that gc has removed and a daemon shows again counts as one.
* SHA-256 is injective; two commits always differ (their timestamps do). Two
  identical commits in one second by two processes would be one object.
* A file that changed has a new mtime. So `Dirty` is the comparison of sampled
  fingerprints (`Fp`), which the configurations make injective; the stat shortcut
  and the sampling are the subject of `Staging`.
* The mark of gc is one step. In the code it reads HEAD, tags, remotes and the
  objects one after the other; gc beside writers is refuted even so.
* The walk of `add --all` lists, tests and opens a file in one step, except that
  the file may be gone when it is opened.
* I/O errors other than a missing file are left out. So are file modes (see
  `Staging`), ignore rules (`Ignore`), and the configuration that `Close` also
  writes (`ConfigFile`).

### Staging: state and steps

One command at a time, and a user who edits between any two of its steps. `work`
is the working tree (content, mtime, mode), `index` the entries (the content of
the blob, its fingerprint, size, mtime, mode), `head` the flat tree of the HEAD
commit. A content is a sequence of blocks, so that a change can lie outside the
windows that `ComputeFingerprint` samples. A command has its name `cmd`, its next
step `pc`, the files it has still to visit `todo`, those its walk came across
`found`, and the stat `info` and content `data` of the file it is at. `report` is
what it says. `calm`, `gone` and `quiet` are history: nothing was edited since the
command started, what was ever absent since then, and which files were ever
written without a new mtime.

| steps | code |
|---|---|
| `BeginWalk`, `BeginAdd`, `BeginCheck`, `BeginStaged`, `BeginCommit` | the start of `add --all`, `sync`, `status`, `diff`; `add <file>`; `check`; `diff --staged`; `commit` |
| `Visit`, `Compare` | the body of each walk and `Index.Dirty`: the stat, then the fingerprint |
| `WalkBroken`, `WalkEnd` | a listed file that has vanished ends the walk; only `add --all` looks at the error |
| `TakeStat`, `ReadIt`, `AddIt`, `AddFails` | `addFile`: stat, read, blob and entry as three steps |
| `CheckIt`, `CheckMissing`, `ListEnd` | the loop of `runCheck`, with and without `--fix` |
| `ScanEnd`, `Forget`, `Record` | `runSync` after its scan, and `createCommit` |
| `LookForAbsent`, `LookEnd` | the end of `status` |
| `Write`, `WriteQuietly`, `Chmod`, `Delete` | the user; `WriteQuietly` keeps the mtime, as a coarse clock or a copying tool does |

The walk lists the directory once at its start, as `filepath.Walk` does for one
directory. Ignore rules, subdirectories, hashing and commands that overlap are
left to the other modules.

### ConfigFile: state and steps

`disk` is the file: its keys and the text of their values. `mem[p]` is the
`Config` of command `p`, `pc[p]` where it is, `closes[p]` whether a deferred
`Close` is still to come (`config` has none, `remote` and the rest do). A save
truncates the file and writes a line at a time; `left` and `inSection` are the
keys to come and the section being written (a Go map: any order). A value is a
sequence of characters, and `Written` and `Parsed` are what `Save` and `Load` do
with one: quoting and escaping on one side, stripping without unescaping on the
other. `wanted`, `given` and `alone` are history: what the users asked for, every
value a key was ever given, and whether no two commands overlapped or were
killed.

Nothing keeps two saves apart (`config.go:95`). `sole` holds the save, if there is one,
whose lines are the only ones in the file: the last to have emptied it (`Truncate`).
It writes its line behind its others (`WriteLine`). Any other save goes on at its own offset in a file that has been emptied or written to
since (`WriteOver`): the line lands in a hole or on other lines, and which keys the
file then has, and with which texts out of `Torn`, is any choice. `mixed` notes
that this has happened.

The characters are constants: `Spaces` are those that `strings.TrimSpace` cuts and
`EscapeOf` is what `%q` writes for those it escapes (quote, backslash, and whatever
is not printed, tabs and line feeds included). A line feed in a value that is not
quoted ends its line (`FirstLine`).

### Library: one call of a package

Each behaviour is one call: `Compute`, `Encode`, `ApplyPatch` (a delta);
`SplitBoth`, `Plan` (chunks); `Unpack` (a pack, perhaps cut short); `IndexDocs`,
`SearchDocs`; `Greet`, `Receive`, `HangUp` (messages over a connection that is cut
somewhere). The operators follow the code function by function, with the widths of
their integers as constants: the rolling hash is modulo `HashSize`, FastCDC's gear
hash has `HashBits` bits, the length of an operation in a delta has `LengthSize`
values (2^32 in the code), a name's length is a byte of `NameSize` values, an
offset in a pack has `OffsetSize` values. Other 32-bit lengths, of a pack's objects
and of frames, are taken to be long enough; they wrap at 4 GiB. An operation whose
length has become zero is skipped by `compactOps`, where the code's `append` also
writes into the slice it reads (`delta.go:159`); what the model says of deltas that
long is only that they go wrong (`DeltaAnyLength`). The index puts words into small
letters with `strings.ToLower` (`Lower`), a query only those of one byte
(`QueryLower`, `index.go:272`). `sort.Slice` is not stable, so `Init` takes
any order of a pack's entries that is sorted by hash (`SortedEntries`). No command
calls the delta, chunk and pack packages; they are modelled as their exported
functions promise to work.

### Session: state and steps

The client has a repository (`head`, `tracked`, the remote-tracking HEAD, and
`held`, the commits in its store), the repository a clone makes (`copy`), a step
`cpc` and the messages it has still to send, `clientOut`. The daemon has a HEAD for
each repository (`heads`), the handler's step `spc` and its `serverOut`. A
connection is two FIFO queues of at most `Cap` messages; `Send` blocks on a full
one, like a TCP write. `Lose` drops the connection with what it carries; then
`Recv` fails at both ends and `Send` does nothing, since its error is ignored
nearly everywhere and the next `Recv` fails too. A commit is the repository it was
made in and its sequence number, and stands for itself with its tree and blobs.
`shown` and `got` are history: the HEADs the daemon ever had and the commits it
has read from packs.

| steps | code |
|---|---|
| `Call`, `CallRefused`, `ClientCut` | the start of each function of `internal/sync` up to `Dial`, a failed `Dial`, a failed `Recv` |
| `ReadRefs`, `FetchNext`, `ReadPack`, `Checkout` | `Fetch`, `Pull` and `Clone` message by message |
| `PushCheck`, `PushReply`, `PushAck`; `Pack` | `Push`; `sendPack` with `computeObjectDiff` |
| `Hello`, `Authenticate`, `Bye`, `HandleConnection` | `handleConnection` |
| `ListRefs`, `HandleFetch`, `HandlePush`, `ReceivePack`, `HandlerCut` | the handlers; repositories are advertised in any order (a Go map) |
| `ClientSend`, `ServerSend` | the encoder writing one frame |

There is one connection at a time: the handlers change nothing they share, and
the client's commands run one after the other. Tags are advertised beside HEAD in
the code and are left out, as are payloads that do not decode and the search
request, which no client sends.

### Server: state and steps

`mpc` is where `Start` is, `stp` where `Stop` is; `ln`, `stopped` and `quit` are
the fields they share; `backlog` holds the connections the kernel has accepted.
`conn[c]` is what has become of client `c`. `Accept` and `HandshakeDone`/`Failed`
are `Listener.Accept` with the handshake it reads before it returns. The deadline
is a handshake that may fail at any time while its bytes have not come. What a
handler does is left to `Session`; here it ends when its client hangs up.

### The algorithms

`MyersDiff` follows `diff.go` function by function: `Trace` are the copies of `v`
made before each round, `Depth` the round that finds the end, `StepBack` one turn
of `backtrack`, `Compact` and `AddEdit` one turn of `compactEdits` and
`buildHunks`. They take a text as a sequence of lines. `Texts` runs them in the
order of `UnifiedDiff` (`call = "diff"`) and as `ThreeWay` does (`call = "merge"`).
There the text of our side, `oursText`, is a string: the pieces between its line
feeds, the last of which is `Empty` if it ends with one. `Split` drops that piece and
`Join` puts line feeds between lines and none behind them, so `ApplyEdits` returns a
text without its final line feed (`merge.go:160-163, 195`). In
`Ignore` a line of the file is an action (`LoadLine`), and so is each way through the
loop of `globMatch`, so that a loop that does not end is a behaviour that does not
reach `"done"`.

## 3. Runs

The regular runs, those `PROJECT.json` lists:

| run | instance | shows |
|---|---|---|
| `RepositorySequential` | 1 process, 2 paths, 1 content, all commands, after init or a clone, sync-only or not, 3 commands, kills | `TypeOK`, `SequenceFollowsParent`, `GcKeepsReachable` and `ImplementsTimeline`: used one command at a time the repository is the promised timeline, kills included |
| `RepositoryConcurrent` | 2 processes, 1 path, 2 contents, 3 commands that write (add, commit, `commit --all`, `tag -a`, fetch), kills | `HistoryPresent`, `StagedPresent`, `SequenceFollowsParent`: nothing is missing but the commits of other repositories |
| `CommandsEnd` | 2 processes, every command, gc and kills | every command ends |
| `Staging` | 2 files, 3 contents of which 2 share a fingerprint, 2 edits, 2 commands | `CleanIsSame`: a file that looks clean by its stat is; `AllStaged`, `CleanStatus`: an undisturbed `add --all`, `sync` or `status` misses only what stat and fingerprint hide; `CheckRepairs`: `check` finds, and `--fix` repairs, that too |
| `ConfigFile` | 2 commands at once, 3 keys in 2 sections, 3 values, kills, saves that overlap; every text of up to 4 of 9 characters | `NothingInvented`, until a save has written into the lines of another; `KeptAlone`; `Survivors`: exactly which values survive a save and a load |
| `Session` | 2 repositories, 2 commands of every kind, with and without a token, 2 commits each, queues of 1, lost connections | `TypeOK`, `PushSendsAll`, `InStep`, `PushTold`; `CallEnds`, `HandlerEnds`: nobody waits for ever, not even for room |
| `Server` | 3 clients, silent, leaving or greeting, and a stop at any time | `TypeOK`, `GreetedFirst`, `Served`, `StopEnds` |
| `Texts` | all pairs of texts up to 4 lines, all triples up to 3, 3 different lines, context 1 | `ScriptCorrect`, `ScriptShortest` (against a longest common subsequence), `CompactedScript`, `HunksShowEdits`; `OnlyOursChanged` (our text but for its final line feed), `BothDeleteConflict` |
| `Ignore` | one rule of up to 4 characters, two of up to 2, and rules with a double star, over 5 paths | `LastMatchDecides`: the loop finds a match whenever there is one, a single star standing for slashes too, as it does in the code; `PlainReturns` |
| `Library` | all small byte sequences, packs cut at every place, small files and queries, connections cut at every place | `DeltaExact`, `ChunksMeet`, `PackHonest`, `SearchExact`, `WireExact` |
| `SyncForgets` | the instance of `Staging` | **violated**: `sync` ignores the error of its walk and removes from the index, and commits as deleted, every file it had not come across (`RemovedWereGone`, `sync.go:113`) |
| `StarMatchesSlash` | the rules without a double star of `Ignore` | **violated**: a single star takes a slash on a retry, though the comment says "Single * doesn't match /" (`StarStopsAtSlash`, `ignore.go:137-139`) |

Further configurations are kept to be run by hand. Each states something that one
might expect and that the code does not have, and ends with a counterexample. Where
a configuration lists several properties TLC stops at the first one violated; leave
one in to see it.

| configuration, module | property | what the code does instead |
|---|---|---|
| `PushOverOthers`, `MCRepository` | `PushKeepsOthers` | a fetch has shown a commit of another line, and the next push goes over it: it cannot be read, so nothing is compared (`push.go:53`) |
| `CloneRestarts`, `MCRepository` | `OnlyRootsAreFirst` | the first commit after a clone has a parent and the number 1 (`object/commit.go:33`) |
| `OneTimeline`, `MCRepository` | `HeadMovesToChild` | of two commits side by side one drops out of the history (`commit.go:65`) |
| `GcOfStaged`, `MCRepository` | `StagedPresent` | gc removes the blobs of what is staged (`gc.go:28`) |
| `ReadersOverwrite`, `MCRepository` | `ReadOnlyKeepsStaged` | a reader writes an old index over a newer one (`repo.go:150`) |
| `GcWhileCommitting`, `MCRepository` | `GcKeepsReachable` | the sweep (`gc.go:89`) removes objects that a commit running beside it has published |
| `SyncNotRetried`, `MCRepository` | `SyncUpToDate` | after a failed push, a `sync` with no new change returns before pushing (`sync.go:49`) |
| `HeadAlwaysHash`, `MCRepository` | `HeadIsHash` | a kill inside `WriteHead` leaves no hash in HEAD (`head.go:28`) |
| `DiffDeleted`, `MCStaging` | `DiffShowsDeleted` | `diff` walks the working tree and never says that a file was deleted |
| `ConfigFileRefuted`, `MCConfigFile` | `AnyValueKept` | `Save` escapes what `Load` does not unescape: such a value grows with every command (`config.go:111`) |
| | `AlwaysGiven` | two saves overlap, and a key has a text that neither of them wrote (`config.go:95`) |
| | `KeysKept` | a command that loads while another saves writes back a part (`config.go:95`) |
| `SessionRefuted`, `MCSession` | `TrackedWasShown` | the daemon acknowledges a push and stores nothing (`daemon.go:219`): the remote-tracking HEAD names a commit the daemon never had as HEAD |
| | `TrackedIsHeld` | fetch drops the objects and moves the remote-tracking HEAD (`fetch.go:76`) |
| | `TrackedIsAsked` | every repository is advertised as HEAD (`daemon.go:158`) and fetch records the last |
| | `CloneComplete` | clone leaves a HEAD whose commit it does not have (`clone.go:91`) |
| | `PullUpdates` | pull changes neither HEAD nor files (`pull.go:27`) |
| | `PushToldByAll` | the daemon's request for a token is taken for success (`push.go:97`) |
| | `PushNeverBehind` | fetch stores no objects, so the sequence check cannot read the remote commit and lets a push through that is behind it (`fetch.go:80`) |
| `StopNotGraceful`, `MCServer` | `Graceful` | the process ends with connections being served (`daemon.go:83`) |
| `TextsRefuted`, `MCTexts` | `EqualTexts` | two empty texts differ by an insertion of nothing (`diff.go:108`) |
| | `OursUntouched` | a merge drops the final line feed of our text (`merge.go:195`) |
| | `HunkHeaders` | a hunk's header does not count all its lines (`diff.go:260`) |
| | `HunksApart` | hunks overlap after a long deletion (`diff.go:245`) |
| | `OnlyTheirsChanged` | the change of the other side is not in the merged text (`merge.go:180`) |
| | `MarksClosed` | a conflict in the last edits has no closing marker (`merge.go:105`) |
| `IgnoreHangs`, `MCIgnore` | `Returns` | a retry after `**` never advances (`ignore.go:132`) |
| `LibraryRefuted`, `MCLibrary` | `DeltaAlways` | blocks are never compared: a collision of the rolling hash copies the wrong one (`delta.go:122`) |
| | `DeltaAnyLength` | a length that fills its field is encoded as zero (`delta.go:51, 181`) |
| | `KilledPackRefused` | a pack whose writer was killed opens as an empty one (`pack.go:106`) |
| | `WordsFound` | a word with capitals is indexed in pieces and not as it stands (`index.go:150`) |
| | `CapitalsAlike` | a capital of more than one byte is not made small in a query (`index.go:272`) |
| | `NamesKept` | a name too long for its length byte arrives cut (`client.go:17`) |

Some of these need a word. `TrackedWasShown` and `TrackedIsHeld` together mean
that a remote-tracking HEAD says nothing about either side. That `PushSendsAll`
holds nevertheless means that only the daemon's half is missing: every commit it
acknowledges has been sent to it. `CompactedScript` holds in the reading that
`buildHunks` has of an edit, old range replaced by new range; in the reading of
`applyEdits`, which looks at the operation, it would not. `CleanIsSame` leaves out
files that were ever written without a new mtime: for them the shortcut cannot
work, and `check` is what is left.

Bounds. `MaxRuns` bounds the commands started, not the steps: within it every
interleaving, every edit of the working tree and every kill point is explored.
In `Repository` three commands are enough for stage, commit and a third command
that collects, pushes or overwrites, and `commit --all` and `sync` do the first two in
one, so that two or three commits follow each other. Two paths let a command stage
one file and fail on, or be cut before, the other, and with the content they have
or have not give trees that change and change back. Two processes are enough
for every hazard of the list: each is a race of one command against one other. The
disk is symmetric in the processes, so `RepositoryConcurrent` and `ConfigFile`,
which check only invariants, use that symmetry.

In `Staging` a window has two blocks. A content of six blocks is hashed whole, one
of seven is sampled, and its fifth block is in no window; so two contents share a
fingerprint and two differ in it. Two edits put one before or in the first command
and one in the second, or both inside one step sequence of it; two commands are one
that stages and one that looks, checks or stages again. In `ConfigFile` two
commands are enough for one that is inside its load and save while the other changes
a key, and, as every command loads and saves, for one that sees what the first has
left; the values are one that survives, one with blanks around it and one that
grows. The nine characters of the texts are one of each kind the conversion tells
apart: a letter, the blank, tab and line feed for the other spaces, a marker, both
quotes, the backslash, and one that is not printed.

In `Session`, `MaxCalls` bounds the commands and `MaxCommit` the commits made in
each repository. Two commands are a failed, cut or answered push, fetch, pull or
clone and one that sees what it left; two commits tell a pack of one from a pack
of two. `Cap` is the room of each direction: with one message it is as small as it
can be, which is the hardest case for a wait of both ends for each other. Whether
the daemon asks for a token is chosen with each command. In `Server` one client can
be greeted, one silent and one waiting behind it. Texts of four lines over three letters contain every
pattern of runs, moves and repetitions the search distinguishes (ties, both kinds
of first step, equal lines between two edits of one kind, and two hunks at context
1). Patterns of four characters have two stars with something behind each.

In `Library` a block of a delta has two bytes, and the three bytes are chosen so
that two different blocks have one rolling hash; bases and targets of up to five
bytes have two blocks each, and the length field has room for four. A chunk has more than two bytes and at most four, so
files of up to seven have cuts at the size limit and at a hash, before and after
the point from which they are alike. A pack has up to three objects of one or two
bytes and offsets of four values, which a longer pack exceeds. A length byte of
three values is one less than the longest name, a byte of the wire has two bits,
and a list three items: one more than fits and one that does.

Fairness. `FairSpec` has weak fairness on each process's next step: the
operating system goes on scheduling a running process. Nothing is assumed of the
user (`Start`, `Edit`), of kills, or of which file gc meets first. In `Session` it
has weak fairness on the client's and on the handler's next step, in `Server` on
`Start`'s (its deadline timer included) and on `Stop`'s, in `Ignore` on the loop:
running goroutines are scheduled, and timers fire. Nothing is assumed of the
network or of clients; in particular a connection need not be lost for a command
to end.

The runs other than those of `Repository` switch the deadlock check off: a session
stops when its bounds are used up, the daemon when it was stopped, a call when it
has returned. A wait of client and handler for each other would violate
`CallEnds`.

## 4. Proofs

`RepositoryProofs` proves, for every set of processes, paths, contents, tags and
commands:

* `TypeCorrect`: `Spec => []TypeOK`. Inductive with `InHand`, which says what
  kind of object a process holds at each step (a tree at `parent`, a commit at
  `head`...), so that the branch of `Stored` is known.
* `HistoryAlwaysPresent`, `StagedAlwaysPresent`: without gc the store is closed
  under naming, holds everything HEAD, tags and the remote reference name, and
  the blob of every index entry. Excepted are the commits of other repositories,
  which clone and fetch name and do not store. Neither is inductive alone: `StoreInv` adds that
  the in-memory index of every process is backed by stored blobs (so any prefix
  of it that reaches the disk is too), that what an object being written names is
  stored already, and that a hash about to be published is stored. This is the
  order blob, tree, commit, HEAD of the code. gc is excluded because it does
  break both (runs `GcOfStaged`, `GcWhileCommitting`).
* `SequenceCorrect`: without gc the numbering follows the parents, however many
  commands interleave. It needs the store invariant: a HEAD made here can always be
  read (`HeadStored`). On the HEAD that clone left, and on none, numbering starts at 1.
* `GcSafe`: one command at a time, gc among them and killed wherever they are, gc
  removes nothing that HEAD, a tag or the remote reference leads to. `Reachable`
  is a recursive function; `MarkExists` shows that it is defined (by induction over
  the rounds of the mark), `MarkGrows` and the lemmas after it that it grows with the
  store and contains its roots. The invariant is `Anchored`: what is named is
  stored, what a command is about to name is stored too, and while gc sweeps, its
  mark contains all that is reachable. `SequenceCorrectAlone` is the numbering of
  the commits with gc among the commands, from the same invariant. That nothing
  runs beside gc is needed: `GcWhileCommitting`.
* `HeadReadable`: as long as no command is killed, HEAD holds a hash whenever no
  command is between truncating and writing it, however many commands write it.
  `HeadAlwaysHash` shows what a kill does.
* `RepositoryIsTimeline`: `Spec => ImplementsTimeline`, when one command at a time
  runs (`OneCommand`): any command, fetch and gc among them, killed anywhere, after
  init or a clone. The history the timeline sees is the line of commits that leads to
  HEAD by their parents (`Lines`, a recursive function; `LinesExist` shows, by
  induction over the commits, that it is defined, since a parent was made before its
  child, and `LinesStay` that new commits leave old lines alone). While HEAD is being
  rewritten the end of the line is the parent of the commit in hand: the timeline is
  `publishing`, and a kill then ends the line. The invariant, `Sound`, is `Anchored`,
  `SequenceFollowsParent` and `Based`: a commit in the making has the current HEAD as
  its parent, or none if HEAD is torn. With it `Hand` says of what a command holds: the
  tree of the commit in hand is what is staged, not empty and not that of the commit
  before, and what a push sends is HEAD. That the tree of HEAD is stored matters there:
  `SameTree` must read it to find that nothing has changed. `StagedIs`, `TipIs`,
  `HistoryIs` and `PlaceIs` say where each variable of the timeline is found in the
  repository; then each group of steps has its lemma (`StoredStages`, `SaveSaves`,
  `WriteHeadPublishes`, `WriteHeadCommits`, `PushAcceptedPushes`, `RemoteAsks`,
  `CrashKills`), and `OthersAway` covers the rest, which change nothing the timeline is
  read from. `OneTimeline` and `GcWhileCommitting` show that `OneCommand` is needed.

Assumptions are the named `ASSUME`s of `Repository` and the hypotheses shown.
`WellFoundedInduction` is used for one fact: a non-empty set of naturals has a
least element.

`ServerProofs` proves for any set of clients:

* `TypeCorrect`: `Spec => []TypeOK`, which includes that the backlog is exactly
  the pending connections and that one handshake at most is being read. It needs
  `BacklogDistinct`: a connection is in the backlog once, so that taking it out
  leaves it there no more.
* `ServedWereGreeted`: no connection is served before its handshake has come.

`StagingProofs` proves for any files, contents and window sizes:

* `TypeCorrect`: `Spec => []TypeOK`; among the types, that an entry's fingerprint
  is that of its content.
* `StatShortcutSound`: `CleanIsSame`, whatever the user writes between the stat and
  the read of a command. The shortcut compares an entry with a file, and both
  change; the invariant `SameTime` goes through the mtime: a file with the mtime
  of an entry, or of the stat a command holds, has the content that was read. It
  needs `TimesOK`: nothing is from the future, so a write is later than all stats
  taken. That the stat is taken before the read, and not after, is what makes it
  inductive.
* `CheckFixRepairs`: `CheckRepairs`, with the invariant `Fixing`: as long as
  nothing is edited, the files `check` has done are as it says and those it has not
  done are as they were.
* `EverythingStaged`: `AllStaged`, which says of `sync` that it leaves no other entries
  and of `add --all` only that every file has one. A file is `Known` when it has an entry with its
  fingerprint; `KnownStays` and `KnownEntered` say what steps keep that. `AddingAll`
  and `Syncing` divide the files into those the walk has passed, which are known or,
  for `sync`, reported and entered in a second loop, and those it has not; `Fresh`
  says that what was read is what the file holds.
* `CleanIsClean`: `CleanStatus`, from `Looking`: what `status` has not reported when it
  has passed a file, with three loops in a row to report it.

`ConfigFileProofs` proves for any keys, values and number of commands:

* `OnlyGivenValues`: `NothingInvented`, for commands that overlap, until a save has
  written into the lines of another one. `SavesOK` says that the lines a save has
  still to write are keys it has; `Known` follows a key's values from a command's memory
  to the file and back. After that moment nothing is claimed: `AlwaysGiven` is refuted.
* `AloneKept`: `KeptAlone`. While commands do not overlap (`Alone`), the memory of
  the one that runs is what is wanted (`Matches`), and the file is that, or a part of
  it whose rest is still `left` (`FileMatches`).
* `SurvivorsComeBack`: `Survivors`, for texts of every length. A fold is a table that
  its definition only chooses: `TableExists` shows, by induction over the positions,
  that there is one, and `EscapedIs`, by induction over its entries, that escaping
  keeps a text or makes it longer. `FirstLineIs` and `TrimShortens` say what a line feed
  and spaces at the ends cost. With that, `StableIs` compares what a save writes with
  what a load takes off again.

`IgnoreProofs` proves for any rules and paths:

* `TypeCorrect`: the types, and that the loop never leaves its pattern or its name.
* `LastStarIsEnough`: `LastMatchDecides`. The reference, `Matching`, tries every length
  for every star, across slashes as the code does (`StarMatchesSlash` shows that its
  comment says otherwise); `globMatch` only goes back to the last. The invariant is
  `Searching`: the name matches if it does from where the loop is, or from a place it
  can still retry; and whatever a retry of an older star could find, the rest of the
  pattern finds from where the loop is, or later, so that a new star may forget the
  old one. `SoFar` adds that the rules already done have decided what is in `ignored`.

`LibraryProofs` proves for any widths of fields, messages, connections, bytes, blocks,
chunks, packs, letters and files:

* `MessagesAsSent`: `WireExact`, wherever the connection is lost. `MessageKept` says that
  decoding what was encoded gives the message back, unless its name is too long for
  its length byte. `FrameParts`, `StreamGrows` and `StreamPrefix` say where each frame
  stands in the stream. With that `NextRead` shows that the reader, behind `k` complete
  messages, reads the next one if and only if all of it has come. `WireInv` is that
  the reader always stands behind complete messages (`Reading`).
* `PatchGivesTarget`: `DeltaExact`, for any base, block size, hash size and width of the
  length field, and any target whose length fits that field: then the lengths of
  all operations do (`Fitting`, `DataFits`). An
  operation `Stands` for a part of the target when it copies or inserts just those
  bytes, and operations `Covers` a part when each stands for what comes after the one
  before. `DeltaTableCovers` shows it of what `ComputeDelta` finds, from the end of the
  target to the front; that no hashes collide is needed only for the first block of a
  match, whose bytes the code does not compare (`MatchIs`). `CompactCovers` shows that
  merging neighbours keeps it, and `PatchCovered`, again from the end, that what is read
  back from the encoded fields is what the operations stand for. `ComputeDelta`,
  `compactOps` and `Patch` are tables that recursive definitions only choose, so each
  has a lemma, by induction over its entries, that there is one.
* `EqualEndsMeet`: `ChunksMeet`, for any two files with a common end, any gear table,
  masks and chunk sizes. How far a chunk reaches is read from its own start
  (`Reach`), which is what `findChunkBoundary` computes as long as its window does not
  wrap (`BoundaryReached`), and depends on nothing but the bytes from there on
  (`CutAlike`). So a cut that both files have is followed by the same cuts in both
  (`CutsFollow`), every chunk behind it is a chunk of the other file (`ChunkShared`),
  and `BuildSyncPlan` leaves it out (`MissingAbsent`). `SplitCuts` and `SuffixLaid` say
  what `Split`'s table holds and where each chunk lies. The proof needs
  `WindowAssumption`: the window of 64 bytes is not longer than two least chunks (of
  2048). Then only a first chunk's window wraps below zero, and every cut has the
  first chunk before it. The code sets both numbers in its defaults and does not
  compare them.
* `UnpackedAsPacked`: `PackHonest`, for any objects, sizes and range of offsets, any
  order of the entries that is sorted, and a file cut anywhere. `SortedInOrder` says
  that the entries are those of the objects in some order, each once; `FileHas` where
  fields, entries and bytes stand; `OpenIs` that a cut file is read as no entries or as
  all of them. `BytesStand` places each object's bytes, and `WholeRead` shows that the
  entry a search for a hash ends at, perhaps that of another copy of the object, points
  at them as long as no offset wraps around.
* `FoundAsIndexed`: `SearchExact`, for any letters, files and terms. `PiecesWithin` says
  that whatever `CamelCaseSplit` or `tokenizeText` cuts out of a word is a part of it,
  and `PiecesWhole` that a word in which they find nothing to cut stays whole, both by
  induction over its letters (`LetterCuts`). Putting capitals into small letters twice
  is the same as once (`LowerTwice`), so a term found in the index stands, but for
  capitals, in a word of the file (`PartFound`, `TokensAre`). `AsManyAsAsked` is about
  the limit: with fewer results than asked for, all that is found is returned. The
  proof needs that there are finitely many files and that small letters are neither
  capitals, digits nor one of `_` and `-`. It also showed that the statement has to
  say what a limit of zero is: all results are asked for (`index.go:187`). That a query
  makes fewer capitals small than the index does not matter to it, since it speaks
  of terms in small letters (`QueryLowerIs`).

`SessionProofs` proves for any repositories, commands, numbers of commits and room
of the connection:

* `TypeCorrect`, and `StayInStep`: client and daemon always read next what they
  wait for. The invariant is `Turn`: for each step of the client, where the handler
  can be and exactly what is on its way in each direction (`Up`, `Down`: what is in
  the connection and what the sender has still to send), the end marker last.
  `QuietOK` says who has nothing to send, and `RefusalOK` what a daemon that
  asks for a token can have sent: that keeps every client that meets one away from
  the steps `Turn` is about. Splitting a message sequence between the sender and
  the connection makes `ClientSend` and `ServerSend` stuttering steps of `Up` and
  `Down`, so the argument does not depend on the room or on who is faster.
* `HistorySent`: `PushSendsAll`. With `SendingOK`: while a push waits for its
  acknowledgement, every commit up to the one it pushes has been read by the daemon
  or is on its way. What is not on its way was sent by the push that moved the
  remote-tracking HEAD before, which is the induction over pushes.
* `PushesTold`: where no token is asked for, a push that returns without an error
  was acknowledged and recorded; from `Turn`, since the only answer that can come
  is a request for the pack.

`TextsProofs` proves for any lines and any texts:

* `ScriptTurnsBaseIntoOurs`: `ScriptCorrect`. The notion the proofs go by is `Chain`:
  edits that lead from one pair of positions in the two texts to another, with equal
  lines between them. `ChainApplied` shows that what a chain over both texts makes of
  the first is the second. `At` is the search without its arrays: the position it
  reaches in a round on a diagonal (`TraceHolds`: the trace holds just that, though a
  round overwrites every other entry of its array). The search may run past the end
  of either text, and the walk back would then leave it; `DepthIs` shows that the round the
  walk starts from has not: a position behind a text comes from one at its end in an
  earlier round (`OldBehind`, `NewBehind`), and that one would have been taken. From
  there `BackStep`: each step back is one round, and puts one edit in front of the chain.
* `ScriptIsShortest`: `ScriptShortest`. The table of longest common subsequences is a
  recursive function; `LcsExists` shows, by induction over the places, that it is
  defined, and `LcsGrows` and `LcsRises` how it grows. One half is `NoneShorter`: no
  chain over both texts touches fewer lines than those outside the subsequence,
  since an edit can gain no more than its size and equal lines gain nothing
  (`LcsGap`). The other half is that the search is as fast as any script: `AllPassed`
  shows, by induction over the places, that each is passed after as many rounds as
  its cheapest script has edits, because a round enters a diagonal at the better of its
  neighbours (`PassedByDeletion`, `PassedByInsertion`) and follows equal lines as far
  as they go (`PassedByRun`). The walk back has one edit of one line for each round
  (`OneMore`), so the script's size is `Depth`.
* `MergedEditsTurnBaseIntoOurs`: `CompactedScript`, since merging keeps a chain
  (`CompactChain`, from `ChainMerged`).
* `HunksShowAllEdits`: `HunksShowEdits`, by induction over the edits (`HunksShow`, with
  `OneByOne`: a set of sequences that is closed under appending has them all). `AddEditIs`
  is its step: whether an edit opens a hunk or joins the last one, what the hunks show
  grows by what the edit deletes and inserts (`ChangeIs`), and the context before and after
  it adds neither (`LeadIs`, `TrailIs`). It says nothing of the ranges in the headers:
  those are wrong in the ways the table of refuted statements lists.
* `OursComesBack`: `OnlyOursChanged`: our text comes back but for one final line feed. A text differs from itself by nothing, or by an
  insertion of nothing if it is empty (`SelfDiff`), and neither overlaps with anything.
* `DeletionsConflict`: `BothDeleteConflict`, since a merged edit covers the old lines
  of what it was merged from (`CoveredIs`).

All folds of the module have one shape, `Turn`, so that one induction (`TableExists`,
`TableTurns`) serves for all.

Model-checked only: liveness (`CommandsEnd`, `CallEnds`, `HandlerEnds`, `Served`,
`StopEnds`, `PlainReturns`), which is out of the provers' reach. Every other property
of a passing run has a theorem.

## 5. Not modelled, and the plan

Next, in this order:

1. The binary layout of the index file (a cut file loads as a prefix in
   `Repository`), and `WritePackIndex`.
2. `CheckoutTree` and `BuildTree`. No command reaches them: clone returns with an
   error before it checks out, and commit builds flat trees.
3. Tags in `Session` (a tag named by the daemon, stored by clone), and the
   configuration file of the daemon.

Left out for good: compression and hashing (library calls), TLS, colours,
formatting and logging, `cmd/*` files that only parse flags, `net/auth.go` and
`net/dial.go` (unused), `diff/similarity.go` (unused), and the public packages,
which pass calls on. Of these `searchapi.Open` makes an index and never fills it,
so that it finds nothing.
