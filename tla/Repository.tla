----------------------------- MODULE Repository -----------------------------
(***************************************************************************)
(* One MinusSync repository on disk (.msync) and the msync commands that   *)
(* run in it.  A command is an operating-system process: it opens the      *)
(* repository (which loads the index into memory), works, and closes it    *)
(* (which writes the index back).  Nothing locks the repository, so the    *)
(* steps of two commands interleave freely, and a command can be killed    *)
(* between any two of its steps.                                           *)
(*                                                                         *)
(* Abstractions.  A hash IS the object it names (SHA-256 is taken to be    *)
(* injective); two commits are always different objects (their timestamps  *)
(* differ).  Paths are the numbers 1..NPaths in the index's sort order,    *)
(* and file modes and ignore rules are left out.  A file whose content     *)
(* changed is taken to have a new mtime, so Index.Dirty comes down to the  *)
(* comparison of fingerprints.  An I/O error other than a missing file is  *)
(* not modelled; a killed command is.                                      *)
(*                                                                         *)
(* fetch and clone receive objects and drop them, but set references to    *)
(* the commits the daemon named.  Such a commit, one that this repository  *)
(* has not stored, is a member of Foreign; one of ours that a daemon names *)
(* and that a gc has removed meanwhile counts as foreign, too.             *)
(***************************************************************************)
EXTENDS Naturals, Sequences, FiniteSets

CONSTANTS
    Proc,       \* command processes that may be running at the same time
    NPaths,     \* number of working-tree paths
    Content,    \* file contents
    Absent,     \* no file / no index entry / no tree entry
    Fp,         \* the sampled fingerprint of each content
    TagName,    \* tag names
    Elsewhere,  \* commits of other repositories, which daemons show
    Enabled,    \* the commands this instance runs
    Modes,      \* the values core.sync-only may have when a command opens the config file
    HasRemote,  \* is a remote configured
    MayCrash,   \* may commands be killed
    MaxRuns     \* bound: how many commands are started altogether

\* fetch stands for pull as well, which only adds a message, and clone is in Init;
\* look is any command that only reads: status, log, diff, fsck, search, config,
\* remote add, serve, gc without --prune, ...
Commands == {"add", "addall", "commit", "commitall", "sync", "check", "push", "fetch",
             "unremote", "tag", "atag", "untag", "gc", "look"}

ASSUME NPathsAssumption == NPaths \in Nat \ {0}
ASSUME AbsentAssumption == Absent \notin Content
ASSUME FpAssumption == DOMAIN Fp = Content
ASSUME EnabledAssumption == Enabled \subseteq Commands
ASSUME ModeAssumption ==
    Modes \subseteq BOOLEAN /\ HasRemote \in BOOLEAN /\ MayCrash \in BOOLEAN
ASSUME MaxRunsAssumption == MaxRuns \in Nat

Path == 1..NPaths
Snapshot == [Path -> Content \cup {Absent}]
NoFiles == [q \in Path |-> Absent]

(***************************************************************************)
(* Objects, named by their hash.  Zero is the all-zero hash; Garbage is    *)
(* what ReadHead makes of a HEAD file that does not hold 64 hex digits;    *)
(* NoRef is a reference file that does not exist.                          *)
(***************************************************************************)
Zero == <<"zero">>
Garbage == <<"garbage">>
NoRef == <<"none">>

Blob(c) == <<"blob", c>>
Tree(t) == <<"tree", t>>
Commit(i) == <<"commit", i>>
TagObject(n, h) == <<"tag", n, h>>

BlobObject == {"blob"} \X Content
TreeObject == {"tree"} \X Snapshot
CommitObject == {"commit"} \X (Nat \ {0})
Foreign == {"foreign"} \X Elsewhere
AnyCommit == CommitObject \cup Foreign
AnnotatedTag == {"tag"} \X TagName \X (AnyCommit \cup {Zero})
Object == BlobObject \cup TreeObject \cup CommitObject \cup AnnotatedTag

CommitData == [tree : Snapshot, parent : AnyCommit \cup {Zero}, seq : Nat]

VARIABLES
    \* the disk
    work,       \* the working tree
    index,      \* the entries index.Load would return from the index file
    head,       \* what ReadHead would return from the HEAD file
    made,       \* data of every commit ever built, in creation order
    objects,    \* the object files present
    temps,      \* commands whose temporary object file is present
    tags,       \* the tag references
    remote,     \* the remote-tracking reference, Zero if there is none
    \* the running commands
    pc,         \* the step a command is at, "idle" when it is not running
    cmd,        \* which command it is
    mem,        \* Repository.Index: its in-memory index
    todo,       \* paths it has still to stage
    noted,      \* paths it found deleted (sync) or different (check)
    obj,        \* the object it is writing or about to publish
    marked,     \* gc: the reachable set it computed
    listed,     \* gc: unreachable objects that were there when it listed them
    runs        \* commands started so far

disk == <<work, index, head, made, objects, temps, tags, remote>>
proc == <<pc, cmd, mem, todo, noted, obj, marked, listed, runs>>
vars == <<work, index, head, made, objects, temps, tags, remote,
          pc, cmd, mem, todo, noted, obj, marked, listed, runs>>

-----------------------------------------------------------------------------
(* Helpers *)

First(s) == CHOOSE q \in s : \A r \in s : q <= r

\* A walk of the working tree meets the file and Index.Dirty reports it: it is
\* untracked, or its fingerprint is not the recorded one.
Dirty(ix, q) == work[q] # Absent /\ (ix[q] = Absent \/ Fp[ix[q]] # Fp[work[q]])

\* A partly written index file loads as the entries before the cut.
Prefixes(ix) == {[q \in Path |-> IF q <= k THEN ix[q] ELSE Absent] : k \in 0..NPaths}

\* object.ReadCommit succeeds
Readable(h) == h \in objects /\ h \in CommitObject

\* The hashes recorded in an object, m being the data of the commits.
Names(m, h) ==
    CASE h[1] = "commit" -> {Tree(m[h[2]].tree), m[h[2]].parent} \ {Zero}
      [] h[1] = "tree" -> {Blob(h[2][q]) : q \in {r \in Path : h[2][r] # Absent}}
      [] h[1] = "tag" -> {h[3]} \ {Zero}
      [] OTHER -> {}

\* What markReachable follows out of a hash: nothing if it cannot be read.
Links(h) == IF h \in objects THEN Names(made, h) ELSE {}

\* Everything markReachable marks from a set of roots.  A path from a root is
\* at most a tag object, every commit, a tree and a blob long.
Reachable(roots) ==
    LET within[k \in 0..(Len(made) + 3)] ==
            IF k = 0 THEN roots
                     ELSE within[k - 1] \cup UNION {Links(h) : h \in within[k - 1]}
    IN  within[Len(made) + 3]

\* Faulty variant: the mark forgets the tags.
RootsWithoutTags == {head, remote} \ {Zero, Garbage, NoRef}

\* Where the mark starts: a HEAD that can be read, the tags, the remote reference.
Roots == ({head, remote} \cup {tags[n] : n \in TagName}) \ {Zero, Garbage, NoRef}

-----------------------------------------------------------------------------
(* Opening a repository and starting a command *)

\* Where a command goes once the repository is open.  commit is refused in a
\* sync-only repository and sync in any other; both then just close it.
Entry(c, syncOnly) ==
    CASE c \in {"add", "addall", "check"} -> "stage"
      [] c = "commit" -> IF syncOnly THEN "close" ELSE "tree"
      [] c = "commitall" -> IF syncOnly THEN "close" ELSE "stage"
      [] c = "sync" -> IF syncOnly THEN "scan" ELSE "close"
      [] c = "push" -> "push"
      [] c = "fetch" -> "fetch"
      [] c = "unremote" -> "unremote"
      [] c \in {"tag", "atag"} -> "target"
      [] c = "untag" -> "untag"
      [] c = "gc" -> "mark"
      [] c = "look" -> "close"

\* repo.Open loads the index.  add is given the files named on the command
\* line; add --all and commit --all walk every path; check goes over the index.
Start(p, c) ==
    /\ pc[p] = "idle"
    /\ runs < MaxRuns
    /\ runs' = runs + 1
    /\ cmd' = [cmd EXCEPT ![p] = c]
    /\ \E syncOnly \in Modes : pc' = [pc EXCEPT ![p] = Entry(c, syncOnly)]
    /\ mem' = [mem EXCEPT ![p] = index]
    /\ \E files \in SUBSET Path :
          /\ CASE c = "add" -> files # {}
               [] c \in {"addall", "commitall"} -> files = Path
               [] c = "check" -> files = {q \in Path : index[q] # Absent}
               [] OTHER -> files = {}
          /\ todo' = [todo EXCEPT ![p] = files]
    /\ UNCHANGED <<disk, noted, obj, marked, listed>>

-----------------------------------------------------------------------------
(* Staging: add, add --all, commit --all, sync, check --fix *)

\* The walk of add --all leaves out missing and clean files; check leaves out
\* missing files and those whose full hash is the one recorded.
Skips(p, q) ==
    \/ cmd[p] \in {"addall", "commitall"} /\ ~Dirty(mem[p], q)
    \/ cmd[p] = "check" /\ work[q] \in {Absent, mem[p][q]}

StageSkip(p) ==
    /\ pc[p] = "stage" /\ todo[p] # {}
    /\ LET q == First(todo[p]) IN
          /\ Skips(p, q)
          /\ todo' = [todo EXCEPT ![p] = @ \ {q}]
          /\ noted' = IF cmd[p] = "check" /\ work[q] = Absent
                      THEN [noted EXCEPT ![p] = @ \cup {q}] ELSE noted
    /\ UNCHANGED <<disk, pc, cmd, mem, obj, marked, listed, runs>>

\* A file that add or sync was to stage is gone, or one that the walk of
\* add --all had just listed: the command fails, and the deferred Close still
\* saves what it had staged.
StageMissing(p) ==
    /\ pc[p] = "stage" /\ todo[p] # {}
    /\ cmd[p] # "check"
    /\ work[First(todo[p])] = Absent
    /\ pc' = [pc EXCEPT ![p] = "close"]
    /\ UNCHANGED <<disk, cmd, mem, todo, noted, obj, marked, listed, runs>>

\* The file is read; its blob is about to be written.
StageRead(p) ==
    /\ pc[p] = "stage" /\ todo[p] # {}
    /\ LET q == First(todo[p]) IN
          /\ ~Skips(p, q)
          /\ work[q] # Absent
          /\ obj' = [obj EXCEPT ![p] = Blob(work[q])]
          /\ noted' = IF cmd[p] = "check"
                      THEN [noted EXCEPT ![p] = @ \cup {q}] ELSE noted
    /\ pc' = [pc EXCEPT ![p] = "put"]
    /\ UNCHANGED <<disk, cmd, mem, todo, marked, listed, runs>>

\* Everything is staged.  sync drops the deleted paths; add and sync save the
\* index, check only if it found a difference, add --all leaves it to Close.
StageEnd(p) ==
    /\ pc[p] = "stage" /\ todo[p] = {}
    /\ mem' = IF cmd[p] = "sync"
              THEN [mem EXCEPT ![p] = [q \in Path |->
                                         IF q \in noted[p] THEN Absent ELSE mem[p][q]]]
              ELSE mem
    /\ pc' = [pc EXCEPT ![p] =
                 CASE cmd[p] \in {"add", "sync"} -> "save"
                   [] cmd[p] = "check" -> IF noted[p] = {} THEN "close" ELSE "save"
                   [] cmd[p] = "addall" -> "close"
                   [] OTHER -> "tree"]
    /\ UNCHANGED <<disk, cmd, todo, noted, obj, marked, listed, runs>>

\* scanSyncChanges, and the early return when it finds nothing.
SyncScan(p) ==
    /\ pc[p] = "scan"
    /\ LET changed == {q \in Path : Dirty(mem[p], q)}
           deleted == {q \in Path : work[q] = Absent /\ mem[p][q] # Absent}
       IN  /\ todo' = [todo EXCEPT ![p] = changed]
           /\ noted' = [noted EXCEPT ![p] = deleted]
           /\ pc' = [pc EXCEPT ![p] = IF changed \cup deleted = {} THEN "close" ELSE "stage"]
    /\ UNCHANGED <<disk, cmd, mem, obj, marked, listed, runs>>

-----------------------------------------------------------------------------
(* object.Write: stat, then a temporary file in the object's directory, then *)
(* a rename.                                                                 *)

\* The caller goes on with the object stored.  A stored blob's entry enters
\* the in-memory index.
Stored(p) ==
    IF obj[p] \in BlobObject
    THEN LET q == First(todo[p]) IN
         /\ mem' = [mem EXCEPT ![p][q] = obj[p][2]]
         /\ todo' = [todo EXCEPT ![p] = @ \ {q}]
         /\ pc' = [pc EXCEPT ![p] = "stage"]
    ELSE /\ pc' = [pc EXCEPT ![p] = CASE obj[p] \in TreeObject -> "parent"
                                      [] obj[p] \in CommitObject -> "head"
                                      [] OTHER -> "settag"]
         /\ UNCHANGED <<mem, todo>>

\* Faulty variant: an object another command has begun to write counts as stored.
PutExistingUnfinished(p) ==
    /\ pc[p] = "put"
    /\ obj[p] \in objects \/ \E q \in temps : obj[q] = obj[p]
    /\ Stored(p)
    /\ UNCHANGED <<disk, cmd, noted, obj, marked, listed, runs>>

\* Faulty variant: the object is taken to be stored without looking.
PutUnchecked(p) ==
    /\ pc[p] = "put"
    /\ Stored(p)
    /\ UNCHANGED <<disk, cmd, noted, obj, marked, listed, runs>>

PutExisting(p) ==
    /\ pc[p] = "put"
    /\ obj[p] \in objects
    /\ Stored(p)
    /\ UNCHANGED <<disk, cmd, noted, obj, marked, listed, runs>>

PutTemp(p) ==
    /\ pc[p] = "put"
    /\ obj[p] \notin objects
    /\ temps' = temps \cup {p}
    /\ pc' = [pc EXCEPT ![p] = "rename"]
    /\ UNCHANGED <<work, index, head, made, objects, tags, remote,
                   cmd, mem, todo, noted, obj, marked, listed, runs>>

PutRename(p) ==
    /\ pc[p] = "rename"
    /\ p \in temps
    /\ temps' = temps \ {p}
    /\ objects' = objects \cup {obj[p]}
    /\ Stored(p)
    /\ UNCHANGED <<work, index, head, made, tags, remote,
                   cmd, noted, obj, marked, listed, runs>>

\* Faulty variant: the rename is tried again until it succeeds.
PutLostRetry(p) ==
    /\ pc[p] = "rename"
    /\ p \notin temps
    /\ UNCHANGED vars

\* A gc removed the temporary file: the write fails and so does the command.
PutLost(p) ==
    /\ pc[p] = "rename"
    /\ p \notin temps
    /\ pc' = [pc EXCEPT ![p] = "close"]
    /\ UNCHANGED <<disk, cmd, mem, todo, noted, obj, marked, listed, runs>>

-----------------------------------------------------------------------------
(* createCommit: commit, commit --all, sync *)

\* Faulty variant: the tree is hashed but never written.
BuildTreeUnwritten(p) ==
    /\ pc[p] = "tree"
    /\ pc' = [pc EXCEPT ![p] = IF mem[p] = NoFiles THEN "close" ELSE "parent"]
    /\ obj' = [obj EXCEPT ![p] = IF mem[p] = NoFiles THEN @ ELSE Tree(mem[p])]
    /\ UNCHANGED <<disk, cmd, mem, todo, noted, marked, listed, runs>>

\* buildTreeFromIndex, or "nothing to commit" when the index is empty.
BuildTree(p) ==
    /\ pc[p] = "tree"
    /\ IF mem[p] = NoFiles
       THEN /\ pc' = [pc EXCEPT ![p] = "close"]
            /\ UNCHANGED obj
       ELSE /\ pc' = [pc EXCEPT ![p] = "put"]
            /\ obj' = [obj EXCEPT ![p] = Tree(mem[p])]
    /\ UNCHANGED <<disk, cmd, mem, todo, noted, marked, listed, runs>>

\* Faulty variant: the comparison with HEAD's tree is left out.
SameTreeNever(t) == FALSE

\* HEAD already has this tree: "nothing to commit, working tree clean".
SameTree(t) == Readable(head) /\ made[head[2]].tree = t

\* Faulty variants: the number is not incremented; it counts all commits ever
\* built instead of the parent's; the parent is left out.
CommitOnHeadSameSeq(t) ==
    [tree |-> t,
     parent |-> IF head \in AnyCommit THEN head ELSE Zero,
     seq |-> IF Readable(head) THEN made[head[2]].seq ELSE 1]
CommitOnHeadGlobalSeq(t) ==
    [tree |-> t,
     parent |-> IF head \in AnyCommit THEN head ELSE Zero,
     seq |-> Len(made) + 1]
CommitOnHeadOrphan(t) == [tree |-> t, parent |-> Zero, seq |-> 1]

\* A commit is built on HEAD.  An unreadable HEAD file counts as no HEAD at
\* all, an unreadable HEAD commit, as clone leaves one, as one with sequence 0.
CommitOnHead(t) ==
    [tree |-> t,
     parent |-> IF head \in AnyCommit THEN head ELSE Zero,
     seq |-> IF Readable(head) THEN made[head[2]].seq + 1 ELSE 1]

NothingChanged(p) ==
    /\ pc[p] = "parent"
    /\ SameTree(obj[p][2])
    /\ pc' = [pc EXCEPT ![p] = "close"]
    /\ UNCHANGED <<disk, cmd, mem, todo, noted, obj, marked, listed, runs>>

NewCommitData(p) ==
    /\ pc[p] = "parent"
    /\ ~SameTree(obj[p][2])
    /\ made' = Append(made, CommitOnHead(obj[p][2]))
    /\ obj' = [obj EXCEPT ![p] = Commit(Len(made) + 1)]
    /\ pc' = [pc EXCEPT ![p] = "put"]
    /\ UNCHANGED <<work, index, head, objects, temps, tags, remote,
                   cmd, mem, todo, noted, marked, listed, runs>>

\* WriteHead is os.WriteFile: it truncates the file, then writes it.
WriteHeadBegin(p) ==
    /\ pc[p] = "head"
    /\ head' = Garbage
    /\ pc' = [pc EXCEPT ![p] = "headw"]
    /\ UNCHANGED <<work, index, made, objects, temps, tags, remote,
                   cmd, mem, todo, noted, obj, marked, listed, runs>>

WriteHeadEnd(p) ==
    /\ pc[p] = "headw"
    /\ head' = obj[p]
    /\ pc' = [pc EXCEPT ![p] = "csave"]
    /\ UNCHANGED <<work, index, made, objects, temps, tags, remote,
                   cmd, mem, todo, noted, obj, marked, listed, runs>>

-----------------------------------------------------------------------------
(* Saving the index: SaveIndex inside a command ("save", and "csave" after a *)
(* commit) and the Close every command ends with.  os.WriteFile truncates,   *)
(* then writes.                                                              *)

SaveBegin(p) ==
    /\ pc[p] \in {"save", "csave", "close"}
    /\ index' \in Prefixes(mem[p])
    /\ pc' = [pc EXCEPT ![p] = CASE pc[p] = "save" -> "savew"
                                 [] pc[p] = "csave" -> "csavew"
                                 [] OTHER -> "closew"]
    /\ UNCHANGED <<work, head, made, objects, temps, tags, remote,
                   cmd, mem, todo, noted, obj, marked, listed, runs>>

\* sync goes on to commit after the first save and to push after the second.
SaveEnd(p) ==
    /\ pc[p] \in {"savew", "csavew"}
    /\ index' = mem[p]
    /\ pc' = [pc EXCEPT ![p] =
                 IF cmd[p] # "sync" THEN "close"
                 ELSE IF pc[p] = "savew" THEN "tree"
                 ELSE IF HasRemote THEN "push" ELSE "close"]
    /\ UNCHANGED <<work, head, made, objects, temps, tags, remote,
                   cmd, mem, todo, noted, obj, marked, listed, runs>>

\* What a process leaves behind when it is gone: nothing in memory.
Forget(p) ==
    /\ pc' = [pc EXCEPT ![p] = "idle"]
    /\ cmd' = [cmd EXCEPT ![p] = "look"]
    /\ mem' = [mem EXCEPT ![p] = NoFiles]
    /\ todo' = [todo EXCEPT ![p] = {}]
    /\ noted' = [noted EXCEPT ![p] = {}]
    /\ obj' = [obj EXCEPT ![p] = Zero]
    /\ marked' = [marked EXCEPT ![p] = {}]
    /\ listed' = [listed EXCEPT ![p] = {}]

CloseEnd(p) ==
    /\ pc[p] = "closew"
    /\ index' = mem[p]
    /\ Forget(p)
    /\ UNCHANGED <<work, head, made, objects, temps, tags, remote, runs>>

-----------------------------------------------------------------------------
(* Push, from push or at the end of sync.  The server is outside: it accepts *)
(* or it does not.                                                           *)

\* HEAD and its commit are read, and the remote's last known commit if it can
\* be; the push is rejected if that one has the higher sequence number.
PushStart(p) ==
    /\ pc[p] = "push"
    /\ IF /\ HasRemote
          /\ Readable(head)
          /\ ~(/\ remote # head
               /\ Readable(remote)
               /\ made[remote[2]].seq > made[head[2]].seq)
       THEN /\ obj' = [obj EXCEPT ![p] = head]
            /\ pc' = [pc EXCEPT ![p] = "sent"]
       ELSE /\ pc' = [pc EXCEPT ![p] = "close"]
            /\ UNCHANGED obj
    /\ UNCHANGED <<disk, cmd, mem, todo, noted, marked, listed, runs>>

PushAccepted(p) ==
    /\ pc[p] = "sent"
    /\ remote' = obj[p]
    /\ pc' = [pc EXCEPT ![p] = "close"]
    /\ UNCHANGED <<work, index, head, made, objects, temps, tags,
                   cmd, mem, todo, noted, obj, marked, listed, runs>>

\* No connection, an error reply, or a reply that sets no reference.
PushFailed(p) ==
    /\ pc[p] = "sent"
    /\ pc' = [pc EXCEPT ![p] = "close"]
    /\ UNCHANGED <<disk, cmd, mem, todo, noted, obj, marked, listed, runs>>

-----------------------------------------------------------------------------
(* fetch, pull and remote remove *)

\* The daemon shows a HEAD: none, a commit of another repository or, if it
\* serves this one or a copy of it, one that is stored here.  The objects it
\* sends are dropped, the reference is set all the same.
Fetch(p) ==
    /\ pc[p] = "fetch"
    /\ HasRemote
    /\ remote' \in {Zero} \cup Foreign \cup (objects \cap CommitObject)
    /\ pc' = [pc EXCEPT ![p] = "close"]
    /\ UNCHANGED <<work, index, head, made, objects, temps, tags,
                   cmd, mem, todo, noted, obj, marked, listed, runs>>

\* No remote, no connection, a reply cut short, or no HEAD among the references.
FetchFailed(p) ==
    /\ pc[p] = "fetch"
    /\ pc' = [pc EXCEPT ![p] = "close"]
    /\ UNCHANGED <<disk, cmd, mem, todo, noted, obj, marked, listed, runs>>

\* remote remove deletes the remote's references.  (HasRemote stays: the remote
\* may be added again, and a push or a fetch without one fails.)
RemoveRemote(p) ==
    /\ pc[p] = "unremote"
    /\ remote' = Zero
    /\ pc' = [pc EXCEPT ![p] = "close"]
    /\ UNCHANGED <<work, index, head, made, objects, temps, tags,
                   cmd, mem, todo, noted, obj, marked, listed, runs>>

-----------------------------------------------------------------------------
(* tag *)

\* Faulty variant: an unreadable HEAD is not noticed.
TagTargetUnchecked(p) ==
    /\ pc[p] = "target"
    /\ IF cmd[p] = "atag"
       THEN /\ \E n \in TagName : obj' = [obj EXCEPT ![p] = TagObject(n, head)]
            /\ pc' = [pc EXCEPT ![p] = "put"]
       ELSE /\ obj' = [obj EXCEPT ![p] = head]
            /\ pc' = [pc EXCEPT ![p] = "settag"]
    /\ UNCHANGED <<disk, cmd, mem, todo, noted, marked, listed, runs>>

\* The tag's target is HEAD; an annotated tag has an object of its own.
TagTarget(p) ==
    /\ pc[p] = "target"
    /\ IF head = Garbage
       THEN /\ pc' = [pc EXCEPT ![p] = "close"]
            /\ UNCHANGED obj
       ELSE IF cmd[p] = "atag"
       THEN /\ \E n \in TagName : obj' = [obj EXCEPT ![p] = TagObject(n, head)]
            /\ pc' = [pc EXCEPT ![p] = "put"]
       ELSE /\ obj' = [obj EXCEPT ![p] = head]
            /\ pc' = [pc EXCEPT ![p] = "settag"]
    /\ UNCHANGED <<disk, cmd, mem, todo, noted, marked, listed, runs>>

\* SetTag replaces the reference file atomically.
SetTag(p) ==
    /\ pc[p] = "settag"
    /\ \E n \in TagName :
          /\ obj[p] \in AnnotatedTag => obj[p][2] = n
          /\ tags' = [tags EXCEPT ![n] = obj[p]]
    /\ pc' = [pc EXCEPT ![p] = "close"]
    /\ UNCHANGED <<work, index, head, made, objects, temps, remote,
                   cmd, mem, todo, noted, obj, marked, listed, runs>>

\* Deleting a tag that does not exist is an error and changes nothing.
DeleteTag(p) ==
    /\ pc[p] = "untag"
    /\ \E n \in TagName : tags' = [tags EXCEPT ![n] = NoRef]
    /\ pc' = [pc EXCEPT ![p] = "close"]
    /\ UNCHANGED <<work, index, head, made, objects, temps, remote,
                   cmd, mem, todo, noted, obj, marked, listed, runs>>

-----------------------------------------------------------------------------
(* gc --prune *)

Mark(p) ==
    /\ pc[p] = "mark"
    /\ marked' = [marked EXCEPT ![p] = Reachable(Roots)]
    /\ listed' = [listed EXCEPT ![p] = objects \ Reachable(Roots)]
    /\ pc' = [pc EXCEPT ![p] = "sweep"]
    /\ UNCHANGED <<disk, cmd, mem, todo, noted, obj, runs>>

\* The directories are listed one after the other, so a file written after the
\* mark may be met as well.
SweepObject(p) ==
    /\ pc[p] = "sweep"
    /\ \E o \in objects \ marked[p] : objects' = objects \ {o}
    /\ UNCHANGED <<work, index, head, made, temps, tags, remote, proc>>

\* A temporary file is not in the reachable set either.
SweepTemp(p) ==
    /\ pc[p] = "sweep"
    /\ \E q \in temps : temps' = temps \ {q}
    /\ UNCHANGED <<work, index, head, made, objects, tags, remote, proc>>

SweepEnd(p) ==
    /\ pc[p] = "sweep"
    /\ listed[p] \cap objects = {}
    /\ pc' = [pc EXCEPT ![p] = "close"]
    /\ UNCHANGED <<disk, cmd, mem, todo, noted, obj, marked, listed, runs>>

-----------------------------------------------------------------------------
(* The environment *)

\* A file is created, changed or deleted.
Edit ==
    /\ \E q \in Path, c \in Content \cup {Absent} :
          /\ c # work[q]
          /\ work' = [work EXCEPT ![q] = c]
    /\ UNCHANGED <<index, head, made, objects, temps, tags, remote, proc>>

\* A command is killed.  Its temporary file stays, but nobody waits for it.
Crash(p) ==
    /\ MayCrash
    /\ pc[p] # "idle"
    /\ temps' = temps \ {p}
    /\ Forget(p)
    /\ UNCHANGED <<work, index, head, made, objects, tags, remote, runs>>

-----------------------------------------------------------------------------
\* repo.Init: no commits, an empty index, a HEAD file holding the zero hash.  Or
\* clone, which runs it, sets the remote reference and then HEAD to what the
\* daemon named, and fails because it stored no object; it may also be killed.
Init ==
    /\ work = NoFiles
    /\ index = NoFiles
    /\ head \in {Zero} \cup Foreign \cup (IF MayCrash THEN {Garbage} ELSE {})
    /\ made = <<>>
    /\ objects = {}
    /\ temps = {}
    /\ tags = [n \in TagName |-> NoRef]
    /\ remote \in {Zero} \cup Foreign
    /\ pc = [p \in Proc |-> "idle"]
    /\ cmd = [p \in Proc |-> "look"]
    /\ mem = [p \in Proc |-> NoFiles]
    /\ todo = [p \in Proc |-> {}]
    /\ noted = [p \in Proc |-> {}]
    /\ obj = [p \in Proc |-> Zero]
    /\ marked = [p \in Proc |-> {}]
    /\ listed = [p \in Proc |-> {}]
    /\ runs = 0

Stage(p) == StageSkip(p) \/ StageMissing(p) \/ StageRead(p) \/ StageEnd(p) \/ SyncScan(p)
Put(p) == PutExisting(p) \/ PutTemp(p) \/ PutRename(p) \/ PutLost(p)
CreateCommit(p) ==
    \/ BuildTree(p) \/ NothingChanged(p) \/ NewCommitData(p)
    \/ WriteHeadBegin(p) \/ WriteHeadEnd(p)
Save(p) == SaveBegin(p) \/ SaveEnd(p) \/ CloseEnd(p)
Push(p) == PushStart(p) \/ PushAccepted(p) \/ PushFailed(p)
Remote(p) == Fetch(p) \/ FetchFailed(p) \/ RemoveRemote(p)
Tag(p) == TagTarget(p) \/ SetTag(p) \/ DeleteTag(p)
Gc(p) == Mark(p) \/ SweepObject(p) \/ SweepTemp(p) \/ SweepEnd(p)

\* The next step of a running command.
Step(p) ==
    \/ Stage(p) \/ Put(p) \/ CreateCommit(p) \/ Save(p)
    \/ Push(p) \/ Remote(p) \/ Tag(p) \/ Gc(p)

Next ==
    \/ \E p \in Proc, c \in Enabled : Start(p, c)
    \/ \E p \in Proc : Step(p)
    \/ \E p \in Proc : Crash(p)
    \/ Edit

Spec == Init /\ [][Next]_vars

\* The operating system keeps scheduling a running process.
FairSpec == Spec /\ \A p \in Proc : WF_vars(Step(p))

-----------------------------------------------------------------------------
(* Properties *)

Steps == {"idle", "stage", "put", "rename", "scan", "tree", "parent", "head", "headw",
          "save", "savew", "csave", "csavew", "close", "closew", "push", "sent", "fetch", "unremote",
          "target", "settag", "untag", "mark", "sweep"}

\* Every variable stays in its type, and HEAD, the references, the store and the
\* objects being written hold only commits that were built, so that made[...]
\* is never read out of range.  (marked is whatever Reachable computes.)
CommitBuilt(h) == h \in CommitObject => h[2] <= Len(made)
TypeOK ==
    /\ work \in Snapshot /\ index \in Snapshot
    /\ head \in AnyCommit \cup {Zero, Garbage}
    /\ made \in Seq(CommitData)
    /\ objects \subseteq Object
    /\ temps \subseteq Proc
    /\ tags \in [TagName -> AnyCommit \cup AnnotatedTag \cup {Zero, NoRef}]
    /\ remote \in AnyCommit \cup {Zero}
    /\ pc \in [Proc -> Steps] /\ cmd \in [Proc -> Commands]
    /\ mem \in [Proc -> Snapshot]
    /\ todo \in [Proc -> SUBSET Path] /\ noted \in [Proc -> SUBSET Path]
    /\ obj \in [Proc -> Object \cup Foreign \cup {Zero}]
    /\ listed \in [Proc -> SUBSET Object]
    /\ runs \in 0..MaxRuns
    /\ CommitBuilt(head) /\ CommitBuilt(remote)
    /\ \A n \in TagName : CommitBuilt(tags[n])
    /\ \A o \in objects : CommitBuilt(o)
    /\ \A p \in Proc : CommitBuilt(obj[p])

\* Crash consistency of the history: every object that HEAD, a tag or the remote
\* reference names, or that an object on disk refers to, is on disk (blob before
\* tree, tree before commit, commit before HEAD), at every moment, with commands
\* killed anywhere and running side by side.  The only exception are the commits
\* of other repositories, which fetch and clone set references to and store
\* nothing of: they, and what they would lead to, are missing for good.
Named == {head, remote} \cup {tags[n] : n \in TagName}
HistoryPresent ==
    /\ (Named \cap Object) \subseteq objects
    /\ \A o \in objects : Names(made, o) \subseteq objects \cup Foreign

\* What is staged can be committed: the blob of every entry of the index file
\* is in the object store (addFile writes the blob before the entry).
Kept(ix) == \A q \in Path : ix[q] # Absent => Blob(ix[q]) \in objects
StagedPresent == Kept(index)

\* NewCommitData numbers a commit one above its parent, whichever commands ran
\* before and between.  A commit without a parent has the number 1, and so has
\* one whose parent cannot be read, the commit that clone left in HEAD.
SequenceFollowsParent ==
    \A i \in 1..Len(made) :
        IF made[i].parent \in CommitObject
        THEN /\ made[i].parent[2] < i
             /\ made[i].seq = made[made[i].parent[2]].seq + 1
        ELSE made[i].seq = 1

\* Not so: only a commit without a parent has the number 1.
OnlyRootsAreFirst ==
    \A i \in 1..Len(made) : made[i].seq = 1 => made[i].parent = Zero

\* Not so: createCommit replaces HEAD only by a child of the commit HEAD names.
HeadMovesToChild ==
    [][\A p \in Proc : pc[p] = "head" /\ pc'[p] = "headw" /\ head # Garbage
                          => made[obj[p][2]].parent = head]_vars

\* Not so: a push is refused if the remote has a commit, known from a fetch, that
\* the pushed one is not based on.
PushKeepsOthers ==
    [][\A p \in Proc : pc[p] = "sent" /\ pc'[p] = "close" /\ remote \in Foreign
                          => remote' = remote]_vars

\* gc removes no object that HEAD, a tag or the remote reference leads to at
\* the moment of the removal.
GcKeepsReachable ==
    [][\A o \in objects : o \notin objects' => o \notin Reachable(Named \cap Object)]_vars

\* Not so: a command that only reads never overwrites an index file that another
\* command has changed since: it writes back what is there.
ReadOnlyKeepsStaged ==
    [][\A p \in Proc : cmd[p] = "look" /\ pc[p] = "close" /\ pc'[p] = "closew"
                          => index = mem[p]]_vars

\* Not so: a sync that finds nothing to do leaves the remote with the current HEAD.
SyncUpToDate ==
    [][\A p \in Proc : pc[p] = "scan" /\ pc'[p] = "close" => remote = head]_vars

\* Unless a command is just rewriting it, the HEAD file holds a hash.
HeadIsHash == (\A p \in Proc : pc[p] # "headw") => head # Garbage

\* Every command ends, whatever other commands do or fail to do: nothing in
\* the repository is ever waited for.
CommandsEnd == \A p \in Proc : pc[p] # "idle" ~> pc[p] = "idle"
=============================================================================
