-------------------------- MODULE RepositoryProofs --------------------------
(***************************************************************************)
(* What holds of Repository for every number of commands, paths and        *)
(* contents, in a repository made by init or by clone: type correctness,   *)
(* crash consistency of the object store where gc --prune is not run, the  *)
(* numbering of commits, and, when commands run one at a time and may be   *)
(* killed, that gc removes nothing of the history and that every step is   *)
(* one of the abstract timeline or none.                                   *)
(***************************************************************************)
EXTENDS RepositoryTimeline, TLAPS, WellFoundedInduction

-----------------------------------------------------------------------------
(* Facts about the data *)

\* The kinds of objects, and the constructors and selectors of each.
LEMMA Kinds ==
    /\ \A c \in Content : Blob(c) \in BlobObject /\ Blob(c)[2] = c
    /\ \A t \in Snapshot : Tree(t) \in TreeObject /\ Tree(t)[2] = t
    /\ \A i \in Nat \ {0} : Commit(i) \in CommitObject /\ Commit(i)[2] = i
    /\ \A n \in TagName, h \in AnyCommit \cup {Zero} : TagObject(n, h) \in AnnotatedTag
    /\ \A b \in BlobObject : b[2] \in Content /\ b = Blob(b[2]) /\ b[1] = "blob"
    /\ \A b \in TreeObject : b[2] \in Snapshot /\ b = Tree(b[2]) /\ b[1] = "tree"
    /\ \A b \in CommitObject : b[2] \in Nat \ {0} /\ b = Commit(b[2]) /\ b[1] = "commit"
    /\ \A b \in AnnotatedTag : b[1] = "tag" /\ b[3] \in AnyCommit \cup {Zero}
    /\ \A b \in Foreign : b[1] = "foreign" /\ b \notin Object /\ b \notin {Zero, Garbage, NoRef}
    /\ Zero # Garbage /\ NoRef \notin {Zero, Garbage}
    /\ Zero \notin Object /\ Garbage \notin Object /\ NoRef \notin Object
  BY DEF Zero, Garbage, NoRef, Blob, Tree, Commit, TagObject, BlobObject, TreeObject, CommitObject,
     Foreign, AnyCommit, AnnotatedTag, Object

\* No object is of two kinds.
LEMMA Disjoint ==
    /\ BlobObject \cap (TreeObject \cup CommitObject \cup AnnotatedTag) = {}
    /\ TreeObject \cap (CommitObject \cup AnnotatedTag) = {}
    /\ CommitObject \cap AnnotatedTag = {}
    /\ BlobObject \subseteq Object /\ TreeObject \subseteq Object
    /\ CommitObject \subseteq Object /\ AnnotatedTag \subseteq Object
    /\ Foreign \cap (Object \cup {Zero, Garbage, NoRef}) = {}
    /\ CommitObject \subseteq AnyCommit /\ Foreign \subseteq AnyCommit
    /\ AnyCommit \cap {Zero, Garbage, NoRef} = {} /\ AnyCommit \cap AnnotatedTag = {}
  BY Kinds DEF Object, AnyCommit

\* What each kind of object names.
LEMMA NamesOf ==
    /\ \A m, c : c \in Content => Names(m, Blob(c)) = {}
    /\ \A m, t : t \in Snapshot => Names(m, Tree(t)) = {Blob(t[q]) : q \in {r \in Path : t[r] # Absent}}
    /\ \A m, i : i \in Nat \ {0} => Names(m, Commit(i)) = {Tree(m[i].tree), m[i].parent} \ {Zero}
    /\ \A m, n, h : n \in TagName => Names(m, TagObject(n, h)) = {h} \ {Zero}
  BY DEF Names, Blob, Tree, Commit, TagObject

\* First chooses a member: a non-empty set of paths has a least one.
LEMMA FirstMember == ASSUME NEW s \in SUBSET Path, s # {} PROVE First(s) \in s
  <1>1. IsWellFoundedOn(OpToRel(<, Nat), Nat)
    BY NatLessThanWellFounded
  <1>2. PICK q \in s : \A r \in s : <<r, q>> \notin OpToRel(<, Nat)
    <2>1. s \subseteq Nat /\ s # {}
      BY NPathsAssumption DEF Path
    <2> QED BY <1>1, <2>1, WFMin, Zenon
  <1>3. \A r \in s : q <= r
    <2>1. \A r \in s : ~(r < q)
      <3>1. s \subseteq Nat
        BY NPathsAssumption DEF Path
      <3> QED BY <1>2, <3>1, Zenon DEF OpToRel
    <2> QED BY <2>1, NPathsAssumption DEF Path
  <1> QED BY <1>2, <1>3 DEF First

-----------------------------------------------------------------------------
(* Type correctness *)

\* What the register obj holds at the steps that use it; with it TypeOK is
\* inductive.
InHand ==
    \A p \in Proc :
       /\ pc[p] \in {"put", "rename"} =>
             obj[p] \in Object /\ (obj[p] \in BlobObject => todo[p] # {})
       /\ pc[p] = "parent" => obj[p] \in TreeObject
       /\ pc[p] \in {"head", "headw", "sent"} => obj[p] \in CommitObject
       /\ pc[p] = "settag" => obj[p] \in AnyCommit \cup AnnotatedTag \cup {Zero}

\* A skipped path leaves the types alone: only todo and noted change.
LEMMA StageSkipType == ASSUME TypeOK, InHand, NEW p \in Proc, StageSkip(p) PROVE TypeOK' /\ InHand'
  <1>1. First(todo[p]) \in Path
    BY FirstMember DEF TypeOK, StageSkip
  <1>2. todo' \in [Proc -> SUBSET Path] /\ noted' \in [Proc -> SUBSET Path]
    BY <1>1 DEF TypeOK, StageSkip
  <1>3. TypeOK'
    BY <1>2 DEF TypeOK, StageSkip, disk, CommitBuilt
  <1>4. InHand'
    BY DEF TypeOK, StageSkip, InHand, disk
  <1> QED BY <1>3, <1>4

\* The blob of a file that is read is a blob object.
LEMMA StageReadType == ASSUME TypeOK, InHand, NEW p \in Proc, StageRead(p) PROVE TypeOK' /\ InHand'
  <1> DEFINE q == First(todo[p])
  <1>1. q \in Path
    BY FirstMember DEF TypeOK, StageRead
  <1>2. work[q] \in Content /\ Blob(work[q]) \in BlobObject
    BY <1>1, Kinds DEF TypeOK, StageRead, Snapshot
  <1>3. obj' = [obj EXCEPT ![p] = Blob(work[q])] /\ pc' = [pc EXCEPT ![p] = "put"]
    BY DEF StageRead
  <1>4. noted' \in [Proc -> SUBSET Path]
    BY <1>1 DEF TypeOK, StageRead
  <1>5. obj' \in [Proc -> Object \cup Foreign \cup {Zero}] /\ \A r \in Proc : CommitBuilt(obj[r])'
    BY <1>2, <1>3, Disjoint DEF TypeOK, StageRead, CommitBuilt, disk
  <1>6. TypeOK'
    BY <1>3, <1>4, <1>5 DEF TypeOK, StageRead, disk, CommitBuilt, Steps
  <1>7. InHand'
    BY <1>2, <1>3, Disjoint DEF TypeOK, StageRead, InHand, disk
  <1> QED BY <1>6, <1>7

\* Going on with a stored object: its kind decides the next step.
LEMMA StoredType ==
    ASSUME TypeOK, InHand, NEW p \in Proc, pc[p] \in {"put", "rename"}, Stored(p),
           UNCHANGED <<obj, made>>
    PROVE  /\ mem' \in [Proc -> Snapshot] /\ todo' \in [Proc -> SUBSET Path]
           /\ pc' \in [Proc -> Steps]
           /\ InHand'
  <1>1. CASE obj[p] \in BlobObject
    <2> DEFINE q == First(todo[p])
    <2>1. q \in Path /\ obj[p][2] \in Content
      BY <1>1, FirstMember, Kinds DEF TypeOK, InHand
    <2>2. /\ mem' = [mem EXCEPT ![p][q] = obj[p][2]]
          /\ todo' = [todo EXCEPT ![p] = @ \ {q}]
          /\ pc' = [pc EXCEPT ![p] = "stage"]
      BY <1>1 DEF Stored
    <2>3. mem' \in [Proc -> Snapshot]
      BY <2>1, <2>2 DEF TypeOK, Snapshot
    <2>4. todo' \in [Proc -> SUBSET Path] /\ pc' \in [Proc -> Steps]
      BY <2>1, <2>2 DEF TypeOK, Steps
    <2>5. InHand'
      BY <2>2 DEF TypeOK, InHand
    <2> QED BY <2>3, <2>4, <2>5
  <1>2. CASE obj[p] \notin BlobObject
    <2>1. UNCHANGED <<mem, todo>> /\ obj[p] \in Object
      BY <1>2 DEF Stored, InHand
    <2>2. pc' = [pc EXCEPT ![p] = CASE obj[p] \in TreeObject -> "parent"
                                    [] obj[p] \in CommitObject -> "head"
                                    [] OTHER -> "settag"]
      BY <1>2 DEF Stored
    <2>3. CASE obj[p] \in TreeObject
      <3>1. pc' = [pc EXCEPT ![p] = "parent"]
        BY <2>2, <2>3, Disjoint
      <3> QED BY <2>1, <2>3, <3>1 DEF TypeOK, InHand, Steps
    <2>4. CASE obj[p] \in CommitObject
      <3>1. pc' = [pc EXCEPT ![p] = "head"]
        BY <2>2, <2>4, Disjoint
      <3> QED BY <2>1, <2>4, <3>1 DEF TypeOK, InHand, Steps
    <2>5. CASE obj[p] \in AnnotatedTag
      <3>1. pc' = [pc EXCEPT ![p] = "settag"]
        BY <2>2, <2>5, Disjoint
      <3> QED BY <2>1, <2>5, <3>1 DEF TypeOK, InHand, Steps
    <2> QED BY <1>2, <2>1, <2>3, <2>4, <2>5 DEF Object
  <1> QED BY <1>1, <1>2

\* An object that is there already is used as it is.
LEMMA PutExistingType == ASSUME TypeOK, InHand, NEW p \in Proc, PutExisting(p) PROVE TypeOK' /\ InHand'
  <1>1. /\ mem' \in [Proc -> Snapshot] /\ todo' \in [Proc -> SUBSET Path]
        /\ pc' \in [Proc -> Steps] /\ InHand'
    BY StoredType DEF PutExisting, disk
  <1> QED BY <1>1 DEF TypeOK, PutExisting, disk, CommitBuilt

\* A renamed object is an object, of a commit that was built if it is one.
LEMMA PutRenameType == ASSUME TypeOK, InHand, NEW p \in Proc, PutRename(p) PROVE TypeOK' /\ InHand'
  <1>1. /\ mem' \in [Proc -> Snapshot] /\ todo' \in [Proc -> SUBSET Path]
        /\ pc' \in [Proc -> Steps] /\ InHand'
    BY StoredType DEF PutRename
  <1>2. obj[p] \in Object /\ CommitBuilt(obj[p])
    BY DEF PutRename, InHand, TypeOK
  <1> QED BY <1>1, <1>2 DEF TypeOK, PutRename, CommitBuilt

\* The tree of the in-memory index is a tree object.
LEMMA BuildTreeType == ASSUME TypeOK, InHand, NEW p \in Proc, BuildTree(p) PROVE TypeOK' /\ InHand'
  <1>1. CASE mem[p] = NoFiles
    BY <1>1 DEF TypeOK, InHand, BuildTree, CommitBuilt, Steps, disk
  <1>2. CASE mem[p] # NoFiles
    <2>1. Tree(mem[p]) \in TreeObject
      BY Kinds DEF TypeOK
    <2>2. obj' = [obj EXCEPT ![p] = Tree(mem[p])] /\ pc' = [pc EXCEPT ![p] = "put"]
      BY <1>2 DEF BuildTree
    <2> QED BY <2>1, <2>2, Disjoint DEF TypeOK, InHand, BuildTree, CommitBuilt, Steps, disk
  <1> QED BY <1>1, <1>2

\* A new commit is the last one built, and its parent was built before it.
LEMMA NewCommitDataType == ASSUME TypeOK, InHand, NEW p \in Proc, NewCommitData(p) PROVE TypeOK' /\ InHand'
  <1> DEFINE d == CommitOnHead(obj[p][2])
  <1>1. made' = Append(made, d)
    BY DEF NewCommitData
  <1>2. obj[p][2] \in Snapshot
    BY Kinds DEF NewCommitData, InHand
  <1>3. ASSUME Readable(head) PROVE made[head[2]].seq \in Nat
    <2>1. head[2] \in 1..Len(made)
      BY <1>3, Kinds DEF Readable, TypeOK, CommitBuilt
    <2>2. made[head[2]] \in CommitData
      BY <2>1 DEF TypeOK
    <2> QED BY <2>2 DEF CommitData
  <1>4. d \in CommitData
    BY <1>2, <1>3 DEF CommitData, CommitOnHead
  <1>5. made' \in Seq(CommitData) /\ Len(made') = Len(made) + 1 /\ Len(made) \in Nat
    BY <1>1, <1>4 DEF TypeOK
  <1>6. Commit(Len(made) + 1) \in CommitObject /\ Commit(Len(made) + 1)[2] = Len(made) + 1
    BY <1>5, Kinds
  <1>7. obj' = [obj EXCEPT ![p] = Commit(Len(made) + 1)] /\ pc' = [pc EXCEPT ![p] = "put"]
    BY DEF NewCommitData
  <1>8. \A h \in Object : CommitBuilt(h) => CommitBuilt(h)'
    BY <1>5, Kinds DEF CommitBuilt
  <1>9. /\ obj' \in [Proc -> Object \cup Foreign \cup {Zero}]
        /\ \A r \in Proc : CommitBuilt(obj[r])'
    BY <1>5, <1>6, <1>7, <1>8, Kinds, Disjoint DEF TypeOK, CommitBuilt
  <1>10. TypeOK'
    BY <1>5, <1>7, <1>8, <1>9, Kinds, Disjoint DEF TypeOK, NewCommitData, Steps, CommitBuilt
  <1>11. InHand'
    BY <1>6, <1>7, Disjoint DEF TypeOK, InHand, NewCommitData
  <1> QED BY <1>10, <1>11

\* A partly written index file still loads as an index.
LEMMA SaveBeginType == ASSUME TypeOK, InHand, NEW p \in Proc, SaveBegin(p) PROVE TypeOK' /\ InHand'
  <1>1. index' \in Snapshot
    <2>1. PICK k \in 0..NPaths :
             index' = [q \in Path |-> IF q <= k THEN mem[p][q] ELSE Absent]
      BY DEF SaveBegin, Prefixes
    <2> QED BY <2>1 DEF TypeOK, Snapshot
  <1>2. pc' \in [Proc -> Steps] /\ pc'[p] \in {"savew", "csavew", "closew"}
    BY DEF TypeOK, SaveBegin, Steps
  <1> QED BY <1>1, <1>2 DEF TypeOK, InHand, SaveBegin, CommitBuilt

\* What is pushed is HEAD, a readable commit.
LEMMA PushStartType == ASSUME TypeOK, InHand, NEW p \in Proc, PushStart(p) PROVE TypeOK' /\ InHand'
  <1>1. \/ UNCHANGED obj /\ pc' = [pc EXCEPT ![p] = "close"]
        \/ obj' = [obj EXCEPT ![p] = head] /\ pc' = [pc EXCEPT ![p] = "sent"] /\ head \in CommitObject
    BY DEF PushStart, Readable
  <1>2. UNCHANGED <<disk, cmd, mem, todo, noted, marked, listed, runs>>
    BY DEF PushStart
  <1>3. CASE UNCHANGED obj /\ pc' = [pc EXCEPT ![p] = "close"]
    BY <1>2, <1>3 DEF TypeOK, InHand, disk, CommitBuilt, Steps
  <1>4. CASE obj' = [obj EXCEPT ![p] = head] /\ pc' = [pc EXCEPT ![p] = "sent"] /\ head \in CommitObject
    <2>1. TypeOK'
      <3>1. head \in Object /\ CommitBuilt(head)
        BY <1>4 DEF TypeOK, Object
      <3>2. obj' \in [Proc -> Object \cup Foreign \cup {Zero}] /\ pc' \in [Proc -> Steps]
        BY <1>4, <3>1 DEF TypeOK, Steps
      <3>3. \A q \in Proc : CommitBuilt(obj'[q])
        BY <1>2, <1>4, <3>1 DEF TypeOK, CommitBuilt, disk
      <3> QED BY <1>2, <3>2, <3>3 DEF TypeOK, CommitBuilt, disk
    <2>2. InHand'
      BY <1>2, <1>4 DEF TypeOK, InHand
    <2> QED BY <2>1, <2>2
  <1> QED BY <1>1, <1>3, <1>4

\* A tag is given HEAD, or a tag object that names it.
LEMMA TagTargetType == ASSUME TypeOK, InHand, NEW p \in Proc, TagTarget(p) PROVE TypeOK' /\ InHand'
  <1>1. UNCHANGED <<disk, cmd, mem, todo, noted, marked, listed, runs>>
    BY DEF TagTarget
  <1>2. CASE UNCHANGED obj /\ pc' = [pc EXCEPT ![p] = "close"]
    BY <1>1, <1>2 DEF TypeOK, InHand, disk, CommitBuilt, Steps
  <1>3. CASE head # Garbage /\ obj' = [obj EXCEPT ![p] = head] /\ pc' = [pc EXCEPT ![p] = "settag"]
    BY <1>1, <1>3, Disjoint DEF AnyCommit, TypeOK, InHand, disk, CommitBuilt, Steps
  <1>4. ASSUME NEW n \in TagName, head # Garbage, obj' = [obj EXCEPT ![p] = TagObject(n, head)],
               pc' = [pc EXCEPT ![p] = "put"]
        PROVE  TypeOK' /\ InHand'
    <2>1. TagObject(n, head) \in AnnotatedTag
      BY <1>4, Kinds DEF TypeOK
    <2> QED BY <1>1, <1>4, <2>1, Disjoint DEF TypeOK, InHand, disk, CommitBuilt, Steps
  <1> QED BY <1>2, <1>3, <1>4 DEF TagTarget

\* A process that ended is idle and holds nothing.
LEMMA ForgetType ==
    ASSUME TypeOK, InHand, NEW p \in Proc, Forget(p), work' \in Snapshot, index' \in Snapshot,
           temps' \subseteq Proc, UNCHANGED <<head, made, objects, tags, remote, runs>>
    PROVE  TypeOK' /\ InHand'
  <1>1. NoFiles \in Snapshot /\ Zero \notin CommitObject
    BY Kinds, Disjoint DEF NoFiles, Snapshot
  <1>2. \A r \in Proc : CommitBuilt(obj[r])'
    BY <1>1 DEF Forget, TypeOK, CommitBuilt
  <1>3. TypeOK'
    BY <1>1, <1>2 DEF Forget, TypeOK, CommitBuilt, Steps, Commands
  <1> QED BY <1>3 DEF Forget, TypeOK, InHand

\* One step per action.
LEMMA StageType ==
    ASSUME TypeOK, InHand, NEW p \in Proc, Stage(p)
    PROVE  TypeOK' /\ InHand'
  <1>1. CASE StageSkip(p)
    BY <1>1, StageSkipType
  <1>2. CASE StageMissing(p)
    BY <1>2 DEF TypeOK, InHand, CommitBuilt, Steps, StageMissing, disk
  <1>3. CASE StageRead(p)
    BY <1>3, StageReadType
  <1>4. CASE StageEnd(p)
    BY <1>4 DEF TypeOK, InHand, CommitBuilt, Steps, StageEnd, disk, Snapshot
  <1>5. CASE SyncScan(p)
    BY <1>5 DEF TypeOK, InHand, CommitBuilt, Steps, SyncScan, disk
  <1> QED BY <1>1, <1>2, <1>3, <1>4, <1>5 DEF Stage

\* The steps of object.Write.
LEMMA PutType ==
    ASSUME TypeOK, InHand, NEW p \in Proc, Put(p)
    PROVE  TypeOK' /\ InHand'
  <1>1. CASE PutExisting(p)
    BY <1>1, PutExistingType
  <1>2. CASE PutTemp(p)
    BY <1>2 DEF TypeOK, InHand, CommitBuilt, Steps, PutTemp
  <1>3. CASE PutRename(p)
    BY <1>3, PutRenameType
  <1>4. CASE PutLost(p)
    BY <1>4 DEF TypeOK, InHand, CommitBuilt, Steps, PutLost, disk
  <1> QED BY <1>1, <1>2, <1>3, <1>4 DEF Put

\* The steps of createCommit.
LEMMA CreateCommitType ==
    ASSUME TypeOK, InHand, NEW p \in Proc, CreateCommit(p)
    PROVE  TypeOK' /\ InHand'
  <1>1. CASE BuildTree(p)
    BY <1>1, BuildTreeType
  <1>2. CASE NothingChanged(p)
    BY <1>2 DEF TypeOK, InHand, CommitBuilt, Steps, NothingChanged, disk
  <1>3. CASE NewCommitData(p)
    BY <1>3, NewCommitDataType
  <1>4. CASE WriteHeadBegin(p)
    BY <1>4, Kinds, Disjoint DEF TypeOK, InHand, CommitBuilt, Steps, WriteHeadBegin
  <1>5. CASE WriteHeadEnd(p)
    BY <1>5, Disjoint DEF TypeOK, InHand, CommitBuilt, Steps, WriteHeadEnd
  <1> QED BY <1>1, <1>2, <1>3, <1>4, <1>5 DEF CreateCommit

\* The steps that write the index file.
LEMMA SaveType ==
    ASSUME TypeOK, InHand, NEW p \in Proc, Save(p)
    PROVE  TypeOK' /\ InHand'
  <1>1. CASE SaveBegin(p)
    BY <1>1, SaveBeginType
  <1>2. CASE SaveEnd(p)
    BY <1>2 DEF TypeOK, InHand, CommitBuilt, Steps, SaveEnd
  <1>3. CASE CloseEnd(p)
    BY <1>3, ForgetType DEF TypeOK, CloseEnd
  <1> QED BY <1>1, <1>2, <1>3 DEF Save

\* The steps of push.
LEMMA PushType ==
    ASSUME TypeOK, InHand, NEW p \in Proc, Push(p)
    PROVE  TypeOK' /\ InHand'
  <1>1. CASE PushStart(p)
    BY <1>1, PushStartType
  <1>2. CASE PushAccepted(p)
    BY <1>2, Disjoint DEF TypeOK, InHand, CommitBuilt, Steps, PushAccepted
  <1>3. CASE PushFailed(p)
    BY <1>3 DEF TypeOK, InHand, CommitBuilt, Steps, PushFailed, disk
  <1> QED BY <1>1, <1>2, <1>3 DEF Push

\* The steps of fetch and remote remove.
LEMMA RemoteType ==
    ASSUME TypeOK, InHand, NEW p \in Proc, Remote(p)
    PROVE  TypeOK' /\ InHand'
  <1>1. CASE Fetch(p)
    <2>1. remote' \in AnyCommit \cup {Zero} /\ CommitBuilt(remote')
      BY <1>1, Disjoint DEF Fetch, TypeOK, CommitBuilt
    <2> QED BY <1>1, <2>1 DEF TypeOK, InHand, CommitBuilt, Steps, Fetch
  <1>2. CASE FetchFailed(p)
    BY <1>2 DEF TypeOK, InHand, CommitBuilt, Steps, FetchFailed, disk
  <1>3. CASE RemoveRemote(p)
    BY <1>3, Kinds, Disjoint DEF TypeOK, InHand, CommitBuilt, Steps, RemoveRemote
  <1> QED BY <1>1, <1>2, <1>3 DEF Remote

\* The steps of tag.
LEMMA TagType ==
    ASSUME TypeOK, InHand, NEW p \in Proc, Tag(p)
    PROVE  TypeOK' /\ InHand'
  <1>1. CASE TagTarget(p)
    BY <1>1, TagTargetType
  <1>2. CASE SetTag(p)
    BY <1>2 DEF TypeOK, InHand, CommitBuilt, Steps, SetTag
  <1>3. CASE DeleteTag(p)
    BY <1>3, Kinds, Disjoint DEF TypeOK, InHand, CommitBuilt, Steps, DeleteTag
  <1> QED BY <1>1, <1>2, <1>3 DEF Tag

\* The steps of gc --prune.
LEMMA GcType ==
    ASSUME TypeOK, InHand, NEW p \in Proc, Gc(p)
    PROVE  TypeOK' /\ InHand'
  <1>1. CASE Mark(p)
    BY <1>1 DEF TypeOK, InHand, CommitBuilt, Steps, Mark, disk
  <1>2. CASE SweepObject(p)
    BY <1>2 DEF TypeOK, InHand, CommitBuilt, Steps, SweepObject, proc
  <1>3. CASE SweepTemp(p)
    BY <1>3 DEF TypeOK, InHand, CommitBuilt, Steps, SweepTemp, proc
  <1>4. CASE SweepEnd(p)
    BY <1>4 DEF TypeOK, InHand, CommitBuilt, Steps, SweepEnd, disk
  <1> QED BY <1>1, <1>2, <1>3, <1>4 DEF Gc

\* A command starts with the index in memory and paths to stage.
LEMMA StartType == ASSUME TypeOK, InHand, NEW p \in Proc, NEW c \in Enabled, Start(p, c) PROVE TypeOK' /\ InHand'
  <1>1. \A syncOnly \in Modes : Entry(c, syncOnly) \in Steps \ {"put", "rename", "parent", "head", "headw", "sent", "settag"}
    <2>1. c \in Commands
      BY EnabledAssumption
    <2> QED BY <2>1 DEF Entry, Steps, Commands
  <1>2. todo' \in [Proc -> SUBSET Path]
    <2>1. PICK files \in SUBSET Path : todo' = [todo EXCEPT ![p] = files]
      BY DEF Start
    <2> QED BY <2>1 DEF TypeOK
  <1> QED BY <1>1, <1>2, EnabledAssumption, MaxRunsAssumption
        DEF TypeOK, InHand, CommitBuilt, Start, disk

\* Every step keeps the types.
LEMMA NextType ==
    ASSUME TypeOK, InHand, [Next]_vars
    PROVE  TypeOK' /\ InHand'
  <1>1. ASSUME NEW p \in Proc, NEW c \in Enabled, Start(p, c) PROVE TypeOK' /\ InHand'
    BY <1>1, StartType
  <1>2. ASSUME NEW p \in Proc, Step(p) PROVE TypeOK' /\ InHand'
    BY <1>2, StageType, PutType, CreateCommitType, SaveType, PushType, RemoteType, TagType, GcType DEF Step
  <1>3. ASSUME NEW p \in Proc, Crash(p) PROVE TypeOK' /\ InHand'
    BY <1>3, ForgetType DEF TypeOK, Crash
  <1>4. CASE Edit
    BY <1>4 DEF TypeOK, InHand, CommitBuilt, Edit, proc, Snapshot
  <1>5. CASE UNCHANGED vars
    BY <1>5 DEF TypeOK, InHand, CommitBuilt, vars
  <1> QED BY <1>1, <1>2, <1>3, <1>4, <1>5 DEF Next

\* A repository just made by init or clone has the types.
LEMMA InitType == Init => TypeOK /\ InHand
  <1> SUFFICES ASSUME Init PROVE TypeOK /\ InHand
    OBVIOUS
  <1>1. NoFiles \in Snapshot /\ Zero \notin CommitObject /\ NoRef \notin CommitObject
    BY Kinds, Disjoint DEF NoFiles, Snapshot
  <1>2. head \in AnyCommit \cup {Zero, Garbage} /\ head \notin CommitObject
    BY Kinds, Disjoint DEF Init
  <1>3. remote \in AnyCommit \cup {Zero} /\ remote \notin CommitObject
    BY Kinds, Disjoint DEF Init
  <1>4. TypeOK
    BY <1>1, <1>2, <1>3, MaxRunsAssumption DEF Init, TypeOK, CommitBuilt, Steps, Commands
  <1> QED BY <1>4 DEF Init, InHand

\* Every variable keeps its type, and no command reads the data of a commit
\* that was never built: HEAD, tags, the store and the register of every
\* command only hold hashes createCommit or tag produced.
THEOREM TypeCorrect == Spec => []TypeOK
  <1>1. TypeOK /\ InHand /\ [Next]_vars => (TypeOK /\ InHand)'
    BY NextType
  <1> QED BY InitType, <1>1, PTL DEF Spec

-----------------------------------------------------------------------------
(* Crash consistency of the store, when no command prunes *)

\* The inductive invariant: besides the two properties, the in-memory index of
\* every command is backed by blobs, an object about to be written names only
\* stored ones, and a hash about to be published is stored.
StoreInv ==
    /\ HistoryPresent
    /\ StagedPresent
    /\ \A p \in Proc :
          /\ Kept(mem[p])
          /\ pc[p] \in {"put", "rename"} => Names(made, obj[p]) \subseteq objects \cup Foreign
          /\ pc[p] \in {"parent", "head", "headw", "sent"} => obj[p] \in objects
          /\ pc[p] = "settag" => obj[p] \in objects \cup Foreign \cup {Zero}
          /\ pc[p] \notin {"mark", "sweep"}

IInv == TypeOK /\ InHand /\ StoreInv

\* Reading a file disturbs nothing on disk.
LEMMA StageReadStore == ASSUME IInv, NEW p \in Proc, StageRead(p) PROVE StoreInv'
  <1> DEFINE q == First(todo[p])
  <1>1. Names(made, Blob(work[q])) = {}
    BY FirstMember, NamesOf DEF IInv, TypeOK, StageRead, Snapshot
  <1>2. obj' = [obj EXCEPT ![p] = Blob(work[q])] /\ pc' = [pc EXCEPT ![p] = "put"]
    BY DEF StageRead
  <1>3. UNCHANGED <<disk, mem>>
    BY DEF StageRead
  <1>4. HistoryPresent' /\ StagedPresent'
    BY <1>3 DEF IInv, StoreInv, HistoryPresent, StagedPresent, Kept, Named, disk
  <1> QED BY <1>1, <1>2, <1>3, <1>4 DEF IInv, StoreInv, Kept, TypeOK, disk

\* The blobs of an index are there for every prefix of it.
LEMMA PrefixKept == ASSUME NEW ix, NEW cut \in Prefixes(ix), Kept(ix) PROVE Kept(cut)
  BY DEF Kept, Prefixes

\* A partly written index file names only stored blobs.
LEMMA SaveBeginStore == ASSUME IInv, NEW p \in Proc, SaveBegin(p) PROVE StoreInv'
  <1>1. Kept(index')
    BY PrefixKept DEF IInv, StoreInv, SaveBegin
  <1>2. UNCHANGED <<objects, made, head, tags, remote, mem, obj>>
    BY DEF SaveBegin
  <1>3. pc' \in [Proc -> Steps] /\ pc'[p] \in {"savew", "csavew", "closew"}
        /\ \A r \in Proc \ {p} : pc'[r] = pc[r]
    BY DEF IInv, TypeOK, SaveBegin, Steps
  <1>4. HistoryPresent' /\ StagedPresent'
    BY <1>1, <1>2 DEF IInv, StoreInv, HistoryPresent, StagedPresent, Kept, Named
  <1> QED BY <1>2, <1>3, <1>4 DEF IInv, StoreInv, Kept

\* What is pushed is in the store.
LEMMA PushStartStore == ASSUME IInv, NEW p \in Proc, PushStart(p) PROVE StoreInv'
  <1>1. \/ UNCHANGED obj /\ pc' = [pc EXCEPT ![p] = "close"]
        \/ obj' = [obj EXCEPT ![p] = head] /\ pc' = [pc EXCEPT ![p] = "sent"] /\ head \in objects
    BY DEF PushStart, Readable
  <1>2. UNCHANGED <<disk, mem>>
    BY DEF PushStart
  <1>3. HistoryPresent' /\ StagedPresent'
    BY <1>2 DEF IInv, StoreInv, HistoryPresent, StagedPresent, Kept, Named, disk
  <1> QED BY <1>1, <1>2, <1>3 DEF IInv, StoreInv, Kept, TypeOK, disk

\* A blob is in the store before its entry is in memory, a tree before its commit.
LEMMA StoredStore ==
    ASSUME IInv, NEW p \in Proc, pc[p] \in {"put", "rename"}, Stored(p),
           UNCHANGED <<index, head, made, tags, remote, obj>>,
           objects' = objects \cup {obj[p]}
    PROVE  StoreInv'
  <1>1. HistoryPresent'
    BY DEF IInv, StoreInv, HistoryPresent, Named
  <1>2. StagedPresent'
    BY DEF IInv, StoreInv, StagedPresent, Kept
  <1>3. \A r \in Proc : Kept(mem[r]) /\ (Kept(mem[r]))'
    <2>1. CASE obj[p] \in BlobObject
      <3>1. obj[p] = Blob(obj[p][2]) /\ mem' = [mem EXCEPT ![p][First(todo[p])] = obj[p][2]]
        BY <2>1, Kinds DEF Stored
      <3> QED BY <3>1 DEF IInv, TypeOK, Snapshot, StoreInv, Kept
    <2>2. CASE obj[p] \notin BlobObject
      BY <2>2 DEF IInv, StoreInv, Kept, Stored
    <2> QED BY <2>1, <2>2
  <1>4. pc'[p] \in {"stage", "parent", "head", "settag"} /\ \A r \in Proc \ {p} : pc'[r] = pc[r]
    BY DEF IInv, TypeOK, Stored
  <1> QED BY <1>1, <1>2, <1>3, <1>4 DEF IInv, StoreInv

\* An object enters the store after everything it names.
LEMMA PutStore == ASSUME IInv, NEW p \in Proc, PutExisting(p) \/ PutRename(p) PROVE StoreInv'
  <1>1. CASE PutExisting(p)
    <2>1. objects' = objects \cup {obj[p]}
      BY <1>1 DEF PutExisting, disk
    <2> QED BY <1>1, <2>1, StoredStore DEF PutExisting, disk
  <1>2. CASE PutRename(p)
    BY <1>2, StoredStore DEF PutRename
  <1> QED BY <1>1, <1>2

\* The new commit names the stored tree and the stored HEAD.
LEMMA NewCommitDataStore == ASSUME IInv, NEW p \in Proc, NewCommitData(p) PROVE StoreInv'
  <1> DEFINE i == Len(made) + 1
             d == CommitOnHead(obj[p][2])
  <1>1. made' = Append(made, d) /\ obj' = [obj EXCEPT ![p] = Commit(i)]
        /\ pc' = [pc EXCEPT ![p] = "put"]
    BY DEF NewCommitData
  <1>2. UNCHANGED <<index, head, objects, tags, remote, mem>>
    BY DEF NewCommitData
  <1>3. i \in Nat \ {0} /\ made'[i] = d /\ \A j \in 1..Len(made) : made'[j] = made[j]
    BY <1>1 DEF IInv, TypeOK
  <1>4. \A h \in Object : CommitBuilt(h) => Names(made', h) = Names(made, h)
    <2> TAKE h \in Object
    <2>1. CASE h \in CommitObject
      <3>1. CommitBuilt(h) => h[2] \in 1..Len(made)
        BY <2>1, Kinds DEF CommitBuilt, IInv, TypeOK
      <3>2. CommitBuilt(h) => made'[h[2]] = made[h[2]]
        BY <1>3, <3>1
      <3> QED BY <2>1, <3>2, Kinds DEF Names
    <2>2. CASE h \notin CommitObject
      <3>1. h[1] # "commit"
        BY <2>2, Kinds DEF Object
      <3> QED BY <3>1 DEF Names
    <2> QED BY <2>1, <2>2
  <1>5. Names(made', Commit(i)) \subseteq objects \cup Foreign
    <2>1. Names(made', Commit(i)) = {Tree(d.tree), d.parent} \ {Zero}
      BY <1>3, NamesOf
    <2>2. Tree(d.tree) = obj[p] /\ obj[p] \in objects
      BY Kinds DEF CommitOnHead, IInv, InHand, StoreInv, NewCommitData
    <2>3. d.parent \in objects \cup Foreign \cup {Zero}
      BY Kinds, Disjoint DEF CommitOnHead, AnyCommit, IInv, StoreInv, HistoryPresent, Named
    <2> QED BY <2>1, <2>2, <2>3
  <1>6. HistoryPresent' /\ StagedPresent'
    BY <1>2, <1>4 DEF IInv, TypeOK, StoreInv, HistoryPresent, StagedPresent, Kept, Named
  <1>7. \A r \in Proc : pc[r] \in {"put", "rename"} => Names(made', obj[r]) \subseteq objects \cup Foreign
    BY <1>4 DEF IInv, TypeOK, InHand, StoreInv
  <1> QED BY <1>1, <1>2, <1>5, <1>6, <1>7 DEF IInv, TypeOK, StoreInv, Kept

\* One step per action.
LEMMA StageStore ==
    ASSUME IInv, NEW p \in Proc, Stage(p)
    PROVE  StoreInv'
  <1>1. CASE StageSkip(p)
    BY <1>1 DEF IInv, InHand, TypeOK, StoreInv, HistoryPresent, StagedPresent, Kept, Named, Steps, StageSkip, disk
  <1>2. CASE StageMissing(p)
    BY <1>2 DEF IInv, InHand, TypeOK, StoreInv, HistoryPresent, StagedPresent, Kept, Named, Steps, StageMissing, disk
  <1>3. CASE StageRead(p)
    BY <1>3, StageReadStore
  <1>4. CASE StageEnd(p)
    BY <1>4, Kinds, Disjoint, NamesOf DEF IInv, InHand, TypeOK, StoreInv, HistoryPresent, StagedPresent, Kept, Named, Steps, StageEnd, disk
  <1>5. CASE SyncScan(p)
    BY <1>5 DEF IInv, InHand, TypeOK, StoreInv, HistoryPresent, StagedPresent, Kept, Named, Steps, SyncScan, disk
  <1> QED BY <1>1, <1>2, <1>3, <1>4, <1>5 DEF Stage

\* The steps of object.Write.
LEMMA PutStepStore ==
    ASSUME IInv, NEW p \in Proc, Put(p)
    PROVE  StoreInv'
  <1>1. CASE PutExisting(p) \/ PutRename(p)
    BY <1>1, PutStore
  <1>2. CASE PutTemp(p)
    BY <1>2 DEF IInv, InHand, TypeOK, StoreInv, HistoryPresent, StagedPresent, Kept, Named, Steps, PutTemp
  <1>3. CASE PutLost(p)
    BY <1>3 DEF IInv, InHand, TypeOK, StoreInv, HistoryPresent, StagedPresent, Kept, Named, Steps, PutLost, disk
  <1> QED BY <1>1, <1>2, <1>3 DEF Put

\* The steps of createCommit.
LEMMA CreateCommitStore ==
    ASSUME IInv, NEW p \in Proc, CreateCommit(p)
    PROVE  StoreInv'
  <1>1. CASE BuildTree(p)
    BY <1>1, Kinds, Disjoint, NamesOf DEF IInv, InHand, TypeOK, StoreInv, HistoryPresent, StagedPresent, Kept, Named, Steps, BuildTree, disk
  <1>2. CASE NothingChanged(p)
    BY <1>2 DEF IInv, InHand, TypeOK, StoreInv, HistoryPresent, StagedPresent, Kept, Named, Steps, NothingChanged, disk
  <1>3. CASE NewCommitData(p)
    BY <1>3, NewCommitDataStore
  <1>4. CASE WriteHeadBegin(p)
    BY <1>4, Kinds, Disjoint, NamesOf DEF IInv, InHand, TypeOK, StoreInv, HistoryPresent, StagedPresent, Kept, Named, Steps, WriteHeadBegin
  <1>5. CASE WriteHeadEnd(p)
    BY <1>5, Kinds, Disjoint, NamesOf DEF IInv, InHand, TypeOK, StoreInv, HistoryPresent, StagedPresent, Kept, Named, Steps, WriteHeadEnd
  <1> QED BY <1>1, <1>2, <1>3, <1>4, <1>5 DEF CreateCommit

\* The steps that write the index file.
LEMMA SaveStore ==
    ASSUME IInv, NEW p \in Proc, Save(p)
    PROVE  StoreInv'
  <1>1. CASE SaveBegin(p)
    BY <1>1, SaveBeginStore
  <1>2. CASE SaveEnd(p)
    BY <1>2 DEF IInv, InHand, TypeOK, StoreInv, HistoryPresent, StagedPresent, Kept, Named, Steps, SaveEnd
  <1>3. CASE CloseEnd(p)
    BY <1>3 DEF IInv, InHand, TypeOK, StoreInv, HistoryPresent, StagedPresent, Kept, Named, Steps, CloseEnd, Forget, NoFiles
  <1> QED BY <1>1, <1>2, <1>3 DEF Save

\* The steps of push.
LEMMA PushStore ==
    ASSUME IInv, NEW p \in Proc, Push(p)
    PROVE  StoreInv'
  <1>1. CASE PushStart(p)
    BY <1>1, PushStartStore
  <1>2. CASE PushAccepted(p)
    BY <1>2, Kinds, Disjoint, NamesOf DEF IInv, InHand, TypeOK, StoreInv, HistoryPresent, StagedPresent, Kept, Named, Steps, PushAccepted
  <1>3. CASE PushFailed(p)
    BY <1>3 DEF IInv, InHand, TypeOK, StoreInv, HistoryPresent, StagedPresent, Kept, Named, Steps, PushFailed, disk
  <1> QED BY <1>1, <1>2, <1>3 DEF Push

\* The steps of fetch and remote remove: what a fetch may name is stored or foreign.
LEMMA RemoteStore ==
    ASSUME IInv, NEW p \in Proc, Remote(p)
    PROVE  StoreInv'
  <1>1. /\ UNCHANGED <<index, head, made, objects, tags, mem, obj>> /\ pc' = [pc EXCEPT ![p] = "close"]
        /\ remote' \in objects \/ remote' \notin Object
    <2>1. CASE Fetch(p)
      BY <2>1, Kinds, Disjoint DEF Fetch
    <2>2. CASE FetchFailed(p)
      BY <2>2 DEF FetchFailed, disk, IInv, StoreInv, HistoryPresent, Named
    <2>3. CASE RemoveRemote(p)
      BY <2>3, Kinds DEF RemoveRemote
    <2> QED BY <2>1, <2>2, <2>3 DEF Remote
  <1>2. HistoryPresent' /\ StagedPresent'
    BY <1>1 DEF IInv, StoreInv, HistoryPresent, StagedPresent, Kept, Named
  <1> QED BY <1>1, <1>2 DEF IInv, TypeOK, StoreInv, Kept

\* The steps of tag.
LEMMA TagStore ==
    ASSUME IInv, NEW p \in Proc, Tag(p)
    PROVE  StoreInv'
  <1>1. CASE TagTarget(p)
    BY <1>1, Kinds, Disjoint, NamesOf DEF AnyCommit, IInv, InHand, TypeOK, StoreInv, HistoryPresent, StagedPresent, Kept, Named, Steps, TagTarget, disk
  <1>2. CASE SetTag(p)
    BY <1>2, Kinds, Disjoint, NamesOf DEF IInv, InHand, TypeOK, StoreInv, HistoryPresent, StagedPresent, Kept, Named, Steps, SetTag
  <1>3. CASE DeleteTag(p)
    BY <1>3, Kinds, Disjoint, NamesOf DEF IInv, InHand, TypeOK, StoreInv, HistoryPresent, StagedPresent, Kept, Named, Steps, DeleteTag
  <1> QED BY <1>1, <1>2, <1>3 DEF Tag

\* A command starts with an index whose blobs are stored.
LEMMA StartStore == ASSUME "gc" \notin Enabled, IInv, NEW p \in Proc, NEW c \in Enabled, Start(p, c) PROVE StoreInv'
  <1>1. \A syncOnly \in Modes : Entry(c, syncOnly) \notin {"put", "rename", "parent", "head", "headw", "sent", "settag", "mark", "sweep"}
    <2>1. c \in Commands \ {"gc"}
      BY EnabledAssumption
    <2> QED BY <2>1 DEF Entry, Commands
  <1> QED BY <1>1 DEF IInv, TypeOK, StoreInv, HistoryPresent, StagedPresent, Kept, Named, Start, disk

\* Every step of a repository without gc keeps the store closed.
LEMMA NextStore ==
    ASSUME "gc" \notin Enabled, IInv, [Next]_vars
    PROVE  StoreInv'
  <1>1. ASSUME NEW p \in Proc, NEW c \in Enabled, Start(p, c) PROVE StoreInv'
    BY <1>1, StartStore
  <1>2. ASSUME NEW p \in Proc, Step(p) PROVE StoreInv'
    <2>1. ~Gc(p)
      BY DEF IInv, StoreInv, Gc, Mark, SweepObject, SweepTemp, SweepEnd
    <2> QED BY <1>2, <2>1, StageStore, PutStepStore, CreateCommitStore, SaveStore, PushStore,
            RemoteStore, TagStore DEF Step
  <1>3. ASSUME NEW p \in Proc, Crash(p) PROVE StoreInv'
    BY <1>3 DEF IInv, TypeOK, StoreInv, HistoryPresent, StagedPresent, Kept, Named, Crash, Forget, NoFiles
  <1>4. CASE Edit
    BY <1>4 DEF IInv, StoreInv, HistoryPresent, StagedPresent, Kept, Named, Edit, proc
  <1>5. CASE UNCHANGED vars
    BY <1>5 DEF IInv, StoreInv, HistoryPresent, StagedPresent, Kept, Named, vars
  <1> QED BY <1>1, <1>2, <1>3, <1>4, <1>5 DEF Next

\* A repository just made by init or clone satisfies the invariant.
LEMMA InitStore == Init => IInv
  <1> SUFFICES ASSUME Init PROVE IInv
    OBVIOUS
  <1>1. HistoryPresent
    BY Kinds, Disjoint DEF Init, HistoryPresent, Named
  <1>2. StagedPresent /\ \A p \in Proc : Kept(mem[p])
    BY DEF Init, StagedPresent, Kept, NoFiles
  <1> QED BY InitType, <1>1, <1>2 DEF Init, IInv, StoreInv

\* The inductive invariant holds of every behaviour without gc.
LEMMA Invariance == ASSUME "gc" \notin Enabled PROVE Spec => []IInv
  <1>1. IInv /\ [Next]_vars => IInv'
    BY NextType, NextStore DEF IInv
  <1> QED BY InitStore, <1>1, PTL DEF Spec

\* As long as gc --prune is not run, whatever commands run side by side, in a
\* cloned repository or not, and wherever they are killed, nothing HEAD, a tag or
\* the remote reference leads to is ever missing from the store, but for the
\* commits of other repositories that clone and fetch name without storing them.
THEOREM HistoryAlwaysPresent == "gc" \notin Enabled => (Spec => []HistoryPresent)
  <1> SUFFICES ASSUME "gc" \notin Enabled PROVE Spec => []HistoryPresent
    OBVIOUS
  <1>1. IInv => HistoryPresent
    BY DEF IInv, StoreInv
  <1> QED BY Invariance, <1>1, PTL

\* Nor is the blob of an entry of the index file: what is staged, even in an
\* index that was cut short, can be committed.
THEOREM StagedAlwaysPresent == "gc" \notin Enabled => (Spec => []StagedPresent)
  <1> SUFFICES ASSUME "gc" \notin Enabled PROVE Spec => []StagedPresent
    OBVIOUS
  <1>1. IInv => StagedPresent
    BY DEF IInv, StoreInv
  <1> QED BY Invariance, <1>1, PTL

-----------------------------------------------------------------------------
(* The numbering of commits *)

\* A commit HEAD names is in the store.
HeadStored == head \in CommitObject => head \in objects

\* The new commit is numbered one above the HEAD it was built on.
LEMMA NewCommitSeq ==
    ASSUME TypeOK, HeadStored, SequenceFollowsParent, NEW p \in Proc, NewCommitData(p)
    PROVE  SequenceFollowsParent'
  <1> DEFINE n == Len(made) + 1
             d == CommitOnHead(obj[p][2])
  <1>1. made' = Append(made, d)
    BY DEF NewCommitData
  <1>2. Len(made) \in Nat /\ Len(made') = n /\ made'[n] = d /\ \A j \in 1..Len(made) : made'[j] = made[j]
    BY <1>1 DEF TypeOK
  <1>3. d.parent \notin CommitObject => d.seq = 1
    BY Kinds, Disjoint DEF CommitOnHead, Readable, AnyCommit
  <1>4. d.parent \in CommitObject => d.parent[2] \in 1..Len(made) /\ d.seq = made[d.parent[2]].seq + 1
    BY Kinds, Disjoint DEF HeadStored, CommitOnHead, Readable, AnyCommit, TypeOK, CommitBuilt
  <1>5. \A i \in 1..Len(made) : made[i].parent \in CommitObject => made[i].parent[2] \in 1..Len(made)
    BY <1>2, Kinds DEF SequenceFollowsParent
  <1> QED BY <1>2, <1>3, <1>4, <1>5 DEF SequenceFollowsParent

\* Every other step leaves the commits alone.
LEMMA NextSeq ==
    ASSUME TypeOK, HeadStored, SequenceFollowsParent, [Next]_vars
    PROVE  SequenceFollowsParent'
  <1>1. CASE \E p \in Proc : NewCommitData(p)
    BY <1>1, NewCommitSeq
  <1>2. CASE UNCHANGED made
    BY <1>2 DEF SequenceFollowsParent
  <1>3. (\A p \in Proc : ~NewCommitData(p)) => UNCHANGED made
    BY DEF Next, Start, Step, Stage, StageSkip, StageMissing, StageRead, StageEnd, SyncScan,
           Put, PutExisting, PutTemp, PutRename, PutLost,
           CreateCommit, BuildTree, NothingChanged, WriteHeadBegin, WriteHeadEnd,
           Save, SaveBegin, SaveEnd, CloseEnd, Push, PushStart, PushAccepted, PushFailed,
           Remote, Fetch, FetchFailed, RemoveRemote, Tag, TagTarget, SetTag, DeleteTag, Gc, Mark, SweepObject, SweepTemp, SweepEnd,
           Crash, Edit, disk, vars
  <1> QED BY <1>1, <1>2, <1>3

\* Without gc --prune, whatever commands run side by side and wherever they are
\* killed, a commit whose parent was made here is numbered one above it:
\* createCommit never finds such a commit unreadable and starts again from 1.  It
\* does so on no commit, and on one that clone left in HEAD, and then only.
THEOREM SequenceCorrect == "gc" \notin Enabled => (Spec => []SequenceFollowsParent)
  <1> SUFFICES ASSUME "gc" \notin Enabled PROVE Spec => []SequenceFollowsParent
    OBVIOUS
  <1>1. Init => SequenceFollowsParent
    BY DEF Init, SequenceFollowsParent
  <1>2. IInv => TypeOK /\ HeadStored
    BY Kinds, Disjoint DEF IInv, StoreInv, HistoryPresent, Named, HeadStored
  <1>3. TypeOK /\ HeadStored /\ SequenceFollowsParent /\ [Next]_vars => SequenceFollowsParent'
    BY NextSeq
  <1> QED BY Invariance, <1>1, <1>2, <1>3, PTL DEF Spec

-----------------------------------------------------------------------------
(* One command at a time *)

\* At most one command runs at a time.
OneCommand == \A p, q \in Proc : p = q

\* The command has a commit in hand that is not published yet.
Committing(p) == pc[p] = "head" \/ (pc[p] \in {"put", "rename"} /\ obj[p] \in CommitObject)

\* The commit in hand was built on the HEAD there still is.
Based ==
    \A p \in Proc : Committing(p) =>
        made[obj[p][2]].parent = IF head \in AnyCommit THEN head ELSE Zero

\* A step that does not build a commit leaves the one in hand, and HEAD under it.
LEMMA KeepsHand ==
    ASSUME TypeOK, InHand, NEW p \in Proc, Step(p) \/ Crash(p), ~NewCommitData(p), Committing(p)'
    PROVE  Committing(p) /\ UNCHANGED <<made, head>> /\ obj'[p] = obj[p]
  <1> USE DEF Committing, TypeOK
  <1>1. CASE Stage(p)
    <2>1. pc[p] = "stage" \/ pc[p] = "scan"
      BY <1>1 DEF Stage, StageSkip, StageMissing, StageRead, StageEnd, SyncScan
    <2>2. CASE StageRead(p)
      <3>1. obj'[p] \in BlobObject /\ pc'[p] = "put"
        <4>1. work[First(todo[p])] \in Content
          BY <2>2, FirstMember DEF StageRead, Snapshot
        <4> QED BY <2>2, <4>1, Kinds DEF StageRead
      <3> QED BY <3>1, Disjoint
    <2> QED BY <1>1, <2>1, <2>2 DEF Stage, StageSkip, StageMissing, StageEnd, SyncScan
  <1>2. CASE Put(p)
    <2>1. UNCHANGED <<obj, made, head>> /\ pc[p] \in {"put", "rename"}
      BY <1>2 DEF Put, PutExisting, PutTemp, PutRename, PutLost, disk
    <2>2. CASE PutTemp(p) \/ PutLost(p)
      BY <2>1, <2>2 DEF PutTemp, PutLost
    <2>3. CASE Stored(p)
      BY <2>1, <2>3, Disjoint DEF Stored
    <2> QED BY <1>2, <2>2, <2>3 DEF Put, PutExisting, PutRename
  <1>3. CASE BuildTree(p)
    BY <1>3, Kinds, Disjoint DEF BuildTree
  <1>4. CASE NothingChanged(p) \/ WriteHeadBegin(p) \/ WriteHeadEnd(p)
    BY <1>4 DEF NothingChanged, WriteHeadBegin, WriteHeadEnd
  <1>5. CASE Save(p)
    BY <1>5 DEF Save, SaveBegin, SaveEnd, CloseEnd, Forget
  <1>6. CASE Push(p)
    BY <1>6 DEF Push, PushStart, PushAccepted, PushFailed
  <1>7. CASE Tag(p)
    BY <1>7, Kinds, Disjoint DEF Tag, TagTarget, SetTag, DeleteTag
  <1>10. CASE Remote(p)
    BY <1>10 DEF Remote, Fetch, FetchFailed, RemoveRemote
  <1>8. CASE Gc(p)
    BY <1>8 DEF Gc, Mark, SweepObject, SweepTemp, SweepEnd, proc
  <1>9. CASE Crash(p)
    BY <1>9 DEF Crash, Forget
  <1> QED BY <1>1, <1>2, <1>3, <1>4, <1>5, <1>6, <1>7, <1>8, <1>9, <1>10 DEF Step, CreateCommit

\* With one command at a time, HEAD is still the parent when it is replaced.
LEMMA NextBased ==
    ASSUME OneCommand, TypeOK, InHand, Based, [Next]_vars
    PROVE  Based'
  <1> SUFFICES ASSUME NEW p \in Proc, Committing(p)'
               PROVE  (made[obj[p][2]].parent = IF head \in AnyCommit THEN head ELSE Zero)'
    BY DEF Based
  <1>1. CASE NewCommitData(p)
    <2>1. obj'[p] = Commit(Len(made) + 1) /\ obj'[p][2] = Len(made) + 1
      BY <1>1, Kinds DEF NewCommitData, TypeOK
    <2>2. made'[Len(made) + 1].parent = IF head \in AnyCommit THEN head ELSE Zero
      BY <1>1 DEF NewCommitData, CommitOnHead, TypeOK
    <2> QED BY <1>1, <2>1, <2>2 DEF NewCommitData
  <1>2. CASE (Step(p) \/ Crash(p)) /\ ~NewCommitData(p)
    BY <1>2, KeepsHand DEF Based
  <1>3. ASSUME NEW c \in Enabled, Start(p, c) PROVE FALSE
    <2>1. \A syncOnly \in Modes : Entry(c, syncOnly) \notin {"put", "rename", "head"}
      <3>1. c \in Commands
        BY EnabledAssumption
      <3> QED BY <3>1 DEF Entry, Commands
    <2> QED BY <1>3, <2>1 DEF Start, TypeOK, Committing
  <1>4. CASE Edit \/ UNCHANGED vars
    BY <1>4 DEF Based, Committing, Edit, proc, vars
  <1> QED BY <1>1, <1>2, <1>3, <1>4 DEF Next, OneCommand

-----------------------------------------------------------------------------
(* gc --prune, when one command runs at a time *)

\* A set of natural numbers has a least one.
LEMMA LeastOf == ASSUME NEW s \in SUBSET Nat, s # {} PROVE \E m \in s : \A k \in s : m <= k
  <1>1. IsWellFoundedOn(OpToRel(<, Nat), Nat)
    BY NatLessThanWellFounded
  <1>2. PICK m \in s : \A k \in s : <<k, m>> \notin OpToRel(<, Nat)
    BY <1>1, WFMin, Zenon
  <1>3. \A k \in s : ~(k < m)
    BY <1>2, Zenon DEF OpToRel
  <1> QED BY <1>3

\* One step of the mark, in a store objs with commits m, and the mark step by step.
Spread(m, objs, s) == s \cup UNION {IF h \in objs THEN Names(m, h) ELSE {} : h \in s}
IsMark(m, objs, roots, f) ==
    f = [k \in 0..(Len(m) + 3) |-> IF k = 0 THEN roots ELSE Spread(m, objs, f[k - 1])]
MarkOf(m, objs, roots) == CHOOSE f : IsMark(m, objs, roots, f)

\* Reachable is the last step of the mark.
LEMMA ReachableIs ==
    /\ \A roots : Reachable(roots) = MarkOf(made, objects, roots)[Len(made) + 3]
    /\ Reachable(Roots)' = MarkOf(made', objects', Roots')[Len(made') + 3]
  BY DEF Reachable, MarkOf, IsMark, Spread, Links

\* The mark is well defined.
LEMMA MarkExists ==
    ASSUME NEW m, NEW objs, NEW roots, Len(m) \in Nat
    PROVE  IsMark(m, objs, roots, MarkOf(m, objs, roots))
  <1> DEFINE last == Len(m) + 3
             Next1(f, k) == IF k = 0 THEN roots ELSE Spread(m, objs, f[k - 1])
             Upto(n) == \E f : \A k \in 0..n : f[k] = Next1(f, k)
             bad == {n \in Nat : ~Upto(n)}
  <1>1. last \in Nat
    OBVIOUS
  <1> HIDE DEF last
  <1>2. Upto(0)
    <2> DEFINE f == [k \in {0} |-> roots]
    <2>1. \A k \in 0..0 : f[k] = Next1(f, k)
      OBVIOUS
    <2> HIDE DEF f, Next1
    <2> QED BY <2>1
  <1>3. ASSUME NEW n \in Nat, Upto(n) PROVE Upto(n + 1)
    <2>1. PICK f : \A k \in 0..n : f[k] = Next1(f, k)
      BY <1>3
    <2> DEFINE g == [k \in 0..n + 1 |-> IF k = n + 1 THEN Spread(m, objs, f[n]) ELSE f[k]]
    <2>2. ASSUME NEW k \in 0..n + 1 PROVE g[k] = Next1(g, k)
      <3>1. CASE k = 0
        BY <2>1, <3>1
      <3>2. CASE k \in 1..n
        <4>1. k - 1 \in 0..n /\ k \in 0..n /\ k # n + 1 /\ k - 1 # n + 1 /\ k # 0
          BY <3>2
        <4>2. g[k] = f[k] /\ g[k - 1] = f[k - 1]
          BY <4>1
        <4> QED BY <2>1, <4>1, <4>2
      <3>3. CASE k = n + 1
        <4>1. k - 1 = n /\ k # 0 /\ g[n] = f[n] /\ g[k] = Spread(m, objs, f[n])
          BY <3>3
        <4> QED BY <4>1
      <3> QED BY <3>1, <3>2, <3>3
    <2> HIDE DEF g, Next1
    <2> QED BY <2>2
  <1> HIDE DEF Upto
  <1>4. bad = {}
    <2> SUFFICES ASSUME bad # {} PROVE FALSE
      OBVIOUS
    <2>1. PICK n \in bad : \A k \in bad : n <= k
      BY LeastOf
    <2>2. n \in Nat /\ n # 0
      BY <1>2
    <2>3. n - 1 \in Nat /\ n - 1 \notin bad
      BY <2>1, <2>2
    <2>4. Upto(n - 1 + 1)
      BY <1>3, <2>3
    <2>5. n - 1 + 1 = n
      BY <2>2
    <2> QED BY <2>1, <2>4, <2>5
  <1>5. PICK f : \A k \in 0..last : f[k] = Next1(f, k)
    BY <1>1, <1>4 DEF Upto
  <1> DEFINE g == [k \in 0..last |-> f[k]]
  <1>6. ASSUME NEW k \in 0..last PROVE g[k] = Next1(g, k)
    <2>1. CASE k = 0
      BY <1>5, <2>1
    <2>2. CASE k # 0
      <3>1. k - 1 \in 0..last
        BY <1>1, <2>2
      <3> QED BY <1>5, <2>2, <3>1
    <2> QED BY <2>1, <2>2
  <1>7. g = [k \in 0..last |-> Next1(g, k)]
    BY <1>6
  <1>8. IsMark(m, objs, roots, g)
    BY <1>7 DEF IsMark, last
  <1> QED BY <1>8 DEF MarkOf

\* The mark begins with its roots, and less is marked in a smaller store and
\* from fewer roots.
LEMMA MarkGrows ==
    ASSUME NEW m, NEW objs, NEW less, NEW roots, NEW fewer, Len(m) \in Nat, less \subseteq objs,
           fewer \subseteq roots, NEW n \in 0..(Len(m) + 3)
    PROVE  /\ roots \subseteq MarkOf(m, objs, roots)[n]
           /\ MarkOf(m, less, fewer)[n] \subseteq MarkOf(m, objs, roots)[n]
  <1> DEFINE f == MarkOf(m, objs, roots)
             g == MarkOf(m, less, fewer)
             Good(k) == roots \subseteq f[k] /\ g[k] \subseteq f[k]
             bad == {k \in 0..(Len(m) + 3) : ~Good(k)}
  <1>1. IsMark(m, objs, roots, f) /\ IsMark(m, less, fewer, g)
    BY MarkExists
  <1> HIDE DEF f, g
  <1>2. /\ f[0] = roots /\ g[0] = fewer
        /\ \A k \in 1..(Len(m) + 3) : f[k] = Spread(m, objs, f[k - 1]) /\ g[k] = Spread(m, less, g[k - 1])
    <2>1. /\ f = [k \in 0..(Len(m) + 3) |-> IF k = 0 THEN roots ELSE Spread(m, objs, f[k - 1])]
          /\ g = [k \in 0..(Len(m) + 3) |-> IF k = 0 THEN fewer ELSE Spread(m, less, g[k - 1])]
      BY <1>1 DEF IsMark
    <2>2. f[0] = roots /\ g[0] = fewer
      BY <2>1
    <2>3. ASSUME NEW k \in 1..(Len(m) + 3)
          PROVE  f[k] = Spread(m, objs, f[k - 1]) /\ g[k] = Spread(m, less, g[k - 1])
      <3>1. k \in 0..(Len(m) + 3) /\ k # 0
        OBVIOUS
      <3> QED BY <2>1, <3>1
    <2> QED BY <2>2, <2>3
  <1>3. ASSUME NEW k \in 1..(Len(m) + 3), Good(k - 1) PROVE Good(k)
    <2>1. f[k] = Spread(m, objs, f[k - 1]) /\ g[k] = Spread(m, less, g[k - 1])
      BY <1>2
    <2> QED BY <1>3, <2>1 DEF Spread
  <1>4. Good(0)
    BY <1>2
  <1> HIDE DEF Good
  <1>5. bad = {}
    <2> SUFFICES ASSUME bad # {} PROVE FALSE
      OBVIOUS
    <2>1. PICK k \in bad : \A j \in bad : k <= j
      <3>1. bad \in SUBSET Nat
        OBVIOUS
      <3> HIDE DEF bad
      <3> QED BY <3>1, LeastOf
    <2>2. k \in 1..(Len(m) + 3)
      BY <1>4
    <2>3. k - 1 \in 0..(Len(m) + 3) /\ k - 1 \notin bad
      BY <2>1, <2>2
    <2> QED BY <1>3, <2>2, <2>3
  <1>6. Good(n)
    BY <1>5
  <1> QED BY <1>6 DEF Good, f, g

\* A mark starts from what HEAD, the tags and the remote reference name.
LEMMA RootsAre == Named \cap Object \subseteq Roots
  BY Kinds DEF Roots, Named

\* The inductive invariant: the references name stored objects, a hash about to
\* be published is stored, and gc has marked all there is to reach.
Anchored ==
    /\ (Named \cap Object) \subseteq objects
    /\ DOMAIN marked = Proc
    /\ \A p \in Proc :
          /\ pc[p] \in {"head", "headw", "sent"} => obj[p] \in objects
          /\ pc[p] = "settag" => obj[p] \in objects \cup Foreign \cup {Zero}
          /\ pc[p] = "sweep" => Reachable(Roots) \subseteq marked[p]

\* What is reachable depends on the commits, the store and the references only.
LEMMA ReachableStays ==
    ASSUME UNCHANGED <<made, objects, head, tags, remote>>
    PROVE  Reachable(Roots)' = Reachable(Roots)
  <1>1. Roots' = Roots
    BY DEF Roots
  <1> QED BY <1>1, ReachableIs

\* A removal makes no more objects reachable.
LEMMA ReachableShrinks ==
    ASSUME TypeOK, UNCHANGED <<made, head, tags, remote>>, objects' \subseteq objects
    PROVE  Reachable(Roots)' \subseteq Reachable(Roots)
  <1>1. Roots' = Roots
    BY DEF Roots
  <1>2. Len(made) \in Nat
    BY DEF TypeOK
  <1>3. MarkOf(made, objects', Roots)[Len(made) + 3] \subseteq MarkOf(made, objects, Roots)[Len(made) + 3]
    BY <1>2, MarkGrows
  <1> QED BY <1>1, <1>3, ReachableIs

\* The roots themselves are reachable, and what the references lead to is.
LEMMA RootsReached ==
    ASSUME TypeOK
    PROVE  Roots \subseteq Reachable(Roots) /\ Reachable(Named \cap Object) \subseteq Reachable(Roots)
  <1>1. Len(made) \in Nat
    BY DEF TypeOK
  <1>2. /\ Roots \subseteq MarkOf(made, objects, Roots)[Len(made) + 3]
        /\ MarkOf(made, objects, Named \cap Object)[Len(made) + 3]
             \subseteq MarkOf(made, objects, Roots)[Len(made) + 3]
    BY <1>1, RootsAre, MarkGrows
  <1> QED BY <1>2, ReachableIs

\* The steps of the commands other than gc.
LEMMA WriterAnchored ==
    ASSUME OneCommand, TypeOK, InHand, Anchored, NEW p \in Proc, Step(p), ~Gc(p)
    PROVE  Anchored'
  <1> USE DEF TypeOK, InHand, Anchored, OneCommand, Named, disk
  <1>1. CASE Stage(p)
    <2>1. UNCHANGED <<disk, marked>> /\ pc'[p] \notin {"head", "headw", "sent", "settag", "sweep"}
      BY <1>1 DEF Stage, StageSkip, StageMissing, StageRead, StageEnd, SyncScan
    <2> QED BY <2>1
  <1>2. CASE PutExisting(p) \/ PutRename(p)
    <2>1. /\ UNCHANGED <<head, tags, remote, obj, marked>> /\ objects' = objects \cup {obj[p]}
          /\ pc'[p] \notin {"headw", "sent", "sweep"}
      BY <1>2 DEF PutExisting, PutRename, Stored
    <2> QED BY <2>1
  <1>3. CASE PutTemp(p) \/ PutLost(p)
    <2>1. /\ UNCHANGED <<head, tags, remote, objects, marked>>
          /\ pc'[p] \notin {"head", "headw", "sent", "settag", "sweep"}
      BY <1>3 DEF PutTemp, PutLost
    <2> QED BY <2>1
  <1>4. CASE BuildTree(p) \/ NothingChanged(p) \/ NewCommitData(p)
    <2>1. /\ UNCHANGED <<head, tags, remote, objects, marked>>
          /\ pc'[p] \notin {"head", "headw", "sent", "settag", "sweep"}
      BY <1>4 DEF BuildTree, NothingChanged, NewCommitData
    <2> QED BY <2>1
  <1>5. CASE WriteHeadBegin(p)
    BY <1>5, Kinds DEF WriteHeadBegin
  <1>6. CASE WriteHeadEnd(p)
    BY <1>6 DEF WriteHeadEnd
  <1>7. CASE Save(p)
    <2>1. /\ UNCHANGED <<head, tags, remote, objects>> /\ DOMAIN marked' = Proc
          /\ pc'[p] \notin {"head", "headw", "sent", "settag", "sweep"}
      BY <1>7 DEF Save, SaveBegin, SaveEnd, CloseEnd, Forget
    <2> QED BY <2>1
  <1>8. CASE Push(p)
    <2>1. CASE PushStart(p)
      BY <2>1 DEF PushStart, Readable
    <2>2. CASE PushAccepted(p)
      BY <2>2 DEF PushAccepted
    <2>3. CASE PushFailed(p)
      BY <2>3 DEF PushFailed
    <2> QED BY <1>8, <2>1, <2>2, <2>3 DEF Push
  <1>10. CASE Remote(p)
    <2>1. /\ UNCHANGED <<head, objects, tags, obj, marked>> /\ pc' = [pc EXCEPT ![p] = "close"]
          /\ remote' \in objects \/ remote' \notin Object
      <3>1. CASE Fetch(p)
        BY <3>1, Kinds, Disjoint DEF Fetch
      <3>2. CASE FetchFailed(p)
        BY <3>2 DEF FetchFailed
      <3>3. CASE RemoveRemote(p)
        BY <3>3, Kinds DEF RemoveRemote
      <3> QED BY <1>10, <3>1, <3>2, <3>3 DEF Remote
    <2> QED BY <2>1
  <1>9. CASE Tag(p)
    <2>1. CASE TagTarget(p)
      BY <2>1, Kinds, Disjoint DEF TagTarget, AnyCommit
    <2>2. CASE SetTag(p)
      BY <2>2, Kinds, Disjoint DEF SetTag
    <2>3. CASE DeleteTag(p)
      BY <2>3, Kinds DEF DeleteTag
    <2> QED BY <1>9, <2>1, <2>2, <2>3 DEF Tag
  <1> QED BY <1>1, <1>2, <1>3, <1>4, <1>5, <1>6, <1>7, <1>8, <1>9, <1>10 DEF Step, Put, CreateCommit

\* The steps of gc --prune: what is removed was not marked, so it is no root.
LEMMA GcAnchored ==
    ASSUME OneCommand, TypeOK, InHand, Anchored, NEW p \in Proc, Gc(p)
    PROVE  Anchored'
  <1> USE DEF OneCommand
  <1>1. CASE Mark(p)
    <2>1. /\ UNCHANGED <<made, objects, head, tags, remote>>
          /\ pc'[p] = "sweep"
      BY <1>1 DEF Mark, disk, TypeOK
    <2>2. Reachable(Roots)' \subseteq marked'[p]
      <3>1. Reachable(Roots)' = Reachable(Roots)
        BY <2>1, ReachableStays
      <3>2. marked' = [marked EXCEPT ![p] = Reachable(Roots)]
        BY <1>1 DEF Mark
      <3> QED BY <3>1, <3>2 DEF Anchored
    <2>3. DOMAIN marked' = Proc
      BY <1>1 DEF Mark, Anchored
    <2> QED BY <2>1, <2>2, <2>3 DEF Anchored, Named
  <1>2. CASE SweepObject(p)
    <2>1. UNCHANGED <<made, head, tags, remote, pc, obj, marked>> /\ pc[p] = "sweep"
      BY <1>2 DEF SweepObject, proc
    <2>2. PICK o \in objects \ marked[p] : objects' = objects \ {o}
      BY <1>2 DEF SweepObject
    <2>3. o \notin Named \cap Object
      BY <2>1, <2>2, RootsAre, RootsReached DEF Anchored
    <2>4. Reachable(Roots)' \subseteq marked[p]
      BY <2>1, <2>2, ReachableShrinks DEF Anchored
    <2> QED BY <2>1, <2>2, <2>3, <2>4 DEF Anchored, Named
  <1>3. CASE SweepTemp(p) \/ SweepEnd(p)
    <2>1. UNCHANGED <<made, objects, head, tags, remote, obj, marked>> /\ pc'[p] \in {"sweep", "close"}
          /\ pc[p] = "sweep"
      BY <1>3 DEF SweepTemp, SweepEnd, proc, disk, TypeOK
    <2>2. Reachable(Roots)' = Reachable(Roots)
      BY <2>1, ReachableStays
    <2> QED BY <2>1, <2>2 DEF Anchored, Named
  <1> QED BY <1>1, <1>2, <1>3 DEF Gc

\* With one command at a time the references stay anchored in the store.
LEMMA NextAnchored ==
    ASSUME OneCommand, TypeOK, InHand, Anchored, [Next]_vars
    PROVE  Anchored'
  <1>1. ASSUME NEW p \in Proc, NEW c \in Enabled, Start(p, c) PROVE Anchored'
    <2>1. \A syncOnly \in Modes : Entry(c, syncOnly) \notin {"head", "headw", "sent", "settag", "sweep"}
      <3>1. c \in Commands
        BY EnabledAssumption
      <3> QED BY <3>1 DEF Entry, Commands
    <2>2. UNCHANGED <<objects, head, tags, remote, marked>> /\ pc'[p] \notin {"head", "headw", "sent", "settag", "sweep"}
      BY <1>1, <2>1 DEF Start, disk, TypeOK
    <2> QED BY <2>2 DEF Anchored, Named, OneCommand
  <1>2. ASSUME NEW p \in Proc, Step(p) PROVE Anchored'
    BY <1>2, WriterAnchored, GcAnchored
  <1>3. ASSUME NEW p \in Proc, Crash(p) PROVE Anchored'
    BY <1>3 DEF Crash, Forget, TypeOK, Anchored, Named, OneCommand
  <1>4. CASE Edit \/ UNCHANGED vars
    <2>1. UNCHANGED <<made, objects, head, tags, remote, pc, obj, marked>>
      BY <1>4 DEF Edit, proc, vars
    <2>2. Reachable(Roots)' = Reachable(Roots)
      BY <2>1, ReachableStays
    <2> QED BY <2>1, <2>2 DEF Anchored, Named
  <1> QED BY <1>1, <1>2, <1>3, <1>4 DEF Next

\* The invariant holds from the start.
LEMMA AlwaysAnchored == ASSUME OneCommand PROVE Spec => [](TypeOK /\ InHand /\ Anchored)
  <1> DEFINE Inv == TypeOK /\ InHand /\ Anchored
  <1>1. Init => Inv
    <2> SUFFICES ASSUME Init PROVE Inv
      OBVIOUS
    <2>1. Anchored
      BY Kinds, Disjoint DEF Init, Anchored, Named
    <2> QED BY <2>1, InitType
  <1>2. Inv /\ [Next]_vars => Inv'
    BY NextType, NextAnchored
  <1> QED BY <1>1, <1>2, PTL DEF Spec

\* A step other than gc's removes nothing from the store.
LEMMA OnlyGcRemoves == ASSUME [Next]_vars, ~(objects \subseteq objects') PROVE \E p \in Proc : SweepObject(p)
  BY DEF Next, Start, Step, Stage, StageSkip, StageMissing, StageRead, StageEnd, SyncScan,
         Put, PutExisting, PutTemp, PutRename, PutLost,
         CreateCommit, BuildTree, NothingChanged, NewCommitData, WriteHeadBegin, WriteHeadEnd,
         Save, SaveBegin, SaveEnd, CloseEnd, Push, PushStart, PushAccepted, PushFailed,
         Remote, Fetch, FetchFailed, RemoveRemote, Tag, TagTarget, SetTag, DeleteTag, Gc, Mark, SweepTemp, SweepEnd,
         Crash, Edit, disk, vars

\* With one command at a time, wherever it is killed, gc --prune removes no
\* object that HEAD, a tag or the remote reference still leads to, not even when
\* an earlier removal has cut a path the mark had followed.
THEOREM GcSafe == OneCommand => (Spec => GcKeepsReachable)
  <1> SUFFICES ASSUME OneCommand PROVE Spec => GcKeepsReachable
    OBVIOUS
  <1> DEFINE Inv == TypeOK /\ InHand /\ Anchored
             Keeps == \A o \in objects : o \notin objects' => o \notin Reachable(Named \cap Object)
  <1>1. Inv /\ [Next]_vars => [Keeps]_vars
    <2> SUFFICES ASSUME Inv, [Next]_vars, NEW o \in objects, o \notin objects'
                 PROVE  o \notin Reachable(Named \cap Object)
      OBVIOUS
    <2>1. PICK p \in Proc : SweepObject(p)
      BY OnlyGcRemoves
    <2>2. o \notin marked[p] /\ pc[p] = "sweep"
      BY <2>1 DEF SweepObject
    <2> QED BY <2>2, RootsReached DEF Anchored
  <1> HIDE DEF Inv, Keeps
  <1>2. Spec => []Inv
    BY AlwaysAnchored DEF Inv
  <1>3. Spec => [][Keeps]_vars
    BY <1>1, <1>2, PTL DEF Spec
  <1> QED BY <1>3 DEF Keeps, GcKeepsReachable

\* With one command at a time the numbering holds with gc --prune, too: gc never
\* removes the commit that the next one is numbered after.
THEOREM SequenceCorrectAlone == OneCommand => (Spec => []SequenceFollowsParent)
  <1> SUFFICES ASSUME OneCommand PROVE Spec => []SequenceFollowsParent
    OBVIOUS
  <1>1. Init => SequenceFollowsParent
    BY DEF Init, SequenceFollowsParent
  <1>2. TypeOK /\ InHand /\ Anchored => TypeOK /\ HeadStored
    BY Disjoint DEF Anchored, Named, HeadStored
  <1>3. TypeOK /\ HeadStored /\ SequenceFollowsParent /\ [Next]_vars => SequenceFollowsParent'
    BY NextSeq
  <1> QED BY AlwaysAnchored, <1>1, <1>2, <1>3, PTL DEF Spec

-----------------------------------------------------------------------------
(* An unreadable HEAD file *)

\* Only the end of the write takes a command away from it, unless it is killed.
LEMMA NextInWriting ==
    ASSUME ~MayCrash, TypeOK, InHand, HeadIsHash, [Next]_vars
    PROVE  HeadIsHash'
  <1> USE DEF HeadIsHash, TypeOK
  <1>1. ASSUME NEW p \in Proc, WriteHeadBegin(p) PROVE HeadIsHash'
    BY <1>1 DEF WriteHeadBegin
  <1>2. ASSUME NEW p \in Proc, WriteHeadEnd(p) PROVE HeadIsHash'
    <2>1. head' \in CommitObject
      BY <1>2 DEF WriteHeadEnd, InHand
    <2> QED BY <2>1, Kinds, Disjoint
  <1>3. ASSUME NEW p \in Proc, NEW c \in Enabled, Start(p, c) PROVE HeadIsHash'
    BY <1>3 DEF Start, disk
  <1>4. ASSUME NEW p \in Proc, Step(p), ~WriteHeadBegin(p), ~WriteHeadEnd(p) PROVE HeadIsHash'
    <2>1. pc[p] # "headw" /\ head' = head /\ \A r \in Proc \ {p} : pc'[r] = pc[r]
      BY <1>4
         DEF Step, Stage, StageSkip, StageMissing, StageRead, StageEnd, SyncScan,
             Put, PutExisting, PutTemp, PutRename, PutLost, Stored,
             CreateCommit, BuildTree, NothingChanged, NewCommitData,
             Save, SaveBegin, SaveEnd, CloseEnd, Forget, Push, PushStart, PushAccepted, PushFailed,
             Remote, Fetch, FetchFailed, RemoveRemote, Tag, TagTarget, SetTag, DeleteTag, Gc, Mark, SweepObject, SweepTemp, SweepEnd, disk, proc
    <2> QED BY <2>1
  <1>5. CASE Edit \/ UNCHANGED vars
    BY <1>5 DEF Edit, proc, vars
  <1> QED BY <1>1, <1>2, <1>3, <1>4, <1>5 DEF Next, Crash

\* Unless a command is killed, the HEAD file holds a hash in every moment in which
\* no command is just rewriting it, however many run side by side.
THEOREM HeadReadable == ~MayCrash => (Spec => []HeadIsHash)
  <1> SUFFICES ASSUME ~MayCrash PROVE Spec => []HeadIsHash
    OBVIOUS
  <1> DEFINE Inv == TypeOK /\ InHand /\ HeadIsHash
  <1>1. Init => Inv
    BY InitType, Kinds DEF Init, HeadIsHash
  <1>2. Inv /\ [Next]_vars => Inv'
    BY NextType, NextInWriting
  <1> QED BY <1>1, <1>2, PTL DEF Spec


-----------------------------------------------------------------------------
(* The lines of commits *)

\* Every commit was made after its parent.
Ordered(m) == \A i \in 1..Len(m) : m[i].parent \in CommitObject => m[i].parent[2] \in 1..i - 1

\* The line that ends with a commit, given those that end before it.
LineFrom(m, f, i) == IF m[i].parent \in CommitObject THEN Append(f[m[i].parent[2]], i) ELSE <<i>>
IsLines(m, f) == f = [i \in 1..Len(m) |-> LineFrom(m, f, i)]

\* The commits made so far are in order.
LEMMA MadeOrdered ==
    /\ TypeOK /\ SequenceFollowsParent => Len(made) \in Nat /\ Ordered(made)
    /\ (TypeOK /\ SequenceFollowsParent)' => Len(made') \in Nat /\ Ordered(made')
  <1>1. TypeOK /\ SequenceFollowsParent => Len(made) \in Nat /\ Ordered(made)
    BY Kinds DEF TypeOK, SequenceFollowsParent, Ordered
  <1>2. (TypeOK /\ SequenceFollowsParent)' => Len(made') \in Nat /\ Ordered(made')
    BY Kinds DEF TypeOK, SequenceFollowsParent, Ordered
  <1> QED BY <1>1, <1>2

\* The lines are well defined: each is found from shorter ones.
LEMMA LinesExist ==
    ASSUME NEW m, Len(m) \in Nat, Ordered(m)
    PROVE  \A i \in 1..Len(m) : Lines(m)[i] = LineFrom(m, Lines(m), i)
  <1> DEFINE last == Len(m)
             Upto(n) == \E f : \A k \in 1..n : f[k] = LineFrom(m, f, k)
             bad == {n \in 0..last : ~Upto(n)}
  <1>1. last \in Nat /\ \A k \in 1..last : m[k].parent \in CommitObject => m[k].parent[2] \in 1..k - 1
    BY DEF Ordered
  <1> HIDE DEF last
  <1>2. Upto(0)
    OBVIOUS
  <1>3. ASSUME NEW n \in Nat, n < last, Upto(n) PROVE Upto(n + 1)
    <2>1. PICK f : \A k \in 1..n : f[k] = LineFrom(m, f, k)
      BY <1>3
    <2> DEFINE g == [k \in 1..n + 1 |-> IF k = n + 1 THEN LineFrom(m, f, n + 1) ELSE f[k]]
    <2>2. ASSUME NEW k \in 1..n + 1 PROVE g[k] = LineFrom(m, g, k)
      <3>1. k \in 1..last /\ g[k] = LineFrom(m, f, k)
        BY <1>1, <1>3, <2>1
      <3>2. CASE m[k].parent \in CommitObject
        <4>1. m[k].parent[2] \in 1..k - 1
          BY <1>1, <3>1, <3>2
        <4>2. g[m[k].parent[2]] = f[m[k].parent[2]]
          BY <4>1
        <4> QED BY <3>1, <4>2 DEF LineFrom
      <3> QED BY <3>1, <3>2 DEF LineFrom
    <2> HIDE DEF g
    <2> QED BY <2>2
  <1> HIDE DEF Upto
  <1>4. bad = {}
    <2> SUFFICES ASSUME bad # {} PROVE FALSE
      OBVIOUS
    <2>1. PICK n \in bad : \A k \in bad : n <= k
      <3>1. bad \in SUBSET Nat
        BY <1>1
      <3> HIDE DEF bad
      <3> QED BY <3>1, LeastOf
    <2>2. n \in Nat /\ n # 0 /\ n <= last
      BY <1>1, <1>2
    <2>3. n - 1 \in Nat /\ n - 1 \notin bad /\ n - 1 < last
      BY <1>1, <2>1, <2>2
    <2>4. Upto(n - 1 + 1)
      BY <1>1, <1>3, <2>3
    <2>5. n - 1 + 1 = n
      BY <2>2
    <2> QED BY <2>1, <2>4, <2>5
  <1>11. Upto(last)
    BY <1>1, <1>4
  <1>5. PICK f : \A k \in 1..last : f[k] = LineFrom(m, f, k)
    BY <1>11 DEF Upto
  <1> DEFINE g == [k \in 1..last |-> f[k]]
  <1>6. ASSUME NEW k \in 1..last PROVE g[k] = LineFrom(m, g, k)
    <2>1. m[k].parent \in CommitObject => m[k].parent[2] \in 1..last
      BY <1>1
    <2> QED BY <1>5, <2>1 DEF LineFrom
  <1>7. g = [k \in 1..last |-> LineFrom(m, g, k)]
    BY <1>6
  <1>8. IsLines(m, g)
    BY <1>7 DEF IsLines, last
  <1>9. Lines(m) = CHOOSE h : IsLines(m, h)
    BY DEF Lines, IsLines, LineFrom
  <1>10. IsLines(m, Lines(m))
    BY <1>8, <1>9
  <1> QED BY <1>10 DEF IsLines

\* A line ends with its commit, which comes after all the others.
EndsWith(l, i) ==
    /\ l \in Seq(1..i) /\ Len(l) > 0 /\ l[Len(l)] = i
    /\ \A k \in 1..Len(l) - 1 : l[k] < i

\* Every line is such a line.
LEMMA LinesEnd ==
    ASSUME NEW m, Len(m) \in Nat, Ordered(m)
    PROVE  \A i \in 1..Len(m) : EndsWith(Lines(m)[i], i)
  <1> DEFINE bad == {i \in 1..Len(m) : ~EndsWith(Lines(m)[i], i)}
  <1> SUFFICES ASSUME bad # {} PROVE FALSE
    OBVIOUS
  <1>1. PICK i \in bad : \A k \in bad : i <= k
    <2>1. bad \in SUBSET Nat
      OBVIOUS
    <2> HIDE DEF bad
    <2> QED BY <2>1, LeastOf
  <1>2. i \in 1..Len(m) /\ i \in Nat /\ ~EndsWith(Lines(m)[i], i)
    BY <1>1
  <1>3. Lines(m)[i] = LineFrom(m, Lines(m), i)
    BY <1>2, LinesExist
  <1>4. CASE m[i].parent \in CommitObject
    <2> DEFINE h == m[i].parent[2]
               l == Lines(m)[h]
    <2>1. h \in 1..i - 1 /\ h \in 1..Len(m)
      BY <1>2, <1>4 DEF Ordered
    <2>2. EndsWith(l, h)
      BY <1>1, <2>1
    <2>3. Lines(m)[i] = Append(l, i)
      BY <1>3, <1>4 DEF LineFrom
    <2> HIDE DEF h, l
    <2>4. l \in Seq(1..i) /\ \A k \in 1..Len(l) : l[k] < i
      BY <2>1, <2>2, <1>2 DEF EndsWith
    <2>5. Append(l, i) \in Seq(1..i) /\ Len(Append(l, i)) = Len(l) + 1 /\ Len(l) \in Nat
      BY <1>2, <2>4
    <2>6. EndsWith(Append(l, i), i)
      BY <1>2, <2>4, <2>5 DEF EndsWith
    <2> QED BY <1>2, <2>3, <2>6
  <1>5. CASE m[i].parent \notin CommitObject
    <2>1. Lines(m)[i] = <<i>>
      BY <1>3, <1>5 DEF LineFrom
    <2>2. <<i>> \in Seq(1..i) /\ Len(<<i>>) = 1 /\ <<i>>[1] = i
      BY <1>2
    <2> QED BY <1>2, <2>1, <2>2 DEF EndsWith
  <1> QED BY <1>4, <1>5

\* A commit more does not change the lines there are.
LEMMA LinesStay ==
    ASSUME NEW m, NEW more, Len(m) \in Nat, Len(more) \in Nat, Ordered(m), Ordered(more),
           Len(m) <= Len(more), \A i \in 1..Len(m) : more[i] = m[i]
    PROVE  \A i \in 1..Len(m) : Lines(more)[i] = Lines(m)[i]
  <1> DEFINE bad == {i \in 1..Len(m) : Lines(more)[i] # Lines(m)[i]}
  <1> SUFFICES ASSUME bad # {} PROVE FALSE
    OBVIOUS
  <1>1. PICK i \in bad : \A k \in bad : i <= k
    <2>1. bad \in SUBSET Nat
      OBVIOUS
    <2> HIDE DEF bad
    <2> QED BY <2>1, LeastOf
  <1>2. i \in 1..Len(m) /\ i \in 1..Len(more) /\ more[i] = m[i] /\ Lines(more)[i] # Lines(m)[i]
    BY <1>1
  <1>3. Lines(m)[i] = LineFrom(m, Lines(m), i) /\ Lines(more)[i] = LineFrom(more, Lines(more), i)
    BY <1>2, LinesExist
  <1>4. CASE m[i].parent \in CommitObject
    <2>1. m[i].parent[2] \in 1..i - 1 /\ m[i].parent[2] \in 1..Len(m)
      BY <1>2, <1>4 DEF Ordered
    <2>2. Lines(more)[m[i].parent[2]] = Lines(m)[m[i].parent[2]]
      BY <1>1, <2>1
    <2> QED BY <1>2, <1>3, <2>2 DEF LineFrom
  <1> QED BY <1>2, <1>3, <1>4 DEF LineFrom

\* The line to a commit that was made ends with it; there is none to any other hash.
LEMMA LineToIs ==
    ASSUME TypeOK, SequenceFollowsParent, NEW h, CommitBuilt(h)
    PROVE  /\ LineTo(made, h) \in Seq(1..Len(made))
           /\ h \notin CommitObject => LineTo(made, h) = <<>>
           /\ h \in CommitObject => EndsWith(LineTo(made, h), h[2])
  <1>1. Len(made) \in Nat /\ \A i \in 1..Len(made) : EndsWith(Lines(made)[i], i)
    BY MadeOrdered, LinesEnd
  <1>2. CASE h \in CommitObject
    <2>1. h[2] \in 1..Len(made)
      BY <1>1, <1>2, Kinds DEF CommitBuilt
    <2>2. LineTo(made, h) = Lines(made)[h[2]]
      BY <1>2 DEF LineTo
    <2>3. EndsWith(LineTo(made, h), h[2])
      BY <1>1, <2>1, <2>2
    <2>4. LineTo(made, h) \in Seq(1..Len(made))
      BY <1>1, <2>1, <2>3 DEF EndsWith
    <2> QED BY <1>2, <2>3, <2>4
  <1>3. CASE h \notin CommitObject
    <2>1. LineTo(made, h) = <<>>
      BY <1>3 DEF LineTo
    <2>2. <<>> \in Seq(1..Len(made))
      OBVIOUS
    <2> QED BY <1>3, <2>1, <2>2
  <1> QED BY <1>2, <1>3

\* The snapshots along a line.
Trees(m, l) == [k \in DOMAIN l |-> m[l[k]].tree]

\* There is one for every commit of the line.
LEMMA TreesAre ==
    ASSUME TypeOK, NEW l \in Seq(1..Len(made))
    PROVE  Trees(made, l) \in Seq(Snapshot) /\ Len(Trees(made, l)) = Len(l)
  <1>1. Len(made) \in Nat /\ \A i \in 1..Len(made) : made[i].tree \in Snapshot
    <2>1. made \in Seq(CommitData)
      BY DEF TypeOK
    <2>2. \A i \in 1..Len(made) : made[i] \in CommitData
      BY <2>1
    <2> QED BY <2>1, <2>2 DEF CommitData
  <1>2. DOMAIN l = 1..Len(l) /\ Len(l) \in Nat /\ \A k \in 1..Len(l) : l[k] \in 1..Len(made)
    OBVIOUS
  <1>3. \A k \in 1..Len(l) : made[l[k]].tree \in Snapshot
    BY <1>1, <1>2
  <1>4. Trees(made, l) = [k \in 1..Len(l) |-> made[l[k]].tree]
    BY <1>2 DEF Trees
  <1> QED BY <1>2, <1>3, <1>4

-----------------------------------------------------------------------------
(* The refinement of Timeline *)

\* The command has a commit in hand that HEAD does not hold yet.
Pending(p) == Committing(p) \/ pc[p] = "headw"

\* The commit in hand is the last one made, of what is staged, which is not empty
\* and not what HEAD has; and HEAD is what is pushed.
Hand(p) ==
    /\ pc[p] = "headw" => head = Garbage
    /\ Pending(p) =>
          /\ Len(made) > 0 /\ obj[p] = Commit(Len(made)) /\ remote # Commit(Len(made))
          /\ made[Len(made)].tree = mem[p] /\ mem[p] # NoFiles
          /\ LET h == made[Len(made)].parent IN h \in CommitObject => made[h[2]].tree # mem[p]
    /\ pc[p] = "parent" \/ (pc[p] \in {"put", "rename"} /\ obj[p] \in TreeObject)
          => obj[p] = Tree(mem[p]) /\ mem[p] # NoFiles
    /\ pc[p] = "sent" => obj[p] = head

\* The step ends away from the making of a commit.
Aside(p) ==
    /\ ~Pending(p)'
    /\ pc'[p] \notin {"parent", "sent"}
    /\ pc'[p] \in {"put", "rename"} => obj'[p] \notin TreeObject

\* Such a step leaves no commit in hand.
LEMMA AsideKeeps == ASSUME NEW p \in Proc, Aside(p) PROVE Hand(p)'
  BY DEF Hand, Aside, Pending

\* A command starts before it makes a commit.
LEMMA StartHand ==
    ASSUME TypeOK, NEW p \in Proc, NEW c \in Enabled, Start(p, c)
    PROVE  Hand(p)'
  <1>1. PICK syncOnly \in Modes : pc' = [pc EXCEPT ![p] = Entry(c, syncOnly)]
    BY DEF Start
  <1>2. c \in Commands
    BY EnabledAssumption
  <1>3. Entry(c, syncOnly) \in {"stage", "close", "tree", "scan", "push", "fetch", "unremote", "target",
                                "untag", "mark"}
    BY <1>2 DEF Entry, Commands
  <1>4. Aside(p)
    BY <1>1, <1>3 DEF TypeOK, Aside, Pending, Committing
  <1> QED BY <1>4, AsideKeeps

\* Staging writes blobs only.
LEMMA StageHand == ASSUME TypeOK, NEW p \in Proc, Stage(p) PROVE Hand(p)'
  <1>1. CASE StageRead(p)
    <2>1. work[First(todo[p])] \in Content
      BY <1>1, FirstMember DEF StageRead, TypeOK, Snapshot
    <2>2. obj'[p] \in BlobObject
      BY <1>1, <2>1, Kinds DEF StageRead, TypeOK
    <2>3. obj'[p] \notin TreeObject /\ obj'[p] \notin CommitObject
      BY <2>2, Disjoint
    <2>4. Aside(p)
      BY <1>1, <2>3 DEF StageRead, TypeOK, Aside, Pending, Committing
    <2> QED BY <2>4, AsideKeeps
  <1>2. CASE StageSkip(p) \/ StageMissing(p) \/ StageEnd(p) \/ SyncScan(p)
    <2>1. Aside(p)
      BY <1>2 DEF StageSkip, StageMissing, StageEnd, SyncScan, TypeOK, Aside, Pending, Committing
    <2> QED BY <2>1, AsideKeeps
  <1> QED BY <1>1, <1>2 DEF Stage

\* A stored tree or commit is still the one in hand.
LEMMA StoredHand ==
    ASSUME TypeOK, InHand, NEW p \in Proc, pc[p] \in {"put", "rename"}, Hand(p), Stored(p),
           UNCHANGED <<obj, made, head, remote>>
    PROVE  Hand(p)'
  <1>1. CASE obj[p] \in BlobObject
    <2>1. pc'[p] = "stage"
      BY <1>1 DEF Stored, TypeOK
    <2>2. Aside(p)
      BY <2>1 DEF Aside, Pending, Committing
    <2> QED BY <2>2, AsideKeeps
  <1>2. CASE obj[p] \in TreeObject
    <2>1. obj[p] \notin BlobObject /\ obj[p] \notin CommitObject
      BY <1>2, Disjoint
    <2>2. pc'[p] = "parent" /\ mem' = mem
      BY <1>2, <2>1 DEF Stored, TypeOK
    <2>3. ~Pending(p)'
      BY <2>2 DEF Pending, Committing
    <2> QED BY <1>2, <2>2, <2>3 DEF Hand
  <1>3. CASE obj[p] \in CommitObject
    <2>1. obj[p] \notin BlobObject /\ obj[p] \notin TreeObject
      BY <1>3, Disjoint
    <2>2. pc'[p] = "head" /\ mem' = mem
      BY <1>3, <2>1 DEF Stored, TypeOK
    <2>3. Pending(p)
      BY <1>3 DEF Pending, Committing
    <2> QED BY <2>2, <2>3 DEF Hand
  <1>4. CASE obj[p] \notin BlobObject \cup TreeObject \cup CommitObject
    <2>1. pc'[p] = "settag"
      BY <1>4 DEF Stored, TypeOK
    <2>2. Aside(p)
      BY <2>1 DEF Aside, Pending, Committing
    <2> QED BY <2>2, AsideKeeps
  <1> QED BY <1>1, <1>2, <1>3, <1>4

\* The steps of object.Write keep the object in hand or give it up.
LEMMA PutHand == ASSUME TypeOK, InHand, NEW p \in Proc, Hand(p), Put(p) PROVE Hand(p)'
  <1>1. CASE PutExisting(p) \/ PutRename(p)
    BY <1>1, StoredHand DEF PutExisting, PutRename, disk
  <1>2. CASE PutTemp(p)
    <2>1. pc[p] = "put" /\ pc'[p] = "rename" /\ UNCHANGED <<obj, mem, made, head, remote>>
      BY <1>2 DEF PutTemp, TypeOK
    <2>2. Pending(p) <=> Pending(p)'
      BY <2>1 DEF Pending, Committing
    <2> QED BY <2>1, <2>2 DEF Hand
  <1>3. CASE PutLost(p)
    <2>1. Aside(p)
      BY <1>3 DEF PutLost, TypeOK, Aside, Pending, Committing
    <2> QED BY <2>1, AsideKeeps
  <1> QED BY <1>1, <1>2, <1>3 DEF Put

\* A new commit has the staged tree, which is not that of HEAD.
LEMMA NewCommitHand ==
    ASSUME TypeOK, InHand, HeadStored, NEW p \in Proc, Hand(p), NewCommitData(p)
    PROVE  Hand(p)'
  <1> DEFINE n == Len(made) + 1
  <1>1. /\ pc[p] = "parent" /\ pc'[p] = "put" /\ obj'[p] = Commit(n)
        /\ UNCHANGED <<mem, head, remote>> /\ made' = Append(made, CommitOnHead(obj[p][2]))
    BY DEF NewCommitData, TypeOK
  <1>2. obj[p][2] = mem[p] /\ mem[p] # NoFiles
    BY <1>1, Kinds DEF Hand, TypeOK
  <1>3. /\ Len(made) \in Nat /\ Len(made') = n /\ \A j \in 1..Len(made) : made'[j] = made[j]
        /\ made'[n].tree = mem[p] /\ made'[n].parent = IF head \in AnyCommit THEN head ELSE Zero
    BY <1>1, <1>2 DEF TypeOK, CommitOnHead
  <1>4. remote # Commit(n) /\ Commit(n) \notin TreeObject /\ Commit(n) \in CommitObject
    <2>1. n \in Nat \ {0} /\ ~(n <= Len(made))
      BY <1>3
    <2>2. Commit(n) \in CommitObject /\ Commit(n)[2] = n
      BY <2>1, Kinds
    <2>3. remote \in CommitObject => remote[2] <= Len(made)
      BY DEF TypeOK, CommitBuilt
    <2> HIDE DEF n
    <2> QED BY <2>1, <2>2, <2>3, Disjoint
  <1>5. ASSUME made'[n].parent \in CommitObject
        PROVE  made'[made'[n].parent[2]].tree # mem[p]
    <2>1. made'[n].parent = head /\ head \in CommitObject
      BY <1>3, <1>5, Kinds, Disjoint
    <2>2. head[2] \in 1..Len(made)
      BY <2>1, <1>3, Kinds DEF TypeOK, CommitBuilt
    <2>3. ~SameTree(mem[p])
      BY <1>2 DEF NewCommitData
    <2>4. made[head[2]].tree # mem[p]
      BY <2>1, <2>3 DEF SameTree, Readable, HeadStored
    <2> QED BY <1>3, <2>1, <2>2, <2>4
  <1>6. n > 0
    BY <1>3
  <1> HIDE DEF n
  <1> QED BY <1>1, <1>2, <1>3, <1>4, <1>5, <1>6 DEF Hand

\* The steps of createCommit.
LEMMA CreateCommitHand ==
    ASSUME TypeOK, InHand, HeadStored, NEW p \in Proc, Hand(p), CreateCommit(p)
    PROVE  Hand(p)'
  <1>1. CASE BuildTree(p)
    <2>1. mem[p] \in Snapshot /\ Tree(mem[p]) \in TreeObject /\ Tree(mem[p]) \notin CommitObject
      BY Kinds, Disjoint DEF TypeOK
    <2>2. \/ pc'[p] = "close"
          \/ pc'[p] = "put" /\ obj'[p] = Tree(mem[p]) /\ mem[p] # NoFiles /\ mem' = mem
      BY <1>1 DEF BuildTree, TypeOK
    <2>3. ~Pending(p)'
      BY <2>1, <2>2 DEF Pending, Committing
    <2> QED BY <2>2, <2>3 DEF Hand, Pending
  <1>2. CASE NothingChanged(p) \/ WriteHeadEnd(p)
    <2>1. Aside(p)
      BY <1>2 DEF NothingChanged, WriteHeadEnd, TypeOK, Aside, Pending, Committing
    <2> QED BY <2>1, AsideKeeps
  <1>3. CASE NewCommitData(p)
    BY <1>3, NewCommitHand
  <1>4. CASE WriteHeadBegin(p)
    <2>1. /\ pc[p] = "head" /\ pc'[p] = "headw" /\ head' = Garbage
          /\ UNCHANGED <<obj, mem, made, remote>>
      BY <1>4 DEF WriteHeadBegin, TypeOK
    <2>2. Pending(p)
      BY <2>1 DEF Pending, Committing
    <2> QED BY <2>1, <2>2 DEF Hand
  <1> QED BY <1>1, <1>2, <1>3, <1>4 DEF CreateCommit

\* Saving, pushing, fetching and tagging read HEAD at most.
LEMMA OtherHand ==
    ASSUME TypeOK, NEW p \in Proc, Save(p) \/ Push(p) \/ Remote(p) \/ Tag(p) \/ Gc(p) \/ Crash(p)
    PROVE  Hand(p)'
  <1>1. CASE \/ Save(p) \/ PushAccepted(p) \/ PushFailed(p) \/ Remote(p)
             \/ SetTag(p) \/ DeleteTag(p) \/ Gc(p) \/ Crash(p)
    <2>1. pc'[p] \in {"savew", "csavew", "closew", "close", "tree", "push", "idle", "sweep"}
      BY <1>1 DEF Save, SaveBegin, SaveEnd, CloseEnd, Forget, PushAccepted, PushFailed, Remote, Fetch,
             FetchFailed, RemoveRemote, SetTag, DeleteTag, Gc, Mark, SweepObject, SweepTemp, SweepEnd,
             Crash, TypeOK, proc
    <2>2. Aside(p)
      BY <2>1 DEF Aside, Pending, Committing
    <2> QED BY <2>2, AsideKeeps
  <1>2. CASE PushStart(p)
    <2>1. pc'[p] = "close" \/ (pc'[p] = "sent" /\ obj'[p] = head /\ head' = head)
      BY <1>2 DEF PushStart, TypeOK, disk
    <2> QED BY <2>1 DEF Hand, Pending, Committing
  <1>3. CASE TagTarget(p)
    <2>1. pc'[p] \in {"close", "settag", "put"} /\ (pc'[p] = "put" => obj'[p] \in AnnotatedTag)
      BY <1>3, Kinds DEF TagTarget, TypeOK
    <2>2. pc'[p] = "put" => obj'[p] \notin TreeObject /\ obj'[p] \notin CommitObject
      BY <2>1, Disjoint
    <2>3. Aside(p)
      BY <2>1, <2>2 DEF Aside, Pending, Committing
    <2> QED BY <2>3, AsideKeeps
  <1> QED BY <1>1, <1>2, <1>3 DEF Push, Tag

\* Every step keeps the commit in hand the next of the line.
LEMMA NextHand ==
    ASSUME OneCommand, TypeOK, InHand, HeadStored, NEW p \in Proc, Hand(p), [Next]_vars
    PROVE  Hand(p)'
  <1>1. CASE Step(p)
    BY <1>1, StageHand, PutHand, CreateCommitHand, OtherHand DEF Step
  <1>2. CASE \E c \in Enabled : Start(p, c)
    BY <1>2, StartHand
  <1>3. CASE Crash(p)
    BY <1>3, OtherHand
  <1>4. CASE Edit \/ UNCHANGED vars
    BY <1>4 DEF Hand, Pending, Committing, Edit, proc, vars
  <1> QED BY <1>1, <1>2, <1>3, <1>4 DEF Next, OneCommand

-----------------------------------------------------------------------------
(* The steps of the timeline *)

\* The place of a commit in a line is one of its places or 0; the end is the
\* place of the commit it ends with, and another commit takes no part.
LEMMA PlaceIs ==
    ASSUME NEW S \in SUBSET Nat, NEW l \in Seq(S), NEW h
    PROVE  /\ Place(l, h) \in 0..Len(l)
           /\ h \in CommitObject /\ EndsWith(l, h[2]) => Place(l, h) = Len(l)
           /\ \A i \in Nat : h # Commit(i) => Place(Append(l, i), h) = Place(l, h)
           /\ Place(<<>>, h) = 0
  <1> DEFINE At(s) == {k \in DOMAIN s : h \in CommitObject /\ s[k] = h[2]}
             Of(a) == IF a = {} THEN 0 ELSE CHOOSE k \in a : TRUE
  <1>1. \A s : Place(s, h) = Of(At(s))
    BY DEF Place
  <1>2. \A a : (a = {} => Of(a) = 0) /\ (a # {} => Of(a) \in a)
    OBVIOUS
  <1>3. DOMAIN l = 1..Len(l) /\ Len(l) \in Nat
    OBVIOUS
  <1>4. Place(l, h) \in 0..Len(l)
    <2>1. At(l) \subseteq 1..Len(l)
      BY <1>3
    <2> HIDE DEF At, Of
    <2>2. Of(At(l)) = 0 \/ Of(At(l)) \in 1..Len(l)
      BY <1>2, <2>1
    <2> QED BY <1>1, <1>3, <2>2
  <1>5. ASSUME h \in CommitObject, EndsWith(l, h[2]) PROVE Place(l, h) = Len(l)
    <2>1. Len(l) \in At(l)
      BY <1>3, <1>5 DEF EndsWith
    <2>2. \A k \in At(l) : k = Len(l)
      <3> TAKE k \in At(l)
      <3>1. k \in 1..Len(l) /\ l[k] = h[2] /\ h[2] \in Nat
        BY <1>3, <1>5, Kinds
      <3>2. k \in 1..Len(l) - 1 => l[k] < h[2]
        BY <1>5 DEF EndsWith
      <3> QED BY <1>3, <3>1, <3>2
    <2> HIDE DEF At, Of
    <2> QED BY <1>1, <1>2, <2>1, <2>2
  <1>6. ASSUME NEW i \in Nat, h # Commit(i) PROVE Place(Append(l, i), h) = Place(l, h)
    <2>1. h \in CommitObject => h[2] # i
      BY <1>6, Kinds
    <2>2. /\ DOMAIN Append(l, i) = 1..Len(l) + 1 /\ Append(l, i)[Len(l) + 1] = i
          /\ \A k \in 1..Len(l) : Append(l, i)[k] = l[k]
      <3>1. l \in Seq(Nat)
        <4>1. \A k \in 1..Len(l) : l[k] \in S
          OBVIOUS
        <4>2. l = [k \in 1..Len(l) |-> l[k]]
          OBVIOUS
        <4> QED BY <1>3, <4>1, <4>2
      <3>2. Append(l, i) \in Seq(Nat) /\ Len(Append(l, i)) = Len(l) + 1
        BY <3>1
      <3>3. DOMAIN Append(l, i) = 1..Len(l) + 1
        BY <3>2
      <3>4. Append(l, i)[Len(l) + 1] = i /\ \A k \in 1..Len(l) : Append(l, i)[k] = l[k]
        BY <1>3, <3>1
      <3> QED BY <3>3, <3>4
    <2>3. At(Append(l, i)) = At(l)
      BY <1>3, <2>1, <2>2
    <2> HIDE DEF At, Of
    <2> QED BY <1>1, <2>3
  <1>7. Place(<<>>, h) = 0
    <2>1. At(<<>>) = {}
      OBVIOUS
    <2> HIDE DEF At, Of
    <2> QED BY <1>1, <1>2, <2>1
  <1> QED BY <1>4, <1>5, <1>6, <1>7

\* What is staged is in the memory of the command, if it runs.
LEMMA StagedIs ==
    ASSUME OneCommand, NEW p \in Proc
    PROVE  /\ Staged = IF pc[p] = "idle" THEN index ELSE mem[p]
           /\ Staged' = IF pc'[p] = "idle" THEN index' ELSE mem'[p]
  <1>1. Proc = {p}
    BY DEF OneCommand
  <1>2. /\ Running = IF pc[p] = "idle" THEN {} ELSE {p}
        /\ Running' = IF pc'[p] = "idle" THEN {} ELSE {p}
    BY <1>1 DEF Running
  <1>3. (CHOOSE r \in {p} : TRUE) = p
    OBVIOUS
  <1> QED BY <1>2, <1>3 DEF Staged

\* The line ends with HEAD, or with the parent of the commit that replaces it.
LEMMA TipIs ==
    ASSUME OneCommand, NEW p \in Proc
    PROVE  /\ Publishing <=> pc[p] = "headw"
           /\ Publishing' <=> pc'[p] = "headw"
           /\ Tip = IF pc[p] = "headw" THEN made[obj[p][2]].parent ELSE head
           /\ Tip' = IF pc'[p] = "headw" THEN made'[obj'[p][2]].parent ELSE head'
  <1>1. \A q \in Proc : q = p
    BY DEF OneCommand
  <1>2. (Publishing <=> pc[p] = "headw") /\ (Publishing' <=> pc'[p] = "headw")
    BY <1>1 DEF Publishing
  <1>3. pc[p] = "headw" => (CHOOSE q \in Proc : pc[q] = "headw") = p
    BY <1>1
  <1>4. pc'[p] = "headw" => (CHOOSE q \in Proc : pc'[q] = "headw") = p
    BY <1>1
  <1>5. Tip = IF pc[p] = "headw" THEN made[obj[p][2]].parent ELSE head
    <2>1. CASE pc[p] = "headw"
      BY <1>2, <1>3, <2>1 DEF Tip
    <2>2. CASE pc[p] # "headw"
      BY <1>2, <2>2 DEF Tip
    <2> QED BY <2>1, <2>2
  <1>6. Tip' = IF pc'[p] = "headw" THEN made'[obj'[p][2]].parent ELSE head'
    <2>1. CASE pc'[p] = "headw"
      BY <1>2, <1>4, <2>1 DEF Tip
    <2>2. CASE pc'[p] # "headw"
      BY <1>2, <2>2 DEF Tip
    <2> QED BY <2>1, <2>2
  <1> QED BY <1>2, <1>5, <1>6

\* History is the trees of the line.
LEMMA HistoryIs ==
    /\ History = Trees(made, LineTo(made, Tip))
    /\ History' = Trees(made', LineTo(made', Tip'))
    /\ Pushed = Place(LineTo(made, Tip), remote)
    /\ Pushed' = Place(LineTo(made', Tip'), remote')
  BY DEF History, Trees, Pushed

\* What holds in every state of a repository used by one command at a time.
Sound == TypeOK /\ InHand /\ Anchored /\ SequenceFollowsParent /\ Based

\* The line is one of commits that were made.
LEMMA LineSound ==
    ASSUME OneCommand, Sound, NEW p \in Proc
    PROVE  /\ CommitBuilt(Tip)
           /\ LineTo(made, Tip) \in Seq(1..Len(made)) /\ 1..Len(made) \in SUBSET Nat
           /\ Tip \notin CommitObject => LineTo(made, Tip) = <<>>
           /\ Tip \in CommitObject => EndsWith(LineTo(made, Tip), Tip[2])
           /\ History \in Seq(Snapshot) /\ Len(History) = Len(LineTo(made, Tip))
  <1>1. CommitBuilt(Tip)
    <2>1. CASE pc[p] = "headw"
      <3>1. obj[p] \in CommitObject /\ obj[p][2] <= Len(made)
        BY <2>1 DEF Sound, TypeOK, InHand, CommitBuilt
      <3>2. Len(made) \in Nat /\ Ordered(made)
        BY MadeOrdered DEF Sound
      <3>3. obj[p][2] \in 1..Len(made)
        BY <3>1, <3>2, Kinds
      <3>4. Tip = made[obj[p][2]].parent
        BY <2>1, TipIs
      <3>5. Tip \in CommitObject => Tip[2] \in 1..obj[p][2] - 1
        BY <3>2, <3>3, <3>4 DEF Ordered
      <3> QED BY <3>2, <3>3, <3>5 DEF CommitBuilt
    <2>2. CASE pc[p] # "headw"
      BY <2>2, TipIs DEF Sound, TypeOK
    <2> QED BY <2>1, <2>2
  <1>2. /\ LineTo(made, Tip) \in Seq(1..Len(made))
        /\ Tip \notin CommitObject => LineTo(made, Tip) = <<>>
        /\ Tip \in CommitObject => EndsWith(LineTo(made, Tip), Tip[2])
    BY <1>1, LineToIs DEF Sound
  <1>3. History \in Seq(Snapshot) /\ Len(History) = Len(LineTo(made, Tip))
    BY <1>2, TreesAre, HistoryIs DEF Sound
  <1>4. 1..Len(made) \in SUBSET Nat
    OBVIOUS
  <1> QED BY <1>1, <1>2, <1>3, <1>4

\* Away from HEAD and the commits the line stays.
LEMMA LineStays ==
    ASSUME OneCommand, NEW p \in Proc, UNCHANGED <<made, head>>, pc[p] # "headw", pc'[p] # "headw"
    PROVE  /\ Tip' = Tip /\ UNCHANGED <<History, Publishing>>
           /\ remote' = remote => Pushed' = Pushed
  <1>1. Tip' = Tip /\ ~Publishing /\ ~Publishing'
    BY TipIs
  <1>2. History' = History /\ (remote' = remote => Pushed' = Pushed)
    BY <1>1, HistoryIs
  <1>3. Publishing' = Publishing
    BY <1>1 DEF Publishing
  <1> QED BY <1>1, <1>2, <1>3

\* A step of a command that leaves its memory, the index and the line alone.
LEMMA StepAway ==
    ASSUME OneCommand, NEW p \in Proc, UNCHANGED <<made, head, remote, index, mem>>,
           pc[p] \notin {"idle", "headw"}, pc'[p] \notin {"idle", "headw"}
    PROVE  UNCHANGED T!timeline
  <1>1. Staged' = Staged
    BY StagedIs
  <1> QED BY <1>1, LineStays DEF T!timeline

\* Nothing of what the timeline is made of changes.
LEMMA NothingMoves ==
    ASSUME UNCHANGED <<made, head, remote, index, mem, pc, obj>>
    PROVE  UNCHANGED T!timeline
  <1>1. UNCHANGED <<Staged, Tip, Publishing>>
    BY DEF Staged, Running, Tip, Publishing
  <1> QED BY <1>1, HistoryIs DEF T!timeline

\* The steps that stage something.
LEMMA StoredStages ==
    ASSUME TypeOK, InHand, OneCommand, NEW p \in Proc, pc[p] \in {"put", "rename"}, Stored(p),
           UNCHANGED <<made, head, remote, index>>
    PROVE  [T!Next]_(T!timeline)
  <1>1. pc[p] \notin {"idle", "headw"} /\ pc'[p] \notin {"idle", "headw"}
    BY DEF Stored, TypeOK
  <1>2. UNCHANGED <<History, Publishing, Pushed>>
    BY <1>1, LineStays
  <1>3. Staged = mem[p] /\ Staged' = mem'[p]
    BY <1>1, StagedIs
  <1>4. CASE obj[p] \in BlobObject
    <2>1. First(todo[p]) \in Path /\ obj[p][2] \in Content
      <3>1. todo[p] \in SUBSET Path
        BY DEF TypeOK
      <3>2. todo[p] # {}
        BY <1>4 DEF InHand
      <3>3. obj[p][2] \in Content
        BY <1>4 DEF BlobObject
      <3> QED BY <3>1, <3>2, <3>3, FirstMember
    <2>2. mem'[p] = [mem[p] EXCEPT ![First(todo[p])] = obj[p][2]]
      BY <1>4 DEF Stored, TypeOK
    <2>3. T!Stage
      BY <1>2, <1>3, <2>1, <2>2 DEF T!Stage
    <2> QED BY <2>3 DEF T!Next
  <1>5. CASE obj[p] \notin BlobObject
    <2>1. mem' = mem
      BY <1>5 DEF Stored
    <2> QED BY <1>1, <2>1, StepAway
  <1> QED BY <1>4, <1>5

\* The end of a sync's staging drops the deleted paths from what is staged.
LEMMA StageEndStages ==
    ASSUME TypeOK, OneCommand, NEW p \in Proc, StageEnd(p)
    PROVE  [T!Next]_(T!timeline)
  <1>1. /\ pc[p] \notin {"idle", "headw"} /\ pc'[p] \notin {"idle", "headw"}
        /\ UNCHANGED <<made, head, remote, index>>
    BY DEF StageEnd, TypeOK, disk
  <1>2. CASE cmd[p] = "sync"
    <2>1. UNCHANGED <<History, Publishing, Pushed>>
      BY <1>1, LineStays
    <2>2. Staged = mem[p] /\ Staged' = mem'[p]
      BY <1>1, StagedIs
    <2>3. noted[p] \in SUBSET Path
      BY DEF TypeOK
    <2>4. mem'[p] = [q \in Path |-> IF q \in noted[p] THEN Absent ELSE mem[p][q]]
      BY <1>2 DEF StageEnd, TypeOK
    <2>5. T!Stage
      BY <1>1, <2>1, <2>2, <2>3, <2>4 DEF T!Stage, T!Without
    <2> QED BY <2>5 DEF T!Next
  <1>3. CASE cmd[p] # "sync"
    <2>1. mem' = mem
      BY <1>3 DEF StageEnd
    <2> QED BY <1>1, <2>1, StepAway
  <1> QED BY <1>2, <1>3

\* Saving leaves a part of what is staged in the index file, or all of it.
LEMMA SaveSaves ==
    ASSUME TypeOK, OneCommand, NEW p \in Proc, Save(p)
    PROVE  T!Save
  <1>1. /\ pc[p] \notin {"idle", "headw"} /\ pc'[p] # "headw" /\ UNCHANGED <<made, head, remote>>
        /\ IF pc'[p] = "idle" THEN index' = mem[p] ELSE mem'[p] = mem[p]
    BY DEF Save, SaveBegin, SaveEnd, CloseEnd, Forget, TypeOK
  <1>2. UNCHANGED <<History, Publishing, Pushed>>
    BY <1>1, LineStays
  <1>3. Staged = mem[p] /\ Staged' = mem[p]
    BY <1>1, StagedIs
  <1>4. mem[p] \in Snapshot
    BY DEF TypeOK
  <1>5. \E gone \in SUBSET Path : index' = T!Without(mem[p], gone)
    <2>1. CASE index' = mem[p]
      <3>1. index' = T!Without(mem[p], {})
        BY <1>4, <2>1 DEF T!Without, Snapshot
      <3> QED BY <3>1
    <2>2. CASE SaveBegin(p)
      <3>1. PICK k \in 0..NPaths : index' = [q \in Path |-> IF q <= k THEN mem[p][q] ELSE Absent]
        BY <2>2 DEF SaveBegin, Prefixes
      <3> DEFINE gone == {q \in Path : ~(q <= k)}
      <3>2. index' = T!Without(mem[p], gone)
        BY <3>1 DEF T!Without
      <3>3. gone \in SUBSET Path
        OBVIOUS
      <3> HIDE DEF gone
      <3> QED BY <3>2, <3>3
    <2> QED BY <2>1, <2>2 DEF Save, SaveEnd, CloseEnd
  <1> QED BY <1>2, <1>3, <1>5 DEF T!Save

\* A new commit is none of the line until HEAD names it.
LEMMA NewCommitAway ==
    ASSUME OneCommand, Sound, Sound', NEW p \in Proc, NewCommitData(p)
    PROVE  UNCHANGED T!timeline
  <1>1. /\ pc[p] = "parent" /\ pc'[p] = "put" /\ UNCHANGED <<mem, index, head, remote>>
        /\ made' = Append(made, CommitOnHead(obj[p][2]))
    BY DEF NewCommitData, Sound, TypeOK
  <1>2. /\ Staged' = Staged /\ ~Publishing /\ ~Publishing'
        /\ Tip = head /\ Tip' = head
    BY <1>1, StagedIs, TipIs
  <1>3. /\ Len(made) \in Nat /\ Len(made') = Len(made) + 1 /\ \A i \in 1..Len(made) : made'[i] = made[i]
        /\ Ordered(made) /\ Ordered(made')
    BY <1>1, MadeOrdered DEF Sound, TypeOK
  <1>4. \A i \in 1..Len(made) : Lines(made')[i] = Lines(made)[i]
    BY <1>3, LinesStay
  <1>5. LineTo(made', Tip') = LineTo(made, Tip)
    <2>1. head \in CommitObject => head[2] \in 1..Len(made)
      BY <1>3, Kinds DEF Sound, TypeOK, CommitBuilt
    <2> QED BY <1>2, <1>4, <2>1 DEF LineTo
  <1>6. Pushed' = Pushed
    BY <1>1, <1>5, HistoryIs
  <1> DEFINE l == LineTo(made, Tip)
  <1>7. History' = History
    <2>1. l \in Seq(1..Len(made))
      BY LineSound
    <2> HIDE DEF l
    <2>2. \A k \in DOMAIN l : l[k] \in 1..Len(made)
      BY <2>1
    <2>3. Trees(made', l) = Trees(made, l)
      BY <1>3, <2>2 DEF Trees
    <2> QED BY <1>5, <2>3, HistoryIs DEF l
  <1> QED BY <1>1, <1>2, <1>6, <1>7 DEF T!timeline, Publishing

\* The commit that is about to replace HEAD has HEAD for its parent.
LEMMA WriteHeadPublishes ==
    ASSUME OneCommand, Sound, NEW p \in Proc, Hand(p), WriteHeadBegin(p)
    PROVE  T!Publish
  <1> DEFINE n == Len(made)
             h == made[n].parent
             l == LineTo(made, head)
  <1>1. /\ pc[p] = "head" /\ pc'[p] = "headw" /\ UNCHANGED <<made, mem, obj, remote, index>>
    BY DEF WriteHeadBegin, Sound, TypeOK
  <1>2. /\ n \in Nat \ {0} /\ obj[p] = Commit(n) /\ obj[p][2] = n /\ mem[p] # NoFiles
        /\ h \in CommitObject => made[h[2]].tree # mem[p]
    <2>1. Pending(p) /\ Len(made) \in Nat
      BY <1>1 DEF Pending, Committing, Sound, TypeOK
    <2>2. /\ n > 0 /\ obj[p] = Commit(n) /\ mem[p] # NoFiles
          /\ h \in CommitObject => made[h[2]].tree # mem[p]
      BY <2>1 DEF Hand
    <2> QED BY <2>1, <2>2, Kinds
  <1>3. h = IF head \in AnyCommit THEN head ELSE Zero
    BY <1>1, <1>2 DEF Sound, Based, Committing
  <1>4. Staged = mem[p] /\ Staged' = mem[p] /\ ~Publishing /\ Publishing' /\ Tip = head /\ Tip' = h
    BY <1>1, <1>2, StagedIs, TipIs
  <1> HIDE DEF n, h
  <1>5. LineTo(made, h) = l
    <2>1. CASE head \in CommitObject
      BY <1>3, <2>1, Disjoint
    <2>2. CASE head \notin CommitObject
      <3>1. h \notin CommitObject
        BY <1>3, <2>2, Kinds, Disjoint DEF AnyCommit
      <3> QED BY <2>2, <3>1 DEF LineTo
    <2> QED BY <2>1, <2>2
  <1>6. History' = History /\ Pushed' = Pushed
    BY <1>1, <1>4, <1>5, HistoryIs
  <1>7. History # <<>> => History[Len(History)] # mem[p]
    <2>1. /\ l \in Seq(1..Len(made))
          /\ head \notin CommitObject => l = <<>>
          /\ head \in CommitObject => EndsWith(l, head[2])
          /\ History \in Seq(Snapshot) /\ Len(History) = Len(l) /\ History = Trees(made, l)
      BY <1>4, LineSound, HistoryIs
    <2> SUFFICES ASSUME History # <<>> PROVE History[Len(History)] # mem[p]
      OBVIOUS
    <2>2. Len(History) \in Nat \ {0}
      BY <2>1
    <2>3. head \in CommitObject
      BY <2>1, <2>2
    <2>4. l[Len(l)] = head[2] /\ Len(l) \in DOMAIN l
      BY <2>1, <2>2, <2>3 DEF EndsWith
    <2>5. History[Len(History)] = made[head[2]].tree
      BY <2>1, <2>4 DEF Trees
    <2>6. h = head
      BY <1>3, <2>3, Disjoint
    <2> QED BY <1>2, <2>3, <2>5, <2>6
  <1> QED BY <1>1, <1>2, <1>4, <1>6, <1>7 DEF T!Publish, T!Empty, NoFiles

\* The end of WriteHead commits what is staged.
LEMMA WriteHeadCommits ==
    ASSUME OneCommand, Sound, NEW p \in Proc, Hand(p), WriteHeadEnd(p)
    PROVE  T!Commit
  <1> DEFINE n == Len(made)
             h == made[n].parent
             l == LineTo(made, h)
  <1>1. /\ pc[p] = "headw" /\ pc'[p] = "csave" /\ head' = obj[p]
        /\ UNCHANGED <<made, mem, remote, index>>
    BY DEF WriteHeadEnd, Sound, TypeOK
  <1>2. /\ n \in Nat \ {0} /\ obj[p] = Commit(n) /\ obj[p] \in CommitObject /\ obj[p][2] = n
        /\ made[n].tree = mem[p] /\ mem[p] \in Snapshot /\ remote # Commit(n)
    <2>1. Pending(p) /\ Len(made) \in Nat /\ mem[p] \in Snapshot
      BY <1>1 DEF Pending, Sound, TypeOK
    <2>2. n > 0 /\ obj[p] = Commit(n) /\ made[n].tree = mem[p] /\ remote # Commit(n)
      BY <2>1 DEF Hand
    <2> QED BY <2>1, <2>2, Kinds
  <1>3. Staged = mem[p] /\ Staged' = mem[p] /\ Publishing /\ ~Publishing' /\ Tip = h /\ Tip' = obj[p]
    BY <1>1, <1>2, StagedIs, TipIs
  <1>4. l \in Seq(1..n) /\ 1..n \in SUBSET Nat /\ History \in Seq(Snapshot) /\ Len(History) = Len(l)
        /\ (h \notin CommitObject => l = <<>>)
    BY <1>3, LineSound
  <1>5. LineTo(made, obj[p]) = Append(l, n)
    <2>1. LineTo(made, obj[p]) = LineFrom(made, Lines(made), n)
      <3>1. Lines(made)[n] = LineFrom(made, Lines(made), n)
        BY <1>2, MadeOrdered, LinesExist DEF Sound
      <3> QED BY <1>2, <3>1 DEF LineTo
    <2>2. CASE h \in CommitObject
      BY <2>1, <2>2 DEF LineTo, LineFrom
    <2>3. CASE h \notin CommitObject
      <3>1. LineTo(made, obj[p]) = <<n>> /\ l = <<>>
        BY <2>1, <2>3, <1>4 DEF LineFrom
      <3> HIDE DEF l, n
      <3>2. Append(<<>>, n) = <<n>>
        OBVIOUS
      <3> QED BY <3>1, <3>2
    <2> QED BY <2>2, <2>3
  <1>6. Pushed' = Pushed
    <2>1. Pushed' = Place(Append(l, n), remote) /\ Pushed = Place(l, remote)
      BY <1>1, <1>3, <1>5, HistoryIs
    <2> HIDE DEF l, n
    <2>2. Place(Append(l, n), remote) = Place(l, remote)
      BY <1>2, <1>4, PlaceIs
    <2> QED BY <2>1, <2>2
  <1>7. History' = Append(History, mem[p])
    <2>1. History' = Trees(made, Append(l, n)) /\ History = Trees(made, l)
      BY <1>1, <1>3, <1>5, HistoryIs
    <2> HIDE DEF l, n
    <2>2. /\ Append(l, n) \in Seq(1..n) /\ Len(Append(l, n)) = Len(l) + 1 /\ Len(l) \in Nat
          /\ Append(l, n)[Len(l) + 1] = n /\ \A k \in 1..Len(l) : Append(l, n)[k] = l[k]
      BY <1>2, <1>4
    <2>3. /\ DOMAIN Append(l, n) = 1..Len(l) + 1 /\ DOMAIN l = 1..Len(l)
      BY <1>4, <2>2
    <2>4. /\ History' = [k \in 1..Len(l) + 1 |-> made[Append(l, n)[k]].tree]
          /\ History = [k \in 1..Len(l) |-> made[l[k]].tree]
      BY <2>1, <2>3 DEF Trees
    <2>5. Append(History, mem[p]) = [k \in 1..Len(l) + 1 |-> IF k = Len(l) + 1 THEN mem[p] ELSE History[k]]
      BY <1>2, <1>4, <2>2
    <2>6. ASSUME NEW k \in 1..Len(l) + 1
          PROVE  made[Append(l, n)[k]].tree = IF k = Len(l) + 1 THEN mem[p] ELSE History[k]
      <3>1. CASE k = Len(l) + 1
        BY <1>2, <2>2, <3>1
      <3>2. CASE k # Len(l) + 1
        <4>1. k \in 1..Len(l)
          BY <2>2, <3>2
        <4> QED BY <2>2, <2>4, <3>2, <4>1
      <3> QED BY <3>1, <3>2
    <2> QED BY <2>4, <2>5, <2>6
  <1> QED BY <1>1, <1>3, <1>6, <1>7 DEF T!Commit

\* A push that is accepted leaves the remote with the whole line.
LEMMA PushAcceptedPushes ==
    ASSUME OneCommand, Sound, NEW p \in Proc, Hand(p), PushAccepted(p)
    PROVE  T!Push
  <1> DEFINE l == LineTo(made, head)
  <1>1. /\ pc[p] = "sent" /\ pc'[p] = "close" /\ remote' = obj[p] /\ obj[p] = head
        /\ UNCHANGED <<made, head, mem, index>> /\ head \in CommitObject
    BY DEF PushAccepted, Sound, TypeOK, InHand, Hand
  <1>2. Staged' = Staged /\ UNCHANGED <<History, Publishing>> /\ Tip = head /\ Tip' = head
    BY <1>1, StagedIs, LineStays, TipIs
  <1>3. /\ l \in Seq(1..Len(made)) /\ 1..Len(made) \in SUBSET Nat /\ EndsWith(l, head[2])
        /\ History \in Seq(Snapshot) /\ Len(History) = Len(l)
    BY <1>1, <1>2, LineSound
  <1>4. Pushed' = Place(l, head)
    BY <1>1, <1>2, HistoryIs
  <1> HIDE DEF l
  <1>5. Place(l, head) = Len(l)
    BY <1>1, <1>3, PlaceIs
  <1>6. History # <<>>
    BY <1>3 DEF EndsWith
  <1> QED BY <1>1, <1>2, <1>3, <1>4, <1>5, <1>6 DEF T!Push

\* A remote that is asked has a part of the line or none of it; so has one that
\* is removed.
LEMMA RemoteAsks ==
    ASSUME OneCommand, Sound, NEW p \in Proc, Remote(p)
    PROVE  T!Ask
  <1>1. /\ pc[p] \notin {"idle", "headw"} /\ pc'[p] = "close" /\ UNCHANGED <<made, head, mem, index>>
    BY DEF Remote, Fetch, FetchFailed, RemoveRemote, Sound, TypeOK, disk
  <1>2. Staged' = Staged /\ UNCHANGED <<History, Publishing, Tip>>
    BY <1>1, StagedIs, LineStays
  <1> DEFINE l == LineTo(made, Tip)
  <1>3. l \in Seq(1..Len(made)) /\ 1..Len(made) \in SUBSET Nat /\ Len(History) = Len(l)
    BY LineSound
  <1>4. Pushed' = Place(l, remote')
    BY <1>1, <1>2, HistoryIs
  <1> HIDE DEF l
  <1>5. Pushed' \in 0..Len(l)
    BY <1>3, <1>4, PlaceIs
  <1> QED BY <1>1, <1>2, <1>3, <1>5 DEF T!Ask

\* A kill leaves the index file, and nothing of the line if it hits the writing of HEAD.
LEMMA CrashKills ==
    ASSUME OneCommand, Sound, NEW p \in Proc, Hand(p), Crash(p)
    PROVE  T!Kill
  <1>1. pc[p] # "idle" /\ pc'[p] = "idle" /\ UNCHANGED <<made, head, remote, index>>
    BY DEF Crash, Forget, Sound, TypeOK
  <1>2. Staged' = index /\ ~Publishing' /\ Tip' = head
    BY <1>1, StagedIs, TipIs
  <1>3. CASE pc[p] = "headw"
    <2>1. head = Garbage /\ Garbage \notin CommitObject /\ Publishing
      BY <1>3, Kinds, Disjoint, TipIs DEF Hand
    <2>2. LineTo(made', Tip') = <<>>
      BY <1>1, <1>2, <2>1 DEF LineTo
    <2>3. History' = <<>>
      BY <2>2, HistoryIs DEF Trees
    <2>4. <<>> \in Seq(Nat)
      OBVIOUS
    <2>5. Pushed' = 0
      BY <2>2, <2>4, HistoryIs, PlaceIs
    <2> QED BY <1>1, <1>2, <2>1, <2>3, <2>5 DEF T!Kill
  <1>4. CASE pc[p] # "headw"
    <2>1. UNCHANGED <<History, Pushed>> /\ ~Publishing
      BY <1>1, <1>4, LineStays, TipIs
    <2> QED BY <1>1, <1>2, <2>1 DEF T!Kill
  <1> QED BY <1>3, <1>4

\* A command that starts takes over what was staged.
LEMMA StartAway ==
    ASSUME OneCommand, TypeOK, NEW p \in Proc, NEW c \in Enabled, Start(p, c)
    PROVE  UNCHANGED T!timeline
  <1>1. PICK syncOnly \in Modes : pc' = [pc EXCEPT ![p] = Entry(c, syncOnly)]
    BY DEF Start
  <1>2. Entry(c, syncOnly) \notin {"idle", "headw"}
    BY EnabledAssumption DEF Entry, Commands
  <1>3. pc[p] = "idle" /\ pc'[p] \notin {"idle", "headw"} /\ mem'[p] = index
        /\ UNCHANGED <<made, head, remote, index>>
    BY <1>1, <1>2 DEF Start, TypeOK, disk
  <1>4. Staged' = Staged
    BY <1>3, StagedIs
  <1> QED BY <1>3, <1>4, LineStays DEF T!timeline

\* The other steps of a command leave the timeline alone.
LEMMA OthersAway ==
    ASSUME OneCommand, TypeOK, NEW p \in Proc,
           \/ StageSkip(p) \/ StageMissing(p) \/ StageRead(p) \/ SyncScan(p)
           \/ PutTemp(p) \/ PutLost(p) \/ BuildTree(p) \/ NothingChanged(p)
           \/ PushStart(p) \/ PushFailed(p) \/ Tag(p) \/ Gc(p)
    PROVE  UNCHANGED T!timeline
  <1>1. pc[p] \notin {"idle", "headw"} /\ pc'[p] \notin {"idle", "headw"}
    BY DEF StageSkip, StageMissing, StageRead, SyncScan, PutTemp, PutLost, BuildTree, NothingChanged,
           PushStart, PushFailed, Tag, TagTarget, SetTag, DeleteTag,
           Gc, Mark, SweepObject, SweepTemp, SweepEnd, TypeOK, proc
  <1>2. UNCHANGED <<made, head, remote, index, mem>>
    BY DEF StageSkip, StageMissing, StageRead, SyncScan, PutTemp, PutLost, BuildTree, NothingChanged,
           PushStart, PushFailed, Tag, TagTarget, SetTag, DeleteTag,
           Gc, Mark, SweepObject, SweepTemp, SweepEnd, disk, proc
  <1> QED BY <1>1, <1>2, StepAway

\* Every step is one of the timeline's or leaves it alone.
LEMMA StepRefines ==
    ASSUME OneCommand, Sound, Sound', \A p \in Proc : Hand(p), [Next]_vars
    PROVE  [T!Next]_(T!timeline)
  <1>1. ASSUME NEW p \in Proc, Step(p) PROVE [T!Next]_(T!timeline)
    <2>1. CASE PutExisting(p) \/ PutRename(p)
      <3>1. /\ pc[p] \in {"put", "rename"} /\ Stored(p) /\ UNCHANGED <<made, head, remote, index>>
        BY <2>1 DEF PutExisting, PutRename, disk
      <3> QED BY <3>1, StoredStages DEF Sound
    <2>2. CASE StageEnd(p)
      BY <2>2, StageEndStages DEF Sound
    <2>3. CASE Save(p)
      BY <2>3, SaveSaves DEF Sound, T!Next
    <2>4. CASE NewCommitData(p)
      BY <2>4, NewCommitAway
    <2>5. CASE WriteHeadBegin(p)
      BY <2>5, WriteHeadPublishes DEF T!Next
    <2>6. CASE WriteHeadEnd(p)
      BY <2>6, WriteHeadCommits DEF T!Next
    <2>7. CASE PushAccepted(p)
      BY <2>7, PushAcceptedPushes DEF T!Next
    <2>8. CASE Remote(p)
      BY <2>8, RemoteAsks DEF T!Next
    <2>9. CASE \/ StageSkip(p) \/ StageMissing(p) \/ StageRead(p) \/ SyncScan(p)
               \/ PutTemp(p) \/ PutLost(p) \/ BuildTree(p) \/ NothingChanged(p)
               \/ PushStart(p) \/ PushFailed(p) \/ Tag(p) \/ Gc(p)
      BY <2>9, OthersAway DEF Sound
    <2> QED BY <1>1, <2>1, <2>2, <2>3, <2>4, <2>5, <2>6, <2>7, <2>8, <2>9
            DEF Step, Stage, Put, CreateCommit, Push
  <1>2. ASSUME NEW p \in Proc, NEW c \in Enabled, Start(p, c) PROVE [T!Next]_(T!timeline)
    BY <1>2, StartAway DEF Sound
  <1>3. ASSUME NEW p \in Proc, Crash(p) PROVE [T!Next]_(T!timeline)
    BY <1>3, CrashKills DEF T!Next
  <1>4. CASE Edit \/ UNCHANGED vars
    <2>1. UNCHANGED <<made, head, remote, index, mem, pc, obj>>
      BY <1>4 DEF Edit, proc, vars
    <2> QED BY <2>1, NothingMoves
  <1> QED BY <1>1, <1>2, <1>3, <1>4 DEF Next

\* The line starts empty, after init and after clone.
LEMMA InitRefines == ASSUME Init PROVE T!Init
  <1>1. Running = {} /\ Staged = NoFiles /\ index = NoFiles
    BY DEF Init, Running, Staged
  <1>2. ~Publishing /\ Tip = head /\ made = <<>>
    BY DEF Init, Publishing, Tip
  <1>3. head \notin CommitObject
    BY Kinds, Disjoint DEF Init
  <1>4. LineTo(made, Tip) = <<>>
    BY <1>2, <1>3 DEF LineTo
  <1>5. History = <<>>
    BY <1>4, HistoryIs DEF Trees
  <1>6. <<>> \in Seq(Nat)
    OBVIOUS
  <1>7. Pushed = 0
    BY <1>4, <1>6, HistoryIs, PlaceIs
  <1> QED BY <1>1, <1>2, <1>5, <1>7 DEF T!Init, T!Empty, NoFiles

\* Used by one command at a time, of any kind and killed anywhere, after init and
\* after clone, the repository is the promised timeline: a single line of snapshots
\* to which a commit adds what was staged, never an empty snapshot nor the same one
\* twice in a row, which a push hands over as a whole and which only a kill during
\* the writing of HEAD ends.
THEOREM RepositoryIsTimeline == OneCommand => (Spec => ImplementsTimeline)
  <1> SUFFICES ASSUME OneCommand PROVE Spec => ImplementsTimeline
    OBVIOUS
  <1> DEFINE Hands == \A p \in Proc : Hand(p)
             Typed == TypeOK /\ InHand /\ Anchored
  <1>1. Init => Based /\ Hands
    BY Kinds, Disjoint DEF Init, Based, Hand, Pending, Committing
  <1>2. Typed /\ Based /\ [Next]_vars => Based'
    BY NextBased
  <1>3. Typed /\ Hands /\ [Next]_vars => Hands'
    <2>1. Typed => HeadStored
      BY Disjoint DEF Anchored, Named, HeadStored
    <2> QED BY <2>1, NextHand
  <1>4. Typed /\ SequenceFollowsParent /\ Based <=> Sound
    BY DEF Sound
  <1>5. Sound /\ Sound' /\ Hands /\ [Next]_vars => [T!Next]_(T!timeline)
    BY StepRefines
  <1>6. Init => T!Init
    BY InitRefines
  <1>7. Spec => []Typed
    BY AlwaysAnchored
  <1>8. Spec => []SequenceFollowsParent
    BY SequenceCorrectAlone
  <1> HIDE DEF Typed, Hands
  <1> QED BY <1>1, <1>2, <1>3, <1>4, <1>5, <1>6, <1>7, <1>8, PTL DEF Spec, ImplementsTimeline, T!Spec
=============================================================================
