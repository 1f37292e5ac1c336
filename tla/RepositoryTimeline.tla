------------------------- MODULE RepositoryTimeline -------------------------
(***************************************************************************)
(* The repository, used by one command at a time, implements Timeline.     *)
(***************************************************************************)
EXTENDS Repository

Running == {p \in Proc : pc[p] # "idle"}
Publishing == \E p \in Proc : pc[p] = "headw"

\* The snapshot being prepared is in the memory of the running command.
Staged == IF Running = {} THEN index ELSE mem[CHOOSE p \in Running : TRUE]

\* The commit at the end of the line; while HEAD is being replaced it is the
\* parent of the commit that replaces it.
Tip == IF Publishing THEN made[obj[CHOOSE p \in Proc : pc[p] = "headw"][2]].parent ELSE head

\* For each commit the numbers of the commits that lead to it, by their parents;
\* a parent that is not stored here starts the line.
Lines(m) ==
    LET line[i \in 1..Len(m)] ==
            IF m[i].parent \in CommitObject
            THEN Append(line[m[i].parent[2]], i) ELSE <<i>>
    IN  line

LineTo(m, h) == IF h \in CommitObject THEN Lines(m)[h[2]] ELSE <<>>

History == [k \in DOMAIN LineTo(made, Tip) |-> made[LineTo(made, Tip)[k]].tree]

\* The place of the remote's commit in the line, 0 if it is not in it.
Place(l, h) ==
    LET places == {k \in DOMAIN l : h \in CommitObject /\ l[k] = h[2]}
    IN  IF places = {} THEN 0 ELSE CHOOSE k \in places : TRUE

Pushed == Place(LineTo(made, Tip), remote)

T == INSTANCE Timeline WITH
        staged <- Staged, saved <- index, history <- History,
        publishing <- Publishing, pushed <- Pushed

\* One command at a time, wherever it is killed and with every interleaving of
\* editing, keeps a single line of snapshots: each commit appends what was staged
\* to the line HEAD leads along, never an empty or unchanged snapshot, and nothing
\* else touches the line, but that a kill while HEAD is being rewritten ends it.
\* A push that succeeds leaves the remote reference at the end of the line, and
\* only fetch and remote remove move it otherwise.
ImplementsTimeline == T!Spec
=============================================================================
