---------------------------- MODULE MCRepository ----------------------------
(* Finite instances of Repository for TLC. *)
EXTENDS RepositoryTimeline, TLC

\* Every content has a fingerprint of its own.
DistinctFp == [c \in Content |-> c]

AllCommands == Commands

\* Commands that add to the store and move the references, without gc.
WriteCommands == {"add", "commit", "commitall", "atag", "fetch"}
ReadCommands == {"addall", "look"}
CommitCommands == {"addall", "commit"}
GcCommands == {"addall", "commit", "atag", "gc"}
SyncCommands == {"sync", "check", "push"}
RemoteCommands == {"addall", "commit", "push", "fetch"}

Symmetry == Permutations(Proc) \cup Permutations(Content)
=============================================================================
