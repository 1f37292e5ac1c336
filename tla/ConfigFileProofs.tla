-------------------------- MODULE ConfigFileProofs --------------------------
(***************************************************************************)
(* What holds of ConfigFile for any commands, keys and values: whatever    *)
(* overlaps or is killed, a key only ever has values it was given, until   *)
(* a save writes into the lines of another one; and which values, of any   *)
(* length, a save and a load leave alone.                                  *)
(***************************************************************************)
EXTENDS ConfigFile, TLAPS, SequenceTheorems, WellFoundedInduction

\* A command that saves has all it has still to write.
SavesOK ==
    /\ pc \in [Process -> {"idle", "open", "save"}]
    /\ DOMAIN mem = Process
    /\ given \in [Key -> SUBSET Value]
    /\ DOMAIN disk \subseteq Key
    /\ \A p \in Process : DOMAIN mem[p] \subseteq Key
    /\ left \in [Process -> SUBSET Key]
    /\ \A p \in Process : pc[p] = "save" => left[p] \subseteq DOMAIN mem[p]

\* The values a key has are values it was given.
Known(k) ==
    ~mixed /\ (\A v \in given[k] : Stable(v)) =>
        /\ k \in DOMAIN disk => Parsed(disk[k]) \in given[k]
        /\ \A p \in Process : k \in DOMAIN mem[p] => mem[p][k] \in given[k]

IInv == SavesOK /\ \A k \in Key : Known(k)

-----------------------------------------------------------------------------
(* Configurations *)

\* Loading parses each line.
LEMMA LoadedKeys ==
    ASSUME NEW file
    PROVE  DOMAIN Loaded(file) = DOMAIN file /\ \A k \in DOMAIN file : Loaded(file)[k] = Parsed(file[k])
  BY DEF Loaded

\* The file of NoKeys has none.
LEMMA NoKeysEmpty == DOMAIN NoKeys = {}
  BY DEF NoKeys

-----------------------------------------------------------------------------
(* The inductive step *)

\* The start of a save: the file is empty, and the command has a configuration
\* whose values were all given.
LEMMA TruncateKeeps ==
    ASSUME IInv, NEW p \in Process, NEW cfg, Truncate(p, cfg), DOMAIN cfg \subseteq Key,
           given' \in [Key -> SUBSET Value],
           \A k \in Key : given[k] \subseteq given'[k],
           mixed' = mixed,
           \A k \in DOMAIN cfg : ~mixed /\ (\A v \in given'[k] : Stable(v)) => cfg[k] \in given'[k]
    PROVE  IInv'
  <1>1. /\ mem' = [mem EXCEPT ![p] = cfg] /\ pc' = [pc EXCEPT ![p] = "save"]
        /\ disk' = NoKeys /\ left' = [left EXCEPT ![p] = DOMAIN cfg]
    BY DEF Truncate
  <1>2. mem'[p] = cfg /\ (\A q \in Process \ {p} : mem'[q] = mem[q]) /\ DOMAIN mem' = Process
        /\ (\A q \in Process \ {p} : pc'[q] = pc[q] /\ left'[q] = left[q])
        /\ left'[p] = DOMAIN cfg /\ left' \in [Process -> SUBSET Key]
    BY <1>1 DEF IInv, SavesOK
  <1>3. SavesOK'
    BY <1>1, <1>2, NoKeysEmpty DEF IInv, SavesOK
  <1>4. ASSUME NEW k \in Key, ~mixed, \A v \in given'[k] : Stable(v),
               NEW q \in Process, k \in DOMAIN mem'[q]
        PROVE  mem'[q][k] \in given'[k]
    <2>1. CASE q = p
      BY <1>2, <1>4, <2>1
    <2>2. CASE q # p
      BY <1>2, <1>4, <2>2 DEF IInv, Known
    <2> QED BY <2>1, <2>2
  <1>5. \A k \in Key : Known(k)'
    BY <1>1, <1>4, NoKeysEmpty DEF Known
  <1> QED BY <1>3, <1>5 DEF IInv

\* A step in which a command forgets its configuration and no other command,
\* nor the file, changes.
LEMMA LeaveKeeps ==
    ASSUME IInv, NEW p \in Process, mem' = [mem EXCEPT ![p] = NoKeys] \/ mem' = mem,
           NEW s \in {"idle", "open"}, pc' = [pc EXCEPT ![p] = s],
           left' = left \/ left' = [left EXCEPT ![p] = {}], UNCHANGED <<disk, given, mixed>>
    PROVE  IInv'
  <1>1. DOMAIN mem' = Process /\ \A q \in Process : mem'[q] \in {mem[q], NoKeys}
    BY DEF IInv, SavesOK
  <1>2. \A q \in Process : pc'[q] = "save" => pc[q] = "save" /\ mem'[q] = mem[q] /\ left'[q] = left[q]
    BY DEF IInv, SavesOK
  <1>3. SavesOK'
    <2>1. pc' \in [Process -> {"idle", "open", "save"}]
      BY DEF IInv, SavesOK
    <2>2. \A q \in Process : DOMAIN mem'[q] \subseteq Key
      BY <1>1, NoKeysEmpty DEF IInv, SavesOK
    <2>3. left' \in [Process -> SUBSET Key]
      BY DEF IInv, SavesOK
    <2> QED BY <1>1, <1>2, <2>1, <2>2, <2>3 DEF IInv, SavesOK
  <1>4. \A k \in Key : Known(k)'
    BY <1>1, NoKeysEmpty DEF IInv, Known
  <1> QED BY <1>3, <1>4 DEF IInv

\* A file that init wrote has the values it was given.
LEMMA InitOK == Init => IInv
  <1> SUFFICES ASSUME Init PROVE IInv
    OBVIOUS
  <1>1. SavesOK
    BY KeyAssumption, NoKeysEmpty DEF Init, SavesOK
  <1>2. ASSUME NEW k \in Key, k \in DOMAIN disk, \A v \in given[k] : Stable(v)
        PROVE  Parsed(disk[k]) \in given[k]
    BY <1>2 DEF Init, Stable
  <1> QED BY <1>1, <1>2, NoKeysEmpty DEF Init, IInv, Known

LEMMA StepKeeps == IInv /\ [Next]_vars => IInv'
  <1> SUFFICES ASSUME IInv, [Next]_vars PROVE IInv'
    OBVIOUS
  <1>1. CASE UNCHANGED vars
    BY <1>1 DEF vars, IInv, SavesOK, Known
  <1>2. CASE Open
    <2>1. PICK p \in Process :
             /\ pc[p] = "idle" /\ pc' = [pc EXCEPT ![p] = "open"]
             /\ mem' = [mem EXCEPT ![p] = Loaded(disk)]
             /\ UNCHANGED <<disk, left, given, mixed>>
      BY <1>2 DEF Open
    <2>2. /\ DOMAIN mem' = Process /\ mem'[p] = Loaded(disk)
          /\ \A q \in Process \ {p} : mem'[q] = mem[q]
          /\ \A q \in Process : pc'[q] = "save" => pc[q] = "save" /\ q # p
      BY <2>1 DEF IInv, SavesOK
    <2>3. SavesOK'
      <3>1. pc' \in [Process -> {"idle", "open", "save"}]
        BY <2>1 DEF IInv, SavesOK
      <3>2. \A q \in Process : DOMAIN mem'[q] \subseteq Key
        BY <2>2, LoadedKeys DEF IInv, SavesOK
      <3> QED BY <2>1, <2>2, <3>1, <3>2 DEF IInv, SavesOK
    <2>4. \A k \in Key : Known(k)'
      BY <2>1, <2>2, LoadedKeys DEF IInv, Known
    <2> QED BY <2>3, <2>4 DEF IInv
  <1>3. ASSUME NEW p \in Process, NEW k \in Key, NEW v \in Value,
               Truncate(p, With(mem[p], k, v)), given' = [given EXCEPT ![k] = @ \cup {v}], mixed' = mixed
        PROVE  IInv'
    <2>1. /\ given' \in [Key -> SUBSET Value] /\ v \in given'[k]
          /\ \A j \in Key : given[j] \subseteq given'[j]
      BY <1>3 DEF IInv, SavesOK
    <2>2. DOMAIN With(mem[p], k, v) = DOMAIN mem[p] \cup {k} /\ DOMAIN mem[p] \subseteq Key
      BY DEF With, IInv, SavesOK
    <2>3. ASSUME NEW j \in DOMAIN With(mem[p], k, v), ~mixed, \A w \in given'[j] : Stable(w)
          PROVE  With(mem[p], k, v)[j] \in given'[j]
      <3>1. CASE j = k
        BY <2>1, <3>1 DEF With
      <3>2. CASE j # k
        <4>1. With(mem[p], k, v)[j] = mem[p][j] /\ j \in DOMAIN mem[p] /\ j \in Key
          BY <2>2, <3>2 DEF With
        <4> QED BY <2>1, <2>3, <4>1 DEF IInv, Known
      <3> QED BY <3>1, <3>2
    <2> QED BY <1>3, <2>1, <2>2, <2>3, TruncateKeeps
  <1>4. ASSUME NEW p \in Process, NEW ks, Truncate(p, Without(mem[p], ks)), given' = given, mixed' = mixed
        PROVE  IInv'
    <2>1. DOMAIN Without(mem[p], ks) \subseteq Key
      BY DEF Without, IInv, SavesOK
    <2>2. ASSUME NEW j \in DOMAIN Without(mem[p], ks), ~mixed, \A w \in given'[j] : Stable(w)
          PROVE  Without(mem[p], ks)[j] \in given'[j]
      <3>1. Without(mem[p], ks)[j] = mem[p][j] /\ j \in DOMAIN mem[p] /\ j \in Key
        BY <2>1 DEF Without
      <3> QED BY <1>4, <2>2, <3>1 DEF IInv, Known
    <2>3. given' \in [Key -> SUBSET Value]
      BY <1>4 DEF IInv, SavesOK
    <2> QED BY <1>4, <2>1, <2>2, <2>3, TruncateKeeps
  <1>5. CASE SetKey
    BY <1>3, <1>5 DEF SetKey
  <1>6. CASE UnsetKey
    BY <1>4, <1>6 DEF UnsetKey
  <1>7. CASE ReadKey
    BY <1>7, LeaveKeeps DEF ReadKey, history
  <1>8. CASE AddRemote
    BY <1>3, <1>8, KeyAssumption DEF AddRemote
  <1>9. CASE RemoveRemote
    BY <1>4, <1>9 DEF RemoveRemote
  <1>10. CASE Close
    <2>1. PICK p \in Process : Truncate(p, mem[p]) /\ given' = given /\ mixed' = mixed
      BY <1>10 DEF Close, history
    <2>2. DOMAIN mem[p] \subseteq Key /\ given' \in [Key -> SUBSET Value]
      BY <2>1 DEF IInv, SavesOK
    <2>3. \A k \in DOMAIN mem[p] : ~mixed /\ (\A v \in given'[k] : Stable(v)) => mem[p][k] \in given'[k]
      BY <2>1, <2>2 DEF IInv, Known
    <2> QED BY <2>1, <2>2, <2>3, TruncateKeeps
  <1>11. ASSUME NEW p \in Process, NEW k \in Key, Line(p, k), DOMAIN disk' \subseteq Key
         PROVE  SavesOK' /\ k \in DOMAIN mem[p]
    <2>1. /\ pc[p] = "save" /\ k \in left[p] /\ left' = [left EXCEPT ![p] = @ \ {k}]
          /\ UNCHANGED <<mem, pc, given>>
      BY <1>11 DEF Line
    <2>2. left' \in [Process -> SUBSET Key] /\ \A q \in Process : left'[q] \subseteq left[q]
      BY <2>1 DEF IInv, SavesOK
    <2> QED BY <1>11, <2>1, <2>2 DEF IInv, SavesOK
  <1>12. CASE WriteLine
    <2>1. PICK p \in Process, k \in Key :
             Line(p, k) /\ disk' = With(disk, k, Written(mem[p][k])) /\ mixed' = mixed
      BY <1>12 DEF WriteLine
    <2>2. UNCHANGED <<mem, given>>
      BY <2>1 DEF Line
    <2>3. DOMAIN disk' = DOMAIN disk \cup {k} /\ DOMAIN disk' \subseteq Key
      BY <2>1 DEF With, IInv, SavesOK
    <2>4. SavesOK' /\ k \in DOMAIN mem[p]
      BY <1>11, <2>1, <2>3
    <2>5. ASSUME NEW j \in Key, ~mixed, \A v \in given[j] : Stable(v), j \in DOMAIN disk'
          PROVE  Parsed(disk'[j]) \in given[j]
      <3>1. CASE j = k
        <4>1. disk'[j] = Written(mem[p][k])
          BY <2>1, <3>1 DEF With
        <4>2. mem[p][k] \in given[j]
          BY <2>4, <2>5, <3>1 DEF IInv, Known
        <4> QED BY <2>5, <4>1, <4>2 DEF Stable
      <3>2. CASE j # k
        <4>1. j \in DOMAIN disk /\ disk'[j] = disk[j]
          BY <2>1, <2>3, <2>5, <3>2 DEF With
        <4> QED BY <2>5, <4>1 DEF IInv, Known
      <3> QED BY <3>1, <3>2
    <2>6. \A j \in Key : Known(j)'
      BY <2>1, <2>2, <2>5 DEF IInv, Known
    <2> QED BY <2>4, <2>6 DEF IInv
  <1>13. CASE WriteOver
    <2>1. PICK p \in Process, k \in Key, ks \in SUBSET Key :
             Line(p, k) /\ disk' \in [ks -> Torn] /\ mixed' = TRUE
      BY <1>13 DEF WriteOver
    <2>2. SavesOK'
      BY <1>11, <2>1
    <2> QED BY <2>1, <2>2 DEF IInv, Known
  <1>14. CASE SaveEnd
    <2>1. PICK p \in Process :
             /\ pc' = [pc EXCEPT ![p] = IF closes[p] THEN "open" ELSE "idle"]
             /\ mem' = [mem EXCEPT ![p] = NoKeys] \/ mem' = mem
             /\ UNCHANGED <<disk, left, given, mixed>>
      BY <1>14 DEF SaveEnd, history
    <2> QED BY <2>1, LeaveKeeps
  <1>15. CASE Kill
    <2>1. PICK p \in Process :
             /\ pc' = [pc EXCEPT ![p] = "idle"] /\ mem' = [mem EXCEPT ![p] = NoKeys]
             /\ left' = [left EXCEPT ![p] = {}]
             /\ UNCHANGED <<disk, given, mixed>>
      BY <1>15 DEF Kill
    <2> QED BY <2>1, LeaveKeeps
  <1> QED BY <1>1, <1>2, <1>5, <1>6, <1>7, <1>8, <1>9, <1>10, <1>12, <1>13, <1>14, <1>15 DEF Next

\* Whatever commands overlap, and wherever a save is cut off (Save truncates the
\* file and writes it line by line, without a lock), no key has a value it was
\* not given, if its values survive the conversion of Save and Load and no save
\* has yet written into the lines of another one.
THEOREM OnlyGivenValues == Spec => []NothingInvented
  <1>1. IInv => NothingInvented
    BY DEF IInv, Known, NothingInvented
  <1> QED BY <1>1, InitOK, StepKeeps, PTL DEF Spec

-----------------------------------------------------------------------------
(* Commands that run alone *)

\* A configuration, or the lines of the file, with what the users asked for.
Matches(cfg) ==
    /\ DOMAIN cfg = DOMAIN wanted
    /\ \A k \in DOMAIN wanted : Stable(wanted[k]) => cfg[k] = wanted[k]

FileMatches ==
    /\ DOMAIN disk = DOMAIN wanted
    /\ \A k \in DOMAIN wanted : Stable(wanted[k]) => Parsed(disk[k]) = wanted[k]

\* A command that may leave without a save finds the file as it should be; one
\* that saves has written some of the keys and still has the others to write.
Alone ==
    alone =>
        /\ \A p, q \in Process : pc[p] # "idle" /\ pc[q] # "idle" => p = q
        /\ \A p \in Process : pc[p] # "idle" => Matches(mem[p])
        /\ (\A p \in Process : pc[p] # "idle" => pc[p] = "open" /\ ~closes[p]) => FileMatches
        /\ \A p \in Process : pc[p] = "save" =>
              /\ p \in sole /\ DOMAIN disk \cup left[p] = DOMAIN wanted
              /\ \A k \in DOMAIN disk : disk[k] = Written(mem[p][k])

\* The request of a user changes a configuration and the wanted one alike.
LEMMA RequestKeeps ==
    ASSUME IInv, Alone, NEW p \in Process, NEW cfg, Truncate(p, cfg), alone' = alone,
           pc[p] = "open", alone /\ Matches(mem[p]) => Matches(cfg)'
    PROVE  Alone'
  <1> SUFFICES ASSUME alone PROVE Alone'
    BY DEF Alone
  <1>1. /\ mem' = [mem EXCEPT ![p] = cfg] /\ pc' = [pc EXCEPT ![p] = "save"]
        /\ disk' = NoKeys /\ left' = [left EXCEPT ![p] = DOMAIN cfg] /\ sole' = {p}
    BY DEF Truncate
  <1>2. mem'[p] = cfg /\ pc'[p] = "save" /\ left'[p] = DOMAIN cfg /\ \A q \in Process \ {p} : pc'[q] = pc[q]
    BY <1>1 DEF IInv, SavesOK
  <1>3. Matches(cfg)' /\ \A q \in Process : pc'[q] # "idle" => q = p
    BY <1>2 DEF Alone
  <1>4. \A q \in Process : pc'[q] # "idle" => Matches(mem[q])'
    BY <1>2, <1>3
  <1>5. p \in sole' /\ DOMAIN disk' \cup left'[p] = DOMAIN wanted'
    BY <1>1, <1>2, <1>3, NoKeysEmpty DEF Matches
  <1> QED BY <1>1, <1>2, <1>3, <1>4, <1>5, NoKeysEmpty DEF Alone

ClosesOK == closes \in [Process -> BOOLEAN]

LEMMA ClosesKeep == ClosesOK /\ [Next]_vars => ClosesOK'
  BY DEF ClosesOK, Next, vars, history, Open, SetKey, UnsetKey, ReadKey, AddRemote, RemoveRemote,
         Close, WriteLine, WriteOver, Line, SaveEnd, Kill

\* A key that is set, or unset, in what a command has and in what is wanted.
LEMMA MatchesSet ==
    ASSUME NEW cfg, Matches(cfg), NEW k, NEW v, wanted' = Wishing(k, v)
    PROVE  Matches(With(cfg, k, v))'
  <1>1. DOMAIN wanted' = DOMAIN wanted \cup {k} /\ wanted'[k] = v
        /\ \A j \in DOMAIN wanted \ {k} : wanted'[j] = wanted[j]
    BY DEF Wishing
  <1> QED BY <1>1 DEF Matches, With

LEMMA MatchesUnset ==
    ASSUME NEW cfg, Matches(cfg), NEW ks, NEW rest, rest = DOMAIN wanted \ ks,
           wanted' = Restrict(wanted, rest)
    PROVE  Matches(Without(cfg, ks))'
  <1>1. DOMAIN wanted' = DOMAIN wanted \ ks
        /\ \A j \in DOMAIN wanted \ ks : wanted'[j] = wanted[j]
    BY DEF Restrict
  <1> QED BY <1>1 DEF Matches, Without

LEMMA AloneKeeps == IInv /\ ClosesOK /\ Alone /\ [Next]_vars => Alone'
  <1> SUFFICES ASSUME IInv, ClosesOK, Alone, [Next]_vars PROVE Alone'
    OBVIOUS
  <1>1. pc \in [Process -> {"idle", "open", "save"}] /\ DOMAIN mem = Process
        /\ \A p \in Process : DOMAIN mem[p] \subseteq Key
    BY DEF IInv, SavesOK
  <1>2. CASE UNCHANGED vars
    BY <1>2 DEF vars, Alone, Matches, FileMatches
  <1>3. CASE Open
    <2>1. PICK p \in Process :
             /\ pc[p] = "idle" /\ pc' = [pc EXCEPT ![p] = "open"]
             /\ mem' = [mem EXCEPT ![p] = Loaded(disk)]
             /\ alone' = (alone /\ \A q \in Process : pc[q] = "idle")
             /\ UNCHANGED <<disk, left, wanted>>
      BY <1>3 DEF Open
    <2> SUFFICES ASSUME alone' PROVE Alone'
      BY DEF Alone
    <2>2. alone /\ \A q \in Process : pc[q] = "idle"
      BY <2>1
    <2>3. FileMatches /\ FileMatches'
      BY <2>1, <2>2 DEF Alone, FileMatches
    <2>4. Matches(mem[p])'
      BY <1>1, <2>1, <2>3, LoadedKeys DEF FileMatches, Matches
    <2>5. \A q \in Process : pc'[q] # "idle" => q = p /\ pc'[q] = "open"
      BY <1>1, <2>1, <2>2
    <2> QED BY <2>3, <2>4, <2>5 DEF Alone
  <1>4. CASE SetKey
    <2>1. PICK p \in Process, k \in Key, v \in Value :
             /\ pc[p] = "open" /\ Truncate(p, With(mem[p], k, v))
             /\ wanted' = Wishing(k, v) /\ alone' = alone
      BY <1>4 DEF SetKey
    <2> QED BY <2>1, MatchesSet, RequestKeeps
  <1>5. CASE UnsetKey
    <2>1. PICK p \in Process, k \in Key :
             /\ pc[p] = "open" /\ Truncate(p, Without(mem[p], {k}))
             /\ wanted' = Restrict(wanted, DOMAIN wanted \ {k}) /\ alone' = alone
      BY <1>5 DEF UnsetKey
    <2> QED BY <2>1, MatchesUnset, RequestKeeps
  <1>6. CASE AddRemote
    <2>1. PICK p \in Process, v \in Value :
             /\ pc[p] = "open" /\ Truncate(p, With(mem[p], RemoteKey, v))
             /\ wanted' = Wishing(RemoteKey, v) /\ alone' = alone
      BY <1>6 DEF AddRemote
    <2> QED BY <2>1, MatchesSet, RequestKeeps
  <1>7. CASE RemoveRemote
    <2> DEFINE rest == {k \in DOMAIN wanted : SectionOf[k] # SectionOf[RemoteKey]}
    <2>1. PICK p \in Process :
             /\ pc[p] = "open" /\ Truncate(p, Without(mem[p], RemoteSection))
             /\ wanted' = Restrict(wanted, rest) /\ alone' = alone
      BY <1>7 DEF RemoveRemote
    <2>2. Matches(mem[p]) => rest = DOMAIN wanted \ RemoteSection
      BY <1>1 DEF Matches, RemoteSection
    <2> QED BY <2>1, <2>2, MatchesUnset, RequestKeeps
  <1>8. CASE ReadKey
    <2>1. PICK p \in Process :
             /\ pc[p] = "open" /\ ~closes[p]
             /\ pc' = [pc EXCEPT ![p] = "idle"] /\ mem' = [mem EXCEPT ![p] = NoKeys]
             /\ UNCHANGED <<disk, closes, left, wanted, alone>>
      BY <1>8 DEF ReadKey, history
    <2> SUFFICES ASSUME alone PROVE Alone'
      BY <2>1 DEF Alone
    <2>2. FileMatches /\ \A q \in Process : pc'[q] = "idle"
      BY <1>1, <2>1 DEF Alone
    <2>3. FileMatches'
      BY <2>1, <2>2 DEF FileMatches
    <2> QED BY <2>2, <2>3 DEF Alone
  <1>9. CASE Close
    <2>1. PICK p \in Process : /\ pc[p] = "open" /\ Truncate(p, mem[p])
                               /\ alone' = alone /\ wanted' = wanted
      BY <1>9 DEF Close, history
    <2>2. Matches(mem[p]) => /\ DOMAIN mem[p] = DOMAIN wanted'
                             /\ \A k \in DOMAIN wanted' : Stable(wanted'[k]) => mem[p][k] = wanted'[k]
      BY <2>1 DEF Matches
    <2> QED BY <2>1, <2>2, RequestKeeps DEF Matches
  <1>10. CASE WriteLine
    <2>1. PICK p \in Process, k \in Key :
             Line(p, k) /\ disk' = With(disk, k, Written(mem[p][k])) /\ sole' = sole
      BY <1>10 DEF WriteLine
    <2>2. /\ pc[p] = "save" /\ k \in left[p] /\ left'[p] = left[p] \ {k}
          /\ UNCHANGED <<mem, pc, closes, wanted, alone>>
      BY <2>1 DEF Line, IInv, SavesOK
    <2> SUFFICES ASSUME alone PROVE Alone'
      BY <2>2 DEF Alone
    <2>3. /\ DOMAIN disk' = DOMAIN disk \cup {k}
          /\ \A j \in DOMAIN disk' : disk'[j] = IF j = k THEN Written(mem[p][k]) ELSE disk[j]
      BY <2>1 DEF With
    <2>4. \A q \in Process : pc[q] # "idle" => q = p
      BY <2>2 DEF Alone
    <2>5. /\ p \in sole /\ DOMAIN disk' \cup left'[p] = DOMAIN wanted
          /\ \A j \in DOMAIN disk' : disk'[j] = Written(mem[p][j])
      BY <2>2, <2>3 DEF Alone
    <2>6. \A q \in Process : pc[q] # "idle" => Matches(mem[q])'
      BY <2>2 DEF Alone, Matches
    <2> QED BY <2>1, <2>2, <2>4, <2>5, <2>6 DEF Alone
  <1>11. CASE WriteOver
    <2>1. PICK p \in Process : pc[p] = "save" /\ p \notin sole /\ alone' = alone
      BY <1>11 DEF WriteOver, Line
    <2> QED BY <2>1 DEF Alone
  <1>12. CASE SaveEnd
    <2>1. PICK p \in Process :
             /\ pc[p] = "save" /\ left[p] = {}
             /\ pc' = [pc EXCEPT ![p] = IF closes[p] THEN "open" ELSE "idle"]
             /\ mem' = IF closes[p] THEN mem ELSE [mem EXCEPT ![p] = NoKeys]
             /\ UNCHANGED <<disk, closes, left, wanted, alone>>
      BY <1>12 DEF SaveEnd, history
    <2> SUFFICES ASSUME alone PROVE Alone'
      BY <2>1 DEF Alone
    <2>2. /\ DOMAIN disk = DOMAIN wanted
          /\ \A k \in DOMAIN disk : disk[k] = Written(mem[p][k])
          /\ Matches(mem[p]) /\ \A q \in Process : pc[q] # "idle" => q = p
      BY <2>1 DEF Alone
    <2>3. FileMatches'
      BY <2>1, <2>2 DEF FileMatches, Matches, Stable
    <2>4. \A q \in Process : pc'[q] # "idle" => q = p /\ pc'[q] = "open" /\ mem'[q] = mem[q]
      BY <1>1, <2>1, <2>2
    <2>5. Matches(mem[p]) => \A q \in Process : pc'[q] # "idle" => Matches(mem[q])'
      BY <2>1, <2>4 DEF Matches
    <2> QED BY <2>2, <2>3, <2>4, <2>5 DEF Alone
  <1>13. CASE Kill
    BY <1>13 DEF Kill, Alone
  <1> QED BY <1>2, <1>3, <1>4, <1>5, <1>6, <1>7, <1>8, <1>9, <1>10, <1>11, <1>12, <1>13 DEF Next

\* As long as commands do not overlap and none is killed, the file keeps what the
\* users asked for (config.go, repo.Close), whichever commands load and save it.
THEOREM AloneKept == Spec => []KeptAlone
  <1>1. Init => ClosesOK
    BY DEF Init, ClosesOK
  <1>2. ASSUME Init PROVE Alone
    <2>1. DOMAIN disk = DOMAIN wanted /\ wanted = InitValue
          /\ \A k \in DOMAIN wanted : disk[k] = Written(wanted[k])
      BY <1>2 DEF Init
    <2>2. FileMatches
      BY <2>1 DEF FileMatches, Stable
    <2>3. \A p \in Process : pc[p] = "idle"
      BY <1>2 DEF Init
    <2> QED BY <2>2, <2>3 DEF Alone
  <1>3. Alone => KeptAlone
    BY DEF Alone, KeptAlone, FileMatches
  <1> QED BY <1>1, <1>2, <1>3, InitOK, StepKeeps, ClosesKeep, AloneKeeps, PTL DEF Spec

-----------------------------------------------------------------------------
(* The text of a value *)

\* A non-empty set of natural numbers has a least one.
LEMMA LeastOf == ASSUME NEW s \in SUBSET Nat, s # {} PROVE \E m \in s : \A k \in s : m <= k
  <1>1. IsWellFoundedOn(OpToRel(<, Nat), Nat)
    BY NatLessThanWellFounded
  <1>2. PICK m \in s : \A k \in s : <<k, m>> \notin OpToRel(<, Nat)
    BY <1>1, WFMin, Zenon
  <1>3. \A k \in s : ~(k < m)
    BY <1>2, Zenon DEF OpToRel
  <1> QED BY <1>3

\* A set that has 0, and with each number below n the next, has all of 0..n.
LEMMA Induction ==
    ASSUME NEW n \in Nat, NEW good, 0 \in good,
           \A k \in 0..n - 1 : k \in good => k + 1 \in good
    PROVE  \A k \in 0..n : k \in good
  <1> DEFINE bad == {k \in 0..n : k \notin good}
  <1> SUFFICES ASSUME bad # {} PROVE FALSE
    OBVIOUS
  <1>1. PICK k \in bad : \A j \in bad : k <= j
    <2>1. bad \in SUBSET Nat
      OBVIOUS
    <2> HIDE DEF bad
    <2> QED BY <2>1, LeastOf
  <1>2. k \in 0..n /\ k # 0 /\ k \notin good
    OBVIOUS
  <1>3. k - 1 \in 0..n - 1 /\ k - 1 \in 0..n /\ ~(k <= k - 1) /\ k - 1 + 1 = k
    BY <1>2
  <1>4. k - 1 \in good
    BY <1>1, <1>3
  <1>5. k - 1 + 1 \in good
    BY <1>3, <1>4
  <1> QED BY <1>2, <1>3, <1>5

\* Max and Min are in the set, at its ends.
LEMMA Ends ==
    ASSUME NEW n \in Nat, NEW s \in SUBSET (1..n), s # {}
    PROVE  /\ Max(s) \in s /\ \A k \in s : k <= Max(s)
           /\ Min(s) \in s /\ \A k \in s : Min(s) <= k
  <1>1. \E m \in s : \A k \in s : m <= k
    BY LeastOf
  <1>2. Min(s) \in s /\ \A k \in s : Min(s) <= k
    BY <1>1 DEF Min
  <1> DEFINE above == {m \in Nat : \A k \in s : k <= m}
  <1>3. n \in above
    OBVIOUS
  <1>4. PICK m \in above : \A k \in above : m <= k
    <2>1. above \in SUBSET Nat /\ above # {}
      BY <1>3
    <2> HIDE DEF above
    <2> QED BY <2>1, LeastOf
  <1>5. m \in s
    <2> SUFFICES ASSUME m \notin s PROVE FALSE
      OBVIOUS
    <2>1. m \in Nat /\ \A k \in s : k <= m /\ k # m /\ k \in 1..n
      BY <1>4
    <2>2. m - 1 \in Nat
      <3>1. PICK k : k \in s
        OBVIOUS
      <3>2. k <= m /\ k # m /\ k \in 1..n
        BY <2>1, <3>1
      <3> QED BY <2>1, <3>2
    <2>3. m - 1 \in above
      BY <2>1, <2>2
    <2> QED BY <1>4, <2>1, <2>3
  <1>6. \A k \in s : m >= k
    BY <1>4, <1>5
  <1>7. Max(s) \in s /\ \A k \in s : Max(s) >= k
    BY <1>5, <1>6 DEF Max
  <1> QED BY <1>2, <1>7

\* A value with its characters escaped.
Escaped(v) == FoldLeft(LAMBDA t, c : t \o Escape(c), <<>>, v)

\* The table of the fold that escapes: a text for every set of positions.
IsTable(v, f) ==
    f = [s \in SUBSET DOMAIN v |-> IF s = {} THEN <<>> ELSE f[s \ {Max(s)}] \o Escape(v[Max(s)])]
Table(v) == CHOOSE f : IsTable(v, f)

\* The escaped value is the table's last entry.
LEMMA FoldIs == \A v : Escaped(v) = Table(v)[DOMAIN v]
  BY DEF Escaped, Table, IsTable, FoldLeft, MapThenFoldSet

\* What a value is written as.
LEMMA WrittenIs ==
    \A v : Written(v) = IF NeedsQuotes(v) THEN <<Quote>> \o Escaped(v) \o <<Quote>> ELSE v
  BY DEF Written, Escaped

\* The table exists.
LEMMA TableExists == ASSUME NEW v, Len(v) \in Nat, DOMAIN v = 1..Len(v) PROVE IsTable(v, Table(v))
  <1> DEFINE n == Len(v)
             Entry(f, s) == IF s = {} THEN <<>> ELSE f[s \ {Max(s)}] \o Escape(v[Max(s)])
             Upto(k) == \E f : \A s \in SUBSET (1..k) : f[s] = Entry(f, s)
  <1>1. Upto(0)
    <2> DEFINE f == [s \in {{}} |-> <<>>]
    <2>1. \A s \in SUBSET (1..0) : s = {}
      OBVIOUS
    <2>2. f[{}] = <<>>
      OBVIOUS
    <2> HIDE DEF f
    <2>3. \A s \in SUBSET (1..0) : f[s] = Entry(f, s)
      BY <2>1, <2>2
    <2> QED BY <2>3
  <1>2. ASSUME NEW k \in Nat, Upto(k) PROVE Upto(k + 1)
    <2>1. PICK f : \A s \in SUBSET (1..k) : f[s] = Entry(f, s)
      BY <1>2
    <2> DEFINE g == [s \in SUBSET (1..k + 1) |-> IF k + 1 \in s THEN Entry(f, s) ELSE f[s]]
    <2>2. ASSUME NEW s \in SUBSET (1..k + 1) PROVE g[s] = Entry(g, s)
      <3>1. CASE s = {}
        <4>1. k + 1 \notin s /\ s \in SUBSET (1..k)
          BY <3>1
        <4>2. g[s] = f[s] /\ f[s] = Entry(f, s)
          BY <2>1, <4>1
        <4> QED BY <3>1, <4>2
      <3>2. CASE s # {}
        <4> DEFINE r == s \ {Max(s)}
        <4>1. Max(s) \in s /\ \A j \in s : j <= Max(s)
          <5>1. k + 1 \in Nat
            OBVIOUS
          <5> QED BY <3>2, <5>1, Ends
        <4>2. r \in SUBSET (1..k) /\ r \in SUBSET (1..k + 1) /\ k + 1 \notin r
          <5>1. Max(s) \in 1..k + 1
            BY <4>1
          <5>2. ASSUME NEW j \in r PROVE j \in 1..k
            <6>1. j \in 1..k + 1 /\ j # Max(s) /\ j <= Max(s)
              BY <4>1
            <6> QED BY <5>1, <6>1
          <5> HIDE DEF r
          <5>3. r \in SUBSET (1..k)
            BY <5>2
          <5> QED BY <5>3
        <4>3. g[r] = f[r]
          BY <4>2
        <4>4. g[s] = Entry(f, s)
          <5>1. CASE k + 1 \in s
            BY <5>1
          <5>2. CASE k + 1 \notin s
            <6>1. s \in SUBSET (1..k)
              BY <5>2
            <6> QED BY <2>1, <5>2, <6>1
          <5> QED BY <5>1, <5>2
        <4> HIDE DEF g
        <4> QED BY <3>2, <4>3, <4>4
      <3> QED BY <3>1, <3>2
    <2> HIDE DEF g, Entry
    <2> QED BY <2>2
  <1> HIDE DEF Upto
  <1>3. Upto(n)
    <2> DEFINE good == {k \in Nat : Upto(k)}
    <2>1. 0 \in good /\ \A k \in 0..n - 1 : k \in good => k + 1 \in good
      BY <1>1, <1>2
    <2>2. n \in Nat /\ n \in 0..n
      OBVIOUS
    <2> HIDE DEF good, n
    <2>3. n \in good
      BY <2>1, <2>2, Induction
    <2> QED BY <2>3 DEF good
  <1>4. PICK f : \A s \in SUBSET (1..n) : f[s] = Entry(f, s)
    BY <1>3 DEF Upto
  <1> DEFINE g == [s \in SUBSET (1..n) |-> f[s]]
  <1>5. ASSUME NEW s \in SUBSET (1..n) PROVE g[s] = Entry(g, s)
    <2>1. CASE s = {}
      BY <1>4, <2>1
    <2>2. CASE s # {}
      <3> DEFINE r == s \ {Max(s)}
      <3>1. r \in SUBSET (1..n)
        OBVIOUS
      <3>2. g[r] = f[r] /\ g[s] = f[s]
        BY <3>1
      <3> HIDE DEF g
      <3> QED BY <1>4, <2>2, <3>2
    <2> QED BY <2>1, <2>2
  <1>6. IsTable(v, g)
    BY <1>5 DEF IsTable
  <1> QED BY <1>6 DEF Table

\* The characters, and those that quotes and escapes add.
Char == STRING \cup {Quote, Backslash}

\* A sequence whose elements are all of another set is a sequence of that set.
LEMMA OtherSet ==
    ASSUME NEW S, NEW T, NEW s \in Seq(S), S \subseteq T
    PROVE  s \in Seq(T)
  OBVIOUS

\* What escaping does to a character: it stays, or a text of two characters or
\* more stands for it; and a line feed is always escaped.
LEMMA EscapeIs ==
    ASSUME NEW c \in Char
    PROVE  /\ Escape(c) \in Seq(Char) /\ Len(Escape(c)) \in Nat
           /\ c \in DOMAIN EscapeOf => Len(Escape(c)) >= 2
           /\ c \notin DOMAIN EscapeOf => Len(Escape(c)) = 1 /\ Escape(c)[1] = c
           /\ \A i \in 1..Len(Escape(c)) : Escape(c)[i] # Newline
  <1>1. Newline \in Spaces /\ Newline \in DOMAIN EscapeOf
    <2>1. "\n" # " "
      OBVIOUS
    <2> QED BY <2>1, CharAssumption DEF Newline
  <1>2. CASE c \in DOMAIN EscapeOf
    <2>1. Escape(c) = EscapeOf[c]
      BY <1>2 DEF Escape
    <2>2. /\ EscapeOf[c] \in Seq(STRING) /\ Len(EscapeOf[c]) >= 2
          /\ \A i \in 1..Len(EscapeOf[c]) : EscapeOf[c][i] \notin Spaces
      BY <1>2, CharAssumption
    <2>3. EscapeOf[c] \in Seq(Char)
      <3>1. STRING \subseteq Char
        BY DEF Char
      <3> QED BY <2>2, <3>1, OtherSet
    <2> QED BY <1>1, <1>2, <2>1, <2>2, <2>3
  <1>3. CASE c \notin DOMAIN EscapeOf
    BY <1>1, <1>3 DEF Escape
  <1> QED BY <1>2, <1>3

\* Escaping keeps a value unless something in it is escaped, and then it grows;
\* it leaves no line feed.
LEMMA EscapedIs ==
    ASSUME NEW v \in Seq(Char)
    PROVE  /\ Escaped(v) \in Seq(Char)
           /\ (\A i \in 1..Len(v) : v[i] \notin DOMAIN EscapeOf) => Escaped(v) = v
           /\ (\E i \in 1..Len(v) : v[i] \in DOMAIN EscapeOf) => Len(Escaped(v)) > Len(v)
           /\ \A i \in 1..Len(Escaped(v)) : Escaped(v)[i] # Newline
  <1> DEFINE n == Len(v)
             f == Table(v)
             e == [k \in 0..n |-> f[1..k]]
             Fit(k) ==
                /\ e[k] \in Seq(Char)
                /\ Len(e[k]) >= k
                /\ (\A i \in 1..k : v[i] \notin DOMAIN EscapeOf) =>
                      Len(e[k]) = k /\ \A i \in 1..k : e[k][i] = v[i]
                /\ (\E i \in 1..k : v[i] \in DOMAIN EscapeOf) => Len(e[k]) > k
                /\ \A i \in 1..Len(e[k]) : e[k][i] # Newline
             good == {k \in 0..n : Fit(k)}
  <1>1. n \in Nat /\ DOMAIN v = 1..n /\ \A i \in 1..n : v[i] \in Char
    OBVIOUS
  <1>2. ASSUME NEW s \in SUBSET (1..n)
        PROVE  f[s] = IF s = {} THEN <<>> ELSE f[s \ {Max(s)}] \o Escape(v[Max(s)])
    <2>1. IsTable(v, f)
      BY <1>1, TableExists
    <2> HIDE DEF f
    <2>2. f = [t \in SUBSET DOMAIN v |-> IF t = {} THEN <<>> ELSE f[t \ {Max(t)}] \o Escape(v[Max(t)])]
      BY <2>1 DEF IsTable
    <2>3. s \in SUBSET DOMAIN v
      BY <1>1
    <2> QED BY <2>2, <2>3, Zenon
  <1> HIDE DEF f
  <1>3. e[0] = <<>>
    <2>1. 1..0 = {} /\ 0 \in 0..n
      BY <1>1
    <2> QED BY <1>2, <2>1
  <1>4. ASSUME NEW k \in 1..n PROVE e[k] = e[k - 1] \o Escape(v[k])
    <2>1. 1..k \in SUBSET (1..n) /\ 1..k # {} /\ k \in 1..k /\ k \in Nat /\ k \in 0..n /\ k - 1 \in 0..n
      BY <1>1
    <2>2. Max(1..k) = k
      <3>1. Max(1..k) \in 1..k /\ \A j \in 1..k : j <= Max(1..k)
        BY <2>1, Ends
      <3> QED BY <2>1, <3>1
    <2>3. (1..k) \ {k} = 1..k - 1
      BY <2>1
    <2>4. f[1..k] = f[(1..k) \ {Max(1..k)}] \o Escape(v[Max(1..k)])
      BY <1>2, <2>1
    <2>5. e[k] = f[1..k] /\ e[k - 1] = f[1..k - 1]
      BY <2>1
    <2> QED BY <2>2, <2>3, <2>4, <2>5
  <1> HIDE DEF e
  <1>6. ASSUME NEW k \in 1..n, Fit(k - 1) PROVE Fit(k)
    <2>4. k \in 1..n /\ k - 1 \in 0..n /\ k \in Nat /\ k - 1 \in Nat
      BY <1>1
    <2> DEFINE s == e[k - 1]
               t == Escape(v[k])
    <2>6. e[k] = s \o t
      BY <1>4
    <2>7. v[k] \in Char
      BY <1>1
    <2>8. s \in Seq(Char) /\ t \in Seq(Char) /\ Len(s) >= k - 1 /\ Len(s) \in Nat /\ Len(t) \in Nat
      <3>1. s \in Seq(Char) /\ Len(s) >= k - 1
        BY <1>6
      <3>2. t \in Seq(Char)
        BY <2>7, EscapeIs
      <3> QED BY <3>1, <3>2
    <2>9. /\ v[k] \in DOMAIN EscapeOf => Len(t) >= 2
          /\ v[k] \notin DOMAIN EscapeOf => Len(t) = 1 /\ t[1] = v[k]
      BY <2>7, EscapeIs
    <2>10. /\ (\A i \in 1..k - 1 : v[i] \notin DOMAIN EscapeOf) =>
                 Len(s) = k - 1 /\ \A i \in 1..k - 1 : s[i] = v[i]
           /\ (\E i \in 1..k - 1 : v[i] \in DOMAIN EscapeOf) => Len(s) > k - 1
      BY <1>6
    <2> HIDE DEF s, t
    <2>11. /\ e[k] \in Seq(Char) /\ Len(e[k]) = Len(s) + Len(t)
           /\ \A i \in 1..Len(s) + Len(t) : e[k][i] = IF i <= Len(s) THEN s[i] ELSE t[i - Len(s)]
      BY <2>6, <2>8, ConcatProperties
    <2>12. Len(e[k]) >= k
      <3>1. Len(t) = 1 \/ Len(t) >= 2
        BY <2>9, Zenon
      <3>2. Len(e[k]) = Len(s) + Len(t)
        BY <2>11
      <3> HIDE DEF Fit
      <3>3. CASE Len(t) = 1
        BY <2>4, <2>8, <3>2, <3>3
      <3>4. CASE Len(t) >= 2
        BY <2>4, <2>8, <3>2, <3>4
      <3> QED BY <3>1, <3>3, <3>4
    <2>13. ASSUME \A i \in 1..k : v[i] \notin DOMAIN EscapeOf
           PROVE  Len(e[k]) = k /\ \A i \in 1..k : e[k][i] = v[i]
      <3>1. /\ v[k] \notin DOMAIN EscapeOf
            /\ \A i \in 1..k - 1 : v[i] \notin DOMAIN EscapeOf
        BY <2>4, <2>13
      <3>2. /\ Len(s) = k - 1 /\ \A i \in 1..k - 1 : s[i] = v[i]
            /\ Len(t) = 1 /\ t[1] = v[k]
        BY <2>9, <2>10, <3>1
      <3>3. Len(e[k]) = k
        BY <2>4, <2>11, <3>2
      <3>4. ASSUME NEW i \in 1..k PROVE e[k][i] = v[i]
        <4>1. CASE i = k
          <5>1. i - Len(s) = 1 /\ ~(i <= Len(s)) /\ i \in 1..Len(s) + Len(t)
            BY <2>4, <3>2, <4>1
          <5> QED BY <2>11, <3>2, <4>1, <5>1
        <4>2. CASE i # k
          <5>1. i \in 1..k - 1 /\ i <= Len(s) /\ i \in 1..Len(s) + Len(t)
            BY <2>4, <3>2, <4>2
          <5> QED BY <2>11, <3>2, <5>1
        <4> QED BY <4>1, <4>2
      <3> QED BY <3>3, <3>4
    <2>14. ASSUME \E i \in 1..k : v[i] \in DOMAIN EscapeOf PROVE Len(e[k]) > k
      <3>1. CASE v[k] \in DOMAIN EscapeOf
        <4>1. Len(t) >= 2 /\ Len(e[k]) = Len(s) + Len(t)
          BY <2>9, <2>11, <3>1
        <4> QED BY <2>4, <2>8, <4>1
      <3>2. CASE v[k] \notin DOMAIN EscapeOf
        <4>1. \E i \in 1..k - 1 : v[i] \in DOMAIN EscapeOf
          BY <2>4, <2>14, <3>2
        <4>2. Len(s) > k - 1 /\ Len(t) = 1
          BY <2>9, <2>10, <3>2, <4>1
        <4> QED BY <2>4, <2>8, <2>11, <4>2
      <3> QED BY <3>1, <3>2
    <2>15. ASSUME NEW i \in 1..Len(e[k]) PROVE e[k][i] # Newline
      <3>1. /\ \A j \in 1..Len(s) : s[j] # Newline
            /\ \A j \in 1..Len(t) : t[j] # Newline
        BY <1>6, <2>7, EscapeIs DEF s, t
      <3>2. i \in 1..Len(s) + Len(t)
        BY <2>11
      <3>3. CASE i <= Len(s)
        <4>1. i \in 1..Len(s) /\ e[k][i] = s[i]
          BY <2>8, <2>11, <3>2, <3>3
        <4> QED BY <3>1, <4>1
      <3>4. CASE ~(i <= Len(s))
        <4>1. i - Len(s) \in 1..Len(t) /\ e[k][i] = t[i - Len(s)]
          BY <2>8, <2>11, <3>2, <3>4
        <4> QED BY <3>1, <4>1
      <3> QED BY <3>3, <3>4
    <2> QED BY <2>11, <2>12, <2>13, <2>14, <2>15
  <1>7. Fit(n) /\ Escaped(v) = e[n]
    <2>1. Escaped(v) = e[n]
      BY <1>1, FoldIs DEF f, e
    <2>2. 0 \in good
      <3>1. e[0] \in Seq(Char) /\ Len(e[0]) = 0
        BY <1>3
      <3>2. (\A i \in 1..0 : FALSE) /\ 0 \in 0..n
        BY <1>1
      <3>3. Fit(0)
        BY <3>1, <3>2
      <3> QED BY <3>2, <3>3
    <2>3. \A k \in 0..n - 1 : k \in good => k + 1 \in good
      <3> TAKE k \in 0..n - 1
      <3> HAVE k \in good
      <3>1. k + 1 \in 1..n /\ k + 1 - 1 = k /\ k + 1 \in 0..n
        BY <1>1
      <3> DEFINE h == k + 1
      <3>2. h \in 1..n /\ h - 1 = k
        BY <3>1
      <3> HIDE DEF h
      <3>3. Fit(h - 1)
        BY <3>2
      <3>4. Fit(h)
        BY <1>6, <3>2, <3>3
      <3> QED BY <3>1, <3>4 DEF h
    <2>4. n \in good
      <3>1. n \in Nat /\ n \in 0..n
        BY <1>1
      <3> HIDE DEF good, n
      <3> QED BY <2>2, <2>3, <3>1, Induction
    <2> QED BY <2>1, <2>4
  <1> HIDE DEF n
  <1>8. ASSUME \A i \in 1..n : v[i] \notin DOMAIN EscapeOf PROVE Escaped(v) = v
    BY <1>7, <1>8, SeqEqual DEF n
  <1> QED BY <1>7, <1>8 DEF n

\* The first line of a text is the text, or shorter.
LEMMA FirstLineIs ==
    ASSUME NEW t \in Seq(Char)
    PROVE  /\ FirstLine(t) \in Seq(Char)
           /\ (\A i \in 1..Len(t) : t[i] # Newline) => FirstLine(t) = t
           /\ (\E i \in 1..Len(t) : t[i] = Newline) => Len(FirstLine(t)) < Len(t)
  <1> DEFINE n == Len(t)
             ends == {i \in 1..n : t[i] = Newline}
  <1>1. n \in Nat /\ ends \in SUBSET (1..n)
    OBVIOUS
  <1>2. FirstLine(t) = IF ends = {} THEN t ELSE SubSeq(t, 1, Min(ends) - 1)
    BY DEF FirstLine
  <1>3. ends = {} <=> \A i \in 1..n : t[i] # Newline
    OBVIOUS
  <1> HIDE DEF ends
  <1>4. CASE ends = {}
    BY <1>2, <1>3, <1>4
  <1>5. CASE ends # {}
    <2>1. Min(ends) \in 1..n
      <3> HIDE DEF n
      <3> QED BY <1>1, <1>5, Ends
    <2> DEFINE m == Min(ends) - 1
    <2>2. m \in 0..n - 1
      BY <1>1, <2>1
    <2> HIDE DEF m
    <2>3. SubSeq(t, 1, m) \in Seq(Char) /\ Len(SubSeq(t, 1, m)) = m
      BY <1>1, <2>2
    <2>4. FirstLine(t) = SubSeq(t, 1, m)
      BY <1>2, <1>5 DEF m
    <2>5. ~ \A i \in 1..n : t[i] # Newline
      BY <1>3, <1>5
    <2> QED BY <1>1, <2>2, <2>3, <2>4, <2>5
  <1> QED BY <1>4, <1>5

\* Trimming never adds, and takes something from a text with a space at an end.
LEMMA TrimShortens ==
    ASSUME NEW t \in Seq(Char)
    PROVE  /\ Trim(t) \in Seq(Char) /\ Len(Trim(t)) <= Len(t)
           /\ Len(t) >= 1 /\ (t[1] \in Spaces \/ t[Len(t)] \in Spaces) => Len(Trim(t)) < Len(t)
  <1> DEFINE n == Len(t)
             solid == {i \in 1..n : t[i] \notin Spaces}
  <1>1. n \in Nat /\ solid \in SUBSET (1..n)
    OBVIOUS
  <1>2. Trim(t) = IF solid = {} THEN <<>> ELSE SubSeq(t, Min(solid), Max(solid))
    BY DEF Trim
  <1>3. (t[1] \in Spaces => 1 \notin solid) /\ (t[n] \in Spaces => n \notin solid)
    OBVIOUS
  <1> HIDE DEF solid
  <1>4. CASE solid = {}
    BY <1>1, <1>2, <1>4
  <1>5. CASE solid # {}
    <2> DEFINE a == Min(solid)
               b == Max(solid)
    <2>1. a \in solid /\ b \in solid /\ a <= b
      <3> HIDE DEF n
      <3> QED BY <1>1, <1>5, Ends
    <2> HIDE DEF a, b
    <2>2. a \in 1..n /\ b \in 1..n
      BY <1>1, <2>1
    <2>3. SubSeq(t, a, b) \in Seq(Char) /\ Len(SubSeq(t, a, b)) = b - a + 1
      BY <1>1, <2>1, <2>2
    <2>4. Trim(t) = SubSeq(t, a, b)
      BY <1>2, <1>5 DEF a, b
    <2>5. (t[1] \in Spaces => a # 1) /\ (t[n] \in Spaces => b # n)
      BY <1>3, <2>1
    <2> QED BY <1>1, <2>2, <2>3, <2>4, <2>5
  <1> QED BY <1>4, <1>5

\* Loading takes nothing from a text without spaces at its ends.
LEMMA TrimNone ==
    ASSUME NEW t \in Seq(Char), Len(t) >= 1, t[1] \notin Spaces, t[Len(t)] \notin Spaces
    PROVE  Trim(t) = t
  <1> DEFINE n == Len(t)
             solid == {i \in 1..n : t[i] \notin Spaces}
  <1>1. n \in Nat /\ n >= 1 /\ 1 \in solid /\ n \in solid /\ solid \in SUBSET (1..n)
    OBVIOUS
  <1>2. Trim(t) = IF solid = {} THEN <<>> ELSE SubSeq(t, Min(solid), Max(solid))
    BY DEF Trim
  <1> HIDE DEF solid
  <1>3. /\ Max(solid) \in solid /\ \A k \in solid : k <= Max(solid)
        /\ Min(solid) \in solid /\ \A k \in solid : Min(solid) <= k
    <2> HIDE DEF n
    <2>1. solid # {}
      BY <1>1
    <2> QED BY <1>1, <2>1, Ends
  <1>4. Max(solid) = n /\ Min(solid) = 1
    <2>1. Max(solid) \in 1..n /\ Min(solid) \in 1..n /\ n <= Max(solid) /\ Min(solid) <= 1
      BY <1>1, <1>3
    <2> QED BY <1>1, <2>1
  <1>5. Trim(t) = SubSeq(t, 1, n)
    BY <1>1, <1>2, <1>4
  <1>6. SubSeq(t, 1, n) = t
    BY <1>1
  <1> QED BY <1>5, <1>6

\* A value comes back from the file exactly when it is one of the survivors.
LEMMA StableIs == ASSUME NEW v \in Seq(Char) PROVE Stable(v) <=> Survives(v)
  <1> DEFINE n == Len(v)
             w == Escaped(v)
             text == <<Quote>> \o w \o <<Quote>>
             quoted == n >= 2 /\ v[1] = v[n] /\ v[1] \in {Quote, Apostrophe}
  <1>1. n \in Nat /\ DOMAIN v = 1..n
    OBVIOUS
  <1>2. NeedsQuotes(v) <=> \E i \in 1..n : v[i] \in {Blank, "#", ";", "="}
    BY <1>1 DEF NeedsQuotes, Range, Markers
  <1>3. CASE NeedsQuotes(v)
    <2>1. Written(v) = text
      BY <1>3, WrittenIs
    <2>2. /\ w \in Seq(Char)
          /\ (\A i \in 1..n : v[i] \notin DOMAIN EscapeOf) => w = v
          /\ (\E i \in 1..n : v[i] \in DOMAIN EscapeOf) => Len(w) > n
          /\ \A i \in 1..Len(w) : w[i] # Newline
      BY EscapedIs
    <2>3. w = v <=> \A i \in 1..n : v[i] \notin DOMAIN EscapeOf
      BY <1>1, <2>2
    <2> HIDE DEF w
    <2> DEFINE m == Len(w)
    <2>4. /\ text \in Seq(Char) /\ Len(text) = m + 2 /\ m \in Nat
          /\ text[1] = Quote /\ text[m + 2] = Quote
          /\ \A i \in 1..m : text[i + 1] = w[i]
      <3>1. Quote \in Char /\ <<Quote>> \in Seq(Char) /\ Len(<<Quote>>) = 1 /\ <<Quote>>[1] = Quote
        BY DEF Char
      <3>2. m \in Nat
        BY <2>2
      <3> DEFINE head == <<Quote>> \o w
      <3>3. /\ head \in Seq(Char) /\ Len(head) = m + 1
            /\ head[1] = Quote /\ \A i \in 1..m : head[i + 1] = w[i]
        BY <2>2, <3>1, <3>2
      <3>4. text = head \o <<Quote>>
        OBVIOUS
      <3> HIDE DEF head, text
      <3> QED BY <3>1, <3>2, <3>3, <3>4
    <2> HIDE DEF text
    <2>5. Quote \notin Spaces /\ Quote # Newline
      <3>1. Quote # Newline
        BY DEF Quote, Newline
      <3> QED BY <3>1, CharAssumption DEF Quote
    <2>6. Trim(FirstLine(text)) = text
      <3>1. ASSUME NEW i \in 1..m + 2 PROVE text[i] # Newline
        <4>1. i = 1 \/ i = m + 2 \/ (i - 1 \in 1..m /\ i = (i - 1) + 1)
          BY <2>4
        <4>2. ASSUME i - 1 \in 1..m, i = (i - 1) + 1 PROVE text[i] = w[i - 1]
          BY <2>4, <4>2
        <4> QED BY <2>2, <2>4, <2>5, <4>1, <4>2
      <3>2. FirstLine(text) = text
        BY <2>4, <3>1, FirstLineIs
      <3> QED BY <2>4, <2>5, <3>2, TrimNone
    <2>7. Parsed(text) = SubSeq(text, 2, m + 1)
      <3>1. Len(text) >= 2 /\ text[1] = text[Len(text)] /\ text[1] \in {Quote, Apostrophe} /\ Len(text) - 1 = m + 1
        BY <2>4
      <3>2. Parsed(text) = SubSeq(text, 2, Len(text) - 1)
        BY <2>6, <3>1 DEF Parsed
      <3> QED BY <3>1, <3>2
    <2>8. SubSeq(text, 2, m + 1) = w
      <3> DEFINE u == SubSeq(text, 2, m + 1)
      <3>1. u \in Seq(Char) /\ Len(u) = m /\ \A i \in 1..m : u[i] = text[i + 1]
        BY <2>4
      <3> HIDE DEF u
      <3>2. \A i \in 1..m : u[i] = w[i]
        BY <2>4, <3>1
      <3>3. u = w
        BY <2>2, <3>1, <3>2, SeqEqual
      <3> QED BY <3>3 DEF u
    <2>9. Stable(v) <=> w = v
      BY <2>1, <2>7, <2>8 DEF Stable
    <2>10. Survives(v) <=> \A i \in 1..n : v[i] \notin DOMAIN EscapeOf
      BY <1>2, <1>3 DEF Survives
    <2> QED BY <2>3, <2>9, <2>10
  <1>4. CASE ~NeedsQuotes(v)
    <2>1. Written(v) = v
      BY <1>4, WrittenIs
    <2> DEFINE oneLine == \A i \in 1..n : v[i] # Newline
               ends == \A i \in 1..n : i \in {1, n} => v[i] \notin Spaces
               t == Trim(FirstLine(v))
    <2>2. Survives(v) <=> oneLine /\ ends /\ ~quoted
      <3>1. ~ \E i \in 1..Len(v) : v[i] \in {Blank, "#", ";", "="}
        BY <1>2, <1>4
      <3>2. n < 2 <=> ~(n >= 2)
        BY <1>1
      <3> QED BY <3>1, <3>2 DEF Survives
    <2>3. FirstLine(v) \in Seq(Char) /\ t \in Seq(Char) /\ Len(t) <= Len(FirstLine(v))
      BY FirstLineIs, TrimShortens
    <2>4. Parsed(v) = IF Len(t) >= 2 /\ t[1] = t[Len(t)] /\ t[1] \in {Quote, Apostrophe}
                      THEN SubSeq(t, 2, Len(t) - 1) ELSE t
      BY DEF Parsed
    <2>5. CASE oneLine /\ ends
      <3>1. t = v
        <4>1. FirstLine(v) = v
          BY <2>5, FirstLineIs
        <4>2. CASE n = 0
          <5>1. v = <<>> /\ {i \in 1..n : v[i] \notin Spaces} = {}
            BY <4>2
          <5> QED BY <4>1, <5>1 DEF Trim
        <4>3. CASE n # 0
          <5>1. 1 \in 1..n /\ n \in 1..n /\ n >= 1
            BY <1>1, <4>3
          <5>2. v[1] \notin Spaces /\ v[n] \notin Spaces
            BY <2>5, <5>1
          <5> QED BY <4>1, <5>1, <5>2, TrimNone
        <4> QED BY <4>2, <4>3
      <3>2. Parsed(v) = IF quoted THEN SubSeq(v, 2, n - 1) ELSE v
        BY <2>4, <3>1
      <3>3. CASE quoted
        <4>1. n >= 2
          BY <3>3
        <4> DEFINE u == SubSeq(v, 2, n - 1)
        <4>2. Len(u) = n - 2
          BY <1>1, <4>1
        <4> HIDE DEF u
        <4>3. u # v
          BY <1>1, <4>2
        <4>4. Parsed(v) = u
          BY <3>2, <3>3 DEF u
        <4> QED BY <2>1, <2>2, <3>3, <4>3, <4>4 DEF Stable
      <3>4. CASE ~quoted
        <4>1. Stable(v)
          BY <2>1, <3>2, <3>4 DEF Stable
        <4> QED BY <2>2, <2>5, <3>4, <4>1
      <3> QED BY <3>3, <3>4
    <2>6. CASE ~(oneLine /\ ends)
      <3>1. Len(FirstLine(v)) \in Nat /\ Len(t) \in Nat
        BY <2>3
      <3>2. Len(t) < n
        <4>1. CASE ~oneLine
          <5>1. Len(FirstLine(v)) < n
            BY <4>1, FirstLineIs
          <5> QED BY <1>1, <2>3, <3>1, <5>1
        <4>2. CASE oneLine /\ ~ends
          <5>1. FirstLine(v) = v
            BY <4>2, FirstLineIs
          <5>2. n >= 1 /\ (v[1] \in Spaces \/ v[n] \in Spaces)
            <6>1. PICK i \in 1..n : i \in {1, n} /\ v[i] \in Spaces
              BY <4>2
            <6>2. n >= 1 /\ (i = 1 \/ i = n)
              <7> HIDE DEF n
              <7> QED BY <1>1, <6>1
            <6> QED BY <6>1, <6>2
          <5> QED BY <5>1, <5>2, TrimShortens
        <4> QED BY <2>6, <4>1, <4>2
      <3> HIDE DEF t
      <3>3. Len(Parsed(v)) <= Len(t)
        BY <2>3, <2>4, <3>1
      <3>4. Parsed(v) # v
        <4>1. Parsed(v) \in Seq(Char)
          BY <2>3, <2>4, <3>1
        <4> QED BY <1>1, <3>1, <3>2, <3>3, <4>1
      <3> QED BY <2>1, <2>2, <2>6, <3>4 DEF Stable
    <2> QED BY <2>5, <2>6
  <1> QED BY <1>3, <1>4

\* The values that a save and a load leave alone are, of those with a blank or a
\* marker, the ones in which %q escapes nothing (config.go:111); and of the others
\* those of one line, without spaces at the ends and not in quotes already
\* (config.go:39, 63-69).
THEOREM SurvivorsComeBack == Spec => []Survivors
  <1>1. ASSUME NEW v \in Text PROVE Stable(v) <=> Survives(v)
    <2>1. v \in Seq(Char)
      BY TextAssumption DEF Char
    <2> QED BY <2>1, StableIs
  <1>2. Survivors
    BY <1>1 DEF Survivors
  <1> QED BY <1>2, PTL
=============================================================================
