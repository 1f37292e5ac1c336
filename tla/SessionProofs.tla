--------------------------- MODULE SessionProofs ----------------------------
(***************************************************************************)
(* What holds of Session for any repositories, commands, commits and room  *)
(* of the connection: its type invariant, that client and daemon stay in   *)
(* step, that a push which moved the remote-tracking HEAD has sent the     *)
(* whole history, and that a push reports success for nothing less.        *)
(***************************************************************************)
EXTENDS Session, SequenceTheorems, TLAPS

-----------------------------------------------------------------------------
(* The invariant *)

\* A reference names a commit of the daemon's, a pack holds commits, and no
\* client ever answers a request for a token.
RemoteCommit == [of : Repos, seq : Nat \ {0}]
Good == {m \in Message : /\ m.type = "RefLine" => m.hash \in RemoteCommit
                         /\ m.type = "PackObject" => m.hash \in Commit
                         /\ m.type # "AuthResponse"}
Refusal == {m \in Good : m.type \in {"AuthRequest", "Error"}}

\* What the daemon has still to read, and the client.
Up == toServer \o clientOut
Down == toClient \o serverOut

Local(n) == [of |-> "local", seq |-> n]

\* The variables and messages, and what each step of a command can count on.
DataOK ==
    /\ head \in Hash /\ head.of = "local" /\ tracked \in Hash /\ held \subseteq Commit
    /\ copy \in [head : Hash, tracked : Hash, held : SUBSET Commit]
    /\ call \in Calls \cup {"none"} /\ cpc \in ClientSteps
    /\ result \in {"none", "ok", "error"} /\ calls \in 0..MaxCalls
    /\ lines \in Seq(RemoteCommit) /\ want \in Hash /\ old \in Hash
    /\ heads \in [Repos -> RemoteCommit \cup {Zero}] /\ spc \in ServerSteps /\ todo \subseteq Repos
    /\ clientOut \in Seq(Good) /\ serverOut \in Seq(Good)
    /\ toServer \in Seq(Good) /\ Len(toServer) <= Cap
    /\ toClient \in Seq(Good) /\ Len(toClient) <= Cap
    /\ lost \in BOOLEAN /\ token \in BOOLEAN
    /\ shown \subseteq Commit /\ got \subseteq Commit

CommandOK ==
    /\ cpc \in {"check", "reply", "ack"} => call = "push"
    /\ cpc \in {"reply", "ack"} => want \in held /\ want.of = "local" /\ old = tracked
    /\ cpc = "pack" => want \in RemoteCommit
    /\ cpc \in {"pack", "checkout"} /\ call = "clone" => lines # <<>>
    /\ cpc = "checkout" => call = "clone"
    /\ cpc = "next" => call # "clone"
    /\ cpc \in {"list", "next", "pack", "checkout"} => call # "push"

\* Who has nothing to send, and which queues are empty.
QuietOK ==
    /\ cpc \in {"idle", "next", "check"} => clientOut = <<>>
    /\ cpc = "idle" => toClient = <<>>
    /\ spc \in {"closed", "hello"} => serverOut = <<>>
    /\ spc = "closed" => toServer = <<>>
    /\ lost => toServer = <<>> /\ toClient = <<>>

\* A daemon that asks for a token refuses everything.
RefusalOK ==
    token => /\ spc \in {"closed", "hello", "auth", "bye"}
             /\ cpc \in {"idle", "list", "check", "reply"}
             /\ toClient \in Seq(Refusal) /\ serverOut \in Seq(Refusal)

\* Messages of one type and a last one of another.
All(s, types) == \A i \in 1..Len(s) : s[i].type \in types
Ends(s, body, last) ==
    s # <<>> /\ s[Len(s)].type = last /\ \A i \in 1..Len(s) - 1 : s[i].type \in body

Fresh == spc \in {"hello", "main"}

\* Whose turn it is: the step of each end, and what is on its way between them.
Turn ==
    /\ cpc = "idle" => \/ Fresh /\ Up = <<>>
                       \/ spc = "main" /\ call = "clone" /\ Up = <<Msg("OK")>>
    /\ cpc = "check" => Fresh /\ Up = <<>> /\ Down = <<>>
    /\ cpc = "list" => \/ Fresh /\ Up = <<Msg("ListRefs")>> /\ Down = <<>>
                       \/ spc = "refs" /\ Up = <<>> /\ All(Down, {"RefLine"})
                       \/ spc = "main" /\ Up = <<>> /\ Ends(Down, {"RefLine"}, "StreamEnd")
    /\ cpc = "next" => spc = "main" /\ Up = <<>> /\ Down = <<>>
    /\ cpc = "pack" => \/ /\ spc = "main" /\ Up # <<>> /\ Down = <<>>
                          /\ Head(Up).type = "FetchRequest"
                          /\ Ends(Tail(Up), {"Wanted", "Have"}, "FetchDone")
                       \/ spc = "fetch" /\ Ends(Up, {"Wanted", "Have"}, "FetchDone") /\ Down = <<>>
                       \/ spc = "main" /\ Up = <<>> /\ Ends(Down, {"PackHeader"}, "StreamEnd")
    /\ cpc = "checkout" => \/ spc = "main" /\ Up = <<Msg("OK")>> /\ Down = <<>>
                           \/ spc = "main" /\ Up = <<>> /\ Down = <<Msg("Error")>>
    /\ cpc = "reply" => \/ /\ Fresh /\ Down = <<>>
                           /\ Up = <<Msg("PushRequest"), MsgOf("UpdateRef", want)>>
                        \/ spc = "push" /\ Up = <<MsgOf("UpdateRef", want)>> /\ Down = <<>>
                        \/ spc = "pack" /\ Up = <<>> /\ Down = <<Msg("WantPack")>>
    /\ cpc = "ack" => \/ spc = "pack" /\ Ends(Up, {"PackHeader", "PackObject"}, "StreamEnd") /\ Down = <<>>
                      \/ spc = "main" /\ Up = <<>> /\ Down = <<Msg("OK")>>

TurnOK == ~token /\ ~lost => IF spc = "closed" THEN cpc = "idle" ELSE Turn

\* Every commit up to the one being pushed has been read or is on its way.
SendingOK ==
    cpc = "ack" /\ ~lost =>
        \A n \in 1..want.seq : \/ Local(n) \in got
                               \/ \E i \in 1..Len(Up) : Up[i] = MsgOf("PackObject", Local(n))

IInv == DataOK /\ CommandOK /\ QuietOK /\ RefusalOK /\ TurnOK /\ SendingOK /\ PushSendsAll

-----------------------------------------------------------------------------
(* Sequences *)

\* Only the empty sequence has no element.
LEMMA NoElement == ASSUME NEW S, NEW s \in Seq(S) PROVE s = <<>> <=> Len(s) = 0
  BY EmptySeq

\* A function on an initial interval is a sequence.
LEMMA IsSeq == ASSUME NEW S, NEW n \in Nat, NEW f \in [1..n -> S] PROVE f \in Seq(S)
  BY SeqDef

\* A message that is sent goes from one queue to the end of the other.
LEMMA Moved ==
    ASSUME NEW S, NEW a \in Seq(S), NEW b \in Seq(S), b # <<>>
    PROVE  /\ Append(a, Head(b)) \in Seq(S) /\ Tail(b) \in Seq(S)
           /\ Len(Append(a, Head(b))) = Len(a) + 1
           /\ Append(a, Head(b)) \o Tail(b) = a \o b
  <1> DEFINE c == Append(a, Head(b))
  <1>1. c \in Seq(S) /\ Tail(b) \in Seq(S) /\ Len(c) = Len(a) + 1 /\ Len(Tail(b)) = Len(b) - 1
        /\ Len(a) \in Nat /\ Len(b) \in Nat
    OBVIOUS
  <1>2. Len(c \o Tail(b)) = Len(a \o b) /\ c \o Tail(b) \in Seq(S) /\ a \o b \in Seq(S)
    BY <1>1, ConcatProperties
  <1>3. ASSUME NEW i \in 1..Len(a \o b) PROVE (c \o Tail(b))[i] = (a \o b)[i]
    BY <1>1
  <1> QED BY <1>1, <1>2, <1>3, SeqEqual, Zenon

LEMMA MovedRoom ==
    ASSUME NEW S, NEW a \in Seq(S), NEW b \in Seq(S), b # <<>>, NEW a2, NEW b2,
           Len(a) <= Cap, b2 = Tail(b), a2 = a \/ (Len(a) < Cap /\ a2 = Append(a, Head(b)))
    PROVE  a2 \in Seq(S) /\ b2 \in Seq(S) /\ Len(a2) <= Cap
  <1>1. CASE a2 = a
    BY <1>1, Moved
  <1>2. CASE Len(a) < Cap /\ a2 = Append(a, Head(b))
    <2>1. Len(a) \in Nat /\ Cap \in Nat
      BY BoundsAssumption
    <2>2. Len(a) + 1 <= Cap
      BY <1>2, <2>1
    <2> QED BY <1>2, <2>2, Moved
  <1> QED BY <1>1, <1>2

\* A message that is read leaves the front of what is on the way.
LEMMA Taken ==
    ASSUME NEW S, NEW a \in Seq(S), NEW b \in Seq(S), a # <<>>
    PROVE  /\ Tail(a) \in Seq(S) /\ Len(Tail(a)) = Len(a) - 1 /\ Head(a) \in S
           /\ a \o b # <<>> /\ Head(a \o b) = Head(a)
           /\ Tail(a) \o b = Tail(a \o b)
  <1>1. Tail(a) \in Seq(S) /\ Len(Tail(a)) = Len(a) - 1 /\ Head(a) \in S
        /\ Len(a) \in Nat \ {0} /\ Len(b) \in Nat
    OBVIOUS
  <1>2. a \o b \in Seq(S) /\ Len(a \o b) = Len(a) + Len(b)
    OBVIOUS
  <1>3. a \o b # <<>> /\ Head(a \o b) = Head(a)
    BY <1>1, <1>2
  <1>4. Len(Tail(a \o b)) = Len(Tail(a) \o b) /\ Tail(a \o b) \in Seq(S) /\ Tail(a) \o b \in Seq(S)
    BY <1>1, <1>2, <1>3
  <1>5. ASSUME NEW i \in 1..Len(Tail(a \o b)) PROVE Tail(a \o b)[i] = (Tail(a) \o b)[i]
    BY <1>1, <1>2, <1>3, <1>4
  <1> QED BY <1>1, <1>3, <1>4, <1>5, SeqEqual, Zenon

\* Messages of one type, when one is read or one more is sent.
LEMMA AllTail ==
    ASSUME NEW s \in Seq(Good), s # <<>>, NEW types, All(s, types)
    PROVE  Head(s).type \in types /\ All(Tail(s), types)
  BY DEF All

LEMMA AllAppend ==
    ASSUME NEW s \in Seq(Good), NEW m \in Good, NEW types, All(s, types)
    PROVE  /\ m.type \in types => All(s \o <<m>>, types)
           /\ Ends(s \o <<m>>, types, m.type)
  BY DEF All, Ends

\* The same with a last message: it stays the last until it is read.
LEMMA EndsTail ==
    ASSUME NEW s \in Seq(Good), NEW body, NEW last, last \notin body, Ends(s, body, last)
    PROVE  /\ Head(s).type \in body \cup {last}
           /\ Head(s).type # last => Ends(Tail(s), body, last)
           /\ Head(s).type = last => Tail(s) = <<>>
  <1>1. /\ Len(s) \in Nat \ {0} /\ Head(s) = s[1]
        /\ Tail(s) \in Seq(Good) /\ Len(Tail(s)) = Len(s) - 1
        /\ \A k \in 1..Len(Tail(s)) : Tail(s)[k] = s[k + 1]
    BY HeadTailProperties, EmptySeq DEF Ends
  <1>6. Tail(s) = <<>> <=> Len(Tail(s)) = 0
    BY <1>1, NoElement, Zenon
  <1>2. Len(s) = 1 => Head(s).type = last /\ Tail(s) = <<>>
    BY <1>1, <1>6 DEF Ends
  <1>3. Len(s) # 1 => 1 \in 1..Len(s) - 1
    BY <1>1
  <1>4. Len(s) # 1 => Head(s).type \in body
    BY <1>1, <1>3 DEF Ends
  <1>5. ASSUME Len(s) # 1 PROVE Ends(Tail(s), body, last)
    <2>1. Tail(s) # <<>> /\ Tail(s)[Len(Tail(s))] = s[Len(s)]
      BY <1>1, <1>5, <1>6
    <2>2. ASSUME NEW k \in 1..Len(Tail(s)) - 1 PROVE Tail(s)[k].type \in body
      BY <1>1, <1>5 DEF Ends
    <2> QED BY <2>1, <2>2 DEF Ends
  <1> QED BY <1>2, <1>4, <1>5

-----------------------------------------------------------------------------
(* Types *)

\* The messages of the code are good ones.
LEMMA GoodMessages ==
    /\ \A t \in Type \ {"RefLine", "PackObject", "AuthResponse"} : \A h \in Hash :
          MsgOf(t, h) \in Good /\ Msg(t) \in Good
    /\ \A h \in RemoteCommit : MsgOf("RefLine", h) \in Good
    /\ \A h \in Commit : MsgOf("PackObject", h) \in Good
  BY DEF Good, Message, Msg, MsgOf, Hash, Zero, RemoteCommit, Commit, Type

\* The objects of a pack.
Count(new, from) ==
    LET known == IF from.of = new.of THEN SeqOf(from) ELSE 0
    IN  IF new.seq > known THEN new.seq - known ELSE 0
Objects(new, from) ==
    [i \in 1..Count(new, from) |-> MsgOf("PackObject", [new EXCEPT !.seq = new.seq + 1 - i])]

LEMMA PackObjects ==
    ASSUME NEW new \in Commit, NEW from \in Hash
    PROVE  /\ Count(new, from) \in Nat
           /\ \A n \in 1..new.seq : (from.of = new.of /\ n <= from.seq) \/ new.seq + 1 - n \in 1..Count(new, from)
           /\ Objects(new, from) \in Seq(Good) /\ Len(Objects(new, from)) = Count(new, from)
           /\ Msg("PackHeader") \in Good /\ Msg("StreamEnd") \in Good
           /\ Pack(new, from) = <<Msg("PackHeader")>> \o Objects(new, from) \o <<Msg("StreamEnd")>>
  <1>1. SeqOf(from) \in Nat /\ SeqOf(from) <= from.seq /\ new.seq \in Nat \ {0} /\ from.seq \in Nat
    BY DEF SeqOf, Hash, Commit, Zero
  <1>2. Count(new, from) \in Nat /\ Count(new, from) <= new.seq
    BY <1>1 DEF Count
  <1>3. ASSUME NEW i \in 1..Count(new, from) PROVE Objects(new, from)[i] \in Good
    <2>1. [new EXCEPT !.seq = new.seq + 1 - i] \in Commit
      BY <1>1, <1>2 DEF Commit
    <2> QED BY <2>1, GoodMessages DEF Objects
  <1>4. Objects(new, from) \in [1..Count(new, from) -> Good]
    BY <1>3 DEF Objects
  <1>5. Objects(new, from) \in Seq(Good) /\ Len(Objects(new, from)) = Count(new, from)
    BY <1>2, <1>4, IsSeq
  <1>6. Msg("PackHeader") \in Good /\ Msg("StreamEnd") \in Good
    BY GoodMessages DEF Type, Hash, Zero
  <1>7. Pack(new, from) = <<Msg("PackHeader")>> \o Objects(new, from) \o <<Msg("StreamEnd")>>
    BY DEF Pack, Objects, Count
  <1>8. \A n \in 1..new.seq : (from.of = new.of /\ n <= from.seq) \/ new.seq + 1 - n \in 1..Count(new, from)
    BY <1>1 DEF Count
  <1> QED BY <1>2, <1>5, <1>6, <1>7, <1>8

LEMMA PackType ==
    ASSUME NEW new \in Commit, NEW from \in Hash
    PROVE  Pack(new, from) \in Seq(Good)
  <1>1. <<Msg("PackHeader")>> \in Seq(Good) /\ <<Msg("StreamEnd")>> \in Seq(Good)
    BY PackObjects
  <1> QED BY <1>1, PackObjects, ConcatProperties

\* The room of the two directions, with the facts about the client's data.
LEMMA RemoteTypes ==
    /\ RemoteCommit \subseteq Commit /\ Commit \subseteq Hash /\ Zero \in Hash /\ Zero \notin Commit
    /\ Zero.of = "local" /\ Zero.seq = 0
    /\ \A h \in RemoteCommit : h.of # "local"
  BY ReposAssumption DEF RemoteCommit, Commit, Hash, Zero

\* The queues start empty.
LEMMA EmptyQueue == \A S : <<>> \in Seq(S) /\ Len(<<>>) <= Cap
  BY BoundsAssumption, EmptySeq

\* A command that ends changes no types.
LEMMA FinishData ==
    ASSUME DataOK, NEW r \in {"ok", "error"}, Finish(r),
           head' = head, tracked' \in Hash, held' = held,
           copy' \in [head : Hash, tracked : Hash, held : SUBSET Commit]
    PROVE  DataOK'
  BY EmptyQueue DEF DataOK, Finish, server, ClientSteps

LEMMA FetchType ==
    ASSUME NEW h \in Hash, NEW g \in Hash
    PROVE  FetchMessages(h, g) \in Seq(Good)
  <1>1. /\ Msg("FetchRequest") \in Good /\ MsgOf("Wanted", h) \in Good
        /\ MsgOf("Have", g) \in Good /\ Msg("FetchDone") \in Good
    BY GoodMessages, RemoteTypes DEF Type
  <1> QED BY <1>1 DEF FetchMessages

\* What ReadRefs does with a message: a reference, the end, the end of clone's
\* list, the end of the command, or nothing.
TakeLine ==
    /\ Received.type = "RefLine"
    /\ lines' = Append(lines, Received.hash)
    /\ toClient' = Tail(toClient)
    /\ UNCHANGED <<repository, call, cpc, result, calls, want, old, clientOut,
                   server, toServer, lost, token>>
TakeEnd ==
    /\ Received.type = "StreamEnd" /\ call # "clone"
    /\ cpc' = "next"
    /\ toClient' = Tail(toClient)
    /\ UNCHANGED <<repository, call, result, calls, lines, want, old, clientOut,
                   server, toServer, lost, token>>
AskClone ==
    /\ Received.type = "StreamEnd" /\ call = "clone" /\ lines # <<>>
    /\ want' = Head(lines) /\ clientOut' = FetchMessages(Head(lines), Zero) /\ cpc' = "pack"
    /\ toClient' = Tail(toClient)
    /\ UNCHANGED <<repository, call, result, calls, lines, old, server, toServer, lost, token>>

LEMMA ReadRefsCases ==
    ASSUME ReadRefs
    PROVE  \/ TakeLine \/ TakeEnd \/ AskClone
           \/ Ignore /\ Received.type \notin {"RefLine", "StreamEnd"}
           \/ /\ call = "clone" /\ Received.type \in {"Error", "StreamEnd"}
              /\ Finish("error") /\ UNCHANGED repository
  BY DEF ReadRefs, TakeLine, TakeEnd, AskClone

\* The client's steps.
LEMMA ClientData == ASSUME DataOK, CommandOK, ClientStep PROVE DataOK'
  <1> USE DEF repository, server, connection
  <1>1. CASE ClientSend
    <2>1. toServer' = toServer \/ (Len(toServer) < Cap /\ toServer' = Append(toServer, Head(clientOut)))
      BY <1>1 DEF ClientSend
    <2>2. clientOut # <<>> /\ clientOut' = Tail(clientOut)
      BY <1>1 DEF ClientSend
    <2>3. clientOut' \in Seq(Good) /\ toServer' \in Seq(Good) /\ Len(toServer') <= Cap
      BY <2>1, <2>2, MovedRoom DEF DataOK
    <2>4. UNCHANGED <<repository, call, cpc, result, calls, lines, want, old, server, toClient, lost, token>>
      BY <1>1 DEF ClientSend
    <2> QED BY <2>3, <2>4 DEF DataOK
  <1>2. CASE ClientCut
    BY <1>2, FinishData DEF DataOK, ClientCut
  <1>3. ASSUME NEW step, ClientRecv(step)
        PROVE /\ Tail(toClient) \in Seq(Good) /\ Len(Tail(toClient)) <= Cap
              /\ Received \in Good
    <2>1. toClient # <<>> /\ toClient \in Seq(Good)
      BY <1>3 DEF DataOK, ClientRecv
    <2>2. Len(Tail(toClient)) = Len(toClient) - 1 /\ Tail(toClient) \in Seq(Good) /\ Head(toClient) \in Good
      BY <2>1, HeadTailProperties
    <2>3. Len(toClient) \in Nat /\ Len(toClient) <= Cap /\ Cap \in Nat
      BY BoundsAssumption DEF DataOK
    <2> QED BY <2>2, <2>3 DEF Received
  <1>4. CASE ReadRefs
    <2>1. Tail(toClient) \in Seq(Good) /\ Len(Tail(toClient)) <= Cap /\ Received \in Good
      BY <1>3, <1>4 DEF ReadRefs
    <2>2. Received.type = "RefLine" => Append(lines, Received.hash) \in Seq(RemoteCommit)
      BY <2>1 DEF Good, DataOK
    <2>3. lines # <<>> => Head(lines) \in Hash /\ FetchMessages(Head(lines), Zero) \in Seq(Good)
      BY FetchType, RemoteTypes, HeadTailProperties DEF DataOK
    <2>4. CASE \E r \in {"ok", "error"} : Finish(r) /\ UNCHANGED repository
      BY <2>4, FinishData DEF DataOK
    <2>5. CASE Ignore
      BY <2>1, <2>5 DEF DataOK, Ignore, client
    <2>6. \/ TakeLine \/ TakeEnd \/ AskClone \/ Ignore
          \/ \E r \in {"ok", "error"} : Finish(r) /\ UNCHANGED repository
      BY <1>4, ReadRefsCases
    <2>7. CASE TakeLine
      BY <2>1, <2>2, <2>7 DEF DataOK, TakeLine
    <2>8. CASE TakeEnd
      BY <2>1, <2>8 DEF DataOK, TakeEnd, ClientSteps
    <2>9. CASE AskClone
      BY <2>1, <2>3, <2>9 DEF DataOK, AskClone, ClientSteps
    <2> QED BY <2>4, <2>5, <2>6, <2>7, <2>8, <2>9
  <1>5. CASE FetchNext
    <2>1. lines # <<>> => /\ Head(lines) \in Hash /\ FetchMessages(Head(lines), tracked) \in Seq(Good)
                          /\ Tail(lines) \in Seq(RemoteCommit)
      BY FetchType, RemoteTypes, HeadTailProperties DEF DataOK
    <2>2. CASE \E r \in {"ok", "error"} : Finish(r) /\ UNCHANGED repository
      BY <2>2, FinishData DEF DataOK
    <2> QED BY <1>5, <2>1, <2>2 DEF DataOK, FetchNext, ClientSteps
  <1>6. CASE ReadPack
    <2>1. Tail(toClient) \in Seq(Good) /\ Len(Tail(toClient)) <= Cap
      BY <1>3, <1>6 DEF ReadPack
    <2>2. <<Msg("OK")>> \in Seq(Good)
      BY GoodMessages, RemoteTypes DEF Type
    <2>3. CASE \E r \in {"ok", "error"} : Finish(r) /\ UNCHANGED repository
      BY <2>3, FinishData DEF DataOK
    <2>4. CASE Ignore
      BY <2>1, <2>4 DEF DataOK, Ignore, client
    <2> QED BY <1>6, <2>1, <2>2, <2>3, <2>4 DEF DataOK, ReadPack, ClientSteps
  <1>7. CASE Checkout
    <2>1. lines[Len(lines)] \in Hash
      BY <1>7, RemoteTypes, EmptySeq DEF DataOK, CommandOK, Checkout
    <2>2. copy' \in [head : Hash, tracked : Hash, held : SUBSET Commit]
      BY <1>7, <2>1 DEF DataOK, Checkout
    <2> QED BY <1>7, <2>2, FinishData DEF DataOK, Checkout
  <1>8. CASE PushCheck
    <2>1. <<Msg("PushRequest"), MsgOf("UpdateRef", head)>> \in Seq(Good)
      BY GoodMessages, RemoteTypes DEF Type, DataOK
    <2>2. CASE \E r \in {"ok", "error"} : Finish(r) /\ UNCHANGED repository
      BY <2>2, FinishData DEF DataOK
    <2> QED BY <1>8, <2>1, <2>2 DEF DataOK, PushCheck, ClientSteps
  <1>9. CASE PushReply
    <2>1. Tail(toClient) \in Seq(Good) /\ Len(Tail(toClient)) <= Cap
      BY <1>3, <1>9 DEF PushReply
    <2>2. Pack(want, old) \in Seq(Good)
      BY <1>9, PackType DEF DataOK, CommandOK, PushReply, ClientRecv
    <2>3. CASE \E r \in {"ok", "error"} : Finish(r) /\ UNCHANGED repository
      BY <2>3, FinishData DEF DataOK
    <2> QED BY <1>9, <2>1, <2>2, <2>3 DEF DataOK, PushReply, ClientSteps
  <1>10. CASE PushAck
    BY <1>10, FinishData DEF DataOK, PushAck
  <1> QED BY <1>1, <1>2, <1>4, <1>5, <1>6, <1>7, <1>8, <1>9, <1>10 DEF ClientStep

\* The daemon's.
LEMMA ServerData == ASSUME DataOK, ServerStep PROVE DataOK'
  <1> USE DEF repository, client, connection
  <1>1. CASE ServerSend
    <2>1. toClient' = toClient \/ (Len(toClient) < Cap /\ toClient' = Append(toClient, Head(serverOut)))
      BY <1>1 DEF ServerSend
    <2>2. serverOut # <<>> /\ serverOut' = Tail(serverOut)
      BY <1>1 DEF ServerSend
    <2>3. serverOut' \in Seq(Good) /\ toClient' \in Seq(Good) /\ Len(toClient') <= Cap
      BY <2>1, <2>2, MovedRoom DEF DataOK
    <2>4. UNCHANGED <<repository, client, heads, spc, todo, shown, got, toServer, lost, token>>
      BY <1>1 DEF ServerSend
    <2> QED BY <2>3, <2>4 DEF DataOK
  <1>2. ASSUME NEW step, ServerRecv(step), NEW to \in ServerSteps, NEW out \in Seq(Good),
               Answer(to, out), todo' \subseteq Repos, got' \subseteq Commit
        PROVE DataOK'
    <2>1. Tail(toServer) \in Seq(Good) /\ Len(Tail(toServer)) <= Cap
      <3>1. toServer # <<>> /\ toServer \in Seq(Good)
        BY <1>2 DEF DataOK, ServerRecv
      <3>2. Len(Tail(toServer)) = Len(toServer) - 1 /\ Tail(toServer) \in Seq(Good)
        BY <3>1, HeadTailProperties
      <3>3. Len(toServer) \in Nat /\ Len(toServer) <= Cap /\ Cap \in Nat
        BY BoundsAssumption DEF DataOK
      <3> QED BY <3>2, <3>3
    <2> QED BY <1>2, <2>1 DEF DataOK, ServerRecv, Answer
  <1>3. ASSUME NEW to \in ServerSteps, NEW out \in Seq(Good), Answer(to, out),
               UNCHANGED <<repository, client, heads, shown, got, connection>>, todo' \subseteq Repos
        PROVE DataOK'
    BY <1>3 DEF DataOK, Answer
  <1>4. /\ <<>> \in Seq(Good) /\ <<Msg("Error")>> \in Seq(Good) /\ <<Msg("OK")>> \in Seq(Good)
        /\ <<Msg("AuthRequest")>> \in Seq(Good) /\ <<Msg("WantPack")>> \in Seq(Good)
        /\ <<Msg("StreamEnd")>> \in Seq(Good)
        /\ <<Msg("PackHeader"), Msg("StreamEnd")>> \in Seq(Good)
        /\ \A r \in Repos : heads[r] # Zero => <<MsgOf("RefLine", heads[r])>> \in Seq(Good)
    <2>1. \A r \in Repos : heads[r] # Zero => heads[r] \in RemoteCommit
      BY DEF DataOK
    <2> QED BY <2>1, GoodMessages, RemoteTypes DEF Type
  <1>5. CASE Hello
    BY <1>3, <1>4, <1>5 DEF Hello, ServerSteps, DataOK
  <1>6. CASE Authenticate
    BY <1>2, <1>4, <1>6 DEF Authenticate, ServerSteps, DataOK
  <1>7. CASE Bye
    BY <1>7, EmptyQueue DEF Bye, ServerSteps, DataOK
  <1>8. CASE HandleConnection
    BY <1>2, <1>4, <1>8 DEF HandleConnection, ServerSteps, DataOK
  <1>9. CASE ListRefs
    <2>1. ASSUME NEW r \in todo, todo' = todo \ {r},
                 Answer("refs", IF heads[r] = Zero THEN <<>> ELSE <<MsgOf("RefLine", heads[r])>>)
          PROVE DataOK'
      BY <1>3, <1>4, <1>9, <2>1 DEF ListRefs, ServerSteps, DataOK
    <2>2. CASE todo = {} /\ Answer("main", <<Msg("StreamEnd")>>) /\ UNCHANGED todo
      BY <1>3, <1>4, <1>9, <2>2 DEF ListRefs, ServerSteps, DataOK
    <2> QED BY <1>9, <2>1, <2>2 DEF ListRefs
  <1>10. CASE HandleFetch
    BY <1>2, <1>4, <1>10 DEF HandleFetch, ServerSteps, DataOK
  <1>11. CASE HandlePush
    BY <1>2, <1>4, <1>11 DEF HandlePush, ServerSteps, DataOK
  <1>12. CASE ReceivePack
    <2>1. Request \in Good
      BY <1>12, HeadTailProperties DEF ReceivePack, ServerRecv, DataOK, Request
    <2>2. got' \subseteq Commit /\ todo' \subseteq Repos
      BY <1>12, <2>1 DEF ReceivePack, DataOK, Good
    <2> QED BY <1>2, <1>4, <1>12, <2>2 DEF ReceivePack, ServerSteps
  <1>13. CASE HandlerCut
    BY <1>13 DEF HandlerCut, ServerSteps, DataOK
  <1> QED BY <1>1, <1>5, <1>6, <1>7, <1>8, <1>9, <1>10, <1>11, <1>12, <1>13 DEF ServerStep

\* The environment's steps, and those that start a command.
LEMMA OtherData ==
    ASSUME DataOK, \/ \E c \in Calls : Call(c) \/ CallRefused(c)
                   \/ Lose \/ LocalCommit \/ ServerCommit \/ UNCHANGED vars
    PROVE  DataOK'
  <1> USE DEF repository, client, server, connection
  <1>1. ASSUME NEW c, NewCopy(c) PROVE copy' \in [head : Hash, tracked : Hash, held : SUBSET Commit]
    BY <1>1, RemoteTypes DEF NewCopy, DataOK
  <1>2. calls < MaxCalls => calls + 1 \in 0..MaxCalls
    BY BoundsAssumption DEF DataOK
  <1>3. <<>> \in Seq(RemoteCommit) /\ <<>> \in Seq(Good) /\ <<Msg("ListRefs")>> \in Seq(Good)
    BY GoodMessages, RemoteTypes DEF Type
  <1>4. ASSUME NEW c \in Calls, Call(c) PROVE DataOK'
    BY <1>1, <1>2, <1>3, <1>4, EmptyQueue, TokensAssumption
       DEF Call, Begin, DataOK, ClientSteps, ServerSteps
  <1>5. ASSUME NEW c \in Calls, CallRefused(c) PROVE DataOK'
    BY <1>1, <1>2, <1>3, <1>5 DEF CallRefused, DataOK
  <1>6. CASE Lose
    BY <1>6, EmptyQueue DEF Lose, DataOK
  <1>7. CASE LocalCommit
    <2>1. head.seq \in Nat
      BY DEF DataOK, Hash, Commit, Zero
    <2>2. head' \in Commit /\ head'.of = "local"
      BY <1>7, <2>1 DEF LocalCommit, Commit
    <2> QED BY <1>7, <2>2, RemoteTypes DEF LocalCommit, DataOK
  <1>8. CASE ServerCommit
    <2>1. PICK r \in Repos : /\ heads' = [heads EXCEPT ![r] = [of |-> r, seq |-> @.seq + 1]]
                             /\ shown' = shown \cup {heads'[r]}
      BY <1>8 DEF ServerCommit
    <2>2. heads[r].seq \in Nat
      BY DEF DataOK, RemoteCommit, Zero
    <2>3. [of |-> r, seq |-> heads[r].seq + 1] \in RemoteCommit
      BY <2>2 DEF RemoteCommit
    <2>4. heads' \in [Repos -> RemoteCommit \cup {Zero}] /\ heads'[r] \in Commit
      BY <2>1, <2>3, RemoteTypes DEF DataOK
    <2> QED BY <1>8, <2>1, <2>4 DEF ServerCommit, DataOK
  <1>9. CASE UNCHANGED vars
    BY <1>9 DEF vars, DataOK
  <1> QED BY <1>4, <1>5, <1>6, <1>7, <1>8, <1>9

\* What each step of a command can count on.
LEMMA CommandKeeps == ASSUME DataOK, CommandOK, [Next]_vars PROVE CommandOK'
  <1> USE DEF repository, client, server, connection
  <1>2. ASSUME Ignore PROVE CommandOK'
    BY <1>2 DEF Ignore, CommandOK
  <1>3. lines # <<>> => Head(lines) \in RemoteCommit
    BY HeadTailProperties DEF DataOK
  <1>4. CASE ReadRefs
    <2>1. cpc = "list"
      BY <1>4 DEF ReadRefs, ClientRecv
    <2>2. CASE TakeLine
      BY <2>1, <2>2 DEF TakeLine, CommandOK
    <2>3. CASE TakeEnd
      BY <2>1, <2>3 DEF TakeEnd, CommandOK
    <2>4. CASE AskClone
      BY <2>1, <2>4, <1>3 DEF AskClone, CommandOK
    <2>5. CASE Finish("error")
      BY <2>5 DEF Finish, CommandOK
    <2> QED BY <1>2, <1>4, <2>2, <2>3, <2>4, <2>5, ReadRefsCases
  <1>5. CASE ClientSend \/ ClientCut
    BY <1>5 DEF ClientSend, ClientCut, Finish, CommandOK
  <1>6. CASE FetchNext
    <2>1. CASE \E r \in {"ok", "error"} : Finish(r)
      BY <2>1 DEF Finish, CommandOK
    <2>2. cpc = "next" /\ call # "clone"
      BY <1>6 DEF FetchNext, CommandOK
    <2> QED BY <1>6, <1>3, <2>1, <2>2 DEF FetchNext, CommandOK
  <1>7. CASE ReadPack
    <2>1. CASE Finish("error")
      BY <2>1 DEF Finish, CommandOK
    <2> QED BY <1>2, <1>7, <2>1 DEF ReadPack, ClientRecv, CommandOK
  <1>8. CASE Checkout
    BY <1>8 DEF Checkout, Finish, CommandOK
  <1>9. CASE PushCheck
    <2>1. CASE Finish("error")
      BY <2>1 DEF Finish, CommandOK
    <2> QED BY <1>9, <2>1 DEF PushCheck, CommandOK, DataOK
  <1>10. CASE PushReply
    <2>1. CASE \E r \in {"ok", "error"} : Finish(r)
      BY <2>1 DEF Finish, CommandOK
    <2> QED BY <1>10, <2>1 DEF PushReply, ClientRecv, CommandOK
  <1>11. CASE PushAck
    BY <1>11 DEF PushAck, Finish, CommandOK
  <1>12. CASE ServerStep
    BY <1>12 DEF ServerStep, ServerSend, Hello, Authenticate, Bye, HandleConnection, ListRefs,
                 HandleFetch, HandlePush, ReceivePack, HandlerCut, ServerRecv, CommandOK
  <1>13. ASSUME NEW c \in Calls, Call(c) \/ CallRefused(c) PROVE CommandOK'
    BY <1>13 DEF Call, CallRefused, Begin, CommandOK
  <1>14. CASE Lose \/ LocalCommit \/ ServerCommit \/ UNCHANGED vars
    BY <1>14 DEF Lose, LocalCommit, ServerCommit, vars, CommandOK
  <1> QED BY <1>4, <1>5, <1>6, <1>7, <1>8, <1>9, <1>10, <1>11, <1>12, <1>13, <1>14
          DEF Next, ClientStep

\* Which queues are empty.
LEMMA QuietKeeps == ASSUME QuietOK, [Next]_vars PROVE QuietOK'
  <1> USE DEF repository, client, server, connection
  <1>1. ASSUME NEW r \in {"ok", "error"}, Finish(r), clientOut = <<>> PROVE QuietOK'
    BY <1>1 DEF Finish, QuietOK
  <1>2. ASSUME NEW step \in {"list", "pack", "reply", "ack"}, ClientRecv(step)
        PROVE cpc = step /\ clientOut = <<>> /\ ~lost
    BY <1>2 DEF ClientRecv, QuietOK
  <1>3. ASSUME cpc \in {"list", "pack"}, ~lost, Ignore PROVE QuietOK'
    BY <1>3 DEF Ignore, QuietOK
  <1>4. CASE ReadRefs
    <2>1. cpc = "list" /\ clientOut = <<>> /\ ~lost
      BY <1>2, <1>4 DEF ReadRefs
    <2>2. CASE TakeLine \/ TakeEnd \/ AskClone
      BY <2>1, <2>2 DEF TakeLine, TakeEnd, AskClone, QuietOK
    <2> QED BY <1>1, <1>3, <1>4, <2>1, <2>2, ReadRefsCases
  <1>5. CASE ClientSend
    BY <1>5 DEF ClientSend, QuietOK
  <1>6. CASE ClientCut
    BY <1>1, <1>6 DEF ClientCut
  <1>7. CASE FetchNext
    BY <1>1, <1>7 DEF FetchNext, QuietOK
  <1>8. CASE ReadPack
    <2>1. cpc = "pack" /\ clientOut = <<>> /\ ~lost
      BY <1>2, <1>8 DEF ReadPack
    <2> QED BY <1>1, <1>3, <1>8, <2>1 DEF ReadPack, QuietOK
  <1>9. CASE Checkout \/ PushAck
    BY <1>1, <1>9 DEF Checkout, PushAck, ClientRecv
  <1>10. CASE PushCheck
    BY <1>1, <1>10 DEF PushCheck, QuietOK
  <1>11. CASE PushReply
    <2>1. cpc = "reply" /\ clientOut = <<>> /\ ~lost
      BY <1>2, <1>11 DEF PushReply
    <2> QED BY <1>1, <1>11, <2>1 DEF PushReply, QuietOK
  <1>12. CASE ServerSend
    BY <1>12 DEF ServerSend, QuietOK
  <1>13. ASSUME NEW step \in {"auth", "main", "fetch", "push", "pack"}, ServerRecv(step),
                NEW to \in {"main", "refs", "fetch", "push", "pack", "bye"}, spc' = to
         PROVE QuietOK'
    BY <1>13 DEF ServerRecv, QuietOK
  <1>14. CASE Authenticate \/ HandleConnection
    BY <1>13, <1>14 DEF Authenticate, HandleConnection, Answer
  <1>15. CASE HandleFetch \/ HandlePush \/ ReceivePack
    BY <1>13, <1>15 DEF HandleFetch, HandlePush, ReceivePack, Answer
  <1>16. CASE Hello \/ Bye \/ ListRefs \/ HandlerCut
    BY <1>16 DEF Hello, Bye, ListRefs, HandlerCut, Answer, QuietOK
  <1>17. ASSUME NEW c \in Calls, Call(c) \/ CallRefused(c) PROVE QuietOK'
    BY <1>17 DEF Call, CallRefused, Begin, QuietOK
  <1>18. CASE Lose \/ LocalCommit \/ ServerCommit \/ UNCHANGED vars
    BY <1>18 DEF Lose, LocalCommit, ServerCommit, vars, QuietOK
  <1> QED BY <1>4, <1>5, <1>6, <1>7, <1>8, <1>9, <1>10, <1>11, <1>12, <1>14, <1>15, <1>16, <1>17, <1>18
          DEF Next, ClientStep, ServerStep

-----------------------------------------------------------------------------
(* A daemon that asks for a token *)

LEMMA RefusalKeeps ==
    ASSUME DataOK, CommandOK, QuietOK, RefusalOK, [Next]_vars PROVE RefusalOK'
  <1> USE DEF repository, client, server, connection
  <1>1. ASSUME NEW c \in Calls, Call(c) PROVE RefusalOK'
    BY <1>1, EmptyQueue DEF Call, Begin, RefusalOK, QuietOK
  <1>2. SUFFICES ASSUME token, token' PROVE RefusalOK'
    <2>1. CASE ~token'
      BY <2>1 DEF RefusalOK
    <2>2. token' = token \/ \E c \in Calls : Call(c)
      BY DEF Next, vars, ClientStep, ServerStep, CallRefused, Finish, ClientSend, ClientCut, Ignore,
             FetchNext, Checkout, PushCheck, PushAck, ServerSend, Hello, Bye, ListRefs,
             HandlerCut, ServerRecv, Authenticate, HandleConnection, HandleFetch, HandlePush,
             ReceivePack, Lose, LocalCommit, ServerCommit, ReadRefs, ReadPack, PushReply
    <2> QED BY <1>1, <2>1, <2>2, <1>2
  <1>3. /\ spc \in {"closed", "hello", "auth", "bye"} /\ cpc \in {"idle", "list", "check", "reply"}
        /\ toClient \in Seq(Refusal) /\ serverOut \in Seq(Refusal)
    BY <1>2 DEF RefusalOK
  <1>4. toClient # <<>> => Received.type \in {"AuthRequest", "Error"} /\ Tail(toClient) \in Seq(Refusal)
    BY <1>3, HeadTailProperties DEF Received, Refusal
  <1>5. ASSUME NEW r \in {"ok", "error"}, Finish(r) PROVE RefusalOK'
    BY <1>3, <1>5, EmptyQueue DEF Finish, RefusalOK
  <1>6. CASE ClientSend
    BY <1>3, <1>6 DEF ClientSend, RefusalOK
  <1>7. CASE ClientCut
    BY <1>5, <1>7 DEF ClientCut
  <1>8. CASE ReadRefs
    <2>1. toClient # <<>>
      BY <1>8 DEF ReadRefs, ClientRecv
    <2>2. CASE Ignore
      BY <1>3, <1>4, <2>1, <2>2 DEF Ignore, RefusalOK
    <2> QED BY <1>4, <1>5, <1>8, <2>1, <2>2, ReadRefsCases DEF TakeLine, TakeEnd, AskClone
  <1>9. ~FetchNext /\ ~ReadPack /\ ~Checkout /\ ~PushAck
    BY <1>3 DEF FetchNext, ReadPack, Checkout, PushAck, ClientRecv
  <1>10. CASE PushCheck
    <2>1. ASSUME cpc' = "reply", UNCHANGED connection, UNCHANGED server PROVE RefusalOK'
      BY <1>3, <2>1 DEF RefusalOK
    <2> QED BY <1>5, <1>10, <2>1 DEF PushCheck
  <1>11. CASE PushReply
    BY <1>4, <1>5, <1>11 DEF PushReply, ClientRecv
  <1>12. CASE ServerSend
    <2>1. Append(toClient, Head(serverOut)) \in Seq(Refusal) /\ Tail(serverOut) \in Seq(Refusal)
      BY <1>3, <1>12, Moved DEF ServerSend
    <2>2. toClient' \in Seq(Refusal) /\ serverOut' \in Seq(Refusal)
      BY <1>3, <1>12, <2>1 DEF ServerSend
    <2> QED BY <1>3, <1>12, <2>2 DEF ServerSend, RefusalOK
  <1>13. <<Msg("AuthRequest")>> \in Seq(Refusal) /\ <<Msg("Error")>> \in Seq(Refusal)
    <2>1. Msg("AuthRequest") \in Refusal /\ Msg("Error") \in Refusal
      BY GoodMessages, RemoteTypes DEF Refusal, Type, Msg
    <2> QED BY <2>1
  <1>14. CASE Hello
    BY <1>2, <1>3, <1>13, <1>14 DEF Hello, Answer, RefusalOK
  <1>15. CASE Authenticate
    <2>1. Request.type # "AuthResponse"
      BY <1>15, HeadTailProperties DEF Authenticate, ServerRecv, Request, DataOK, Good
    <2> QED BY <1>3, <1>13, <1>15, <2>1 DEF Authenticate, ServerRecv, Answer, RefusalOK
  <1>16. CASE Bye \/ HandlerCut
    BY <1>3, <1>16 DEF Bye, HandlerCut, RefusalOK
  <1>17. ~HandleConnection /\ ~ListRefs /\ ~HandleFetch /\ ~HandlePush /\ ~ReceivePack
    BY <1>3 DEF HandleConnection, ListRefs, HandleFetch, HandlePush, ReceivePack, ServerRecv
  <1>18. ASSUME NEW c \in Calls, CallRefused(c) PROVE RefusalOK'
    BY <1>3, <1>18 DEF CallRefused, RefusalOK
  <1>19. CASE Lose
    BY <1>3, <1>19, EmptyQueue DEF Lose, RefusalOK
  <1>20. CASE LocalCommit \/ ServerCommit \/ UNCHANGED vars
    BY <1>3, <1>20 DEF LocalCommit, ServerCommit, vars, RefusalOK
  <1> QED BY <1>1, <1>6, <1>7, <1>8, <1>9, <1>10, <1>11, <1>12, <1>14, <1>15, <1>16, <1>17, <1>18,
             <1>19, <1>20 DEF Next, ClientStep, ServerStep

-----------------------------------------------------------------------------
(* The turns of client and daemon *)

LEMMA QueueTypes ==
    ASSUME DataOK
    PROVE  /\ toServer \in Seq(Good) /\ clientOut \in Seq(Good)
           /\ toClient \in Seq(Good) /\ serverOut \in Seq(Good)
  BY DEF DataOK

\* What a message that is sent, read or answered does to what is on the way.
LEMMA SentUp ==
    ASSUME DataOK, ClientSend, ~lost, spc # "closed" PROVE Up' = Up /\ Down' = Down
  <1>1. toServer' = Append(toServer, Head(clientOut)) /\ clientOut' = Tail(clientOut)
        /\ clientOut # <<>> /\ toClient' = toClient /\ serverOut' = serverOut
    BY DEF ClientSend, server
  <1>2. Append(toServer, Head(clientOut)) \o Tail(clientOut) = toServer \o clientOut
    BY <1>1, QueueTypes, Moved, Zenon
  <1> QED BY <1>1, <1>2 DEF Up, Down

LEMMA SentDown ==
    ASSUME DataOK, ServerSend, ~lost, cpc # "idle" PROVE Up' = Up /\ Down' = Down
  <1>1. toClient' = Append(toClient, Head(serverOut)) /\ serverOut' = Tail(serverOut)
        /\ serverOut # <<>> /\ toServer' = toServer /\ clientOut' = clientOut
    BY DEF ServerSend, client
  <1>2. Append(toClient, Head(serverOut)) \o Tail(serverOut) = toClient \o serverOut
    BY <1>1, QueueTypes, Moved, Zenon
  <1> QED BY <1>1, <1>2 DEF Up, Down

LEMMA ReadDown ==
    ASSUME DataOK, DataOK', toClient # <<>>, clientOut = <<>>
    PROVE  /\ Down # <<>> /\ Head(Down) = Received /\ Received \in Good /\ Down \in Seq(Good)
           /\ toClient' = Tail(toClient) /\ serverOut' = serverOut => Down' = Tail(Down)
           /\ Up = toServer
           /\ Up = <<>> /\ toServer' = toServer => Up' = clientOut'
  <1>1. Tail(toClient) \o serverOut = Tail(Down) /\ Down # <<>> /\ Head(Down) = Head(toClient)
        /\ Head(toClient) \in Good
    BY QueueTypes, Taken, Zenon DEF Down
  <1>2. Down \in Seq(Good)
    BY ConcatProperties DEF DataOK, Down
  <1>3. Up = toServer
    BY ConcatEmptySeq DEF DataOK, Up
  <1>4. <<>> \o clientOut' = clientOut'
    BY ConcatEmptySeq DEF DataOK
  <1> QED BY <1>1, <1>2, <1>3, <1>4 DEF Down, Up, Received

LEMMA ReadUp ==
    ASSUME DataOK, DataOK', toServer # <<>>, serverOut = <<>>
    PROVE  /\ Up # <<>> /\ Head(Up) = Request /\ Request \in Good /\ Up \in Seq(Good)
           /\ toServer' = Tail(toServer) /\ clientOut' = clientOut => Up' = Tail(Up)
  <1>1. Tail(toServer) \o clientOut = Tail(Up) /\ Up # <<>> /\ Head(Up) = Head(toServer)
        /\ Head(toServer) \in Good
    BY QueueTypes, Taken, Zenon DEF Up
  <1>2. Up \in Seq(Good)
    BY ConcatProperties DEF DataOK, Up
  <1> QED BY <1>1, <1>2 DEF Up, Request

LEMMA AnswerDown ==
    ASSUME DataOK, DataOK', serverOut = <<>>, toClient' = toClient
    PROVE  /\ Down = toClient /\ Down' = Down \o serverOut' /\ Down \in Seq(Good)
           /\ Down = <<>> => Down' = serverOut'
           /\ serverOut' = <<>> => Down' = Down
  <1>1. Down = toClient
    BY ConcatEmptySeq DEF DataOK, Down
  <1>2. <<>> \o serverOut' = serverOut' /\ toClient \o <<>> = toClient
    BY ConcatEmptySeq DEF DataOK
  <1> QED BY <1>1, <1>2, QueueTypes DEF Down

\* The four messages of a fetch.
LEMMA FetchShape ==
    ASSUME NEW h \in Hash, NEW g \in Hash
    PROVE  LET m == FetchMessages(h, g)
           IN  m # <<>> /\ Head(m).type = "FetchRequest" /\ Ends(Tail(m), {"Wanted", "Have"}, "FetchDone")
  <1> DEFINE m == FetchMessages(h, g)
  <1>1. m # <<>> /\ Head(m).type = "FetchRequest"
    BY DEF FetchMessages, Msg
  <1>2. Tail(m) = <<MsgOf("Wanted", h), MsgOf("Have", g), Msg("FetchDone")>>
    BY DEF FetchMessages
  <1>3. Ends(<<MsgOf("Wanted", h), MsgOf("Have", g), Msg("FetchDone")>>, {"Wanted", "Have"}, "FetchDone")
    BY DEF Ends, Msg, MsgOf
  <1> QED BY <1>1, <1>2, <1>3

\* Where the messages of a pack are.
LEMMA PackLayout ==
    ASSUME NEW new \in Commit, NEW from \in Hash
    PROVE  LET p == Pack(new, from)
               n == Count(new, from)
           IN  /\ n \in Nat /\ Len(p) = n + 2 /\ p # <<>>
               /\ p[1] = Msg("PackHeader") /\ p[n + 2] = Msg("StreamEnd")
               /\ \A i \in 1..n : p[i + 1] = Objects(new, from)[i]
  <1> DEFINE o == Objects(new, from)
             p == Pack(new, from)
             n == Count(new, from)
  <1>1. /\ n \in Nat /\ o \in Seq(Good) /\ Len(o) = n
        /\ Msg("PackHeader") \in Good /\ Msg("StreamEnd") \in Good
        /\ p = <<Msg("PackHeader")>> \o o \o <<Msg("StreamEnd")>>
    BY PackObjects
  <1> HIDE DEF o, p, n
  <1>2. /\ Len(p) = Len(o) + 2 /\ p[1] = Msg("PackHeader") /\ p[Len(o) + 2] = Msg("StreamEnd") /\ p # <<>>
        /\ \A i \in 1..Len(o) : p[i + 1] = o[i]
    BY <1>1
  <1>3. /\ n \in Nat /\ Len(p) = n + 2 /\ p # <<>>
        /\ p[1] = Msg("PackHeader") /\ p[n + 2] = Msg("StreamEnd")
        /\ \A i \in 1..n : p[i + 1] = o[i]
    BY <1>1, <1>2, Zenon
  <1> QED BY <1>3 DEF o, p, n

\* The messages of a pack.
LEMMA PackShape ==
    ASSUME NEW new \in Commit, NEW from \in Hash
    PROVE  Ends(Pack(new, from), {"PackHeader", "PackObject"}, "StreamEnd")
  <1> DEFINE p == Pack(new, from)
             n == Count(new, from)
  <1>1. /\ n \in Nat /\ Len(p) = n + 2 /\ p[1] = Msg("PackHeader") /\ p[n + 2] = Msg("StreamEnd")
        /\ p # <<>> /\ \A i \in 1..n : p[i + 1] = Objects(new, from)[i]
    BY PackLayout
  <1>2. \A i \in 1..n : Objects(new, from)[i].type = "PackObject"
    BY DEF Objects, MsgOf
  <1> HIDE DEF p, n
  <1>3. ASSUME NEW i \in 1..Len(p) - 1 PROVE p[i].type \in {"PackHeader", "PackObject"}
    <2>1. CASE i = 1
      BY <1>1, <2>1 DEF Msg
    <2>2. CASE i # 1
      <3>1. i - 1 \in 1..n /\ (i - 1) + 1 = i
        BY <1>1, <1>3, <2>2
      <3> QED BY <1>1, <1>2, <3>1
    <2> QED BY <2>1, <2>2
  <1>4. p[Len(p)].type = "StreamEnd"
    BY <1>1 DEF Msg
  <1>5. Ends(p, {"PackHeader", "PackObject"}, "StreamEnd")
    BY <1>1, <1>3, <1>4 DEF Ends
  <1> QED BY <1>5 DEF p

\* The client's steps keep the turns.
LEMMA ClientTurn ==
    ASSUME DataOK, DataOK', CommandOK, QuietOK, ~lost, spc # "closed", Turn, ClientStep
    PROVE  Turn'
  <1> USE DEF repository, server, connection
  <1>1. ASSUME NEW step, ClientRecv(step)
        PROVE /\ cpc = step /\ clientOut = <<>> /\ toClient # <<>>
              /\ Down # <<>> /\ Head(Down) = Received /\ Received \in Good /\ Down \in Seq(Good)
              /\ toClient' = Tail(toClient) /\ serverOut' = serverOut => Down' = Tail(Down)
              /\ toServer' = toServer /\ clientOut' = clientOut => Up' = Up
              /\ Up = <<>> /\ toServer' = toServer => Up' = clientOut'
    BY <1>1, ReadDown DEF ClientRecv, Up
  <1>2. ASSUME NEW r, Finish(r), Fresh, Up = <<>> PROVE Turn'
    <2>1. cpc' = "idle" /\ spc' = spc /\ Up' = Up
      BY <1>2 DEF Finish, Up
    <2> QED BY <1>2, <2>1 DEF Turn, Fresh
  <1>3. CASE ClientSend
    <2>1. Up' = Up /\ Down' = Down
      BY <1>3, SentUp
    <2>2. UNCHANGED <<cpc, spc, call, want>>
      BY <1>3 DEF ClientSend
    <2> QED BY <2>1, <2>2 DEF Turn, Fresh
  <1>4. ~ClientCut
    BY DEF ClientCut
  <1>5. CASE ReadRefs
    <2>1. /\ cpc = "list" /\ Down # <<>> /\ Head(Down) = Received /\ Down \in Seq(Good)
          /\ toClient' = Tail(toClient) /\ serverOut' = serverOut => Down' = Tail(Down)
          /\ toServer' = toServer /\ clientOut' = clientOut => Up' = Up
          /\ Up = <<>> /\ toServer' = toServer => Up' = clientOut'
      BY <1>1, <1>5 DEF ReadRefs
    <2>2. /\ Up = <<>>
          /\ \/ spc = "refs" /\ All(Down, {"RefLine"})
             \/ spc = "main" /\ Ends(Down, {"RefLine"}, "StreamEnd")
      BY <2>1 DEF Turn
    <2>3. CASE spc = "refs" /\ All(Down, {"RefLine"})
      <3>1. Received.type = "RefLine" /\ All(Tail(Down), {"RefLine"})
        BY <2>1, <2>3, AllTail
      <3>2. TakeLine
        BY <1>5, <3>1, ReadRefsCases DEF TakeEnd, AskClone
      <3>3. Up' = <<>> /\ Down' = Tail(Down) /\ cpc' = "list" /\ spc' = "refs"
        BY <2>1, <2>2, <2>3, <3>2 DEF TakeLine
      <3> QED BY <3>1, <3>3 DEF Turn, All
    <2>4. CASE spc = "main" /\ Ends(Down, {"RefLine"}, "StreamEnd")
      <3>1. /\ Received.type \in {"RefLine", "StreamEnd"}
            /\ Received.type = "RefLine" => Ends(Tail(Down), {"RefLine"}, "StreamEnd")
            /\ Received.type = "StreamEnd" => Tail(Down) = <<>>
        BY <2>1, <2>4, EndsTail
      <3>2. CASE TakeLine
        <4>1. /\ Up' = <<>> /\ Down' = Tail(Down) /\ cpc' = "list" /\ spc' = "main"
              /\ Received.type = "RefLine"
          BY <2>1, <2>2, <2>4, <3>2 DEF TakeLine
        <4> QED BY <3>1, <4>1 DEF Turn, Ends
      <3>3. CASE TakeEnd
        <4>1. Up' = <<>> /\ Down' = <<>> /\ cpc' = "next" /\ spc' = "main"
          BY <2>1, <2>2, <2>4, <3>1, <3>3 DEF TakeEnd
        <4> QED BY <4>1 DEF Turn
      <3>4. CASE AskClone
        <4>1. /\ Up' = FetchMessages(Head(lines), Zero) /\ Down' = <<>>
              /\ cpc' = "pack" /\ spc' = "main"
          BY <2>1, <2>2, <2>4, <3>1, <3>4 DEF AskClone
        <4>2. Head(lines) \in Hash
          BY <3>4, RemoteTypes, HeadTailProperties DEF AskClone, DataOK
        <4>3. /\ Up' # <<>> /\ Head(Up').type = "FetchRequest"
              /\ Ends(Tail(Up'), {"Wanted", "Have"}, "FetchDone")
          BY <4>1, <4>2, FetchShape, RemoteTypes
        <4> QED BY <4>1, <4>3 DEF Turn, Ends
      <3>5. CASE Finish("error")
        BY <1>2, <2>2, <2>4, <3>5 DEF Fresh
      <3> QED BY <1>5, <3>1, <3>2, <3>3, <3>4, <3>5, ReadRefsCases
    <2> QED BY <2>2, <2>3, <2>4
  <1>6. CASE FetchNext
    <2>1. spc = "main" /\ Up = <<>> /\ Down = <<>> /\ cpc = "next" /\ clientOut = <<>>
      BY <1>6 DEF FetchNext, Turn, QuietOK
    <2>2. CASE \E r \in {"ok", "error"} : Finish(r)
      BY <1>2, <2>1, <2>2 DEF Fresh
    <2>3. CASE UNCHANGED <<cpc, clientOut, server, connection>>
      <3>1. Up' = Up /\ Down' = Down /\ cpc' = cpc /\ spc' = spc
        BY <2>3 DEF Up, Down
      <3> QED BY <2>1, <3>1 DEF Turn
    <2>4. CASE /\ lines # <<>> /\ clientOut' = FetchMessages(Head(lines), tracked) /\ cpc' = "pack"
               /\ UNCHANGED <<server, connection>>
      <3>1. toServer = <<>> /\ clientOut' \in Seq(Good)
        BY <2>1, ConcatEqualIffEmpty DEF Up, DataOK
      <3>2. Up' = clientOut' /\ Down' = <<>> /\ spc' = "main"
        BY <2>1, <2>4, <3>1, ConcatEmptySeq DEF Up, Down
      <3>3. Head(lines) \in Hash /\ tracked \in Hash
        BY <2>4, RemoteTypes, HeadTailProperties DEF DataOK
      <3>4. /\ Up' # <<>> /\ Head(Up').type = "FetchRequest"
            /\ Ends(Tail(Up'), {"Wanted", "Have"}, "FetchDone")
        BY <2>4, <3>2, <3>3, FetchShape
      <3> QED BY <2>4, <3>2, <3>4 DEF Turn, Ends
    <2> QED BY <1>6, <2>2, <2>3, <2>4 DEF FetchNext
  <1>7. CASE ReadPack
    <2>1. /\ cpc = "pack" /\ Down # <<>> /\ Head(Down) = Received /\ Down \in Seq(Good)
          /\ toClient' = Tail(toClient) /\ serverOut' = serverOut => Down' = Tail(Down)
          /\ toServer' = toServer /\ clientOut' = clientOut => Up' = Up
          /\ Up = <<>> /\ toServer' = toServer => Up' = clientOut'
      BY <1>1, <1>7 DEF ReadPack
    <2>2. Up = <<>> /\ spc = "main" /\ Ends(Down, {"PackHeader"}, "StreamEnd")
      BY <2>1 DEF Turn
    <2>3. /\ Received.type \in {"PackHeader", "StreamEnd"}
          /\ Received.type = "PackHeader" => Ends(Tail(Down), {"PackHeader"}, "StreamEnd")
          /\ Received.type = "StreamEnd" => Tail(Down) = <<>>
      BY <2>1, <2>2, EndsTail
    <2>4. CASE Received.type = "PackHeader"
      <3>1. Ignore
        BY <1>7, <2>4 DEF ReadPack
      <3>2. Up' = <<>> /\ Down' = Tail(Down) /\ cpc' = "pack" /\ spc' = "main"
        BY <2>1, <2>2, <3>1 DEF Ignore, client
      <3> QED BY <2>3, <2>4, <3>2 DEF Turn, Ends
    <2>5. CASE Received.type = "StreamEnd" /\ call # "clone"
      <3>1. Up' = <<>> /\ Down' = <<>> /\ cpc' = "next" /\ spc' = "main"
        BY <1>7, <2>1, <2>2, <2>3, <2>5 DEF ReadPack
      <3> QED BY <3>1 DEF Turn
    <2>6. CASE Received.type = "StreamEnd" /\ call = "clone"
      <3>1. Up' = <<Msg("OK")>> /\ Down' = <<>> /\ cpc' = "checkout" /\ spc' = "main"
        BY <1>7, <2>1, <2>2, <2>3, <2>6 DEF ReadPack
      <3> QED BY <3>1 DEF Turn
    <2> QED BY <2>3, <2>4, <2>5, <2>6
  <1>8. CASE Checkout
    <2>1. /\ cpc = "checkout" /\ call = "clone" /\ spc = "main"
          /\ Up = <<>> \/ Up = <<Msg("OK")>>
      BY <1>8 DEF Checkout, Turn, CommandOK
    <2>2. cpc' = "idle" /\ spc' = spc /\ Up' = Up /\ call' = call
      BY <1>8 DEF Checkout, Finish, Up
    <2> QED BY <2>1, <2>2 DEF Turn, Fresh
  <1>9. CASE PushCheck
    <2>1. Fresh /\ Up = <<>> /\ Down = <<>>
      BY <1>9 DEF PushCheck, Turn
    <2>2. CASE Finish("error")
      BY <1>2, <2>1, <2>2
    <2>3. CASE /\ clientOut' = <<Msg("PushRequest"), MsgOf("UpdateRef", head)>> /\ want' = head
               /\ cpc' = "reply" /\ UNCHANGED <<server, connection>>
      <3>1. toServer = <<>> /\ clientOut' \in Seq(Good)
        BY <2>1, ConcatEqualIffEmpty DEF Up, DataOK
      <3>2. Up' = clientOut' /\ Down' = <<>> /\ spc' = spc
        BY <2>1, <2>3, <3>1, ConcatEmptySeq DEF Up, Down
      <3> QED BY <2>1, <2>3, <3>2 DEF Turn, Fresh
    <2> QED BY <1>9, <2>2, <2>3 DEF PushCheck
  <1>10. CASE PushReply
    <2>1. /\ cpc = "reply" /\ Down # <<>> /\ Head(Down) = Received
          /\ toClient' = Tail(toClient) /\ serverOut' = serverOut => Down' = Tail(Down)
          /\ Up = <<>> /\ toServer' = toServer => Up' = clientOut'
      BY <1>1, <1>10 DEF PushReply
    <2>2. spc = "pack" /\ Up = <<>> /\ Down = <<Msg("WantPack")>>
      BY <2>1 DEF Turn
    <2>3. Received.type = "WantPack" /\ Tail(Down) = <<>>
      BY <2>1, <2>2 DEF Msg
    <2>4. Up' = Pack(want, old) /\ Down' = <<>> /\ cpc' = "ack" /\ spc' = "pack"
      BY <1>10, <2>1, <2>2, <2>3 DEF PushReply
    <2>5. Ends(Up', {"PackHeader", "PackObject"}, "StreamEnd")
      BY <2>1, <2>4, PackShape DEF CommandOK, DataOK
    <2> QED BY <2>4, <2>5 DEF Turn, Ends
  <1>11. CASE PushAck
    <2>1. cpc = "ack" /\ Down # <<>>
      BY <1>1, <1>11 DEF PushAck
    <2>2. spc = "main" /\ Up = <<>>
      BY <2>1 DEF Turn
    <2> QED BY <1>2, <1>11, <2>2 DEF PushAck, Fresh
  <1> QED BY <1>3, <1>4, <1>5, <1>6, <1>7, <1>8, <1>9, <1>10, <1>11 DEF ClientStep

\* The daemon's steps keep the turns.
LEMMA ServerTurn ==
    ASSUME DataOK, DataOK', QuietOK, ~token, ~lost, spc # "closed", Turn, ServerStep
    PROVE  IF spc' = "closed" THEN cpc' = "idle" ELSE Turn'
  <1> USE DEF repository, client, connection
  <1>1. cpc \in ClientSteps
    BY DEF DataOK
  <1>2. ASSUME NEW step, ServerRecv(step)
        PROVE /\ spc = step /\ Up # <<>> /\ Head(Up) = Request /\ Request \in Good
              /\ Up \in Seq(Good) /\ Up' = Tail(Up)
              /\ Down = <<>> => Down' = serverOut'
              /\ UNCHANGED <<cpc, call, want>>
    BY <1>2, ReadUp, AnswerDown DEF ServerRecv
  <1>3. CASE ServerSend
    <2>1. UNCHANGED <<cpc, spc, call, want, toServer, clientOut>>
      BY <1>3 DEF ServerSend
    <2>2. Up' = Up /\ (cpc # "idle" => Down' = Down)
      BY <1>3, <2>1, SentDown DEF Up
    <2> QED BY <2>1, <2>2 DEF Turn, Fresh
  <1>4. CASE Hello
    <2>1. spc = "hello" /\ serverOut = <<>>
      BY <1>4 DEF Hello, QuietOK
    <2>2. spc' = "main" /\ serverOut' = <<>> /\ UNCHANGED <<cpc, call, want, toServer, clientOut, toClient>>
      BY <1>4 DEF Hello, Answer
    <2>3. Up' = Up /\ Down' = Down
      BY <2>1, <2>2 DEF Up, Down
    <2> QED BY <2>1, <2>2, <2>3 DEF Turn, Fresh
  <1>5. ~Authenticate /\ ~Bye
    BY <1>1 DEF Authenticate, ServerRecv, Bye, Turn, Fresh, ClientSteps
  <1>6. CASE HandleConnection
    <2>1. /\ spc = "main" /\ Up # <<>> /\ Head(Up) = Request /\ Up' = Tail(Up)
          /\ Down = <<>> => Down' = serverOut'
          /\ UNCHANGED <<cpc, call, want>>
      BY <1>2, <1>6 DEF HandleConnection
    <2>2. CASE cpc = "idle"
      <3>1. Up = <<Msg("OK")>> /\ call = "clone"
        BY <2>1, <2>2 DEF Turn
      <3>2. Request.type = "OK" /\ Up' = <<>>
        BY <2>1, <3>1 DEF Msg
      <3>3. spc' = "main"
        BY <1>6, <3>2 DEF HandleConnection, Answer
      <3> QED BY <2>1, <2>2, <3>2, <3>3 DEF Turn, Fresh
    <2>3. CASE cpc = "list"
      <3>1. Up = <<Msg("ListRefs")>> /\ Down = <<>>
        BY <2>1, <2>3 DEF Turn
      <3>2. Request.type = "ListRefs" /\ Up' = <<>>
        BY <2>1, <3>1 DEF Msg
      <3>3. spc' = "refs" /\ Down' = <<>>
        BY <1>6, <2>1, <3>1, <3>2 DEF HandleConnection, Answer
      <3>4. All(Down', {"RefLine"})
        BY <3>3 DEF All
      <3> QED BY <2>1, <2>3, <3>2, <3>3, <3>4 DEF Turn, All
    <2>4. CASE cpc = "pack"
      <3>1. /\ Request.type = "FetchRequest" /\ Down = <<>>
            /\ Ends(Up', {"Wanted", "Have"}, "FetchDone")
        BY <2>1, <2>4 DEF Turn
      <3>2. spc' = "fetch" /\ Down' = <<>>
        BY <1>6, <2>1, <3>1 DEF HandleConnection, Answer
      <3> QED BY <2>1, <2>4, <3>1, <3>2 DEF Turn, Ends
    <2>5. CASE cpc = "checkout"
      <3>1. Up = <<Msg("OK")>> /\ Down = <<>>
        BY <2>1, <2>5 DEF Turn
      <3>2. Request.type = "OK" /\ Up' = <<>>
        BY <2>1, <3>1 DEF Msg
      <3>3. spc' = "main" /\ Down' = <<Msg("Error")>>
        BY <1>6, <2>1, <3>1, <3>2 DEF HandleConnection, Answer
      <3> QED BY <2>1, <2>5, <3>2, <3>3 DEF Turn
    <2>6. CASE cpc = "reply"
      <3>1. Up = <<Msg("PushRequest"), MsgOf("UpdateRef", want)>> /\ Down = <<>>
        BY <2>1, <2>6 DEF Turn
      <3>2. Request.type = "PushRequest" /\ Up' = <<MsgOf("UpdateRef", want)>>
        BY <2>1, <3>1 DEF Msg
      <3>3. spc' = "push" /\ Down' = <<>>
        BY <1>6, <2>1, <3>1, <3>2 DEF HandleConnection, Answer
      <3> QED BY <2>1, <2>6, <3>2, <3>3 DEF Turn
    <2>7. cpc \notin {"check", "next", "ack"}
      BY <2>1 DEF Turn
    <2> QED BY <1>1, <2>2, <2>3, <2>4, <2>5, <2>6, <2>7 DEF ClientSteps
  <1>7. CASE ListRefs
    <2>1. /\ spc = "refs" /\ serverOut = <<>>
          /\ UNCHANGED <<cpc, call, want, toServer, clientOut, toClient>>
      BY <1>7 DEF ListRefs
    <2>2. cpc = "list" /\ Up = <<>> /\ All(Down, {"RefLine"})
      BY <1>1, <2>1 DEF Turn, Fresh, ClientSteps
    <2>3. /\ Up' = <<>> /\ Down' = Down \o serverOut' /\ Down \in Seq(Good)
          /\ serverOut' = <<>> => Down' = Down
      BY <2>1, <2>2, AnswerDown DEF Up
    <2>4. ASSUME NEW r \in todo,
                 Answer("refs", IF heads[r] = Zero THEN <<>> ELSE <<MsgOf("RefLine", heads[r])>>)
          PROVE Turn'
      <3>1. CASE heads[r] = Zero
        BY <2>1, <2>2, <2>3, <2>4, <3>1 DEF Turn, Answer, All
      <3>2. CASE heads[r] # Zero
        <4>1. serverOut' = <<MsgOf("RefLine", heads[r])>> /\ spc' = "refs"
          BY <2>4, <3>2 DEF Answer
        <4>2. MsgOf("RefLine", heads[r]) \in Good
          BY <2>4, <3>2, GoodMessages DEF DataOK
        <4>3. MsgOf("RefLine", heads[r]).type = "RefLine"
          BY DEF MsgOf
        <4>4. All(Down', {"RefLine"})
          BY <2>2, <2>3, <4>1, <4>2, <4>3, AllAppend
        <4> QED BY <2>1, <2>2, <2>3, <4>1, <4>4 DEF Turn, All
      <3> QED BY <3>1, <3>2
    <2>5. CASE Answer("main", <<Msg("StreamEnd")>>)
      <3>1. Msg("StreamEnd") \in Good /\ Msg("StreamEnd").type = "StreamEnd"
        BY GoodMessages, RemoteTypes DEF Type, Msg
      <3>2. serverOut' = <<Msg("StreamEnd")>> /\ spc' = "main"
        BY <2>5 DEF Answer
      <3>3. Ends(Down', {"RefLine"}, "StreamEnd")
        BY <2>2, <2>3, <3>1, <3>2, AllAppend
      <3> QED BY <2>1, <2>2, <2>3, <3>2, <3>3 DEF Turn, Ends
    <2>6. spc' # "closed"
      BY <1>7 DEF ListRefs, Answer
    <2> QED BY <1>7, <2>4, <2>5, <2>6 DEF ListRefs
  <1>8. CASE HandleFetch
    <2>1. /\ spc = "fetch" /\ Up # <<>> /\ Head(Up) = Request /\ Up \in Seq(Good) /\ Up' = Tail(Up)
          /\ Down = <<>> => Down' = serverOut'
          /\ UNCHANGED <<cpc, call, want>>
      BY <1>2, <1>8 DEF HandleFetch
    <2>2. cpc = "pack" /\ Down = <<>> /\ Ends(Up, {"Wanted", "Have"}, "FetchDone")
      BY <1>1, <2>1 DEF Turn, Fresh, ClientSteps
    <2>3. /\ Request.type # "FetchDone" => Ends(Tail(Up), {"Wanted", "Have"}, "FetchDone")
          /\ Request.type = "FetchDone" => Tail(Up) = <<>>
      BY <2>1, <2>2, EndsTail
    <2>4. CASE Request.type = "FetchDone"
      <3>1. spc' = "main" /\ Down' = <<Msg("PackHeader"), Msg("StreamEnd")>> /\ Up' = <<>>
        BY <1>8, <2>1, <2>2, <2>3, <2>4 DEF HandleFetch, Answer
      <3>2. Ends(Down', {"PackHeader"}, "StreamEnd")
        BY <3>1 DEF Ends, Msg
      <3> QED BY <2>1, <2>2, <3>1, <3>2 DEF Turn, Ends
    <2>5. CASE Request.type # "FetchDone"
      <3>1. spc' = "fetch" /\ Down' = <<>>
        BY <1>8, <2>1, <2>2, <2>5 DEF HandleFetch, Answer
      <3>2. Ends(Up', {"Wanted", "Have"}, "FetchDone")
        BY <2>1, <2>3, <2>5
      <3> QED BY <2>1, <2>2, <3>1, <3>2 DEF Turn, Ends
    <2> QED BY <2>4, <2>5
  <1>9. CASE HandlePush
    <2>1. /\ spc = "push" /\ Head(Up) = Request /\ Up' = Tail(Up)
          /\ Down = <<>> => Down' = serverOut'
          /\ UNCHANGED <<cpc, call, want>>
      BY <1>2, <1>9 DEF HandlePush
    <2>2. cpc = "reply" /\ Up = <<MsgOf("UpdateRef", want)>> /\ Down = <<>>
      BY <1>1, <2>1 DEF Turn, Fresh, ClientSteps
    <2>3. Request.type = "UpdateRef" /\ Up' = <<>>
      BY <2>1, <2>2 DEF MsgOf
    <2>4. spc' = "pack" /\ Down' = <<Msg("WantPack")>>
      BY <1>9, <2>1, <2>2, <2>3 DEF HandlePush, Answer
    <2> QED BY <2>1, <2>2, <2>3, <2>4 DEF Turn
  <1>10. CASE ReceivePack
    <2>1. /\ spc = "pack" /\ Up # <<>> /\ Head(Up) = Request /\ Up \in Seq(Good) /\ Up' = Tail(Up)
          /\ Down = <<>> => Down' = serverOut'
          /\ UNCHANGED <<cpc, call, want>>
      BY <1>2, <1>10 DEF ReceivePack
    <2>2. cpc = "ack" /\ Down = <<>> /\ Ends(Up, {"PackHeader", "PackObject"}, "StreamEnd")
      BY <1>1, <2>1 DEF Turn, Fresh, ClientSteps
    <2>3. /\ Request.type # "StreamEnd" => Ends(Tail(Up), {"PackHeader", "PackObject"}, "StreamEnd")
          /\ Request.type = "StreamEnd" => Tail(Up) = <<>>
      BY <2>1, <2>2, EndsTail
    <2>4. CASE Request.type = "StreamEnd"
      <3>1. spc' = "main" /\ Down' = <<Msg("OK")>> /\ Up' = <<>>
        BY <1>10, <2>1, <2>2, <2>3, <2>4 DEF ReceivePack, Answer
      <3> QED BY <2>1, <2>2, <3>1 DEF Turn
    <2>5. CASE Request.type # "StreamEnd"
      <3>1. spc' = "pack" /\ Down' = <<>>
        BY <1>10, <2>1, <2>2, <2>5 DEF ReceivePack, Answer
      <3>2. Ends(Up', {"PackHeader", "PackObject"}, "StreamEnd")
        BY <2>1, <2>3, <2>5
      <3> QED BY <2>1, <2>2, <3>1, <3>2 DEF Turn, Ends
    <2> QED BY <2>4, <2>5
  <1>11. CASE HandlerCut
    BY <1>11 DEF HandlerCut
  <1> QED BY <1>3, <1>4, <1>5, <1>6, <1>7, <1>8, <1>9, <1>10, <1>11 DEF ServerStep

LEMMA TurnKeeps ==
    ASSUME DataOK, DataOK', CommandOK, QuietOK, TurnOK, [Next]_vars PROVE TurnOK'
  <1> USE DEF repository, client, server, connection
  <1>1. SUFFICES ASSUME ~token', ~lost' PROVE IF spc' = "closed" THEN cpc' = "idle" ELSE Turn'
    BY DEF TurnOK
  <1>2. ASSUME NEW c \in Calls, Call(c) PROVE Turn' /\ spc' # "closed"
    <2>1. /\ spc' = "hello" /\ toServer' = <<>> /\ toClient' = <<>> /\ serverOut' = serverOut
          /\ serverOut = <<>> /\ cpc' \in {"check", "list"}
      BY <1>2 DEF Call, Begin, QuietOK
    <2>2. Up' = clientOut' /\ Down' = <<>>
      BY <2>1, ConcatEmptySeq DEF Up, Down, DataOK
    <2>3. \/ cpc' = "check" /\ clientOut' = <<>>
          \/ cpc' = "list" /\ clientOut' = <<Msg("ListRefs")>>
      BY <1>2 DEF Call, Begin
    <2> QED BY <2>1, <2>2, <2>3 DEF Turn, Fresh
  <1>3. CASE ClientStep
    <2>1. UNCHANGED <<spc, lost, token>>
      BY <1>3 DEF ClientStep, ClientSend, ClientCut, ReadRefs, FetchNext, ReadPack, Checkout,
                  PushCheck, PushReply, PushAck, Finish, Ignore
    <2>2. CASE spc = "closed"
      <3>1. cpc = "idle" /\ clientOut = <<>>
        BY <1>1, <2>1, <2>2 DEF TurnOK, QuietOK
      <3> QED BY <1>3, <3>1 DEF ClientStep, ClientSend, ClientCut, ReadRefs, FetchNext, ReadPack,
                  Checkout, PushCheck, PushReply, PushAck, ClientRecv
    <2>3. CASE spc # "closed"
      BY <1>1, <1>3, <2>1, <2>3, ClientTurn DEF TurnOK
    <2> QED BY <2>2, <2>3
  <1>4. CASE ServerStep
    <2>1. UNCHANGED <<lost, token>>
      BY <1>4 DEF ServerStep, ServerSend, Hello, Authenticate, Bye, HandleConnection, ListRefs,
                  HandleFetch, HandlePush, ReceivePack, HandlerCut, ServerRecv
    <2>2. spc # "closed"
      BY <1>4 DEF ServerStep, ServerSend, Hello, Authenticate, Bye, HandleConnection, ListRefs,
                  HandleFetch, HandlePush, ReceivePack, HandlerCut, ServerRecv, QuietOK
    <2> QED BY <1>1, <1>4, <2>1, <2>2, ServerTurn DEF TurnOK
  <1>5. CASE \/ \E c \in Calls : CallRefused(c)
             \/ LocalCommit \/ ServerCommit \/ UNCHANGED vars
    <2>1. UNCHANGED <<lost, token, spc, cpc, want, toServer, clientOut, toClient, serverOut>>
      BY <1>5 DEF CallRefused, LocalCommit, ServerCommit, vars
    <2>2. Up' = Up /\ Down' = Down
      BY <2>1 DEF Up, Down
    <2>3. CASE spc = "closed"
      BY <1>1, <2>1, <2>3 DEF TurnOK
    <2>4. CASE spc # "closed"
      <3>1. call' = call
        BY <1>5, <2>4 DEF CallRefused, LocalCommit, ServerCommit, vars
      <3>2. Turn
        BY <1>1, <2>1, <2>4 DEF TurnOK
      <3> QED BY <2>1, <2>2, <2>4, <3>1, <3>2 DEF Turn, Fresh
    <2> QED BY <2>3, <2>4
  <1>6. ~Lose
    BY <1>1 DEF Lose
  <1> QED BY <1>2, <1>3, <1>4, <1>5, <1>6 DEF Next

-----------------------------------------------------------------------------
(* What a push has sent *)

\* The pack has every commit that the remote-tracking one does not reach.
LEMMA PackHolds ==
    ASSUME DataOK, PushSendsAll, NEW new \in Commit, new.of = "local",
           NEW n \in 1..new.seq, Local(n) \notin got
    PROVE  \E i \in 1..Len(Pack(new, tracked)) :
              Pack(new, tracked)[i] = MsgOf("PackObject", Local(n))
  <1> DEFINE k == new.seq + 1 - n
  <1>1. tracked \in Hash /\ tracked.seq \in Nat /\ new.seq \in Nat
    BY DEF DataOK, Hash, Commit, Zero
  <1>2. ~(tracked.of = new.of /\ n <= tracked.seq)
    BY <1>1 DEF PushSendsAll, Local
  <1>3. k \in 1..Count(new, tracked) /\ Count(new, tracked) \in Nat
    BY <1>1, <1>2, PackObjects
  <1>4. [new EXCEPT !.seq = new.seq + 1 - k] = Local(n)
    BY <1>1 DEF Local, Commit
  <1>5. Objects(new, tracked)[k] = MsgOf("PackObject", Local(n))
    BY <1>3, <1>4 DEF Objects
  <1>6. /\ Len(Pack(new, tracked)) = Count(new, tracked) + 2
        /\ \A i \in 1..Count(new, tracked) : Pack(new, tracked)[i + 1] = Objects(new, tracked)[i]
    BY <1>1, PackLayout
  <1>7. k + 1 \in 1..Count(new, tracked) + 2
    BY <1>3
  <1> HIDE DEF k
  <1> QED BY <1>3, <1>5, <1>6, <1>7

LEMMA SendingKeeps == ASSUME IInv, DataOK', [Next]_vars PROVE SendingOK'
  <1> USE DEF repository, client, server, connection
  <1>1. SUFFICES ASSUME cpc' = "ack", ~lost', NEW n \in 1..want'.seq, Local(n) \notin got'
                 PROVE \E i \in 1..Len(Up') : Up'[i] = MsgOf("PackObject", Local(n))
    BY DEF SendingOK
  <1>2. cpc \in {"reply", "ack"} /\ ~token /\ ~lost => spc # "closed" /\ Turn
    BY DEF IInv, TurnOK
  <1>3. CASE PushReply
    <2>1. /\ cpc = "reply" /\ ~lost /\ toClient # <<>> /\ clientOut = <<>>
          /\ Received.type = "WantPack"
      BY <1>1, <1>3 DEF PushReply, ClientRecv, Finish
    <2>2. UNCHANGED <<want, got, toServer>> /\ clientOut' = Pack(want, old)
      BY <1>3, <2>1 DEF PushReply
    <2>3. ~token
      <3>1. token => toClient \in Seq(Refusal)
        BY DEF IInv, RefusalOK
      <3> QED BY <2>1, <3>1, HeadTailProperties DEF Refusal, Received
    <2>4. want \in Commit /\ want.of = "local" /\ old = tracked
      BY <2>1 DEF IInv, CommandOK, DataOK
    <2>5. Down # <<>> /\ (Up = <<>> => Up' = clientOut')
      BY <2>1, <2>2, ReadDown DEF IInv
    <2>6. Up = <<>>
      BY <1>2, <2>1, <2>3, <2>5 DEF Turn
    <2> QED BY <1>1, <2>2, <2>4, <2>5, <2>6, PackHolds DEF IInv
  <1>4. CASE cpc = "ack" /\ ~lost
    <2>1. /\ ~token /\ spc # "closed" /\ Turn
          /\ \/ spc = "pack" /\ Ends(Up, {"PackHeader", "PackObject"}, "StreamEnd")
             \/ spc = "main" /\ Up = <<>>
      <3>1. ~token
        BY <1>4 DEF IInv, RefusalOK
      <3> QED BY <1>2, <1>4, <3>1 DEF Turn
    <2>2. ASSUME UNCHANGED <<want, got>>, Up' = Up
          PROVE \E i \in 1..Len(Up') : Up'[i] = MsgOf("PackObject", Local(n))
      BY <1>1, <1>4, <2>2 DEF IInv, SendingOK
    <2>3. CASE ClientSend
      BY <1>4, <2>1, <2>2, <2>3, SentUp DEF IInv, ClientSend
    <2>4. CASE ServerSend
      BY <1>4, <2>2, <2>4, SentDown DEF IInv, ServerSend
    <2>5. CASE ReceivePack
      <3>1. /\ Up # <<>> /\ Head(Up) = Request /\ Up \in Seq(Good) /\ Up' = Tail(Up)
            /\ UNCHANGED want
        BY <2>5, ReadUp DEF ReceivePack, ServerRecv, IInv
      <3>2. PICK i \in 1..Len(Up) : Up[i] = MsgOf("PackObject", Local(n))
        <4>1. Local(n) \notin got
          BY <1>1, <2>5 DEF ReceivePack
        <4> QED BY <1>1, <1>4, <3>1, <4>1 DEF IInv, SendingOK
      <3>3. i # 1
        <4>1. SUFFICES ASSUME i = 1 PROVE FALSE
          OBVIOUS
        <4>2. Request = MsgOf("PackObject", Local(n))
          BY <3>1, <3>2, <4>1
        <4> QED BY <1>1, <2>5, <4>2 DEF ReceivePack, MsgOf
      <3>4. Len(Tail(Up)) = Len(Up) - 1 /\ Len(Up) \in Nat /\ \A j \in 1..Len(Up) - 1 : Tail(Up)[j] = Up[j + 1]
        BY <3>1, HeadTailProperties
      <3>5. i - 1 \in 1..Len(Tail(Up)) /\ Tail(Up)[i - 1] = Up[i]
        BY <3>3, <3>4
      <3> QED BY <3>1, <3>2, <3>5
    <2>6. ~HandleConnection
      <3>1. HandleConnection => spc = "main" /\ Up # <<>>
        BY ReadUp DEF HandleConnection, ServerRecv, IInv
      <3> QED BY <2>1, <3>1
    <2>7. CASE HandlerCut \/ LocalCommit \/ ServerCommit \/ UNCHANGED vars
      <3>1. UNCHANGED <<want, got, toServer, clientOut>>
        BY <2>7 DEF HandlerCut, LocalCommit, ServerCommit, vars
      <3> QED BY <2>2, <3>1 DEF Up
    <2>8. ~Hello /\ ~Authenticate /\ ~Bye /\ ~ListRefs /\ ~HandleFetch /\ ~HandlePush
      BY <2>1 DEF Hello, Authenticate, Bye, ListRefs, HandleFetch, HandlePush, ServerRecv
    <2>9. ~ReadRefs /\ ~FetchNext /\ ~ReadPack /\ ~Checkout /\ ~PushCheck /\ ~PushReply
      BY <1>4 DEF ReadRefs, FetchNext, ReadPack, Checkout, PushCheck, PushReply, ClientRecv
    <2>10. ~ClientCut /\ ~PushAck /\ ~Lose
      BY <1>1 DEF ClientCut, PushAck, Finish, Lose
    <2>11. \A c \in Calls : ~Call(c) /\ ~CallRefused(c)
      BY <1>4 DEF Call, CallRefused
    <2> QED BY <2>3, <2>4, <2>5, <2>6, <2>7, <2>8, <2>9, <2>10, <2>11 DEF Next, ClientStep, ServerStep
  <1>5. (cpc = "ack" /\ ~lost) \/ PushReply
    BY <1>1 DEF Next, ClientStep, ServerStep, ClientSend, ClientCut, ReadRefs, FetchNext, ReadPack,
           Checkout, PushCheck, PushAck, Finish, Ignore, ServerSend, Hello, Authenticate, Bye,
           HandleConnection, ListRefs, HandleFetch, HandlePush, ReceivePack, HandlerCut, ServerRecv,
           Call, CallRefused, Begin, Lose, LocalCommit, ServerCommit, vars
  <1> QED BY <1>3, <1>4, <1>5

LEMMA PushSendsAllKeeps == ASSUME IInv, DataOK', [Next]_vars PROVE PushSendsAll'
  <1> USE DEF repository, client, server, connection
  <1>1. got \subseteq got'
    BY DEF Next, ClientStep, ServerStep, ClientSend, ClientCut, ReadRefs, FetchNext, ReadPack,
           Checkout, PushCheck, PushReply, PushAck, Finish, Ignore, ServerSend, Hello, Authenticate,
           Bye, HandleConnection, ListRefs, HandleFetch, HandlePush, ReceivePack, HandlerCut,
           ServerRecv, Call, CallRefused, Lose, LocalCommit, ServerCommit, vars
  <1>2. CASE tracked' = tracked
    BY <1>1, <1>2 DEF IInv, PushSendsAll
  <1>3. CASE ReadPack /\ tracked' = want
    <2>1. want \in RemoteCommit
      BY <1>3 DEF ReadPack, ClientRecv, IInv, CommandOK
    <2>2. want.of # "local"
      BY <2>1, RemoteTypes
    <2> QED BY <1>3, <2>2 DEF PushSendsAll
  <1>4. CASE PushAck /\ tracked' = want
    <2>1. cpc = "ack" /\ toClient # <<>> /\ clientOut = <<>> /\ ~token /\ ~lost
      BY <1>4 DEF PushAck, ClientRecv, IInv, RefusalOK, QuietOK
    <2>2. Down # <<>> /\ spc # "closed" /\ Turn
      BY <2>1, ReadDown DEF IInv, TurnOK
    <2>3. Up = <<>>
      BY <2>1, <2>2 DEF Turn
    <2>4. \A n \in 1..want.seq : Local(n) \in got
      BY <2>1, <2>3, EmptySeq DEF IInv, SendingOK
    <2> QED BY <1>1, <1>4, <2>4 DEF PushSendsAll, Local
  <1> QED BY <1>2, <1>3, <1>4
          DEF Next, ClientStep, ServerStep, ClientSend, ClientCut, ReadRefs, FetchNext, ReadPack,
           Checkout, PushCheck, PushReply, PushAck, Finish, Ignore, ServerSend, Hello, Authenticate,
           Bye, HandleConnection, ListRefs, HandleFetch, HandlePush, ReceivePack, HandlerCut,
           ServerRecv, Call, CallRefused, Lose, LocalCommit, ServerCommit, vars

-----------------------------------------------------------------------------
(* Theorems *)

LEMMA InitOK == Init => IInv
  <1> SUFFICES ASSUME Init PROVE IInv
    OBVIOUS
  <1>1. DataOK
    <2>1. /\ lines \in Seq(RemoteCommit) /\ clientOut \in Seq(Good) /\ serverOut \in Seq(Good)
          /\ toServer \in Seq(Good) /\ Len(toServer) <= Cap
          /\ toClient \in Seq(Good) /\ Len(toClient) <= Cap
      BY EmptyQueue DEF Init
    <2>2. Zero \in Hash /\ Zero.of = "local"
      BY RemoteTypes
    <2>3. /\ head \in Hash /\ head.of = "local" /\ tracked \in Hash /\ want \in Hash /\ old \in Hash
          /\ held \subseteq Commit /\ shown \subseteq Commit /\ got \subseteq Commit /\ todo \subseteq Repos
      BY <2>2 DEF Init
    <2>4. copy \in [head : Hash, tracked : Hash, held : SUBSET Commit]
      BY <2>2 DEF Init
    <2>5. heads \in [Repos -> RemoteCommit \cup {Zero}]
      BY DEF Init
    <2>6. calls \in 0..MaxCalls
      BY BoundsAssumption DEF Init
    <2>7. /\ call \in Calls \cup {"none"} /\ cpc \in ClientSteps /\ result \in {"none", "ok", "error"}
          /\ spc \in ServerSteps /\ lost \in BOOLEAN /\ token \in BOOLEAN
      BY DEF Init, ClientSteps, ServerSteps
    <2> QED BY <2>1, <2>3, <2>4, <2>5, <2>6, <2>7 DEF DataOK
  <1>2. CommandOK /\ QuietOK /\ RefusalOK /\ TurnOK /\ SendingOK
    BY DEF Init, CommandOK, QuietOK, RefusalOK, TurnOK, SendingOK
  <1>3. PushSendsAll
    BY DEF Init, PushSendsAll, Zero
  <1> QED BY <1>1, <1>2, <1>3 DEF IInv

LEMMA StepKeeps == IInv /\ [Next]_vars => IInv'
  <1> SUFFICES ASSUME IInv, [Next]_vars PROVE IInv'
    OBVIOUS
  <1>1. DataOK'
    BY ClientData, ServerData, OtherData DEF IInv, Next
  <1>2. CommandOK' /\ QuietOK' /\ RefusalOK' /\ TurnOK' /\ SendingOK' /\ PushSendsAll'
    BY <1>1, CommandKeeps, QuietKeeps, RefusalKeeps, TurnKeeps, SendingKeeps, PushSendsAllKeeps DEF IInv
  <1> QED BY <1>1, <1>2 DEF IInv

LEMMA AlwaysIInv == Spec => []IInv
  <1> QED BY InitOK, StepKeeps, PTL DEF Spec

\* Every variable keeps its type, no direction of a connection holds more than
\* Cap messages, and what is pushed is a commit of the client's.
THEOREM TypeCorrect == Spec => []TypeOK
  <1>1. IInv => TypeOK
    <2> SUFFICES ASSUME IInv PROVE TypeOK
      OBVIOUS
    <2>1. Seq(RemoteCommit) \subseteq Seq(Commit) /\ Seq(Good) \subseteq Seq(Message)
      BY RemoteTypes, SeqMonotonic DEF Good
    <2>2. heads \in [Repos -> Hash]
      BY RemoteTypes DEF IInv, DataOK
    <2> QED BY <2>1, <2>2 DEF IInv, DataOK, CommandOK, TypeOK
  <1> QED BY <1>1, AlwaysIInv, PTL

\* A push that moved the remote-tracking HEAD has put every commit up to that one
\* into the daemon's hands.
THEOREM HistorySent == Spec => []PushSendsAll
  <1>1. IInv => PushSendsAll
    BY DEF IInv
  <1> QED BY <1>1, AlwaysIInv, PTL

\* Where the daemon asks for no token, each end reads what it waits for.
THEOREM StayInStep == Spec => []InStep
  <1>1. IInv => InStep
    <2> SUFFICES ASSUME IInv, ~token PROVE InStep
      BY DEF InStep
    <2>1. ASSUME toClient # <<>>, clientOut = <<>>
          PROVE LET m == Received.type IN
                CASE cpc = "list" -> m \in {"RefLine", "StreamEnd"}
                  [] cpc = "pack" -> m \in {"PackHeader", "StreamEnd"}
                  [] cpc = "reply" -> m = "WantPack"
                  [] cpc = "ack" -> m = "OK"
                  [] cpc = "checkout" -> m = "Error"
                  [] OTHER -> FALSE
      <3>1. ~lost /\ cpc # "idle" /\ spc # "closed" /\ Turn
        BY <2>1 DEF IInv, QuietOK, TurnOK
      <3>2. Down # <<>> /\ Head(Down) = Received /\ Down \in Seq(Good)
        <4>1. Down # <<>> /\ Head(Down) = Head(toClient)
          BY <2>1, QueueTypes, Taken, Zenon DEF IInv, Down
        <4>2. Down \in Seq(Good)
          BY QueueTypes, ConcatProperties DEF IInv, Down
        <4> QED BY <4>1, <4>2 DEF Received
      <3>3. cpc \in ClientSteps
        BY DEF IInv, DataOK
      <3>4. CASE cpc = "list"
        <4>1. All(Down, {"RefLine"}) \/ Ends(Down, {"RefLine"}, "StreamEnd")
          BY <3>1, <3>2, <3>4 DEF Turn
        <4>2. Received.type \in {"RefLine", "StreamEnd"}
          BY <3>2, <4>1, AllTail, EndsTail
        <4> QED BY <3>4, <4>2
      <3>5. CASE cpc = "pack"
        <4>1. Ends(Down, {"PackHeader"}, "StreamEnd")
          BY <3>1, <3>2, <3>5 DEF Turn
        <4>2. Received.type \in {"PackHeader", "StreamEnd"}
          BY <3>2, <4>1, EndsTail
        <4> QED BY <3>5, <4>2
      <3>6. CASE cpc \in {"reply", "ack", "checkout"}
        BY <3>1, <3>2, <3>6 DEF Turn, Msg
      <3>7. cpc \notin {"check", "next"}
        BY <3>1, <3>2 DEF Turn
      <3> QED BY <3>1, <3>3, <3>4, <3>5, <3>6, <3>7 DEF ClientSteps
    <2>2. ASSUME toServer # <<>>, serverOut = <<>>
          PROVE LET m == Request.type IN
                CASE spc = "main" -> \/ m \in {"ListRefs", "FetchRequest", "PushRequest"}
                                     \/ m = "OK" /\ call = "clone"
                  [] spc = "fetch" -> m \in {"Wanted", "Have", "FetchDone"}
                  [] spc = "push" -> m = "UpdateRef"
                  [] spc = "pack" -> m \in {"PackHeader", "PackObject", "StreamEnd"}
                  [] OTHER -> spc = "hello"
      <3>1. ~lost /\ spc # "closed" /\ Turn /\ cpc \in ClientSteps
        BY <2>2 DEF IInv, QuietOK, TurnOK, DataOK
      <3>2. Up # <<>> /\ Head(Up) = Request /\ Up \in Seq(Good)
        <4>1. Up # <<>> /\ Head(Up) = Head(toServer)
          BY <2>2, QueueTypes, Taken, Zenon DEF IInv, Up
        <4>2. Up \in Seq(Good)
          BY QueueTypes, ConcatProperties DEF IInv, Up
        <4> QED BY <4>1, <4>2 DEF Request
      <3>3. CASE spc = "main"
        <4>1. cpc \in {"idle", "checkout", "list", "pack", "reply"}
          BY <3>1, <3>2, <3>3 DEF Turn, ClientSteps
        <4>2. CASE cpc \in {"idle", "checkout"}
          <5>1. call = "clone" /\ Up = <<Msg("OK")>>
            BY <3>1, <3>2, <4>2 DEF Turn, IInv, CommandOK
          <5> QED BY <3>2, <3>3, <5>1 DEF Msg
        <4>3. CASE cpc \in {"list", "pack", "reply"}
          <5>1. Request.type \in {"ListRefs", "FetchRequest", "PushRequest"}
            BY <3>1, <3>2, <3>3, <4>3 DEF Turn, Msg
          <5> QED BY <3>3, <5>1
        <4> QED BY <4>1, <4>2, <4>3
      <3>4. CASE spc = "fetch"
        <4>1. Ends(Up, {"Wanted", "Have"}, "FetchDone")
          BY <3>1, <3>4 DEF Turn, Fresh, ClientSteps
        <4>2. Request.type \in {"Wanted", "Have", "FetchDone"}
          BY <3>2, <4>1, EndsTail
        <4> QED BY <3>4, <4>2
      <3>5. CASE spc = "push"
        <4>1. Up = <<MsgOf("UpdateRef", want)>>
          BY <3>1, <3>5 DEF Turn, Fresh, ClientSteps
        <4> QED BY <3>2, <3>5, <4>1 DEF MsgOf
      <3>6. CASE spc = "pack"
        <4>1. Ends(Up, {"PackHeader", "PackObject"}, "StreamEnd")
          BY <3>1, <3>2, <3>6 DEF Turn, Fresh, ClientSteps
        <4>2. Request.type \in {"PackHeader", "PackObject", "StreamEnd"}
          BY <3>2, <4>1, EndsTail
        <4> QED BY <3>6, <4>2
      <3>7. spc \in {"hello", "main", "fetch", "push", "pack"}
        BY <3>1, <3>2 DEF Turn, Fresh, ClientSteps
      <3> QED BY <3>3, <3>4, <3>5, <3>6, <3>7
    <2> QED BY <2>1, <2>2 DEF InStep
  <1> QED BY <1>1, AlwaysIInv, PTL

\* Where the daemon asks for no token, a push that returns without an error has
\* been acknowledged and recorded.
THEOREM PushesTold == Spec => PushTold
  <1>1. IInv /\ [Next]_vars => [~token => Told]_vars
    <2> SUFFICES ASSUME IInv, Next, ~token, call = "push", cpc # "idle", cpc' = "idle", result' = "ok"
                 PROVE cpc = "ack" /\ tracked' = want
      BY DEF Told
    <2> USE DEF repository, client, server, connection
    <2>1. ~PushReply
      <3>1. SUFFICES ASSUME PushReply PROVE FALSE
        OBVIOUS
      <3>2. cpc = "reply" /\ toClient # <<>> /\ clientOut = <<>>
        BY <3>1 DEF PushReply, ClientRecv
      <3>3. ~lost /\ spc # "closed" /\ Turn
        BY <3>2 DEF IInv, QuietOK, TurnOK
      <3>4. Down # <<>> /\ Head(Down) = Received
        BY <3>2, QueueTypes, Taken, Zenon DEF IInv, Down, Received
      <3>5. Received.type = "WantPack"
        BY <3>2, <3>3, <3>4 DEF Turn, Msg
      <3> QED BY <3>1, <3>5 DEF PushReply
    <2>2. cpc \in {"check", "reply", "ack"}
      BY DEF IInv, DataOK, CommandOK, ClientSteps
    <2>3. cpc = cpc' => FALSE
      OBVIOUS
    <2>4. CASE \E c \in Calls : Call(c) \/ CallRefused(c)
      BY <2>4 DEF Call, CallRefused
    <2>5. CASE ServerStep
      BY <2>5, <2>3 DEF ServerStep, ServerSend, Hello, Authenticate, Bye, HandleConnection, ListRefs,
               HandleFetch, HandlePush, ReceivePack, HandlerCut, ServerRecv
    <2>6. CASE Lose \/ LocalCommit \/ ServerCommit
      BY <2>6, <2>3 DEF Lose, LocalCommit, ServerCommit
    <2>7. CASE ClientSend \/ ClientCut
      BY <2>7, <2>3 DEF ClientSend, ClientCut, Finish
    <2>8. CASE ReadRefs \/ FetchNext \/ ReadPack \/ Checkout
      BY <2>8, <2>2 DEF ReadRefs, FetchNext, ReadPack, Checkout, ClientRecv
    <2>9. CASE PushCheck
      BY <2>9, <2>3 DEF PushCheck, Finish
    <2>10. CASE PushAck
      BY <2>10 DEF PushAck, ClientRecv, Finish
    <2> QED BY <2>1, <2>4, <2>5, <2>6, <2>7, <2>8, <2>9, <2>10 DEF Next, ClientStep
  <1> QED BY <1>1, AlwaysIInv, PTL DEF Spec, PushTold
=============================================================================
