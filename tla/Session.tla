------------------------------ MODULE Session -------------------------------
(***************************************************************************)
(* One msync repository and one msyncd daemon: the client side of push,    *)
(* fetch, pull and clone (internal/sync), the daemon's connection handler  *)
(* (internal/msyncd) and the connection between them.                      *)
(*                                                                         *)
(* A connection carries whole messages in order in both directions.  A     *)
(* direction holds at most Cap messages: Send blocks while it is full, as  *)
(* a TCP write does.  The connection can be lost at any time, with what it *)
(* carries; both ends then get an error from Recv, and Send does nothing   *)
(* (its error is ignored almost everywhere, and the next Recv fails).      *)
(* There is one connection at a time: handlers share no state that they    *)
(* change, so another connection would make no difference.                 *)
(*                                                                         *)
(* A commit stands for itself with its tree and blobs.  Tags, which are    *)
(* advertised beside HEAD, and undecodable payloads are left out.          *)
(***************************************************************************)
EXTENDS Naturals, Sequences

CONSTANTS
    Repos,      \* the repositories the daemon hosts
    Asked,      \* the one the client's URL names
    Tokens,     \* does the daemon ask for a token (auth.method): yes, no or either
    Calls,      \* the client commands of this instance
    Cap,        \* messages a direction of the connection can hold
    MaxCommit,  \* bound: commits made in each repository
    MaxCalls    \* bound: client commands started

ASSUME ReposAssumption == Asked \in Repos /\ "local" \notin Repos
ASSUME TokensAssumption == Tokens \subseteq BOOLEAN
ASSUME CallsAssumption == Calls \subseteq {"push", "fetch", "pull", "clone"}
ASSUME BoundsAssumption == Cap \in Nat \ {0} /\ MaxCommit \in Nat /\ MaxCalls \in Nat

\* A commit: the repository it was made in and its sequence number.
CommitOf(r) == [of : {r}, seq : Nat \ {0}]
Commit == [of : {"local"} \cup Repos, seq : Nat \ {0}]
Zero == [of |-> "local", seq |-> 0]
Hash == Commit \cup {Zero}

Type == {"ListRefs", "RefLine", "FetchRequest", "Wanted", "Have", "FetchDone",
         "PackHeader", "PackObject", "PushRequest", "UpdateRef", "WantPack",
         "OK", "Error", "AuthRequest", "AuthResponse", "StreamEnd"}
Message == [type : Type, hash : Hash]
Msg(t) == [type |-> t, hash |-> Zero]
MsgOf(t, h) == [type |-> t, hash |-> h]

VARIABLES
    \* the client's repository and the one clone makes
    head, tracked, held,    \* HEAD, the remote-tracking HEAD, the commits stored
    copy,                   \* HEAD, remote-tracking HEAD and commits of the clone
    \* the client command
    call, cpc, result, calls,
    lines,                  \* the HEAD lines received
    want, old,              \* the commit asked for or pushed; what the remote has
    clientOut,              \* messages it has still to send
    \* the daemon
    heads,                  \* HEAD of each repository
    spc,                    \* where the connection's handler is
    todo,                   \* the repositories it has still to advertise
    serverOut,
    \* the connection
    toServer, toClient, lost,
    token,                  \* does the daemon at its end ask for a token
    \* history
    shown,                  \* every commit that has been a HEAD of the daemon
    got                     \* every commit the daemon has read from a pack

repository == <<head, tracked, held, copy>>
client == <<call, cpc, result, calls, lines, want, old, clientOut>>
server == <<heads, spc, todo, serverOut, shown, got>>
connection == <<toServer, toClient, lost, token>>
vars == <<head, tracked, held, copy, call, cpc, result, calls, lines, want, old, clientOut,
          heads, spc, todo, serverOut, toServer, toClient, lost, token, shown, got>>

-----------------------------------------------------------------------------
(* The client *)

\* Where a command starts once Dial succeeded.
Begin(c) ==
    IF c = "push" THEN /\ cpc' = "check" /\ clientOut' = <<>>
                  ELSE /\ cpc' = "list" /\ clientOut' = <<Msg("ListRefs")>>

NewCopy(c) ==
    copy' = IF c = "clone" THEN [head |-> Zero, tracked |-> Zero, held |-> {}] ELSE copy

\* clone initialises the new repository before it dials.
Call(c) ==
    /\ cpc = "idle" /\ spc = "closed"
    /\ calls < MaxCalls
    /\ calls' = calls + 1
    /\ call' = c /\ result' = "none" /\ lines' = <<>>
    /\ NewCopy(c)
    /\ Begin(c)
    /\ spc' = "hello"
    /\ toServer' = <<>> /\ toClient' = <<>> /\ lost' = FALSE /\ token' \in Tokens
    /\ UNCHANGED <<head, tracked, held, want, old, heads, todo, serverOut, shown, got>>

\* Dial failed.
CallRefused(c) ==
    /\ cpc = "idle" /\ spc = "closed"
    /\ calls < MaxCalls
    /\ calls' = calls + 1
    /\ call' = c /\ result' = "error" /\ lines' = <<>>
    /\ NewCopy(c)
    /\ UNCHANGED <<head, tracked, held, cpc, want, old, clientOut, server, connection>>

\* The command returns, and its deferred Close closes the connection.
Finish(r) ==
    /\ cpc' = "idle" /\ result' = r
    /\ toClient' = <<>>
    /\ UNCHANGED <<call, calls, lines, want, old, clientOut, server, toServer, lost, token>>

ClientSend ==
    /\ clientOut # <<>>
    /\ clientOut' = Tail(clientOut)
    /\ IF lost \/ spc = "closed"
       THEN UNCHANGED toServer
       ELSE /\ Len(toServer) < Cap
            /\ toServer' = Append(toServer, Head(clientOut))
    /\ UNCHANGED <<repository, call, cpc, result, calls, lines, want, old,
                   server, toClient, lost, token>>

\* The client reads the next message at a step.
ClientRecv(step) ==
    /\ cpc = step /\ clientOut = <<>>
    /\ toClient # <<>>
Received == Head(toClient)

\* Recv fails: the connection is lost, or closed by the daemon and read out.
ClientCut ==
    /\ cpc \in {"list", "pack", "reply", "ack"} /\ clientOut = <<>>
    /\ toClient = <<>>
    /\ lost \/ spc = "closed"
    /\ Finish("error")
    /\ UNCHANGED repository

\* A message that fetch or clone pays no attention to.
Ignore ==
    /\ toClient' = Tail(toClient)
    /\ UNCHANGED <<repository, client, server, toServer, lost, token>>

FetchMessages(h, have) ==
    <<Msg("FetchRequest"), MsgOf("Wanted", h), MsgOf("Have", have), Msg("FetchDone")>>

\* Fetch and Clone read the advertised references.  Only Clone minds an error.
ReadRefs ==
    /\ ClientRecv("list")
    /\ CASE Received.type = "RefLine" ->
              /\ lines' = Append(lines, Received.hash)
              /\ toClient' = Tail(toClient)
              /\ UNCHANGED <<repository, call, cpc, result, calls, want, old, clientOut,
                             server, toServer, lost, token>>
         [] Received.type = "StreamEnd" /\ call # "clone" ->
              /\ cpc' = "next"
              /\ toClient' = Tail(toClient)
              /\ UNCHANGED <<repository, call, result, calls, lines, want, old, clientOut,
                             server, toServer, lost, token>>
         [] Received.type = "StreamEnd" /\ call = "clone" /\ lines # <<>> ->
              /\ want' = Head(lines)
              /\ clientOut' = FetchMessages(Head(lines), Zero)
              /\ cpc' = "pack"
              /\ toClient' = Tail(toClient)
              /\ UNCHANGED <<repository, call, result, calls, lines, old,
                             server, toServer, lost, token>>
         [] /\ call = "clone"
            /\ Received.type = "Error" \/ (Received.type = "StreamEnd" /\ lines = <<>>) ->
              Finish("error") /\ UNCHANGED repository
         [] OTHER -> Ignore

\* Fetch goes through the HEAD lines; Pull then only compares and reports, and
\* it fails when there is no remote-tracking HEAD.
FetchNext ==
    /\ cpc = "next"
    /\ IF lines = <<>>
       THEN Finish(IF call = "pull" /\ tracked = Zero THEN "error" ELSE "ok")
       ELSE IF Head(lines) = tracked
       THEN /\ lines' = Tail(lines)
            /\ UNCHANGED <<call, cpc, result, calls, want, old, clientOut, server, connection>>
       ELSE /\ want' = Head(lines)
            /\ lines' = Tail(lines)
            /\ clientOut' = FetchMessages(Head(lines), tracked)
            /\ cpc' = "pack"
            /\ UNCHANGED <<call, result, calls, old, server, connection>>
    /\ UNCHANGED repository

\* The pack is read and dropped; at its end Fetch moves the reference.
ReadPack ==
    /\ ClientRecv("pack")
    /\ CASE Received.type = "StreamEnd" /\ call # "clone" ->
              /\ tracked' = want
              /\ cpc' = "next"
              /\ toClient' = Tail(toClient)
              /\ UNCHANGED <<head, held, copy, call, result, calls, lines, want, old, clientOut,
                             server, toServer, lost, token>>
         [] Received.type = "StreamEnd" /\ call = "clone" ->
              /\ clientOut' = <<Msg("OK")>>
              /\ cpc' = "checkout"
              /\ toClient' = Tail(toClient)
              /\ UNCHANGED <<repository, call, result, calls, lines, want, old,
                             server, toServer, lost, token>>
         [] Received.type = "Error" /\ call = "clone" ->
              Finish("error") /\ UNCHANGED repository
         [] OTHER -> Ignore

\* Clone writes the references and HEAD and then reads HEAD's commit.
Checkout ==
    /\ cpc = "checkout" /\ clientOut = <<>>
    /\ copy' = [copy EXCEPT !.head = want, !.tracked = lines[Len(lines)]]
    /\ Finish(IF want \in copy.held THEN "ok" ELSE "error")
    /\ UNCHANGED <<head, tracked, held>>

\* Push reads HEAD and compares its sequence number with that of the
\* remote-tracking commit, 0 if this cannot be read.
SeqOf(h) == IF h \in held THEN h.seq ELSE 0
PushRejected == tracked # Zero /\ tracked # head /\ SeqOf(tracked) > head.seq

\* Faulty variant: an unreadable HEAD is pushed.
PushCheckAnyHead ==
    /\ cpc = "check"
    /\ IF PushRejected
       THEN Finish("error")
       ELSE /\ want' = head /\ old' = tracked
            /\ clientOut' = <<Msg("PushRequest"), MsgOf("UpdateRef", head)>>
            /\ cpc' = "reply"
            /\ UNCHANGED <<call, result, calls, lines, server, connection>>
    /\ UNCHANGED repository

PushCheck ==
    /\ cpc = "check"
    /\ IF head \notin held \/ PushRejected
       THEN Finish("error")
       ELSE /\ want' = head /\ old' = tracked
            /\ clientOut' = <<Msg("PushRequest"), MsgOf("UpdateRef", head)>>
            /\ cpc' = "reply"
            /\ UNCHANGED <<call, result, calls, lines, server, connection>>
    /\ UNCHANGED repository

\* Faulty variant: the remote is taken to have every commit with a number up to
\* that of its own.
PackByNumber(new, from) ==
    LET count == IF new.seq > from.seq THEN new.seq - from.seq ELSE 0
    IN  <<Msg("PackHeader")>>
        \o [i \in 1..count |-> MsgOf("PackObject", [new EXCEPT !.seq = new.seq + 1 - i])]
        \o <<Msg("StreamEnd")>>

\* computeObjectDiff and sendPack: what the new commit reaches and the old one,
\* if it can be read, does not; the newest first.
Pack(new, from) ==
    LET known == IF from.of = new.of THEN SeqOf(from) ELSE 0
        count == IF new.seq > known THEN new.seq - known ELSE 0
    IN  <<Msg("PackHeader")>>
        \o [i \in 1..count |-> MsgOf("PackObject", [new EXCEPT !.seq = new.seq + 1 - i])]
        \o <<Msg("StreamEnd")>>

\* Any answer that is neither a request for the pack nor an error is success.
PushReply ==
    /\ ClientRecv("reply")
    /\ CASE Received.type = "WantPack" ->
              /\ clientOut' = Pack(want, old)
              /\ cpc' = "ack"
              /\ toClient' = Tail(toClient)
              /\ UNCHANGED <<call, result, calls, lines, want, old, server, toServer, lost, token>>
         [] Received.type = "Error" -> Finish("error")
         [] OTHER -> Finish("ok")
    /\ UNCHANGED repository

PushAck ==
    /\ ClientRecv("ack")
    /\ IF Received.type = "OK" THEN tracked' = want /\ Finish("ok")
                               ELSE UNCHANGED tracked /\ Finish("error")
    /\ UNCHANGED <<head, held, copy>>

-----------------------------------------------------------------------------
(* The daemon's handler of the connection *)

ServerSend ==
    /\ serverOut # <<>>
    /\ serverOut' = Tail(serverOut)
    /\ IF lost \/ cpc = "idle"
       THEN UNCHANGED toClient
       ELSE /\ Len(toClient) < Cap
            /\ toClient' = Append(toClient, Head(serverOut))
    /\ UNCHANGED <<repository, client, heads, spc, todo, shown, got, toServer, lost, token>>

\* The handler reads the next message at a step, goes on and answers.
ServerRecv(step) ==
    /\ spc = step /\ serverOut = <<>>
    /\ toServer # <<>>
    /\ toServer' = Tail(toServer)
    /\ UNCHANGED <<repository, client, heads, shown, toClient, lost, token>>
Request == Head(toServer)
Answer(step, messages) == spc' = step /\ serverOut' = messages

Hello ==
    /\ spc = "hello"
    /\ IF token THEN Answer("auth", <<Msg("AuthRequest")>>) ELSE Answer("main", <<>>)
    /\ UNCHANGED <<repository, client, heads, todo, shown, got, connection>>

\* Every answer but a good token is refused.
Authenticate ==
    /\ ServerRecv("auth")
    /\ IF Request.type = "AuthResponse" THEN Answer("main", <<>>)
                                        ELSE Answer("bye", <<Msg("Error")>>)
    /\ UNCHANGED <<todo, got>>

\* The handler returns after the error; its deferred Close closes the connection.
Bye ==
    /\ spc = "bye" /\ serverOut = <<>>
    /\ spc' = "closed"
    /\ toServer' = <<>>
    /\ UNCHANGED <<repository, client, heads, todo, serverOut, shown, got, toClient, lost, token>>

\* The main protocol loop.
HandleConnection ==
    /\ ServerRecv("main")
    /\ CASE Request.type = "ListRefs" -> Answer("refs", <<>>) /\ todo' = Repos
         [] Request.type = "FetchRequest" -> Answer("fetch", <<>>) /\ UNCHANGED todo
         [] Request.type = "PushRequest" -> Answer("push", <<>>) /\ UNCHANGED todo
         [] OTHER -> Answer("main", <<Msg("Error")>>) /\ UNCHANGED todo
    /\ UNCHANGED got

\* Faulty variant: nothing marks the end of the references.
ListRefsNoEnd ==
    /\ spc = "refs" /\ serverOut = <<>>
    /\ \/ \E r \in todo :
             /\ todo' = todo \ {r}
             /\ Answer("refs", IF heads[r] = Zero THEN <<>> ELSE <<MsgOf("RefLine", heads[r])>>)
       \/ todo = {} /\ Answer("main", <<>>) /\ UNCHANGED todo
    /\ UNCHANGED <<repository, client, heads, shown, got, connection>>

\* One repository after the other, in any order, then the end.
ListRefs ==
    /\ spc = "refs" /\ serverOut = <<>>
    /\ \/ \E r \in todo :
             /\ todo' = todo \ {r}
             /\ Answer("refs", IF heads[r] = Zero THEN <<>> ELSE <<MsgOf("RefLine", heads[r])>>)
       \/ todo = {} /\ Answer("main", <<Msg("StreamEnd")>>) /\ UNCHANGED todo
    /\ UNCHANGED <<repository, client, heads, shown, got, connection>>

\* Faulty variant: the pack is sent before the client has finished asking.
HandleFetchEager ==
    /\ ServerRecv("fetch")
    /\ IF Request.type = "Have"
       THEN Answer("main", <<Msg("PackHeader"), Msg("StreamEnd")>>)
       ELSE Answer("fetch", <<>>)
    /\ UNCHANGED <<todo, got>>

\* An empty pack, whatever was asked for.
HandleFetch ==
    /\ ServerRecv("fetch")
    /\ IF Request.type = "FetchDone"
       THEN Answer("main", <<Msg("PackHeader"), Msg("StreamEnd")>>)
       ELSE Answer("fetch", <<>>)
    /\ UNCHANGED <<todo, got>>

\* Faulty variant: the update is accepted without asking for the objects.
HandlePushAtOnce ==
    /\ ServerRecv("push")
    /\ IF Request.type = "UpdateRef" THEN Answer("main", <<Msg("OK")>>)
                                     ELSE Answer("main", <<Msg("Error")>>)
    /\ UNCHANGED <<todo, got>>

HandlePush ==
    /\ ServerRecv("push")
    /\ IF Request.type = "UpdateRef" THEN Answer("pack", <<Msg("WantPack")>>)
                                     ELSE Answer("main", <<Msg("Error")>>)
    /\ UNCHANGED <<todo, got>>

\* The pack is read to its end and acknowledged; nothing is stored.
ReceivePack ==
    /\ ServerRecv("pack")
    /\ IF Request.type = "StreamEnd" THEN Answer("main", <<Msg("OK")>>)
                                     ELSE Answer("pack", <<>>)
    /\ got' = IF Request.type = "PackObject" THEN got \cup {Request.hash} ELSE got
    /\ UNCHANGED todo

\* Faulty variant: only a lost connection is noticed, not a closed one.
HandlerCutLost ==
    /\ spc \in {"auth", "main", "fetch", "push", "pack"} /\ serverOut = <<>>
    /\ toServer = <<>>
    /\ lost
    /\ spc' = "closed"
    /\ UNCHANGED <<repository, client, heads, todo, serverOut, shown, got, connection>>

\* Recv fails: the handler returns.
HandlerCut ==
    /\ spc \in {"auth", "main", "fetch", "push", "pack"} /\ serverOut = <<>>
    /\ toServer = <<>>
    /\ lost \/ cpc = "idle"
    /\ spc' = "closed"
    /\ UNCHANGED <<repository, client, heads, todo, serverOut, shown, got, connection>>

-----------------------------------------------------------------------------
(* The environment *)

Lose ==
    /\ ~lost
    /\ cpc # "idle" \/ spc # "closed"
    /\ lost' = TRUE
    /\ toServer' = <<>> /\ toClient' = <<>>
    /\ UNCHANGED <<repository, client, server, token>>

\* Commits are made in the client's repository and in the daemon's.
LocalCommit ==
    /\ head.seq < MaxCommit
    /\ head' = [of |-> "local", seq |-> head.seq + 1]
    /\ held' = held \cup {head'}
    /\ UNCHANGED <<tracked, copy, client, server, connection>>

ServerCommit ==
    /\ \E r \in Repos :
          /\ heads[r].seq < MaxCommit
          /\ heads' = [heads EXCEPT ![r] = [of |-> r, seq |-> @.seq + 1]]
          /\ shown' = shown \cup {heads'[r]}
    /\ UNCHANGED <<repository, client, spc, todo, serverOut, got, connection>>

-----------------------------------------------------------------------------
Init ==
    /\ head = Zero /\ tracked = Zero /\ held = {}
    /\ copy = [head |-> Zero, tracked |-> Zero, held |-> {}]
    /\ call = "none" /\ cpc = "idle" /\ result = "none" /\ calls = 0
    /\ lines = <<>> /\ want = Zero /\ old = Zero /\ clientOut = <<>>
    /\ heads = [r \in Repos |-> Zero]
    /\ spc = "closed" /\ todo = {} /\ serverOut = <<>>
    /\ toServer = <<>> /\ toClient = <<>> /\ lost = FALSE /\ token = FALSE
    /\ shown = {} /\ got = {}

ClientStep ==
    \/ ClientSend \/ ClientCut \/ ReadRefs \/ FetchNext \/ ReadPack \/ Checkout
    \/ PushCheck \/ PushReply \/ PushAck

ServerStep ==
    \/ ServerSend \/ Hello \/ Authenticate \/ Bye \/ HandleConnection \/ ListRefs
    \/ HandleFetch \/ HandlePush \/ ReceivePack \/ HandlerCut

Next ==
    \/ \E c \in Calls : Call(c) \/ CallRefused(c)
    \/ ClientStep
    \/ ServerStep
    \/ Lose
    \/ LocalCommit
    \/ ServerCommit

Spec == Init /\ [][Next]_vars

\* The scheduler keeps running the client and the handler's goroutine.
FairSpec == Spec /\ WF_vars(ClientStep) /\ WF_vars(ServerStep)

-----------------------------------------------------------------------------
(* Properties *)

ClientSteps == {"idle", "list", "next", "pack", "checkout", "check", "reply", "ack"}
ServerSteps == {"closed", "hello", "auth", "bye", "main", "refs", "fetch", "push", "pack"}

\* The variables stay in their types, no direction holds more than Cap
\* messages, and what is pushed is a commit of the client.
TypeOK ==
    /\ head \in Hash /\ tracked \in Hash /\ held \subseteq Commit
    /\ copy \in [head : Hash, tracked : Hash, held : SUBSET Commit]
    /\ call \in Calls \cup {"none"} /\ cpc \in ClientSteps
    /\ result \in {"none", "ok", "error"} /\ calls \in 0..MaxCalls
    /\ lines \in Seq(Commit) /\ want \in Hash /\ old \in Hash
    /\ clientOut \in Seq(Message)
    /\ heads \in [Repos -> Hash] /\ spc \in ServerSteps /\ todo \subseteq Repos
    /\ serverOut \in Seq(Message)
    /\ toServer \in Seq(Message) /\ Len(toServer) <= Cap
    /\ toClient \in Seq(Message) /\ Len(toClient) <= Cap
    /\ lost \in BOOLEAN /\ token \in BOOLEAN
    /\ shown \subseteq Commit /\ got \subseteq Commit
    /\ cpc \in {"reply", "ack"} => want \in held

\* A push that moved the remote-tracking HEAD has put every commit up to that
\* one into the daemon's hands, over however many pushes, lost connections and
\* fetches in between: the differences sendPack computes add up.
PushSendsAll ==
    tracked.of = "local" =>
        \A n \in 1..tracked.seq : [of |-> "local", seq |-> n] \in got

\* Without authentication client and daemon never get out of step: what each
\* reads next is what it waits for, never the leftovers of another exchange.
\* Only the OK clone says farewell with is a message nobody expects.
InStep ==
    ~token =>
    /\ toClient # <<>> /\ clientOut = <<>> =>
          LET m == Received.type IN
          CASE cpc = "list" -> m \in {"RefLine", "StreamEnd"}
            [] cpc = "pack" -> m \in {"PackHeader", "StreamEnd"}
            [] cpc = "reply" -> m = "WantPack"
            [] cpc = "ack" -> m = "OK"
            [] cpc = "checkout" -> m = "Error"
            [] OTHER -> FALSE
    /\ toServer # <<>> /\ serverOut = <<>> =>
          LET m == Request.type IN
          CASE spc = "main" -> \/ m \in {"ListRefs", "FetchRequest", "PushRequest"}
                               \/ m = "OK" /\ call = "clone"
            [] spc = "fetch" -> m \in {"Wanted", "Have", "FetchDone"}
            [] spc = "push" -> m = "UpdateRef"
            [] spc = "pack" -> m \in {"PackHeader", "PackObject", "StreamEnd"}
            [] OTHER -> spc = "hello"

Told ==
    call = "push" /\ cpc # "idle" /\ cpc' = "idle" /\ result' = "ok"
        => cpc = "ack" /\ tracked' = want

\* A push that returns without an error has been acknowledged by a daemon that
\* asks for no token, and recorded.
PushTold == [][~token => Told]_vars

\* Every client command returns, if only because the connection is lost: it
\* never waits for a message the daemon is not going to send, and the two never
\* wait for each other to make room.
CallEnds == cpc # "idle" ~> cpc = "idle"

\* Every handler returns once its client is gone.
HandlerEnds == spc # "closed" ~> spc = "closed"

\* The remote-tracking HEAD names a commit that has been a HEAD of the daemon.
TrackedWasShown == tracked # Zero => tracked \in shown

\* The commit the remote-tracking HEAD names is in the local store.
TrackedIsHeld == tracked # Zero => tracked \in held

\* The same whether or not the daemon asks for a token.
PushToldByAll == [][Told]_vars

\* Nothing is pushed over a remote known to have the higher sequence number.
PushNeverBehind == [][cpc = "check" /\ cpc' = "reply" => tracked.seq <= head.seq]_vars

\* A clone has the commit its HEAD names.
CloneComplete == copy.head # Zero => copy.head \in copy.held

\* The remote-tracking HEAD is never that of a repository the URL does not name.
TrackedIsAsked == tracked.of \in {"local", Asked}

\* A pull that succeeds in a repository without commits brings the remote's.
PullUpdates ==
    [][call = "pull" /\ cpc # "idle" /\ cpc' = "idle" /\ result' = "ok" /\ head = Zero
          => head' = tracked']_vars
=============================================================================
