------------------------------- MODULE Server -------------------------------
(***************************************************************************)
(* The life of msyncd: Start with its accept loop, the handshake that is   *)
(* read inside Accept, a goroutine per connection, and Stop, called from   *)
(* the signal handler while Start runs.  What a handler does with its      *)
(* connection is the subject of Session.                                   *)
(*                                                                         *)
(* Start and Stop share stopped, quit and ln.  stopped and ln are read and *)
(* written without the mutex; each is one word, and the locked operations  *)
(* around every access (close, Listen, log.Printf) order them, so a step   *)
(* here is one access.  Time is left out: the 30 seconds of the handshake  *)
(* deadline are over at some moment at which the bytes have not come.      *)
(***************************************************************************)
EXTENDS Naturals, Sequences, FiniteSets

CONSTANTS Clients   \* each connects at most once

VARIABLES
    mpc,        \* where Start is
    ln,         \* the listener
    stopped,    \* Server.stopped
    quit,       \* is Server.quit closed
    stp,        \* where Stop is
    backlog,    \* connections the kernel has accepted, oldest first
    conn,       \* the state of each client's connection
    hello,      \* clients that have sent their handshake
    gone        \* clients that have closed their end

daemon == <<mpc, ln, stopped, quit, stp>>
clients == <<backlog, conn, hello, gone>>
vars == <<mpc, ln, stopped, quit, stp, backlog, conn, hello, gone>>

-----------------------------------------------------------------------------
(* Start *)

Listen ==
    /\ mpc = "start"
    /\ \/ mpc' = "loop" /\ ln' = "open"
       \/ mpc' = "exit" /\ UNCHANGED ln
    /\ UNCHANGED <<stopped, quit, stp, clients>>

\* The select at the top of the loop.
Loop ==
    /\ mpc = "loop"
    /\ mpc' = IF quit THEN "exit" ELSE "accept"
    /\ UNCHANGED <<ln, stopped, quit, stp, clients>>

\* Faulty variant: Accept does not wait for the handshake.
AcceptAtOnce ==
    /\ mpc = "accept" /\ ln = "open"
    /\ backlog # <<>>
    /\ mpc' = "loop"
    /\ backlog' = Tail(backlog)
    /\ conn' = [conn EXCEPT ![Head(backlog)] = "handshake"]
    /\ UNCHANGED <<ln, stopped, quit, stp, hello, gone>>

\* Listener.Accept takes the oldest connection and waits for its handshake.
Accept ==
    /\ mpc = "accept" /\ ln = "open"
    /\ backlog # <<>>
    /\ mpc' = "handshake"
    /\ backlog' = Tail(backlog)
    /\ conn' = [conn EXCEPT ![Head(backlog)] = "handshake"]
    /\ UNCHANGED <<ln, stopped, quit, stp, hello, gone>>

Handshaking(c) == mpc = "handshake" /\ conn[c] = "handshake"

\* The handshake has come: the connection gets its goroutine.
HandshakeDone(c) ==
    /\ Handshaking(c)
    /\ c \in hello
    /\ conn' = [conn EXCEPT ![c] = "serving"]
    /\ mpc' = "loop"
    /\ UNCHANGED <<ln, stopped, quit, stp, backlog, hello, gone>>

\* After an error of Accept the loop goes on, unless Stop was called.
AfterError == mpc' = IF stopped THEN "exit" ELSE "loop"

\* Faulty variant: Accept waits for the handshake without a deadline.
HandshakeFailedNoDeadline(c) ==
    /\ Handshaking(c)
    /\ c \notin hello
    /\ c \in gone
    /\ conn' = [conn EXCEPT ![c] = "refused"]
    /\ AfterError
    /\ UNCHANGED <<ln, stopped, quit, stp, backlog, hello, gone>>

\* Faulty variant: the connection is served although its handshake failed.
HandshakeFailedServed(c) ==
    /\ Handshaking(c)
    /\ c \notin hello
    /\ conn' = [conn EXCEPT ![c] = "serving"]
    /\ AfterError
    /\ UNCHANGED <<ln, stopped, quit, stp, backlog, hello, gone>>

\* The client closed the connection, or the deadline passed.
HandshakeFailed(c) ==
    /\ Handshaking(c)
    /\ c \notin hello \/ c \in gone
    /\ conn' = [conn EXCEPT ![c] = "refused"]
    /\ AfterError
    /\ UNCHANGED <<ln, stopped, quit, stp, backlog, hello, gone>>

\* Accept on a closed listener.
AcceptFailed ==
    /\ mpc = "accept" /\ ln = "closed"
    /\ AfterError
    /\ UNCHANGED <<ln, stopped, quit, stp, clients>>

\* Start returns, its deferred Close closes the listener, and main returns:
\* the process is gone, and every connection with it.
Exit ==
    /\ mpc = "exit"
    /\ mpc' = "gone" /\ ln' = "closed"
    /\ backlog' = <<>>
    /\ conn' = [c \in Clients |->
                   CASE conn[c] = "serving" -> "cut"
                     [] conn[c] \in {"pending", "handshake"} -> "refused"
                     [] OTHER -> conn[c]]
    /\ UNCHANGED <<stopped, quit, stp, hello, gone>>

\* A handler ends when its client has closed the connection.
HandlerReturns(c) ==
    /\ conn[c] = "serving" /\ c \in gone
    /\ conn' = [conn EXCEPT ![c] = "served"]
    /\ UNCHANGED <<daemon, backlog, hello, gone>>

-----------------------------------------------------------------------------
(* Stop *)

Signal ==
    /\ stp = "none" /\ mpc # "gone"
    /\ stp' = "flag"
    /\ UNCHANGED <<mpc, ln, stopped, quit, clients>>

\* A closed listener resets the connections that were not accepted yet.
CloseListener ==
    IF ln = "open"
    THEN /\ ln' = "closed"
         /\ backlog' = <<>>
         /\ conn' = [c \in Clients |-> IF conn[c] = "pending" THEN "refused" ELSE conn[c]]
    ELSE UNCHANGED <<ln, backlog, conn>>

\* Faulty variant: the listener is closed before quit.
StopListenerFirst ==
    /\ mpc # "gone"
    /\ \/ /\ stp = "flag" /\ stp' = "listener"
          /\ stopped' = TRUE
          /\ UNCHANGED <<quit, ln, backlog, conn>>
       \/ /\ stp = "listener" /\ stp' = "quit"
          /\ CloseListener
          /\ UNCHANGED <<stopped, quit>>
       \/ /\ stp = "quit" /\ stp' = "done"
          /\ quit' = TRUE
          /\ UNCHANGED <<stopped, ln, backlog, conn>>
    /\ UNCHANGED <<mpc, hello, gone>>

\* stopped is set, quit closed, and the listener closed if there is one.
Stop ==
    /\ mpc # "gone"
    /\ \/ /\ stp = "flag" /\ stp' = "quit"
          /\ stopped' = TRUE
          /\ UNCHANGED <<quit, ln, backlog, conn>>
       \/ /\ stp = "quit" /\ stp' = "listener"
          /\ quit' = TRUE
          /\ UNCHANGED <<stopped, ln, backlog, conn>>
       \/ /\ stp = "listener" /\ stp' = "done"
          /\ CloseListener
          /\ UNCHANGED <<stopped, quit>>
    /\ UNCHANGED <<mpc, hello, gone>>

-----------------------------------------------------------------------------
(* The clients *)

Connect(c) ==
    /\ conn[c] = "away" /\ ln = "open"
    /\ conn' = [conn EXCEPT ![c] = "pending"]
    /\ backlog' = Append(backlog, c)
    /\ UNCHANGED <<daemon, hello, gone>>

\* newConnection sends the client's handshake first.
SendHandshake(c) ==
    /\ conn[c] # "away" /\ c \notin hello \cup gone
    /\ hello' = hello \cup {c}
    /\ UNCHANGED <<daemon, backlog, conn, gone>>

HangUp(c) ==
    /\ conn[c] # "away" /\ c \notin gone
    /\ gone' = gone \cup {c}
    /\ UNCHANGED <<daemon, backlog, conn, hello>>

-----------------------------------------------------------------------------
Init ==
    /\ mpc = "start" /\ ln = "none" /\ stopped = FALSE /\ quit = FALSE /\ stp = "none"
    /\ backlog = <<>>
    /\ conn = [c \in Clients |-> "away"]
    /\ hello = {} /\ gone = {}

\* The next step of the goroutine that runs Start.
StartStep ==
    \/ Listen \/ Loop \/ Accept \/ AcceptFailed \/ Exit
    \/ \E c \in Clients : HandshakeDone(c) \/ HandshakeFailed(c)

Next ==
    \/ StartStep
    \/ Signal
    \/ Stop
    \/ \E c \in Clients : HandlerReturns(c) \/ Connect(c) \/ SendHandshake(c) \/ HangUp(c)

Spec == Init /\ [][Next]_vars

\* The scheduler keeps running both goroutines, and the deadline timer fires.
\* Nothing is assumed of the clients.
FairSpec == Spec /\ WF_vars(StartStep) /\ WF_vars(Stop)

-----------------------------------------------------------------------------
(* Properties *)

\* The variables stay in their types; the backlog holds the pending connections,
\* and at most one connection is in its handshake, the one Accept waits for.
TypeOK ==
    /\ mpc \in {"start", "loop", "accept", "handshake", "exit", "gone"}
    /\ ln \in {"none", "open", "closed"}
    /\ stopped \in BOOLEAN /\ quit \in BOOLEAN
    /\ stp \in {"none", "flag", "quit", "listener", "done"}
    /\ backlog \in Seq(Clients)
    /\ conn \in [Clients -> {"away", "pending", "handshake", "serving", "served",
                             "refused", "cut"}]
    /\ hello \subseteq Clients /\ gone \subseteq Clients
    /\ {backlog[i] : i \in 1..Len(backlog)} = {c \in Clients : conn[c] = "pending"}
    /\ (\E c \in Clients : conn[c] = "handshake") <=> mpc = "handshake"
    /\ \A c, d \in Clients : conn[c] = "handshake" /\ conn[d] = "handshake" => c = d

\* No connection is served before its handshake has come.
GreetedFirst == \A c \in Clients : conn[c] \in {"serving", "served"} => c \in hello

\* A client that has sent its handshake and waits is served in the end, whoever
\* else is connecting and saying nothing, unless the daemon is being stopped.
Served ==
    \A c \in Clients :
        conn[c] = "pending" /\ c \in hello
            ~> conn[c] \in {"serving", "served"} \/ c \in gone \/ stp # "none"

\* Once Stop is called the daemon ends, wherever Start was: before it listens,
\* waiting in Accept, or waiting for a silent client's handshake.
StopEnds == stp # "none" ~> mpc = "gone"

\* Stop lets the connections being served come to their end.
Graceful == \A c \in Clients : conn[c] # "cut"
=============================================================================
