---------------------------- MODULE ServerProofs ----------------------------
(***************************************************************************)
(* What holds of Server for any set of clients: its type invariant with    *)
(* the bookkeeping of the backlog, and that nobody is served who did not   *)
(* send a handshake.                                                       *)
(***************************************************************************)
EXTENDS Server, TLAPS

\* No client is in the backlog twice: without this, taking the oldest
\* connection could leave it pending.
BacklogDistinct == \A i, j \in 1..Len(backlog) : backlog[i] = backlog[j] => i = j

IInv == TypeOK /\ BacklogDistinct

Queued == {backlog[i] : i \in 1..Len(backlog)}

-----------------------------------------------------------------------------
(* The backlog as a queue *)

\* The oldest connection is queued, and what is left is everyone else.
LEMMA Dequeue ==
    ASSUME backlog \in Seq(Clients), backlog # <<>>, BacklogDistinct, backlog' = Tail(backlog)
    PROVE  /\ Head(backlog) \in Queued
           /\ backlog' \in Seq(Clients)
           /\ Queued' = Queued \ {Head(backlog)}
           /\ BacklogDistinct'
  <1> DEFINE n == Len(backlog)
  <1>1. n \in Nat \ {0} /\ Head(backlog) = backlog[1]
    OBVIOUS
  <1>2. backlog' \in Seq(Clients) /\ Len(backlog') = n - 1
        /\ \A i \in 1..n - 1 : backlog'[i] = backlog[i + 1]
    OBVIOUS
  <1>3. ASSUME NEW x \in Queued' PROVE x \in Queued \ {Head(backlog)}
    <2>1. PICK i \in 1..n - 1 : x = backlog[i + 1]
      BY <1>2, <1>3 DEF Queued
    <2> QED BY <1>1, <2>1 DEF Queued, BacklogDistinct
  <1>4. ASSUME NEW x \in Queued \ {Head(backlog)} PROVE x \in Queued'
    <2>1. PICK i \in 1..n : x = backlog[i]
      BY <1>4 DEF Queued
    <2>2. i # 1 /\ i - 1 \in 1..n - 1
      BY <1>1, <1>4, <2>1
    <2> QED BY <1>1, <1>2, <2>1, <2>2 DEF Queued
  <1>5. BacklogDistinct'
    BY <1>1, <1>2 DEF BacklogDistinct
  <1> QED BY <1>1, <1>2, <1>3, <1>4, <1>5 DEF Queued

\* A connection that was not queued is queued once.
LEMMA Enqueue ==
    ASSUME backlog \in Seq(Clients), BacklogDistinct,
           NEW c \in Clients, c \notin Queued, backlog' = Append(backlog, c)
    PROVE  /\ backlog' \in Seq(Clients)
           /\ Queued' = Queued \cup {c}
           /\ BacklogDistinct'
  <1> DEFINE n == Len(backlog)
  <1>1. n \in Nat /\ Len(backlog') = n + 1 /\ backlog'[n + 1] = c
        /\ backlog' \in Seq(Clients)
        /\ \A i \in 1..n : backlog'[i] = backlog[i]
    OBVIOUS
  <1>2. \A i \in 1..n : backlog[i] # c
    BY DEF Queued
  <1>3. ASSUME NEW x \in Queued' PROVE x \in Queued \cup {c}
    <2>1. PICK i \in 1..n + 1 : x = backlog'[i]
      BY <1>1, <1>3 DEF Queued
    <2> QED BY <1>1, <2>1 DEF Queued
  <1>4. ASSUME NEW x \in Queued \cup {c} PROVE x \in Queued'
    <2>1. CASE x = c
      BY <1>1, <2>1 DEF Queued
    <2>2. CASE x \in Queued
      <3>1. PICK i \in 1..n : x = backlog[i]
        BY <2>2 DEF Queued
      <3> QED BY <1>1, <3>1 DEF Queued
    <2> QED BY <1>4, <2>1, <2>2
  <1>5. BacklogDistinct'
    BY <1>1, <1>2 DEF BacklogDistinct
  <1> QED BY <1>1, <1>3, <1>4, <1>5

\* An emptied backlog.
LEMMA Emptied ==
    ASSUME backlog' = <<>>
    PROVE  backlog' \in Seq(Clients) /\ Queued' = {} /\ BacklogDistinct'
  BY DEF Queued, BacklogDistinct

-----------------------------------------------------------------------------
(* Type correctness *)

\* The initial states are of the types.
LEMMA InitType == Init => IInv
  <1> SUFFICES ASSUME Init PROVE IInv
    OBVIOUS
  <1>1. /\ backlog \in Seq(Clients) /\ Len(backlog) = 0
        /\ {backlog[i] : i \in 1..Len(backlog)} = {} /\ BacklogDistinct
    BY DEF Init, BacklogDistinct
  <1>2. \A c \in Clients : conn[c] = "away"
    BY DEF Init
  <1> QED BY <1>1, <1>2 DEF Init, IInv, TypeOK

\* Start and the handshakes.
LEMMA StartStepType == ASSUME IInv, StartStep PROVE IInv'
  <1>1. CASE Listen \/ Loop \/ AcceptFailed
    BY <1>1 DEF IInv, TypeOK, BacklogDistinct, Listen, Loop, AcceptFailed, AfterError, clients
  <1>2. CASE Accept
    <2>1. /\ backlog' \in Seq(Clients) /\ Head(backlog) \in Queued
          /\ Queued' = Queued \ {Head(backlog)} /\ BacklogDistinct'
      BY <1>2, Dequeue DEF IInv, TypeOK, Accept
    <2>2. Queued = {c \in Clients : conn[c] = "pending"}
      BY DEF IInv, TypeOK, Queued
    <2>3. Head(backlog) \in Clients /\ conn[Head(backlog)] = "pending"
      BY <2>1, <2>2
    <2>4. Queued' = {c \in Clients : conn'[c] = "pending"}
      BY <1>2, <2>1, <2>2, <2>3 DEF IInv, TypeOK, Accept
    <2> QED BY <1>2, <2>1, <2>3, <2>4 DEF IInv, TypeOK, Accept, Queued
  <1>3. CASE Exit
    <2>1. backlog' \in Seq(Clients) /\ Queued' = {} /\ BacklogDistinct'
      BY <1>3, Emptied DEF Exit
    <2>2. \A c \in Clients : conn'[c] \in {"away", "served", "refused", "cut"}
      BY <1>3 DEF IInv, TypeOK, Exit
    <2> QED BY <1>3, <2>1, <2>2 DEF IInv, TypeOK, Exit, Queued
  <1>4. ASSUME NEW c \in Clients, HandshakeDone(c) \/ HandshakeFailed(c) PROVE IInv'
    <2>1. \A d \in Clients : conn[d] = "handshake" => d = c
      BY <1>4 DEF IInv, TypeOK, HandshakeDone, HandshakeFailed, Handshaking
    <2>2. \A d \in Clients : conn'[d] # "handshake"
      BY <1>4, <2>1 DEF IInv, TypeOK, HandshakeDone, HandshakeFailed, Handshaking
    <2>3. {d \in Clients : conn'[d] = "pending"} = {d \in Clients : conn[d] = "pending"}
      BY <1>4 DEF IInv, TypeOK, HandshakeDone, HandshakeFailed, Handshaking
    <2> QED BY <1>4, <2>2, <2>3
          DEF IInv, TypeOK, BacklogDistinct, HandshakeDone, HandshakeFailed, Handshaking, AfterError
  <1> QED BY <1>1, <1>2, <1>3, <1>4 DEF StartStep

\* Stop.
LEMMA StopType == ASSUME IInv, Signal \/ Stop PROVE IInv'
  <1>1. CASE Signal \/ (Stop /\ UNCHANGED <<ln, backlog, conn>>)
    <2>1. UNCHANGED <<mpc, ln, backlog, conn, hello, gone>>
      BY <1>1 DEF Signal, Stop, clients
    <2>2. /\ stopped' \in BOOLEAN /\ quit' \in BOOLEAN
          /\ stp' \in {"none", "flag", "quit", "listener", "done"}
      BY <1>1 DEF IInv, TypeOK, Signal, Stop
    <2> QED BY <2>1, <2>2 DEF IInv, TypeOK, BacklogDistinct
  <1>2. CASE Stop /\ ln = "open" /\ CloseListener
    <2>1. backlog' \in Seq(Clients) /\ Queued' = {} /\ BacklogDistinct'
      BY <1>2, Emptied DEF CloseListener
    <2>2. \A c \in Clients : /\ conn'[c] # "pending"
                             /\ conn'[c] = "handshake" <=> conn[c] = "handshake"
      BY <1>2 DEF IInv, TypeOK, CloseListener
    <2> QED BY <1>2, <2>1, <2>2 DEF IInv, TypeOK, Stop, CloseListener, Queued
  <1> QED BY <1>1, <1>2 DEF Stop, CloseListener

\* The clients and the handlers.
LEMMA ClientType ==
    ASSUME IInv, NEW c \in Clients,
           HandlerReturns(c) \/ Connect(c) \/ SendHandshake(c) \/ HangUp(c)
    PROVE  IInv'
  <1>1. CASE SendHandshake(c) \/ HangUp(c)
    BY <1>1 DEF IInv, TypeOK, BacklogDistinct, SendHandshake, HangUp, daemon
  <1>2. CASE HandlerReturns(c)
    <2>1. \A d \in Clients : /\ conn'[d] = "pending" <=> conn[d] = "pending"
                             /\ conn'[d] = "handshake" <=> conn[d] = "handshake"
      BY <1>2 DEF IInv, TypeOK, HandlerReturns
    <2> QED BY <1>2, <2>1 DEF IInv, TypeOK, BacklogDistinct, HandlerReturns, daemon
  <1>3. CASE Connect(c)
    <2>1. Queued = {d \in Clients : conn[d] = "pending"}
      BY DEF IInv, TypeOK, Queued
    <2>2. /\ backlog' \in Seq(Clients) /\ Queued' = Queued \cup {c} /\ BacklogDistinct'
      BY <1>3, <2>1, Enqueue DEF IInv, TypeOK, Connect
    <2>3. Queued' = {d \in Clients : conn'[d] = "pending"}
      BY <1>3, <2>1, <2>2 DEF IInv, TypeOK, Connect
    <2>4. \A d \in Clients : conn'[d] = "handshake" <=> conn[d] = "handshake"
      BY <1>3 DEF IInv, TypeOK, Connect
    <2> QED BY <1>3, <2>2, <2>3, <2>4 DEF IInv, TypeOK, Connect, Queued, daemon
  <1> QED BY <1>1, <1>2, <1>3

\* Every step keeps the types and the backlog in order.
LEMMA NextType == ASSUME IInv, [Next]_vars PROVE IInv'
  <1>1. CASE UNCHANGED vars
    BY <1>1 DEF IInv, TypeOK, BacklogDistinct, vars
  <1> QED BY <1>1, StartStepType, StopType, ClientType DEF Next

\* The variables keep their types, the backlog holds each pending connection
\* once, and Accept waits for at most one handshake.
THEOREM InOrder == Spec => []IInv
  BY InitType, NextType, PTL DEF Spec

\* The type invariant that the Server run checks, for any set of clients.
THEOREM TypeCorrect == Spec => []TypeOK
  <1>1. IInv => TypeOK
    BY DEF IInv
  <1> QED BY <1>1, InOrder, PTL

-----------------------------------------------------------------------------
(* Nobody is served who did not send a handshake *)

\* A step serves only a client that has sent its handshake.
LEMMA NextGreeted == ASSUME TypeOK, GreetedFirst, [Next]_vars PROVE GreetedFirst'
  <1>1. ASSUME StartStep PROVE GreetedFirst'
    <2>1. CASE Listen \/ Loop \/ AcceptFailed
      BY <2>1 DEF GreetedFirst, Listen, Loop, AcceptFailed, clients
    <2>2. CASE Accept \/ Exit
      BY <2>2 DEF TypeOK, GreetedFirst, Accept, Exit
    <2>3. ASSUME NEW c \in Clients, HandshakeDone(c) \/ HandshakeFailed(c) PROVE GreetedFirst'
      BY <2>3 DEF TypeOK, GreetedFirst, HandshakeDone, HandshakeFailed
    <2> QED BY <1>1, <2>1, <2>2, <2>3 DEF StartStep
  <1>2. ASSUME Signal \/ Stop PROVE GreetedFirst'
    BY <1>2 DEF TypeOK, GreetedFirst, Signal, Stop, CloseListener, clients
  <1>3. ASSUME NEW c \in Clients,
               HandlerReturns(c) \/ Connect(c) \/ SendHandshake(c) \/ HangUp(c)
        PROVE  GreetedFirst'
    BY <1>3 DEF TypeOK, GreetedFirst, HandlerReturns, Connect, SendHandshake, HangUp
  <1>4. CASE UNCHANGED vars
    BY <1>4 DEF GreetedFirst, vars
  <1> QED BY <1>1, <1>2, <1>3, <1>4 DEF Next

\* No connection reaches a handler, or has gone through one, before its
\* handshake has come.
THEOREM ServedWereGreeted == Spec => []GreetedFirst
  <1>1. Init => GreetedFirst
    BY DEF Init, GreetedFirst
  <1> QED BY <1>1, NextGreeted, TypeCorrect, PTL DEF Spec
=============================================================================
