---------------------------- MODULE BridgeProofs ----------------------------
(***************************************************************************)
(* Theorems about the bridge.  Of its threads (Bridge), for every number of *)
(* connections, every size of the worker set and any number of calls of     *)
(* close(): nothing the bridge opens is out of its books, and a stop is     *)
(* complete whoever carries it out.  Of what one connection carries         *)
(* (Relay), for every size of buffer, chunk and kernel window and every     *)
(* number of bytes: the relay loop implements Streams.                      *)
(***************************************************************************)
EXTENDS Bridge, Relay, FiniteSetTheorems, SequenceTheorems, TLAPS

(***************************************************************************)
(* The threads: the inductive invariant.                                    *)
(***************************************************************************)

\* The client that the acceptor holds and has not handed to a worker.
InHand(c) == wpc[c] = "none" /\ (sock[Client(c)] = "open" \/ Client(c) \in owned)

\* Where the sockets of a connection may be, at each point of its worker.  A
\* socket that is tracked was opened, and the upstream one only by the worker.
ConnInv(c) ==
    /\ Client(c) \in owned => sock[Client(c)] # "none"
    /\ Upstream(c) \in owned => sock[Upstream(c)] # "none"
    /\ wpc[c] \in {"none", "created", "read", "connect"}
         => sock[Upstream(c)] = "none"
    /\ wpc[c] \in {"track", "forgetClient", "leave", "done"}
         => Upstream(c) \notin owned
    /\ wpc[c] \in {"send", "relay"} => Upstream(c) \in owned
    /\ wpc[c] \in {"created", "read", "connect", "track", "send", "relay",
                   "forgetUp", "forgetClient"} => Client(c) \in owned
    /\ wpc[c] \in {"leave", "done"}
         => Client(c) \notin owned /\ sock[Upstream(c)] # "open"
    /\ wpc[c] = "done" => sock[Client(c)] # "open"
    /\ wpc[c] = "created" => pc.acceptor = "start"
    /\ wpc[c] # "none" => sock[Client(c)] # "none"
    /\ wpc[c] = "track" => sock[Upstream(c)] # "none"

\* The acceptor holds at most one client, and only between accept() and the
\* handover to a worker or the refusal.
HandInv ==
    /\ \A c \in Conns : InHand(c) =>
         \/ pc.acceptor \in {"track", "refuse"} /\ Client(c) \notin owned
         \/ pc.acceptor = "register" /\ Client(c) \in owned
    /\ \A c, d \in Conns : InHand(c) /\ InHand(d) => c = d
    /\ \A c, d \in Conns : wpc[c] = "created" /\ wpc[d] = "created" => c = d

\* What a stopper took are real sockets; it took everything that is tracked and
\* not closed, because nothing is tracked after the event is set.
SnapInv ==
    \A t \in Stoppers :
      /\ \A s \in snap[t] : sock[s] # "none"
      /\ pc[t] = "shut" => \A s \in owned : s \in snap[t] \/ sock[s] = "closed"

\* From its first step on a stopper has the event set, and so has the owner ever
\* after.
StopInv ==
    /\ \A t \in Stoppers : pc[t] \in {"take", "shut", "forget", "unlink"} => stop
    /\ pc.owner \in {"list", "join", "raised"} => stop
    /\ pc.owner = "idle" /\ closes > 0 => stop
    /\ Stopped => \A s \in owned : sock[s] = "closed"

\* Once close() is past the listener and the path they belong to nobody.
GivenUp == pc.owner \in {"list", "join", "raised"} \/ (pc.owner = "idle" /\ closes > 0)

\* The path exists exactly while its identity is known or one thread is about to
\* unlink it; the acceptor begins after start() and close() comes after both.
PathInv ==
    /\ pc.owner \in {"new", "bound", "unbind"} => closes = 0 /\ pc.acceptor = "none"
    /\ pc.owner = "new" => ~identity /\ ~listening
    /\ pc.owner \in {"new", "bound", "unbind"} => ~installed
    /\ pc.owner \in {"bound", "unbind"} => identity
    /\ path <=> identity \/ \E t \in Stoppers : pc[t] = "unlink"
    /\ identity => \A t \in Stoppers : pc[t] # "unlink"
    /\ ~(pc.owner = "unlink" /\ pc.acceptor = "unlink")
    /\ pc.owner \in {"unlink"} \/ GivenUp => ~identity

\* The listening socket is open while it is installed, being installed, or in the
\* hands of a stopper.
ListenInv ==
    /\ \A t \in Stoppers : took[t] => pc[t] = "shut"
    /\ listening => installed \/ pc.owner = "bound" \/ \E t \in Stoppers : took[t]
    /\ pc.owner \in {"shut", "forget", "unlink"} \/ GivenUp => ~installed

IInv ==
    /\ TypeOK
    /\ \A c \in Conns : ConnInv(c)
    /\ HandInv /\ SnapInv /\ StopInv /\ PathInv /\ ListenInv
    /\ WorkersBounded

(***************************************************************************)
(* Sockets, the initial state, and each part of the invariant over a step.   *)
(***************************************************************************)

\* The two sockets of a connection are sockets, and no two are the same.
LEMMA SocketNames ==
    /\ \A c \in Conns : Client(c) \in Sockets /\ Upstream(c) \in Sockets
    /\ \A c, d \in Conns : Client(c) # Upstream(d)
    /\ \A c, d \in Conns : Client(c) = Client(d) => c = d
    /\ \A c, d \in Conns : Upstream(c) = Upstream(d) => c = d
    /\ \A s \in Sockets : \E c \in Conns : s = Client(c) \/ s = Upstream(c)
BY DEF Sockets, Client, Upstream

\* The bridge begins with nothing in its books.
LEMMA InitInv == Init => IInv
<1> SUFFICES ASSUME Init PROVE IInv OBVIOUS
<1>1. TypeOK
  <2>1. /\ sock \in [Sockets -> {"none", "open", "closed"}]
        /\ wpc \in [Conns -> WorkerPcs]
        /\ snap \in [Stoppers -> SUBSET Sockets] /\ took \in [Stoppers -> BOOLEAN]
    BY DEF Init, WorkerPcs
  <2>2. pc \in [owner : OwnerPcs, acceptor : AcceptorPcs]
    BY DEF Init, OwnerPcs, AcceptorPcs
  <2>3. closes \in 0..MaxCloses
    BY BridgeAssumption DEF Init
  <2> QED BY <2>1, <2>2, <2>3 DEF Init, TypeOK
<1>2. \A c \in Conns : ConnInv(c)
  BY SocketNames DEF Init, ConnInv
<1>3. HandInv
  BY SocketNames DEF Init, HandInv, InHand
<1>4. SnapInv /\ StopInv /\ PathInv /\ ListenInv
  BY DEF Init, SnapInv, StopInv, PathInv, ListenInv, Stopped, GivenUp, Stoppers
<1>5. WorkersBounded
  <2>1. Live = {} BY DEF Init, Live
  <2>2. Cardinality({}) = 0 BY FS_EmptySet
  <2> QED BY <2>1, <2>2, BridgeAssumption DEF Init, WorkersBounded
<1> QED BY <1>1, <1>2, <1>3, <1>4, <1>5 DEF IInv

\* Types.
LEMMA TypeStep == ASSUME TypeOK, [Next]_vars PROVE TypeOK'
<1> USE DEF TypeOK, OwnerPcs, AcceptorPcs, WorkerPcs, Goto, Step, CloseSockets,
        shared, Stoppers
<1>1. CASE Bind \/ Install \/ StartFails \/ Unbind \/ Serve
  BY <1>1, ZenonT(60) DEF Bind, Install, StartFails, Unbind, Serve
<1>9. CASE CallClose
  BY <1>9, BridgeAssumption DEF CallClose
<1>2. CASE signal_stop \/ StopServing
  BY <1>2 DEF signal_stop, StopServing
<1>3. CASE Closing
  BY <1>3, ZenonT(60) DEF Closing, MarkClosed, ListWorkers, CloseReturns, Join
<1>4. ASSUME NEW t \in Stoppers, RequestStop(t) PROVE TypeOK'
  <2>1. CASE SetStop(t) BY <2>1 DEF SetStop
  <2>2. CASE Take(t) BY <2>2 DEF Take
  <2>3. CASE ShutSnapshot(t) BY <2>3 DEF ShutSnapshot
  <2>4. CASE _remove_owned_socket_path(t) \/ Unlink(t)
    BY <2>4, ZenonT(60) DEF _remove_owned_socket_path, Unlink, After
  <2> QED BY <1>4, <2>1, <2>2, <2>3, <2>4 DEF RequestStop
<1>5. CASE Accepting
  BY <1>5, SocketNames DEF Accepting, ReadListener, RefuseClient, TrackClient, RegisterWorker,
              StartWorker
<1>6. ASSUME NEW c \in Conns, Accept(c) PROVE TypeOK'
  BY <1>6, SocketNames DEF Accept
<1>7. ASSUME NEW c \in Conns,
             Working(c) \/ ReadRequest(c) \/ DropRequest(c) \/ RelayEnds(c)
      PROVE  TypeOK'
  BY <1>7, SocketNames DEF Working, Connect, ConnectFails, TrackUpstream, SendInitial, SendFails,
              ForgetUpstream, ForgetClient, Leave, ReadRequest, DropRequest, RelayEnds
<1>8. CASE UNCHANGED vars BY <1>8 DEF vars
<1> QED BY <1>1, <1>2, <1>3, <1>4, <1>5, <1>6, <1>7, <1>8, <1>9 DEF Next, Owner

\* The sockets of a connection.
LEMMA ConnStep == ASSUME IInv, TypeOK', [Next]_vars PROVE (\A d \in Conns : ConnInv(d))'
<1> USE SocketNames DEF IInv, TypeOK, ConnInv, HandInv, InHand, SnapInv, StopInv, Goto, Step, shared, Stoppers
<1>1. CASE Bind \/ Install \/ StartFails \/ Unbind \/ Serve
  BY <1>1 DEF Bind, Install, StartFails, Unbind, Serve
<1>2. CASE CallClose \/ Closing
  BY <1>2 DEF CallClose, Closing, MarkClosed, ListWorkers, CloseReturns, Join
<1>3. CASE signal_stop \/ StopServing \/ ReadListener
  BY <1>3 DEF signal_stop, StopServing, ReadListener
<1>4. ASSUME NEW t \in Stoppers, SetStop(t) \/ Take(t) PROVE (\A d \in Conns : ConnInv(d))'
  BY <1>4 DEF SetStop, Take
<1>5. ASSUME NEW t \in Stoppers, ShutSnapshot(t) PROVE (\A d \in Conns : ConnInv(d))'
  BY <1>5 DEF ShutSnapshot, CloseSockets
<1>6. ASSUME NEW t \in Stoppers, _remove_owned_socket_path(t) \/ Unlink(t) PROVE (\A d \in Conns : ConnInv(d))'
  BY <1>6 DEF _remove_owned_socket_path, Unlink, After
<1>7. ASSUME NEW c \in Conns, Accept(c) PROVE (\A d \in Conns : ConnInv(d))'
  BY <1>7 DEF Accept
<1>8. ASSUME NEW c \in Conns, TrackClient(c) PROVE (\A d \in Conns : ConnInv(d))'
  BY <1>8 DEF TrackClient, Accepted, CloseSockets, Refuses
<1>9. ASSUME NEW c \in Conns, RegisterWorker(c) \/ StartWorker(c) PROVE (\A d \in Conns : ConnInv(d))'
  BY <1>9 DEF RegisterWorker, StartWorker, Accepted
<1>10. CASE RefuseClient
  BY <1>10 DEF RefuseClient, Refused, Accepted, CloseSockets
<1>11. ASSUME NEW c \in Conns, Connect(c) PROVE (\A d \in Conns : ConnInv(d))'
  BY <1>11 DEF Connect
<1>12. ASSUME NEW c \in Conns, TrackUpstream(c) PROVE (\A d \in Conns : ConnInv(d))'
  BY <1>12 DEF TrackUpstream, Refuses
<1>13. ASSUME NEW c \in Conns,
             \/ ConnectFails(c) \/ SendInitial(c) \/ SendFails(c)
             \/ ReadRequest(c) \/ DropRequest(c) \/ RelayEnds(c)
      PROVE  (\A d \in Conns : ConnInv(d))'
  BY <1>13 DEF ConnectFails, SendInitial, SendFails, ReadRequest, DropRequest, RelayEnds
<1>14. ASSUME NEW c \in Conns, ForgetUpstream(c) \/ ForgetClient(c) \/ Leave(c)
      PROVE  (\A d \in Conns : ConnInv(d))'
  BY <1>14 DEF ForgetUpstream, ForgetClient, Leave, CloseSockets
<1>15. CASE UNCHANGED vars
  BY <1>15 DEF vars
<1> QED BY <1>1, <1>2, <1>3, <1>4, <1>5, <1>6, <1>7, <1>8, <1>9, <1>10, <1>11, <1>12, <1>13, <1>14, <1>15
       DEF Next, Owner, RequestStop, Accepting, Working

\* The client in the acceptor's hands.
LEMMA HandStep == ASSUME IInv, TypeOK', [Next]_vars PROVE HandInv'
<1> USE SocketNames DEF IInv, TypeOK, ConnInv, HandInv, InHand, Goto, Step, shared, Stoppers
<1>1. CASE Bind \/ Install \/ StartFails \/ Unbind \/ Serve
  BY <1>1 DEF Bind, Install, StartFails, Unbind, Serve
<1>2. CASE CallClose \/ Closing
  BY <1>2 DEF CallClose, Closing, MarkClosed, ListWorkers, CloseReturns, Join
<1>3. CASE signal_stop \/ StopServing \/ ReadListener
  BY <1>3 DEF signal_stop, StopServing, ReadListener
<1>4. ASSUME NEW t \in Stoppers, SetStop(t) \/ Take(t) PROVE HandInv'
  BY <1>4 DEF SetStop, Take
<1>5. ASSUME NEW t \in Stoppers, ShutSnapshot(t) PROVE HandInv'
  BY <1>5 DEF ShutSnapshot, CloseSockets
<1>6. ASSUME NEW t \in Stoppers, _remove_owned_socket_path(t) \/ Unlink(t) PROVE HandInv'
  BY <1>6 DEF _remove_owned_socket_path, Unlink, After
<1>7. ASSUME NEW c \in Conns, Accept(c) PROVE HandInv'
  BY <1>7 DEF Accept
<1>8. ASSUME NEW c \in Conns, TrackClient(c) PROVE HandInv'
  BY <1>8 DEF TrackClient, Accepted, CloseSockets, Refuses
<1>9. ASSUME NEW c \in Conns, RegisterWorker(c) \/ StartWorker(c) PROVE HandInv'
  BY <1>9 DEF RegisterWorker, StartWorker, Accepted
<1>10. CASE RefuseClient
  BY <1>10 DEF RefuseClient, Refused, Accepted, CloseSockets
<1>11. ASSUME NEW c \in Conns, Connect(c) PROVE HandInv'
  BY <1>11 DEF Connect
<1>12. ASSUME NEW c \in Conns, TrackUpstream(c) PROVE HandInv'
  BY <1>12 DEF TrackUpstream, Refuses
<1>13. ASSUME NEW c \in Conns,
             \/ ConnectFails(c) \/ SendInitial(c) \/ SendFails(c)
             \/ ReadRequest(c) \/ DropRequest(c) \/ RelayEnds(c)
      PROVE  HandInv'
  BY <1>13 DEF ConnectFails, SendInitial, SendFails, ReadRequest, DropRequest, RelayEnds
<1>14. ASSUME NEW c \in Conns, ForgetUpstream(c) \/ ForgetClient(c) \/ Leave(c)
      PROVE  HandInv'
  BY <1>14 DEF ForgetUpstream, ForgetClient, Leave, CloseSockets
<1>15. CASE UNCHANGED vars
  BY <1>15 DEF vars
<1> QED BY <1>1, <1>2, <1>3, <1>4, <1>5, <1>6, <1>7, <1>8, <1>9, <1>10, <1>11, <1>12, <1>13, <1>14, <1>15
       DEF Next, Owner, RequestStop, Accepting, Working

\* What the stoppers took.
LEMMA SnapStep == ASSUME IInv, TypeOK', [Next]_vars PROVE SnapInv'
<1> USE SocketNames DEF IInv, TypeOK, ConnInv, SnapInv, StopInv, Goto, Step, shared, Stoppers
<1>1. CASE Bind \/ Install \/ StartFails \/ Unbind \/ Serve
  BY <1>1 DEF Bind, Install, StartFails, Unbind, Serve
<1>2. CASE CallClose \/ Closing
  BY <1>2 DEF CallClose, Closing, MarkClosed, ListWorkers, CloseReturns, Join
<1>3. CASE signal_stop \/ StopServing \/ ReadListener
  BY <1>3 DEF signal_stop, StopServing, ReadListener
<1>4. ASSUME NEW t \in Stoppers, SetStop(t) \/ Take(t) PROVE SnapInv'
  BY <1>4 DEF SetStop, Take
<1>5. ASSUME NEW t \in Stoppers, ShutSnapshot(t) PROVE SnapInv'
  BY <1>5 DEF ShutSnapshot, CloseSockets
<1>6. ASSUME NEW t \in Stoppers, _remove_owned_socket_path(t) \/ Unlink(t) PROVE SnapInv'
  BY <1>6 DEF _remove_owned_socket_path, Unlink, After
<1>7. ASSUME NEW c \in Conns, Accept(c) PROVE SnapInv'
  BY <1>7 DEF Accept
<1>8. ASSUME NEW c \in Conns, TrackClient(c) PROVE SnapInv'
  BY <1>8 DEF TrackClient, Accepted, CloseSockets, Refuses
<1>9. ASSUME NEW c \in Conns, RegisterWorker(c) \/ StartWorker(c) PROVE SnapInv'
  BY <1>9 DEF RegisterWorker, StartWorker, Accepted
<1>10. CASE RefuseClient
  BY <1>10 DEF RefuseClient, Refused, Accepted, CloseSockets
<1>11. ASSUME NEW c \in Conns, Connect(c) PROVE SnapInv'
  BY <1>11 DEF Connect
<1>12. ASSUME NEW c \in Conns, TrackUpstream(c) PROVE SnapInv'
  BY <1>12 DEF TrackUpstream, Refuses
<1>13. ASSUME NEW c \in Conns,
             \/ ConnectFails(c) \/ SendInitial(c) \/ SendFails(c)
             \/ ReadRequest(c) \/ DropRequest(c) \/ RelayEnds(c)
      PROVE  SnapInv'
  BY <1>13 DEF ConnectFails, SendInitial, SendFails, ReadRequest, DropRequest, RelayEnds
<1>14. ASSUME NEW c \in Conns, ForgetUpstream(c) \/ ForgetClient(c) \/ Leave(c)
      PROVE  SnapInv'
  BY <1>14 DEF ForgetUpstream, ForgetClient, Leave, CloseSockets
<1>15. CASE UNCHANGED vars
  BY <1>15 DEF vars
<1> QED BY <1>1, <1>2, <1>3, <1>4, <1>5, <1>6, <1>7, <1>8, <1>9, <1>10, <1>11, <1>12, <1>13, <1>14, <1>15
       DEF Next, Owner, RequestStop, Accepting, Working

\* The event, and everything tracked closed after a stop.
LEMMA StopStep == ASSUME IInv, TypeOK', [Next]_vars PROVE StopInv'
<1> USE SocketNames DEF IInv, TypeOK, ConnInv, SnapInv, StopInv, PathInv, GivenUp, Stopped, Goto, Step, shared, Stoppers
<1>1. CASE Bind \/ Install \/ StartFails \/ Unbind \/ Serve
  BY <1>1 DEF Bind, Install, StartFails, Unbind, Serve
<1>2. CASE CallClose \/ Closing
  BY <1>2 DEF CallClose, Closing, MarkClosed, ListWorkers, CloseReturns, Join
<1>3. CASE signal_stop \/ StopServing \/ ReadListener
  BY <1>3 DEF signal_stop, StopServing, ReadListener
<1>4. ASSUME NEW t \in Stoppers, SetStop(t) \/ Take(t) PROVE StopInv'
  BY <1>4 DEF SetStop, Take
<1>5. ASSUME NEW t \in Stoppers, ShutSnapshot(t) PROVE StopInv'
  BY <1>5 DEF ShutSnapshot, CloseSockets
<1>6. ASSUME NEW t \in Stoppers, _remove_owned_socket_path(t) \/ Unlink(t) PROVE StopInv'
  BY <1>6 DEF _remove_owned_socket_path, Unlink, After
<1>7. ASSUME NEW c \in Conns, Accept(c) PROVE StopInv'
  BY <1>7 DEF Accept
<1>8. ASSUME NEW c \in Conns, TrackClient(c) PROVE StopInv'
  BY <1>8 DEF TrackClient, Accepted, CloseSockets, Refuses
<1>9. ASSUME NEW c \in Conns, RegisterWorker(c) \/ StartWorker(c) PROVE StopInv'
  BY <1>9 DEF RegisterWorker, StartWorker, Accepted
<1>10. CASE RefuseClient
  BY <1>10 DEF RefuseClient, Refused, Accepted, CloseSockets
<1>11. ASSUME NEW c \in Conns, Connect(c) PROVE StopInv'
  BY <1>11 DEF Connect
<1>12. ASSUME NEW c \in Conns, TrackUpstream(c) PROVE StopInv'
  BY <1>12 DEF TrackUpstream, Refuses
<1>13. ASSUME NEW c \in Conns,
             \/ ConnectFails(c) \/ SendInitial(c) \/ SendFails(c)
             \/ ReadRequest(c) \/ DropRequest(c) \/ RelayEnds(c)
      PROVE  StopInv'
  BY <1>13 DEF ConnectFails, SendInitial, SendFails, ReadRequest, DropRequest, RelayEnds
<1>14. ASSUME NEW c \in Conns, ForgetUpstream(c) \/ ForgetClient(c) \/ Leave(c)
      PROVE  StopInv'
  BY <1>14 DEF ForgetUpstream, ForgetClient, Leave, CloseSockets
<1>15. CASE UNCHANGED vars
  BY <1>15 DEF vars
<1> QED BY <1>1, <1>2, <1>3, <1>4, <1>5, <1>6, <1>7, <1>8, <1>9, <1>10, <1>11, <1>12, <1>13, <1>14, <1>15
       DEF Next, Owner, RequestStop, Accepting, Working

\* The path.
LEMMA PathStep == ASSUME IInv, TypeOK', [Next]_vars PROVE PathInv'
<1> USE SocketNames DEF IInv, TypeOK, StopInv, PathInv, GivenUp, Goto, Step, shared, Stoppers
<1>1. CASE Bind \/ Install \/ StartFails \/ Unbind \/ Serve
  BY <1>1 DEF Bind, Install, StartFails, Unbind, Serve
<1>2. CASE CallClose \/ Closing
  BY <1>2 DEF CallClose, Closing, MarkClosed, ListWorkers, CloseReturns, Join
<1>3. CASE signal_stop \/ StopServing \/ ReadListener
  BY <1>3 DEF signal_stop, StopServing, ReadListener
<1>4. ASSUME NEW t \in Stoppers, SetStop(t) \/ Take(t) PROVE PathInv'
  BY <1>4 DEF SetStop, Take
<1>5. ASSUME NEW t \in Stoppers, ShutSnapshot(t) PROVE PathInv'
  BY <1>5 DEF ShutSnapshot, CloseSockets
<1>6. ASSUME NEW t \in Stoppers, _remove_owned_socket_path(t) \/ Unlink(t) PROVE PathInv'
  BY <1>6 DEF _remove_owned_socket_path, Unlink, After
<1>7. ASSUME NEW c \in Conns, Accept(c) PROVE PathInv'
  BY <1>7 DEF Accept
<1>8. ASSUME NEW c \in Conns, TrackClient(c) PROVE PathInv'
  BY <1>8 DEF TrackClient, Accepted, CloseSockets, Refuses
<1>9. ASSUME NEW c \in Conns, RegisterWorker(c) \/ StartWorker(c) PROVE PathInv'
  BY <1>9 DEF RegisterWorker, StartWorker, Accepted
<1>10. CASE RefuseClient
  BY <1>10 DEF RefuseClient, Refused, Accepted, CloseSockets
<1>11. ASSUME NEW c \in Conns, Connect(c) PROVE PathInv'
  BY <1>11 DEF Connect
<1>12. ASSUME NEW c \in Conns, TrackUpstream(c) PROVE PathInv'
  BY <1>12 DEF TrackUpstream, Refuses
<1>13. ASSUME NEW c \in Conns,
             \/ ConnectFails(c) \/ SendInitial(c) \/ SendFails(c)
             \/ ReadRequest(c) \/ DropRequest(c) \/ RelayEnds(c)
      PROVE  PathInv'
  BY <1>13 DEF ConnectFails, SendInitial, SendFails, ReadRequest, DropRequest, RelayEnds
<1>14. ASSUME NEW c \in Conns, ForgetUpstream(c) \/ ForgetClient(c) \/ Leave(c)
      PROVE  PathInv'
  BY <1>14 DEF ForgetUpstream, ForgetClient, Leave, CloseSockets
<1>15. CASE UNCHANGED vars
  BY <1>15 DEF vars
<1> QED BY <1>1, <1>2, <1>3, <1>4, <1>5, <1>6, <1>7, <1>8, <1>9, <1>10, <1>11, <1>12, <1>13, <1>14, <1>15
       DEF Next, Owner, RequestStop, Accepting, Working

\* The listener.
LEMMA ListenStep == ASSUME IInv, TypeOK', [Next]_vars PROVE ListenInv'
<1> USE SocketNames DEF IInv, TypeOK, PathInv, ListenInv, GivenUp, Goto, Step, shared, Stoppers
<1>1. CASE Bind \/ Install \/ StartFails \/ Unbind \/ Serve
  BY <1>1 DEF Bind, Install, StartFails, Unbind, Serve
<1>2. CASE CallClose \/ Closing
  BY <1>2 DEF CallClose, Closing, MarkClosed, ListWorkers, CloseReturns, Join
<1>3. CASE signal_stop \/ StopServing \/ ReadListener
  BY <1>3 DEF signal_stop, StopServing, ReadListener
<1>4. ASSUME NEW t \in Stoppers, SetStop(t) \/ Take(t) PROVE ListenInv'
  BY <1>4 DEF SetStop, Take
<1>5. ASSUME NEW t \in Stoppers, ShutSnapshot(t) PROVE ListenInv'
  BY <1>5 DEF ShutSnapshot, CloseSockets
<1>6. ASSUME NEW t \in Stoppers, _remove_owned_socket_path(t) \/ Unlink(t) PROVE ListenInv'
  BY <1>6 DEF _remove_owned_socket_path, Unlink, After
<1>7. ASSUME NEW c \in Conns, Accept(c) PROVE ListenInv'
  BY <1>7 DEF Accept
<1>8. ASSUME NEW c \in Conns, TrackClient(c) PROVE ListenInv'
  BY <1>8 DEF TrackClient, Accepted, CloseSockets, Refuses
<1>9. ASSUME NEW c \in Conns, RegisterWorker(c) \/ StartWorker(c) PROVE ListenInv'
  BY <1>9 DEF RegisterWorker, StartWorker, Accepted
<1>10. CASE RefuseClient
  BY <1>10 DEF RefuseClient, Refused, Accepted, CloseSockets
<1>11. ASSUME NEW c \in Conns, Connect(c) PROVE ListenInv'
  BY <1>11 DEF Connect
<1>12. ASSUME NEW c \in Conns, TrackUpstream(c) PROVE ListenInv'
  BY <1>12 DEF TrackUpstream, Refuses
<1>13. ASSUME NEW c \in Conns,
             \/ ConnectFails(c) \/ SendInitial(c) \/ SendFails(c)
             \/ ReadRequest(c) \/ DropRequest(c) \/ RelayEnds(c)
      PROVE  ListenInv'
  BY <1>13 DEF ConnectFails, SendInitial, SendFails, ReadRequest, DropRequest, RelayEnds
<1>14. ASSUME NEW c \in Conns, ForgetUpstream(c) \/ ForgetClient(c) \/ Leave(c)
      PROVE  ListenInv'
  BY <1>14 DEF ForgetUpstream, ForgetClient, Leave, CloseSockets
<1>15. CASE UNCHANGED vars
  BY <1>15 DEF vars
<1> QED BY <1>1, <1>2, <1>3, <1>4, <1>5, <1>6, <1>7, <1>8, <1>9, <1>10, <1>11, <1>12, <1>13, <1>14, <1>15
       DEF Next, Owner, RequestStop, Accepting, Working

\* The set of workers is the set of live threads, and at its bound no thread is
\* added.
LEMMA BooksStep == ASSUME IInv, TypeOK', [Next]_vars PROVE WorkersBounded'
<1> USE DEF IInv, TypeOK, WorkersBounded
<1>1. CASE UNCHANGED <<workers, wpc>>
  BY <1>1 DEF Live
<1>2. IsFiniteSet(workers)
  <2>1. IsFiniteSet(Conns) BY BridgeAssumption, FS_Interval DEF Conns
  <2> QED BY <2>1, FS_Subset
<1>3. ASSUME NEW c \in Conns, RegisterWorker(c), ~Full PROVE WorkersBounded'
  <2>1. /\ workers' = workers \cup {c} /\ wpc' = [wpc EXCEPT ![c] = "created"]
        /\ wpc[c] = "none"
    BY <1>3 DEF RegisterWorker, Accepted
  <2>2. Live' = workers' BY <2>1 DEF Live
  <2>3. c \notin workers BY <2>1 DEF Live
  <2>4. Cardinality(workers \cup {c}) = Cardinality(workers) + 1
    BY <1>2, <2>3, FS_AddElement
  <2>5. Cardinality(workers) \in Nat BY <1>2, FS_CardinalityType
  <2>6. Cardinality(workers) < MaxWorkers BY <1>3, <2>5, BridgeAssumption DEF Full
  <2> QED BY <2>1, <2>2, <2>4, <2>5, <2>6, BridgeAssumption
<1>4. ASSUME NEW c \in Conns, Leave(c) PROVE WorkersBounded'
  <2>1. workers' = workers \ {c} /\ wpc' = [wpc EXCEPT ![c] = "done"]
    BY <1>4 DEF Leave, Step
  <2>2. Live' = workers' BY <2>1 DEF Live
  <2>3. Cardinality(workers') <= Cardinality(workers)
    BY <1>2, <2>1, FS_Subset
  <2> QED BY <1>2, <2>1, <2>2, <2>3, FS_CardinalityType, FS_Subset, BridgeAssumption
<1>5. ASSUME NEW c \in Conns, workers' = workers, wpc[c] \notin {"none", "done"},
             \E to \in WorkerPcs \ {"none", "done"} : wpc' = [wpc EXCEPT ![c] = to]
      PROVE  WorkersBounded'
  BY <1>5 DEF Live
<1>6. ASSUME NEW c \in Conns,
             \/ StartWorker(c) \/ Connect(c) \/ ConnectFails(c) \/ TrackUpstream(c)
             \/ SendInitial(c) \/ SendFails(c) \/ ForgetUpstream(c) \/ ForgetClient(c)
             \/ ReadRequest(c) \/ DropRequest(c) \/ RelayEnds(c)
      PROVE  WorkersBounded'
  BY <1>5, <1>6 DEF StartWorker, Connect, ConnectFails, TrackUpstream, SendInitial,
       SendFails, ForgetUpstream, ForgetClient, ReadRequest, DropRequest, RelayEnds,
       Step, WorkerPcs
<1>7. ASSUME NEW c \in Conns, TrackClient(c) \/ Accept(c) \/ (RegisterWorker(c) /\ Full)
      PROVE  UNCHANGED <<workers, wpc>>
  BY <1>7 DEF TrackClient, Accept, RegisterWorker
<1>8. CASE Owner \/ signal_stop \/ Closing \/ StopServing \/ ReadListener \/ RefuseClient
  BY <1>1, <1>8 DEF Owner, Bind, Install, StartFails, Unbind, Serve, CallClose,
       signal_stop, Closing, MarkClosed, ListWorkers, CloseReturns, Join, StopServing,
       ReadListener, RefuseClient
<1>9. ASSUME NEW t \in Stoppers, RequestStop(t) PROVE UNCHANGED <<workers, wpc>>
  BY <1>9 DEF RequestStop, SetStop, Take, ShutSnapshot, _remove_owned_socket_path, Unlink
<1>10. CASE UNCHANGED vars BY <1>1, <1>10 DEF vars
<1> QED BY <1>1, <1>3, <1>4, <1>6, <1>7, <1>8, <1>9, <1>10 DEF Next, Accepting, Working

(***************************************************************************)
(* The threads: theorems.                                                   *)
(***************************************************************************)

\* The invariant holds in every reachable state, whatever the order in which
\* acceptor, workers, closer and signal handler run.
THEOREM BridgeInvariant == Spec => []IInv
<1>1. Init => IInv BY InitInv
<1>2. IInv /\ [Next]_vars => IInv'
  <2> SUFFICES ASSUME IInv, [Next]_vars PROVE IInv' OBVIOUS
  <2>1. TypeOK' BY TypeStep DEF IInv
  <2> QED BY <2>1, ConnStep, HandStep, SnapStep, StopStep, PathStep, ListenStep,
             BooksStep DEF IInv
<1> QED BY <1>1, <1>2, PTL DEF Spec

\* Every open socket is tracked or about to be closed by the thread that holds it,
\* a worker that has left holds none, and the live threads are the registered ones,
\* never more than MAX_WORKERS (serve_forever, _worker_entry, _track_socket).
THEOREM BridgeAccounted == Spec => []Accounted
<1>1. IInv => Accounted
  <2> SUFFICES ASSUME IInv PROVE Accounted OBVIOUS
  <2>1. SocketsAccounted
    BY SocketNames DEF IInv, TypeOK, WorkerPcs, ConnInv, HandInv, InHand, SocketsAccounted
  <2> QED BY <2>1 DEF IInv, Accounted
<1> QED BY <1>1, BridgeInvariant, PTL

\* After request_stop everything tracked is shut although accept and connect went
\* on, the path is unlinked by one thread, and after close() neither path nor
\* listener is left (request_stop, _remove_owned_socket_path, close).
THEOREM BridgeStopComplete == Spec => []StopComplete
<1>1. IInv => StopComplete
  <2> SUFFICES ASSUME IInv PROVE StopComplete OBVIOUS
  <2>1. StoppedMeansShut
    BY SocketNames DEF IInv, StopInv, ConnInv, StoppedMeansShut
  <2>2. PathUnlinkedOnce
    BY DEF IInv, TypeOK, PathInv, ListenInv, GivenUp, PathUnlinkedOnce, Stoppers
  <2> QED BY <2>1, <2>2 DEF StopComplete
<1> QED BY <1>1, BridgeInvariant, PTL

(***************************************************************************)
(* The relay: its inductive invariant.                                      *)
(***************************************************************************)

\* What was sent to a side and what is pending for it are, in this order, the
\* bytes that were read from the other.
Carried(s) ==
    /\ \A i \in 1..Len(out[s]) : out[s][i] = i
    /\ \A i \in 1..Len(buffers[s]) : buffers[s][i] = Len(out[s]) + i
    /\ Len(out[s]) + Len(buffers[s]) = taken[Peer(s)]

\* Nothing is read that was not written, and no buffer outgrows its bound.
Bounded(s) == taken[s] <= written[s] /\ Len(buffers[s]) <= MaxPending

\* A side counts as ended only with all of its stream read; the other one is
\* told as soon as nothing is pending for it, and not before.
Ends(s) ==
    /\ ~read_open[s] => fin[s] /\ taken[s] = written[s]
    /\ write_closed[s] <=> ~read_open[Peer(s)] /\ buffers[s] = <<>>

\* A socket that select returned for reading still has something to read, and
\* there is still room for it.
Selected(s) ==
    "read" \in ready[s] => /\ read_open[s] /\ Len(buffers[Peer(s)]) < MaxPending
                           /\ written[s] > taken[s] \/ fin[s]

RelayInv ==
    /\ RelayTypeOK
    /\ \A s \in Sides : Carried(s) /\ Bounded(s) /\ Ends(s) /\ Selected(s)
    /\ ended = "up" <=> relayPc # "done"

(***************************************************************************)
(* Sides, minima and sequences.                                             *)
(***************************************************************************)

\* The other side's other side.
LEMMA Peers ==
    \A s \in Sides : Peer(s) \in Sides /\ Peer(s) # s /\ Peer(Peer(s)) = s
BY DEF Sides, Peer

\* The smaller of two numbers.
LEMMA MinOfTwo ==
    ASSUME NEW a \in Int, NEW b \in Int
    PROVE  Min({a, b}) \in {a, b} /\ Min({a, b}) <= a /\ Min({a, b}) <= b
<1>1. \E x \in {a, b} : \A y \in {a, b} : x =< y
  <2>1. CASE a <= b BY <2>1
  <2>2. CASE ~(a <= b) BY <2>2
  <2> QED BY <2>1, <2>2
<1> QED BY <1>1 DEF Min

\* The smallest of three.
LEMMA MinOfThree ==
    ASSUME NEW a \in Int, NEW b \in Int, NEW c \in Int
    PROVE  /\ Min({a, b, c}) \in {a, b, c}
           /\ Min({a, b, c}) <= a /\ Min({a, b, c}) <= b /\ Min({a, b, c}) <= c
<1>1. \E x \in {a, b, c} : \A y \in {a, b, c} : x =< y
  <2>1. CASE a <= b /\ a <= c BY <2>1
  <2>2. CASE b <= a /\ b <= c BY <2>2
  <2>3. CASE c <= a /\ c <= b BY <2>3
  <2> QED BY <2>1, <2>2, <2>3
<1> QED BY <1>1 DEF Min

\* A chunk of the stream is appended to what is pending.
LEMMA Appended ==
    ASSUME NEW b \in Seq(Nat), NEW k \in Nat, NEW n \in Nat,
           \A i \in 1..Len(b) : b[i] = k + i
    PROVE  LET c == b \o [i \in 1..n |-> (k + Len(b)) + i]
           IN  /\ c \in Seq(Nat) /\ Len(c) = Len(b) + n
               /\ \A i \in 1..Len(c) : c[i] = k + i
<1> DEFINE d == [i \in 1..n |-> (k + Len(b)) + i]
<1>1. d \in Seq(Nat) /\ Len(d) = n /\ Len(b) \in Nat
  OBVIOUS
<1>2. \A i \in 1..n : d[i] = k + Len(b) + i
  OBVIOUS
<1> HIDE DEF d
<1>3. /\ b \o d \in Seq(Nat) /\ Len(b \o d) = Len(b) + n
      /\ \A i \in 1..Len(b) + n : (b \o d)[i] = IF i <= Len(b) THEN b[i] ELSE d[i - Len(b)]
  BY <1>1, ConcatProperties
<1>4. ASSUME NEW j \in 1..Len(b) + n PROVE (b \o d)[j] = k + j
  <2>1. CASE j <= Len(b)
    <3>1. j \in 1..Len(b) BY <1>1, <2>1
    <3>2. (b \o d)[j] = b[j] BY <1>3, <2>1
    <3> QED BY <3>1, <3>2
  <2>2. CASE ~(j <= Len(b))
    <3>1. j - Len(b) \in 1..n BY <1>1, <2>2
    <3>2. (b \o d)[j] = d[j - Len(b)] BY <1>3, <2>2
    <3> QED BY <3>1, <3>2, <1>1, <1>2
  <2> QED BY <2>1, <2>2
<1> QED BY <1>3, <1>4 DEF d

\* A piece of the stream that begins after its k-th byte.
Numbered(q, k) == q \in Seq(Nat) /\ \A i \in 1..Len(q) : q[i] = k + i

\* What was sent, with the first n of the pending bytes, and what is left.
Joined(a, b, n) == a \o SubSeq(b, 1, n)
Left(b, n) == SubSeq(b, n + 1, Len(b))

\* The head of what is pending moves to what was sent.
LEMMA Moved ==
    ASSUME NEW a, NEW b, Numbered(a, 0), Numbered(b, Len(a)), NEW n \in 1..Len(b)
    PROVE  /\ Numbered(Joined(a, b, n), 0)
           /\ Numbered(Left(b, n), Len(Joined(a, b, n)))
           /\ Len(Joined(a, b, n)) = Len(a) + n /\ Len(Left(b, n)) = Len(b) - n
<1>0. /\ a \in Seq(Nat) /\ b \in Seq(Nat)
      /\ \A i \in 1..Len(a) : a[i] = i
      /\ \A i \in 1..Len(b) : b[i] = Len(a) + i
  BY DEF Numbered
<1> DEFINE h == SubSeq(b, 1, n)
           d == SubSeq(b, n + 1, Len(b))
<1>1. /\ h \in Seq(Nat) /\ Len(h) = n /\ \A i \in 1..n : h[i] = b[i]
      /\ Len(a) \in Nat /\ Len(b) \in Nat
  BY <1>0
<1>2. d \in Seq(Nat) /\ Len(d) = Len(b) - n /\ \A i \in 1..Len(d) : d[i] = b[n + i]
  BY <1>0
<1> HIDE DEF h, d
<1>3. /\ a \o h \in Seq(Nat) /\ Len(a \o h) = Len(a) + n
      /\ \A i \in 1..Len(a) + n : (a \o h)[i] = IF i <= Len(a) THEN a[i] ELSE h[i - Len(a)]
  BY <1>0, <1>1, ConcatProperties
<1>4. ASSUME NEW j \in 1..Len(a) + n PROVE (a \o h)[j] = j
  <2>1. CASE j <= Len(a)
    <3>1. j \in 1..Len(a) BY <1>1, <2>1
    <3>2. (a \o h)[j] = a[j] BY <1>3, <2>1
    <3> QED BY <1>0, <3>1, <3>2
  <2>2. CASE ~(j <= Len(a))
    <3>1. j - Len(a) \in 1..n /\ j - Len(a) \in 1..Len(b) BY <1>1, <2>2
    <3>2. (a \o h)[j] = h[j - Len(a)] BY <1>3, <2>2
    <3>3. h[j - Len(a)] = b[j - Len(a)] BY <3>1, <1>1
    <3>4. b[j - Len(a)] = Len(a) + (j - Len(a)) BY <1>0, <3>1
    <3> QED BY <3>2, <3>3, <3>4, <1>1
  <2> QED BY <2>1, <2>2
<1>5. \A i \in 1..Len(d) : d[i] = Len(a) + n + i
  BY <1>0, <1>1, <1>2
<1> QED BY <1>2, <1>3, <1>4, <1>5, SMTT(30) DEF h, d, Joined, Left, Numbered

(***************************************************************************)
(* The relay: the invariant holds.                                          *)
(***************************************************************************)

LEMMA InvInit == RelayInit => RelayInv
<1> SUFFICES ASSUME RelayInit PROVE RelayInv
  OBVIOUS
<1>1. RelayTypeOK
  <2>1. <<>> \in Seq(Nat) /\ Window \in 0..Window
    BY RelayAssumption
  <2>2. out \in [Sides -> Seq(Nat)] /\ buffers \in [Sides -> Seq(Nat)]
    BY <2>1 DEF RelayInit
  <2>3. room \in [Sides -> 0..Window]
    BY <2>1 DEF RelayInit
  <2> QED BY <2>2, <2>3 DEF RelayInit, RelayTypeOK
<1>2. ASSUME NEW s \in Sides PROVE Carried(s) /\ Bounded(s) /\ Ends(s) /\ Selected(s)
  <2>1. out[s] = <<>> /\ buffers[s] = <<>> /\ taken[s] = 0 /\ taken[Peer(s)] = 0
    BY Peers DEF RelayInit
  <2>2. Carried(s)
    BY <2>1 DEF Carried
  <2>3. Bounded(s) /\ Ends(s) /\ Selected(s)
    BY <2>1, Peers, RelayAssumption DEF RelayInit, Bounded, Ends, Selected
  <2> QED BY <2>2, <2>3
<1> QED BY <1>1, <1>2 DEF RelayInv, RelayInit

\* The steps of the endpoints and of whoever stops the bridge.
LEMMA EndpointStep ==
    ASSUME RelayInv,
           request_stop \/ \E s \in Sides :
               EndpointWrites(s) \/ EndpointCloses(s) \/ EndpointReads(s)
    PROVE  RelayInv'
<1>1. CASE request_stop
  BY <1>1 DEF RelayInv, RelayTypeOK, Carried, Bounded, Ends, Selected, request_stop, endpoints, relay
<1>2. ASSUME NEW s \in Sides, EndpointWrites(s) PROVE RelayInv'
  <2>1. RelayTypeOK' /\ (ended = "up" <=> relayPc # "done")'
    BY <1>2 DEF RelayInv, RelayTypeOK, EndpointWrites, relay
  <2>2. ASSUME NEW t \in Sides PROVE (Carried(t) /\ Bounded(t) /\ Ends(t) /\ Selected(t))'
    <3>1. Carried(t)'
      BY <1>2 DEF RelayInv, Carried, EndpointWrites, relay
    <3>2. Bounded(t)' /\ Selected(t)'
      BY <1>2 DEF RelayInv, RelayTypeOK, Bounded, Selected, EndpointWrites, relay
    <3>3. Ends(t)'
      BY <1>2 DEF RelayInv, RelayTypeOK, Ends, EndpointWrites, relay
    <3> QED BY <3>1, <3>2, <3>3
  <2> QED BY <2>1, <2>2 DEF RelayInv
<1>3. ASSUME NEW s \in Sides, EndpointCloses(s) PROVE RelayInv'
  <2>1. RelayTypeOK' /\ (ended = "up" <=> relayPc # "done")'
    BY <1>3 DEF RelayInv, RelayTypeOK, EndpointCloses, relay
  <2>2. ASSUME NEW t \in Sides PROVE (Carried(t) /\ Bounded(t) /\ Ends(t) /\ Selected(t))'
    <3>1. Carried(t)'
      BY <1>3 DEF RelayInv, Carried, EndpointCloses, relay
    <3>2. Bounded(t)' /\ Selected(t)'
      BY <1>3 DEF RelayInv, RelayTypeOK, Bounded, Selected, EndpointCloses, relay
    <3>3. Ends(t)'
      BY <1>3 DEF RelayInv, RelayTypeOK, Ends, EndpointCloses, relay
    <3> QED BY <3>1, <3>2, <3>3
  <2> QED BY <2>1, <2>2 DEF RelayInv
<1>4. ASSUME NEW s \in Sides, EndpointReads(s) PROVE RelayInv'
  BY <1>4, RelayAssumption
     DEF RelayInv, RelayTypeOK, Carried, Bounded, Ends, Selected, EndpointReads, relay
<1> QED BY <1>1, <1>2, <1>3, <1>4

\* Every way the loop returns.
LEMMA ReturnStep ==
    ASSUME RelayInv, NEW how \in {"clean", "cut"}, Return(how) PROVE RelayInv'
BY DEF RelayInv, RelayTypeOK, Carried, Bounded, Ends, Selected, Return, endpoints, relay

LEMMA SelectStep == ASSUME RelayInv, Select PROVE RelayInv'
BY DEF RelayInv, RelayTypeOK, Carried, Bounded, Ends, Selected, Select, Events, Ready, endpoints, relay

\* What a key's processing does to the loop's own state.
LEMMA ProcessedFrame ==
    ASSUME RelayInv, NEW s \in Sides, NEW e \in {"read", "write"}, Processed(s, e)
    PROVE  /\ relayPc = "process" /\ e \in ready[s]
           /\ ready' \in [Sides -> SUBSET {"read", "write"}]
           /\ \A t \in Sides : ready'[t] \subseteq ready[t]
           /\ e \notin ready'[s]
           /\ cur' \in Sides \cup {"none"} /\ relayPc' \in {"loop", "process"}
BY DEF RelayInv, RelayTypeOK, Processed

\* What recv() returns: something within the room that is left, or nothing at
\* the end of the stream only.
LEMMA ReceivedBounds ==
    ASSUME RelayInv, NEW s \in Sides, "read" \in ready[s]
    PROVE  /\ Received(s) \in Nat
           /\ Received(s) <= written[s] - taken[s]
           /\ Len(buffers[Peer(s)]) + Received(s) <= MaxPending
           /\ Received(s) = 0 => fin[s] /\ taken[s] = written[s]
<1> DEFINE r == MaxPending - Len(buffers[Peer(s)])
           w == written[s] - taken[s]
<1>1. /\ Len(buffers[Peer(s)]) \in Nat /\ r \in Int /\ r > 0
      /\ w \in Int /\ w >= 0 /\ Chunk \in Int /\ Chunk > 0
      /\ written[s] \in Nat /\ taken[s] \in Nat /\ MaxPending \in Nat
      /\ w > 0 \/ fin[s]
  <2>1. Peer(s) \in Sides /\ Bounded(s) /\ Selected(s)
    BY Peers DEF RelayInv
  <2>2. /\ buffers[Peer(s)] \in Seq(Nat) /\ written[s] \in Nat /\ taken[s] \in Nat
    BY <2>1 DEF RelayInv, RelayTypeOK
  <2>3. Len(buffers[Peer(s)]) \in Nat
    BY <2>2
  <2>4. /\ Len(buffers[Peer(s)]) < MaxPending /\ taken[s] <= written[s]
        /\ written[s] > taken[s] \/ fin[s]
    BY <2>1 DEF Bounded, Selected
  <2> QED BY <2>2, <2>3, <2>4, RelayAssumption
<1>2. Received(s) = Min({Chunk, r, w})
  BY DEF Received
<1>3. /\ Received(s) \in {Chunk, r, w}
      /\ Received(s) <= r /\ Received(s) <= w
  <2> HIDE DEF r, w
  <2>1. Chunk \in Int /\ r \in Int /\ w \in Int
    BY <1>1
  <2>2. /\ Min({Chunk, r, w}) \in {Chunk, r, w}
        /\ Min({Chunk, r, w}) <= r /\ Min({Chunk, r, w}) <= w
    BY <2>1, MinOfThree
  <2> QED BY <1>2, <2>2
<1> QED BY <1>1, <1>3

\* The invariant's parts for the side that a socket's bytes go to.
LEMMA PeerFacts ==
    ASSUME RelayInv, NEW s \in Sides
    PROVE  /\ Peer(s) \in Sides /\ Peer(Peer(s)) = s
           /\ out[Peer(s)] \in Seq(Nat) /\ buffers[Peer(s)] \in Seq(Nat)
           /\ Len(out[Peer(s)]) \in Nat /\ Len(buffers[Peer(s)]) \in Nat
           /\ \A i \in 1..Len(out[Peer(s)]) : out[Peer(s)][i] = i
           /\ \A i \in 1..Len(buffers[Peer(s)]) :
                 buffers[Peer(s)][i] = Len(out[Peer(s)]) + i
           /\ taken[s] = Len(out[Peer(s)]) + Len(buffers[Peer(s)])
           /\ write_closed[Peer(s)] <=> ~read_open[s] /\ buffers[Peer(s)] = <<>>
<1>1. Peer(s) \in Sides /\ Peer(Peer(s)) = s
  BY Peers
<1>2. out[Peer(s)] \in Seq(Nat) /\ buffers[Peer(s)] \in Seq(Nat)
  BY <1>1 DEF RelayInv, RelayTypeOK
<1>3. Carried(Peer(s)) /\ Ends(Peer(s))
  BY <1>1 DEF RelayInv
<1>4. Len(out[Peer(s)]) \in Nat /\ Len(buffers[Peer(s)]) \in Nat
  BY <1>2
<1> QED BY <1>1, <1>2, <1>3, <1>4 DEF Carried, Ends

\* What recv() does to the side it reads from and to the other one's buffer.
LEMMA RecvEffect ==
    ASSUME RelayInv, NEW s \in Sides, Recv(s)
    PROVE  /\ taken' = [taken EXCEPT ![s] = taken[s] + Received(s)]
           /\ buffers' \in [Sides -> Seq(Nat)] /\ buffers'[s] = buffers[s]
           /\ Len(buffers'[Peer(s)]) = Len(buffers[Peer(s)]) + Received(s)
           /\ \A i \in 1..Len(buffers'[Peer(s)]) :
                 buffers'[Peer(s)][i] = Len(out[Peer(s)]) + i
           /\ read_open' = [read_open EXCEPT ![s] = Received(s) > 0]
           /\ write_closed' = [write_closed EXCEPT
                 ![Peer(s)] = write_closed[Peer(s)] \/ EndAtOnce(s)]
           /\ Received(s) \in Nat
<1> DEFINE b == buffers[Peer(s)]
           k == Len(out[Peer(s)])
<1>1. Received(s) \in Nat
  BY ReceivedBounds, ProcessedFrame DEF Recv
<1>2. /\ b \in Seq(Nat) /\ k \in Nat /\ taken[s] = k + Len(b)
      /\ \A i \in 1..Len(b) : b[i] = k + i
  BY PeerFacts
<1>3. buffers' = [buffers EXCEPT ![Peer(s)] =
                     b \o [i \in 1..Received(s) |-> (k + Len(b)) + i]]
  BY <1>2 DEF Recv
<1> HIDE DEF b, k
<1> DEFINE c == b \o [i \in 1..Received(s) |-> (k + Len(b)) + i]
<1>4. /\ c \in Seq(Nat) /\ Len(c) = Len(b) + Received(s)
      /\ \A i \in 1..Len(c) : c[i] = k + i
  BY <1>1, <1>2, Appended
<1> HIDE DEF c
<1>5. buffers' = [buffers EXCEPT ![Peer(s)] = c]
  BY <1>3 DEF c
<1>6. buffers' \in [Sides -> Seq(Nat)] /\ buffers'[s] = buffers[s] /\ buffers'[Peer(s)] = c
  BY <1>4, <1>5, Peers DEF RelayInv, RelayTypeOK
<1> QED BY <1>1, <1>4, <1>6 DEF Recv, b, k

LEMMA RecvStep ==
    ASSUME RelayInv, NEW s \in Sides, Recv(s) PROVE RelayInv'
<1>1. /\ relayPc = "process" /\ "read" \in ready[s]
      /\ ready' \in [Sides -> SUBSET {"read", "write"}]
      /\ \A t \in Sides : ready'[t] \subseteq ready[t]
      /\ "read" \notin ready'[s]
      /\ cur' \in Sides \cup {"none"} /\ relayPc' \in {"loop", "process"}
  BY ProcessedFrame DEF Recv
<1>2. /\ Received(s) \in Nat
      /\ Received(s) <= written[s] - taken[s]
      /\ Len(buffers[Peer(s)]) + Received(s) <= MaxPending
      /\ Received(s) = 0 => fin[s] /\ taken[s] = written[s]
      /\ read_open[s]
  BY <1>1, ReceivedBounds DEF RelayInv, Selected
<1>3. UNCHANGED <<endpoints, out, stopSet, ended>>
  BY DEF Recv
<1>flags. /\ read_open' \in [Sides -> BOOLEAN] /\ write_closed' \in [Sides -> BOOLEAN]
          /\ read_open'[s] <=> Received(s) > 0
          /\ read_open'[Peer(s)] = read_open[Peer(s)]
          /\ write_closed'[s] = write_closed[s]
          /\ write_closed'[Peer(s)] <=> write_closed[Peer(s)] \/ EndAtOnce(s)
  <2> DEFINE v == Received(s) > 0
             e == write_closed[Peer(s)] \/ EndAtOnce(s)
  <2>1. v \in BOOLEAN /\ e \in BOOLEAN
    OBVIOUS
  <2>2. read_open' = [read_open EXCEPT ![s] = v] /\ write_closed' = [write_closed EXCEPT ![Peer(s)] = e]
    BY RecvEffect
  <2>3. /\ read_open \in [Sides -> BOOLEAN] /\ write_closed \in [Sides -> BOOLEAN]
        /\ Peer(s) \in Sides /\ Peer(s) # s
    BY Peers DEF RelayInv, RelayTypeOK
  <2> HIDE DEF v, e
  <2>4. /\ read_open' \in [Sides -> BOOLEAN] /\ write_closed' \in [Sides -> BOOLEAN]
        /\ read_open'[s] = v /\ read_open'[Peer(s)] = read_open[Peer(s)]
        /\ write_closed'[s] = write_closed[s] /\ write_closed'[Peer(s)] = e
    BY <2>1, <2>2, <2>3
  <2> QED BY <2>4 DEF v, e
<1>4. RelayTypeOK' /\ (ended = "up" <=> relayPc # "done")'
  <2>1. taken' \in [Sides -> Nat]
    <3>1. taken' = [taken EXCEPT ![s] = taken[s] + Received(s)] /\ Received(s) \in Nat
      BY RecvEffect
    <3>2. taken \in [Sides -> Nat]
      BY DEF RelayInv, RelayTypeOK
    <3> QED BY <3>1, <3>2
  <2>2. read_open' \in [Sides -> BOOLEAN] /\ write_closed' \in [Sides -> BOOLEAN]
    BY <1>flags
  <2>3. buffers' \in [Sides -> Seq(Nat)]
    BY RecvEffect
  <2> QED BY <1>1, <1>3, <2>1, <2>2, <2>3 DEF RelayInv, RelayTypeOK, endpoints
<1>5. /\ taken'[s] = taken[s] + Received(s) /\ taken'[Peer(s)] = taken[Peer(s)]
      /\ read_open'[s] <=> Received(s) > 0
      /\ read_open'[Peer(s)] = read_open[Peer(s)]
      /\ write_closed'[s] = write_closed[s]
      /\ write_closed'[Peer(s)] <=> write_closed[Peer(s)] \/ EndAtOnce(s)
      /\ buffers'[s] = buffers[s]
  <2>1. /\ taken'[s] = taken[s] + Received(s) /\ taken'[Peer(s)] = taken[Peer(s)]
        /\ buffers'[s] = buffers[s]
    BY RecvEffect, Peers DEF RelayInv, RelayTypeOK
  <2> QED BY <2>1, <1>flags
<1>6. Carried(s)'
  BY <1>3, <1>5, Peers DEF RelayInv, Carried
<1>7. Carried(Peer(s))'
  <2>1. /\ Len(out[Peer(s)]) + Len(buffers[Peer(s)]) = taken[s]
        /\ \A i \in 1..Len(out[Peer(s)]) : out[Peer(s)][i] = i
        /\ Len(out[Peer(s)]) \in Nat /\ Len(buffers[Peer(s)]) \in Nat
    BY PeerFacts
  <2>2. /\ Len(buffers'[Peer(s)]) = Len(buffers[Peer(s)]) + Received(s)
        /\ \A i \in 1..Len(buffers'[Peer(s)]) : buffers'[Peer(s)][i] = Len(out[Peer(s)]) + i
    BY RecvEffect
  <2>3. out' = out /\ Peer(Peer(s)) = s
    BY <1>3, Peers
  <2>4. Len(out[Peer(s)]) + Len(buffers'[Peer(s)]) = taken'[s]
    <3>1. /\ taken'[s] = taken[s] + Received(s) /\ Received(s) \in Nat
          /\ Len(buffers'[Peer(s)]) = Len(buffers[Peer(s)]) + Received(s)
      BY <1>2, <1>5, <2>2
    <3>2. ASSUME NEW x \in Nat, NEW y \in Nat, NEW z \in Nat
          PROVE  x + (y + z) = (x + y) + z
      OBVIOUS
    <3>3. Len(out[Peer(s)]) + (Len(buffers[Peer(s)]) + Received(s)) =
             (Len(out[Peer(s)]) + Len(buffers[Peer(s)])) + Received(s)
      BY <3>1, <3>2, <2>1, Zenon
    <3> QED BY <3>1, <3>3, <2>1, Zenon
  <2> QED BY <2>1, <2>2, <2>3, <2>4 DEF Carried
<1>8. Bounded(s)' /\ Bounded(Peer(s))'
  <2>1. /\ taken[s] \in Nat /\ written[s] \in Nat
        /\ taken[Peer(s)] <= written[Peer(s)] /\ Len(buffers[s]) <= MaxPending
    BY Peers DEF RelayInv, RelayTypeOK, Bounded
  <2> QED BY <1>2, <1>3, <1>5, <2>1, RecvEffect DEF Bounded, endpoints
<1>9. Ends(s)'
  <2>1. Ends(s) /\ taken[s] \in Nat
    BY DEF RelayInv, RelayTypeOK
  <2>2. fin' = fin /\ written' = written
    BY <1>3 DEF endpoints
  <2>3. ~read_open'[s] => fin'[s] /\ taken'[s] = written'[s]
    BY <1>2, <1>5, <2>1, <2>2
  <2>4. write_closed'[s] <=> ~read_open'[Peer(s)] /\ buffers'[s] = <<>>
    BY <1>5, <2>1 DEF Ends
  <2> QED BY <2>3, <2>4 DEF Ends
<1>10. Ends(Peer(s))'
  <2>1. Ends(Peer(s)) /\ Peer(Peer(s)) = s
    BY Peers DEF RelayInv
  <2>2. buffers'[Peer(s)] \in Seq(Nat) /\ buffers[Peer(s)] \in Seq(Nat)
    BY RecvEffect, Peers DEF RelayInv, RelayTypeOK
  <2>3. buffers'[Peer(s)] = <<>> <=> buffers[Peer(s)] = <<>> /\ Received(s) = 0
    BY <1>2, <2>2, RecvEffect
  <2>4. ~write_closed[Peer(s)]
    BY <1>2, <2>1 DEF Ends
  <2>5. write_closed'[Peer(s)] <=> Received(s) = 0 /\ buffers[Peer(s)] = <<>>
    BY <1>5, <2>4 DEF EndAtOnce
  <2>6. write_closed'[Peer(s)] <=> ~read_open'[s] /\ buffers'[Peer(s)] = <<>>
    BY <1>2, <1>5, <2>3, <2>5
  <2>7. fin' = fin /\ written' = written
    BY <1>3 DEF endpoints
  <2>8. ~read_open'[Peer(s)] => fin'[Peer(s)] /\ taken'[Peer(s)] = written'[Peer(s)]
    BY <1>5, <2>1, <2>7 DEF Ends
  <2> QED BY <2>1, <2>6, <2>8 DEF Ends
<1>11. Selected(s)'
  BY <1>1 DEF Selected
<1>12. Selected(Peer(s))'
  BY <1>1, <1>3, <1>5, Peers DEF RelayInv, Selected, endpoints
<1>13. \A t \in Sides : t = s \/ t = Peer(s)
  BY DEF Sides, Peer
<1> QED BY <1>4, <1>6, <1>7, <1>8, <1>9, <1>10, <1>11, <1>12, <1>13 DEF RelayInv

\* What send() does to the side it writes to.
LEMMA SendEffect ==
    ASSUME RelayInv, NEW s \in Sides, Send(s)
    PROVE  \E n \in 1..Len(buffers[s]) :
             /\ out' \in [Sides -> Seq(Nat)] /\ buffers' \in [Sides -> Seq(Nat)]
             /\ room' \in [Sides -> 0..Window]
             /\ out' = [out EXCEPT ![s] = out'[s]]
             /\ out'[Peer(s)] = out[Peer(s)] /\ buffers'[Peer(s)] = buffers[Peer(s)]
             /\ Len(out'[s]) = Len(out[s]) + n
             /\ Len(buffers'[s]) = Len(buffers[s]) - n
             /\ \A i \in 1..Len(out'[s]) : out'[s][i] = i
             /\ \A i \in 1..Len(buffers'[s]) : buffers'[s][i] = Len(out'[s]) + i
<1> DEFINE a == out[s]
           b == buffers[s]
<1>1. /\ a \in Seq(Nat) /\ b \in Seq(Nat) /\ Len(b) \in Nat /\ room[s] \in 0..Window
      /\ \A i \in 1..Len(a) : a[i] = i
      /\ \A i \in 1..Len(b) : b[i] = Len(a) + i
  <2>1. a \in Seq(Nat) /\ b \in Seq(Nat) /\ room[s] \in 0..Window
    BY DEF RelayInv, RelayTypeOK
  <2>2. Carried(s)
    BY DEF RelayInv
  <2> QED BY <2>1, <2>2 DEF Carried
<1>2. PICK n \in 1..Min({room[s], Len(b)}) :
         /\ out' = [out EXCEPT ![s] = a \o SubSeq(b, 1, n)]
         /\ buffers' = [buffers EXCEPT ![s] = SubSeq(b, n + 1, Len(b))]
         /\ room' = [room EXCEPT ![s] = room[s] - n]
  BY DEF Send
<1>3. n \in 1..Len(b) /\ room[s] - n \in 0..Window
  <2>1. room[s] \in Int /\ Len(b) \in Int /\ Window \in Nat
    BY <1>1, RelayAssumption
  <2>2. /\ Min({room[s], Len(b)}) \in {room[s], Len(b)}
        /\ Min({room[s], Len(b)}) <= room[s] /\ Min({room[s], Len(b)}) <= Len(b)
    BY <2>1, MinOfTwo
  <2> QED BY <1>1, <2>1, <2>2, SMTT(30)
<1> DEFINE c == Joined(a, b, n)
           d == Left(b, n)
<1>4. out' = [out EXCEPT ![s] = c] /\ buffers' = [buffers EXCEPT ![s] = d]
  BY <1>2 DEF Joined, Left
<1>5. /\ c \in Seq(Nat) /\ Len(c) = Len(a) + n
      /\ \A i \in 1..Len(c) : c[i] = i
      /\ d \in Seq(Nat) /\ Len(d) = Len(b) - n
      /\ \A i \in 1..Len(d) : d[i] = Len(c) + i
  <2>1. Numbered(a, 0) /\ Numbered(b, Len(a)) /\ n \in 1..Len(b)
    BY <1>1, <1>3 DEF Numbered
  <2>2. /\ Numbered(Joined(a, b, n), 0)
        /\ Numbered(Left(b, n), Len(Joined(a, b, n)))
        /\ Len(Joined(a, b, n)) = Len(a) + n /\ Len(Left(b, n)) = Len(b) - n
    BY <2>1, Moved
  <2> HIDE DEF a, b, c, d
  <2>3. /\ Numbered(c, 0) /\ Numbered(d, Len(c))
        /\ Len(c) = Len(a) + n /\ Len(d) = Len(b) - n
    BY <2>2 DEF c, d
  <2> QED BY <2>3 DEF Numbered
<1> HIDE DEF c, d
<1>6. /\ out \in [Sides -> Seq(Nat)] /\ buffers \in [Sides -> Seq(Nat)]
      /\ room \in [Sides -> 0..Window] /\ Peer(s) \in Sides /\ Peer(s) # s
  BY Peers DEF RelayInv, RelayTypeOK
<1>7. /\ out' \in [Sides -> Seq(Nat)] /\ buffers' \in [Sides -> Seq(Nat)]
      /\ out'[s] = c /\ buffers'[s] = d
      /\ out'[Peer(s)] = out[Peer(s)] /\ buffers'[Peer(s)] = buffers[Peer(s)]
  BY <1>4, <1>5, <1>6
<1>8. room' \in [Sides -> 0..Window]
  BY <1>2, <1>3, <1>6
<1>9. out' = [out EXCEPT ![s] = out'[s]]
  BY <1>4, <1>7
<1> QED BY <1>3, <1>5, <1>7, <1>8, <1>9 DEF a, b

LEMMA SendStep ==
    ASSUME RelayInv, NEW s \in Sides, Send(s) PROVE RelayInv'
<1>1. /\ relayPc = "process"
      /\ ready' \in [Sides -> SUBSET {"read", "write"}]
      /\ \A t \in Sides : ready'[t] \subseteq ready[t]
      /\ cur' \in Sides \cup {"none"} /\ relayPc' \in {"loop", "process"}
      /\ "read" \notin ready[s]
  BY ProcessedFrame DEF Send
<1>2. UNCHANGED <<written, fin, taken, read_open, stopSet, ended>>
  BY DEF Send
<1>3. PICK n \in 1..Len(buffers[s]) :
             /\ out' \in [Sides -> Seq(Nat)] /\ buffers' \in [Sides -> Seq(Nat)]
             /\ room' \in [Sides -> 0..Window]
             /\ out'[Peer(s)] = out[Peer(s)] /\ buffers'[Peer(s)] = buffers[Peer(s)]
             /\ Len(out'[s]) = Len(out[s]) + n
             /\ Len(buffers'[s]) = Len(buffers[s]) - n
             /\ \A i \in 1..Len(out'[s]) : out'[s][i] = i
             /\ \A i \in 1..Len(buffers'[s]) : buffers'[s][i] = Len(out'[s]) + i
  BY SendEffect
<1>4. /\ write_closed' \in [Sides -> BOOLEAN]
      /\ write_closed'[Peer(s)] = write_closed[Peer(s)]
      /\ write_closed'[s] <=> write_closed[s] \/ (buffers'[s] = <<>> /\ ~read_open[Peer(s)])
  <2> DEFINE e == write_closed[s] \/ (buffers'[s] = <<>> /\ ~read_open[Peer(s)])
  <2>1. e \in BOOLEAN
    OBVIOUS
  <2>2. write_closed' = [write_closed EXCEPT ![s] = e]
    BY DEF Send
  <2>3. write_closed \in [Sides -> BOOLEAN] /\ Peer(s) \in Sides /\ Peer(s) # s
    BY Peers DEF RelayInv, RelayTypeOK
  <2> HIDE DEF e
  <2>4. /\ write_closed' \in [Sides -> BOOLEAN]
        /\ write_closed'[s] = e /\ write_closed'[Peer(s)] = write_closed[Peer(s)]
    BY <2>1, <2>2, <2>3
  <2> QED BY <2>4 DEF e
<1>5. RelayTypeOK' /\ (ended = "up" <=> relayPc # "done")'
  BY <1>1, <1>2, <1>3, <1>4 DEF RelayInv, RelayTypeOK
<1>6. /\ out[s] \in Seq(Nat) /\ buffers[s] \in Seq(Nat)
      /\ Len(out[s]) \in Nat /\ Len(buffers[s]) \in Nat
      /\ Len(out[s]) + Len(buffers[s]) = taken[Peer(s)]
      /\ Len(buffers[s]) <= MaxPending /\ MaxPending \in Nat
  <2>1. out[s] \in Seq(Nat) /\ buffers[s] \in Seq(Nat)
    BY DEF RelayInv, RelayTypeOK
  <2>2. Carried(s) /\ Bounded(s)
    BY DEF RelayInv
  <2>3. Len(out[s]) \in Nat /\ Len(buffers[s]) \in Nat
    BY <2>1
  <2> QED BY <2>1, <2>2, <2>3, RelayAssumption, Zenon DEF Carried, Bounded
<1>7. Carried(s)'
  <2>1. Len(out'[s]) + Len(buffers'[s]) = Len(out[s]) + Len(buffers[s])
    <3>1. ASSUME NEW x \in Nat, NEW y \in Nat, NEW z \in 1..y
          PROVE  (x + z) + (y - z) = x + y
      OBVIOUS
    <3>2. (Len(out[s]) + n) + (Len(buffers[s]) - n) = Len(out[s]) + Len(buffers[s])
      BY <1>6, <3>1, Zenon
    <3> QED BY <1>3, <3>2, Zenon
  <2>2. Len(out'[s]) + Len(buffers'[s]) = taken'[Peer(s)]
    BY <1>2, <1>6, <2>1, Zenon
  <2> QED BY <1>3, <2>2 DEF Carried
<1>8. Carried(Peer(s))'
  BY <1>2, <1>3, Peers DEF RelayInv, Carried
<1>9. Bounded(s)' /\ Bounded(Peer(s))'
  <2>1. Len(buffers'[s]) <= MaxPending
    BY <1>3, <1>6
  <2>2. Bounded(s) /\ Bounded(Peer(s))
    BY Peers DEF RelayInv
  <2> QED BY <1>2, <1>3, <2>1, <2>2 DEF Bounded
<1>10. Ends(s)'
  <2>1. Ends(s)
    BY DEF RelayInv
  <2>2. buffers[s] # <<>>
    BY <1>3, <1>6
  <2>3. write_closed'[s] <=> ~read_open'[Peer(s)] /\ buffers'[s] = <<>>
    BY <1>2, <1>4, <2>1, <2>2 DEF Ends
  <2> QED BY <1>2, <2>1, <2>3 DEF Ends
<1>11. Ends(Peer(s))'
  <2>1. Ends(Peer(s))
    BY Peers DEF RelayInv
  <2> QED BY <1>2, <1>3, <1>4, <2>1 DEF Ends
<1>12. Selected(s)'
  BY <1>1 DEF Selected
<1>13. Selected(Peer(s))'
  <2>1. Selected(Peer(s)) /\ Peer(Peer(s)) = s
    BY Peers DEF RelayInv
  <2>2. Len(buffers[s]) < MaxPending => Len(buffers'[s]) < MaxPending
    BY <1>3, <1>6
  <2>3. "read" \in ready'[Peer(s)] => "read" \in ready[Peer(s)]
    BY <1>1, Peers
  <2> QED BY <1>2, <2>1, <2>2, <2>3 DEF Selected
<1>14. \A t \in Sides : t = s \/ t = Peer(s)
  BY DEF Sides, Peer
<1> QED BY <1>5, <1>7, <1>8, <1>9, <1>10, <1>11, <1>12, <1>13, <1>14 DEF RelayInv

LEMMA InvStep == RelayInv /\ [RelayNext]_relayVars => RelayInv'
<1> SUFFICES ASSUME RelayInv, [RelayNext]_relayVars PROVE RelayInv'
  OBVIOUS
<1>1. CASE LoopStopped \/ LoopIdle \/ SocketError
  BY <1>1, ReturnStep DEF LoopStopped, LoopIdle, SocketError
<1>2. CASE LoopDrained
  BY <1>2, ReturnStep DEF LoopDrained
<1>3. CASE Select
  BY <1>3, SelectStep
<1>4. ASSUME NEW s \in Sides, Recv(s) \/ Send(s) PROVE RelayInv'
  BY <1>4, RecvStep, SendStep
<1>5. CASE request_stop \/ \E s \in Sides :
               EndpointWrites(s) \/ EndpointCloses(s) \/ EndpointReads(s)
  BY <1>5, EndpointStep
<1>6. CASE UNCHANGED relayVars
  BY <1>6 DEF relayVars, RelayInv, RelayTypeOK, Carried, Bounded, Ends, Selected
<1> QED BY <1>1, <1>2, <1>3, <1>4, <1>5, <1>6 DEF RelayNext, RelayStep

\* The inductive invariant holds in every reachable state.
THEOREM RelayInvariant == RelaySpec => []RelayInv
<1>1. RelayInit => RelayInv
  BY InvInit
<1>2. RelayInv /\ [RelayNext]_relayVars => RelayInv'
  BY InvStep
<1> QED BY <1>1, <1>2, PTL DEF RelaySpec

\* _relay keeps its state well typed: buffers never outgrow MAX_PENDING_BYTES
\* (RelayInv) and every field has its type.
THEOREM RelayTypeCorrect == RelaySpec => []RelayTypeOK
<1>1. RelayInv => RelayTypeOK
  BY DEF RelayInv
<1> QED BY <1>1, RelayInvariant, PTL

(***************************************************************************)
(* The relay implements the streams.                                        *)
(***************************************************************************)

\* What a side was sent is the prefix of the stream of that length.
LEMMA SentIsPrefix ==
    ASSUME NEW q \in Seq(Nat), \A i \in 1..Len(q) : q[i] = i
    PROVE  q = S!Prefix(Len(q))
<1>1. q = [i \in 1..Len(q) |-> q[i]]
  OBVIOUS
<1>2. [i \in 1..Len(q) |-> q[i]] = [i \in 1..Len(q) |-> i]
  OBVIOUS
<1> QED BY <1>1, <1>2 DEF S!Prefix

\* The two modules name the sides alike.
LEMMA SameSides ==
    S!Sides = Sides /\ \A s \in Sides : S!Peer(s) = Peer(s)
BY DEF Sides, S!Sides, Peer, S!Peer

LEMMA RecvDelivers ==
    ASSUME RelayInv, NEW s \in Sides, Recv(s)
    PROVE  S!Deliver(Peer(s)) \/ UNCHANGED S!streamVars
<1>1. /\ UNCHANGED <<written, fin, out, ended>> /\ relayPc = "process" /\ "read" \in ready[s]
      /\ write_closed' = [write_closed EXCEPT
             ![Peer(s)] = write_closed[Peer(s)] \/ EndAtOnce(s)]
  BY ProcessedFrame, RecvEffect DEF Recv, endpoints
<1>2. ended = "up" /\ read_open[s]
  BY <1>1 DEF RelayInv, Selected
<1>3. write_closed \in [Sides -> BOOLEAN] /\ out \in [Sides -> Seq(Nat)] /\ Peer(s) \in Sides
  BY Peers DEF RelayInv, RelayTypeOK
<1>4. ~write_closed[Peer(s)]
  BY <1>2, PeerFacts
<1>5. CASE ~EndAtOnce(s)
  <2>1. write_closed' = [write_closed EXCEPT ![Peer(s)] = write_closed[Peer(s)]]
    <3> DEFINE e == write_closed[Peer(s)] \/ EndAtOnce(s)
    <3>1. e = write_closed[Peer(s)]
      BY <1>3, <1>4, <1>5, Zenon
    <3> HIDE DEF e
    <3>2. write_closed' = [write_closed EXCEPT ![Peer(s)] = e]
      BY <1>1 DEF e
    <3> QED BY <3>1, <3>2
  <2>2. write_closed' = write_closed
    BY <1>3, <2>1
  <2> QED BY <1>1, <2>2 DEF S!streamVars
<1>6. CASE EndAtOnce(s)
  <2>1. write_closed' = [write_closed EXCEPT ![Peer(s)] = TRUE]
    <3> DEFINE e == write_closed[Peer(s)] \/ EndAtOnce(s)
    <3>1. e = TRUE
      BY <1>6
    <3> HIDE DEF e
    <3>2. write_closed' = [write_closed EXCEPT ![Peer(s)] = e]
      BY <1>1 DEF e
    <3> QED BY <3>1, <3>2
  <2>2. Received(s) = 0 /\ buffers[Peer(s)] = <<>>
    BY <1>6 DEF EndAtOnce
  <2>3. fin[s] /\ taken[s] = written[s]
    BY <1>1, <2>2, ReceivedBounds
  <2> DEFINE q == out[Peer(s)]
  <2>4. q \in Seq(Nat) /\ Len(q) \in Nat /\ (\A i \in 1..Len(q) : q[i] = i)
    BY PeerFacts
  <2>5. Len(q) = written[s]
    <3>1. taken[s] = Len(q) + Len(buffers[Peer(s)])
      BY PeerFacts
    <3>2. Len(buffers[Peer(s)]) = 0
      BY <2>2
    <3> HIDE DEF q
    <3> QED BY <2>3, <2>4, <3>1, <3>2
  <2>6. q = S!Prefix(Len(q))
    BY <2>4, SentIsPrefix
  <2>7. out' = [out EXCEPT ![Peer(s)] = S!Prefix(Len(q))]
    <3>1. out = [out EXCEPT ![Peer(s)] = q]
      BY <1>3
    <3> QED BY <1>1, <2>6, <3>1
  <2>8. S!Peer(Peer(s)) = s
    BY SameSides, Peers
  <2>9. Len(q) \in Len(out[Peer(s)])..written[s]
    BY <2>4, <2>5
  <2> HIDE DEF q
  <2> QED BY <1>1, <1>2, <1>4, <2>1, <2>3, <2>5, <2>7, <2>8, <2>9 DEF S!Deliver
<1> QED BY <1>5, <1>6

\* A part of what is pending stays within what was written.
LEMMA Within ==
    ASSUME NEW x \in Nat, NEW y \in Nat, NEW t \in Nat, NEW w \in Nat,
           NEW z \in 1..y, x + y = t, t <= w
    PROVE  x + z \in x..w
OBVIOUS

LEMMA SendDelivers ==
    ASSUME RelayInv, NEW s \in Sides, Send(s)
    PROVE  S!Deliver(s)
<1>1. /\ UNCHANGED <<written, fin, ended>> /\ relayPc = "process" /\ ended = "up"
  BY ProcessedFrame DEF Send, RelayInv
<1>2. PICK n \in 1..Len(buffers[s]) :
             /\ out' \in [Sides -> Seq(Nat)] /\ buffers' \in [Sides -> Seq(Nat)]
             /\ out' = [out EXCEPT ![s] = out'[s]]
             /\ Len(out'[s]) = Len(out[s]) + n
             /\ Len(buffers'[s]) = Len(buffers[s]) - n
             /\ \A i \in 1..Len(out'[s]) : out'[s][i] = i
  BY SendEffect
<1>3. /\ Peer(s) \in Sides /\ S!Peer(s) = Peer(s)
      /\ out[s] \in Seq(Nat) /\ buffers[s] \in Seq(Nat)
      /\ Len(out[s]) \in Nat /\ Len(buffers[s]) \in Nat
      /\ written[Peer(s)] \in Nat /\ taken[Peer(s)] \in Nat
      /\ write_closed \in [Sides -> BOOLEAN]
  <2>1. Peer(s) \in Sides /\ S!Peer(s) = Peer(s)
    BY SameSides, Peers
  <2>2. out[s] \in Seq(Nat) /\ buffers[s] \in Seq(Nat)
    BY DEF RelayInv, RelayTypeOK
  <2>3. Len(out[s]) \in Nat /\ Len(buffers[s]) \in Nat
    BY <2>2
  <2> QED BY <2>1, <2>2, <2>3 DEF RelayInv, RelayTypeOK
<1>4. /\ Len(out[s]) + Len(buffers[s]) = taken[Peer(s)]
      /\ taken[Peer(s)] <= written[Peer(s)]
  BY <1>3 DEF RelayInv, Carried, Bounded
<1>5. Ends(s) /\ Ends(Peer(s)) /\ buffers[s] # <<>>
  BY <1>2, <1>3 DEF RelayInv
<1>6. ~write_closed[s]
  BY <1>5 DEF Ends
<1> DEFINE m == Len(out'[s])
<1>7. m \in Len(out[s])..written[Peer(s)] /\ (n = Len(buffers[s]) => m = taken[Peer(s)])
  <2>1. m = Len(out[s]) + n
    BY <1>2
  <2>3. Len(out[s]) + n \in Len(out[s])..written[Peer(s)]
    BY <1>3, <1>4, Within
  <2> HIDE DEF m
  <2> QED BY <1>4, <2>1, <2>3
<1>8. out'[s] = S!Prefix(m)
  BY <1>2, SentIsPrefix
<1>9. out' = [out EXCEPT ![s] = S!Prefix(m)]
  BY <1>2, <1>8
<1> DEFINE e == write_closed[s] \/ (buffers'[s] = <<>> /\ ~read_open[Peer(s)])
<1>10. write_closed' = [write_closed EXCEPT ![s] = e] /\ e \in BOOLEAN
  BY DEF Send
<1>11. e => fin[Peer(s)] /\ m = written[Peer(s)]
  <2>1. e => buffers'[s] = <<>> /\ ~read_open[Peer(s)]
    BY <1>6
  <2>2. buffers'[s] = <<>> => m = taken[Peer(s)]
    <3> HIDE DEF m
    <3>1. buffers'[s] = <<>> => n = Len(buffers[s])
      BY <1>2, <1>3
    <3> QED BY <1>7, <3>1
  <2>3. ~read_open[Peer(s)] => fin[Peer(s)] /\ taken[Peer(s)] = written[Peer(s)]
    BY <1>5 DEF Ends
  <2> QED BY <2>1, <2>2, <2>3
<1> HIDE DEF e, m
<1>12. CASE e
  <2>1. write_closed' = [write_closed EXCEPT ![s] = TRUE]
    BY <1>10, <1>12
  <2> QED BY <1>1, <1>3, <1>6, <1>7, <1>9, <1>11, <1>12, <2>1 DEF S!Deliver
<1>13. CASE ~e
  <2>1. write_closed' = write_closed
    <3>1. e = write_closed[s]
      BY <1>3, <1>6, <1>10, <1>13, Zenon
    <3> QED BY <1>3, <1>10, <3>1
  <2> QED BY <1>1, <1>3, <1>6, <1>7, <1>9, <2>1 DEF S!Deliver
<1> QED BY <1>12, <1>13

\* The loop finds itself drained only when both ends were passed on.
LEMMA DrainedFinishes ==
    ASSUME RelayInv, LoopDrained PROVE S!Finish
<1>1. /\ relayPc = "loop" /\ RelayDrained /\ ended' = "clean"
      /\ UNCHANGED <<written, fin, out, write_closed>>
  BY DEF LoopDrained, Return, endpoints, relay
<1>2. ASSUME NEW s \in Sides PROVE write_closed[s]
  <2>1. Ends(s) /\ Ends(Peer(s)) /\ Peer(s) \in Sides /\ Peer(Peer(s)) = s
    BY Peers DEF RelayInv
  <2>2. CASE \A t \in Sides : ~read_open[t] /\ buffers[t] = <<>>
    BY <2>1, <2>2 DEF Ends
  <2>3. CASE \A t \in Sides : Events(t) = {}
    <3>1. "read" \notin Events(Peer(s)) /\ "write" \notin Events(s)
      BY <2>1, <2>3
    <3>2. buffers[s] = <<>> \/ write_closed[s]
      BY <3>1 DEF Events
    <3>3. CASE buffers[s] = <<>>
      <4>1. Len(buffers[s]) < MaxPending
        BY <3>3, RelayAssumption
      <4>2. ~read_open[Peer(s)]
        BY <2>1, <3>1, <4>1 DEF Events
      <4> QED BY <2>1, <3>3, <4>2 DEF Ends
    <3> QED BY <3>2, <3>3
  <2> QED BY <1>1, <2>2, <2>3 DEF RelayDrained
<1>3. ended = "up"
  BY <1>1 DEF RelayInv
<1> QED BY <1>1, <1>2, <1>3, SameSides DEF S!Finish

LEMMA StepRefines == RelayInv /\ [RelayNext]_relayVars => [S!StreamNext]_(S!streamVars)
<1> SUFFICES ASSUME RelayInv, [RelayNext]_relayVars PROVE S!StreamNext \/ UNCHANGED S!streamVars
  BY DEF S!streamVars
<1>1. CASE LoopStopped \/ LoopIdle \/ SocketError
  <2>1. relayPc # "done" /\ ended' = "cut" /\ UNCHANGED <<written, fin, out, write_closed>>
    BY <1>1 DEF LoopStopped, LoopIdle, SocketError, Return, endpoints, relay
  <2>2. S!Cut
    BY <2>1 DEF RelayInv, S!Cut
  <2> QED BY <2>2 DEF S!StreamNext
<1>2. CASE LoopDrained
  BY <1>2, DrainedFinishes DEF S!StreamNext
<1>3. CASE Select \/ request_stop \/ UNCHANGED relayVars
  BY <1>3 DEF Select, request_stop, relayVars, endpoints, relay, S!streamVars
<1>4. ASSUME NEW s \in Sides, Recv(s) PROVE S!StreamNext \/ UNCHANGED S!streamVars
  BY <1>4, RecvDelivers, SameSides, Peers DEF S!StreamNext
<1>5. ASSUME NEW s \in Sides, Send(s) PROVE S!StreamNext
  BY <1>5, SendDelivers, SameSides DEF S!StreamNext
<1>6. ASSUME NEW s \in Sides, EndpointWrites(s) PROVE S!StreamNext
  BY <1>6, SameSides DEF EndpointWrites, relay, S!Write, S!StreamNext
<1>7. ASSUME NEW s \in Sides, EndpointCloses(s) PROVE S!StreamNext
  BY <1>7, SameSides DEF EndpointCloses, relay, S!EndStream, S!StreamNext
<1>8. ASSUME NEW s \in Sides, EndpointReads(s) PROVE UNCHANGED S!streamVars
  BY <1>8 DEF EndpointReads, relay, S!streamVars
<1> QED BY <1>1, <1>2, <1>3, <1>4, <1>5, <1>6, <1>7, <1>8 DEF RelayNext, RelayStep

\* _relay implements the pair of ordered streams for every buffer bound, chunk
\* size and kernel window: what a socket was sent is a prefix of what the other
\* side wrote, shutdown(SHUT_WR) comes with the last byte and never before it,
\* and the loop's own return means that both streams were relayed to the end.
THEOREM RelayImplementsStreams == RelaySpec => ImplementsStreams
<1>1. RelayInit => S!StreamInit
  BY SameSides DEF RelayInit, S!StreamInit
<1>2. RelayInv /\ [RelayNext]_relayVars => [S!StreamNext]_(S!streamVars)
  BY StepRefines
<1> QED BY <1>1, <1>2, RelayInvariant, PTL DEF RelaySpec, ImplementsStreams, S!StreamSpec

=============================================================================
