------------------------------- MODULE Bridge -------------------------------
(***************************************************************************)
(* The authenticated HTTP bridge of bench/docker_bridge.py as the threads   *)
(* that share one bridge object: the Acceptor (serve_forever), one worker   *)
(* per connection (_worker_entry) and the Owner, who starts the bridge,     *)
(* runs the acceptor in a thread and closes the bridge while it serves, as  *)
(* the Harbor campaign does.  The variant is the Unix one, whose listener   *)
(* also has a path in the file system; the TCP variant has none.            *)
(*                                                                         *)
(* An action is what a thread does between two points at which another      *)
(* thread can act: the sections under _lock, and the socket calls outside.  *)
(* What a connection carries is the subject of module Relay.                *)
(***************************************************************************)
EXTENDS Integers, FiniteSets

CONSTANTS
    NConns,       \* bound on the number of connections that are made
    MaxWorkers,   \* MAX_WORKERS
    MaxCloses     \* bound on the number of calls of close()

ASSUME BridgeAssumption ==
    /\ NConns \in Nat
    /\ MaxWorkers \in Nat \ {0}
    /\ MaxCloses \in Nat

\* The connections in the order of their acceptance, one worker thread each.
Conns == 1..NConns

Sockets == {"client", "upstream"} \X Conns
Client(c) == <<"client", c>>
Upstream(c) == <<"upstream", c>>

\* The two threads that may run request_stop.
Stoppers == {"owner", "acceptor"}

VARIABLES
    stop,       \* _stop_event
    closed,     \* _closed
    installed,  \* _listener is set
    listening,  \* the listening socket is open
    identity,   \* _socket_identity is set
    path,       \* the socket's path exists
    owned,      \* _owned_sockets
    workers,    \* _workers
    sock,       \* each socket: "none", "open" or "closed"
    wpc,        \* each worker: where it is, "none" before it is created
    pc,         \* the owner and the acceptor
    snap,       \* the sockets a stopper took from _owned_sockets
    took,       \* whether a stopper took the listener
    joining,    \* the workers close() has still to join
    closes      \* how often close() was called

shared == <<stop, closed, installed, listening, identity, path>>
vars == <<stop, closed, installed, listening, identity, path, owned, workers,
          sock, wpc, pc, snap, took, joining, closes>>

OwnerPcs == {"new", "bound", "unbind", "idle", "closing", "stop", "take",
             "shut", "forget", "unlink", "list", "join", "raised"}
AcceptorPcs == {"none", "serve", "accept", "track", "register", "refuse",
                "start", "stop", "take", "shut", "forget", "unlink", "done"}
WorkerPcs == {"none", "created", "read", "connect", "track", "send", "relay",
              "forgetUp", "forgetClient", "leave", "done"}

TypeOK ==
    /\ stop \in BOOLEAN /\ closed \in BOOLEAN /\ installed \in BOOLEAN
    /\ listening \in BOOLEAN /\ identity \in BOOLEAN /\ path \in BOOLEAN
    /\ owned \subseteq Sockets
    /\ workers \subseteq Conns
    /\ sock \in [Sockets -> {"none", "open", "closed"}]
    /\ wpc \in [Conns -> WorkerPcs]
    /\ pc \in [owner : OwnerPcs, acceptor : AcceptorPcs]
    /\ snap \in [Stoppers -> SUBSET Sockets]
    /\ took \in [Stoppers -> BOOLEAN]
    /\ joining \subseteq Conns
    /\ closes \in 0..MaxCloses

Init ==
    /\ stop = FALSE /\ closed = FALSE /\ installed = FALSE
    /\ listening = FALSE /\ identity = FALSE /\ path = FALSE
    /\ owned = {} /\ workers = {}
    /\ sock = [s \in Sockets |-> "none"]
    /\ wpc = [c \in Conns |-> "none"]
    /\ pc = [owner |-> "new", acceptor |-> "none"]
    /\ snap = [t \in Stoppers |-> {}]
    /\ took = [t \in Stoppers |-> FALSE]
    /\ joining = {}
    /\ closes = 0

Goto(t, from, to) == pc[t] = from /\ pc' = [pc EXCEPT ![t] = to]
Step(c, from, to) == wpc[c] = from /\ wpc' = [wpc EXCEPT ![c] = to]
CloseSockets(S) ==
    sock' = [s \in Sockets |-> IF s \in S THEN "closed" ELSE sock[s]]

(***************************************************************************)
(* The owner: start, the acceptor's thread, signal_stop.                    *)
(***************************************************************************)

\* bind() creates the path; its identity is remembered under the lock.
Bind ==
    /\ Goto("owner", "new", "bound")
    /\ listening' = TRUE /\ identity' = TRUE /\ path' = TRUE
    /\ UNCHANGED <<stop, closed, installed, owned, workers, sock, wpc, snap, took,
                   joining, closes>>

\* The listener is installed, unless a check of the path or listen() failed.
Install ==
    /\ Goto("owner", "bound", "idle")
    /\ ~closed /\ ~installed
    /\ installed' = TRUE
    /\ UNCHANGED <<stop, closed, listening, identity, path, owned, workers,
                   sock, wpc, snap, took, joining, closes>>

StartFails ==
    /\ Goto("owner", "bound", "unbind")
    /\ listening' = FALSE
    /\ UNCHANGED <<stop, closed, installed, identity, path, owned, workers,
                   sock, wpc, snap, took, joining, closes>>

\* The handler of start() removes the path it bound.
Unbind ==
    /\ Goto("owner", "unbind", "idle")
    /\ identity' = FALSE
    /\ path' = (path /\ ~identity)
    /\ UNCHANGED <<stop, closed, installed, listening, owned, workers, sock,
                   wpc, snap, took, joining, closes>>

\* The thread that serves is started once, after start() returned.
Serve ==
    /\ pc.owner = "idle" /\ closes = 0
    /\ Goto("acceptor", "none", "serve")
    /\ UNCHANGED <<shared, owned, workers, sock, wpc, snap, took, joining, closes>>

\* A signal handler sets the event and takes no lock.
signal_stop ==
    /\ pc.acceptor # "none" /\ ~stop
    /\ stop' = TRUE
    /\ UNCHANGED <<closed, installed, listening, identity, path, owned,
                   workers, sock, wpc, pc, snap, took, joining, closes>>

(***************************************************************************)
(* request_stop, run by the owner inside close() and by the acceptor when   *)
(* it leaves serve_forever.                                                 *)
(***************************************************************************)

SetStop(t) ==
    /\ Goto(t, "stop", "take")
    /\ stop' = TRUE
    /\ UNCHANGED <<closed, installed, listening, identity, path, owned,
                   workers, sock, wpc, snap, took, joining, closes>>

\* Under the lock: take the listener and a snapshot of the sockets.
Take(t) ==
    /\ Goto(t, "take", "shut")
    /\ installed' = FALSE
    /\ took' = [took EXCEPT ![t] = installed]
    /\ snap' = [snap EXCEPT ![t] = owned]
    /\ UNCHANGED <<stop, closed, listening, identity, path, owned, workers,
                   sock, wpc, joining, closes>>

\* Mutant: only the listener is closed.
ShutSnapshot_ListenerOnly(t) ==
    /\ Goto(t, "shut", "forget")
    /\ listening' = (listening /\ ~took[t])
    /\ took' = [took EXCEPT ![t] = FALSE]
    /\ snap' = [snap EXCEPT ![t] = {}]
    /\ UNCHANGED <<stop, closed, installed, identity, path, owned, workers,
                   sock, wpc, joining, closes>>

\* Without the lock: shut down and close what was taken.
ShutSnapshot(t) ==
    /\ Goto(t, "shut", "forget")
    /\ listening' = (listening /\ ~took[t])
    /\ CloseSockets(snap[t])
    /\ took' = [took EXCEPT ![t] = FALSE]
    /\ snap' = [snap EXCEPT ![t] = {}]
    /\ UNCHANGED <<stop, closed, installed, identity, path, owned, workers,
                   wpc, joining, closes>>

After(t) == IF t = "owner" THEN "list" ELSE "done"

\* Under the lock: whoever finds the identity takes it and will unlink.
_remove_owned_socket_path(t) ==
    /\ Goto(t, "forget", IF identity THEN "unlink" ELSE After(t))
    /\ identity' = FALSE
    /\ UNCHANGED <<stop, closed, installed, listening, path, owned, workers,
                   sock, wpc, snap, took, joining, closes>>

Unlink(t) ==
    /\ Goto(t, "unlink", After(t))
    /\ path' = FALSE
    /\ UNCHANGED <<stop, closed, installed, listening, identity, owned,
                   workers, sock, wpc, snap, took, joining, closes>>

(***************************************************************************)
(* close                                                                    *)
(***************************************************************************)

\* The owner gives up the bridge, whether or not start() worked.
CallClose ==
    /\ pc.owner \in {"idle", "raised"} /\ closes < MaxCloses
    /\ pc' = [pc EXCEPT !.owner = "closing"]
    /\ closes' = closes + 1
    /\ UNCHANGED <<shared, owned, workers, sock, wpc, snap, took, joining>>

MarkClosed ==
    /\ Goto("owner", "closing", "stop")
    /\ closed' = TRUE
    /\ UNCHANGED <<stop, installed, listening, identity, path, owned, workers,
                   sock, wpc, snap, took, joining, closes>>

ListWorkers ==
    /\ Goto("owner", "list", "join")
    /\ joining' = workers
    /\ UNCHANGED <<shared, owned, workers, sock, wpc, snap, took, closes>>

\* join() of a worker that has ended, or until the common deadline.  A thread
\* that was not started yet cannot be joined: RuntimeError ends close().
Join(c) ==
    /\ pc.owner = "join" /\ c \in joining
    /\ IF wpc[c] = "created"
       THEN pc' = [pc EXCEPT !.owner = "raised"] /\ joining' = {}
       ELSE UNCHANGED pc /\ joining' = joining \ {c}
    /\ UNCHANGED <<shared, owned, workers, sock, wpc, snap, took, closes>>

CloseReturns ==
    /\ joining = {}
    /\ Goto("owner", "join", "idle")
    /\ UNCHANGED <<shared, owned, workers, sock, wpc, snap, took, joining, closes>>

(***************************************************************************)
(* serve_forever                                                            *)
(***************************************************************************)

\* Without a listener serve_forever raises before it enters the try block.
ReadListener ==
    /\ Goto("acceptor", "serve", IF installed THEN "accept" ELSE "done")
    /\ UNCHANGED <<shared, owned, workers, sock, wpc, snap, took, joining, closes>>

\* accept() returns a client.  The loop tested the event before accept() and
\* so says nothing about it now.
Accept(c) ==
    /\ listening /\ sock[Client(c)] = "none"
    /\ c > 1 => sock[Client(c - 1)] # "none"
    /\ Goto("acceptor", "accept", "track")
    /\ sock' = [sock EXCEPT ![Client(c)] = "open"]
    /\ UNCHANGED <<shared, owned, workers, wpc, snap, took, joining, closes>>

\* The poll expires and the loop finds the event set, or accept() fails: on a
\* listener that was closed, or for lack of a descriptor.
StopServing ==
    /\ Goto("acceptor", "accept", "stop")
    /\ UNCHANGED <<shared, owned, workers, sock, wpc, snap, took, joining, closes>>

\* The client accepted last, which the acceptor has not handed to a worker.
Accepted(c) == sock[Client(c)] # "none" /\ wpc[c] = "none"

\* Mutant: _track_socket looks at _closed only.
Refuses_ClosedOnly == closed

Refuses == closed \/ stop

\* A client that _track_socket refuses is closed at once.
TrackClient(c) ==
    /\ Accepted(c) /\ sock[Client(c)] = "open" /\ Client(c) \notin owned
    /\ Goto("acceptor", "track", IF Refuses THEN "stop" ELSE "register")
    /\ IF Refuses
       THEN CloseSockets({Client(c)}) /\ UNCHANGED owned
       ELSE owned' = owned \cup {Client(c)} /\ UNCHANGED sock
    /\ UNCHANGED <<shared, workers, wpc, snap, took, joining, closes>>

Full == Cardinality(workers) >= MaxWorkers

RegisterWorker(c) ==
    /\ Accepted(c) /\ Client(c) \in owned
    /\ Goto("acceptor", "register", IF Full THEN "refuse" ELSE "start")
    /\ IF Full
       THEN owned' = owned \ {Client(c)} /\ UNCHANGED <<workers, wpc>>
       ELSE /\ workers' = workers \cup {c}
            /\ wpc' = [wpc EXCEPT ![c] = "created"]
            /\ UNCHANGED owned
    /\ UNCHANGED <<shared, sock, snap, took, joining, closes>>

\* The client of a bridge with no worker to spare.
Refused(c) == Accepted(c) /\ Client(c) \notin owned

\* Mutant: the refused client is forgotten and not closed.
RefuseClient_Leaks ==
    /\ Goto("acceptor", "refuse", "accept")
    /\ UNCHANGED <<shared, owned, workers, sock, wpc, snap, took, joining,
                   closes>>

RefuseClient ==
    /\ Goto("acceptor", "refuse", "accept")
    /\ CloseSockets({Client(c) : c \in {d \in Conns : Refused(d)}})
    /\ UNCHANGED <<shared, owned, workers, wpc, snap, took, joining, closes>>

StartWorker(c) ==
    /\ Goto("acceptor", "start", "accept")
    /\ Step(c, "created", "read")
    /\ UNCHANGED <<shared, owned, workers, sock, snap, took, joining, closes>>

(***************************************************************************)
(* A worker: _handle_client inside _worker_entry.                           *)
(***************************************************************************)

\* The request is complete and authorized, and no stop was requested.
ReadRequest(c) ==
    /\ sock[Client(c)] = "open" /\ ~stop
    /\ Step(c, "read", "connect")
    /\ UNCHANGED <<shared, owned, workers, sock, pc, snap, took, joining, closes>>

\* The request is refused (400, 401, 408, 431), the client has gone, the
\* socket was shut by request_stop, or the request came after the stop.
DropRequest(c) ==
    /\ Step(c, "read", "forgetClient")
    /\ UNCHANGED <<shared, owned, workers, sock, pc, snap, took, joining, closes>>

Connect(c) ==
    /\ Step(c, "connect", "track")
    /\ sock' = [sock EXCEPT ![Upstream(c)] = "open"]
    /\ UNCHANGED <<shared, owned, workers, pc, snap, took, joining, closes>>

\* 502
ConnectFails(c) ==
    /\ Step(c, "connect", "forgetClient")
    /\ UNCHANGED <<shared, owned, workers, sock, pc, snap, took, joining, closes>>

TrackUpstream(c) ==
    /\ Step(c, "track", IF Refuses THEN "forgetUp" ELSE "send")
    /\ owned' = IF Refuses THEN owned ELSE owned \cup {Upstream(c)}
    /\ UNCHANGED <<shared, workers, sock, pc, snap, took, joining, closes>>

SendInitial(c) ==
    /\ sock[Upstream(c)] = "open"
    /\ Step(c, "send", "relay")
    /\ UNCHANGED <<shared, owned, workers, sock, pc, snap, took, joining, closes>>

SendFails(c) ==
    /\ Step(c, "send", "forgetUp")
    /\ UNCHANGED <<shared, owned, workers, sock, pc, snap, took, joining, closes>>

\* _relay returns, or raises on a socket that was closed under it.
RelayEnds(c) ==
    /\ Step(c, "relay", "forgetUp")
    /\ UNCHANGED <<shared, owned, workers, sock, pc, snap, took, joining, closes>>

\* The finally block, for the upstream socket and then for the client: each is
\* forgotten under the lock and closed after it.  A close is taken together
\* with the next section under the lock.
ForgetUpstream(c) ==
    /\ Step(c, "forgetUp", "forgetClient")
    /\ owned' = owned \ {Upstream(c)}
    /\ UNCHANGED <<shared, workers, sock, pc, snap, took, joining, closes>>

ForgetClient(c) ==
    /\ Step(c, "forgetClient", "leave")
    /\ owned' = owned \ {Client(c)}
    /\ CloseSockets({Upstream(c)} \ {s \in Sockets : sock[s] = "none"})
    /\ UNCHANGED <<shared, workers, pc, snap, took, joining, closes>>

\* _worker_entry takes the thread out of the set when all is done.
Leave(c) ==
    /\ Step(c, "leave", "done")
    /\ workers' = workers \ {c}
    /\ CloseSockets({Client(c)})
    /\ UNCHANGED <<shared, owned, pc, snap, took, joining, closes>>

(***************************************************************************)
(* The specification.                                                       *)
(***************************************************************************)

Owner == Bind \/ Install \/ StartFails \/ Unbind \/ Serve \/ CallClose

Closing == MarkClosed \/ ListWorkers \/ CloseReturns \/ \E c \in Conns : Join(c)

RequestStop(t) ==
    \/ SetStop(t) \/ Take(t) \/ ShutSnapshot(t)
    \/ _remove_owned_socket_path(t) \/ Unlink(t)

\* The steps of the acceptor that wait for nobody.
Accepting ==
    \/ ReadListener \/ RefuseClient
    \/ \E c \in Conns : TrackClient(c) \/ RegisterWorker(c) \/ StartWorker(c)

\* The steps of a worker that wait for nobody, or for a bounded time.
Working(c) ==
    \/ Connect(c) \/ ConnectFails(c) \/ TrackUpstream(c)
    \/ SendInitial(c) \/ SendFails(c)
    \/ ForgetUpstream(c) \/ ForgetClient(c) \/ Leave(c)

Next ==
    \/ Owner \/ signal_stop \/ Closing
    \/ \E t \in Stoppers : RequestStop(t)
    \/ Accepting \/ StopServing \/ \E c \in Conns : Accept(c)
    \/ \E c \in Conns :
          Working(c) \/ ReadRequest(c) \/ DropRequest(c) \/ RelayEnds(c)

(***************************************************************************)
(* Fairness: a thread that is not blocked runs.  A worker that reads or     *)
(* relays may stay where it is as long as its client does; the idle timeout *)
(* is not counted on.  It moves when its socket is shut under it (a read)   *)
(* or when it sees the event (the relay looks at it on every poll).  The    *)
(* acceptor's poll is short.  The owner and the clients owe nothing.        *)
(***************************************************************************)
Fairness ==
    /\ WF_vars(Closing) /\ WF_vars(Unbind)
    /\ \A t \in Stoppers : WF_vars(RequestStop(t))
    /\ WF_vars(Accepting)
    /\ WF_vars(stop /\ StopServing)
    /\ \A c \in Conns :
         /\ WF_vars(Working(c))
         /\ WF_vars(sock[Client(c)] = "closed" /\ DropRequest(c))
         /\ WF_vars(stop /\ RelayEnds(c))

Spec == Init /\ [][Next]_vars /\ Fairness

(***************************************************************************)
(* Properties.                                                              *)
(***************************************************************************)

\* Every open socket is in _owned_sockets, where request_stop finds it, or in
\* the hands of a thread whose next steps close it without waiting; and a
\* worker that has left has no socket open and none in the set.
SocketsAccounted ==
    \A c \in Conns :
      /\ sock[Client(c)] = "open" /\ Client(c) \notin owned
           => \/ wpc[c] = "none" /\ pc.acceptor \in {"track", "refuse"}
              \/ wpc[c] = "leave"
      /\ sock[Upstream(c)] = "open" /\ Upstream(c) \notin owned
           => wpc[c] \in {"track", "forgetUp", "forgetClient"}
      /\ wpc[c] = "done"
           => /\ {Client(c), Upstream(c)} \cap owned = {}
              /\ "open" \notin {sock[Client(c)], sock[Upstream(c)]}

\* The threads that exist, registered or not yet gone, are at most
\* MAX_WORKERS, and each of them is in the set that close() joins.
Live == {c \in Conns : wpc[c] \notin {"none", "done"}}
WorkersBounded == Live = workers /\ Cardinality(workers) <= MaxWorkers

\* Nothing the bridge has opened or started is out of its books.
Accounted == TypeOK /\ SocketsAccounted /\ WorkersBounded

\* Some thread has been through the closing part of request_stop.
Stopped ==
    \/ pc.owner \in {"forget", "unlink", "list", "join", "raised"}
    \/ pc.owner = "idle" /\ closes > 0
    \/ pc.acceptor \in {"forget", "unlink"}

\* After request_stop nobody waits on an open socket: everything tracked is
\* closed, whatever was accepted or connected while the stop was under way.
StoppedMeansShut ==
    Stopped => /\ \A s \in owned : sock[s] = "closed"
               /\ \A c \in Conns : wpc[c] \in {"created", "read"}
                                      => sock[Client(c)] = "closed"

\* The path is unlinked by one thread only, which finds it there; when close()
\* has returned and the acceptor has ended, path and listener are gone.
PathUnlinkedOnce ==
    /\ \A t \in Stoppers : pc[t] = "unlink" => path /\ ~identity
    /\ ~(pc.owner = "unlink" /\ pc.acceptor = "unlink")
    /\ pc.owner = "idle" /\ closes > 0 /\ pc.acceptor \in {"none", "done"}
         => ~path /\ ~listening /\ ~installed

\* A stop is complete, whichever threads carry it out.
StopComplete == StoppedMeansShut /\ PathUnlinkedOnce

\* Once a stop is requested every worker ends and every socket is closed,
\* without help from the clients or from the idle timeout.
Drained == Live = {} /\ \A s \in Sockets : sock[s] # "open"
StopDrains == stop ~> [](Drained)

=============================================================================
