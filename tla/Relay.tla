-------------------------------- MODULE Relay --------------------------------
(***************************************************************************)
(* AuthenticatedHttpBridge._relay of bench/docker_bridge.py: one thread, two *)
(* non-blocking sockets, a pending buffer for each, and a selector.  Bytes  *)
(* are named by their position in the stream of the side that wrote them.   *)
(* The two endpoints write, read and close as they like.                    *)
(***************************************************************************)
EXTENDS Integers, Sequences, FiniteSetsExt

CONSTANTS
    MaxPending,  \* MAX_PENDING_BYTES
    Chunk,       \* RELAY_CHUNK_BYTES
    Window,      \* what the kernel accepts for a side that does not read
    MaxBytes     \* bound on the bytes a side writes

ASSUME RelayAssumption ==
    /\ MaxPending \in Nat \ {0} /\ Chunk \in Nat \ {0} /\ Window \in Nat \ {0}
    /\ MaxBytes \in Nat

Sides == {"client", "upstream"}
Peer(s) == IF s = "client" THEN "upstream" ELSE "client"

VARIABLES
    written,       \* bytes each endpoint has written
    fin,           \* endpoints that have shut down their writing side
    room,          \* bytes the kernel would accept for each endpoint now
    out,           \* bytes the relay has sent to each endpoint
    taken,         \* bytes the relay has read from each endpoint
    buffers,       \* bytes pending for each endpoint
    read_open,
    write_closed,
    ready,         \* what select returned and is still to be processed
    cur,           \* the side whose key is half processed, or "none"
    stopSet,       \* _stop_event is set
    relayPc,       \* "loop", "process" or "done"
    ended          \* "up", "clean" (returned with nothing left), "cut"

endpoints == <<written, fin, room>>
relay == <<out, taken, buffers, read_open, write_closed>>
relayVars == <<written, fin, room, out, taken, buffers, read_open, write_closed,
               ready, cur, stopSet, relayPc, ended>>

RelayTypeOK ==
    /\ written \in [Sides -> Nat] /\ taken \in [Sides -> Nat]
    /\ fin \in [Sides -> BOOLEAN]
    /\ room \in [Sides -> 0..Window]
    /\ out \in [Sides -> Seq(Nat)] /\ buffers \in [Sides -> Seq(Nat)]
    /\ read_open \in [Sides -> BOOLEAN] /\ write_closed \in [Sides -> BOOLEAN]
    /\ ready \in [Sides -> SUBSET {"read", "write"}]
    /\ cur \in Sides \cup {"none"}
    /\ stopSet \in BOOLEAN
    /\ relayPc \in {"loop", "process", "done"}
    /\ ended \in {"up", "clean", "cut"}

RelayInit ==
    /\ written = [s \in Sides |-> 0]
    /\ fin = [s \in Sides |-> FALSE]
    /\ room = [s \in Sides |-> Window]
    /\ out = [s \in Sides |-> <<>>]
    /\ taken = [s \in Sides |-> 0]
    /\ buffers = [s \in Sides |-> <<>>]
    /\ read_open = [s \in Sides |-> TRUE]
    /\ write_closed = [s \in Sides |-> FALSE]
    /\ ready = [s \in Sides |-> {}]
    /\ cur = "none" /\ stopSet = FALSE /\ relayPc = "loop" /\ ended = "up"

(***************************************************************************)
(* The endpoints, and whoever stops the bridge.                             *)
(***************************************************************************)

EndpointWrites(s) ==
    /\ ~fin[s] /\ written[s] < MaxBytes
    /\ written' = [written EXCEPT ![s] = @ + 1]
    /\ UNCHANGED <<fin, room, relay, ready, cur, stopSet, relayPc, ended>>

EndpointCloses(s) ==
    /\ ~fin[s]
    /\ fin' = [fin EXCEPT ![s] = TRUE]
    /\ UNCHANGED <<written, room, relay, ready, cur, stopSet, relayPc, ended>>

EndpointReads(s) ==
    /\ room[s] < Window
    /\ room' = [room EXCEPT ![s] = Window]
    /\ UNCHANGED <<written, fin, relay, ready, cur, stopSet, relayPc, ended>>

request_stop ==
    /\ ~stopSet /\ stopSet' = TRUE
    /\ UNCHANGED <<endpoints, relay, ready, cur, relayPc, ended>>

(***************************************************************************)
(* The loop's head.                                                         *)
(***************************************************************************)

Return(how) ==
    /\ relayPc' = "done" /\ ended' = how
    /\ ready' = [s \in Sides |-> {}] /\ cur' = "none"
    /\ UNCHANGED <<endpoints, relay, stopSet>>

\* Mutant: a socket is not written once the other side has ended its stream.
Events_WhileReading(s) ==
    {e \in {"read", "write"} :
       \/ e = "read" /\ read_open[s] /\ Len(buffers[Peer(s)]) < MaxPending
       \/ e = "write" /\ buffers[s] # <<>> /\ read_open[Peer(s)]}

\* The events the loop registers a socket for.
Events(s) ==
    {e \in {"read", "write"} :
       \/ e = "read" /\ read_open[s] /\ Len(buffers[Peer(s)]) < MaxPending
       \/ e = "write" /\ buffers[s] # <<>> /\ ~write_closed[s]}

\* A socket is readable with data or at the end of the stream.
Ready(s) ==
    {e \in {"read", "write"} :
       \/ e = "read" /\ (written[s] > taken[s] \/ fin[s])
       \/ e = "write" /\ room[s] > 0}

\* The test at the head of the loop, and no registration left.
RelayDrained ==
    \/ \A s \in Sides : ~read_open[s] /\ buffers[s] = <<>>
    \/ \A s \in Sides : Events(s) = {}

LoopStopped == relayPc = "loop" /\ stopSet /\ Return("cut")
LoopDrained == relayPc = "loop" /\ ~stopSet /\ RelayDrained /\ Return("clean")
LoopIdle == relayPc = "loop" /\ ~stopSet /\ ~RelayDrained /\ Return("cut")

\* select() returns every registered socket that is ready; on a timeout the
\* loop begins again with nothing changed.
Select ==
    /\ relayPc = "loop" /\ ~stopSet /\ ~RelayDrained
    /\ ready' = [s \in Sides |-> Events(s) \cap Ready(s)]
    /\ \E s \in Sides : ready'[s] # {}
    /\ relayPc' = "process"
    /\ UNCHANGED <<endpoints, relay, cur, stopSet, ended>>

(***************************************************************************)
(* The keys that select() returned, in any order; of one key the reading    *)
(* part comes first.                                                        *)
(***************************************************************************)

Processed(s, e) ==
    /\ relayPc = "process" /\ cur \in {s, "none"} /\ e \in ready[s]
    /\ ready' = [ready EXCEPT ![s] = @ \ {e}]
    /\ cur' = IF ready'[s] = {} THEN "none" ELSE s
    /\ relayPc' = IF \A t \in Sides : ready'[t] = {} THEN "loop" ELSE "process"

\* recv() of at most `available' bytes: asked for none, or at the end of the
\* stream, it returns none.
Received(s) ==
    Min({Chunk, MaxPending - Len(buffers[Peer(s)]), written[s] - taken[s]})

\* Mutant: the half-close does not wait for what is pending.
EndAtOnce_Early(s) == Received(s) = 0

\* The other side is told of the end at once if nothing is pending for it.
EndAtOnce(s) == Received(s) = 0 /\ buffers[Peer(s)] = <<>>

Recv(s) ==
    /\ Processed(s, "read")
    /\ taken' = [taken EXCEPT ![s] = @ + Received(s)]
    /\ buffers' = [buffers EXCEPT
         ![Peer(s)] = @ \o [i \in 1..Received(s) |-> taken[s] + i]]
    /\ read_open' = [read_open EXCEPT ![s] = Received(s) > 0]
    /\ write_closed' = [write_closed EXCEPT ![Peer(s)] = @ \/ EndAtOnce(s)]
    /\ UNCHANGED <<endpoints, out, stopSet, ended>>

\* send() takes as much as the kernel accepts; what it took is deleted, and the
\* writing side is closed when the last pending byte of an ended stream left.
Send(s) ==
    /\ Processed(s, "write") /\ "read" \notin ready[s]
    /\ \E sent \in 1..Min({room[s], Len(buffers[s])}) :
         /\ out' = [out EXCEPT ![s] = @ \o SubSeq(buffers[s], 1, sent)]
         /\ buffers' = [buffers EXCEPT ![s] = SubSeq(@, sent + 1, Len(@))]
         /\ room' = [room EXCEPT ![s] = @ - sent]
    /\ write_closed' = [write_closed EXCEPT
         ![s] = @ \/ (buffers'[s] = <<>> /\ ~read_open[Peer(s)])]
    /\ UNCHANGED <<written, fin, taken, read_open, stopSet, ended>>

\* recv() or send() raises: the connection was reset or closed under the relay.
SocketError == relayPc = "process" /\ Return("cut")

RelayStep == LoopStopped \/ LoopDrained \/ Select \/ \E s \in Sides : Recv(s) \/ Send(s)

RelayNext ==
    \/ RelayStep \/ LoopIdle \/ SocketError \/ request_stop
    \/ \E s \in Sides : EndpointWrites(s) \/ EndpointCloses(s) \/ EndpointReads(s)

\* The thread runs, and an endpoint that is alive reads what it is sent.  No
\* timeout, error or stop is counted on.
RelayFairness ==
    /\ WF_relayVars(RelayStep)
    /\ \A s \in Sides : WF_relayVars(EndpointReads(s))

RelaySpec == RelayInit /\ [][RelayNext]_relayVars /\ RelayFairness

(***************************************************************************)
(* Properties.                                                              *)
(***************************************************************************)

\* The relay implements a pair of ordered streams: nothing is lost, repeated
\* or reordered, a half-close waits for what is pending, and the relay returns
\* of itself only when both streams were relayed to their end.
S == INSTANCE Streams WITH received <- out, eof <- write_closed, state <- ended
ImplementsStreams == S!StreamSpec

\* Every byte that an endpoint writes reaches the other one, however full the
\* buffers are, unless the relay is cut; and when both have ended their
\* streams the relay returns.
Progress ==
    /\ \A s \in Sides : \A n \in 1..MaxBytes :
         (written[s] >= n) ~> (Len(out[Peer(s)]) >= n \/ ended = "cut")
    /\ (\A s \in Sides : fin[s]) ~> (relayPc = "done")

=============================================================================
