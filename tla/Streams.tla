------------------------------- MODULE Streams -------------------------------
(***************************************************************************)
(* What a relay promises: two ordered streams in opposite directions.       *)
(* Bytes are named by their position, so the stream written at one side is  *)
(* 1, 2, 3, ... and what the other side receives is a prefix of it.  A side *)
(* learns of the end of a stream only when it has been given all of it.     *)
(***************************************************************************)
EXTENDS Integers, Sequences

Sides == {"client", "upstream"}
Peer(s) == IF s = "client" THEN "upstream" ELSE "client"
Prefix(n) == [i \in 1..n |-> i]

VARIABLES
    written,   \* how many bytes each side has written
    fin,       \* whether each side has ended its stream
    received,  \* the bytes handed to each side
    eof,       \* whether each side was told that the other's stream ended
    state      \* "up", "clean" (all was relayed) or "cut"

streamVars == <<written, fin, received, eof, state>>

StreamInit ==
    /\ written = [s \in Sides |-> 0]
    /\ fin = [s \in Sides |-> FALSE]
    /\ received = [s \in Sides |-> <<>>]
    /\ eof = [s \in Sides |-> FALSE]
    /\ state = "up"

Write(s) ==
    /\ ~fin[s]
    /\ written' = [written EXCEPT ![s] = @ + 1]
    /\ UNCHANGED <<fin, received, eof, state>>

EndStream(s) ==
    /\ ~fin[s]
    /\ fin' = [fin EXCEPT ![s] = TRUE]
    /\ UNCHANGED <<written, received, eof, state>>

\* A side is given more of the stream, and with the last of it its end.
Deliver(s) ==
    /\ state = "up" /\ ~eof[s]
    /\ \E n \in Len(received[s])..written[Peer(s)] :
         /\ received' = [received EXCEPT ![s] = Prefix(n)]
         /\ \/ UNCHANGED eof
            \/ /\ fin[Peer(s)] /\ n = written[Peer(s)]
               /\ eof' = [eof EXCEPT ![s] = TRUE]
    /\ UNCHANGED <<written, fin, state>>

\* The streams end of themselves only when both have been relayed to the end.
Finish ==
    /\ state = "up" /\ \A s \in Sides : eof[s]
    /\ state' = "clean"
    /\ UNCHANGED <<written, fin, received, eof>>

\* A stop, an idle timeout or an error may cut them at any point.
Cut ==
    /\ state = "up"
    /\ state' = "cut"
    /\ UNCHANGED <<written, fin, received, eof>>

StreamNext ==
    \/ \E s \in Sides : Write(s) \/ EndStream(s) \/ Deliver(s)
    \/ Finish \/ Cut

StreamSpec == StreamInit /\ [][StreamNext]_streamVars
=============================================================================
