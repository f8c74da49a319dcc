---------------------------- MODULE Conversation ----------------------------
(***************************************************************************)
(* What the server and the signer say to each other over the socket        *)
(* (apps/server/src/signer/client.ts, apps/signer/src/daemon.ts): requests *)
(* answered by name, each with its own deadline, over a connection that is *)
(* lost with the signer's process and made again by the next request, once *)
(* the key has been looked at.  A step of the client is one event and the  *)
(* promises it settles: nothing else runs between the two.                 *)
(***************************************************************************)
EXTENDS Integers, Sequences, FiniteSets, SequencesExt

CONSTANTS
    Calls,          \* what the server asks, each once
    Keys,           \* that a signer may be started with
    Foreign,        \* a peer that speaks something else, without ids
    Down, None,
    MaxConnections  \* bound: times the socket is opened

Peers == Keys \cup {Foreign}

ConversationConstants ==
    /\ IsFiniteSet(Calls) /\ MaxConnections \in Nat \ {0}
    /\ Down \notin Keys \cup {Foreign} /\ Foreign \notin Keys
    /\ None \notin Peers \cup Calls \cup Nat

VARIABLES
    signer,         \* what listens on the socket's path
    connections,    \* all ever made: with whom, what is under way each way, over
    socket,         \* the client's: the number of a connection, or None
    opening,        \* reconnecting: "no", "connecting", or "asked" for the key
    pending,        \* of the ids not answered yet, whose they are
    lastId,
    identity,       \* the key announced first
    closer,         \* who set closed: None, "owner" or "drop"
    calls           \* what the caller of each knows

line == <<signer, connections>>
client == <<socket, opening, pending, lastId, identity, closer, calls>>
vars == <<line, client>>

Handshake == "handshake"
Ids == 1..(Cardinality(Calls) + MaxConnections)
Requests == [id : Ids, of : Calls \cup {Handshake}]
Replies == [id : Ids \cup {None}, of : Calls \cup {Handshake}, from : Peers]
Known == [is : {"new", "waiting", "sent", "failed"}] \cup [is : {"answered"}, reply : Replies]

TypeOK ==
    /\ signer \in Peers \cup {Down}
    /\ connections \in Seq([peer : Peers, over : BOOLEAN, lines : Seq(Requests), replies : Seq(Replies)])
    /\ socket \in DOMAIN connections \cup {None}
    /\ opening \in {"no", "connecting", "asked"}
    /\ DOMAIN pending \subseteq Ids /\ \A id \in DOMAIN pending : pending[id] \in Calls \cup {Handshake}
    /\ lastId \in 0..(Cardinality(Calls) + MaxConnections)
    /\ identity \in Keys \cup {None}
    /\ closer \in {None, "owner", "drop"}
    /\ calls \in [Calls -> Known]

\* SignerClient.connect has made the object, and opens.
Init ==
    /\ signer \in Peers \cup {Down}
    /\ connections = <<>> /\ socket = None /\ opening = "connecting"
    /\ pending = <<>> /\ lastId = 0 /\ identity = None /\ closer = None
    /\ calls = [r \in Calls |-> [is |-> "new"]]

-----------------------------------------------------------------------------
(* The client.                                                              *)

Without(id) == [i \in DOMAIN pending \ {id} |-> pending[i]]

Are(what) == {r \in Calls : calls[r].is = what}

Fail(S) == calls' = [r \in Calls |-> IF r \in S THEN [is |-> "failed"] ELSE calls[r]]

FaultLeavesTheWaiting ==
    /\ socket' = None /\ opening' = "no" /\ pending' = <<>>
    /\ Fail(Are("sent"))

\* The current connection, made or being made, is no more: what was sent on it
\* fails, and so does what waits for it.
NoConnection ==
    /\ socket' = None /\ opening' = "no" /\ pending' = <<>>
    /\ Fail(Are("sent") \cup Are("waiting"))

\* The first connection is connect's, which closes the client when it fails.
Lose ==
    /\ NoConnection
    /\ closer' = IF identity = None /\ closer = None THEN "owner" ELSE closer

\* send, of each of S: with the next id, on the current connection.
Write(S, owed, made) ==
    \E order \in SetToSeqs(S) :
        LET next == lastId + Len(order) IN
        /\ lastId' = next
        /\ pending' = [i \in DOMAIN owed \cup (lastId + 1)..next |->
                          IF i \in DOMAIN owed THEN owed[i] ELSE order[i - lastId]]
        /\ connections' = [made EXCEPT ![socket].lines =
                              @ \o [j \in DOMAIN order |-> [id |-> lastId + j, of |-> order[j]]]]

MustWait == socket = None \/ opening # "no"

\* request.
Call(r) ==
    /\ calls[r].is = "new" /\ identity # None
    /\ \/ /\ closer # None
          /\ Fail({r})
          /\ UNCHANGED <<connections, opening, pending, lastId>>
       \/ /\ closer = None /\ MustWait
          /\ calls' = [calls EXCEPT ![r] = [is |-> "waiting"]]
          /\ opening' = IF opening = "no" THEN "connecting" ELSE opening
          /\ UNCHANGED <<connections, pending, lastId>>
       \/ /\ closer = None /\ ~MustWait
          /\ calls' = [calls EXCEPT ![r] = [is |-> "sent"]]
          /\ Write({r}, pending, connections)
          /\ UNCHANGED opening
    /\ UNCHANGED <<signer, socket, identity, closer>>

\* open: the socket connects, and the key is asked for.
Connects ==
    /\ opening = "connecting" /\ signer # Down /\ closer = None
    /\ Len(connections) < MaxConnections
    /\ socket' = Len(connections) + 1 /\ opening' = "asked" /\ lastId' = lastId + 1
    /\ pending' = [i \in DOMAIN pending \cup {lastId'} |-> IF i = lastId' THEN Handshake ELSE pending[i]]
    /\ connections' = Append(connections,
          [peer |-> signer, over |-> FALSE, lines |-> <<[id |-> lastId', of |-> Handshake]>>, replies |-> <<>>])
    /\ UNCHANGED <<signer, identity, closer, calls>>

\* open: nobody listens, or the client was closed meanwhile.
CannotConnect ==
    /\ opening = "connecting"
    /\ signer = Down \/ closer # None \/ Len(connections) = MaxConnections
    /\ Lose
    /\ UNCHANGED <<line, lastId, identity>>

\* A signer that comes back with another key is refused, not adopted.
Recognised(key) == identity \in {None, key}

FaultOldest(reply) ==
    IF pending = <<>> THEN None ELSE CHOOSE i \in DOMAIN pending : \A j \in DOMAIN pending : i <= j

\* The request a reply is for, by the id it carries.
For(reply) == IF reply.id \in DOMAIN pending THEN reply.id ELSE None

\* A reply without an id is not from a signer.
Strange(reply) == reply.id = None

\* The client gives up for good.
Drop(reply) ==
    /\ Strange(reply)
    /\ NoConnection /\ closer' = "drop"
    /\ UNCHANGED <<lastId, identity>>

\* The reply to a request given up at its deadline completes nothing else.
Unasked(reply) ==
    /\ ~Strange(reply) /\ For(reply) = None
    /\ UNCHANGED client

Answered(reply) ==
    /\ ~Strange(reply) /\ For(reply) # None /\ pending[For(reply)] # Handshake
    /\ calls' = [calls EXCEPT ![pending[For(reply)]] = [is |-> "answered", reply |-> reply]]
    /\ pending' = Without(For(reply))
    /\ UNCHANGED <<socket, opening, lastId, identity, closer>>

\* The key is the one announced: the requests that waited for it are sent.
Opened(reply, rest) ==
    /\ identity' = reply.from /\ opening' = "no"
    /\ Write(Are("waiting"), Without(For(reply)), rest)
    /\ calls' = [r \in Calls |-> IF r \in Are("waiting") THEN [is |-> "sent"] ELSE calls[r]]
    /\ UNCHANGED <<socket, closer>>

\* receive, settle: the next line of the current connection.
Receive ==
    /\ socket # None /\ connections[socket].replies # <<>>
    /\ LET reply == Head(connections[socket].replies)
           rest == [connections EXCEPT ![socket].replies = Tail(@)]
           announced == ~Strange(reply) /\ For(reply) # None /\ pending[For(reply)] = Handshake
       IN \/ /\ connections' = rest
             /\ Drop(reply) \/ Unasked(reply) \/ Answered(reply)
          \/ announced /\ Recognised(reply.from) /\ Opened(reply, rest)
          \/ announced /\ ~Recognised(reply.from) /\ Lose /\ connections' = rest /\ UNCHANGED <<lastId, identity>>
    /\ UNCHANGED signer

\* The deadline of one request, or of the question after the key.
TimesOut(id) ==
    /\ id \in DOMAIN pending
    /\ IF pending[id] = Handshake THEN Lose
       ELSE /\ pending' = Without(id) /\ Fail({pending[id]})
            /\ UNCHANGED <<socket, opening, closer>>
    /\ UNCHANGED <<line, lastId, identity>>

\* The close of a connection is heard, of the current one or, late, of another.
HearsClose(c) ==
    /\ connections[c].over
    /\ IF c = socket THEN Lose ELSE UNCHANGED <<socket, opening, pending, closer, calls>>
    /\ UNCHANGED <<line, lastId, identity>>

\* close.
Close ==
    /\ closer = None /\ identity # None
    /\ closer' = "owner"
    /\ IF socket # None THEN NoConnection ELSE UNCHANGED <<socket, opening, pending, calls>>
    /\ UNCHANGED <<line, lastId, identity>>

-----------------------------------------------------------------------------
(* The daemon, and whatever else may listen where it does.                  *)

\* serve: one line handled, and its reply written.
Serves(c) ==
    /\ connections[c].lines # <<>> /\ ~connections[c].over
    /\ LET request == Head(connections[c].lines)
           peer == connections[c].peer
           reply == [id |-> IF peer = Foreign THEN None ELSE request.id, of |-> request.of, from |-> peer]
       IN connections' = [connections EXCEPT ![c].lines = Tail(@), ![c].replies = Append(@, reply)]
    /\ UNCHANGED <<signer, client>>

\* fail, or the end of the process: what was written is still there to be read.
Stops ==
    /\ signer # Down
    /\ signer' = Down
    /\ connections' = [c \in DOMAIN connections |-> [connections[c] EXCEPT !.over = TRUE, !.lines = <<>>]]
    /\ UNCHANGED client

Starts(peer) ==
    /\ signer = Down
    /\ signer' = peer
    /\ UNCHANGED <<connections, client>>

Next ==
    \/ Connects \/ CannotConnect \/ Receive \/ Close \/ Stops
    \/ \E r \in Calls : Call(r)
    \/ \E id \in Ids : TimesOut(id)
    \/ \E c \in DOMAIN connections : HearsClose(c) \/ Serves(c)
    \/ \E peer \in Peers : Starts(peer)

Spec == Init /\ [][Next]_vars

\* A connection attempt ends, well or not, and while deadlines run one passes.
Fairness ==
    /\ WF_vars(Connects \/ CannotConnect)
    /\ WF_vars(\E id \in Ids : TimesOut(id))

FairSpec == Spec /\ Fairness

-----------------------------------------------------------------------------
(* What is promised.                                                        *)

\* A caller is answered with the reply to its own request, given with the key
\* that was announced first: whatever timed out before, whatever connection was
\* lost, and whoever listens now.
RepliesAreTheirs ==
    \A r \in Are("answered") : calls[r].reply.of = r /\ calls[r].reply.from = identity

\* Every request is answered or fails, whatever becomes of the socket.
EveryCallSettles ==
    \A r \in Calls : calls[r].is \in {"waiting", "sent"} ~> calls[r].is \in {"answered", "failed"}
=============================================================================
