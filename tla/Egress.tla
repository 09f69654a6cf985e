-------------------------------- MODULE Egress --------------------------------
(***************************************************************************)
(* The worker's way out of its network: the CONNECT proxy of egress.py and *)
(* the process that serves it (_run_egress of cli.py).                     *)
(*                                                                         *)
(* One asyncio process.  A connection is one task, Proxy.handle; an action *)
(* is what a task does between two awaits, so other connections, the       *)
(* clients and the hosts may move between any two.  A client stands for    *)
(* the connections it makes one after another.  Where a request goes to    *)
(* is told apart only by what the proxy answers: malformed, not CONNECT,   *)
(* off the list, or admitted.                                              *)
(*                                                                         *)
(* A reply and the 200 are less than what drain() waits for and than what  *)
(* the kernel takes; what a tunnel relays may be more, and then the relay, *)
(* and the close after it, wait for the peer to read it: no time bounds    *)
(* them.                                                                   *)
(***************************************************************************)
EXTENDS Integers, FiniteSets

CONSTANTS
    Clients,         \* those who connect
    MaxConnections,  \* MAX_CONNECTIONS
    MaxTunnels       \* MAX_TUNNELS

ASSUME EgressAssumption == /\ IsFiniteSet(Clients)
                           /\ MaxConnections \in Nat \ {0}
                           /\ MaxTunnels \in Nat \ {0}

VARIABLES
    phase,       \* "serving", "draining" (the socket is closed), "cancelling" or "down"
    pc,          \* by client: the await its connection is in; "away" without one
    client,      \* by client, while the proxy listens to it: "here", "half" (it has sent all
                 \* it will) or "gone"; "gone" otherwise
    request,     \* by client: the relay to the host is running
    host,        \* by client: its upstream: "off", "open", "told" the client has
                 \* sent all, "answered" and closed with the answer on its way, "shut"
    unread,      \* by client: the peers, "client" and "host", with bytes waiting in the
                 \* proxy for them to read
    accepted, open, saturated,  \* Proxy._accepted, ._open and ._saturated
    low          \* history: the least `accepted` since egress_connections_exhausted
                 \* was last logged, -1 before the first

task == <<pc, request, host, unread>>
count == <<accepted, open, saturated>>
egressVars == <<phase, task, client, count, low>>

\* The three-quarters below which a saturation is over.
RecoveredAt == (MaxConnections * 3) \div 4

\* A connection counted by handle, and one counted by _serve.
Accepted == {"reading", "connecting", "replying", "greeting", "relaying", "hanging_up"}
Open     == {"greeting", "relaying"}

\* Where the proxy listens to the client, and its going may still tell.
Heard    == {"reading", "connecting", "greeting", "relaying"}
Pcs      == Accepted \cup {"away", "turned_away", "closing"}

Least(a, b) == IF a < b THEN a ELSE b

EgressInit ==
    /\ phase = "serving"
    /\ pc = [c \in Clients |-> "away"]
    /\ client = [c \in Clients |-> "gone"]
    /\ request = [c \in Clients |-> FALSE]
    /\ host = [c \in Clients |-> "off"]
    /\ unread = [c \in Clients |-> {}]
    /\ accepted = 0
    /\ open = 0
    /\ saturated = FALSE
    /\ low = -1
-----------------------------------------------------------------------------
\* Goes on to the await `at`, the counts as they are.
Goto(c, at) ==
    /\ pc' = [pc EXCEPT ![c] = at]
    /\ client' = IF at \in Heard THEN client ELSE [client EXCEPT ![c] = "gone"]

\* handle, past the ceiling: a 503 without a read, logged at the edge only.
TurnAway(c) ==
    /\ accepted >= MaxConnections
    /\ Goto(c, "turned_away")
    /\ saturated' = TRUE
    /\ low' = IF saturated THEN low ELSE accepted
    /\ UNCHANGED <<accepted, open>>

\* Mutant: any admitted connection ends the saturation.
StillSaturatedAtOnce == FALSE

\* The episode is over once the count has fallen well below the ceiling.
StillSaturated == saturated /\ accepted >= RecoveredAt

\* handle, below the ceiling: the connection is counted and its request awaited.
TakeOn(c) ==
    /\ accepted < MaxConnections
    /\ pc' = [pc EXCEPT ![c] = "reading"]
    /\ client' = [client EXCEPT ![c] = "here"]
    /\ saturated' = StillSaturated
    /\ accepted' = accepted + 1
    /\ UNCHANGED <<open, low>>

Connect(c) ==
    /\ phase = "serving"
    /\ pc[c] = "away"
    /\ TurnAway(c) \/ TakeOn(c)
    /\ UNCHANGED <<phase, request, host, unread>>

\* handle's finally: the connection is counted no more, and is closed.
Leave(c) ==
    /\ accepted' = accepted - 1
    /\ low' = Least(low, accepted')
    /\ Goto(c, "closing")
    /\ UNCHANGED <<open, saturated>>
-----------------------------------------------------------------------------
\* What a request asks for, as parse_connect_target and the allow-list tell it.
Targets == {"malformed", "refused", "admitted"}

\* _serve: the request arrives.  The tunnels are counted before the host is
\* looked up, and the host's tunnel only once it is open.
Asked(c) ==
    /\ pc[c] = "reading"
    /\ client[c] # "gone"
    /\ \E target \in Targets :
          Goto(c, IF target = "admitted" /\ open < MaxTunnels THEN "connecting" ELSE "replying")
    /\ UNCHANGED <<phase, request, host, unread, count, low>>

\* No request in time, or a head over the limit: a reply says so.
AskedTooLate(c) ==
    /\ pc[c] = "reading"
    /\ Goto(c, "replying")
    /\ UNCHANGED <<phase, request, host, unread, count, low>>

\* The client closed before its request was whole.
AskedHalf(c) ==
    /\ pc[c] = "reading"
    /\ client[c] # "here"
    /\ Leave(c)
    /\ UNCHANGED <<phase, request, host, unread>>

\* The host answers: the tunnel is counted and the client told.
Reached(c) ==
    /\ pc[c] = "connecting"
    /\ Goto(c, "greeting")
    /\ host' = [host EXCEPT ![c] = "open"]
    /\ open' = open + 1
    /\ UNCHANGED <<phase, request, unread, accepted, saturated, low>>

\* It refused, or did not answer in time.
NotReached(c) ==
    /\ pc[c] = "connecting"
    /\ Goto(c, "replying")
    /\ UNCHANGED <<phase, request, host, unread, count, low>>

\* _reply returns, having written or not.
Replied(c) ==
    /\ pc[c] = "replying"
    /\ Leave(c)
    /\ UNCHANGED <<phase, request, host, unread>>
-----------------------------------------------------------------------------
\* Mutant: the count is given back on the way out of a whole tunnel only.
HangUpUncounted(c) ==
    /\ Goto(c, "hanging_up")
    /\ request' = [request EXCEPT ![c] = FALSE]
    /\ host' = [host EXCEPT ![c] = "off"]
    /\ open' = IF pc[c] = "relaying" THEN open - 1 ELSE open
    /\ UNCHANGED <<unread, accepted, saturated, low>>

\* _serve's finally: the tunnel is counted no more, its relay to the host
\* cancelled, and the host's side closed.
HangUp(c) ==
    /\ Goto(c, "hanging_up")
    /\ request' = [request EXCEPT ![c] = FALSE]
    /\ host' = [host EXCEPT ![c] = "off"]
    /\ open' = open - 1
    /\ UNCHANGED <<unread, accepted, saturated, low>>

\* The 200 is out and both directions are relayed.
Greeted(c) ==
    /\ pc[c] = "greeting"
    /\ client[c] # "gone"
    /\ Goto(c, "relaying")
    /\ request' = [request EXCEPT ![c] = TRUE]
    /\ UNCHANGED <<phase, host, unread, count, low>>

\* The client went before it read the 200: an OSError for handle.
GreetingFails(c) ==
    /\ pc[c] = "greeting"
    /\ client[c] = "gone"
    /\ HangUp(c)
    /\ UNCHANGED phase

\* _relay to the host: what the client sends, as fast as the host reads it.
PassRequest(c) ==
    /\ pc[c] = "relaying" /\ request[c]
    /\ client[c] = "here" /\ host[c] = "open" /\ "host" \notin unread[c]
    /\ unread' = [unread EXCEPT ![c] = @ \cup {"host"}]
    /\ UNCHANGED <<phase, pc, client, request, host, count, low>>

\* The client has sent all, or is gone, and the host, which has read it, is told.
PassEnd(c) ==
    /\ pc[c] = "relaying" /\ request[c]
    /\ client[c] # "here" /\ "host" \notin unread[c]
    /\ request' = [request EXCEPT ![c] = FALSE]
    /\ host' = [host EXCEPT ![c] = IF @ = "open" THEN "told" ELSE @]
    /\ UNCHANGED <<phase, pc, client, unread, count, low>>

\* _relay to the client: what the host sent before it closed.
PassAnswer(c) ==
    /\ pc[c] = "relaying"
    /\ host[c] = "answered"
    /\ client[c] # "gone"
    /\ host' = [host EXCEPT ![c] = "shut"]
    /\ unread' = [unread EXCEPT ![c] = @ \cup {"client"}]
    /\ UNCHANGED <<phase, pc, client, request, count, low>>

\* Mutant: the first direction to end ends the tunnel.
TunnelOverAtFirst(c) == ~request[c] \/ host[c] = "shut"

\* _tunnel waits for the relay to the client: the host has closed and all it
\* sent is out, or the client is not there to write it to.
TunnelOver(c) == host[c] = "shut" \/ (host[c] = "answered" /\ client[c] = "gone")

\* The relay's last drain() may leave what is little to the close.
EndTunnel(c) ==
    /\ pc[c] = "relaying"
    /\ TunnelOver(c)
    /\ HangUp(c)
    /\ UNCHANGED phase

\* _close of the host's side returns: it has no timeout.
HungUp(c) ==
    /\ pc[c] = "hanging_up"
    /\ "host" \notin unread[c]
    /\ Leave(c)
    /\ UNCHANGED <<phase, request, host, unread>>

\* _close of the client's returns, of a connection served or of one turned away.
Closed(c) ==
    /\ pc[c] \in {"closing", "turned_away"}
    /\ "client" \notin unread[c]
    /\ Goto(c, "away")
    /\ UNCHANGED <<phase, request, host, unread, count, low>>
-----------------------------------------------------------------------------
\* The client closes its sending side, or goes.
HalfCloses(c) ==
    /\ pc[c] \in Heard
    /\ client[c] = "here"
    /\ client' = [client EXCEPT ![c] = "half"]
    /\ UNCHANGED <<phase, task, count, low>>

\* What it had not read is dropped.
Goes(c) ==
    /\ pc[c] \in Heard
    /\ client[c] # "gone"
    /\ client' = [client EXCEPT ![c] = "gone"]
    /\ unread' = [unread EXCEPT ![c] = @ \ {"client"}]
    /\ UNCHANGED <<phase, pc, request, host, count, low>>

\* It reads what was kept for it, or goes from a connection that is being closed.
ClientReads(c) ==
    /\ "client" \in unread[c]
    /\ unread' = [unread EXCEPT ![c] = @ \ {"client"}]
    /\ UNCHANGED <<phase, pc, client, request, host, count, low>>

\* The host does, or resets the connection that is being closed.
HostReads(c) ==
    /\ "host" \in unread[c]
    /\ unread' = [unread EXCEPT ![c] = @ \ {"host"}]
    /\ UNCHANGED <<phase, pc, client, request, host, count, low>>

\* The host answers and closes, or closes without an answer.
HostAnswers(c) ==
    /\ host[c] \in {"open", "told"}
    /\ pc[c] \in Open
    /\ host' = [host EXCEPT ![c] = "answered"]
    /\ UNCHANGED <<phase, pc, client, request, unread, count, low>>

HostFails(c) ==
    /\ host[c] \in {"open", "told", "answered"}
    /\ pc[c] \in Open
    /\ host' = [host EXCEPT ![c] = "shut"]
    /\ unread' = [unread EXCEPT ![c] = @ \ {"host"}]
    /\ UNCHANGED <<phase, pc, client, request, count, low>>
-----------------------------------------------------------------------------
\* _run_egress: a signal closes the listening socket at once.
Stop ==
    /\ phase = "serving"
    /\ phase' = "draining"
    /\ UNCHANGED <<task, client, count, low>>

\* The drain is over when every handler is, or after SHUTDOWN_DRAIN_S.
DrainOver == TRUE

\* Where a cancelled await leaves a handler: in its finally, or past it.
Cancelled(at) == CASE at \in Open -> "hanging_up"
                   [] at \in Accepted \ Open -> "closing"
                   [] OTHER -> "away"

\* asyncio.run cancels each handler, once: of those counted, the tunnels alone have
\* something to close before their client's side, and are counted till then.
Cancel ==
    /\ phase = "draining" /\ DrainOver
    /\ phase' = "cancelling"
    /\ pc' = [c \in Clients |-> Cancelled(pc[c])]
    /\ client' = [c \in Clients |-> "gone"]
    /\ request' = [c \in Clients |-> FALSE]
    /\ host' = [c \in Clients |-> "off"]
    /\ unread' = [c \in Clients |-> IF pc'[c] = "away" THEN {} ELSE unread[c]]
    /\ accepted' = open /\ open' = 0
    /\ low' = Least(low, accepted')
    /\ UNCHANGED saturated

\* It waits for every one of them, and the process ends.
Exit ==
    /\ phase = "cancelling" /\ \A c \in Clients : pc[c] = "away"
    /\ phase' = "down"
    /\ UNCHANGED <<task, client, count, low>>

\* The proxy's own steps on a connection.
Serve(c) ==
    \/ Asked(c) \/ AskedTooLate(c) \/ AskedHalf(c)
    \/ Reached(c) \/ NotReached(c) \/ Replied(c)
    \/ Greeted(c) \/ GreetingFails(c)
    \/ PassRequest(c) \/ PassEnd(c) \/ PassAnswer(c) \/ EndTunnel(c)
    \/ HungUp(c) \/ Closed(c)

EgressNext ==
    \/ Stop \/ Cancel \/ Exit
    \/ \E c \in Clients :
          \/ Connect(c) \/ Serve(c)
          \/ HalfCloses(c) \/ Goes(c) \/ ClientReads(c)
          \/ HostReads(c) \/ HostAnswers(c) \/ HostFails(c)

EgressSpec == EgressInit /\ [][EgressNext]_egressVars

\* The proxy's own awaits return: the request's and the host's connection have
\* timeouts and a reply's drain() does not wait.  The relays, their drain() and
\* _close go on when a peer has moved, and of that nothing is assumed: a relay
\* to the client that has bytes waiting may end, and need not.
EgressFairSpec ==
    /\ EgressSpec
    /\ WF_egressVars(Cancel) /\ WF_egressVars(Exit)
    /\ \A c \in Clients :
          WF_egressVars(Serve(c) /\ (pc[c] = "relaying" => "client" \notin unread[c]))
-----------------------------------------------------------------------------
TypeOK ==
    /\ phase \in {"serving", "draining", "cancelling", "down"}
    /\ pc \in [Clients -> Pcs]
    /\ client \in [Clients -> {"here", "half", "gone"}]
    /\ request \in [Clients -> BOOLEAN]
    /\ host \in [Clients -> {"off", "open", "told", "answered", "shut"}]
    /\ unread \in [Clients -> SUBSET {"client", "host"}]
    /\ accepted \in 0..MaxConnections
    /\ open \in Nat
    /\ saturated \in BOOLEAN
    /\ low \in -1..MaxConnections

\* Whatever way a connection ends, it gives back what it was counted for, no
\* more and no less: each count is of the connections it stands for.  (The
\* ceiling on tunnels is read before the host is reached and is not among
\* what follows: see the README.)
SlotsReturned ==
    /\ accepted = Cardinality({c \in Clients : pc[c] \in Accepted})
    /\ open = Cardinality({c \in Clients : pc[c] \in Open})
    /\ accepted <= MaxConnections

\* handle logs a saturation once an episode and never misses one: where it
\* turns a connection away, it has a line to log exactly when the count has
\* been well below the ceiling since the last.
EpisodesLogged ==
    accepted >= MaxConnections => (~saturated <=> low < RecoveredAt)

\* The clients are alike: what holds of one of them holds of each.
AClient == CHOOSE c \in Clients : TRUE

\* What is not the proxy's to promise: that the host answers, and that peers
\* read what is kept for them.
HostAnswersIt == WF_egressVars(HostAnswers(AClient))
PeersRead(C) == WF_egressVars(\E c \in C : ClientReads(c) \/ HostReads(c))

\* A client that has sent all it will has the host's answer kept for it, unless
\* it goes, the host closes without one or the proxy is stopped.
HalfClosedIsAnswered ==
    LET c == AClient IN
    (pc[c] = "relaying" /\ client[c] = "half")
        ~> \/ "client" \in unread[c]
           \/ pc[c] = "relaying" /\ (client[c] = "gone" \/ host[c] = "shut")
           \/ phase \in {"cancelling", "down"}

\* No connection outlives what its client has to send and its host to answer.
ConnectionsEnd ==
    (pc[AClient] # "away" /\ client[AClient] # "here") ~> (pc[AClient] = "away")

\* "SIGTERM must not be held by a tunnel, which nothing bounds in time"
\* (tests/test_cli.py:3959; egress.py:180).  By itself it does not hold: the
\* handlers cancelled after the drain close their peers' sides, for which
\* asyncio.run waits, as long as a peer leaves unread what is kept for it.
StopEnds == phase = "draining" ~> phase = "down"

\* With peers that read what they are sent, or go: a half-closed client is
\* answered and its connection let go, as long as its host answers, and the
\* service stops, though hosts do not answer (_tunnel, _relay, _close, _run_egress).
EndingsReached ==
    /\ (HostAnswersIt /\ PeersRead({AClient})) => (HalfClosedIsAnswered /\ ConnectionsEnd)
    /\ PeersRead(Clients) => StopEnds
=============================================================================
