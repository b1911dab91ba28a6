------------------------------- MODULE Sockets -------------------------------
(***************************************************************************)
(* The WebSocket streams of job events and of the dashboard.  A handler    *)
(* looks at the number of connections, the task the upgrade starts counts  *)
(* itself, and a loop then tells events, pings every half minute and ends  *)
(* when the peer closes, a send fails, or nothing happened for two minutes.*)
(* The peer may fall silent without closing; what is sent to it then fills *)
(* the buffers of the connection and at last a send blocks the loop.       *)
(***************************************************************************)
EXTENDS Integers, Sequences, FiniteSets

CONSTANTS
  SkClient,      \* those who connect
  Dashboard,     \* the clients that open the dashboard's stream
  MaxSockets,    \* MAX_WS_CONNECTIONS
  SkIdleLimit,   \* periods of 30 s in timeout_duration (4)
  SkCapacity,    \* events a slow receiver may be behind (1024)
  SkBuffer,      \* messages the buffers of a connection hold
  SkMaxEvents    \* bound: events broadcast

ASSUME SocketsAssumption ==
  /\ IsFiniteSet(SkClient) /\ Dashboard \subseteq SkClient
  /\ MaxSockets \in Nat /\ SkIdleLimit \in Nat /\ SkCapacity \in Nat \ {0}
  /\ SkBuffer \in Nat /\ SkMaxEvents \in Nat

VARIABLES
  skLoop,    \* client -> "none", "admitted" by the handler, "open", or "stuck" in a send
  skPeer,    \* client -> "well", "silent", "closed"
  skCount,   \* WS_CONNECTION_COUNT
  skIdle,    \* client -> periods since last_activity
  skDue,     \* the clients whose ping_interval has ticked
  skUnread,  \* client -> whether each event it has not received is of its queue
  skSent,    \* client -> messages a silent peer has not taken
  skRaced,   \* two handlers were past the limit's check at once (history)
  skQuiet,   \* client -> periods since it was told or said anything (history)
  skEvents   \* bound

skConns == <<skLoop, skCount, skRaced>>
skStream == <<skIdle, skDue, skUnread, skSent, skQuiet>>
skVars == <<skConns, skPeer, skStream, skEvents>>

SkInit ==
  /\ skLoop = [c \in SkClient |-> "none"] /\ skPeer = [c \in SkClient |-> "well"]
  /\ skCount = 0 /\ skDue = {} /\ skRaced = FALSE /\ skEvents = 0
  /\ skIdle = [c \in SkClient |-> 0] /\ skQuiet = [c \in SkClient |-> 0]
  /\ skSent = [c \in SkClient |-> 0] /\ skUnread = [c \in SkClient |-> <<>>]

In(place) == {c \in SkClient : skLoop[c] \in place}

\* A race is over once those counted and those admitted fit the limit again.
Loops(c, place, count) ==
  /\ skLoop' = [skLoop EXCEPT ![c] = place] /\ skCount' = count
  /\ skRaced' = /\ skRaced \/ (place = "admitted" /\ In({"admitted"}) # {})
                /\ count + Cardinality({d \in SkClient : skLoop'[d] = "admitted"}) > MaxSockets

\* Mutant: the limit itself is let in.
RoomForOneMore == skCount <= MaxSockets
Room == skCount < MaxSockets

\* ws_handler, ws_queue_handler and ws_dashboard_handler; a refused client has
\* changed nothing.
Admit(c) ==
  /\ skLoop[c] = "none" /\ Room
  /\ Loops(c, "admitted", skCount)
  /\ skPeer' = [skPeer EXCEPT ![c] = "well"]
  /\ UNCHANGED <<skStream, skEvents>>

UpgradeFails(c) ==
  /\ skLoop[c] = "admitted" /\ Loops(c, "none", skCount)
  /\ UNCHANGED <<skPeer, skStream, skEvents>>

OpenSocket(c) ==
  /\ skLoop[c] = "admitted"
  /\ Loops(c, "open", skCount + 1)
  /\ skIdle' = [skIdle EXCEPT ![c] = 0] /\ skQuiet' = [skQuiet EXCEPT ![c] = 0]
  /\ skUnread' = [skUnread EXCEPT ![c] = <<>>] /\ skSent' = [skSent EXCEPT ![c] = 0]
  /\ skDue' = skDue \cup {c}
  /\ UNCHANGED <<skPeer, skEvents>>

\* broadcast_event reaches every receiver; one that is a whole channel behind
\* loses its oldest event (Lagged).
BroadcastEvent ==
  /\ skEvents < SkMaxEvents /\ skEvents' = skEvents + 1
  /\ \E mine \in SUBSET SkClient :
       skUnread' = [c \in SkClient |->
         IF c \notin In({"open", "stuck"}) \/ c \in Dashboard THEN skUnread[c]
         ELSE LET more == Append(skUnread[c], c \in mine)
              IN IF Len(more) > SkCapacity THEN Tail(more) ELSE more]
  /\ UNCHANGED <<skConns, skPeer, skIdle, skDue, skSent, skQuiet>>

-----------------------------------------------------------------------------
\* One turn of a loop, and the look at last_activity the next one begins with.

Ends(c) == Loops(c, "none", skCount - 1)

TurnEnds(c) ==
  IF skIdle'[c] > SkIdleLimit THEN Ends(c) ELSE UNCHANGED skConns

Goes(c) == skPeer[c] = "well" \/ skSent[c] < SkBuffer

Active(c) ==
  skIdle' = [skIdle EXCEPT ![c] = 0] /\ skQuiet' = [skQuiet EXCEPT ![c] = 0]

\* socket.send of an event, an update or a ping: it fails, blocks, or goes out.
Sends(c, activity) ==
  \/ /\ skPeer[c] = "closed" /\ Ends(c)
     /\ UNCHANGED <<skIdle, skQuiet, skSent>>
  \/ /\ skPeer[c] # "closed" /\ ~Goes(c)
     /\ Loops(c, "stuck", skCount)
     /\ UNCHANGED <<skIdle, skQuiet, skSent>>
  \/ /\ skPeer[c] # "closed" /\ Goes(c)
     /\ skSent' = IF skPeer[c] = "well" THEN skSent ELSE [skSent EXCEPT ![c] = @ + 1]
     /\ activity /\ TurnEnds(c)

\* The server's own ping is no activity.
PingIdle == UNCHANGED <<skIdle, skQuiet>>

Ping(c) ==
  /\ skLoop[c] = "open" /\ c \in skDue
  /\ skDue' = skDue \ {c} /\ Sends(c, PingIdle)
  /\ UNCHANGED <<skPeer, skUnread, skEvents>>

TellEvent(c) ==
  /\ skLoop[c] = "open" /\ skUnread[c] # <<>>
  /\ skUnread' = [skUnread EXCEPT ![c] = Tail(@)]
  /\ IF Head(skUnread[c]) THEN Sends(c, Active(c))
     ELSE UNCHANGED <<skIdle, skQuiet, skSent>> /\ TurnEnds(c)
  /\ UNCHANGED <<skPeer, skDue, skEvents>>

\* update_interval of the dashboard.
UpdateDashboard(c) ==
  /\ c \in Dashboard /\ skLoop[c] = "open"
  /\ Sends(c, Active(c))
  /\ UNCHANGED <<skPeer, skDue, skUnread, skEvents>>

\* A message of the peer: a ping, a pong or anything else; or its close.
Hear(c) ==
  /\ skLoop[c] = "open"
  /\ \/ skPeer[c] = "well" /\ Active(c) /\ UNCHANGED skConns
     \/ skPeer[c] = "closed" /\ Ends(c) /\ UNCHANGED <<skIdle, skQuiet>>
  /\ UNCHANGED <<skPeer, skDue, skUnread, skSent, skEvents>>

\* A blocked send ends: the peer takes what was sent, or the connection breaks.
SendEnds(c) ==
  /\ skLoop[c] = "stuck"
  /\ \/ skPeer[c] = "well" /\ Loops(c, "open", skCount) /\ Active(c)
     \/ skPeer[c] # "well" /\ Ends(c) /\ UNCHANGED <<skIdle, skQuiet>>
  /\ UNCHANGED <<skPeer, skDue, skUnread, skSent, skEvents>>

PeerChanges(c) ==
  /\ skLoop[c] \in {"open", "stuck"}
  /\ \/ skPeer[c] = "well" /\ skPeer' \in {[skPeer EXCEPT ![c] = "silent"],
                                           [skPeer EXCEPT ![c] = "closed"]}
        /\ UNCHANGED skSent
     \/ skPeer[c] = "silent" /\ skPeer' = [skPeer EXCEPT ![c] = "well"]
        /\ skSent' = [skSent EXCEPT ![c] = 0]
  /\ UNCHANGED <<skConns, skIdle, skDue, skUnread, skQuiet, skEvents>>

\* Half a minute passes; a loop that is not stuck has sent its ping by then.
Saturated(f) ==
  [c \in SkClient |-> IF f[c] > SkIdleLimit + 1 THEN f[c] ELSE f[c] + 1]

SkPeriod ==
  /\ \A c \in In({"open"}) : c \notin skDue
  /\ skDue' = In({"open", "stuck"})
  /\ skIdle' = Saturated(skIdle) /\ skQuiet' = Saturated(skQuiet)
  /\ UNCHANGED <<skConns, skPeer, skUnread, skSent, skEvents>>

SkNext ==
  \/ BroadcastEvent \/ SkPeriod
  \/ \E c \in SkClient :
       Admit(c) \/ UpgradeFails(c) \/ OpenSocket(c) \/ Ping(c) \/ TellEvent(c)
       \/ UpdateDashboard(c) \/ Hear(c) \/ SendEnds(c) \/ PeerChanges(c)

SkSpec == SkInit /\ [][SkNext]_skVars

-----------------------------------------------------------------------------
\* The counter is the number of loops that run, and no more than the limit run
\* unless handlers passed the check together: the check and the count are two
\* steps of two tasks.
SocketsCounted ==
  /\ skCount = Cardinality(In({"open", "stuck"}))
  /\ ~skRaced => skCount <= MaxSockets

\* A loop that is not blocked in a send lets a peer go that has been neither
\* heard nor told anything for the timeout and one ping more.
SilentAreLetGo == \A c \in In({"open"}) : skQuiet[c] <= SkIdleLimit + 1

SocketsAccounted == SocketsCounted /\ SilentAreLetGo
=============================================================================
