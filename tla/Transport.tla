------------------------------- MODULE Transport -------------------------------
(***************************************************************************)
(* The Rust client's pool of connections and the server's TCP sessions.    *)
(* A command travels as a request with an id: the pool tries connection    *)
(* after connection, the session executes what it receives in order, holds *)
(* answers back while more is in its read buffer, and a reader task hands  *)
(* each answer to the call with its id.  Sessions break at any point with  *)
(* requests and answers on the way; a health checker opens new ones for    *)
(* connections whose flag is down.  Timeouts and broken writes move a call *)
(* to the next connection, where its command is sent again; a write waits  *)
(* while the session takes no more.  A caller may drop its call.           *)
(* Commands are told apart only by the call that sends them.               *)
(***************************************************************************)
EXTENDS Naturals, Sequences, FiniteSets

CONSTANTS
  SdkCall,      \* calls of the client, each sends one command
  Auth,         \* the health checker's AUTH
  MaxPool,      \* bound: pool_size
  MaxReconnects,\* bound: sessions opened after the first ones
  WireRoom,     \* requests a session takes that it has not served
  Openings      \* bound: calls made, and the pool_size they are made over

\* A pool has at least one connection.
ASSUME TransportAssumption ==
  /\ Auth \notin SdkCall /\ MaxPool \in Nat \ {0} /\ MaxReconnects \in Nat
  /\ WireRoom \in Nat \ {0}
  /\ \A o \in Openings : o.size \in 1..MaxPool /\ o.calls \subseteq SdkCall

VARIABLES
  poolSize,     \* connections of the pool
  writer,       \* per connection, the session it writes to; 0: none
  connected,    \* per connection, its flag
  pending,      \* per connection, the requests that wait for an answer
  reqCounter,   \* per connection, ids used so far
  session,      \* per session: both directions of the wire, and its server side
  call,         \* per call: step, first connection, connections tried, request
  rx,           \* per requester, what its channel holds
  health,       \* the health checker: step and connection
  executed,     \* times the engine executed a call's command (history)
  givenUp       \* attempts of a call that timed out (history)

client == <<poolSize, writer, connected, pending, reqCounter>>
counts == <<executed, givenUp>>
transportVars == <<client, session, call, rx, health, counts>>

Conn == 0..(MaxPool - 1)
Session == 1..(MaxPool + MaxReconnects)
Requester == SdkCall \cup {Auth}
NoRequest == [conn |-> 0, n |-> 0, by |-> Auth]
NoReply == [what |-> "none", of |-> Auth]

\* A session: is its wire whole, does its reader run, is it authenticated;
\* requests up, answers in the server's writer, answers down.
Unopened == [conn |-> MaxPool, alive |-> FALSE, reader |-> FALSE, authenticated |-> FALSE,
             up |-> <<>>, out |-> <<>>, down |-> <<>>]
Opened(c, auth) == [conn |-> c, alive |-> TRUE, reader |-> TRUE, authenticated |-> auth,
                    up |-> <<>>, out |-> <<>>, down |-> <<>>]

\* ConnectionPool::connect: every connection has its session, authenticated.
TransportStart(o) ==
  /\ poolSize = o.size
  /\ connected = [c \in Conn |-> c < o.size]
  /\ writer = [c \in Conn |-> IF c < o.size THEN c + 1 ELSE 0]
  /\ pending = [c \in Conn |-> {}] /\ reqCounter = [c \in Conn |-> 0]
  /\ session = [s \in Session |-> IF s <= o.size THEN Opened(s - 1, TRUE) ELSE Unopened]
  /\ call = [k \in SdkCall |-> [at |-> IF k \in o.calls THEN "idle" ELSE "unused",
                                start |-> 0, tries |-> 0, req |-> NoRequest]]
  /\ rx = [k \in Requester |-> NoReply]
  /\ health = [at |-> "idle", conn |-> 0, req |-> NoRequest]
  /\ executed = [k \in SdkCall |-> 0] /\ givenUp = [k \in SdkCall |-> 0]

TransportInit == \E o \in Openings : TransportStart(o)

FrontsOf(q) == {SubSeq(q, 1, n) : n \in 0..Len(q)}

-----------------------------------------------------------------------------
(* ConnectionPool::send *)

ConnOf(k) == (call[k].start + call[k].tries) % poolSize

SdkSend(k) ==
  /\ call[k].at = "idle"
  /\ \E c \in 0..(poolSize - 1) :
       call' = [call EXCEPT ![k].at = "trying", ![k].start = c]
  /\ UNCHANGED <<client, session, rx, health, counts>>

\* The next connection whose flag is up, if one is left.
TryWith(k, exhausted) ==
  /\ call[k].at = "trying"
  /\ LET c == ConnOf(k)
         r == [conn |-> c, n |-> reqCounter[c] + 1, by |-> k]
     IN CASE call[k].tries = poolSize ->
               call' = [call EXCEPT ![k] = exhausted] /\ UNCHANGED <<pending, reqCounter>>
          [] call[k].tries < poolSize /\ ~connected[c] ->
               call' = [call EXCEPT ![k].tries = @ + 1] /\ UNCHANGED <<pending, reqCounter>>
          [] OTHER ->
               /\ reqCounter' = [reqCounter EXCEPT ![c] = r.n]
               /\ pending' = [pending EXCEPT ![c] = @ \cup {r}]
               /\ call' = [call EXCEPT ![k].at = "writing", ![k].req = r]
  /\ UNCHANGED <<poolSize, writer, connected, session, rx, health, counts>>

\* Mutant: round and round until a connection is up.
TryConnForever(k) == TryWith(k, [call[k] EXCEPT !.tries = 0])
TryConn(k) == TryWith(k, [call[k] EXCEPT !.at = "failed"])

Whole(c) == writer[c] # 0 /\ session[writer[c]].alive

\* The request leaves the map, and what its channel held is gone.
Forget(r) ==
  /\ pending' = [pending EXCEPT ![r.conn] = @ \ {r}]
  /\ rx' = [rx EXCEPT ![r.by] = NoReply]

HasRoom(c) == Whole(c) => Len(session[writer[c]].up) < WireRoom

\* To whichever session the connection has by now; a broken one may still take
\* the bytes.
Writes(k, then) ==
  /\ call[k].at = "writing" /\ writer[ConnOf(k)] # 0
  /\ session' = [session EXCEPT ![writer[ConnOf(k)]].up =
                   IF Whole(ConnOf(k)) THEN Append(@, call[k].req) ELSE @]
  /\ call' = [call EXCEPT ![k].at = then]
  /\ UNCHANGED <<client, rx, health, counts>>

\* The write and its flush, under the lock of the writer: no timeout is on them.
WriteRequest(k) == HasRoom(ConnOf(k)) /\ Writes(k, "waiting")

WriteFails(k) ==
  /\ call[k].at = "writing"
  /\ ~Whole(ConnOf(k))
  /\ Forget(call[k].req)
  /\ connected' = [connected EXCEPT ![ConnOf(k)] = FALSE]
  /\ call' = [call EXCEPT ![k].at = "trying", ![k].tries = @ + 1]
  /\ UNCHANGED <<poolSize, writer, reqCounter, session, health, counts>>

Receive(k) ==
  /\ call[k].at = "waiting" /\ rx[k] # NoReply
  /\ call' = [call EXCEPT ![k].at = "answered"]
  /\ UNCHANGED <<client, session, rx, health, counts>>

GiveUp(k, forget) ==
  /\ call[k].at = "waiting" /\ rx[k] = NoReply
  /\ IF forget THEN Forget(call[k].req) ELSE UNCHANGED <<pending, rx>>
  /\ call' = [call EXCEPT ![k].at = "trying", ![k].tries = @ + 1]
  /\ givenUp' = [givenUp EXCEPT ![k] = @ + 1]
  /\ UNCHANGED <<poolSize, writer, connected, reqCounter, session, health, executed>>

CallTimeout(k) == GiveUp(k, TRUE)

Leaves(k) ==
  /\ call[k].at \in {"trying", "writing", "waiting"}
  /\ call' = [call EXCEPT ![k].at = "dropped"]
  /\ UNCHANGED <<client, session, rx, health, counts>>

\* The caller's future is dropped: its request stays in the map, and what a write
\* had put in the connection's buffer goes out with the next one.
CallDropped(k) == Leaves(k) \/ Writes(k, "dropped")

-----------------------------------------------------------------------------
(* The server: handle_text_protocol and handle_binary_protocol *)

Allowed(s, r) == r.by = Auth \/ session[s].authenticated

\* process_request, and the answer to the writer: flushed when the read buffer is
\* empty, and always when nothing is left on the wire.  A flush to a broken wire
\* may end the session.
ServeWith(s, runs) ==
  /\ session[s].up # <<>>
  /\ LET r == Head(session[s].up)
         answer == [req |-> r, what |-> IF Allowed(s, r) THEN "ok" ELSE "refused"]
         rest == Tail(session[s].up)
     IN /\ executed' = IF runs /\ r.by # Auth THEN [executed EXCEPT ![r.by] = @ + 1]
                                                  ELSE executed
        /\ \E flush \in BOOLEAN, ends \in BOOLEAN :
             /\ rest = <<>> => flush
             /\ ends => flush /\ ~session[s].alive
             /\ session' = [session EXCEPT
                  ![s].authenticated = @ \/ r.by = Auth,
                  ![s].up = IF ends THEN <<>> ELSE rest,
                  ![s].out = IF flush THEN <<>> ELSE Append(@, answer),
                  ![s].down = IF flush /\ session[s].alive
                                THEN @ \o Append(session[s].out, answer) ELSE @]
  /\ UNCHANGED <<client, call, rx, health, givenUp>>

\* Mutant: the check comes after the command.
ServeUnchecked(s) == ServeWith(s, TRUE)
Serve(s) == ServeWith(s, Allowed(s, Head(session[s].up)))

\* The wire breaks, or an end of it dies: what the server has read is still
\* executed, what the client's side has read is still dispatched.
Break(s) ==
  /\ session[s].alive
  /\ \E up \in FrontsOf(session[s].up), down \in FrontsOf(session[s].down) :
       session' = [session EXCEPT ![s].alive = FALSE, ![s].up = up, ![s].down = down]
  /\ UNCHANGED <<client, call, rx, health, counts>>

-----------------------------------------------------------------------------
(* The reader task of a session *)

\* dispatch_response: by the id alone, whichever session the request went to.
Dispatch(s) ==
  /\ session[s].reader /\ session[s].down # <<>>
  /\ LET a == Head(session[s].down)
         c == session[s].conn
         waiting == {r \in pending[c] : r.n = a.req.n}
     IN /\ pending' = [pending EXCEPT ![c] = @ \ waiting]
        /\ rx' = [k \in Requester |-> IF \E r \in waiting : r.by = k
                                        THEN [what |-> a.what, of |-> a.req.by] ELSE rx[k]]
  /\ session' = [session EXCEPT ![s].down = Tail(@)]
  /\ UNCHANGED <<poolSize, writer, connected, reqCounter, call, health, counts>>

\* fail_all_pending of a connection: every request of it, of any session.
FailAllPending(c) ==
  /\ rx' = [k \in Requester |-> IF \E r \in pending[c] : r.by = k
                                  THEN [what |-> "lost", of |-> k] ELSE rx[k]]
  /\ pending' = [pending EXCEPT ![c] = {}]

\* The flag this task clears is not the one send looks at.
ReaderEnds(s) ==
  /\ session[s].reader /\ ~session[s].alive /\ session[s].down = <<>>
  /\ FailAllPending(session[s].conn)
  /\ session' = [session EXCEPT ![s].reader = FALSE]
  /\ UNCHANGED <<poolSize, writer, connected, reqCounter, call, health, counts>>

-----------------------------------------------------------------------------
(* The health checker *)

Unused == {s \in 1..(poolSize + MaxReconnects) :
             /\ session[s] = Unopened
             /\ \A t \in 1..(s - 1) : session[t] # Unopened}

Reconnected(count) ==
  /\ health.at = "idle"
  /\ \E c \in 0..(poolSize - 1), s \in Unused :
       /\ ~connected[c]
       /\ writer' = [writer EXCEPT ![c] = s] /\ connected' = [connected EXCEPT ![c] = TRUE]
       /\ reqCounter' = [reqCounter EXCEPT ![c] = count[c]]
       /\ session' = [session EXCEPT ![s] = Opened(c, FALSE)]
       /\ health' = [health EXCEPT !.at = "auth", !.conn = c]
  /\ UNCHANGED <<poolSize, pending, call, rx, counts>>

Reconnect == Reconnected(reqCounter)

\* AUTH is a request like any other: calls may be written before it.
SendAuth ==
  /\ health.at = "auth" /\ connected[health.conn] /\ HasRoom(health.conn)
  /\ LET c == health.conn
         r == [conn |-> c, n |-> reqCounter[c] + 1, by |-> Auth]
     IN /\ reqCounter' = [reqCounter EXCEPT ![c] = r.n]
        /\ pending' = [pending EXCEPT ![c] = @ \cup {r}]
        /\ session' = [session EXCEPT ![writer[c]].up =
                         IF session[writer[c]].alive THEN Append(@, r) ELSE @]
        /\ health' = [health EXCEPT !.at = "auth_wait", !.req = r]
        /\ rx' = [rx EXCEPT ![Auth] = NoReply]
  /\ UNCHANGED <<poolSize, writer, connected, call, counts>>

\* Any answer will do, "ok": false included.
AuthAnswered ==
  /\ health.at = "auth_wait" /\ rx[Auth] # NoReply
  /\ health' = [health EXCEPT !.at = "idle", !.req = NoRequest]
  /\ UNCHANGED <<client, session, call, rx, counts>>

\* No answer: the connection is closed, its reader aborted, its calls failed.
AuthFails ==
  /\ \/ health.at = "auth_wait" /\ rx[Auth] = NoReply
     \/ health.at = "auth" /\ ~(connected[health.conn] /\ Whole(health.conn))
  /\ LET c == health.conn IN
       /\ connected' = [connected EXCEPT ![c] = FALSE] /\ writer' = [writer EXCEPT ![c] = 0]
       /\ session' = [session EXCEPT ![writer[c]] =
                        [@ EXCEPT !.alive = FALSE, !.reader = FALSE, !.down = <<>>]]
       /\ FailAllPending(c)
  /\ health' = [health EXCEPT !.at = "idle", !.req = NoRequest]
  /\ UNCHANGED <<poolSize, reqCounter, call, counts>>

-----------------------------------------------------------------------------
SdkStep(k) == TryConn(k) \/ WriteRequest(k) \/ WriteFails(k) \/ Receive(k) \/ CallTimeout(k)

TransportNext ==
  \/ \E k \in SdkCall : SdkSend(k) \/ SdkStep(k) \/ CallDropped(k)
  \/ \E s \in Session : Serve(s) \/ Break(s) \/ Dispatch(s) \/ ReaderEnds(s)
  \/ Reconnect \/ SendAuth \/ AuthAnswered \/ AuthFails

TransportSpec == TransportInit /\ [][TransportNext]_transportVars

\* A call's task runs, and its timer fires.  Sessions go on serving what they have
\* taken, unless they break: one that did neither would block writes for ever.
TransportFairness ==
  /\ \A k \in SdkCall : WF_transportVars(SdkStep(k))
  /\ WF_transportVars(\E s \in Session : Serve(s))

-----------------------------------------------------------------------------
(* What an answer says about the engine.  A command runs at most once more
   than attempts of its call timed out; "ok" is the answer to this very call,
   whose command ran; a call that was refused ran only in attempts it had
   given up.  (A timed out attempt may run as well as the next: see README.) *)
AnswerTellsExecution ==
  \A k \in SdkCall :
    /\ executed[k] <= givenUp[k] + 1
    /\ call[k].at = "answered" /\ rx[k].what = "ok" => rx[k].of = k /\ executed[k] >= 1
    /\ call[k].at = "answered" /\ rx[k].what = "refused" =>
         rx[k].of = k /\ executed[k] <= givenUp[k]
    /\ call[k].at = "failed" => executed[k] <= givenUp[k]

(* The map of pending requests holds only requests somebody waits for, and the
   last one of a call that was dropped: nothing takes that back until it is
   answered or its connection lost. *)
PendingIsAwaited ==
  \A c \in Conn : \A r \in pending[c] :
    IF r.by = Auth THEN health.req = r
                   ELSE call[r.by].req = r /\ call[r.by].at \in {"writing", "waiting", "dropped"}

(* Every call that is not dropped returns, though sessions break and answers are
   lost, if sessions take requests again or break. *)
CallsReturn ==
  \A k \in SdkCall : call[k].at = "trying" ~> call[k].at \in {"answered", "failed", "dropped"}

(* What a caller is told, and what its connection keeps of it afterwards. *)
CallsAnswered == AnswerTellsExecution /\ PendingIsAwaited
=============================================================================
