------------------------- MODULE InstantNotifications -------------------------
(***************************************************************************)
(* notification_api, channel "websocket": the API holds the connections of *)
(* the users itself (WebSocketManager), sends a request to all of them     *)
(* within the HTTP call that brings it, and writes what it found to        *)
(* notification_log.  One event loop interleaves the calls, the            *)
(* connections that come and go, and the sends.                            *)
(*                                                                         *)
(* There is one request; a client that got no answer, or distrusts it,     *)
(* calls again under the same request_id, so all calls share their rows.   *)
(***************************************************************************)
EXTENDS FiniteSets

CONSTANTS
  Users,   \* the recipients of the request
  Sockets, \* connections: tabs and devices; each is opened once
  Owner,   \* of each connection, the user its token names
  Calls    \* bound: the POSTs of the request

ASSUME InstantAssumption == Owner \in [Sockets -> Users]

VARIABLES
  content,  \* "text": text_override is given; "template": it is not
  socket,   \* where each connection is
  registry, \* WebSocketManager._connections
  call,     \* the HTTP calls
  received, \* of each connection, the calls whose message reached its client
  instant   \* notification_log.status of each recipient

instantVars == <<content, socket, registry, call, received, instant>>

Found == {"websocket_delivered", "websocket_no_connection", "websocket_text_required"}

\* `connections` is send_to_user's copy, of all recipients; `done` those its loops
\* are through with; `early` the connections that were open when the call came.
CallRecords ==
  [at : {"none", "sending", "ended", "died"}, found : [Users -> Found \cup {"unknown"}],
   connections : SUBSET Sockets, done : SUBSET Sockets, early : SUBSET Sockets]

InstantTypeOK ==
  /\ content \in {"text", "template"}
  /\ socket \in [Sockets -> {"new", "verifying", "open", "left", "closed"}]
  /\ registry \in [Users -> SUBSET Sockets]
  /\ call \in [Calls -> CallRecords]
  /\ received \in [Sockets -> SUBSET Calls]
  /\ instant \in [Users -> Found \cup {"absent"}]

InstantInit ==
  /\ content \in {"text", "template"}
  /\ socket = [s \in Sockets |-> "new"]
  /\ registry = [u \in Users |-> {}]
  /\ call = [c \in Calls |-> [at |-> "none", found |-> [u \in Users |-> "unknown"],
                              connections |-> {}, done |-> {}, early |-> {}]]
  /\ received = [s \in Sockets |-> {}]
  /\ instant = [u \in Users |-> "absent"]

Goes(s, from, to) == socket[s] = from /\ socket' = [socket EXCEPT ![s] = to]

-----------------------------------------------------------------------------
(* The connections: notifications_websocket. *)

\* The handler awaits auth_service.
Verify(s) ==
  /\ Goes(s, "new", "verifying")
  /\ UNCHANGED <<content, registry, call, received, instant>>

\* resolve_user_id: no 200, whatever the reason, is no user.  A client may also
\* leave before accept() is through.
Refuse(s) ==
  /\ Goes(s, "verifying", "closed")
  /\ UNCHANGED <<content, registry, call, received, instant>>

\* accept() and register.
Open(s) ==
  /\ Goes(s, "verifying", "open")
  /\ registry' = [registry EXCEPT ![Owner[s]] = @ \cup {s}]
  /\ UNCHANGED <<content, call, received, instant>>

\* The client is gone, and nobody here knows.
Leaves(s) ==
  /\ Goes(s, "open", "left")
  /\ UNCHANGED <<content, registry, call, received, instant>>

\* receive_text raises, and `finally` unregisters.
Unregister(s) ==
  /\ Goes(s, "left", "closed")
  /\ registry' = [registry EXCEPT ![Owner[s]] = @ \ {s}]
  /\ UNCHANGED <<content, call, received, instant>>

-----------------------------------------------------------------------------
(* The calls: process_notification_request. *)

SetCall(c, v) == call' = [call EXCEPT ![c] = v]

\* The request is valid; each recipient gets a task of the gather.
Post(c) ==
  /\ call[c].at = "none"
  /\ SetCall(c, [call[c] EXCEPT !.at = "sending", !.early = {s \in Sockets : socket[s] = "open"}])
  /\ UNCHANGED <<content, socket, registry, received, instant>>

\* _deliver_websocket up to its first await: send_to_user copies the connections.
Deliver(c, u) ==
  /\ call[c].at = "sending" /\ call[c].found[u] = "unknown"
  /\ LET connections == IF content = "text" THEN registry[u] ELSE {}
         status == IF content # "text" THEN "websocket_text_required"
                   ELSE IF connections = {} THEN "websocket_no_connection"
                   ELSE "websocket_delivered"
     IN  SetCall(c, [call[c] EXCEPT !.found[u] = status, !.connections = @ \cup connections])
  /\ UNCHANGED <<content, socket, registry, received, instant>>

SendJsonStops(c, s) == \* mutant: a connection that fails ends the loop
  /\ call[c].at = "sending" /\ s \in call[c].connections \ call[c].done
  /\ SetCall(c, [call[c] EXCEPT !.done =
       IF socket[s] = "open" THEN @ \cup {s}
       ELSE @ \cup {t \in call[c].connections : Owner[t] = Owner[s]}])
  /\ received' = IF socket[s] = "open" THEN [received EXCEPT ![s] = @ \cup {c}] ELSE received
  /\ UNCHANGED <<content, socket, registry, instant>>

\* The next connection of one recipient's loop; an exception is logged and the
\* loop goes on.
SendJson(c, s) ==
  /\ call[c].at = "sending" /\ s \in call[c].connections \ call[c].done
  /\ SetCall(c, [call[c] EXCEPT !.done = @ \cup {s}])
  /\ received' = IF socket[s] = "open" THEN [received EXCEPT ![s] = @ \cup {c}] ELSE received
  /\ UNCHANGED <<content, socket, registry, instant>>

\* All tasks are through: _persist_log_entries upserts the rows in one statement, or
\* fails and nobody is told; then the answer.  Every status there is one of its
\* own (_OWN_STATUSES), so what a later call found replaces it.
Answer(c) ==
  /\ call[c].at = "sending" /\ call[c].done = call[c].connections
  /\ \A u \in Users : call[c].found[u] # "unknown"
  /\ SetCall(c, [call[c] EXCEPT !.at = "ended"])
  /\ instant' = call[c].found \/ UNCHANGED instant
  /\ UNCHANGED <<content, socket, registry, received>>

\* The process ends, with every connection and every call.
ApiDies ==
  /\ \E s \in Sockets : socket[s] \notin {"new", "closed"}
  /\ socket' = [s \in Sockets |-> IF socket[s] = "new" THEN "new" ELSE "closed"]
  /\ registry' = [u \in Users |-> {}]
  /\ call' = [c \in Calls |-> IF call[c].at = "sending" THEN [call[c] EXCEPT !.at = "died"]
                                                          ELSE call[c]]
  /\ UNCHANGED <<content, received, instant>>

InstantNext ==
  \/ \E s \in Sockets : Verify(s) \/ Refuse(s) \/ Open(s) \/ Leaves(s) \/ Unregister(s)
  \/ \E c \in Calls : \/ Post(c) \/ Answer(c)
                      \/ \E u \in Users : Deliver(c, u)
                      \/ \E s \in Sockets : SendJson(c, s)
  \/ ApiDies

-----------------------------------------------------------------------------
\* A connection that was open when a call came, and is open after its answer, has
\* got the message, whatever other connections of its user or of other users fail
\* meanwhile (send_to_user); and the row does not say that its user was not
\* connected unless another call, made when it was not, wrote that over it.
OpenIsReached ==
  \A c \in Calls, s \in Sockets :
    call[c].at = "ended" /\ s \in call[c].early /\ socket[s] = "open" /\ content = "text"
      => /\ c \in received[s]
         /\ instant[Owner[s]] = "websocket_no_connection" =>
              \E d \in Calls \ {c} : call[d].found[Owner[s]] = "websocket_no_connection"
=============================================================================
