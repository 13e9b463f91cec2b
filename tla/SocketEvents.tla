------------------------------ MODULE SocketEvents ------------------------------
(***************************************************************************)
(* SocketConnectionAdaptor and the gateway that uses it.  An adaptor wraps *)
(* the server it was given and one client, or none; what it knows of the   *)
(* client is kept on the client's socket, which all its adaptors share.    *)
(* A client that reconnects is a new socket.  Nothing here awaits, so a    *)
(* method is one action.                                                   *)
(***************************************************************************)
EXTENDS Integers, FiniteSets

CONSTANTS
  Sockets,          \* the connections of clients, each with a room of its own id
  MaxAdaptors,      \* bound: adaptors made by others than the gateway
  MaxSends          \* bound: events sent

NoClient == "none"
ASSUME ClientAssumption == NoClient \notin Sockets
ASSUME BoundAssumption == MaxAdaptors \in Nat /\ MaxSends \in Nat

VARIABLES
  sharedServer,     \* whether onModuleInit has set the server all adaptors share
  seen, connected,  \* the sockets there have been, and those still connected
  backendId,        \* UNIQUE_SOCKET_CONNECTION_BACKEND_ID of each socket
  authorized,       \* IS_AUTHORIZED of each socket
  lastId,           \* the ids generated so far
  adaptors,         \* the adaptors made by others, with what they captured
  made,             \* what MaxAdaptors counts
  sends, received   \* only for properties: the events sent, and who got which

sockets == <<sharedServer, seen, connected, backendId, lastId>>
vars == <<sharedServer, seen, connected, backendId, authorized, lastId, adaptors, made,
          sends, received>>

-----------------------------------------------------------------------------
(* Data. *)

NoId == 0
Adaptor == [server : BOOLEAN, client : Sockets \cup {NoClient}]

(* What an event may be sent to: nothing given, or null, or a list of ids.   *)
(* An id alone is a list of one, a blank one is as if nothing was given, and *)
(* null is a room like any other that nobody is in.                          *)
Recipients == {[kind |-> "absent", ids |-> {}], [kind |-> "null", ids |-> {}]}
              \cup {[kind |-> "ids", ids |-> ids] : ids \in SUBSET Sockets}
(* Names of events: one that says something, one that socket.io keeps to     *)
(* itself and refuses to emit, and a blank one.                              *)
Events == {"named", "reserved", "blank"}
Methods == {"sendEventToClient", "sendEventToServer", "sendEventsToServer"}
Send == [n : Nat, method : Methods, adaptor : Adaptor, recipient : Recipients,
         to : SUBSET Sockets, answer : BOOLEAN]

-----------------------------------------------------------------------------
(* The constructor: a client without an id gets one.  Mutant: any client.   *)

AlwaysGenerates(client) == client # NoClient
Generates(client) == client # NoClient /\ backendId[client] = NoId
Constructs(client) ==
  IF Generates(client)
  THEN lastId' = lastId + 1 /\ backendId' = [backendId EXCEPT ![client] = lastId']
  ELSE UNCHANGED <<lastId, backendId>>

(* of: the server is the shared one, as it is now. *)
Of(client) ==
  /\ made < MaxAdaptors
  /\ made' = made + 1
  /\ Constructs(client)
  /\ adaptors' = adaptors \cup {[server |-> sharedServer, client |-> client]}
  /\ UNCHANGED <<sharedServer, seen, connected, authorized, sends, received>>

-----------------------------------------------------------------------------
(* The gateway. *)

OnModuleInit ==
  /\ ~sharedServer
  /\ sharedServer' = TRUE
  /\ UNCHANGED <<seen, connected, backendId, authorized, lastId, adaptors, made, sends, received>>

(* handleConnection: an adaptor is made, and the service has the id replaced. *)
(* Mutant: the new id is not kept.                                           *)
HandleConnectionUnkept(s) ==
  /\ sharedServer /\ s \notin seen
  /\ seen' = seen \cup {s} /\ connected' = connected \cup {s}
  /\ lastId' = lastId + 2
  /\ UNCHANGED <<sharedServer, backendId, authorized, adaptors, made, sends, received>>
HandleConnection(s) ==
  /\ sharedServer /\ s \notin seen
  /\ seen' = seen \cup {s} /\ connected' = connected \cup {s}
  /\ lastId' = lastId + 2
  /\ backendId' = [backendId EXCEPT ![s] = lastId']
  /\ UNCHANGED <<sharedServer, authorized, adaptors, made, sends, received>>

HandleDisconnect(s) ==
  /\ s \in connected
  /\ connected' = connected \ {s}
  /\ Constructs(s)
  /\ UNCHANGED <<sharedServer, seen, authorized, adaptors, made, sends, received>>

-----------------------------------------------------------------------------
(* Methods of an adaptor. *)

(* setAuthorized, for whoever holds an adaptor of the client. *)
SetAuthorized(adaptor, isAuthorized) ==
  /\ adaptor.client # NoClient
  /\ authorized' = [authorized EXCEPT ![adaptor.client] = isAuthorized]
  /\ UNCHANGED <<sockets, adaptors, made, sends, received>>

(* The rooms an event goes to: without any it goes to everybody; null is a  *)
(* room that nobody is in.  Mutants: null is taken for no recipient; a list  *)
(* is served only if all its clients are there.                              *)
ReachedUnlessNamed(recipient) ==
  IF recipient.ids = {} THEN connected ELSE recipient.ids \cap connected
ReachedIfAll(recipient) ==
  IF recipient.ids \subseteq connected THEN recipient.ids ELSE {}
Reached(recipient) ==
  IF recipient.kind # "null" /\ recipient.ids = {} THEN connected
                                                   ELSE recipient.ids \cap connected

(* sendEventToServer: the server emits to the rooms. *)
FromServer(adaptor, event, recipient) ==
  IF adaptor.server /\ event = "named" THEN Reached(recipient) ELSE {}
(* sendEventToClient: `to` returns an operator that addresses the recipient, *)
(* which is dropped: the client's socket emits to the client.  A blank event *)
(* is given the client's default name.  Without a client the server emits.   *)
FromClient(adaptor, event, recipient) ==
  IF adaptor.client = NoClient THEN FromServer(adaptor, event, recipient)
  ELSE IF event # "reserved" THEN {adaptor.client} \cap connected ELSE {}
(* sendEventsToServer: each event goes to the room of its own name. *)
FromEvents(adaptor, event, recipient) ==
  IF recipient.ids = {} THEN {} ELSE FromServer(adaptor, event, recipient)
Receivers(method, adaptor, event, recipient) ==
  CASE method = "sendEventToClient" -> FromClient(adaptor, event, recipient)
    [] method = "sendEventToServer" -> FromServer(adaptor, event, recipient)
    [] method = "sendEventsToServer" -> FromEvents(adaptor, event, recipient)

(* What they answer: false without a server, a client or an event (or, to    *)
(* sendEventsToServer, a list of them), or when emit throws; it, and          *)
(* sendEventToClient without a client, ignore what sendEventToServer answers. *)
AnswerOf(method, adaptor, event, recipient) ==
  CASE method = "sendEventToServer" -> adaptor.server /\ event = "named"
    [] method = "sendEventsToServer" -> adaptor.server /\ recipient.kind = "ids"
    [] method = "sendEventToClient" ->
         IF adaptor.client = NoClient THEN adaptor.server /\ event # "blank"
                                      ELSE event # "reserved"

SendEvent(adaptor, method, event, recipient) ==
  LET send == [n |-> Cardinality(sends) + 1, method |-> method, adaptor |-> adaptor,
               recipient |-> recipient, to |-> recipient.ids \cap connected,
               answer |-> AnswerOf(method, adaptor, event, recipient)]
  IN
  /\ Cardinality(sends) < MaxSends
  /\ sends' = sends \cup {send}
  /\ received' = received \cup
       {[to |-> s, n |-> send.n] : s \in Receivers(method, adaptor, event, recipient)}
  /\ UNCHANGED <<sockets, authorized, adaptors, made>>

Init ==
  /\ sharedServer = FALSE
  /\ seen = {} /\ connected = {}
  /\ backendId = [s \in Sockets |-> NoId]
  /\ authorized = [s \in Sockets |-> FALSE]
  /\ lastId = 0 /\ adaptors = {} /\ made = 0
  /\ sends = {} /\ received = {}

Next ==
  \/ OnModuleInit
  \/ \E s \in Sockets : HandleConnection(s) \/ HandleDisconnect(s)
  \/ \E client \in seen \cup {NoClient} : Of(client)
  \/ \E adaptor \in adaptors, isAuthorized \in BOOLEAN : SetAuthorized(adaptor, isAuthorized)
  \/ \E adaptor \in adaptors, method \in Methods, event \in Events, recipient \in Recipients :
       SendEvent(adaptor, method, event, recipient)
Spec == Init /\ [][Next]_vars

-----------------------------------------------------------------------------
(* Properties. *)

(* The type invariant; a socket has an id from its connection on. *)
TypeOK ==
  /\ sharedServer \in BOOLEAN
  /\ connected \subseteq seen /\ seen \subseteq Sockets
  /\ backendId \in [Sockets -> Nat] /\ lastId \in Nat
  /\ \A s \in Sockets : s \in seen <=> backendId[s] # NoId
  /\ authorized \in [Sockets -> BOOLEAN]
  /\ adaptors \subseteq Adaptor /\ made \in Nat
  /\ sends \subseteq Send
  /\ received \subseteq [to : Sockets, n : Nat]

(* The id of a connection never changes while it lasts, however many adaptors *)
(* are made for it, and no two connections have the same.                     *)
OneIdPerConnection ==
  [][/\ \A s \in connected : backendId'[s] = backendId[s]
     /\ \A s, t \in seen' : backendId'[s] = backendId'[t] => s = t]_vars

(* A client receives an event that is addressed to others, or to null, only  *)
(* from an adaptor of its own; a server's event without recipient is for all. *)
ReachesOnlyAddressed ==
  \A r \in received : \E send \in sends :
    /\ send.n = r.n
    /\ \/ r.to \in send.recipient.ids
       \/ send.method = "sendEventToClient" /\ send.adaptor.client = r.to
       \/ /\ send.adaptor.server
          /\ send.recipient.kind # "null" /\ send.recipient.ids = {}

(* An event a server was asked to send and answers `true` for has reached all *)
(* the clients it names that were connected.  Of an adaptor that was given    *)
(* no server, having been made before the gateway was, none has.              *)
AnsweredMeansReceived ==
  \A send \in sends :
    /\ send.method = "sendEventToServer" /\ send.answer =>
         \A s \in send.to : [to |-> s, n |-> send.n] \in received
    /\ ~send.adaptor.server /\ send.adaptor.client = NoClient =>
         ~send.answer /\ \A r \in received : r.n # send.n
=============================================================================
