--------------------------- MODULE SocketEventsProofs ---------------------------
(***************************************************************************)
(* Proofs about SocketEvents: types, the ids of connections, and whom an   *)
(* event reaches.                                                          *)
(***************************************************************************)
EXTENDS SocketEvents, FiniteSetTheorems, TLAPS

(* What TypeOK leaves open: ids are given out once, and sends are numbered   *)
(* in the order they are made.                                               *)
IdsOK ==
  /\ \A s \in Sockets : backendId[s] <= lastId
  /\ \A s, t \in Sockets : backendId[s] = backendId[t] /\ backendId[s] # NoId => s = t
SendsNumbered ==
  /\ IsFiniteSet(sends)
  /\ \A send \in sends : send.n <= Cardinality(sends)
  /\ \A r \in received : r.n <= Cardinality(sends)
SocketInv == TypeOK /\ IdsOK /\ SendsNumbered

-----------------------------------------------------------------------------
(* The constructor gives a socket that has no id a new one, and no other. *)
LEMMA ConstructsKeeps ==
  ASSUME SocketInv, NEW client \in seen \cup {NoClient}, Constructs(client)
  PROVE  UNCHANGED <<lastId, backendId>>
  BY ClientAssumption DEF SocketInv, TypeOK, Constructs, Generates

(* The initial state. *)
LEMMA InitSocketInv == Init => SocketInv
  <1> SUFFICES ASSUME Init PROVE SocketInv
    OBVIOUS
  <1>1. TypeOK
    BY DEF Init, TypeOK, NoId
  <1>2. IdsOK
    BY DEF Init, IdsOK, NoId
  <1>3. SendsNumbered
    BY FS_EmptySet DEF Init, SendsNumbered
  <1> QED
    BY <1>1, <1>2, <1>3 DEF SocketInv

(* A new send has the next number. *)
LEMMA NewSend ==
  ASSUME SendsNumbered, NEW send, send.n = Cardinality(sends) + 1
  PROVE  /\ IsFiniteSet(sends \cup {send})
         /\ Cardinality(sends \cup {send}) = Cardinality(sends) + 1
         /\ Cardinality(sends) \in Nat
  <1>1. Cardinality(sends) \in Nat
    BY FS_CardinalityType DEF SendsNumbered
  <1>2. send \notin sends
    BY <1>1 DEF SendsNumbered
  <1> QED
    BY <1>1, <1>2, FS_AddElement DEF SendsNumbered

(* Whoever receives an event is connected. *)
LEMMA ReceiversConnected ==
  ASSUME NEW adaptor \in Adaptor, NEW method \in Methods, NEW event \in Events,
         NEW recipient \in Recipients
  PROVE  Receivers(method, adaptor, event, recipient) \subseteq connected
  BY DEF Receivers, FromServer, FromClient, FromEvents, Reached, Methods

(* A step that sends nothing. *)
LEMMA QuietStep ==
  ASSUME SocketInv, TypeOK', IdsOK', UNCHANGED <<sends, received>>
  PROVE  SocketInv'
  BY DEF SocketInv, SendsNumbered

(* Sending is typed and numbered. *)
LEMMA SendEventInv ==
  ASSUME SocketInv, NEW adaptor \in adaptors, NEW method \in Methods, NEW event \in Events,
         NEW recipient \in Recipients, SendEvent(adaptor, method, event, recipient)
  PROVE  SocketInv'
  <1> DEFINE send == [n |-> Cardinality(sends) + 1, method |-> method, adaptor |-> adaptor,
               recipient |-> recipient, to |-> recipient.ids \cap connected,
               answer |-> AnswerOf(method, adaptor, event, recipient)]
             to == Receivers(method, adaptor, event, recipient)
  <1>1. /\ sends' = sends \cup {send}
        /\ received' = received \cup {[to |-> s, n |-> send.n] : s \in to}
        /\ UNCHANGED <<sockets, authorized, adaptors, made>>
    BY DEF SendEvent
  <1>2. adaptor \in Adaptor
    BY DEF SocketInv, TypeOK
  <1>3. /\ IsFiniteSet(sends') /\ Cardinality(sends') = Cardinality(sends) + 1
        /\ Cardinality(sends) \in Nat
    <2>1. send.n = Cardinality(sends) + 1
      OBVIOUS
    <2> HIDE DEF send
    <2> QED
      BY <1>1, <2>1, NewSend DEF SocketInv
  <1>4. recipient.ids \cap connected \subseteq Sockets
    BY DEF SocketInv, TypeOK
  <1>5. AnswerOf(method, adaptor, event, recipient) \in BOOLEAN
    BY <1>2 DEF AnswerOf, Adaptor, Methods
  <1>6. send \in Send
    BY <1>2, <1>3, <1>4, <1>5 DEF Send
  <1>7. to \subseteq Sockets
    BY <1>2, ReceiversConnected DEF SocketInv, TypeOK
  <1>8. received' \subseteq [to : Sockets, n : Nat]
    BY <1>1, <1>3, <1>7 DEF SocketInv, TypeOK
  <1>9. TypeOK'
    BY <1>1, <1>6, <1>8 DEF SocketInv, TypeOK, sockets
  <1>10. IdsOK'
    BY <1>1 DEF SocketInv, IdsOK, sockets
  <1>11. \A x \in sends' : x.n <= Cardinality(sends')
    <2> SUFFICES ASSUME NEW x \in sends' PROVE x.n <= Cardinality(sends')
      OBVIOUS
    <2>1. CASE x = send
      BY <2>1, <1>3
    <2>2. CASE x \in sends
      <3>1. x.n \in Nat /\ x.n <= Cardinality(sends)
        BY <2>2 DEF SocketInv, TypeOK, SendsNumbered, Send
      <3> QED
        BY <3>1, <1>3
    <2> QED
      BY <2>1, <2>2, <1>1
  <1>12. \A r \in received' : r.n <= Cardinality(sends')
    <2> SUFFICES ASSUME NEW r \in received' PROVE r.n <= Cardinality(sends')
      OBVIOUS
    <2>1. CASE r \in received
      <3>1. r.n \in Nat /\ r.n <= Cardinality(sends)
        BY <2>1 DEF SocketInv, TypeOK, SendsNumbered
      <3> QED
        BY <3>1, <1>3
    <2>2. CASE r \notin received
      <3>1. r.n = send.n
        BY <2>2, <1>1
      <3> QED
        BY <3>1, <1>3
    <2> QED
      BY <2>1, <2>2
  <1> QED
    BY <1>3, <1>9, <1>10, <1>11, <1>12 DEF SocketInv, SendsNumbered

(* Every step keeps the invariant. *)
LEMMA NextSocketInv == SocketInv /\ [Next]_vars => SocketInv'
  <1> SUFFICES ASSUME SocketInv, [Next]_vars PROVE SocketInv'
    OBVIOUS
  <1> USE DEF SocketInv
  <1>1. CASE OnModuleInit
    BY <1>1, QuietStep DEF OnModuleInit, TypeOK, IdsOK
  <1>2. ASSUME NEW s \in Sockets, HandleConnection(s) PROVE SocketInv'
    <2>1. lastId \in Nat /\ lastId' = lastId + 2 /\ backendId' = [backendId EXCEPT ![s] = lastId']
      BY <1>2 DEF HandleConnection, TypeOK
    <2>2. TypeOK'
      BY <1>2, <2>1 DEF HandleConnection, TypeOK, NoId
    <2>3. IdsOK'
      <3>1. \A t \in Sockets : backendId[t] \in Nat /\ backendId[t] <= lastId
        BY DEF TypeOK, IdsOK
      <3>2. \A t \in Sockets : backendId'[t] = IF t = s THEN lastId + 2 ELSE backendId[t]
        BY <2>1 DEF TypeOK
      <3> QED
        BY <2>1, <3>1, <3>2 DEF IdsOK
    <2> QED
      BY <1>2, <2>2, <2>3, QuietStep DEF HandleConnection
  <1>3. ASSUME NEW s \in Sockets, HandleDisconnect(s) PROVE SocketInv'
    <2>1. UNCHANGED <<lastId, backendId>>
      BY <1>3, ConstructsKeeps DEF HandleDisconnect, TypeOK
    <2>2. TypeOK' /\ IdsOK'
      BY <1>3, <2>1 DEF HandleDisconnect, TypeOK, IdsOK
    <2> QED
      BY <1>3, <2>2, QuietStep DEF HandleDisconnect
  <1>4. ASSUME NEW client \in seen \cup {NoClient}, Of(client) PROVE SocketInv'
    <2>1. UNCHANGED <<lastId, backendId>>
      BY <1>4, ConstructsKeeps DEF Of
    <2>2. [server |-> sharedServer, client |-> client] \in Adaptor
      BY DEF TypeOK, Adaptor
    <2>3. TypeOK' /\ IdsOK'
      BY <1>4, <2>1, <2>2 DEF Of, TypeOK, IdsOK
    <2> QED
      BY <1>4, <2>3, QuietStep DEF Of
  <1>5. ASSUME NEW adaptor \in adaptors, NEW isAuthorized \in BOOLEAN,
               SetAuthorized(adaptor, isAuthorized)
        PROVE  SocketInv'
    <2>1. TypeOK' /\ IdsOK'
      BY <1>5 DEF SetAuthorized, TypeOK, IdsOK, sockets
    <2> QED
      BY <1>5, <2>1, QuietStep DEF SetAuthorized
  <1>6. ASSUME NEW adaptor \in adaptors, NEW method \in Methods, NEW event \in Events,
               NEW recipient \in Recipients, SendEvent(adaptor, method, event, recipient)
        PROVE  SocketInv'
    BY <1>6, SendEventInv
  <1>7. CASE UNCHANGED vars
    BY <1>7, QuietStep DEF vars, TypeOK, IdsOK
  <1> QED
    BY <1>1, <1>2, <1>3, <1>4, <1>5, <1>6, <1>7 DEF Next

(* Sockets, adaptors and sends keep their types, and a socket has an id from *)
(* the moment the gateway handled its connection.                            *)
THEOREM TypeCorrect == Spec => []TypeOK
  <1>1. SocketInv => TypeOK
    BY DEF SocketInv
  <1> QED
    BY <1>1, InitSocketInv, NextSocketInv, PTL DEF Spec

-----------------------------------------------------------------------------
(* Whatever adaptors are made for a connection, its id stays, and it shares  *)
(* it with no other: the second id that handleConnection generates is the    *)
(* one every later constructor finds.                                        *)
THEOREM OneId == Spec => OneIdPerConnection
  <1> DEFINE Kept == /\ \A s \in connected : backendId'[s] = backendId[s]
                     /\ \A s, t \in seen' : backendId'[s] = backendId'[t] => s = t
  <1>1. SocketInv /\ SocketInv' /\ [Next]_vars => [Kept]_vars
    <2> SUFFICES ASSUME SocketInv, SocketInv', Next PROVE Kept
      OBVIOUS
    <2>1. \A s, t \in seen' : backendId'[s] = backendId'[t] => s = t
      BY DEF SocketInv, TypeOK, IdsOK
    <2>2. \A s \in connected : backendId'[s] = backendId[s]
      <3>1. CASE OnModuleInit
        BY <3>1 DEF OnModuleInit
      <3>2. ASSUME NEW t \in Sockets, HandleConnection(t)
            PROVE  \A s \in connected : backendId'[s] = backendId[s]
        BY <3>2 DEF HandleConnection, SocketInv, TypeOK
      <3>3. ASSUME NEW t \in Sockets, HandleDisconnect(t)
            PROVE  \A s \in connected : backendId'[s] = backendId[s]
        BY <3>3, ConstructsKeeps DEF HandleDisconnect, SocketInv, TypeOK
      <3>4. ASSUME NEW client \in seen \cup {NoClient}, Of(client)
            PROVE  \A s \in connected : backendId'[s] = backendId[s]
        BY <3>4, ConstructsKeeps DEF Of
      <3>5. ASSUME NEW adaptor \in adaptors, NEW isAuthorized \in BOOLEAN,
                   SetAuthorized(adaptor, isAuthorized)
            PROVE  \A s \in connected : backendId'[s] = backendId[s]
        BY <3>5 DEF SetAuthorized, sockets
      <3>6. ASSUME NEW adaptor \in adaptors, NEW method \in Methods, NEW event \in Events,
                   NEW recipient \in Recipients, SendEvent(adaptor, method, event, recipient)
            PROVE  \A s \in connected : backendId'[s] = backendId[s]
        BY <3>6 DEF SendEvent, sockets
      <3> QED
        BY <3>1, <3>2, <3>3, <3>4, <3>5, <3>6 DEF Next
    <2> QED
      BY <2>1, <2>2
  <1> QED
    BY <1>1, InitSocketInv, NextSocketInv, PTL DEF Spec, OneIdPerConnection

-----------------------------------------------------------------------------
(* Whom an event reaches.                                                    *)

(* An event the client of an adaptor is not sent goes where it is addressed. *)
LEMMA ReceiversAddressed ==
  ASSUME NEW adaptor \in Adaptor, NEW method \in Methods, NEW event \in Events,
         NEW recipient \in Recipients, NEW s \in Receivers(method, adaptor, event, recipient)
  PROVE  \/ s \in recipient.ids
         \/ method = "sendEventToClient" /\ adaptor.client = s
         \/ adaptor.server /\ recipient.kind # "null" /\ recipient.ids = {}
  BY DEF Receivers, FromServer, FromClient, FromEvents, Reached, Methods

(* No event reaches a client that it does not name, unless it comes from an  *)
(* adaptor of that client, or is a server's event for everybody.             *)
THEOREM ReachesAddressed == Spec => []ReachesOnlyAddressed
  <1>1. Init => ReachesOnlyAddressed
    BY DEF Init, ReachesOnlyAddressed
  <1>2. SocketInv /\ ReachesOnlyAddressed /\ [Next]_vars => ReachesOnlyAddressed'
    <2> SUFFICES ASSUME SocketInv, ReachesOnlyAddressed, [Next]_vars
                 PROVE  ReachesOnlyAddressed'
      OBVIOUS
    <2>1. CASE UNCHANGED <<sends, received>>
      BY <2>1 DEF ReachesOnlyAddressed
    <2>2. ASSUME NEW adaptor \in adaptors, NEW method \in Methods, NEW event \in Events,
                 NEW recipient \in Recipients, SendEvent(adaptor, method, event, recipient)
          PROVE  ReachesOnlyAddressed'
      <3> DEFINE send == [n |-> Cardinality(sends) + 1, method |-> method, adaptor |-> adaptor,
                   recipient |-> recipient, to |-> recipient.ids \cap connected,
                   answer |-> AnswerOf(method, adaptor, event, recipient)]
                 to == Receivers(method, adaptor, event, recipient)
      <3>1. /\ sends' = sends \cup {send}
            /\ received' = received \cup {[to |-> s, n |-> send.n] : s \in to}
        BY <2>2 DEF SendEvent
      <3>2. adaptor \in Adaptor
        BY DEF SocketInv, TypeOK
      <3> SUFFICES ASSUME NEW r \in received'
                   PROVE  \E x \in sends' :
                            /\ x.n = r.n
                            /\ \/ r.to \in x.recipient.ids
                               \/ x.method = "sendEventToClient" /\ x.adaptor.client = r.to
                               \/ /\ x.adaptor.server
                                  /\ x.recipient.kind # "null" /\ x.recipient.ids = {}
        BY DEF ReachesOnlyAddressed
      <3>3. CASE r \in received
        BY <3>1, <3>3 DEF ReachesOnlyAddressed
      <3>4. CASE r \notin received
        <4>1. PICK s \in to : r = [to |-> s, n |-> send.n]
          BY <3>1, <3>4
        <4>2. \/ s \in recipient.ids
              \/ method = "sendEventToClient" /\ adaptor.client = s
              \/ adaptor.server /\ recipient.kind # "null" /\ recipient.ids = {}
          BY <3>2, ReceiversAddressed
        <4>3. send \in sends'
          BY <3>1
        <4> WITNESS send \in sends'
        <4> QED
          BY <4>1, <4>2
      <3> QED
        BY <3>3, <3>4
    <2> QED
      BY <2>1, <2>2 DEF Next, vars, OnModuleInit, HandleConnection, HandleDisconnect, Of,
                        SetAuthorized
  <1> QED
    BY <1>1, <1>2, InitSocketInv, NextSocketInv, PTL DEF Spec

(* What a server answers `true` for has reached all the connected clients it  *)
(* names, and an adaptor that was given neither server nor client sends       *)
(* nothing, whenever it was made.                                             *)
THEOREM AnswersHold == Spec => []AnsweredMeansReceived
  <1>1. Init => AnsweredMeansReceived
    BY DEF Init, AnsweredMeansReceived
  <1>2. SocketInv /\ AnsweredMeansReceived /\ [Next]_vars => AnsweredMeansReceived'
    <2> SUFFICES ASSUME SocketInv, AnsweredMeansReceived, [Next]_vars
                 PROVE  AnsweredMeansReceived'
      OBVIOUS
    <2>1. CASE UNCHANGED <<sends, received>>
      BY <2>1 DEF AnsweredMeansReceived
    <2>2. ASSUME NEW adaptor \in adaptors, NEW method \in Methods, NEW event \in Events,
                 NEW recipient \in Recipients, SendEvent(adaptor, method, event, recipient)
          PROVE  AnsweredMeansReceived'
      <3> DEFINE send == [n |-> Cardinality(sends) + 1, method |-> method, adaptor |-> adaptor,
                   recipient |-> recipient, to |-> recipient.ids \cap connected,
                   answer |-> AnswerOf(method, adaptor, event, recipient)]
                 to == Receivers(method, adaptor, event, recipient)
                 Holds(x) ==
                   /\ x.method = "sendEventToServer" /\ x.answer =>
                        \A s \in x.to : [to |-> s, n |-> x.n] \in received'
                   /\ ~x.adaptor.server /\ x.adaptor.client = NoClient =>
                        ~x.answer /\ \A r \in received' : r.n # x.n
      <3>1. /\ sends' = sends \cup {send}
            /\ received' = received \cup {[to |-> s, n |-> send.n] : s \in to}
        BY <2>2 DEF SendEvent
      <3>2. adaptor \in Adaptor /\ Cardinality(sends) \in Nat
        BY FS_CardinalityType DEF SocketInv, TypeOK, SendsNumbered
      <3>3. ASSUME NEW x \in sends PROVE Holds(x)
        <4>1. x.n \in Nat /\ x.n <= Cardinality(sends)
          BY DEF SocketInv, TypeOK, SendsNumbered, Send
        <4>2. \A r \in received' : r \in received \/ r.n # x.n
          BY <3>1, <3>2, <4>1
        <4> QED
          BY <3>1, <4>2 DEF AnsweredMeansReceived
      <3>4. Holds(send)
        <4>1. \A r \in received : r.n # send.n
          BY <3>2 DEF SocketInv, TypeOK, SendsNumbered
        <4>2. ASSUME method = "sendEventToServer", AnswerOf(method, adaptor, event, recipient)
              PROVE  recipient.ids \cap connected \subseteq to
          BY <4>2 DEF AnswerOf, Receivers, FromServer, Reached
        <4>3. ASSUME ~adaptor.server, adaptor.client = NoClient
              PROVE  to = {} /\ ~AnswerOf(method, adaptor, event, recipient)
          BY <4>3 DEF AnswerOf, Receivers, FromServer, FromClient, FromEvents, Methods
        <4>4. send.method = "sendEventToServer" /\ send.answer =>
                \A s \in send.to : [to |-> s, n |-> send.n] \in received'
          BY <3>1, <4>2
        <4>5. ~send.adaptor.server /\ send.adaptor.client = NoClient =>
                ~send.answer /\ \A r \in received' : r.n # send.n
          BY <3>1, <4>1, <4>3
        <4> QED
          BY <4>4, <4>5
      <3>5. \A x \in sends' : Holds(x)
        BY <3>1, <3>3, <3>4
      <3> HIDE DEF send, to
      <3> QED
        BY <3>5 DEF AnsweredMeansReceived
    <2> QED
      BY <2>1, <2>2 DEF Next, vars, OnModuleInit, HandleConnection, HandleDisconnect, Of,
                        SetAuthorized
  <1> QED
    BY <1>1, <1>2, InitSocketInv, NextSocketInv, PTL DEF Spec
=============================================================================
