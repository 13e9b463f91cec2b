-------------------------- MODULE GoogleServicesProofs --------------------------
(***************************************************************************)
(* Proofs about GoogleServices: types, whose calendar a removal of an      *)
(* attendee writes and what it undoes there, and which emails leave.       *)
(***************************************************************************)
EXTENDS GoogleServices, TLAPS

-----------------------------------------------------------------------------
(* The inductive invariant.  Between its two calls a removal holds a list    *)
(* that the event still has, unless a request it overlaps wrote another or   *)
(* deleted the event.                                                        *)

(* Every account has a calendar and a mailbox. *)
EveryAccount == DOMAIN events = Accounts /\ DOMAIN messages = Accounts

(* Numbers are given out in order, and a removal names an older event. *)
Numbered == \A c \in Calls : Active(c) => call[c].n <= served /\ call[c].event < call[c].n

AllOverlap == \A c, d \in Calls : c # d /\ Active(c) /\ Active(d) =>
                {call[c].n, call[d].n} \in overlapped

DeletedDuring(n, account, event) ==
  \E d \in deleted : d.event = event /\ d.account = account /\ {d.by, n} \in overlapped

ReadOK(local) ==
  IF local.event \in DOMAIN events[local.account]
  THEN \/ events[local.account][local.event].attendees = local.read
       \/ {events[local.account][local.event].by, local.n} \in overlapped
  ELSE DeletedDuring(local.n, local.account, local.event)

RemovalInv ==
  /\ TypeOK /\ EveryAccount /\ Numbered /\ AllOverlap
  /\ \A c \in Calls : Active(c) => ReadOK(call[c])

-----------------------------------------------------------------------------
(* A request that is being served is a removal. *)
LEMMA ActiveRemoving ==
  ASSUME TypeOK, NEW c \in Calls, Active(c)
  PROVE  call[c] \in Removing
  BY DEF TypeOK, Active, Free, Local, Idle, Removing, Answered

LEMMA AnswerType ==
  ASSUME TypeOK, NEW c \in Calls, NEW outcome, Replies(c, outcome) \/ Answers(c, "error")
  PROVE  /\ call' \in [Calls -> Local]
         /\ call'[c].pc = "done"
         /\ \A d \in Calls : d # c => call'[d] = call[d]
  <1>1. \A status \in {"ok", "error"} : [pc |-> "done", status |-> status] \in Local
    BY DEF Local, Answered
  <1>2. PICK status \in {"ok", "error"} : Answers(c, status)
    BY DEF Replies
  <1> QED
    BY <1>1, <1>2 DEF Answers, Becomes, TypeOK

LEMMA FaultsType ==
  ASSUME faults \in Nat, NoFault \/ Fault
  PROVE  faults' \in Nat /\ faults' >= faults
  BY DEF NoFault, Fault

LEMMA StartsType ==
  ASSUME TypeOK, Starts
  PROVE  served' \in Nat /\ served' = served + 1 /\ overlapped' \subseteq SUBSET Nat
  <1>1. served' \in Nat /\ served' = served + 1
    BY DEF Starts, TypeOK
  <1>2. \A d \in Calls : Active(d) => call[d].n \in Nat
    BY ActiveRemoving DEF Removing
  <1>3. ASSUME NEW pair \in overlapped', pair \notin overlapped
        PROVE  \E d \in Calls : Active(d) /\ pair = {served', call[d].n}
    BY <1>3 DEF Starts
  <1>4. \A pair \in overlapped' : pair \in SUBSET Nat
    BY <1>1, <1>2, <1>3 DEF TypeOK
  <1> QED
    BY <1>1, <1>4

(* What a write of the calendar leaves in it. *)
LEMMA StoresEvent ==
  ASSUME EveryAccount, NEW account \in Accounts, NEW event, NEW value, NEW outcome,
         Stores(account, event, value, outcome)
  PROVE  /\ DOMAIN events' = Accounts
         /\ \A a \in Accounts :
              \/ events'[a] = events[a]
              \/ /\ a = account
                 /\ DOMAIN events'[a] = DOMAIN events[a] \cup {event}
                 /\ events'[a][event] = value
                 /\ \A id \in DOMAIN events[a] : id # event => events'[a][id] = events[a][id]
  BY DEF Stores, EveryAccount

LEMMA StoresType ==
  ASSUME TypeOK, EveryAccount, NEW account \in Accounts, NEW event \in Ids, NEW value \in Event,
         NEW outcome, Stores(account, event, value, outcome)
  PROVE  \A a \in Accounts : \A id \in DOMAIN events'[a] : id \in Ids /\ events'[a][id] \in Event
  <1> SUFFICES ASSUME NEW a \in Accounts, NEW id \in DOMAIN events'[a]
               PROVE  id \in Ids /\ events'[a][id] \in Event
    OBVIOUS
  <1> QED
    BY StoresEvent DEF TypeOK

LEMMA ChangedType ==
  ASSUME TypeOK, NEW event \in Event, served' \in Nat, NEW value \in Changed(event)
  PROVE  /\ value \in Event
         /\ value.by = served' \/ (value.by = event.by /\ value.attendees = event.attendees)
  <1>1. CASE \E attendees \in SUBSET People : value = UpdateEvent(event, attendees)
    BY <1>1 DEF UpdateEvent, Event
  <1>2. CASE value = AddReminder(event)
    BY <1>2 DEF AddReminder, Event
  <1>3. CASE \E attendee \in People : value = AddAttendee(event, attendee)
    BY <1>3 DEF AddAttendee, Event
  <1> QED
    BY <1>1, <1>2, <1>3 DEF Changed

-----------------------------------------------------------------------------
(* Types. *)

LEMMA ArriveClients ==
  ASSUME TypeOK, NEW c \in Calls, Arrive(c)
  PROVE  /\ Starts /\ Free(c)
         /\ {calendar', gmail'} \subseteq Accounts \cup {Nobody}
         /\ UNCHANGED messages \/ UNCHANGED <<events, deleted>>
  <1>1. /\ Starts /\ Free(c)
        /\ \E account \in Accounts :
             GetCalendarResource(c, account) \/ GetMailResource(c, account)
    BY DEF Arrive, ReadCalendar, CreateEvent, ChangeEvent, RemoveAttendee, SendMessage, ReadMail,
           ChangeMessages, GetCalendarResource, GetMailResource
  <1> QED
    BY <1>1 DEF GetCalendarResource, GetMailResource, TypeOK

LEMMA CalendarType ==
  ASSUME TypeOK, EveryAccount, Starts, NEW c \in Calls,
         ReadCalendar(c) \/ CreateEvent(c) \/ ChangeEvent(c) \/ RemoveAttendee(c)
  PROVE  /\ DOMAIN events' = Accounts
         /\ \A a \in Accounts : \A id \in DOMAIN events'[a] : id \in Ids /\ events'[a][id] \in Event
         /\ call' \in [Calls -> Local]
         /\ faults' \in Nat
  <1>1. served' \in Nat /\ served' = served + 1
    BY StartsType
  <1>2. CASE ReadCalendar(c)
    <2>1. call' \in [Calls -> Local]
      BY <1>2, AnswerType DEF ReadCalendar
    <2> QED
      BY <1>2, <2>1, FaultsType DEF ReadCalendar, Reports, TypeOK, EveryAccount
  <1>3. CASE CreateEvent(c)
    <2>1. PICK account \in Accounts, attendees \in SUBSET People, outcome \in Outcomes :
            /\ Reports(outcome)
            /\ Stores(account, served', [attendees |-> attendees, reminder |-> 0, by |-> served'],
                      outcome)
            /\ Replies(c, outcome)
      BY <1>3 DEF CreateEvent
    <2>2. [attendees |-> attendees, reminder |-> 0, by |-> served'] \in Event
      BY <1>1 DEF Event
    <2>3. call' \in [Calls -> Local]
      BY <2>1, AnswerType
    <2> QED
      BY <1>1, <2>1, <2>2, <2>3, StoresEvent, StoresType, FaultsType DEF Reports, TypeOK, Ids
  <1>4. CASE ChangeEvent(c)
    <2>1. PICK account \in Accounts, event \in 0..served, outcome \in Outcomes :
            /\ Replies(c, outcome)
            /\ \/ NoFault /\ UNCHANGED events
               \/ /\ event \in DOMAIN events[account]
                  /\ Reports(outcome)
                  /\ \/ \E value \in Changed(events[account][event]) :
                          Stores(account, event, value, outcome)
                     \/ events' = [events EXCEPT ![account] = Restrict(@, DOMAIN @ \ {event})]
      BY <1>4 DEF ChangeEvent
    <2>2. call' \in [Calls -> Local]
      BY <2>1, AnswerType
    <2>3. faults' \in Nat
      BY <2>1, FaultsType DEF Reports, TypeOK
    <2>4. CASE UNCHANGED events
      BY <2>2, <2>3, <2>4 DEF TypeOK, EveryAccount
    <2>5. CASE /\ event \in DOMAIN events[account]
               /\ \E value \in Changed(events[account][event]) :
                    Stores(account, event, value, outcome)
      <3>1. PICK value \in Changed(events[account][event]) : Stores(account, event, value, outcome)
        BY <2>5
      <3>2. value \in Event /\ event \in Ids
        BY <1>1, <2>5, ChangedType DEF TypeOK
      <3> QED
        BY <2>2, <2>3, <3>1, <3>2, StoresEvent, StoresType
    <2>6. CASE events' = [events EXCEPT ![account] = Restrict(@, DOMAIN @ \ {event})]
      BY <2>2, <2>3, <2>6 DEF TypeOK, EveryAccount, Restrict
    <2> QED
      BY <2>1, <2>4, <2>5, <2>6
  <1>5. CASE RemoveAttendee(c)
    <2>1. PICK account \in Accounts, event \in 0..served, attendee \in People, ok \in BOOLEAN :
            /\ IF ok THEN NoFault ELSE Fault
            /\ \/ /\ event \in DOMAIN events[account]
                  /\ Becomes(c, [pc |-> "removeAttendee", n |-> served', account |-> account,
                                 event |-> event, attendee |-> attendee,
                                 read |-> events[account][event].attendees])
               \/ Answers(c, "error")
            /\ UNCHANGED events
      BY <1>5 DEF RemoveAttendee
    <2>2. event \in DOMAIN events[account] =>
            [pc |-> "removeAttendee", n |-> served', account |-> account, event |-> event,
             attendee |-> attendee, read |-> events[account][event].attendees] \in Local
      BY <1>1 DEF TypeOK, Event, Local, Removing, Ids
    <2>3. call' \in [Calls -> Local]
      BY <2>1, <2>2, AnswerType DEF Becomes, TypeOK
    <2> QED
      BY <2>1, <2>3, FaultsType DEF TypeOK, EveryAccount
  <1> QED
    BY <1>2, <1>3, <1>4, <1>5

LEMMA MailType ==
  ASSUME TypeOK, EveryAccount, Starts, NEW c \in Calls,
         SendMessage(c) \/ ReadMail(c) \/ ChangeMessages(c)
  PROVE  /\ DOMAIN messages' = Accounts
         /\ \A a \in Accounts : \A id \in DOMAIN messages'[a] :
              id \in Ids /\ messages'[a][id] \in Message
         /\ call' \in [Calls -> Local]
         /\ faults' \in Nat
  <1>1. served' \in Nat /\ served' = served + 1
    BY StartsType
  <1>2. \E outcome : Replies(c, outcome) /\ (Reports(outcome) \/ NoFault)
    BY DEF SendMessage, ReadMail, ChangeMessages
  <1>3. call' \in [Calls -> Local] /\ faults' \in Nat
    BY <1>2, AnswerType, FaultsType DEF Reports, TypeOK
  <1>4. CASE UNCHANGED messages
    BY <1>3, <1>4 DEF TypeOK, EveryAccount
  <1>5. CASE SendMessage(c) /\ messages' # messages
    <2>1. PICK account \in Accounts, email \in EmailMessage :
            messages' = [messages EXCEPT ![account] =
                           [id \in DOMAIN @ \cup {served'} |->
                              IF id = served' THEN [email |-> email, labels |-> {}] ELSE @[id]]]
      BY <1>5 DEF SendMessage
    <2>2. [email |-> email, labels |-> {}] \in Message
      BY DEF Message
    <2> QED
      BY <1>1, <1>3, <2>1, <2>2 DEF TypeOK, EveryAccount, Ids
  <1>6. CASE ChangeMessages(c) /\ messages' # messages
    <2>1. PICK account \in Accounts, ids \in (SUBSET (0..served)) \ {{}}, outcome \in Outcomes :
            \/ messages' = IF Made(outcome)
                           THEN [messages EXCEPT ![account] = Restrict(@, DOMAIN @ \ ids)]
                           ELSE messages
            \/ \E add, remove \in SUBSET Labels :
                 messages' = IF Made(outcome)
                             THEN [messages EXCEPT ![account] =
                                     [id \in DOMAIN @ |->
                                        IF id \in ids THEN Relabelled(@[id], add, remove)
                                                      ELSE @[id]]]
                             ELSE messages
            \/ UNCHANGED messages
      BY <1>6 DEF ChangeMessages
    <2>2. \A message \in Message : \A add, remove \in SUBSET Labels :
            Relabelled(message, add, remove) \in Message
      BY DEF Relabelled, Message
    <2>3. CASE messages' = [messages EXCEPT ![account] = Restrict(@, DOMAIN @ \ ids)]
      BY <1>3, <2>3 DEF TypeOK, EveryAccount, Restrict
    <2>4. ASSUME NEW add \in SUBSET Labels, NEW remove \in SUBSET Labels,
                 messages' = [messages EXCEPT ![account] =
                                [id \in DOMAIN @ |->
                                   IF id \in ids THEN Relabelled(@[id], add, remove) ELSE @[id]]]
          PROVE  /\ DOMAIN messages' = Accounts
                 /\ \A a \in Accounts : \A id \in DOMAIN messages'[a] :
                      id \in Ids /\ messages'[a][id] \in Message
      BY <2>2, <2>4 DEF TypeOK, EveryAccount
    <2> QED
      BY <1>3, <1>6, <2>1, <2>3, <2>4
  <1> QED
    BY <1>4, <1>5, <1>6 DEF ReadMail

(* The second call of a removal: it writes the list it read, into the event  *)
(* it read it from, or nothing.                                              *)
LEMMA PatchWrites ==
  ASSUME TypeOK, NEW c \in Calls, PatchAttendees(c)
  PROVE  \E outcome \in Outcomes :
           LET account == call[c].account
               event == call[c].event
           IN
           /\ Replies(c, outcome)
           /\ \/ /\ event \in DOMAIN events[account]
                 /\ Reports(outcome)
                 /\ Stores(account, event, [events[account][event] EXCEPT
                                              !.attendees = call[c].read \ {call[c].attendee},
                                              !.by = call[c].n], outcome)
              \/ /\ event \notin DOMAIN events[account] /\ NoFault
                 /\ UNCHANGED events
  BY DEF PatchAttendees, AccountOfCall, UpdatedAttendees

LEMMA PatchType ==
  ASSUME TypeOK, EveryAccount, NEW c \in Calls, PatchAttendees(c)
  PROVE  TypeOK' /\ EveryAccount'
  <1>1. PICK outcome \in Outcomes :
          LET account == call[c].account
              event == call[c].event
          IN
          /\ Replies(c, outcome)
          /\ \/ /\ event \in DOMAIN events[account]
                /\ Reports(outcome)
                /\ Stores(account, event, [events[account][event] EXCEPT
                                             !.attendees = call[c].read \ {call[c].attendee},
                                             !.by = call[c].n], outcome)
             \/ /\ event \notin DOMAIN events[account] /\ NoFault
                /\ UNCHANGED events
    BY PatchWrites
  <1>2. PICK local \in Removing : local = call[c]
    BY ActiveRemoving DEF PatchAttendees, Active, Free
  <1>3. local.account \in Accounts /\ local.event \in Ids
    BY <1>2 DEF Removing
  <1>4. local.event \in DOMAIN events[local.account] =>
          [events[local.account][local.event] EXCEPT
             !.attendees = local.read \ {local.attendee}, !.by = local.n] \in Event
    <2>1. local.n \in Nat /\ local.read \ {local.attendee} \in SUBSET People
      BY <1>2 DEF Removing
    <2>2. \A event \in Event :
            [event EXCEPT !.attendees = local.read \ {local.attendee}, !.by = local.n] \in Event
      BY <2>1 DEF Event
    <2> QED
      BY <1>3, <2>2 DEF TypeOK
  <1>5. call' \in [Calls -> Local] /\ faults' \in Nat
    BY <1>1, AnswerType, FaultsType DEF Reports, TypeOK
  <1>6. /\ DOMAIN events' = Accounts
        /\ \A a \in Accounts : \A id \in DOMAIN events'[a] : id \in Ids /\ events'[a][id] \in Event
    BY <1>1, <1>2, <1>3, <1>4, StoresEvent, StoresType DEF TypeOK, EveryAccount
  <1> QED
    BY <1>5, <1>6 DEF PatchAttendees, TypeOK, EveryAccount

LEMMA ArriveType ==
  ASSUME TypeOK, EveryAccount, NEW c \in Calls, Arrive(c)
  PROVE  TypeOK' /\ EveryAccount'
  <1>1. /\ Starts
        /\ {calendar', gmail'} \subseteq Accounts \cup {Nobody}
    BY ArriveClients
  <1>2. served' \in Nat /\ overlapped' \subseteq SUBSET Nat
    BY <1>1, StartsType
  <1>3. CASE ReadCalendar(c) \/ CreateEvent(c) \/ ChangeEvent(c) \/ RemoveAttendee(c)
    <2>1. UNCHANGED messages
      BY <1>3 DEF ReadCalendar, CreateEvent, ChangeEvent, RemoveAttendee, GetCalendarResource
    <2> QED
      BY <1>1, <1>2, <1>3, <2>1, CalendarType DEF TypeOK, EveryAccount
  <1>4. CASE SendMessage(c) \/ ReadMail(c) \/ ChangeMessages(c)
    <2>1. UNCHANGED events
      BY <1>4 DEF SendMessage, ReadMail, ChangeMessages, GetMailResource
    <2> QED
      BY <1>1, <1>2, <1>4, <2>1, MailType DEF TypeOK, EveryAccount
  <1> QED
    BY <1>3, <1>4 DEF Arrive

-----------------------------------------------------------------------------
(* What a request that arrives does to an event that was there: it leaves    *)
(* list and writer alone, writes a list in its own name, or deletes it.      *)

LEMMA ArriveWrites ==
  ASSUME TypeOK, EveryAccount, NEW c \in Calls, Arrive(c),
         NEW a \in Accounts, NEW e \in 0..served
  PROVE  /\ deleted \subseteq deleted'
         /\ IF e \in DOMAIN events[a]
            THEN IF e \in DOMAIN events'[a]
                 THEN \/ events'[a][e].by = served'
                      \/ /\ events'[a][e].by = events[a][e].by
                         /\ events'[a][e].attendees = events[a][e].attendees
                 ELSE \E d \in deleted' : d.event = e /\ d.account = a /\ d.by = served'
            ELSE e \notin DOMAIN events'[a]
  <1>1. Starts /\ served' \in Nat /\ served' = served + 1
    BY ArriveClients, StartsType
  <1>2. CASE UNCHANGED <<events, deleted>>
    BY <1>2
  <1>3. CASE CreateEvent(c)
    <2>1. PICK account \in Accounts, attendees \in SUBSET People, outcome \in Outcomes :
            Stores(account, served', [attendees |-> attendees, reminder |-> 0, by |-> served'],
                   outcome)
      BY <1>3 DEF CreateEvent
    <2>2. e # served'
      BY <1>1 DEF TypeOK
    <2> QED
      BY <1>3, <2>1, <2>2, StoresEvent DEF CreateEvent
  <1>4. CASE ChangeEvent(c)
    <2>1. PICK account \in Accounts, event \in 0..served, outcome \in Outcomes :
            \/ UNCHANGED <<events, deleted>>
            \/ /\ event \in DOMAIN events[account]
               /\ \/ \E value \in Changed(events[account][event]) :
                       Stores(account, event, value, outcome) /\ UNCHANGED deleted
                  \/ /\ events' = [events EXCEPT ![account] = Restrict(@, DOMAIN @ \ {event})]
                     /\ deleted' = deleted \cup
                          {[event |-> event, account |-> account, by |-> served']}
      BY <1>4 DEF ChangeEvent
    <2>2. ASSUME event \in DOMAIN events[account],
                 NEW value \in Changed(events[account][event]),
                 Stores(account, event, value, outcome), UNCHANGED deleted
          PROVE  /\ IF e \in DOMAIN events[a]
                    THEN /\ e \in DOMAIN events'[a]
                         /\ \/ events'[a][e].by = served'
                            \/ /\ events'[a][e].by = events[a][e].by
                               /\ events'[a][e].attendees = events[a][e].attendees
                    ELSE e \notin DOMAIN events'[a]
      <3>1. \/ value.by = served'
            \/ value.by = events[account][event].by
               /\ value.attendees = events[account][event].attendees
        BY <1>1, <2>2, ChangedType DEF TypeOK
      <3>2. \/ events'[a] = events[a]
            \/ /\ a = account
               /\ DOMAIN events'[a] = DOMAIN events[a] \cup {event}
               /\ events'[a][event] = value
               /\ \A id \in DOMAIN events[a] : id # event => events'[a][id] = events[a][id]
        BY <2>2, StoresEvent
      <3> QED
        BY <2>2, <3>1, <3>2
    <2>3. ASSUME events' = [events EXCEPT ![account] = Restrict(@, DOMAIN @ \ {event})],
                 deleted' = deleted \cup
                   {[event |-> event, account |-> account, by |-> served']}
          PROVE  IF e \in DOMAIN events[a]
                 THEN IF e \in DOMAIN events'[a]
                      THEN events'[a][e] = events[a][e]
                      ELSE \E d \in deleted' : d.event = e /\ d.account = a /\ d.by = served'
                 ELSE e \notin DOMAIN events'[a]
      <3>1. a # account => events'[a] = events[a]
        BY <2>3 DEF EveryAccount
      <3>2. a = account => /\ DOMAIN events'[a] = DOMAIN events[a] \ {event}
                           /\ \A id \in DOMAIN events'[a] : events'[a][id] = events[a][id]
        BY <2>3 DEF EveryAccount, Restrict
      <3>3. \E d \in deleted' : d.event = event /\ d.account = account /\ d.by = served'
        <4> DEFINE x == [event |-> event, account |-> account, by |-> served']
        <4>1. x \in deleted' /\ x.event = event /\ x.account = account /\ x.by = served'
          BY <2>3
        <4> QED
          BY <4>1
      <3>4. CASE e \in DOMAIN events'[a]
        BY <3>1, <3>2, <3>4
      <3>5. CASE e \notin DOMAIN events'[a] /\ e \in DOMAIN events[a]
        <4>1. a = account /\ e = event
          BY <3>1, <3>2, <3>5
        <4> QED
          BY <3>3, <3>5, <4>1
      <3> QED
        BY <3>4, <3>5
    <2> QED
      BY <1>2, <2>1, <2>2, <2>3
  <1> QED
    BY <1>2, <1>3, <1>4
    DEF Arrive, ReadCalendar, RemoveAttendee, SendMessage, ReadMail, ChangeMessages,
        GetMailResource

(* A request that arrives and goes on is a removal that has read its list. *)
LEMMA ArriveRemoves ==
  ASSUME TypeOK, NEW c \in Calls, Arrive(c)
  PROVE  /\ \A d \in Calls : d # c => call'[d] = call[d]
         /\ Active(c)' =>
              /\ UNCHANGED <<events, deleted>>
              /\ call'[c].n = served' /\ call'[c].event \in 0..served
              /\ call'[c].event \in DOMAIN events[call'[c].account]
              /\ call'[c].read = events[call'[c].account][call'[c].event].attendees
  <1>1. CASE \E outcome : Replies(c, outcome)
    BY <1>1, AnswerType DEF Active, Free
  <1>2. CASE RemoveAttendee(c)
    <2>1. PICK account \in Accounts, event \in 0..served, attendee \in People :
            \/ /\ event \in DOMAIN events[account]
               /\ Becomes(c, [pc |-> "removeAttendee", n |-> served', account |-> account,
                              event |-> event, attendee |-> attendee,
                              read |-> events[account][event].attendees])
            \/ Answers(c, "error")
      BY <1>2 DEF RemoveAttendee
    <2>2. CASE Answers(c, "error")
      BY <2>2, AnswerType DEF Active, Free
    <2>3. CASE /\ event \in DOMAIN events[account]
               /\ Becomes(c, [pc |-> "removeAttendee", n |-> served', account |-> account,
                              event |-> event, attendee |-> attendee,
                              read |-> events[account][event].attendees])
      BY <1>2, <2>3 DEF RemoveAttendee, Becomes, TypeOK
    <2> QED
      BY <2>1, <2>2, <2>3
  <1> QED
    BY <1>1, <1>2
    DEF Arrive, ReadCalendar, CreateEvent, ChangeEvent, SendMessage, ReadMail, ChangeMessages

LEMMA ArriveInv ==
  ASSUME RemovalInv, NEW c \in Calls, Arrive(c)
  PROVE  RemovalInv'
  <1> USE DEF RemovalInv
  <1>1. TypeOK' /\ EveryAccount'
    BY ArriveType
  <1>2. Starts /\ served' \in Nat /\ served' = served + 1 /\ served \in Nat
    BY ArriveClients, StartsType DEF TypeOK
  <1>3. overlapped \subseteq overlapped'
    BY <1>2 DEF Starts
  <1>4. \A d \in Calls : Active(d) => {served', call[d].n} \in overlapped'
    BY <1>2 DEF Starts
  <1>5. /\ \A d \in Calls : d # c => call'[d] = call[d]
        /\ Active(c)' =>
              /\ UNCHANGED <<events, deleted>>
              /\ call'[c].n = served' /\ call'[c].event \in 0..served
              /\ call'[c].event \in DOMAIN events[call'[c].account]
              /\ call'[c].read = events[call'[c].account][call'[c].event].attendees
    BY ArriveRemoves
  <1>6. \A d \in Calls : d # c /\ Active(d)' => Active(d)
    BY <1>5 DEF Active, Free
  <1>7. Numbered'
    <2> SUFFICES ASSUME NEW d \in Calls, Active(d)'
                 PROVE  call'[d].n <= served' /\ call'[d].event < call'[d].n
      BY DEF Numbered
    <2>1. CASE d = c
      BY <1>2, <1>5, <2>1
    <2>2. CASE d # c
      <3>1. call[d].n \in Nat /\ call'[d] = call[d] /\ Active(d)
        BY <1>5, <1>6, <2>2, ActiveRemoving DEF Removing
      <3> QED
        BY <1>2, <3>1 DEF Numbered
    <2> QED
      BY <2>1, <2>2
  <1>8. AllOverlap'
    <2> SUFFICES ASSUME NEW d \in Calls, NEW f \in Calls, d # f, Active(d)', Active(f)'
                 PROVE  {call'[d].n, call'[f].n} \in overlapped'
      BY DEF AllOverlap
    <2>1. CASE d = c
      BY <1>4, <1>5, <1>6, <2>1
    <2>2. CASE f = c
      <3>1. {served', call[d].n} \in overlapped'
        BY <1>4, <1>6, <2>2
      <3>2. {served', call[d].n} = {call'[d].n, call'[f].n}
        BY <1>5, <2>2
      <3> QED
        BY <3>1, <3>2
    <2>3. CASE d # c /\ f # c
      BY <1>3, <1>5, <1>6, <2>3 DEF AllOverlap
    <2> QED
      BY <2>1, <2>2, <2>3
  <1>9. ASSUME NEW d \in Calls, Active(d)' PROVE ReadOK(call[d])'
    <2>1. CASE d = c
      BY <1>5, <1>9, <2>1 DEF ReadOK
    <2>2. CASE d # c
      <3>1. Active(d) /\ call'[d] = call[d]
        BY <1>5, <1>6, <1>9, <2>2
      <3>2. PICK local \in Removing : local = call[d]
        BY <3>1, ActiveRemoving
      <3>3. local.account \in Accounts /\ local.event \in Nat /\ local.n \in Nat
        BY <3>2 DEF Removing, Ids
      <3>4. local.event \in 0..served
        BY <1>2, <3>1, <3>2, <3>3 DEF Numbered
      <3>5. {served', local.n} \in overlapped' /\ ReadOK(local)
        BY <1>4, <3>1, <3>2
      <3>6. /\ deleted \subseteq deleted'
            /\ IF local.event \in DOMAIN events[local.account]
               THEN IF local.event \in DOMAIN events'[local.account]
                    THEN \/ events'[local.account][local.event].by = served'
                         \/ /\ events'[local.account][local.event].by
                                   = events[local.account][local.event].by
                            /\ events'[local.account][local.event].attendees
                                   = events[local.account][local.event].attendees
                    ELSE \E x \in deleted' : x.event = local.event /\ x.account = local.account
                                            /\ x.by = served'
               ELSE local.event \notin DOMAIN events'[local.account]
        BY <3>3, <3>4, ArriveWrites
      <3>7. ReadOK(local)'
        BY <1>3, <3>5, <3>6 DEF ReadOK, DeletedDuring
      <3> QED
        BY <3>1, <3>2, <3>7 DEF ReadOK, DeletedDuring
    <2> QED
      BY <2>1, <2>2
  <1> QED
    BY <1>1, <1>7, <1>8, <1>9

LEMMA PatchInv ==
  ASSUME RemovalInv, NEW c \in Calls, PatchAttendees(c)
  PROVE  RemovalInv'
  <1> USE DEF RemovalInv
  <1>1. TypeOK' /\ EveryAccount' /\ UNCHANGED <<served, deleted, overlapped>>
    BY PatchType DEF PatchAttendees
  <1>2. Active(c)
    BY DEF PatchAttendees, Active, Free
  <1>3. PICK local \in Removing : local = call[c]
    BY <1>2, ActiveRemoving
  <1>4. PICK outcome \in Outcomes :
          /\ Replies(c, outcome)
          /\ \/ Stores(local.account, local.event,
                       [events[local.account][local.event] EXCEPT
                          !.attendees = local.read \ {local.attendee}, !.by = local.n], outcome)
                /\ local.event \in DOMAIN events[local.account]
             \/ UNCHANGED events
    BY <1>3, PatchWrites
  <1>5. /\ call'[c].pc = "done"
        /\ \A d \in Calls : d # c => call'[d] = call[d]
    BY <1>4, AnswerType
  <1>6. \A d \in Calls : Active(d)' => d # c /\ Active(d) /\ call'[d] = call[d]
    BY <1>5 DEF Active, Free
  <1>7. Numbered' /\ AllOverlap'
    BY <1>1, <1>6 DEF Numbered, AllOverlap
  <1>8. \A a \in Accounts : \A id :
          id \in DOMAIN events[a] =>
            /\ id \in DOMAIN events'[a]
            /\ events'[a][id] = events[a][id] \/ events'[a][id].by = local.n
    <2>1. local.account \in Accounts
      BY <1>3 DEF Removing
    <2>2. CASE UNCHANGED events
      BY <2>2
    <2>3. CASE /\ local.event \in DOMAIN events[local.account]
               /\ Stores(local.account, local.event,
                       [events[local.account][local.event] EXCEPT
                          !.attendees = local.read \ {local.attendee}, !.by = local.n], outcome)
      <3>1. events[local.account][local.event] \in Event
        BY <2>1, <2>3 DEF TypeOK
      <3>2. [events[local.account][local.event] EXCEPT
               !.attendees = local.read \ {local.attendee}, !.by = local.n].by = local.n
        BY <3>1 DEF Event
      <3>3. ASSUME NEW value, value.by = local.n,
                   Stores(local.account, local.event, value, outcome)
            PROVE  \A a \in Accounts :
                     \/ events'[a] = events[a]
                     \/ /\ a = local.account
                        /\ DOMAIN events'[a] = DOMAIN events[a] \cup {local.event}
                        /\ events'[a][local.event].by = local.n
                        /\ \A id \in DOMAIN events[a] :
                             id # local.event => events'[a][id] = events[a][id]
        <4>1. EveryAccount
          BY DEF RemovalInv
        <4> QED
          BY <2>1, <3>3, <4>1, StoresEvent
      <3>4. \A a \in Accounts :
              \/ events'[a] = events[a]
              \/ /\ a = local.account
                 /\ DOMAIN events'[a] = DOMAIN events[a] \cup {local.event}
                 /\ events'[a][local.event].by = local.n
                 /\ \A id \in DOMAIN events[a] :
                      id # local.event => events'[a][id] = events[a][id]
        BY <2>3, <3>2, <3>3
      <3> QED
        BY <3>4
    <2> QED
      BY <1>4, <2>2, <2>3
  <1>9. \A a \in Accounts : \A id : id \in DOMAIN events'[a] => id \in DOMAIN events[a]
    <2>1. local.account \in Accounts
      BY <1>3 DEF Removing
    <2> QED
      BY <1>4, <2>1, StoresEvent
  <1>10. ASSUME NEW d \in Calls, Active(d)' PROVE ReadOK(call[d])'
    <2>1. d # c /\ Active(d) /\ call'[d] = call[d]
      BY <1>6, <1>10
    <2>2. PICK other \in Removing : other = call[d]
      BY <2>1, ActiveRemoving
    <2>3. other.account \in Accounts /\ ReadOK(other)
      BY <2>1, <2>2 DEF Removing
    <2>4. {local.n, other.n} \in overlapped
      BY <1>2, <1>3, <2>1, <2>2 DEF AllOverlap
    <2>5. CASE other.event \in DOMAIN events[other.account]
      <3>1. /\ other.event \in DOMAIN events'[other.account]
            /\ \/ events'[other.account][other.event] = events[other.account][other.event]
               \/ events'[other.account][other.event].by = local.n
        BY <1>8, <2>3, <2>5
      <3> QED
        BY <1>1, <2>1, <2>2, <2>3, <2>4, <2>5, <3>1 DEF ReadOK
    <2>6. CASE other.event \notin DOMAIN events[other.account]
      BY <1>1, <1>9, <2>1, <2>2, <2>3, <2>6 DEF ReadOK, DeletedDuring
    <2> QED
      BY <2>5, <2>6
  <1> QED
    BY <1>1, <1>7, <1>10

LEMMA InitRemovalInv == Init => RemovalInv
  <1> SUFFICES ASSUME Init PROVE RemovalInv
    OBVIOUS
  <1>1. \A c \in Calls : ~Active(c)
    BY DEF Init, Active, Free, Idle
  <1>2. PICK attendees \in SUBSET People :
          events = [a \in Accounts |->
                      [id \in {0} |-> [attendees |-> attendees, reminder |-> 0, by |-> 0]]]
    BY DEF Init
  <1>3. [attendees |-> attendees, reminder |-> 0, by |-> 0] \in Event
    BY DEF Event
  <1>4. [email |-> Inbox, labels |-> {}] \in Message
    BY DEF Message, Inbox, EmailMessage
  <1>5. Idle \in Local
    BY DEF Local
  <1>6. TypeOK /\ EveryAccount
    BY <1>2, <1>3, <1>4, <1>5 DEF Init, TypeOK, EveryAccount, Ids
  <1> QED
    BY <1>1, <1>6 DEF RemovalInv, Numbered, AllOverlap

LEMMA NextRemovalInv == RemovalInv /\ [Next]_vars => RemovalInv'
  <1> SUFFICES ASSUME RemovalInv, [Next]_vars PROVE RemovalInv'
    OBVIOUS
  <1>1. CASE UNCHANGED vars
    BY <1>1 DEF vars, RemovalInv, TypeOK, EveryAccount, Numbered, AllOverlap, ReadOK,
                DeletedDuring, Active, Free
  <1> QED
    BY <1>1, ArriveInv, PatchInv DEF Next

(* Clients, calendars, mailboxes and requests keep their types, whatever     *)
(* requests the two providers serve at once and whatever Google answers.     *)
THEOREM TypeCorrect == Spec => []TypeOK
  <1>1. RemovalInv => TypeOK
    BY DEF RemovalInv
  <1> QED
    BY <1>1, InitRemovalInv, NextRemovalInv, PTL DEF Spec

-----------------------------------------------------------------------------
(* What the removals do. *)

(* Only its own second call changes what a removal holds. *)
LEMMA RemovalStep ==
  ASSUME RemovalInv, [Next]_vars, NEW c \in Calls, Active(c), call'[c] # call[c]
  PROVE  PatchAttendees(c)
  <1>1. ASSUME NEW d \in Calls, Arrive(d) PROVE FALSE
    BY <1>1, ArriveClients, ArriveRemoves DEF RemovalInv, Active
  <1>2. ASSUME NEW d \in Calls, PatchAttendees(d) PROVE d = c
    BY <1>2, PatchWrites, AnswerType DEF RemovalInv
  <1> QED
    BY <1>1, <1>2 DEF Next, vars

(* Whoever else has used the provider since, a removal changes no calendar   *)
(* but the one of the account it was called for: removeAttendee keeps its    *)
(* client in a local variable.                                               *)
THEOREM RemovalsActOnOwnAccount == Spec => ActsOnOwnAccount
  <1> DEFINE Own == \A c \in Calls, a \in Accounts :
               Active(c) /\ call'[c] # call[c] /\ events'[a] # events[a] => a = call[c].account
  <1>1. RemovalInv /\ [Next]_vars => [Own]_vars
    <2> SUFFICES ASSUME RemovalInv, [Next]_vars, NEW c \in Calls, NEW a \in Accounts,
                        Active(c), call'[c] # call[c], events'[a] # events[a]
                 PROVE  a = call[c].account
      OBVIOUS
    <2>1. PatchAttendees(c) /\ EveryAccount
      BY RemovalStep DEF RemovalInv
    <2>2. PICK account, event, value, outcome :
            (account = call[c].account /\ Stores(account, event, value, outcome)) \/ UNCHANGED events
      BY <2>1, PatchWrites DEF RemovalInv
    <2>3. call[c].account \in Accounts
      BY ActiveRemoving DEF RemovalInv, Removing
    <2> QED
      BY <2>1, <2>2, <2>3, StoresEvent
  <1> QED
    BY <1>1, InitRemovalInv, NextRemovalInv, PTL DEF Spec, ActsOnOwnAccount

(* A removal takes off the list the attendee it was asked to remove and      *)
(* nobody else, unless it undoes a request that wrote the list while it was  *)
(* served: the list it writes back is the one it read.                       *)
THEOREM RemovalsUndoOnlyOverlapping == Spec => RemovesOnlyTheAttendee
  <1> DEFINE Removes == \A c \in Calls :
               LET local == call[c] IN
               Active(c) /\ call'[c] # local /\ events' # events =>
                 LET event == events[local.account][local.event]
                     left == events'[local.account][local.event].attendees
                 IN  \/ left = event.attendees \ {local.attendee}
                     \/ {event.by, local.n} \in overlapped
  <1>1. RemovalInv /\ [Next]_vars => [Removes]_vars
    <2> SUFFICES ASSUME RemovalInv, [Next]_vars, NEW c \in Calls,
                        Active(c), call'[c] # call[c], events' # events
                 PROVE  LET local == call[c]
                            event == events[local.account][local.event]
                            left == events'[local.account][local.event].attendees
                        IN  \/ left = event.attendees \ {local.attendee}
                            \/ {event.by, local.n} \in overlapped
      OBVIOUS
    <2>1. PatchAttendees(c) /\ TypeOK /\ EveryAccount
      BY RemovalStep DEF RemovalInv
    <2>2. PICK local \in Removing : local = call[c]
      BY <2>1, ActiveRemoving
    <2>3. local.account \in Accounts /\ ReadOK(local)
      BY <2>2 DEF Removing, RemovalInv
    <2>4. PICK outcome \in Outcomes :
            /\ local.event \in DOMAIN events[local.account]
            /\ Stores(local.account, local.event,
                      [events[local.account][local.event] EXCEPT
                         !.attendees = local.read \ {local.attendee}, !.by = local.n], outcome)
      BY <2>1, <2>2, PatchWrites
    <2>5. events[local.account][local.event] \in Event
      BY <2>1, <2>3, <2>4 DEF TypeOK
    <2>6. events'[local.account][local.event].attendees = local.read \ {local.attendee}
      BY <2>1, <2>3, <2>4, <2>5 DEF Stores, EveryAccount, Event
    <2> QED
      BY <2>2, <2>3, <2>4, <2>6 DEF ReadOK
  <1> QED
    BY <1>1, InitRemovalInv, NextRemovalInv, PTL DEF Spec, RemovesOnlyTheAttendee

(* A removal that found the list is refused only by a failure of Google, or  *)
(* because a request that overlapped it deleted the event.                   *)
THEOREM RefusalsHaveCause == Spec => RefusedOnlyIfDeleted
  <1> DEFINE Caused == \A c \in Calls :
               Active(c) /\ call'[c].pc = "done" /\ call'[c].status = "error" =>
                 \/ faults' > faults
                 \/ \E d \in deleted : /\ d.event = call[c].event /\ d.account = call[c].account
                                       /\ {d.by, call[c].n} \in overlapped
  <1>1. RemovalInv /\ [Next]_vars => [Caused]_vars
    <2> SUFFICES ASSUME RemovalInv, [Next]_vars, NEW c \in Calls,
                        Active(c), call'[c].pc = "done", call'[c].status = "error"
                 PROVE  faults' > faults \/ DeletedDuring(call[c].n, call[c].account, call[c].event)
      BY DEF DeletedDuring
    <2>1. PatchAttendees(c) /\ TypeOK
      BY RemovalStep DEF RemovalInv, Active, Free
    <2>2. PICK outcome \in Outcomes :
            /\ Replies(c, outcome)
            /\ \/ Reports(outcome)
               \/ /\ call[c].event \notin DOMAIN events[call[c].account]
                  /\ NoFault
      BY <2>1, PatchWrites
    <2>3. outcome # "acknowledged"
      BY <2>1, <2>2 DEF Replies, Answers, Becomes, TypeOK
    <2>4. CASE Reports(outcome)
      BY <2>1, <2>3, <2>4 DEF Reports, Fault, TypeOK
    <2>5. CASE call[c].event \notin DOMAIN events[call[c].account]
      BY <2>5 DEF RemovalInv, ReadOK
    <2> QED
      BY <2>2, <2>4, <2>5
  <1> QED
    BY <1>1, InitRemovalInv, NextRemovalInv, PTL DEF Spec, RefusedOnlyIfDeleted
=============================================================================
