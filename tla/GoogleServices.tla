---------------------------- MODULE GoogleServices ----------------------------
(***************************************************************************)
(* GoogleCalendarProvider and GoogleMailProvider: one object each for all   *)
(* requests, with one field for the API client, which every method replaces *)
(* by a client for the account of its refresh token.  Most methods are one  *)
(* call of Google; removeAttendee is two, with other requests in between.   *)
(* The first call of a request is part of its arrival.                      *)
(***************************************************************************)
EXTENDS Integers, FiniteSets, Functions

CONSTANTS
  Calls,            \* slots for the requests served at once
  Accounts,         \* the accounts of Google, each with its refresh token
  People,           \* whom an event is attended by
  Labels,           \* the labels of a message
  MaxRequests,      \* bound: requests made in a behaviour
  MaxFaults         \* bound: errors of Google

ASSUME BoundAssumption == MaxRequests \in Nat /\ MaxFaults \in Nat

VARIABLES
  calendar, gmail,  \* the providers' fields: whose client each one holds
  events,           \* external: the primary calendars, by account and event
  messages,         \* external: the mailboxes, by account and message
  call,             \* the local variables of the request in each slot
  served, faults,   \* what the bounds count; `served` also numbers the requests
  deleted,          \* only for properties: which request deleted which event
  overlapped        \* only for properties: which requests were served at one time

vars == <<calendar, gmail, events, messages, call, served, faults, deleted, overlapped>>

-----------------------------------------------------------------------------
(* Data. *)

Nobody == "nobody"
Ids == Nat       \* 0 is an event, or a message, that was there before

(* An event without attendees has no list of them.  `by` is the request     *)
(* that wrote the list.                                                     *)
Event == [attendees : SUBSET People, reminder : Nat, by : Nat]
(* What sendMessage is given: a sender, recipients, and attachments that    *)
(* have their data and name, or lack them.                                  *)
EmailMessage == [from : BOOLEAN, to : BOOLEAN, attachments : SUBSET {"complete", "incomplete"}]
Inbox == [from |-> TRUE, to |-> TRUE, attachments |-> {}]
Message == [email : EmailMessage, labels : SUBSET Labels]

Idle == [pc |-> "idle"]
Removing == [pc : {"removeAttendee"}, n : Nat, account : Accounts, event : Ids,
             attendee : People, read : SUBSET People]
(* A request of one call: what it wrote is in the state. *)
Answered == [pc : {"done"}, status : {"ok", "error"}]
Local == {Idle} \cup Removing \cup Answered

Free(c) == call[c].pc \in {"idle", "done"}
Active(c) == ~Free(c)
Becomes(c, local) == call' = [call EXCEPT ![c] = local]
Answers(c, status) == Becomes(c, [pc |-> "done", status |-> status])

(* Google: a call is acknowledged, refused, or takes effect although an     *)
(* error is reported.                                                       *)
Outcomes == {"acknowledged", "refused", "unacknowledged"}
Fault == faults < MaxFaults /\ faults' = faults + 1
NoFault == faults' = faults
Reports(outcome) == IF outcome = "acknowledged" THEN NoFault ELSE Fault
Made(outcome) == outcome # "refused"
Replies(c, outcome) == Answers(c, IF outcome = "acknowledged" THEN "ok" ELSE "error")

Starts ==
  /\ served < MaxRequests
  /\ served' = served + 1
  /\ overlapped' = overlapped \cup {{served', call[d].n} : d \in {d \in Calls : Active(d)}}

(* getResource: the client of the provider is replaced. *)
GetCalendarResource(c, account) ==
  Free(c) /\ Starts /\ calendar' = account /\ UNCHANGED <<gmail, messages>>
GetMailResource(c, account) ==
  Free(c) /\ Starts /\ gmail' = account /\ UNCHANGED <<calendar, events, deleted>>

-----------------------------------------------------------------------------
(* GoogleCalendarProvider *)

(* listEvents, listCalendars, getEvent and getFreeBusyInfo. *)
ReadCalendar(c) ==
  \E account \in Accounts, outcome \in {"acknowledged", "refused"} :
    /\ GetCalendarResource(c, account)
    /\ Reports(outcome)
    /\ Replies(c, outcome)
    /\ UNCHANGED <<events, deleted>>

Stores(account, event, value, outcome) ==
  events' = IF Made(outcome)
            THEN [events EXCEPT ![account] =
                    [id \in DOMAIN @ \cup {event} |-> IF id = event THEN value ELSE @[id]]]
            ELSE events

CreateEvent(c) ==
  \E account \in Accounts, attendees \in SUBSET People, outcome \in Outcomes :
    /\ GetCalendarResource(c, account)
    /\ Reports(outcome)
    /\ Stores(account, served', [attendees |-> attendees, reminder |-> 0, by |-> served'], outcome)
    /\ Replies(c, outcome)
    /\ UNCHANGED deleted

(* What becomes of an event: updateEvent replaces it; addReminder replaces   *)
(* its reminders; addAttendee gives a list of one attendee, which replaces   *)
(* the list.  Mutant: an update leaves an event without its reminders.       *)
UpdateWithoutReminder(event, attendees) == [attendees |-> attendees, by |-> served']
UpdateEvent(event, attendees) == [attendees |-> attendees, reminder |-> 0, by |-> served']
AddReminder(event) == [event EXCEPT !.reminder = served']
AddAttendee(event, attendee) == [event EXCEPT !.attendees = {attendee}, !.by = served']
Changed(event) ==
  {UpdateEvent(event, attendees) : attendees \in SUBSET People}
  \cup {AddReminder(event)}
  \cup {AddAttendee(event, attendee) : attendee \in People}

(* One of these, or deleteEvent; without the event Google refuses. *)
ChangeEvent(c) ==
  \E account \in Accounts, event \in 0..served, outcome \in Outcomes :
    /\ GetCalendarResource(c, account)
    /\ \/ /\ event \notin DOMAIN events[account] /\ outcome = "refused"
          /\ NoFault
          /\ UNCHANGED <<events, deleted>>
       \/ /\ event \in DOMAIN events[account]
          /\ Reports(outcome)
          /\ \/ \E value \in Changed(events[account][event]) :
                  Stores(account, event, value, outcome) /\ UNCHANGED deleted
             \/ /\ Made(outcome)
                /\ events' = [events EXCEPT ![account] = Restrict(@, DOMAIN @ \ {event})]
                /\ deleted' = deleted \cup {[event |-> event, account |-> account, by |-> served']}
    /\ Replies(c, outcome)

(* removeAttendee reads the event, and throws if it has no list, ... *)
RemoveAttendee(c) ==
  \E account \in Accounts, event \in 0..served, attendee \in People, ok \in BOOLEAN :
    LET known == event \in DOMAIN events[account] IN
    /\ GetCalendarResource(c, account)
    /\ IF ok THEN NoFault ELSE Fault
    /\ \/ /\ ok /\ known /\ events[account][event].attendees # {}
          /\ Becomes(c, [pc |-> "removeAttendee", n |-> served', account |-> account,
                         event |-> event, attendee |-> attendee,
                         read |-> events[account][event].attendees])
       \/ /\ ok /\ known => events[account][event].attendees = {}
          /\ Answers(c, "error")
    /\ UNCHANGED <<events, deleted>>

(* The list without the attendee.  Mutant: none but the attendee is kept. *)
OnlyTheAttendee(read, attendee) == read \cap {attendee}
UpdatedAttendees(read, attendee) == read \ {attendee}

(* Which account the second call goes to: the resource is in a local        *)
(* variable.  Mutant: it is taken from the provider's field.                *)
AccountOfField(local) == calendar
AccountOfCall(local) == local.account

(* ... and writes the list it read, without the attendee.  Mutant: the list *)
(* is looked at after it was filtered.                                       *)
PatchUnlessEmpty(c) ==
  LET local == call[c]
      left == UpdatedAttendees(local.read, local.attendee)
  IN
  /\ local.pc = "removeAttendee"
  /\ NoFault
  /\ events' = IF left = {} \/ local.event \notin DOMAIN events[local.account] THEN events
               ELSE [events EXCEPT ![local.account][local.event].attendees = left]
  /\ Answers(c, IF left = {} THEN "error" ELSE "ok")
  /\ UNCHANGED <<calendar, gmail, messages, served, deleted, overlapped>>
PatchAttendees(c) ==
  LET local == call[c]
      account == AccountOfCall(local)
  IN
  /\ local.pc = "removeAttendee"
  /\ \E outcome \in Outcomes :
       /\ \/ /\ local.event \in DOMAIN events[account]
             /\ Reports(outcome)
             /\ Stores(account, local.event,
                       [events[account][local.event] EXCEPT
                          !.attendees = UpdatedAttendees(local.read, local.attendee),
                          !.by = local.n], outcome)
          \/ /\ local.event \notin DOMAIN events[account] /\ outcome = "refused"
             /\ NoFault
             /\ UNCHANGED events
       /\ Replies(c, outcome)
  /\ UNCHANGED <<calendar, gmail, messages, served, deleted, overlapped>>

-----------------------------------------------------------------------------
(* GoogleMailProvider *)

(* createRawEmail throws unless there are a sender and recipients, and every *)
(* attachment has data and a name.                                           *)
Raw(email) == email.from /\ email.to /\ "incomplete" \notin email.attachments

(* The email is composed when the client is already there. *)
SendMessage(c) ==
  \E account \in Accounts, email \in EmailMessage, outcome \in Outcomes :
    /\ GetMailResource(c, account)
    /\ \/ /\ Raw(email)
          /\ Reports(outcome)
          /\ messages' = IF Made(outcome)
                         THEN [messages EXCEPT ![account] =
                                 [id \in DOMAIN @ \cup {served'} |->
                                    IF id = served' THEN [email |-> email, labels |-> {}]
                                                    ELSE @[id]]]
                         ELSE messages
       \/ ~Raw(email) /\ outcome = "refused" /\ NoFault /\ UNCHANGED messages
    /\ Replies(c, outcome)

(* listMessages and getMessage. *)
ReadMail(c) ==
  \E account \in Accounts, outcome \in {"acknowledged", "refused"} :
    /\ GetMailResource(c, account)
    /\ Reports(outcome)
    /\ Replies(c, outcome)
    /\ UNCHANGED messages

(* deleteMessage and batchDeleteMessages, updateLabels and                  *)
(* batchModifyMessages.  A message that is not there is refused, or skipped *)
(* in a batch.                                                               *)
Relabelled(message, add, remove) ==
  [message EXCEPT !.labels = (@ \cup add) \ remove]
ChangeMessages(c) ==
  \E account \in Accounts, ids \in (SUBSET (0..served)) \ {{}}, outcome \in Outcomes :
    LET there == ids \cap DOMAIN messages[account] IN
    /\ GetMailResource(c, account)
    /\ \/ /\ there # {}
          /\ Reports(outcome)
          /\ \/ messages' = IF Made(outcome)
                            THEN [messages EXCEPT ![account] = Restrict(@, DOMAIN @ \ ids)]
                            ELSE messages
             \/ \E add, remove \in SUBSET Labels :
                  messages' = IF Made(outcome)
                              THEN [messages EXCEPT ![account] =
                                      [id \in DOMAIN @ |->
                                         IF id \in ids THEN Relabelled(@[id], add, remove)
                                                       ELSE @[id]]]
                              ELSE messages
       \/ there = {} /\ outcome # "unacknowledged" /\ NoFault /\ UNCHANGED messages
    /\ Replies(c, outcome)

-----------------------------------------------------------------------------

(* Two accounts with a message and an event each; the first request that    *)
(* needs a client puts one into the field.                                  *)
Init ==
  /\ calendar = Nobody /\ gmail = Nobody
  /\ \E attendees \in SUBSET People :
       events = [a \in Accounts |->
                   [id \in {0} |-> [attendees |-> attendees, reminder |-> 0, by |-> 0]]]
  /\ messages = [a \in Accounts |-> [id \in {0} |-> [email |-> Inbox, labels |-> {}]]]
  /\ call = [c \in Calls |-> Idle]
  /\ served = 0 /\ faults = 0
  /\ deleted = {} /\ overlapped = {}

Arrive(c) ==
  \/ ReadCalendar(c) \/ CreateEvent(c) \/ ChangeEvent(c) \/ RemoveAttendee(c)
  \/ SendMessage(c) \/ ReadMail(c) \/ ChangeMessages(c)
Next == \E c \in Calls : Arrive(c) \/ PatchAttendees(c)
Spec == Init /\ [][Next]_vars

-----------------------------------------------------------------------------
(* Properties. *)

(* The type invariant. *)
TypeOK ==
  /\ {calendar, gmail} \subseteq Accounts \cup {Nobody}
  /\ \A a \in Accounts : \A id \in DOMAIN events[a] : id \in Ids /\ events[a][id] \in Event
  /\ \A a \in Accounts : \A id \in DOMAIN messages[a] : id \in Ids /\ messages[a][id] \in Message
  /\ call \in [Calls -> Local]
  /\ served \in Nat /\ faults \in Nat
  /\ overlapped \subseteq SUBSET Nat

(* A removal changes the calendar of the account it was called for, though  *)
(* other requests have replaced the provider's client since it began.       *)
ActsOnOwnAccount ==
  [][\A c \in Calls, a \in Accounts :
       Active(c) /\ call'[c] # call[c] /\ events'[a] # events[a] => a = call[c].account]_vars

(* A removal takes nobody off the list but the attendee it was asked to      *)
(* remove, and brings nobody back, unless it undoes a request that wrote the *)
(* list while the removal was served.                                        *)
RemovesOnlyTheAttendee ==
  [][\A c \in Calls :
       LET local == call[c] IN
       Active(c) /\ call'[c] # local /\ events' # events =>
         LET event == events[local.account][local.event]
             left == events'[local.account][local.event].attendees
         IN  \/ left = event.attendees \ {local.attendee}
             \/ {event.by, local.n} \in overlapped]_vars

(* A removal that found the list is refused only by a failure of Google, or  *)
(* because a request that overlapped it deleted the event.                   *)
RefusedOnlyIfDeleted ==
  [][\A c \in Calls :
       Active(c) /\ call'[c].pc = "done" /\ call'[c].status = "error" =>
         \/ faults' > faults
         \/ \E d \in deleted : /\ d.event = call[c].event /\ d.account = call[c].account
                               /\ {d.by, call[c].n} \in overlapped]_vars
=============================================================================
