---------------------------- MODULE GuardedRequests ----------------------------
(***************************************************************************)
(* A request to the users' endpoints: the two guards in front of them,     *)
(* each with its own verification of the token, the validation of its      *)
(* input, and the handler of users.service.ts behind them.  As in AuthService, an action is what a   *)
(* request does between two answers of the database, and other requests    *)
(* run in between.  The accounts are there from the start; that two of     *)
(* them may share an address is what AuthService shows.                    *)
(***************************************************************************)
EXTENDS Integers, FiniteSets

CONSTANTS
  Calls,            \* slots for the requests served at once
  Accounts, Emails,
  Endpoints,        \* the endpoints the clients of an instance use
  Bodies,           \* the fields the PATCHes of an instance give
  MaxTime,          \* bound: the clock stops here
  MaxRequests,      \* bound: requests made in a behaviour
  MaxFaults         \* bound: database errors and crashes in a behaviour

Handlers == {"findAll", "personal", "patch"}
BodyFields == {"firstName", "lastName", "phoneNumber", "location", "website", "profilePicture"}
ASSUME EndpointAssumption == Endpoints \subseteq Handlers
ASSUME BodyAssumption == Bodies \subseteq SUBSET BodyFields
ASSUME BoundAssumption == MaxTime \in Nat /\ MaxRequests \in Nat /\ MaxFaults \in Nat
(* An address is never the text of an ObjectId. *)
ASSUME NamesAssumption == Emails \cap Accounts = {}

VARIABLES
  accounts,         \* what no handler changes: the address and the role
  users,            \* the other fields of the documents in `users`
  profiles,         \* the documents in `userProfiles`, by the account they belong to
  now,              \* the clock
  call,             \* the local variables of the request in each slot
  served, faults,   \* what the bounds count; `served` also numbers the requests
  overlapped        \* only for properties: which requests were served at one time

vars == <<accounts, users, profiles, now, call, served, faults, overlapped>>

-----------------------------------------------------------------------------
(* Data.  The value of a field is the number of the request that gave it.   *)

AsRegistered == 0
Undefined == -1    \* a field the document lacks
Value == Nat \cup {Undefined}
UserFields == {"firstName", "lastName", "createdAt"}
ProfileFields == {"phoneNumber", "location", "website", "profilePicture", "createdAt"}

Roles == {"admin", "user", "anonymous"}
Account == [email : Emails, role : Roles]

(* The claims of an access token for an account; register and refresh swap  *)
(* the address and the id.                                                  *)
Token == [email : Emails \cup Accounts, account : Accounts, exp : 0..MaxTime + 1]
NoToken == [email |-> "none"]
InHand == {[email |-> e, account |-> a, exp |-> t] :
             e \in Emails \cup Accounts, a \in Accounts, t \in 0..MaxTime + 1}
Signed == {t \in InHand : t.email \in {accounts[t.account].email, t.account}}

Request == [n : Nat, endpoint : Handlers, token : Token \cup {NoToken}, body : SUBSET BodyFields]

(* The roles an endpoint asks for; none, and RolesGuard lets everyone pass. *)
RequiredRoles(endpoint) ==
  CASE endpoint = "findAll" -> {"admin"}
    [] endpoint = "personal" -> {"user", "admin"}
    [] endpoint = "patch" -> {}

-----------------------------------------------------------------------------
(* The requests being served. *)

Idle == [pc |-> "idle"]
Guarded == [pc : {"rolesUser", "authUser"}, request : Request]
Checking == [pc : {"rolesRole"}, request : Request, account : Accounts]
Reading == [pc : {"readUser"}, request : Request, actor : Accounts]
ReadOne == [pc : {"readProfile"}, request : Request, actor : Accounts, user : [UserFields -> Value]]
Writing == [pc : {"writeUser", "writeProfile"}, request : Request, actor : Accounts,
            user : [UserFields -> Value], profile : [ProfileFields -> Value]]
Statuses == {"ok", "badRequest", "unauthorised", "forbidden", "notFound", "serverError"}
Nobody == "nobody"
Answered == [pc : {"done"}, request : Request, actor : Accounts \cup {Nobody}, status : Statuses]
Local == {Idle} \cup Guarded \cup Checking \cup Reading \cup ReadOne \cup Writing \cup Answered

Free(c) == call[c].pc \in {"idle", "done"}
Active(c) == ~Free(c)
Becomes(c, local) == call' = [call EXCEPT ![c] = local]
Answers(c, actor, status) ==
  Becomes(c, [pc |-> "done", request |-> call[c].request, actor |-> actor, status |-> status])

(* The database: a read finds one of the documents that match, and an error *)
(* looks as if there were none; an update may be applied and yet reported   *)
(* as failed.                                                               *)
Fault == faults < MaxFaults /\ faults' = faults + 1
NoFault == faults' = faults
FindOne(matching, found) ==
  \/ found \in matching /\ NoFault
  \/ found = Nobody /\ matching = {} /\ NoFault
  \/ found = Nobody /\ matching # {} /\ Fault
Outcomes == {"acknowledged", "refused", "unacknowledged"}
Reports(outcome) == IF outcome = "acknowledged" THEN NoFault ELSE Fault

(* Mutant: the filter is lost. *)
AnyAccount(key) == Accounts
ByEmail(key) == {a \in Accounts : accounts[a].email = key}

(* findOneAndUpdate: mongoose drops the keys that are undefined. *)
Update(doc, entity) ==
  [f \in DOMAIN doc |-> IF entity[f] = Undefined THEN doc[f] ELSE entity[f]]
Stored(docs, a, entity, outcome) ==
  IF outcome = "refused" THEN docs ELSE [docs EXCEPT ![a] = Update(@, entity)]

-----------------------------------------------------------------------------
(* The guards. *)

Decodes(t) == t # NoToken /\ now < t.exp

(* AuthGuard begins: verify decodes the token, 401 unless it is good. *)
AuthGuard(c, request) ==
  \/ Decodes(request.token) /\ Becomes(c, [pc |-> "authUser", request |-> request])
  \/ /\ ~Decodes(request.token)
     /\ Becomes(c, [pc |-> "done", request |-> request, actor |-> Nobody,
                    status |-> "unauthorised"])

(* RolesGuard begins: without a token it answers false, with a bad one 401. *)
RolesGuard(c, request) ==
  \/ /\ Decodes(request.token)
     /\ Becomes(c, [pc |-> "rolesUser", request |-> request])
  \/ /\ ~Decodes(request.token)
     /\ Becomes(c, [pc |-> "done", request |-> request, actor |-> Nobody,
                    status |-> IF request.token = NoToken THEN "forbidden" ELSE "unauthorised"])

Arrive(c) ==
  /\ Free(c) /\ served < MaxRequests
  /\ served' = served + 1
  /\ overlapped' = overlapped \cup
       {{served', call[d].request.n} : d \in {d \in Calls : Active(d)}}
  /\ \E endpoint \in Endpoints, token \in Signed \cup {NoToken}, body \in Bodies :
       LET request == [n |-> served', endpoint |-> endpoint, token |-> token, body |-> body] IN
       \/ RequiredRoles(endpoint) = {} /\ AuthGuard(c, request)
       \/ RequiredRoles(endpoint) # {} /\ RolesGuard(c, request)
  /\ UNCHANGED <<accounts, users, profiles, now, faults>>

(* verify, for the roles: the account is the one found under the address. *)
RolesUser(c) ==
  /\ call[c].pc = "rolesUser"
  /\ \E found \in Accounts \cup {Nobody} :
       /\ FindOne(ByEmail(call[c].request.token.email), found)
       /\ \/ found = Nobody /\ Answers(c, Nobody, "unauthorised")
          \/ /\ found # Nobody
             /\ Becomes(c, [pc |-> "rolesRole", request |-> call[c].request, account |-> found])
  /\ UNCHANGED <<accounts, users, profiles, now, served, overlapped>>

(* Mutant: an account that was not found is let through, as no role excludes it. *)
MayPassUnlessKnown(found, endpoint) ==
  IF found = Nobody THEN TRUE ELSE accounts[found].role \in RequiredRoles(endpoint)
MayPass(found, endpoint) ==
  found # Nobody /\ accounts[found].role \in RequiredRoles(endpoint)

(* Mutant: the guard never settles for an account without the role. *)
RolesRoleHeld(c) ==
  LET request == call[c].request IN
  /\ call[c].pc = "rolesRole"
  /\ MayPass(call[c].account, request.endpoint)
  /\ NoFault
  /\ AuthGuard(c, request)
  /\ UNCHANGED <<accounts, users, profiles, now, served, overlapped>>

(* Its role is read: 403 if it is none of those asked for, or was not found. *)
(* Otherwise the next guard begins.                                          *)
RolesRole(c) ==
  LET request == call[c].request IN
  /\ call[c].pc = "rolesRole"
  /\ \E found \in {call[c].account, Nobody} :
       /\ FindOne({call[c].account}, found)
       /\ \/ ~MayPass(found, request.endpoint) /\ Answers(c, Nobody, "forbidden")
          \/ MayPass(found, request.endpoint) /\ AuthGuard(c, request)
  /\ UNCHANGED <<accounts, users, profiles, now, served, overlapped>>

(* The pipe that validates the input of a handler refuses a class that states *)
(* no rule, which is what a handler that takes the bare BaseRequest declares;  *)
(* the fields of a PATCH may keep its rules or break them.                     *)
Validates(endpoint) == endpoint = "patch"

(* verify, for the user, whom the guard writes into headers, body and query. *)
(* Then the pipe runs, and the handler begins.                               *)
AuthUser(c) ==
  LET request == call[c].request IN
  /\ call[c].pc = "authUser"
  /\ \E found \in Accounts \cup {Nobody} :
       /\ FindOne(ByEmail(request.token.email), found)
       /\ \/ found = Nobody /\ Answers(c, Nobody, "unauthorised")
          \/ found # Nobody /\ Answers(c, found, "badRequest")
          \/ /\ found # Nobody /\ Validates(request.endpoint)
             /\ Becomes(c, [pc |-> "readUser", request |-> request, actor |-> found])
  /\ UNCHANGED <<accounts, users, profiles, now, served, overlapped>>

-----------------------------------------------------------------------------
(* The handler. *)

(* updateUserInfo reads the account, ... *)
ReadUser(c) ==
  LET actor == call[c].actor IN
  /\ call[c].pc = "readUser"
  /\ \E found \in {actor, Nobody} :
       /\ FindOne({actor}, found)
       /\ \/ found = Nobody /\ Answers(c, actor, "notFound")
          \/ /\ found # Nobody
             /\ Becomes(c, [pc |-> "readProfile", request |-> call[c].request,
                            actor |-> actor, user |-> users[actor]])
  /\ UNCHANGED <<accounts, users, profiles, now, served, overlapped>>

(* The entity that is written back: a copy of what was read, with the fields *)
(* of the body.  createdAt is not selected by the read, so it is made anew.  *)
(* Mutants: every field of the body is copied; the builder starts empty.     *)
UserEntityAssigned(user, request) ==
  [f \in UserFields \cup request.body |->
     IF f \in request.body \cup {"createdAt"} THEN request.n ELSE user[f]]
UserEntityAnew(user, request) ==
  [f \in UserFields |->
     IF f \in request.body \cup {"createdAt"} THEN request.n ELSE AsRegistered]
UserEntity(user, request) ==
  [f \in UserFields |-> IF f \in request.body \cup {"createdAt"} THEN request.n ELSE user[f]]

(* The picture is set when a website is given, even to undefined. *)
ProfileEntity(profile, request) ==
  [f \in ProfileFields |->
     IF f = "profilePicture"
     THEN IF "website" \notin request.body THEN profile[f]
          ELSE IF f \in request.body THEN request.n ELSE Undefined
     ELSE IF f \in request.body \cup {"createdAt"} THEN request.n ELSE profile[f]]

(* ... then the profile, builds both entities, ... *)
ReadProfile(c) ==
  LET actor == call[c].actor
      request == call[c].request
  IN
  /\ call[c].pc = "readProfile"
  /\ \E found \in {actor, Nobody} :
       /\ FindOne({actor} \cap DOMAIN profiles, found)
       /\ \/ found = Nobody /\ Answers(c, actor, "notFound")
          \/ /\ found # Nobody
             /\ Becomes(c, [pc |-> "writeUser", request |-> request, actor |-> actor,
                            user |-> UserEntity(call[c].user, request),
                            profile |-> ProfileEntity(profiles[actor], request)])
  /\ UNCHANGED <<accounts, users, profiles, now, served, overlapped>>

(* ... and writes the account, ...  Mutant: the handler answers here. *)
WriteUserOnly(c) ==
  /\ call[c].pc = "writeUser"
  /\ \E outcome \in Outcomes :
       /\ Reports(outcome)
       /\ users' = Stored(users, call[c].actor, call[c].user, outcome)
       /\ Answers(c, call[c].actor, IF outcome = "acknowledged" THEN "ok" ELSE "serverError")
  /\ UNCHANGED <<accounts, profiles, now, served, overlapped>>
WriteUser(c) ==
  /\ call[c].pc = "writeUser"
  /\ \E outcome \in Outcomes :
       /\ Reports(outcome)
       /\ users' = Stored(users, call[c].actor, call[c].user, outcome)
       /\ \/ outcome # "acknowledged" /\ Answers(c, call[c].actor, "serverError")
          \/ /\ outcome = "acknowledged"
             /\ Becomes(c, [pc |-> "writeProfile", request |-> call[c].request,
                            actor |-> call[c].actor, user |-> call[c].user,
                            profile |-> call[c].profile])
  /\ UNCHANGED <<accounts, profiles, now, served, overlapped>>

(* ... then the profile. *)
WriteProfile(c) ==
  /\ call[c].pc = "writeProfile"
  /\ \E outcome \in Outcomes :
       /\ Reports(outcome)
       /\ profiles' = Stored(profiles, call[c].actor, call[c].profile, outcome)
       /\ Answers(c, call[c].actor, IF outcome = "acknowledged" THEN "ok" ELSE "serverError")
  /\ UNCHANGED <<accounts, users, now, served, overlapped>>

-----------------------------------------------------------------------------

Tick ==
  /\ now < MaxTime
  /\ now' = now + 1
  /\ UNCHANGED <<accounts, users, profiles, call, served, faults, overlapped>>

(* The process dies: the requests it was serving are never answered. *)
Crash ==
  /\ Fault
  /\ \E c \in Calls : Active(c)
  /\ call' = [c \in Calls |-> IF Active(c) THEN Idle ELSE call[c]]
  /\ UNCHANGED <<accounts, users, profiles, now, served, overlapped>>

(* Accounts as registrations leave them: an account may be without profile. *)
Init ==
  /\ accounts \in [Accounts -> Account]
  /\ users = [a \in Accounts |-> [f \in UserFields |-> AsRegistered]]
  /\ \E owners \in SUBSET Accounts :
       profiles = [a \in owners |-> [f \in ProfileFields |->
                     IF f = "profilePicture" THEN Undefined ELSE AsRegistered]]
  /\ now = 0
  /\ call = [c \in Calls |-> Idle]
  /\ served = 0 /\ faults = 0
  /\ overlapped = {}

Proceed(c) ==
  \/ RolesUser(c) \/ RolesRole(c) \/ AuthUser(c)
  \/ ReadUser(c) \/ ReadProfile(c) \/ WriteUser(c) \/ WriteProfile(c)

Next == Tick \/ Crash \/ \E c \in Calls : Arrive(c) \/ Proceed(c)
Spec == Init /\ [][Next]_vars

(* As in AuthService: every operation of the database is answered in the end. *)
FairSpec == Spec /\ \A c \in Calls : WF_vars(Proceed(c))

-----------------------------------------------------------------------------
(* Properties. *)

(* The type invariant. *)
TypeOK ==
  /\ accounts \in [Accounts -> Account]
  /\ users \in [Accounts -> [UserFields -> Value]]
  /\ DOMAIN profiles \subseteq Accounts
  /\ \A a \in DOMAIN profiles : profiles[a] \in [ProfileFields -> Value]
  /\ now \in 0..MaxTime /\ served \in Nat /\ faults \in Nat
  /\ call \in [Calls -> Local]
  /\ overlapped \subseteq SUBSET Nat

(* A request that passed its guards acts for the account its token was       *)
(* signed for, or for one that shares its address; and where a role is       *)
(* asked for, one of these accounts has it: two verifications and a role     *)
(* read by id, with failures in between, never add up to more.               *)
Namesakes(a) == {b \in Accounts : accounts[b].email = accounts[a].email}
PassedGuards(c) ==
  \/ call[c].pc \in {"readUser", "readProfile", "writeUser", "writeProfile"}
  \/ call[c].pc = "done" /\ call[c].status \notin {"unauthorised", "forbidden"}
AuthorisedActor ==
  \A c \in Calls : PassedGuards(c) =>
    LET request == call[c].request
        account == request.token.account
    IN  /\ call[c].actor \in Namesakes(account)
        /\ request.endpoint # "patch" =>
             \E a \in Namesakes(account) : accounts[a].role \in RequiredRoles(request.endpoint)

(* A PATCH gives a field it was not asked to change another value only by    *)
(* putting back what it read before a write it overlapped: what a PATCH that *)
(* had ended when it began wrote is never undone.  The last PATCH that wrote *)
(* a document is the one in its createdAt.                                   *)
Undone(c, doc, later) ==
  \A f \in DOMAIN doc \ (call[c].request.body \cup {"createdAt"}) :
    later[f] # doc[f] => {call[c].request.n, doc["createdAt"]} \in overlapped
UndoesNoOther ==
  \A c \in Calls :
    /\ users' # users /\ call[c].pc = "writeUser" /\ call'[c] # call[c] =>
         Undone(c, users[call[c].actor], users'[call[c].actor])
    /\ profiles' # profiles /\ call[c].pc = "writeProfile" /\ call'[c] # call[c] =>
         Undone(c, profiles[call[c].actor], profiles'[call[c].actor])
UndoesOnlyOverlapping == [][UndoesNoOther]_vars

(* The two documents of an account were last written by the same PATCH,      *)
(* unless one is between its writes, two overlapped, or a step failed.       *)
TornOnlyByOverlap ==
  faults = 0 =>
    \A a \in DOMAIN profiles :
      LET m == users[a].createdAt
          n == profiles[a].createdAt
      IN  \/ m = n
          \/ {m, n} \in overlapped
          \/ \E c \in Calls : call[c].pc = "writeProfile" /\ call[c].request.n = m

(* Every request is answered, or lost in a crash. *)
EveryRequestAnswered == \A c \in Calls : Active(c) ~> Free(c)

=============================================================================
