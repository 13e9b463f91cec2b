------------------------------ MODULE AuthService ------------------------------
(***************************************************************************)
(* The account and session handlers of auth.service.ts, run by one Node    *)
(* process over three MongoDB collections.  Several calls are served at    *)
(* once: a handler runs alone from one `await` to the next, and every      *)
(* `await` on the database is a point where the others may run.  So each   *)
(* action below is one such segment: the database answers and the handler  *)
(* runs on to its next `await`.  Only the answers of the database, the     *)
(* clock and a crash of the process are left to chance.                    *)
(***************************************************************************)
EXTENDS Integers, FiniteSets

CONSTANTS
  Calls,            \* slots for the calls served at once
  Ops,              \* the handlers the clients of an instance call
  Emails, UserNames, Passwords,
  AccessTTL,        \* '2h', the life of an access token
  RefreshTTL,       \* '7d', the life of a refresh token
  CalendarShift(_), \* what setDate(+7), done at a time, is off by: clocks change
  MaxTime,          \* bound: the clock stops here
  MaxCalls,         \* bound: calls made in a behaviour
  MaxFaults         \* bound: database errors and crashes in a behaviour

ASSUME TTLAssumption == AccessTTL \in Nat \ {0} /\ RefreshTTL \in Nat \ {0}
ASSUME ShiftAssumption == \A t \in 0..MaxTime : CalendarShift(t) \in Int
ASSUME BoundAssumption == MaxTime \in Nat /\ MaxCalls \in Nat /\ MaxFaults \in Nat
Handlers == {"register", "login", "refresh", "verify", "serverLogin"}
ASSUME OpsAssumption == Ops \subseteq Handlers
(* An address or a user name is never the text of an ObjectId. *)
ASSUME NamesAssumption == Emails \cap Nat = {}

VARIABLES
  users,            \* collection `users`: documents of UserEntity
  profiles,         \* collection `userProfiles`: the ids of its documents
  refreshTokens,    \* collection `refreshtoken`: documents of RefreshTokenEntity
  lastId,           \* the newest id generated: ObjectIds and session ids
  now,              \* the clock
  call,             \* the local variables of the call in each slot
  issued,           \* the tokens clients have been answered
  served, faults    \* what the bounds MaxCalls and MaxFaults count

store == <<users, profiles, refreshTokens>>
vars == <<users, profiles, refreshTokens, lastId, now, call, issued, served, faults>>

-----------------------------------------------------------------------------
(* Data. *)

Null == 0
Never == -1
Ids == Nat \ {Null}

User == [id : Ids, email : Emails, userName : UserNames, password : Passwords,
         profile : Ids \cup {Null}]
NoUser == [id |-> Null]

AccessToken == [kind : {"access", "server"}, email : Emails \cup Ids, id : Emails \cup Ids,
                session : Ids, exp : Nat \cup {Never}]
RefreshToken == [kind : {"refresh"}, id : Ids, session : Ids, exp : Nat]
RefreshDoc == [id : Ids, token : RefreshToken, session : Ids, user : Ids, expiryDate : Int]
(* A string no secret of the service signed, and the absence of a token. *)
Garbage == [kind |-> "garbage"]
NoToken == [kind |-> "none"]

(* Mutant: the session id is left out of the claims. *)
AccessWithoutSession(email, id, session) ==
  [kind |-> "access", email |-> email, id |-> id, session |-> Null, exp |-> now + AccessTTL]

Access(email, id, session) ==
  [kind |-> "access", email |-> email, id |-> id, session |-> session, exp |-> now + AccessTTL]
ServerAccess(email, id, session) ==
  [kind |-> "server", email |-> email, id |-> id, session |-> session, exp |-> Never]
Refresh(id, session) ==
  [kind |-> "refresh", id |-> id, session |-> session, exp |-> now + RefreshTTL]

(* jwt.verifyAsync under one of the two secrets; decodeToken turns a failure *)
(* into undefined.                                                           *)
Unexpired(t) == t.exp = Never \/ now < t.exp
DecodesAsAccess(t) == t.kind \in {"access", "server"} /\ Unexpired(t)
DecodesAsRefresh(t) == t.kind = "refresh" /\ Unexpired(t)

-----------------------------------------------------------------------------
(* The calls.  Each segment of a handler has the local variables it still   *)
(* needs; `mark` and `blind` only record how a registration looked for      *)
(* duplicates: the newest id at that time, and the checks that an error     *)
(* answered.                                                                *)

Request == [email : Emails, userName : UserNames, password : Passwords]
Checks == {"email", "userName"}
Statuses == {"ok", "badRequest", "unauthorised", "serverError"}

Idle == [pc |-> "idle"]
Checking == [pc : {"findByUserName", "createProfile"}, request : Request,
             mark : Nat, blind : SUBSET Checks]
Creating == [pc : {"createUser"}, request : Request, profile : Ids \cup {Null},
             mark : Nat, blind : SUBSET Checks]
Verifying == [pc : {"verifyPassword", "verifyServerPassword"}, password : Passwords,
              user : User]
Redeeming == [pc : {"findToken"}, token : RefreshToken]
Redeemed == [pc : {"findUser"}, token : RefreshToken, owner : Ids]
SessionOps == {"register", "login", "refresh"}
Signing == [pc : {"removeTokens", "signRefresh"}, op : SessionOps, user : User,
            session : Ids, access : AccessToken]
Saving == [pc : {"saveToken"}, op : SessionOps, user : User, session : Ids,
           access : AccessToken, refresh : RefreshToken]
Answering == [pc : {"answerTokens"}, op : SessionOps, user : User, access : AccessToken,
              refresh : RefreshToken]
Decoded == [pc : {"decoded"}, token : AccessToken]
Granting == [pc : {"signServerToken"}, access : AccessToken]
Answered == [pc : {"done"}, op : Handlers, status : Statuses, user : User \cup {NoUser},
             token : AccessToken \cup RefreshToken \cup {Garbage, NoToken}]

Local == {Idle} \cup Checking \cup Creating \cup Verifying \cup Redeeming \cup Redeemed
         \cup Signing \cup Saving \cup Answering \cup Decoded \cup Granting \cup Answered

Free(c) == call[c].pc \in {"idle", "done"}
Active(c) == ~Free(c)

Becomes(c, local) == call' = [call EXCEPT ![c] = local]
(* The call is answered.  `token` is the one it presented, if any. *)
Answers(c, op, token, user, status) ==
  Becomes(c, [pc |-> "done", op |-> op, status |-> status, user |-> user, token |-> token])
Refuses(c, op, token, status) == Answers(c, op, token, NoUser, status)

(* A new call of op in slot c. *)
Starts(c, op) == Free(c) /\ op \in Ops /\ served < MaxCalls /\ served' = served + 1

-----------------------------------------------------------------------------
(* The database. *)

Fault == faults < MaxFaults /\ faults' = faults + 1
NoFault == faults' = faults

(* findOne: any one of the documents that match, or null; the repositories *)
(* also turn an error into null.                                           *)
FindOne(docs, found, none) ==
  \/ found \in docs /\ NoFault
  \/ found = none /\ docs = {} /\ NoFault
  \/ found = none /\ docs # {} /\ Fault

(* An insert is acknowledged, refused, or stored although an error is reported. *)
Outcomes == {"acknowledged", "refused", "unacknowledged"}
Insert(docs, doc, outcome) == IF outcome = "refused" THEN docs ELSE docs \cup {doc}
Writes(outcome) == IF outcome = "acknowledged" THEN NoFault ELSE Fault

(* What the profile repository returns of an insert: null after an error.   *)
(* Mutants: the entity that was to be inserted; nothing at all.             *)
ReturnedUnchecked(id, outcome) == id
ReturnedNothing(id, outcome) == Null
Returned(id, outcome) == IF outcome = "acknowledged" THEN id ELSE Null

(* Only the user repository lets the error of an insert through.  Mutant: it *)
(* swallows the error as the others do.                                      *)
ThrowsNothing(outcome) == FALSE
Throws(outcome) == outcome # "acknowledged"

(* Mutants: a filter that is lost, a check that is dropped. *)
AnyUser(key) == users
NoUserAtAll(key) == {}

ByEmail(email) == {u \in users : u.email = email}
ByUserName(userName) == {u \in users : u.userName = userName}
ById(id) == {u \in users : u.id = id}
ByTokenAndSession(t, session) == {d \in refreshTokens : d.token = t /\ d.session = session}

(* findByUserId asks for a field `_user` that no document has and populates *)
(* a path the schema does not have: it always answers [].                   *)
FindByUserId(id) == {}
(* remove of an array: the deletion is commented out.  Mutant: it is there,  *)
(* but its filter is lost.                                                   *)
RemoveEverybodys(docs) == {}
RemoveAll(docs) == refreshTokens

(* calculateExpiryDate: seven calendar days from now in local time. *)
ExpiryDate == now + RefreshTTL + CalendarShift(now)

-----------------------------------------------------------------------------
(* register *)

(* What a check could not see because an error was taken for "nobody". *)
MissedBy(check) == IF faults' = faults THEN {} ELSE {check}

(* findByEmail answers: 400 if it found someone. *)
Register(c) ==
  /\ Starts(c, "register")
  /\ \E request \in Request, found \in users \cup {NoUser} :
       /\ FindOne(ByEmail(request.email), found, NoUser)
       /\ \/ found # NoUser /\ Refuses(c, "register", NoToken, "badRequest")
          \/ /\ found = NoUser
             /\ Becomes(c, [pc |-> "findByUserName", request |-> request,
                            mark |-> lastId, blind |-> MissedBy("email")])
  /\ UNCHANGED <<store, lastId, now, issued>>

(* Mutant: the handler never answers when the user name is taken. *)
RegisterFreeUserName(c) ==
  /\ call[c].pc = "findByUserName"
  /\ FindOne(ByUserName(call[c].request.userName), NoUser, NoUser)
  /\ Becomes(c, [pc |-> "createProfile", request |-> call[c].request,
                 mark |-> call[c].mark, blind |-> call[c].blind \cup MissedBy("userName")])
  /\ UNCHANGED <<store, lastId, now, issued, served>>

RegisterUserName(c) ==
  /\ call[c].pc = "findByUserName"
  /\ \E found \in users \cup {NoUser} :
       /\ FindOne(ByUserName(call[c].request.userName), found, NoUser)
       /\ \/ found # NoUser /\ Refuses(c, "register", NoToken, "badRequest")
          \/ /\ found = NoUser
             /\ Becomes(c, [pc |-> "createProfile", request |-> call[c].request,
                            mark |-> call[c].mark,
                            blind |-> call[c].blind \cup MissedBy("userName")])
  /\ UNCHANGED <<store, lastId, now, issued, served>>

(* The profile repository turns a failed insert into null, and register goes *)
(* on with a user without profile.                                           *)
RegisterProfile(c) ==
  /\ call[c].pc = "createProfile"
  /\ lastId' = lastId + 1
  /\ \E outcome \in Outcomes :
       /\ Writes(outcome)
       /\ profiles' = Insert(profiles, lastId', outcome)
       /\ Becomes(c, [pc |-> "createUser", request |-> call[c].request,
                      profile |-> Returned(lastId', outcome),
                      mark |-> call[c].mark, blind |-> call[c].blind])
  /\ UNCHANGED <<users, refreshTokens, now, issued, served>>

(* The user repository lets the error through: 500.  Otherwise a session    *)
(* begins and the access token is signed, its claims `email` and `id`       *)
(* holding each other's value.                                              *)
RegisterUser(c) ==
  LET request == call[c].request
      user == [id |-> lastId + 1, email |-> request.email, userName |-> request.userName,
               password |-> request.password, profile |-> call[c].profile]
      session == lastId + 2
  IN
  /\ call[c].pc = "createUser"
  /\ lastId' = lastId + 2
  /\ \E outcome \in Outcomes :
       /\ Writes(outcome)
       /\ users' = Insert(users, user, outcome)
       /\ \/ Throws(outcome) /\ Refuses(c, "register", NoToken, "serverError")
          \/ /\ ~Throws(outcome)
             /\ Becomes(c, [pc |-> "signRefresh", op |-> "register", user |-> user,
                            session |-> session,
                            access |-> Access(user.id, user.email, session)])
  /\ UNCHANGED <<profiles, refreshTokens, now, issued, served>>

-----------------------------------------------------------------------------
(* login *)

Login(c) ==
  /\ Starts(c, "login")
  /\ \E email \in Emails, password \in Passwords, found \in users \cup {NoUser} :
       /\ FindOne(ByEmail(email), found, NoUser)
       /\ \/ found = NoUser /\ Refuses(c, "login", NoToken, "badRequest")
          \/ /\ found # NoUser
             /\ Becomes(c, [pc |-> "verifyPassword", password |-> password, user |-> found])
  /\ UNCHANGED <<store, lastId, now, issued>>

(* bcrypt compares the passwords; a session begins and the access token is signed. *)
LoginVerifyPassword(c) ==
  LET user == call[c].user IN
  /\ call[c].pc = "verifyPassword"
  /\ \/ /\ call[c].password # user.password
        /\ Refuses(c, "login", NoToken, "badRequest")
        /\ UNCHANGED lastId
     \/ /\ call[c].password = user.password
        /\ lastId' = lastId + 1
        /\ Becomes(c, [pc |-> "removeTokens", op |-> "login", user |-> user,
                       session |-> lastId', access |-> Access(user.email, user.id, lastId')])
  /\ UNCHANGED <<store, now, issued, served, faults>>

(* The tokens of the account's other sessions are looked up and removed: *)
(* `length >= 0` always holds, but see FindByUserId and RemoveAll.       *)
LoginRemoveTokens(c) ==
  /\ call[c].pc = "removeTokens"
  /\ refreshTokens' = RemoveAll(FindByUserId(call[c].user.id))
  /\ Becomes(c, [pc |-> "signRefresh", op |-> "login", user |-> call[c].user,
                 session |-> call[c].session, access |-> call[c].access])
  /\ UNCHANGED <<users, profiles, lastId, now, issued, served, faults>>

-----------------------------------------------------------------------------
(* refresh *)

(* A token that does not decode leaves undefined to be destructured: 500. *)
RefreshCall(c) ==
  /\ Starts(c, "refresh")
  /\ \E t \in issued \cup {Garbage} :
       \/ DecodesAsRefresh(t) /\ Becomes(c, [pc |-> "findToken", token |-> t])
       \/ ~DecodesAsRefresh(t) /\ Refuses(c, "refresh", t, "serverError")
  /\ UNCHANGED <<store, lastId, now, issued, faults>>

NoDoc == [id |-> Null]
(* Mutant: a document is refused at the very time it expires. *)
StrictlyCurrent == {d \in refreshTokens : d.expiryDate > now}
Current == {d \in refreshTokens : d.expiryDate >= now}

(* The document of the token with its user populated: 401 unless current. *)
RefreshFindToken(c) ==
  LET token == call[c].token IN
  /\ call[c].pc = "findToken"
  /\ \E found \in refreshTokens \cup {NoDoc} :
       /\ FindOne(ByTokenAndSession(token, token.session), found, NoDoc)
       /\ \/ found \notin Current /\ Refuses(c, "refresh", token, "unauthorised")
          \/ /\ found \in Current
             /\ Becomes(c, [pc |-> "findUser", token |-> token, owner |-> found.user])
  /\ UNCHANGED <<store, lastId, now, issued, served>>

(* The account is read again: 401 without it.  The access token is signed,  *)
(* its claims swapped as in register.                                       *)
RefreshFindUser(c) ==
  LET token == call[c].token IN
  /\ call[c].pc = "findUser"
  /\ \E found \in users \cup {NoUser} :
       /\ FindOne(ById(call[c].owner), found, NoUser)
       /\ \/ found = NoUser /\ Refuses(c, "refresh", token, "unauthorised")
          \/ /\ found # NoUser
             /\ Becomes(c, [pc |-> "signRefresh", op |-> "refresh", user |-> found,
                            session |-> token.session,
                            access |-> Access(found.id, found.email, token.session)])
  /\ UNCHANGED <<store, lastId, now, issued, served>>

-----------------------------------------------------------------------------
(* The last segments of register, login and refresh: the refresh token is   *)
(* signed, a NEW document is built and inserted (the builder of             *)
(* RefreshTokenEntity never keeps an _id, so refresh inserts as well), and  *)
(* the call is answered, whether or not the insert succeeded.               *)

SignRefreshToken(c) ==
  LET user == call[c].user
      session == call[c].session
  IN
  /\ call[c].pc = "signRefresh"
  /\ Becomes(c, [pc |-> "saveToken", op |-> call[c].op, user |-> user, session |-> session,
                 access |-> call[c].access, refresh |-> Refresh(user.id, session)])
  /\ UNCHANGED <<store, lastId, now, issued, served, faults>>

SaveRefreshToken(c) ==
  LET doc == [id |-> lastId + 1, token |-> call[c].refresh, session |-> call[c].session,
              user |-> call[c].user.id, expiryDate |-> ExpiryDate]
  IN
  /\ call[c].pc = "saveToken"
  /\ lastId' = lastId + 1
  /\ \E outcome \in Outcomes :
       /\ Writes(outcome)
       /\ refreshTokens' = Insert(refreshTokens, doc, outcome)
  /\ Becomes(c, [pc |-> "answerTokens", op |-> call[c].op, user |-> call[c].user,
                 access |-> call[c].access, refresh |-> call[c].refresh])
  /\ UNCHANGED <<users, profiles, now, issued, served>>

AnswerTokens(c) ==
  /\ call[c].pc = "answerTokens"
  /\ issued' = issued \cup {call[c].access, call[c].refresh}
  /\ Answers(c, call[c].op, NoToken, call[c].user, "ok")
  /\ UNCHANGED <<store, lastId, now, served, faults>>

-----------------------------------------------------------------------------
(* verify, which every guarded request goes through *)

Verify(c) ==
  /\ Starts(c, "verify")
  /\ \E t \in issued \cup {Garbage} :
       \/ DecodesAsAccess(t) /\ Becomes(c, [pc |-> "decoded", token |-> t])
       \/ ~DecodesAsAccess(t) /\ Refuses(c, "verify", t, "unauthorised")
  /\ UNCHANGED <<store, lastId, now, issued, faults>>

(* The account is the one found under the claim `email`. *)
VerifyFindUser(c) ==
  LET token == call[c].token IN
  /\ call[c].pc = "decoded"
  /\ \E found \in users \cup {NoUser} :
       /\ FindOne(ByEmail(token.email), found, NoUser)
       /\ \/ found = NoUser /\ Refuses(c, "verify", token, "unauthorised")
          \/ found # NoUser /\ Answers(c, "verify", token, found, "ok")
  /\ UNCHANGED <<store, lastId, now, issued, served>>

-----------------------------------------------------------------------------
(* generateTokenForServerAccess: a login whose token never expires and that *)
(* keeps no refresh token.                                                  *)

ServerLogin(c) ==
  /\ Starts(c, "serverLogin")
  /\ \E email \in Emails, password \in Passwords, found \in users \cup {NoUser} :
       /\ FindOne(ByEmail(email), found, NoUser)
       /\ \/ found = NoUser /\ Refuses(c, "serverLogin", NoToken, "badRequest")
          \/ /\ found # NoUser
             /\ Becomes(c, [pc |-> "verifyServerPassword", password |-> password,
                            user |-> found])
  /\ UNCHANGED <<store, lastId, now, issued>>

ServerVerifyPassword(c) ==
  LET user == call[c].user IN
  /\ call[c].pc = "verifyServerPassword"
  /\ \/ /\ call[c].password # user.password
        /\ Refuses(c, "serverLogin", NoToken, "badRequest")
        /\ UNCHANGED lastId
     \/ /\ call[c].password = user.password
        /\ lastId' = lastId + 1
        /\ Becomes(c, [pc |-> "signServerToken",
                       access |-> ServerAccess(user.email, user.id, lastId')])
  /\ UNCHANGED <<store, now, issued, served, faults>>

ServerAnswer(c) ==
  /\ call[c].pc = "signServerToken"
  /\ issued' = issued \cup {call[c].access}
  /\ Answers(c, "serverLogin", NoToken, NoUser, "ok")
  /\ UNCHANGED <<store, lastId, now, served, faults>>

-----------------------------------------------------------------------------

Tick ==
  /\ now < MaxTime
  /\ now' = now + 1
  /\ UNCHANGED <<store, lastId, call, issued, served, faults>>

(* The process dies: the calls it was serving are never answered. *)
Crash ==
  /\ Fault
  /\ \E c \in Calls : Active(c)
  /\ call' = [c \in Calls |-> IF Active(c) THEN Idle ELSE call[c]]
  /\ UNCHANGED <<store, lastId, now, issued, served>>

Init ==
  /\ users = {} /\ profiles = {} /\ refreshTokens = {}
  /\ lastId = 0 /\ now = 0
  /\ call = [c \in Calls |-> Idle]
  /\ issued = {}
  /\ served = 0 /\ faults = 0

(* The next segment of a call being served. *)
Proceed(c) ==
  \/ RegisterUserName(c) \/ RegisterProfile(c) \/ RegisterUser(c)
  \/ LoginVerifyPassword(c) \/ LoginRemoveTokens(c)
  \/ RefreshFindToken(c) \/ RefreshFindUser(c)
  \/ SignRefreshToken(c) \/ SaveRefreshToken(c) \/ AnswerTokens(c)
  \/ VerifyFindUser(c)
  \/ ServerVerifyPassword(c) \/ ServerAnswer(c)

Arrive(c) ==
  Register(c) \/ Login(c) \/ RefreshCall(c) \/ Verify(c) \/ ServerLogin(c)

Next == Tick \/ Crash \/ \E c \in Calls : Arrive(c) \/ Proceed(c)

Spec == Init /\ [][Next]_vars

(* The event loop runs every continuation whose answer came, and the driver *)
(* answers every operation, with an error after its timeout if need be.     *)
FairSpec == Spec /\ \A c \in Calls : WF_vars(Proceed(c))

-----------------------------------------------------------------------------
(* Properties. *)

(* The type invariant. *)
TypeOK ==
  /\ users \subseteq User
  /\ profiles \subseteq Ids
  /\ refreshTokens \subseteq RefreshDoc
  /\ lastId \in Nat /\ now \in 0..MaxTime /\ served \in Nat /\ faults \in Nat
  /\ call \in [Calls -> Local]
  /\ issued \subseteq AccessToken \cup RefreshToken

(* The account a token was signed for: register and refresh put its id under *)
(* `email`.                                                                  *)
Subject(t) == IF t.id \in Ids THEN t.id ELSE t.email

(* Who holds a session: by a stored document or by a token handed out. *)
Holdings == {[session |-> d.session, user |-> d.user] : d \in refreshTokens}
            \cup {[session |-> t.session, user |-> Subject(t)] : t \in issued}

(* A session belongs to one account for ever, through every refresh: all its *)
(* documents and all the tokens handed out for it name the same account.     *)
SessionHasOneAccount ==
  \A a, b \in Holdings : a.session = b.session => a.user = b.user

(* Every token handed out and every stored refresh token is for an account   *)
(* that exists, whatever failed on the way, and an access token carries that *)
(* account's own address.                                                    *)
TokensNameAccounts ==
  /\ \A d \in refreshTokens : \E u \in users : d.user = u.id
  /\ \A t \in issued : \E u \in users :
       /\ Subject(t) = u.id
       /\ t.kind # "refresh" => {t.email, t.id} = {u.email, u.id}

(* No two accounts share a profile, and the profile an account refers to has *)
(* been stored: an account whose profile was not stored refers to none.      *)
ProfileNotShared ==
  \A u, v \in users :
    /\ u.profile # Null => u.profile \in profiles
    /\ u.profile = v.profile /\ u.profile # Null => u = v

(* verify accepts a token for the account it was signed for, unless two      *)
(* accounts share its address: then it may be taken for the other's.  A      *)
(* token with swapped claims is never accepted.                              *)
SharedEmail(u) == \E v \in users : v.id # u.id /\ v.email = u.email
AcceptedIdentity ==
  \A c \in Calls : call[c].pc = "done" /\ call[c].op = "verify" /\ call[c].status = "ok" =>
    LET t == call[c].token
        u == call[c].user
    IN  t.kind # "refresh" /\ t.email = u.email /\ (t.id = u.id \/ SharedEmail(u))

(* A login is meant to remove the tokens of its account's earlier sessions   *)
(* (LoginRevokesOldTokens).  Of the other refresh tokens handed out, each is *)
(* backed by a document unless a fault of its own took that: the error of a  *)
(* failed insert is swallowed, but no refresh, no registration and no other  *)
(* account's login takes a token away.                                       *)
Backed(t) == \E d \in refreshTokens : d.token = t /\ d.session = t.session
Superseded(t) ==
  \/ \E r \in issued : r.kind = "refresh" /\ r.id = t.id /\ r.session > t.session
  \/ \E c \in Calls : /\ call[c].pc \in {"signRefresh", "saveToken", "answerTokens"}
                      /\ call[c].user.id = t.id /\ call[c].access.session > t.session
AnsweredTokensStored ==
  Cardinality({t \in issued : t.kind = "refresh" /\ ~Backed(t) /\ ~Superseded(t)}) <= faults

(* While nothing fails, a client whose refresh is refused sent no refresh    *)
(* token or an expired one, or a document of it has expired.                 *)
RefreshRefusedOnlyIfExpired ==
  faults = 0 =>
    \A c \in Calls : call[c].pc = "done" /\ call[c].op = "refresh" /\ call[c].status # "ok" =>
      \/ ~DecodesAsRefresh(call[c].token)
      \/ \E d \in refreshTokens : d.token = call[c].token /\ d.expiryDate < now

(* A second account with an address or a user name in use comes only from a  *)
(* registration that overlapped the first one's, or that took a database     *)
(* error for the answer "nobody": an account that was there when the checks  *)
(* began is never duplicated.                                                *)
DuplicateNeedsOverlap ==
  [][\A c \in Calls : call[c].pc = "createUser" /\ call'[c] # call[c] =>
       \A u \in users' \ users, v \in users :
         /\ u.email = v.email => v.id > call[c].mark \/ "email" \in call[c].blind
         /\ u.userName = v.userName =>
              v.id > call[c].mark \/ "userName" \in call[c].blind]_vars

(* A stored profile that no account refers to and no registration will use   *)
(* is left only by a step in which the database or the process fails.        *)
InUse == {u.profile : u \in users} \cup
         {call[c].profile : c \in {c \in Calls : call[c].pc = "createUser"}}
OrphanOnlyByFault == [][profiles' \ InUse' \subseteq profiles \ InUse \/ faults' > faults]_vars

(* The detailed specification implements the directory of sessions. *)
Directory == INSTANCE SessionDirectory WITH
  accounts <- {u.id : u \in users}, holdings <- Holdings
ImplementsDirectory == Directory!Spec

(* Every call is answered, or lost in a crash. *)
EveryCallAnswered == \A c \in Calls : Active(c) ~> Free(c)

-----------------------------------------------------------------------------
(* What messages and comments of the repository say, and the code does not do. *)

(* The access token of a response is good for the guarded endpoints: while   *)
(* nothing fails, verify accepts it until it expires.                        *)
IssuedAccessTokenAccepted ==
  faults = 0 =>
    \A c \in Calls : call[c].pc = "done" /\ call[c].op = "verify"
                     /\ DecodesAsAccess(call[c].token) => call[c].status = "ok"

(* login removes the refresh tokens of the account's earlier sessions. *)
LoginRevokesOldTokens ==
  [][\A c \in Calls : call[c].pc = "removeTokens" /\ call'[c].pc = "signRefresh" =>
       \A d \in refreshTokens' : d.user # call[c].user.id]_vars

=============================================================================
