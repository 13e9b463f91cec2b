--------------------------- MODULE AuthServiceProofs ---------------------------
(***************************************************************************)
(* Proofs about AuthService, for every set of slots, addresses, names and  *)
(* passwords and every value of the bounds: types, and what registrations  *)
(* leave behind.                                                           *)
(***************************************************************************)
EXTENDS AuthService, TLAPS

-----------------------------------------------------------------------------
(* Type correctness.  The local variables of a call are typed segment by    *)
(* segment in Local, so that TypeOK is inductive as it stands.              *)

(* The local variables of a call, by the segment it is in. *)
LEMMA LocalBySegment ==
  ASSUME NEW r \in Local
  PROVE  /\ r.pc \in {"findByUserName", "createProfile"} => r \in Checking
         /\ r.pc = "createUser" => r \in Creating
         /\ r.pc \in {"verifyPassword", "verifyServerPassword"} => r \in Verifying
         /\ r.pc = "findToken" => r \in Redeeming
         /\ r.pc = "findUser" => r \in Redeemed
         /\ r.pc \in {"removeTokens", "signRefresh"} => r \in Signing
         /\ r.pc = "saveToken" => r \in Saving
         /\ r.pc = "answerTokens" => r \in Answering
         /\ r.pc = "decoded" => r \in Decoded
         /\ r.pc = "signServerToken" => r \in Granting
         /\ r.pc = "done" => r \in Answered
  BY DEF Local, Idle, Checking, Creating, Verifying, Redeeming, Redeemed, Signing,
         Saving, Answering, Decoded, Granting, Answered

(* A step of the call in slot c keeps the type of all calls. *)
LEMMA BecomesType ==
  ASSUME call \in [Calls -> Local], NEW c \in Calls, NEW r \in Local, Becomes(c, r)
  PROVE  call' \in [Calls -> Local]
  BY DEF Becomes

LEMMA AnswersType ==
  ASSUME call \in [Calls -> Local], NEW c \in Calls, NEW op \in Handlers, NEW status \in Statuses,
         NEW user \in User \cup {NoUser},
         NEW token \in AccessToken \cup RefreshToken \cup {Garbage, NoToken},
         Answers(c, op, token, user, status)
  PROVE  call' \in [Calls -> Local]
  <1> DEFINE r == [pc |-> "done", op |-> op, status |-> status, user |-> user, token |-> token]
  <1>1. r \in Answered
    BY DEF Answered
  <1>2. r \in Local
    BY <1>1 DEF Local
  <1> QED
    BY <1>2, BecomesType DEF Answers

(* What a lookup finds among the accounts is one of them, or no one. *)
LEMMA FoundUser ==
  ASSUME users \subseteq User, NEW found \in users \cup {NoUser}
  PROVE  found # NoUser => found \in User /\ found \in users
  OBVIOUS

(* Tokens as they are signed. *)
LEMMA SignedTypes ==
  ASSUME now \in 0..MaxTime, NEW id \in Ids, NEW email \in Emails, NEW session \in Ids
  PROVE  /\ Access(email, id, session) \in AccessToken
         /\ Access(id, email, session) \in AccessToken
         /\ ServerAccess(email, id, session) \in AccessToken
         /\ Refresh(id, session) \in RefreshToken
  BY TTLAssumption, BoundAssumption DEF Access, ServerAccess, Refresh, AccessToken, RefreshToken, Ids, Null, Never

LEMMA TypeRegister ==
  ASSUME TypeOK, NEW c \in Calls,
         Register(c) \/ RegisterUserName(c) \/ RegisterProfile(c) \/ RegisterUser(c)
  PROVE  TypeOK'
  <1> USE DEF TypeOK
  <1>1. CASE Register(c)
    <2>1. PICK request \in Request, found \in users \cup {NoUser} :
            \/ found # NoUser /\ Refuses(c, "register", NoToken, "badRequest")
            \/ Becomes(c, [pc |-> "findByUserName", request |-> request,
                           mark |-> lastId, blind |-> MissedBy("email")])
      BY <1>1 DEF Register
    <2>3. [pc |-> "findByUserName", request |-> request,
           mark |-> lastId, blind |-> MissedBy("email")] \in Local
      BY DEF Local, Checking, MissedBy, Checks
    <2>4. call' \in [Calls -> Local]
      BY <2>1, <2>3, BecomesType, AnswersType DEF Refuses, Statuses, Handlers
    <2> QED
      BY <1>1, <2>4 DEF Register, Starts, FindOne, Fault, NoFault, store
  <1>2. CASE RegisterUserName(c)
    <2> DEFINE r == [pc |-> "createProfile", request |-> call[c].request,
                     mark |-> call[c].mark,
                     blind |-> call[c].blind \cup MissedBy("userName")]
    <2>1. Refuses(c, "register", NoToken, "badRequest") \/ Becomes(c, r)
      BY <1>2 DEF RegisterUserName
    <2>2. call[c] \in Checking
      BY <1>2, LocalBySegment DEF RegisterUserName
    <2>3. r \in Local
      BY <2>2 DEF Local, Checking, MissedBy, Checks
    <2>4. call' \in [Calls -> Local]
      BY <2>1, <2>3, BecomesType, AnswersType DEF Refuses, Statuses, Handlers
    <2> QED
      BY <1>2, <2>4 DEF RegisterUserName, FindOne, Fault, NoFault, store
  <1>3. CASE RegisterProfile(c)
    <2>1. PICK outcome \in Outcomes :
            /\ Writes(outcome)
            /\ profiles' = Insert(profiles, lastId', outcome)
            /\ Becomes(c, [pc |-> "createUser", request |-> call[c].request,
                           profile |-> Returned(lastId', outcome),
                           mark |-> call[c].mark, blind |-> call[c].blind])
      BY <1>3 DEF RegisterProfile
    <2>2. call[c] \in Checking
      BY <1>3, LocalBySegment DEF RegisterProfile
    <2>3. lastId' \in Ids
      BY <1>3 DEF RegisterProfile, Ids, Null
    <2>4. [pc |-> "createUser", request |-> call[c].request,
           profile |-> Returned(lastId', outcome),
           mark |-> call[c].mark, blind |-> call[c].blind] \in Local
      BY <2>2, <2>3 DEF Local, Checking, Creating, Returned
    <2>5. call' \in [Calls -> Local]
      BY <2>1, <2>4, BecomesType
    <2> QED
      BY <1>3, <2>1, <2>3, <2>5
      DEF RegisterProfile, Insert, Writes, Fault, NoFault, Ids
  <1>4. CASE RegisterUser(c)
    <2> DEFINE user == [id |-> lastId + 1, email |-> call[c].request.email,
                        userName |-> call[c].request.userName,
                        password |-> call[c].request.password,
                        profile |-> call[c].profile]
               r == [pc |-> "signRefresh", op |-> "register", user |-> user,
                     session |-> lastId + 2,
                     access |-> Access(user.id, user.email, lastId + 2)]
    <2>1. PICK outcome \in Outcomes :
            /\ Writes(outcome)
            /\ users' = Insert(users, user, outcome)
            /\ Refuses(c, "register", NoToken, "serverError") \/ Becomes(c, r)
      BY <1>4 DEF RegisterUser
    <2>2. call[c] \in Creating
      BY <1>4, LocalBySegment DEF RegisterUser
    <2>3. user \in User /\ lastId + 2 \in Ids /\ user.id \in Ids /\ user.email \in Emails
      BY <2>2 DEF Creating, Request, User, Ids, Null
    <2>4. Access(user.id, user.email, lastId + 2) \in AccessToken
      BY <2>3, SignedTypes
    <2>5. r \in Local
      BY <2>3, <2>4 DEF Local, Signing, SessionOps
    <2>6. call' \in [Calls -> Local]
      BY <2>1, <2>5, BecomesType, AnswersType DEF Refuses, Statuses, Handlers
    <2> QED
      BY <1>4, <2>1, <2>3, <2>6 DEF RegisterUser, Insert, Writes, Fault, NoFault
  <1> QED
    BY <1>1, <1>2, <1>3, <1>4

LEMMA TypeLogin ==
  ASSUME TypeOK, NEW c \in Calls,
         \/ Login(c) \/ LoginVerifyPassword(c) \/ LoginRemoveTokens(c)
         \/ ServerLogin(c) \/ ServerVerifyPassword(c) \/ ServerAnswer(c)
  PROVE  TypeOK'
  <1> USE DEF TypeOK
  <1>1. CASE Login(c)
    <2>1. PICK password \in Passwords, found \in users \cup {NoUser} :
            \/ Refuses(c, "login", NoToken, "badRequest")
            \/ /\ found # NoUser
               /\ Becomes(c, [pc |-> "verifyPassword", password |-> password, user |-> found])
      BY <1>1 DEF Login
    <2>2. found # NoUser =>
            [pc |-> "verifyPassword", password |-> password, user |-> found] \in Local
      BY FoundUser DEF Local, Verifying
    <2>3. call' \in [Calls -> Local]
      BY <2>1, <2>2, BecomesType, AnswersType DEF Refuses, Statuses, Handlers
    <2> QED
      BY <1>1, <2>3 DEF Login, Starts, FindOne, Fault, NoFault, store
  <1>2. CASE LoginVerifyPassword(c)
    <2> DEFINE u == call[c].user
               r == [pc |-> "removeTokens", op |-> "login", user |-> u,
                     session |-> lastId + 1, access |-> Access(u.email, u.id, lastId + 1)]
    <2>1. Refuses(c, "login", NoToken, "badRequest") \/ Becomes(c, r)
      BY <1>2 DEF LoginVerifyPassword
    <2>2. u \in User /\ u.id \in Ids /\ u.email \in Emails /\ lastId + 1 \in Ids
      BY <1>2, LocalBySegment DEF LoginVerifyPassword, Verifying, User, Ids, Null
    <2>3. r \in Local
      BY <2>2, SignedTypes DEF Local, Signing, SessionOps
    <2>4. call' \in [Calls -> Local]
      BY <2>1, <2>3, BecomesType, AnswersType DEF Refuses, Statuses, Handlers
    <2> QED
      BY <1>2, <2>4 DEF LoginVerifyPassword, store
  <1>3. CASE LoginRemoveTokens(c)
    <2>1. call[c] \in Signing
      BY <1>3, LocalBySegment DEF LoginRemoveTokens
    <2>2. [pc |-> "signRefresh", op |-> "login", user |-> call[c].user,
           session |-> call[c].session, access |-> call[c].access] \in Local
      BY <2>1 DEF Local, Signing, SessionOps
    <2>3. call' \in [Calls -> Local]
      BY <1>3, <2>2, BecomesType DEF LoginRemoveTokens
    <2> QED
      BY <1>3, <2>3 DEF LoginRemoveTokens, RemoveAll
  <1>4. CASE ServerLogin(c)
    <2>1. PICK password \in Passwords, found \in users \cup {NoUser} :
            \/ Refuses(c, "serverLogin", NoToken, "badRequest")
            \/ /\ found # NoUser
               /\ Becomes(c, [pc |-> "verifyServerPassword", password |-> password,
                              user |-> found])
      BY <1>4 DEF ServerLogin
    <2>2. found # NoUser =>
            [pc |-> "verifyServerPassword", password |-> password, user |-> found] \in Local
      BY FoundUser DEF Local, Verifying
    <2>3. call' \in [Calls -> Local]
      BY <2>1, <2>2, BecomesType, AnswersType DEF Refuses, Statuses, Handlers
    <2> QED
      BY <1>4, <2>3 DEF ServerLogin, Starts, FindOne, Fault, NoFault, store
  <1>5. CASE ServerVerifyPassword(c)
    <2> DEFINE u == call[c].user
               r == [pc |-> "signServerToken",
                     access |-> ServerAccess(u.email, u.id, lastId + 1)]
    <2>1. Refuses(c, "serverLogin", NoToken, "badRequest") \/ Becomes(c, r)
      BY <1>5 DEF ServerVerifyPassword
    <2>2. u \in User /\ u.id \in Ids /\ u.email \in Emails /\ lastId + 1 \in Ids
      BY <1>5, LocalBySegment DEF ServerVerifyPassword, Verifying, User, Ids, Null
    <2>3. r \in Local
      BY <2>2, SignedTypes DEF Local, Granting
    <2>4. call' \in [Calls -> Local]
      BY <2>1, <2>3, BecomesType, AnswersType DEF Refuses, Statuses, Handlers
    <2> QED
      BY <1>5, <2>4 DEF ServerVerifyPassword, store
  <1>6. CASE ServerAnswer(c)
    <2>1. call[c].access \in AccessToken
      BY <1>6, LocalBySegment DEF ServerAnswer, Granting
    <2>2. call' \in [Calls -> Local]
      BY <1>6, AnswersType DEF ServerAnswer, Statuses, Handlers
    <2> QED
      BY <1>6, <2>1, <2>2 DEF ServerAnswer, store
  <1> QED
    BY <1>1, <1>2, <1>3, <1>4, <1>5, <1>6

LEMMA TypeTokens ==
  ASSUME TypeOK, NEW c \in Calls,
         \/ RefreshCall(c) \/ RefreshFindToken(c) \/ RefreshFindUser(c)
         \/ SignRefreshToken(c) \/ SaveRefreshToken(c) \/ AnswerTokens(c)
         \/ Verify(c) \/ VerifyFindUser(c)
  PROVE  TypeOK'
  <1> USE DEF TypeOK
  <1>1. CASE RefreshCall(c)
    <2>1. PICK t \in issued \cup {Garbage} :
            \/ DecodesAsRefresh(t) /\ Becomes(c, [pc |-> "findToken", token |-> t])
            \/ Refuses(c, "refresh", t, "serverError")
      BY <1>1 DEF RefreshCall
    <2>2. DecodesAsRefresh(t) => [pc |-> "findToken", token |-> t] \in Local
      BY DEF DecodesAsRefresh, AccessToken, RefreshToken, Garbage, Local, Redeeming
    <2>3. call' \in [Calls -> Local]
      BY <2>1, <2>2, BecomesType, AnswersType DEF Refuses, Statuses, Handlers
    <2> QED
      BY <1>1, <2>3 DEF RefreshCall, Starts, store
  <1>2. CASE RefreshFindToken(c)
    <2>1. call[c].token \in RefreshToken
      BY <1>2, LocalBySegment DEF RefreshFindToken, Redeeming
    <2>2. PICK found \in refreshTokens \cup {NoDoc} :
            \/ Refuses(c, "refresh", call[c].token, "unauthorised")
            \/ /\ found \in Current
               /\ Becomes(c, [pc |-> "findUser", token |-> call[c].token,
                              owner |-> found.user])
      BY <1>2 DEF RefreshFindToken
    <2>3. found \in Current =>
            [pc |-> "findUser", token |-> call[c].token, owner |-> found.user] \in Local
      BY <2>1 DEF Current, RefreshDoc, Local, Redeemed
    <2>4. call' \in [Calls -> Local]
      BY <2>1, <2>2, <2>3, BecomesType, AnswersType DEF Refuses, Statuses, Handlers
    <2> QED
      BY <1>2, <2>4 DEF RefreshFindToken, FindOne, Fault, NoFault, store
  <1>3. CASE RefreshFindUser(c)
    <2> DEFINE token == call[c].token
    <2>1. token \in RefreshToken /\ token.session \in Ids
      BY <1>3, LocalBySegment DEF RefreshFindUser, Redeemed, RefreshToken
    <2>2. PICK found \in users \cup {NoUser} :
            \/ Refuses(c, "refresh", token, "unauthorised")
            \/ /\ found # NoUser
               /\ Becomes(c, [pc |-> "signRefresh", op |-> "refresh", user |-> found,
                              session |-> token.session,
                              access |-> Access(found.id, found.email, token.session)])
      BY <1>3 DEF RefreshFindUser
    <2>3. found # NoUser => found \in User /\ found.id \in Ids /\ found.email \in Emails
      BY FoundUser DEF User
    <2>4. found # NoUser =>
            [pc |-> "signRefresh", op |-> "refresh", user |-> found,
             session |-> token.session,
             access |-> Access(found.id, found.email, token.session)] \in Local
      BY <2>1, <2>3, SignedTypes DEF Local, Signing, SessionOps
    <2>5. call' \in [Calls -> Local]
      BY <2>1, <2>2, <2>4, BecomesType, AnswersType DEF Refuses, Statuses, Handlers
    <2> QED
      BY <1>3, <2>5 DEF RefreshFindUser, FindOne, Fault, NoFault, store
  <1>4. CASE SignRefreshToken(c)
    <2> DEFINE r == [pc |-> "saveToken", op |-> call[c].op, user |-> call[c].user,
                     session |-> call[c].session, access |-> call[c].access,
                     refresh |-> Refresh(call[c].user.id, call[c].session)]
    <2>1. call[c] \in Signing
      BY <1>4, LocalBySegment DEF SignRefreshToken
    <2>2. call[c].user.id \in Ids /\ call[c].user.email \in Emails
      BY <2>1 DEF Signing, User
    <2>3. Refresh(call[c].user.id, call[c].session) \in RefreshToken
      BY <2>1, <2>2, SignedTypes DEF Signing
    <2>4. r \in Local
      BY <2>1, <2>3 DEF Signing, Saving, Local
    <2>5. call' \in [Calls -> Local]
      BY <1>4, <2>4, BecomesType DEF SignRefreshToken
    <2> QED
      BY <1>4, <2>5 DEF SignRefreshToken, store
  <1>5. CASE SaveRefreshToken(c)
    <2> DEFINE doc == [id |-> lastId + 1, token |-> call[c].refresh,
                       session |-> call[c].session, user |-> call[c].user.id,
                       expiryDate |-> ExpiryDate]
    <2>1. call[c] \in Saving
      BY <1>5, LocalBySegment DEF SaveRefreshToken
    <2>2. ExpiryDate \in Int
      BY TTLAssumption, ShiftAssumption, BoundAssumption DEF ExpiryDate
    <2>3. doc \in RefreshDoc
      BY <2>1, <2>2 DEF Saving, RefreshDoc, User, Ids, Null
    <2>4. [pc |-> "answerTokens", op |-> call[c].op, user |-> call[c].user,
           access |-> call[c].access, refresh |-> call[c].refresh] \in Local
      BY <2>1 DEF Saving, Answering, Local
    <2>5. call' \in [Calls -> Local]
      BY <1>5, <2>4, BecomesType DEF SaveRefreshToken
    <2> QED
      BY <1>5, <2>3, <2>5 DEF SaveRefreshToken, Insert, Writes, Fault, NoFault
  <1>6. CASE Verify(c)
    <2>1. PICK t \in issued \cup {Garbage} :
            \/ DecodesAsAccess(t) /\ Becomes(c, [pc |-> "decoded", token |-> t])
            \/ Refuses(c, "verify", t, "unauthorised")
      BY <1>6 DEF Verify
    <2>2. DecodesAsAccess(t) => [pc |-> "decoded", token |-> t] \in Local
      BY DEF DecodesAsAccess, AccessToken, RefreshToken, Garbage, Local, Decoded
    <2>3. call' \in [Calls -> Local]
      BY <2>1, <2>2, BecomesType, AnswersType DEF Refuses, Statuses, Handlers
    <2> QED
      BY <1>6, <2>3 DEF Verify, Starts, store
  <1>7. CASE VerifyFindUser(c)
    <2>1. call[c].token \in AccessToken
      BY <1>7, LocalBySegment DEF VerifyFindUser, Decoded
    <2>2. PICK found \in users \cup {NoUser} :
            \/ Refuses(c, "verify", call[c].token, "unauthorised")
            \/ Answers(c, "verify", call[c].token, found, "ok")
      BY <1>7 DEF VerifyFindUser
    <2>3. call' \in [Calls -> Local]
      BY <2>1, <2>2, AnswersType DEF Refuses, Statuses, Handlers
    <2> QED
      BY <1>7, <2>3 DEF VerifyFindUser, FindOne, Fault, NoFault, store
  <1>8. CASE AnswerTokens(c)
    <2>1. call[c] \in Answering
      BY <1>8, LocalBySegment DEF AnswerTokens
    <2>2. call' \in [Calls -> Local]
      BY <1>8, <2>1, AnswersType DEF AnswerTokens, Answering, Statuses, SessionOps, Handlers
    <2> QED
      BY <1>8, <2>1, <2>2 DEF AnswerTokens, Answering, store
  <1> QED
    BY <1>1, <1>2, <1>3, <1>4, <1>5, <1>6, <1>7, <1>8

LEMMA TypeStep ==
  ASSUME TypeOK, [Next]_vars
  PROVE  TypeOK'
  <1>1. CASE UNCHANGED vars
    BY <1>1 DEF TypeOK, vars
  <1>2. CASE Tick
    BY <1>2, BoundAssumption DEF TypeOK, Tick, store
  <1>3. CASE Crash
    BY <1>3 DEF TypeOK, Crash, Fault, store, Local
  <1>4. ASSUME NEW c \in Calls, Arrive(c) \/ Proceed(c)
        PROVE  TypeOK'
    BY <1>4, TypeRegister, TypeLogin, TypeTokens DEF Arrive, Proceed
  <1> QED
    BY <1>1, <1>2, <1>3, <1>4 DEF Next

(* Every collection, token and local variable keeps its type, in every       *)
(* instance.                                                                 *)
THEOREM TypeCorrect == Spec => []TypeOK
  <1>1. Init => TypeOK
    BY BoundAssumption DEF Init, TypeOK, Local
  <1>2. TypeOK /\ [Next]_vars => TypeOK'
    BY TypeStep
  <1> QED
    BY <1>1, <1>2, PTL DEF Spec


-----------------------------------------------------------------------------
(* Registrations.  The inductive invariant: what the checks of a            *)
(* registration did not find is there only if it is newer than the checks or *)
(* an error hid it, and the profile a registration has stored is its own.    *)

Registering(r) == r.pc \in {"findByUserName", "createProfile", "createUser"}

ChecksOK(r) ==
  /\ Registering(r) =>
       /\ r.mark <= lastId
       /\ \A v \in users : v.email = r.request.email => v.id > r.mark \/ "email" \in r.blind
  /\ r.pc \in {"createProfile", "createUser"} =>
       \A v \in users :
         v.userName = r.request.userName => v.id > r.mark \/ "userName" \in r.blind

HasProfile(r) == r.pc = "createUser" /\ r.profile # Null

ProfileOK(r) ==
  HasProfile(r) => r.profile \in profiles /\ \A u \in users : u.profile # r.profile

OwnProfiles ==
  \A c, d \in Calls : c # d /\ HasProfile(call[c]) /\ HasProfile(call[d]) =>
    call[c].profile # call[d].profile

OldProfiles == \A p \in profiles : p <= lastId

RegistrationInv ==
  /\ TypeOK /\ ProfileNotShared /\ OldProfiles /\ OwnProfiles
  /\ \A c \in Calls : ChecksOK(call[c]) /\ ProfileOK(call[c])

(* The handlers other than register leave registrations as they are. *)
NotRegister(c) ==
  \/ Login(c) \/ LoginVerifyPassword(c) \/ LoginRemoveTokens(c)
  \/ ServerLogin(c) \/ ServerVerifyPassword(c) \/ ServerAnswer(c)
  \/ RefreshCall(c) \/ RefreshFindToken(c) \/ RefreshFindUser(c)
  \/ SignRefreshToken(c) \/ SaveRefreshToken(c) \/ AnswerTokens(c)
  \/ Verify(c) \/ VerifyFindUser(c)

LEMMA BecomesOnly ==
  ASSUME TypeOK, NEW c \in Calls, NEW r, Becomes(c, r)
  PROVE  call'[c] = r /\ \A d \in Calls : d # c => call'[d] = call[d]
  BY DEF TypeOK, Becomes

LEMMA RefusesOnly ==
  ASSUME TypeOK, NEW c \in Calls, NEW op, NEW token, NEW user, NEW status,
         Answers(c, op, token, user, status)
  PROVE  ~Registering(call'[c]) /\ \A d \in Calls : d # c => call'[d] = call[d]
  BY BecomesOnly DEF Answers, Registering

LEMMA NotRegisterStep ==
  ASSUME TypeOK, NEW c \in Calls, NotRegister(c)
  PROVE  /\ UNCHANGED <<users, profiles>> /\ lastId <= lastId' /\ lastId' \in Nat
         /\ ~Registering(call[c]) /\ ~Registering(call'[c])
         /\ \A d \in Calls : d # c => call'[d] = call[d]
  <1>1. UNCHANGED <<users, profiles>>
    BY DEF NotRegister, Login, LoginVerifyPassword, LoginRemoveTokens, ServerLogin,
           ServerVerifyPassword, ServerAnswer, RefreshCall, RefreshFindToken, RefreshFindUser,
           SignRefreshToken, SaveRefreshToken, AnswerTokens, Verify, VerifyFindUser, store
  <1>2. lastId' = lastId \/ lastId' = lastId + 1
    BY DEF NotRegister, Login, LoginVerifyPassword, LoginRemoveTokens, ServerLogin,
           ServerVerifyPassword, ServerAnswer, RefreshCall, RefreshFindToken, RefreshFindUser,
           SignRefreshToken, SaveRefreshToken, AnswerTokens, Verify, VerifyFindUser
  <1>3. ~Registering(call[c])
    BY DEF NotRegister, Login, LoginVerifyPassword, LoginRemoveTokens, ServerLogin,
           ServerVerifyPassword, ServerAnswer, RefreshCall, RefreshFindToken, RefreshFindUser,
           SignRefreshToken, SaveRefreshToken, AnswerTokens, Verify, VerifyFindUser, Starts, Free, Registering
  <1>4. ~Registering(call'[c]) /\ \A d \in Calls : d # c => call'[d] = call[d]
    <2>1. CASE Login(c) \/ ServerLogin(c)
      <3>1. PICK pc \in {"verifyPassword", "verifyServerPassword"}, op \in Handlers,
                password \in Passwords, found \in users \cup {NoUser} :
              \/ Answers(c, op, NoToken, NoUser, "badRequest")
              \/ Becomes(c, [pc |-> pc, password |-> password, user |-> found])
        BY <2>1 DEF Login, ServerLogin, Refuses, Handlers
      <3> QED
        BY <3>1, BecomesOnly, RefusesOnly DEF Registering
    <2>2. CASE LoginVerifyPassword(c) \/ ServerVerifyPassword(c)
      BY <2>2, BecomesOnly, RefusesOnly
      DEF LoginVerifyPassword, ServerVerifyPassword, Refuses, Registering
    <2>3. CASE LoginRemoveTokens(c) \/ SignRefreshToken(c) \/ SaveRefreshToken(c)
      BY <2>3, BecomesOnly
      DEF LoginRemoveTokens, SignRefreshToken, SaveRefreshToken, Registering
    <2>4. CASE RefreshCall(c) \/ Verify(c)
      <3>1. PICK pc \in {"findToken", "decoded"}, op \in Handlers, t \in issued \cup {Garbage},
                status \in Statuses :
              \/ Answers(c, op, t, NoUser, status)
              \/ Becomes(c, [pc |-> pc, token |-> t])
        BY <2>4 DEF RefreshCall, Verify, Refuses, Handlers, Statuses
      <3> QED
        BY <3>1, BecomesOnly, RefusesOnly DEF Registering
    <2>5. CASE RefreshFindToken(c)
      <3>1. PICK found :
              \/ Answers(c, "refresh", call[c].token, NoUser, "unauthorised")
              \/ Becomes(c, [pc |-> "findUser", token |-> call[c].token, owner |-> found.user])
        BY <2>5 DEF RefreshFindToken, Refuses
      <3> QED
        BY <3>1, BecomesOnly, RefusesOnly DEF Registering
    <2>6. CASE RefreshFindUser(c)
      <3>1. PICK found :
              \/ Answers(c, "refresh", call[c].token, NoUser, "unauthorised")
              \/ Becomes(c, [pc |-> "signRefresh", op |-> "refresh", user |-> found,
                             session |-> call[c].token.session,
                             access |-> Access(found.id, found.email, call[c].token.session)])
        BY <2>6 DEF RefreshFindUser, Refuses
      <3> QED
        BY <3>1, BecomesOnly, RefusesOnly DEF Registering
    <2>7. CASE AnswerTokens(c) \/ VerifyFindUser(c) \/ ServerAnswer(c)
      BY <2>7, RefusesOnly DEF AnswerTokens, VerifyFindUser, ServerAnswer, Refuses
    <2> QED
      BY <2>1, <2>2, <2>3, <2>4, <2>5, <2>6, <2>7 DEF NotRegister
  <1> QED
    BY <1>1, <1>2, <1>3, <1>4 DEF TypeOK


LEMMA NotFound ==
  ASSUME TypeOK, NEW docs \in SUBSET users, FindOne(docs, NoUser, NoUser)
  PROVE  docs = {} \/ faults' # faults
  <1>1. NoUser \notin users
    BY DEF TypeOK, User, NoUser, Ids
  <1> QED
    BY <1>1 DEF FindOne, Fault, TypeOK

LEMMA RegisteringType ==
  ASSUME NEW r \in Local
  PROVE  /\ Registering(r) => r.mark \in Nat
         /\ HasProfile(r) => r \in Creating /\ r.profile \in Ids
  BY LocalBySegment DEF Registering, HasProfile, Checking, Creating

(* Accounts that are added later are newer than a registration's checks. *)
LEMMA KeepsChecks ==
  ASSUME NEW r \in Local, ChecksOK(r), lastId \in Nat, lastId' \in Nat, lastId <= lastId',
         \A v \in users' : v \in users \/ (v.id \in Nat /\ v.id > lastId)
  PROVE  ChecksOK(r)'
  <1>1. Registering(r) => r.mark \in Nat
    BY RegisteringType
  <1> QED
    BY <1>1 DEF ChecksOK, Registering

(* A step that touches neither accounts nor profiles, nor what a             *)
(* registration that has stored a profile holds.                             *)
LEMMA KeepsRegistrations ==
  ASSUME RegistrationInv, TypeOK', NEW c \in Calls, ChecksOK(call[c])', ~HasProfile(call'[c]),
         UNCHANGED <<users, profiles>>, lastId <= lastId',
         \A d \in Calls : d # c => call'[d] = call[d]
  PROVE  RegistrationInv'
  <1> USE DEF RegistrationInv
  <1>1. ProfileNotShared' /\ OldProfiles'
    <2>1. \A p \in profiles : p \in Nat
      BY DEF TypeOK, Ids
    <2>2. lastId \in Nat /\ lastId' \in Nat
      BY DEF TypeOK
    <2> QED
      BY <2>1, <2>2 DEF ProfileNotShared, OldProfiles
  <1>2. OwnProfiles'
    BY DEF OwnProfiles
  <1>3. ASSUME NEW d \in Calls PROVE (ChecksOK(call[d]) /\ ProfileOK(call[d]))'
    <2>1. CASE d = c
      BY <2>1 DEF ProfileOK
    <2>2. CASE d # c
      <3>1. PICK r \in Local : r = call[d]
        BY DEF TypeOK
      <3>2. ChecksOK(r)' /\ ProfileOK(r)'
        <4>1. ChecksOK(r) /\ ProfileOK(r)
          BY <3>1
        <4> QED
          BY <4>1, KeepsChecks DEF TypeOK, ProfileOK
      <3> QED
        BY <2>2, <3>1, <3>2
    <2> QED
      BY <2>1, <2>2
  <1> QED
    BY <1>1, <1>2, <1>3

LEMMA NotRegisterInv ==
  ASSUME RegistrationInv, TypeOK', NEW c \in Calls, NotRegister(c)
  PROVE  RegistrationInv'
  <1>1. /\ UNCHANGED <<users, profiles>> /\ lastId <= lastId' /\ lastId' \in Nat
        /\ ~Registering(call[c]) /\ ~Registering(call'[c])
        /\ \A d \in Calls : d # c => call'[d] = call[d]
    BY NotRegisterStep DEF RegistrationInv
  <1>2. ChecksOK(call[c])' /\ ~HasProfile(call'[c])
    BY <1>1 DEF ChecksOK, Registering, HasProfile
  <1> QED
    BY <1>1, <1>2, KeepsRegistrations

LEMMA RegisterInv ==
  ASSUME RegistrationInv, TypeOK', NEW c \in Calls, Register(c) \/ RegisterUserName(c)
  PROVE  RegistrationInv'
  <1> USE DEF RegistrationInv
  <1>1. UNCHANGED <<users, profiles, lastId>>
    BY DEF Register, RegisterUserName, store
  <1>2. CASE Register(c)
    <2>1. PICK request \in Request, found \in users \cup {NoUser} :
            /\ FindOne(ByEmail(request.email), found, NoUser)
            /\ \/ found # NoUser /\ Refuses(c, "register", NoToken, "badRequest")
               \/ /\ found = NoUser
                  /\ Becomes(c, [pc |-> "findByUserName", request |-> request,
                                 mark |-> lastId, blind |-> MissedBy("email")])
      BY <1>2 DEF Register
    <2>2. CASE Refuses(c, "register", NoToken, "badRequest")
      <3>1. ~Registering(call'[c]) /\ \A d \in Calls : d # c => call'[d] = call[d]
        BY <2>2, RefusesOnly DEF Refuses
      <3>2. ChecksOK(call[c])' /\ ~HasProfile(call'[c])
        BY <3>1 DEF ChecksOK, Registering, HasProfile
      <3> QED
        BY <1>1, <3>1, <3>2, KeepsRegistrations DEF TypeOK
    <2>3. CASE /\ found = NoUser
               /\ Becomes(c, [pc |-> "findByUserName", request |-> request,
                              mark |-> lastId, blind |-> MissedBy("email")])
      <3>1. /\ call'[c].pc = "findByUserName" /\ call'[c].request = request
            /\ call'[c].mark = lastId /\ call'[c].blind = MissedBy("email")
            /\ \A d \in Calls : d # c => call'[d] = call[d]
        BY <2>3, BecomesOnly
      <3>2. ByEmail(request.email) = {} \/ "email" \in MissedBy("email")
        <4>1. ByEmail(request.email) = {} \/ faults' # faults
          BY <2>1, <2>3, NotFound DEF ByEmail
        <4> QED
          BY <4>1 DEF MissedBy
      <3>3. \A v \in users : v.email = request.email => "email" \in call'[c].blind
        BY <3>1, <3>2 DEF ByEmail
      <3>4. ChecksOK(call[c])' /\ ~HasProfile(call'[c])
        BY <1>1, <3>1, <3>3 DEF ChecksOK, HasProfile, TypeOK
      <3> QED
        BY <1>1, <3>1, <3>4, KeepsRegistrations DEF TypeOK
    <2> QED
      BY <2>1, <2>2, <2>3
  <1>3. CASE RegisterUserName(c)
    <2>1. PICK r \in Checking : r = call[c] /\ r.pc = "findByUserName"
      BY <1>3, LocalBySegment DEF RegisterUserName, TypeOK
    <2>2. PICK found \in users \cup {NoUser} :
            /\ FindOne(ByUserName(r.request.userName), found, NoUser)
            /\ \/ found # NoUser /\ Refuses(c, "register", NoToken, "badRequest")
               \/ /\ found = NoUser
                  /\ Becomes(c, [pc |-> "createProfile", request |-> r.request, mark |-> r.mark,
                                 blind |-> r.blind \cup MissedBy("userName")])
      BY <1>3, <2>1 DEF RegisterUserName
    <2>3. CASE Refuses(c, "register", NoToken, "badRequest")
      <3>1. ~Registering(call'[c]) /\ \A d \in Calls : d # c => call'[d] = call[d]
        BY <2>3, RefusesOnly DEF Refuses
      <3>2. ChecksOK(call[c])' /\ ~HasProfile(call'[c])
        BY <3>1 DEF ChecksOK, Registering, HasProfile
      <3> QED
        BY <1>1, <3>1, <3>2, KeepsRegistrations DEF TypeOK
    <2>4. CASE /\ found = NoUser
               /\ Becomes(c, [pc |-> "createProfile", request |-> r.request, mark |-> r.mark,
                              blind |-> r.blind \cup MissedBy("userName")])
      <3>1. /\ call'[c].pc = "createProfile" /\ call'[c].request = r.request
            /\ call'[c].mark = r.mark /\ call'[c].blind = r.blind \cup MissedBy("userName")
            /\ \A d \in Calls : d # c => call'[d] = call[d]
        BY <2>4, BecomesOnly
      <3>2. ByUserName(r.request.userName) = {} \/ "userName" \in MissedBy("userName")
        <4>1. ByUserName(r.request.userName) = {} \/ faults' # faults
          BY <2>2, <2>4, NotFound DEF ByUserName
        <4> QED
          BY <4>1 DEF MissedBy
      <3>3. \A v \in users : v.userName = r.request.userName => "userName" \in call'[c].blind
        BY <3>1, <3>2 DEF ByUserName
      <3>4. /\ r.mark <= lastId
            /\ \A v \in users :
                 v.email = r.request.email => v.id > r.mark \/ "email" \in r.blind
        BY <2>1 DEF ChecksOK, Registering
      <3>5. ChecksOK(call[c])' /\ ~HasProfile(call'[c])
        BY <1>1, <3>1, <3>3, <3>4 DEF ChecksOK, HasProfile
      <3> QED
        BY <1>1, <3>1, <3>5, KeepsRegistrations DEF TypeOK
    <2> QED
      BY <2>2, <2>3, <2>4
  <1> QED
    BY <1>2, <1>3


(* A stored profile has an id newer than all others, so it is nobody else's. *)
LEMMA ProfileStored ==
  ASSUME RegistrationInv, TypeOK', NEW c \in Calls, RegisterProfile(c)
  PROVE  RegistrationInv'
  <1> USE DEF RegistrationInv
  <1>1. PICK r \in Checking : r = call[c] /\ r.pc = "createProfile"
    BY LocalBySegment DEF RegisterProfile, TypeOK
  <1>2. PICK outcome \in Outcomes :
          /\ profiles' = Insert(profiles, lastId', outcome)
          /\ Becomes(c, [pc |-> "createUser", request |-> r.request,
                         profile |-> Returned(lastId', outcome),
                         mark |-> r.mark, blind |-> r.blind])
    BY <1>1 DEF RegisterProfile
  <1>3. /\ lastId' = lastId + 1 /\ users' = users
        /\ lastId \in Nat /\ lastId' \in Nat /\ lastId <= lastId' /\ lastId' # Null
    BY DEF RegisterProfile, TypeOK, Null
  <1>4. /\ call'[c].pc = "createUser" /\ call'[c].request = r.request
        /\ call'[c].profile = Returned(lastId', outcome)
        /\ call'[c].mark = r.mark /\ call'[c].blind = r.blind
        /\ \A d \in Calls : d # c => call'[d] = call[d]
    BY <1>2, BecomesOnly
  <1>5. /\ profiles \subseteq profiles' /\ profiles' \subseteq profiles \cup {lastId'}
        /\ call'[c].profile \in {Null} \cup (profiles' \cap {lastId'})
    BY <1>2, <1>4 DEF Insert, Returned
  <1>6. \A p \in profiles : p \in Nat /\ p < lastId'
    BY <1>3 DEF OldProfiles, TypeOK, Ids
  <1>7. OldProfiles'
    BY <1>3, <1>5, <1>6 DEF OldProfiles
  <1>8. ProfileNotShared'
    BY <1>3, <1>5 DEF ProfileNotShared
  <1>9. \A u \in users : u.profile # lastId'
    BY <1>3, <1>6 DEF ProfileNotShared
  <1>10. \A d \in Calls : d # c /\ HasProfile(call[d]) => call[d].profile # lastId'
    BY <1>6 DEF ProfileOK
  <1>11. OwnProfiles'
    BY <1>4, <1>5, <1>10 DEF OwnProfiles, HasProfile
  <1>12. ASSUME NEW d \in Calls PROVE (ChecksOK(call[d]) /\ ProfileOK(call[d]))'
    <2>1. CASE d = c
      <3>1. r \in Local /\ ChecksOK(r)
        BY <1>1 DEF Local
      <3>2. ChecksOK(r)'
        BY <1>3, <3>1, KeepsChecks
      <3>3. ChecksOK(call[c])'
        BY <1>1, <1>4, <3>2 DEF ChecksOK, Registering
      <3>4. ProfileOK(call[c])'
        BY <1>3, <1>4, <1>5, <1>9 DEF ProfileOK, HasProfile
      <3> QED
        BY <2>1, <3>3, <3>4
    <2>2. CASE d # c
      <3>1. PICK other \in Local : other = call[d]
        BY DEF TypeOK
      <3>2. ChecksOK(other) /\ ProfileOK(other)
        BY <3>1
      <3>3. ChecksOK(other)' /\ ProfileOK(other)'
        BY <1>3, <1>5, <3>2, KeepsChecks DEF ProfileOK
      <3> QED
        BY <1>4, <2>2, <3>1, <3>3
    <2> QED
      BY <2>1, <2>2
  <1> QED
    BY <1>7, <1>8, <1>11, <1>12

(* An account takes over the profile its registration has stored. *)
LEMMA AccountStored ==
  ASSUME RegistrationInv, TypeOK', NEW c \in Calls, RegisterUser(c)
  PROVE  RegistrationInv'
  <1> USE DEF RegistrationInv
  <1>1. PICK r \in Creating : r = call[c] /\ r.pc = "createUser"
    BY LocalBySegment DEF RegisterUser, TypeOK
  <1> DEFINE user == [id |-> lastId + 1, email |-> r.request.email,
                      userName |-> r.request.userName, password |-> r.request.password,
                      profile |-> r.profile]
  <1>2. PICK outcome \in Outcomes :
          /\ users' = Insert(users, user, outcome)
          /\ \/ Refuses(c, "register", NoToken, "serverError")
             \/ Becomes(c, [pc |-> "signRefresh", op |-> "register", user |-> user,
                            session |-> lastId + 2,
                            access |-> Access(user.id, user.email, lastId + 2)])
    BY <1>1 DEF RegisterUser
  <1>3. /\ lastId' = lastId + 2 /\ profiles' = profiles
        /\ lastId \in Nat /\ lastId' \in Nat /\ lastId <= lastId'
    BY DEF RegisterUser, TypeOK
  <1>4. ~Registering(call'[c]) /\ \A d \in Calls : d # c => call'[d] = call[d]
    <2>1. CASE Refuses(c, "register", NoToken, "serverError")
      BY <2>1, RefusesOnly DEF Refuses
    <2>2. CASE Becomes(c, [pc |-> "signRefresh", op |-> "register", user |-> user,
                           session |-> lastId + 2,
                           access |-> Access(user.id, user.email, lastId + 2)])
      BY <2>2, BecomesOnly DEF Registering
    <2> QED
      BY <1>2, <2>1, <2>2
  <1>5. PICK u : u.profile = r.profile /\ u.id = lastId + 1 /\ users' \subseteq users \cup {u}
    BY <1>2 DEF Insert
  <1>6. r.profile # Null =>
          /\ r.profile \in profiles
          /\ \A v \in users : v.profile # r.profile
          /\ \A d \in Calls : d # c /\ HasProfile(call[d]) => call[d].profile # r.profile
    BY <1>1 DEF ProfileOK, OwnProfiles, HasProfile
  <1>7. ProfileNotShared'
    BY <1>3, <1>5, <1>6 DEF ProfileNotShared
  <1>8. OldProfiles'
    <2>1. \A p \in profiles : p \in Nat
      BY DEF TypeOK, Ids
    <2> QED
      BY <1>3, <2>1 DEF OldProfiles
  <1>9. OwnProfiles'
    BY <1>4 DEF OwnProfiles, HasProfile, Registering
  <1>10. \A v \in users' : v \in users \/ (v.id \in Nat /\ v.id > lastId)
    BY <1>3, <1>5
  <1>11. ASSUME NEW d \in Calls PROVE (ChecksOK(call[d]) /\ ProfileOK(call[d]))'
    <2>1. CASE d = c
      BY <1>4, <2>1 DEF ChecksOK, ProfileOK, HasProfile, Registering
    <2>2. CASE d # c
      <3>1. PICK other \in Local : other = call[d]
        BY DEF TypeOK
      <3>2. ChecksOK(other) /\ ProfileOK(other)
        BY <3>1
      <3>3. ChecksOK(other)'
        BY <1>3, <1>10, <3>2, KeepsChecks
      <3>4. ProfileOK(other)'
        BY <1>3, <1>5, <1>6, <2>2, <3>1, <3>2 DEF ProfileOK, HasProfile
      <3> QED
        BY <1>4, <2>2, <3>1, <3>3, <3>4
    <2> QED
      BY <2>1, <2>2
  <1> QED
    BY <1>7, <1>8, <1>9, <1>11

LEMMA RegistrationCrash ==
  ASSUME RegistrationInv, TypeOK', Crash
  PROVE  RegistrationInv'
  <1>1. \A c \in Calls : ~Registering(call'[c])
    BY DEF Crash, Registering, Active, Free, Idle
  <1>2. UNCHANGED <<users, profiles, lastId>>
    BY DEF Crash, store
  <1> QED
    BY <1>1, <1>2
    DEF RegistrationInv, ProfileNotShared, OldProfiles, OwnProfiles, ChecksOK, ProfileOK,
        HasProfile, Registering

LEMMA RegistrationStutter ==
  ASSUME RegistrationInv, TypeOK', UNCHANGED <<users, profiles, lastId, call>>
  PROVE  RegistrationInv'
  BY DEF RegistrationInv, ProfileNotShared, OldProfiles, OwnProfiles, ChecksOK, ProfileOK,
         HasProfile, Registering

LEMMA RegistrationInit == Init => RegistrationInv
  <1> SUFFICES ASSUME Init PROVE RegistrationInv
    OBVIOUS
  <1>1. TypeOK
    BY BoundAssumption DEF Init, TypeOK, Local
  <1> QED
    BY <1>1 DEF Init, RegistrationInv, ProfileNotShared, OldProfiles, OwnProfiles, ChecksOK,
                ProfileOK, HasProfile, Registering, Idle

LEMMA RegistrationStep == RegistrationInv /\ [Next]_vars => RegistrationInv'
  <1> SUFFICES ASSUME RegistrationInv, [Next]_vars PROVE RegistrationInv'
    OBVIOUS
  <1>1. TypeOK'
    BY TypeStep DEF RegistrationInv
  <1>2. CASE UNCHANGED vars \/ Tick
    BY <1>1, <1>2, RegistrationStutter DEF vars, Tick, store
  <1>3. ASSUME NEW c \in Calls, Arrive(c) \/ Proceed(c)
        PROVE  \/ NotRegister(c) \/ Register(c) \/ RegisterUserName(c)
               \/ RegisterProfile(c) \/ RegisterUser(c)
    BY <1>3 DEF Arrive, Proceed, NotRegister
  <1> QED
    BY <1>1, <1>2, <1>3, RegistrationCrash, NotRegisterInv, RegisterInv, ProfileStored,
       AccountStored DEF Next

(* No two accounts share a profile, and the profile an account refers to has *)
(* been stored, whatever registrations overlap and whatever inserts fail:    *)
(* the profile repository returns null for an insert that failed.            *)
THEOREM ProfilesAreOwn == Spec => []ProfileNotShared
  <1>1. RegistrationInv => ProfileNotShared
    BY DEF RegistrationInv
  <1> QED
    BY <1>1, RegistrationInit, RegistrationStep, PTL DEF Spec


(* A registration leaves its last segment only by its own step or a crash. *)
LEMMA CreateUserStep ==
  ASSUME RegistrationInv, [Next]_vars, NEW c \in Calls, call[c].pc = "createUser",
         call'[c] # call[c]
  PROVE  RegisterUser(c) \/ Crash
  <1> USE DEF RegistrationInv
  <1>1. ASSUME NEW d \in Calls, NotRegister(d) PROVE FALSE
    BY <1>1, NotRegisterStep DEF Registering
  <1>2. ASSUME NEW d \in Calls, Register(d) \/ RegisterUserName(d) \/ RegisterProfile(d)
        PROVE  FALSE
    <2>1. d # c
      BY <1>2 DEF Register, RegisterUserName, RegisterProfile, Starts, Free
    <2>2. call'[c] = call[c]
      BY <1>2, <2>1
      DEF Register, RegisterUserName, RegisterProfile, Refuses, Answers, Becomes, TypeOK
    <2> QED
      BY <2>2
  <1>3. ASSUME NEW d \in Calls, RegisterUser(d) PROVE d = c
    BY <1>3 DEF RegisterUser, Refuses, Answers, Becomes, TypeOK
  <1> QED
    BY <1>1, <1>2, <1>3 DEF Next, vars, Tick, Arrive, Proceed, NotRegister

(* A second account with an address or a user name in use comes only from a  *)
(* registration that overlapped the first one's, or that took an error of    *)
(* the database for the answer "nobody".                                     *)
THEOREM DuplicatesNeedOverlap == Spec => DuplicateNeedsOverlap
  <1> DEFINE Needs ==
        \A c \in Calls : call[c].pc = "createUser" /\ call'[c] # call[c] =>
          \A u \in users' \ users, v \in users :
            /\ u.email = v.email => v.id > call[c].mark \/ "email" \in call[c].blind
            /\ u.userName = v.userName => v.id > call[c].mark \/ "userName" \in call[c].blind
  <1>1. RegistrationInv /\ [Next]_vars => [Needs]_vars
    <2> SUFFICES ASSUME RegistrationInv, [Next]_vars, NEW c \in Calls,
                        call[c].pc = "createUser", call'[c] # call[c],
                        NEW u \in users' \ users, NEW v \in users
                 PROVE  /\ u.email = v.email => v.id > call[c].mark \/ "email" \in call[c].blind
                        /\ u.userName = v.userName =>
                             v.id > call[c].mark \/ "userName" \in call[c].blind
      OBVIOUS
    <2>1. RegisterUser(c)
      BY CreateUserStep DEF Crash, store
    <2>2. u.email = call[c].request.email /\ u.userName = call[c].request.userName
      BY <2>1 DEF RegisterUser, Insert
    <2>3. ChecksOK(call[c])
      BY DEF RegistrationInv
    <2> QED
      BY <2>2, <2>3 DEF ChecksOK, Registering
  <1> QED
    BY <1>1, RegistrationInit, RegistrationStep, PTL DEF Spec, DuplicateNeedsOverlap

(* A stored profile that no account refers to and no registration will use   *)
(* is left only by a step in which the database or the process fails.        *)
THEOREM OrphansNeedFaults == Spec => OrphanOnlyByFault
  <1> DEFINE Kept == profiles' \ InUse' \subseteq profiles \ InUse \/ faults' > faults
  <1>1. RegistrationInv /\ [Next]_vars => [Kept]_vars
    <2> SUFFICES ASSUME RegistrationInv, [Next]_vars, ~(faults' > faults)
                 PROVE  profiles' \subseteq profiles \cup InUse' /\ InUse \subseteq InUse'
      OBVIOUS
    <2>1. TypeOK
      BY DEF RegistrationInv
    <2>2. ~Fault
      BY <2>1 DEF Fault, TypeOK
    <2>3. ASSUME users' = users, profiles' = profiles,
                 \A c \in Calls : call[c].pc = "createUser" => call'[c] = call[c]
          PROVE  profiles' \subseteq profiles \cup InUse' /\ InUse \subseteq InUse'
      BY <2>3 DEF InUse
    <2>4. CASE UNCHANGED vars \/ Tick
      BY <2>3, <2>4 DEF vars, Tick, store
    <2>5. CASE \E c \in Calls : NotRegister(c)
      BY <2>1, <2>3, <2>5, NotRegisterStep DEF Registering
    <2>6. CASE \E c \in Calls : Register(c) \/ RegisterUserName(c)
      <3>1. PICK c \in Calls : Register(c) \/ RegisterUserName(c)
        BY <2>6
      <3>2. call[c].pc # "createUser" /\ UNCHANGED <<users, profiles>>
        BY <3>1 DEF Register, RegisterUserName, Starts, Free, store
      <3>3. \A d \in Calls : d # c => call'[d] = call[d]
        BY <2>1, <3>1 DEF Register, RegisterUserName, Refuses, Answers, Becomes, TypeOK
      <3> QED
        BY <2>3, <3>2, <3>3
    <2>7. CASE \E c \in Calls : RegisterProfile(c)
      <3>1. PICK c \in Calls : RegisterProfile(c)
        BY <2>7
      <3>2. /\ call[c].pc # "createUser" /\ users' = users
            /\ profiles' \subseteq profiles \cup {lastId'}
            /\ call'[c].pc = "createUser" /\ call'[c].profile = lastId'
            /\ \A d \in Calls : d # c => call'[d] = call[d]
        BY <2>1, <2>2, <3>1
        DEF RegisterProfile, Writes, Insert, Returned, Becomes, TypeOK
      <3> QED
        BY <3>2 DEF InUse
    <2>8. CASE \E c \in Calls : RegisterUser(c)
      <3>1. PICK c \in Calls : RegisterUser(c)
        BY <2>8
      <3> DEFINE user == [id |-> lastId + 1, email |-> call[c].request.email,
                          userName |-> call[c].request.userName,
                          password |-> call[c].request.password,
                          profile |-> call[c].profile]
      <3>2. call[c].pc = "createUser" /\ profiles' = profiles /\ users' = users \cup {user}
        BY <2>2, <3>1 DEF RegisterUser, Writes, Insert
      <3>3. users \subseteq users' /\ \E u \in users' : u.profile = call[c].profile
        <4>1. user \in users' /\ user.profile = call[c].profile
          BY <3>2
        <4> QED
          BY <3>2, <4>1
      <3>4. \A d \in Calls : d # c => call'[d] = call[d]
        BY <2>1, <3>1 DEF RegisterUser, Refuses, Answers, Becomes, TypeOK
      <3>5. call[c].profile \in {u.profile : u \in users'}
        BY <3>3
      <3> HIDE DEF user
      <3>6. InUse \subseteq InUse'
        BY <3>3, <3>4, <3>5 DEF InUse
      <3> QED
        BY <3>2, <3>6
    <2> QED
      BY <2>2, <2>4, <2>5, <2>6, <2>7, <2>8 DEF Next, Crash, Arrive, Proceed, NotRegister
  <1> QED
    BY <1>1, RegistrationInit, RegistrationStep, PTL DEF Spec, OrphanOnlyByFault
=============================================================================
