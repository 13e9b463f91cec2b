--------------------------- MODULE AuthSessionProofs ---------------------------
(***************************************************************************)
(* Sessions and identities in AuthService: a session belongs to one        *)
(* account, tokens name accounts that exist, verify accepts a token for    *)
(* its own account or one with the same address, answered tokens are       *)
(* stored, and a refresh is refused only for a token that has expired.     *)
(***************************************************************************)
EXTENDS AuthServiceProofs, FiniteSetTheorems

-----------------------------------------------------------------------------
(* The inductive invariant.  A token is handed out some awaits after it was  *)
(* signed, so the calls that hold a signed token count as holders as well,   *)
(* and what a call read earlier must still be true of the collections.       *)

HasAccess(r) ==
  r.pc \in {"removeTokens", "signRefresh", "saveToken", "answerTokens", "signServerToken"}

Holds(session, user) ==
  \/ \E d \in refreshTokens : d.session = session /\ d.user = user
  \/ \E t \in issued : t.session = session /\ Subject(t) = user
  \/ \E c \in Calls : /\ HasAccess(call[c])
                      /\ call[c].access.session = session
                      /\ Subject(call[c].access) = user

OneHolder == \A s, u, v : Holds(s, u) /\ Holds(s, v) => u = v
OldSessions == \A s, u : Holds(s, u) => s <= lastId

(* The account u is the one the access token t was signed for. *)
Names(t, u) == Subject(t) = u.id /\ {t.email, t.id} = {u.email, u.id}

(* A document repeats what its token says. *)
DocsAgree == \A d \in refreshTokens : d.session = d.token.session /\ d.user = d.token.id

CallOK(r) ==
  /\ r.pc \in {"verifyPassword", "verifyServerPassword", "removeTokens", "signRefresh",
               "saveToken", "answerTokens"} => r.user \in users
  /\ r.pc \in {"removeTokens", "signRefresh", "saveToken"} =>
       r.access.session = r.session /\ Names(r.access, r.user)
  /\ r.pc = "saveToken" => r.refresh.session = r.session /\ r.refresh.id = r.user.id
  /\ r.pc = "answerTokens" =>
       /\ Names(r.access, r.user)
       /\ r.refresh.session = r.access.session /\ r.refresh.id = r.user.id
  /\ r.pc = "signServerToken" => \E u \in users : Names(r.access, u)
  /\ r.pc \in {"findToken", "findUser", "decoded"} => r.token \in issued
  /\ r.pc = "findUser" => r.owner = r.token.id
  /\ r.pc = "done" /\ r.op = "verify" /\ r.status = "ok" =>
       /\ r.token \in issued /\ r.token \in AccessToken
       /\ r.user \in users /\ r.token.email = r.user.email

CallsOK == \A c \in Calls : CallOK(call[c])

SessionInv ==
  TypeOK /\ OneHolder /\ OldSessions /\ DocsAgree /\ CallsOK /\ TokensNameAccounts

-----------------------------------------------------------------------------
(* Facts about tokens. *)

LEMMA SubjectOfAccess ==
  ASSUME NEW id \in Ids, NEW email \in Emails, NEW session
  PROVE  /\ Subject(Access(email, id, session)) = id
         /\ Subject(Access(id, email, session)) = id
         /\ Subject(ServerAccess(email, id, session)) = id
  BY NamesAssumption DEF Subject, Access, ServerAccess, Ids

LEMMA SubjectOfRefresh ==
  ASSUME NEW t \in RefreshToken
  PROVE  Subject(t) = t.id
  BY DEF Subject, RefreshToken

LEMMA AccessNames ==
  ASSUME NEW u \in User, NEW session
  PROVE  /\ Names(Access(u.email, u.id, session), u)
         /\ Names(Access(u.id, u.email, session), u)
         /\ Names(ServerAccess(u.email, u.id, session), u)
  <1>1. u.id \in Ids /\ u.email \in Emails
    BY DEF User
  <1>2. /\ Subject(Access(u.email, u.id, session)) = u.id
        /\ Subject(Access(u.id, u.email, session)) = u.id
        /\ Subject(ServerAccess(u.email, u.id, session)) = u.id
    BY <1>1, SubjectOfAccess
  <1> QED
    BY <1>2 DEF Names, Access, ServerAccess

LEMMA AccessOfLocal ==
  ASSUME NEW r \in Local, HasAccess(r)
  PROVE  r.access \in AccessToken /\ r.access.session \in Ids
  <1>1. CASE r.pc \in {"removeTokens", "signRefresh"}
    BY <1>1, LocalBySegment DEF Signing, AccessToken
  <1>2. CASE r.pc = "saveToken"
    BY <1>2, LocalBySegment DEF Saving, AccessToken
  <1>3. CASE r.pc = "answerTokens"
    BY <1>3, LocalBySegment DEF Answering, AccessToken
  <1>4. CASE r.pc = "signServerToken"
    BY <1>4, LocalBySegment DEF Granting, AccessToken
  <1> QED
    BY <1>1, <1>2, <1>3, <1>4 DEF HasAccess

LEMMA HeldSessionType ==
  ASSUME TypeOK, NEW s, NEW u, Holds(s, u)
  PROVE  s \in Ids
  <1>1. CASE \E d \in refreshTokens : d.session = s /\ d.user = u
    BY <1>1 DEF TypeOK, RefreshDoc
  <1>2. CASE \E t \in issued : t.session = s /\ Subject(t) = u
    BY <1>2 DEF TypeOK, AccessToken, RefreshToken
  <1>3. CASE \E c \in Calls : HasAccess(call[c]) /\ call[c].access.session = s
    BY <1>3, AccessOfLocal DEF TypeOK
  <1> QED
    BY <1>1, <1>2, <1>3 DEF Holds

(* What a call that keeps its variables holds stays true. *)
LEMMA CallKept ==
  ASSUME NEW c \in Calls, call'[c] = call[c], CallOK(call[c]),
         users \subseteq users', issued' = issued
  PROVE  CallOK(call[c])'
  <1>1. PICK r : r = call[c] /\ r = call'[c]
    OBVIOUS
  <1>2. CallOK(r)
    BY <1>1
  <1>3. /\ r.pc \in {"verifyPassword", "verifyServerPassword", "removeTokens", "signRefresh",
                     "saveToken", "answerTokens"} => r.user \in users'
        /\ r.pc \in {"findToken", "findUser", "decoded"} => r.token \in issued'
        /\ r.pc = "done" /\ r.op = "verify" /\ r.status = "ok" =>
             r.token \in issued' /\ r.token \in AccessToken /\ r.user \in users'
    BY <1>2 DEF CallOK
  <1>4. r.pc = "signServerToken" => \E u \in users' : Names(r.access, u)
    BY <1>2 DEF CallOK
  <1>5. CallOK(r)'
    BY <1>2, <1>3, <1>4 DEF CallOK, Names, Subject
  <1> QED
    BY <1>1, <1>5

(* A user document read from the collection. *)
LEMMA ReadUser ==
  ASSUME TypeOK, NEW docs \in SUBSET users, NEW found \in users \cup {NoUser},
         FindOne(docs, found, NoUser), found # NoUser
  PROVE  found \in users /\ found \in User /\ found \in docs
  BY DEF TypeOK, FindOne

-----------------------------------------------------------------------------
(* A step of one call that stores and hands out no token: it may sign an     *)
(* access token, for a session the account already holds or for a new one.   *)

LEMMA LocalStep ==
  ASSUME SessionInv, TypeOK', NEW c \in Calls, NEW r, Becomes(c, r), CallOK(r)',
         refreshTokens' = refreshTokens, issued' = issued,
         users \subseteq users', lastId <= lastId', lastId' \in Nat,
         HasAccess(r) => \/ Holds(r.access.session, Subject(r.access))
                         \/ r.access.session > lastId /\ r.access.session <= lastId'
  PROVE  SessionInv'
  <1> DEFINE s0 == r.access.session
             u0 == Subject(r.access)
  <1> USE DEF SessionInv
  <1>1. call' = [call EXCEPT ![c] = r] /\ call \in [Calls -> Local]
    BY DEF Becomes, TypeOK
  <1>0. r \in Local
    <2>1. call'[c] = r /\ call' \in [Calls -> Local]
      BY <1>1 DEF TypeOK
    <2> QED
      BY <2>1
  <1>2. CallsOK'
    <2>1. ASSUME NEW d \in Calls
          PROVE  CallOK(call[d])'
      <3>1. CASE d = c
        <4>1. call'[d] = r
          BY <1>1, <3>1
        <4> QED
          BY <4>1 DEF CallOK, Names, Subject
      <3>2. CASE d # c
        <4>1. call'[d] = call[d] /\ CallOK(call[d])
          BY <1>1, <3>2 DEF CallsOK
        <4> QED
          BY <4>1, CallKept
      <3> QED
        BY <3>1, <3>2
    <2> QED
      BY <2>1 DEF CallsOK
  <1>3. ASSUME NEW s, NEW u, Holds(s, u)'
        PROVE  Holds(s, u) \/ (HasAccess(r) /\ s = s0 /\ u = u0)
    BY <1>1, <1>3 DEF Holds, HasAccess, Subject
  <1>4. OneHolder'
    <2>1. SUFFICES ASSUME NEW s, NEW u, NEW v, Holds(s, u)', Holds(s, v)'
                   PROVE  u = v
      BY DEF OneHolder
    <2>2. Holds(s, u) \/ (HasAccess(r) /\ s = s0 /\ u = u0)
      BY <1>3, <2>1
    <2>3. Holds(s, v) \/ (HasAccess(r) /\ s = s0 /\ v = u0)
      BY <1>3, <2>1
    <2>4. HasAccess(r) => Holds(s0, u0) \/ ~(s0 <= lastId)
      BY <1>0, AccessOfLocal DEF TypeOK, Ids
    <2> QED
      BY <2>2, <2>3, <2>4 DEF OneHolder, OldSessions
  <1>5. OldSessions'
    <2>1. SUFFICES ASSUME NEW s, NEW u, Holds(s, u)'
                   PROVE  s <= lastId'
      BY DEF OldSessions
    <2>2. Holds(s, u) => s <= lastId /\ s \in Ids
      BY HeldSessionType DEF OldSessions
    <2>3. HasAccess(r) /\ s = s0 /\ u = u0 => Holds(s, u) \/ s <= lastId'
      OBVIOUS
    <2> QED
      BY <1>3, <2>1, <2>2, <2>3 DEF TypeOK, Ids
  <1>6. DocsAgree'
    BY DEF DocsAgree
  <1>7. TokensNameAccounts'
    BY DEF TokensNameAccounts, Subject
  <1> QED
    BY <1>2, <1>4, <1>5, <1>6, <1>7

(* A call that is refused, or answered without a token.  *)
LEMMA AnsweredStep ==
  ASSUME SessionInv, TypeOK', NEW c \in Calls, NEW op, NEW token, NEW user, NEW status,
         Answers(c, op, token, user, status), op # "verify" \/ status # "ok",
         refreshTokens' = refreshTokens, issued' = issued,
         users \subseteq users', lastId <= lastId', lastId' \in Nat
  PROVE  SessionInv'
  <1> PICK r : r = [pc |-> "done", op |-> op, status |-> status, user |-> user,
                    token |-> token]
    OBVIOUS
  <1>1. Becomes(c, r)
    BY DEF Answers
  <1>2. CallOK(r)' /\ ~HasAccess(r)
    BY DEF CallOK, HasAccess
  <1> QED
    BY <1>1, <1>2, LocalStep

-----------------------------------------------------------------------------
(* One lemma for the segments of each handler. *)

LEMMA SessionRegister ==
  ASSUME SessionInv, TypeOK', NEW c \in Calls,
         Register(c) \/ RegisterUserName(c) \/ RegisterProfile(c) \/ RegisterUser(c)
  PROVE  SessionInv'
  <1> lastId \in Nat
    BY DEF SessionInv, TypeOK
  <1>1. CASE Register(c)
    <2>1. PICK request \in Request, found \in users \cup {NoUser} :
            \/ Refuses(c, "register", NoToken, "badRequest")
            \/ Becomes(c, [pc |-> "findByUserName", request |-> request,
                           mark |-> lastId, blind |-> MissedBy("email")])
      BY <1>1 DEF Register
    <2>2. UNCHANGED <<users, refreshTokens, issued, lastId>>
      BY <1>1 DEF Register, store
    <2>3. PICK r : r = [pc |-> "findByUserName", request |-> request,
                        mark |-> lastId, blind |-> MissedBy("email")]
      OBVIOUS
    <2>4. CallOK(r)' /\ ~HasAccess(r)
      BY <2>3 DEF CallOK, HasAccess
    <2> QED
      BY <2>1, <2>2, <2>3, <2>4, LocalStep, AnsweredStep DEF Refuses
  <1>2. CASE RegisterUserName(c)
    <2>1. PICK r : r = [pc |-> "createProfile", request |-> call[c].request,
                        mark |-> call[c].mark,
                        blind |-> call[c].blind \cup MissedBy("userName")]
      OBVIOUS
    <2>2. Refuses(c, "register", NoToken, "badRequest") \/ Becomes(c, r)
      BY <1>2, <2>1 DEF RegisterUserName
    <2>3. UNCHANGED <<users, refreshTokens, issued, lastId>>
      BY <1>2 DEF RegisterUserName, store
    <2>4. CallOK(r)' /\ ~HasAccess(r)
      BY <2>1 DEF CallOK, HasAccess
    <2> QED
      BY <2>2, <2>3, <2>4, LocalStep, AnsweredStep DEF Refuses
  <1>3. CASE RegisterProfile(c)
    <2>1. PICK outcome \in Outcomes :
            Becomes(c, [pc |-> "createUser", request |-> call[c].request,
                        profile |-> Returned(lastId', outcome),
                        mark |-> call[c].mark, blind |-> call[c].blind])
      BY <1>3 DEF RegisterProfile
    <2>2. PICK r : r = [pc |-> "createUser", request |-> call[c].request,
                        profile |-> Returned(lastId', outcome),
                        mark |-> call[c].mark, blind |-> call[c].blind]
      OBVIOUS
    <2>3. UNCHANGED <<users, refreshTokens, issued>> /\ lastId' = lastId + 1
      BY <1>3 DEF RegisterProfile
    <2>4. CallOK(r)' /\ ~HasAccess(r)
      BY <2>2 DEF CallOK, HasAccess
    <2> QED
      BY <2>1, <2>2, <2>3, <2>4, LocalStep
  <1>4. CASE RegisterUser(c)
    <2>1. PICK user : user = [id |-> lastId + 1, email |-> call[c].request.email,
                              userName |-> call[c].request.userName,
                              password |-> call[c].request.password,
                              profile |-> call[c].profile]
      OBVIOUS
    <2>2. PICK r : r = [pc |-> "signRefresh", op |-> "register", user |-> user,
                        session |-> lastId + 2,
                        access |-> Access(user.id, user.email, lastId + 2)]
      OBVIOUS
    <2>3. /\ UNCHANGED <<refreshTokens, issued>> /\ lastId' = lastId + 2
          /\ users \subseteq users'
          /\ \/ Refuses(c, "register", NoToken, "serverError")
             \/ Becomes(c, r) /\ users' = users \cup {user}
      BY <1>4, <2>1, <2>2 DEF RegisterUser, Insert, Throws, Outcomes
    <2>4. user \in User
      <3>1. call[c] \in Creating
        BY <1>4, LocalBySegment DEF RegisterUser, SessionInv, TypeOK
      <3> QED
        BY <2>1, <3>1 DEF Creating, Request, User, Ids, Null
    <2>5. ASSUME Becomes(c, r), users' = users \cup {user}
          PROVE  SessionInv'
      <3>1. /\ r.pc = "signRefresh" /\ r.user = user /\ r.session = lastId + 2
            /\ r.access = Access(user.id, user.email, r.session)
        BY <2>2
      <3>5. Names(Access(user.id, user.email, r.session), user)
        BY <2>4, AccessNames
      <3>6. Access(user.id, user.email, r.session).session = r.session
        BY DEF Access
      <3>2. Names(r.access, r.user) /\ r.access.session = lastId + 2
        BY <3>1, <3>5, <3>6
      <3>3. CallOK(r)'
        BY <2>5, <3>1, <3>2 DEF CallOK, Names, Subject
      <3>4. r.access.session > lastId /\ r.access.session <= lastId'
        BY <2>3, <3>2
      <3> QED
        BY <2>3, <2>5, <3>3, <3>4, LocalStep
    <2> QED
      BY <2>3, <2>5, AnsweredStep DEF Refuses
  <1> QED
    BY <1>1, <1>2, <1>3, <1>4

LEMMA SessionLogin ==
  ASSUME SessionInv, TypeOK', NEW c \in Calls,
         \/ Login(c) \/ LoginVerifyPassword(c) \/ LoginRemoveTokens(c)
         \/ ServerLogin(c) \/ ServerVerifyPassword(c)
  PROVE  SessionInv'
  <1>0. lastId \in Nat /\ call[c] \in Local /\ CallOK(call[c]) /\ users \subseteq User
    BY DEF SessionInv, TypeOK, CallsOK
  <1>1. ASSUME NEW op, NEW pc \in {"verifyPassword", "verifyServerPassword"},
               NEW docs \in SUBSET users, NEW password, NEW found \in users \cup {NoUser},
               FindOne(docs, found, NoUser),
               \/ Refuses(c, op, NoToken, "badRequest")
               \/ /\ found # NoUser
                  /\ Becomes(c, [pc |-> pc, password |-> password, user |-> found]),
               UNCHANGED <<users, refreshTokens, issued, lastId>>
        PROVE  SessionInv'
    <2>1. PICK r : r = [pc |-> pc, password |-> password, user |-> found]
      OBVIOUS
    <2>2. r.pc = pc /\ r.user = found
      BY <2>1
    <2>3. found # NoUser => CallOK(r)' /\ ~HasAccess(r)
      BY <1>1, <2>2 DEF CallOK, HasAccess
    <2> QED
      BY <1>0, <1>1, <2>1, <2>3, LocalStep, AnsweredStep DEF Refuses
  <1>2. CASE Login(c)
    <2>1. PICK email \in Emails, password \in Passwords, found \in users \cup {NoUser} :
            /\ FindOne(ByEmail(email), found, NoUser)
            /\ \/ Refuses(c, "login", NoToken, "badRequest")
               \/ /\ found # NoUser
                  /\ Becomes(c, [pc |-> "verifyPassword", password |-> password,
                                 user |-> found])
      BY <1>2 DEF Login
    <2>2. ByEmail(email) \in SUBSET users /\ UNCHANGED <<users, refreshTokens, issued, lastId>>
      BY <1>2 DEF Login, store, ByEmail
    <2> QED
      BY <1>1, <2>1, <2>2
  <1>3. CASE ServerLogin(c)
    <2>1. PICK email \in Emails, password \in Passwords, found \in users \cup {NoUser} :
            /\ FindOne(ByEmail(email), found, NoUser)
            /\ \/ Refuses(c, "serverLogin", NoToken, "badRequest")
               \/ /\ found # NoUser
                  /\ Becomes(c, [pc |-> "verifyServerPassword", password |-> password,
                                 user |-> found])
      BY <1>3 DEF ServerLogin
    <2>2. ByEmail(email) \in SUBSET users /\ UNCHANGED <<users, refreshTokens, issued, lastId>>
      BY <1>3 DEF ServerLogin, store, ByEmail
    <2> QED
      BY <1>1, <2>1, <2>2
  <1>4. CASE LoginVerifyPassword(c)
    <2> DEFINE u == call[c].user
    <2>1. PICK r : r = [pc |-> "removeTokens", op |-> "login", user |-> u,
                        session |-> lastId + 1, access |-> Access(u.email, u.id, lastId + 1)]
      OBVIOUS
    <2>2. /\ UNCHANGED <<users, refreshTokens, issued>>
          /\ \/ Refuses(c, "login", NoToken, "badRequest") /\ lastId' = lastId
             \/ Becomes(c, r) /\ lastId' = lastId + 1
      BY <1>4, <2>1 DEF LoginVerifyPassword, store
    <2>3. u \in users /\ u \in User
      BY <1>0, <1>4 DEF LoginVerifyPassword, CallOK
    <2>4. /\ r.pc = "removeTokens" /\ r.user = u /\ r.session = lastId + 1
          /\ r.access = Access(u.email, u.id, lastId + 1)
      BY <2>1
    <2>5. Names(Access(u.email, u.id, lastId + 1), u)
      BY <2>3, AccessNames
    <2>6. Access(u.email, u.id, lastId + 1).session = lastId + 1
      BY DEF Access
    <2>7. CallOK(r)'
      BY <2>2, <2>3, <2>4, <2>5, <2>6 DEF CallOK, Names, Subject
    <2>8. lastId' = lastId + 1 => r.access.session > lastId /\ r.access.session <= lastId'
      BY <1>0, <2>4, <2>6
    <2>9. lastId <= lastId' /\ lastId' \in Nat
      BY <1>0, <2>2
    <2> QED
      BY <2>2, <2>7, <2>8, <2>9, LocalStep, AnsweredStep DEF Refuses
  <1>5. CASE ServerVerifyPassword(c)
    <2> DEFINE u == call[c].user
    <2>1. PICK r : r = [pc |-> "signServerToken",
                        access |-> ServerAccess(u.email, u.id, lastId + 1)]
      OBVIOUS
    <2>2. /\ UNCHANGED <<users, refreshTokens, issued>>
          /\ \/ Refuses(c, "serverLogin", NoToken, "badRequest") /\ lastId' = lastId
             \/ Becomes(c, r) /\ lastId' = lastId + 1
      BY <1>5, <2>1 DEF ServerVerifyPassword, store
    <2>3. u \in users /\ u \in User
      BY <1>0, <1>5 DEF ServerVerifyPassword, CallOK
    <2>4. r.pc = "signServerToken" /\ r.access = ServerAccess(u.email, u.id, lastId + 1)
      BY <2>1
    <2>5. Names(ServerAccess(u.email, u.id, lastId + 1), u)
      BY <2>3, AccessNames
    <2>6. ServerAccess(u.email, u.id, lastId + 1).session = lastId + 1
      BY DEF ServerAccess
    <2>7. CallOK(r)'
      BY <2>2, <2>3, <2>4, <2>5 DEF CallOK, Names, Subject
    <2>8. lastId' = lastId + 1 => r.access.session > lastId /\ r.access.session <= lastId'
      BY <1>0, <2>4, <2>6
    <2>9. lastId <= lastId' /\ lastId' \in Nat
      BY <1>0, <2>2
    <2> QED
      BY <2>2, <2>7, <2>8, <2>9, LocalStep, AnsweredStep DEF Refuses
  <1>6. CASE LoginRemoveTokens(c)
    <2>1. PICK r : r = [pc |-> "signRefresh", op |-> "login", user |-> call[c].user,
                        session |-> call[c].session, access |-> call[c].access]
      OBVIOUS
    <2>2. call[c].pc = "removeTokens" /\ Becomes(c, r)
          /\ UNCHANGED <<users, refreshTokens, issued, lastId>>
      BY <1>6, <2>1 DEF LoginRemoveTokens, RemoveAll
    <2>3. /\ r.pc = "signRefresh" /\ r.user = call[c].user /\ r.session = call[c].session
          /\ r.access = call[c].access
      BY <2>1
    <2>4. CallOK(r)'
      BY <1>0, <2>2, <2>3 DEF CallOK, Names, Subject
    <2>5. Holds(r.access.session, Subject(r.access))
      BY <2>2, <2>3 DEF Holds, HasAccess
    <2>6. users \subseteq users' /\ lastId <= lastId' /\ lastId' \in Nat
      BY <1>0, <2>2
    <2> QED
      BY <2>2, <2>4, <2>5, <2>6, LocalStep
  <1> QED
    BY <1>2, <1>3, <1>4, <1>5, <1>6

LEMMA SessionTokens ==
  ASSUME SessionInv, TypeOK', NEW c \in Calls,
         \/ RefreshCall(c) \/ RefreshFindToken(c) \/ RefreshFindUser(c)
         \/ SignRefreshToken(c) \/ Verify(c) \/ VerifyFindUser(c)
  PROVE  SessionInv'
  <1>0. lastId \in Nat /\ call[c] \in Local /\ CallOK(call[c]) /\ users \subseteq User
    BY DEF SessionInv, TypeOK, CallsOK
  <1>1. UNCHANGED <<users, refreshTokens, issued, lastId>>
    BY DEF RefreshCall, RefreshFindToken, RefreshFindUser, SignRefreshToken, Verify,
           VerifyFindUser, store
  <1>2. users \subseteq users' /\ lastId <= lastId' /\ lastId' \in Nat
    BY <1>0, <1>1
  <1>3. CASE RefreshCall(c) \/ Verify(c)
    <2>0. ASSUME NEW t \in issued \cup {Garbage}, NEW pc \in {"findToken", "decoded"},
                 NEW op, NEW status \in {"serverError", "unauthorised"},
                 \/ t \in issued /\ Becomes(c, [pc |-> pc, token |-> t])
                 \/ Refuses(c, op, t, status)
          PROVE  SessionInv'
      <3>1. PICK r : r = [pc |-> pc, token |-> t]
        OBVIOUS
      <3>2. r.pc = pc /\ r.token = t
        BY <3>1
      <3>3. t \in issued => CallOK(r)' /\ ~HasAccess(r)
        BY <1>1, <3>2 DEF CallOK, HasAccess
      <3> QED
        BY <1>1, <1>2, <2>0, <3>1, <3>3, LocalStep, AnsweredStep DEF Refuses
    <2>1. Garbage.kind \notin {"access", "server", "refresh"}
      BY DEF Garbage
    <2>2. CASE RefreshCall(c)
      <3>1. PICK t \in issued \cup {Garbage} :
              \/ DecodesAsRefresh(t) /\ Becomes(c, [pc |-> "findToken", token |-> t])
              \/ Refuses(c, "refresh", t, "serverError")
        BY <2>2 DEF RefreshCall
      <3>2. DecodesAsRefresh(t) => t \in issued
        BY <2>1 DEF DecodesAsRefresh
      <3> QED
        BY <2>0, <3>1, <3>2
    <2>3. CASE Verify(c)
      <3>1. PICK t \in issued \cup {Garbage} :
              \/ DecodesAsAccess(t) /\ Becomes(c, [pc |-> "decoded", token |-> t])
              \/ Refuses(c, "verify", t, "unauthorised")
        BY <2>3 DEF Verify
      <3>2. DecodesAsAccess(t) => t \in issued
        BY <2>1 DEF DecodesAsAccess
      <3> QED
        BY <2>0, <3>1, <3>2
    <2> QED
      BY <1>3, <2>2, <2>3
  <1>4. CASE RefreshFindToken(c)
    <2> DEFINE token == call[c].token
    <2>1. PICK found \in refreshTokens \cup {NoDoc} :
            /\ FindOne(ByTokenAndSession(token, token.session), found, NoDoc)
            /\ \/ Refuses(c, "refresh", token, "unauthorised")
               \/ /\ found \in Current
                  /\ Becomes(c, [pc |-> "findUser", token |-> token, owner |-> found.user])
      BY <1>4 DEF RefreshFindToken
    <2>2. PICK r : r = [pc |-> "findUser", token |-> token, owner |-> found.user]
      OBVIOUS
    <2>3. r.pc = "findUser" /\ r.token = token /\ r.owner = found.user
      BY <2>2
    <2>4. found \in Current => found \in refreshTokens /\ found.token = token
      <3>1. found \in Current => found \in refreshTokens /\ found.id \in Ids
        BY DEF Current, SessionInv, TypeOK, RefreshDoc
      <3>2. NoDoc.id \notin Ids
        BY DEF NoDoc, Ids
      <3> QED
        BY <2>1, <3>1, <3>2 DEF FindOne, ByTokenAndSession
    <2>5. found \in Current => found.user = token.id
      BY <2>4 DEF SessionInv, DocsAgree
    <2>6. token \in issued
      BY <1>0, <1>4 DEF RefreshFindToken, CallOK
    <2>7. found \in Current => CallOK(r)' /\ ~HasAccess(r)
      BY <1>1, <2>3, <2>5, <2>6 DEF CallOK, HasAccess
    <2> QED
      BY <1>1, <1>2, <2>1, <2>2, <2>7, LocalStep, AnsweredStep DEF Refuses
  <1>5. CASE RefreshFindUser(c)
    <2> DEFINE token == call[c].token
    <2>1. PICK found \in users \cup {NoUser} :
            /\ FindOne(ById(call[c].owner), found, NoUser)
            /\ \/ Refuses(c, "refresh", token, "unauthorised")
               \/ /\ found # NoUser
                  /\ Becomes(c, [pc |-> "signRefresh", op |-> "refresh", user |-> found,
                                 session |-> token.session,
                                 access |-> Access(found.id, found.email, token.session)])
      BY <1>5 DEF RefreshFindUser
    <2>2. PICK r : r = [pc |-> "signRefresh", op |-> "refresh", user |-> found,
                        session |-> token.session,
                        access |-> Access(found.id, found.email, token.session)]
      OBVIOUS
    <2>3. CASE found # NoUser /\ Becomes(c, r)
      <3>1. found \in users /\ found \in User /\ found.id = call[c].owner
        BY <1>0, <2>1, <2>3 DEF FindOne, ById
      <3>2. /\ r.pc = "signRefresh" /\ r.user = found /\ r.session = token.session
            /\ r.access = Access(found.id, found.email, token.session)
        BY <2>2
      <3>3. /\ token \in issued /\ token \in RefreshToken /\ call[c].owner = token.id
        BY <1>0, <1>5, LocalBySegment DEF RefreshFindUser, CallOK, Redeemed
      <3>4. /\ Access(found.id, found.email, token.session).session = token.session
            /\ Names(Access(found.id, found.email, token.session), found)
        <4>1. Access(found.id, found.email, token.session).session = token.session
          BY DEF Access
        <4> QED
          BY <3>1, <4>1, AccessNames
      <3>5. CallOK(r)'
        BY <1>1, <3>1, <3>2, <3>4 DEF CallOK, Names, Subject
      <3>6. Subject(r.access) = token.id /\ r.access.session = token.session
        BY <3>1, <3>2, <3>3, <3>4 DEF Names
      <3>7. Holds(token.session, token.id)
        BY <3>3, SubjectOfRefresh DEF Holds
      <3> QED
        BY <1>1, <1>2, <2>3, <3>5, <3>6, <3>7, LocalStep
    <2> QED
      BY <1>1, <1>2, <2>1, <2>2, <2>3, AnsweredStep DEF Refuses
  <1>6. CASE SignRefreshToken(c)
    <2>1. PICK r : r = [pc |-> "saveToken", op |-> call[c].op, user |-> call[c].user,
                        session |-> call[c].session, access |-> call[c].access,
                        refresh |-> Refresh(call[c].user.id, call[c].session)]
      OBVIOUS
    <2>2. call[c].pc = "signRefresh" /\ Becomes(c, r)
      BY <1>6, <2>1 DEF SignRefreshToken
    <2>3. /\ r.pc = "saveToken" /\ r.user = call[c].user /\ r.session = call[c].session
          /\ r.access = call[c].access
          /\ r.refresh = Refresh(call[c].user.id, call[c].session)
      BY <2>1
    <2>4. r.refresh.session = r.session /\ r.refresh.id = r.user.id
      BY <2>3 DEF Refresh
    <2>5. CallOK(r)'
      BY <1>0, <1>1, <2>2, <2>3, <2>4 DEF CallOK, Names, Subject
    <2>6. Holds(r.access.session, Subject(r.access))
      BY <2>2, <2>3 DEF Holds, HasAccess
    <2> QED
      BY <1>1, <1>2, <2>2, <2>5, <2>6, LocalStep
  <1>7. CASE VerifyFindUser(c)
    <2> DEFINE token == call[c].token
    <2>1. PICK found \in users \cup {NoUser} :
            /\ FindOne(ByEmail(token.email), found, NoUser)
            /\ \/ Refuses(c, "verify", token, "unauthorised")
               \/ found # NoUser /\ Answers(c, "verify", token, found, "ok")
      BY <1>7 DEF VerifyFindUser
    <2>2. PICK r : r = [pc |-> "done", op |-> "verify", status |-> "ok", user |-> found,
                        token |-> token]
      OBVIOUS
    <2>3. CASE found # NoUser /\ Becomes(c, r)
      <3>1. found \in users /\ found.email = token.email
        BY <2>1, <2>3 DEF FindOne, ByEmail
      <3>2. token \in issued /\ token \in AccessToken
        BY <1>0, <1>7, LocalBySegment DEF VerifyFindUser, CallOK, Decoded
      <3>3. r.pc = "done" /\ r.user = found /\ r.token = token
        BY <2>2
      <3>4. CallOK(r)' /\ ~HasAccess(r)
        BY <1>1, <3>1, <3>2, <3>3 DEF CallOK, HasAccess
      <3> QED
        BY <1>1, <1>2, <2>3, <3>4, LocalStep
    <2> QED
      BY <1>1, <1>2, <2>1, <2>2, <2>3, AnsweredStep DEF Refuses, Answers
  <1> QED
    BY <1>3, <1>4, <1>5, <1>6, <1>7

(* A token and a document for the session and the account of an access token. *)
TokenFor(t, access) ==
  /\ t.session = access.session /\ Subject(t) = Subject(access)
  /\ \E u \in users : /\ Subject(t) = u.id
                      /\ t.kind # "refresh" => {t.email, t.id} = {u.email, u.id}
DocFor(d, access) ==
  /\ d.session = access.session /\ d.user = Subject(access)
  /\ d.session = d.token.session /\ d.user = d.token.id
  /\ \E u \in users : d.user = u.id

(* The variables of a call that is answered hold nothing. *)
LEMMA AnsweredOK ==
  ASSUME NEW op, op # "verify", NEW user, NEW token, NEW status
  PROVE  LET r == [pc |-> "done", op |-> op, status |-> status, user |-> user, token |-> token]
         IN  CallOK(r) /\ ~HasAccess(r)
  <1>1. PICK r : r = [pc |-> "done", op |-> op, status |-> status, user |-> user, token |-> token]
    OBVIOUS
  <1>2. r.pc = "done" /\ r.op # "verify"
    BY <1>1
  <1>3. CallOK(r) /\ ~HasAccess(r)
    BY <1>2 DEF CallOK, HasAccess
  <1> QED
    BY <1>1, <1>3

(* A call stores or hands out tokens for the session it holds. *)
Goes(c, r) ==
  /\ Becomes(c, r) /\ CallOK(r)
  /\ HasAccess(r) => r.access = call[c].access
Gives(tokens, access) ==
  /\ issued' = issued \cup tokens
  /\ \A t \in tokens : TokenFor(t, access)
HandsOut(c) ==
  /\ HasAccess(call[c])
  /\ \E r : Goes(c, r)
  /\ \E tokens : Gives(tokens, call[c].access)
  /\ refreshTokens \subseteq refreshTokens'
  /\ \A d \in refreshTokens' \ refreshTokens : DocFor(d, call[c].access)
  /\ users' = users /\ lastId' \in Nat /\ lastId <= lastId'

(* Whoever holds a session after that, held it before. *)
LEMMA HandOutStep ==
  ASSUME SessionInv, TypeOK', NEW c \in Calls, HandsOut(c)
  PROVE  SessionInv'
  <1>a. PICK r : Goes(c, r)
    BY DEF HandsOut
  <1>b. PICK tokens : Gives(tokens, call[c].access)
    BY DEF HandsOut
  <1>0. /\ Becomes(c, r) /\ CallOK(r)
        /\ HasAccess(r) => r.access = call[c].access
        /\ issued' = issued \cup tokens
        /\ \A t \in tokens : TokenFor(t, call[c].access)
    BY <1>a, <1>b DEF Goes, Gives
  <1>9. /\ HasAccess(call[c])
        /\ \A d \in refreshTokens' \ refreshTokens : DocFor(d, call[c].access)
        /\ users' = users /\ lastId' \in Nat /\ lastId <= lastId'
    BY DEF HandsOut
  <1> USE DEF SessionInv
  <1>1. call' = [call EXCEPT ![c] = r] /\ call \in [Calls -> Local]
    BY <1>0 DEF Becomes, TypeOK
  <1>3. CallsOK'
    <2>1. ASSUME NEW d \in Calls
          PROVE  CallOK(call[d])'
      <3>1. CASE d = c
        <4>1. call'[d] = r
          BY <1>1, <3>1
        <4> QED
          BY <1>0, <1>9, <4>1 DEF CallOK, Names, Subject
      <3>2. CASE d # c
        <4>1. call'[d] = call[d] /\ CallOK(call[d])
          BY <1>1, <3>2 DEF CallsOK
        <4> QED
          BY <1>0, <1>9, <4>1 DEF CallOK, Names, Subject
      <3> QED
        BY <3>1, <3>2
    <2> QED
      BY <2>1 DEF CallsOK
  <1>4. ASSUME NEW s, NEW u, Holds(s, u)'
        PROVE  Holds(s, u)
    <2>1. CASE \E d \in refreshTokens' : d.session = s /\ d.user = u
      BY <1>9, <2>1 DEF Holds, DocFor
    <2>2. CASE \E t \in issued' : t.session = s /\ Subject(t) = u
      BY <1>0, <1>9, <2>2 DEF Holds, TokenFor
    <2>3. CASE \E d \in Calls : /\ HasAccess(call'[d])
                                /\ call'[d].access.session = s
                                /\ Subject(call'[d].access) = u
      BY <1>0, <1>1, <1>9, <2>3 DEF Holds
    <2> QED
      BY <1>4, <2>1, <2>2, <2>3 DEF Holds, HasAccess, Subject
  <1>5. OneHolder'
    <2>1. SUFFICES ASSUME NEW s, NEW u, NEW v, Holds(s, u)', Holds(s, v)'
                   PROVE  u = v
      BY DEF OneHolder
    <2> QED
      BY <1>4, <2>1 DEF OneHolder
  <1>6. OldSessions'
    <2>1. SUFFICES ASSUME NEW s, NEW u, Holds(s, u)'
                   PROVE  s <= lastId'
      BY DEF OldSessions
    <2>2. Holds(s, u) /\ s <= lastId /\ s \in Ids
      BY <1>4, <2>1, HeldSessionType DEF OldSessions
    <2> QED
      BY <1>9, <2>2 DEF TypeOK, Ids
  <1>7. DocsAgree'
    BY <1>9 DEF DocsAgree, DocFor
  <1>8. TokensNameAccounts'
    <2>1. \A d \in refreshTokens' : \E u \in users' : d.user = u.id
      BY <1>9 DEF TokensNameAccounts, DocFor
    <2>2. \A t \in issued' : \E u \in users' :
                              /\ Subject(t) = u.id
                              /\ t.kind # "refresh" => {t.email, t.id} = {u.email, u.id}
      BY <1>0, <1>9 DEF TokensNameAccounts, TokenFor
    <2> QED
      BY <2>1, <2>2 DEF TokensNameAccounts, Subject
  <1> QED
    BY <1>3, <1>5, <1>6, <1>7, <1>8

LEMMA HandOuts ==
  ASSUME SessionInv, NEW c \in Calls,
         SaveRefreshToken(c) \/ AnswerTokens(c) \/ ServerAnswer(c)
  PROVE  HandsOut(c)
  <1>0. lastId \in Nat /\ call[c] \in Local /\ CallOK(call[c]) /\ users \subseteq User
    BY DEF SessionInv, TypeOK, CallsOK
  <1>1. CASE SaveRefreshToken(c)
    <2> DEFINE access == call[c].access
               refresh == call[c].refresh
    <2>1. /\ call[c].pc = "saveToken" /\ lastId' = lastId + 1
          /\ UNCHANGED <<users, issued>>
      BY <1>1 DEF SaveRefreshToken
    <2>2. call[c] \in Saving
      BY <1>0, <2>1, LocalBySegment
    <2>3. /\ call[c].user \in users /\ access.session = call[c].session
          /\ Names(access, call[c].user)
          /\ refresh.session = call[c].session /\ refresh.id = call[c].user.id
      BY <1>0, <2>1 DEF CallOK
    <2>4. PICK r : r = [pc |-> "answerTokens", op |-> call[c].op, user |-> call[c].user,
                        access |-> access, refresh |-> refresh]
      OBVIOUS
    <2>5. /\ r.pc = "answerTokens" /\ r.user = call[c].user
          /\ r.access = access /\ r.refresh = refresh
      BY <2>4
    <2>6. CallOK(r)
      BY <2>3, <2>5 DEF CallOK
    <2>7. Goes(c, r)
      BY <1>1, <2>4, <2>5, <2>6 DEF SaveRefreshToken, Goes
    <2>8. \A d \in refreshTokens' \ refreshTokens : DocFor(d, access)
      <3>1. PICK doc : doc = [id |-> lastId + 1, token |-> refresh,
                              session |-> call[c].session, user |-> call[c].user.id,
                              expiryDate |-> ExpiryDate]
        OBVIOUS
      <3>2. refreshTokens' \subseteq refreshTokens \cup {doc}
        BY <1>1, <3>1 DEF SaveRefreshToken, Insert
      <3>3. doc.token = refresh /\ doc.session = call[c].session /\ doc.user = call[c].user.id
        BY <3>1
      <3> QED
        BY <2>3, <3>2, <3>3 DEF Names, DocFor
    <2>9. HasAccess(call[c]) /\ lastId <= lastId' /\ lastId' \in Nat
      BY <1>0, <2>1 DEF HasAccess
    <2>10. refreshTokens \subseteq refreshTokens'
      BY <1>1 DEF SaveRefreshToken, Insert
    <2>11. Gives({}, access)
      BY <2>1 DEF Gives
    <2> QED
      BY <2>1, <2>7, <2>8, <2>9, <2>10, <2>11 DEF HandsOut
  <1>3. CASE AnswerTokens(c)
    <2> DEFINE access == call[c].access
               refresh == call[c].refresh
    <2>1. /\ call[c].pc = "answerTokens" /\ UNCHANGED <<users, refreshTokens, lastId>>
          /\ issued' = issued \cup {access, refresh}
          /\ Answers(c, call[c].op, NoToken, call[c].user, "ok")
      BY <1>3 DEF AnswerTokens, store
    <2>2. call[c] \in Answering
      BY <1>0, <2>1, LocalBySegment
    <2>3. /\ call[c].user \in users /\ Names(access, call[c].user)
          /\ refresh.session = access.session /\ refresh.id = call[c].user.id
      BY <1>0, <2>1 DEF CallOK
    <2>4. refresh.kind = "refresh" /\ Subject(refresh) = refresh.id
      BY <2>2, SubjectOfRefresh DEF Answering, RefreshToken
    <2>5. \A t \in {access, refresh} : TokenFor(t, access)
      BY <2>3, <2>4 DEF Names, TokenFor
    <2>6. call[c].op # "verify"
      BY <2>2 DEF Answering, SessionOps
    <2>7. \E r : Goes(c, r)
      BY <2>1, <2>6, AnsweredOK DEF Answers, Goes
    <2>8. /\ HasAccess(call[c])
          /\ lastId <= lastId' /\ lastId' \in Nat
          /\ Gives({access, refresh}, access)
      BY <1>0, <2>1, <2>5 DEF HasAccess, Gives
    <2>9. refreshTokens \subseteq refreshTokens' /\ refreshTokens' \ refreshTokens = {}
      BY <2>1
    <2> QED
      BY <2>1, <2>7, <2>8, <2>9 DEF HandsOut
  <1>2. CASE ServerAnswer(c)
    <2>1. /\ call[c].pc = "signServerToken"
          /\ UNCHANGED <<users, refreshTokens, lastId>>
          /\ issued' = issued \cup {call[c].access}
          /\ Answers(c, "serverLogin", NoToken, NoUser, "ok")
      BY <1>2 DEF ServerAnswer, store
    <2>2. PICK u \in users : Names(call[c].access, u)
      BY <1>0, <2>1 DEF CallOK
    <2>3. \A t \in {call[c].access} : TokenFor(t, call[c].access)
      BY <2>2 DEF Names, TokenFor
    <2>4. /\ HasAccess(call[c])
          /\ lastId <= lastId' /\ lastId' \in Nat
          /\ Gives({call[c].access}, call[c].access)
      BY <1>0, <2>1, <2>3 DEF HasAccess, Gives
    <2>5. \A d \in refreshTokens' \ refreshTokens : DocFor(d, call[c].access)
      BY <2>1
    <2>6. refreshTokens \subseteq refreshTokens'
      BY <2>1
    <2>7. \E r : Goes(c, r)
      BY <2>1, AnsweredOK DEF Answers, Goes
    <2> QED
      BY <2>1, <2>4, <2>5, <2>6, <2>7 DEF HandsOut
  <1> QED
    BY <1>1, <1>2, <1>3

-----------------------------------------------------------------------------
(* The invariant is inductive. *)

LEMMA SessionInit == Init => SessionInv
  <1> SUFFICES ASSUME Init PROVE SessionInv
    OBVIOUS
  <1>1. TypeOK
    BY BoundAssumption DEF Init, TypeOK, Local
  <1>2. \A c \in Calls : call[c].pc = "idle"
    BY DEF Init, Idle
  <1>3. \A s, u : ~Holds(s, u)
    BY <1>2 DEF Init, Holds, HasAccess
  <1>4. CallsOK
    BY <1>2 DEF CallsOK, CallOK
  <1> QED
    BY <1>1, <1>3, <1>4
    DEF Init, SessionInv, OneHolder, OldSessions, DocsAgree, TokensNameAccounts

(* A crash forgets what some calls held. *)
LEMMA SessionCrash ==
  ASSUME SessionInv, TypeOK', Crash
  PROVE  SessionInv'
  <1>1. UNCHANGED <<users, refreshTokens, issued, lastId>>
    BY DEF Crash, store
  <1>2. \A c \in Calls : call'[c] = call[c] \/ call'[c].pc = "idle"
    BY DEF Crash, Idle
  <1>3. CallsOK'
    <2>1. ASSUME NEW c \in Calls
          PROVE  CallOK(call[c])'
      <3>1. CASE call'[c] = call[c]
        BY <1>1, <3>1, CallKept DEF SessionInv, CallsOK
      <3>2. CASE call'[c].pc = "idle"
        BY <3>2 DEF CallOK
      <3> QED
        BY <1>2, <3>1, <3>2
    <2> QED
      BY <2>1 DEF CallsOK
  <1>4. \A s, u : Holds(s, u)' => Holds(s, u)
    BY <1>1, <1>2 DEF Holds, HasAccess, Subject
  <1>5. OneHolder' /\ OldSessions'
    BY <1>1, <1>4 DEF SessionInv, OneHolder, OldSessions
  <1>6. DocsAgree' /\ TokensNameAccounts'
    BY <1>1 DEF SessionInv, DocsAgree, TokensNameAccounts, Subject
  <1> QED
    BY <1>3, <1>5, <1>6 DEF SessionInv

(* Neither the clock nor the bounds matter. *)
LEMMA SessionStutter ==
  ASSUME SessionInv, TypeOK', UNCHANGED <<users, refreshTokens, issued, lastId, call>>
  PROVE  SessionInv'
  <1>1. OneHolder' /\ OldSessions'
    BY DEF SessionInv, OneHolder, OldSessions, Holds, HasAccess, Subject
  <1>2. CallsOK'
    BY CallKept DEF SessionInv, CallsOK
  <1>3. DocsAgree' /\ TokensNameAccounts'
    BY DEF SessionInv, DocsAgree, TokensNameAccounts, Subject
  <1> QED
    BY <1>1, <1>2, <1>3 DEF SessionInv

LEMMA SessionStep ==
  ASSUME SessionInv, [Next]_vars
  PROVE  SessionInv'
  <1>0. TypeOK'
    BY TypeStep DEF SessionInv
  <1>1. CASE Tick \/ UNCHANGED vars
    BY <1>0, <1>1, SessionStutter DEF Tick, store, vars
  <1>2. CASE Crash
    BY <1>0, <1>2, SessionCrash
  <1>3. ASSUME NEW c \in Calls, Arrive(c) \/ Proceed(c)
        PROVE  SessionInv'
    BY <1>0, <1>3, SessionRegister, SessionLogin, SessionTokens, HandOuts, HandOutStep
    DEF Arrive, Proceed
  <1> QED
    BY <1>1, <1>2, <1>3 DEF Next

-----------------------------------------------------------------------------
(* What the invariant says of the tokens and of verify. *)

LEMMA HolderOfHolding ==
  ASSUME NEW h \in Holdings
  PROVE  h = [session |-> h.session, user |-> h.user] /\ Holds(h.session, h.user)
  BY DEF Holdings, Holds

LEMMA InvSessionHasOneAccount == SessionInv => SessionHasOneAccount
  BY HolderOfHolding DEF SessionInv, OneHolder, SessionHasOneAccount

LEMMA InvAcceptedIdentity == SessionInv => AcceptedIdentity
  <1> SUFFICES ASSUME SessionInv, NEW c \in Calls,
                      call[c].pc = "done" /\ call[c].op = "verify" /\ call[c].status = "ok"
               PROVE  /\ call[c].token.kind # "refresh"
                      /\ call[c].token.email = call[c].user.email
                      /\ \/ call[c].token.id = call[c].user.id
                         \/ SharedEmail(call[c].user)
    BY DEF AcceptedIdentity
  <1> DEFINE t == call[c].token
             u == call[c].user
  <1>1. t \in issued /\ t \in AccessToken /\ u \in users /\ t.email = u.email
    BY DEF SessionInv, CallsOK, CallOK
  <1>2. t.kind # "refresh"
    BY <1>1 DEF AccessToken
  <1>3. PICK w \in users : {t.email, t.id} = {w.email, w.id}
    BY <1>1, <1>2 DEF SessionInv, TokensNameAccounts
  <1>4. u.email \in Emails /\ w.email \in Emails /\ w.id \in Nat
    BY <1>1, <1>3 DEF SessionInv, TypeOK, User, Ids
  <1>5. t.email = w.email /\ t.id = w.id
    BY <1>1, <1>3, <1>4, NamesAssumption
  <1> QED
    BY <1>1, <1>2, <1>3, <1>5 DEF SharedEmail

(* A session belongs to one account for ever, through every refresh, however *)
(* the calls interleave and whatever fails on the way (auth.service.ts       *)
(* register, login, refresh, generateTokenForServerAccess).                  *)
THEOREM SessionsHaveOneAccount == Spec => []SessionHasOneAccount
  <1>1. Init => SessionInv
    BY SessionInit
  <1>2. SessionInv /\ [Next]_vars => SessionInv'
    BY SessionStep
  <1> QED
    BY <1>1, <1>2, InvSessionHasOneAccount, PTL DEF Spec

(* No token is handed out or stored for an account that was not stored,      *)
(* whatever failed before it was signed, and an access token carries that    *)
(* account's own address, under one claim or the other.                      *)
THEOREM TokensAreForAccounts == Spec => []TokensNameAccounts
  <1>1. Init => SessionInv
    BY SessionInit
  <1>2. SessionInv /\ [Next]_vars => SessionInv'
    BY SessionStep
  <1>3. SessionInv => TokensNameAccounts
    BY DEF SessionInv
  <1> QED
    BY <1>1, <1>2, <1>3, PTL DEF Spec

(* verify accepts a token only for the account it was signed for or for one  *)
(* that shares its address, and never one whose claims are swapped           *)
(* (auth.service.ts verify).                                                 *)
THEOREM VerifyAcceptsItsAccount == Spec => []AcceptedIdentity
  <1>1. Init => SessionInv
    BY SessionInit
  <1>2. SessionInv /\ [Next]_vars => SessionInv'
    BY SessionStep
  <1> QED
    BY <1>1, <1>2, InvAcceptedIdentity, PTL DEF Spec

-----------------------------------------------------------------------------
(* The handlers implement the directory of sessions. *)

(* Handing out tokens opens the session, or adds to what its holder has. *)
LEMMA HandOutOpens ==
  ASSUME SessionInv, NEW c \in Calls, HandsOut(c)
  PROVE  Directory!Open \/ UNCHANGED Directory!vars
  <1>1. PICK h : h = [session |-> call[c].access.session, user |-> Subject(call[c].access)]
    OBVIOUS
  <1>2. PICK tokens : /\ issued' = issued \cup tokens
                      /\ \A t \in tokens : TokenFor(t, call[c].access)
    BY DEF HandsOut, Gives
  <1>3. Holdings \subseteq Holdings' /\ Holdings' \subseteq Holdings \cup {h}
    <2>1. \A t \in tokens : [session |-> t.session, user |-> Subject(t)] = h
      BY <1>1, <1>2 DEF TokenFor
    <2>2. \A d \in refreshTokens' \ refreshTokens : [session |-> d.session, user |-> d.user] = h
      BY <1>1 DEF HandsOut, DocFor
    <2>3. issued \subseteq issued' /\ refreshTokens \subseteq refreshTokens'
      BY <1>2 DEF HandsOut
    <2>4. Holdings \subseteq Holdings'
      BY <2>3 DEF Holdings, Subject
    <2>5. ASSUME NEW g \in Holdings' PROVE g \in Holdings \/ g = h
      <3>1. CASE \E d \in refreshTokens' : g = [session |-> d.session, user |-> d.user]
        BY <2>2, <3>1 DEF Holdings
      <3>2. CASE \E t \in issued' : g = [session |-> t.session, user |-> Subject(t)]
        BY <1>2, <2>1, <3>2 DEF Holdings
      <3> QED
        BY <3>1, <3>2 DEF Holdings, Subject
    <2> QED
      BY <2>4, <2>5
  <1>4. users' = users
    BY DEF HandsOut
  <1>5. h.user \in {u.id : u \in users}
    <2>1. CallOK(call[c]) /\ HasAccess(call[c])
      BY DEF SessionInv, CallsOK, HandsOut
    <2>2. PICK u \in users : Names(call[c].access, u)
      BY <2>1 DEF CallOK, HasAccess
    <2> QED
      BY <1>1, <2>2 DEF Names
  <1>6. Holds(h.session, h.user)
    BY <1>1 DEF Holds, HandsOut
  <1>7. CASE h \in Holdings \/ h \notin Holdings'
    <2>1. Holdings' = Holdings
      BY <1>3, <1>7
    <2> QED
      BY <1>4, <2>1 DEF Directory!vars
  <1>8. CASE h \notin Holdings /\ h \in Holdings'
    <2>1. ASSUME NEW g \in Holdings, g.session = h.session PROVE FALSE
      <3>1. g = [session |-> g.session, user |-> g.user] /\ Holds(g.session, g.user)
        BY HolderOfHolding
      <3>2. g.user = h.user
        BY <1>6, <2>1, <3>1 DEF SessionInv, OneHolder
      <3>3. h = [session |-> h.session, user |-> h.user]
        BY <1>1
      <3> QED
        BY <1>8, <2>1, <3>1, <3>2, <3>3
    <2>2. Holdings' = Holdings \cup {h}
      BY <1>3, <1>8
    <2> QED
      BY <1>4, <1>5, <1>8, <2>1, <2>2 DEF Directory!Open
  <1> QED
    BY <1>7, <1>8

LEMMA DirectoryStep ==
  ASSUME SessionInv, [Next]_vars
  PROVE  [Directory!Next]_(Directory!vars)
  <1>1. ASSUME UNCHANGED <<users, refreshTokens, issued>>
        PROVE  UNCHANGED Directory!vars
    BY <1>1 DEF Directory!vars, Holdings, Subject
  <1>2. CASE UNCHANGED vars \/ Tick \/ Crash
    BY <1>1, <1>2 DEF vars, Tick, Crash, store
  <1>3. ASSUME NEW c \in Calls, Arrive(c) \/ Proceed(c)
        PROVE  [Directory!Next]_(Directory!vars)
    <2>1. CASE RegisterUser(c)
      <3>1. PICK user : users' = users \/ users' = users \cup {user}
        BY <2>1 DEF RegisterUser, Insert
      <3>2. Holdings' = Holdings
        BY <2>1 DEF RegisterUser, Holdings, Subject
      <3>3. CASE users' = users
        BY <3>2, <3>3 DEF Directory!vars
      <3>4. CASE users' = users \cup {user}
        <4>1. {u.id : u \in users'} = {u.id : u \in users} \cup {user.id}
          BY <3>4
        <4> QED
          BY <3>2, <4>1 DEF Directory!Next, Directory!Enrol
      <3> QED
        BY <3>1, <3>3, <3>4
    <2>2. CASE SaveRefreshToken(c) \/ AnswerTokens(c) \/ ServerAnswer(c)
      BY <2>2, HandOuts, HandOutOpens DEF Directory!Next
    <2>3. CASE \/ Register(c) \/ RegisterUserName(c) \/ RegisterProfile(c)
               \/ Login(c) \/ LoginVerifyPassword(c) \/ LoginRemoveTokens(c)
               \/ RefreshCall(c) \/ RefreshFindToken(c) \/ RefreshFindUser(c)
               \/ SignRefreshToken(c) \/ Verify(c) \/ VerifyFindUser(c)
               \/ ServerLogin(c) \/ ServerVerifyPassword(c)
      BY <1>1, <2>3
      DEF Register, RegisterUserName, RegisterProfile, Login, LoginVerifyPassword,
          LoginRemoveTokens, RemoveAll, RefreshCall, RefreshFindToken, RefreshFindUser,
          SignRefreshToken, Verify, VerifyFindUser, ServerLogin, ServerVerifyPassword, store
    <2> QED
      BY <1>3, <2>1, <2>2, <2>3 DEF Arrive, Proceed
  <1> QED
    BY <1>2, <1>3 DEF Next

(* The three collections, the calls and the tokens implement a directory in  *)
(* which accounts are only added and a session is opened once, for an        *)
(* account that exists, and keeps its holder.                                *)
THEOREM HandlersImplementDirectory == Spec => ImplementsDirectory
  <1>1. Init => SessionInv
    BY SessionInit
  <1>2. SessionInv /\ [Next]_vars => SessionInv'
    BY SessionStep
  <1>3. Init => Directory!Init
    BY DEF Init, Directory!Init, Holdings
  <1>4. SessionInv /\ [Next]_vars => [Directory!Next]_(Directory!vars)
    BY DirectoryStep
  <1> QED
    BY <1>1, <1>2, <1>3, <1>4, PTL DEF Spec, ImplementsDirectory, Directory!Spec

(* What the directory promises is inherited: whatever a client holds of a    *)
(* session, in a token or in an answer, is for the account that opened it,   *)
(* and that account exists.                                                  *)
THEOREM SessionsHaveOneHolder == Spec => []Directory!OneHolder
  <1>1. Directory!Init => Directory!OneHolder
    BY DEF Directory!Init, Directory!OneHolder
  <1>2. Directory!OneHolder /\ [Directory!Next]_(Directory!vars) => (Directory!OneHolder)'
    <2> SUFFICES ASSUME Directory!OneHolder, [Directory!Next]_(Directory!vars)
                 PROVE  (Directory!OneHolder)'
      OBVIOUS
    <2>1. CASE Directory!Enrol
      BY <2>1 DEF Directory!Enrol, Directory!OneHolder
    <2>2. CASE Directory!Open
      BY <2>2 DEF Directory!Open, Directory!OneHolder
    <2>3. CASE UNCHANGED Directory!vars
      BY <2>3 DEF Directory!vars, Directory!OneHolder
    <2> QED
      BY <2>1, <2>2, <2>3 DEF Directory!Next
  <1> QED
    BY <1>1, <1>2, HandlersImplementDirectory, PTL DEF ImplementsDirectory, Directory!Spec

-----------------------------------------------------------------------------
(* Answered refresh tokens.  The inductive invariant: no more of them, or of *)
(* those about to be answered, lack a document than errors have been met,    *)
(* and a refresh that was refused was refused for a token that has expired.  *)

OnTheWay == {call[c].refresh : c \in {c \in Calls : call[c].pc = "answerTokens"}}
Unbacked == {t \in issued \cup OnTheWay : t.kind = "refresh" /\ ~Backed(t)}

Refused(r) == r.pc = "done" /\ r.op = "refresh" /\ r.status # "ok"
Expired(t) ==
  ~DecodesAsRefresh(t) \/ \E d \in refreshTokens : d.token = t /\ d.expiryDate < now

TokenInv ==
  /\ SessionInv
  /\ IsFiniteSet(Unbacked) /\ Cardinality(Unbacked) <= faults
  /\ faults = 0 => \A c \in Calls : Refused(call[c]) => Expired(call[c].token)

LEMMA OthersKept ==
  ASSUME TypeOK, NEW c \in Calls, Arrive(c) \/ Proceed(c)
  PROVE  \A d \in Calls : d # c => call'[d] = call[d]
  <1>1. CASE NotRegister(c)
    BY <1>1, NotRegisterStep
  <1>2. CASE Register(c) \/ RegisterUserName(c) \/ RegisterProfile(c) \/ RegisterUser(c)
    BY <1>2
    DEF Register, RegisterUserName, RegisterProfile, RegisterUser, Refuses, Answers, Becomes, TypeOK
  <1> QED
    BY <1>1, <1>2 DEF Arrive, Proceed, NotRegister

(* Only the insert of a document is followed by its answer. *)
LEMMA AnswersNext ==
  ASSUME TypeOK, NEW c \in Calls, Arrive(c) \/ Proceed(c), ~SaveRefreshToken(c)
  PROVE  call'[c].pc # "answerTokens"
  <1>1. \A op, token, user, status :
          Answers(c, op, token, user, status) => call'[c].pc # "answerTokens"
    BY BecomesOnly DEF Answers
  <1>2. \A r : Becomes(c, r) /\ r.pc # "answerTokens" => call'[c].pc # "answerTokens"
    BY BecomesOnly
  <1>3. CASE Register(c)
    <2>1. PICK request \in Request :
            \/ Answers(c, "register", NoToken, NoUser, "badRequest")
            \/ Becomes(c, [pc |-> "findByUserName", request |-> request,
                           mark |-> lastId, blind |-> MissedBy("email")])
      BY <1>3 DEF Register, Refuses
    <2> QED
      BY <1>1, <1>2, <2>1
  <1>4. CASE RegisterUserName(c) \/ RegisterProfile(c) \/ RegisterUser(c)
    BY <1>1, <1>2, <1>4 DEF RegisterUserName, RegisterProfile, RegisterUser, Refuses
  <1>5. CASE Login(c) \/ ServerLogin(c)
    <2>1. PICK pc \in {"verifyPassword", "verifyServerPassword"},
               op \in {"login", "serverLogin"},
               password \in Passwords, found \in users \cup {NoUser} :
            \/ Answers(c, op, NoToken, NoUser, "badRequest")
            \/ Becomes(c, [pc |-> pc, password |-> password, user |-> found])
      BY <1>5 DEF Login, ServerLogin, Refuses
    <2> QED
      BY <1>1, <1>2, <2>1
  <1>6. CASE LoginVerifyPassword(c) \/ ServerVerifyPassword(c)
    BY <1>1, <1>2, <1>6 DEF LoginVerifyPassword, ServerVerifyPassword, Refuses
  <1>7. CASE LoginRemoveTokens(c) \/ SignRefreshToken(c) \/ AnswerTokens(c) \/ ServerAnswer(c)
    BY <1>1, <1>2, <1>7 DEF LoginRemoveTokens, SignRefreshToken, AnswerTokens, ServerAnswer
  <1>8. CASE RefreshCall(c) \/ Verify(c)
    <2>1. PICK pc \in {"findToken", "decoded"}, op \in {"refresh", "verify"},
               t \in issued \cup {Garbage}, status \in Statuses :
            \/ Answers(c, op, t, NoUser, status)
            \/ Becomes(c, [pc |-> pc, token |-> t])
      BY <1>8 DEF RefreshCall, Verify, Refuses, Statuses
    <2> QED
      BY <1>1, <1>2, <2>1
  <1>9. CASE RefreshFindToken(c)
    <2>1. PICK found :
            \/ Answers(c, "refresh", call[c].token, NoUser, "unauthorised")
            \/ Becomes(c, [pc |-> "findUser", token |-> call[c].token, owner |-> found.user])
      BY <1>9 DEF RefreshFindToken, Refuses
    <2> QED
      BY <1>1, <1>2, <2>1
  <1>10. CASE RefreshFindUser(c)
    <2>1. PICK found :
            \/ Answers(c, "refresh", call[c].token, NoUser, "unauthorised")
            \/ Becomes(c, [pc |-> "signRefresh", op |-> "refresh", user |-> found,
                           session |-> call[c].token.session,
                           access |-> Access(found.id, found.email, call[c].token.session)])
      BY <1>10 DEF RefreshFindUser, Refuses
    <2> QED
      BY <1>1, <1>2, <2>1
  <1>11. CASE VerifyFindUser(c)
    BY <1>1, <1>11 DEF VerifyFindUser, Refuses
  <1> QED
    BY <1>3, <1>4, <1>5, <1>6, <1>7, <1>8, <1>9, <1>10, <1>11 DEF Arrive, Proceed

LEMMA FaultsGrow ==
  ASSUME TypeOK, [Next]_vars
  PROVE  faults \in Nat /\ faults' \in Nat /\ faults <= faults' /\ now <= now' /\ now \in Int
  <1>1. faults' = faults \/ faults' = faults + 1
    <2>1. ASSUME NEW c \in Calls, Arrive(c) PROVE faults' = faults \/ faults' = faults + 1
      BY <2>1 DEF Arrive, Register, Login, RefreshCall, Verify, ServerLogin, FindOne, Fault, NoFault
    <2>2. ASSUME NEW c \in Calls, Proceed(c) PROVE faults' = faults \/ faults' = faults + 1
      BY <2>2 DEF Proceed, RegisterUserName, RegisterProfile, RegisterUser, LoginVerifyPassword,
                  LoginRemoveTokens, RefreshFindToken, RefreshFindUser, SignRefreshToken,
                  SaveRefreshToken, AnswerTokens, VerifyFindUser, ServerVerifyPassword,
                  ServerAnswer, FindOne,
                  Writes, Fault, NoFault
    <2>3. CASE Crash
      BY <2>3 DEF Crash, Fault
    <2> QED
      BY <2>1, <2>2, <2>3 DEF Next, Tick, vars
  <1>2. now' = now \/ now' = now + 1
    <2>1. ASSUME NEW c \in Calls, Arrive(c) PROVE now' = now
      BY <2>1 DEF Arrive, Register, Login, RefreshCall, Verify, ServerLogin
    <2>2. ASSUME NEW c \in Calls, Proceed(c) PROVE now' = now
      BY <2>2 DEF Proceed, RegisterUserName, RegisterProfile, RegisterUser, LoginVerifyPassword,
                  LoginRemoveTokens, RefreshFindToken, RefreshFindUser, SignRefreshToken,
                  SaveRefreshToken, AnswerTokens, VerifyFindUser, ServerVerifyPassword,
                  ServerAnswer
    <2>3. CASE Tick \/ Crash \/ UNCHANGED vars
      BY <2>3 DEF Tick, Crash, vars
    <2> QED
      BY <2>1, <2>2, <2>3 DEF Next
  <1>3. faults \in Nat /\ now \in Int
    BY BoundAssumption DEF TypeOK
  <1> QED
    BY <1>1, <1>2, <1>3

(* All steps but these leave the tokens as they are, and none is on its way  *)
(* that was not before.                                                      *)
LEMMA TokensKept ==
  ASSUME TypeOK, [Next]_vars,
         ~ \E c \in Calls : SaveRefreshToken(c) \/ AnswerTokens(c) \/ ServerAnswer(c)
  PROVE  UNCHANGED <<issued, refreshTokens>> /\ OnTheWay' \subseteq OnTheWay
  <1>1. ASSUME NEW c \in Calls, Arrive(c) PROVE UNCHANGED <<issued, refreshTokens>>
    BY <1>1 DEF Arrive, Register, Login, RefreshCall, Verify, ServerLogin, store
  <1>2. ASSUME NEW c \in Calls, Proceed(c) PROVE UNCHANGED <<issued, refreshTokens>>
    BY <1>2 DEF Proceed, RegisterUserName, RegisterProfile, RegisterUser, LoginVerifyPassword,
                LoginRemoveTokens, RemoveAll, RefreshFindToken, RefreshFindUser,
                SignRefreshToken, VerifyFindUser, ServerVerifyPassword, store
  <1>3. ASSUME Tick \/ Crash \/ UNCHANGED vars PROVE UNCHANGED <<issued, refreshTokens>>
    BY <1>3 DEF Tick, Crash, store, vars
  <1>4. ASSUME NEW c \in Calls, call'[c].pc = "answerTokens" PROVE call'[c] = call[c]
    <2>1. CASE Arrive(c) \/ Proceed(c)
      BY <1>4, <2>1, AnswersNext
    <2>2. ASSUME NEW d \in Calls, d # c, Arrive(d) \/ Proceed(d) PROVE call'[c] = call[c]
      BY <2>2, OthersKept
    <2>3. CASE Tick \/ Crash \/ UNCHANGED vars
      BY <1>4, <2>3 DEF Tick, Crash, Idle, vars
    <2> QED
      BY <2>1, <2>2, <2>3 DEF Next
  <1>5. OnTheWay' \subseteq OnTheWay
    BY <1>4 DEF OnTheWay
  <1> QED
    BY <1>1, <1>2, <1>3, <1>5 DEF Next

(* Fewer tokens lack a document, or one more does and an error is counted. *)
LEMMA UnbackedStep ==
  ASSUME SessionInv, [Next]_vars
  PROVE  /\ refreshTokens \subseteq refreshTokens'
         /\ \/ Unbacked' \subseteq Unbacked
            \/ faults' = faults + 1 /\ \E t : Unbacked' \subseteq Unbacked \cup {t}
  <1>0. TypeOK
    BY DEF SessionInv
  <1>1. CASE ~ \E c \in Calls : SaveRefreshToken(c) \/ AnswerTokens(c) \/ ServerAnswer(c)
    BY <1>0, <1>1, TokensKept DEF Unbacked, Backed
  <1>2. ASSUME NEW c \in Calls, AnswerTokens(c) \/ ServerAnswer(c)
        PROVE  Unbacked' \subseteq Unbacked /\ refreshTokens' = refreshTokens
    <2>1. call[c].access.kind # "refresh" /\ refreshTokens' = refreshTokens
      BY <1>0, <1>2, LocalBySegment
      DEF AnswerTokens, ServerAnswer, Answering, Granting, AccessToken, TypeOK, store
    <2>2. OnTheWay' \subseteq OnTheWay
      <3>1. \A d \in Calls : d # c => call'[d] = call[d]
        BY <1>0, <1>2, OthersKept DEF Proceed
      <3>2. call'[c].pc = "done"
        BY <1>0, <1>2 DEF AnswerTokens, ServerAnswer, Answers, Becomes, TypeOK
      <3> QED
        BY <3>1, <3>2 DEF OnTheWay
    <2>3. issued' \subseteq issued \cup OnTheWay \cup {call[c].access}
      BY <1>2 DEF AnswerTokens, ServerAnswer, OnTheWay
    <2> QED
      BY <2>1, <2>2, <2>3 DEF Unbacked, Backed
  <1>3. ASSUME NEW c \in Calls, SaveRefreshToken(c)
        PROVE  /\ refreshTokens \subseteq refreshTokens'
               /\ \/ Unbacked' \subseteq Unbacked
                  \/ faults' = faults + 1 /\ Unbacked' \subseteq Unbacked \cup {call[c].refresh}
    <2>1. PICK r \in Saving : r = call[c]
      BY <1>3, LocalBySegment DEF SaveRefreshToken, SessionInv, TypeOK
    <2>2. r.refresh.session = r.session
      BY <1>3, <2>1 DEF SaveRefreshToken, SessionInv, CallsOK, CallOK
    <2>3. PICK doc, outcome :
            /\ outcome \in Outcomes
            /\ doc.token = r.refresh /\ doc.session = r.session
            /\ Writes(outcome)
            /\ refreshTokens' = Insert(refreshTokens, doc, outcome)
      <3> DEFINE doc == [id |-> lastId + 1, token |-> call[c].refresh,
                         session |-> call[c].session, user |-> call[c].user.id,
                         expiryDate |-> ExpiryDate]
      <3>1. PICK outcome \in Outcomes :
              Writes(outcome) /\ refreshTokens' = Insert(refreshTokens, doc, outcome)
        BY <1>3 DEF SaveRefreshToken
      <3>2. doc.token = r.refresh /\ doc.session = r.session
        BY <2>1
      <3> HIDE DEF doc
      <3> QED
        BY <3>1, <3>2
    <2>4. issued' = issued /\ refreshTokens \subseteq refreshTokens'
      BY <1>3, <2>3 DEF SaveRefreshToken, Insert
    <2>5. OnTheWay' \subseteq OnTheWay \cup {r.refresh}
      <3>1. \A d \in Calls : d # c => call'[d] = call[d]
        BY <1>0, <1>3, OthersKept DEF Proceed
      <3>2. call'[c].refresh = r.refresh
        BY <1>0, <1>3, <2>1 DEF SaveRefreshToken, Becomes, TypeOK
      <3> QED
        BY <3>1, <3>2 DEF OnTheWay
    <2>6. Unbacked' \subseteq Unbacked \cup {r.refresh}
      BY <2>4, <2>5 DEF Unbacked, Backed
    <2>7. CASE outcome = "acknowledged"
      <3>1. Backed(r.refresh)'
        BY <2>2, <2>3, <2>7 DEF Insert, Backed
      <3> QED
        BY <2>4, <2>6, <3>1 DEF Unbacked
    <2>8. CASE outcome # "acknowledged"
      BY <2>1, <2>3, <2>4, <2>6, <2>8 DEF Writes, Fault
    <2> QED
      BY <2>7, <2>8
  <1> QED
    BY <1>1, <1>2, <1>3

LEMMA UnbackedInv ==
  ASSUME SessionInv, [Next]_vars, IsFiniteSet(Unbacked), Cardinality(Unbacked) <= faults
  PROVE  IsFiniteSet(Unbacked') /\ Cardinality(Unbacked') <= faults'
  <1>1. faults \in Nat /\ faults' \in Nat /\ faults <= faults' /\ Cardinality(Unbacked) \in Nat
    BY FaultsGrow, FS_CardinalityType DEF SessionInv
  <1>2. CASE Unbacked' \subseteq Unbacked
    <2>1. /\ IsFiniteSet(Unbacked') /\ Cardinality(Unbacked') <= Cardinality(Unbacked)
          /\ Cardinality(Unbacked') \in Nat
      BY <1>2, FS_Subset, FS_CardinalityType
    <2> QED
      BY <1>1, <2>1
  <1>3. ASSUME NEW t, faults' = faults + 1, Unbacked' \subseteq Unbacked \cup {t}
        PROVE  IsFiniteSet(Unbacked') /\ Cardinality(Unbacked') <= faults'
    <2>1. PICK more : more = Unbacked \cup {t}
      OBVIOUS
    <2>2. /\ IsFiniteSet(more) /\ Cardinality(more) \in Nat
          /\ Cardinality(more) <= Cardinality(Unbacked) + 1
      BY <1>1, <2>1, FS_AddElement, FS_CardinalityType
    <2>3. /\ IsFiniteSet(Unbacked') /\ Cardinality(Unbacked') <= Cardinality(more)
          /\ Cardinality(Unbacked') \in Nat
      BY <1>3, <2>1, <2>2, FS_Subset, FS_CardinalityType
    <2> QED
      BY <1>1, <1>3, <2>2, <2>3
  <1> QED
    BY <1>2, <1>3, UnbackedStep


(* Every token that could be sent has its document while nothing fails. *)
LEMMA AllBacked ==
  ASSUME TokenInv, faults = 0, NEW t \in issued, t.kind = "refresh"
  PROVE  Backed(t)
  <1>1. Cardinality(Unbacked) = 0
    BY FS_CardinalityType DEF TokenInv
  <1>2. Unbacked = {}
    BY <1>1, FS_EmptySet DEF TokenInv
  <1> QED
    BY <1>2 DEF Unbacked

(* A token that has expired stays so. *)
LEMMA KeepsExpired ==
  ASSUME TypeOK, NEW t \in AccessToken \cup RefreshToken \cup {Garbage, NoToken}, Expired(t),
         refreshTokens \subseteq refreshTokens', now <= now', now \in Int, now' \in Int
  PROVE  Expired(t)'
  <1>1. CASE ~DecodesAsRefresh(t)
    BY <1>1 DEF DecodesAsRefresh, Unexpired, RefreshToken, AccessToken, Garbage, NoToken, Never,
                Expired
  <1>2. ASSUME NEW d \in refreshTokens, d.token = t, d.expiryDate < now PROVE Expired(t)'
    <2>1. d.expiryDate \in Int
      BY DEF TypeOK, RefreshDoc
    <2> QED
      BY <1>2, <2>1 DEF Expired
  <1> QED
    BY <1>1, <1>2 DEF Expired

(* Only the segments of refresh refuse a refresh. *)
LEMMA RefusedStep ==
  ASSUME TypeOK, NEW c \in Calls, Arrive(c) \/ Proceed(c), Refused(call'[c])
  PROVE  RefreshCall(c) \/ RefreshFindToken(c) \/ RefreshFindUser(c)
  <1>1. \A op, token, user, status :
          Answers(c, op, token, user, status) => op = "refresh" /\ status # "ok"
    BY DEF Refused, Answers, Becomes, TypeOK
  <1>2. ASSUME NEW r, Becomes(c, r), r.pc # "done" PROVE FALSE
    BY <1>2, BecomesOnly DEF Refused
  <1>3. ~Register(c) /\ ~RegisterUserName(c) /\ ~RegisterProfile(c) /\ ~RegisterUser(c)
    <2>1. ~Register(c) /\ ~RegisterUserName(c)
      <3>1. ASSUME Register(c) PROVE FALSE
        <4>1. PICK request \in Request :
                \/ Answers(c, "register", NoToken, NoUser, "badRequest")
                \/ Becomes(c, [pc |-> "findByUserName", request |-> request,
                               mark |-> lastId, blind |-> MissedBy("email")])
          BY <3>1 DEF Register, Refuses
        <4> QED
          BY <1>1, <1>2, <4>1
      <3>2. ASSUME RegisterUserName(c) PROVE FALSE
        BY <1>1, <1>2, <3>2 DEF RegisterUserName, Refuses
      <3> QED
        BY <3>1, <3>2
    <2>2. ~RegisterProfile(c)
      BY <1>2 DEF RegisterProfile
    <2>3. ~RegisterUser(c)
      BY <1>1, <1>2 DEF RegisterUser, Refuses
    <2> QED
      BY <2>1, <2>2, <2>3
  <1>4. ~Login(c) /\ ~LoginVerifyPassword(c) /\ ~LoginRemoveTokens(c) /\ ~ServerLogin(c)
        /\ ~ServerVerifyPassword(c) /\ ~ServerAnswer(c)
    <2>1. ASSUME Login(c) \/ ServerLogin(c) PROVE FALSE
      <3>1. PICK pc \in {"verifyPassword", "verifyServerPassword"},
                 op \in {"login", "serverLogin"},
                 password \in Passwords, found \in users \cup {NoUser} :
              \/ Answers(c, op, NoToken, NoUser, "badRequest")
              \/ Becomes(c, [pc |-> pc, password |-> password, user |-> found])
        BY <2>1 DEF Login, ServerLogin, Refuses
      <3> QED
        BY <1>1, <1>2, <3>1
    <2>2. ~LoginVerifyPassword(c) /\ ~ServerVerifyPassword(c)
      BY <1>1, <1>2 DEF LoginVerifyPassword, ServerVerifyPassword, Refuses
    <2>3. ~LoginRemoveTokens(c) /\ ~ServerAnswer(c)
      BY <1>1, <1>2 DEF LoginRemoveTokens, ServerAnswer
    <2> QED
      BY <2>1, <2>2, <2>3
  <1>5. /\ ~SignRefreshToken(c) /\ ~SaveRefreshToken(c) /\ ~AnswerTokens(c)
        /\ ~Verify(c) /\ ~VerifyFindUser(c)
    <2>1. ~SignRefreshToken(c) /\ ~SaveRefreshToken(c) /\ ~AnswerTokens(c)
      BY <1>1, <1>2 DEF SignRefreshToken, SaveRefreshToken, AnswerTokens
    <2>2. ASSUME Verify(c) PROVE FALSE
      <3>1. PICK t \in issued \cup {Garbage} :
              \/ Answers(c, "verify", t, NoUser, "unauthorised")
              \/ Becomes(c, [pc |-> "decoded", token |-> t])
        BY <2>2 DEF Verify, Refuses
      <3> QED
        BY <1>1, <1>2, <3>1
    <2>3. ~VerifyFindUser(c)
      BY <1>1 DEF VerifyFindUser, Refuses
    <2> QED
      BY <2>1, <2>2, <2>3
  <1> QED
    BY <1>3, <1>4, <1>5 DEF Arrive, Proceed

(* Why a refresh is refused while nothing fails. *)
LEMMA RefusalHasCause ==
  ASSUME TokenInv, [Next]_vars, NEW c \in Calls, Arrive(c) \/ Proceed(c), faults' = 0,
         Refused(call'[c])
  PROVE  Expired(call'[c].token)
  <1> USE DEF TokenInv, SessionInv
  <1>1. faults = 0 /\ ~Fault
    BY FaultsGrow DEF Fault
  <1>2. ASSUME NEW t, NEW status, Refuses(c, "refresh", t, status) PROVE call'[c].token = t
    BY <1>2, BecomesOnly DEF Refuses, Answers
  <1>3. CASE RefreshCall(c)
    <2>1. PICK t \in issued \cup {Garbage} :
            \/ Becomes(c, [pc |-> "findToken", token |-> t])
            \/ ~DecodesAsRefresh(t) /\ Refuses(c, "refresh", t, "serverError")
      BY <1>3 DEF RefreshCall
    <2>2. ~Becomes(c, [pc |-> "findToken", token |-> t])
      BY BecomesOnly DEF Refused
    <2> QED
      BY <1>2, <2>1, <2>2 DEF Expired
  <1>4. CASE RefreshFindToken(c)
    <2>1. PICK token \in RefreshToken : token = call[c].token /\ token \in issued
      BY <1>4, LocalBySegment DEF RefreshFindToken, Redeeming, TypeOK, CallsOK, CallOK
    <2>2. PICK found \in refreshTokens \cup {NoDoc} :
            /\ FindOne(ByTokenAndSession(token, token.session), found, NoDoc)
            /\ \/ found \notin Current /\ Refuses(c, "refresh", token, "unauthorised")
               \/ Becomes(c, [pc |-> "findUser", token |-> token, owner |-> found.user])
      BY <1>4, <2>1 DEF RefreshFindToken
    <2>3. ~Becomes(c, [pc |-> "findUser", token |-> token, owner |-> found.user])
      BY BecomesOnly DEF Refused
    <2>4. found \notin Current /\ call'[c].token = token
      BY <1>2, <2>2, <2>3
    <2>5. ByTokenAndSession(token, token.session) # {}
      BY <1>1, <2>1, AllBacked DEF Backed, ByTokenAndSession, RefreshToken
    <2>6. found \in ByTokenAndSession(token, token.session)
      BY <1>1, <2>2, <2>5 DEF FindOne
    <2>7. found.token = token /\ found \in refreshTokens /\ found.expiryDate \in Int
      BY <2>6 DEF ByTokenAndSession, TypeOK, RefreshDoc
    <2>8. found.expiryDate < now
      BY <2>4, <2>7 DEF Current, TypeOK
    <2> QED
      BY <2>4, <2>7, <2>8 DEF Expired
  <1>5. CASE RefreshFindUser(c)
    <2>1. PICK r \in Redeemed : r = call[c] /\ r.token \in issued /\ r.owner = r.token.id
      BY <1>5, LocalBySegment DEF RefreshFindUser, TypeOK, CallsOK, CallOK
    <2>2. PICK found \in users \cup {NoUser} :
            /\ FindOne(ById(r.owner), found, NoUser)
            /\ \/ found = NoUser /\ Refuses(c, "refresh", r.token, "unauthorised")
               \/ /\ found # NoUser
                  /\ Becomes(c, [pc |-> "signRefresh", op |-> "refresh", user |-> found,
                                 session |-> r.token.session,
                                 access |-> Access(found.id, found.email, r.token.session)])
      BY <1>5, <2>1 DEF RefreshFindUser
    <2>3. PICK u \in users : u.id = r.owner
      <3>1. r.token \in RefreshToken
        BY <2>1 DEF Redeemed
      <3> QED
        BY <2>1, <3>1, SubjectOfRefresh DEF TokensNameAccounts
    <2>4. ById(r.owner) # {}
      BY <2>3 DEF ById
    <2>5. found \in users
      BY <1>1, <2>2, <2>4 DEF FindOne, ById
    <2>6. found # NoUser
      BY <2>5 DEF TypeOK, User, NoUser, Ids
    <2>7. Becomes(c, [pc |-> "signRefresh", op |-> "refresh", user |-> found,
                      session |-> r.token.session,
                      access |-> Access(found.id, found.email, r.token.session)])
      BY <2>2, <2>6
    <2> QED
      BY <2>7, BecomesOnly DEF Refused
  <1> QED
    BY <1>3, <1>4, <1>5, RefusedStep

LEMMA TokenStep ==
  ASSUME TokenInv, [Next]_vars
  PROVE  TokenInv'
  <1>1. SessionInv' /\ IsFiniteSet(Unbacked') /\ Cardinality(Unbacked') <= faults'
    BY SessionStep, UnbackedInv DEF TokenInv
  <1>2. /\ faults \in Nat /\ faults' \in Nat /\ faults <= faults'
        /\ now <= now' /\ now \in Int /\ now' \in Int
        /\ refreshTokens \subseteq refreshTokens'
    <2>1. now' \in Int
      BY <1>1, BoundAssumption DEF SessionInv, TypeOK
    <2> QED
      BY <2>1, FaultsGrow, UnbackedStep DEF TokenInv, SessionInv
  <1>3. ASSUME faults' = 0, NEW c \in Calls, Refused(call'[c]) PROVE Expired(call[c].token)'
    <2>1. CASE Refused(call[c]) /\ call'[c] = call[c]
      <3>1. PICK t \in AccessToken \cup RefreshToken \cup {Garbage, NoToken} : t = call[c].token
        BY <2>1, LocalBySegment DEF Refused, Answered, TokenInv, SessionInv, TypeOK
      <3>2. Expired(t) /\ TypeOK
        BY <1>2, <1>3, <2>1, <3>1 DEF TokenInv, SessionInv
      <3>3. Expired(t)'
        BY <1>2, <3>2, KeepsExpired
      <3> QED
        BY <2>1, <3>1, <3>3
    <2>2. CASE Arrive(c) \/ Proceed(c)
      <3>1. PICK t \in AccessToken \cup RefreshToken \cup {Garbage, NoToken} : t = call'[c].token
        BY <1>1, <1>3, LocalBySegment DEF Refused, Answered, SessionInv, TypeOK
      <3>2. Expired(t) /\ TypeOK
        BY <1>3, <2>2, <3>1, RefusalHasCause DEF TokenInv, SessionInv
      <3>3. Expired(t)'
        BY <1>2, <3>2, KeepsExpired
      <3> QED
        BY <3>1, <3>3
    <2>3. CASE UNCHANGED vars \/ Tick \/ Crash
      BY <1>3, <2>1, <2>3 DEF vars, Tick, Crash, Refused, Idle
    <2>4. ASSUME NEW d \in Calls, d # c, Arrive(d) \/ Proceed(d) PROVE call'[c] = call[c]
      BY <2>4, OthersKept DEF TokenInv, SessionInv
    <2> QED
      BY <1>3, <2>1, <2>2, <2>3, <2>4 DEF Next
  <1> QED
    BY <1>1, <1>3 DEF TokenInv

LEMMA TokenInit == Init => TokenInv
  <1> SUFFICES ASSUME Init PROVE TokenInv
    OBVIOUS
  <1>1. Unbacked = {}
    BY DEF Init, Unbacked, OnTheWay, Idle
  <1>2. \A c \in Calls : ~Refused(call[c])
    BY DEF Init, Refused, Idle
  <1> QED
    BY <1>1, <1>2, SessionInit, FS_EmptySet DEF Init, TokenInv

(* A refresh token that was answered has its document, unless an error took  *)
(* it that was swallowed when it was saved, or a login of its account is     *)
(* meant to have removed it: nobody else's login, no refresh and no          *)
(* registration takes it away.                                               *)
THEOREM TokensAreStored == Spec => []AnsweredTokensStored
  <1>1. TokenInv => AnsweredTokensStored
    <2> SUFFICES ASSUME TokenInv PROVE AnsweredTokensStored
      OBVIOUS
    <2>1. PICK missing :
            missing = {t \in issued : t.kind = "refresh" /\ ~Backed(t) /\ ~Superseded(t)}
      OBVIOUS
    <2>2. missing \subseteq Unbacked
      BY <2>1 DEF Unbacked
    <2>3. /\ Cardinality(missing) \in Nat /\ Cardinality(Unbacked) \in Nat
          /\ Cardinality(missing) <= Cardinality(Unbacked)
      BY <2>2, FS_Subset, FS_CardinalityType DEF TokenInv
    <2>4. Cardinality(Unbacked) <= faults /\ faults \in Nat
      BY DEF TokenInv, SessionInv, TypeOK
    <2> QED
      BY <2>1, <2>3, <2>4 DEF AnsweredTokensStored
  <1> QED
    BY <1>1, TokenInit, TokenStep, PTL DEF Spec

(* While nothing fails, a refresh that is refused came without a refresh     *)
(* token, or with one that has expired.                                      *)
THEOREM RefusalsAreExpiries == Spec => []RefreshRefusedOnlyIfExpired
  <1>1. TokenInv => RefreshRefusedOnlyIfExpired
    BY DEF TokenInv, RefreshRefusedOnlyIfExpired, Refused, Expired
  <1> QED
    BY <1>1, TokenInit, TokenStep, PTL DEF Spec
=============================================================================
