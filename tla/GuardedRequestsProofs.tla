------------------------- MODULE GuardedRequestsProofs -------------------------
(***************************************************************************)
(* Proofs about GuardedRequests, for every set of slots, accounts,         *)
(* addresses, endpoints and bodies and every value of the bounds: the      *)
(* types, what the guards establish, and what overlapping PATCHes can do   *)
(* to the two documents of an account.                                     *)
(***************************************************************************)
EXTENDS GuardedRequests, TLAPS

-----------------------------------------------------------------------------
(* Type correctness, which is inductive as it stands. *)

(* The local variables of a request, by the segment it is in. *)
LEMMA LocalBySegment ==
  ASSUME NEW r \in Local
  PROVE  /\ r.pc \in {"rolesUser", "authUser"} => r \in Guarded
         /\ r.pc = "rolesRole" => r \in Checking
         /\ r.pc = "readUser" => r \in Reading
         /\ r.pc = "readProfile" => r \in ReadOne
         /\ r.pc \in {"writeUser", "writeProfile"} => r \in Writing
         /\ r.pc = "done" => r \in Answered
  BY DEF Local, Idle, Guarded, Checking, Reading, ReadOne, Writing, Answered

LEMMA RequestOfLocal ==
  ASSUME NEW r \in Local, r.pc # "idle"
  PROVE  r.request \in Request
  BY DEF Local, Idle, Guarded, Checking, Reading, ReadOne, Writing, Answered

LEMMA BecomesType ==
  ASSUME call \in [Calls -> Local], NEW c \in Calls, NEW r \in Local, Becomes(c, r)
  PROVE  call' \in [Calls -> Local]
  BY DEF Becomes

LEMMA AnswersType ==
  ASSUME call \in [Calls -> Local], NEW c \in Calls, call[c].pc # "idle",
         NEW actor \in Accounts \cup {Nobody}, NEW status \in Statuses, Answers(c, actor, status)
  PROVE  call' \in [Calls -> Local]
  <1> DEFINE r == [pc |-> "done", request |-> call[c].request, actor |-> actor, status |-> status]
  <1>1. call[c].request \in Request
    BY RequestOfLocal
  <1>2. r \in Local
    BY <1>1 DEF Local, Answered
  <1> QED
    BY <1>2, BecomesType DEF Answers

(* Either guard may end the request or carry it on. *)
LEMMA GuardType ==
  ASSUME call \in [Calls -> Local], NEW c \in Calls, NEW request \in Request,
         AuthGuard(c, request) \/ RolesGuard(c, request)
  PROVE  call' \in [Calls -> Local]
  <1>1. PICK r : /\ Becomes(c, r)
                 /\ \/ r = [pc |-> "authUser", request |-> request]
                    \/ r = [pc |-> "rolesUser", request |-> request]
                    \/ \E status \in Statuses :
                         r = [pc |-> "done", request |-> request, actor |-> Nobody,
                              status |-> status]
    BY DEF AuthGuard, RolesGuard, Statuses
  <1>2. r \in Local
    BY <1>1 DEF Local, Guarded, Answered
  <1> QED
    BY <1>1, <1>2, BecomesType

(* A document keeps its fields and the type of their values. *)
LEMMA UpdateType ==
  ASSUME NEW Fields, NEW doc \in [Fields -> Value], NEW entity \in [Fields -> Value]
  PROVE  Update(doc, entity) \in [Fields -> Value]
  BY DEF Update

LEMMA EntityTypes ==
  ASSUME NEW request \in Request, NEW user \in [UserFields -> Value],
         NEW profile \in [ProfileFields -> Value]
  PROVE  /\ UserEntity(user, request) \in [UserFields -> Value]
         /\ ProfileEntity(profile, request) \in [ProfileFields -> Value]
  <1>1. request.n \in Value /\ Undefined \in Value
    BY DEF Request, Value
  <1> QED
    BY <1>1 DEF UserEntity, ProfileEntity

LEMMA TypeArrive ==
  ASSUME TypeOK, NEW c \in Calls, Arrive(c)
  PROVE  TypeOK'
  <1>1. served' \in Nat
    BY DEF Arrive, TypeOK
  <1> DEFINE Made(endpoint, token, body) ==
               [n |-> served', endpoint |-> endpoint, token |-> token, body |-> body]
  <1>2a. PICK endpoint \in Endpoints, token \in Signed \cup {NoToken}, body \in Bodies :
          AuthGuard(c, Made(endpoint, token, body)) \/ RolesGuard(c, Made(endpoint, token, body))
    BY DEF Arrive
  <1>2b. PICK request :
           /\ request = Made(endpoint, token, body)
           /\ AuthGuard(c, request) \/ RolesGuard(c, request)
    BY <1>2a
  <1>3. token \in Token \cup {NoToken}
    BY DEF Signed, InHand, Token
  <1>4. request \in Request
    BY <1>1, <1>2b, <1>3, EndpointAssumption, BodyAssumption DEF Request
  <1>5. call' \in [Calls -> Local]
    BY <1>2b, <1>4, GuardType DEF TypeOK
  <1>6. \A d \in Calls : Active(d) => {served', call[d].request.n} \subseteq Nat
    <2> SUFFICES ASSUME NEW d \in Calls, Active(d)
                 PROVE  call[d].request.n \in Nat
      BY <1>1
    <2>1. call[d].request \in Request
      BY RequestOfLocal DEF TypeOK, Active, Free
    <2> QED
      BY <2>1 DEF Request
  <1>7. overlapped' \subseteq SUBSET Nat
    <2> SUFFICES ASSUME NEW o \in overlapped'
                 PROVE  o \subseteq Nat
      OBVIOUS
    <2>1. o \in overlapped \/ \E d \in Calls : Active(d) /\ o = {served', call[d].request.n}
      BY DEF Arrive
    <2>2. CASE o \in overlapped
      BY <2>2 DEF TypeOK
    <2> QED
      BY <1>6, <2>1, <2>2
  <1> QED
    BY <1>1, <1>5, <1>7 DEF Arrive, TypeOK

LEMMA TypeGuards ==
  ASSUME TypeOK, NEW c \in Calls, RolesUser(c) \/ RolesRole(c) \/ AuthUser(c)
  PROVE  TypeOK'
  <1>1. call[c] \in Local /\ call[c].pc \in {"rolesUser", "rolesRole", "authUser"}
    BY DEF TypeOK, RolesUser, RolesRole, AuthUser
  <1>2. call[c].request \in Request
    BY <1>1, RequestOfLocal
  <1>3. CASE RolesUser(c)
    <2>1. PICK found \in Accounts \cup {Nobody} :
            \/ Answers(c, Nobody, "unauthorised")
            \/ /\ found # Nobody
               /\ Becomes(c, [pc |-> "rolesRole", request |-> call[c].request,
                              account |-> found])
      BY <1>3 DEF RolesUser
    <2>2. PICK r : r = [pc |-> "rolesRole", request |-> call[c].request, account |-> found]
      OBVIOUS
    <2>3. found # Nobody => r \in Local
      BY <1>2, <2>2 DEF Local, Checking
    <2>4. call' \in [Calls -> Local]
      BY <1>1, <2>1, <2>2, <2>3, BecomesType, AnswersType DEF TypeOK, Statuses
    <2> QED
      BY <1>3, <2>4 DEF RolesUser, TypeOK, FindOne, Fault, NoFault
  <1>4. CASE RolesRole(c)
    <2>1. Answers(c, Nobody, "forbidden") \/ AuthGuard(c, call[c].request)
      BY <1>4 DEF RolesRole
    <2>2. call' \in [Calls -> Local]
      BY <1>1, <1>2, <2>1, AnswersType, GuardType DEF TypeOK, Statuses
    <2> QED
      BY <1>4, <2>2 DEF RolesRole, TypeOK, FindOne, Fault, NoFault
  <1>5. CASE AuthUser(c)
    <2>1. PICK found \in Accounts \cup {Nobody} :
            \/ Answers(c, Nobody, "unauthorised")
            \/ Answers(c, found, "badRequest")
            \/ /\ found # Nobody
               /\ Becomes(c, [pc |-> "readUser", request |-> call[c].request, actor |-> found])
      BY <1>5 DEF AuthUser
    <2>2. PICK r : r = [pc |-> "readUser", request |-> call[c].request, actor |-> found]
      OBVIOUS
    <2>3. found # Nobody => r \in Local
      BY <1>2, <2>2 DEF Local, Reading
    <2>4. call' \in [Calls -> Local]
      BY <1>1, <2>1, <2>2, <2>3, BecomesType, AnswersType DEF TypeOK, Statuses
    <2> QED
      BY <1>5, <2>4 DEF AuthUser, TypeOK, FindOne, Fault, NoFault
  <1> QED
    BY <1>3, <1>4, <1>5

LEMMA TypeReads ==
  ASSUME TypeOK, NEW c \in Calls, ReadUser(c) \/ ReadProfile(c)
  PROVE  TypeOK'
  <1>1. call[c] \in Local /\ call[c].pc \in {"readUser", "readProfile"}
    BY DEF TypeOK, ReadUser, ReadProfile
  <1>2. call[c].request \in Request /\ call[c].actor \in Accounts
    BY <1>1, LocalBySegment DEF Reading, ReadOne
  <1>3. CASE ReadUser(c)
    <2>1. \/ Answers(c, call[c].actor, "notFound")
          \/ Becomes(c, [pc |-> "readProfile", request |-> call[c].request,
                         actor |-> call[c].actor, user |-> users[call[c].actor]])
      BY <1>3 DEF ReadUser
    <2>2. PICK r : r = [pc |-> "readProfile", request |-> call[c].request,
                        actor |-> call[c].actor, user |-> users[call[c].actor]]
      OBVIOUS
    <2>3. users[call[c].actor] \in [UserFields -> Value]
      BY <1>2 DEF TypeOK
    <2>4. r \in Local
      BY <1>2, <2>2, <2>3 DEF Local, ReadOne
    <2>5. call' \in [Calls -> Local]
      BY <1>1, <1>2, <2>1, <2>2, <2>4, BecomesType, AnswersType DEF TypeOK, Statuses
    <2> QED
      BY <1>3, <2>5 DEF ReadUser, TypeOK, FindOne, Fault, NoFault
  <1>4. CASE ReadProfile(c)
    <2> DEFINE user == UserEntity(call[c].user, call[c].request)
               profile == ProfileEntity(profiles[call[c].actor], call[c].request)
    <2>1. PICK found \in {call[c].actor, Nobody} :
            /\ FindOne({call[c].actor} \cap DOMAIN profiles, found)
            /\ \/ Answers(c, call[c].actor, "notFound")
               \/ /\ found # Nobody
                  /\ Becomes(c, [pc |-> "writeUser", request |-> call[c].request,
                                 actor |-> call[c].actor, user |-> user, profile |-> profile])
      BY <1>4 DEF ReadProfile
    <2>2. PICK r : r = [pc |-> "writeUser", request |-> call[c].request,
                        actor |-> call[c].actor, user |-> user, profile |-> profile]
      OBVIOUS
    <2>3. found # Nobody => call[c].actor \in DOMAIN profiles
      BY <2>1 DEF FindOne
    <2>4. call[c].user \in [UserFields -> Value]
      BY <1>1, <1>4, LocalBySegment DEF ReadOne, ReadProfile
    <2>5. found # Nobody => user \in [UserFields -> Value] /\ profile \in [ProfileFields -> Value]
      BY <1>2, <2>3, <2>4, EntityTypes DEF TypeOK
    <2>6. found # Nobody => r \in Local
      BY <1>2, <2>2, <2>5 DEF Local, Writing
    <2>7. call' \in [Calls -> Local]
      BY <1>1, <1>2, <2>1, <2>2, <2>6, BecomesType, AnswersType DEF TypeOK, Statuses
    <2> QED
      BY <1>4, <2>7 DEF ReadProfile, TypeOK, FindOne, Fault, NoFault
  <1> QED
    BY <1>3, <1>4

LEMMA TypeWrites ==
  ASSUME TypeOK, NEW c \in Calls, WriteUser(c) \/ WriteProfile(c)
  PROVE  TypeOK'
  <1>1. call[c] \in Local /\ call[c].pc \in {"writeUser", "writeProfile"}
    BY DEF TypeOK, WriteUser, WriteProfile
  <1>2. /\ call[c].request \in Request /\ call[c].actor \in Accounts
        /\ call[c].user \in [UserFields -> Value] /\ call[c].profile \in [ProfileFields -> Value]
    BY <1>1, LocalBySegment DEF Writing
  <1>3. CASE WriteUser(c)
    <2>1. PICK outcome \in Outcomes :
            /\ Reports(outcome)
            /\ users' = Stored(users, call[c].actor, call[c].user, outcome)
            /\ \/ Answers(c, call[c].actor, "serverError")
               \/ Becomes(c, [pc |-> "writeProfile", request |-> call[c].request,
                              actor |-> call[c].actor, user |-> call[c].user,
                              profile |-> call[c].profile])
      BY <1>3 DEF WriteUser
    <2>2. PICK r : r = [pc |-> "writeProfile", request |-> call[c].request,
                        actor |-> call[c].actor, user |-> call[c].user,
                        profile |-> call[c].profile]
      OBVIOUS
    <2>3. r \in Local
      BY <1>2, <2>2 DEF Local, Writing
    <2>4. call' \in [Calls -> Local]
      BY <1>1, <1>2, <2>1, <2>2, <2>3, BecomesType, AnswersType DEF TypeOK, Statuses
    <2>5. Update(users[call[c].actor], call[c].user) \in [UserFields -> Value]
      BY <1>2, UpdateType DEF TypeOK
    <2>6. users' \in [Accounts -> [UserFields -> Value]]
      BY <1>2, <2>1, <2>5 DEF TypeOK, Stored
    <2> QED
      BY <1>3, <2>1, <2>4, <2>6 DEF WriteUser, TypeOK, Reports, Fault, NoFault
  <1>4. CASE WriteProfile(c)
    <2>1. PICK outcome \in Outcomes :
            /\ Reports(outcome)
            /\ profiles' = Stored(profiles, call[c].actor, call[c].profile, outcome)
            /\ Answers(c, call[c].actor, IF outcome = "acknowledged" THEN "ok" ELSE "serverError")
      BY <1>4 DEF WriteProfile
    <2>2. call' \in [Calls -> Local]
      BY <1>1, <1>2, <2>1, AnswersType DEF TypeOK, Statuses
    <2>3. call[c].actor \in DOMAIN profiles =>
            Update(profiles[call[c].actor], call[c].profile) \in [ProfileFields -> Value]
      BY <1>2, UpdateType DEF TypeOK
    <2>4. /\ DOMAIN profiles' \subseteq Accounts
          /\ \A a \in DOMAIN profiles' : profiles'[a] \in [ProfileFields -> Value]
      BY <1>2, <2>1, <2>3 DEF TypeOK, Stored
    <2> QED
      BY <1>4, <2>1, <2>2, <2>4 DEF WriteProfile, TypeOK, Reports, Fault, NoFault
  <1> QED
    BY <1>3, <1>4

LEMMA TypeInit ==
  ASSUME Init
  PROVE  TypeOK
  <1>1. /\ DOMAIN profiles \subseteq Accounts
        /\ \A a \in DOMAIN profiles : profiles[a] \in [ProfileFields -> Value]
    BY DEF Init, Value, AsRegistered
  <1>2. users \in [Accounts -> [UserFields -> Value]]
    BY DEF Init, Value, AsRegistered
  <1> QED
    BY <1>1, <1>2, BoundAssumption DEF Init, TypeOK, Local, Idle

LEMMA TypeOthers ==
  ASSUME TypeOK, Tick \/ Crash \/ UNCHANGED vars
  PROVE  TypeOK'
  <1>1. CASE Tick
    BY <1>1, BoundAssumption DEF Tick, TypeOK
  <1>2. CASE Crash
    <2>1. call' \in [Calls -> Local]
      BY <1>2 DEF Crash, TypeOK, Local
    <2> QED
      BY <1>2, <2>1 DEF Crash, TypeOK, Fault
  <1>3. CASE UNCHANGED vars
    BY <1>3 DEF vars, TypeOK
  <1> QED
    BY <1>1, <1>2, <1>3

LEMMA TypeStep == TypeOK /\ [Next]_vars => TypeOK'
  BY TypeArrive, TypeGuards, TypeReads, TypeWrites, TypeOthers DEF Next, Proceed

(* The documents, the clock and what a request carries from segment to       *)
(* segment keep their types, whatever requests overlap or fail.              *)
THEOREM TypeCorrect == Spec => []TypeOK
  BY TypeInit, TypeStep, PTL DEF Spec

-----------------------------------------------------------------------------
(* Who gets past the guards.  AuthorisedActor speaks of requests that passed *)
(* both; that is inductive only with what each guard has established when    *)
(* the next await begins: the token is signed, the account whose role is     *)
(* read shares the token's address, and AuthGuard is reached only where one  *)
(* of the namesakes has the role.                                            *)

RoleHeld(request) ==
  request.endpoint # "patch" =>
    \E a \in Namesakes(request.token.account) :
      accounts[a].role \in RequiredRoles(request.endpoint)
Passed(r) ==
  \/ r.pc \in {"readUser", "readProfile", "writeUser", "writeProfile"}
  \/ r.pc = "done" /\ r.status \notin {"unauthorised", "forbidden"}

GuardOK(r) ==
  /\ r.pc \notin {"idle", "done"} => r.request.token \in Signed
  /\ r.pc = "rolesRole" => r.account \in Namesakes(r.request.token.account)
  /\ r.pc = "authUser" => RoleHeld(r.request)
  /\ Passed(r) => r.actor \in Namesakes(r.request.token.account) /\ RoleHeld(r.request)

GuardsOK == \A c \in Calls : GuardOK(call[c])

LEMMA GuardOKIdle == GuardOK(Idle)
  BY DEF GuardOK, Idle, Passed

LEMMA GuardOKRefused ==
  ASSUME NEW r, r.pc = "done", r.status \in {"unauthorised", "forbidden"}
  PROVE  GuardOK(r)
  BY DEF GuardOK, Passed

(* One request takes a step, the accounts and the other requests stay. *)
LEMMA GuardsStep ==
  ASSUME TypeOK, GuardsOK, UNCHANGED accounts, NEW c \in Calls, NEW r, Becomes(c, r), GuardOK(r)
  PROVE  GuardsOK'
  <1>1. \A d \in Calls : GuardOK(call'[d])
    BY DEF Becomes, TypeOK, GuardsOK
  <1> QED
    BY <1>1 DEF GuardsOK, GuardOK, Signed, Namesakes, RoleHeld, Passed

(* The account found under the address of a signed token shares the address  *)
(* of the account it was signed for: a claim that holds an id finds no one.  *)
LEMMA FoundByAddress ==
  ASSUME TypeOK, NEW t \in Signed, NEW a \in ByEmail(t.email)
  PROVE  a \in Namesakes(t.account)
  BY NamesAssumption DEF TypeOK, Account, Signed, InHand, ByEmail, Namesakes

LEMMA AuthGuardKeeps ==
  ASSUME TypeOK, GuardsOK, UNCHANGED accounts, NEW c \in Calls, NEW request,
         AuthGuard(c, request), request.token \in Signed \cup {NoToken}, RoleHeld(request)
  PROVE  GuardsOK'
  <1>1. PICK r : /\ Becomes(c, r)
                 /\ \/ /\ Decodes(request.token)
                       /\ r = [pc |-> "authUser", request |-> request]
                    \/ r = [pc |-> "done", request |-> request, actor |-> Nobody,
                            status |-> "unauthorised"]
    BY DEF AuthGuard
  <1>2. GuardOK(r)
    BY <1>1 DEF GuardOK, Passed, Decodes
  <1> QED
    BY <1>1, <1>2, GuardsStep

LEMMA RolesGuardKeeps ==
  ASSUME TypeOK, GuardsOK, UNCHANGED accounts, NEW c \in Calls, NEW request,
         RolesGuard(c, request), request.token \in Signed \cup {NoToken}
  PROVE  GuardsOK'
  <1>1. PICK r : /\ Becomes(c, r)
                 /\ \/ /\ Decodes(request.token)
                       /\ r = [pc |-> "rolesUser", request |-> request]
                    \/ \E status \in {"forbidden", "unauthorised"} :
                         r = [pc |-> "done", request |-> request, actor |-> Nobody,
                              status |-> status]
    BY DEF RolesGuard
  <1>2. GuardOK(r)
    BY <1>1 DEF GuardOK, Passed, Decodes
  <1> QED
    BY <1>1, <1>2, GuardsStep

LEMMA RefusalKeeps ==
  ASSUME TypeOK, GuardsOK, UNCHANGED accounts, NEW c \in Calls,
         NEW status \in {"unauthorised", "forbidden"}, Answers(c, Nobody, status)
  PROVE  GuardsOK'
  <1>1. PICK r : /\ r = [pc |-> "done", request |-> call[c].request, actor |-> Nobody,
                         status |-> status]
                 /\ Becomes(c, r)
    BY DEF Answers
  <1> QED
    BY <1>1, GuardOKRefused, GuardsStep

(* A request that passed carries its actor on, whatever it is answered. *)
LEMMA PassedKeeps ==
  ASSUME TypeOK, GuardsOK, UNCHANGED accounts, NEW c \in Calls,
         call[c].request.token \in Signed, RoleHeld(call[c].request),
         NEW actor \in Namesakes(call[c].request.token.account),
         NEW r, Becomes(c, r), r.request = call[c].request, r.actor = actor,
         r.pc \in {"readUser", "readProfile", "writeUser", "writeProfile", "done"}
  PROVE  GuardsOK'
  <1>1. GuardOK(r)
    BY DEF GuardOK
  <1> QED
    BY <1>1, GuardsStep

LEMMA GuardsArrive ==
  ASSUME TypeOK, GuardsOK, NEW c \in Calls, Arrive(c)
  PROVE  GuardsOK'
  <1> DEFINE Made(endpoint, token, body) ==
               [n |-> served', endpoint |-> endpoint, token |-> token, body |-> body]
  <1>0. PICK endpoint \in Endpoints, token \in Signed \cup {NoToken}, body \in Bodies :
          \/ RequiredRoles(endpoint) = {} /\ AuthGuard(c, Made(endpoint, token, body))
          \/ RequiredRoles(endpoint) # {} /\ RolesGuard(c, Made(endpoint, token, body))
    BY DEF Arrive
  <1>1. PICK request : /\ request = Made(endpoint, token, body)
                       /\ \/ RequiredRoles(endpoint) = {} /\ AuthGuard(c, request)
                          \/ RequiredRoles(endpoint) # {} /\ RolesGuard(c, request)
    BY <1>0
  <1>2. RequiredRoles(endpoint) = {} => RoleHeld(request)
    BY <1>1, EndpointAssumption DEF RequiredRoles, RoleHeld, Handlers
  <1>3. UNCHANGED accounts
    BY DEF Arrive
  <1> QED
    BY <1>1, <1>2, <1>3, AuthGuardKeeps, RolesGuardKeeps

LEMMA GuardsGuards ==
  ASSUME TypeOK, GuardsOK, NEW c \in Calls, RolesUser(c) \/ RolesRole(c) \/ AuthUser(c)
  PROVE  GuardsOK'
  <1> DEFINE request == call[c].request
  <1>1. UNCHANGED accounts
    BY DEF RolesUser, RolesRole, AuthUser
  <1>2. GuardOK(call[c]) /\ request.token \in Signed
    BY DEF GuardsOK, GuardOK, RolesUser, RolesRole, AuthUser
  <1>3. CASE RolesUser(c)
    <2>1. PICK found \in Accounts \cup {Nobody} :
            /\ FindOne(ByEmail(request.token.email), found)
            /\ \/ Answers(c, Nobody, "unauthorised")
               \/ /\ found # Nobody
                  /\ Becomes(c, [pc |-> "rolesRole", request |-> request, account |-> found])
      BY <1>3 DEF RolesUser
    <2>2. found # Nobody => found \in Namesakes(request.token.account)
      BY <1>2, <2>1, FoundByAddress DEF FindOne
    <2>3. PICK r : r = [pc |-> "rolesRole", request |-> request, account |-> found]
      OBVIOUS
    <2>4. found # Nobody => GuardOK(r)
      BY <1>2, <2>2, <2>3 DEF GuardOK, Passed
    <2> QED
      BY <1>1, <2>1, <2>3, <2>4, GuardsStep, RefusalKeeps
  <1>4. CASE RolesRole(c)
    <2>1. PICK found \in {call[c].account, Nobody} :
            \/ Answers(c, Nobody, "forbidden")
            \/ MayPass(found, request.endpoint) /\ AuthGuard(c, request)
      BY <1>4 DEF RolesRole
    <2>2. call[c].account \in Namesakes(request.token.account)
      BY <1>2, <1>4 DEF GuardOK, RolesRole
    <2>3. MayPass(found, request.endpoint) => RoleHeld(request)
      BY <2>1, <2>2 DEF MayPass, RoleHeld
    <2> QED
      BY <1>1, <1>2, <2>1, <2>3, RefusalKeeps, AuthGuardKeeps
  <1>5. CASE AuthUser(c)
    <2>1. PICK found \in Accounts \cup {Nobody} :
            /\ FindOne(ByEmail(request.token.email), found)
            /\ \/ Answers(c, Nobody, "unauthorised")
               \/ found # Nobody /\ Answers(c, found, "badRequest")
               \/ /\ found # Nobody
                  /\ Becomes(c, [pc |-> "readUser", request |-> request, actor |-> found])
      BY <1>5 DEF AuthUser
    <2>2. found # Nobody => found \in Namesakes(request.token.account)
      BY <1>2, <2>1, FoundByAddress DEF FindOne
    <2>3. RoleHeld(request)
      BY <1>2, <1>5 DEF GuardOK, AuthUser
    <2>4. CASE Answers(c, Nobody, "unauthorised")
      BY <1>1, <2>4, RefusalKeeps
    <2>5. CASE found # Nobody /\ ~Answers(c, Nobody, "unauthorised")
      <3>1. PICK r : /\ Becomes(c, r) /\ r.request = request /\ r.actor = found
                     /\ r.pc \in {"readUser", "done"}
        BY <2>1, <2>5 DEF Answers
      <3> QED
        BY <1>1, <1>2, <2>2, <2>3, <2>5, <3>1, PassedKeeps
    <2> QED
      BY <2>1, <2>4, <2>5
  <1> QED
    BY <1>3, <1>4, <1>5

LEMMA GuardsHandler ==
  ASSUME TypeOK, GuardsOK, NEW c \in Calls,
         ReadUser(c) \/ ReadProfile(c) \/ WriteUser(c) \/ WriteProfile(c)
  PROVE  GuardsOK'
  <1>1. UNCHANGED accounts
    BY DEF ReadUser, ReadProfile, WriteUser, WriteProfile
  <1>2. call[c].pc \in {"readUser", "readProfile", "writeUser", "writeProfile"}
    BY DEF ReadUser, ReadProfile, WriteUser, WriteProfile
  <1>3. /\ call[c].request.token \in Signed /\ RoleHeld(call[c].request)
        /\ call[c].actor \in Namesakes(call[c].request.token.account)
    BY <1>2 DEF GuardsOK, GuardOK, Passed
  <1>4. PICK r : /\ Becomes(c, r) /\ r.request = call[c].request /\ r.actor = call[c].actor
                 /\ r.pc \in {"readProfile", "writeUser", "writeProfile", "done"}
    <2>1. CASE ReadUser(c)
      BY <2>1 DEF ReadUser, Answers
    <2>2. CASE ReadProfile(c)
      BY <2>2 DEF ReadProfile, Answers
    <2>3. CASE WriteUser(c)
      BY <2>3 DEF WriteUser, Answers
    <2>4. CASE WriteProfile(c)
      BY <2>4 DEF WriteProfile, Answers
    <2> QED
      BY <2>1, <2>2, <2>3, <2>4
  <1> QED
    BY <1>1, <1>3, <1>4, PassedKeeps

LEMMA GuardsOthers ==
  ASSUME TypeOK, GuardsOK, Tick \/ Crash \/ UNCHANGED vars
  PROVE  GuardsOK'
  <1>1. UNCHANGED accounts /\ \A c \in Calls : call'[c] = call[c] \/ call'[c] = Idle
    BY DEF Tick, Crash, vars
  <1>2. \A c \in Calls : GuardOK(call'[c])
    BY <1>1, GuardOKIdle DEF GuardsOK
  <1> QED
    BY <1>1, <1>2 DEF GuardsOK, GuardOK, Signed, Namesakes, RoleHeld, Passed

LEMMA GuardsInit == Init => GuardsOK
  BY GuardOKIdle DEF Init, GuardsOK

LEMMA GuardsAlways == Spec => []GuardsOK
  <1>1. TypeOK /\ GuardsOK /\ [Next]_vars => GuardsOK'
    BY GuardsArrive, GuardsGuards, GuardsHandler, GuardsOthers DEF Next, Proceed
  <1> QED
    BY <1>1, GuardsInit, TypeCorrect, PTL DEF Spec

(* A request that passed its guards acts for the account its token was       *)
(* signed for, or one that shares its address, and one of these has the role *)
(* the endpoint asks for.                                                    *)
THEOREM GuardsAuthorise == Spec => []AuthorisedActor
  <1>1. GuardsOK => AuthorisedActor
    BY DEF GuardsOK, GuardOK, Passed, PassedGuards, RoleHeld, AuthorisedActor
  <1> QED
    BY <1>1, GuardsAlways, PTL

-----------------------------------------------------------------------------
(* Updates of profiles: a PATCH undoes only the writes of PATCHes it         *)
(* overlapped, and the two documents of an account disagree only by overlap  *)
(* or failure.  The inductive invariant: a PATCH works on copies from one    *)
(* await to the next; a copy still agrees with its document on the fields    *)
(* the PATCH does not set, or the document was written since by a PATCH it   *)
(* overlaps.                                                                 *)

Overlap(n, doc, pairs) == {n, doc["createdAt"]} \in pairs

Copies(entity, doc, request) ==
  \A f \in DOMAIN doc \ (request.body \cup {"createdAt"}) : entity[f] \in {doc[f], Undefined}

UserCopied(r, user, pairs) ==
  r.pc \in {"readProfile", "writeUser"} =>
    Copies(r.user, user, r.request) \/ Overlap(r.request.n, user, pairs)

ProfileCopied(r, profile, pairs) ==
  r.pc \in {"writeUser", "writeProfile"} =>
    Copies(r.profile, profile, r.request) \/ Overlap(r.request.n, profile, pairs)

(* Between its writes the account's document is its own, or of an overlap. *)
UserWritten(r, user, pairs) ==
  r.pc = "writeProfile" =>
    user["createdAt"] = r.request.n \/ Overlap(r.request.n, user, pairs)

(* What is written carries the number of the PATCH. *)
Stamped(r) ==
  r.pc \in {"writeUser", "writeProfile"} =>
    r.user["createdAt"] = r.request.n /\ r.profile["createdAt"] = r.request.n

AllOverlap == \A c, d \in Calls : c # d /\ Active(c) /\ Active(d) =>
                {call[c].request.n, call[d].request.n} \in overlapped

Patching == {"readProfile", "writeUser", "writeProfile"}
CopyOK(c) ==
  call[c].pc \in Patching =>
    /\ UserCopied(call[c], users[call[c].actor], overlapped)
    /\ UserWritten(call[c], users[call[c].actor], overlapped)
    /\ Stamped(call[c])
    /\ call[c].pc # "readProfile" =>
         /\ call[c].actor \in DOMAIN profiles
         /\ ProfileCopied(call[c], profiles[call[c].actor], overlapped)

CopiesOK == \A c \in Calls : CopyOK(c)

UpdateInv == TypeOK /\ AllOverlap /\ CopiesOK

-----------------------------------------------------------------------------
LEMMA ActiveRequests ==
  ASSUME TypeOK, NEW c \in Calls, Active(c)
  PROVE  call[c] \in Local /\ call[c].request \in Request /\ call[c].request.n \in Nat
  <1>1. call[c] \in Local /\ call[c].pc # "idle"
    BY DEF TypeOK, Active, Free
  <1>2. call[c].request \in Request
    BY <1>1, RequestOfLocal
  <1> QED
    BY <1>1, <1>2 DEF Request

(* A request keeps its number from segment to segment. *)
LEMMA OverlapStep ==
  ASSUME TypeOK, AllOverlap, overlapped \subseteq overlapped',
         \A c \in Calls : Active(c)' => Active(c) /\ call'[c].request = call[c].request
  PROVE  AllOverlap'
  BY DEF AllOverlap, Active, Free

LEMMA OverlapArrive ==
  ASSUME TypeOK, AllOverlap, NEW c \in Calls, Arrive(c)
  PROVE  AllOverlap'
  <1>1. PICK r : Becomes(c, r) /\ r.pc \in {"authUser", "rolesUser", "done"} /\ r.request.n = served'
    BY DEF Arrive, AuthGuard, RolesGuard
  <1>2. call'[c] = r /\ \A d \in Calls : d # c => call'[d] = call[d]
    BY <1>1 DEF Becomes, TypeOK
  <1>3. \A d \in Calls : Active(d) => {served', call[d].request.n} \in overlapped'
    BY DEF Arrive
  <1>4. overlapped \subseteq overlapped'
    BY DEF Arrive
  <1> SUFFICES ASSUME NEW d \in Calls, NEW e \in Calls, d # e, Active(d)', Active(e)'
               PROVE  {call'[d].request.n, call'[e].request.n} \in overlapped'
    BY DEF AllOverlap
  <1>5. \A b \in Calls : b # c /\ Active(b)' => Active(b)
    BY <1>2 DEF Active, Free
  <1>6. CASE d = c
    BY <1>1, <1>2, <1>3, <1>5, <1>6
  <1>7. CASE e = c
    <2>1. {served', call[d].request.n} \in overlapped'
      BY <1>3, <1>5, <1>7
    <2>2. {served', call[d].request.n} = {call'[d].request.n, call'[e].request.n}
      BY <1>1, <1>2, <1>7
    <2> QED
      BY <2>1, <2>2
  <1>8. CASE d # c /\ e # c
    BY <1>2, <1>4, <1>5, <1>8 DEF AllOverlap
  <1> QED
    BY <1>6, <1>7, <1>8

LEMMA OverlapProceed ==
  ASSUME TypeOK, AllOverlap, NEW c \in Calls, Proceed(c)
  PROVE  AllOverlap'
  <1>1. UNCHANGED overlapped
    BY DEF Proceed, RolesUser, RolesRole, AuthUser, ReadUser, ReadProfile, WriteUser, WriteProfile
  <1>2. Active(c) /\ \E r : Becomes(c, r) /\ r.request = call[c].request
    <2>1. CASE RolesUser(c)
      BY <2>1 DEF RolesUser, Answers, Active, Free
    <2>2. CASE RolesRole(c)
      BY <2>2 DEF RolesRole, Answers, AuthGuard, Active, Free
    <2>3. CASE AuthUser(c)
      BY <2>3 DEF AuthUser, Answers, Active, Free
    <2>4. CASE ReadUser(c)
      BY <2>4 DEF ReadUser, Answers, Active, Free
    <2>5. CASE ReadProfile(c)
      BY <2>5 DEF ReadProfile, Answers, Active, Free
    <2>6. CASE WriteUser(c)
      BY <2>6 DEF WriteUser, Answers, Active, Free
    <2>7. CASE WriteProfile(c)
      BY <2>7 DEF WriteProfile, Answers, Active, Free
    <2> QED
      BY <2>1, <2>2, <2>3, <2>4, <2>5, <2>6, <2>7 DEF Proceed
  <1>3. \A d \in Calls : Active(d)' => Active(d) /\ call'[d].request = call[d].request
    BY <1>2 DEF Becomes, TypeOK, Active, Free
  <1> QED
    BY <1>1, <1>3, OverlapStep

LEMMA OverlapOthers ==
  ASSUME TypeOK, AllOverlap, Tick \/ Crash \/ UNCHANGED vars
  PROVE  AllOverlap'
  <1>1. UNCHANGED overlapped /\ \A c \in Calls : call'[c] = call[c] \/ call'[c] = Idle
    BY DEF Tick, Crash, vars
  <1>2. \A c \in Calls : Active(c)' => Active(c) /\ call'[c].request = call[c].request
    BY <1>1 DEF Active, Free, Idle
  <1> QED
    BY <1>1, <1>2, OverlapStep

-----------------------------------------------------------------------------
(* Steps that leave the documents alone: a request that is where it was      *)
(* keeps its copies, and one that leaves its PATCH needs none.               *)

LEMMA CopiesKept ==
  ASSUME CopiesOK, UNCHANGED <<users, profiles>>, overlapped \subseteq overlapped',
         NEW c \in Calls, call'[c] = call[c] \/ call'[c].pc \notin Patching
  PROVE  CopyOK(c)'
  BY DEF CopiesOK, CopyOK, Patching, UserCopied, ProfileCopied, UserWritten, Stamped, Overlap, Copies

LEMMA CopiesGuards ==
  ASSUME TypeOK, CopiesOK, NEW c \in Calls,
         Arrive(c) \/ RolesUser(c) \/ RolesRole(c) \/ AuthUser(c)
  PROVE  CopiesOK'
  <1>1. UNCHANGED <<users, profiles>> /\ overlapped \subseteq overlapped'
    BY DEF Arrive, RolesUser, RolesRole, AuthUser
  <1>2. \E r : Becomes(c, r) /\ r.pc \notin Patching
    <2>1. CASE Arrive(c)
      BY <2>1 DEF Arrive, AuthGuard, RolesGuard, Patching
    <2>2. CASE RolesUser(c)
      BY <2>2 DEF RolesUser, Answers, Patching
    <2>3. CASE RolesRole(c)
      BY <2>3 DEF RolesRole, Answers, AuthGuard, Patching
    <2>4. CASE AuthUser(c)
      BY <2>4 DEF AuthUser, Answers, Patching
    <2> QED
      BY <2>1, <2>2, <2>3, <2>4
  <1>3. \A d \in Calls : call'[d] = call[d] \/ call'[d].pc \notin Patching
    BY <1>2 DEF Becomes, TypeOK
  <1> QED
    BY <1>1, <1>3, CopiesKept DEF CopiesOK

LEMMA CopiesOthers ==
  ASSUME TypeOK, CopiesOK, Tick \/ Crash \/ UNCHANGED vars
  PROVE  CopiesOK'
  <1>1. UNCHANGED <<users, profiles, overlapped>>
    BY DEF Tick, Crash, vars
  <1>2. \A c \in Calls : call'[c] = call[c] \/ call'[c].pc \notin Patching
    BY DEF Tick, Crash, vars, Idle, Patching
  <1> QED
    BY <1>1, <1>2, CopiesKept DEF CopiesOK

-----------------------------------------------------------------------------
(* The handler. *)

LEMMA PatchingTypes ==
  ASSUME TypeOK, NEW c \in Calls, call[c].pc \in Patching
  PROVE  /\ Active(c) /\ call[c].request.n \in Nat
         /\ call[c].actor \in Accounts
         /\ call[c].user \in [UserFields -> Value]
         /\ call[c].pc # "readProfile" => call[c].profile \in [ProfileFields -> Value]
  <1>1. call[c] \in Local
    BY DEF TypeOK
  <1>2. Active(c)
    BY DEF Patching, Active, Free
  <1>3. call[c] \in ReadOne \cup Writing
    BY <1>1, LocalBySegment DEF Patching
  <1> QED
    BY <1>2, <1>3, ActiveRequests, LocalBySegment DEF ReadOne, Writing, Patching

LEMMA CopiesReadUser ==
  ASSUME TypeOK, CopiesOK, NEW c \in Calls, ReadUser(c)
  PROVE  CopiesOK'
  <1>1. UNCHANGED <<users, profiles, overlapped>>
    BY DEF ReadUser
  <1>2. PICK r : /\ Becomes(c, r)
                 /\ \/ r.pc = "done"
                    \/ r = [pc |-> "readProfile", request |-> call[c].request,
                            actor |-> call[c].actor, user |-> users[call[c].actor]]
    BY DEF ReadUser, Answers
  <1>3. call'[c] = r /\ \A d \in Calls : d # c => call'[d] = call[d]
    BY <1>2 DEF Becomes, TypeOK
  <1>4. \A d \in Calls : d # c => CopyOK(d)'
    BY <1>1, <1>3, CopiesKept
  <1>5. CASE r.pc = "done"
    BY <1>1, <1>3, <1>4, <1>5, CopiesKept DEF CopiesOK, Patching
  <1>6. CASE r.pc # "done"
    <2>1. /\ r.pc = "readProfile" /\ r.actor = call[c].actor
          /\ r.user = users[r.actor] /\ users'[r.actor] = users[r.actor]
      BY <1>1, <1>2, <1>6
    <2>2. Copies(r.user, users'[r.actor], r.request)
      BY <2>1 DEF Copies
    <2>3. CopyOK(c)'
      BY <1>3, <2>1, <2>2 DEF CopyOK, UserCopied, UserWritten, Stamped
    <2> QED
      BY <1>4, <2>3 DEF CopiesOK
  <1> QED
    BY <1>5, <1>6

(* The entities that are built agree with what was read. *)
LEMMA EntitiesCopy ==
  ASSUME NEW request, NEW user, NEW doc \in [UserFields -> Value],
         NEW profile \in [ProfileFields -> Value]
  PROVE  /\ Copies(user, doc, request) => Copies(UserEntity(user, request), doc, request)
         /\ Copies(ProfileEntity(profile, request), profile, request)
         /\ UserEntity(user, request)["createdAt"] = request.n
         /\ ProfileEntity(profile, request)["createdAt"] = request.n
  BY DEF Copies, UserEntity, ProfileEntity, UserFields, ProfileFields

LEMMA CopiesReadProfile ==
  ASSUME TypeOK, CopiesOK, NEW c \in Calls, ReadProfile(c)
  PROVE  CopiesOK'
  <1> DEFINE a == call[c].actor
             user == UserEntity(call[c].user, call[c].request)
             profile == ProfileEntity(profiles[a], call[c].request)
  <1>1. UNCHANGED <<users, profiles, overlapped>>
    BY DEF ReadProfile
  <1>2. PICK r : /\ Becomes(c, r)
                 /\ \/ r.pc = "done"
                    \/ /\ a \in DOMAIN profiles
                       /\ r = [pc |-> "writeUser", request |-> call[c].request, actor |-> a,
                               user |-> user, profile |-> profile]
    BY DEF ReadProfile, Answers, FindOne
  <1>3. call'[c] = r /\ \A d \in Calls : d # c => call'[d] = call[d]
    BY <1>2 DEF Becomes, TypeOK
  <1>4. \A d \in Calls : d # c => CopyOK(d)'
    BY <1>1, <1>3, CopiesKept
  <1>5. CASE r.pc = "done"
    BY <1>1, <1>3, <1>4, <1>5, CopiesKept DEF CopiesOK, Patching
  <1>6. CASE r.pc # "done"
    <2>1. /\ r.pc = "writeUser" /\ r.actor = a /\ r.request = call[c].request
          /\ r.user = user /\ r.profile = profile /\ a \in DOMAIN profiles
      BY <1>2, <1>6
    <2>2. call[c].pc = "readProfile" /\ call[c].pc \in Patching
      BY DEF ReadProfile, Patching
    <2>3. users[a] \in [UserFields -> Value] /\ profiles[a] \in [ProfileFields -> Value]
      BY <2>1, <2>2, PatchingTypes DEF TypeOK
    <2>4. Copies(call[c].user, users[a], call[c].request)
          \/ Overlap(call[c].request.n, users[a], overlapped)
      BY <2>2 DEF CopiesOK, CopyOK, UserCopied
    <2>5. /\ Copies(call[c].user, users[a], call[c].request) =>
               Copies(user, users[a], call[c].request)
          /\ Copies(profile, profiles[a], call[c].request)
          /\ user["createdAt"] = call[c].request.n /\ profile["createdAt"] = call[c].request.n
      BY <2>3, EntitiesCopy
    <2>7. UserCopied(r, users[a], overlapped) /\ UserWritten(r, users[a], overlapped)
      BY <2>1, <2>4, <2>5 DEF UserCopied, UserWritten
    <2>8. ProfileCopied(r, profiles[a], overlapped) /\ Stamped(r)
      BY <2>1, <2>5 DEF ProfileCopied, Stamped
    <2>6. CopyOK(c)'
      BY <1>1, <1>3, <2>1, <2>7, <2>8 DEF CopyOK
    <2> QED
      BY <1>4, <2>6 DEF CopiesOK
  <1> QED
    BY <1>5, <1>6

(* A document that was written, if it was, carries the writer's number. *)
LEMMA StoredStamp ==
  ASSUME NEW Fields, "createdAt" \in Fields, NEW doc \in [Fields -> Value],
         NEW entity \in [Fields -> Value], NEW n \in Nat, entity["createdAt"] = n
  PROVE  Update(doc, entity)["createdAt"] = n
  BY DEF Update, Undefined

LEMMA CopiesWriteUser ==
  ASSUME UpdateInv, NEW c \in Calls, WriteUser(c)
  PROVE  CopiesOK'
  <1> DEFINE a == call[c].actor
             n == call[c].request.n
  <1> USE DEF UpdateInv
  <1>1. call[c].pc = "writeUser" /\ call[c].pc \in Patching /\ UNCHANGED <<profiles, overlapped>>
    BY DEF WriteUser, Patching
  <1>0. PICK outcome \in Outcomes :
          /\ users' = Stored(users, a, call[c].user, outcome)
          /\ \/ Answers(c, a, "serverError")
             \/ /\ outcome = "acknowledged"
                /\ Becomes(c, [pc |-> "writeProfile", request |-> call[c].request,
                               actor |-> a, user |-> call[c].user,
                               profile |-> call[c].profile])
    BY DEF WriteUser
  <1>2. PICK r :
          /\ Becomes(c, r)
          /\ \/ r.pc = "done"
             \/ /\ outcome = "acknowledged"
                /\ r = [pc |-> "writeProfile", request |-> call[c].request, actor |-> a,
                        user |-> call[c].user, profile |-> call[c].profile]
    BY <1>0 DEF Answers
  <1>3. call'[c] = r /\ \A d \in Calls : d # c => call'[d] = call[d]
    BY <1>2 DEF Becomes, TypeOK
  <1>4. a \in Accounts /\ users[a] \in [UserFields -> Value] /\ n \in Nat /\ Active(c)
        /\ call[c].user \in [UserFields -> Value] /\ call[c].user["createdAt"] = n
    BY <1>1, PatchingTypes DEF TypeOK, CopiesOK, CopyOK, Stamped
  <1>5. Update(users[a], call[c].user)["createdAt"] = n
    BY <1>4, StoredStamp DEF UserFields
  <1>6. users' = users \/ users' = [users EXCEPT ![a] = Update(users[a], call[c].user)]
    BY <1>0 DEF Stored
  <1>7. outcome = "acknowledged" => users'[a]["createdAt"] = n
    BY <1>0, <1>4, <1>5 DEF Stored, TypeOK
  <1>8. \A b \in Accounts : users'[b] = users[b] \/ (b = a /\ users'[b]["createdAt"] = n)
    BY <1>5, <1>6 DEF TypeOK
  <1>9. ASSUME NEW d \in Calls, d # c
        PROVE  CopyOK(d)'
    <2> SUFFICES ASSUME call[d].pc \in Patching
                 PROVE  CopyOK(d)'
      BY <1>3, <1>9 DEF CopyOK
    <2>1. call'[d] = call[d] /\ Active(d) /\ call[d].actor \in Accounts
      BY <1>3, <1>9, PatchingTypes
    <2>2. {call[d].request.n, n} \in overlapped
      BY <1>4, <1>9, <2>1 DEF AllOverlap
    <2>3. users'[call[d].actor] = users[call[d].actor]
          \/ Overlap(call[d].request.n, users'[call[d].actor], overlapped)
      BY <1>8, <2>1, <2>2 DEF Overlap
    <2>4. CopyOK(d)
      BY DEF CopiesOK
    <2> QED
      BY <1>1, <2>1, <2>3, <2>4 DEF CopyOK, UserCopied, UserWritten
  <1>10. CopyOK(c)'
    <2>1. CASE r.pc = "done"
      BY <1>3, <2>1 DEF CopyOK, Patching
    <2>2. CASE r.pc # "done"
      <3>1. /\ r.pc = "writeProfile" /\ r.actor = a /\ r.request = call[c].request
            /\ r.user = call[c].user /\ r.profile = call[c].profile
            /\ users'[a]["createdAt"] = n
        BY <1>2, <1>7, <2>2
      <3>2. /\ a \in DOMAIN profiles /\ Stamped(call[c])
            /\ ProfileCopied(call[c], profiles[a], overlapped)
        BY <1>1 DEF CopiesOK, CopyOK
      <3>3. UserCopied(r, users'[a], overlapped) /\ UserWritten(r, users'[a], overlapped)
        BY <3>1 DEF UserCopied, UserWritten
      <3>4. Stamped(r) /\ ProfileCopied(r, profiles[a], overlapped)
        BY <1>1, <3>1, <3>2 DEF Stamped, ProfileCopied
      <3> QED
        BY <1>1, <1>3, <3>1, <3>2, <3>3, <3>4 DEF CopyOK
    <2> QED
      BY <2>1, <2>2
  <1> QED
    BY <1>9, <1>10 DEF CopiesOK

LEMMA CopiesWriteProfile ==
  ASSUME UpdateInv, NEW c \in Calls, WriteProfile(c)
  PROVE  CopiesOK'
  <1> DEFINE a == call[c].actor
             n == call[c].request.n
  <1> USE DEF UpdateInv
  <1>1. call[c].pc = "writeProfile" /\ call[c].pc \in Patching /\ UNCHANGED <<users, overlapped>>
    BY DEF WriteProfile, Patching
  <1>0. PICK outcome \in Outcomes, status \in {"ok", "serverError"} :
          /\ profiles' = Stored(profiles, a, call[c].profile, outcome)
          /\ Answers(c, a, status)
    BY DEF WriteProfile
  <1>2. PICK r : Becomes(c, r) /\ r.pc = "done"
    BY <1>0 DEF Answers
  <1>3. call'[c] = r /\ \A d \in Calls : d # c => call'[d] = call[d]
    BY <1>2 DEF Becomes, TypeOK
  <1>4. /\ a \in DOMAIN profiles /\ profiles[a] \in [ProfileFields -> Value]
        /\ n \in Nat /\ Active(c)
        /\ call[c].profile \in [ProfileFields -> Value] /\ call[c].profile["createdAt"] = n
    BY <1>1, PatchingTypes DEF TypeOK, CopiesOK, CopyOK, Stamped
  <1>5. Update(profiles[a], call[c].profile)["createdAt"] = n
    BY <1>4, StoredStamp DEF ProfileFields
  <1>6. profiles' = profiles \/ profiles' = [profiles EXCEPT ![a] = Update(profiles[a], call[c].profile)]
    BY <1>0 DEF Stored
  <1>7. /\ DOMAIN profiles' = DOMAIN profiles
        /\ \A b \in DOMAIN profiles :
             profiles'[b] = profiles[b] \/ (b = a /\ profiles'[b]["createdAt"] = n)
    BY <1>5, <1>6
  <1>8. ASSUME NEW d \in Calls, d # c
        PROVE  CopyOK(d)'
    <2> SUFFICES ASSUME call[d].pc \in Patching
                 PROVE  CopyOK(d)'
      BY <1>3, <1>8 DEF CopyOK
    <2>1. call'[d] = call[d] /\ Active(d)
      BY <1>3, <1>8, PatchingTypes
    <2>2. {call[d].request.n, n} \in overlapped
      BY <1>4, <1>8, <2>1 DEF AllOverlap
    <2>3. CopyOK(d)
      BY DEF CopiesOK
    <2>4. call[d].actor \in DOMAIN profiles =>
            \/ profiles'[call[d].actor] = profiles[call[d].actor]
            \/ Overlap(call[d].request.n, profiles'[call[d].actor], overlapped)
      BY <1>7, <2>2 DEF Overlap
    <2> QED
      BY <1>1, <1>7, <2>1, <2>3, <2>4 DEF CopyOK, ProfileCopied
  <1>9. CopyOK(c)'
    BY <1>2, <1>3 DEF CopyOK, Patching
  <1> QED
    BY <1>8, <1>9 DEF CopiesOK

LEMMA UpdateInit == Init => UpdateInv
  BY TypeInit DEF Init, UpdateInv, AllOverlap, CopiesOK, CopyOK, Idle, Active, Free, Patching

LEMMA UpdateStep == UpdateInv /\ [Next]_vars => UpdateInv'
  <1> SUFFICES ASSUME UpdateInv, [Next]_vars
               PROVE  UpdateInv'
    OBVIOUS
  <1>1. TypeOK /\ AllOverlap /\ CopiesOK /\ TypeOK'
    BY TypeStep DEF UpdateInv
  <1>2. AllOverlap'
    BY <1>1, OverlapArrive, OverlapProceed, OverlapOthers DEF Next
  <1>3. CopiesOK'
    BY <1>1, CopiesGuards, CopiesReadUser, CopiesReadProfile, CopiesWriteUser,
       CopiesWriteProfile, CopiesOthers DEF Next, Proceed
  <1> QED
    BY <1>1, <1>2, <1>3 DEF UpdateInv

LEMMA UpdateAlways == Spec => []UpdateInv
  BY UpdateInit, UpdateStep, PTL DEF Spec

-----------------------------------------------------------------------------
(* What a PATCH undoes. *)

LEMMA UpdateUndone ==
  ASSUME NEW c \in Calls, NEW doc, NEW entity, NEW later,
         later = doc \/ later = Update(doc, entity),
         \/ Copies(entity, doc, call[c].request)
         \/ Overlap(call[c].request.n, doc, overlapped)
  PROVE  Undone(c, doc, later)
  BY DEF Undone, Update, Copies, Overlap

(* Which request wrote, when a document changed. *)
LEMMA UserWriter ==
  ASSUME TypeOK, [Next]_vars, users' # users, NEW c \in Calls, call'[c] # call[c]
  PROVE  WriteUser(c)
  <1>1. PICK d \in Calls : WriteUser(d)
    BY DEF Next, Proceed, vars, Tick, Crash, Arrive, RolesUser, RolesRole, AuthUser,
           ReadUser, ReadProfile, WriteProfile
  <1>2. \E r : Becomes(d, r)
    BY <1>1 DEF WriteUser, Answers
  <1> QED
    BY <1>1, <1>2 DEF Becomes, TypeOK

LEMMA ProfileWriter ==
  ASSUME TypeOK, [Next]_vars, profiles' # profiles, NEW c \in Calls, call'[c] # call[c]
  PROVE  WriteProfile(c)
  <1>1. PICK d \in Calls : WriteProfile(d)
    BY DEF Next, Proceed, vars, Tick, Crash, Arrive, RolesUser, RolesRole, AuthUser,
           ReadUser, ReadProfile, WriteUser
  <1>2. \E r : Becomes(d, r)
    BY <1>1 DEF WriteProfile, Answers
  <1> QED
    BY <1>1, <1>2 DEF Becomes, TypeOK

LEMMA UndoStep == UpdateInv /\ [Next]_vars => UndoesNoOther
  <1> SUFFICES ASSUME UpdateInv, [Next]_vars, NEW c \in Calls, call'[c] # call[c]
               PROVE  /\ users' # users /\ call[c].pc = "writeUser" =>
                           Undone(c, users[call[c].actor], users'[call[c].actor])
                      /\ profiles' # profiles /\ call[c].pc = "writeProfile" =>
                           Undone(c, profiles[call[c].actor], profiles'[call[c].actor])
    BY DEF UndoesNoOther
  <1> USE DEF UpdateInv
  <1>1. ASSUME users' # users, call[c].pc = "writeUser"
        PROVE  Undone(c, users[call[c].actor], users'[call[c].actor])
    <2>1. PICK outcome \in Outcomes : users' = Stored(users, call[c].actor, call[c].user, outcome)
      BY <1>1, UserWriter DEF WriteUser
    <2>2. call[c].actor \in Accounts
      BY <1>1, PatchingTypes DEF Patching
    <2>3. users'[call[c].actor] = Update(users[call[c].actor], call[c].user)
          \/ users'[call[c].actor] = users[call[c].actor]
      BY <2>1, <2>2 DEF Stored, TypeOK
    <2>4. UserCopied(call[c], users[call[c].actor], overlapped)
      BY <1>1 DEF CopiesOK, CopyOK, Patching
    <2> QED
      BY <1>1, <2>3, <2>4, UpdateUndone DEF UserCopied
  <1>2. ASSUME profiles' # profiles, call[c].pc = "writeProfile"
        PROVE  Undone(c, profiles[call[c].actor], profiles'[call[c].actor])
    <2>1. PICK outcome \in Outcomes :
            profiles' = Stored(profiles, call[c].actor, call[c].profile, outcome)
      BY <1>2, ProfileWriter DEF WriteProfile
    <2>2. /\ call[c].actor \in DOMAIN profiles
          /\ ProfileCopied(call[c], profiles[call[c].actor], overlapped)
      BY <1>2 DEF CopiesOK, CopyOK, Patching
    <2>3. profiles'[call[c].actor] = Update(profiles[call[c].actor], call[c].profile)
          \/ profiles'[call[c].actor] = profiles[call[c].actor]
      BY <2>1, <2>2 DEF Stored
    <2> QED
      BY <1>2, <2>2, <2>3, UpdateUndone DEF ProfileCopied
  <1> QED
    BY <1>1, <1>2

(* What a PATCH that had ended when another began wrote is never undone by   *)
(* it: a field it was not asked to change changes only by an overlap.        *)
THEOREM UpdatesUndoOnlyOverlapping == Spec => UndoesOnlyOverlapping
  BY UpdateAlways, UndoStep, PTL DEF Spec, UndoesOnlyOverlapping

-----------------------------------------------------------------------------
(* When the two documents of an account disagree.  The PATCH between its     *)
(* writes must be one of this account for the formula to be inductive.       *)

TornOK(a) ==
  \/ users[a].createdAt = profiles[a].createdAt
  \/ {users[a].createdAt, profiles[a].createdAt} \in overlapped
  \/ \E c \in Calls : /\ call[c].pc = "writeProfile" /\ call[c].actor = a
                       /\ call[c].request.n = users[a].createdAt
TornInv == faults = 0 => \A a \in DOMAIN profiles : TornOK(a)

LEMMA TornInit == Init => TornInv
  BY DEF Init, TornInv, TornOK, UserFields, ProfileFields

(* A step that writes nothing, of a request that is not between its writes. *)
LEMMA TornKept ==
  ASSUME TypeOK, TornInv, faults' = 0 => faults = 0, UNCHANGED <<users, profiles>>,
         overlapped \subseteq overlapped',
         \A c \in Calls : call[c].pc = "writeProfile" => call'[c] = call[c]
  PROVE  TornInv'
  BY DEF TornInv, TornOK

LEMMA TornQuiet ==
  ASSUME TypeOK, TornInv,
         \/ Tick \/ Crash \/ UNCHANGED vars
         \/ \E c \in Calls : \/ Arrive(c) \/ RolesUser(c) \/ RolesRole(c) \/ AuthUser(c)
                             \/ ReadUser(c) \/ ReadProfile(c)
  PROVE  TornInv'
  <1>1. CASE Crash
    BY <1>1 DEF Crash, Fault, TornInv, TypeOK
  <1>2. CASE Tick \/ UNCHANGED vars
    BY <1>2, TornKept DEF Tick, vars
  <1>3. ASSUME NEW c \in Calls,
               \/ Arrive(c) \/ RolesUser(c) \/ RolesRole(c) \/ AuthUser(c)
               \/ ReadUser(c) \/ ReadProfile(c)
        PROVE  TornInv'
    <2>1. /\ UNCHANGED <<users, profiles>> /\ overlapped \subseteq overlapped'
          /\ call[c].pc # "writeProfile"
      BY <1>3 DEF Arrive, Free, RolesUser, RolesRole, AuthUser, ReadUser, ReadProfile
    <2>2. faults' = 0 => faults = 0
      <3>1. faults' = faults \/ faults' = faults + 1
        <4>1. CASE Arrive(c)
          BY <4>1 DEF Arrive
        <4>2. CASE RolesUser(c)
          BY <4>2 DEF RolesUser, FindOne, Fault, NoFault
        <4>3. CASE RolesRole(c)
          BY <4>3 DEF RolesRole, FindOne, Fault, NoFault
        <4>4. CASE AuthUser(c)
          BY <4>4 DEF AuthUser, FindOne, Fault, NoFault
        <4>5. CASE ReadUser(c)
          BY <4>5 DEF ReadUser, FindOne, Fault, NoFault
        <4>6. CASE ReadProfile(c)
          BY <4>6 DEF ReadProfile, FindOne, Fault, NoFault
        <4> QED
          BY <1>3, <4>1, <4>2, <4>3, <4>4, <4>5, <4>6
      <3> QED
        BY <3>1 DEF TypeOK
    <2>3. \E r : Becomes(c, r)
      <3>1. CASE Arrive(c)
        BY <3>1 DEF Arrive, AuthGuard, RolesGuard
      <3>2. CASE RolesUser(c)
        BY <3>2 DEF RolesUser, Answers
      <3>3. CASE RolesRole(c)
        BY <3>3 DEF RolesRole, Answers, AuthGuard
      <3>4. CASE AuthUser(c)
        BY <3>4 DEF AuthUser, Answers
      <3>5. CASE ReadUser(c)
        BY <3>5 DEF ReadUser, Answers
      <3>6. CASE ReadProfile(c)
        BY <3>6 DEF ReadProfile, Answers
      <3> QED
        BY <1>3, <3>1, <3>2, <3>3, <3>4, <3>5, <3>6
    <2>4. \A d \in Calls : d # c => call'[d] = call[d]
      BY <2>3 DEF Becomes, TypeOK
    <2> QED
      BY <2>1, <2>2, <2>4, TornKept
  <1> QED
    BY <1>1, <1>2, <1>3

LEMMA TornWriteUser ==
  ASSUME UpdateInv, TornInv, NEW c \in Calls, WriteUser(c)
  PROVE  TornInv'
  <1> DEFINE a == call[c].actor
             n == call[c].request.n
  <1> SUFFICES ASSUME faults' = 0, NEW b \in DOMAIN profiles
               PROVE  TornOK(b)'
    BY DEF TornInv, WriteUser
  <1>1. call[c].pc = "writeUser" /\ UNCHANGED <<profiles, overlapped>>
    BY DEF WriteUser
  <1>2. /\ a \in Accounts /\ n \in Nat /\ call[c].user \in [UserFields -> Value]
        /\ call[c].user["createdAt"] = n /\ users[a] \in [UserFields -> Value]
    BY <1>1, PatchingTypes DEF UpdateInv, TypeOK, CopiesOK, CopyOK, Stamped, Patching
  <1>3. Update(users[a], call[c].user)["createdAt"] = n
    BY <1>2, StoredStamp DEF UserFields
  <1>4. PICK outcome \in Outcomes :
          /\ Reports(outcome)
          /\ users' = Stored(users, a, call[c].user, outcome)
          /\ \/ outcome # "acknowledged"
             \/ Becomes(c, [pc |-> "writeProfile", request |-> call[c].request,
                            actor |-> a, user |-> call[c].user,
                            profile |-> call[c].profile])
    BY DEF WriteUser
  <1>5. outcome = "acknowledged" /\ faults = 0
    BY <1>4 DEF Reports, Fault, NoFault, UpdateInv, TypeOK
  <1>6. PICK r : /\ r = [pc |-> "writeProfile", request |-> call[c].request, actor |-> a,
                         user |-> call[c].user, profile |-> call[c].profile]
                 /\ Becomes(c, r)
    BY <1>4, <1>5
  <1>7. call'[c] = r /\ \A d \in Calls : d # c => call'[d] = call[d]
    BY <1>6 DEF Becomes, UpdateInv, TypeOK
  <1>8. users'[a]["createdAt"] = n /\ \A d \in Accounts : d # a => users'[d] = users[d]
    BY <1>2, <1>3, <1>4, <1>5 DEF Stored, UpdateInv, TypeOK
  <1>9. CASE b = a
    <2>1. call'[c].pc = "writeProfile" /\ call'[c].actor = b
          /\ call'[c].request.n = users'[b]["createdAt"]
      BY <1>6, <1>7, <1>8, <1>9
    <2> QED
      BY <2>1 DEF TornOK
  <1>10. CASE b # a
    <2>1. users'[b] = users[b] /\ TornOK(b)
      BY <1>5, <1>8, <1>10 DEF TornInv, UpdateInv, TypeOK
    <2> QED
      BY <1>1, <1>7, <2>1 DEF TornOK
  <1> QED
    BY <1>9, <1>10

LEMMA TornWriteProfile ==
  ASSUME UpdateInv, TornInv, NEW c \in Calls, WriteProfile(c)
  PROVE  TornInv'
  <1> DEFINE a == call[c].actor
             n == call[c].request.n
  <1>1. call[c].pc = "writeProfile" /\ UNCHANGED <<users, overlapped>>
    BY DEF WriteProfile
  <1>2. /\ a \in DOMAIN profiles /\ n \in Nat /\ call[c].profile \in [ProfileFields -> Value]
        /\ call[c].profile["createdAt"] = n /\ profiles[a] \in [ProfileFields -> Value]
        /\ users[a]["createdAt"] = n \/ {n, users[a]["createdAt"]} \in overlapped
    BY <1>1, PatchingTypes
    DEF UpdateInv, TypeOK, CopiesOK, CopyOK, Stamped, UserWritten, Overlap, Patching
  <1>3. Update(profiles[a], call[c].profile)["createdAt"] = n
    BY <1>2, StoredStamp DEF ProfileFields
  <1>4. PICK outcome \in Outcomes, status \in {"ok", "serverError"} :
          /\ Reports(outcome)
          /\ profiles' = Stored(profiles, a, call[c].profile, outcome)
          /\ Answers(c, a, status)
    BY DEF WriteProfile
  <1> SUFFICES ASSUME faults' = 0, NEW b \in DOMAIN profiles
               PROVE  TornOK(b)'
    BY <1>4 DEF TornInv, Stored
  <1>5. outcome = "acknowledged" /\ faults = 0
    BY <1>4 DEF Reports, Fault, NoFault, UpdateInv, TypeOK
  <1>6. \A d \in Calls : d # c => call'[d] = call[d]
    BY <1>4 DEF Answers, Becomes, UpdateInv, TypeOK
  <1>7. profiles'[a]["createdAt"] = n /\ \A d \in DOMAIN profiles : d # a => profiles'[d] = profiles[d]
    BY <1>2, <1>3, <1>4, <1>5 DEF Stored
  <1>8. CASE b = a
    BY <1>1, <1>2, <1>7, <1>8 DEF TornOK
  <1>9. CASE b # a
    <2>1. profiles'[b] = profiles[b] /\ TornOK(b)
      BY <1>5, <1>7, <1>9 DEF TornInv
    <2> QED
      BY <1>1, <1>6, <1>9, <2>1 DEF TornOK
  <1> QED
    BY <1>8, <1>9

LEMMA TornStep == UpdateInv /\ TornInv /\ [Next]_vars => TornInv'
  BY TornQuiet, TornWriteUser, TornWriteProfile DEF Next, Proceed, UpdateInv

(* The two documents of an account come from one PATCH, unless one is        *)
(* between its writes, two overlapped, or a step failed.                     *)
THEOREM DocumentsTornOnlyByOverlap == Spec => []TornOnlyByOverlap
  <1>1. TornInv => TornOnlyByOverlap
    BY DEF TornInv, TornOK, TornOnlyByOverlap
  <1> QED
    BY <1>1, UpdateAlways, TornInit, TornStep, PTL DEF Spec
=============================================================================
