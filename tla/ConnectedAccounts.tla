--------------------------- MODULE ConnectedAccounts ---------------------------
(***************************************************************************)
(* The handlers of auth.service.ts that connect an account of Twitter or   *)
(* Google to a user.  A link sends the browser to a page of the provider   *)
(* where the user consents; the provider sends it back to the callback,    *)
(* which exchanges what it brings for tokens and stores them.  Only the    *)
(* browser's session leads from one request to the other, and one session  *)
(* serves both providers.  An action is what a request does from one await *)
(* to the next.                                                            *)
(***************************************************************************)
EXTENDS Integers, FiniteSets, Functions

CONSTANTS
  Calls,            \* slots for the requests served at once
  Browsers, Users,
  Tweeter,          \* the user whose id is written into `tweet`
  MaxRequests,      \* bound: requests made in a behaviour
  MaxFaults         \* bound: errors of the database or a provider, and crashes

ASSUME TweeterAssumption == Tweeter \in Users
ASSUME BoundAssumption == MaxRequests \in Nat /\ MaxFaults \in Nat

VARIABLES
  sessions,         \* express-session's store in memory, by browser
  pages,            \* the consent pages the links have sent browsers to
  redeemed,         \* what the providers have exchanged for tokens, and for which request
  built,            \* the entities that callbacks have built
  collection,       \* their documents, as the schema keeps them
  call,             \* the local variables of the request in each slot
  served, faults    \* what the bounds count; `served` also numbers the requests

vars == <<sessions, pages, redeemed, built, collection, call, served, faults>>

-----------------------------------------------------------------------------
(* Data. *)

Providers == {"twitter", "google"}
Nobody == "nobody"
NoSecret == 0

Session == [secret : Nat, user : Users \cup {Nobody}]
NewSession == [secret |-> NoSecret, user |-> Nobody]

(* Pages are numbered in the order they are opened; `since` counts those    *)
(* there were when the link was requested.                                  *)
Page == [n : Nat, browser : Browsers, provider : Providers, user : Users, since : Nat]

(* A request has a number, and the copy of the session it was given. *)
Link == [n : Nat, browser : Browsers, provider : Providers, user : Users, session : Session,
         since : Nat]
Entity == [_id : Nat, socialMedia : Providers, user : Users, page : Page]

Statuses == {"redirected", "connected", "tweeted", "error", "unauthorised", "badRequest",
             "serverError"}
Idle == [pc |-> "idle"]
Linking == [pc : {"findConnected", "generateAuthLink"}, link : Link]
Callback == [n : Nat, page : Page, secret : Nat, user : Users]
Connecting == [pc : {"exchange", "userInfo"}, callback : Callback]
Creating == [pc : {"create"}, callback : Callback, entity : Entity]
Linked == [pc : {"done"}, status : Statuses]
Called == [pc : {"done"}, n : Nat, page : Page, status : Statuses]
Local == {Idle} \cup Linking \cup Connecting \cup Creating \cup Linked \cup Called

Free(c) == call[c].pc \in {"idle", "done"}
Active(c) == ~Free(c)
Becomes(c, local) == call' = [call EXCEPT ![c] = local]
Answers(c, status) == Becomes(c, [pc |-> "done", status |-> status])
(* A callback ends in a redirect to the dashboard, with ?error=401 or without. *)
Redirects(c, n, page, status) ==
  Becomes(c, [pc |-> "done", n |-> n, page |-> page, status |-> status])

Starts(c) == Free(c) /\ served < MaxRequests /\ served' = served + 1

Fault == faults < MaxFaults /\ faults' = faults + 1
NoFault == faults' = faults
(* A call outside the process, which ends well or does not. *)
Succeeds(ok) == IF ok THEN NoFault ELSE Fault
Outcomes == {"acknowledged", "refused", "unacknowledged"}
Reports(outcome) == IF outcome = "acknowledged" THEN NoFault ELSE Fault

(* The model of connected accounts is registered with the schema of the user *)
(* profiles, and mongoose stores the fields of its schema only: of an        *)
(* entity, its _id.                                                          *)
SchemaFields == {"_id"}
AsStored(entity) == Restrict(entity, SchemaFields \cap DOMAIN entity)
FindByUserIdSocialMedia(user, provider) ==
  {d \in collection : /\ {"user", "socialMedia"} \subseteq DOMAIN d
                      /\ d.user = user /\ d.socialMedia = provider}

-----------------------------------------------------------------------------
(* generateTwitterLink and generateGoogleLink *)

(* The session is loaded and the user looked up: 401 if there is none, or    *)
(* no answer.                                                                *)
GenerateLink(c) ==
  /\ Starts(c)
  /\ \E browser \in Browsers, provider \in Providers, user \in Users, found \in BOOLEAN :
       /\ NoFault
       /\ \/ ~found /\ Answers(c, "unauthorised")
          \/ /\ found
             /\ Becomes(c, [pc |-> "findConnected",
                            link |-> [n |-> served', browser |-> browser,
                                      provider |-> provider, user |-> user,
                                      session |-> sessions[browser],
                                      since |-> Cardinality(pages)]])
  /\ UNCHANGED <<sessions, pages, redeemed, built, collection>>

(* What a link leaves in the session.  Mutants: the first user of a session  *)
(* stays in it; the twitter link forgets the user; the google link starts a  *)
(* session of its own.                                                       *)
KeepsFirstUser(link, page) ==
  [secret |-> IF link.provider = "twitter" THEN page.n ELSE link.session.secret,
   user |-> IF link.session.user = Nobody THEN link.user ELSE link.session.user]
WithSecretOnly(link, page) ==
  IF link.provider = "twitter" THEN [link.session EXCEPT !.secret = page.n]
                               ELSE [link.session EXCEPT !.user = link.user]
Fresh(link, page) ==
  [secret |-> IF link.provider = "twitter" THEN page.n ELSE NoSecret, user |-> link.user]
WithLink(link, page) ==
  [secret |-> IF link.provider = "twitter" THEN page.n ELSE link.session.secret,
   user |-> link.user]

(* The browser is redirected to the page.  express-session then saves the    *)
(* copy of this request as a whole, over what others saved meanwhile, but    *)
(* only if the request changed it.                                           *)
Opens(c, link) ==
  LET page == [n |-> Cardinality(pages) + 1, browser |-> link.browser,
               provider |-> link.provider, user |-> link.user, since |-> link.since]
      session == WithLink(link, page)
  IN
  /\ pages' = pages \cup {page}
  /\ sessions' = IF session = link.session THEN sessions
                 ELSE [sessions EXCEPT ![link.browser] = session]
  /\ Answers(c, "redirected")

(* 400 if the account is connected, and an error looks as if it were not.   *)
(* Google's link is made on the spot; for Twitter's the provider is asked.  *)
FindConnected(c) ==
  LET link == call[c].link IN
  /\ call[c].pc = "findConnected"
  /\ \E ok \in BOOLEAN :
       /\ Succeeds(ok)
       /\ IF ok /\ FindByUserIdSocialMedia(link.user, link.provider) # {}
          THEN Answers(c, "badRequest") /\ UNCHANGED <<sessions, pages>>
          ELSE \/ link.provider = "google" /\ Opens(c, link)
               \/ /\ link.provider = "twitter"
                  /\ Becomes(c, [pc |-> "generateAuthLink", link |-> link])
                  /\ UNCHANGED <<sessions, pages>>
  /\ UNCHANGED <<redeemed, built, collection, served>>

GenerateAuthLink(c) ==
  /\ call[c].pc = "generateAuthLink"
  /\ \E ok \in BOOLEAN :
       /\ Succeeds(ok)
       /\ \/ ok /\ Opens(c, call[c].link)
          \/ ~ok /\ Answers(c, "serverError") /\ UNCHANGED <<sessions, pages>>
  /\ UNCHANGED <<redeemed, built, collection, served>>

-----------------------------------------------------------------------------
(* twitterCallback and googleCallback *)

(* The user consented or not; twitter's callback wants the secret of the    *)
(* link, both want the user of the session, who is then looked up.  A page  *)
(* may come back more than once.  Mutant: only the secret is looked at.     *)
UsableBySecret(page, session) == page.provider = "twitter" => session.secret # NoSecret
Usable(page, session) ==
  /\ page.provider = "twitter" => session.secret # NoSecret
  /\ session.user # Nobody
ComeBack(c) ==
  /\ Starts(c)
  /\ \E page \in pages, granted \in BOOLEAN :
       LET session == sessions[page.browser]
           usable == granted /\ Usable(page, session)
       IN
       \/ /\ ~usable
          /\ NoFault
          /\ Redirects(c, served', page, "error")
       \/ /\ usable
          /\ \/ Fault /\ Redirects(c, served', page, "error")
             \/ /\ NoFault
                /\ Becomes(c, [pc |-> "exchange",
                               callback |-> [n |-> served', page |-> page,
                                             secret |-> session.secret,
                                             user |-> session.user]])
  /\ UNCHANGED <<sessions, pages, redeemed, built, collection>>

(* What the callback makes of a failure behind the exchange: twitter's       *)
(* catches it and goes on.  Mutant: google's does the same.                  *)
AllSwallowed(provider) == "connected"
OnFailure(provider) == IF provider = "twitter" THEN "connected" ELSE "error"

(* A provider redeems a consent once; Twitter, with the secret it gave the  *)
(* link.  Its answer may be lost.                                           *)
Redeemable(callback) ==
  /\ callback.page.provider = "twitter" => callback.secret = callback.page.n
  /\ \A r \in redeemed : r.page # callback.page.n
Exchange(c) ==
  LET callback == call[c].callback
      page == callback.page
  IN
  /\ call[c].pc = "exchange"
  /\ \/ /\ Redeemable(callback)
        /\ redeemed' = redeemed \cup {[page |-> page.n, by |-> callback.n]}
        /\ \/ NoFault /\ Becomes(c, [pc |-> "userInfo", callback |-> callback])
           \/ Fault /\ Redirects(c, callback.n, page, OnFailure(page.provider))
     \/ /\ IF Redeemable(callback) THEN Fault ELSE NoFault
        /\ Redirects(c, callback.n, page, OnFailure(page.provider))
        /\ UNCHANGED redeemed
  /\ UNCHANGED <<sessions, pages, built, collection, served>>

(* The provider says whose account it is, and the entity is built. *)
EntityOf(callback) ==
  [_id |-> callback.n, socialMedia |-> callback.page.provider, page |-> callback.page,
   user |-> callback.user]
UserInfo(c) ==
  LET callback == call[c].callback
      entity == EntityOf(callback)
  IN
  /\ call[c].pc = "userInfo"
  /\ \E ok \in BOOLEAN :
       /\ Succeeds(ok)
       /\ \/ /\ ok
             /\ built' = built \cup {entity}
             /\ Becomes(c, [pc |-> "create", callback |-> callback, entity |-> entity])
          \/ /\ ~ok
             /\ Redirects(c, callback.n, callback.page, OnFailure(callback.page.provider))
             /\ UNCHANGED built
  /\ UNCHANGED <<sessions, pages, redeemed, collection, served>>

(* The repository answers null when the insert fails, and nobody looks.      *)
(* Mutant: the handler forgets to answer.                                    *)
CreateUnanswered(c) ==
  /\ call[c].pc = "create"
  /\ collection' = collection \cup {AsStored(call[c].entity)}
  /\ UNCHANGED <<sessions, pages, redeemed, built, call, served, faults>>
Create(c) ==
  /\ call[c].pc = "create"
  /\ \E outcome \in Outcomes :
       /\ Reports(outcome)
       /\ collection' = IF outcome = "refused" THEN collection
                        ELSE collection \cup {AsStored(call[c].entity)}
  /\ Redirects(c, call[c].callback.n, call[c].callback.page, "connected")
  /\ UNCHANGED <<sessions, pages, redeemed, built, served>>

-----------------------------------------------------------------------------

(* tweet: 401 unless the account of the one user it tweets for is connected. *)
Tweet(c) ==
  /\ Starts(c)
  /\ \E ok \in BOOLEAN :
       /\ Succeeds(ok)
       /\ Answers(c, IF ok /\ FindByUserIdSocialMedia(Tweeter, "twitter") # {}
                     THEN "tweeted" ELSE "unauthorised")
  /\ UNCHANGED <<sessions, pages, redeemed, built, collection>>

(* The process dies, and with it the requests it served and every session. *)
Crash ==
  /\ Fault
  /\ sessions' = [b \in Browsers |-> NewSession]
  /\ call' = [c \in Calls |-> IF Active(c) THEN Idle ELSE call[c]]
  /\ UNCHANGED <<pages, redeemed, built, collection, served>>

Init ==
  /\ sessions = [b \in Browsers |-> NewSession]
  /\ pages = {} /\ redeemed = {} /\ built = {} /\ collection = {}
  /\ call = [c \in Calls |-> Idle]
  /\ served = 0 /\ faults = 0

Arrive(c) == GenerateLink(c) \/ ComeBack(c) \/ Tweet(c)
Proceed(c) ==
  FindConnected(c) \/ GenerateAuthLink(c) \/ Exchange(c) \/ UserInfo(c) \/ Create(c)

Next == Crash \/ \E c \in Calls : Arrive(c) \/ Proceed(c)
Spec == Init /\ [][Next]_vars

(* The database and the providers answer in the end, with an error after a  *)
(* timeout if need be; a user may close a page.                             *)
FairSpec == Spec /\ \A c \in Calls : WF_vars(Proceed(c))

-----------------------------------------------------------------------------
(* Properties. *)

(* The type invariant. *)
TypeOK ==
  /\ sessions \in [Browsers -> Session]
  /\ pages \subseteq Page
  /\ redeemed \subseteq [page : Nat, by : Nat]
  /\ built \subseteq Entity
  /\ collection \subseteq [SchemaFields -> Nat]
  /\ call \in [Calls -> Local]
  /\ served \in Nat /\ faults \in Nat

OpenedIn(browser) == {p \in pages : p.browser = browser}

(* A callback connects the account to a user whom a link was opened for in   *)
(* the same browser, though perhaps not by the link that led to this page.   *)
(* Twitter's page is bound to its link by the secret, so a user other than   *)
(* the link's comes only from a link of the other provider opened there too. *)
ConnectsWhoAsked ==
  \A e \in built :
    \/ e.user = e.page.user
    \/ \E p \in OpenedIn(e.page.browser) :
         p.user = e.user /\ (e.socialMedia = "twitter" => p.provider = "google")

(* The session holds the user of the last link that was opened in the        *)
(* browser, unless that link was requested before the one it lost to was     *)
(* opened: two overlapping links may leave the first one's user, as the last *)
(* one need not change the copy it began with.                               *)
LastLinkWins ==
  \A b \in Browsers : sessions[b].user # Nobody =>
    \E p \in OpenedIn(b) :
      /\ p.user = sessions[b].user
      /\ \A q \in OpenedIn(b) : q.n > p.n => q.since < p.n

(* The secret of a browser's last twitter link is in its session until its   *)
(* callback comes, whatever other links are opened, unless one of them was   *)
(* requested before this one was opened, or the process died.                *)
TwitterSecretKept ==
  faults = 0 =>
    \A p \in pages : p.provider = "twitter" =>
      \/ sessions[p.browser].secret = p.n
      \/ \E q \in OpenedIn(p.browser) :
           q.n > p.n /\ (q.provider = "twitter" \/ q.since < p.n)

(* While nothing fails, what a callback that redirects without an error has  *)
(* left in the database is a document with an _id of its own and nothing     *)
(* else: the user, the provider and the tokens of the account are not kept.  *)
(* Twitter's callback may have left not even that: its consent may have been *)
(* redeemed by another callback, or belong to a link whose secret a later    *)
(* one replaced, and that failure is swallowed.                              *)
ConnectedKeepsOnlyId ==
  faults = 0 =>
    \A c \in Calls : call[c].pc = "done" /\ call[c].status = "connected" =>
      LET page == call[c].page IN
      \/ {d \in collection : d._id = call[c].n} = {[_id |-> call[c].n]}
      \/ /\ page.provider = "twitter"
         /\ \/ \E r \in redeemed : r.page = page.n /\ r.by # call[c].n
            \/ \E q \in OpenedIn(page.browser) \ {page} : q.provider = "twitter"

(* Every request is answered, or lost in a crash. *)
EveryRequestAnswered == \A c \in Calls : Active(c) ~> Free(c)

-----------------------------------------------------------------------------
(* What a message of the repository says, and the code does not do. *)

(* ALREADY_CONNECTED: a link for an account whose document is stored, looked  *)
(* up without an error, is refused.                                           *)
Connected(user, provider) ==
  \E e \in built : e.user = user /\ e.socialMedia = provider /\ AsStored(e) \in collection
ConnectedOnce ==
  [][\A c \in Calls :
       /\ call[c].pc = "findConnected" /\ call'[c] # call[c] /\ faults' = faults
       /\ Connected(call[c].link.user, call[c].link.provider)
       => call'[c].pc = "done" /\ call'[c].status = "badRequest"]_vars
=============================================================================
