------------------------ MODULE ConnectedAccountsProofs ------------------------
(***************************************************************************)
(* Proofs about ConnectedAccounts: types, whom a callback connects, which  *)
(* link's user and secret a browser's session holds, and what a redirect   *)
(* without an error means.                                                 *)
(***************************************************************************)
EXTENDS ConnectedAccounts, FiniteSetTheorems, TLAPS

(* Pages are numbered from 1, each its own. *)
PagesOK ==
  /\ IsFiniteSet(pages)
  /\ \A p \in pages : p.n \in 1..Cardinality(pages)
  /\ \A p, q \in pages : p.n = q.n => p = q

OpenedFor(b, u) == \E p \in pages : p.browser = b /\ p.user = u
GoogleFor(b, u) == \E p \in pages : p.browser = b /\ p.user = u /\ p.provider = "google"

(* A session, or a copy of one: its user is one a page was opened for in the *)
(* browser, and is the user of the page its secret is for, or of a page of   *)
(* Google.                                                                   *)
SessionOK(b, session) ==
  /\ session.user # Nobody => OpenedFor(b, session.user)
  /\ session.secret # NoSecret =>
       \E p \in pages : /\ p.n = session.secret
                        /\ p.user = session.user \/ GoogleFor(b, session.user)

(* What a callback took from the session agrees with its page, once the      *)
(* provider has accepted the secret.                                         *)
CallbackOK(callback) ==
  /\ OpenedFor(callback.page.browser, callback.user)
  /\ callback.page.provider = "twitter" /\ callback.secret = callback.page.n =>
       callback.user = callback.page.user \/ GoogleFor(callback.page.browser, callback.user)

CallOK(local) ==
  /\ local.pc \in {"findConnected", "generateAuthLink"} =>
       SessionOK(local.link.browser, local.link.session)
  /\ local.pc \in {"exchange", "userInfo"} => CallbackOK(local.callback)
  /\ local.pc = "userInfo" /\ local.callback.page.provider = "twitter" =>
       local.callback.secret = local.callback.page.n

ConnectInv ==
  /\ TypeOK
  /\ PagesOK
  /\ \A b \in Browsers : SessionOK(b, sessions[b])
  /\ \A c \in Calls : CallOK(call[c])
  /\ ConnectsWhoAsked

-----------------------------------------------------------------------------
(* Pages are only added, so what was opened stays opened. *)

LEMMA SessionKept ==
  ASSUME pages \subseteq pages', NEW b, NEW session, SessionOK(b, session)
  PROVE  SessionOK(b, session)'
  BY DEF SessionOK, OpenedFor, GoogleFor

LEMMA CallKept ==
  ASSUME pages \subseteq pages', NEW local, CallOK(local)
  PROVE  CallOK(local)'
  <1>1. \A b, session : SessionOK(b, session) => SessionOK(b, session)'
    BY SessionKept
  <1>2. \A callback : CallbackOK(callback) => CallbackOK(callback)'
    BY DEF CallbackOK, OpenedFor, GoogleFor
  <1> QED
    BY <1>1, <1>2 DEF CallOK

LEMMA ConnectsKept ==
  ASSUME pages \subseteq pages', built' = built, ConnectsWhoAsked
  PROVE  ConnectsWhoAsked'
  BY DEF ConnectsWhoAsked, OpenedIn

(* Local variables that hold neither a session nor a callback. *)
LEMMA EndedOK ==
  ASSUME NEW local, local.pc \in {"idle", "done", "create"}
  PROVE  CallOK(local)
  BY DEF CallOK

(* A step that opens no page changes nothing but the call it serves. *)
LEMMA ServedStep ==
  ASSUME ConnectInv, TypeOK', UNCHANGED <<pages, sessions, built>>,
         NEW c \in Calls, NEW local, Becomes(c, local), CallOK(local)
  PROVE  ConnectInv'
  <1>1. PagesOK' /\ \A b \in Browsers : SessionOK(b, sessions[b])'
    BY DEF ConnectInv, PagesOK, SessionOK, OpenedFor, GoogleFor
  <1>2. ConnectsWhoAsked'
    BY ConnectsKept DEF ConnectInv
  <1>3. \A d \in Calls : CallOK(call[d])'
    <2> SUFFICES ASSUME NEW d \in Calls PROVE CallOK(call[d])'
      OBVIOUS
    <2>1. call'[d] = IF d = c THEN local ELSE call[d]
      BY DEF Becomes, ConnectInv, TypeOK
    <2>2. \A l : CallOK(l) => CallOK(l)'
      BY CallKept
    <2>3. CallOK(call'[d])
      BY <2>1 DEF ConnectInv
    <2> QED
      BY <2>3 DEF CallOK, SessionOK, CallbackOK, OpenedFor, GoogleFor
  <1> QED
    BY <1>1, <1>2, <1>3 DEF ConnectInv

-----------------------------------------------------------------------------
(* Types. *)

LEMMA Ended ==
  ASSUME TypeOK, NEW c \in Calls, NEW status \in Statuses, Answers(c, status)
  PROVE  call' \in [Calls -> Local]
  <1>1. [pc |-> "done", status |-> status] \in Local
    BY DEF Local, Linked
  <1> QED
    BY <1>1 DEF Answers, Becomes, TypeOK

LEMMA Redirected ==
  ASSUME TypeOK, NEW c \in Calls, NEW n \in Nat, NEW page \in Page, NEW status \in Statuses,
         Redirects(c, n, page, status)
  PROVE  call' \in [Calls -> Local]
  <1>1. [pc |-> "done", n |-> n, page |-> page, status |-> status] \in Local
    BY DEF Local, Called
  <1> QED
    BY <1>1 DEF Redirects, Becomes, TypeOK

LEMMA FaultsType ==
  ASSUME TypeOK
  PROVE  /\ \A ok \in BOOLEAN : Succeeds(ok) => faults' \in Nat
         /\ \A outcome \in Outcomes : Reports(outcome) => faults' \in Nat
         /\ Fault \/ NoFault => faults' \in Nat
  BY DEF TypeOK, Succeeds, Reports, Fault, NoFault

(* Arrivals number themselves. *)
LEMMA StartsType ==
  ASSUME TypeOK, NEW c \in Calls, Starts(c)
  PROVE  served' = served + 1 /\ served' \in Nat
  BY DEF TypeOK, Starts

LEMMA OutcomeStatus ==
  /\ \A ok \in BOOLEAN : (IF ok THEN "tweeted" ELSE "unauthorised") \in Statuses
  /\ \A provider \in Providers : OnFailure(provider) \in Statuses
  /\ {"redirected", "connected", "error", "unauthorised", "badRequest", "serverError"}
       \subseteq Statuses
  BY DEF Statuses, OnFailure

-----------------------------------------------------------------------------
(* The actions, one by one. *)

LEMMA GenerateLinkInv ==
  ASSUME ConnectInv, NEW c \in Calls, GenerateLink(c)
  PROVE  ConnectInv'
  <1> USE DEF ConnectInv
  <1>1. PICK browser \in Browsers, provider \in Providers, user \in Users, found \in BOOLEAN :
          /\ NoFault
          /\ \/ ~found /\ Answers(c, "unauthorised")
             \/ /\ found
                /\ Becomes(c, [pc |-> "findConnected",
                               link |-> [n |-> served', browser |-> browser,
                                         provider |-> provider, user |-> user,
                                         session |-> sessions[browser],
                                         since |-> Cardinality(pages)]])
    BY DEF GenerateLink
  <1>2. served' \in Nat /\ faults' \in Nat
    BY <1>1, StartsType, FaultsType DEF GenerateLink
  <1> DEFINE link == [n |-> served', browser |-> browser, provider |-> provider, user |-> user,
                      session |-> sessions[browser], since |-> Cardinality(pages)]
             local == [pc |-> "findConnected", link |-> link]
             ended == [pc |-> "done", status |-> "unauthorised"]
  <1>3. CASE Becomes(c, local)
    <2>1. link \in Link
      BY <1>2, FS_CardinalityType DEF Link, TypeOK, PagesOK
    <2>2. local \in Local
      BY <2>1 DEF Local, Linking
    <2>3. CallOK(local)
      BY DEF CallOK
    <2> HIDE DEF local
    <2>4. TypeOK'
      BY <1>2, <1>3, <2>2 DEF TypeOK, GenerateLink, Becomes
    <2> QED
      BY <1>3, <2>3, <2>4, ServedStep DEF GenerateLink
  <1>4. CASE Answers(c, "unauthorised")
    <2>1. TypeOK'
      BY <1>2, <1>4, Ended, OutcomeStatus DEF TypeOK, GenerateLink
    <2>2. CallOK(ended) /\ Becomes(c, ended)
      BY <1>4, EndedOK DEF Answers
    <2> HIDE DEF ended
    <2> QED
      BY <2>1, <2>2, ServedStep DEF GenerateLink
  <1> QED
    BY <1>1, <1>3, <1>4

(* What a link leaves in the session agrees with its page. *)
LEMMA WithLinkOK ==
  ASSUME NEW link \in Link, NEW page \in Page, page \in pages', pages \subseteq pages',
         page.browser = link.browser, page.provider = link.provider, page.user = link.user,
         SessionOK(link.browser, link.session)
  PROVE  /\ WithLink(link, page) \in Session
         /\ SessionOK(link.browser, WithLink(link, page))'
  <1>1. SessionOK(link.browser, link.session)'
    BY SessionKept
  <1>2. /\ WithLink(link, page).user = page.user
        /\ WithLink(link, page).secret =
             IF link.provider = "twitter" THEN page.n ELSE link.session.secret
    BY DEF WithLink
  <1>3. WithLink(link, page) \in Session
    BY DEF WithLink, Link, Page, Session, Providers
  <1>4. OpenedFor(link.browser, page.user)'
    BY DEF OpenedFor
  <1>5. CASE link.provider = "twitter"
    <2>1. \E p \in pages' : p.n = page.n /\ p.user = page.user
      OBVIOUS
    <2> QED
      BY <1>2, <1>3, <1>4, <1>5, <2>1 DEF SessionOK
  <1>6. CASE link.provider = "google"
    <2>1. GoogleFor(link.browser, page.user)'
      BY <1>6 DEF GoogleFor
    <2>2. WithLink(link, page).secret = link.session.secret
      BY <1>2, <1>6
    <2> QED
      BY <1>1, <1>2, <1>3, <1>4, <2>1, <2>2 DEF SessionOK
  <1> QED
    BY <1>3, <1>5, <1>6 DEF Link, Providers

LEMMA OpensInv ==
  ASSUME ConnectInv, NEW c \in Calls, call[c].pc \in {"findConnected", "generateAuthLink"},
         Opens(c, call[c].link), faults' \in Nat, UNCHANGED <<redeemed, built, collection, served>>
  PROVE  ConnectInv'
  <1> USE DEF ConnectInv
  <1> DEFINE ended == [pc |-> "done", status |-> "redirected"]
  <1>1. PICK link \in Link : link = call[c].link
    BY DEF TypeOK, Local, Linking, Idle, Connecting, Creating, Linked, Called
  <1>2. Cardinality(pages) \in Nat
    BY FS_CardinalityType DEF PagesOK
  <1>3. PICK page \in Page :
          page = [n |-> Cardinality(pages) + 1, browser |-> link.browser,
                  provider |-> link.provider, user |-> link.user, since |-> link.since]
    <2>1. [n |-> Cardinality(pages) + 1, browser |-> link.browser, provider |-> link.provider,
           user |-> link.user, since |-> link.since] \in Page
      BY <1>2 DEF Page, Link
    <2> QED
      BY <2>1
  <1>4. pages' = pages \cup {page} /\ Becomes(c, ended)
    BY <1>1, <1>3 DEF Opens, Answers
  <1>5. page.n = Cardinality(pages) + 1 /\ page \notin pages
    BY <1>2, <1>3 DEF PagesOK
  <1>6. IsFiniteSet(pages') /\ Cardinality(pages') = Cardinality(pages) + 1
    BY <1>4, <1>5, FS_AddElement DEF PagesOK
  <1>7. PagesOK'
    <2>1. \A p \in pages : p.n \in 1..Cardinality(pages) /\ p.n # page.n
      BY <1>2, <1>5 DEF PagesOK
    <2>2. \A p, q \in pages : p.n = q.n => p = q
      BY DEF PagesOK
    <2> HIDE DEF ConnectInv, ended
    <2>3. \A p, q \in pages' : p.n = q.n => p = q
      BY <1>4, <2>1, <2>2
    <2>4. \A p \in pages' : p.n \in 1..Cardinality(pages')
      BY <1>2, <1>4, <1>5, <1>6, <2>1
    <2> QED
      BY <1>6, <2>3, <2>4 DEF PagesOK
  <1>8. /\ WithLink(link, page) \in Session
        /\ SessionOK(link.browser, WithLink(link, page))'
    <2>1. SessionOK(link.browser, link.session)
      BY <1>1 DEF CallOK
    <2>2. page.browser = link.browser /\ page.provider = link.provider /\ page.user = link.user
      BY <1>3
    <2> QED
      BY <1>1, <1>3, <1>4, <2>1, <2>2, WithLinkOK
  <1>9. \/ sessions' = sessions
        \/ sessions' = [sessions EXCEPT ![link.browser] = WithLink(link, page)]
    BY <1>1, <1>3 DEF Opens
  <1>10. sessions' \in [Browsers -> Session]
    BY <1>1, <1>8, <1>9 DEF TypeOK
  <1>11. \A b \in Browsers : SessionOK(b, sessions[b])'
    <2> SUFFICES ASSUME NEW b \in Browsers PROVE SessionOK(b, sessions[b])'
      OBVIOUS
    <2>1. \/ sessions'[b] = sessions[b]
          \/ b = link.browser /\ sessions'[b] = WithLink(link, page)
      BY <1>9 DEF TypeOK
    <2>2. \A session : SessionOK(b, session) => SessionOK(b, session)'
      BY <1>4, SessionKept
    <2>3. SessionOK(b, sessions[b])
      OBVIOUS
    <2> QED
      BY <1>8, <2>1, <2>2, <2>3 DEF SessionOK, OpenedFor, GoogleFor
  <1>12. ended \in Local /\ CallOK(ended)
    BY EndedOK DEF Local, Linked, Statuses
  <1>13. TypeOK'
    <2> HIDE DEF ended
    <2> QED
      BY <1>3, <1>4, <1>10, <1>12 DEF TypeOK, Becomes
  <1>14. \A d \in Calls : CallOK(call[d])'
    <2> SUFFICES ASSUME NEW d \in Calls PROVE CallOK(call[d])'
      OBVIOUS
    <2>1. call'[d] = IF d = c THEN ended ELSE call[d]
      BY <1>4 DEF Becomes, TypeOK
    <2>2. \A l : CallOK(l) => CallOK(l)'
      BY <1>4, CallKept
    <2>3. CallOK(call'[d])
      BY <1>12, <2>1
    <2> HIDE DEF ended
    <2> QED
      BY <2>2, <2>3 DEF CallOK, SessionOK, CallbackOK, OpenedFor, GoogleFor
  <1>15. ConnectsWhoAsked'
    BY <1>4, ConnectsKept
  <1> QED
    BY <1>7, <1>11, <1>13, <1>14, <1>15

LEMMA FindConnectedInv ==
  ASSUME ConnectInv, NEW c \in Calls, FindConnected(c)
  PROVE  ConnectInv'
  <1> DEFINE ended == [pc |-> "done", status |-> "badRequest"]
             local == [pc |-> "generateAuthLink", link |-> call[c].link]
  <1>1. faults' \in Nat /\ TypeOK
    BY FaultsType DEF ConnectInv, FindConnected
  <1>2. CASE Opens(c, call[c].link)
    BY <1>1, <1>2, OpensInv DEF FindConnected
  <1>3. CASE Answers(c, "badRequest") /\ UNCHANGED <<sessions, pages>>
    <2>1. TypeOK'
      BY <1>1, <1>3, Ended, OutcomeStatus DEF TypeOK, FindConnected
    <2>2. CallOK(ended) /\ Becomes(c, ended)
      BY <1>3, EndedOK DEF Answers
    <2> HIDE DEF ended
    <2> QED
      BY <1>3, <2>1, <2>2, ServedStep DEF FindConnected
  <1>4. CASE Becomes(c, local) /\ UNCHANGED <<sessions, pages>>
    <2>1. call[c].link \in Link
      BY <1>1 DEF FindConnected, TypeOK, Local, Linking, Idle, Connecting, Creating, Linked, Called
    <2>2. local \in Local
      BY <2>1 DEF Local, Linking
    <2>3. CallOK(local)
      BY DEF CallOK, ConnectInv, FindConnected
    <2> HIDE DEF local
    <2>4. TypeOK'
      BY <1>1, <1>4, <2>2 DEF TypeOK, FindConnected, Becomes
    <2> QED
      BY <1>4, <2>3, <2>4, ServedStep DEF FindConnected
  <1> QED
    BY <1>2, <1>3, <1>4 DEF FindConnected

LEMMA GenerateAuthLinkInv ==
  ASSUME ConnectInv, NEW c \in Calls, GenerateAuthLink(c)
  PROVE  ConnectInv'
  <1> DEFINE ended == [pc |-> "done", status |-> "serverError"]
  <1>1. faults' \in Nat /\ TypeOK
    BY FaultsType DEF ConnectInv, GenerateAuthLink
  <1>2. CASE Opens(c, call[c].link)
    BY <1>1, <1>2, OpensInv DEF GenerateAuthLink
  <1>3. CASE Answers(c, "serverError") /\ UNCHANGED <<sessions, pages>>
    <2>1. TypeOK'
      BY <1>1, <1>3, Ended, OutcomeStatus DEF TypeOK, GenerateAuthLink
    <2>2. CallOK(ended) /\ Becomes(c, ended)
      BY <1>3, EndedOK DEF Answers
    <2> HIDE DEF ended
    <2> QED
      BY <1>3, <2>1, <2>2, ServedStep DEF GenerateAuthLink
  <1> QED
    BY <1>2, <1>3 DEF GenerateAuthLink

(* A callback that ends in a redirect. *)
LEMMA RedirectInv ==
  ASSUME ConnectInv, NEW c \in Calls, NEW n \in Nat, NEW page \in Page, NEW status \in Statuses,
         Redirects(c, n, page, status), UNCHANGED <<sessions, pages, built>>,
         served' \in Nat, faults' \in Nat, redeemed' \subseteq [page : Nat, by : Nat],
         collection' \subseteq [SchemaFields -> Nat]
  PROVE  ConnectInv'
  <1> DEFINE ended == [pc |-> "done", n |-> n, page |-> page, status |-> status]
  <1>1. TypeOK'
    BY Redirected DEF ConnectInv, TypeOK
  <1>2. CallOK(ended) /\ Becomes(c, ended)
    BY EndedOK DEF Redirects
  <1> HIDE DEF ended
  <1> QED
    BY <1>1, <1>2, ServedStep

LEMMA ComeBackInv ==
  ASSUME ConnectInv, NEW c \in Calls, ComeBack(c)
  PROVE  ConnectInv'
  <1>1. PICK page \in pages :
          \/ Redirects(c, served', page, "error") /\ (NoFault \/ Fault)
          \/ /\ Usable(page, sessions[page.browser])
             /\ NoFault
             /\ Becomes(c, [pc |-> "exchange",
                            callback |-> [n |-> served', page |-> page,
                                          secret |-> sessions[page.browser].secret,
                                          user |-> sessions[page.browser].user]])
    BY DEF ComeBack
  <1>2. served' \in Nat /\ faults' \in Nat /\ page \in Page /\ TypeOK
    BY <1>1, StartsType, FaultsType DEF ComeBack, ConnectInv, TypeOK
  <1>3. UNCHANGED <<sessions, pages, redeemed, built, collection>>
    BY DEF ComeBack
  <1>4. CASE Redirects(c, served', page, "error")
    <2>1. "error" \in Statuses
      BY OutcomeStatus
    <2>2. /\ redeemed' \subseteq [page : Nat, by : Nat]
          /\ collection' \subseteq [SchemaFields -> Nat]
      BY <1>2, <1>3 DEF TypeOK
    <2> QED
      BY <1>2, <1>3, <1>4, <2>1, <2>2, RedirectInv
  <1> DEFINE session == sessions[page.browser]
             callback == [n |-> served', page |-> page, secret |-> session.secret,
                          user |-> session.user]
             local == [pc |-> "exchange", callback |-> callback]
  <1>5. CASE Usable(page, session) /\ Becomes(c, local)
    <2>1. page.browser \in Browsers /\ session \in Session
      BY <1>2 DEF TypeOK, Page
    <2>2. session.user # Nobody /\ (page.provider = "twitter" => session.secret # NoSecret)
      BY <1>5 DEF Usable
    <2>3. callback \in Callback
      BY <1>2, <2>1, <2>2 DEF Callback, Session
    <2>4. local \in Local
      BY <2>3 DEF Local, Connecting
    <2>5. SessionOK(page.browser, session)
      BY <2>1 DEF ConnectInv
    <2>6. CallbackOK(callback)
      <3>1. OpenedFor(page.browser, session.user)
        BY <2>2, <2>5 DEF SessionOK
      <3>2. ASSUME page.provider = "twitter", session.secret = page.n
            PROVE  session.user = page.user \/ GoogleFor(page.browser, session.user)
        <4>1. PICK p \in pages : /\ p.n = session.secret
                                 /\ p.user = session.user \/ GoogleFor(page.browser, session.user)
          BY <2>2, <2>5, <3>2 DEF SessionOK
        <4>2. p = page
          BY <4>1, <3>2 DEF ConnectInv, PagesOK
        <4> QED
          BY <4>1, <4>2
      <3> QED
        BY <3>1, <3>2 DEF CallbackOK
    <2>7. CallOK(local)
      BY <2>6 DEF CallOK
    <2>8. call' = [call EXCEPT ![c] = local]
      BY <1>5 DEF Becomes
    <2> HIDE DEF local
    <2>9. TypeOK'
      BY <1>2, <1>3, <2>4, <2>8 DEF TypeOK
    <2> QED
      BY <1>3, <1>5, <2>7, <2>9, ServedStep
  <1> QED
    BY <1>1, <1>4, <1>5

(* What a callback in progress carries is typed and agrees with its page. *)
LEMMA InCallback ==
  ASSUME ConnectInv, NEW c \in Calls, call[c].pc \in {"exchange", "userInfo"}
  PROVE  /\ call[c].callback \in Callback
         /\ call[c].callback.n \in Nat
         /\ call[c].callback.page \in Page
         /\ OnFailure(call[c].callback.page.provider) \in Statuses
         /\ CallbackOK(call[c].callback)
  <1>1. call[c].callback \in Callback
    BY DEF ConnectInv, TypeOK, Local, Linking, Idle, Connecting, Creating, Linked, Called
  <1>2. call[c].callback.n \in Nat /\ call[c].callback.page \in Page
    BY <1>1 DEF Callback
  <1>3. OnFailure(call[c].callback.page.provider) \in Statuses
    BY DEF OnFailure, Statuses
  <1>4. CallbackOK(call[c].callback)
    BY DEF ConnectInv, CallOK
  <1> QED
    BY <1>1, <1>2, <1>3, <1>4

LEMMA ExchangeInv ==
  ASSUME ConnectInv, NEW c \in Calls, Exchange(c)
  PROVE  ConnectInv'
  <1>1. PICK callback \in Callback : callback = call[c].callback
    BY InCallback DEF Exchange
  <1>2. /\ callback.n \in Nat /\ callback.page \in Page
        /\ OnFailure(callback.page.provider) \in Statuses
        /\ CallbackOK(callback)
    BY <1>1, InCallback DEF Exchange
  <1>3. TypeOK /\ served' \in Nat /\ faults' \in Nat
    BY FaultsType DEF Exchange, ConnectInv, TypeOK
  <1>4. redeemed' \subseteq [page : Nat, by : Nat]
    <2>1. callback.page.n \in Nat
      BY <1>2 DEF Page
    <2>2. redeemed' = redeemed \cup {[page |-> callback.page.n, by |-> callback.n]}
            \/ redeemed' = redeemed
      BY <1>1 DEF Exchange
    <2> QED
      BY <1>2, <1>3, <2>1, <2>2 DEF TypeOK
  <1>5. collection' \subseteq [SchemaFields -> Nat]
    BY <1>3 DEF Exchange, TypeOK
  <1>6. CASE Redirects(c, callback.n, callback.page, OnFailure(callback.page.provider))
    BY <1>2, <1>3, <1>4, <1>5, <1>6, RedirectInv DEF Exchange
  <1> DEFINE local == [pc |-> "userInfo", callback |-> callback]
  <1>7. CASE Redeemable(callback) /\ Becomes(c, local)
    <2>1. local \in Local
      BY DEF Local, Connecting
    <2>2. CallOK(local)
      BY <1>2, <1>7 DEF CallOK, Redeemable
    <2>3. call' = [call EXCEPT ![c] = local]
      BY <1>7 DEF Becomes
    <2> HIDE DEF local
    <2>4. TypeOK'
      BY <1>3, <1>4, <1>5, <2>1, <2>3 DEF Exchange, TypeOK
    <2> QED
      BY <1>7, <2>2, <2>4, ServedStep DEF Exchange
  <1> QED
    BY <1>1, <1>6, <1>7 DEF Exchange

(* The entity built for a callback is the session's user's, who asked for it. *)
LEMMA UserInfoInv ==
  ASSUME ConnectInv, NEW c \in Calls, UserInfo(c)
  PROVE  ConnectInv'
  <1>1. PICK callback \in Callback : callback = call[c].callback
    BY InCallback DEF UserInfo
  <1>2. /\ callback.n \in Nat /\ callback.page \in Page
        /\ OnFailure(callback.page.provider) \in Statuses
        /\ CallbackOK(callback)
    BY <1>1, InCallback DEF UserInfo
  <1>3. TypeOK /\ served' \in Nat /\ faults' \in Nat
    BY FaultsType DEF UserInfo, ConnectInv, TypeOK
  <1>4. PICK entity : entity = EntityOf(callback)
    OBVIOUS
  <1>5. entity \in Entity
    BY <1>2, <1>4 DEF EntityOf, Entity, Callback, Page
  <1> DEFINE local == [pc |-> "create", callback |-> callback, entity |-> entity]
  <1>6. CASE built' = built \cup {entity} /\ Becomes(c, local)
    <2>1. local \in Local
      BY <1>5 DEF Local, Creating
    <2>2. CallOK(local)
      BY EndedOK
    <2>3. call' = [call EXCEPT ![c] = local]
      BY <1>6 DEF Becomes
    <2> HIDE DEF local
    <2>4. TypeOK'
      BY <1>3, <1>5, <1>6, <2>1, <2>3 DEF UserInfo, TypeOK
    <2>5. ConnectsWhoAsked'
      <3>1. entity.page = callback.page /\ entity.user = callback.user
            /\ entity.socialMedia = callback.page.provider
        BY <1>4 DEF EntityOf
      <3>2. callback.page.provider = "twitter" => callback.secret = callback.page.n
        BY <1>1 DEF UserInfo, ConnectInv, CallOK
      <3>3. \/ entity.user = entity.page.user
            \/ \E p \in OpenedIn(entity.page.browser) :
                 p.user = entity.user /\ (entity.socialMedia = "twitter" => p.provider = "google")
        <4>1. CASE entity.socialMedia = "twitter"
          BY <1>2, <3>1, <3>2, <4>1 DEF CallbackOK, GoogleFor, OpenedIn
        <4>2. CASE entity.socialMedia # "twitter"
          BY <1>2, <3>1, <4>2 DEF CallbackOK, OpenedFor, OpenedIn
        <4> QED
          BY <4>1, <4>2
      <3> QED
        BY <1>6, <3>3 DEF UserInfo, ConnectInv, ConnectsWhoAsked, OpenedIn
    <2>6. PagesOK' /\ \A b \in Browsers : SessionOK(b, sessions[b])'
      BY DEF UserInfo, ConnectInv, PagesOK, SessionOK, OpenedFor, GoogleFor
    <2>7. \A d \in Calls : CallOK(call[d])'
      <3> SUFFICES ASSUME NEW d \in Calls PROVE CallOK(call[d])'
        OBVIOUS
      <3>1. CallOK(call'[d])
        BY <1>3, <2>2, <2>3 DEF ConnectInv, TypeOK
      <3> QED
        BY <3>1 DEF UserInfo, CallOK, SessionOK, CallbackOK, OpenedFor, GoogleFor
    <2> QED
      BY <2>4, <2>5, <2>6, <2>7 DEF ConnectInv
  <1>7. CASE /\ Redirects(c, callback.n, callback.page, OnFailure(callback.page.provider))
             /\ built' = built
    <2>1. /\ redeemed' \subseteq [page : Nat, by : Nat]
          /\ collection' \subseteq [SchemaFields -> Nat]
      BY <1>3 DEF UserInfo, TypeOK
    <2> QED
      BY <1>2, <1>3, <1>7, <2>1, RedirectInv DEF UserInfo
  <1> QED
    BY <1>1, <1>4, <1>6, <1>7 DEF UserInfo

LEMMA CreateInv ==
  ASSUME ConnectInv, NEW c \in Calls, Create(c)
  PROVE  ConnectInv'
  <1>1. TypeOK /\ served' \in Nat /\ faults' \in Nat /\ "connected" \in Statuses
    BY FaultsType, OutcomeStatus DEF Create, ConnectInv, TypeOK
  <1>2. call[c].callback \in Callback /\ call[c].entity \in Entity
    BY <1>1 DEF Create, TypeOK, Local, Linking, Idle, Connecting, Creating, Linked, Called
  <1>3. call[c].callback.n \in Nat /\ call[c].callback.page \in Page
    BY <1>2 DEF Callback
  <1>4. AsStored(call[c].entity) \in [SchemaFields -> Nat]
    BY <1>2 DEF AsStored, Restrict, SchemaFields, Entity
  <1>5. collection' \subseteq [SchemaFields -> Nat]
    BY <1>1, <1>4 DEF Create, TypeOK
  <1>6. redeemed' \subseteq [page : Nat, by : Nat]
    BY <1>1 DEF Create, TypeOK
  <1> QED
    BY <1>1, <1>3, <1>5, <1>6, RedirectInv DEF Create

LEMMA TweetInv ==
  ASSUME ConnectInv, NEW c \in Calls, Tweet(c)
  PROVE  ConnectInv'
  <1>1. PICK status \in Statuses : Answers(c, status)
    BY OutcomeStatus DEF Tweet
  <1>2. TypeOK /\ served' \in Nat /\ faults' \in Nat
    BY StartsType, FaultsType DEF Tweet, ConnectInv
  <1>3. TypeOK'
    BY <1>1, <1>2, Ended DEF Tweet, TypeOK
  <1> DEFINE ended == [pc |-> "done", status |-> status]
  <1>4. CallOK(ended) /\ Becomes(c, ended)
    BY <1>1, EndedOK DEF Answers
  <1> HIDE DEF ended
  <1> QED
    BY <1>3, <1>4, ServedStep DEF Tweet

LEMMA CrashInv ==
  ASSUME ConnectInv, Crash
  PROVE  ConnectInv'
  <1>1. TypeOK /\ faults' \in Nat
    BY FaultsType DEF Crash, ConnectInv
  <1>2. Idle \in Local /\ NewSession \in Session
    BY DEF Local, NewSession, Session, NoSecret
  <1>3. TypeOK'
    BY <1>1, <1>2 DEF Crash, TypeOK
  <1>4. \A b \in Browsers : SessionOK(b, sessions[b])'
    BY DEF Crash, SessionOK, NewSession
  <1>5. \A c \in Calls : CallOK(call[c])'
    <2> SUFFICES ASSUME NEW c \in Calls PROVE CallOK(call[c])'
      OBVIOUS
    <2>1. CallOK(Idle)
      BY EndedOK DEF Idle
    <2>2. CallOK(call'[c])
      BY <2>1 DEF Crash, ConnectInv
    <2> QED
      BY <2>2 DEF Crash, CallOK, SessionOK, CallbackOK, OpenedFor, GoogleFor
  <1>6. PagesOK' /\ ConnectsWhoAsked'
    BY ConnectsKept DEF Crash, ConnectInv, PagesOK
  <1> QED
    BY <1>3, <1>4, <1>5, <1>6 DEF ConnectInv

-----------------------------------------------------------------------------

LEMMA InitConnectInv == Init => ConnectInv
  <1> SUFFICES ASSUME Init PROVE ConnectInv
    OBVIOUS
  <1>1. Idle \in Local /\ NewSession \in Session
    BY DEF Local, NewSession, Session, NoSecret
  <1>2. TypeOK
    BY <1>1 DEF Init, TypeOK
  <1>3. PagesOK
    BY FS_EmptySet DEF Init, PagesOK
  <1>4. \A b \in Browsers : SessionOK(b, sessions[b])
    BY DEF Init, SessionOK, NewSession
  <1>5. \A c \in Calls : CallOK(call[c])
    BY EndedOK DEF Init, Idle
  <1>6. ConnectsWhoAsked
    BY DEF Init, ConnectsWhoAsked
  <1> QED
    BY <1>2, <1>3, <1>4, <1>5, <1>6 DEF ConnectInv

LEMMA NextConnectInv == ConnectInv /\ [Next]_vars => ConnectInv'
  <1> SUFFICES ASSUME ConnectInv, [Next]_vars PROVE ConnectInv'
    OBVIOUS
  <1>1. CASE UNCHANGED vars
    BY <1>1 DEF vars, ConnectInv, TypeOK, PagesOK, SessionOK, CallOK, CallbackOK, OpenedFor,
                GoogleFor, ConnectsWhoAsked, OpenedIn
  <1>2. CASE Crash
    BY <1>2, CrashInv
  <1>3. ASSUME NEW c \in Calls, Arrive(c) PROVE ConnectInv'
    BY <1>3, GenerateLinkInv, ComeBackInv, TweetInv DEF Arrive
  <1>4. ASSUME NEW c \in Calls, Proceed(c) PROVE ConnectInv'
    BY <1>4, FindConnectedInv, GenerateAuthLinkInv, ExchangeInv, UserInfoInv, CreateInv DEF Proceed
  <1> QED
    BY <1>1, <1>2, <1>3, <1>4 DEF Next

(* Sessions, pages, entities and requests keep their types, and no document  *)
(* ever has a field the schema lacks.                                        *)
THEOREM TypeCorrect == Spec => []TypeOK
  <1>1. ConnectInv => TypeOK
    BY DEF ConnectInv
  <1> QED
    BY <1>1, InitConnectInv, NextConnectInv, PTL DEF Spec

(* However links, callbacks, failures and restarts mix in a browser, a       *)
(* callback connects somebody a link was opened for there, and Twitter's,    *)
(* unless it is its own link's user, one whom a link of Google was opened    *)
(* for.                                                                      *)
THEOREM CallbacksConnectWhoAsked == Spec => []ConnectsWhoAsked
  <1>1. ConnectInv => ConnectsWhoAsked
    BY DEF ConnectInv
  <1> QED
    BY <1>1, InitConnectInv, NextConnectInv, PTL DEF Spec

-----------------------------------------------------------------------------
(* Which links a session remembers.                                          *)

IsLinking(c) == call[c].pc \in {"findConnected", "generateAuthLink"}

(* A page that tells why the session holds its user. *)
Last(b, p) ==
  /\ p \in OpenedIn(b)
  /\ p.user = sessions[b].user
  /\ \A q \in OpenedIn(b) : q.n > p.n => q.since < p.n

(* Since a link got its copy, its browser's session is unchanged or was saved *)
(* by a link opened later.                                                    *)
CopyOK(link) ==
  /\ link.since <= Cardinality(pages)
  /\ \/ sessions[link.browser] = link.session
     \/ \E p \in OpenedIn(link.browser) : Last(link.browser, p) /\ p.n > link.since

LastInv == LastLinkWins /\ \A c \in Calls : IsLinking(c) => CopyOK(call[c].link)

(* The secret in a session is the one of a page, or that page was superseded. *)
Superseded(b, p) ==
  \E q \in OpenedIn(b) : q.n > p.n /\ (q.provider = "twitter" \/ q.since < p.n)
SecretInv ==
  faults = 0 =>
    /\ TwitterSecretKept
    /\ \A c \in Calls : IsLinking(c) =>
         \A p \in OpenedIn(call[c].link.browser) :
           p.provider = "twitter" /\ p.n <= call[c].link.since =>
             call[c].link.session.secret = p.n \/ Superseded(call[c].link.browser, p)

(* The page a link opens, and what becomes of the session. *)
LEMMA OpensPage ==
  ASSUME ConnectInv, NEW c \in Calls, IsLinking(c), Opens(c, call[c].link)
  PROVE  /\ call[c].link \in Link
         /\ Cardinality(pages) \in Nat
         /\ \A p \in pages : p \in Page /\ p.n <= Cardinality(pages)
         /\ \E page \in Page :
              /\ page.n = Cardinality(pages) + 1
              /\ page.browser = call[c].link.browser /\ page.provider = call[c].link.provider
              /\ page.user = call[c].link.user /\ page.since = call[c].link.since
              /\ pages' = pages \cup {page}
              /\ \/ /\ WithLink(call[c].link, page) = call[c].link.session
                    /\ sessions' = sessions
                 \/ sessions' = [sessions EXCEPT ![page.browser] = WithLink(call[c].link, page)]
              /\ call' = [call EXCEPT ![c] = [pc |-> "done", status |-> "redirected"]]
  <1>1. PICK link \in Link : link = call[c].link
    BY DEF IsLinking, ConnectInv, TypeOK, Local, Linking, Idle, Connecting, Creating, Linked, Called
  <1>2. Cardinality(pages) \in Nat
    BY FS_CardinalityType DEF ConnectInv, PagesOK
  <1>3. [n |-> Cardinality(pages) + 1, browser |-> link.browser, provider |-> link.provider,
         user |-> link.user, since |-> link.since] \in Page
    BY <1>2 DEF Page, Link
  <1>4. PICK page \in Page :
          page = [n |-> Cardinality(pages) + 1, browser |-> link.browser,
                  provider |-> link.provider, user |-> link.user, since |-> link.since]
    BY <1>3
  <1>5. /\ pages' = pages \cup {page}
        /\ sessions' = IF WithLink(link, page) = link.session THEN sessions
                       ELSE [sessions EXCEPT ![link.browser] = WithLink(link, page)]
        /\ call' = [call EXCEPT ![c] = [pc |-> "done", status |-> "redirected"]]
    BY <1>1, <1>4 DEF Opens, Answers, Becomes
  <1>6. \A p \in pages : p \in Page /\ p.n <= Cardinality(pages)
    BY <1>2 DEF ConnectInv, TypeOK, PagesOK
  <1>7. /\ page.n = Cardinality(pages) + 1
        /\ page.browser = link.browser /\ page.provider = link.provider
        /\ page.user = link.user /\ page.since = link.since
    BY <1>4
  <1> QED
    BY <1>1, <1>2, <1>5, <1>6, <1>7

(* A step that opens no page and saves no session: links only begin, with a  *)
(* fresh copy, go on with theirs, or end.                                    *)
Quiet ==
  /\ UNCHANGED <<pages, sessions>>
  /\ \A c \in Calls : IsLinking(c)' =>
       \/ IsLinking(c) /\ call'[c].link = call[c].link
       \/ /\ call'[c].link.session = sessions[call'[c].link.browser]
          /\ call'[c].link.browser \in Browsers
          /\ call'[c].link.since = Cardinality(pages)

(* Every step is one of three. *)
LEMMA StepKinds ==
  ASSUME ConnectInv, [Next]_vars
  PROVE  \/ Quiet
         \/ \E c \in Calls : IsLinking(c) /\ Opens(c, call[c].link)
         \/ Crash
  <1>1. CASE UNCHANGED vars
    BY <1>1 DEF vars, Quiet, IsLinking
  <1>2. CASE Crash
    BY <1>2
  <1>3. ASSUME NEW c \in Calls, NEW local, Becomes(c, local),
               UNCHANGED <<pages, sessions>>,
               \/ local.pc \in {"exchange", "userInfo", "create", "done"}
               \/ /\ IsLinking(c) /\ local.link = call[c].link
               \/ /\ local.link.session = sessions[local.link.browser]
                  /\ local.link.browser \in Browsers
                  /\ local.link.since = Cardinality(pages)
        PROVE  Quiet
    <2> SUFFICES ASSUME NEW d \in Calls, IsLinking(d)'
                 PROVE  \/ IsLinking(d) /\ call'[d].link = call[d].link
                        \/ /\ call'[d].link.session = sessions[call'[d].link.browser]
                           /\ call'[d].link.browser \in Browsers
                           /\ call'[d].link.since = Cardinality(pages)
      BY <1>3 DEF Quiet
    <2>1. call'[d] = IF d = c THEN local ELSE call[d]
      BY <1>3 DEF Becomes, ConnectInv, TypeOK
    <2> QED
      BY <1>3, <2>1 DEF IsLinking
  <1>4. ASSUME NEW c \in Calls, NEW status, Answers(c, status), UNCHANGED <<pages, sessions>>
        PROVE  Quiet
    <2> DEFINE local == [pc |-> "done", status |-> status]
    <2>1. local.pc = "done" /\ Becomes(c, local)
      BY <1>4 DEF Answers
    <2> HIDE DEF local
    <2> QED
      BY <1>3, <1>4, <2>1
  <1>5. ASSUME NEW c \in Calls, NEW n, NEW page, NEW status, Redirects(c, n, page, status),
               UNCHANGED <<pages, sessions>>
        PROVE  Quiet
    <2> DEFINE local == [pc |-> "done", n |-> n, page |-> page, status |-> status]
    <2>1. local.pc = "done" /\ Becomes(c, local)
      BY <1>5 DEF Redirects
    <2> HIDE DEF local
    <2> QED
      BY <1>3, <1>5, <2>1
  <1>6. ASSUME NEW c \in Calls, GenerateLink(c) PROVE Quiet
    <2>1. PICK browser \in Browsers, provider \in Providers, user \in Users, found \in BOOLEAN :
            \/ ~found /\ Answers(c, "unauthorised")
            \/ /\ found
               /\ Becomes(c, [pc |-> "findConnected",
                              link |-> [n |-> served', browser |-> browser,
                                        provider |-> provider, user |-> user,
                                        session |-> sessions[browser],
                                        since |-> Cardinality(pages)]])
      BY <1>6 DEF GenerateLink
    <2> DEFINE local == [pc |-> "findConnected",
                         link |-> [n |-> served', browser |-> browser,
                                   provider |-> provider, user |-> user,
                                   session |-> sessions[browser],
                                   since |-> Cardinality(pages)]]
    <2>2. /\ local.link.session = sessions[local.link.browser]
          /\ local.link.browser \in Browsers /\ local.link.since = Cardinality(pages)
      OBVIOUS
    <2>3. Answers(c, "unauthorised") \/ Becomes(c, local)
      BY <2>1
    <2> HIDE DEF local
    <2> QED
      BY <1>3, <1>4, <1>6, <2>2, <2>3 DEF GenerateLink
  <1>7. ASSUME NEW c \in Calls, ComeBack(c) PROVE Quiet
    <2>1. PICK page \in pages :
            \/ Redirects(c, served', page, "error")
            \/ \E callback : Becomes(c, [pc |-> "exchange", callback |-> callback])
      BY <1>7 DEF ComeBack
    <2>2. CASE \E callback : Becomes(c, [pc |-> "exchange", callback |-> callback])
      <3>1. PICK callback : Becomes(c, [pc |-> "exchange", callback |-> callback])
        BY <2>2
      <3> DEFINE local == [pc |-> "exchange", callback |-> callback]
      <3>2. local.pc = "exchange" /\ Becomes(c, local)
        BY <3>1
      <3> HIDE DEF local
      <3> QED
        BY <1>3, <1>7, <3>2 DEF ComeBack
    <2> QED
      BY <1>5, <1>7, <2>1, <2>2 DEF ComeBack
  <1>8. ASSUME NEW c \in Calls, Tweet(c) PROVE Quiet
    BY <1>4, <1>8 DEF Tweet
  <1>9. ASSUME NEW c \in Calls, FindConnected(c)
        PROVE  Quiet \/ (IsLinking(c) /\ Opens(c, call[c].link))
    <2> DEFINE local == [pc |-> "generateAuthLink", link |-> call[c].link]
    <2>1. IsLinking(c)
      BY <1>9 DEF FindConnected, IsLinking
    <2>2. \/ Answers(c, "badRequest") /\ UNCHANGED <<sessions, pages>>
          \/ Opens(c, call[c].link)
          \/ Becomes(c, local) /\ UNCHANGED <<sessions, pages>>
      BY <1>9 DEF FindConnected
    <2>3. local.link = call[c].link
      OBVIOUS
    <2> HIDE DEF local
    <2> QED
      BY <1>3, <1>4, <2>1, <2>2, <2>3
  <1>10. ASSUME NEW c \in Calls, GenerateAuthLink(c)
         PROVE  Quiet \/ (IsLinking(c) /\ Opens(c, call[c].link))
    <2>1. IsLinking(c)
      BY <1>10 DEF GenerateAuthLink, IsLinking
    <2> QED
      BY <1>4, <1>10, <2>1 DEF GenerateAuthLink
  <1>11. ASSUME NEW c \in Calls, Exchange(c) PROVE Quiet
    <2> DEFINE local == [pc |-> "userInfo", callback |-> call[c].callback]
               callback == call[c].callback
    <2>1. \/ Becomes(c, local)
          \/ Redirects(c, callback.n, callback.page, OnFailure(callback.page.provider))
      BY <1>11 DEF Exchange
    <2>2. local.pc = "userInfo"
      OBVIOUS
    <2> HIDE DEF local
    <2> QED
      BY <1>3, <1>5, <1>11, <2>1, <2>2 DEF Exchange
  <1>12. ASSUME NEW c \in Calls, UserInfo(c) PROVE Quiet
    <2> DEFINE callback == call[c].callback
               local == [pc |-> "create", callback |-> callback, entity |-> EntityOf(callback)]
    <2>1. \/ Becomes(c, local)
          \/ Redirects(c, callback.n, callback.page, OnFailure(callback.page.provider))
      BY <1>12 DEF UserInfo
    <2>2. local.pc = "create"
      OBVIOUS
    <2> HIDE DEF local
    <2> QED
      BY <1>3, <1>5, <1>12, <2>1, <2>2 DEF UserInfo
  <1>13. ASSUME NEW c \in Calls, Create(c) PROVE Quiet
    BY <1>5, <1>13 DEF Create
  <1> QED
    BY <1>1, <1>2, <1>6, <1>7, <1>8, <1>9, <1>10, <1>11, <1>12, <1>13 DEF Next, Arrive, Proceed

(* The session of the browser a link opens a page in. *)
LEMMA OpensLast ==
  ASSUME ConnectInv, LastInv, NEW c \in Calls, IsLinking(c), Opens(c, call[c].link)
  PROVE  LastInv'
  <1>1. PICK page \in Page :
          /\ page.n = Cardinality(pages) + 1
          /\ page.browser = call[c].link.browser /\ page.provider = call[c].link.provider
          /\ page.user = call[c].link.user /\ page.since = call[c].link.since
          /\ pages' = pages \cup {page}
          /\ \/ /\ WithLink(call[c].link, page) = call[c].link.session
                /\ sessions' = sessions
             \/ sessions' = [sessions EXCEPT ![page.browser] = WithLink(call[c].link, page)]
          /\ call' = [call EXCEPT ![c] = [pc |-> "done", status |-> "redirected"]]
    BY OpensPage
  <1>2. Cardinality(pages) \in Nat /\ \A p \in pages : p \in Page /\ p.n <= Cardinality(pages)
    BY OpensPage
  <1>3. PICK b \in Browsers : b = page.browser
    BY <1>1 DEF Page
  <1>4. sessions \in [Browsers -> Session] /\ call \in [Calls -> Local]
    BY DEF ConnectInv, TypeOK
  <1>5. WithLink(call[c].link, page).user = page.user
    BY <1>1 DEF WithLink
  <1>6. page.since \in Nat /\ page.since <= Cardinality(pages) /\ CopyOK(call[c].link)
    BY <1>1 DEF LastInv, CopyOK, Page
  <1>7. OpenedIn(b)' = OpenedIn(b) \cup {page}
    BY <1>1, <1>3 DEF OpenedIn
  <1>8. \A x \in Browsers : x # b => sessions'[x] = sessions[x] /\ OpenedIn(x)' = OpenedIn(x)
    BY <1>1, <1>3, <1>4 DEF OpenedIn
  <1>9. \A p \in OpenedIn(b) : p.n \in Nat /\ p.since \in Nat /\ p.n <= Cardinality(pages)
    BY <1>2 DEF OpenedIn, Page
  <1>10. Cardinality(pages') \in Nat /\ Cardinality(pages) <= Cardinality(pages')
    <2>1. IsFiniteSet(pages)
      BY DEF ConnectInv, PagesOK
    <2>2. IsFiniteSet(pages')
      BY <1>1, <2>1, FS_AddElement
    <2> QED
      BY <1>1, <2>1, <2>2, FS_CardinalityType, FS_Subset
  <1>11. page.user = sessions'[b].user => Last(b, page)'
    BY <1>1, <1>2, <1>7, <1>9 DEF Last
  <1>12. ASSUME NEW p, sessions' = sessions, Last(b, p), p.n > page.since
         PROVE  Last(b, p)'
    BY <1>7, <1>12 DEF Last
  <1>13. \/ Last(b, page)'
         \/ /\ sessions' = sessions
            /\ \E p \in OpenedIn(b) : Last(b, p) /\ p.n > page.since
    <2>1. CASE sessions' = [sessions EXCEPT ![page.browser] = WithLink(call[c].link, page)]
      BY <1>3, <1>4, <1>5, <1>11, <2>1
    <2>2. CASE sessions' = sessions /\ WithLink(call[c].link, page) = call[c].link.session
      BY <1>1, <1>3, <1>5, <1>6, <1>11, <2>2 DEF CopyOK
    <2> QED
      BY <1>1, <2>1, <2>2
  <1>14. LastLinkWins'
    <2> SUFFICES ASSUME NEW x \in Browsers, sessions'[x].user # Nobody
                 PROVE  \E p \in OpenedIn(x)' : Last(x, p)'
      BY DEF LastLinkWins, Last
    <2>1. CASE x = b
      BY <1>7, <1>12, <1>13, <2>1
    <2>2. CASE x # b
      <3>1. PICK p \in OpenedIn(x) : Last(x, p)
        BY <1>8, <2>2 DEF LastInv, LastLinkWins, Last
      <3> QED
        BY <1>8, <2>2, <3>1 DEF Last
    <2> QED
      BY <2>1, <2>2
  <1>15. ASSUME NEW d \in Calls, IsLinking(d)' PROVE CopyOK(call[d].link)'
    <2>1. d # c /\ call'[d] = call[d] /\ IsLinking(d)
      BY <1>1, <1>4, <1>15 DEF IsLinking
    <2>2. PICK link \in Link : link = call[d].link
      BY <1>4, <2>1 DEF IsLinking, Local, Linking, Idle, Connecting, Creating, Linked, Called
    <2> SUFFICES CopyOK(link)'
      BY <2>1, <2>2 DEF CopyOK
    <2>3. CopyOK(link)
      BY <2>1, <2>2 DEF LastInv
    <2>4. link.browser \in Browsers /\ link.since \in Nat
      BY <2>2 DEF Link
    <2>5. link.since <= Cardinality(pages')
      BY <1>2, <1>10, <2>3, <2>4 DEF CopyOK
    <2>6. CASE link.browser # b
      <3>1. /\ sessions'[link.browser] = sessions[link.browser]
            /\ OpenedIn(link.browser)' = OpenedIn(link.browser)
        BY <1>8, <2>4, <2>6
      <3>2. \A p : Last(link.browser, p) => Last(link.browser, p)'
        BY <3>1 DEF Last
      <3> QED
        BY <2>3, <2>5, <3>1, <3>2 DEF CopyOK
    <2>7. CASE link.browser = b
      <3>1. CASE Last(b, page)'
        <4>1. page.n > link.since
          BY <1>1, <1>2, <2>3, <2>4 DEF CopyOK
        <4> QED
          BY <1>7, <2>5, <2>7, <3>1, <4>1 DEF CopyOK
      <3>2. ASSUME sessions' = sessions,
                   NEW p \in OpenedIn(b), Last(b, p), p.n > page.since
            PROVE  CopyOK(link)'
        <4>1. CASE sessions[b] = link.session
          BY <2>5, <2>7, <3>2, <4>1 DEF CopyOK
        <4>2. CASE sessions[b] # link.session
          <5>1. PICK q \in OpenedIn(b) : Last(b, q) /\ q.n > link.since
            BY <2>3, <2>7, <4>2 DEF CopyOK
          <5>2. PICK r \in OpenedIn(b) : Last(b, r) /\ r.n > link.since /\ r.n > page.since
            BY <1>6, <1>9, <2>4, <3>2, <5>1
          <5>3. Last(b, r)'
            BY <1>12, <3>2, <5>2
          <5> QED
            BY <1>7, <2>5, <2>7, <5>2, <5>3 DEF CopyOK
        <4> QED
          BY <4>1, <4>2
      <3> QED
        BY <1>13, <3>1, <3>2
    <2> QED
      BY <2>6, <2>7
  <1> QED
    BY <1>14, <1>15 DEF LastInv

LEMMA QuietLast ==
  ASSUME ConnectInv, LastInv, Quiet
  PROVE  LastInv'
  <1>1. \A b, p : Last(b, p) => Last(b, p)'
    BY DEF Quiet, Last, OpenedIn
  <1>2. LastLinkWins'
    BY DEF Quiet, LastInv, LastLinkWins, OpenedIn
  <1>3. ASSUME NEW d \in Calls, IsLinking(d)' PROVE CopyOK(call[d].link)'
    <2>1. CASE IsLinking(d) /\ call'[d].link = call[d].link
      BY <1>1, <2>1 DEF LastInv, CopyOK, Quiet, OpenedIn
    <2>2. CASE /\ call'[d].link.session = sessions[call'[d].link.browser]
               /\ call'[d].link.since = Cardinality(pages)
      <3>1. Cardinality(pages) \in Nat
        BY FS_CardinalityType DEF ConnectInv, PagesOK
      <3> QED
        BY <2>2, <3>1 DEF CopyOK, Quiet
    <2> QED
      BY <1>3, <2>1, <2>2 DEF Quiet
  <1> QED
    BY <1>2, <1>3 DEF LastInv

LEMMA InitLastInv == Init => LastInv
  BY DEF Init, LastInv, LastLinkWins, NewSession, IsLinking, Idle

LEMMA NextLastInv == ConnectInv /\ LastInv /\ [Next]_vars => LastInv'
  <1> SUFFICES ASSUME ConnectInv, LastInv, [Next]_vars PROVE LastInv'
    OBVIOUS
  <1>1. CASE Crash
    <2>1. \A b \in Browsers : sessions'[b].user = Nobody
      BY <1>1 DEF Crash, NewSession
    <2>2. \A d \in Calls : ~IsLinking(d)'
      BY <1>1 DEF Crash, IsLinking, Active, Free, Idle
    <2> QED
      BY <2>1, <2>2 DEF LastInv, LastLinkWins
  <1> QED
    BY <1>1, StepKinds, QuietLast, OpensLast

(* However links overlap, end or are lost in a crash, the user in a browser's *)
(* session is the user of a page opened there which every later page's link   *)
(* was requested before: an overwritten session never goes further back.      *)
THEOREM LastLinkStays == Spec => []LastLinkWins
  <1>1. LastInv => LastLinkWins
    BY DEF LastInv
  <1> QED
    BY <1>1, InitConnectInv, NextConnectInv, InitLastInv, NextLastInv, PTL DEF Spec

LEMMA QuietSecret ==
  ASSUME ConnectInv, SecretInv, Quiet, faults = 0, faults' = 0
  PROVE  SecretInv'
  <1>1. \A b, p : Superseded(b, p) => Superseded(b, p)'
    BY DEF Quiet, Superseded, OpenedIn
  <1>2. TwitterSecretKept'
    BY DEF Quiet, SecretInv, TwitterSecretKept, OpenedIn
  <1>3. ASSUME NEW d \in Calls, IsLinking(d)', NEW p \in OpenedIn(call'[d].link.browser),
               p.provider = "twitter", p.n <= call'[d].link.since
        PROVE  call'[d].link.session.secret = p.n \/ Superseded(call'[d].link.browser, p)
    <2>1. CASE IsLinking(d) /\ call'[d].link = call[d].link
      BY <1>3, <2>1 DEF SecretInv
    <2>2. CASE call'[d].link.session = sessions[call'[d].link.browser]
      <3>1. p \in pages /\ p.browser = call'[d].link.browser
        BY <1>3 DEF OpenedIn
      <3> QED
        BY <1>3, <2>2, <3>1 DEF SecretInv, TwitterSecretKept, Superseded
    <2> QED
      BY <1>3, <2>1, <2>2 DEF Quiet
  <1> QED
    BY <1>1, <1>2, <1>3 DEF SecretInv, Quiet, OpenedIn

LEMMA FaultsNeverForgotten ==
  ASSUME ConnectInv, [Next]_vars, faults' = 0
  PROVE  faults = 0
  <1>1. faults \in Nat
    BY DEF ConnectInv, TypeOK
  <1>2. \A c \in Calls : Arrive(c) => NoFault \/ Fault
    BY DEF Arrive, GenerateLink, ComeBack, Tweet, Succeeds
  <1>3. \A c \in Calls : FindConnected(c) \/ GenerateAuthLink(c) => NoFault \/ Fault
    BY DEF FindConnected, GenerateAuthLink, Succeeds
  <1>4. \A c \in Calls : Exchange(c) \/ UserInfo(c) \/ Create(c) => NoFault \/ Fault
    BY DEF Exchange, UserInfo, Create, Succeeds, Reports
  <1>5. NoFault \/ Fault
    BY <1>2, <1>3, <1>4 DEF Next, Proceed, Crash, vars, NoFault
  <1> QED
    BY <1>1, <1>5 DEF NoFault, Fault

LEMMA OpensSecret ==
  ASSUME ConnectInv, LastInv, SecretInv, NEW c \in Calls, IsLinking(c),
         Opens(c, call[c].link), faults = 0, faults' = 0
  PROVE  SecretInv'
  <1>1. PICK page \in Page :
          /\ page.n = Cardinality(pages) + 1
          /\ page.browser = call[c].link.browser /\ page.provider = call[c].link.provider
          /\ page.user = call[c].link.user /\ page.since = call[c].link.since
          /\ pages' = pages \cup {page}
          /\ \/ /\ WithLink(call[c].link, page) = call[c].link.session
                /\ sessions' = sessions
             \/ sessions' = [sessions EXCEPT ![page.browser] = WithLink(call[c].link, page)]
          /\ call' = [call EXCEPT ![c] = [pc |-> "done", status |-> "redirected"]]
    BY OpensPage
  <1>2. Cardinality(pages) \in Nat /\ \A p \in pages : p \in Page /\ p.n <= Cardinality(pages)
    BY OpensPage
  <1>3. PICK b \in Browsers : b = page.browser
    BY <1>1 DEF Page
  <1>4. sessions \in [Browsers -> Session] /\ call \in [Calls -> Local]
    BY DEF ConnectInv, TypeOK
  <1>5. PICK link \in Link : link = call[c].link
    BY <1>4 DEF IsLinking, Local, Linking, Idle, Connecting, Creating, Linked, Called
  <1>6. link.session \in Session /\ SessionOK(b, link.session)
    BY <1>1, <1>3, <1>5 DEF ConnectInv, CallOK, IsLinking, Link
  <1>7. link.session.secret # page.n
    <2>1. link.session.secret # NoSecret => \E p \in pages : p.n = link.session.secret
      BY <1>6 DEF SessionOK
    <2>2. link.session.secret \in Nat
      BY <1>6 DEF Session
    <2> QED
      BY <1>1, <1>2, <2>1, <2>2 DEF NoSecret
  <1>8. OpenedIn(b)' = OpenedIn(b) \cup {page}
    BY <1>1, <1>3 DEF OpenedIn
  <1>9. \A x : x # b => OpenedIn(x)' = OpenedIn(x)
    BY <1>1, <1>3 DEF OpenedIn
  <1>10. \A x \in Browsers : x # b => sessions'[x] = sessions[x]
    BY <1>1, <1>3, <1>4
  <1>11. \A p \in OpenedIn(b) : p \in pages /\ p.n \in Nat /\ p.n <= Cardinality(pages)
    BY <1>2 DEF OpenedIn, Page
  <1>12. \A x, p : Superseded(x, p) => Superseded(x, p)'
    BY <1>8, <1>9 DEF Superseded
  <1>13. ASSUME NEW p \in OpenedIn(b), page.provider = "twitter" \/ page.since < p.n
         PROVE  Superseded(b, p)'
    BY <1>1, <1>2, <1>8, <1>11, <1>13 DEF Superseded
  <1>14. ASSUME NEW p \in OpenedIn(b), p.provider = "twitter"
         PROVE  sessions'[b].secret = p.n \/ Superseded(b, p)'
    <2>1. CASE page.provider = "twitter" \/ page.since < p.n
      BY <1>13, <2>1
    <2>2. CASE page.provider # "twitter" /\ ~(page.since < p.n)
      <3>1. p.n <= link.since /\ link.browser = b
        BY <1>1, <1>3, <1>5, <1>11, <2>2 DEF Link
      <3>2. link.session.secret = p.n \/ Superseded(b, p)
        BY <1>5, <1>14, <3>1 DEF SecretInv
      <3>3. CASE sessions' = sessions
        <4>1. p \in pages /\ p.browser = b
          BY DEF OpenedIn
        <4>2. sessions[b].secret = p.n \/ Superseded(b, p)
          BY <1>14, <4>1 DEF SecretInv, TwitterSecretKept, Superseded
        <4> QED
          BY <1>12, <3>3, <4>2
      <3>4. CASE sessions' = [sessions EXCEPT ![page.browser] = WithLink(call[c].link, page)]
        <4>1. sessions'[b].secret = link.session.secret
          BY <1>1, <1>3, <1>4, <1>5, <2>2, <3>4 DEF WithLink
        <4> QED
          BY <1>12, <3>2, <4>1
      <3> QED
        BY <1>1, <3>3, <3>4
    <2> QED
      BY <2>1, <2>2
  <1>15. page.provider = "twitter" => sessions'[b].secret = page.n
    BY <1>1, <1>3, <1>4, <1>5, <1>7 DEF WithLink
  <1>16. TwitterSecretKept'
    <2> SUFFICES ASSUME NEW p \in pages', p.provider = "twitter"
                 PROVE  sessions'[p.browser].secret = p.n \/ Superseded(p.browser, p)'
      BY DEF TwitterSecretKept, Superseded
    <2>1. CASE p = page
      BY <1>3, <1>15, <2>1
    <2>2. CASE p \in pages /\ p.browser = b
      BY <1>14, <2>2 DEF OpenedIn
    <2>3. CASE p \in pages /\ p.browser # b
      <3>1. p.browser \in Browsers
        BY <1>2, <2>3 DEF Page
      <3>2. sessions[p.browser].secret = p.n \/ Superseded(p.browser, p)
        BY <2>3 DEF SecretInv, TwitterSecretKept, Superseded
      <3> QED
        BY <1>10, <1>12, <2>3, <3>1, <3>2
    <2> QED
      BY <1>1, <2>1, <2>2, <2>3
  <1>17. ASSUME NEW d \in Calls, IsLinking(d)',
                NEW p \in OpenedIn(call[d].link.browser)', p.provider = "twitter",
                p.n <= call'[d].link.since
         PROVE  \/ call'[d].link.session.secret = p.n
                \/ Superseded(call[d].link.browser, p)'
    <2>1. call'[d] = call[d] /\ IsLinking(d)
      BY <1>1, <1>4, <1>17 DEF IsLinking
    <2>2. CASE p \in OpenedIn(call[d].link.browser)
      <3>1. call[d].link.session.secret = p.n \/ Superseded(call[d].link.browser, p)
        BY <1>17, <2>1, <2>2 DEF SecretInv
      <3> QED
        BY <1>12, <2>1, <3>1
    <2>3. p # page
      <3>1. PICK copied \in Link : copied = call[d].link
        BY <1>4, <2>1 DEF IsLinking, Local, Linking, Idle, Connecting, Creating, Linked, Called
      <3>2. copied.since \in Nat /\ copied.since <= Cardinality(pages)
        BY <2>1, <3>1 DEF LastInv, CopyOK, Link
      <3> QED
        BY <1>1, <1>2, <1>17, <2>1, <3>1, <3>2
    <2> QED
      BY <1>8, <1>9, <1>17, <2>1, <2>2, <2>3
  <1> QED
    BY <1>16, <1>17 DEF SecretInv

(* Until something fails, the secret of a browser's last twitter link is in   *)
(* its session, however links and callbacks mix, unless a link requested      *)
(* before its page was opened has put an older copy of the session back.      *)
THEOREM SecretStays == Spec => []TwitterSecretKept
  <1>1. Init => SecretInv
    BY DEF Init, SecretInv, TwitterSecretKept, IsLinking, Idle
  <1>2. ConnectInv /\ LastInv /\ SecretInv /\ [Next]_vars => SecretInv'
    <2> SUFFICES ASSUME ConnectInv, LastInv, SecretInv, [Next]_vars, faults' = 0
                 PROVE  SecretInv'
      BY DEF SecretInv
    <2>1. faults \in Nat
      BY DEF ConnectInv, TypeOK
    <2>2. ~Crash
      BY <2>1 DEF Crash, Fault
    <2>3. faults = 0
      BY <2>1, FaultsNeverForgotten
    <2>4. CASE Quiet
      BY <2>3, <2>4, QuietSecret
    <2>5. ASSUME NEW c \in Calls, IsLinking(c), Opens(c, call[c].link) PROVE SecretInv'
      BY <2>3, <2>5, OpensSecret
    <2> QED
      BY <2>2, <2>4, <2>5, StepKinds
  <1>3. SecretInv => TwitterSecretKept
    BY DEF SecretInv, TwitterSecretKept
  <1> QED
    BY <1>1, <1>2, <1>3, InitConnectInv, NextConnectInv, InitLastInv, NextLastInv, PTL DEF Spec


-----------------------------------------------------------------------------
(* A callback that redirects without an error leaves the _id of its entity   *)
(* alone.  Twitter's failure is excused by what the callback holds when it   *)
(* asks: a secret of another link of its browser, or a page that another     *)
(* request has redeemed, as it has not itself.                               *)

SecretFrom(b, secret) ==
  secret # NoSecret => \E p \in OpenedIn(b) : p.n = secret /\ p.provider = "twitter"

IdLeftOrExcused(n, page) ==
  \/ [_id |-> n] \in collection
  \/ /\ page.provider = "twitter"
     /\ \/ \E r \in redeemed : r.page = page.n /\ r.by # n
        \/ \E q \in OpenedIn(page.browser) \ {page} : q.provider = "twitter"

(* A request that asks has not asked before, and numbers are not reused. *)
AsksOnce(callback) ==
  callback.n <= served /\ \A r \in redeemed : r.by # callback.n

ToldOK(local) ==
  /\ local.pc \in {"findConnected", "generateAuthLink"} =>
       SecretFrom(local.link.browser, local.link.session.secret)
  /\ local.pc = "exchange" => AsksOnce(local.callback)
  /\ local.pc = "exchange" /\ local.callback.page.provider = "twitter" =>
       /\ local.callback.secret # NoSecret
       /\ SecretFrom(local.callback.page.browser, local.callback.secret)
  /\ local.pc = "create" => local.entity._id = local.callback.n
  /\ faults = 0 /\ local.pc = "done" /\ local.status = "connected" =>
       IdLeftOrExcused(local.n, local.page)

StoredInv ==
  /\ \A b \in Browsers : SecretFrom(b, sessions[b].secret)
  /\ \A r \in redeemed : r.by <= served
  /\ \A c, d \in Calls :
       c # d /\ call[c].pc = "exchange" /\ call[d].pc = "exchange" =>
         call[c].callback.n # call[d].callback.n
  /\ \A c \in Calls : ToldOK(call[c])

(* What grows or stays keeps what a call was told. *)
LEMMA ToldKept ==
  ASSUME NEW r, ToldOK(r), pages \subseteq pages', redeemed \subseteq redeemed',
         collection \subseteq collection', served \in Nat, served' \in Nat, served <= served',
         faults' = 0 => faults = 0,
         r.pc = "exchange" => r.callback.n \in Nat,
         r.pc = "exchange" => \A x \in redeemed' \ redeemed : x.by # r.callback.n
  PROVE  ToldOK(r)'
  <1>1. \A b, secret : SecretFrom(b, secret) => SecretFrom(b, secret)'
    BY DEF SecretFrom, OpenedIn
  <1>2. \A n, page : IdLeftOrExcused(n, page) => IdLeftOrExcused(n, page)'
    BY DEF IdLeftOrExcused, OpenedIn
  <1>3. r.pc = "exchange" => AsksOnce(r.callback)'
    BY DEF ToldOK, AsksOnce
  <1> QED
    BY <1>1, <1>2, <1>3 DEF ToldOK

(* A step that serves the request in c.  What it redeems it redeems for that *)
(* request, and a request that begins to ask is a new one.                   *)
LEMMA ToldStep ==
  ASSUME ConnectInv, ConnectInv', StoredInv, NEW c \in Calls, NEW local, Becomes(c, local),
         ToldOK(local)', \A b \in Browsers : SecretFrom(b, sessions[b].secret)',
         pages \subseteq pages', collection \subseteq collection', served <= served',
         faults' = 0 => faults = 0,
         local.pc = "exchange" => local.callback.n > served,
         \/ redeemed' = redeemed
         \/ /\ call[c].pc = "exchange"
            /\ \E page : redeemed' = redeemed \cup {[page |-> page, by |-> call[c].callback.n]}
  PROVE  StoredInv'
  <1>1. \A d \in Calls : call'[d] = IF d = c THEN local ELSE call[d]
    BY DEF Becomes, ConnectInv, TypeOK
  <1>2. served \in Nat /\ served' \in Nat
    BY DEF ConnectInv, TypeOK
  <1>3. \A d \in Calls : call[d].pc = "exchange" =>
          call[d].callback.n \in Nat /\ call[d].callback.n <= served
    BY InCallback DEF StoredInv, ToldOK, AsksOnce
  <1>4. /\ redeemed \subseteq redeemed'
        /\ \A x \in redeemed' \ redeemed : call[c].pc = "exchange" /\ x.by = call[c].callback.n
    OBVIOUS
  <1>5. \A r \in redeemed' : r.by <= served'
    <2>1. \A r \in redeemed : r.by \in Nat /\ r.by <= served
      BY DEF StoredInv, ConnectInv, TypeOK
    <2>2. \A r \in redeemed' \ redeemed : r.by \in Nat /\ r.by <= served
      BY <1>3, <1>4
    <2> QED
      BY <1>2, <2>1, <2>2
  <1>6. ASSUME NEW d \in Calls, NEW e \in Calls, d # e,
               call'[d].pc = "exchange", call'[e].pc = "exchange"
        PROVE  call'[d].callback.n # call'[e].callback.n
    <2>1. CASE d # c /\ e # c
      BY <1>1, <1>6, <2>1 DEF StoredInv
    <2>2. CASE d = c
      BY <1>1, <1>2, <1>3, <1>6, <2>2
    <2>3. CASE e = c
      BY <1>1, <1>2, <1>3, <1>6, <2>3
    <2> QED
      BY <2>1, <2>2, <2>3
  <1>7. ASSUME NEW d \in Calls PROVE ToldOK(call[d])'
    <2>1. PICK r : r = call'[d]
      OBVIOUS
    <2>2. CASE d = c
      <3>1. call'[d] = local
        BY <1>1, <2>2
      <3> QED
        BY <3>1
    <2>3. CASE d # c
      <3>1. r = call[d] /\ ToldOK(r)
        BY <1>1, <2>1, <2>3 DEF StoredInv
      <3>2. r.pc = "exchange" =>
              r.callback.n \in Nat /\ \A x \in redeemed' \ redeemed : x.by # r.callback.n
        BY <1>3, <1>4, <2>3, <3>1 DEF StoredInv
      <3>3. ToldOK(r)'
        BY <1>2, <1>4, <3>1, <3>2, ToldKept
      <3> QED
        BY <2>1, <3>3
    <2> QED
      BY <2>2, <2>3
  <1> QED
    BY <1>5, <1>6, <1>7 DEF StoredInv

(* A request that ends without being told that it is connected. *)
LEMMA NotConnectedOK ==
  ASSUME NEW r, r.pc \in {"idle", "userInfo"} \/ (r.pc = "done" /\ r.status # "connected")
  PROVE  ToldOK(r)'
  BY DEF ToldOK

LEMMA SessionsKept ==
  ASSUME StoredInv, UNCHANGED <<pages, sessions>>
  PROVE  \A b \in Browsers : SecretFrom(b, sessions[b].secret)'
  BY DEF StoredInv, SecretFrom, OpenedIn

(* A request that ends without being told so and redeems nothing. *)
LEMMA EndedStored ==
  ASSUME ConnectInv, ConnectInv', StoredInv, NEW c \in Calls, NEW status, status # "connected",
         Answers(c, status) \/ (\E n, page : Redirects(c, n, page, status)),
         UNCHANGED <<pages, sessions, redeemed, collection>>, served <= served',
         faults' = 0 => faults = 0
  PROVE  StoredInv'
  <1>1. PICK local : /\ Becomes(c, local)
                     /\ local.pc = "done" /\ local.status = status
    <2>1. CASE Answers(c, status)
      <3>1. Becomes(c, [pc |-> "done", status |-> status])
        BY <2>1 DEF Answers
      <3> QED
        BY <3>1
    <2>2. ASSUME NEW n, NEW page, Redirects(c, n, page, status)
          PROVE  \E local : Becomes(c, local) /\ local.pc = "done" /\ local.status = status
      <3>1. Becomes(c, [pc |-> "done", n |-> n, page |-> page, status |-> status])
        BY <2>2 DEF Redirects
      <3> QED
        BY <3>1
    <2> QED
      BY <2>1, <2>2
  <1>2. ToldOK(local)'
    BY <1>1, NotConnectedOK
  <1> QED
    BY <1>1, <1>2, SessionsKept, ToldStep

LEMMA LinkTypes ==
  ASSUME ConnectInv, NEW c \in Calls, IsLinking(c)
  PROVE  call[c].link \in Link /\ call[c].link.browser \in Browsers
  BY DEF IsLinking, ConnectInv, TypeOK, Local, Linking, Idle, Connecting, Creating, Linked, Called,
         Link

(* The secret a link leaves in the session is its page's, or the one that    *)
(* its copy of the session held.                                             *)
LEMMA OpensStored ==
  ASSUME ConnectInv, ConnectInv', StoredInv, NEW c \in Calls, IsLinking(c), Opens(c, call[c].link),
         UNCHANGED <<redeemed, collection, served>>, faults' = 0 => faults = 0
  PROVE  StoredInv'
  <1>1. PICK page \in Page :
          /\ page.n = Cardinality(pages) + 1
          /\ page.browser = call[c].link.browser /\ page.provider = call[c].link.provider
          /\ page.user = call[c].link.user /\ page.since = call[c].link.since
          /\ pages' = pages \cup {page}
          /\ \/ /\ WithLink(call[c].link, page) = call[c].link.session
                /\ sessions' = sessions
             \/ sessions' = [sessions EXCEPT ![page.browser] = WithLink(call[c].link, page)]
          /\ call' = [call EXCEPT ![c] = [pc |-> "done", status |-> "redirected"]]
    BY OpensPage
  <1>2. \A b, secret : SecretFrom(b, secret) => SecretFrom(b, secret)'
    BY <1>1 DEF SecretFrom, OpenedIn
  <1>3. SecretFrom(page.browser, call[c].link.session.secret)
    BY <1>1 DEF StoredInv, ToldOK, IsLinking
  <1>4. PICK kept : kept = WithLink(call[c].link, page)
    OBVIOUS
  <1>5. SecretFrom(page.browser, kept.secret)'
    <2>1. CASE call[c].link.provider = "twitter"
      <3>1. kept.secret = page.n
        BY <1>4, <2>1 DEF WithLink
      <3>2. page \in OpenedIn(page.browser)' /\ page.provider = "twitter"
        BY <1>1, <2>1 DEF OpenedIn
      <3> QED
        BY <3>1, <3>2 DEF SecretFrom
    <2>2. CASE call[c].link.provider # "twitter"
      <3>1. kept.secret = call[c].link.session.secret
        BY <1>4, <2>2 DEF WithLink
      <3>2. SecretFrom(page.browser, kept.secret)
        BY <1>3, <3>1
      <3> QED
        BY <1>2, <3>2
    <2> QED
      BY <2>1, <2>2
  <1>6. ASSUME NEW b \in Browsers PROVE SecretFrom(b, sessions[b].secret)'
    <2>1. sessions \in [Browsers -> Session]
      BY DEF ConnectInv, TypeOK
    <2>2. PICK session : session = sessions'[b]
      OBVIOUS
    <2>3. session = sessions[b] \/ (b = page.browser /\ session = kept)
      BY <1>1, <1>4, <2>1, <2>2
    <2>4. SecretFrom(b, session.secret)'
      BY <1>2, <1>5, <2>3 DEF StoredInv
    <2> QED
      BY <2>2, <2>4
  <1>7. PICK local : local = [pc |-> "done", status |-> "redirected"]
    OBVIOUS
  <1>8. ToldOK(local)'
    BY <1>7, NotConnectedOK
  <1>9. Becomes(c, local) /\ local.pc # "exchange"
    BY <1>1, <1>7 DEF Becomes
  <1>10. served <= served'
    BY DEF ConnectInv, TypeOK
  <1> QED
    BY <1>1, <1>6, <1>8, <1>9, <1>10, ToldStep

LEMMA LinkStored ==
  ASSUME ConnectInv, ConnectInv', StoredInv, NEW c \in Calls,
         GenerateLink(c) \/ FindConnected(c) \/ GenerateAuthLink(c), faults' = 0 => faults = 0
  PROVE  StoredInv'
  <1>1. served \in Nat /\ served <= served' /\ UNCHANGED <<redeemed, collection>>
    BY DEF ConnectInv, TypeOK, GenerateLink, FindConnected, GenerateAuthLink, Starts
  <1>2. ASSUME NEW local, Becomes(c, local), UNCHANGED <<pages, sessions>>,
               local.pc \in {"findConnected", "generateAuthLink"},
               SecretFrom(local.link.browser, local.link.session.secret)
        PROVE  StoredInv'
    <2>1. ToldOK(local)'
      BY <1>2 DEF ToldOK, SecretFrom, OpenedIn
    <2> QED
      BY <1>1, <1>2, <2>1, SessionsKept, ToldStep
  <1>3. ASSUME GenerateLink(c) PROVE StoredInv'
    <2>1. PICK browser \in Browsers, provider \in Providers, user \in Users, found \in BOOLEAN :
            /\ NoFault
            /\ \/ ~found /\ Answers(c, "unauthorised")
               \/ /\ found
                  /\ Becomes(c, [pc |-> "findConnected",
                                 link |-> [n |-> served', browser |-> browser,
                                           provider |-> provider, user |-> user,
                                           session |-> sessions[browser],
                                           since |-> Cardinality(pages)]])
      BY <1>3 DEF GenerateLink
    <2>2. UNCHANGED <<pages, sessions>>
      BY <1>3 DEF GenerateLink
    <2>3. CASE Answers(c, "unauthorised")
      BY <1>1, <2>2, <2>3, EndedStored
    <2>4. CASE Becomes(c, [pc |-> "findConnected",
                           link |-> [n |-> served', browser |-> browser, provider |-> provider,
                                     user |-> user, session |-> sessions[browser],
                                     since |-> Cardinality(pages)]])
      <3>1. SecretFrom(browser, sessions[browser].secret)
        BY DEF StoredInv
      <3> QED
        BY <1>2, <2>2, <2>4, <3>1
    <2> QED
      BY <2>1, <2>3, <2>4
  <1>4. ASSUME FindConnected(c) \/ GenerateAuthLink(c) PROVE StoredInv'
    <2>1. IsLinking(c) /\ served' = served
      BY <1>4 DEF FindConnected, GenerateAuthLink, IsLinking
    <2>2. \/ Opens(c, call[c].link)
          \/ /\ Answers(c, "badRequest") \/ Answers(c, "serverError")
             /\ UNCHANGED <<pages, sessions>>
          \/ /\ Becomes(c, [pc |-> "generateAuthLink", link |-> call[c].link])
             /\ UNCHANGED <<pages, sessions>>
      BY <1>4 DEF FindConnected, GenerateAuthLink
    <2>3. CASE Opens(c, call[c].link)
      BY <1>1, <2>1, <2>3, OpensStored
    <2>4. CASE /\ Answers(c, "badRequest") \/ Answers(c, "serverError")
               /\ UNCHANGED <<pages, sessions>>
      BY <1>1, <2>4, EndedStored
    <2>5. CASE /\ Becomes(c, [pc |-> "generateAuthLink", link |-> call[c].link])
               /\ UNCHANGED <<pages, sessions>>
      <3>1. SecretFrom(call[c].link.browser, call[c].link.session.secret)
        BY <2>1 DEF StoredInv, ToldOK, IsLinking
      <3> QED
        BY <1>2, <2>5, <3>1
    <2> QED
      BY <2>2, <2>3, <2>4, <2>5
  <1> QED
    BY <1>3, <1>4

LEMMA ComeBackStored ==
  ASSUME ConnectInv, ConnectInv', StoredInv, NEW c \in Calls, ComeBack(c), faults' = 0 => faults = 0
  PROVE  StoredInv'
  <1>1. PICK page \in pages :
          \/ Redirects(c, served', page, "error")
          \/ /\ Usable(page, sessions[page.browser])
             /\ Becomes(c, [pc |-> "exchange",
                            callback |-> [n |-> served', page |-> page,
                                          secret |-> sessions[page.browser].secret,
                                          user |-> sessions[page.browser].user]])
    BY DEF ComeBack
  <1>2. UNCHANGED <<sessions, pages, redeemed, collection>> /\ served' = served + 1
    BY DEF ComeBack, Starts
  <1>3. /\ served \in Nat /\ served < served' /\ served <= served'
        /\ page.browser \in Browsers /\ \A r \in redeemed : r.by \in Nat
    BY <1>2 DEF ConnectInv, TypeOK, Page
  <1>4. CASE Redirects(c, served', page, "error")
    BY <1>2, <1>3, <1>4, EndedStored
  <1>5. ASSUME Usable(page, sessions[page.browser]),
               NEW callback, callback.n = served', callback.page = page,
               callback.secret = sessions[page.browser].secret,
               Becomes(c, [pc |-> "exchange", callback |-> callback])
        PROVE  StoredInv'
    <2> DEFINE local == [pc |-> "exchange", callback |-> callback]
    <2>1. local.pc = "exchange" /\ local.callback = callback
      OBVIOUS
    <2>2. Becomes(c, local)
      BY <1>5
    <2> HIDE DEF local
    <2>3. AsksOnce(callback)'
      BY <1>2, <1>3, <1>5 DEF AsksOnce, StoredInv
    <2>4. callback.page.provider = "twitter" => callback.secret # NoSecret
      BY <1>5 DEF Usable
    <2>5. SecretFrom(callback.page.browser, callback.secret)
      BY <1>3, <1>5 DEF StoredInv
    <2>6. ToldOK(local)'
      BY <1>2, <2>1, <2>3, <2>4, <2>5 DEF ToldOK, SecretFrom, OpenedIn
    <2>7. local.callback.n > served
      BY <1>3, <1>5, <2>1
    <2> QED
      BY <1>2, <1>3, <2>2, <2>6, <2>7, SessionsKept, ToldStep
  <1> QED
    BY <1>1, <1>4, <1>5

(* Without an error of its own, Twitter refuses a secret that is another     *)
(* link's, or a page that another request has redeemed.                      *)
LEMMA RefusalExcused ==
  ASSUME ConnectInv, StoredInv, NEW c \in Calls, call[c].pc = "exchange",
         call[c].callback.page.provider = "twitter", ~Redeemable(call[c].callback)
  PROVE  IdLeftOrExcused(call[c].callback.n, call[c].callback.page)
  <1>1. PICK callback : callback = call[c].callback
    OBVIOUS
  <1>2. /\ AsksOnce(callback) /\ callback.secret # NoSecret
        /\ SecretFrom(callback.page.browser, callback.secret)
    BY <1>1 DEF StoredInv, ToldOK
  <1>3. CASE callback.secret # callback.page.n
    <2>1. PICK p \in OpenedIn(callback.page.browser) :
            p.n = callback.secret /\ p.provider = "twitter"
      BY <1>2 DEF SecretFrom
    <2> QED
      BY <1>1, <1>3, <2>1 DEF IdLeftOrExcused
  <1>4. CASE \E r \in redeemed : r.page = callback.page.n
    BY <1>1, <1>2, <1>4 DEF IdLeftOrExcused, AsksOnce
  <1> QED
    BY <1>1, <1>3, <1>4 DEF Redeemable

LEMMA ExchangeStored ==
  ASSUME ConnectInv, ConnectInv', StoredInv, NEW c \in Calls, Exchange(c), faults' = 0 => faults = 0
  PROVE  StoredInv'
  <1>1. PICK callback \in Callback : callback = call[c].callback
    BY InCallback DEF Exchange
  <1>2. /\ UNCHANGED <<sessions, pages, collection, served>>
        /\ served <= served' /\ faults \in Nat /\ call[c].pc = "exchange"
    BY DEF Exchange, ConnectInv, TypeOK
  <1>3. \/ redeemed' = redeemed
        \/ \E page : redeemed' = redeemed \cup {[page |-> page, by |-> call[c].callback.n]}
    BY DEF Exchange
  <1>4. ASSUME NEW local, Becomes(c, local), local.pc # "exchange", ToldOK(local)'
        PROVE  StoredInv'
    BY <1>2, <1>3, <1>4, SessionsKept, ToldStep
  <1>5. CASE Becomes(c, [pc |-> "userInfo", callback |-> callback])
    <2>1. PICK local : local = [pc |-> "userInfo", callback |-> callback]
      OBVIOUS
    <2>2. ToldOK(local)' /\ local.pc # "exchange"
      BY <2>1, NotConnectedOK
    <2> QED
      BY <1>4, <1>5, <2>1, <2>2
  <1>6. CASE Redirects(c, callback.n, callback.page, OnFailure(callback.page.provider))
    <2>1. PICK local : local = [pc |-> "done", n |-> callback.n, page |-> callback.page,
                                status |-> OnFailure(callback.page.provider)]
      OBVIOUS
    <2>2. Becomes(c, local) /\ local.pc # "exchange"
      BY <1>6, <2>1 DEF Redirects
    <2>3. \/ faults' # 0
          \/ NoFault /\ UNCHANGED redeemed /\ ~Redeemable(callback)
      <3>1. Fault => faults' # 0
        BY <1>2 DEF Fault
      <3>2. ~Becomes(c, [pc |-> "userInfo", callback |-> callback])
        BY <1>1, <1>2, <1>6 DEF Redirects, Becomes, ConnectInv, TypeOK
      <3> QED
        BY <1>1, <3>1, <3>2 DEF Exchange
    <2>4. callback.page.provider # "twitter" => OnFailure(callback.page.provider) # "connected"
      BY DEF OnFailure
    <2>5. ASSUME faults' = 0, callback.page.provider = "twitter"
          PROVE  IdLeftOrExcused(callback.n, callback.page)'
      <3>1. IdLeftOrExcused(callback.n, callback.page)
        BY <1>1, <1>2, <2>3, <2>5, RefusalExcused
      <3> QED
        BY <1>2, <2>3, <2>5, <3>1 DEF IdLeftOrExcused, OpenedIn
    <2>6. ToldOK(local)'
      BY <2>1, <2>4, <2>5 DEF ToldOK
    <2> QED
      BY <1>4, <2>2, <2>6
  <1> QED
    BY <1>1, <1>5, <1>6 DEF Exchange

LEMMA UserInfoStored ==
  ASSUME ConnectInv, ConnectInv', StoredInv, NEW c \in Calls, UserInfo(c), faults' = 0 => faults = 0
  PROVE  StoredInv'
  <1>1. PICK callback \in Callback : callback = call[c].callback
    BY InCallback DEF UserInfo
  <1>2. /\ UNCHANGED <<sessions, pages, redeemed, collection, served>>
        /\ served <= served' /\ faults \in Nat
    BY DEF UserInfo, ConnectInv, TypeOK
  <1>3. ASSUME NEW local, Becomes(c, local), local.pc # "exchange", ToldOK(local)'
        PROVE  StoredInv'
    BY <1>2, <1>3, SessionsKept, ToldStep
  <1>4. CASE Becomes(c, [pc |-> "create", callback |-> callback, entity |-> EntityOf(callback)])
    <2>1. PICK local : local = [pc |-> "create", callback |-> callback,
                                entity |-> EntityOf(callback)]
      OBVIOUS
    <2>2. ToldOK(local)' /\ local.pc # "exchange"
      BY <2>1 DEF ToldOK, EntityOf
    <2> QED
      BY <1>3, <1>4, <2>1, <2>2
  <1>5. CASE /\ Fault
             /\ Redirects(c, callback.n, callback.page, OnFailure(callback.page.provider))
    <2>1. PICK local : local = [pc |-> "done", n |-> callback.n, page |-> callback.page,
                                status |-> OnFailure(callback.page.provider)]
      OBVIOUS
    <2>2. faults' # 0
      BY <1>2, <1>5 DEF Fault
    <2>3. ToldOK(local)'
      BY <2>1, <2>2 DEF ToldOK
    <2> QED
      BY <1>3, <1>5, <2>1, <2>3 DEF Redirects
  <1> QED
    BY <1>1, <1>4, <1>5 DEF UserInfo, Succeeds

(* The document of the entity has its id, which is the request's. *)
LEMMA CreateStored ==
  ASSUME ConnectInv, ConnectInv', StoredInv, NEW c \in Calls, Create(c), faults' = 0 => faults = 0
  PROVE  StoredInv'
  <1>1. PICK local : local = [pc |-> "done", n |-> call[c].callback.n,
                              page |-> call[c].callback.page, status |-> "connected"]
    OBVIOUS
  <1>2. /\ UNCHANGED <<sessions, pages, redeemed, served>>
        /\ served <= served' /\ faults \in Nat /\ collection \subseteq collection'
        /\ Becomes(c, local) /\ local.pc # "exchange"
    BY <1>1 DEF Create, ConnectInv, TypeOK, Redirects
  <1>3. PICK entity \in Entity : entity = call[c].entity
    BY DEF Create, ConnectInv, TypeOK, Local, Linking, Idle, Connecting, Creating, Linked, Called
  <1>4. AsStored(entity) = [_id |-> entity._id]
    BY <1>3 DEF AsStored, Restrict, SchemaFields, Entity
  <1>5. entity._id = call[c].callback.n
    BY <1>3 DEF Create, StoredInv, ToldOK
  <1>6. faults' = 0 => AsStored(entity) \in collection'
    <2>1. Fault => faults' # 0
      BY <1>2 DEF Fault
    <2> QED
      BY <1>3, <2>1 DEF Create, Reports
  <1>7. faults' = 0 => IdLeftOrExcused(local.n, local.page)'
    BY <1>1, <1>4, <1>5, <1>6 DEF IdLeftOrExcused
  <1>8. ToldOK(local)'
    BY <1>1, <1>7 DEF ToldOK
  <1> QED
    BY <1>2, <1>8, SessionsKept, ToldStep

LEMMA TweetStored ==
  ASSUME ConnectInv, ConnectInv', StoredInv, NEW c \in Calls, Tweet(c), faults' = 0 => faults = 0
  PROVE  StoredInv'
  <1>1. \E status \in {"tweeted", "unauthorised"} : Answers(c, status)
    BY DEF Tweet
  <1>2. UNCHANGED <<sessions, pages, redeemed, collection>> /\ served <= served'
    BY DEF Tweet, Starts, ConnectInv, TypeOK
  <1> QED
    BY <1>1, <1>2, EndedStored

LEMMA CrashStored ==
  ASSUME ConnectInv, StoredInv, Crash
  PROVE  StoredInv'
  <1>1. UNCHANGED <<redeemed, served>> /\ faults' # 0
    BY DEF Crash, Fault, ConnectInv, TypeOK
  <1>2. \A b \in Browsers : SecretFrom(b, sessions[b].secret)'
    BY DEF Crash, SecretFrom, NewSession
  <1>3. \A c \in Calls : call'[c].pc \in {"idle", "done"}
    BY DEF Crash, Active, Free, Idle
  <1>4. \A c \in Calls : ToldOK(call[c])'
    BY <1>1, <1>3 DEF ToldOK
  <1> QED
    BY <1>1, <1>2, <1>3, <1>4 DEF StoredInv

LEMMA NextStoredInv == ConnectInv /\ ConnectInv' /\ StoredInv /\ [Next]_vars => StoredInv'
  <1> SUFFICES ASSUME ConnectInv, ConnectInv', StoredInv, [Next]_vars PROVE StoredInv'
    OBVIOUS
  <1>1. faults' = 0 => faults = 0
    BY FaultsNeverForgotten
  <1>2. CASE UNCHANGED vars
    BY <1>2 DEF vars, StoredInv, ToldOK, AsksOnce, SecretFrom, IdLeftOrExcused, OpenedIn
  <1>3. CASE Crash
    BY <1>3, CrashStored
  <1>4. ASSUME NEW c \in Calls, Arrive(c) PROVE StoredInv'
    BY <1>1, <1>4, LinkStored, ComeBackStored, TweetStored DEF Arrive
  <1>5. ASSUME NEW c \in Calls, Proceed(c) PROVE StoredInv'
    BY <1>1, <1>5, LinkStored, ExchangeStored, UserInfoStored, CreateStored DEF Proceed
  <1> QED
    BY <1>2, <1>3, <1>4, <1>5 DEF Next

(* Until something fails, a callback that redirects without an error has left *)
(* a document with an _id of its own and no other field: the user, the        *)
(* provider and the tokens are lost, since UserProfileSchema names none of    *)
(* them.  It has left nothing only if Twitter refused the secret of a link    *)
(* that another one of the browser replaced, or a page that another request   *)
(* redeemed.                                                                  *)
THEOREM ConnectedAccountsLoseAllButId == Spec => []ConnectedKeepsOnlyId
  <1>1. Init => StoredInv
    BY DEF Init, StoredInv, ToldOK, SecretFrom, NewSession, Idle
  <1>2. ConnectInv /\ StoredInv => ConnectedKeepsOnlyId
    <2> SUFFICES ASSUME ConnectInv, StoredInv, faults = 0, NEW c \in Calls,
                        call[c].pc = "done", call[c].status = "connected"
                 PROVE  \/ {d \in collection : d._id = call[c].n} = {[_id |-> call[c].n]}
                        \/ /\ call[c].page.provider = "twitter"
                           /\ \/ \E r \in redeemed : r.page = call[c].page.n /\ r.by # call[c].n
                              \/ \E q \in OpenedIn(call[c].page.browser) \ {call[c].page} :
                                   q.provider = "twitter"
      BY DEF ConnectedKeepsOnlyId
    <2>1. IdLeftOrExcused(call[c].n, call[c].page)
      BY DEF StoredInv, ToldOK
    <2>2. \A d \in collection : d = [_id |-> d._id]
      BY DEF ConnectInv, TypeOK, SchemaFields
    <2>3. [_id |-> call[c].n] \in collection =>
            {d \in collection : d._id = call[c].n} = {[_id |-> call[c].n]}
      BY <2>2
    <2> QED
      BY <2>1, <2>3 DEF IdLeftOrExcused
  <1> QED
    BY <1>1, <1>2, InitConnectInv, NextConnectInv, NextStoredInv, PTL DEF Spec
=============================================================================
