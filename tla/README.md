# A verification model of nest-mongodb

The repository is a NestJS service over MongoDB: accounts, sessions and social
links behind an HTTP API, with providers for Google Cloud Storage, Calendar and
Gmail and a socket adaptor beside it. This directory holds TLA+ models of its
own logic, translated from the code under `src/src/`, the TLC configurations that
check them on small instances, and proofs that TLAPS checks for every instance.

## 1. Inventory

### How the parts run together

One Node process serves all calls. A handler runs alone from one `await` to the
next; at every `await` on the database, a provider or another service the other
calls may run. Nothing is locked, no transaction and no unique index is used, so
everything a handler knows from before an `await` may be stale after it. State
that outlives a call: the MongoDB collections `users`, `userProfiles` and
`refreshtoken`, the browser session (express-session, in memory), and what the
Google services keep.

| Part | State | Operations | Talks to |
|---|---|---|---|
| Accounts and sessions, `auth/services/auth.service.ts` 125-415 | the three collections; tokens in clients' hands | `register`, `login`, `refresh`, `verify`, `generateTokenForServerAccess` | the repositories, the JWT service, the clock |
| Guards, `common/guards` | none of their own; fields set on the request | `RolesGuard`, `AuthGuard`, `ServerAccessGuard` | `verify`, `_getUserRoles` |
| Profile updates, `auth/users.service.ts` | `users`, `userProfiles` | `updateUserInfo`, `personalData`, `findAll`, `updateWaitingList`, `getConnectedAccounts` | the repositories |
| Connected accounts, `auth.service.ts` 417-989 | the collection of connected accounts, the browser session | link and callback of Twitter, Google, LinkedIn, Facebook, Instagram; `tweet`, `googleDisconnect` | the OAuth providers |
| Storage, `common/gcp/storage` | the bucket | `uploadFile`, `deleteFile`, `moveFile`, `generateFileUrl`, ... | Google Cloud Storage |
| Calendar and mail, `common/gcp/calendar`, `common/gcp/mail` | the client of the last resource, events | `addAttendee`, `removeAttendee`, `createEvent`, ...; `sendMessage`, `updateLabels`, batches | Google Calendar, Gmail |
| Socket adaptor, `common/adapters/socket.adaptor.ts` and `socket-connection/` | the back end's connection id and authorisation, on each client's socket; the shared server | `of`, `sendEventToClient`, `sendEventToServer`, `sendEventsToServer`; connect, disconnect | socket.io (the module is not imported by `AppModule`) |
| Pure utilities, `common/utils`, `common/models` | none | transposition cipher, push-token splitter, hash, batches, pagination | - |
| Bootstrap, logger, interceptors, filters, DTOs | set once at start | - | the framework |

### What is hard

- *Check, then act*: `register` looks for a duplicate and inserts some awaits
  later; `updateUserInfo` reads, copies and overwrites two documents; the storage
  provider asks whether a file exists before it acts.
- *Swallowed errors*: most repository methods answer an error with `null` or
  `[]`, which their callers take for "there is none" or do not look at.
- *Several writes, no transaction*: profile, account and refresh token are three
  inserts; a failure or a crash may fall between any two, and an insert may be
  stored although an error is reported.
- *Two clocks*: a refresh token expires by its JWT claim, counted in seconds, and
  by its document, counted in calendar days of local time.
- *State that requests share in the process*: one browser session for the links of
  all providers, of which each request has a copy that is saved whole; one client
  field in each Google provider; a socket that several adaptors write on.
- *Two calls where one is meant*: a move of a file is a copy and a delete, the
  removal of an attendee a read and a write of the list.
- *Identity by address*: `verify` trusts the `email` claim and looks the account
  up by it, and `register` and `refresh` put another value there.

### What makes each part correct

- Accounts: no account that was there when a registration began is duplicated; an
  account refers to no profile or to a stored one of its own; nothing is left
  behind unless something failed.
- Sessions: a session stays with the account it was opened for, through every
  refresh and every failure; a token is accepted for its own account; a refresh
  token that was answered can be redeemed until it expires or the account logs in
  again; every call is answered.
- Guards: a request that passes acts for the account of its token, or one that
  shares its address; a role is granted only where one of these has it.
- Profile updates: an update undoes only fields written by an update it overlaps;
  both documents come from the same update, unless two overlap or a step fails.
- Connected accounts: a callback connects somebody for whom a link was opened in the
  same browser, and only with the consent its secret belongs to; what the browser is
  told of agrees with what is kept. It does not: of an account whose connection
  succeeded the database keeps an `_id` and nothing else.
- Storage: an upload lies where look-ups of its folder and name search; a move loses
  nothing but what an overlapping request changed, and one that reports success has
  moved; an error has a cause.
- Calendar and mail: a removal acts on the account it was called for, whoever else
  uses the provider, and removes the one attendee.
- Sockets: an event reaches those it names and nobody else; a connection keeps one id.
- Utilities: what is encrypted is decrypted again, at every length; the hash is the
  polynomial it approximates by shifts; batches and pages neither lose nor repeat.

## 2. The modules

**`AuthService`** models `register`, `login`, `refresh`, `verify` and
`generateTokenForServerAccess`, with the repository methods they call. Its
variables are the three collections, a generator of fresh ids (ObjectIds and
session ids: both are unique and increase), the clock, the calls being served and
the tokens clients have been answered.

- One action is one segment of a handler: the database answers the last `await`
  and the handler runs on to the next. `call[c]` holds the local variables the
  rest of the handler still needs, typed by segment (`Local`), with `pc` naming the
  `await` it is in. Arrival and the first answer are one action, as nothing shared is
  touched between them.
- A token is a record of its claims: two tokens signed in the same second with the
  same claims are the same string, and the same record. The claims `email` and
  `id` hold what the code puts there, swapped in `register` and `refresh`.
- A read may fail (`FindOne`): the repositories turn that into "nobody". An insert
  (`Writes`, `Insert`) is acknowledged, refused, or stored although an error is
  reported; the user repository throws, the other two return null.
- `Crash` drops the calls being served and keeps the collections.
- The document of a refresh token is inserted (`SaveRefreshToken`) and the call answered
  (`AnswerTokens`) in two actions, so a crash may fall between them.
- `findByUserId` asks for a field `_user` that no document has and populates a path
  the schema lacks, so it always answers `[]`; `remove` of an array does nothing.
  `LoginRemoveTokens` is that no-op.
- Two things in `call[c]` are there only for properties: `mark`, the newest id when
  a registration began to look for duplicates, and `blind`, the checks that were
  answered by an error.

Definitions marked "Mutant" are the forms a plausible mistake would give the
definition after them; each property is shown to catch one.

**`SessionDirectory`** is what the handlers promise, without calls, tokens or
database: accounts are only added; a session is opened once, for an account that
exists. `AuthService` implements it (`ImplementsDirectory`) under the mapping
"an account is its id; a session is held by whom a stored document or a token
handed out names".

**`GuardedRequests`** models a request to the users' endpoints on its whole way:
`RolesGuard`, `AuthGuard`, the validation pipe, then `updateUserInfo`. Its
variables are the accounts, the two documents of each, the clock and the requests
being served.

- The token is decoded and its account looked up twice, by either guard, and the
  role is read by id in between. A PATCH asks for no role, so its first guard passes
  at once, and the second begins in the same action.
- `updateUserInfo` is four actions: read the account, read the profile, write the
  account, write the profile. What is written is the copy made from the reads with
  the fields of the body set (`UserEntity`, `ProfileEntity`). The address, user name,
  password and reference to the profile are written back as read, the role is not in
  the update, and nothing else changes them: the address and role are kept in
  `accounts`, the others, `updatedAt` and `version` are left out.
- A value of a field is the number of the request that gave it, `AsRegistered` or
  `Undefined`. A field the read does not select (`createdAt`) is made anew by the
  builder, and mongoose drops keys that are undefined from an update (`Update`).
  The picture is copied under `if (req.website)`: given alone it is ignored, and a
  website alone drops the copy of the old picture from the update, which keeps it.
- Behind the guards the global pipe validates the input against the class the
  handler declares, and a PATCH whose fields break its rules is answered 400. It calls
  class-validator without options, which refuses an object whose class states no rule:
  routes that take the bare `BaseRequest` (`findAll`, `personalData`,
  `googleDisconnect`) answer 400 to every request that passed (`Validates`), so the
  handlers behind them are not modelled.
- `overlapped`, the pairs of requests that were served at one time, is there only
  for properties.
- It stands beside `AuthService`, not on top of it: its accounts and tokens are any
  that registrations, logins and refreshes can leave (`Init`, `Signed`), duplicate
  addresses and swapped claims included.

**`ConnectedAccounts`** models the links and callbacks of Twitter and Google, and
`tweet`. Its variables are the browsers' sessions, the consent pages the links have
opened, what the providers have redeemed, the entities the callbacks build, the
collection they are stored in, and the requests being served.

- Both providers are one set of actions: the handlers differ where `provider` is
  looked at. A link is `GenerateLink` (session and user), `FindConnected` and, for
  Twitter, `GenerateAuthLink`; a callback is `ComeBack`, `Exchange`, `UserInfo` and
  `Create`.
- express-session gives a request a copy of the session when it arrives and saves
  the whole copy when it ends, if it was changed (`Opens`). The secret of Twitter's
  link and the user's id are all that a session holds.
- A provider redeems a consent once, Twitter only with the secret of its own link
  (`Redeemable`). Its answer may be lost after that. A page may come back again.
- The model of connected accounts is registered with `UserProfileSchema`, so mongoose
  stores neither `user` nor `socialMedia` nor a token, in the collection `userProfiles`
  (`SchemaFields`, `AsStored`): of a connected account only the `_id` is kept, and a
  look-up by the other fields finds nothing. The entities, `built`, are kept beside the
  documents to say what was meant.
- `Crash` empties the sessions too: the store is in memory.

**`FileStorage`** models every method of the storage provider. A path is a folder,
perhaps empty, and a file; `UploadPath` is the one of uploads, which keeps the slash
of an empty folder, `FilePath` that of look-ups; a look-up reaches such an object only if the
file name it is given begins with the slash. An object is the upload its content comes
from, with the requests that set its metadata and its ACL. The first call of
the bucket is part of a request's arrival; `hasFile` then leads to a read, a delete or
an answer. `moveFile` is `CopyFile`, `MoveHasFile`, `Delete`.

**`GoogleServices`** models both Google providers, each an object with one client
that every request replaces. All methods but one are one call, part of the arrival;
`removeAttendee` is `RemoveAttendee` (read) and `PatchAttendees` (write of the list it
read). The calendars and mailboxes are external, and behave as the calls assume.

**`SocketEvents`** models the socket adaptor with the gateway and service that use
it. An adaptor is the server and client it captured; the connection's id and its
authorisation are on the socket, shared by all its adaptors. Nothing awaits, so a
method is one action. `Receivers` are those an event goes to and `AnswerOf` what the
method returns; the two are separate because the code's answer often ignores the first.

**`Utilities`** gives the pure functions as operators, written as the loops compute
them; each property compares one with a definition of what it is for.

**`MCAuthService`**, **`MCGuardedRequests`**, **`MCConnectedAccounts`**,
**`MCFileStorage`**, **`MCGoogleServices`**, **`MCSocketEvents`** and **`MCUtilities`**
hold what TLC needs: the symmetry sets, the two calendars, and the bodies of PATCHes.

In `ConnectedAccounts`, `FileStorage` and `GoogleServices`, requests are numbered as
they arrive, and what a request leaves behind bears its number. `overlapped`,
`touched`, `deleted`, `since` and `sends` are there only for properties.

**`AuthServiceProofs`** proves the types and what registrations leave behind,
**`AuthSessionProofs`** the sessions, the tokens and the refinement;
**`GuardedRequestsProofs`** the types, what the guards establish and what overlapping
PATCHes can do;
**`ConnectedAccountsProofs`** whom a callback connects, what overlapping links leave
in a session and what a redirect means; **`FileStorageProofs`**,
**`GoogleServicesProofs`** and **`SocketEventsProofs`** everything the three modules
state; **`UtilitiesProofs`** what the pure functions compute of every input.

## 3. What the runs check

| Run | Instance | Shows |
|---|---|---|
| `AuthAccounts` | 2 slots, 4 calls of register, login, verify, server login; 2 addresses, 1 name, 2 passwords; 1 fault | types; profiles belong to one account and exist; duplicates only by overlap or a swallowed error; stray profiles only by a fault; a token is accepted for its own account unless two share its address |
| `AuthSessions` | 2 slots, 3 calls of every kind, fair; 1 address; clock to 1, documents that expire before their JWTs; 1 fault | a session has one account; tokens name existing accounts; each refresh token answered is stored, unless its insert failed or a login was meant to revoke it; a refused refresh is for an expired token or document; refinement of `SessionDirectory`; every call is answered or lost in a crash |
| `AuthTokenAccepted` | violation | the token of a registration is refused |
| `AuthRevocation` | violation | a login leaves the old tokens stored |
| `GuardRoles` | 2 slots, 2 requests to any endpoint; 2 accounts of any role, with one address or two; clock to 1; 1 fault | types; who gets past the guards |
| `ProfileUpdates` | 2 slots, 3 requests, PATCHes with two bodies or reads that ask for a role, of one account, fair; 1 fault | what a PATCH can undo; when the two documents disagree; every request is answered or lost in a crash |
| `ConnectedAccounts` | 2 slots, 4 requests, 1 browser, 2 users, fair; 1 fault | whom a callback connects; what overlapping links leave in the session; what a redirect without error has left of the account; every request is answered or lost in a crash |
| `ConnectedOnce` | violation | a link for an account that is connected is not refused |
| `FileStorage` | 2 slots, 3 requests of any method; a folder, none or a slash, 1 file, any initial bucket; 1 fault | where an upload lies; what a move can lose; what a move that reports success has done; what causes an error |
| `GoogleServices` | 2 slots, 3 requests of any method; 2 accounts, 2 people; 1 fault | whose calendar a removal changes and how; when it is refused |
| `SocketEvents` | 3 sockets, 2 adaptors made at any time, 1 event | who receives an event; what the answer says; ids of connections |
| `Utilities` | strings of 6 over two letters and blanks, distinct ones of up to 40; lists, sizes and pages up to 7; token lists of up to 3; words of 16 bits | each function against its definition |

Bounds. Two slots give every interleaving of two handlers, and each property relates at
most two calls that overlap; calls that do not overlap reuse the slots, so the three
calls of `AuthSessions` make the sequences (register, login, refresh), (register,
refresh, refresh) and (register, register, refresh) possible. `AuthAccounts` has a
fourth, as two accounts must exist, with different addresses or with one, before a third
call logs in and a fourth verifies. There is one user name, so the second account comes
from an overlap or an error, as a second one with the same address must; nothing the run
asks depends on the clock, which stands still. In `AuthSessions` the JWT of a refresh
token is good for two ticks, and one signed at time 0 has a document that the calendar
lets expire at once: at time 0 it is redeemed at the last moment the document allows, at
time 1 it is refused although the JWT is good. In truth a change of the clock takes an
hour from a week; what the property compares is only which of the two expires first. In
`ProfileUpdates` the third PATCH begins when one of two that overlapped has ended, which
is what a field may not be undone by. In `ConnectedAccounts` four requests are two links
and two callbacks, or three links and a callback, of one browser: browsers share nothing
but the collection. In `FileStorage` three requests are a move, one that overlaps it and
one that prepares or follows; a folder, none, and the lone slash of an upload without
one give every pair of equal and different paths. In `GoogleServices` three requests let
an event be created, then changed while an attendee is removed. `SocketEvents` needs one
event, as sending leaves nothing behind; three sockets are one that sends, one that is
named and one that is not. In `Utilities`, 40 characters fill grids of up to 7 by 6
cells, full and not, and a hash overflows a word of 16 bits after three characters; the
module has the width as a constant, 2^32 in the code, as TLC's own integers have 32
bits. Three tokens are two of a kind with one of another kind between them. One fault is
enough for each way a single step can fail; the properties that allow for failures count
them. The life times are one or two ticks, so a token may expire in every segment.
`MaxTime`, `MaxCalls`, `MaxRequests`, `MaxFaults`, `MaxAdaptors` and `MaxSends` end a
behaviour, and so does an output in `Utilities`: the runs do not check for deadlock,
because the system may then stop, and `EveryCallAnswered` and `EveryRequestAnswered` say
that none is stuck.

Fairness. `FairSpec` asks weak fairness of the next segment of each call being
served: the event loop runs every continuation whose answer came, and the driver
answers every operation, after its timeout with an error. Nothing is asked of
clients, the clock, or failures. `ConnectedAccounts` assumes as much of its providers;
that a user finishes on a consent page is not assumed.

Where code and text disagree. Three runs show it: `AuthTokenAccepted`,
`AuthRevocation` and `ConnectedOnce`. The models contain more that the passing runs
allow for:

- Two overlapping registrations of one address both succeed ("User already
  exists!"): `DuplicateNeedsOverlap` says that this is the only way without an error.
- A PATCH replaces the creation date of the account (`UserEntity`).
- A request for personal data that passed its guards is refused as invalid
  (`Validates`).
- `addAttendee` replaces the attendees (`AddAttendee`); an upload without a folder is
  stored where no look-up searches (`UploadPath`); a file moved onto itself is deleted
  (`LosesOnlyOverlapped` excepts it).
- `sendEventToClient` drops the recipient and sends to the adaptor's own client
  (`FromClient`); `Pagination`'s page defaults to 0 in its description and counts from
  1 in the code (`Skip`).
- `ConvertToBatches` does not end for a size of 0, and a negative page skips a
  negative number; both are outside the inputs of `Utilities`.

## 4. What is proved

For every set of slots, addresses, names, passwords, browsers, folders, files, people
and sockets, every life time, calendar and bound. The assumptions are those the constants carry: in
`AuthService` `TTLAssumption`, `ShiftAssumption`, `BoundAssumption`, `OpsAssumption`, in
`GuardedRequests` `EndpointAssumption`, `BodyAssumption`, `BoundAssumption`, in both
`NamesAssumption`: no address is the text of an id; in `ConnectedAccounts`
`TweeterAssumption` and `BoundAssumption`; in `FileStorage` `FolderAssumption`, that "no
folder" is not a folder, and `BoundAssumption`; in `GoogleServices` `BoundAssumption`; in
`SocketEvents` `ClientAssumption`, that "no client" is not a socket, and
`BoundAssumption`; in `Utilities` `LetterAssumption`, `BoundAssumption` and
`ModulusAssumption`, that the modulus of a word is even, as 2^32 is. The bounds of
`Utilities` may be any numbers and bind only what `Init` chooses from: the lemmas the
theorems rest on are about every sequence.

| Theorem | States |
|---|---|
| `AuthServiceProofs!TypeCorrect` | `Spec => []TypeOK` |
| `AuthServiceProofs!ProfilesAreOwn` | `Spec => []ProfileNotShared` |
| `AuthServiceProofs!DuplicatesNeedOverlap` | `Spec => DuplicateNeedsOverlap` |
| `AuthServiceProofs!OrphansNeedFaults` | `Spec => OrphanOnlyByFault` |
| `AuthSessionProofs!SessionsHaveOneAccount` | `Spec => []SessionHasOneAccount` |
| `AuthSessionProofs!TokensAreForAccounts` | `Spec => []TokensNameAccounts` |
| `AuthSessionProofs!VerifyAcceptsItsAccount` | `Spec => []AcceptedIdentity` |
| `AuthSessionProofs!HandlersImplementDirectory` | `Spec => ImplementsDirectory` |
| `AuthSessionProofs!SessionsHaveOneHolder` | `Spec => []Directory!OneHolder`, through that refinement |
| `AuthSessionProofs!TokensAreStored` | `Spec => []AnsweredTokensStored` |
| `AuthSessionProofs!RefusalsAreExpiries` | `Spec => []RefreshRefusedOnlyIfExpired` |
| `GuardedRequestsProofs!TypeCorrect` | `Spec => []TypeOK` |
| `GuardedRequestsProofs!GuardsAuthorise` | `Spec => []AuthorisedActor` |
| `GuardedRequestsProofs!UpdatesUndoOnlyOverlapping` | `Spec => UndoesOnlyOverlapping` |
| `GuardedRequestsProofs!DocumentsTornOnlyByOverlap` | `Spec => []TornOnlyByOverlap` |
| `ConnectedAccountsProofs!TypeCorrect` | `Spec => []TypeOK` |
| `ConnectedAccountsProofs!CallbacksConnectWhoAsked` | `Spec => []ConnectsWhoAsked` |
| `ConnectedAccountsProofs!LastLinkStays` | `Spec => []LastLinkWins` |
| `ConnectedAccountsProofs!SecretStays` | `Spec => []TwitterSecretKept` |
| `ConnectedAccountsProofs!ConnectedAccountsLoseAllButId` | `Spec => []ConnectedKeepsOnlyId` |
| `FileStorageProofs!TypeCorrect` | `Spec => []TypeOK` |
| `FileStorageProofs!UploadsFound` | `Spec => []UploadsAreFound` |
| `FileStorageProofs!MovesLoseNothing` | `Spec => LosesOnlyOverlapped` |
| `FileStorageProofs!MovesDeliver` | `Spec => MovedMeansMoved` |
| `FileStorageProofs!ErrorsHaveCause` | `Spec => ErrorNeedsCause` |
| `GoogleServicesProofs!TypeCorrect` | `Spec => []TypeOK` |
| `GoogleServicesProofs!RemovalsActOnOwnAccount` | `Spec => ActsOnOwnAccount` |
| `GoogleServicesProofs!RemovalsUndoOnlyOverlapping` | `Spec => RemovesOnlyTheAttendee` |
| `GoogleServicesProofs!RefusalsHaveCause` | `Spec => RefusedOnlyIfDeleted` |
| `SocketEventsProofs!TypeCorrect` | `Spec => []TypeOK` |
| `SocketEventsProofs!OneId` | `Spec => OneIdPerConnection` |
| `SocketEventsProofs!ReachesAddressed` | `Spec => []ReachesOnlyAddressed` |
| `SocketEventsProofs!AnswersHold` | `Spec => []AnsweredMeansReceived` |
| `UtilitiesProofs!CipherRoundTrips` | `Spec => []DecryptsWhatWasEncrypted` |
| `UtilitiesProofs!HashesArePolynomials` | `Spec => []HashIsPolynomial` |
| `UtilitiesProofs!BatchesTile` | `Spec => []BatchesKeepTheList` |
| `UtilitiesProofs!PagesTileIt` | `Spec => []PagesTileTheList` |
| `UtilitiesProofs!LastTokensAreKept` | `Spec => []LastOfItsKind` |

The argument for sessions. That a session has one account is not inductive: a
handler signs a token in one segment and stores or answers it in a later one, so a
token may be on its way that no collection and no client knows yet. `SessionInv`
therefore counts these as holders of the session too:

- `OneHolder`: all who hold one session, in the store, in clients' hands or on
  their way through a handler, are one account;
- `OldSessions`: a session that is held is older than the generator of fresh ids,
  so a new one is held by nobody;
- `DocsAgree`: a stored document and the token it keeps name the same session
  and account;
- `CallsOK`: what a handler carries from segment to segment agrees: the account
  it found is stored, the token it signed is for that account and session;
- `TokensNameAccounts`.

A refresh takes its session from a document and its account from the token of that
document (`DocsAgree`), so it adds a holder that is there already; register and
login add the only holder of a fresh session. The refinement follows from the same
invariant: an insert of an account is `SessionDirectory!Enrol`; the step that first
stores or answers a token of a session is `Open`, which needs that nobody else holds
it; every other step stutters.

The argument for registrations. What `register` decided some awaits ago is about
accounts that were there then: `ChecksOK` keeps, for each registration on its way, that
an account with its address or user name is newer than its checks (`mark`) or was hidden
by an error (`blind`), and `ProfileOK` that the profile it has stored is there and no
account's, nor another registration's (`OwnProfiles`): ids only grow (`OldProfiles`).
The insert then makes a duplicate only of an account that came in between, and a stored
profile loses its registration only in a step that counts a fault.

The argument for refresh tokens. `TokenInv` bounds the refresh tokens without a document
(`Unbacked`), those that are answered and those that are about to be (`OnTheWay`), by
the errors met: a step that saves a token stores its document or counts an error, and
nothing removes a document. That is more than `AnsweredTokensStored` asks, which leaves
open the tokens that a later login of the same account is meant to remove
(`Superseded`); it is what the code does while `remove` removes nothing. So while nothing
fails each token has its document, whose account exists (`SessionInv`), and the expiry of
the token or of the document is all that is left to refuse it for.

The argument for the guards. `AuthorisedActor` speaks of requests that passed;
`GuardsOK` adds what holds on the way: the token is one that was signed, the account
whose role is being read shares the token's address, and `AuthGuard` is reached only
where one of the namesakes has the role. An account found under the `email` claim is
a namesake because a claim that holds an id finds nobody (`FoundByAddress`).

The argument for PATCHes. `UpdateInv` says of every PATCH between its reads and its
writes that each copy still agrees with its document on the fields it does not set,
or that the last writer of the document overlapped it (`CopiesOK`): another request
can write only while it is being served, so the two overlap (`AllOverlap`). What is
written bears the writer's number (`Stamped`), which is how a document names its last
writer. For the two documents together the PATCH between its writes must be one of
the same account (`TornOK`), which the property leaves open.

The argument for connected accounts. `ConnectInv` says of every session and every
copy of one that its user is one a page was opened for in that browser, and that its
secret is of a page with the same user, unless a link of Google has changed the user
since (`SessionOK`). A callback takes both from the session; the provider redeems only
if the secret is the page's (`CallbackOK`), so Twitter's page and user agree or a Google
page stands between. Pages are only added, so what a copy was taken from stays there,
and a crash, which empties the sessions, disturbs nothing.

What is left in a session is about the copies too, as each may be written back whole.
`LastInv` says that since a link was given its copy, the session is unchanged or was
saved by a link opened later, whose page explains its user (`Last`). When a link opens
its page, either it saves the session and its own page explains it, or its copy needs no
change and the session is as it was. `SecretInv` says the same of secrets: a copy has
the secret of each twitter page that was open when it was taken, or a later page has
superseded it. Every step is one of three: it opens a page, it leaves pages and sessions
alone, or it is a crash (`StepKinds`).

What a redirect means. `StoredInv` follows the secret from the page to the session, the
copies of it and the callback: it is always one of a twitter page of that browser
(`SecretFrom`). A callback that asks has not redeemed anything yet, and its number is
its own (`AsksOnce`), so a refusal without an error has one of the two causes the
property allows (`RefusalExcused`); otherwise the document that is created has the
callback's number and, as every document (`TypeOK`), no field but its `_id`. Documents
stay, and no two have one number.

The argument for files. A request knows from one call what the bucket may have changed by
the next. `StorageInv` keeps what it found, or that a request overlapping it touched the
path since (`Disturbed`): a file found is there (`SourceFound`), a copy is the move's own
(`CopyMade`), and source and copy agree (`NothingLost`). A step of another request on one
of these paths makes it disturbed, because whoever is served together overlaps
(`AllOverlap`) and a path bears the number of the last that touched it. Deleting the source
then loses nothing more than the properties allow. `FoundInv` says beside it that the
content of every object is of a request that has arrived: whoever copies it to another
path is a later one and leaves its own number there.

The argument for calendars. `RemovalInv` is of the same form: the list a removal has read
is the event's, or its writer, or the one who deleted it, overlaps the removal
(`ReadOK`). The account is a local variable of the removal, so it does not depend on the
client that other requests replace.

The argument for sockets. `SocketInv` adds to the types that no id exceeds the last
one given out and no two sockets share one (`IdsOK`), and that sends and what was
received are numbered up to the number of sends (`SendsNumbered`), so that a new event
is not mistaken for an old one.

The argument for the utilities. What a loop computes is proved by induction over its
rounds. The library's induction theorems take a predicate, which the provers cannot
instantiate, so `Induction` states it for a set of numbers, from the fact that a
nonempty one has a least member. A fold or `FlattenSeq` of the community modules chooses
a function that satisfies an equation; `FoldExists` and `RecursionExists` show that there
is one, and `SplitSteps`, `HashSteps`, `SumSteps` and `FlattenSteps` that it goes round by
round. From there:

- the token group after k elements has the last of the k for each kind (`SplitKeepsLast`);
- the hash after k characters times the power of 31 the rest will bring has the residue
  of the first k terms (`HashOverIsPolynomial`, `HornerStep`), and cutting to a word
  keeps residues (`SignedProperties`);
- k parts of a list put together are the numbers up to k times their size, or all of
  them (`ChunksUpto`): batches stop at the last that is not empty, pages may go on;
- the sides of the grid are f and f, f and f + 1 or f + 1 and f + 1, f the rounded-down
  root of the length, and in each case they are the roots of their product
  (`GridIsFoundAgain`); a cell is then read where it was written (`CellPosition`), and
  what it was padded with is trimmed (`TrimOfPadded`).

Only model-checked: liveness (`EveryCallAnswered`, `EveryRequestAnswered`), which the
prover does not reach, and the three violations.

## 5. Plan

The modules of the first plan are written, and every safety property the runs check is
proved. What is left to prove says more than the properties do: for the bucket, that a
look-up by folder and name which follows an upload, and overlaps no other request,
answers its content; for the calendars, that an event nobody deletes keeps the attendees
no removal named.

## 6. Not modelled

- `ServerAccessGuard`: no controller uses it, and it reads a secret no
  configuration sets.
- `updateWaitingList` and `getConnectedAccounts` of `UserService`, which no route
  reaches; `findAll`, `personalData` and `googleDisconnect`, whose requests are
  refused before they reach them.
- The handlers of LinkedIn, Facebook and Instagram: their routes are commented out.
- The life time of signed URLs, the content of emails beyond what is required of one,
  and the queries of calendars and mailboxes.
- The gateway's five messages, which answer a constant text, and the event sequence,
  which handles nothing. `AppModule` does not import the sockets at all.
- Of the utilities: builders that copy fields, conversions of a single value, random
  strings and formatting of dates, in which no two pieces of state can disagree.
- Bootstrap and configuration: their state is set once, before a request is served.
- Logger, interceptors, filters and decorators: output and wiring. What a filter
  makes of an exception appears in the models as the status of an answer. The DTOs'
  validation appears as the inputs the models enumerate.
- Hashing of passwords and signing of tokens: a password matches itself only, and
  a token cannot be made by a client.
