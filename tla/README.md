# QuartierConnect in TLA+

Models of the parts of QuartierConnect in which something can go wrong between
two steps: the booking saga across MongoDB and PostgreSQL, the points ledger,
the offline synchronisation of incidents, sessions of the API, of the desktop
and of the browser, one-time codes, accounts, votes, messaging and presence,
contract documents, neighborhoods, listings and the query language. Each is
model-checked with TLC on small instances; the main invariants are proved with
TLAPS for every value of the constants. `PROJECT.json` relates every definition
to its source lines and lists the hazards of the code with the properties about
them.

## 1. The system

A NestJS API (`src/api`) over PostgreSQL (users, points, incidents), MongoDB
(services, bookings, contracts, messages, votes, SSO tokens) and Neo4j (a
best-effort social graph); React applications for residents and administrators
(`src/web-apps`); a JavaFX desktop for administrators and moderators that works
off line on SQLite (`src/desktop-app`); a query language for administrators
(`src/dsl`).

The API is one Node process: code between two `await`s is atomic, and any other
handler may run at an `await`. Nothing spans two databases, so a handler that
writes to both is a saga with compensations. The process may restart between any
two calls, and a call may take effect and still report an error. Actors interact
through the stores, through one event that changes state
(`contract.fully_signed`, from contracts to bookings), and over HTTP, where an
answer may be lost.

| Component | State | Operations | What is hard | What makes it correct |
|---|---|---|---|---|
| Bookings | `service_bookings` | request, accept, decline, cancel, complete on the event | a saga over two databases; cancel against accept and sign; failing compensations; restarts | one outcome, paid at most once, nothing stuck or paid after a cancellation |
| Contracts | `contracts` | create, sign, cancel, heal on read | the last signature settles a payment in another store; rollback of a signature | fully signed implies paid; paid implies signed by all |
| Points | `points_balances`, `points_transactions` | transfer, reserve, settle, void | check before write, lock order, missing rows | the floor, no point lost or moved twice, no deadlock |
| Incidents API | `incidents` | create, PATCH status, sync, delete, paged delta list | read then conditional write; a client's batch against other writers | status only follows the transitions |
| Desktop synchronisation | SQLite `incidents` with dirty, base, pending remote and tombstone columns | poll (push, pull, orphans), merge, the user's commands | commands in the middle of a poll; pages; lost answers; a crash between two statements | a row per incident, edits kept, convergence after a full pull |
| Sessions of the API | `users.refresh_token_hash`, `revoked_tokens`, `ssoTokens` | login, rotate, logout, SSO generate and exchange, ban, delete | requests that present one token; a rotation whose two writes others come between | a token gives one pair |
| Desktop session | two tokens in memory and keychain, a monitor | refresh, sign in, clear, resume, the answer to a 401 | threads that refresh together | a redeemed token is not presented again |
| Session of a browser | an access token and a cookie shared by the tabs, a refresh in flight per tab | call, refresh, guard of a route, sign in, log out, unload | calls whose token expires together; a page that goes with its calls | no call replays a token |
| One-time codes | accepted codes in memory | verify | a code is forgotten by a clock that others drive | a code opens one session |
| Presence | sockets, rooms, two maps of peers in memory | connect, disconnect, create a conversation, leave | a socket that goes, or a conversation that comes, during the handshake's `await`s | rooms are complete, presence is what is connected |
| Messaging | messages, read markers; in the browser caches, a thread, a badge | send, list, mark as read, events | answers, events and acknowledgements out of order; a marker ahead of the API | an open thread is complete and read; the badge is the count |
| Votes | one document per resident and target, under a unique index | toggle | read, then create, update or delete | the answer tells what is stored |
| Community votes | the document with its ballots, status and end | cast, close, results that close lazily | cast against close and against a second cast | one ballot each, none changed, none late |
| Services, events | `services`, `events`, what refers to them, their nodes | create, update, remove with a cascade, respond, book, vote | remove counts, deletes and drops in several awaits; nobody awaits the graph | nothing is left behind |
| Accounts | users in PostgreSQL, a copy in MongoDB found by e-mail | register, change e-mail, delete, change role | partial failure; a ban between two reads | a deletion leaves no copy; the role before a ban is restored |
| Contract documents | the version log in MongoDB, files in GridFS | store, stamp, view, purge | files and log cannot be written together; two stamp one version | the current and the first file exist and show the stamps |
| Neighborhoods | polygons in MongoDB, addresses and assignments in PostgreSQL | create, change, remove, submit an address, reassign | overlap checked before the write; assignments on stale lookups | polygons apart, residents where they live |
| DSL of administrators | none | one query on one of two stores | two filters merged by key, a scope added, a limit | no row of another neighborhood, none missing |
| Notifications, persistence set-up, desktop shell, operations | | events that nobody reads back, connections, user interface, scripts | no protocol of their own | |

## 2. The modules

| Module | Models | Uses |
|---|---|---|
| `Sums` | the sum of the values of a function | |
| `PointsLedger` | the ledger, one operation a step, and what its rows add up to | `Sums` |
| `PointsTransactions` | `points.service.ts` statement by statement, with row locks | refines `PointsLedger` |
| `ServiceContracts` | the contract document and its conditional updates | `PointsLedger` |
| `BookingSaga` | the handlers of bookings and contracts, call by call | extends `ServiceContracts`, refines `BookingDeal` |
| `BookingDeal` | what a booking promises its two parties | |
| `ThreeWayMerge` | `ThreeWayMerger.java` | |
| `IncidentServer` | `incidents.service.ts` | `ThreeWayMerge` |
| `IncidentSync` | the desktop's table, poll and commands | extends `IncidentServer` |
| `Sessions` | `api/src/auth` and what ends a session in `api/src/users` | |
| `DesktopSession` | `AuthService`, `ApiService`, `TokenVault` of the desktop | extends `Sessions` |
| `BrowserSession` | `api.ts`, `auth.ts` of the web applications | |
| `Totp` | `totp.service.ts` | |
| `Accounts` | registration, change of e-mail, deletion, roles in two databases | |
| `BallotBox` | what a community vote promises | |
| `CommunityVotes` | `community-votes.service.ts` | `Sums`; refines `BallotBox` |
| `Votes` | `votes.service.ts` | |
| `Presence` | `messaging.gateway.ts` and what clients show | |
| `Messaging` | a conversation between API and browser | |
| `ContractDocuments` | the PDF of a contract over MongoDB and GridFS | |
| `Neighborhoods` | polygons, addresses, assignments | |
| `Listings` | services and events, what refers to them, their nodes | |
| `DslQuery` | parser, compiler and the two back ends of a query | |
| `MCBookingSaga`, `MCIncidentSync`, `MCDesktopSession`, `MCMessaging` | values of constants, symmetry | |
| `MCCommunity` | the parts of the API that share no state, for TLC | `PointsTransactions`, `Totp`, `CommunityVotes`, `Votes`, `Presence`, `ContractDocuments`, `Accounts`, `DslQuery` |
| `MCResidents` | likewise | `BrowserSession`, `Neighborhoods`, `Listings` |
| `*Proofs` | theorems | |

In every module a request that is served has a record with the step it takes
next and what it has read, and each `await` ends a step. An operator commented
"Mutant of X" is a plausible wrong version of `X`, put in its place to see that a
property notices. Variables commented "history" record what happened, for the
properties alone.

### Booking saga

A handler in flight is a `request[r]` with the call it makes next (`at`) and its
local variables. One step is one awaited call with the synchronous code up to
the next `await`. `Await` gives each call its outcomes: it works; it throws
without effect (`MayFail`); it takes effect and throws (`MayLoseAck`).
`Crash` drops a handler between two calls. Reads that only reject early are
merged with the conditional update after them that checks the same thing: a
stale read only rejects more. Owner, price and direction, which `request`
copies to the booking, are constants. Notifications, names, Neo4j and the PDF
are left out, except `resolveNames`, whose failure leaves a claim behind.
`GiveUser` and `CreateDirect` are the transfers and the contracts without a
booking that share the same stores.

`BookingDeal` gives each booking one state: requested, agreed, refused,
withdrawn, paid. The mapping follows the payment row: a cancelled booking is
withdrawn only when no payment of its can still be reserved or settled.

### Points

A transaction of `PointsTransactions` inserts missing rows in the order of user
ids (`ON CONFLICT DO NOTHING` waits for an uncommitted insert), locks both
balances in that order, checks the floor, applies the two updates and commits; a
settlement first locks its payment row. Any of them may abort. The UPDATE
of `cancelServicePayment` waits for the lock of a matching payment row. The
refinement shows the step at the commit.

### Incidents

The table has, per local row, content, dirty flag, conflict flag, date, base
snapshot and pending remote snapshot, as in `SQLiteDatabase.java`. The poll is a
sequence of steps: read the dirty rows, push, then per row assign the remote id,
mark synced, update the base; then page after page, merge each row; then, for a
full pull, tombstone the orphans. Commands of the user fall between any two of
them (`"overlap" \in Acts`). An incident has two fields, its status and a text
that stands for title and description. PATCH is two statements; `sync` and
`remove` of the API are one step. One clock stamps all dates; there is one
neighborhood; the user's role is fixed in a behaviour; a push that times out
has arrived before or never does.

`torn` records the rows that the user touched during a poll, and the one the
application died on between two statements: they may stay different, and
`FullPullConverges` excepts them, and nothing else but conflicts.

### Sessions

A pair is the access and the refresh token issued together. `hash[u]` is the
pair whose refresh token hash the row of user `u` holds: one per user, whatever
the number of devices. `rotateRefreshToken` clears the hash in a transaction and
`generatePair` writes the next one in a statement of its own, and so do login
and SSO exchange: requests keep what they read, and anything may come between.
`logout` awaits two writes in either order; the change of e-mail does the same
in one order. `origin` records what a pair was issued for.

On the desktop, `refreshAccessToken` is synchronized: `monitor` is the thread
inside it. `ApiService` answers any 401, that of a refresh included, by calling
it again; the monitor is reentrant, so the thread presents its token again
until the throttle answers 429 (`Refused`). Sign in and `clearSession` do not
take the monitor. A call may time out while the API goes on with it; the
application may die. `torn` records that an answer was lost so.

Taken as given: cryptography, passwords and TOTP codes verify what they should;
the keychain works and storing two tokens is one step; an access token lives
longer than it takes to receive and store it; browsers refresh at any time, so
only tokens of the desktop expire; `updateRole` is one write of any role;
refresh tokens do not reach their seven days; a request that is posted again
after a refused token is refused again and is left out.

### Session of a browser

Tabs share the access token (`stored`) and the cookie (`jar`); the refresh in
flight is a variable of the module `api.ts` and so of one tab. A fetch is sent,
answered, and after its first 401 waits for the refresh of its tab, which it
starts if there is none; the guard of a route does the same without a call. A
refresh that is granted sends the waiting calls again, one that is refused
unloads the page. The API answers in one step here: `Sessions` has its inside.
`NeverReplayed` is stated for one tab (`Tab`) whose new pairs arrive
(`Lossy = FALSE`), and both conditions are needed: see section 5.

### One-time codes, accounts

`Totp` has a clock and the codes kept in memory with the time they
are forgotten; a restart empties it, and `CodeIsUsedOnce` counts from the last
restart on. In `Accounts` an account is a row in PostgreSQL and whose secrets
the MongoDB document of each address holds. Each call may fail after its
retries, a request may stop for good anywhere. `disturbed` records that a change
of e-mail failed half-way or ran beside another request for the account,
`staleRole` that one change of role wrote over another.

### Votes

`Votes` is one resident's vote on one target: a press reads the document, then
deletes, updates or creates it; the unique index makes the loser of two creates
fail, which the code answers as "added" whatever the type of the other. `rivals`
records which presses were under way together. `CommunityVotes` has the checks
of a ballot, the push guarded by status, deadline and previous ballots, the
closing by hand, and the results, which close a vote that is over. The mapping
to `BallotBox` takes a ballot as cast when it is pushed.

### Presence and messaging

`Presence`: a handshake joins the resident's own room, then reads the
conversations, then fills the maps; sockets go and conversations come at any
point, the gateway restarts, a client leaves a room. Frames of one room arrive in
the order they were sent. `ghosts` are sockets that disconnected before they
were set up: the code keeps them in its maps for good, and the property says so.

`Messaging` follows one conversation for a resident who stays on the messages
page, with a socket that does not drop and fewer messages than a page holds. The
query cache is TanStack's, from how the code uses it: an invalidation cancels
the fetch in flight and starts another while the query is observed, a mount
fetches what is stale. The badge is cleared ahead of the API and the list
fetched after the marker is stored. Sending gives up after five seconds whatever
becomes of the message.

### Contract documents

A request writes a file to GridFS, then names it in the document, then reclaims
those that are superseded; any call may fail and a request may stop anywhere. A
file is the set of signatures it shows. An import that fails purges the
contract, which `CurrentFileIsStored` excepts. `overlapped` records that two
requests worked on the PDF at once.

### Neighborhoods and listings

A polygon is the set of its points, an address one point, and identifiers are
never used again. Change and removal reassign the residents concerned, one
update each, from a list read before. The geocoder answers; a resident nobody
covers is pending. `late` are residents whose assignment was stored after what it
was looked up from had changed, `crossed` that two administrators were under way.

`Listings` has services and events, bookings as their status, responses, votes,
and the graph, to which every write is sent without waiting: writes land in any
order or fail for good. `raced`, `failed` and `strayed` record what the property
excepts: a removal that overlapped a request for the listing, a cascade that
failed, a write that was lost or overtaken. The guards of two listings do not
read each other, so one listing of either kind is explored (`MaxItems`).

### The query language

A condition is a field and the values it accepts. The parser folds conditions
left to right into a filter, as a dict with at most one entry per field and a
`$or`; the API adds the neighborhoods of the requester and runs it on MongoDB or
as SQL. `meaning` is what the query asks for, computed from the conditions.
`NothingIsMissed` allows rows that were not asked for in the two cases that the
code gets wrong: a field named twice in a conjunction, and the empty string on
PostgreSQL.

## 3. What is checked

| Run | Instance | Shows |
|---|---|---|
| `saga_open` | 1 booking, 2 contracts (one may have no booking), 2 handlers; any call fails or loses its answer but a committed settlement; restarts; signatures before the link | `FullySignedIsPaid`, `PaidIsSignedByAll`, `LedgerReconciles`, `PaymentIsFinal` |
| `saga_linked` | 1 booking, 2 contracts, 3 handlers; every fault, restarts | `WithdrawalLeavesSignature`, `OutcomeIsFinal`, `ImplementsDeal` (so a booking is paid once) |
| `saga_live` | 1 booking, 1 contract, 3 handlers, no fault, fair | `Agreement` of the three stores between handlers, and three liveness properties: what is paid ends completed, a last signature concludes, a claim is resolved |
| `community` | `MCCommunity`, one part at a time: 2 residents; 3 transactions on 2 contracts; codes of 4 periods; 3 requests on one vote with 2 options; 3 presses; 3 sockets and a conversation; 3 requests on one PDF; 2 accounts, 2 addresses, 3 calls; queries of up to 3 conditions | 13 properties: the ledger and the ballot box are implemented, no deadlock, and what section 1 says of codes, votes, presence, documents, accounts and queries |
| `sync_quiet` | 2 incidents, pages of one, other writers, lost requests, a crash; commands between polls | `TypeOK`, `StatusAdvances`, `FullPullConverges`, `OrphansAreDeleted` |
| `sync_overlap` | 2 incidents, 4 local rows, commands at any time, either role | `RemoteIdUnique`, `PullKeepsEdits` |
| `sessions` | 1 user, 3 pairs, 1 SSO token, 2 requests, 2 threads; bans, deletions, roles, expiry, timeouts, restarts | `RedeemedOnce`, `NeverReplays` |
| `messaging` | 2 messages, one of them the resident's, 2 markers in flight, the thread opened and closed any number of times | types, `LiveThreadIsRead`, `BadgeIsTrue` |
| `residents` | `MCResidents`, one part at a time: 1 tab, 3 calls, 3 pairs; 2 neighborhoods on 2 points, 1 resident, 2 requests; 1 listing, 2 calls, 2 writes on their way | types, `NeverReplayed`, `AreasAreApart`, `AssignmentsAgree`, `ListingsAgree` |

`community` and `residents` put modules together that share no variable: a
behaviour chooses a part at its start and moves that part alone. Steps of two
parts commute and no property speaks of two of them, so interleaving them would
add states and show nothing more.

Three runs end in a violation, of what the source says about itself
(`findings` in `PROJECT.json` quotes the lines):

- `saga_unwind`: "any failure unwinds the contract/payment". A contract is
  visible before accept links it; the parties sign it, it is paid, a
  cancellation makes the link fail, and nothing can be unwound. No call fails.
- `saga_double`: "You already have an active booking". Two requests pass the
  check before either creates; no unique index stops them.
- `sync_refused`: "restores the server version on the next pull". A refused edit
  loses its dirty flag, and the pull keeps it.

### Bounds

- Saga: two users besides a floor of -2 and a price of 2: one service uses the
  balance up, a gift of 1 makes the next settlement fail at the floor.
  `OwnerPays` takes both values among the runs. Two contracts let a booking be
  accepted again after an unwound accept, which is what paying once is about;
  three handlers let a cancel and two signatures race, or an accept, a cancel
  and a signature.
- Ledger: three transactions are the least for a waiting circle through two
  balances and a payment row; two payments between two users make settlements
  in both directions.
- Incidents: `MaxClock` stamps (4), `MaxLocal` local rows and two incidents: a
  row can be pushed, changed by another client, pulled, and changed again. Pages
  of one row make a pull two full pages and the empty one that ends it, which is
  `MaxPages`; the bail-out at that limit is in `FinishPull`, but two incidents
  never reach it. `Acts` chooses per run which acts of the environment are
  explored, since all of them together are too many: `sync_quiet` leaves out the
  overlap and creating, `sync_overlap` other writers and the crash.
- Sessions: three pairs are sign in, rotation, and one more after it, or a
  browser's login against the desktop's refresh. Two requests and two threads
  are the least that present one token at the same time.
- Browser: three calls are one that refreshes, one that joins, and one that
  comes with the old token when the refresh is over; three pairs are a sign-in
  and two rotations, or two sign-ins.
- Community: three requests are two that race and one that came before or comes
  after. Codes run to time 10 with periods of 2 and a memory of 6, so that a
  code is forgotten while others are valid. A budget of 3 has ballots below, at
  and above it. Queries of three conditions are the least in which an AND and
  an OR mix; a limit of 2 cuts.
- Messaging: `MaxDate` 2 dates mean that a message and a marker may carry
  the same or either order; the two markers are those that can cross.
- Residents: two points let polygons overlap, touch nothing, grow and shrink; an
  administrator and a resident, or two administrators, are the two requests.

`CHECK_DEADLOCK FALSE` in every configuration has one reason: the ids, dates,
pairs and calls are used up and every handler has returned. Real deadlock is a
property where threads wait for each other (`NoDeadlock`).

### Fairness

`saga_live` assumes weak fairness of `HandlerStep(r)` for each handler: the
event loop resumes a handler when its awaited call has returned. Users are under
no obligation. With a failing call or a restart the liveness properties are
false by design of the code (compensation is best effort), so the run has none.
The other runs claim no liveness; `LiveThreadIsRead`, `BadgeIsTrue`,
`AssignmentsAgree` and `ListingsAgree` speak of the states in which nothing is
under way any more.

## 4. What is proved

For any sets of users, bookings, contracts, handlers, transactions, incidents,
pairs and threads, and any choice of faults, unless said otherwise. The named
`ASSUME`s state only that placeholders are not members, sets are of their type,
the floor is an integer that is not positive, the options of a vote are finitely
many and weights are integers (a fraction is counted in the smallest one in use).
A theorem that adds up rows assumes that there are finitely many.

| Module | Theorem | Argument |
|---|---|---|
| `BookingSagaProofs` | `TypeCorrect` | `TypeInv`: what the local variables of a handler hold at each call (`HandlerShape`) and which fields a booking has in each status. Types alone are not inductive: a step uses variables an earlier step set |
| | `BalancesStayAboveFloor` | every step is a guarded `Moved` or leaves the balances |
| | `FullySignedContractsArePaid`, `PaymentsAreFinal` | `PayInv`: a payment row exists only for an existing contract; a handler of accept that has still to reserve owns an id nobody else uses; a handler at its flip has seen the payment complete; and completed rows stay |
| | `RowsExplainBalances` | assumes finitely many users and contracts. Each operation keeps `LedgerReconciles`, but for a reservation over a completed row, which would take its points out of the sum: by `PayInv` an accept that has still to reserve finds no row. A settlement changes one summand and moves as much between two balances |
| | `OutcomesAreFinal` | `LinkInv`: a linked contract, and the one a handler of cancel or accept holds, exists and belongs to the booking, and a handler that is about to complete a cancelled booking has seen its payment settled, which stays so |
| | `WithdrawalsLeaveSignatures` | `ConcludeInv`: the contract of a booking has two signatories, since nobody requests a service of his own, and one handler at a time concludes a contract, which all have signed: only the push of the last signature leads there |
| | `DealImplemented` | assumes `~SignBeforeLink`; any call may fail, lose its answer or never be made. `DealInv`: a payment row that can still move is the price of the booking its contract names, from payer to payee, and only the linked contract of a booking can be paid, so that a settlement pays one deal that is agreed. Each step is a step of `BookingDeal` or a stutter; with contracts signed before they are linked the refinement fails, which `saga_unwind` shows |
| | `BookingsAgree` | assumes `Faultless` (no call fails or loses its answer, no crash) and `~SignBeforeLink`. `PhaseInv`: a booking is untouched, claimed by one accept, or agreed; in the last case its ledger row, contract and status are those of one deal, and where they still differ the handler that will end the difference is under way. It rests on `HoldInv`, which says whose booking and contract each handler works on, and on the invariants above; with a fault `Agreement` is not meant to hold |
| | `PaidContractsAreSignedByAll` | assumes `"settle" \notin MayLoseAck`. `SignedInv`, on top of `ConcludeInv`: the contract is unpaid until its last signature is concluded |
| `IncidentSyncProofs` | `StatusMachineHolds` | `PatchInv`: a PATCH in flight carries a legal transition from the status its conditional update asks for; a sync is clamped |
| | `OneRowPerIncident` | `TableInv`: during a push the uuid of a row is its own or nobody's; the pull inserts unknown ids only |
| | `TypeCorrect` | `TypeInv`: a row in conflict has the server's version, a command under way a row |
| | `OrphansOnly` | `PullInv`, on `ServerInv` (a live incident is dated and in the list): the pages fetched so far are the first of the listing, each of their incidents is merged or still to merge, and a page that is not full ends the listing |
| | `PullConverges` | `ConvInv`, on `PullInv` and `PatchInv`: unless torn, a row is in conflict for good because the server is past it (`Stuck`), tracks its base and the server's status (`Tracks`), or is dirty and, once a poll runs, in its batch (`RowInv`); a page still to merge is no newer than the server (`RestInv`), a change of status waits for its answer on an otherwise untouched row (`WaitInv`), and what an undisturbed pull has merged is as the server has it (`MergedInv`). The property alone speaks of the end of a pull and says nothing of the pages before |
| | `PullKeepsUnsentEdits` | from `TableInv` and the lemmas on the merge, `CleanMergeKeepsBothEdits` first |
| `SessionProofs` | `TypeCorrect` | over `Sessions` and the desktop together |
| | `TokensAreSingleUse` | `ClaimInv`: an SSO token or refresh token is free, claimed by one request, or spent on one pair, and a hash or an unused SSO token is free. `RedeemedOnce` alone is not inductive: it says nothing of the requests that still have a pair to issue |
| | `NothingIsReplayed` | `DeskInv` over the desktop and the API: one thread is in the refresh at a time, each waits for a request of its own (`ThreadInv`), a browser never presents the desktop's tokens (`SurfaceInv`), a pair is on its way to one thread (`ApartInv`), and what is held is redeemed only while a thread is about to replace it (`HeldInv`) |
| | `CodesAreUsedOnce` | `TotpInv`: a code that was accepted is remembered or out of its window. Needs a memory of at least three periods, which the named assumption states of the two constants of the code |
| `SumProofs`, `LedgerProofs` | lemmas only | what a sum over a finite set is (`TotalSplit`, `TotalUpdate`, `TotalPlus`), its bounds (`TotalBounded`, `TotalOfColumns`), and what each operation of the ledger does to its sums |
| `CommunityProofs` | `TypeCorrect`, `GuardStillHolds`, `LedgerImplemented` | `LockInv`: what a transaction at each statement has locked and what its guard established; a locked row is written by its holder alone, so the commit is the atomic step |
| | `DeadlockFree` | `Distance` shrinks along any chain of waiting transactions: who waits for a payment row waits for a transaction past its own, who waits for an insert waits for one that is at a greater id or at its locks, who waits for a lock waits for one at a greater id. User ids are numbers up to a bound, of any size |
| | `TransactionsReconcile` | assumes finitely many contracts. The balances change at a commit alone, which is a step of the ledger, and each of those keeps `LedgerReconciles` (lemmas of `LedgerProofs`) |
| | `VoteAnswersAreTrue` | `VoteInv`: presses under way together know of each other, and one that has none read what is stored |
| | `BallotsAreKept` | `CastInv`: what a request is about to push is a ballot; each push is a step of `BallotBox`, every other step a stutter |
| | `TotalsStayWithinBudget` | `FairInv`: each ballot stored, about to be pushed or read by a closing request adds natural numbers to the options and in sum no more than one voter may. The totals alone say nothing of the ballots they will be computed from next |
| | `AnswersAreSound` | `DslInv`: the filter built so far finds at least what the conditions so far ask for, and exactly that unless a field is repeated |
| | `CurrentFilesAreStored` | `PdfInv`: a file named in the log or held by a request that has still to name it is stored, and what a request may reclaim is superseded |
| | `AnsweredStampsStay` | `StampInv`, on top of `PdfInv`: until two requests overlap one works at a time, on the current version, and publishes a file with its stamps and its own |
| | `BansAreUndone` | `RoleInv`: while no role was written over another, `previousRole` of a banned account is the role it held |
| | `DeletionsAreComplete` | `EraseInv`: unless disturbed, one request at a time works on an account, a copy is found by the address PostgreSQL has, and each stage of a deletion has left what it should |
| `MessagingProofs` | `RoomsComplete` | `RoomInv`: what a handshake found, joined or left holds every announced conversation. The property alone says nothing of a socket whose handshake has read and not joined |
| | `PresenceFollows` | `AccurateInv`: both maps have the same entries, an entry lists the peers of the announced conversations (`EntryInv`), and each client shows those of them that are online (`ShownInv`) |
| | `MessagingTypes`, `BadgeFollows` | `BadgeInv`: unless something is on its way that will have the list fetched again, the fetch under way has read the last marker and counts by it, or the badge is that count |
| | `OpenThreadIsRead` | `ReadInv`: a message that an open thread got and no marker reaches is on its way again with a page that holds every message delivered so far, so that `LastOf` will reach its date. Without it the effect, which only looks at the date of the last message shown, could rest on an older one |
| `ResidentsProofs` | `PolygonsStayApart` | `AreaInv`: until two administrators cross, one request at most draws, and its shape was compared with every polygon stored |
| | `AssignmentsFollow` | `HomeInv`: an address that a polygon covers without an assignment is one that a request under way will still serve, unless it was overtaken; and what such a request has looked up still holds |
| | `ListingsSettle` | `ListInv`: what refers to a listing that is gone is about to be dropped by the cascade of its removal (`DroppedInv`), and the last write to the graph that names a node leaves it with the title of the document (`LastInv`) |
| | `RefreshIsShared` | assumes one tab (`OneTab`) and `~Lossy`. `ShareInv`: one refresh at most is in flight, which every call of the tab joins; the cookie was not exchanged unless the new one is on its way; and while a refused page unloads nothing can be granted |
| | `ResidentsTypes` | the types are not inductive: `TabInv` (a call under way is one of a tab), `GivenInv` (a polygon to insert has an identifier that was given), `ListInv` and `BareInv` (an interest carries no title), for any number of tabs and also where a pair is lost |

In a run as well: every listed theorem whose `property` is given. Proved but in
no run, since TLC would only repeat them: the types of the saga, the ledger and
the desktop session, `BalanceFloor`, `GuardHoldsAtDebit`, and that a clean merge
keeps both edits.

The induction theorems of the library take a predicate, which the provers cannot
instantiate. `SumProofs` has the principle with a set in the place of the
predicate: the cases for which a fact holds. A set of natural numbers has a least
element (`LeastNatural`, from the well-foundedness of `<`), so that the subsets
of a finite set that miss the fact would have a smallest one (`SetInduction`).
`FoldExists` builds the function by which the community module's fold is defined
and shows with `TotalFolds` that the fold is its value, whatever element `CHOOSE`
takes first.

Only model-checked: the liveness properties, which are out of reach of the
prover.

## 5. Disagreements that are in the models but in no run

The models contain the steps below. A property that says the contrary would be
violated; the properties except them by name (a history variable or a constant)
and hold otherwise.

- *Saga.* `contracts.service.ts:582` undoes a signature "so the flow stays
  retryable"; when the undoing fails all parties have signed, nobody may sign
  again, and nobody settles. An import that is rolled back (201) leaves in
  GridFS a file that was written and not yet named.
- *Incidents.* The poll pushes first (`SyncService.java:131`), so a text changed
  on both sides is overwritten rather than flagged. A row typed in during its
  push is marked clean (203) and never pushed, where `desktop.en.mdx:22` says
  "with no loss". A push whose answer is lost is repeated under another uuid
  (169), where `sync-incident.dto.ts:22` says "idempotent". An incident deleted
  between two pages shifts the next one past the client (`incidents.service.ts:170`),
  and it is then taken for an orphan. `desktop.en.mdx:67` says that a pull
  merges what is "not present in justPushed"; the code (`SyncService.java:271`)
  merges every row, and so does the model.
- *Sessions.* `bases-de-donnees.en.mdx:37` says of `refresh_token_hash` "NULL
  when signed out"; a logout between the two writes of a rotation
  (`token.service.ts:85-97`) leaves a hash that refreshes. One hash per user
  lets a login in a browser end the session of the desktop, and an administrator
  demoted after a desktop token was minted still gets a session.
- *Browser.* `api.ts:25-26` wants concurrent requests to share one refresh. Two
  tabs share the cookie but not the promise: the second replays it. A new pair
  that is lost on its way leaves the exchanged cookie behind. Set `Tab` to two
  tabs, or `Lossy` to `TRUE`, to see either.
- *Messaging.* Of two markers in flight the older date may be stored last
  (`messaging.service.ts:208`), though "a thread read live never keeps a stale
  badge" (`conversation-thread.tsx:132`). A message that comes in while the
  thread is closed is missing when it is opened again within 30 seconds
  (`useMessaging.ts:117`), where `messagerie.en.mdx:81` says "with no need to
  refresh the page". The marker is the date of the call and not of the newest
  message shown, so a message stored just before it never counts as unread. A
  text that timed out may have been sent, and is sent twice.
  `messagerie-temps-reel.en.mdx` calls unread tracking "entirely client-side";
  `lastReadAt` is stored by the API.
- *Presence.* A socket that disconnects during its handshake stays in the maps.
- *Votes.* Two first presses of different buttons race on the unique index: the
  loser is told that its vote was added (`votes.service.ts:86`). A ballot
  pushed between the read and the closing of a vote that is over is stored, but
  missing from the results that were answered with "closed".
- *Documents.* Two signatories stamp the version each has read; the later one
  wins, and the other stamp is missing.
- *Accounts.* The comment at `me.controller.ts:296-300` on the copy in MongoDB
  does not hold after a change of e-mail that failed half-way: the deletion
  looks for the copy under another address. `securite.en.mdx:190` lists
  `deleteNode('User', id)` among the steps of a deletion; the code keeps the node
  under another name.
- *Neighborhoods.* Two administrators store polygons that overlap: check and
  write are two calls (`neighborhoods.controller.ts:197`), where lines 188-189
  document a 409. An address looked up before a removal is stored after it
  (`address.controller.ts:58-64`), and "the onboarding gate" (line 312 of the
  controller) does not run again. A resident submitted around `reassignPending`
  stays pending though covered, or gets the neighborhood of an old address
  (209-236). `lives-in.util.ts:13` matches a node that an unawaited write may not
  have created yet, and then drops nothing.
- *Listings.* "Active bookings must be settled first to avoid orphaning contracts
  and payments" (`services.service.ts:359`): a booking created between the count
  and the deletion is orphaned; so are responses and votes. The graph keeps the
  title of an edit that was overtaken (`events.controller.ts:354`), and an event
  that was deleted, which nobody removes from it (377-385). The relation USED,
  which `recommandations.en.mdx:47` and `index.en.mdx:56` mention, is queried and
  never written.
- *Queries.* A field named twice in a conjunction keeps its later condition only
  (`parser.py:37-44`). `LIMIT 0` means no limit to MongoDB.

## 6. Not modelled, and why

Direct, imported and zoned contracts, signature images and the proof document:
another flow on the same document, without payment. Deletion of an account that
is a signatory. Export, avatars, throttles, guards of roles: no interleaving with
what is modelled. Typing indicators, attachments, conversations of more than one
page, a socket that drops and comes back while messages are sent. `COUNT`
queries. In the graph, `LIVES_IN`, `HELPED`, participations and the
recommendation query; geocoding, whose answer is an input. Notifications, which
nobody reads back. Persistence set-up: the constraints the code relies on (the
CHECK of the floor, unique indices) are in the modules that use them. The desktop
shell, the components, translations and layout of the web applications, the
seeds, the backup and deployment scripts: user interface, data and I/O, and the
largest part of the repository's lines. `PROJECT.json` gives each component its
reason.

Taken on trust everywhere: MongoDB and PostgreSQL apply one statement or one
update of a document atomically; PostgreSQL reads what is committed and holds
row locks to the end of a transaction; the API is one process.

## 7. What is left

1. The direct contract and its zones, as a second user of `ServiceContracts` and
   `ContractDocuments`.
2. A reconnecting socket in `Messaging`, composed with `Presence`.
3. The removal of a service against a running accept: `Listings` has a booking
   as its status, `BookingSaga` its calls.
