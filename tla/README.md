# Verification of Trash2Treasure / Trash2Cash

The repository is a waste-pickup service: a NestJS server over PostgreSQL
(Prisma) and a Next.js client. Customers book pickups, administrators assign
drivers and complete bookings, drivers collect, completed bookings earn points.
These modules model what the server keeps in memory and in the database and what
the browser keeps in its state and storage, and check both under the
interleavings that asynchronous handlers, late answers and failing calls really
produce.

Contents: [inventory](#inventory), [modules](#modules), [runs and
bounds](#runs), [fairness](#fairness), [theorems](#theorems),
[disagreements](#where-code-and-documents-disagree), [what else was
seen](#seen-on-the-way), [not modelled](#not-modelled), [plan](#plan).

## Inventory

| Part | State it keeps | Operations | Hard behaviours | Module |
|---|---|---|---|---|
| Booking statuses (`bookings/booking-status.ts`) | none | normalise, expand a filter, transition tables, role checks | legacy names beside canonical ones | `BookingStatus` |
| Bookings of customers (`bookings.service.ts`) | `Booking` | create, cancel, delete, list | rows made side by side; cancel and delete race with drivers and administrators | `BookingLifecycle`, `Screening` |
| Drivers (`driver/driver.service.ts`) | `Booking`, `BookingStatusHistory`, `Driver` | start, collect, cancel, update | check, then three writes, no transaction; taps retried | `BookingLifecycle` |
| Bookings of administrators (`admin/admin.service.ts` 829–1142) | the same and `PointsTransaction` | update, assign, change status | check and act on a stale row; history and award after the update | `BookingLifecycle` |
| Rewards (`rewards/`) | `PointsTransaction`, `Booking.confirmedAt` | award, backfill | counts of other bookings before the award; award twice | `RewardLedger`, `Rewards` |
| Accounts (`auth`, `users`, `admin` 345–651, 1355–1455) | `User` and four profile tables | register, Google sign-in, own edits and deletion, administrator's edits, approval, removal | separate statements; a role read before the transaction that deletes by it; deletion under foreign keys | `Accounts` |
| Sessions (`auth.service.ts`, `jwt.strategy.ts`) | `User.refreshTokenHash` | sign in, refresh, log out | a refresh beside a logout or another refresh | `Sessions` |
| Client session (`client/lib/api.ts`, `auth.ts`, `auth-provider.tsx`) | localStorage, cookie, state of each tab | `apiFetch` with one refresh and one more attempt, `setAuth`, `clearAuth` | calls refresh side by side; a logout while a refresh is under way | `ClientSession` |
| Passkeys (`passkey.service.ts`, `usePasskey.ts`) | challenges in memory, `PasskeyCredential` | options, verify, list, delete, cleanup | single-use challenges with a time-out; ceremonies that overlap; restart | `Passkeys` |
| Sign-in pages and reCAPTCHA (`login`, `signup`, `recaptcha.ts`, `providers.tsx`, `recaptcha.service.ts`) | a script shared by all forms, attempts under way | load, wait, submit, Google code, passkey, leave | a load with fallbacks and time-outs while pages are left; answers after the page is gone | `Recaptcha`, `SignInPages` |
| Status availability (`admin.service.ts` 1144–1196) | three fields | load, ask | first uses side by side | `StatusAvailability` |
| Notifications and push (`notifications/`, `usePushNotifications.ts`) | `PushSubscription`, the browser's subscription | subscribe, unsubscribe, notify | an endpoint found gone after it was renewed; lost answers | `PushSubscriptions` |
| Response cache (`auth-aware-cache.interceptor.ts`) | responses in memory | serve, fill, clear | a fill that was read before a write lands after the clear | `CatalogueCache` |
| Pagination (`common/pagination.ts`) | none | `cursorPaginate` | rows come and go between pages | `CursorPages` |
| Launch list (`public.service.ts`) | `LaunchNotify` | insert with a time-out | the time-out does not stop the insert | `LaunchNotify` |
| Chat: booking conversation (`chat.service.ts`, `AssistantChatbox.tsx`) | session memory, draft in sessionStorage | turn, forget, time-out | state read before an await and stored after it; a person whose token expired | `BookingAssistant` |
| Chat: answers (`chat.service.ts`, `chat.tools.service.ts`, `chat.route-map.ts`) | session history, language, the model found | tools, links, history, discovery of a model | a model that goes away; two questions at a time | `ChatAnswers` |
| Chat: rate limit | bucket per address | count | windows that begin with a request | `ChatRateLimit` |
| Booking form (`users/bookings/new`) | form, items, draft | steps, answers, submission | answers that arrive while it is filled in or sent | `BookingWizard` |
| Booking tables (`admin/bookings`, `users/bookings`) | listings by filter | filter, poll, act, delete at once | overlapping calls whose answers touch another filter | `BookingTable` |
| Driver pages (`driver/bookings`) | listing, two inputs | start, cancel, collect | an effect that fills inputs from whichever booking comes | `DriverPages` |
| Administrator's panels (`admin/users`, `admin/sms`, `admin/waste`) | dialog, selection, price rows | save, delete, send, save all | late answers, paused calls, two queries in either order | `UsersPanel`, `SmsPanel`, `PricesPanel` |
| Profile and settings pages | form, photo, passkeys, preferences | save, crop, list, choose | forms refilled by new user objects; drawings that end late | `SettingsPages` |
| Photo screening (`booking-image-screening.service.ts`) | none | check the photos of a booking, tell administrators | detached from the create; every kind of answer of the model | `Screening` |
| Partners, Supabase mirror, mail checks, image classification, Prisma connection | little | | | not modelled |

Interactions. Every controller runs behind the throttler, the JWT and role
guards and the cache interceptor. Bookings, driver and admin services share the
`Booking`, `BookingStatusHistory` and `Driver` tables; admin calls rewards; all of
them fire `PushService.notify` without waiting and clear the whole response cache
after a write. In the client every page calls the server through `apiFetch`
(`ClientSession`), the assistant hands its draft to the booking form through
sessionStorage (`BookingAssistant`, composed with `BookingWizard`), and the pages
of signing in share one script (`Recaptcha`). `AdminBookingsController` is in the
source but in no module's `controllers`, so `BookingsService.updateStatus` cannot
be reached: the live routes are those of `AdminController`.

## Modules

How they are put together: a component's module has its constants, variables,
`Init`, one action per handler or step, and its properties; the `MC` modules extend
one or several of them and bound them for TLC. Where several components share one
instance, the names of their variables are distinct and a variable `focus`, chosen in
the initial state, says which of them moves: this is the union of their state
spaces, not a product. Components that do interact are composed for good:
`ClientSession` extends `Sessions`, `BookingWizard` extends `BookingAssistant`,
`SignInPages` extends `Recaptcha`, `BookingTable`, `DriverPages` and `ChatAnswers` use the
statuses of `BookingStatus`, and `Rewards` implements `RewardLedger`.

`BookingServed` and `RewardsServed` extend a component with a variable `alone`: in the
behaviours in which it holds, requests come one at a time, and the properties that code
without locks keeps only then are stated of these.

Mutants, the small wrong variants of a definition with which each property was
tried out, stand right above the definition they alter and are marked; no other
definition uses them.

### BookingLifecycle

The variables `status`, `driverOf`, `weighed`, `priced`, `confirmed` are columns
of `Booking`; `history` is the set of `toStatus` values in
`BookingStatusHistory`; `points` the bookings that have a `PointsTransaction`;
`profile`, `duty`, `pickupCount` the `Driver` row. `req[r]` is a request being
served: its operation, what it read, what it will write, and a program counter.

No handler of the source puts its check and its writes into one transaction, so
a request takes one step per await:

| Step | Code |
|---|---|
| `StartPickup`, `CollectBooking`, `CancelByDriver`, `CancelByCustomer`, `DeleteBooking`, `AdminUpdate`, `Backfill` | the read and every check of the handler, up to its first write |
| `UpdateRow`, `DeleteRow` | `prisma.booking.update` / `delete`, by id alone |
| `RecordStatusHistory` | `recordStatusHistory`, or its copy in `updateBooking` |
| `UpdateDriver` | `pickupCount` and `status` of the driver |
| `AwardRead`, `AwardPoints` | `awardPointsForBooking`: its own read, then its transaction |
| `RowMissing` | the row a write needs is gone: Prisma rejects, the handler ends |
| `Fail` | any other failed await: the handler ends, later writes never happen |
| `CreateBooking`, `ApproveDriver`, `DeleteDriver`, `SetDuty`, `EditDriver` | handlers with a single write that matters here |

`assignDriver` and `updateBookingStatus` of the admin call `updateBooking` with a
part of the body, so `AdminUpdate` stands for the three. A refused request
changes nothing and is left out. The admin body distinguishes what `null`,
"absent" and "a value" do, because the validators let `null` through.
`auto` and `tariff` are free choices: whether the service already knows that the
database has the status ASSIGNED, to which an assignment then advances the booking,
and whether the category has a price with which the amount is computed. The driver that `updateBooking` reads is read in the same
step as the booking. Notifications are sent without being awaited and nothing
here reads them: they are left out. Rows stored under a legacy status name are
not in the initial states: the migrations leave none, and `BookingStatus` keeps the
names only for the filter.

`lost` is a history variable: the bookings one of whose requests failed after its
row was written. Properties that a failure may break mention it.

`PickupsCountedOnce` is about a counter that names no bookings: each pickup counted can be
put down to a booking of its own that was collected or is gone (`PickupOf`), whoever the
driver is by now. `BookingServed` states it, and that moves follow the table, of requests
served one at a time; drivers still come and go between the writes of one.

### Rewards

Several bookings of one customer, with the time at which each was created,
confirmed and awarded. A completion or award under way occupies a `slot`. The award
reads the booking, then asks for "first booking" and "weekly streak" by two
queries that may be answered in either order and at different moments
(`Promise.all`), then inserts. `Confirm` is the write of a completion, which uses
the confirmation time decided earlier (`Complete`). `Legacy` are bookings
completed before `confirmedAt` existed, which the queries count by `createdAt`.
Multipliers are in halves; the worth of a booking is a constant, since weight and
category play no part in any race; the window of the streak is a number of ticks.
`RewardsServed` has one completion or award under way at a time; time passes, and
bookings are created, cancelled and deleted, between its steps. A booking of any
status may be deleted (`Delete`), and its points row goes with it, as the schema's
cascade has it; a call that then wants to write to the row fails (`RowGone`).

`RewardLedger` promises less and more simply: a booking is awarded at most once, an
award never changes, and it disappears only for good (`Close`). `LedgerIsFinal` is
its specification instantiated with `Kept`: the ledger of `Rewards`, in which a
deleted booking is one whose entry is closed. So no call under way awards a booking
that was deleted meanwhile.

### CatalogueCache

`version` counts the writes of each category (its row or its price), so that a
response is the vector of versions it was read at. A `GET` is a miss, an answer of
the database and a fill; between the last two an admin may clear the cache. A price
change writes its items side by side: one may fail, the rest go on, and the error
answer skips the clear. `OtherClear` stands for the clears after bookings, users and
drivers change. `unflushed` and `crossed` are history variables that say why an
entry may be old. Requests with a token are never cached and are left out.

### CursorPages

A list ordered by `createdAt` descending, over which a client moves with the three
buttons of the bookings page. A row's number is its place in the order. Rows
are created, deleted, or leave the filter at any moment; a new row may take any free
place: the bookings of one order are made side by side, some in the same millisecond, and
committed in any order. Prisma's own behaviour is external: it orders rows of the same
time by id as soon as a query has `take`; a cursor row that is missing gives an empty page, a cursor row
outside the filter is still where the page starts and `skip` then drops a row of
the list, and a negative `take` returns rows in the order asked for.

### Accounts

`role`, `email` are columns of `User`; `profiles[u]` the profile tables that have
a row of the user, of which `approved` and `personal` tell what matters of the
row; `booked` that bookings refer to the user, which makes the database refuse
the deletion. A request in `work` carries what it read. What the code does in one
Prisma transaction is one step; `updateUser`, Google's sign-in and
`deleteUser` are several, because they are several statements:

| Step | Code |
|---|---|
| `Register` / `CreateAccount` | the look-up of the address, later the transaction of `register` and of Google's first sign-in |
| `GoogleSignIn`, `GoogleProfile`, `GoogleAvatar`, `GoogleName` | `findOrCreateUserFromGoogle` of a known address: every statement rereads and writes on its own |
| `UpdateMe`, `EditEmail`, `EditProfile` | `UsersService.updateMe`: role read first, the transaction deletes the profiles of all *other* roles |
| `DeleteMe`, `Leave` | `deleteMe`: the anonymising transaction |
| `UpdateUser`, `ReadRole`, `LookForRow`, `SaveProfile` | the administrator's `updateUser` and `ensureRoleProfile` |
| `ChangeUserRole`, `ApproveUser`, `Approve` | one write, or a read and a write |
| `StartRemoval`, `DeleteBookings`, `ClearProfile`, `DeleteRow` | `deleteUser` (nine statements), `rejectUser`, `deleteDriver` |
| `Fails` | any statement fails, later ones never happen |

`moved`, `departed`, `broken`, `reopened` are history: why a user may lack the
profile of the role.

### Sessions and ClientSession

`hash[a]` is the number of the refresh token whose hash the row holds. A job at
the server is served in steps, one for every awaited access to the row, so a
refresh checks the hash and stores a new one in two. bcrypt looks at 72 bytes
only, which the header and the account of a refresh token fill: `Compared` keeps the
account and not the number. (This is why refreshes that run side by side are not
turned away by one another; with every byte compared they would be.) A refresh is also
refused when its token is older than seven days or its account is gone (`CheckRefresh`).

In the browser, `store` is localStorage for all tabs, `cookie` the httpOnly
cookie, `shown` and `loading` the state of each tab's AuthProvider. A call of
`apiFetch` meets a 401 by one refresh and one more attempt
(`StartRefresh`, `TakeTokens`), stores what comes whatever has happened
meanwhile, may be given up (`GiveUp`) while its job goes on, or lose its page
(`OpenPage`, `Forget`). A logout always clears the browser, also when it fails.

### Passkeys

One challenge per account and kind, in memory: `kept`, `expired`. Verifying
requests take it when they arrive (`AnswerArrives`, `consumeChallenge`), then
await the user and the verification (`Check`), then write (`Write`). A request that
bears no answer consumes the challenge as well (`Misanswered`): it is taken before the
body is looked at, and `wasted` remembers it. Cleanup, the five minutes (`Age`) and a
restart happen at any time. The cryptography is a match of
the challenge signed with the one consumed, and of the credential with its owner.

### Recaptcha and SignInPages

`recaptcha.ts` keeps one promise for all forms. `load[l]` is one run of
`loadRecaptcha` over its hosts, with the script found in the document, its own
script, the wait for the API and the callback left with `grecaptcha.ready()`;
`Unload` is `unloadRecaptcha` when the pages of signing in are left. Scripts asked for run
all the same when they arrive (`coming`). The pages add attempts by form, Google
or passkey. An attempt goes on when its page is left and its answer then signs in and
redirects. What the server checks of an attempt is `Verified` (reCAPTCHA) and the
exchange of Google's code with its retries, of which the code redeems once.

### PushSubscriptions

`sub` is what the browser has, `shown` and `hook` what `usePushNotifications`
believes and waits for, `asked` requests on their way or served, some of which the page
no longer waits for, `row` the table, and `old` the endpoints the push service answers
404 or 410 for. These are the ones the browser gave up, and any subscription that
lapsed (`Lapse`), which the browser may go on with. Notifying reads rows, then tries
them side by side: a row whose endpoint is gone is deleted by the id that was read, so
that a switch may stay on over a lapsed subscription without a row. But for that,
a switch that is on has a row of the user who switched it on (`by`).

### StatusAvailability, LaunchNotify, ChatRateLimit

The three fields of `AdminService` that the first caller fills: the flag comes
before the query. An insert raced by a timer that does not stop it. A bucket whose window
begins with a request; refused requests count.

### BookingAssistant and BookingWizard

A message is what the service's parsers find in it: an intent, a category, a
weight, a range and the set of fields its text fills. `Extracted`, `Working` and `Turn`
are the state machine of the booking flow. `HandleChat` reads the flow under
the session key, `BookingTurn` or `GeneralAnswer` write it back after an
await: the waste types or the language model. The box waits for one answer, gives up
after thirty seconds, and `QuestionStands` says when the question shown is
still the one the server expects an answer to.

The form has its steps (`PaperSteps`, `OtherSteps`), the answers that arrive at any
time, the draft that effects apply once there is any price or category, and the submission:
`order` is what was read when Confirm was pressed. A submission is refused before
anything is booked (`PostRefused`), or fails for the page alone (`PostFailed`): the thirty
seconds are over, or a part of the order failed, and what the server has booked or still
books counts in `made` and `unanswered` (`BookedLate`). `BookedOnce` counts both: one form
is booked once unless Confirm was pressed again after such a failure or while the page was
about to be left. `ticked`, `late`, `gaveUp`, `again` are history. Effects run before the
person can act.

### ChatAnswers

A question is the set of signals the regular expressions look for (`Signals`);
`DataTools`, `KnowledgeTools` and `Suggested` are the choice of tools and links, which
depend on the tools that succeeded, `MayRun` and `AllowedRoles` what the tools and the
site's map allow. Three links go with a topic whoever asks about it (`Topical`): the
price list, the reward rules and the booking form. A person signed in is suggested
another only if the person may open it. `pendingCount`
and its kin count over a table of bookings with every stored status, legacy
names included. A turn at the server reads the session before the language model and
stores it after; a model that has gone is replaced by `Discover`, whose find is kept.

### BookingTable, DriverPages

`cache[f]`, `fetch[f]` are the listings TanStack Query keeps by filter; who wants
a listing that is being fetched joins. Calls follow the filter chosen by the time
of their answer when they are the latest of their kind. A deletion takes its row out at
once and puts the listing it found back if it fails (`PutBack`), possibly under
another filter. `DriverPages` keeps which booking each input was copied from or typed for.

### UsersPanel, SmsPanel, PricesPanel

One dialog for all users and one save at a time, which without a network waits and then
takes the user from the page as it is by then. The selection of numbers by
normalised form. Price rows put together from two queries in either order, all sent
by Save.

### SettingsPages

The form filled from the user object (`Refills`: the profile with every new
object, the settings when a value changed), calls of which the last answer wins, those
that only bring a user among them (`Reads`: the token refresh of another request, the
`refreshProfile` of a page left before), which read the row and arrive in two steps.
AuthProvider's first `GET /me` is not one of them: `RequireAuth` shows no page before it
has ended. `AccountIsCurrent` is stated of the last call begun while none was under way
and met by no other, reads included. There are also the photo's dialog with drawings that
are not stopped, passkey listings that overlap, and the preferences a driver's page reads and keeps in two effects.

### Screening

An order makes its rows side by side, then tells and checks pickup after pickup
without waiting for the checks. `Replies` are all 212 kinds of answer a photo may get:
failure, no JSON, or a verdict, an `isWaste`, words and a confidence in every
combination. `Result` and `ShouldAlert` are what the two services make of it; `Vouches` and
`MustBeSeen` say independently what the answer was worth. `AlertFrom` are the
thresholds of the code (45, 55, 70 percent), with which a value above 100
stands for alerts on UNCERTAIN switched off.

## Runs

| Run | Instance | What it shows |
|---|---|---|
| `pair` | 2 requests, 1 booking, 1 active driver; or 1 request at a time, 2 drivers, failures | any two requests overlap, also with deletions: every status is in the history, advanced bookings have a driver unless one was deleted, completed ones are confirmed, points follow a recorded completion. One at a time, statuses follow the table, completions are weighed, a pickup counts once, drivers move their own bookings |
| `failure` | 2 requests, failures, backfill, fairness | a completed booking without points is owed them, and gets them |
| `rewards` | 3 bookings, 1 call at a time; or 2 bookings, 2 calls | each multiplier goes to the booking it was earned by; the ledger implements `RewardLedger`, deletions included |
| `catalogue` | 2 readers, 2 URLs, 2 categories, 1 admin, fairness | a stale response has one of three excuses; stale responses disappear |
| `identity` | 2 accounts, 2 calls, 1 tab, 2 tokens; or 2 owners, 2 passkeys, 3 challenges | refreshes side by side are not turned away; a confirmed logout lasts; tokens, user shown and row agree; only a sign-in switches accounts; a challenge is accepted once and refused for a cause, a request without an answer among them |
| `accounts` | 2 users, 2 requests; or 2 attempts, 2 loads | users have the profile of their role and keep it; the departed stay anonymous; a dashboard is that of the account signed in; the shared script is gone outside the pages of signing in |
| `services` | one part at a time, see below | push switch, browser and row agree, lapsed subscriptions excepted; statuses settle; launch list, rate limit, paging; panels; photos |
| `client` | 2 requests, 5 kinds of message; or a form | nothing asked is skipped, nothing said is lost, a draft reaches the form, what is submitted is complete and booked once, late bookings included |
| `pages` | 2 bookings, 2 filters, 2 changes; a settings page; a chat | what a page shows once it is quiet is what the server or the person last gave it |
| `amount` | violation | `finalAmountLkr: null` completes a booking without an amount |
| `toctou` | violation | two requests take a booking along a pair that is in no table |
| `backward` | violation | the previous page is in the opposite order |

Composite properties are conjunctions of named parts, each with its own comment in
its module (`SessionInv`, `AccountInv`, `PasskeyInv`, `PushInv`, `DraftInv`,
`FormInv`, `SettingsInv`, `ChatInv`, `RowsAreComplete`, `RowsAlone`, ...), so that
one run can ask several related questions of one component.

### Bounds

- `pair`: *one booking* is enough: requests name one booking each and bookings share
  only the driver row, whose `duty` no guard reads. *Two requests* are the least with a
  stale read; what matters most is proved for any number. *Two drivers* where ownership
  is in question. `MaxPickups` 2 allows a booking to be counted twice, which is what is
  excluded; served one at a time, the pickups of both drivers together stay within it,
  and one driver at most is deleted. Bodies are every status alone, every driver alone, a
  driver with one of ASSIGNED, IN_PROGRESS, COMPLETED and CANCELLED, and a driver of null;
  weights only where one request runs at a time. 195 000 states.
- `failure`: one booking, one driver, two requests of every operation, any of which fails. A
  driver's own row is edited, and a booking cancelled, only while no other request is
  under way (`EditsAlone`, `CancelsAlone`): no guard of the other requests reads the
  driver's row, and a cancellation beside another request is in `pair`. 294 000 states.
- `rewards`: *three bookings* for a streak that a third booking follows; one
  completed before `confirmedAt` existed. `MaxTime` 3 with a window of 1 has
  times inside, at the edge of and beyond the window. An odd worth makes 1.5 round. Any of
  the bookings may be cancelled or deleted at any time. 2.0 million states.
- `catalogue`: a fill may overwrite a fresher one, and a clear must reach both
  URLs; `MaxVersion` 2 lets a failed change be followed by one that succeeds.
- `identity`: two accounts and two calls let any call meet another's refresh, logout or
  sign-in, but one call at most signs in at a time; `MaxIssued` 2 with a count that stays
  at 2, which `Compared` does not read; one tab, whose reload drops calls (a second tab
  shares localStorage, and its calls are the second call). Three challenges: an old, a newer
  and another key's. The first owner's passkey is credential 1, the second's is
  credential 2: other beginnings are these renamed. One request at most bears no
  answer, where there are two challenges. 1.7 million states.
- `accounts`: *two users* share an address (`Emails` has one) and are then told apart by what
  is done to them: `focus` says whether both sign up, one is edited, or one is removed.
  Requests on two users, or on an edited one, are of different operations when they
  overlap, registrations excepted; approvals overlap with the edits of the user who is
  removed. *Two attempts*: one to sign in and one to sign up by
  forms, or a form beside Google or a passkey; the second is not retried. *Two loads* are a
  load and the one begun after it was taken away. `MaxExchanges` 3 instead of 5: first,
  middle and last. 700 000 states.
- `services`: push: 2 users, 2 endpoints, 1 notice, at most 2 requests of the browser on
  their way (`Tickets`). Statuses: 3 requests. Launch: 3
  requests, 2 addresses. Rate: a window of 3 ticks, 3 requests, 8 ticks (two windows and more);
  `MaxCount` 7 is beyond twice the limit, the code's count has no bound.
  Paging: 5 rows, pages of 2, three pages with rows that come and go in between. Texts:
  numbers 1 and 2 are one number in two spellings, 3 a foreign one; 2 messages.
  Prices: 2 categories, 2 saves. Photos: 2 pickups, the order's photo shared by both
  and one of the first's own, 2 administrators, all replies. 635 000 states.
- `client`: 5 kinds of message: one that starts with everything it can say, cancel,
  reset, an answer to any question, another category with a weight. A conversation is
  followed to its first draft, and a guest's message overlaps no other; a form until it has
  booked, with Confirm pressed again (`MaxBookings` 2, bookings made late included). One detail is edited by hand, the
  others are set by the draft or the latest booking; the position is asked for while only the
  answers for the list are awaited. 1.1 million states.
- `pages`: `PageSize` 1 and 2 bookings: every listing has a row outside it. `MaxChanges`
  2: a call beside another, or beside a change by others; of the filters one at most is
  without a fresh fetch. Chat: three models, one
  flash, one pro, the configured one; 2 turns; histories of 4 messages (20 in the
  code); questions of up to three signals by five roles; tables of two bookings; settings: two
  reads of the user beside the calls of the page. 1.7 million states.

The bounds that forbid an overlap (`EditsAlone`, `CancelsAlone`, the operations in
`MCAccounts`, `GuestsAlone`, `FewChanges`, the one sign-in at a time) stand in the `MC`
modules only. The theorems below are about the specifications of the components, without
them: what a run leaves out there, the proof covers.

`CHECK_DEADLOCK FALSE` stands where the instance really may stop: bookings are
deleted or completed, time has reached its bound, or everything asked was answered.

### Fairness

`FairSpec` of `BookingLifecycle` has weak fairness of `RequestStep(r)` for every
request: Node's event loop resumes a handler whose awaited call was answered.
Nothing is assumed of clients, administrators or of the backfill, and `Fail` is never
forced. `FairSpec` of `CatalogueCache` has weak fairness of `Expire(u)`, the timer of
an entry, and of `Fill(r)`, a response that already arrived. With `CACHE_TTL=0`
entries never expire and the first assumption fails. The unit of the time to live is
milliseconds; the default 86400 is under a minute and a half. All other runs check
safety only and state no fairness.

## Theorems

Thirty-seven theorems in eight modules, each with the lemmas it rests on, hold for every
value of the constants and for the specifications of the components themselves
(`Spec`, `ServedSpec`, `SessionSpec`, `FormSpec`, ...), not for the bounded next-state relations of the `MC` modules. All are
proved along one argument: the property is seldom inductive, so a strengthening `IInv`
is stated by named parts, and one lemma per action (`...Keeps`) shows that the action
preserves it. What each strengthening adds is what a request, an answer or a timer under
way knows about the state it will meet:

| Module | Theorem | Property | What the inductive invariant adds |
|---|---|---|---|
| `BookingLifecycle_proofs` | `TypeCorrect` | `TypeOK` | `RequestOK`: the data a request carries at each program counter, since a step writes what its request holds |
| | `AwardNeverSkipped` | `AwardIsOwed` | only the types: whoever makes a booking `COMPLETED` goes on to award it, and whoever overwrites the row with `COMPLETED` does so too |
| | `HistoryComplete`, `RewardedWasCompleted` | `HistoryCoversStatus`, `PointsFollowCompletion` | `HistoryInv`: a request saw a booking that existed; one that writes `COLLECTED` over `COLLECTED` needs no new row because there is one; one at its award has recorded the completion |
| | `RowsComplete` | `RowsAreComplete` | `RowsInv`: a request that will write a completion confirms it unless the row was confirmed (`CompletionsConfirm`), and one that will advance a booking names a driver, or knows one (`AdvancesHaveDriver`). `ConfirmedStays`, `DriverStays` and `NoWriteAgain` are the facts that make its stale read harmless |
| | `LoneMoves` | `MovesAlone` | an action property from `AloneInv`: when requests come one at a time, the row is still as the request at its write has read it (`WriteSaw`), so its checks hold of the row it overwrites; drivers may go meanwhile |
| | `LoneRows` | `RowsAlone` | `CountInv`: each pickup counted is put down to a booking of its own, and none yet to the booking whose pickup is about to be counted, since no collected booking returns to an earlier status (`NotYetCollected`). Hypothesis `"editDriver" \notin Ops`: an administrator may set the counter to any number |
| `Rewards_proofs` | `TypeCorrect`, `AwardsAreFinal` | `TypeOK`, `LedgerIsFinal` | `Spec` implements `RewardLedger` under `Promise`: each step leaves the ledger alone, adds a row for a booking that has none and is not deleted, or takes a row with its booking for good |
| | `ServedEarned` | `MultipliersEarned` | `Dated`: nothing bears a time to come; `RowEarned`: what an award was given for is still so; `CallsEarn`: the date a call under way will write comes after those of all awards, and the answers of its two queries still hold |
| `CatalogueCache_proofs` | `TypeCorrect`, `StaleResponses` | `TypeOK`, `StaleIsExcused` | `FillIsExcused`: the same of responses that are read and not yet stored |
| `Identity_proofs` | `CeremoniesHold` | `PasskeyInv` | a challenge is in one place: in memory, at one request, or accepted (`InOnePlace`); the one in memory is the newest of its key (`KeptIsNewest`); one that is gone unanswered lapsed, was superseded, or was wasted on a request without an answer (`GoneForCause`) |
| | `SessionHolds` | `SessionInv` | `JobsFit`: a job does what its call asked and holds a token of the right account; `Honoured`: every token in the browser or on its way is good for a refresh unless its account was logged out; `EndedIsOver`: after a logout nothing is left to refresh by |
| | `CopiesAlwaysAgree` | `CopiesAgree` | `CalmIsOrderly`: while sessions begin and end alone, what answers on their way carry belongs to the account of the store |
| | `RefreshKeepsAccount` | `SwitchBySignIn` | an action property from the same invariant |
| `Accounts_proofs` | `AccountsHold`, `DepartedAnonymous` | `AccountInv`, `DepartedStaysAnonymous` | `WorkOK`: what a request read of its user is still true or was changed by one of the recorded causes (`Seen`), and nobody works on an account whose owner has left and that was not reopened (`Apart`); `RowOK`, `OneHolder` of the tables |
| | `ProfilesAreKept` | `ProfileKept` | an action property: no step takes the profile of the role but the owner's leaving, a removal, and an edit that read another role |
| | `SignInHolds` | `SignInInv` | `AttemptOK`: a code that was redeemed and is exchanged again lost its answer; `PageOK`; `QuietElsewhere`: pages left with nothing under way leave no script |
| `Services_proofs` | `PushHolds` | `PushInv` | `SureOK`: as long as no request was given up, none that would delete the row of the live subscription is on its way; `AskedOK`, `SwitchOK` tie answers to what the page waits for |
| | `StatusesHold` | `StatusInv` | whoever is past the flag finds it set; what is known holds what is stored |
| | `LaunchHolds` | `LaunchInv` | a listed address is there by a request that was told so or told of a time-out |
| | `UsersPanelHolds` | `UsersPanelInv` | the types of the dialog and the save, and that a paused save has waited |
| | `TextsReachOnce` | `TextedOnce` | `ReachedOK`: a recipient of a message is a normalised number; by `OneForm` no number is selected in two spellings |
| | `RowsComeFromPrices` | `RowsFromPrices` | `NoRowNoPrice`: a row that is missing had no price when the query was answered |
| | `ScreeningHolds` | `ScreenInv` | `OrderOK`: the order reads its pickups in turn, after all rows are made; `CheckOK`: what each stage of a check has looked at and found. `SeenAlerts` and `AlertsAreDoubts` are about the services' verdicts on every reply |
| | `RateHolds` | `RateInv` | `WindowOK`, `WindowBefore`: where the window under way and the one before it lie among the times let through; `FarApart`: of twice the limit the last came a window after the first. `Spread` bounds the number of indices by their distance |
| | `PagesHold` | `PagesInv` | `WalkOK`: every row of the start is shown or lies past the next cursor, as long as no cursor row was lost. Its lemmas `NewestFirstIs`, `AfterIs` and `BeforeIs` say what the sorted list of a set is and what a cursor cuts from it |
| `Pages_proofs` | `TableStaysFresh` | `TableIsFresh` | `ComingIsFresh`: the listing on its way to the filter chosen is fresh as well once no call is under way |
| | `CollectsItsOwn` | `TypedForBooking` | `FormIsOpen`: inputs belong to the booking shown while the form is open |
| | `SettingsHold` | `SettingsInv` | `AloneOK`: when one call was begun and no other, its answer is the last word on what the form shows; `PasskeysIInv`, `PrefsIInv` for the listings and the effects that overlap |
| | `ChatHolds` | `ChatInv` | `BoxOK`: the box waits for one turn, and its last message is that turn's question; `TurnKeeps`: a turn has a history of questions with their own answers and answers in the language last shown (`SpokeIn`); `SessionKeeps`: so has the session; `ModelsOK`: what a turn knows of the offer unless it changed. `ToolsAreAccepted`, `RoutesAreAllowed` and `CountsDoAgree` are about the choice of tools and the counts for all questions, roles and tables |
| `Client_proofs` | `DraftsHold` | `DraftInv` | `FlowsOK`, `RequestsOK`: what is stored and what a request has read or will store is a flow the parsers can produce. Its lemmas `ExtractedIs`, `FirstMissingIs`, `TurnIs` say what the operators of the booking flow return, `BoxOK` and `AloneOK` which request the box waits for |
| | `AnswersHold` | `AnswersStand` | two action properties from the same invariant: a flow loses what it has captured only for a stated cause, and range and weight of a paper draft agree. They need `UndisturbedOK`, and that a turn keeps every field it had (`TurnMoves`, `KeptByTurn`) |
| | `FormHolds`, `DraftsReachForm` | `FormInv`, `DraftReachesForm` | `StepsOK`: the step shown exists for what is selected; `ItemsOK`: an item has the id its category is listed with, and nothing is selected while a draft waits; `OrderOK`, `BookedOK`: what was read when Confirm was pressed |

Sorted lists, smallest times and last messages are reasoned about by a smallest
counterexample (`WFMin` of the library), which needs no induction over an operator.

Assumptions. Beside types and distinct values for "nothing", constants are assumed to satisfy:

- `VisitorsAssumption`: no dashboard is a page of signing in or home.
- `PhonesAssumption`: a number written in the form that is dialled is dialled as it is:
  `normalizeSriLankaPhone` (`client/lib/phone.ts`) maps its own results to themselves.
- `PickupsAssumption`: the pickups of an order are numbered 1 to n, as `Promise.all` and the
  loop over its results number them.
- `TableAssumption`: "ALL" is a filter; "no listing", "idle" and "asked" are no listings.
- `SettingsAssumption`: names have two words at least, as the forms ask for; 0, which is
  no photo, is no photo's number.
- `ConversationAssumption`: messages name categories and ranges the parsers know, and a draft
  left in sessionStorage by an earlier conversation is complete: which is what `DraftsHold` shows of
  every draft a conversation leaves.
- `ServedAssumption`: there are finitely many bookings.
- `ChatAssumption`: models are numbered as the provider lists them, bookings in the order of
  their dates, of which there are finitely many; a history keeps more than one message.
- `WizardAssumption`: priced categories are categories, offered ranges are the five.

TLC evaluates each of them in the runs.

Only model-checked:

- `PointsArrive` and `EventuallyFresh`: liveness under fairness is out of the prover's reach.
- The three runs that find a violation.

Every other property of a run is stated by a theorem.

## Where code and documents disagree

- `amount`: the completion check takes the stored amount for a `null` in the body, the
  update then writes the `null` (`admin.service.ts:960`).
- `toctou`: check and update of the same row are separate, in the admin's and in
  the driver's handlers.
- `backward`: `cursorPaginate` reverses rows that Prisma has already put in order.

## Seen on the way

Disagreements and surprises without a run of their own. Properties state the
exception where one touches them.

Bookings and rewards. A customer may cancel a booking that is completed or refunded
(`BookingsService.cancel` looks at the owner only), against
`booking_lifecycle.md:20`. Two completions that overlap each count no other and both
get the first-booking bonus, against `rewards.md:13`. Deleting a driver leaves a booking
`ASSIGNED` without one. Two collect requests that overlap both count the pickup; an
edit racing with a completion can leave it unweighed. A driver stays `ON_PICKUP` when the
customer cancels. The triggers of migration `20260207120000` (lines 324–677)
contradict `20260208105033`; the models take a database made from `schema.prisma`.

Accounts and sessions. `approveUser` of a user with both an admin's and a driver's row
approves the admin's only. `rejectUser` does not check that the user is pending, against
its comment (`admin.service.ts:1380`). A removal that fails half-way leaves a user
without a profile; a Supabase user created before the transaction may be orphaned. A
refresh under way at logout signs the browser in again. `setAuth(null)` of "clear local
auth" throws in `usePushNotifications`.

Signing in. `waitForRecaptchaReady` has no time-out once its callback is left with
`grecaptcha.ready()`: the button may spin for ever and the promise is kept until the pages are
left. A load under way when the pages are left brings script and badge back
elsewhere, against `recaptcha.ts:83`; a load that fails late forgets a newer promise. A
closed Google window leaves `googleLoading` set. An exchange of Google's code
retried after a lost answer is refused. Late attempts sign in and redirect after their
page was left. `/admin/signup` and `/driver/signup` are no "auth pages" for `providers.tsx`.

Photos. An answer that is no JSON is UNCERTAIN with confidence 0 and source
`model`, so it never alerts, although "Fallback results (API failure) should still
alert admins". Keywords are substrings ("cat" in "category", "face" in
"surface"). An expected "E-Waste" does not match a text that says "electronic". A
category that cannot be read leaves later pickups booked, untold and unchecked, the
cache uncleared and the caller with an error whose retry books again. Checks under way are
lost at a restart.

Assistant and form. "1-5 kg" is also read as a date. Less than a kilogram of paper gets the
range of 50 kg and more. The word cancel inside an answer cancels. A category's word in any later
message changes the category; a range is left over when it is changed back. The draft in
sessionStorage survives a logout. A draft applied before the prices makes a
`new-<id>` item; a draft's category that is not listed is lost; paper in the order makes every
item take its weight; coordinates that come late replace a pin; photos of a deselected category
are not sent; Confirm is enabled before the page has left and after a time-out, when the
order may have been booked or be booked yet. Price questions suggest `/admin/waste` to every
role, reward rules `/users/rewards`, the word waste `/users/bookings/new` to drivers, some
answers `/users/notifications` to guests. A driver's active pickups are counted among the
15 oldest bookings only.

Pages. A successful update closes a form opened meanwhile for another user; an update that
waited for a network goes to whichever user is edited by then. `editing` of manage-roles
is never cleared. The selection of numbers survives a change of filter, "select all"
compares sizes, a late success clears what was chosen meanwhile. Deleting a category
with prices or bookings is refused silently and reported as done. Zero rows that Save would
send stand there before the prices have arrived (against `waste/page.tsx:31`). The customer's
table takes a deleted row out under a key nothing reads. The profile page saves the
first two words of a name, the settings all. "Update failed" is also shown when only
the reload failed. The profile form is filled again with every new user object, so that typed text goes when
tokens are refreshed. An answer that comes after the account was deleted puts the old user
back. A driver's settings keep the defaults first and are lost when the page is closed then. A failed
listing of passkeys looks like none. Enable answered after Disable leaves notifications on. A
drawing that ends after the crop dialogue leaves its preview as the photo.

## Not modelled

`PROJECT.json` lists every part with its reason. In short: partners (one statement per
handler, tables nothing else uses); the Supabase mirror (one-way, failures ignored, never
read back); image classification and mail checks (stateless calls); listings, metrics,
leaderboards and summaries that only read; the connection to the database,
throttling, guards and logging (configuration of libraries); the home, help, dashboard and
rewards pages, which show what one request answered; code no request reaches; layout and
wording everywhere. What the language model says and which paragraphs the
knowledge search finds are free choices of the models. A failed database call is an action
wherever a handler has more than one.

## Plan

Done, in this order: `BookingStatus`, `BookingLifecycle`, `RewardLedger`, `Rewards`,
`CatalogueCache`, `CursorPages` with their proofs; `Sessions`, `ClientSession`,
`Passkeys`; `Accounts`; `PushSubscriptions`, `StatusAvailability`, `LaunchNotify`,
`ChatRateLimit`; `BookingAssistant`, `BookingWizard`; `BookingTable`, `DriverPages`, the
panels, `SettingsPages`, `ChatAnswers`; `Screening`, `Recaptcha`, `SignInPages`.

Proved since: every safety property of the runs, `RowsAreComplete` first and those of
`BookingServed`, `RewardsServed`, `ChatRateLimit`, `CursorPages` and `ChatAnswers` last.

To come, most important first:

1. `BookingLifecycle` composed with `RewardLedger`: `points` as a refinement of the set
   of awarded bookings.
2. Reading operations with something to get wrong: the lists, counts and metrics of the
   administrator, the leaderboards and the customer's summary of points.
