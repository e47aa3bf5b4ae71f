# A verification of GoCinema

GoCinema sells seats for shows. It is a Go server (gin, pgx) over one PostgreSQL
database: organizers create shows, draw seat maps and upload posters, viewers book
and cancel seats, administrators moderate shows and refund tickets. This directory
holds TLA+ models of the parts that change state, the TLC runs that check them on
small instances, and proofs that hold for instances of every size.
Paths below are relative to the root of the repository (`src/` here).

Contents: [1 Inventory](#1-inventory), [2 Modules](#2-modules),
[3 Runs](#3-runs), [4 What the runs show](#4-what-the-runs-show),
[5 Proofs](#5-proofs), [6 Not modelled](#6-not-modelled), [7 Plan](#7-plan).

## 1 Inventory

### Components

| Component | State | Operations | Code |
|---|---|---|---|
| Seat booking and release | `seats.status`, `bookings` | BookSeat, CancelBooking, RefundBooking, ReleaseStaleHolds; reads GetShowSeats, GetUserBookings, ListRefunds, ListStaleHolds | `internal/seats` |
| Cancellation of a show | `shows.status`, `seats`, `bookings` | CancelShow | `show_service.go:265`, `show_repo.go:261` |
| Show catalogue | `shows`, poster files | Create, Update, Delete, UploadPoster, CancelShow; reads | `show_service.go`, `show_repo.go`, `show_handler.go` |
| Moderation | `shows.status`, `bookings` | ModerateShow, RefundBooking; reads | `admin_service.go`, `admin_handler.go` |
| Seat maps | `seats` | GenerateSeatMap | `show_service.go:214`, `show_repo.go:224` |
| Accounts and refresh tokens | `users`, `refresh_tokens` | Register, Login, Refresh, Logout | `auth_service.go`, `user_repo.go`, `refresh_token_repo.go` |
| Authentication middleware | none; access tokens are with the clients | AuthMiddleware, RequireRole | `middleware/auth.go`, `jwtutil.go`, `router.go` |
| Stale hold cleaner | a ticker | ReleaseStaleHolds every minute | `cmd/server/main.go:37` |
| Start and shutdown | pool, HTTP server, signal context | start, Shutdown, pool.Close | `cmd/server/main.go:59` |
| Statistics and reports | none | GetByID, GetStats, GetShowSeats, GetStatsByPeriod, ExportReport | `show_service.go`, `show_repo.go`, `admin_repo.go`, `admin_handler.go` |
| Listings | none | List, GetAllShows: filters and pages | `show_repo.go:74`, `admin_repo.go:71` |
| Routing, logging, health | none | wiring | `router.go`, `middleware.go`, `httpx`, `health.go` |

### How they interact

Every request runs in a goroutine of its own and meets the others only in the
database (and, for posters, in a directory). There is no state in memory and no lock
in Go. What orders requests is therefore PostgreSQL at its default isolation level,
READ COMMITTED:

* BookSeat, CancelBooking, RefundBooking and CancelShow are transactions. Inside
  them a plain `SELECT` sees the rows committed at that moment and takes no lock; an
  `UPDATE` or `DELETE` waits for a row that another transaction has written, and then
  looks at the row again. A deferred `Rollback` ends them on every error path.
* Everything else is a sequence of statements that commit one by one: read a row,
  decide in Go, write by id. Other requests come in between.

The components share tables. `shows.status` is written by the catalogue and by
moderation and read by BookSeat; `seats` rows are inserted and deleted by seat maps and
updated by bookings, refunds and cancelled shows; a booking refers to a seat and a show
by foreign keys.

### What is hard, and what makes each part correct

* **Booking.** Racing purchases of a seat, releases that race with each other or with
  a purchase, a crash or failed statement inside a transaction, an answer to COMMIT that
  is lost, transactions that lock several rows. Correct means: a seat is sold to one
  booking at a time; the seat of a live booking is not on sale; a booked seat has a live
  booking that can give it back; a booking's show and seat agree; no lock is left
  behind; the database has no deadlocks to break but those a seat map brings, and they
  fail no refund; every request is answered.
* **Cancelling a show.** It must end bookings that are being made at that moment.
* **Shows.** Writes that were decided on a row that has changed since. Correct
  means: the contract of states in `README.md:28` (`draft -> published -> cancelled`), the
  owner test that holds for the write and not just for the read, no lost edits, no
  poster path without a file, no deleted row that comes back.
* **Seat maps.** Three statements without a transaction against purchases, other maps and
  the deletion of the show; a DELETE that locks seats before its foreign key looks at
  bookings, which all others lock first. Correct means: a whole map or none, nobody's seat
  disappears, and who deadlocks with it gets an error and not a wait without end.
* **Sessions.** Two requests with one refresh token, failures between revoking a token
  and issuing the next, lost answers. Correct means: an account is not taken over, a
  session has at most one token that can be exchanged, and none after logout.
* **Access.** An access token is signed, not stored, so nothing but time ends it; it repeats
  a role that was read at another time. Correct means: a route opens to accounts that were
  registered for it, and a session that is over gets no new token of either kind.
* **Reports.** Reads of one to three statements while maps are replaced, seats sold and
  shows deleted; joins that multiply rows, sums of no rows. Correct means: a report is of
  one whole map, and its figures belong together.
* **Listings.** A total and a page that are read at different times; rows that tie in
  the order of a page; page numbers, sizes and offsets at the limits of an int; periods
  whose last day counts or does not. Correct means: what a client computes from a
  response is right but for the writes in between, and page by page it sees everything once.
* **Server.** A signal during a request, during the cleaner's query, or before the signal
  handler is there; a shutdown that times out; a pool at its limit. Correct means: what
  Shutdown waits for is answered, no transaction is cut off, and the process ends.

`PROJECT.json` lists these hazards one by one, each at its line.

## 2 Modules

| Module | Models | Kind |
|---|---|---|
| `SeatSales` | what booking promises: seats, each held by one booking or nobody | abstract specification |
| `Bookings` | the four transactions and GenerateSeatMap, statement by statement, with row locks, waits and deadlocks | detailed specification, refines `SeatSales` |
| `BookingsProofs` | theorems about `Bookings` | proofs |
| `BookingsWaitProofs` | which of its requests can wait in a circle, that they come on, and what a cancelled show leaves behind | proofs |
| `Shows` | the catalogue and moderation: read, decide, write | specification |
| `ShowsProofs` | theorems about `Shows` | proofs |
| `SeatMaps` | GenerateSeatMap against purchases, releases and deletion | specification |
| `SeatMapsProofs` | theorems about `SeatMaps` and `SeatReports` | proofs |
| `SeatReports` | the reads of a show's seats, composed with `SeatMaps` | specification |
| `Sessions` | Register, Login, Refresh, Logout | specification |
| `SessionsProofs` | theorems about `Sessions` | proofs |
| `Access` | access tokens and the middleware, composed with `Sessions` | detailed specification, refines `Sessions` |
| `AccessProofs` | theorems about `Access`, the refinement included | proofs |
| `Listings` | the two lists of shows, their count and their page | specification |
| `ListingsProofs` | theorems about `Listings` | proofs |
| `Server` | main, the HTTP server, the handlers' use of the pool, the cleaner | specification |
| `ServerProofs` | theorems about `Server` | proofs |
| `MCBookings`, `MCShows`, `MCSeatMaps`, `MCSessions`, `MCListings`, `MCServer` | instances for TLC | model checking |

Conventions shared by all but `Server`: a request is an element of `Request` and runs once,
so a row that an operation inserts is named after the request that inserted it. `call`
holds what the request asks for, `pc` the statement it runs next or its outcome. An
outcome is the sentinel error of the code (`ErrSeatTaken`, ...) or `error` for any
other. `Start...` actions are the handler up to and including its first read, which
decides whether the request goes on; `Abort` or `Fail` is a statement that fails, a
client that goes away (the request's context is cancelled) or the death of the process,
which is nothing but the failure of every request under way. Many atomic steps may
separate two statements of one request. Operators marked `Mutant` are wrong on purpose:
each is a plausible slip in the operator after it, used to see that a property notices.

### Bookings

| TLA+ | Code |
|---|---|
| `showStatus`, `seatStatus`, `booking` | committed `shows.status`, `seats.status` (`none` and `deleted`: there is no row yet, or no more), rows of `bookings` (`refunded`: `reason` and `refunded_at` are not NULL) |
| `showLock`, `seatLock`, `bookingLock` | the transaction that has written the row and has not ended |
| `seatID` | `seatID` in CancelBooking and RefundBooking |
| `batch`, `seatBatch` | the rows that an `UPDATE bookings`, and an `UPDATE` or `DELETE` of the seats of a show, still has to reach |
| `StartBook`, `TakeSeat`/`SeatTaken`, `Commit` | `repository.go:31-80` |
| `StartCancel`, `EndBooking`, `FreeSeat`, `Commit` | `repository.go:83-121` |
| `StartRefund`, `EndBooking`, `FreeSeat`, `Commit` | `repository.go:126-161` |
| `StartCancelShow`, `MarkShow`, `ReadBookings`, `EndOneBooking`, `BookingsEnded`, `FreeOneSeat`, `SeatsFreed`, `Commit` | `show_service.go:265-276`, `show_repo.go:261-301` |
| `StartGenerate`, `ReadSeats`, `DeleteOneSeat`, `SeatsReferred`/`SeatsDeleted`, `InsertSeats` | `show_service.go:214-249`, `show_repo.go:224-255`: what its statements lock and wait for; `SeatMaps` has the maps |
| `WaitsFor`, `Circle`, `BreakDeadlock` | PostgreSQL's waits for row locks, and its deadlock detector |
| `UpdateStatus` | every other write of `shows.status` (Update, ModerateShow), of which `Shows` has the detail |
| `Abort` | a failed statement, the deferred `Rollback` |

A statement takes the locks of the rows it writes; what it writes is computed from the
lock table at `Commit`, when it becomes visible to others. That is sound because no
transaction of this code reads a row it has itself written, except by the `WHERE`
clauses of statements whose result the lock determines. Statements on many rows
(`CancelShow`'s two updates, and the `DELETE` of a seat map) lock row by row, in any order,
because the deadlocks they could cause depend on that order. After its last row the
`DELETE` checks the foreign key `bookings.seat_id`: a booking that refers to one of its seats
fails it, and one that somebody is deleting makes it wait (the check asks for the rows `FOR KEY
SHARE`, which conflicts with the lock of a `DELETE` and not with that of an `UPDATE` of the status).
GenerateSeatMap has no transaction, so each of its statements releases its locks when it
ends. The `INSERT` waits for whoever writes the seats that are there, because all maps have the
place (1, 1) and `UNIQUE (show_id, row, num)` looks at it first. A row that is inserted is invisible to all others until `Commit`, so it
has no lock. A show id or seat id that does not exist behaves as an unpublished show
or a taken seat, and failing `Begin` as `Start...` followed by `Abort`.

Constants say what clients do: `Ops` the operations in use; `SerialRelease`, that two
cancellations or refunds of one booking never run at the same time; `LiveRelease`,
that owners do not cancel a booking that is cancelled already. The last two are
assumptions about clients that the code does **not** enforce; runs and theorems say
where they are made, and section 4 what happens without them.

### Shows

`show` is the table, `files` the poster directory, `read[r]` the row as `GetByID` of
request `r` returned it. `Decision` is every test between the read and the write,
`Written` what the statement makes of the row: `Update` writes title, venue, starts_at
and status as they were read and then edited (`show_repo.go:151-162`), the others write one
column. `starts_at` is read, tested and written like `venue` and is folded into it.
`MaxShow` bounds the ids that `Create` hands out.

### SeatMaps

`seats` is the set of rows of the one show, each with the map it came from, so that a
seat of a new map is not mistaken for the old one. `Layout` and `Price` are the nested
loops of the service; `PricedBy` says the same without a loop, for the property. The
foreign keys, `UNIQUE (show_id, row, num)` and the 65535 parameters of a statement are
guards. `TakeSeat`, `Sell`, `Release`, `CancelShow` are the transactions of `Bookings` as
far as a seat map notices them. The `DELETE` is one step here; the rows it locks one by one and
the deadlocks this leads to are in `Bookings`, and are a `Fail` here.

### SeatReports

A `Reader` runs one read beside the requests of `SeatMaps`, whose steps are unchanged. `report[q]`
is what the response says, `at[q]` the next statement. `Aggregate` and `ReportPeriod` are
single statements, so they see one state of the table; the tests before them, in `StartStats`,
`CheckExists` and `StartDetail`, may have seen another. Whether a show is published, is the
caller's, or starts in a period is left to `Shows` and chosen freely. ExportReport
writes the rows of GetStatsByPeriod as CSV, whose layout is left out.

### Sessions

`account` and `token` are the tables. `session` in a row of `token` is not a column: it is
the login its chain of refreshes goes back to. A client presents tokens whose answer has
reached it, or a made-up one. `Serial` names the logins whose clients have one request of
a session under way at a time, as a browser tab with one refresh timer has; all other
logins race. A lookup that fails before anything is written answers with an error and
changes nothing, so it is not a step of its own: `Fail` is about the writes.

### Access

Every step of `Sessions` also does to roles and access tokens what the code does: `RegisterAs`
writes the column `role`, `IssuePair` signs the id and the role of the row that `GetByLogin`
or `GetByID` has read, which no statement changes after its insertion. `Verdict` is
AuthMiddleware followed by RequireRole with the roles that `router.New` gives it for a
group of routes. `ExpireAccess` is the passing of the claim `exp`. An access token is named
after the request that issued it, as its refresh token is. Signatures are taken to hold.

### Listings

`shows` is the table as `Write` leaves it; who may write is in `Shows`. `Count` is the
first statement of a list, `SelectPage` the second with the response. `Page`, `PageSize`
and `Offset` are what handler and service make of the numbers a client sends: the public
list cuts a size that is too large, the administrators' takes the default instead; both
multiply as an int does, so a large page has an offset that wraps around, which is an
error if it is negative and some other page if it is not. `Matching` is the `WHERE` of both
statements, `Orders` all the sequences that `ORDER BY starts_at` allows, `Cut` what `LIMIT` and
`OFFSET` leave. Search words, venue and organizer are `terms` that a row satisfies or not;
times are ticks, `TicksPerDay` to a day. `MaxInt` is the largest int and `MaxWrites` bounds the
writes between the statements.

### Server

`main` is the next step of `main`, `server` the HTTP server, `stopping` the state of
`stopCtx`, `conns` the holders of pool connections, `visits[r]` how often the handler of `r`
will still go to the pool: once for each statement, once for a whole transaction. What
it does there is in the other modules; here only the connection counts. `GiveUp` is a
visit that fails, is not made because the client is gone, or follows an early return; rows
are closed and transactions rolled back by `defer`, so the connection goes back. `net/http`,
`pgxpool` and the signal handling of Go are external and modelled as this code relies on them:
Shutdown closes the listener, then connections without a request, and waits for the
rest; `pool.Close` refuses new visits and waits for those under way. A request may still
arrive on an old connection between the two steps of Shutdown. `config` is what
the environment says of the cleaner's durations, which are parsed after the server
has started. `Exit` is the end of the process, by `os.Exit`, a panic, a signal or the return
of `main`. Second signals are caught and change nothing, so they are not steps.

## 3 Runs

Safety runs use symmetry in `Request`, whose elements are only ever compared for
equality (`HolderOf` chooses among the live bookings of a seat, and the run that uses
it also checks that there is at most one) and, in `listings`, in `ShowId`. `bookings_all` and `server`, which check liveness, use none. `CHECK_DEADLOCK
FALSE` is in every configuration because requests run once: an instance whose requests
have all been answered stops. That a request waits for ever is excluded by
`RequestsAnswered` instead.

| Run | Instance | Checks |
|---|---|---|
| `bookings_all` | 3 requests of all five kinds, 2 users, 1 show, 2 seats, no assumption about clients, fairness; 0.5 million states | `TypeOK`, `NoSeatLost`, `NoLockOutlivesRequest`, `DeadlocksNeedSeatMaps`, `SaleTakesFreeSeat`, `RequestsAnswered` |
| `bookings_orderly` | 4 requests (Book, Cancel, Refund), 2 shows of a seat each, orderly clients | `BookingsMatchShows`, `NoOverbooking`, `LiveBookingHoldsSeat`, refinement `SellsSeats` |
| `shows` | 4 requests of all kinds, 2 users, 1 show | `TypeOK`, `PosterFileExists`, `PosterOnlyByUpload`, `DeletedStaysDeleted`, `OnlyOwnersWrite`, `StatusChangesAsRead`, `EditsSurvive` |
| `seatmaps` | 4 requests and a reader, 5 inputs, at most 10 parameters (two seats) in a statement; 0.9 million states | `ReportsTypeOK`, `OneWholeMap`, `BookingsKeepSeats`, `SeatsKeepShow`, `ReportsAreOfOneMap` |
| `sessions` | `Access` with 5 requests, a serial and a racing login, 2 passwords, all three roles; 1.4 million states | `AccessTypeOK`, `AccountsKept`, `OneLiveToken`, `NoTokenWhileRotating`, `LogoutEndsSession`, `GateFollowsAccount`, `OverForGood` |
| `listings` | 2 requests with 10 queries, 3 shows with 4 rows, pages of 2 and at most 3, 2 writes, ints of 4 bits; 3.4 million states | `TypeOK`, `TotalFitsItems`, `UntiedOnItsPage`, `PagesFollow`, `PublicSeesWholeDays` |
| `server` | 3 requests of up to two visits and the cleaner on 2 connections, fairness | `TypeOK`, `ShutdownAnswersAll`, `NoVisitCutOff`, `ConnectionsInUse`, `SignalEndsProcess`, `AcceptedAnswered` |
| `bookings_double_cancel` | expected violation | `SeatFreedWithItsBooking` |
| `bookings_refund_then_cancel` | expected violation | `NoOverbooking` |
| `bookings_show_cancelled` | expected violation | `ShowCancelledMeansRefunded` |
| `bookings_refund_list` | expected violation | `RefundsListable` |
| `shows_cancelled` | expected violation | `CancelledIsFinal` |

**Why the bounds are enough.** Four requests let two releases race while a seat is
bought, freed and bought again. Three let CancelShow meet a purchase and its release;
the shortest circle of waits and the shortest lost seat need two, and one more request can wait for
it. Two seats in one show make the statements on many rows run over more than one,
in either order, and seats may be there at first or be inserted later; two shows make a wrong pair of ids possible. For shows, one row is what requests
race for, and four requests are a creation and three that interleave. For seat maps,
four requests give two racing maps and two purchases; the inputs have overlapping
zones, a refused size, a refused price, and one map that is too large; the one reader may
run before, between and after all of their statements. Five requests in
sessions give a registration, a login and three refreshes or logouts that race. In listings,
three shows in pages of two fill one page and begin the next, two of them can tie, two
writes can come between or after the statements of a request, and ints of four bits let an
offset wrap around both to a negative and to a small number. Three
handlers and the cleaner on two connections make half of them wait, and two visits are the
fewest between which a pool can close.

**Fairness.** `FairSpec` has weak fairness of `Proceed(r)` for every request: the goroutine of
a handler runs on, and the database runs its statement once no lock is in the way.
Nothing makes a client send a request (`Receive`) or a statement fail (`Abort`), with one
exception: weak fairness of `BreakDeadlock`. PostgreSQL looks for deadlocks when a lock has been
waited for long enough (`deadlock_timeout`), and fails a transaction on the circle.
Weak fairness is enough in the instance because requests run once, so only finitely many
can overtake a waiter. With an endless stream of requests for one row the answer rests on
PostgreSQL, which queues the waiters for a row; the model does not say that it does.
`FairSpec` of `Server` has weak fairness of the steps of `main`, handlers and the cleaner, and strong
fairness of `Acquire(r)`, because the cleaner can take connections for ever and the pool
serves those who wait in the order they came. It assumes that statements end, which
`CirclesNeedSeatMaps` and PostgreSQL's deadlock detector justify as far as locks go; there is no timeout on statements, and a
database that never answers keeps `pool.Close`, and the process, waiting.

## 4 What the runs show

Holds whatever clients do: a booked seat has a live booking; a booking is made in the
step that takes its seat from free to booked; its show and seat agree; locks end with
their transaction; every request is answered, by an error if the database had to break a
deadlock. That takes the `DELETE` of a seat map: all other statements lock shows before bookings
before seats, and CancelShow, which alone of them takes more than one row of a table,
first locks its show; and no refund is failed for it.
Posters in the table are
on disk; deleted shows stay deleted; only owners and moderators write. A show has one
whole map or none, and a seat with a booking is never deleted. Accounts are not
overwritten and a revoked token stays revoked. A session without a live token and without a
Refresh under way is over for good, also for clients that race with themselves: nothing
brings it another token, and it ends altogether when its access tokens expire. Whoever gets
past the middleware holds a token of an account registered with a role for that group of
routes. A report, however its statements interleave with the replacement of a map, is about
one whole map or none, and so many seats are sold at the prices of that map. The total
of a list is off by no more than the writes between its two statements; a show that
starts at a time of its own is on one page and on no other; the public sees published
shows of whole days. No handler waits for a connection for ever, and
a signal that is caught ends the process; whenever the pool is exhausted, somebody is about
to give a connection back. With durations that are valid, a Shutdown
that returns in time leaves no request unanswered, and one that times out still cuts off
no transaction: it may refuse the later statements of a handler and lose answers.

Holds for clients that release a booking one request at a time and leave refunded
bookings alone, while no show is cancelled: no seat is sold twice and the transactions
implement `SeatSales`. Holds for writes that find the row as they read it: edits of
different fields do not undo each other. Holds for all writes of a show's status: it is one
that the request was allowed from the status it read, where CancelShow is allowed from any
and a moderator may reject a draft. Holds for sessions
with one request at a time: one live token, none after logout.

Five statements of the repository do not hold; each has a run with a counterexample and an
entry in `findings`:

1. `bookings_double_cancel`. `repository.go:82` says CancelBooking atomically deletes a booking
   and frees its seat. Its `SELECT` takes no lock and nobody looks at the row count
   of the `DELETE`, so a second cancellation frees the seat under somebody else's new
   booking. Of orderly clients the comment is true (`OrderlyReleasesAreAtomic`).
2. `bookings_refund_then_cancel`. CancelBooking does not ask for `status = 'booked'`. The owner of
   a refunded booking can cancel it after the seat was sold again; the seat becomes
   free and is sold a second time.
3. `bookings_show_cancelled`. `show_handler.go:314` answers "show cancelled and tickets
   refunded". A purchase that read the show as published and commits after
   CancelShow's `UPDATE bookings` keeps a live booking. No older booking does
   (`CancelShowMissesOnlyNew`).
4. `bookings_refund_list`. CancelShow sets bookings to cancelled and leaves `reason` and
   `refunded_at` NULL; ListRefunds scans both into types that have no NULL. Nothing but
   CancelShow leaves such rows (`RefundsAreListable`).
5. `shows_cancelled`. `README.md:28` says a show goes `draft -> published -> cancelled`. An Update
   decided before CancelShow writes the status it read and revives the show. A cancelled show
   comes back, and a published one goes back to draft, only by such a stale write
   (`StatusesChangeAsRead`).

Two more disagreements were met while modelling and have no run of their own.

* **A draft is cancelled.** `README.md:28` and `model.go:14` know `draft -> published -> cancelled`, and
  Update refuses to cancel a draft (`show_service.go:124-127`). CancelShow asks for no status
  (`show_service.go:265-276`, `show_repo.go:282`) and cancels it, with no race and no stale read; a
  moderator who rejects a draft does so too (`admin_service.go:48`). `StatusChangesAsRead` names both
  as the exceptions from `Contract`.
* **A seat map can deadlock.** `DELETE FROM seats WHERE show_id = $1` (`show_repo.go:234`) locks the seats of a
  show, and its foreign key then waits for a booking that is being deleted; CancelBooking
  deletes the booking first (`repository.go:109`) and then waits for the seat (`:115`). So:
  GenerateSeatMap counts no booked seat; a purchase commits; the DELETE locks its seat;
  CancelBooking deletes the booking and waits for the seat; the check of the DELETE waits for
  the booking. (The booking of a refunded ticket does as well, without a purchase in between.) The
  `DELETE` also locks rows in an order of its own, so two of them, or one and the `UPDATE seats` of a
  CancelShow, can each have a row that the other one wants. The database ends these
  circles after a second by failing one request, which is answered with an internal
  error; `DeadlocksNeedSeatMaps` says that it takes the `DELETE` and never fails a refund, and
  `RequestsAnswered` that nobody waits for ever.

Also met: CancelBooking deletes the row where
`README.md:30` has `booked -> cancelled`; an Update that read a draft makes a published show
a draft again (`show_service_test.go:332` forbids the transition); two refreshes that both
read a token unrevoked both issue a pair, and a refresh that read it before a logout
issues one after (`auth_service_test.go:254` and `:269` test them one after the other);
GenerateSeatMap does not look at the prices of zones, so a negative one is stored, where a
negative price of the map is refused; GetUserBookings selects `s.date`, a column that no
migration creates; nothing ever sets `seats.status` to `held`, so the cleaner has nothing to
clean; `seats.Handler` is not mounted by `router.New`;
shows that start at the same time have no order, so a client that turns the pages may see
one twice and another not at all; an offset that overflows is an error for some pages and
another page for others; the administrators' response repeats the page and size that were
asked for, because the service changes a copy of the filter, so a request without them is
told page 0 of size 0; the administrators' periods (`date_to` of the list, `to` of the
reports) end at the midnight that begins their last day, the public's at the one that ends it;
`HOLD_TTL` and `HOLD_CHECK_INTERVAL` are read when the server already listens (`main.go:117`), so
a value that cannot be parsed, or an interval of zero, on which `time.NewTicker` panics, ends
the process under the requests it has accepted; `main.go:138` logs the end of a graceful
shutdown after one that timed out as well.

## 5 Proofs

All theorems are checked by TLAPS and hold for every set of requests, users, shows,
seats, logins, passwords, maps, tables and queries.

### Bookings (`BookingsProofs`, `BookingsWaitProofs`)

| Theorem | States |
|---|---|
| `TypeCorrect` | `Spec => []TypeOK` |
| `BookingsOfTheRightShow` | `Spec => []BookingsMatchShows` |
| `NoSeatIsLost` | `Spec => []NoSeatLost` |
| `LocksEndWithRequests` | `Spec => []NoLockOutlivesRequest` |
| `SalesTakeFreeSeats` | `Spec => SaleTakesFreeSeat` |
| `NoSeatSoldTwice` | `Orderly /\ Spec => []NoOverbooking` |
| `BookedSeatsAreHeld` | `Orderly /\ Spec => []LiveBookingHoldsSeat` |
| `BookingsSellSeats` | `Orderly /\ Spec => SellsSeats`, the refinement of `SeatSales` |
| `OrderlyReleasesAreAtomic` | `Orderly /\ Spec => SeatFreedWithItsBooking` |
| `RefundsAreListable` | `"CancelShow" \notin Ops /\ Spec => []RefundsListable` |
| `CirclesNeedSeatMaps` | `Spec => []DeadlocksNeedSeatMaps` |
| `SomebodyCanGoOn` | `IsFiniteSet(Request) /\ Spec => []SomebodyUnblocked` |
| `RequestsComeOn` | `Spec => RequestsAdvance` |
| `CancelShowMissesOnlyNew` | `Spec => MissesOnlyNewBookings` |

The only assumption on the constants is `BookingsAssumption` (what `ShowOf` and
`Organizer` range over, and that `None` is not a request, a seat, a row or a call). `Orderly` is
`SerialRelease`, `LiveRelease` and no `CancelShow`; the counterexamples of section 4 show
that none of its three parts can be dropped.

The argument for the theorems of `BookingsProofs`. `TypeInv` adds to `TypeOK` the link between where a request is and which
operation it runs, and that only existing bookings are locked. `LockInv` is what
makes READ COMMITTED work out: a seat locked by a purchase was free when it was locked
and still is, and belongs to the show that was asked for; a lock held by a release is on
the seat it read; a request about to commit holds the locks of everything it is going
to write; a release knows the seat of its booking, because that never changes. From the
two follow `BookingsMatchShows` and `NoSeatLost`, whose inductive step is that no transaction
ends a booking without freeing its seat. `OrderlyInv` adds that at most one release of
a booking is between its read and its end and that the booking is live all that time:
so the seat that it frees is the seat of the booking it ends, and of no other. From that
come the four results that need `Orderly`; for the refinement, a commit of BookSeat is
`Sell`, a commit of a release is `End`, and every other step stutters. `OrderlyReleasesAreAtomic`
and `RefundsAreListable` are the other side of two counterexamples: each says under which
conditions a statement that fails in general is true.

The argument for `CirclesNeedSeatMaps`. A request's rank is the place of its statement in the order
shows, bookings of one show, seats, commit. Whoever is waited for holds
a lock that it took at a statement which the waiter has yet to finish, so it has the
higher rank, unless it is a seat map at its `DELETE`, or the waiter is. That needs `WaitInv`: a
CancelShow past its first statement holds the lock on its show, so two of one show are never
both at its multi-row updates, and those are, beside the `DELETE`, the only statements at which a
request waits while it holds locks of the same table. Ranks are bounded, so every non-empty
set of requests without a `DELETE`, even an infinite one, has one of highest
rank, and that one waits for none of the set: the set is no circle. A refund on a circle would have
its booking and wait for its seat. Who waits for that booking is another release of it, which
holds nothing, or a CancelShow at its `UPDATE bookings`; that one is waited for, on the circle, by
another CancelShow of the same show at that statement, which `WaitInv` excludes. (The foreign key
does not wait for a refund, which changes no key.)

Two theorems follow up. If every one of finitely many requests under way waited, take the
least set of requests each of which waits for one of the set: everybody in it is waited for as
well, or could be left out. So it is a circle; and when there is none, somebody finds the
rows of its next statement unlocked (`SomebodyUnblocked`). And every statement brings its
request to a later statement, or takes a row from those it has left, while no step of
another request sets it back (`RequestsAdvance`). This is what `RequestsAnswered` rests on, without
fairness: nobody is stuck but on a circle that the database breaks, and every step is progress.

`MissesOnlyNewBookings` says how far CancelShow may fail its promise. The bookings it misses are
the live ones of its show that it neither has locked nor has in its batch. There are none
when its UPDATE begins, each later one is an insertion, and those are what is still live
when it commits. So a ticket that is not refunded was sold during the cancellation.

### Shows (`ShowsProofs`)

| Theorem | States |
|---|---|
| `ShowsTypeCorrect` | `Spec => []TypeOK` |
| `PostersExist` | `Spec => []PosterFileExists` |
| `PostersByUpload` | `Spec => PosterOnlyByUpload` |
| `DeletedIsFinal` | `Spec => DeletedStaysDeleted` |
| `OwnersWrite` | `Spec => OnlyOwnersWrite` |
| `EditsAreKept` | `Spec => EditsSurvive` |
| `StatusesChangeAsRead` | `Spec => StatusChangesAsRead` |

The assumption is `ShowsAssumption`: `Ops` are operations, `MaxShow` is a number, and `None`
is no request, status, row or call. Nothing is assumed about clients. What these properties need is
that a row which was read is still worth something when it is written: `ReadOK` says that
a request about to write was allowed to by the row it read, and that this row has the
organizer which the table has now, if the show is still there. It is inductive because
no statement writes `organizer_id`, and because an id that was read lies below `nextId`
(`FreshIds`), so a deleted id is not handed out again. `PosterSaved` says that an upload
writes its path after its file, which makes `PosterFileExists` inductive. `EditsAreKept`
speaks of writes that find the row as it was read, and follows from what `Written` makes of that
row. `StatusChangesAsRead` is about all writes: whatever the row is by now, the new status is one
that the request was allowed from the status that was *read*, by the contract or by one of the
exceptions it names. So a show that is revived, or goes back to draft, got a write that was
decided before somebody else changed its status; a draft that is cancelled need not have.

### Sessions (`SessionsProofs`)

| Theorem | States |
|---|---|
| `SessionsTypeCorrect` | `Spec => []TypeOK` |
| `AccountsAreKept` | `Spec => AccountsKept` |
| `RevocationsStand` | `Spec => RevokedOnce` |
| `OneTokenEach` | `Spec => []OneLiveToken` |
| `NoneWhileRotating` | `Spec => []NoTokenWhileRotating` |
| `LogoutsEndSessions` | `Spec => LogoutEndsSession` |
| `ExchangedTokensAreSpent` | `Spec => []ExchangedIsSpent` |

The assumption is `SessionsAssumption`: `Serial` are logins, and `None` is no request,
password, row or call. `OneLiveToken`, `NoTokenWhileRotating` and `LogoutEndsSession` speak of the sessions of `Serial`
logins, whose clients have one request of a session under way at a time; for others they
are false, as section 4 says. `SerialInv` is inductive only as a whole: in a serial session at most
one request is under way (`OneAtATime`); a Refresh that is about to revoke its
token revokes the only live one (`RevokesLast`); and the two
properties themselves. A Refresh that fails between its two statements leaves no live
token, and a Refresh whose answer is lost leaves one that the client does not know: both
keep the invariant. `ExchangedIsSpent` holds of racing clients too: a token that
was exchanged for another is revoked, so the live tokens of a session, however many a race
has made, are never descendants of each other.

### Access (`AccessProofs`)

| Theorem | States |
|---|---|
| `AccessImplementsSessions` | `AccessSpec => Spec` of `Sessions`, so its theorems hold of `Access` |
| `AccessTypeCorrect` | `AccessSpec => []AccessTypeOK` |
| `GatesFollowAccounts` | `AccessSpec => []GateFollowsAccount` |
| `SessionsEndForGood` | `AccessSpec => OverForGood` |

To the assumption of `Sessions` comes `AccessAssumption`: `Roles` are roles, and `None` is no role
and no claim. `UserOK` says that every account has a role and that the tokens and requests
under way are of accounts; `ClaimsOK`, that an access token has the user of its refresh token
and that user's role. The latter is inductive because roles are written once. For
`SessionsEndForGood`: the step that would give a session another token is `IssuePair` of a
Refresh under way, which `Over` excludes, or of a Login, whose session is new; a Refresh
that starts finds a token that is live, which `Over` excludes as well. That a session may
race with itself does not matter.

### Seat maps (`SeatMapsProofs`)

| Theorem | States |
|---|---|
| `SeatMapsTypeCorrect` | `Spec => []TypeOK` |
| `MapsAreWhole` | `Spec => []OneWholeMap` |
| `BookingsHaveSeats` | `Spec => []BookingsKeepSeats` |
| `SeatsHaveShow` | `Spec => []SeatsKeepShow` |
| `ReadingIsHarmless` | `ReportsSpec => Spec`, so the theorems above hold beside reports |
| `ReportsTypeCorrect` | `ReportsSpec => []ReportsTypeOK` |
| `ReportsOfOneMap` | `ReportsSpec => []ReportsAreOfOneMap` |

The assumption is `SeatMapsAssumption`: what inputs are, that the limit of parameters is a number, and that
`None` is no input, seat or booking. The four properties of maps and the types are inductive together with
`ControlOK`, which says that a map about to be inserted has a first row with a first seat, and that
purchases under way are the ones with a lock, `LocksApart` and `LocksKeepSeats`: no two of them have
one seat, and it is there and free. The seat (1, 1) is what makes two
racing maps exclude each other: both would insert it, and `UNIQUE` lets one of them.
`RowPriced` is the loop over the zones: it picks the first that covers a row, by the least element of
a set of numbers (`LeastNatural`).

Reports speak of sums of prices, which the model computes with a fold over a finite set. What a
fold is for every set is an induction over data, and the library's induction theorems cannot be
instantiated; so the proofs argue by a smallest counterexample instead: among the subsets of a
finite set for which a statement fails there is one below which there is no other (`SmallestSet`),
and taking one seat out of that gives the contradiction. In this way `SumsExist` and `SumsUnique`
establish the function that the fold is, `RevenueAny` that the order of summation does not matter,
and `RevenueImage` that seats that correspond one to one at equal prices have equal sums. `SeatsApart`
adds to the invariant of seat maps that no two seats have one place and that the map of every
seat is complete, so the seats in the table, taken as free, are exactly those of the map of one
request (`SeatsOfOneMap`). A statement that reads them then gives figures that this map explains
(`FiguresExplained`). `ReportsInv` says so of all answers; it is inductive because the input of
a request that has finished never changes, and what an answer says is not touched again.

### Listings (`ListingsProofs`)

| Theorem | States |
|---|---|
| `ListingsTypeCorrect` | `Spec => []TypeOK` |
| `TotalsFit` | `Spec => []TotalFitsItems` |
| `UntiedAreOnTheirPage` | `Spec => []UntiedOnItsPage` |
| `PagesFollowEachOther` | `Spec => []PagesFollow` |
| `PublicPeriods` | `Spec => []PublicSeesWholeDays` |
| `OffsetsFit` | `Page(q) <= MaxInt \div MaxPageSize + 1 => OffsetFits(q)`, and `Offset(q)` is not negative |

The assumption is `ListingsAssumption`: finitely many shows, a positive default size no larger than the
largest, rows and queries of their types, and `None` apart from them. `ListInv` says of each request that its total is as far
from the number of matching rows as writes have come since (`CloseAt`), because one write
moves one row; that an answer that is up to date is the page of an order of the
matching rows (`CurrentAt`); and what the response says of its page (`SaidAt`). The rest is
about orders: the place of a row that ties with no other is given by the number of
earlier ones (`UntiedPlace`), and two orders of one set put rows of the same times at the same
places (`PlacesAgree`), which is why a row on two pages must tie. `OffsetsFit` says for which pages
the condition `OffsetFits` of these properties is met: with 64 bits and pages of at most 100,
for all up to page 92 233 720 368 547 759.

### Server (`ServerProofs`)

| Theorem | States |
|---|---|
| `ServerTypeCorrect` | `Spec => []TypeOK` |
| `ShutdownsAnswerAll` | `Spec => []ShutdownAnswersAll` |
| `VisitsAreFinished` | `Spec => []NoVisitCutOff` |
| `NoConnectionLeaks` | `Spec => []ConnectionsInUse` |
| `PoolComesBack` | `Spec => []SomebodyGivesBack` |

The assumption is `ServerAssumption`: the pool has a connection and the cleaner is no request.
`OrderOK` ties the server and the pool to the step of `main`: nothing listens any more when
the pool closes, so a request that is accepted is one that Shutdown waits for.
`AllAnswered` says that none is in progress from the return of Shutdown on, and `ExitInv` what
every way out of the process owes. `ConnectionsInUse` says that the connections that are out are those
of handlers at a visit and of the cleaner at its query, and no more than there are; it needs
that the cleaner is off until `main` starts it (`CleanerWaits`). As nobody who has a connection
needs a second one, an exhausted pool, or `pool.Close`, waits only for statements that
end (`SomebodyGivesBack`).

### Model-checked only

`RequestsAnswered`, `SignalEndsProcess` and `AcceptedAnswered`: liveness under fairness is out of the
prover's reach. What can be proved towards them without fairness is: `SomebodyCanGoOn` and
`RequestsComeOn` for the first, `PoolComesBack` for the others.

Of the five statements that section 4 refutes, `NoOverbooking`, `SeatFreedWithItsBooking` and `RefundsListable` are
proved under conditions, and `CancelShowMissesOnlyNew` and `StatusesChangeAsRead` are what is true
instead of `ShowCancelledMeansRefunded` and `CancelledIsFinal`.

## 6 Not modelled

* In `Bookings`, `DELETE FROM shows` (`show_repo.go:165`). It locks one show, and its
  foreign key then waits for a seat that is being deleted, which only a seat map does (a seat that
  stays makes it fail at once). So it can be one
  more member of a circle that the `DELETE` of a seat map is on: that `DELETE` waits for the seat of a
  purchase, whose `INSERT INTO bookings` waits for the show that is being deleted, whose foreign key
  waits for the seat map. This is why `DeadlocksNeedSeatMaps` claims nothing for purchases, although in the
  module they are on no circle.
* GetUserBookings: one query, which names a column that does not exist and always fails.
* ListRefunds: one query without a count; its failure on refunds of a cancelled show is
  checked by `bookings_refund_list`, its pages are not modelled.
* ReleaseStaleHolds reaches no row, and ListStaleHolds lists none, as no code writes
  `held`. The cleaner's life is part of `Server`.
* The CSV of ExportReport, the text of responses and the parsing of requests, except where a
  module says what it makes of a number or a date.
* Routing, logging, request ids and health: they change nothing. What the router puts before the
  two groups of routes is in `Access`.
* `RevokeAllForUser` of the token repository and the branch of CancelShow for a database
  without `Begin` are never reached.
* Serialization failures do not occur at READ COMMITTED; other failures of statements are
  `Abort`, `Fail` and `ReadFails`.

## 7 Plan

Done: `SeatSales`, `Bookings`, `Shows`, `SeatMaps`, `Sessions`, `Access`, `Listings` and `Server` with proofs of
all their safety properties; `SeatReports`, proved in `SeatMapsProofs`.

1. The refinement of `SeatSales` by `Bookings` with cancellations of shows, once CancelShow ends
   every booking of its show.
