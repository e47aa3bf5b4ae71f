------------------------------ MODULE Bookings ------------------------------
(***************************************************************************)
(* The requests that lock seats and bookings, as PostgreSQL runs them at   *)
(* READ COMMITTED, one step per SQL statement (per row, for a statement    *)
(* that writes many rows):                                                 *)
(*                                                                         *)
(*   Book             seats.Repository.BookSeat                            *)
(*   Cancel           seats.Repository.CancelBooking, by the owner         *)
(*   Refund           seats.Repository.RefundBooking, by an administrator  *)
(*   CancelShow       ShowService.CancelShow and PgShowRepo.CancelShow     *)
(*   GenerateSeatMap  ShowService and PgShowRepo.GenerateSeatMap           *)
(*                                                                         *)
(* The first four run in a transaction each.  The last commits every       *)
(* statement by itself; what its maps look like is in SeatMaps, what its   *)
(* statements wait for is here.                                            *)
(*                                                                         *)
(* The tables hold committed data only.  A statement that writes a row     *)
(* takes the row's lock and keeps it to the end of the transaction; what   *)
(* it wrote reaches the table at COMMIT.  A statement reads the committed  *)
(* rows without waiting; one that must write a row locked by another       *)
(* transaction waits, and looks at the row again when the lock is free.    *)
(*                                                                         *)
(* A request runs once.  BookSeat inserts at most one booking, so the      *)
(* booking's id is the request that inserted it.                           *)
(***************************************************************************)
EXTENDS Naturals

CONSTANTS
  Request,        \* the HTTP requests, and the ids of the bookings they make
  User,           \* the authenticated callers
  Show,           \* the rows of shows
  Seat,           \* the ids of seats, used once each
  ShowOf,         \* ShowOf[s]: the show_id of seat s
  Organizer,      \* Organizer[h]: the organizer_id of show h
  Ops,            \* the operations the clients use
  SerialRelease,  \* clients never run two releases of one booking at a time
  LiveRelease,    \* owners do not cancel a booking that is cancelled already
  None            \* no row, no transaction, no request

AllOps == {"Book", "Cancel", "Refund", "CancelShow", "GenerateSeatMap"}

\* A row of bookings; refunded says that reason and refunded_at are not NULL.
Row == [show : Show, seat : Seat, user : User,
        status : {"booked", "cancelled"}, refunded : BOOLEAN]

Call == [op : {"Book"}, user : User, show : Show, seat : Seat]
   \cup [op : {"Cancel"}, user : User, booking : Request]
   \cup [op : {"Refund"}, booking : Request]
   \cup [op : {"CancelShow", "GenerateSeatMap"}, user : User, show : Show]

ASSUME BookingsAssumption ==
  /\ ShowOf \in [Seat -> Show]
  /\ Organizer \in [Show -> User]
  /\ Ops \subseteq AllOps
  /\ SerialRelease \in BOOLEAN
  /\ LiveRelease \in BOOLEAN
  /\ None \notin Request \cup Seat \cup Row \cup Call

VARIABLES
  showStatus,   \* shows.status
  seatStatus,   \* seats.status; or the row is not there: not yet, or no more
  booking,      \* booking[b]: the row of bookings with id b, or None
  showLock,     \* showLock[h]: the transaction that wrote row h and has not ended
  seatLock,     \* the same for seats
  bookingLock,  \* the same for bookings
  call,         \* call[r]: what request r, while it is under way, asks for
  pc,           \* pc[r]: the statement r runs next, or the outcome of r
  seatID,       \* seatID[r]: the seat a release read in its booking
  batch,        \* batch[r]: bookings CancelShow's UPDATE has yet to reach
  seatBatch     \* seatBatch[r]: seats the UPDATE or DELETE of r has yet to reach

tables == <<showStatus, seatStatus, booking>>
locks  == <<showLock, seatLock, bookingLock>>
batches == <<batch, seatBatch>>
vars   == <<tables, locks, call, pc, seatID, batches>>

ShowStatus == {"draft", "published", "cancelled"}
SeatStatus == {"free", "booked"}

\* The statements a transaction still has to run ...
Working == {"takeSeat", "endBooking", "freeSeat", "cancelShow",
            "readBookings", "endBookings", "freeSeats", "commit",
            "readSeats", "deleteSeats", "insertSeats"}
\* ... and the outcomes of a request.
Replied == {"ok", "ErrShowNotAvailable", "ErrSeatTaken", "ErrBookingNotFound",
            "ErrForbidden", "error"}

\* The columns and locals, and nothing else.
TypeOK ==
  /\ showStatus \in [Show -> ShowStatus]
  /\ seatStatus \in [Seat -> SeatStatus \cup {"none", "deleted"}]
  /\ booking \in [Request -> Row \cup {None}]
  /\ showLock \in [Show -> Request \cup {None}]
  /\ seatLock \in [Seat -> Request \cup {None}]
  /\ bookingLock \in [Request -> Request \cup {None}]
  /\ call \in [Request -> Call \cup {None}]
  /\ pc \in [Request -> {"new"} \cup Working \cup Replied]
  /\ seatID \in [Request -> Seat \cup {None}]
  /\ batch \in [Request -> SUBSET Request]
  /\ seatBatch \in [Request -> SUBSET Seat]

Init ==
  /\ showStatus = [h \in Show |-> "draft"]
  /\ seatStatus \in [Seat -> {"none", "free"}]
  /\ booking = [b \in Request |-> None]
  /\ showLock = [h \in Show |-> None]
  /\ seatLock = [s \in Seat |-> None]
  /\ bookingLock = [b \in Request |-> None]
  /\ call = [r \in Request |-> None]
  /\ pc = [r \in Request |-> "new"]
  /\ seatID = [r \in Request |-> None]
  /\ batch = [r \in Request |-> {}]
  /\ seatBatch = [r \in Request |-> {}]

Live(b) == booking[b] # None /\ booking[b].status = "booked"

Op(r) == IF call[r] = None THEN "none" ELSE call[r].op

Releasing(r) == pc[r] \in Working /\ Op(r) \in {"Cancel", "Refund"}

-----------------------------------------------------------------------------
(* The conditions of the code's statements, on the committed rows. *)

\* SELECT status FROM shows, and the test that follows it
OnSale(h) == showStatus[h] = "published"

\* Mutants: one of the two tests beside the id is forgotten.
SeatMatchesAnyStatus(c) == ShowOf[c.seat] = c.show
SeatMatchesAnyShow(c) == seatStatus[c.seat] = "free"

\* UPDATE seats ... WHERE id = $1 AND show_id = $2 AND status = 'free'
SeatMatches(c) == ShowOf[c.seat] = c.show /\ seatStatus[c.seat] = "free"

\* SELECT user_id, seat_id FROM bookings WHERE id = $1
CancelFinds(b) == booking[b] # None

\* Mutant: the booking is looked up by its id alone.
RefundFindsAnyStatus(b) == booking[b] # None

\* SELECT seat_id FROM bookings WHERE id = $1 AND status = 'booked'
RefundFinds(b) == Live(b)

\* UPDATE bookings ... WHERE show_id = $1 AND status = 'booked'
ShowBookings(h) == {b \in Request : Live(b) /\ booking[b].show = h}

SeatExists(s) == seatStatus[s] \in SeatStatus

\* UPDATE seats, DELETE FROM seats ... WHERE show_id = $1
ShowSeats(h) == {s \in Seat : SeatExists(s) /\ ShowOf[s] = h}

\* What the foreign key bookings.seat_id asks about the seats that r deletes: the
\* bookings that refer to one of them ...
Referring(r) == {b \in Request : booking[b] # None /\ seatLock[booking[b].seat] = r}

\* ... of which it waits only for those that a transaction is deleting.
BeingDeleted(b) == bookingLock[b] # None /\ Op(bookingLock[b]) = "Cancel"

\* The row locks a transaction gives back when it ends.
Unlock(lock, r) == [x \in DOMAIN lock |-> IF lock[x] = r THEN None ELSE lock[x]]

-----------------------------------------------------------------------------
(* Requests arrive, and read what decides whether they start to write. *)

\* Request r asks for c; its first read is over, and what comes next is p: a
\* statement of c or, without one, the answer.
Start(r, c, p) ==
  /\ c.op \in Ops
  /\ pc[r] = "new"
  /\ call' = [call EXCEPT ![r] = IF p \in Working THEN c ELSE None]
  /\ pc' = [pc EXCEPT ![r] = p]
  /\ UNCHANGED <<tables, locks, batches>>

\* No other release of the same booking is under way, if clients see to that.
ReleaseAllowed(b) ==
  SerialRelease => \A q \in Request : Releasing(q) => call[q].booking # b

\* BookSeat's SELECT: the show must be published.
StartBook(r) ==
  \E u \in User, h \in Show, s \in Seat :
    /\ Start(r, [op |-> "Book", user |-> u, show |-> h, seat |-> s],
             IF OnSale(h) THEN "takeSeat" ELSE "ErrShowNotAvailable")
    /\ UNCHANGED seatID

\* CancelBooking's SELECT and its owner test.
StartCancel(r) ==
  \E u \in User, b \in Request :
    LET p == IF ~CancelFinds(b) THEN "ErrBookingNotFound"
             ELSE IF booking[b].user # u THEN "ErrForbidden"
             ELSE "endBooking"
    IN  /\ ReleaseAllowed(b)
        /\ LiveRelease => booking[b] = None \/ Live(b)
        /\ Start(r, [op |-> "Cancel", user |-> u, booking |-> b], p)
        /\ seatID' = IF p = "endBooking"
                     THEN [seatID EXCEPT ![r] = booking[b].seat] ELSE seatID

\* RefundBooking's SELECT.
StartRefund(r) ==
  \E b \in Request :
    /\ ReleaseAllowed(b)
    /\ Start(r, [op |-> "Refund", booking |-> b],
             IF RefundFinds(b) THEN "endBooking" ELSE "ErrBookingNotFound")
    /\ seatID' = IF RefundFinds(b)
                 THEN [seatID EXCEPT ![r] = booking[b].seat] ELSE seatID

\* ShowService.CancelShow reads the show, whose organizer never changes.
StartCancelShow(r) ==
  \E u \in User, h \in Show :
    /\ Start(r, [op |-> "CancelShow", user |-> u, show |-> h],
             IF Organizer[h] = u THEN "cancelShow" ELSE "ErrForbidden")
    /\ UNCHANGED seatID

\* ShowService.GenerateSeatMap reads the show, and PgShowRepo.GenerateSeatMap
\* counts its booked seats.
StartGenerate(r) ==
  \E u \in User, h \in Show :
    /\ Start(r, [op |-> "GenerateSeatMap", user |-> u, show |-> h],
             IF Organizer[h] # u THEN "ErrForbidden"
             ELSE IF \E s \in ShowSeats(h) : seatStatus[s] = "booked" THEN "ErrSeatTaken"
             ELSE "readSeats")
    /\ UNCHANGED seatID

-----------------------------------------------------------------------------
(* The writing statements. *)

\* The statement of r at p has run and the one at q is next; nothing is published yet.
Statement(r, p, q) ==
  /\ pc[r] = p
  /\ pc' = [pc EXCEPT ![r] = q]
  /\ UNCHANGED <<tables, call, seatID>>

\* Request r is answered: it holds no lock any more, and its locals are gone.
Finish(r, answer) ==
  /\ showLock' = Unlock(showLock, r)
  /\ seatLock' = Unlock(seatLock, r)
  /\ bookingLock' = Unlock(bookingLock, r)
  /\ pc' = [pc EXCEPT ![r] = answer]
  /\ seatID' = [seatID EXCEPT ![r] = None]
  /\ batch' = [batch EXCEPT ![r] = {}]
  /\ seatBatch' = [seatBatch EXCEPT ![r] = {}]
  /\ call' = [call EXCEPT ![r] = None]

\* Mutant: a SELECT takes the place of the UPDATE, and the seat is written later.
TakeSeatNoWait(r) ==
  /\ Statement(r, "takeSeat", "commit")
  /\ SeatMatches(call[r])
  /\ seatLock' = [seatLock EXCEPT ![call[r].seat] = r]
  /\ UNCHANGED <<showLock, bookingLock, batches>>

\* BookSeat takes the seat, if it is free ...
TakeSeat(r) ==
  /\ Statement(r, "takeSeat", "commit")
  /\ SeatMatches(call[r])
  /\ seatLock[call[r].seat] = None
  /\ seatLock' = [seatLock EXCEPT ![call[r].seat] = r]
  /\ UNCHANGED <<showLock, bookingLock, batches>>

\* ... and gives up if its UPDATE reached no row.
SeatTaken(r) ==
  /\ pc[r] = "takeSeat"
  /\ ~SeatMatches(call[r])
  /\ Finish(r, "ErrSeatTaken")
  /\ UNCHANGED tables

\* Mutant: the booking is left as it is.
EndBookingSkipped(r) ==
  /\ Statement(r, "endBooking", "freeSeat")
  /\ UNCHANGED <<locks, batches>>

\* DELETE (Cancel) or UPDATE (Refund) the booking, by id alone.  Nobody looks
\* at the number of rows, which is 0 when the booking is gone meanwhile.
EndBooking(r) ==
  /\ Statement(r, "endBooking", "freeSeat")
  /\ LET b == call[r].booking
     IN  \/ /\ booking[b] # None
            /\ bookingLock[b] = None
            /\ bookingLock' = [bookingLock EXCEPT ![b] = r]
         \/ /\ booking[b] = None
            /\ UNCHANGED bookingLock
  /\ UNCHANGED <<showLock, seatLock, batches>>

\* Mutant: the seat is left as it is.
FreeSeatSkipped(r) ==
  /\ Statement(r, "freeSeat", "commit")
  /\ UNCHANGED <<locks, batches>>

\* UPDATE seats SET status = 'free' WHERE id = the seat that was read; again
\* nobody looks at the number of rows.
FreeSeat(r) ==
  /\ Statement(r, "freeSeat", "commit")
  /\ LET s == seatID[r]
     IN  \/ /\ SeatExists(s)
            /\ seatLock[s] = None
            /\ seatLock' = [seatLock EXCEPT ![s] = r]
         \/ /\ ~SeatExists(s)
            /\ UNCHANGED seatLock
  /\ UNCHANGED <<showLock, bookingLock, batches>>

\* Mutant: CancelShow begins with the bookings and leaves the show for later.
MarkShowLater(r) ==
  /\ Statement(r, "cancelShow", "readBookings")
  /\ UNCHANGED <<locks, batches>>

\* UPDATE shows SET status = 'cancelled' WHERE id = $1.
MarkShow(r) ==
  /\ Statement(r, "cancelShow", "readBookings")
  /\ showLock[call[r].show] = None
  /\ showLock' = [showLock EXCEPT ![call[r].show] = r]
  /\ UNCHANGED <<seatLock, bookingLock, batches>>

\* UPDATE bookings starts: the bookings it sees are those of this moment.
ReadBookings(r) ==
  /\ Statement(r, "readBookings", "endBookings")
  /\ batch' = [batch EXCEPT ![r] = ShowBookings(call[r].show)]
  /\ UNCHANGED <<locks, seatBatch>>

\* It reaches one of them, if the row still matches; if not, it skips it.
EndOneBooking(r) ==
  \E b \in batch[r] :
    /\ \/ /\ b \in ShowBookings(call[r].show)
          /\ bookingLock[b] = None
          /\ bookingLock' = [bookingLock EXCEPT ![b] = r]
       \/ /\ b \notin ShowBookings(call[r].show)
          /\ UNCHANGED bookingLock
    /\ batch' = [batch EXCEPT ![r] = @ \ {b}]
    /\ Statement(r, "endBookings", "endBookings")
    /\ UNCHANGED <<showLock, seatLock, seatBatch>>

\* A statement that writes all seats of a show begins with those of this moment.
SeatsRead(r, p, q) ==
  /\ Statement(r, p, q)
  /\ seatBatch' = [seatBatch EXCEPT ![r] = ShowSeats(call[r].show)]
  /\ UNCHANGED <<locks, batch>>

\* It reaches one of them, if the row is still there; if not, it skips it.
SeatReached(r, p) ==
  \E s \in seatBatch[r] :
    /\ \/ /\ SeatExists(s)
          /\ seatLock[s] = None
          /\ seatLock' = [seatLock EXCEPT ![s] = r]
       \/ /\ ~SeatExists(s)
          /\ UNCHANGED seatLock
    /\ seatBatch' = [seatBatch EXCEPT ![r] = @ \ {s}]
    /\ Statement(r, p, p)
    /\ UNCHANGED <<showLock, bookingLock, batch>>

\* UPDATE seats SET status = 'free' WHERE show_id = $1 follows the last booking.
BookingsEnded(r) ==
  /\ SeatsRead(r, "endBookings", "freeSeats")
  /\ batch[r] = {}

FreeOneSeat(r) == SeatReached(r, "freeSeats")

SeatsFreed(r) ==
  /\ Statement(r, "freeSeats", "commit")
  /\ seatBatch[r] = {}
  /\ UNCHANGED <<locks, batches>>

-----------------------------------------------------------------------------
(* The end of a transaction. *)

\* Mutant: the status of a booking is written to the seat.
SeatWrittenCancelled(r) == IF Op(r) = "Book" THEN "booked" ELSE "cancelled"

\* What the transaction of r wrote: to a seat it locked,
SeatWritten(r) == IF Op(r) = "Book" THEN "booked" ELSE "free"

\* to a booking it locked (Cancel deletes it; only Refund sets reason and
\* refunded_at),
BookingWritten(r, b) ==
  CASE Op(r) = "Cancel" -> None
    [] Op(r) = "Refund" -> [booking[b] EXCEPT !.status = "cancelled",
                                              !.refunded = TRUE]
    [] OTHER -> [booking[b] EXCEPT !.status = "cancelled"]

\* and the booking BookSeat inserts, unlocked because nobody can see it yet.
NewBooking(r) == [show |-> call[r].show, seat |-> call[r].seat,
                  user |-> call[r].user, status |-> "booked", refunded |-> FALSE]

\* COMMIT publishes the writes.  The server may fail to hear of it, and then
\* answers with an error what the database has done.
Commit(r) ==
  /\ pc[r] = "commit"
  /\ showStatus' = [h \in Show |-> IF showLock[h] = r THEN "cancelled"
                                   ELSE showStatus[h]]
  /\ seatStatus' = [s \in Seat |-> IF seatLock[s] = r THEN SeatWritten(r)
                                   ELSE seatStatus[s]]
  /\ booking' = [b \in Request |->
                   IF bookingLock[b] = r THEN BookingWritten(r, b)
                   ELSE IF b = r /\ Op(r) = "Book" THEN NewBooking(r)
                   ELSE booking[b]]
  /\ \E answer \in {"ok", "error"} : Finish(r, answer)

\* Mutant: an early return without the deferred Rollback.
AbortWithoutRollback(r) ==
  /\ pc[r] \in Working
  /\ pc' = [pc EXCEPT ![r] = "error"]
  /\ UNCHANGED <<tables, locks, call, seatID, batches>>

\* A statement fails, the client goes away or the process dies: rollback.
Abort(r) ==
  /\ pc[r] \in Working
  /\ Finish(r, "error")
  /\ UNCHANGED tables

-----------------------------------------------------------------------------
(* The statements of GenerateSeatMap, each a transaction of its own. *)

\* DELETE FROM seats WHERE show_id = $1, row by row ...
ReadSeats(r) == SeatsRead(r, "readSeats", "deleteSeats")

DeleteOneSeat(r) == SeatReached(r, "deleteSeats")

\* ... and then the check of the foreign key, which fails the statement if a
\* booking refers to one of the seats ...
SeatsReferred(r) ==
  /\ pc[r] = "deleteSeats"
  /\ seatBatch[r] = {}
  /\ \E b \in Referring(r) : ~BeingDeleted(b)
  /\ Finish(r, "error")
  /\ UNCHANGED tables

\* ... and waits as long as somebody may be deleting the last that does.
SeatsDeleted(r) ==
  /\ pc[r] = "deleteSeats"
  /\ seatBatch[r] = {}
  /\ Referring(r) = {}
  /\ seatStatus' = [s \in Seat |-> IF seatLock[s] = r THEN "deleted" ELSE seatStatus[s]]
  /\ seatLock' = Unlock(seatLock, r)
  /\ pc' = [pc EXCEPT ![r] = "insertSeats"]
  /\ UNCHANGED <<showStatus, booking, showLock, bookingLock, call, seatID, batches>>

\* INSERT INTO seats.  All maps have the place (1, 1), so it clashes with a map that
\* is there, and waits for whoever writes it.  The new rows have new ids, as many
\* as the model has left.
InsertSeats(r) ==
  /\ pc[r] = "insertSeats"
  /\ \/ /\ \E s \in ShowSeats(call[r].show) : seatLock[s] = None
        /\ Finish(r, "error")
        /\ UNCHANGED seatStatus
     \/ /\ ShowSeats(call[r].show) = {}
        /\ \E new \in SUBSET {s \in Seat : seatStatus[s] = "none" /\ ShowOf[s] = call[r].show} :
             seatStatus' = [s \in Seat |-> IF s \in new THEN "free" ELSE seatStatus[s]]
        /\ \E answer \in {"ok", "error"} : Finish(r, answer)
  /\ UNCHANGED <<showStatus, booking>>

-----------------------------------------------------------------------------
\* Meanwhile the show services write shows.status, each with one statement
\* that looks at the id alone.
UpdateStatus(h) ==
  /\ showLock[h] = None
  /\ \E st \in ShowStatus : showStatus' = [showStatus EXCEPT ![h] = st]
  /\ UNCHANGED <<seatStatus, booking, locks, call, pc, seatID, batches>>

-----------------------------------------------------------------------------
Receive(r) ==
  StartBook(r) \/ StartCancel(r) \/ StartRefund(r) \/ StartCancelShow(r) \/ StartGenerate(r)

Proceed(r) ==
  \/ TakeSeat(r) \/ SeatTaken(r)
  \/ EndBooking(r) \/ FreeSeat(r)
  \/ MarkShow(r) \/ ReadBookings(r) \/ EndOneBooking(r) \/ BookingsEnded(r)
  \/ FreeOneSeat(r) \/ SeatsFreed(r)
  \/ Commit(r)
  \/ ReadSeats(r) \/ DeleteOneSeat(r) \/ SeatsReferred(r) \/ SeatsDeleted(r) \/ InsertSeats(r)

Next ==
  \/ \E r \in Request : Receive(r) \/ Proceed(r) \/ Abort(r)
  \/ \E h \in Show : UpdateStatus(h)

Spec == Init /\ [][Next]_vars

\* Request r may have to wait for a lock that q holds.
WaitsFor(r, q) ==
  \/ pc[r] = "takeSeat" /\ SeatMatches(call[r]) /\ seatLock[call[r].seat] = q
  \/ pc[r] = "endBooking" /\ bookingLock[call[r].booking] = q
  \/ pc[r] = "freeSeat" /\ seatLock[seatID[r]] = q
  \/ pc[r] = "cancelShow" /\ showLock[call[r].show] = q
  \/ pc[r] = "endBookings" /\ \E b \in batch[r] : bookingLock[b] = q
  \/ pc[r] \in {"freeSeats", "deleteSeats"} /\ \E s \in seatBatch[r] : seatLock[s] = q
  \/ /\ pc[r] = "deleteSeats" /\ seatBatch[r] = {}
     /\ \E b \in Referring(r) : BeingDeleted(b) /\ bookingLock[b] = q
  \/ pc[r] = "insertSeats" /\ \E s \in ShowSeats(call[r].show) : seatLock[s] = q

\* The requests of S wait in circles: each for one of them, and one of them for it.
Circle(S) ==
  /\ S # {}
  /\ \A r \in S : (\E q \in S : WaitsFor(r, q)) /\ (\E q \in S : WaitsFor(q, r))

\* The database finds the circle and fails a request on it.
BreakDeadlock ==
  \E S \in SUBSET Request : Circle(S) /\ \E r \in S : Abort(r)

\* The handler's goroutine and the database carry on with a request they have
\* begun, and the database breaks deadlocks; nothing makes clients send requests,
\* or other statements fail.
FairSpec ==
  /\ Spec
  /\ \A r \in Request : WF_vars(Proceed(r))
  /\ WF_vars(BreakDeadlock)

-----------------------------------------------------------------------------
(* Safety, whatever the clients do. *)

\* A booking is for a seat of its own show: BookSeat's UPDATE asks for show_id
\* and seat_id together, so the two ids of a request cannot disagree.
BookingsMatchShows ==
  \A b \in Request : booking[b] # None => booking[b].show = ShowOf[booking[b].seat]

\* No seat is lost: a seat that is booked has a booking that can be cancelled or
\* refunded.  BookSeat writes both in one transaction, and every operation that
\* ends bookings frees the seats of all of them in the same transaction.
NoSeatLost ==
  \A s \in Seat : seatStatus[s] = "booked" =>
    \E b \in Request : Live(b) /\ booking[b].seat = s

\* Only a request that is under way holds row locks: every return of the four
\* transactions commits or runs the deferred Rollback, and GenerateSeatMap's
\* statements are transactions of their own.
NoLockOutlivesRequest ==
  /\ \A h \in Show : showLock[h] # None => pc[showLock[h]] \in Working
  /\ \A s \in Seat : seatLock[s] # None => pc[seatLock[s]] \in Working
  /\ \A b \in Request : bookingLock[b] # None => pc[bookingLock[b]] \in Working

\* A circle takes the DELETE of a seat map.  All other statements lock shows before
\* bookings before seats, and CancelShow, which alone locks many rows of a table, first
\* locks its show.  The DELETE locks many seats, and then its foreign key waits for
\* bookings: it can wait in a circle with a CancelBooking or a CancelShow, and the
\* database fails one of them.  No refund is failed so, although it locks a booking
\* before a seat as a CancelBooking does: it deletes nothing a foreign key waits for.
DeadlocksNeedSeatMaps ==
  \A S \in SUBSET Request : Circle(S) =>
    /\ \E r \in S : pc[r] = "deleteSeats"
    /\ \A r \in S : Op(r) # "Refund"

\* A booking comes into being only together with the sale of its seat: in the
\* same step the seat goes from free to booked, and nobody else gets a booking.
SaleTakesFreeSeat ==
  [][\A b \in Request :
       booking[b] = None /\ booking'[b] # None =>
         /\ seatStatus[booking'[b].seat] = "free"
         /\ seatStatus'[booking'[b].seat] = "booked"
         /\ \A c \in Request \ {b} : booking'[c] = booking[c]]_vars

-----------------------------------------------------------------------------
(* Safety, when nobody cancels shows, the releases of a booking come one     *)
(* after the other, and owners leave refunded bookings alone.                *)

\* A seat is sold to one booking at a time.
NoOverbooking ==
  \A b, c \in Request :
    Live(b) /\ Live(c) /\ booking[b].seat = booking[c].seat => b = c

\* Whoever has a live booking has the seat: it is not on sale.
LiveBookingHoldsSeat ==
  \A b \in Request : Live(b) => seatStatus[booking[b].seat] = "booked"

\* The bookings that hold seat s.
HoldersOf(s) == {b \in Request : Live(b) /\ booking[b].seat = s}

Sales == INSTANCE SeatSales WITH
  Booking <- {{b} : b \in Request}, Nobody <- {}, holder <- [s \in Seat |-> HoldersOf(s)]

\* The tables, transactions and locks implement the sale of seats.
SellsSeats == Sales!Spec

-----------------------------------------------------------------------------
(* Liveness. *)

\* A request that has been received is answered.
RequestsAnswered ==
  \A r \in Request : pc[r] \in Working ~> pc[r] \in Replied

-----------------------------------------------------------------------------
(* What the comments and documents of the code say, and the code does not do. *)

\* "CancelBooking atomically deletes a booking and frees the associated seat":
\* a seat is freed only in the step that ends every live booking on it.
SeatFreedWithItsBooking ==
  [][\A b \in Request :
       LET s == booking[b].seat
       IN  Live(b) /\ seatStatus[s] = "booked" /\ seatStatus'[s] = "free" => ~Live(b)']_vars

\* "show cancelled and tickets refunded": when CancelShow is done the show has
\* no live booking.
ShowCancelledMeansRefunded ==
  [][\A r \in Request, h \in Show :
       /\ Op(r) = "CancelShow" /\ call[r].show = h
       /\ pc[r] = "commit" /\ pc'[r] = "ok"
       => ShowBookings(h)' = {}]_vars

\* ListRefunds scans reason and refunded_at of every cancelled booking into a
\* string and a time, so each must have them for the list to be shown.
RefundsListable ==
  \A b \in Request :
    booking[b] # None /\ booking[b].status = "cancelled" => booking[b].refunded
=============================================================================
