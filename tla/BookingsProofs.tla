--------------------------- MODULE BookingsProofs ---------------------------
(***************************************************************************)
(* What Bookings promises for every set of requests, users, shows and      *)
(* seats, proved.                                                          *)
(***************************************************************************)
EXTENDS Bookings, TLAPS

\* The statement p belongs to the program of operation op.
Fits(p, op) ==
  /\ p \in Working \cup Replied
  /\ p = "takeSeat" => op = "Book"
  /\ p \in {"endBooking", "freeSeat"} => op \in {"Cancel", "Refund"}
  /\ p \in {"cancelShow", "readBookings", "endBookings", "freeSeats"} => op = "CancelShow"
  /\ p \in {"readSeats", "deleteSeats", "insertSeats"} => op = "GenerateSeatMap"
  /\ p = "commit" => op # "GenerateSeatMap"

\* Where a request is in its program tells which operation it runs.
ControlOK ==
  \A r \in Request :
    /\ pc[r] \in Working <=> call[r] # None
    /\ pc[r] \in Working => Fits(pc[r], call[r].op)
    /\ Releasing(r) => seatID[r] \in Seat

\* Only a booking that exists can be locked.
LockedExists == \A b \in Request : bookingLock[b] # None => booking[b] # None

TypeInv == TypeOK /\ ControlOK /\ LockedExists

\* The records of a call, told apart by their field op.
LEMMA CallFields ==
  ASSUME NEW c \in Call
  PROVE  /\ c # None
         /\ c.op \in AllOps
         /\ c.op = "Book" => c.user \in User /\ c.show \in Show /\ c.seat \in Seat
         /\ c.op \in {"Cancel", "Refund"} => c.booking \in Request
         /\ c.op \in {"CancelShow", "GenerateSeatMap"} => c.user \in User /\ c.show \in Show
BY BookingsAssumption DEF Call, AllOps

\* Giving locks back leaves a table of locks.
LEMMA UnlockType ==
  ASSUME NEW S, NEW lock \in [S -> Request \cup {None}], NEW r \in Request
  PROVE  Unlock(lock, r) \in [S -> Request \cup {None}]
BY DEF Unlock

\* The initial state, empty tables and no request, is well typed.
THEOREM TypeInit == Init => TypeInv
<1>. SUFFICES ASSUME Init PROVE TypeInv
  OBVIOUS
<1>1. TypeOK
  <2>1. seatStatus \in [Seat -> SeatStatus \cup {"none", "deleted"}]
    BY DEF Init, SeatStatus
  <2>2. showStatus \in [Show -> ShowStatus]
    BY DEF Init, ShowStatus
  <2>. QED
    BY <2>1, <2>2 DEF Init, TypeOK
<1>2. ControlOK
  <2>1. \A r \in Request : pc[r] \notin Working /\ call[r] = None
    BY DEF Init, Working
  <2>. QED
    BY <2>1 DEF ControlOK, Releasing
<1>3. LockedExists
  BY BookingsAssumption DEF Init, LockedExists
<1>. QED
  BY <1>1, <1>2, <1>3 DEF TypeInv

-----------------------------------------------------------------------------
(* Types: every kind of step keeps them. *)

\* A request that arrives goes to a statement of its own operation.
LEMMA StartType ==
  ASSUME TypeInv, NEW r \in Request, NEW c \in Call, NEW p, Start(r, c, p),
         Fits(p, c.op),
         seatID' \in [Request -> Seat \cup {None}],
         \A q \in Request \ {r} : seatID'[q] = seatID[q],
         p \in Working /\ c.op \in {"Cancel", "Refund"} => seatID'[r] \in Seat
  PROVE  TypeInv'
<1>1. c # None
  BY CallFields
<1>2. TypeOK'
  BY DEF TypeInv, TypeOK, Start, Fits, tables, locks, batches
<1>3. ControlOK'
  <2>. SUFFICES ASSUME NEW q \in Request
                PROVE  /\ pc'[q] \in Working <=> call'[q] # None
                       /\ pc'[q] \in Working => Fits(pc'[q], call'[q].op)
                       /\ Releasing(q)' => seatID'[q] \in Seat
    BY DEF ControlOK, Fits
  <2>1. CASE q = r
    <3>1. pc'[r] = p /\ call'[r] = IF p \in Working THEN c ELSE None
      BY DEF TypeInv, TypeOK, Start
    <3>. QED
      BY <1>1, <2>1, <3>1 DEF Fits, Releasing, Op
  <2>2. CASE q # r
    <3>1. pc'[q] = pc[q] /\ call'[q] = call[q] /\ seatID'[q] = seatID[q]
      BY <2>2 DEF TypeInv, TypeOK, Start
    <3>. QED
      BY <3>1 DEF TypeInv, ControlOK, Releasing, Op
  <2>. QED
    BY <2>1, <2>2
<1>4. LockedExists'
  BY DEF TypeInv, LockedExists, Start, tables, locks
<1>. QED
  BY <1>2, <1>3, <1>4 DEF TypeInv

\* The order of the statements of each operation.
LEMMA Flow ==
  /\ \A p \in {"takeSeat", "endBooking", "freeSeat", "cancelShow", "readBookings",
                "endBookings", "freeSeats", "commit",
                "readSeats", "deleteSeats", "insertSeats"} : p \in Working
  /\ \A op :
       /\ Fits("takeSeat", op) \/ Fits("freeSeat", op) \/ Fits("freeSeats", op) => Fits("commit", op)
       /\ Fits("endBooking", op) => Fits("freeSeat", op)
       /\ Fits("cancelShow", op) => Fits("readBookings", op)
       /\ Fits("readBookings", op) => Fits("endBookings", op)
       /\ Fits("endBookings", op) => Fits("freeSeats", op)
       /\ Fits("readSeats", op) => Fits("deleteSeats", op)
       /\ Fits("deleteSeats", op) => Fits("insertSeats", op)
BY DEF Fits, Working

\* A statement leads to another of the same operation.
LEMMA StatementType ==
  ASSUME TypeInv, NEW r \in Request, NEW p \in Working, NEW q \in Working, Statement(r, p, q),
         \A op : Fits(p, op) => Fits(q, op),
         showLock' \in [Show -> Request \cup {None}],
         seatLock' \in [Seat -> Request \cup {None}],
         bookingLock' \in [Request -> Request \cup {None}],
         batch' \in [Request -> SUBSET Request],
         seatBatch' \in [Request -> SUBSET Seat],
         \A b \in Request : bookingLock'[b] # None =>
           bookingLock[b] # None \/ booking[b] # None
  PROVE  TypeInv'
<1>1. TypeOK'
  BY DEF TypeInv, TypeOK, Statement, tables
<1>2. ControlOK'
  <2>. SUFFICES ASSUME NEW x \in Request
                PROVE  /\ pc'[x] \in Working <=> call'[x] # None
                       /\ pc'[x] \in Working => Fits(pc'[x], call'[x].op)
                       /\ Releasing(x)' => seatID'[x] \in Seat
    BY DEF ControlOK, Fits
  <2>1. call'[x] = call[x] /\ seatID'[x] = seatID[x] /\ pc[r] = p
    BY DEF Statement
  <2>2. CASE x = r
    <3>1. pc'[r] = q
      BY DEF TypeInv, TypeOK, Statement
    <3>. QED
      BY <2>1, <2>2, <3>1 DEF TypeInv, ControlOK, Releasing, Op
  <2>3. CASE x # r
    <3>1. pc'[x] = pc[x]
      BY <2>3 DEF TypeInv, TypeOK, Statement
    <3>. QED
      BY <2>1, <3>1 DEF TypeInv, ControlOK, Releasing, Op
  <2>. QED
    BY <2>2, <2>3
<1>3. LockedExists'
  BY DEF TypeInv, LockedExists, Statement, tables
<1>. QED
  BY <1>1, <1>2, <1>3 DEF TypeInv

\* The end of a transaction forgets its locals and keeps the rest typed.
LEMMA FinishType ==
  ASSUME TypeInv, NEW r \in Request, pc[r] \in Working,
         NEW answer \in Replied, Finish(r, answer),
         showStatus' \in [Show -> ShowStatus],
         seatStatus' \in [Seat -> SeatStatus \cup {"none", "deleted"}],
         booking' \in [Request -> Row \cup {None}],
         \A b \in Request : bookingLock[b] # r /\ booking[b] # None => booking'[b] # None
  PROVE  TypeInv'
<1>1. TypeOK'
  BY UnlockType DEF TypeInv, TypeOK, Finish
<1>2. ControlOK'
  <2>. SUFFICES ASSUME NEW x \in Request
                PROVE  /\ pc'[x] \in Working <=> call'[x] # None
                       /\ pc'[x] \in Working => Fits(pc'[x], call'[x].op)
                       /\ Releasing(x)' => seatID'[x] \in Seat
    BY DEF ControlOK, Fits
  <2>1. CASE x = r
    <3>1. pc'[x] \notin Working /\ call'[x] = None
      BY <2>1 DEF Finish, TypeInv, TypeOK, Working, Replied
    <3>. QED
      BY <3>1 DEF Releasing
  <2>2. CASE x # r
    <3>1. pc'[x] = pc[x] /\ call'[x] = call[x] /\ seatID'[x] = seatID[x]
      BY <2>2 DEF Finish, TypeInv, TypeOK
    <3>. QED
      BY <3>1 DEF TypeInv, ControlOK, Releasing, Op
  <2>. QED
    BY <2>1, <2>2
<1>3. LockedExists'
  BY DEF TypeInv, TypeOK, LockedExists, Finish, Unlock
<1>. QED
  BY <1>1, <1>2, <1>3 DEF TypeInv

\* What BookSeat inserts is a row of bookings.
LEMMA NewBookingType ==
  ASSUME TypeInv, NEW r \in Request, Op(r) = "Book"
  PROVE  NewBooking(r) \in Row /\ NewBooking(r) # None
<1>1. NewBooking(r) \in Row
  BY CallFields DEF NewBooking, Op, TypeInv, TypeOK, Row
<1>. QED
  BY <1>1, BookingsAssumption

\* The steps of a request that has begun are of four kinds: a statement that locks
\* rows or reads them, COMMIT of a transaction, the DELETE of a seat map, which is
\* one of its own, ...
Locking(r) ==
  \/ TakeSeat(r) \/ EndBooking(r) \/ FreeSeat(r)
  \/ MarkShow(r) \/ ReadBookings(r) \/ EndOneBooking(r) \/ BookingsEnded(r)
  \/ FreeOneSeat(r) \/ SeatsFreed(r)
  \/ ReadSeats(r) \/ DeleteOneSeat(r)

\* ... and an end that leaves the bookings alone and at most brings in new seats.
QuietEnd(r) ==
  /\ pc[r] \in Working
  /\ \E answer \in Replied : Finish(r, answer)
  /\ UNCHANGED <<showStatus, booking>>
  /\ seatStatus' \in [Seat -> SeatStatus \cup {"none", "deleted"}]
  /\ \A s \in Seat : seatStatus'[s] = seatStatus[s] \/ (seatStatus[s] = "none" /\ seatStatus'[s] = "free")

LEMMA StepKinds ==
  ASSUME TypeInv, NEW r \in Request, Proceed(r) \/ Abort(r)
  PROVE  Locking(r) \/ Commit(r) \/ SeatsDeleted(r) \/ QuietEnd(r)
<1>1. CASE SeatTaken(r) \/ SeatsReferred(r) \/ Abort(r)
  <2>1. pc[r] \in Working /\ UNCHANGED tables
    BY <1>1, Flow DEF SeatTaken, SeatsReferred, Abort
  <2>2. \E answer \in Replied : Finish(r, answer)
    BY <1>1 DEF SeatTaken, SeatsReferred, Abort, Replied
  <2>3. seatStatus \in [Seat -> SeatStatus \cup {"none", "deleted"}]
    BY DEF TypeInv, TypeOK
  <2>. QED
    BY <2>1, <2>2, <2>3 DEF QuietEnd, tables
<1>2. CASE InsertSeats(r)
  <2>1. pc[r] \in Working /\ UNCHANGED <<showStatus, booking>>
    BY <1>2, Flow DEF InsertSeats
  <2>2. \E answer \in Replied : Finish(r, answer)
    BY <1>2 DEF InsertSeats, Replied
  <2>3. seatStatus \in [Seat -> SeatStatus \cup {"none", "deleted"}]
    BY DEF TypeInv, TypeOK
  <2>4. CASE UNCHANGED seatStatus
    BY <2>1, <2>2, <2>3, <2>4 DEF QuietEnd
  <2>5. CASE \E new \in SUBSET {s \in Seat : seatStatus[s] = "none" /\ ShowOf[s] = call[r].show} :
               seatStatus' = [s \in Seat |-> IF s \in new THEN "free" ELSE seatStatus[s]]
    <3>1. PICK new \in SUBSET {s \in Seat : seatStatus[s] = "none" /\ ShowOf[s] = call[r].show} :
            seatStatus' = [s \in Seat |-> IF s \in new THEN "free" ELSE seatStatus[s]]
      BY <2>5
    <3>2. /\ seatStatus' \in [Seat -> SeatStatus \cup {"none", "deleted"}]
          /\ \A s \in Seat : \/ seatStatus'[s] = seatStatus[s]
                                \/ (seatStatus[s] = "none" /\ seatStatus'[s] = "free")
      BY <2>3, <3>1 DEF SeatStatus
    <3>. QED
      BY <2>1, <2>2, <3>2 DEF QuietEnd
  <2>. QED
    BY <1>2, <2>4, <2>5 DEF InsertSeats
<1>. QED
  BY <1>1, <1>2 DEF Proceed, Locking

\* A statement that locks rows leads to another of the same operation.
LEMMA LockingType ==
  ASSUME TypeInv, NEW r \in Request, Locking(r)
  PROVE  TypeInv'
<1>0. /\ seatLock \in [Seat -> Request \cup {None}] /\ showLock \in [Show -> Request \cup {None}]
      /\ bookingLock \in [Request -> Request \cup {None}]
      /\ batch \in [Request -> SUBSET Request] /\ seatBatch \in [Request -> SUBSET Seat]
  BY DEF TypeInv, TypeOK
<1>. USE Flow DEF locks, batches
<1>1. CASE TakeSeat(r)
  <2>1. seatLock' \in [Seat -> Request \cup {None}]
    BY <1>0, <1>1 DEF TakeSeat
  <2>. QED
    BY <1>0, <1>1, <2>1, StatementType DEF TakeSeat
<1>2. CASE EndBooking(r)
  <2>1. \/ \E b \in Request : /\ booking[b] # None
                             /\ bookingLock' = [bookingLock EXCEPT ![b] = r]
        \/ UNCHANGED bookingLock
    <3>1. call[r].booking \in Request
      BY <1>2, CallFields DEF EndBooking, Statement, TypeInv, TypeOK, ControlOK, Fits
    <3>. QED
      BY <1>2, <3>1 DEF EndBooking
  <2>2. /\ bookingLock' \in [Request -> Request \cup {None}]
        /\ \A b \in Request : bookingLock'[b] # None =>
             bookingLock[b] # None \/ booking[b] # None
    BY <1>0, <2>1
  <2>. QED
    BY <1>0, <1>2, <2>2, StatementType DEF EndBooking
<1>3. CASE FreeSeat(r)
  <2>1. seatLock' \in [Seat -> Request \cup {None}]
    BY <1>0, <1>3 DEF FreeSeat
  <2>. QED
    BY <1>0, <1>3, <2>1, StatementType DEF FreeSeat
<1>4. CASE MarkShow(r)
  <2>1. showLock' \in [Show -> Request \cup {None}]
    BY <1>0, <1>4 DEF MarkShow
  <2>. QED
    BY <1>0, <1>4, <2>1, StatementType DEF MarkShow
<1>5. CASE ReadBookings(r)
  <2>1. batch' \in [Request -> SUBSET Request]
    BY <1>0, <1>5 DEF ReadBookings, ShowBookings
  <2>. QED
    BY <1>0, <1>5, <2>1, StatementType DEF ReadBookings
<1>6. CASE EndOneBooking(r)
  <2>. PICK b \in batch[r] :
         /\ \/ /\ b \in ShowBookings(call[r].show)
               /\ bookingLock' = [bookingLock EXCEPT ![b] = r]
            \/ UNCHANGED bookingLock
         /\ batch' = [batch EXCEPT ![r] = @ \ {b}]
         /\ Statement(r, "endBookings", "endBookings")
         /\ UNCHANGED <<showLock, seatLock, seatBatch>>
    BY <1>6 DEF EndOneBooking
  <2>1. /\ bookingLock' \in [Request -> Request \cup {None}]
        /\ \A x \in Request : bookingLock'[x] # None =>
             bookingLock[x] # None \/ booking[x] # None
    BY <1>0 DEF ShowBookings, Live
  <2>2. batch' \in [Request -> SUBSET Request]
    BY <1>0
  <2>. QED
    BY <1>0, <2>1, <2>2, StatementType
<1>7. ASSUME NEW p \in Working, NEW q \in Working, SeatsRead(r, p, q),
             \A op : Fits(p, op) => Fits(q, op)
      PROVE  TypeInv'
  <2>1. seatBatch' \in [Request -> SUBSET Seat]
    BY <1>0, <1>7 DEF SeatsRead, ShowSeats
  <2>. QED
    BY <1>0, <1>7, <2>1, StatementType DEF SeatsRead
<1>8. ASSUME NEW p \in Working, SeatReached(r, p) PROVE TypeInv'
  <2>1. seatBatch' \in [Request -> SUBSET Seat] /\ seatLock' \in [Seat -> Request \cup {None}]
    BY <1>0, <1>8 DEF SeatReached
  <2>2. Statement(r, p, p) /\ UNCHANGED <<showLock, bookingLock, batch>>
    BY <1>8 DEF SeatReached
  <2>. QED
    BY <1>0, <2>1, <2>2, StatementType
<1>9. CASE BookingsEnded(r) \/ ReadSeats(r)
  BY <1>7, <1>9 DEF BookingsEnded, ReadSeats
<1>10. CASE FreeOneSeat(r) \/ DeleteOneSeat(r)
  BY <1>8, <1>10 DEF FreeOneSeat, DeleteOneSeat
<1>11. CASE SeatsFreed(r)
  BY <1>0, <1>11, StatementType DEF SeatsFreed
<1>. QED
  BY <1>1, <1>2, <1>3, <1>4, <1>5, <1>6, <1>9, <1>10, <1>11 DEF Locking

\* Every step keeps the types and the place of each request in its operation.
THEOREM TypeNext == TypeInv /\ [Next]_vars => TypeInv'
<1>. SUFFICES ASSUME TypeInv, [Next]_vars PROVE TypeInv'
  OBVIOUS
<1>1. ASSUME NEW r \in Request, StartBook(r) PROVE TypeInv'
  <2>. PICK u \in User, h \in Show, s \in Seat :
         /\ Start(r, [op |-> "Book", user |-> u, show |-> h, seat |-> s],
                  IF OnSale(h) THEN "takeSeat" ELSE "ErrShowNotAvailable")
         /\ UNCHANGED seatID
    BY <1>1 DEF StartBook
  <2>1. [op |-> "Book", user |-> u, show |-> h, seat |-> s] \in Call
    BY DEF Call
  <2>. QED
    BY <2>1, StartType DEF Fits, Working, Replied, TypeInv, TypeOK
<1>2. ASSUME NEW r \in Request, StartCancel(r) PROVE TypeInv'
  <2>. PICK u \in User, b \in Request :
         LET p == IF ~CancelFinds(b) THEN "ErrBookingNotFound"
                  ELSE IF booking[b].user # u THEN "ErrForbidden"
                  ELSE "endBooking"
         IN  /\ Start(r, [op |-> "Cancel", user |-> u, booking |-> b], p)
             /\ seatID' = IF p = "endBooking"
                          THEN [seatID EXCEPT ![r] = booking[b].seat] ELSE seatID
    BY <1>2 DEF StartCancel
  <2>1. [op |-> "Cancel", user |-> u, booking |-> b] \in Call
    BY DEF Call
  <2>2. CancelFinds(b) => booking[b].seat \in Seat
    BY DEF CancelFinds, TypeInv, TypeOK, Row
  <2>. QED
    BY <2>1, <2>2, StartType DEF Fits, Working, Replied, TypeInv, TypeOK
<1>3. ASSUME NEW r \in Request, StartRefund(r) PROVE TypeInv'
  <2>. PICK b \in Request :
         /\ Start(r, [op |-> "Refund", booking |-> b],
                  IF RefundFinds(b) THEN "endBooking" ELSE "ErrBookingNotFound")
         /\ seatID' = IF RefundFinds(b)
                      THEN [seatID EXCEPT ![r] = booking[b].seat] ELSE seatID
    BY <1>3 DEF StartRefund
  <2>1. [op |-> "Refund", booking |-> b] \in Call
    BY DEF Call
  <2>2. RefundFinds(b) => booking[b].seat \in Seat
    BY DEF RefundFinds, Live, TypeInv, TypeOK, Row
  <2>. QED
    BY <2>1, <2>2, StartType DEF Fits, Working, Replied, TypeInv, TypeOK
<1>4. ASSUME NEW r \in Request, StartCancelShow(r) PROVE TypeInv'
  <2>. PICK u \in User, h \in Show :
         /\ Start(r, [op |-> "CancelShow", user |-> u, show |-> h],
                  IF Organizer[h] = u THEN "cancelShow" ELSE "ErrForbidden")
         /\ UNCHANGED seatID
    BY <1>4 DEF StartCancelShow
  <2>1. [op |-> "CancelShow", user |-> u, show |-> h] \in Call
    BY DEF Call
  <2>. QED
    BY <2>1, StartType DEF Fits, Working, Replied, TypeInv, TypeOK
<1>5. ASSUME NEW r \in Request, StartGenerate(r) PROVE TypeInv'
  <2>. PICK u \in User, h \in Show :
         /\ Start(r, [op |-> "GenerateSeatMap", user |-> u, show |-> h],
                  IF Organizer[h] # u THEN "ErrForbidden"
                  ELSE IF \E s \in ShowSeats(h) : seatStatus[s] = "booked" THEN "ErrSeatTaken"
                  ELSE "readSeats")
         /\ UNCHANGED seatID
    BY <1>5 DEF StartGenerate
  <2>1. [op |-> "GenerateSeatMap", user |-> u, show |-> h] \in Call
    BY DEF Call
  <2>. QED
    BY <2>1, StartType DEF Fits, Working, Replied, TypeInv, TypeOK
<1>6. ASSUME NEW r \in Request, Locking(r) PROVE TypeInv'
  BY <1>6, LockingType
<1>7. ASSUME NEW r \in Request, Commit(r) PROVE TypeInv'
  <2>1. showStatus' \in [Show -> ShowStatus]
    BY <1>7 DEF Commit, TypeInv, TypeOK, ShowStatus
  <2>2. seatStatus' \in [Seat -> SeatStatus \cup {"none", "deleted"}]
    BY <1>7 DEF Commit, TypeInv, TypeOK, SeatWritten, SeatStatus
  <2>3. Op(r) = "Book" => NewBooking(r) \in Row /\ NewBooking(r) # None
    BY NewBookingType
  <2>4. ASSUME NEW b \in Request, bookingLock[b] = r
        PROVE  BookingWritten(r, b) \in Row \cup {None}
    <3>1. booking[b] \in Row
      BY <2>4, BookingsAssumption DEF TypeInv, TypeOK, LockedExists
    <3>2. /\ [booking[b] EXCEPT !.status = "cancelled"] \in Row
          /\ [booking[b] EXCEPT !.status = "cancelled", !.refunded = TRUE] \in Row
      BY <3>1 DEF Row
    <3>. QED
      BY <3>2 DEF BookingWritten
  <2>5. booking' \in [Request -> Row \cup {None}]
    BY <1>7, <2>3, <2>4 DEF Commit, TypeInv, TypeOK
  <2>6. \A b \in Request : bookingLock[b] # r /\ booking[b] # None => booking'[b] # None
    BY <1>7, <2>3 DEF Commit
  <2>. PICK answer \in {"ok", "error"} : Finish(r, answer)
    BY <1>7 DEF Commit
  <2>. QED
    BY <1>7, <2>1, <2>2, <2>5, <2>6, FinishType DEF Commit, Working, Replied
<1>8. ASSUME NEW r \in Request, SeatsDeleted(r) PROVE TypeInv'
  <2>1. TypeOK'
    <3>1. seatLock' \in [Seat -> Request \cup {None}]
      BY <1>8, UnlockType DEF SeatsDeleted, TypeInv, TypeOK
    <3>2. seatStatus' \in [Seat -> SeatStatus \cup {"none", "deleted"}]
      BY <1>8 DEF SeatsDeleted, TypeInv, TypeOK
    <3>3. pc' \in [Request -> {"new"} \cup Working \cup Replied]
      BY <1>8, Flow DEF SeatsDeleted, TypeInv, TypeOK
    <3>. QED
      BY <1>8, <3>1, <3>2, <3>3 DEF SeatsDeleted, TypeInv, TypeOK, batches
  <2>2. /\ pc'[r] = "insertSeats" /\ call[r] # None /\ call[r].op = "GenerateSeatMap"
        /\ \A q \in Request \ {r} : pc'[q] = pc[q]
        /\ UNCHANGED <<call, seatID, booking, bookingLock>>
    BY <1>8 DEF SeatsDeleted, TypeInv, TypeOK, ControlOK, Fits, Working
  <2>3. Fits("insertSeats", "GenerateSeatMap") /\ "insertSeats" \in Working
    BY DEF Fits, Working
  <2>4. ControlOK'
    <3>. SUFFICES ASSUME NEW x \in Request
                  PROVE  /\ pc'[x] \in Working <=> call'[x] # None
                         /\ pc'[x] \in Working => Fits(pc'[x], call'[x].op)
                         /\ Releasing(x)' => seatID'[x] \in Seat
      BY DEF ControlOK, Fits
    <3>. QED
      BY <2>2, <2>3 DEF TypeInv, ControlOK, Releasing, Op
  <2>5. LockedExists'
    BY <2>2 DEF TypeInv, LockedExists
  <2>. QED
    BY <2>1, <2>4, <2>5 DEF TypeInv
<1>9. ASSUME NEW r \in Request, QuietEnd(r) PROVE TypeInv'
  <2>. PICK answer \in Replied : Finish(r, answer)
    BY <1>9 DEF QuietEnd
  <2>. QED
    BY <1>9, FinishType DEF QuietEnd, TypeInv, TypeOK
<1>10. ASSUME NEW h \in Show, UpdateStatus(h) PROVE TypeInv'
  <2>1. UNCHANGED <<seatStatus, booking, showLock, seatLock, bookingLock, call, pc, seatID, batch, seatBatch>>
    BY <1>10 DEF UpdateStatus, locks, batches
  <2>2. showStatus' \in [Show -> ShowStatus]
    BY <1>10 DEF UpdateStatus, TypeInv, TypeOK
  <2>3. TypeOK'
    BY <2>1, <2>2 DEF TypeInv, TypeOK
  <2>. QED
    BY <2>1, <2>3 DEF TypeInv, ControlOK, LockedExists, Releasing, Op, Fits
<1>11. CASE UNCHANGED vars
  BY <1>11 DEF vars, tables, locks, batches, TypeInv, TypeOK, ControlOK, LockedExists, Releasing, Op, Fits
<1>. QED
  BY <1>1, <1>2, <1>3, <1>4, <1>5, <1>6, <1>7, <1>8, <1>9, <1>10, <1>11, StepKinds DEF Next, Receive

\* Every variable keeps its type.
THEOREM TypeCorrect == Spec => []TypeOK
<1>1. TypeInv => TypeOK
  BY DEF TypeInv
<1>. QED
  BY <1>1, TypeInit, TypeNext, PTL DEF Spec

-----------------------------------------------------------------------------
(* Who holds which lock, and what the holder knows about the row. *)

\* A booking in the table was inserted by a request that has its answer, ...
BookingAnswered == \A b \in Request : booking[b] # None => pc[b] \in Replied

\* ... and its seat is there, as the foreign key has it.
BookingSeatExists == \A b \in Request : booking[b] # None => SeatExists(booking[b].seat)

\* A release has found its booking and read its seat, which never changes.
ReleaseSeatOK ==
  \A r \in Request : Releasing(r) =>
    /\ pc[call[r].booking] \in Replied
    /\ booking[call[r].booking] # None => booking[call[r].booking].seat = seatID[r]
    /\ seatStatus[seatID[r]] # "none"

\* A transaction locks a show only to cancel it.
ShowLockOK ==
  \A h \in Show, r \in Request : showLock[h] = r =>
    pc[r] \in {"readBookings", "endBookings", "freeSeats", "commit"}

\* A seat is locked by the transaction that sells it, which found it free, by the one
\* that ends a booking on it, or by one that cancels its show or deletes its map.
SeatLockedFor(s, r) ==
  \/ /\ Op(r) = "Book" /\ pc[r] = "commit"
     /\ s = call[r].seat /\ ShowOf[s] = call[r].show /\ seatStatus[s] = "free"
  \/ /\ Op(r) \in {"Cancel", "Refund"} /\ pc[r] = "commit"
     /\ s = seatID[r]
  \/ /\ Op(r) = "CancelShow" /\ pc[r] \in {"freeSeats", "commit"}
     /\ ShowOf[s] = call[r].show
  \/ /\ Op(r) = "GenerateSeatMap" /\ pc[r] = "deleteSeats"
     /\ ShowOf[s] = call[r].show

SeatLockOK ==
  \A s \in Seat, r \in Request : seatLock[s] = r => SeatExists(s) /\ SeatLockedFor(s, r)

\* A booking is locked by the transaction that ends it.
BookingLockOK ==
  \A b, r \in Request : bookingLock[b] = r =>
    \/ /\ Op(r) \in {"Cancel", "Refund"} /\ pc[r] \in {"freeSeat", "commit"}
       /\ b = call[r].booking
    \/ /\ Op(r) = "CancelShow" /\ pc[r] \in {"endBookings", "freeSeats", "commit"}
       /\ booking[b].show = call[r].show

\* Whoever is about to commit has locked the seats it sells or frees, if they are
\* still there.
CommitReady ==
  \A r \in Request : pc[r] = "commit" =>
    /\ Op(r) = "Book" => seatLock[call[r].seat] = r
    /\ Op(r) \in {"Cancel", "Refund"} =>
         seatStatus[seatID[r]] = "deleted" \/ seatLock[seatID[r]] = r

\* CancelShow has reached, or is going to reach, the seats of the bookings it ends.
CancelReady ==
  \A r, b \in Request : pc[r] \in {"freeSeats", "commit"} /\ bookingLock[b] = r /\ Op(r) = "CancelShow" =>
    \/ seatLock[booking[b].seat] = r
    \/ pc[r] = "freeSeats" /\ booking[b].seat \in seatBatch[r]

LockInv == BookingAnswered /\ BookingSeatExists /\ ReleaseSeatOK /\ ShowLockOK /\ SeatLockOK
             /\ BookingLockOK /\ CommitReady /\ CancelReady

\* At first no row is locked and nothing is under way.
THEOREM LockInit == Init => LockInv
BY BookingsAssumption
DEF Init, LockInv, BookingAnswered, BookingSeatExists, ReleaseSeatOK, ShowLockOK, SeatLockOK,
    BookingLockOK, CommitReady, CancelReady, Releasing, Working

\* A request that arrives takes no lock and disturbs none.
LEMMA StartLock ==
  ASSUME TypeInv, LockInv, NEW r \in Request, NEW c \in Call, NEW p, Start(r, c, p),
         p \in {"takeSeat", "endBooking", "cancelShow", "readSeats"} \cup Replied,
         \A q \in Request \ {r} : seatID'[q] = seatID[q],
         p \in Working /\ c.op \in {"Cancel", "Refund"} =>
           booking[c.booking] # None /\ booking[c.booking].seat = seatID'[r]
  PROVE  LockInv'
<1>1. /\ c # None /\ pc[r] = "new" /\ pc'[r] = p
      /\ call'[r] = IF p \in Working THEN c ELSE None
  BY CallFields DEF TypeInv, TypeOK, Start
<1>2. \A q \in Request \ {r} :
        pc'[q] = pc[q] /\ call'[q] = call[q] /\ seatID'[q] = seatID[q]
  BY DEF TypeInv, TypeOK, Start
<1>3. UNCHANGED <<seatStatus, booking, showLock, seatLock, bookingLock, seatBatch>>
  BY DEF Start, tables, locks, batches
<1>4. BookingAnswered' /\ BookingSeatExists'
  BY <1>1, <1>2, <1>3 DEF LockInv, BookingAnswered, BookingSeatExists, SeatExists, Replied
<1>5. ReleaseSeatOK'
  <2>. SUFFICES ASSUME NEW q \in Request, Releasing(q)'
                PROVE  /\ pc'[call'[q].booking] \in Replied
                       /\ booking'[call'[q].booking] # None => booking'[call'[q].booking].seat = seatID'[q]
                       /\ seatStatus'[seatID'[q]] # "none"
    BY DEF ReleaseSeatOK
  <2>1. CASE q = r
    <3>1. call'[r] = c /\ p \in Working /\ c.op \in {"Cancel", "Refund"}
      BY <1>1, <2>1 DEF Releasing, Op
    <3>2. PICK b \in Request : b = c.booking
      BY <3>1, CallFields
    <3>3. /\ booking[b] # None /\ booking[b].seat = seatID'[r] /\ pc[b] \in Replied
          /\ SeatExists(booking[b].seat)
      BY <3>1, <3>2 DEF LockInv, BookingAnswered, BookingSeatExists
    <3>4. b # r
      BY <1>1, <3>3 DEF Replied
    <3>. QED
      BY <1>2, <1>3, <2>1, <3>1, <3>2, <3>3, <3>4 DEF SeatExists, SeatStatus
  <2>2. CASE q # r
    <3>1. Releasing(q) /\ call'[q] = call[q] /\ seatID'[q] = seatID[q]
      BY <1>2, <2>2 DEF Releasing, Op
    <3>2. PICK b \in Request : b = call[q].booking
      BY <3>1, CallFields DEF Releasing, Op, TypeInv, TypeOK
    <3>3. /\ pc[b] \in Replied /\ (booking[b] # None => booking[b].seat = seatID[q])
          /\ seatStatus[seatID[q]] # "none"
      BY <3>1, <3>2 DEF LockInv, ReleaseSeatOK
    <3>4. b # r
      BY <1>1, <3>3 DEF Replied
    <3>. QED
      BY <1>2, <1>3, <3>1, <3>2, <3>3, <3>4
  <2>. QED
    BY <2>1, <2>2
<1>6. ShowLockOK'
  BY <1>1, <1>2, <1>3 DEF LockInv, ShowLockOK
<1>7. SeatLockOK'
  BY <1>1, <1>2, <1>3 DEF LockInv, SeatLockOK, SeatLockedFor, SeatExists, Op
<1>8. BookingLockOK'
  BY <1>1, <1>2, <1>3 DEF LockInv, BookingLockOK, Op
<1>9. CommitReady'
  BY <1>1, <1>2, <1>3 DEF LockInv, CommitReady, Op, Replied
<1>10. CancelReady'
  BY <1>1, <1>2, <1>3 DEF LockInv, CancelReady, Op, Replied
<1>. QED
  BY <1>4, <1>5, <1>6, <1>7, <1>8, <1>9, <1>10 DEF LockInv

\* A statement that locks seats of a show reaches them one by one.
LEMMA SeatReachedLock ==
  ASSUME TypeInv, LockInv, NEW r \in Request, NEW p \in {"freeSeats", "deleteSeats"},
         SeatReached(r, p), \A s \in seatBatch[r] : ShowOf[s] = call[r].show
  PROVE  LockInv'
<1>. PICK s \in seatBatch[r] :
       /\ \/ /\ SeatExists(s)
             /\ seatLock[s] = None
             /\ seatLock' = [seatLock EXCEPT ![s] = r]
          \/ /\ ~SeatExists(s)
             /\ UNCHANGED seatLock
       /\ seatBatch' = [seatBatch EXCEPT ![r] = @ \ {s}]
       /\ Statement(r, p, p)
       /\ UNCHANGED <<showLock, bookingLock, batch>>
  BY DEF SeatReached
<1>1. /\ s \in Seat /\ ShowOf[s] = call[r].show /\ pc[r] = p
      /\ call[r].op = IF p = "freeSeats" THEN "CancelShow" ELSE "GenerateSeatMap"
      /\ Op(r) = call[r].op
  BY DEF TypeInv, TypeOK, ControlOK, Fits, Statement, Op, Working
<1>2. UNCHANGED <<seatStatus, booking, call, seatID, pc, showLock, bookingLock>>
  BY <1>1 DEF Statement, tables, TypeInv, TypeOK
<1>3. \A t \in Seat : seatLock'[t] = seatLock[t] \/ (t = s /\ seatLock[t] = None /\ seatLock'[t] = r /\ SeatExists(s))
  BY DEF TypeInv, TypeOK
<1>4. /\ \A q \in Request \ {r} : seatBatch'[q] = seatBatch[q]
      /\ \A t \in seatBatch[r] : t = s \/ t \in seatBatch'[r]
  BY DEF TypeInv, TypeOK
<1>5. BookingAnswered' /\ BookingSeatExists' /\ ReleaseSeatOK' /\ ShowLockOK' /\ BookingLockOK'
  BY <1>2 DEF LockInv, BookingAnswered, BookingSeatExists, SeatExists, ReleaseSeatOK, Releasing, Op,
              ShowLockOK, BookingLockOK
<1>6. SeatLockOK'
  <2>. SUFFICES ASSUME NEW t \in Seat, NEW q \in Request, seatLock'[t] = q
                PROVE  SeatExists(t)' /\ SeatLockedFor(t, q)'
    BY DEF SeatLockOK
  <2>1. CASE seatLock[t] = q
    BY <1>2, <2>1 DEF LockInv, SeatLockOK, SeatLockedFor, SeatExists, Op
  <2>2. CASE t = s /\ q = r /\ SeatExists(s)
    BY <1>1, <1>2, <2>2 DEF SeatLockedFor, SeatExists, Op
  <2>. QED
    BY <1>3, <2>1, <2>2
<1>7. CommitReady'
  <2>. SUFFICES ASSUME NEW q \in Request, pc[q] = "commit"
                PROVE  /\ Op(q) = "Book" => seatLock'[call[q].seat] = q
                       /\ Op(q) \in {"Cancel", "Refund"} =>
                            seatStatus[seatID[q]] = "deleted" \/ seatLock'[seatID[q]] = q
    BY <1>2 DEF CommitReady, Op
  <2>1. /\ Op(q) = "Book" => call[q].seat \in Seat
        /\ Op(q) \in {"Cancel", "Refund"} => seatID[q] \in Seat
    BY CallFields DEF TypeInv, TypeOK, ControlOK, Op, Releasing, Working
  <2>. QED
    BY <1>3, <2>1, BookingsAssumption DEF LockInv, CommitReady
<1>8. CancelReady'
  <2>. SUFFICES ASSUME NEW q \in Request, NEW b \in Request, pc[q] \in {"freeSeats", "commit"},
                       bookingLock[b] = q, Op(q) = "CancelShow"
                PROVE  \/ seatLock'[booking[b].seat] = q
                       \/ pc[q] = "freeSeats" /\ booking[b].seat \in seatBatch'[q]
    BY <1>2 DEF CancelReady, Op
  <2>1. booking[b] # None /\ SeatExists(booking[b].seat) /\ booking[b].seat \in Seat
    BY BookingsAssumption DEF TypeInv, TypeOK, LockedExists, LockInv, BookingSeatExists, Row
  <2>2. \/ seatLock[booking[b].seat] = q
        \/ pc[q] = "freeSeats" /\ booking[b].seat \in seatBatch[q]
    BY DEF LockInv, CancelReady
  <2>3. SeatExists(s) => seatLock'[s] = r
    BY <1>1 DEF TypeInv, TypeOK
  <2>. QED
    BY <1>3, <1>4, <2>1, <2>2, <2>3, BookingsAssumption
<1>. QED
  BY <1>5, <1>6, <1>7, <1>8 DEF LockInv

\* The seats that a statement has yet to reach are of its show.
SeatBatchOK ==
  \A r \in Request : \A s \in seatBatch[r] :
    /\ pc[r] \in {"freeSeats", "deleteSeats"} /\ ShowOf[s] = call[r].show

\* A writing statement locks the rows it says it locks, and only free ones.
LEMMA LockingLock ==
  ASSUME TypeInv, LockInv, SeatBatchOK, BookingsMatchShows, NEW r \in Request, Locking(r)
  PROVE  LockInv'
<1>0. ASSUME FreeOneSeat(r) \/ DeleteOneSeat(r) PROVE LockInv'
  BY <1>0, SeatReachedLock DEF FreeOneSeat, DeleteOneSeat, SeatBatchOK
<1>. USE BookingsAssumption
     DEF TypeInv, TypeOK, ControlOK, Fits, Statement, Working, Replied, locks, tables, batches,
         LockInv, BookingAnswered, BookingSeatExists, SeatExists, ReleaseSeatOK, ShowLockOK,
         SeatLockOK, SeatLockedFor, BookingLockOK, CommitReady, CancelReady, Releasing, Op
<1>1. CASE TakeSeat(r)
  BY <1>1, CallFields DEF TakeSeat, SeatMatches, SeatStatus
<1>2. CASE EndBooking(r)
  BY <1>2, CallFields DEF EndBooking
<1>3. CASE FreeSeat(r)
  <2>1. /\ pc[r] = "freeSeat" /\ pc' = [pc EXCEPT ![r] = "commit"] /\ seatID[r] \in Seat
        /\ Op(r) \in {"Cancel", "Refund"} /\ seatStatus[seatID[r]] # "none"
        /\ UNCHANGED <<call, seatID, seatStatus, booking, showLock, bookingLock, batch, seatBatch>>
    BY <1>3 DEF FreeSeat
  <2>2. \/ /\ SeatExists(seatID[r]) /\ seatLock[seatID[r]] = None
           /\ seatLock' = [seatLock EXCEPT ![seatID[r]] = r]
        \/ /\ ~SeatExists(seatID[r]) /\ UNCHANGED seatLock
    BY <1>3 DEF FreeSeat
  <2>. HIDE <1>3
  <2>3. BookingAnswered' /\ BookingSeatExists'
    BY <2>1
  <2>4. ReleaseSeatOK'
    BY <2>1
  <2>5. ShowLockOK' /\ BookingLockOK'
    BY <2>1
  <2>6. SeatLockOK'
    BY <2>1, <2>2
  <2>7. CommitReady'
    BY <2>1, <2>2, CallFields DEF SeatStatus
  <2>8. CancelReady'
    BY <2>1, <2>2 DEF LockedExists, Row
  <2>. QED
    BY <2>3, <2>4, <2>5, <2>6, <2>7, <2>8
<1>4. CASE MarkShow(r)
  BY <1>4, CallFields DEF MarkShow
<1>5. CASE ReadBookings(r)
  BY <1>5 DEF ReadBookings
<1>6. CASE EndOneBooking(r)
  BY <1>6 DEF EndOneBooking, ShowBookings, Live
<1>7. CASE BookingsEnded(r)
  BY <1>7 DEF BookingsEnded, SeatsRead, ShowSeats, BookingsMatchShows, LockedExists, Row
<1>8. CASE SeatsFreed(r)
  BY <1>8 DEF SeatsFreed
<1>9. CASE ReadSeats(r)
  BY <1>9 DEF ReadSeats, SeatsRead
<1>. QED
  BY <1>0, <1>1, <1>2, <1>3, <1>4, <1>5, <1>6, <1>7, <1>8, <1>9 DEF Locking

\* The end of a transaction frees its locks and keeps those of all others.
LEMMA FinishLock ==
  ASSUME TypeInv, NEW r \in Request, pc[r] \in Working,
         NEW answer \in Replied, Finish(r, answer)
  PROVE  /\ pc'[r] = answer /\ call'[r] = None /\ seatBatch'[r] = {}
         /\ \A q \in Request \ {r} :
              /\ pc'[q] = pc[q] /\ call'[q] = call[q] /\ seatID'[q] = seatID[q]
              /\ seatBatch'[q] = seatBatch[q]
         /\ \A h \in Show, q \in Request :
              showLock'[h] = q <=> showLock[h] = q /\ q # r
         /\ \A s \in Seat, q \in Request :
              seatLock'[s] = q <=> seatLock[s] = q /\ q # r
         /\ \A b, q \in Request :
              bookingLock'[b] = q <=> bookingLock[b] = q /\ q # r
<1>. USE DEF TypeInv, TypeOK, Finish
<1>1. /\ pc'[r] = answer /\ call'[r] = None /\ seatBatch'[r] = {}
      /\ \A q \in Request \ {r} :
           /\ pc'[q] = pc[q] /\ call'[q] = call[q] /\ seatID'[q] = seatID[q]
           /\ seatBatch'[q] = seatBatch[q]
  OBVIOUS
<1>2. \A h \in Show, q \in Request : showLock'[h] = q <=> showLock[h] = q /\ q # r
  BY BookingsAssumption DEF Unlock
<1>3. \A s \in Seat, q \in Request : seatLock'[s] = q <=> seatLock[s] = q /\ q # r
  BY BookingsAssumption DEF Unlock
<1>4. \A b, q \in Request : bookingLock'[b] = q <=> bookingLock[b] = q /\ q # r
  BY BookingsAssumption DEF Unlock
<1>. QED
  BY <1>1, <1>2, <1>3, <1>4

\* What the end of r may write: bookings it has locked and its own, seats it has
\* locked, and new seats.
WritesOwn(r) ==
  /\ \A b \in Request : /\ bookingLock[b] # r /\ b # r => booking'[b] = booking[b]
                        /\ booking'[b] # None /\ b # r =>
                             /\ booking[b] # None
                             /\ booking'[b].seat = booking[b].seat
  /\ booking'[r] # None => seatStatus'[booking'[r].seat] \in SeatStatus
  /\ \A s \in Seat : \/ seatStatus'[s] = seatStatus[s]
                     \/ seatStatus[s] = "none" /\ seatStatus'[s] = "free"
                     \/ seatLock[s] = r /\ SeatExists(s)'

\* Such an end keeps what the other requests rely on: the rows they locked are still
\* there, and what they have read of a booking is still true.
LEMMA FinishKeeps ==
  ASSUME TypeInv, LockInv, NEW r \in Request, pc[r] \in Working,
         NEW answer \in Replied, Finish(r, answer), WritesOwn(r)
  PROVE  LockInv'
<1>1. /\ pc'[r] = answer /\ answer \notin Working /\ call'[r] = None
      /\ \A q \in Request \ {r} :
           /\ pc'[q] = pc[q] /\ call'[q] = call[q] /\ seatID'[q] = seatID[q]
           /\ seatBatch'[q] = seatBatch[q]
           /\ Op(q)' = Op(q)
  BY FinishLock DEF Replied, Working, Op
<1>2. /\ \A h \in Show, q \in Request : showLock'[h] = q <=> showLock[h] = q /\ q # r
      /\ \A s \in Seat, q \in Request : seatLock'[s] = q <=> seatLock[s] = q /\ q # r
      /\ \A b, q \in Request : bookingLock'[b] = q <=> bookingLock[b] = q /\ q # r
  BY FinishLock
<1>3. booking[r] = None
  BY DEF LockInv, BookingAnswered, Working, Replied
<1>4. \A b \in Request : booking[b] # None => booking[b].seat \in Seat
  BY DEF TypeInv, TypeOK, Row
<1>5. \A s \in Seat : SeatExists(s) => SeatExists(s)'
  BY DEF WritesOwn, SeatExists, SeatStatus
<1>6. \A s \in Seat : seatStatus[s] # "none" => seatStatus'[s] # "none"
  BY DEF WritesOwn, SeatExists, SeatStatus
<1>7. \A s \in Seat : seatStatus[s] = "deleted" => seatStatus'[s] = "deleted"
  BY DEF WritesOwn, LockInv, SeatLockOK, SeatExists, SeatStatus
<1>8. ASSUME NEW b \in Request, NEW q \in Request, bookingLock'[b] = q
      PROVE  /\ bookingLock[b] = q /\ q # r /\ booking[b] # None /\ booking'[b] = booking[b]
  BY <1>2, <1>3, <1>8, BookingsAssumption DEF TypeInv, LockedExists, WritesOwn
<1>9. BookingAnswered'
  BY <1>1 DEF LockInv, BookingAnswered, WritesOwn
<1>10. BookingSeatExists'
  <2>. SUFFICES ASSUME NEW b \in Request, booking'[b] # None, b # r
                PROVE  seatStatus'[booking'[b].seat] \in SeatStatus
    BY DEF BookingSeatExists, SeatExists, WritesOwn
  <2>1. booking[b] # None /\ booking'[b].seat = booking[b].seat
    BY DEF WritesOwn
  <2>2. SeatExists(booking[b].seat) /\ booking[b].seat \in Seat
    BY <1>4, <2>1 DEF LockInv, BookingSeatExists
  <2>. QED
    BY <1>5, <2>1, <2>2 DEF SeatExists
<1>11. ReleaseSeatOK'
  <2>. SUFFICES ASSUME NEW q \in Request, Releasing(q)'
                PROVE  /\ pc'[call'[q].booking] \in Replied
                       /\ booking'[call'[q].booking] # None => booking'[call'[q].booking].seat = seatID'[q]
                       /\ seatStatus'[seatID'[q]] # "none"
    BY DEF ReleaseSeatOK
  <2>1. q # r /\ Releasing(q) /\ call'[q] = call[q] /\ seatID'[q] = seatID[q]
    BY <1>1 DEF Releasing
  <2>2. PICK b \in Request : b = call[q].booking
    BY <2>1, CallFields DEF Releasing, Op, TypeInv, TypeOK
  <2>3. /\ pc[b] \in Replied /\ (booking[b] # None => booking[b].seat = seatID[q])
        /\ seatStatus[seatID[q]] # "none" /\ seatID[q] \in Seat
    BY <2>1, <2>2 DEF LockInv, ReleaseSeatOK, TypeInv, ControlOK
  <2>4. b # r
    BY <2>3 DEF Replied, Working
  <2>5. pc'[b] \in Replied /\ (booking'[b] # None => booking'[b].seat = seatID[q])
    BY <1>1, <2>3, <2>4 DEF WritesOwn
  <2>. QED
    BY <1>6, <2>1, <2>2, <2>3, <2>5
<1>12. ShowLockOK'
  BY <1>1, <1>2 DEF LockInv, ShowLockOK
<1>13. SeatLockOK'
  <2>. SUFFICES ASSUME NEW s \in Seat, NEW q \in Request, seatLock'[s] = q
                PROVE  SeatExists(s)' /\ SeatLockedFor(s, q)'
    BY DEF SeatLockOK
  <2>1. seatLock[s] = q /\ q # r /\ SeatExists(s) /\ SeatLockedFor(s, q)
    BY <1>2 DEF LockInv, SeatLockOK
  <2>2. seatStatus'[s] = seatStatus[s]
    BY <2>1 DEF WritesOwn, SeatExists, SeatStatus
  <2>. QED
    BY <1>1, <1>5, <2>1, <2>2 DEF SeatLockedFor
<1>14. BookingLockOK'
  BY <1>1, <1>8 DEF LockInv, BookingLockOK
<1>15. CommitReady'
  <2>. SUFFICES ASSUME NEW q \in Request, pc'[q] = "commit"
                PROVE  /\ Op(q)' = "Book" => seatLock'[call'[q].seat] = q
                       /\ Op(q)' \in {"Cancel", "Refund"} =>
                            seatStatus'[seatID'[q]] = "deleted" \/ seatLock'[seatID'[q]] = q
    BY DEF CommitReady
  <2>1. q # r /\ pc[q] = "commit"
    BY <1>1 DEF Working
  <2>2. /\ Op(q) = "Book" => call[q].seat \in Seat /\ seatLock[call[q].seat] = q
        /\ Op(q) \in {"Cancel", "Refund"} =>
             seatID[q] \in Seat /\ (seatStatus[seatID[q]] = "deleted" \/ seatLock[seatID[q]] = q)
    BY <2>1, CallFields DEF LockInv, CommitReady, TypeInv, TypeOK, ControlOK, Op, Releasing, Working
  <2>. QED
    BY <1>1, <1>2, <1>7, <2>1, <2>2
<1>16. CancelReady'
  <2>. SUFFICES ASSUME NEW q \in Request, NEW b \in Request, pc'[q] \in {"freeSeats", "commit"},
                       bookingLock'[b] = q, Op(q)' = "CancelShow"
                PROVE  \/ seatLock'[booking'[b].seat] = q
                       \/ pc'[q] = "freeSeats" /\ booking'[b].seat \in seatBatch'[q]
    BY DEF CancelReady
  <2>1. /\ q # r /\ bookingLock[b] = q /\ booking'[b] = booking[b] /\ booking[b].seat \in Seat
        /\ pc'[q] = pc[q] /\ Op(q) = "CancelShow"
    BY <1>1, <1>4, <1>8
  <2>2. \/ seatLock[booking[b].seat] = q
        \/ pc[q] = "freeSeats" /\ booking[b].seat \in seatBatch[q]
    BY <2>1 DEF LockInv, CancelReady
  <2>. QED
    BY <1>1, <1>2, <2>1, <2>2
<1>. QED
  BY <1>9, <1>10, <1>11, <1>12, <1>13, <1>14, <1>15, <1>16 DEF LockInv

\* A request that ends and writes no booking.
LEMMA QuietEndLock ==
  ASSUME TypeInv, LockInv, NEW r \in Request, QuietEnd(r)
  PROVE  LockInv'
<1>1. PICK answer \in Replied : Finish(r, answer)
  BY DEF QuietEnd
<1>2. booking[r] = None
  BY DEF QuietEnd, LockInv, BookingAnswered, Working, Replied
<1>3. WritesOwn(r)
  BY <1>2 DEF QuietEnd, WritesOwn
<1>. QED
  BY <1>1, <1>3, FinishKeeps DEF QuietEnd

\* What COMMIT does to a row of bookings: it inserts the booking of BookSeat,
\* ends those the transaction has locked, and leaves the others alone.
LEMMA CommitBookings ==
  ASSUME TypeInv, LockInv, NEW r \in Request, Commit(r), NEW b \in Request
  PROVE  /\ booking[r] = None
         /\ bookingLock[b] = r =>
              /\ ~Live(b)'
              /\ booking'[b] # None => /\ booking'[b].seat = booking[b].seat
                                       /\ booking'[b].show = booking[b].show
         /\ bookingLock[b] # r /\ b # r => booking'[b] = booking[b]
         /\ Op(r) = "Book" => booking'[r] = NewBooking(r)
         /\ Op(r) # "Book" => booking'[r] = None
<1>1. booking[r] = None /\ bookingLock[r] = None
  BY BookingsAssumption
  DEF Commit, LockInv, BookingAnswered, TypeInv, TypeOK, LockedExists, Replied
<1>2. ASSUME bookingLock[b] = r
      PROVE  /\ ~Live(b)'
             /\ booking'[b] # None => /\ booking'[b].seat = booking[b].seat
                                      /\ booking'[b].show = booking[b].show
  <2>1. booking[b] \in Row
    BY <1>2, BookingsAssumption DEF TypeInv, TypeOK, LockedExists
  <2>2. booking'[b] = BookingWritten(r, b)
    BY <1>2 DEF Commit
  <2>. QED
    BY <2>1, <2>2 DEF BookingWritten, Live, Row
<1>3. bookingLock[b] # r /\ b # r => booking'[b] = booking[b]
  BY DEF Commit
<1>4. /\ Op(r) = "Book" => booking'[r] = NewBooking(r)
      /\ Op(r) # "Book" => booking'[r] = None
  BY <1>1, BookingsAssumption DEF Commit
<1>. QED
  BY <1>1, <1>2, <1>3, <1>4

\* COMMIT writes what the transaction has locked, and the booking it sells.
LEMMA CommitLock ==
  ASSUME TypeInv, LockInv, NEW r \in Request, Commit(r)
  PROVE  LockInv'
<1>1. PICK answer \in Replied : Finish(r, answer)
  BY DEF Commit, Replied
<1>2. pc[r] \in Working /\ pc[r] = "commit"
  BY DEF Commit, Working
<1>3. ASSUME NEW b \in Request
      PROVE  /\ bookingLock[b] # r /\ b # r => booking'[b] = booking[b]
             /\ booking'[b] # None /\ b # r => booking[b] # None /\ booking'[b].seat = booking[b].seat
  BY CommitBookings, BookingsAssumption DEF TypeInv, LockedExists
<1>4. ASSUME booking'[r] # None PROVE seatStatus'[booking'[r].seat] \in SeatStatus
  <2>1. Op(r) = "Book" /\ booking'[r] = NewBooking(r)
    BY <1>4, CommitBookings
  <2>2. call[r].seat \in Seat /\ seatLock[call[r].seat] = r
    BY <1>2, <2>1, CallFields DEF LockInv, CommitReady, TypeInv, TypeOK, Op
  <2>3. seatStatus'[call[r].seat] = "booked"
    BY <2>1, <2>2 DEF Commit, SeatWritten
  <2>. QED
    BY <2>1, <2>3 DEF NewBooking, SeatExists, SeatStatus
<1>5. \A s \in Seat : seatStatus'[s] = seatStatus[s] \/ (seatLock[s] = r /\ SeatExists(s)')
  BY DEF Commit, SeatWritten, SeatExists, SeatStatus
<1>6. WritesOwn(r)
  BY <1>3, <1>4, <1>5 DEF WritesOwn
<1>. QED
  BY <1>1, <1>2, <1>6, FinishKeeps

\* The DELETE of a seat map frees its locks, and deletes only seats that no booking
\* refers to.
LEMMA SeatsDeletedLock ==
  ASSUME TypeInv, LockInv, NEW r \in Request, SeatsDeleted(r)
  PROVE  LockInv'
<1>1. /\ pc[r] = "deleteSeats" /\ pc'[r] = "insertSeats"
      /\ \A q \in Request \ {r} : pc'[q] = pc[q]
      /\ UNCHANGED <<booking, showLock, bookingLock, call, seatID, seatBatch>>
  BY DEF SeatsDeleted, TypeInv, TypeOK, batches
<1>2. /\ \A q \in Request : Op(q)' = Op(q)
      /\ Op(r) = "GenerateSeatMap"
  BY <1>1 DEF Op, TypeInv, ControlOK, Fits, Working
<1>3. /\ \A s \in Seat : seatStatus'[s] = IF seatLock[s] = r THEN "deleted" ELSE seatStatus[s]
      /\ \A s \in Seat, q \in Request : seatLock'[s] = q <=> seatLock[s] = q /\ q # r
  BY BookingsAssumption DEF SeatsDeleted, TypeInv, TypeOK, Unlock
<1>4. \A b \in Request : booking[b] # None => booking[b].seat \in Seat /\ seatLock[booking[b].seat] # r
  BY DEF SeatsDeleted, Referring, TypeInv, TypeOK, Row
<1>5. BookingAnswered'
  BY <1>1 DEF LockInv, BookingAnswered, Replied
<1>6. BookingSeatExists'
  BY <1>1, <1>3, <1>4 DEF LockInv, BookingSeatExists, SeatExists
<1>7. ReleaseSeatOK'
  <2>. SUFFICES ASSUME NEW q \in Request, Releasing(q)'
                PROVE  /\ pc'[call[q].booking] \in Replied
                       /\ booking[call[q].booking] # None => booking[call[q].booking].seat = seatID[q]
                       /\ seatStatus'[seatID[q]] # "none"
    BY <1>1 DEF ReleaseSeatOK
  <2>1. q # r /\ Releasing(q)
    BY <1>1, <1>2 DEF Releasing
  <2>2. PICK b \in Request : b = call[q].booking
    BY <2>1, CallFields DEF Releasing, Op, TypeInv, TypeOK
  <2>3. /\ pc[b] \in Replied /\ (booking[b] # None => booking[b].seat = seatID[q])
        /\ seatStatus[seatID[q]] # "none" /\ seatID[q] \in Seat
    BY <2>1, <2>2 DEF LockInv, ReleaseSeatOK, TypeInv, ControlOK
  <2>4. b # r
    BY <1>1, <2>3 DEF Replied
  <2>. QED
    BY <1>1, <1>3, <2>2, <2>3, <2>4
<1>8. ShowLockOK'
  BY <1>1 DEF LockInv, ShowLockOK
<1>9. SeatLockOK'
  <2>. SUFFICES ASSUME NEW s \in Seat, NEW q \in Request, seatLock'[s] = q
                PROVE  SeatExists(s)' /\ SeatLockedFor(s, q)'
    BY DEF SeatLockOK
  <2>1. seatLock[s] = q /\ q # r /\ SeatExists(s) /\ SeatLockedFor(s, q)
    BY <1>3 DEF LockInv, SeatLockOK
  <2>2. seatStatus'[s] = seatStatus[s]
    BY <1>3, <2>1
  <2>. QED
    BY <1>1, <1>2, <2>1, <2>2 DEF SeatLockedFor, SeatExists
<1>10. BookingLockOK'
  BY <1>1, <1>2 DEF LockInv, BookingLockOK
<1>11. CommitReady'
  <2>. SUFFICES ASSUME NEW q \in Request, pc'[q] = "commit"
                PROVE  /\ Op(q) = "Book" => seatLock'[call[q].seat] = q
                       /\ Op(q) \in {"Cancel", "Refund"} =>
                            seatStatus'[seatID[q]] = "deleted" \/ seatLock'[seatID[q]] = q
    BY <1>1, <1>2 DEF CommitReady
  <2>1. q # r /\ pc[q] = "commit"
    BY <1>1
  <2>2. /\ Op(q) = "Book" => call[q].seat \in Seat /\ seatLock[call[q].seat] = q
        /\ Op(q) \in {"Cancel", "Refund"} =>
             seatID[q] \in Seat /\ (seatStatus[seatID[q]] = "deleted" \/ seatLock[seatID[q]] = q)
    BY <2>1, CallFields DEF LockInv, CommitReady, TypeInv, TypeOK, ControlOK, Op, Releasing, Working
  <2>. QED
    BY <1>3, <2>1, <2>2
<1>12. CancelReady'
  <2>. SUFFICES ASSUME NEW q \in Request, NEW b \in Request, pc'[q] \in {"freeSeats", "commit"},
                       bookingLock[b] = q, Op(q) = "CancelShow"
                PROVE  \/ seatLock'[booking[b].seat] = q
                       \/ pc'[q] = "freeSeats" /\ booking[b].seat \in seatBatch[q]
    BY <1>1, <1>2 DEF CancelReady
  <2>1. q # r /\ pc'[q] = pc[q] /\ booking[b].seat \in Seat
    BY <1>1, <1>2, <1>4, BookingsAssumption DEF TypeInv, LockedExists
  <2>2. \/ seatLock[booking[b].seat] = q
        \/ pc[q] = "freeSeats" /\ booking[b].seat \in seatBatch[q]
    BY <2>1 DEF LockInv, CancelReady
  <2>. QED
    BY <1>3, <2>1, <2>2
<1>. QED
  BY <1>5, <1>6, <1>7, <1>8, <1>9, <1>10, <1>11, <1>12 DEF LockInv

\* A statement goes on with the seats it has yet to reach, and a request that begins
\* or ends has none.
LEMMA SeatBatchNext ==
  ASSUME TypeInv, SeatBatchOK, [Next]_vars
  PROVE  SeatBatchOK'
<1>0. /\ seatBatch \in [Request -> SUBSET Seat] /\ pc \in [Request -> {"new"} \cup Working \cup Replied]
      /\ call \in [Request -> Call \cup {None}]
  BY DEF TypeInv, TypeOK
<1>1. ASSUME NEW r \in Request, seatBatch[r] = {}, UNCHANGED seatBatch,
             \A q \in Request \ {r} : pc'[q] = pc[q] /\ call'[q] = call[q]
      PROVE  SeatBatchOK'
  BY <1>1 DEF SeatBatchOK
<1>2. ASSUME NEW r \in Request, Receive(r) PROVE SeatBatchOK'
  <2>1. PICK c, p : Start(r, c, p)
    BY <1>2 DEF Receive, StartBook, StartCancel, StartRefund, StartCancelShow, StartGenerate
  <2>. QED
    BY <1>0, <1>1, <2>1 DEF Start, batches, SeatBatchOK
<1>3. ASSUME NEW r \in Request, NEW p, NEW q, Statement(r, p, q), seatBatch[r] = {},
             UNCHANGED seatBatch
      PROVE  SeatBatchOK'
  BY <1>0, <1>1, <1>3 DEF Statement
<1>4. ASSUME NEW r \in Request, Locking(r) PROVE SeatBatchOK'
  <2>1. CASE \/ TakeSeat(r) \/ EndBooking(r) \/ FreeSeat(r) \/ MarkShow(r) \/ ReadBookings(r)
             \/ EndOneBooking(r) \/ SeatsFreed(r)
    <3>1. \E p, q : Statement(r, p, q) /\ (p \in {"freeSeats", "deleteSeats"} => seatBatch[r] = {})
      BY <2>1 DEF TakeSeat, EndBooking, FreeSeat, MarkShow, ReadBookings, EndOneBooking, SeatsFreed
    <3>2. UNCHANGED seatBatch
      BY <2>1 DEF TakeSeat, EndBooking, FreeSeat, MarkShow, ReadBookings, EndOneBooking, SeatsFreed,
                  batches
    <3>. QED
      BY <1>3, <3>1, <3>2 DEF Statement, SeatBatchOK
  <2>2. ASSUME NEW p, NEW q \in {"freeSeats", "deleteSeats"}, SeatsRead(r, p, q) PROVE SeatBatchOK'
    BY <1>0, <2>2 DEF SeatsRead, Statement, SeatBatchOK, ShowSeats
  <2>3. ASSUME NEW p, SeatReached(r, p) PROVE SeatBatchOK'
    BY <1>0, <2>3 DEF SeatReached, Statement, SeatBatchOK
  <2>. QED
    BY <1>4, <2>1, <2>2, <2>3 DEF Locking, BookingsEnded, ReadSeats, FreeOneSeat, DeleteOneSeat
<1>5. ASSUME NEW r \in Request, Commit(r) \/ QuietEnd(r) PROVE SeatBatchOK'
  <2>1. pc[r] \in Working /\ \E answer \in Replied : Finish(r, answer)
    BY <1>5 DEF Commit, QuietEnd, Working, Replied
  <2>. QED
    BY <2>1, FinishLock DEF SeatBatchOK
<1>6. ASSUME NEW r \in Request, SeatsDeleted(r) PROVE SeatBatchOK'
  BY <1>0, <1>1, <1>6 DEF SeatsDeleted, batches
<1>7. CASE (\E h \in Show : UpdateStatus(h)) \/ UNCHANGED vars
  BY <1>7 DEF UpdateStatus, vars, batches, SeatBatchOK
<1>. QED
  BY <1>2, <1>4, <1>5, <1>6, <1>7, StepKinds DEF Next

\* Every step keeps the relation of locks, requests and rows.
THEOREM LockNext ==
  TypeInv /\ LockInv /\ SeatBatchOK /\ BookingsMatchShows /\ [Next]_vars => LockInv'
<1>. SUFFICES ASSUME TypeInv, LockInv, SeatBatchOK, BookingsMatchShows, [Next]_vars PROVE LockInv'
  OBVIOUS
<1>1. ASSUME NEW r \in Request, StartBook(r) PROVE LockInv'
  <2>. PICK u \in User, h \in Show, s \in Seat :
         /\ Start(r, [op |-> "Book", user |-> u, show |-> h, seat |-> s],
                  IF OnSale(h) THEN "takeSeat" ELSE "ErrShowNotAvailable")
         /\ UNCHANGED seatID
    BY <1>1 DEF StartBook
  <2>1. [op |-> "Book", user |-> u, show |-> h, seat |-> s] \in Call
    BY DEF Call
  <2>. QED
    BY <2>1, StartLock DEF Replied
<1>2. ASSUME NEW r \in Request, StartCancel(r) PROVE LockInv'
  <2>. PICK u \in User, b \in Request :
         LET p == IF ~CancelFinds(b) THEN "ErrBookingNotFound"
                  ELSE IF booking[b].user # u THEN "ErrForbidden"
                  ELSE "endBooking"
         IN  /\ Start(r, [op |-> "Cancel", user |-> u, booking |-> b], p)
             /\ seatID' = IF p = "endBooking"
                          THEN [seatID EXCEPT ![r] = booking[b].seat] ELSE seatID
    BY <1>2 DEF StartCancel
  <2>1. [op |-> "Cancel", user |-> u, booking |-> b] \in Call
    BY DEF Call
  <2>. QED
    BY <2>1, StartLock DEF Replied, Working, CancelFinds, TypeInv, TypeOK
<1>3. ASSUME NEW r \in Request, StartRefund(r) PROVE LockInv'
  <2>. PICK b \in Request :
         /\ Start(r, [op |-> "Refund", booking |-> b],
                  IF RefundFinds(b) THEN "endBooking" ELSE "ErrBookingNotFound")
         /\ seatID' = IF RefundFinds(b)
                      THEN [seatID EXCEPT ![r] = booking[b].seat] ELSE seatID
    BY <1>3 DEF StartRefund
  <2>1. [op |-> "Refund", booking |-> b] \in Call
    BY DEF Call
  <2>. QED
    BY <2>1, StartLock DEF Replied, Working, RefundFinds, Live, TypeInv, TypeOK
<1>4. ASSUME NEW r \in Request, StartCancelShow(r) PROVE LockInv'
  <2>. PICK u \in User, h \in Show :
         /\ Start(r, [op |-> "CancelShow", user |-> u, show |-> h],
                  IF Organizer[h] = u THEN "cancelShow" ELSE "ErrForbidden")
         /\ UNCHANGED seatID
    BY <1>4 DEF StartCancelShow
  <2>1. [op |-> "CancelShow", user |-> u, show |-> h] \in Call
    BY DEF Call
  <2>. QED
    BY <2>1, StartLock DEF Replied
<1>5. ASSUME NEW r \in Request, StartGenerate(r) PROVE LockInv'
  <2>. PICK u \in User, h \in Show :
         /\ Start(r, [op |-> "GenerateSeatMap", user |-> u, show |-> h],
                  IF Organizer[h] # u THEN "ErrForbidden"
                  ELSE IF \E s \in ShowSeats(h) : seatStatus[s] = "booked" THEN "ErrSeatTaken"
                  ELSE "readSeats")
         /\ UNCHANGED seatID
    BY <1>5 DEF StartGenerate
  <2>1. [op |-> "GenerateSeatMap", user |-> u, show |-> h] \in Call
    BY DEF Call
  <2>. QED
    BY <2>1, StartLock DEF Replied
<1>6. ASSUME UNCHANGED <<seatStatus, booking, locks, call, pc, seatID, batches>> PROVE LockInv'
  BY <1>6 DEF locks, batches, LockInv, BookingAnswered, BookingSeatExists, SeatExists, ReleaseSeatOK,
              ShowLockOK, SeatLockOK, SeatLockedFor, BookingLockOK, CommitReady, CancelReady,
              Releasing, Op
<1>7. CASE (\E h \in Show : UpdateStatus(h)) \/ UNCHANGED vars
  BY <1>6, <1>7 DEF UpdateStatus, vars, tables
<1>. QED
  BY <1>1, <1>2, <1>3, <1>4, <1>5, <1>7, StepKinds, LockingLock, CommitLock, SeatsDeletedLock,
     QuietEndLock
  DEF Next, Receive

-----------------------------------------------------------------------------
(* What holds whatever the clients do. *)

\* A statement that locks or reads rows writes nothing yet.
LEMMA LockingWrites ==
  ASSUME NEW r \in Request, Locking(r)
  PROVE  UNCHANGED <<seatStatus, booking, call>>
BY DEF Locking, TakeSeat, EndBooking, FreeSeat, MarkShow, ReadBookings, EndOneBooking,
       BookingsEnded, FreeOneSeat, SeatsFreed, ReadSeats, DeleteOneSeat, SeatsRead, SeatReached,
       Statement, tables

\* What the DELETE of a seat map deletes, no booking refers to.
LEMMA DeletedUnreferred ==
  ASSUME TypeInv, NEW r \in Request, SeatsDeleted(r)
  PROVE  \A s \in Seat : \/ seatStatus'[s] = seatStatus[s]
                       \/ /\ seatStatus'[s] = "deleted"
                          /\ \A b \in Request : booking[b] # None => booking[b].seat # s
BY DEF SeatsDeleted, Referring, TypeInv, TypeOK

\* Only COMMIT writes bookings, and the seats they are for; besides, new seats come and
\* seats that no booking refers to go.
LEMMA OnlyCommitWrites ==
  ASSUME TypeInv, [Next]_vars, \A r \in Request : ~Commit(r)
  PROVE  /\ UNCHANGED booking
         /\ \A s \in Seat : \/ seatStatus'[s] = seatStatus[s]
                          \/ (seatStatus[s] = "none" /\ seatStatus'[s] = "free")
                          \/ /\ seatStatus'[s] = "deleted"
                             /\ \A b \in Request : booking[b] # None => booking[b].seat # s
<1>1. ASSUME NEW r \in Request, Receive(r) PROVE UNCHANGED <<seatStatus, booking>>
  BY <1>1 DEF Receive, StartBook, StartCancel, StartRefund, StartCancelShow, StartGenerate, Start,
              tables
<1>2. ASSUME NEW r \in Request, SeatsDeleted(r) PROVE UNCHANGED booking
  BY <1>2 DEF SeatsDeleted
<1>3. CASE (\E h \in Show : UpdateStatus(h)) \/ UNCHANGED vars
  BY <1>3 DEF UpdateStatus, vars, tables
<1>4. CASE UNCHANGED <<seatStatus, booking>>
  BY <1>4
<1>5. ASSUME NEW r \in Request, QuietEnd(r)
      PROVE  /\ UNCHANGED booking
             /\ \A s \in Seat : \/ seatStatus'[s] = seatStatus[s]
                              \/ (seatStatus[s] = "none" /\ seatStatus'[s] = "free")
  BY <1>5 DEF QuietEnd
<1>6. CASE \E r \in Request : Proceed(r) \/ Abort(r)
  <2>. PICK r \in Request : Proceed(r) \/ Abort(r)
    BY <1>6
  <2>1. CASE Locking(r)
    BY <2>1, LockingWrites
  <2>2. CASE SeatsDeleted(r)
    BY <2>2, <1>2, DeletedUnreferred
  <2>3. CASE QuietEnd(r)
    BY <2>3, <1>5
  <2>. QED
    BY <2>1, <2>2, <2>3, StepKinds
<1>. QED
  BY <1>1, <1>3, <1>4, <1>6 DEF Next

Inv == TypeInv /\ LockInv /\ SeatBatchOK /\ BookingsMatchShows /\ NoSeatLost

\* No step makes a booking for a seat of another show.
LEMMA MatchNext == Inv /\ [Next]_vars => BookingsMatchShows'
<1>. SUFFICES ASSUME Inv, [Next]_vars PROVE BookingsMatchShows'
  OBVIOUS
<1>1. ASSUME NEW r \in Request, Commit(r), NEW b \in Request, booking'[b] # None
      PROVE  booking'[b].show = ShowOf[booking'[b].seat]
  <2>1. CASE b = r
    <3>1. Op(r) = "Book" /\ booking'[r] = NewBooking(r)
      BY <1>1, <2>1, CommitBookings DEF Inv
    <3>2. seatLock[call[r].seat] = r /\ call[r].seat \in Seat
      BY <1>1, <3>1, CallFields DEF Commit, Inv, LockInv, CommitReady, TypeInv, TypeOK, Op
    <3>3. ShowOf[call[r].seat] = call[r].show
      BY <3>1, <3>2 DEF Inv, LockInv, SeatLockOK, SeatLockedFor
    <3>. QED
      BY <2>1, <3>1, <3>3 DEF NewBooking
  <2>2. CASE b # r
    <3>1. /\ booking[b] # None
          /\ booking'[b].show = booking[b].show
          /\ booking'[b].seat = booking[b].seat
      BY <1>1, <2>2, CommitBookings, BookingsAssumption DEF Inv, TypeInv, LockedExists
    <3>. QED
      BY <3>1 DEF Inv, BookingsMatchShows
  <2>. QED
    BY <2>1, <2>2
<1>2. CASE \A r \in Request : ~Commit(r)
  BY <1>2, OnlyCommitWrites DEF Inv, BookingsMatchShows
<1>. QED
  BY <1>1, <1>2 DEF BookingsMatchShows

\* The seat was booked before: some booking of it is live, and stays so, because
\* a transaction that ends one also frees the seat.
LEMMA SeatKept ==
  ASSUME Inv, NEW r \in Request, Commit(r), NEW s \in Seat,
         seatLock[s] # r, seatStatus[s] = "booked"
  PROVE  \E b \in Request : Live(b)' /\ booking'[b].seat = s
<1>. PICK b \in Request : Live(b) /\ booking[b].seat = s
  BY DEF Inv, NoSeatLost
<1>1. ASSUME bookingLock[b] = r PROVE FALSE
  <2>1. CASE Op(r) \in {"Cancel", "Refund"}
    <3>1. b = call[r].booking /\ Releasing(r)
      BY <1>1, <2>1 DEF Inv, LockInv, BookingLockOK, Releasing, Working
    <3>2. s = seatID[r]
      BY <3>1 DEF Inv, LockInv, ReleaseSeatOK, Live
    <3>. QED
      BY <2>1, <3>2 DEF Commit, Inv, LockInv, CommitReady
  <2>2. CASE Op(r) = "CancelShow"
    BY <1>1, <2>2 DEF Commit, Inv, LockInv, CancelReady
  <2>. QED
    BY <1>1, <2>1, <2>2 DEF Inv, LockInv, BookingLockOK
<1>2. b # r
  BY CommitBookings DEF Inv, Live
<1>3. booking'[b] = booking[b]
  BY <1>1, <1>2, CommitBookings DEF Inv
<1>. QED
  BY <1>3 DEF Live

\* No step leaves a booked seat without a live booking.
LEMMA SeatLostNext == Inv /\ [Next]_vars => NoSeatLost'
<1>. SUFFICES ASSUME Inv, [Next]_vars PROVE NoSeatLost'
  OBVIOUS
<1>1. ASSUME NEW r \in Request, Commit(r), NEW s \in Seat, seatStatus'[s] = "booked"
      PROVE  \E b \in Request : Live(b)' /\ booking'[b].seat = s
  <2>1. CASE seatLock[s] = r
    <3>1. Op(r) = "Book"
      BY <1>1, <2>1 DEF Commit, SeatWritten
    <3>2. s = call[r].seat
      BY <2>1, <3>1 DEF Inv, LockInv, SeatLockOK, SeatLockedFor
    <3>3. booking'[r] = NewBooking(r) /\ NewBooking(r) # None
      BY <1>1, <3>1, CommitBookings, NewBookingType DEF Inv
    <3>. QED
      BY <3>2, <3>3 DEF Live, NewBooking
  <2>2. CASE seatLock[s] # r
    BY <1>1, <2>2, SeatKept DEF Commit
  <2>. QED
    BY <2>1, <2>2
<1>2. CASE \A r \in Request : ~Commit(r)
  <2>. SUFFICES ASSUME NEW s \in Seat, seatStatus'[s] = "booked"
                PROVE  \E b \in Request : Live(b)' /\ booking'[b].seat = s
    BY DEF NoSeatLost
  <2>1. UNCHANGED booking /\ seatStatus[s] = "booked"
    BY <1>2, OnlyCommitWrites DEF Inv
  <2>. QED
    BY <2>1 DEF Inv, NoSeatLost, Live
<1>. QED
  BY <1>1, <1>2 DEF NoSeatLost

\* The strengthened invariant holds in every reachable state.
LEMMA Invariance == Spec => []Inv
<1>1. Init => Inv
  <2>1. ASSUME Init PROVE SeatBatchOK /\ BookingsMatchShows /\ NoSeatLost
    BY <2>1 DEF Init, SeatBatchOK, BookingsMatchShows, NoSeatLost
  <2>. QED
    BY <2>1, TypeInit, LockInit DEF Inv
<1>2. Inv /\ [Next]_vars => Inv'
  BY TypeNext, LockNext, SeatBatchNext, MatchNext, SeatLostNext DEF Inv
<1>. QED
  BY <1>1, <1>2, PTL DEF Spec

\* A booking and its seat belong to the same show.
THEOREM BookingsOfTheRightShow == Spec => []BookingsMatchShows
<1>1. Inv => BookingsMatchShows
  BY DEF Inv
<1>. QED
  BY <1>1, Invariance, PTL

\* Every booked seat has a live booking, whatever races with what: no seat stays
\* off sale with nobody to give it back.
THEOREM NoSeatIsLost == Spec => []NoSeatLost
<1>1. Inv => NoSeatLost
  BY DEF Inv
<1>. QED
  BY <1>1, Invariance, PTL

\* Row locks end with the request that took them.
THEOREM LocksEndWithRequests == Spec => []NoLockOutlivesRequest
<1>1. Inv => NoLockOutlivesRequest
  BY DEF Inv, TypeInv, TypeOK, LockInv, ShowLockOK, SeatLockOK, SeatLockedFor, BookingLockOK,
         NoLockOutlivesRequest, Working
<1>. QED
  BY <1>1, Invariance, PTL

\* A booking appears only with the sale of its free seat.
THEOREM SalesTakeFreeSeats == Spec => SaleTakesFreeSeat
<1>. DEFINE Sale == \A b \in Request :
       booking[b] = None /\ booking'[b] # None =>
         /\ seatStatus[booking'[b].seat] = "free"
         /\ seatStatus'[booking'[b].seat] = "booked"
         /\ \A c \in Request \ {b} : booking'[c] = booking[c]
<1>1. Inv /\ [Next]_vars => [Sale]_vars
  <2>. SUFFICES ASSUME Inv, [Next]_vars, NEW b \in Request,
                       booking[b] = None, booking'[b] # None
                PROVE  /\ seatStatus[booking'[b].seat] = "free"
                       /\ seatStatus'[booking'[b].seat] = "booked"
                       /\ \A c \in Request \ {b} : booking'[c] = booking[c]
    OBVIOUS
  <2>. PICK r \in Request : Commit(r)
    BY OnlyCommitWrites DEF Inv
  <2>1. b = r
    BY CommitBookings, BookingsAssumption DEF Inv, TypeInv, LockedExists
  <2>2. Op(r) = "Book" /\ booking'[b] = NewBooking(r)
    BY <2>1, CommitBookings DEF Inv
  <2>3. call[r].seat \in Seat /\ seatLock[call[r].seat] = r
    BY <2>2, CallFields DEF Commit, Inv, LockInv, CommitReady, TypeInv, TypeOK, Op
  <2>4. seatStatus[call[r].seat] = "free" /\ seatStatus'[call[r].seat] = "booked"
    BY <2>2, <2>3 DEF Inv, LockInv, SeatLockOK, SeatLockedFor, Commit, SeatWritten
  <2>5. \A c \in Request : bookingLock[c] # r
    BY <2>2 DEF Inv, LockInv, BookingLockOK
  <2>. QED
    BY <2>1, <2>2, <2>4, <2>5, CommitBookings DEF NewBooking, Inv
<1>. QED
  BY <1>1, Invariance, PTL DEF Spec, SaleTakesFreeSeat

-----------------------------------------------------------------------------
(* What holds when clients are orderly: a booking has one release at a time,  *)
(* owners leave refunded bookings alone, and nobody cancels shows.            *)

Orderly == SerialRelease /\ LiveRelease /\ "CancelShow" \notin Ops

OpsInUse == \A r \in Request : call[r] # None => call[r].op \in Ops

\* A release ends a booking that is still live when it commits, and locks it
\* before it looks for the seat.
ReleasesLive ==
  \A r \in Request : Releasing(r) =>
    /\ Live(call[r].booking)
    /\ pc[r] \in {"freeSeat", "commit"} => bookingLock[call[r].booking] = r

OneReleaseEach ==
  \A q, r \in Request :
    Releasing(q) /\ Releasing(r) /\ call[q].booking = call[r].booking => q = r

OrderlyInv ==
  /\ OpsInUse /\ ReleasesLive /\ OneReleaseEach
  /\ NoOverbooking /\ LiveBookingHoldsSeat

\* A request that arrives in order keeps the orderly invariant.
LEMMA StartOrderly ==
  ASSUME Orderly, Inv, OrderlyInv, NEW r \in Request, NEW c \in Call, NEW p,
         Start(r, c, p),
         p \in {"takeSeat", "endBooking", "cancelShow", "readSeats"} \cup Replied,
         p \in Working /\ c.op \in {"Cancel", "Refund"} =>
           p = "endBooking" /\ Live(c.booking) /\ ReleaseAllowed(c.booking)
  PROVE  OrderlyInv'
<1>1. /\ c # None /\ pc[r] = "new" /\ pc'[r] = p /\ c.op \in Ops
      /\ call'[r] = IF p \in Working THEN c ELSE None
  BY CallFields DEF Inv, TypeInv, TypeOK, Start
<1>2. \A q \in Request \ {r} : pc'[q] = pc[q] /\ call'[q] = call[q]
  BY DEF Inv, TypeInv, TypeOK, Start
<1>3. UNCHANGED <<seatStatus, booking, bookingLock>>
  BY DEF Start, tables, locks
<1>4. \A q \in Request \ {r} : Releasing(q)' = Releasing(q)
  BY <1>2 DEF Releasing, Op
<1>5. ~Releasing(r)
  BY <1>1 DEF Releasing, Working
<1>6. Releasing(r)' =>
        call'[r] = c /\ p = "endBooking" /\ Live(c.booking) /\ ReleaseAllowed(c.booking)
  BY <1>1 DEF Releasing, Op
<1>7. OpsInUse'
  BY <1>1, <1>2 DEF OrderlyInv, OpsInUse
<1>8. ReleasesLive'
  BY <1>1, <1>2, <1>3, <1>4, <1>6 DEF OrderlyInv, ReleasesLive, Live
<1>9. OneReleaseEach'
  BY <1>1, <1>2, <1>4, <1>6 DEF OrderlyInv, OneReleaseEach, Orderly, ReleaseAllowed
<1>10. NoOverbooking' /\ LiveBookingHoldsSeat'
  BY <1>3 DEF OrderlyInv, NoOverbooking, LiveBookingHoldsSeat, Live
<1>. QED
  BY <1>7, <1>8, <1>9, <1>10 DEF OrderlyInv

\* So does a statement, which writes nothing yet.
LEMMA LockingOrderly ==
  ASSUME Orderly, Inv, OrderlyInv, NEW r \in Request, Locking(r)
  PROVE  OrderlyInv'
<1>. USE DEF Inv, TypeInv, TypeOK, ControlOK, Fits, Statement, Working, Replied, locks, tables, batches,
         OrderlyInv, OpsInUse, ReleasesLive, OneReleaseEach,
         NoOverbooking, LiveBookingHoldsSeat, Live, Releasing, Op
<1>1. CASE TakeSeat(r)
  BY <1>1 DEF TakeSeat
<1>2. CASE EndBooking(r)
  BY <1>2, CallFields DEF EndBooking
<1>3. CASE FreeSeat(r)
  BY <1>3 DEF FreeSeat
<1>4. CASE MarkShow(r) \/ ReadBookings(r) \/ EndOneBooking(r) \/ BookingsEnded(r)
             \/ FreeOneSeat(r) \/ SeatsFreed(r)
  BY <1>4 DEF MarkShow, ReadBookings, EndOneBooking, BookingsEnded, FreeOneSeat,
              SeatsFreed, SeatsRead, SeatReached, Orderly
<1>5. CASE ReadSeats(r)
  BY <1>5 DEF ReadSeats, SeatsRead
<1>6. CASE DeleteOneSeat(r)
  BY <1>6 DEF DeleteOneSeat, SeatReached
<1>. QED
  BY <1>1, <1>2, <1>3, <1>4, <1>5, <1>6 DEF Locking

\* So does the DELETE of a seat map: a live booking refers to its seat.
LEMMA SeatsDeletedOrderly ==
  ASSUME Inv, OrderlyInv, NEW r \in Request, SeatsDeleted(r)
  PROVE  OrderlyInv'
<1>1. /\ UNCHANGED <<booking, bookingLock, call>>
      /\ pc[r] = "deleteSeats" /\ pc'[r] = "insertSeats"
      /\ \A q \in Request \ {r} : pc'[q] = pc[q]
  BY DEF SeatsDeleted, Inv, TypeInv, TypeOK
<1>2. Op(r) = "GenerateSeatMap"
  BY <1>1 DEF Inv, TypeInv, ControlOK, Fits, Op, Working
<1>3. \A q \in Request : Releasing(q)' = Releasing(q)
  BY <1>1, <1>2 DEF Releasing, Op
<1>4. LiveBookingHoldsSeat'
  <2>1. \A b \in Request : Live(b) => booking[b].seat \in Seat /\ booking[b] # None
    BY DEF Live, Inv, TypeInv, TypeOK, Row
  <2>2. \A b \in Request : Live(b) => seatStatus'[booking[b].seat] = seatStatus[booking[b].seat]
    BY <2>1, DeletedUnreferred DEF Inv
  <2>. QED
    BY <1>1, <2>2 DEF OrderlyInv, LiveBookingHoldsSeat, Live
<1>5. ReleasesLive'
  <2>. SUFFICES ASSUME NEW q \in Request, Releasing(q)
                PROVE  /\ Live(call[q].booking)
                       /\ pc'[q] \in {"freeSeat", "commit"} => bookingLock[call[q].booking] = q
    BY <1>1, <1>3 DEF ReleasesLive, Live
  <2>. QED
    BY <1>1 DEF OrderlyInv, ReleasesLive
<1>6. OpsInUse' /\ OneReleaseEach' /\ NoOverbooking'
  BY <1>1, <1>3 DEF OrderlyInv, OpsInUse, OneReleaseEach, NoOverbooking, Live
<1>. QED
  BY <1>4, <1>5, <1>6 DEF OrderlyInv

\* The end of one transaction begins no release and takes no lock of another.
LEMMA FinishReleases ==
  ASSUME Inv, OrderlyInv, NEW r \in Request, pc[r] \in Working,
         NEW answer \in Replied, Finish(r, answer)
  PROVE  /\ OpsInUse' /\ OneReleaseEach'
         /\ ~Releasing(r)'
         /\ \A q \in Request \ {r} :
              /\ Releasing(q)' = Releasing(q) /\ pc'[q] = pc[q] /\ call'[q] = call[q]
              /\ \A b \in Request : bookingLock[b] = q => bookingLock'[b] = q
<1>1. /\ pc'[r] = answer /\ call'[r] = None
      /\ \A q \in Request \ {r} :
           /\ pc'[q] = pc[q] /\ call'[q] = call[q]
           /\ \A b \in Request : bookingLock[b] = q => bookingLock'[b] = q
  BY FinishLock DEF Inv
<1>2. ~Releasing(r)'
  BY <1>1 DEF Releasing, Working, Replied
<1>3. \A q \in Request \ {r} : Releasing(q)' = Releasing(q)
  BY <1>1 DEF Releasing, Op
<1>4. OpsInUse'
  BY <1>1 DEF OrderlyInv, OpsInUse
<1>5. OneReleaseEach'
  BY <1>1, <1>2, <1>3 DEF OrderlyInv, OneReleaseEach
<1>. QED
  BY <1>1, <1>2, <1>3, <1>4, <1>5

\* So does a request that ends and writes no booking.
LEMMA QuietEndOrderly ==
  ASSUME Inv, OrderlyInv, NEW r \in Request, QuietEnd(r)
  PROVE  OrderlyInv'
<1>1. PICK answer \in Replied : Finish(r, answer)
  BY DEF QuietEnd
<1>2. pc[r] \in Working /\ UNCHANGED booking
  BY DEF QuietEnd
<1>3. ReleasesLive'
  BY <1>1, <1>2, FinishReleases, CallFields
  DEF OrderlyInv, ReleasesLive, Live, Releasing, Op, Inv, TypeInv, TypeOK
<1>4. NoOverbooking'
  BY <1>2 DEF OrderlyInv, NoOverbooking, Live
<1>5. LiveBookingHoldsSeat'
  <2>1. \A b \in Request : Live(b) => booking[b].seat \in Seat
    BY DEF Live, Inv, TypeInv, TypeOK, Row
  <2>2. \A s \in Seat : seatStatus[s] = "booked" => seatStatus'[s] = "booked"
    BY DEF QuietEnd
  <2>. QED
    BY <1>2, <2>1, <2>2 DEF OrderlyInv, LiveBookingHoldsSeat, Live
<1>. QED
  BY <1>1, <1>2, <1>3, <1>4, <1>5, FinishReleases DEF OrderlyInv

\* Only purchases and releases COMMIT a transaction.
LEMMA OrderlyCommits ==
  ASSUME Orderly, Inv, OrderlyInv, NEW r \in Request, Commit(r)
  PROVE  Op(r) \in {"Book", "Cancel", "Refund"}
<1>1. /\ call[r] # None /\ call[r] \in Call
      /\ call[r].op # "GenerateSeatMap" /\ call[r].op \in Ops
  BY DEF Commit, Inv, TypeInv, TypeOK, ControlOK, Fits, OrderlyInv, OpsInUse, Working
<1>. QED
  BY <1>1, CallFields DEF Op, AllOps, Orderly

\* The sale of a free seat, by a transaction that ends no booking.
LEMMA SaleOrderly ==
  ASSUME Inv, OrderlyInv, NEW r \in Request, Commit(r), Op(r) = "Book"
  PROVE  OrderlyInv'
<1>. PICK answer \in {"ok", "error"} : Finish(r, answer)
  BY DEF Commit
<1>1. answer \in Replied /\ pc[r] \in Working
  BY DEF Commit, Replied, Working
<1>. DEFINE s == call[r].seat
<1>2. s \in Seat /\ seatLock[s] = r /\ seatStatus[s] = "free"
  BY CallFields DEF Commit, Inv, LockInv, CommitReady, SeatLockOK, SeatLockedFor, TypeInv, TypeOK,
         Op
<1>3. \A x \in Seat : seatStatus'[x] = IF x = s THEN "booked" ELSE seatStatus[x]
  BY <1>2 DEF Commit, SeatWritten, Inv, LockInv, SeatLockOK, SeatLockedFor
<1>4. \A b \in Request : bookingLock[b] # r
  BY DEF Inv, LockInv, BookingLockOK
<1>5. /\ booking[r] = None
      /\ booking'[r] = NewBooking(r)
      /\ \A b \in Request \ {r} : booking'[b] = booking[b]
  BY <1>4, CommitBookings DEF Inv
<1>6. Live(r)' /\ booking'[r].seat = s
  BY <1>5, NewBookingType DEF Inv, Live, NewBooking
<1>7. \A b \in Request \ {r} : Live(b)' = Live(b)
  BY <1>5 DEF Live
<1>8. \A b \in Request : Live(b) => b # r /\ booking[b].seat # s
  BY <1>2, <1>5 DEF OrderlyInv, LiveBookingHoldsSeat, Live
<1>9. ReleasesLive'
  BY <1>1, <1>7, <1>8, FinishReleases, CallFields
  DEF OrderlyInv, ReleasesLive, Releasing, Op, Inv, TypeInv, TypeOK
<1>10. NoOverbooking'
  BY <1>5, <1>6, <1>7, <1>8 DEF OrderlyInv, NoOverbooking
<1>11. LiveBookingHoldsSeat'
  <2>1. \A b \in Request : Live(b) => booking[b].seat \in Seat
    BY DEF Live, Inv, TypeInv, TypeOK, Row
  <2>. QED
    BY <1>2, <1>3, <1>5, <1>6, <1>7, <1>8, <2>1 DEF OrderlyInv, LiveBookingHoldsSeat
<1>. QED
  BY <1>1, <1>9, <1>10, <1>11, FinishReleases DEF OrderlyInv

\* The release of a seat, with the one live booking that holds it.
LEMMA ReleaseOrderly ==
  ASSUME Orderly, Inv, OrderlyInv, NEW r \in Request, Commit(r),
         Op(r) \in {"Cancel", "Refund"}
  PROVE  OrderlyInv'
<1>. PICK answer \in {"ok", "error"} : Finish(r, answer)
  BY DEF Commit
<1>1. answer \in Replied /\ pc[r] \in Working /\ Releasing(r)
  BY DEF Commit, Replied, Working, Releasing
<1>2. PICK b \in Request : b = call[r].booking
  BY CallFields DEF Op, Inv, TypeInv, TypeOK
<1>3. Live(b) /\ bookingLock[b] = r /\ booking[b].seat = seatID[r]
  BY <1>1, <1>2 DEF Commit, OrderlyInv, ReleasesLive, Inv, LockInv, ReleaseSeatOK, Live
<1>4. \A x \in Seat : x # seatID[r] => seatStatus'[x] = seatStatus[x]
  BY DEF Commit, Inv, LockInv, SeatLockOK, SeatLockedFor
<1>5. \A x \in Request \ {b} : booking'[x] = booking[x]
  <2>1. \A x \in Request \ {b} : bookingLock[x] # r
    BY <1>2 DEF Inv, LockInv, BookingLockOK
  <2>. QED
    BY <2>1, CommitBookings DEF Inv
<1>6. ~Live(b)' /\ \A x \in Request \ {b} : Live(x)' = Live(x)
  BY <1>2, <1>3, <1>5, CommitBookings DEF Live, Inv
<1>7. ReleasesLive'
  <2>. SUFFICES ASSUME NEW q \in Request, Releasing(q)'
                PROVE  /\ Live(call[q].booking)'
                       /\ pc'[q] \in {"freeSeat", "commit"} =>
                            bookingLock'[call'[q].booking] = q
    BY DEF ReleasesLive
  <2>1. q # r /\ Releasing(q) /\ pc'[q] = pc[q] /\ call'[q] = call[q]
    BY <1>1, FinishReleases
  <2>2. call[q].booking \in Request \ {b}
    BY <1>1, <1>2, <2>1, CallFields
    DEF OrderlyInv, OneReleaseEach, Releasing, Op, Inv, TypeInv, TypeOK
  <2>3. Live(call[q].booking)'
    <3>1. PICK c \in Request \ {b} : c = call[q].booking
      BY <2>2
    <3>2. Live(c)'
      BY <1>6, <2>1, <3>1 DEF OrderlyInv, ReleasesLive
    <3>. QED
      BY <2>1, <3>1, <3>2 DEF Live
  <2>4. pc[q] \in {"freeSeat", "commit"} => bookingLock'[call[q].booking] = q
    BY <1>1, <2>1, <2>2, FinishReleases DEF OrderlyInv, ReleasesLive
  <2>. QED
    BY <2>1, <2>3, <2>4 DEF Live
<1>8. NoOverbooking'
  BY <1>5, <1>6 DEF OrderlyInv, NoOverbooking
<1>9. LiveBookingHoldsSeat'
  <2>. SUFFICES ASSUME NEW x \in Request, Live(x)'
                PROVE  seatStatus'[booking'[x].seat] = "booked"
    BY DEF LiveBookingHoldsSeat
  <2>1. x # b /\ Live(x) /\ booking'[x] = booking[x]
    BY <1>5, <1>6
  <2>2. booking[x].seat # seatID[r]
    BY <1>2, <1>3, <2>1 DEF OrderlyInv, NoOverbooking
  <2>3. booking[x].seat \in Seat
    BY <2>1 DEF Live, Inv, TypeInv, TypeOK, Row
  <2>. QED
    BY <1>4, <2>1, <2>2, <2>3 DEF OrderlyInv, LiveBookingHoldsSeat
<1>. QED
  BY <1>1, <1>7, <1>8, <1>9, FinishReleases DEF OrderlyInv

\* Every step of orderly clients keeps the orderly invariant.
LEMMA OrderlyNext == Orderly /\ Inv /\ OrderlyInv /\ [Next]_vars => OrderlyInv'
<1>. SUFFICES ASSUME Orderly, Inv, OrderlyInv, [Next]_vars PROVE OrderlyInv'
  OBVIOUS
<1>1. ASSUME NEW r \in Request, StartBook(r) PROVE OrderlyInv'
  <2>. PICK u \in User, h \in Show, s \in Seat :
         Start(r, [op |-> "Book", user |-> u, show |-> h, seat |-> s],
               IF OnSale(h) THEN "takeSeat" ELSE "ErrShowNotAvailable")
    BY <1>1 DEF StartBook
  <2>1. [op |-> "Book", user |-> u, show |-> h, seat |-> s] \in Call
    BY DEF Call
  <2>. QED
    BY <2>1, StartOrderly DEF Replied
<1>2. ASSUME NEW r \in Request, StartCancel(r) PROVE OrderlyInv'
  <2>. PICK u \in User, b \in Request :
         /\ ReleaseAllowed(b)
         /\ booking[b] = None \/ Live(b)
         /\ Start(r, [op |-> "Cancel", user |-> u, booking |-> b],
                  IF ~CancelFinds(b) THEN "ErrBookingNotFound"
                  ELSE IF booking[b].user # u THEN "ErrForbidden"
                  ELSE "endBooking")
    BY <1>2 DEF StartCancel, Orderly
  <2>1. [op |-> "Cancel", user |-> u, booking |-> b] \in Call
    BY DEF Call
  <2>2. CancelFinds(b) => Live(b)
    BY DEF CancelFinds
  <2>. QED
    BY <2>1, <2>2, StartOrderly DEF Replied, Working
<1>3. ASSUME NEW r \in Request, StartRefund(r) PROVE OrderlyInv'
  <2>. PICK b \in Request :
         /\ ReleaseAllowed(b)
         /\ Start(r, [op |-> "Refund", booking |-> b],
                  IF RefundFinds(b) THEN "endBooking" ELSE "ErrBookingNotFound")
    BY <1>3 DEF StartRefund
  <2>1. [op |-> "Refund", booking |-> b] \in Call
    BY DEF Call
  <2>. QED
    BY <2>1, StartOrderly DEF Replied, Working, RefundFinds
<1>4. ASSUME NEW r \in Request, StartCancelShow(r) PROVE OrderlyInv'
  BY <1>4 DEF StartCancelShow, Start, Orderly
<1>5. ASSUME NEW r \in Request, StartGenerate(r) PROVE OrderlyInv'
  <2>. PICK u \in User, h \in Show :
         Start(r, [op |-> "GenerateSeatMap", user |-> u, show |-> h],
               IF Organizer[h] # u THEN "ErrForbidden"
               ELSE IF \E s \in ShowSeats(h) : seatStatus[s] = "booked" THEN "ErrSeatTaken"
               ELSE "readSeats")
    BY <1>5 DEF StartGenerate
  <2>1. [op |-> "GenerateSeatMap", user |-> u, show |-> h] \in Call
    BY DEF Call
  <2>. QED
    BY <2>1, StartOrderly DEF Replied
<1>6. ASSUME NEW r \in Request, Commit(r) PROVE OrderlyInv'
  BY <1>6, OrderlyCommits, SaleOrderly, ReleaseOrderly
<1>7. CASE (\E h \in Show : UpdateStatus(h)) \/ UNCHANGED vars
  BY <1>7 DEF UpdateStatus, vars, tables, locks, OrderlyInv, OpsInUse,
              ReleasesLive, OneReleaseEach, NoOverbooking, LiveBookingHoldsSeat, Live,
              Releasing, Op
<1>. QED
  BY <1>1, <1>2, <1>3, <1>4, <1>5, <1>6, <1>7, StepKinds, LockingOrderly, SeatsDeletedOrderly,
     QuietEndOrderly
  DEF Next, Receive, Inv

\* The orderly invariant holds in every reachable state.
LEMMA OrderlyInvariance ==
  ASSUME Orderly
  PROVE  Spec => []OrderlyInv
<1>1. Init => OrderlyInv
  BY DEF Init, OrderlyInv, OpsInUse, ReleasesLive, OneReleaseEach,
         NoOverbooking, LiveBookingHoldsSeat, Live, Releasing, Working
<1>2. Inv /\ OrderlyInv /\ [Next]_vars => OrderlyInv'
  BY OrderlyNext
<1>. QED
  BY <1>1, <1>2, Invariance, PTL DEF Spec

\* Orderly clients never see a seat sold twice ...
THEOREM NoSeatSoldTwice ==
  ASSUME Orderly
  PROVE  Spec => []NoOverbooking
<1>1. OrderlyInv => NoOverbooking
  BY DEF OrderlyInv
<1>. QED
  BY <1>1, OrderlyInvariance, PTL

\* ... nor a seat on sale that somebody has booked.
THEOREM BookedSeatsAreHeld ==
  ASSUME Orderly
  PROVE  Spec => []LiveBookingHoldsSeat
<1>1. OrderlyInv => LiveBookingHoldsSeat
  BY DEF OrderlyInv
<1>. QED
  BY <1>1, OrderlyInvariance, PTL

\* What the comment on CancelBooking says is true of orderly clients: the seat of
\* a live booking is freed only in the step that ends this booking.
THEOREM OrderlyReleasesAreAtomic ==
  ASSUME Orderly
  PROVE  Spec => SeatFreedWithItsBooking
<1>. DEFINE Freed == \A b \in Request :
       LET s == booking[b].seat
       IN  Live(b) /\ seatStatus[s] = "booked" /\ seatStatus'[s] = "free" => ~Live(b)'
<1>1. Inv /\ OrderlyInv /\ [Next]_vars => [Freed]_vars
  <2>. SUFFICES ASSUME Inv, OrderlyInv, [Next]_vars, NEW b \in Request, NEW s, s = booking[b].seat,
                       Live(b), seatStatus[s] = "booked", seatStatus'[s] = "free"
                PROVE  ~Live(b)'
    OBVIOUS
  <2>1. s \in Seat
    BY DEF Live, Inv, TypeInv, TypeOK, Row
  <2>2. PICK r \in Request : Commit(r)
    BY <2>1, OnlyCommitWrites DEF Inv
  <2>3. seatLock[s] = r /\ Op(r) # "Book"
    BY <2>1, <2>2 DEF Commit, SeatWritten
  <2>4. Op(r) \in {"Cancel", "Refund"} /\ s = seatID[r]
    BY <2>1, <2>2, <2>3
    DEF Commit, Inv, LockInv, SeatLockOK, SeatLockedFor, OrderlyInv, OpsInUse, Orderly, Op
  <2>5. Releasing(r)
    BY <2>2, <2>4 DEF Commit, Releasing, Working
  <2>6. PICK c \in Request : c = call[r].booking
    BY <2>4, CallFields DEF Op, Inv, TypeInv, TypeOK
  <2>7. Live(c) /\ bookingLock[c] = r /\ booking[c].seat = s
    BY <2>2, <2>4, <2>5, <2>6 DEF Commit, OrderlyInv, ReleasesLive, Inv, LockInv, ReleaseSeatOK, Live
  <2>8. c = b
    BY <2>7 DEF OrderlyInv, NoOverbooking
  <2>. QED
    BY <2>2, <2>7, <2>8, CommitBookings DEF Inv
<1>. QED
  BY <1>1, Invariance, OrderlyInvariance, PTL DEF Spec, SeatFreedWithItsBooking

-----------------------------------------------------------------------------
(* The list of refunds, as long as nobody cancels a show. *)

\* A request asks for an operation that is in use.
LEMMA OpsNext == Inv /\ OpsInUse /\ [Next]_vars => OpsInUse'
<1>. SUFFICES ASSUME Inv, OpsInUse, [Next]_vars PROVE OpsInUse'
  OBVIOUS
<1>1. call \in [Request -> Call \cup {None}]
  BY DEF Inv, TypeInv, TypeOK
<1>2. ASSUME NEW r \in Request, NEW c, NEW p, Start(r, c, p) PROVE OpsInUse'
  BY <1>1, <1>2 DEF Start, OpsInUse
<1>3. ASSUME NEW r \in Request, Receive(r) PROVE OpsInUse'
  BY <1>2, <1>3 DEF Receive, StartBook, StartCancel, StartRefund, StartCancelShow, StartGenerate
<1>4. CASE UNCHANGED call
  BY <1>4 DEF OpsInUse
<1>5. ASSUME NEW r \in Request, Proceed(r) \/ Abort(r) PROVE OpsInUse'
  <2>1. CASE Locking(r) \/ SeatsDeleted(r)
    BY <1>4, <2>1, LockingWrites DEF SeatsDeleted
  <2>2. CASE Commit(r) \/ QuietEnd(r)
    BY <1>1, <2>2 DEF Commit, QuietEnd, Finish, OpsInUse
  <2>. QED
    BY <1>5, <2>1, <2>2, StepKinds DEF Inv
<1>6. CASE (\E h \in Show : UpdateStatus(h)) \/ UNCHANGED vars
  BY <1>4, <1>6 DEF UpdateStatus, vars
<1>. QED
  BY <1>3, <1>4, <1>5, <1>6 DEF Next

\* Only CancelShow leaves a cancelled booking without its reason and refunded_at:
\* where it is not used, the list of refunds can be shown.
THEOREM RefundsAreListable ==
  ASSUME "CancelShow" \notin Ops
  PROVE  Spec => []RefundsListable
<1>1. Init => OpsInUse /\ RefundsListable
  BY DEF Init, OpsInUse, RefundsListable
<1>2. Inv /\ OpsInUse /\ RefundsListable /\ [Next]_vars => RefundsListable'
  <2>. SUFFICES ASSUME Inv, OpsInUse, RefundsListable, [Next]_vars,
                       NEW b \in Request, booking'[b] # None, booking'[b].status = "cancelled"
                PROVE  booking'[b].refunded
    BY DEF RefundsListable
  <2>1. ASSUME NEW r \in Request, Commit(r) PROVE booking'[b].refunded
    <3>1. CASE bookingLock[b] = r
      <4>1. Op(r) \in {"Cancel", "Refund"}
        BY <3>1 DEF Inv, LockInv, BookingLockOK, OpsInUse, Op
      <4>2. booking'[b] = BookingWritten(r, b)
        BY <2>1, <3>1 DEF Commit
      <4>3. booking[b] \in Row
        BY <3>1, BookingsAssumption DEF Inv, TypeInv, TypeOK, LockedExists
      <4>. QED
        BY <4>1, <4>2, <4>3 DEF BookingWritten, Row
    <3>2. CASE bookingLock[b] # r /\ b # r
      BY <2>1, <3>2, CommitBookings DEF Inv, RefundsListable
    <3>3. CASE b = r
      <4>1. booking'[r] = NewBooking(r) \/ booking'[r] = None
        BY <2>1, CommitBookings DEF Inv
      <4>2. NewBooking(r).status = "booked"
        BY DEF NewBooking
      <4>. QED
        BY <3>3, <4>1, <4>2
    <3>. QED
      BY <3>1, <3>2, <3>3
  <2>2. CASE \A r \in Request : ~Commit(r)
    BY <2>2, OnlyCommitWrites DEF RefundsListable, Inv
  <2>. QED
    BY <2>1, <2>2
<1>. QED
  BY <1>1, <1>2, OpsNext, Invariance, PTL DEF Spec

-----------------------------------------------------------------------------
(* Orderly clients see SeatSales. *)

holderMap == [s \in Seat |-> HoldersOf(s)]

\* A committed sale gives the seat its holder.
LEMMA SaleRefines ==
  ASSUME Inv, OrderlyInv, NEW r \in Request, Commit(r), Op(r) = "Book"
  PROVE  \E s \in Seat : Sales!Sell(s, {r})
<1>1. PICK s \in Seat : s = call[r].seat
  BY CallFields DEF Inv, TypeInv, TypeOK, Op
<1>2. seatLock[s] = r /\ seatStatus[s] = "free"
  BY <1>1 DEF Commit, Inv, LockInv, CommitReady, SeatLockOK, SeatLockedFor
<1>3. \A b \in Request : bookingLock[b] # r
  BY DEF Inv, LockInv, BookingLockOK
<1>4. /\ booking[r] = None
      /\ booking'[r] = NewBooking(r)
      /\ \A b \in Request \ {r} : booking'[b] = booking[b]
  BY <1>3, CommitBookings DEF Inv
<1>5. Live(r)' /\ booking'[r].seat = s
  BY <1>1, <1>4, NewBookingType DEF Inv, Live, NewBooking
<1>6. \A b \in Request \ {r} : Live(b)' = Live(b)
  BY <1>4 DEF Live
<1>7. \A b \in Request : Live(b) => b # r /\ booking[b].seat # s
  BY <1>2, <1>4 DEF OrderlyInv, LiveBookingHoldsSeat, Live
<1>8. HoldersOf(s) = {} /\ HoldersOf(s)' = {r}
  BY <1>4, <1>5, <1>6, <1>7 DEF HoldersOf
<1>9. \A t \in Seat \ {s} : HoldersOf(t)' = HoldersOf(t)
  BY <1>4, <1>5, <1>6, <1>7 DEF HoldersOf
<1>10. \A t \in Seat : HoldersOf(t) # {r}
  BY <1>7 DEF HoldersOf
<1>11. holderMap' = [holderMap EXCEPT ![s] = {r}]
  BY <1>8, <1>9 DEF holderMap
<1>12. holderMap[s] = {} /\ \A t \in Seat : holderMap[t] # {r}
  BY <1>8, <1>10 DEF holderMap
<1>13. Sales!Sell(s, {r})
  BY <1>11, <1>12 DEF Sales!Sell, holderMap
<1>. QED
  BY <1>13

\* A committed release puts the seat on sale again.
LEMMA ReleaseRefines ==
  ASSUME Orderly, Inv, OrderlyInv, NEW r \in Request, Commit(r),
         Op(r) \in {"Cancel", "Refund"}
  PROVE  \E s \in Seat : Sales!End(s)
<1>1. Releasing(r)
  BY DEF Commit, Releasing, Working
<1>2. PICK b \in Request : b = call[r].booking
  BY CallFields DEF Op, Inv, TypeInv, TypeOK
<1>3. Live(b) /\ bookingLock[b] = r
  BY <1>1, <1>2 DEF Commit, OrderlyInv, ReleasesLive
<1>4. PICK s \in Seat : s = booking[b].seat
  BY <1>3 DEF Live, Inv, TypeInv, TypeOK, Row
<1>5. \A x \in Request \ {b} : booking'[x] = booking[x]
  <2>1. \A x \in Request \ {b} : bookingLock[x] # r
    BY <1>2 DEF Inv, LockInv, BookingLockOK
  <2>. QED
    BY <2>1, CommitBookings DEF Inv
<1>6. ~Live(b)' /\ \A x \in Request \ {b} : Live(x)' = Live(x)
  BY <1>3, <1>5, CommitBookings DEF Live, Inv
<1>7. HoldersOf(s) = {b}
  BY <1>3, <1>4 DEF HoldersOf, OrderlyInv, NoOverbooking
<1>8. HoldersOf(s)' = {}
  BY <1>5, <1>6, <1>7 DEF HoldersOf
<1>9. \A t \in Seat \ {s} : HoldersOf(t)' = HoldersOf(t)
  BY <1>4, <1>5, <1>6 DEF HoldersOf
<1>10. holderMap' = [holderMap EXCEPT ![s] = {}]
  BY <1>8, <1>9 DEF holderMap
<1>11. holderMap[s] # {}
  BY <1>7 DEF holderMap
<1>. QED
  BY <1>10, <1>11 DEF Sales!End, holderMap

\* With orderly clients, the transactions of the requests do what SeatSales says:
\* sell a seat nobody holds, and end the booking that holds one.  A seat map that is
\* replaced changes nothing of it, for its seats are held by nobody.
THEOREM BookingsSellSeats ==
  ASSUME Orderly
  PROVE  Spec => SellsSeats
<1>1. Init => Sales!Init
  BY DEF Init, Sales!Init, HoldersOf, Live
<1>2. Inv /\ OrderlyInv /\ [Next]_vars => [Sales!Next]_holderMap
  <2>. SUFFICES ASSUME Inv, OrderlyInv, [Next]_vars
                PROVE  Sales!Next \/ UNCHANGED holderMap
    OBVIOUS
  <2>1. ASSUME NEW r \in Request, Commit(r)
        PROVE  Sales!Next
    <3>1. Op(r) \in {"Book", "Cancel", "Refund"}
      BY <2>1, OrderlyCommits
    <3>. QED
      BY <2>1, <3>1, SaleRefines, ReleaseRefines DEF Sales!Next
  <2>2. CASE \A r \in Request : ~Commit(r)
    <3>1. UNCHANGED booking
      BY <2>2, OnlyCommitWrites DEF Inv
    <3>. QED
      BY <3>1 DEF holderMap, HoldersOf, Live
  <2>. QED
    BY <2>1, <2>2
<1>. QED
  BY <1>1, <1>2, Invariance, OrderlyInvariance, PTL DEF Spec, SellsSeats, Sales!Spec, holderMap
=============================================================================
