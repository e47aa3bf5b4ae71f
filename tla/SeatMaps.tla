------------------------------ MODULE SeatMaps ------------------------------
(***************************************************************************)
(* The seat map of one show: ShowService.GenerateSeatMap and               *)
(* PgShowRepo.GenerateSeatMap, which replace all its seats with three      *)
(* statements (count, delete, insert) that commit one by one, while seats  *)
(* are bought and given back and the show may be deleted.                  *)
(*                                                                         *)
(* Bookings appear as far as they touch seats: the transactions that       *)
(* succeed, a purchase in two steps because its lock on the seat makes     *)
(* others wait, the rest in one.  Module Bookings has them statement by    *)
(* statement.  The foreign keys and the unique index of the migrations     *)
(* are guards of the statements they may fail.                             *)
(***************************************************************************)
EXTENDS Integers, Sequences, FiniteSets

CONSTANTS
  Request,    \* the requests, and the ids of the seat maps and bookings they make
  Inputs,     \* the GenerateSeatMapInputs that organizers send
  MaxParams,  \* the parameters a statement may have: 65535 in PostgreSQL
  None        \* no row, no request, no seat

Zone  == [from : Int, to : Int, price : Int]
Input == [rows : Int, seatsPerRow : Int, price : Int, zones : Seq(Zone)]

\* The rows of seats, the columns that identify one, and the rows of bookings.
Seat == [map : Request, row : Nat \ {0}, num : Nat \ {0}, price : Int,
         status : {"free", "booked"}]
SeatId  == [map : Request, row : Nat \ {0}, num : Nat \ {0}]
Booking == [seat : SeatId, status : {"booked", "cancelled"}]

ASSUME SeatMapsAssumption ==
  /\ Inputs \subseteq Input
  /\ MaxParams \in Nat
  /\ None \notin Inputs \cup SeatId \cup Booking

VARIABLES
  exists,   \* the row of shows is there
  seats,    \* the rows of seats; map is the request that inserted the row
  booking,  \* booking[b]: the row of bookings that purchase b inserted, or None
  lock,     \* lock[r]: the seat whose row purchase r has locked, or None
  input,    \* input[r]: what request r asks for, or None
  pc        \* pc[r]: the next statement of request r, or its outcome

vars == <<exists, seats, booking, lock, input, pc>>

\* The columns of a seat that identify it: its id changes with every map.
Id(s) == [map |-> s.map, row |-> s.row, num |-> s.num]

Working == {"count", "delete", "insert", "sell"}
Replied == {"ok", "ErrNotFound", "ErrForbidden", "ErrInvalid", "ErrSeatTaken", "error"}

\* The columns and locals, and nothing else; row and num start at 1.
TypeOK ==
  /\ exists \in BOOLEAN
  /\ seats \subseteq Seat
  /\ booking \in [Request -> Booking \cup {None}]
  /\ lock \in [Request -> SeatId \cup {None}]
  /\ input \in [Request -> Inputs \cup {None}]
  /\ pc \in [Request -> {"new"} \cup Working \cup Replied]

Init ==
  /\ exists = TRUE
  /\ seats = {}
  /\ booking = [b \in Request |-> None]
  /\ lock = [r \in Request |-> None]
  /\ input = [r \in Request |-> None]
  /\ pc = [r \in Request |-> "new"]

-----------------------------------------------------------------------------
(* The layout the service computes. *)

\* The zones of input in, by their places in the list, that cover a row.
Covering(in, row) ==
  {i \in DOMAIN in.zones : in.zones[i].from <= row /\ row <= in.zones[i].to}

\* Mutant: no break, so that the last zone wins.
PriceLastZone(in, row) ==
  IF Covering(in, row) = {} THEN in.price
  ELSE in.zones[CHOOSE i \in Covering(in, row) : \A j \in Covering(in, row) : j <= i].price

\* The price of a row: that of the first zone that covers it.
Price(in, row) ==
  IF Covering(in, row) = {} THEN in.price
  ELSE in.zones[CHOOSE i \in Covering(in, row) : \A j \in Covering(in, row) : i <= j].price

\* Mutant: rows counted from 0.
LayoutFromZero(r, in) ==
  {[map |-> r, row |-> i, num |-> j, price |-> Price(in, i), status |-> "free"] :
     i \in 0..(in.rows - 1), j \in 1..in.seatsPerRow}

\* The seats that request r wants to insert.
Layout(r, in) ==
  {[map |-> r, row |-> i, num |-> j, price |-> Price(in, i), status |-> "free"] :
     i \in 1..in.rows, j \in 1..in.seatsPerRow}

-----------------------------------------------------------------------------
(* GenerateSeatMap, statement by statement. *)

Goto(r, p) == pc' = [pc EXCEPT ![r] = p]

\* GetByID, the owner test, the dimensions and the price, and the layout in
\* memory.  Nobody looks at the zones.
StartGenerate(r) ==
  /\ pc[r] = "new"
  /\ \E in \in Inputs, owner \in BOOLEAN :
       /\ input' = [input EXCEPT ![r] = in]
       /\ Goto(r, IF ~exists THEN "ErrNotFound"
                  ELSE IF ~owner THEN "ErrForbidden"
                  ELSE IF in.rows <= 0 \/ in.seatsPerRow <= 0 \/ in.price < 0 THEN "ErrInvalid"
                  ELSE "count")
  /\ UNCHANGED <<exists, seats, booking, lock>>

\* SELECT COUNT(*) ... status = 'booked'.  A purchase under way is not seen.
CountBooked(r) ==
  /\ pc[r] = "count"
  /\ Goto(r, IF \E s \in seats : s.status = "booked" THEN "ErrSeatTaken" ELSE "delete")
  /\ UNCHANGED <<exists, seats, booking, lock, input>>

\* Some booking, cancelled or not, refers to a seat: the foreign key of bookings.
Referenced == \E b \in Request : booking[b] # None

\* Mutant: bookings without the foreign key.
DeleteSeatsUnchecked(r) ==
  /\ pc[r] = "delete"
  /\ \A q \in Request : lock[q] = None
  /\ seats' = {} /\ Goto(r, "insert")
  /\ UNCHANGED <<exists, booking, lock, input>>

\* DELETE FROM seats WHERE show_id = $1, which waits for purchases under way and
\* fails as a whole when a booking refers to one of the seats.  It is one step
\* here; the rows it locks one by one, what its foreign key waits for, and the
\* deadlocks that come of it (a Fail here) are in Bookings.
DeleteSeats(r) ==
  /\ pc[r] = "delete"
  /\ \A q \in Request : lock[q] = None
  /\ \/ ~Referenced /\ seats' = {} /\ Goto(r, "insert")
     \/ Referenced /\ Goto(r, "error") /\ UNCHANGED seats
  /\ UNCHANGED <<exists, booking, lock, input>>

\* Mutants: seats without their unique index, or without their foreign key.
InsertSeatsAnyway(r) ==
  /\ pc[r] = "insert"
  /\ exists
  /\ seats' = seats \cup Layout(r, input[r])
  /\ Goto(r, "ok")
  /\ UNCHANGED <<exists, booking, lock, input>>
InsertSeatsNoShow(r) ==
  /\ pc[r] = "insert"
  /\ seats = {}
  /\ seats' = Layout(r, input[r])
  /\ Goto(r, "ok")
  /\ UNCHANGED <<exists, booking, lock, input>>

\* INSERT INTO seats, all rows in one statement with five parameters each.  It
\* fails when the show is gone, UNIQUE (show_id, row, num) meets the rows of
\* another map, or the parameters are too many.  Its answer may be lost.
InsertSeats(r) ==
  LET new    == Layout(r, input[r])
      clash  == \E s \in seats, t \in new : s.row = t.row /\ s.num = t.num
      fails  == ~exists \/ clash \/ 5 * Cardinality(new) > MaxParams
  IN  /\ pc[r] = "insert"
      /\ \/ /\ ~fails
            /\ seats' = seats \cup new
            /\ \E answer \in {"ok", "error"} : Goto(r, answer)
         \/ fails /\ Goto(r, "error") /\ UNCHANGED seats
      /\ UNCHANGED <<exists, booking, lock, input>>

-----------------------------------------------------------------------------
(* Everybody else. *)

\* The seats after those in ids have got status st.
WithStatus(ids, st) == {IF Id(s) \in ids THEN [s EXCEPT !.status = st] ELSE s : s \in seats}

\* BookSeat's UPDATE reaches a free seat, and locks it ...
TakeSeat(r) ==
  /\ pc[r] = "new"
  /\ \E s \in seats :
       /\ s.status = "free"
       /\ \A q \in Request : lock[q] # Id(s)
       /\ lock' = [lock EXCEPT ![r] = Id(s)]
  /\ Goto(r, "sell")
  /\ UNCHANGED <<exists, seats, booking, input>>

\* ... until its COMMIT, with the booking.
Sell(r) ==
  /\ pc[r] = "sell"
  /\ seats' = WithStatus({lock[r]}, "booked")
  /\ booking' = [booking EXCEPT ![r] = [seat |-> lock[r], status |-> "booked"]]
  /\ lock' = [lock EXCEPT ![r] = None]
  /\ Goto(r, "ok")
  /\ UNCHANGED <<exists, input>>

\* CancelBooking deletes the booking, RefundBooking keeps it; both free the seat,
\* once nobody has its row locked.
Release(b) ==
  /\ booking[b] # None
  /\ \A q \in Request : lock[q] # booking[b].seat
  /\ \/ booking' = [booking EXCEPT ![b] = None]
     \/ /\ booking[b].status = "booked"
        /\ booking' = [booking EXCEPT ![b].status = "cancelled"]
  /\ seats' = WithStatus({booking[b].seat}, "free")
  /\ UNCHANGED <<exists, lock, input, pc>>

\* CancelShow frees every seat of the show and cancels its bookings.
CancelShow ==
  /\ exists
  /\ \A q \in Request : lock[q] = None
  /\ seats' = WithStatus({Id(s) : s \in seats}, "free")
  /\ booking' = [b \in Request |-> IF booking[b] = None THEN None
                                   ELSE [booking[b] EXCEPT !.status = "cancelled"]]
  /\ UNCHANGED <<exists, lock, input, pc>>

\* DELETE FROM shows, which the foreign keys of seats and bookings allow only
\* when there are none.
DeleteShow ==
  /\ exists /\ seats = {} /\ ~Referenced
  /\ exists' = FALSE
  /\ UNCHANGED <<seats, booking, lock, input, pc>>

\* A statement fails, the client goes away or the process dies: what statements
\* have committed stays, a purchase is rolled back.
Fail(r) ==
  /\ pc[r] \in Working
  /\ lock' = [lock EXCEPT ![r] = None]
  /\ Goto(r, "error")
  /\ UNCHANGED <<exists, seats, booking, input>>

Next ==
  \/ \E r \in Request :
       \/ StartGenerate(r) \/ CountBooked(r) \/ DeleteSeats(r) \/ InsertSeats(r)
       \/ TakeSeat(r) \/ Sell(r) \/ Release(r) \/ Fail(r)
  \/ CancelShow \/ DeleteShow

Spec == Init /\ [][Next]_vars

-----------------------------------------------------------------------------
(* Safety. *)

\* The given price is that of a zone that covers the row, and no zone before that
\* one does; or the map's own price, if none covers it.
PricedBy(in, row, price) ==
  \/ price = in.price /\ \A i \in DOMAIN in.zones :
       row < in.zones[i].from \/ in.zones[i].to < row
  \/ \E i \in DOMAIN in.zones :
       /\ price = in.zones[i].price /\ row \in in.zones[i].from..in.zones[i].to
       /\ \A j \in 1..i-1 : row \notin in.zones[j].from..in.zones[j].to

\* However many organizers' requests delete and insert at once, the show has the
\* whole map of one of them, priced by its own zones, or no seat at all: every
\* map has a seat (1, 1), so the unique index lets one of them in.
OneWholeMap ==
  seats # {} =>
    \E r \in Request :
      /\ input[r] # None
      /\ {Id(s) : s \in seats} =
           [map : {r}, row : 1..input[r].rows, num : 1..input[r].seatsPerRow]
      /\ \A s \in seats : PricedBy(input[r], s.row, s.price)

\* Nobody's seat disappears: a booking that comes between the count and the
\* delete still has its seat afterwards, at the place and in the map it was for.
BookingsKeepSeats ==
  \A b \in Request : booking[b] # None => \E s \in seats : Id(s) = booking[b].seat

\* A deleted show has no seats, also when it was deleted between a map's delete
\* and its insert.
SeatsKeepShow == seats # {} => exists
=============================================================================
