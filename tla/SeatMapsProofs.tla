--------------------------- MODULE SeatMapsProofs ---------------------------
(***************************************************************************)
(* What holds of a show's seats for every number of requests, every size   *)
(* of map and every list of zones: the types, that the seats are one whole *)
(* map, and that bookings, locks and the show keep what they refer to.     *)
(* Then of every number of reports on them: that they disturb nothing, and *)
(* that each is about one whole map or none, which takes a theory of sums  *)
(* of prices first.                                                        *)
(***************************************************************************)
EXTENDS SeatReports, TLAPS, FiniteSetTheorems, WellFoundedInduction

\* A map under way has an input with a seat (1, 1), a purchase under way has a
\* lock, and nobody else has either.
ControlOK ==
  \A r \in Request :
    /\ pc[r] \in {"count", "delete", "insert"} =>
         input[r] # None /\ input[r].rows > 0 /\ input[r].seatsPerRow > 0
    /\ input[r] # None => pc[r] # "new"
    /\ lock[r] # None <=> pc[r] = "sell"

\* No two purchases hold the lock of one seat.
LocksApart ==
  \A q, r \in Request : lock[r] # None /\ lock[q] = lock[r] => q = r

\* The seat a purchase has locked is there, and free.
LocksKeepSeats ==
  \A r \in Request : lock[r] # None => \E s \in seats : Id(s) = lock[r] /\ s.status = "free"

Inv == TypeOK /\ ControlOK /\ LocksApart
         /\ OneWholeMap /\ BookingsKeepSeats /\ LocksKeepSeats /\ SeatsKeepShow

-----------------------------------------------------------------------------
(* Layouts and status changes. *)

\* A set of natural numbers that is not empty has a least one.
LEMMA LeastNatural ==
  ASSUME NEW S, S \subseteq Nat, S # {}
  PROVE  \E i \in S : \A j \in S : i <= j
<1>1. PICK i \in S : \A j \in S : ~ (<<j, i>> \in OpToRel(<, Nat))
  BY NatLessThanWellFounded, WFMin
<1>2. \A j \in S : ~ (j < i)
  BY <1>1 DEF OpToRel
<1>. QED
  BY <1>2

\* The price of a row is that of the first zone that covers it.
LEMMA RowPriced ==
  ASSUME NEW in \in Input, NEW row \in Nat
  PROVE  Price(in, row) \in Int /\ PricedBy(in, row, Price(in, row))
<1>. DEFINE C == Covering(in, row)
<1>1. /\ in.price \in Int /\ in.zones \in Seq(Zone)
      /\ DOMAIN in.zones = 1..Len(in.zones) /\ Len(in.zones) \in Nat
  BY DEF Input
<1>2. \A i \in DOMAIN in.zones :
        in.zones[i].from \in Int /\ in.zones[i].to \in Int /\ in.zones[i].price \in Int
  <2>1. \A i \in DOMAIN in.zones : in.zones[i] \in Zone
    BY <1>1
  <2>. QED
    BY <2>1 DEF Zone
<1>3. CASE C = {}
  <2>1. Price(in, row) = in.price
    BY <1>3 DEF Price
  <2>2. \A i \in DOMAIN in.zones : row < in.zones[i].from \/ in.zones[i].to < row
    BY <1>2, <1>3 DEF Covering
  <2>. QED
    BY <1>1, <2>1, <2>2 DEF PricedBy
<1>4. CASE C # {}
  <2>. DEFINE i == CHOOSE i \in C : \A j \in C : i <= j
  <2>1. C \subseteq Nat
    BY <1>1 DEF Covering
  <2>2. i \in C /\ \A j \in C : i <= j
    BY <1>4, <2>1, LeastNatural
  <2>3. i \in DOMAIN in.zones /\ row \in in.zones[i].from..in.zones[i].to
    BY <1>2, <2>2 DEF Covering
  <2>4. Price(in, row) = in.zones[i].price
    BY <1>4 DEF Price
  <2>5. ASSUME NEW j \in 1..i-1 PROVE row \notin in.zones[j].from..in.zones[j].to
    <3>1. i \in 1..Len(in.zones) /\ j \in DOMAIN in.zones /\ ~ (i <= j)
      BY <1>1, <2>3
    <3>2. j \notin C
      BY <2>2, <3>1
    <3>. QED
      BY <1>2, <3>1, <3>2 DEF Covering
  <2>. HIDE DEF i
  <2>. QED
    BY <1>2, <2>3, <2>4, <2>5 DEF PricedBy
<1>. QED
  BY <1>3, <1>4

\* A layout consists of seats: all places of its map, each at the price of its row.
LEMMA LayoutFacts ==
  ASSUME NEW r \in Request, NEW in \in Input
  PROVE  /\ Layout(r, in) \subseteq Seat
         /\ {Id(s) : s \in Layout(r, in)} =
              [map : {r}, row : 1..in.rows, num : 1..in.seatsPerRow]
         /\ \A s \in Layout(r, in) : PricedBy(in, s.row, s.price)
<1>. DEFINE seat(i, j) == [map |-> r, row |-> i, num |-> j, price |-> Price(in, i),
                           status |-> "free"]
<1>1. in.rows \in Int /\ in.seatsPerRow \in Int
  BY DEF Input
<1>2. \A i \in 1..in.rows : i \in Nat \ {0} /\ Price(in, i) \in Int /\ PricedBy(in, i, Price(in, i))
  BY <1>1, RowPriced
<1>3. \A j \in 1..in.seatsPerRow : j \in Nat \ {0}
  BY <1>1
<1>4. \A s : s \in Layout(r, in) <=>
        \E i \in 1..in.rows, j \in 1..in.seatsPerRow : s = seat(i, j)
  BY DEF Layout
<1>5. Layout(r, in) \subseteq Seat
  BY <1>2, <1>3, <1>4 DEF Seat
<1>6. \A s \in Layout(r, in) : PricedBy(in, s.row, s.price)
  BY <1>2, <1>4
<1>7. {Id(s) : s \in Layout(r, in)} \subseteq [map : {r}, row : 1..in.rows, num : 1..in.seatsPerRow]
  BY <1>4 DEF Id
<1>8. ASSUME NEW x \in [map : {r}, row : 1..in.rows, num : 1..in.seatsPerRow]
      PROVE  x \in {Id(s) : s \in Layout(r, in)}
  <2>1. seat(x.row, x.num) \in Layout(r, in)
    BY <1>4
  <2>2. Id(seat(x.row, x.num)) = x
    BY DEF Id
  <2>. QED
    BY <2>1, <2>2
<1>. QED
  BY <1>5, <1>6, <1>7, <1>8

\* A layout has each of its places once, free, at the price of its row.
LEMMA LayoutApart ==
  ASSUME NEW r \in Request, NEW in \in Input
  PROVE  /\ \A s, t \in Layout(r, in) : Id(s) = Id(t) => s = t
         /\ \A s \in Layout(r, in) : s.map = r /\ s.status = "free" /\ s.price = Price(in, s.row)
BY DEF Layout, Id

\* WithStatus changes the status of some seats and nothing else.
LEMMA StatusFacts ==
  ASSUME seats \subseteq Seat, NEW ids, NEW st \in {"free", "booked"}
  PROVE  /\ WithStatus(ids, st) \subseteq Seat
         /\ \A t \in WithStatus(ids, st) :
              \E s \in seats : Id(t) = Id(s) /\ t.row = s.row /\ t.price = s.price
         /\ \A s \in seats : \E t \in WithStatus(ids, st) :
              /\ Id(t) = Id(s) /\ t.row = s.row /\ t.price = s.price
              /\ t.status = IF Id(s) \in ids THEN st ELSE s.status
         /\ {Id(t) : t \in WithStatus(ids, st)} = {Id(s) : s \in seats}
<1>. DEFINE new(s) == IF Id(s) \in ids THEN [s EXCEPT !.status = st] ELSE s
<1>1. \A s \in seats : /\ new(s) \in Seat /\ Id(new(s)) = Id(s)
                       /\ new(s).row = s.row /\ new(s).price = s.price
                       /\ new(s).status = IF Id(s) \in ids THEN st ELSE s.status
  BY DEF Seat, Id
<1>2. WithStatus(ids, st) = {new(s) : s \in seats}
  BY DEF WithStatus
<1>. HIDE DEF new
<1>. QED
  BY <1>1, <1>2

-----------------------------------------------------------------------------
(* Every step keeps the invariant. *)

\* At first there is no seat and no request.
LEMMA InvInit == Init => Inv
BY SeatMapsAssumption
DEF Init, Inv, TypeOK, ControlOK, LocksApart, OneWholeMap, BookingsKeepSeats, LocksKeepSeats,
    SeatsKeepShow

\* The whole map stays one when seats change their status only, and input grows.
LEMMA WholeMapKept ==
  ASSUME Inv, NEW ids, NEW st \in {"free", "booked"},
         seats' = WithStatus(ids, st), input' = input
  PROVE  seats' \subseteq Seat /\ OneWholeMap'
<1>1. seats \subseteq Seat
  BY DEF Inv, TypeOK
<1>2. /\ seats' \subseteq Seat
      /\ \A t \in seats' : \E s \in seats : Id(t) = Id(s) /\ t.row = s.row /\ t.price = s.price
      /\ {Id(t) : t \in seats'} = {Id(s) : s \in seats}
  BY <1>1, StatusFacts
<1>3. ASSUME seats' # {}
      PROVE  \E r \in Request :
               /\ input[r] # None
               /\ {Id(s) : s \in seats'} =
                    [map : {r}, row : 1..input[r].rows, num : 1..input[r].seatsPerRow]
               /\ \A s \in seats' : PricedBy(input[r], s.row, s.price)
  <2>1. seats # {}
    BY <1>2, <1>3
  <2>2. PICK r \in Request :
          /\ input[r] # None
          /\ {Id(s) : s \in seats} =
               [map : {r}, row : 1..input[r].rows, num : 1..input[r].seatsPerRow]
          /\ \A s \in seats : PricedBy(input[r], s.row, s.price)
    BY <2>1 DEF Inv, OneWholeMap
  <2>. QED
    BY <1>2, <2>2
<1>. QED
  BY <1>2, <1>3 DEF OneWholeMap, Id

\* A step of one request that leaves tables and locks alone.
LEMMA ControlStep ==
  ASSUME Inv, NEW r \in Request, NEW p \in {"count", "delete", "insert"} \cup Replied,
         NEW in \in Inputs \cup {None},
         pc[r] # "sell", Goto(r, p), input' = [input EXCEPT ![r] = in],
         input[r] # None => in = input[r],
         p \in {"count", "delete", "insert"} =>
           in # None /\ in.rows > 0 /\ in.seatsPerRow > 0,
         UNCHANGED <<exists, seats, booking, lock>>
  PROVE  Inv'
<1>1. /\ pc'[r] = p /\ input'[r] = in
      /\ \A q \in Request \ {r} : pc'[q] = pc[q] /\ input'[q] = input[q]
  BY DEF Inv, TypeOK, Goto
<1>2. TypeOK'
  BY DEF Inv, TypeOK, Goto, Working
<1>3. ControlOK'
  BY <1>1, SeatMapsAssumption DEF Inv, ControlOK, Replied
<1>4. OneWholeMap'
  <2>. SUFFICES ASSUME seats # {} PROVE OneWholeMap'
    BY DEF OneWholeMap
  <2>1. PICK q \in Request :
          /\ input[q] # None
          /\ {Id(s) : s \in seats} =
               [map : {q}, row : 1..input[q].rows, num : 1..input[q].seatsPerRow]
          /\ \A s \in seats : PricedBy(input[q], s.row, s.price)
    BY DEF Inv, OneWholeMap
  <2>2. input'[q] = input[q]
    BY <1>1, <2>1
  <2>. QED
    BY <2>1, <2>2 DEF OneWholeMap
<1>5. LocksApart' /\ BookingsKeepSeats' /\ LocksKeepSeats' /\ SeatsKeepShow'
  BY DEF Inv, LocksApart, BookingsKeepSeats, LocksKeepSeats, SeatsKeepShow
<1>. QED
  BY <1>2, <1>3, <1>4, <1>5 DEF Inv

\* The DELETE leaves no seats, and nobody had a booking or a lock on one.
LEMMA DeleteInv ==
  ASSUME Inv, NEW r \in Request, DeleteSeats(r)
  PROVE  Inv'
<1>1. pc[r] = "delete" /\ \A q \in Request : lock[q] = None
  BY DEF DeleteSeats
<1>2. CASE ~Referenced /\ seats' = {} /\ Goto(r, "insert")
  <2>1. TypeOK'
    BY <1>2 DEF DeleteSeats, Inv, TypeOK, Goto, Working
  <2>2. pc'[r] = "insert" /\ \A q \in Request \ {r} : pc'[q] = pc[q]
    BY <1>2 DEF Inv, TypeOK, Goto
  <2>3. ControlOK'
    BY <1>1, <2>2 DEF DeleteSeats, Inv, ControlOK
  <2>. QED
    BY <1>1, <1>2, <2>1, <2>3
    DEF DeleteSeats, Referenced, Inv, LocksApart, OneWholeMap, BookingsKeepSeats,
        LocksKeepSeats, SeatsKeepShow
<1>3. CASE Referenced /\ Goto(r, "error") /\ UNCHANGED seats
  <2>1. input[r] \in Inputs \cup {None} /\ input' = [input EXCEPT ![r] = input[r]]
    BY DEF DeleteSeats, Inv, TypeOK
  <2>. QED
    BY <1>1, <1>3, <2>1, ControlStep DEF DeleteSeats, Replied
<1>. QED
  BY <1>2, <1>3 DEF DeleteSeats

\* A map under way was asked for by a request whose input makes sense.
LEMMA InputFacts ==
  ASSUME Inv, NEW r \in Request, pc[r] = "insert"
  PROVE  /\ input[r] # None /\ input[r] \in Inputs /\ input[r] \in Input
         /\ input[r].rows \in Int /\ input[r].seatsPerRow \in Int
         /\ input[r].rows > 0 /\ input[r].seatsPerRow > 0
BY SeatMapsAssumption DEF Inv, TypeOK, ControlOK, Input

\* The unique index lets the INSERT through only when there is no seat: the map
\* that is there has a seat (1, 1), and so has the new one.
LEMMA InsertedMap ==
  ASSUME Inv, NEW r \in Request, InsertSeats(r)
  PROVE  \/ UNCHANGED seats /\ Goto(r, "error")
         \/ /\ seats = {} /\ seats' = Layout(r, input[r]) /\ exists
            /\ \E answer \in {"ok", "error"} : Goto(r, answer)
<1>. DEFINE new == Layout(r, input[r])
<1>1. /\ pc[r] = "insert" /\ input[r] # None /\ input[r] \in Inputs /\ input[r] \in Input
      /\ input[r].rows \in Int /\ input[r].seatsPerRow \in Int
      /\ input[r].rows > 0 /\ input[r].seatsPerRow > 0
  BY InputFacts DEF InsertSeats
<1>2. {Id(s) : s \in new} = [map : {r}, row : 1..input[r].rows, num : 1..input[r].seatsPerRow]
  BY <1>1, LayoutFacts
<1>3. SUFFICES ASSUME ~ \E s \in seats, t \in new : s.row = t.row /\ s.num = t.num
               PROVE  seats = {}
  BY DEF InsertSeats
<1>4. SUFFICES ASSUME seats # {} PROVE FALSE
  OBVIOUS
<1>5. PICK q \in Request :
        /\ input[q] # None
        /\ {Id(s) : s \in seats} =
             [map : {q}, row : 1..input[q].rows, num : 1..input[q].seatsPerRow]
  BY <1>4 DEF Inv, OneWholeMap
<1>6. PICK s \in seats : Id(s) \in [map : {q}, row : 1..input[q].rows, num : 1..input[q].seatsPerRow]
  BY <1>4, <1>5
<1>7. input[q].rows \in Int /\ input[q].seatsPerRow \in Int
  BY <1>5, SeatMapsAssumption DEF Inv, TypeOK, Input
<1>8. 1 \in 1..input[q].rows /\ 1 \in 1..input[q].seatsPerRow
  BY <1>6, <1>7 DEF Id
<1>9. PICK s1 \in seats : Id(s1) = [map |-> q, row |-> 1, num |-> 1]
  BY <1>5, <1>8
<1>10. PICK t1 \in new : Id(t1) = [map |-> r, row |-> 1, num |-> 1]
  <2>. HIDE DEF new
  <2>1. 1 \in 1..input[r].rows /\ 1 \in 1..input[r].seatsPerRow
    BY <1>1
  <2>2. [map |-> r, row |-> 1, num |-> 1] \in {Id(t) : t \in new}
    BY <1>2, <2>1
  <2>. QED
    BY <2>2
<1>11. s1.row = 1 /\ s1.num = 1 /\ t1.row = 1 /\ t1.num = 1
  BY <1>9, <1>10 DEF Id
<1>. QED
  BY <1>3, <1>11

\* So a show gets the whole map of one request.
LEMMA InsertInv ==
  ASSUME Inv, NEW r \in Request, InsertSeats(r)
  PROVE  Inv'
<1>. DEFINE new == Layout(r, input[r])
<1>1. /\ pc[r] = "insert" /\ input[r] # None /\ input[r] \in Inputs /\ input[r] \in Input
      /\ input[r].rows \in Int /\ input[r].seatsPerRow \in Int
      /\ input[r].rows > 0 /\ input[r].seatsPerRow > 0
  BY InputFacts DEF InsertSeats
<1>2. /\ new \subseteq Seat
      /\ {Id(s) : s \in new} = [map : {r}, row : 1..input[r].rows, num : 1..input[r].seatsPerRow]
      /\ \A s \in new : PricedBy(input[r], s.row, s.price)
  BY <1>1, LayoutFacts
<1>3. input[r] \in Inputs \cup {None} /\ input' = [input EXCEPT ![r] = input[r]]
  BY DEF InsertSeats, Inv, TypeOK
<1>4. CASE UNCHANGED seats /\ Goto(r, "error")
  BY <1>1, <1>3, <1>4, ControlStep DEF InsertSeats, Replied
<1>5. ASSUME exists, seats = {}, seats' = new, NEW answer \in {"ok", "error"}, Goto(r, answer)
      PROVE  Inv'
  <2>. HIDE DEF new
  <2>1. TypeOK'
    BY <1>2, <1>5 DEF InsertSeats, Inv, TypeOK, Goto, Replied
  <2>2. pc'[r] = answer /\ \A q \in Request \ {r} : pc'[q] = pc[q]
    BY <1>5 DEF Inv, TypeOK, Goto
  <2>3. ControlOK'
    BY <1>1, <2>2 DEF InsertSeats, Inv, ControlOK
  <2>4. OneWholeMap'
    BY <1>1, <1>2, <1>5 DEF InsertSeats, OneWholeMap, Id
  <2>5. \A q \in Request : booking[q] = None /\ lock[q] = None
    BY <1>5 DEF Inv, BookingsKeepSeats, LocksKeepSeats
  <2>6. BookingsKeepSeats' /\ LocksKeepSeats' /\ LocksApart'
    BY <2>5 DEF InsertSeats, BookingsKeepSeats, LocksKeepSeats, LocksApart
  <2>7. SeatsKeepShow'
    BY <1>5 DEF InsertSeats, SeatsKeepShow
  <2>. QED
    BY <2>1, <2>3, <2>4, <2>6, <2>7 DEF Inv
<1>. QED
  BY <1>4, <1>5, InsertedMap

\* A purchase locks a free seat that nobody has locked.
LEMMA TakeSeatInv ==
  ASSUME Inv, NEW r \in Request, TakeSeat(r)
  PROVE  Inv'
<1>1. PICK s \in seats : /\ s.status = "free"
                         /\ \A q \in Request : lock[q] # Id(s)
                         /\ lock' = [lock EXCEPT ![r] = Id(s)]
  BY DEF TakeSeat
<1>2. Id(s) \in SeatId /\ Id(s) # None
  BY <1>1, SeatMapsAssumption DEF Inv, TypeOK, Seat, SeatId, Id
<1>3. /\ pc[r] = "new" /\ pc'[r] = "sell" /\ lock'[r] = Id(s)
      /\ \A q \in Request \ {r} : pc'[q] = pc[q] /\ lock'[q] = lock[q]
  BY <1>1 DEF TakeSeat, Goto, Inv, TypeOK
<1>4. TypeOK'
  BY <1>1, <1>2 DEF TakeSeat, Goto, Inv, TypeOK, Working
<1>5. ControlOK'
  BY <1>2, <1>3 DEF TakeSeat, Inv, ControlOK
<1>6. LocksApart'
  BY <1>1, <1>3 DEF Inv, LocksApart
<1>7. LocksKeepSeats'
  BY <1>1, <1>3 DEF TakeSeat, Inv, LocksKeepSeats, Id
<1>8. OneWholeMap' /\ BookingsKeepSeats' /\ SeatsKeepShow'
  BY DEF TakeSeat, Inv, OneWholeMap, BookingsKeepSeats, SeatsKeepShow
<1>. QED
  BY <1>4, <1>5, <1>6, <1>7, <1>8 DEF Inv

\* Seats whose status changes keep their place, and a lock keeps its seat free
\* when the seat is not among them, or is freed.
LEMMA StatusKept ==
  ASSUME Inv, NEW ids, NEW st \in {"free", "booked"},
         seats' = WithStatus(ids, st), input' = input, exists' = exists
  PROVE  /\ seats' \subseteq Seat /\ OneWholeMap' /\ SeatsKeepShow'
         /\ \A s \in seats : \E t \in seats' :
              /\ Id(t) = Id(s)
              /\ t.status = IF Id(s) \in ids THEN st ELSE s.status
<1>1. seats \subseteq Seat
  BY DEF Inv, TypeOK
<1>2. seats' # {} => seats # {}
  BY <1>1, StatusFacts
<1>. QED
  BY <1>1, <1>2, StatusFacts, WholeMapKept DEF Inv, SeatsKeepShow

\* A purchase commits: the seat it has locked is there, and is nobody else's.
LEMMA SellInv ==
  ASSUME Inv, NEW r \in Request, Sell(r)
  PROVE  Inv'
<1>1. /\ pc[r] = "sell" /\ lock[r] # None /\ lock[r] \in SeatId
      /\ seats' = WithStatus({lock[r]}, "booked") /\ input' = input /\ exists' = exists
  BY DEF Sell, Inv, TypeOK, ControlOK
<1>2. /\ pc'[r] = "ok" /\ lock'[r] = None
      /\ booking'[r] = [seat |-> lock[r], status |-> "booked"]
      /\ \A q \in Request \ {r} : pc'[q] = pc[q] /\ lock'[q] = lock[q] /\ booking'[q] = booking[q]
  BY DEF Sell, Goto, Inv, TypeOK
<1>3. /\ seats' \subseteq Seat /\ OneWholeMap' /\ SeatsKeepShow'
      /\ \A s \in seats : \E t \in seats' :
           /\ Id(t) = Id(s) /\ t.status = IF Id(s) \in {lock[r]} THEN "booked" ELSE s.status
  BY <1>1, StatusKept
<1>4. TypeOK'
  BY <1>1, <1>3 DEF Sell, Goto, Inv, TypeOK, Booking, Replied
<1>5. ControlOK' /\ LocksApart'
  BY <1>1, <1>2 DEF Inv, ControlOK, LocksApart
<1>6. PICK s \in seats : Id(s) = lock[r]
  BY <1>1 DEF Inv, LocksKeepSeats
<1>7. BookingsKeepSeats'
  <2>. SUFFICES ASSUME NEW b \in Request, booking'[b] # None
                PROVE  \E t \in seats' : Id(t) = booking'[b].seat
    BY DEF BookingsKeepSeats, Id
  <2>1. \E u \in seats : Id(u) = booking'[b].seat
    BY <1>2, <1>6 DEF Inv, BookingsKeepSeats
  <2>. QED
    BY <1>3, <2>1
<1>8. LocksKeepSeats'
  <2>. SUFFICES ASSUME NEW q \in Request, lock'[q] # None
                PROVE  \E t \in seats' : Id(t) = lock'[q] /\ t.status = "free"
    BY DEF LocksKeepSeats, Id
  <2>1. q # r /\ lock[q] = lock'[q] /\ lock[q] # lock[r]
    BY <1>1, <1>2 DEF Inv, LocksApart
  <2>2. PICK u \in seats : Id(u) = lock[q] /\ u.status = "free"
    BY <2>1 DEF Inv, LocksKeepSeats
  <2>. QED
    BY <1>3, <2>1, <2>2
<1>. QED
  BY <1>3, <1>4, <1>5, <1>7, <1>8 DEF Inv

\* Freeing seats never takes one from a booking or a purchase.
LEMMA FreeInv ==
  ASSUME Inv, NEW ids, seats' = WithStatus(ids, "free"),
         booking' \in [Request -> Booking \cup {None}],
         \A b \in Request : booking'[b] # None =>
           booking[b] # None /\ booking'[b].seat = booking[b].seat,
         UNCHANGED <<exists, lock, input, pc>>
  PROVE  Inv'
<1>1. /\ seats' \subseteq Seat /\ OneWholeMap' /\ SeatsKeepShow'
      /\ \A s \in seats : \E t \in seats' :
           /\ Id(t) = Id(s) /\ t.status = IF Id(s) \in ids THEN "free" ELSE s.status
  BY StatusKept
<1>2. TypeOK' /\ ControlOK' /\ LocksApart'
  BY <1>1 DEF Inv, TypeOK, ControlOK, LocksApart
<1>3. BookingsKeepSeats'
  <2>. SUFFICES ASSUME NEW b \in Request, booking'[b] # None
                PROVE  \E t \in seats' : Id(t) = booking'[b].seat
    BY DEF BookingsKeepSeats, Id
  <2>1. \E u \in seats : Id(u) = booking'[b].seat
    BY DEF Inv, BookingsKeepSeats
  <2>. QED
    BY <1>1, <2>1
<1>4. LocksKeepSeats'
  <2>. SUFFICES ASSUME NEW q \in Request, lock[q] # None
                PROVE  \E t \in seats' : Id(t) = lock[q] /\ t.status = "free"
    BY DEF LocksKeepSeats, Id
  <2>1. PICK u \in seats : Id(u) = lock[q] /\ u.status = "free"
    BY DEF Inv, LocksKeepSeats
  <2>. QED
    BY <1>1, <2>1
<1>. QED
  BY <1>1, <1>2, <1>3, <1>4 DEF Inv

LEMMA InvNext == Inv /\ [Next]_vars => Inv'
<1>. SUFFICES ASSUME Inv, [Next]_vars PROVE Inv'
  OBVIOUS
<1>1. ASSUME NEW r \in Request, StartGenerate(r) PROVE Inv'
  <2>1. PICK in \in Inputs, owner \in BOOLEAN :
          /\ input' = [input EXCEPT ![r] = in]
          /\ Goto(r, IF ~exists THEN "ErrNotFound"
                     ELSE IF ~owner THEN "ErrForbidden"
                     ELSE IF in.rows <= 0 \/ in.seatsPerRow <= 0 \/ in.price < 0 THEN "ErrInvalid"
                     ELSE "count")
    BY <1>1 DEF StartGenerate
  <2>2. pc[r] = "new" /\ input[r] = None /\ in # None
    BY <1>1, SeatMapsAssumption DEF StartGenerate, Inv, ControlOK
  <2>3. in.rows \in Int /\ in.seatsPerRow \in Int
    BY SeatMapsAssumption DEF Input
  <2>4. CASE Goto(r, "count") /\ ~(in.rows <= 0) /\ ~(in.seatsPerRow <= 0)
    <3>1. in.rows > 0 /\ in.seatsPerRow > 0
      BY <2>3, <2>4
    <3>2. pc[r] # "sell" /\ UNCHANGED <<exists, seats, booking, lock>>
      BY <1>1, <2>2 DEF StartGenerate
    <3>. QED
      BY <2>1, <2>2, <2>4, <3>1, <3>2, ControlStep
  <2>5. ASSUME NEW p \in Replied, Goto(r, p) PROVE Inv'
    BY <1>1, <2>1, <2>2, <2>5, ControlStep DEF StartGenerate, Replied
  <2>. QED
    BY <2>1, <2>4, <2>5 DEF Replied
<1>2. ASSUME NEW r \in Request, CountBooked(r) PROVE Inv'
  <2>1. input[r] \in Inputs \cup {None} /\ input' = [input EXCEPT ![r] = input[r]]
    BY <1>2 DEF CountBooked, Inv, TypeOK
  <2>2. /\ pc[r] = "count" /\ input[r] # None
        /\ input[r].rows > 0 /\ input[r].seatsPerRow > 0
    BY <1>2 DEF CountBooked, Inv, ControlOK
  <2>3. Goto(r, "ErrSeatTaken") \/ Goto(r, "delete")
    BY <1>2 DEF CountBooked
  <2>. QED
    BY <1>2, <2>1, <2>2, <2>3, ControlStep DEF CountBooked, Replied
<1>3. ASSUME NEW r \in Request, Release(r) PROVE Inv'
  <2>1. booking' \in [Request -> Booking \cup {None}]
    BY <1>3 DEF Release, Inv, TypeOK, Booking
  <2>2. \A b \in Request : booking'[b] # None =>
          booking[b] # None /\ booking'[b].seat = booking[b].seat
    BY <1>3 DEF Release, Inv, TypeOK, Booking
  <2>. QED
    BY <1>3, <2>1, <2>2, FreeInv DEF Release
<1>4. ASSUME CancelShow PROVE Inv'
  <2>1. \A b \in Request :
          /\ booking'[b] \in Booking \cup {None}
          /\ booking'[b] # None => booking[b] # None /\ booking'[b].seat = booking[b].seat
    BY <1>4 DEF CancelShow, Inv, TypeOK, Booking
  <2>2. booking' \in [Request -> Booking \cup {None}]
    BY <1>4, <2>1 DEF CancelShow
  <2>. QED
    BY <1>4, <2>1, <2>2, FreeInv DEF CancelShow
<1>5. ASSUME DeleteShow PROVE Inv'
  BY <1>5 DEF DeleteShow, Inv, TypeOK, ControlOK, LocksApart, OneWholeMap, BookingsKeepSeats,
              LocksKeepSeats, SeatsKeepShow
<1>6. ASSUME NEW r \in Request, Fail(r) PROVE Inv'
  <2>1. /\ pc'[r] = "error" /\ lock'[r] = None /\ pc[r] \in Working
        /\ \A q \in Request \ {r} : pc'[q] = pc[q] /\ lock'[q] = lock[q]
    BY <1>6 DEF Fail, Goto, Inv, TypeOK
  <2>2. TypeOK'
    BY <1>6 DEF Fail, Goto, Inv, TypeOK, Replied
  <2>3. ControlOK' /\ LocksApart' /\ LocksKeepSeats'
    BY <1>6, <2>1 DEF Fail, Inv, ControlOK, LocksApart, LocksKeepSeats, Working, Id
  <2>4. OneWholeMap' /\ BookingsKeepSeats' /\ SeatsKeepShow'
    BY <1>6 DEF Fail, Inv, OneWholeMap, BookingsKeepSeats, SeatsKeepShow
  <2>. QED
    BY <2>2, <2>3, <2>4 DEF Inv
<1>7. CASE UNCHANGED vars
  BY <1>7 DEF vars, Inv, TypeOK, ControlOK, LocksApart, OneWholeMap, BookingsKeepSeats,
              LocksKeepSeats, SeatsKeepShow
<1>. QED
  BY <1>1, <1>2, <1>3, <1>4, <1>5, <1>6, <1>7, DeleteInv, InsertInv, TakeSeatInv, SellInv DEF Next

LEMMA Invariance == Spec => []Inv
BY InvInit, InvNext, PTL DEF Spec

-----------------------------------------------------------------------------
(* The properties. *)

\* Every variable keeps its type; rows and numbers of seats start at 1.
THEOREM SeatMapsTypeCorrect == Spec => []TypeOK
<1>1. Inv => TypeOK
  BY DEF Inv
<1>. QED
  BY <1>1, Invariance, PTL

\* A show has the whole map of one request, at the prices of its zones, or no
\* seat: maps that are generated at once never mix.
THEOREM MapsAreWhole == Spec => []OneWholeMap
<1>1. Inv => OneWholeMap
  BY DEF Inv
<1>. QED
  BY <1>1, Invariance, PTL

\* A booking has its seat, whatever maps were generated since it was counted.
THEOREM BookingsHaveSeats == Spec => []BookingsKeepSeats
<1>1. Inv => BookingsKeepSeats
  BY DEF Inv
<1>. QED
  BY <1>1, Invariance, PTL

\* No map is inserted for a show that has been deleted.
THEOREM SeatsHaveShow == Spec => []SeatsKeepShow
<1>1. Inv => SeatsKeepShow
  BY DEF Inv
<1>. QED
  BY <1>1, Invariance, PTL

-----------------------------------------------------------------------------
(* Sums of prices. *)

\* Among sets of rows there is one of which no smaller one is among them.
LEMMA SmallestSet ==
  ASSUME NEW S, IsFiniteSet(S), NEW B \in SUBSET SUBSET S, B # {}
  PROVE  \E m \in B : \A n \in SUBSET m : n # m => n \notin B
<1>. DEFINE N == {Cardinality(s) : s \in B}
<1>1. \A s \in SUBSET S : IsFiniteSet(s) /\ Cardinality(s) \in Nat
  BY FS_Subset, FS_CardinalityType
<1>2. PICK i \in N : \A j \in N : i <= j
  <2>1. N \subseteq Nat /\ N # {}
    BY <1>1
  <2>. HIDE DEF N
  <2>. QED
    BY <2>1, LeastNatural
<1>3. PICK m \in B : Cardinality(m) = i
  BY <1>2
<1>4. ASSUME NEW n \in SUBSET m, n # m, n \in B PROVE FALSE
  <2>1. Cardinality(n) < Cardinality(m)
    BY <1>1, <1>4, FS_Subset
  <2>2. Cardinality(n) \in N
    BY <1>4
  <2>. QED
    BY <1>1, <1>2, <1>3, <1>4, <2>1, <2>2
<1>. QED
  BY <1>4

\* The row that a sum takes out of a set first.
First(s) == CHOOSE x \in s : TRUE

\* What one step of the sum of a set makes of the sums of smaller sets.
StepOf(g, s) == IF s = {} THEN 0
                ELSE First(s).price + g[s \ {First(s)}]

\* g has the sums of all sets of rows in S.
Sums(S, g) == g = [s \in SUBSET S |-> StepOf(g, s)]

LEMMA RevenueSums ==
  ASSUME NEW S
  PROVE  Revenue(S) = (CHOOSE g : Sums(S, g))[S]
BY DEF Revenue, MapThenSumSet, MapThenFoldSet, Sums, StepOf, First

LEMMA SumsFact ==
  ASSUME NEW S, NEW g, Sums(S, g)
  PROVE  /\ g[{}] = 0
         /\ \A s \in SUBSET S : s # {} =>
              /\ First(s) \in s /\ s \ {First(s)} \in SUBSET S
              /\ g[s] = First(s).price + g[s \ {First(s)}]
<1>1. \A s \in SUBSET S : g[s] = StepOf(g, s)
  BY DEF Sums
<1>. QED
  BY <1>1 DEF StepOf, First

LEMMA SumsUnique ==
  ASSUME NEW S, IsFiniteSet(S), NEW T \in SUBSET S, NEW g, Sums(S, g), NEW h, Sums(T, h)
  PROVE  g[T] = h[T]
<1>. DEFINE B == {t \in SUBSET T : g[t] # h[t]}
<1>1. SUFFICES ASSUME B # {} PROVE FALSE
  OBVIOUS
<1>2. IsFiniteSet(T)
  BY FS_Subset
<1>3. PICK m \in B : \A n \in SUBSET m : n # m => n \notin B
  <2>1. B \in SUBSET SUBSET T
    OBVIOUS
  <2>. HIDE DEF B
  <2>. QED
    BY <1>1, <1>2, <2>1, SmallestSet
<1>4. m # {}
  <2>1. g[{}] = 0 /\ h[{}] = 0
    BY DEF Sums, StepOf
  <2>. QED
    BY <1>3, <2>1
<1>5. PICK x : x = First(m)
  OBVIOUS
<1>6. x \in m /\ g[m] = x.price + g[m \ {x}] /\ h[m] = x.price + h[m \ {x}]
  <2>1. m \in SUBSET S /\ m \in SUBSET T
    BY <1>3
  <2>2. g[m] = StepOf(g, m) /\ h[m] = StepOf(h, m)
    BY <2>1 DEF Sums
  <2>. HIDE DEF B
  <2>. QED
    BY <1>4, <1>5, <2>2 DEF StepOf, First
<1>7. g[m \ {x}] = h[m \ {x}]
  BY <1>3, <1>6
<1>. QED
  BY <1>3, <1>6, <1>7

LEMMA SumsExist ==
  ASSUME NEW S, IsFiniteSet(S)
  PROVE  \E g : Sums(S, g)
<1>. DEFINE B == {t \in SUBSET S : ~ \E g : Sums(t, g)}
<1>1. SUFFICES ASSUME B # {} PROVE FALSE
  OBVIOUS
<1>2. PICK m \in B : \A n \in SUBSET m : n # m => n \notin B
  <2>1. B \in SUBSET SUBSET S
    OBVIOUS
  <2>. HIDE DEF B
  <2>. QED
    BY <1>1, <2>1, SmallestSet
<1>. DEFINE of(t) == CHOOSE g : Sums(t, g)
            h == [t \in SUBSET m |->
                    IF t = {} THEN 0
                    ELSE First(t).price + of(t \ {First(t)})[t \ {First(t)}]]
<1>3. \A n \in SUBSET m : n # m => Sums(n, of(n))
  BY <1>2
<1>4. ASSUME NEW n \in SUBSET m, n # m PROVE h[n] = of(n)[n]
  <2>1. CASE n = {}
    BY <1>3, <1>4, <2>1, SumsFact
  <2>2. CASE n # {}
    <3>1. PICK x : x = First(n)
      OBVIOUS
    <3>2. x \in n /\ of(n)[n] = x.price + of(n)[n \ {x}]
      BY <1>3, <1>4, <2>2, <3>1, SumsFact
    <3>3. of(n)[n \ {x}] = of(n \ {x})[n \ {x}]
      <4>1. IsFiniteSet(n)
        BY <1>2, <1>4, FS_Subset
      <4>2. n \ {x} \in SUBSET m /\ n \ {x} # m
        BY <1>4
      <4>3. Sums(n, of(n)) /\ Sums(n \ {x}, of(n \ {x})) /\ n \ {x} \in SUBSET n
        BY <1>3, <1>4, <4>2
      <4>. HIDE DEF of
      <4>. QED
        BY <4>1, <4>3, SumsUnique
    <3>4. h[n] = x.price + of(n \ {x})[n \ {x}]
      BY <2>2, <3>1
    <3>. QED
      BY <3>2, <3>3, <3>4
  <2>. QED
    BY <2>1, <2>2
<1>5. \A t \in SUBSET m : h[t] = StepOf(h, t)
  <2>1. SUFFICES ASSUME NEW t \in SUBSET m, t # {} PROVE h[t] = StepOf(h, t)
    BY DEF StepOf
  <2>2. PICK x : x = First(t)
    OBVIOUS
  <2>3. x \in t /\ t \ {x} \in SUBSET m /\ t \ {x} # m
    BY <2>1, <2>2 DEF First
  <2>4. h[t] = x.price + of(t \ {x})[t \ {x}]
    BY <2>1, <2>2
  <2>5. h[t \ {x}] = of(t \ {x})[t \ {x}]
    BY <1>4, <2>3
  <2>. HIDE DEF h, of
  <2>. QED
    BY <2>1, <2>2, <2>4, <2>5 DEF StepOf
<1>6. Sums(m, h)
  BY <1>5 DEF Sums
<1>. QED
  BY <1>2, <1>6

-----------------------------------------------------------------------------
\* What MapThenSumSet computes: nothing of nothing, and of other rows the price of
\* one and the sum of the rest.
LEMMA RevenueFirst ==
  ASSUME NEW S, IsFiniteSet(S)
  PROVE  /\ Revenue({}) = 0
         /\ S # {} => /\ First(S) \in S
                      /\ Revenue(S) = First(S).price + Revenue(S \ {First(S)})
<1>1. ASSUME NEW T, IsFiniteSet(T) PROVE \E g : Sums(T, g) /\ Revenue(T) = g[T]
  BY <1>1, SumsExist, RevenueSums
<1>2. Revenue({}) = 0
  <2>1. PICK g : Sums({}, g) /\ Revenue({}) = g[{}]
    BY <1>1, FS_EmptySet
  <2>. QED
    BY <2>1, SumsFact
<1>3. ASSUME S # {}
      PROVE  First(S) \in S /\ Revenue(S) = First(S).price + Revenue(S \ {First(S)})
  <2>1. PICK g : Sums(S, g) /\ Revenue(S) = g[S]
    BY <1>1
  <2>2. PICK x : x = First(S)
    OBVIOUS
  <2>3. x \in S /\ S \ {x} \in SUBSET S
    BY <1>3, <2>2 DEF First
  <2>4. g[S] = x.price + g[S \ {x}]
    <3>1. g[S] = StepOf(g, S)
      BY <2>1 DEF Sums
    <3>. QED
      BY <1>3, <2>2, <3>1 DEF StepOf
  <2>5. PICK T : T = S \ {x}
    OBVIOUS
  <2>6. IsFiniteSet(T) /\ T \in SUBSET S
    BY <2>3, <2>5, FS_Subset
  <2>7. PICK h : Sums(T, h) /\ Revenue(T) = h[T]
    BY <1>1, <2>6
  <2>8. g[T] = h[T]
    BY <2>1, <2>6, <2>7, SumsUnique
  <2>. QED
    BY <2>1, <2>2, <2>3, <2>4, <2>5, <2>7, <2>8
<1>. QED
  BY <1>2, <1>3

\* Rows with a price.
Priced(S) == IsFiniteSet(S) /\ \A s \in S : s.price \in Int

LEMMA PricedSubset ==
  ASSUME NEW S, Priced(S), NEW T \in SUBSET S
  PROVE  Priced(T)
BY FS_Subset DEF Priced

\* The sum of prices is one.
LEMMA RevenueInt ==
  ASSUME NEW S, Priced(S)
  PROVE  Revenue(S) \in Int
<1>. DEFINE B == {t \in SUBSET S : Revenue(t) \notin Int}
<1>1. SUFFICES ASSUME B # {} PROVE FALSE
  OBVIOUS
<1>2. PICK m \in B : \A n \in SUBSET m : n # m => n \notin B
  <2>1. B \in SUBSET SUBSET S /\ IsFiniteSet(S)
    BY DEF Priced
  <2>. HIDE DEF B
  <2>. QED
    BY <1>1, <2>1, SmallestSet
<1>3. Priced(m)
  BY PricedSubset
<1>4. m # {}
  <2>1. Revenue({}) = 0
    BY RevenueFirst, FS_EmptySet
  <2>. QED
    BY <2>1
<1>5. PICK x : x = First(m)
  OBVIOUS
<1>6. x \in m /\ Revenue(m) = x.price + Revenue(m \ {x})
  <2>. HIDE DEF B
  <2>. QED
    BY <1>3, <1>4, <1>5, RevenueFirst DEF Priced
<1>7. x.price \in Int /\ Revenue(m \ {x}) \in Int
  BY <1>2, <1>3, <1>6 DEF Priced
<1>. QED
  BY <1>6, <1>7

\* The order in which the rows are added does not matter.
LEMMA RevenueAny ==
  ASSUME NEW S, Priced(S), NEW y \in S
  PROVE  Revenue(S) = y.price + Revenue(S \ {y})
<1>. DEFINE B == {t \in SUBSET S : \E z \in t : Revenue(t) # z.price + Revenue(t \ {z})}
<1>1. SUFFICES ASSUME B # {} PROVE FALSE
  OBVIOUS
<1>2. PICK m \in B : \A n \in SUBSET m : n # m => n \notin B
  <2>1. B \in SUBSET SUBSET S /\ IsFiniteSet(S)
    BY DEF Priced
  <2>. HIDE DEF B
  <2>. QED
    BY <1>1, <2>1, SmallestSet
<1>3. PICK z \in m : Revenue(m) # z.price + Revenue(m \ {z})
  OBVIOUS
<1>4. Priced(m)
  BY PricedSubset
<1>5. PICK x : x = First(m)
  OBVIOUS
<1>6. x \in m /\ Revenue(m) = x.price + Revenue(m \ {x})
  <2>1. m # {}
    BY <1>3
  <2>. HIDE DEF B
  <2>. QED
    BY <1>4, <1>5, <2>1, RevenueFirst DEF Priced
<1>7. x # z
  BY <1>3, <1>6
<1>8. PICK v : v = (m \ {x}) \ {z}
  OBVIOUS
<1>9. /\ Revenue(m \ {x}) = z.price + Revenue(v)
      /\ Revenue(m \ {z}) = x.price + Revenue(v)
  <2>1. m \ {x} \notin B /\ m \ {z} \notin B
    BY <1>2, <1>3, <1>6
  <2>2. v = (m \ {z}) \ {x}
    BY <1>8
  <2>3. m \ {x} \in SUBSET S /\ m \ {z} \in SUBSET S
    BY <1>2
  <2>. QED
    BY <1>3, <1>6, <1>7, <1>8, <2>1, <2>2, <2>3
<1>10. x.price \in Int /\ z.price \in Int /\ Revenue(v) \in Int
  <2>1. Priced(v)
    BY <1>4, <1>8, PricedSubset
  <2>. QED
    BY <1>3, <1>4, <1>6, <2>1, RevenueInt DEF Priced
<1>. QED
  BY <1>3, <1>6, <1>9, <1>10

\* The values of a function on a finite set are finitely many, and as many as the
\* arguments when no two of them have the same.
LEMMA ImageFinite ==
  ASSUME NEW S, IsFiniteSet(S), NEW f
  PROVE  /\ IsFiniteSet({f[s] : s \in S})
         /\ (\A s, t \in S : f[s] = f[t] => s = t) => Cardinality({f[s] : s \in S}) = Cardinality(S)
<1>1. PICK T : T = {f[s] : s \in S}
  OBVIOUS
<1>2. PICK g : g = [s \in S |-> f[s]]
  OBVIOUS
<1>3. g \in [S -> T] /\ \A t \in T : \E s \in S : g[s] = t
  BY <1>1, <1>2
<1>4. g \in Surjection(S, T)
  BY <1>3 DEF Surjection
<1>5. (\A s, t \in S : f[s] = f[t] => s = t) => g \in Injection(S, T)
  BY <1>2, <1>3 DEF Injection, IsInjective
<1>. QED
  BY <1>1, <1>4, <1>5, FS_Surjection

\* Rows that are replaced one by one by others of the same price have the same sum
\* and are as many.
LEMMA RevenueImage ==
  ASSUME NEW S, Priced(S), NEW f,
         \A s \in S : f[s].price = s.price,
         \A s, t \in S : f[s] = f[t] => s = t
  PROVE  LET image == {f[s] : s \in S}
         IN  Revenue(image) = Revenue(S) /\ Cardinality(image) = Cardinality(S) /\ IsFiniteSet(image)
<1>. DEFINE im(t) == {f[s] : s \in t}
            B == {t \in SUBSET S : Revenue(im(t)) # Revenue(t)}
<1>1. ASSUME NEW t \in SUBSET S
      PROVE  Priced(im(t)) /\ Priced(t)
  <2>1. IsFiniteSet(t)
    BY FS_Subset DEF Priced
  <2>2. IsFiniteSet(im(t))
    BY <2>1, ImageFinite
  <2>. QED
    BY <2>1, <2>2 DEF Priced
<1>2. Cardinality(im(S)) = Cardinality(S)
  BY ImageFinite DEF Priced
<1>3. Revenue(im(S)) = Revenue(S)
  <2>1. SUFFICES ASSUME B # {} PROVE FALSE
    OBVIOUS
  <2>2. PICK m \in B : \A n \in SUBSET m : n # m => n \notin B
    <3>1. B \in SUBSET SUBSET S /\ IsFiniteSet(S)
      BY DEF Priced
    <3>. HIDE DEF B
    <3>. QED
      BY <2>1, <3>1, SmallestSet
  <2>3. m # {}
    <3>1. im({}) = {}
      OBVIOUS
    <3>. QED
      BY <3>1
  <2>4. PICK x \in m : TRUE
    BY <2>3
  <2>5. x \in S /\ f[x] \in im(m) /\ im(m \ {x}) = im(m) \ {f[x]}
    BY <2>2, <2>4
  <2>6. Priced(im(m)) /\ Priced(m)
    BY <1>1
  <2>7. Revenue(im(m \ {x})) = Revenue(m \ {x})
    BY <2>2, <2>4
  <2>8. Revenue(m) = x.price + Revenue(m \ {x})
    BY <2>4, <2>6, RevenueAny
  <2>9. Revenue(im(m)) = f[x].price + Revenue(im(m) \ {f[x]})
    <3>. HIDE DEF im
    <3>. QED
      BY <2>5, <2>6, RevenueAny
  <2>. QED
    BY <2>2, <2>5, <2>7, <2>8, <2>9
<1>. QED
  BY <1>1, <1>2, <1>3 DEF Priced

-----------------------------------------------------------------------------
(* What is reported of the seats. *)

\* A seat's place in its map is its own, and its map was asked for by a request
\* that has its answer.
SeatsApart ==
  /\ \A s, t \in seats : Id(s) = Id(t) => s = t
  /\ \A s \in seats : pc[s.map] \in {"ok", "error"}

\* The requests whose maps a report may be about.
Mapped == {r \in Request : input[r] # None /\ pc[r] \in {"ok", "error"}}

\* A seat as its map was inserted.
Free(s) == [s EXCEPT !.status = "free"]

\* At most one seat has a place, since a new map comes when there are no others.
LEMMA ApartNext == Inv /\ SeatsApart /\ [Next]_vars => SeatsApart'
<1>. SUFFICES ASSUME Inv, SeatsApart, [Next]_vars PROVE SeatsApart'
  OBVIOUS
<1>1. seats \subseteq Seat /\ pc \in [Request -> {"new"} \cup Working \cup Replied]
  BY DEF Inv, TypeOK
<1>2. \A s \in seats : s.map \in Request
  BY <1>1 DEF Seat
<1>3. ASSUME NEW ids, NEW st \in {"free", "booked"}, seats' = WithStatus(ids, st),
             \A q \in Request : pc[q] \in {"ok", "error"} => pc'[q] = pc[q]
      PROVE  SeatsApart'
  <2>. DEFINE new(s) == IF Id(s) \in ids THEN [s EXCEPT !.status = st] ELSE s
  <2>1. \A s \in seats : Id(new(s)) = Id(s) /\ new(s).map = s.map
    BY <1>1 DEF Seat, Id
  <2>2. seats' = {new(s) : s \in seats}
    BY <1>3 DEF WithStatus
  <2>. HIDE DEF new
  <2>3. \A s, t \in seats' : Id(s) = Id(t) => s = t
    BY <2>1, <2>2 DEF SeatsApart
  <2>4. \A s \in seats' : pc'[s.map] \in {"ok", "error"}
    BY <1>2, <1>3, <2>1, <2>2 DEF SeatsApart
  <2>. QED
    BY <2>3, <2>4 DEF SeatsApart, Id
<1>4. ASSUME UNCHANGED seats, NEW r \in Request, NEW p, pc[r] \notin {"ok", "error"}, Goto(r, p)
      PROVE  SeatsApart'
  BY <1>1, <1>2, <1>4 DEF SeatsApart, Goto, Id
<1>5. ASSUME UNCHANGED <<seats, pc>> PROVE SeatsApart'
  BY <1>5 DEF SeatsApart, Id
<1>6. ASSUME NEW r \in Request, StartGenerate(r) \/ CountBooked(r) \/ TakeSeat(r) \/ Fail(r)
      PROVE  SeatsApart'
  <2>1. pc[r] \notin {"ok", "error"} /\ UNCHANGED seats /\ \E p : Goto(r, p)
    BY <1>6 DEF StartGenerate, CountBooked, TakeSeat, Fail, Working
  <2>. QED
    BY <1>4, <2>1
<1>7. ASSUME NEW r \in Request, DeleteSeats(r) PROVE SeatsApart'
  <2>1. CASE seats' = {}
    BY <2>1 DEF SeatsApart
  <2>2. CASE UNCHANGED seats /\ Goto(r, "error")
    BY <1>4, <1>7, <2>2 DEF DeleteSeats
  <2>. QED
    BY <1>7, <2>1, <2>2 DEF DeleteSeats
<1>8. ASSUME NEW r \in Request, InsertSeats(r) PROVE SeatsApart'
  <2>1. CASE UNCHANGED seats /\ Goto(r, "error")
    BY <1>4, <1>8, <2>1 DEF InsertSeats
  <2>2. ASSUME seats' = Layout(r, input[r]), NEW answer \in {"ok", "error"}, Goto(r, answer)
        PROVE  SeatsApart'
    <3>1. input[r] \in Input
      BY <1>8, InputFacts DEF InsertSeats
    <3>2. /\ \A s, t \in seats' : Id(s) = Id(t) => s = t
          /\ \A s \in seats' : s.map = r
      BY <2>2, <3>1, LayoutApart
    <3>3. pc'[r] = answer
      BY <1>1, <2>2 DEF Goto
    <3>. QED
      BY <3>2, <3>3 DEF SeatsApart, Id
  <2>. QED
    BY <1>8, <2>1, <2>2, InsertedMap
<1>9. ASSUME NEW r \in Request, Sell(r) PROVE SeatsApart'
  <2>1. \A q \in Request : pc[q] \in {"ok", "error"} => pc'[q] = pc[q]
    BY <1>1, <1>9 DEF Sell, Goto
  <2>. QED
    BY <1>3, <1>9, <2>1 DEF Sell
<1>10. ASSUME (\E r \in Request : Release(r)) \/ CancelShow PROVE SeatsApart'
  BY <1>3, <1>10 DEF Release, CancelShow
<1>11. CASE DeleteShow \/ UNCHANGED vars
  BY <1>5, <1>11 DEF DeleteShow, vars
<1>. QED
  BY <1>6, <1>7, <1>8, <1>9, <1>10, <1>11 DEF Next

\* A layout is finite and has prices that can be added.
LEMMA LayoutPriced ==
  ASSUME NEW r \in Request, NEW in \in Input
  PROVE  Priced(Layout(r, in))
<1>1. in.rows \in Int /\ in.seatsPerRow \in Int
  BY DEF Input
<1>2. PICK places : places = (1..in.rows) \X (1..in.seatsPerRow)
  OBVIOUS
<1>3. IsFiniteSet(places)
  <2>1. PICK rows, cols : rows = 1..in.rows /\ cols = 1..in.seatsPerRow
    OBVIOUS
  <2>2. 1 \in Int /\ IsFiniteSet(rows) /\ IsFiniteSet(cols)
    BY <1>1, <2>1, FS_Interval
  <2>3. IsFiniteSet(rows \X cols)
    BY <2>2, FS_Product
  <2>. QED
    BY <1>2, <2>1, <2>3
<1>4. PICK f : f = [p \in places |-> [map |-> r, row |-> p[1], num |-> p[2],
                                      price |-> Price(in, p[1]), status |-> "free"]]
  OBVIOUS
<1>5. Layout(r, in) \subseteq {f[p] : p \in places}
  <2>1. SUFFICES ASSUME NEW i \in 1..in.rows, NEW j \in 1..in.seatsPerRow
                 PROVE  \E p \in places : f[p] = [map |-> r, row |-> i, num |-> j,
                                                  price |-> Price(in, i), status |-> "free"]
    BY DEF Layout
  <2>2. <<i, j>> \in places
    BY <1>2
  <2>3. <<i, j>>[1] = i /\ <<i, j>>[2] = j
    OBVIOUS
  <2>. QED
    BY <1>4, <2>2, <2>3
<1>6. IsFiniteSet(Layout(r, in))
  <2>1. IsFiniteSet({f[p] : p \in places})
    BY <1>3, ImageFinite
  <2>. QED
    BY <1>5, <2>1, FS_Subset
<1>7. \A s \in Layout(r, in) : s.price \in Int
  BY LayoutFacts DEF Seat
<1>. QED
  BY <1>6, <1>7 DEF Priced

\* The rules of the zones leave one price for a row.
LEMMA OnePrice ==
  ASSUME NEW in \in Input, NEW row \in Nat, NEW p, NEW q, PricedBy(in, row, p), PricedBy(in, row, q)
  PROVE  p = q
<1>1. in.zones \in Seq(Zone) /\ DOMAIN in.zones = 1..Len(in.zones) /\ Len(in.zones) \in Nat
  BY DEF Input
<1>2. \A i \in DOMAIN in.zones : in.zones[i].from \in Int /\ in.zones[i].to \in Int
  <2>1. \A i \in DOMAIN in.zones : in.zones[i] \in Zone
    BY <1>1
  <2>. QED
    BY <2>1 DEF Zone
<1>. DEFINE in_(i) == row \in in.zones[i].from..in.zones[i].to
            first(i) == in_(i) /\ \A j \in 1..i-1 : ~in_(j)
<1>3. CASE \A i \in DOMAIN in.zones : ~in_(i)
  BY <1>3 DEF PricedBy
<1>4. CASE \E i \in DOMAIN in.zones : in_(i)
  <2>1. \E i \in DOMAIN in.zones : p = in.zones[i].price /\ first(i)
    BY <1>2, <1>4 DEF PricedBy
  <2>2. \E i \in DOMAIN in.zones : q = in.zones[i].price /\ first(i)
    BY <1>2, <1>4 DEF PricedBy
  <2>3. \A i, j \in DOMAIN in.zones : first(i) /\ first(j) => i = j
    <3>. HIDE DEF in_
    <3>. QED
      BY <1>1
  <2>. HIDE DEF first
  <2>. QED
    BY <2>1, <2>2, <2>3
<1>. QED
  BY <1>3, <1>4

\* The seats that are there are those of one map, but for their status.
LEMMA SeatsOfOneMap ==
  ASSUME Inv, SeatsApart, seats # {}
  PROVE  \E r \in Mapped : input[r] \in Input /\ {Free(s) : s \in seats} = MapOf(r)
<1>1. PICK r \in Request :
        /\ input[r] # None
        /\ {Id(s) : s \in seats} =
             [map : {r}, row : 1..input[r].rows, num : 1..input[r].seatsPerRow]
        /\ \A s \in seats : PricedBy(input[r], s.row, s.price)
  BY DEF Inv, OneWholeMap
<1>2. input[r] \in Input
  BY <1>1, SeatMapsAssumption DEF Inv, TypeOK
<1>3. /\ MapOf(r) \subseteq Seat
      /\ {Id(t) : t \in MapOf(r)} =
           [map : {r}, row : 1..input[r].rows, num : 1..input[r].seatsPerRow]
      /\ \A t \in MapOf(r) : PricedBy(input[r], t.row, t.price) /\ t.status = "free"
  BY <1>2, LayoutFacts, LayoutApart DEF MapOf
<1>4. seats \subseteq Seat
  BY DEF Inv, TypeOK
<1>5. ASSUME NEW s \in seats, NEW t \in MapOf(r), Id(s) = Id(t) PROVE Free(s) = t
  <2>1. s.map = t.map /\ s.row = t.row /\ s.num = t.num
    BY <1>5 DEF Id
  <2>2. s \in Seat /\ t \in Seat /\ t.status = "free"
    BY <1>3, <1>4
  <2>3. s.price = t.price
    <3>1. PricedBy(input[r], s.row, s.price) /\ PricedBy(input[r], s.row, t.price) /\ s.row \in Nat
      BY <1>1, <1>3, <2>1, <2>2 DEF Seat
    <3>. QED
      BY <1>2, <3>1, OnePrice
  <2>. QED
    BY <2>1, <2>2, <2>3 DEF Free, Seat
<1>6. {Id(s) : s \in seats} = {Id(t) : t \in MapOf(r)}
  BY <1>1, <1>3
<1>7. /\ \A s \in seats : \E t \in MapOf(r) : Id(s) = Id(t)
      /\ \A t \in MapOf(r) : \E s \in seats : Id(s) = Id(t)
  BY <1>6
<1>8. r \in Mapped
  <2>1. PICK s \in seats : TRUE
    OBVIOUS
  <2>2. Id(s) \in [map : {r}, row : 1..input[r].rows, num : 1..input[r].seatsPerRow]
    BY <1>1, <2>1
  <2>3. s.map = r
    BY <2>2 DEF Id
  <2>. QED
    BY <1>1, <2>1, <2>3 DEF SeatsApart, Mapped
<1>9. {Free(s) : s \in seats} = MapOf(r)
  BY <1>5, <1>7
<1>. QED
  BY <1>2, <1>8, <1>9

LEMMA SeatsPriced ==
  ASSUME Inv, SeatsApart
  PROVE  Priced(seats)
<1>1. \A s \in seats : s.price \in Int
  BY DEF Inv, TypeOK, Seat
<1>2. CASE seats = {}
  BY <1>1, <1>2, FS_EmptySet DEF Priced
<1>3. CASE seats # {}
  <2>1. PICK r \in Mapped : input[r] \in Input /\ {Free(s) : s \in seats} = MapOf(r)
    BY <1>3, SeatsOfOneMap
  <2>2. IsFiniteSet(MapOf(r))
    BY <2>1, LayoutPriced DEF Mapped, MapOf, Priced
  <2>3. PICK f : f = [s \in seats |-> Free(s)]
    OBVIOUS
  <2>4. \A s \in seats : Id(f[s]) = Id(s)
    BY <2>3 DEF Free, Id, Inv, TypeOK, Seat
  <2>5. f \in Injection(seats, MapOf(r))
    <3>1. f \in [seats -> MapOf(r)]
      BY <2>1, <2>3
    <3>2. \A s, t \in seats : f[s] = f[t] => s = t
      BY <2>4 DEF SeatsApart
    <3>. QED
      BY <3>1, <3>2 DEF Injection, IsInjective
  <2>6. IsFiniteSet(seats)
    BY <2>2, <2>5, FS_Injection
  <2>. QED
    BY <1>1, <2>6 DEF Priced
<1>. QED
  BY <1>2, <1>3

\* The figures of the seats that are there are those of some of them sold.
LEMMA FiguresExplained ==
  ASSUME Inv, SeatsApart
  PROVE  /\ TotalsNow \in Totals
         /\ seats = {} => TotalsNow = [total |-> 0, sold |-> 0, revenue |-> 0]
         /\ seats # {} => \E r \in Mapped : Explains(r, TotalsNow)
<1>1. Priced(seats) /\ Priced(Sold) /\ Sold \in SUBSET seats
  <2>1. Sold \in SUBSET seats
    BY DEF Sold
  <2>. QED
    BY <2>1, SeatsPriced, PricedSubset
<1>2. TotalsNow \in Totals
  <2>1. Cardinality(seats) \in Nat /\ Cardinality(Sold) \in Nat
    BY <1>1, FS_CardinalityType DEF Priced
  <2>2. Revenue(Sold) \in Int
    BY <1>1, RevenueInt
  <2>. QED
    BY <2>1, <2>2 DEF TotalsNow, Totals
<1>3. ASSUME seats = {} PROVE TotalsNow = [total |-> 0, sold |-> 0, revenue |-> 0]
  <2>1. Sold = {}
    BY <1>3 DEF Sold
  <2>2. Revenue({}) = 0
    BY RevenueFirst, FS_EmptySet
  <2>. QED
    BY <1>3, <2>1, <2>2, FS_EmptySet DEF TotalsNow
<1>4. ASSUME seats # {} PROVE \E r \in Mapped : Explains(r, TotalsNow)
  <2>1. PICK r \in Mapped : input[r] \in Input /\ {Free(s) : s \in seats} = MapOf(r)
    BY <1>4, SeatsOfOneMap
  <2>2. PICK f : f = [s \in seats |-> Free(s)]
    OBVIOUS
  <2>3. \A s \in seats : f[s].price = s.price /\ Id(f[s]) = Id(s)
    BY <2>2 DEF Free, Id, Inv, TypeOK, Seat
  <2>4. \A s, t \in seats : f[s] = f[t] => s = t
    BY <2>3 DEF SeatsApart
  <2>5. PICK some : some = {f[s] : s \in Sold}
    OBVIOUS
  <2>6. {f[s] : s \in seats} = MapOf(r) /\ some \in SUBSET MapOf(r)
    BY <1>1, <2>1, <2>2, <2>5
  <2>7. Cardinality(MapOf(r)) = Cardinality(seats)
    <3>1. Cardinality({f[s] : s \in seats}) = Cardinality(seats)
      BY <1>1, <2>4, ImageFinite DEF Priced
    <3>. QED
      BY <2>6, <3>1
  <2>8. Cardinality(some) = Cardinality(Sold) /\ Revenue(some) = Revenue(Sold)
    <3>1. /\ \A s \in Sold : f[s].price = s.price
          /\ \A s, t \in Sold : f[s] = f[t] => s = t
      BY <1>1, <2>3, <2>4
    <3>. QED
      BY <1>1, <2>5, <3>1, RevenueImage
  <2>9. /\ TotalsNow.total = Cardinality(MapOf(r))
        /\ TotalsNow.sold = Cardinality(some) /\ TotalsNow.revenue = Revenue(some)
    BY <2>7, <2>8 DEF TotalsNow
  <2>. QED
    BY <2>1, <2>6, <2>9 DEF Explains
<1>. QED
  BY <1>2, <1>3, <1>4

\* What each kind of answer says.
Answer(rep) ==
  \/ rep.of \in {"show", "period"} /\ rep.lines \in SUBSET Totals
  \/ rep.of = "detail" /\ rep.free \in Nat
  \/ rep.of = "plan" /\ rep.seats \in SUBSET Seat

\* ... and what makes it true of one map.
OfOneMap(rep) ==
  /\ rep.of = "show" => \A line \in rep.lines :
       line = [total |-> 0, sold |-> 0, revenue |-> 0] \/ \E r \in Mapped : Explains(r, line)
  /\ rep.of = "period" => \A line \in rep.lines : \E r \in Mapped : Explains(r, line)
  /\ rep.of = "detail" => rep.free = 0 \/ \E r \in Mapped : rep.free <= Cardinality(MapOf(r))
  /\ rep.of = "plan" => \/ rep.seats = {}
                        \/ \E r \in Mapped : {Id(s) : s \in rep.seats} = {Id(s) : s \in MapOf(r)}

\* The places of the readers, and answers that were true of a map when they were
\* given and are since, because nobody takes back what a request asked for.
ReadersOK ==
  /\ report = [q \in Reader |-> report[q]] /\ at = [q \in Reader |-> at[q]]
  /\ \A q \in Reader :
       /\ at[q] \in {"new", "exists", "aggregate", "countFree"} \cup Replied
       /\ report[q] # None => at[q] = "ok" /\ Answer(report[q]) /\ OfOneMap(report[q])

ReportsInv == Inv /\ SeatsApart /\ ReadersOK

\* A request keeps its input and its answer.
LEMMA MappedKept ==
  ASSUME Inv, [Next]_vars, NEW r \in Mapped
  PROVE  r \in Mapped' /\ input'[r] = input[r]
<1>1. /\ r \in Request /\ input[r] # None /\ pc[r] \in {"ok", "error"}
      /\ input \in [Request -> Inputs \cup {None}]
      /\ pc \in [Request -> {"new"} \cup Working \cup Replied]
  BY DEF Mapped, Inv, TypeOK
<1>2. ASSUME NEW q \in Request, NEW p, Goto(q, p), pc[q] \notin {"ok", "error"} PROVE pc'[r] = pc[r]
  BY <1>1, <1>2 DEF Goto
<1>3. CASE UNCHANGED <<input, pc>>
  BY <1>1, <1>3 DEF Mapped
<1>4. ASSUME NEW q \in Request, NEW p, Goto(q, p), pc[q] \notin {"ok", "error"},
             NEW in, input' = [input EXCEPT ![q] = in] \/ UNCHANGED input
      PROVE  r \in Mapped' /\ input'[r] = input[r]
  <2>1. q # r
    BY <1>1, <1>4
  <2>2. input'[r] = input[r]
    BY <1>1, <1>4, <2>1
  <2>. QED
    BY <1>1, <1>2, <1>4, <2>2 DEF Mapped
<1>5. ASSUME NEW q \in Request, StartGenerate(q) \/ CountBooked(q) \/ DeleteSeats(q)
               \/ InsertSeats(q) \/ TakeSeat(q) \/ Sell(q) \/ Fail(q)
      PROVE  r \in Mapped' /\ input'[r] = input[r]
  <2>1. /\ pc[q] \notin {"ok", "error"} /\ \E p : Goto(q, p)
        /\ UNCHANGED input \/ \E in : input' = [input EXCEPT ![q] = in]
    BY <1>5 DEF StartGenerate, CountBooked, DeleteSeats, InsertSeats, TakeSeat, Sell, Fail, Working
  <2>. QED
    BY <1>4, <2>1
<1>6. CASE (\E q \in Request : Release(q)) \/ CancelShow \/ DeleteShow \/ UNCHANGED vars
  BY <1>3, <1>6 DEF Release, CancelShow, DeleteShow, vars
<1>. QED
  BY <1>5, <1>6 DEF Next

\* So an answer stays true of a map.
LEMMA OfOneMapKept ==
  ASSUME Inv, [Next]_vars, NEW rep, OfOneMap(rep)
  PROVE  OfOneMap(rep)'
<1>1. \A r \in Mapped : r \in Mapped' /\ MapOf(r)' = MapOf(r)
  BY MappedKept DEF MapOf
<1>2. \A r \in Mapped : \A line : Explains(r, line) => Explains(r, line)'
  BY <1>1 DEF Explains
<1>. QED
  BY <1>1, <1>2 DEF OfOneMap, Id

LEMMA ReportKept ==
  ASSUME Inv, ReadersOK, [Next]_vars, NEW c \in Reader, report[c] # None, report'[c] = report[c]
  PROVE  OfOneMap(report[c])'
<1>1. PICK rep : rep = report[c]
  OBVIOUS
<1>2. OfOneMap(rep)
  BY <1>1 DEF ReadersOK
<1>3. OfOneMap(rep)'
  BY <1>2, OfOneMapKept
<1>4. rep = report'[c]
  BY <1>1
<1>. QED
  BY <1>3, <1>4

\* Readers start with no answer.
LEMMA ReportsInvInit == ReportsInit => ReportsInv
<1>. SUFFICES ASSUME ReportsInit PROVE ReportsInv
  OBVIOUS
<1>1. Inv /\ seats = {}
  BY InvInit DEF ReportsInit, Init
<1>. QED
  BY <1>1 DEF ReportsInit, ReportsInv, SeatsApart, ReadersOK

\* A reader goes on, and the seats stay.
LEMMA GoOnInv ==
  ASSUME ReportsInv, NEW q \in Reader, at[q] # "ok",
         NEW p \in {"new", "exists", "aggregate", "countFree"} \cup Replied,
         GoOn(q, p), UNCHANGED report
  PROVE  ReportsInv'
<1>1. UNCHANGED vars
  BY DEF GoOn, vars
<1>2. Inv'
  BY <1>1, InvNext DEF ReportsInv
<1>3. SeatsApart'
  BY <1>1, ApartNext DEF ReportsInv
<1>4. \A c \in Reader : report[c] # None => c # q /\ OfOneMap(report[c])'
  BY <1>1, ReportKept DEF ReportsInv, ReadersOK
<1>5. at' = [c \in Reader |-> IF c = q THEN p ELSE at[c]]
  BY DEF GoOn, ReportsInv, ReadersOK
<1>6. ReadersOK'
  BY <1>4, <1>5 DEF ReportsInv, ReadersOK, Answer
<1>. QED
  BY <1>2, <1>3, <1>6 DEF ReportsInv

\* A reader is answered with something that is true of a map.
LEMMA ReportInv ==
  ASSUME ReportsInv, NEW q \in Reader, NEW x, Report(q, x), Answer(x), OfOneMap(x)
  PROVE  ReportsInv'
<1>1. UNCHANGED vars
  BY DEF Report, GoOn, vars
<1>2. Inv'
  BY <1>1, InvNext DEF ReportsInv
<1>3. SeatsApart'
  BY <1>1, ApartNext DEF ReportsInv
<1>4. /\ at' = [c \in Reader |-> IF c = q THEN "ok" ELSE at[c]]
      /\ report' = [c \in Reader |-> IF c = q THEN x ELSE report[c]]
  BY DEF Report, GoOn, ReportsInv, ReadersOK
<1>5. \A c \in Reader : report'[c] # None => OfOneMap(report[c])'
  <2>1. OfOneMap(x)'
    BY <1>1, OfOneMapKept DEF ReportsInv
  <2>2. OfOneMap(report[q])'
    <3>1. x = report'[q]
      BY <1>4
    <3>. QED
      BY <2>1, <3>1
  <2>3. \A c \in Reader \ {q} : report'[c] = report[c]
    BY <1>4
  <2>. QED
    BY <1>1, <2>2, <2>3, ReportKept DEF ReportsInv
<1>6. ReadersOK'
  BY <1>4, <1>5 DEF ReportsInv, ReadersOK, Answer, Replied
<1>. QED
  BY <1>2, <1>3, <1>6 DEF ReportsInv

LEMMA ReportsInvNext == ReportsInv /\ [ReportsNext]_reportVars => ReportsInv'
<1>. SUFFICES ASSUME ReportsInv, [ReportsNext]_reportVars PROVE ReportsInv'
  OBVIOUS
<1>1. Inv /\ SeatsApart /\ ReadersOK
  BY DEF ReportsInv
<1>2. ASSUME [Next]_vars, UNCHANGED <<report, at>> PROVE ReportsInv'
  <2>1. Inv' /\ SeatsApart'
    BY <1>1, <1>2, InvNext, ApartNext
  <2>2. \A q \in Reader : report[q] # None => OfOneMap(report[q])'
    BY <1>1, <1>2, ReportKept
  <2>3. ReadersOK'
    BY <1>1, <1>2, <2>2 DEF ReadersOK, Answer
  <2>. QED
    BY <2>1, <2>3 DEF ReportsInv
<1>3. ASSUME NEW q \in Reader, Aggregate(q) PROVE ReportsInv'
  <2>1. PICK x : x = [of |-> "show", lines |-> {TotalsNow}]
    OBVIOUS
  <2>2. Answer(x) /\ OfOneMap(x)
    BY <1>1, <2>1, FiguresExplained DEF Answer, OfOneMap
  <2>. QED
    BY <1>3, <2>1, <2>2, ReportInv DEF Aggregate
<1>4. ASSUME NEW q \in Reader, CountFree(q) PROVE ReportsInv'
  <2>1. PICK free : free = {s \in seats : s.status = "free"}
    OBVIOUS
  <2>2. free \in SUBSET seats /\ IsFiniteSet(seats)
    BY <1>1, <2>1, SeatsPriced DEF Priced
  <2>3. IsFiniteSet(free) /\ Cardinality(free) <= Cardinality(seats)
    BY <2>2, FS_Subset
  <2>4. PICK n : n = Cardinality(free)
    OBVIOUS
  <2>5. n \in Nat
    BY <2>3, <2>4, FS_CardinalityType
  <2>6. n = 0 \/ \E r \in Mapped : n <= Cardinality(MapOf(r))
    <3>1. CASE seats = {}
      BY <2>2, <2>4, <3>1, FS_EmptySet
    <3>2. CASE seats # {}
      <4>1. PICK r \in Mapped : Explains(r, TotalsNow)
        BY <1>1, <3>2, FiguresExplained
      <4>2. Cardinality(seats) = Cardinality(MapOf(r))
        BY <4>1 DEF Explains, TotalsNow
      <4>. QED
        BY <2>3, <2>4, <4>2
    <3>. QED
      BY <3>1, <3>2
  <2>7. PICK x : x = [of |-> "detail", free |-> n]
    OBVIOUS
  <2>8. Answer(x) /\ OfOneMap(x)
    BY <2>5, <2>6, <2>7 DEF Answer, OfOneMap
  <2>9. Report(q, x)
    BY <1>4, <2>1, <2>4, <2>7 DEF CountFree
  <2>. QED
    BY <2>8, <2>9, ReportInv
<1>5. ASSUME NEW q \in Reader, ReportPeriod(q) PROVE ReportsInv'
  <2>1. CASE GoOn(q, "ErrInvalid") /\ UNCHANGED report
    BY <1>5, <2>1, GoOnInv DEF ReportPeriod, Replied
  <2>2. ASSUME NEW inPeriod \in BOOLEAN,
               Report(q, [of |-> "period",
                          lines |-> IF inPeriod /\ exists /\ seats # {} THEN {TotalsNow} ELSE {}])
        PROVE  ReportsInv'
    <3>1. PICK lines : lines = IF inPeriod /\ exists /\ seats # {} THEN {TotalsNow} ELSE {}
      OBVIOUS
    <3>2. PICK x : x = [of |-> "period", lines |-> lines]
      OBVIOUS
    <3>3. lines \in SUBSET Totals /\ \A line \in lines : \E r \in Mapped : Explains(r, line)
      BY <1>1, <3>1, FiguresExplained
    <3>4. Answer(x) /\ OfOneMap(x)
      BY <3>2, <3>3 DEF Answer, OfOneMap
    <3>. QED
      BY <2>2, <3>1, <3>2, <3>4, ReportInv
  <2>. QED
    BY <1>5, <2>1, <2>2 DEF ReportPeriod
<1>6. ASSUME NEW q \in Reader, ReadPlan(q) PROVE ReportsInv'
  <2>1. PICK x : x = [of |-> "plan", seats |-> seats]
    OBVIOUS
  <2>2. Answer(x)
    BY <1>1, <2>1 DEF Answer, Inv, TypeOK
  <2>3. seats = {} \/ \E r \in Mapped : {Id(s) : s \in seats} = {Id(s) : s \in MapOf(r)}
    <3>1. SUFFICES ASSUME seats # {}
                   PROVE  \E r \in Mapped : {Id(s) : s \in seats} = {Id(s) : s \in MapOf(r)}
      OBVIOUS
    <3>2. PICK r \in Mapped : {Free(s) : s \in seats} = MapOf(r)
      BY <1>1, <3>1, SeatsOfOneMap
    <3>3. \A s \in seats : Id(Free(s)) = Id(s)
      BY <1>1 DEF Free, Id, Inv, TypeOK, Seat
    <3>. QED
      BY <3>2, <3>3
  <2>4. OfOneMap(x)
    BY <2>1, <2>3 DEF OfOneMap
  <2>. QED
    BY <1>6, <2>1, <2>2, <2>4, ReportInv DEF ReadPlan
<1>7. ASSUME NEW q \in Reader, StartStats(q) \/ CheckExists(q) \/ StartDetail(q) \/ ReadFails(q)
      PROVE  ReportsInv'
  <2>1. /\ at[q] # "ok" /\ UNCHANGED report
        /\ \E p \in {"new", "exists", "aggregate", "countFree"} \cup Replied : GoOn(q, p)
    BY <1>7 DEF StartStats, CheckExists, StartDetail, ReadFails, Replied
  <2>. QED
    BY <2>1, GoOnInv
<1>8. CASE UNCHANGED reportVars
  BY <1>2, <1>8 DEF reportVars, vars
<1>. QED
  BY <1>2, <1>3, <1>4, <1>5, <1>6, <1>7, <1>8 DEF ReportsNext, Read

LEMMA ReportsInvariance == ReportsSpec => []ReportsInv
BY ReportsInvInit, ReportsInvNext, PTL DEF ReportsSpec

\* Reading changes nothing that the theorems above are about: they hold while
\* seats are read.
THEOREM ReadingIsHarmless == ReportsSpec => Spec
<1>1. ReportsInit => Init
  BY DEF ReportsInit
<1>2. [ReportsNext]_reportVars => [Next]_vars
  BY DEF ReportsNext, Read, StartStats, CheckExists, Aggregate, StartDetail, CountFree, ReportPeriod,
         ReadPlan, ReadFails, Report, GoOn, reportVars, vars
<1>. QED
  BY <1>1, <1>2, PTL DEF ReportsSpec, Spec

\* Responses have their types; in particular a revenue is a number, also of a show
\* without sold seats, and only an answered request has a response.
THEOREM ReportsTypeCorrect == ReportsSpec => []ReportsTypeOK
<1>1. ReportsInv => ReportsTypeOK
  BY DEF ReportsInv, ReadersOK, Inv, ReportsTypeOK, Answer
<1>. QED
  BY <1>1, ReportsInvariance, PTL

\* However seat maps are replaced while they are read, what is reported is of one
\* whole map or of none, and total, sold seats and revenue belong together.
THEOREM ReportsOfOneMap == ReportsSpec => []ReportsAreOfOneMap
<1>1. ReportsInv => ReportsAreOfOneMap
  <2>. SUFFICES ASSUME ReportsInv, NEW q \in Reader, report[q] # None
                PROVE  LET rep == report[q]
                           maps == {r \in Request : input[r] # None /\ pc[r] \in {"ok", "error"}}
                       IN  CASE rep.of = "show" ->
                                  \A line \in rep.lines :
                                    \/ line = [total |-> 0, sold |-> 0, revenue |-> 0]
                                    \/ \E r \in maps : Explains(r, line)
                             [] rep.of = "period" ->
                                  \A line \in rep.lines : \E r \in maps : Explains(r, line)
                             [] rep.of = "detail" ->
                                  rep.free = 0 \/ \E r \in maps : rep.free <= Cardinality(MapOf(r))
                             [] rep.of = "plan" ->
                                  \/ rep.seats = {}
                                  \/ \E r \in maps :
                                       {Id(s) : s \in rep.seats} = {Id(s) : s \in MapOf(r)}
    BY DEF ReportsAreOfOneMap
  <2>1. PICK rep : rep = report[q]
    OBVIOUS
  <2>2. OfOneMap(rep) /\ rep.of \in {"show", "period", "detail", "plan"}
    BY <2>1 DEF ReportsInv, ReadersOK, Answer
  <2>3. CASE rep.of = "show"
    BY <2>1, <2>2, <2>3 DEF OfOneMap, Mapped
  <2>4. CASE rep.of = "period"
    BY <2>1, <2>2, <2>4 DEF OfOneMap, Mapped
  <2>5. CASE rep.of = "detail"
    BY <2>1, <2>2, <2>5 DEF OfOneMap, Mapped
  <2>6. CASE rep.of = "plan"
    BY <2>1, <2>2, <2>6 DEF OfOneMap, Mapped
  <2>. QED
    BY <2>2, <2>3, <2>4, <2>5, <2>6
<1>. QED
  BY <1>1, ReportsInvariance, PTL

=============================================================================
