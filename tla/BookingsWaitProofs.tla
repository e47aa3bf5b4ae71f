------------------------- MODULE BookingsWaitProofs -------------------------
(***************************************************************************)
(* Where requests can wait in a circle, however many requests, shows and   *)
(* seats there are.  The proof ranks the statements by what they have      *)
(* locked so far: whoever is waited for has come further than whoever      *)
(* waits, except among requests that cancel one show, of which all but one *)
(* wait for the lock on the show itself, and except for the DELETE of a    *)
(* seat map, which locks seats before it waits for bookings.  So a circle  *)
(* has such a DELETE on it, and without one some request can always go on. *)
(* Every step of a request brings it nearer to its answer.  The last part  *)
(* is what a cancellation of a show leaves behind.                         *)
(***************************************************************************)
EXTENDS BookingsProofs, FiniteSetTheorems

Cancelling == {"readBookings", "endBookings", "freeSeats", "commit"}

\* A request that cancels a show keeps the lock on the show to its end.
ShowHeld ==
  \A r \in Request : Op(r) = "CancelShow" /\ pc[r] \in Cancelling =>
    showLock[call[r].show] = r

\* The bookings an UPDATE has yet to reach are of its show, and not locked by
\* the request itself, ...
BatchOK ==
  \A r, b \in Request : b \in batch[r] =>
    /\ pc[r] = "endBookings"
    /\ pc[b] \in Replied
    /\ booking[b] # None => booking[b].show = call[r].show
    /\ bookingLock[b] # r

\* ... and neither are the seats.
SeatBatchFree == \A r \in Request : \A s \in seatBatch[r] : seatLock[s] # r

WaitInv == ShowHeld /\ BatchOK /\ SeatBatchFree

LEMMA WaitInit == Init => WaitInv
<1>. SUFFICES ASSUME Init PROVE WaitInv
  OBVIOUS
<1>1. ShowHeld
  BY DEF Init, ShowHeld, Cancelling
<1>2. BatchOK /\ SeatBatchFree
  BY DEF Init, BatchOK, SeatBatchFree
<1>. QED
  BY <1>1, <1>2 DEF WaitInv

\* A request that arrives is at its first statement, or answered.
LEMMA FirstStatement ==
  ASSUME NEW r \in Request, Receive(r)
  PROVE  \E c \in Call, p \in {"takeSeat", "endBooking", "cancelShow", "readSeats"} \cup Replied :
           Start(r, c, p)
<1>1. CASE StartBook(r)
  BY <1>1 DEF StartBook, Call, Replied
<1>2. CASE StartCancel(r)
  BY <1>2 DEF StartCancel, Call, Replied
<1>3. CASE StartRefund(r)
  BY <1>3 DEF StartRefund, Call, Replied
<1>4. CASE StartCancelShow(r)
  BY <1>4 DEF StartCancelShow, Call, Replied
<1>5. CASE StartGenerate(r)
  BY <1>5 DEF StartGenerate, Call, Replied
<1>. QED
  BY <1>1, <1>2, <1>3, <1>4, <1>5 DEF Receive

\* It is at none of the statements of a cancellation.
LEMMA StartWait ==
  ASSUME Inv, WaitInv, NEW r \in Request, NEW c \in Call, NEW p, Start(r, c, p),
         p \in {"takeSeat", "endBooking", "cancelShow", "readSeats"} \cup Replied
  PROVE  WaitInv'
<1>1. pc[r] = "new" /\ pc'[r] = p
  BY DEF Inv, TypeInv, TypeOK, Start
<1>2. \A q \in Request \ {r} : pc'[q] = pc[q] /\ call'[q] = call[q]
  BY DEF Inv, TypeInv, TypeOK, Start
<1>3. UNCHANGED <<booking, showLock, seatLock, bookingLock, batch, seatBatch>>
  BY DEF Start, tables, locks, batches
<1>4. ShowHeld'
  BY <1>1, <1>2, <1>3 DEF WaitInv, ShowHeld, Op, Cancelling, Replied
<1>5. BatchOK'
  BY <1>1, <1>2, <1>3 DEF WaitInv, BatchOK, Replied
<1>6. SeatBatchFree'
  BY <1>3 DEF WaitInv, SeatBatchFree
<1>. QED
  BY <1>4, <1>5, <1>6 DEF WaitInv

\* A statement that reads the seats of a show has locked none of them yet.
LEMMA SeatsReadWait ==
  ASSUME Inv, WaitInv, NEW r \in Request, NEW p, NEW q, SeatsRead(r, p, q), batch[r] = {},
         <<p, q>> \in {<<"endBookings", "freeSeats">>, <<"readSeats", "deleteSeats">>}
  PROVE  WaitInv'
<1>1. /\ pc[r] = p /\ pc'[r] = q /\ \A x \in Request \ {r} : pc'[x] = pc[x] /\ seatBatch'[x] = seatBatch[x]
      /\ UNCHANGED <<booking, showLock, seatLock, bookingLock, batch, call>>
  BY DEF SeatsRead, Statement, tables, locks, Inv, TypeInv, TypeOK
<1>2. ShowHeld'
  <2>1. p = "readSeats" => Op(r) = "GenerateSeatMap"
    BY <1>1 DEF Inv, TypeInv, ControlOK, Fits, Working, Op
  <2>. QED
    BY <1>1, <2>1 DEF WaitInv, ShowHeld, Op, Cancelling
<1>3. BatchOK'
  BY <1>1 DEF WaitInv, BatchOK, Replied
<1>4. \A s \in Seat : seatLock[s] # r
  BY <1>1 DEF Inv, LockInv, SeatLockOK, SeatLockedFor
<1>5. SeatBatchFree'
  <2>1. seatBatch' \in [Request -> SUBSET Seat]
    BY DEF SeatsRead, ShowSeats, Inv, TypeInv, TypeOK
  <2>. QED
    BY <1>1, <1>4, <2>1 DEF WaitInv, SeatBatchFree
<1>. QED
  BY <1>2, <1>3, <1>5 DEF WaitInv

\* It takes a seat off its batch when it locks it.
LEMMA SeatReachedWait ==
  ASSUME Inv, WaitInv, NEW r \in Request, NEW p, SeatReached(r, p)
  PROVE  WaitInv'
<1>. PICK s \in seatBatch[r] :
       /\ \/ /\ seatLock[s] = None
             /\ seatLock' = [seatLock EXCEPT ![s] = r]
          \/ UNCHANGED seatLock
       /\ seatBatch' = [seatBatch EXCEPT ![r] = @ \ {s}]
       /\ Statement(r, p, p)
       /\ UNCHANGED <<showLock, bookingLock, batch>>
  BY DEF SeatReached
<1>1. UNCHANGED <<booking, call, pc, showLock, bookingLock, batch>>
  BY DEF Statement, tables, Inv, TypeInv, TypeOK
<1>2. \A x \in Request : seatBatch'[x] = IF x = r THEN seatBatch[r] \ {s} ELSE seatBatch[x]
  BY DEF Inv, TypeInv, TypeOK
<1>3. \A t \in Seat : seatLock'[t] = seatLock[t] \/ (t = s /\ seatLock'[t] = r)
  BY DEF Inv, TypeInv, TypeOK
<1>4. ShowHeld' /\ BatchOK'
  BY <1>1 DEF WaitInv, ShowHeld, BatchOK, Op
<1>5. SeatBatchFree'
  <2>1. \A x \in Request : seatBatch[x] \subseteq Seat
    BY DEF Inv, TypeInv, TypeOK
  <2>. QED
    BY <1>2, <1>3, <2>1 DEF WaitInv, SeatBatchFree
<1>. QED
  BY <1>4, <1>5 DEF WaitInv

\* A statement locks its show before any other row, and takes a booking off its
\* batch when it locks it.
LEMMA LockingWait ==
  ASSUME Inv, WaitInv, NEW r \in Request, Locking(r)
  PROVE  WaitInv'
<1>1. CASE BookingsEnded(r) \/ ReadSeats(r)
  <2>1. batch[r] = {}
    BY <1>1 DEF BookingsEnded, ReadSeats, SeatsRead, Statement, WaitInv, BatchOK, Inv, TypeInv, TypeOK
  <2>. QED
    BY <1>1, <2>1, SeatsReadWait DEF BookingsEnded, ReadSeats
<1>2. CASE FreeOneSeat(r) \/ DeleteOneSeat(r)
  BY <1>2, SeatReachedWait DEF FreeOneSeat, DeleteOneSeat
<1>3. ASSUME NEW s \in Seat, pc[r] \notin {"freeSeats", "deleteSeats"},
             \/ seatLock' = [seatLock EXCEPT ![s] = r]
             \/ UNCHANGED seatLock,
             UNCHANGED seatBatch
      PROVE  SeatBatchFree'
  <2>1. seatBatch[r] = {}
    BY <1>3 DEF Inv, SeatBatchOK
  <2>. QED
    BY <1>3, <2>1 DEF WaitInv, SeatBatchFree, Inv, TypeInv, TypeOK
<1>4. CASE TakeSeat(r)
  <2>1. call[r].seat \in Seat
    BY <1>4, CallFields DEF TakeSeat, Statement, Inv, TypeInv, TypeOK, ControlOK, Fits, Working
  <2>2. SeatBatchFree'
    BY <1>3, <1>4, <2>1 DEF TakeSeat, Statement, batches
  <2>3. ShowHeld' /\ BatchOK'
    BY <1>4 DEF TakeSeat, Statement, batches, tables, WaitInv, ShowHeld, BatchOK, Cancelling, Op, Replied,
                Inv, TypeInv, TypeOK, ControlOK, Fits, Working
  <2>. QED
    BY <2>2, <2>3 DEF WaitInv
<1>5. CASE FreeSeat(r)
  <2>1. seatID[r] \in Seat
    BY <1>5 DEF FreeSeat, Statement, Inv, TypeInv, ControlOK, Fits, Working, Releasing, Op
  <2>2. SeatBatchFree'
    BY <1>3, <1>5, <2>1 DEF FreeSeat, Statement, batches
  <2>3. ShowHeld' /\ BatchOK'
    BY <1>5 DEF FreeSeat, Statement, batches, tables, WaitInv, ShowHeld, BatchOK, Cancelling, Op, Replied,
                Inv, TypeInv, TypeOK, ControlOK, Fits, Working
  <2>. QED
    BY <2>2, <2>3 DEF WaitInv
<1>6. CASE EndBooking(r) \/ MarkShow(r) \/ ReadBookings(r) \/ EndOneBooking(r) \/ SeatsFreed(r)
  <2>0. SeatBatchFree'
    BY <1>6 DEF EndBooking, MarkShow, ReadBookings, EndOneBooking, SeatsFreed, locks, batches,
                WaitInv, SeatBatchFree
  <2>. USE BookingsAssumption
       DEF Inv, TypeInv, TypeOK, ControlOK, Fits, Working, Statement, Replied, locks, tables, batches,
           WaitInv, ShowHeld, BatchOK, Cancelling, Op
  <2>1. CASE EndBooking(r)
    BY <2>0, <2>1 DEF EndBooking
  <2>2. CASE MarkShow(r)
    BY <2>0, <2>2, CallFields DEF MarkShow
  <2>3. CASE ReadBookings(r)
    BY <2>0, <2>3, CallFields DEF ReadBookings, ShowBookings, Live, LockInv, BookingAnswered, BookingLockOK
  <2>4. CASE EndOneBooking(r)
    BY <2>0, <2>4 DEF EndOneBooking
  <2>5. CASE SeatsFreed(r)
    BY <2>0, <2>5 DEF SeatsFreed
  <2>. QED
    BY <1>6, <2>1, <2>2, <2>3, <2>4, <2>5
<1>. QED
  BY <1>1, <1>2, <1>4, <1>5, <1>6 DEF Locking

\* The end of a transaction leaves the locks and batches of the others alone,
\* and changes no booking's show.
LEMMA EndWait ==
  ASSUME Inv, WaitInv, NEW r \in Request, Commit(r) \/ QuietEnd(r)
  PROVE  WaitInv'
<1>. PICK answer \in Replied : Finish(r, answer)
  BY DEF Commit, QuietEnd, Replied
<1>1. pc[r] \in Working
  BY DEF Commit, QuietEnd, Working
<1>. USE <1>1, FinishLock DEF Inv
<1>2. ShowHeld'
  <2>. SUFFICES ASSUME NEW q \in Request, Op(q)' = "CancelShow", pc'[q] \in Cancelling
                PROVE  showLock'[call'[q].show] = q
    BY DEF ShowHeld
  <2>1. q # r /\ pc'[q] = pc[q] /\ call'[q] = call[q] /\ Op(q) = "CancelShow"
    BY DEF Cancelling, Replied, Op
  <2>2. call[q].show \in Show
    BY <2>1, CallFields DEF Op, TypeInv, TypeOK
  <2>3. showLock[call[q].show] = q
    BY <2>1 DEF WaitInv, ShowHeld
  <2>. QED
    BY <2>1, <2>2, <2>3
<1>3. BatchOK'
  <2>. SUFFICES ASSUME NEW q \in Request, NEW b \in Request, b \in batch'[q]
                PROVE  /\ pc'[q] = "endBookings"
                       /\ pc'[b] \in Replied
                       /\ booking'[b] # None => booking'[b].show = call'[q].show
                       /\ bookingLock'[b] # q
    BY DEF BatchOK
  <2>1. q # r /\ b \in batch[q]
    BY DEF Finish, TypeInv, TypeOK
  <2>2. /\ pc[q] = "endBookings" /\ pc[b] \in Replied /\ bookingLock[b] # q
        /\ booking[b] # None => booking[b].show = call[q].show
    BY <2>1 DEF WaitInv, BatchOK
  <2>3. b # r
    BY <2>2 DEF Replied, Working
  <2>4. pc'[q] = pc[q] /\ pc'[b] = pc[b] /\ call'[q] = call[q]
    BY <2>1, <2>3
  <2>5. booking'[b] # None => booking[b] # None /\ booking'[b].show = booking[b].show
    <3>1. CASE Commit(r)
      BY <2>3, <3>1, CommitBookings, BookingsAssumption DEF TypeInv, LockedExists
    <3>2. CASE QuietEnd(r)
      BY <3>2 DEF QuietEnd
    <3>. QED
      BY <3>1, <3>2
  <2>. QED
    BY <2>2, <2>4, <2>5
<1>4. SeatBatchFree'
  <2>. SUFFICES ASSUME NEW q \in Request, NEW s \in seatBatch'[q] PROVE seatLock'[s] # q
    BY DEF SeatBatchFree
  <2>1. q # r /\ s \in seatBatch[q] /\ s \in Seat
    BY DEF TypeInv, TypeOK
  <2>. QED
    BY <2>1 DEF WaitInv, SeatBatchFree
<1>. QED
  BY <1>2, <1>3, <1>4 DEF WaitInv

\* So does the DELETE of a seat map.
LEMMA SeatsDeletedWait ==
  ASSUME Inv, WaitInv, NEW r \in Request, SeatsDeleted(r)
  PROVE  WaitInv'
<1>1. /\ pc[r] = "deleteSeats" /\ pc'[r] = "insertSeats"
      /\ \A q \in Request \ {r} : pc'[q] = pc[q]
      /\ UNCHANGED <<booking, showLock, bookingLock, call, batch, seatBatch>>
  BY DEF SeatsDeleted, Inv, TypeInv, TypeOK, batches
<1>2. ShowHeld' /\ BatchOK'
  BY <1>1 DEF WaitInv, ShowHeld, BatchOK, Op, Cancelling, Replied
<1>3. SeatBatchFree'
  BY <1>1, BookingsAssumption DEF SeatsDeleted, Unlock, WaitInv, SeatBatchFree, Inv, TypeInv, TypeOK
<1>. QED
  BY <1>2, <1>3 DEF WaitInv

\* Every step keeps what the ranking rests on.
LEMMA WaitNext == Inv /\ WaitInv /\ [Next]_vars => WaitInv'
<1>. SUFFICES ASSUME Inv, WaitInv, [Next]_vars PROVE WaitInv'
  OBVIOUS
<1>1. ASSUME NEW r \in Request, Receive(r) PROVE WaitInv'
  BY <1>1, FirstStatement, StartWait
<1>2. ASSUME NEW h \in Show, UpdateStatus(h) PROVE WaitInv'
  BY <1>2 DEF UpdateStatus, locks, batches, WaitInv, ShowHeld, BatchOK, SeatBatchFree, Op
<1>3. CASE UNCHANGED vars
  BY <1>3 DEF vars, tables, locks, batches, WaitInv, ShowHeld, BatchOK, SeatBatchFree, Op
<1>. QED
  BY <1>1, <1>2, <1>3, StepKinds, LockingWait, EndWait, SeatsDeletedWait DEF Next, Inv

-----------------------------------------------------------------------------
(* The ranking. *)

\* How far the statement at p is in the order shows, bookings, seats, commit.
Rank(p) ==
  IF p = "readBookings" THEN 1
  ELSE IF p = "endBooking" THEN 2
  ELSE IF p = "endBookings" THEN 3
  ELSE IF p \in {"takeSeat", "freeSeat"} THEN 4
  ELSE IF p = "freeSeats" THEN 5
  ELSE IF p = "commit" THEN 6
  ELSE 0

\* Two requests never cancel one show at a time.
LEMMA OneCanceller ==
  ASSUME WaitInv, NEW r \in Request, NEW q \in Request,
         Op(r) = "CancelShow", pc[r] \in Cancelling,
         Op(q) = "CancelShow", pc[q] \in Cancelling, call[r].show = call[q].show
  PROVE  q = r
BY DEF WaitInv, ShowHeld

\* Whoever waits for a booking that r has locked stands behind r, or cancels its show
\* while r ends another booking.
LEMMA BatchWaits ==
  ASSUME Inv, WaitInv, NEW r \in Request, NEW q \in Request, pc[r] = "endBookings",
         NEW b \in batch[r], bookingLock[b] = q
  PROVE  Op(r) = "CancelShow" /\ Op(q) \in {"Cancel", "Refund"} /\ pc[q] \in {"freeSeat", "commit"}
<1>1. b \in Request
  BY DEF Inv, TypeInv, TypeOK
<1>2. q # r /\ booking[b] # None /\ booking[b].show = call[r].show
  BY <1>1, BookingsAssumption DEF WaitInv, BatchOK, Inv, TypeInv, LockedExists
<1>3. Op(r) = "CancelShow" /\ pc[r] \in Cancelling
  BY DEF Cancelling, Inv, TypeInv, ControlOK, Fits, Working, Op
<1>4. ~ /\ Op(q) = "CancelShow" /\ pc[q] \in {"endBookings", "freeSeats", "commit"}
        /\ booking[b].show = call[q].show
  BY <1>2, <1>3, OneCanceller DEF Cancelling
<1>. QED
  BY <1>1, <1>3, <1>4 DEF Inv, LockInv, BookingLockOK

\* Whoever is waited for has come further than whoever waits, unless one of the two
\* deletes a seat map.
LEMMA WaitsForFurther ==
  ASSUME Inv, WaitInv, NEW r \in Request, NEW q \in Request, WaitsFor(r, q),
         pc[r] # "deleteSeats", pc[q] # "deleteSeats"
  PROVE  Rank(pc[q]) > Rank(pc[r])
<1>. USE DEF Rank
<1>0. ASSUME NEW s \in Seat, seatLock[s] = q
      PROVE  \/ pc[q] = "commit"
             \/ Op(q) = "CancelShow" /\ pc[q] = "freeSeats" /\ ShowOf[s] = call[q].show
  BY <1>0 DEF Inv, LockInv, SeatLockOK, SeatLockedFor
<1>1. CASE pc[r] = "takeSeat"
  <2>1. call[r].seat \in Seat /\ seatLock[call[r].seat] = q
    BY <1>1, CallFields DEF WaitsFor, Inv, TypeInv, TypeOK, ControlOK, Fits, Working
  <2>. QED
    BY <1>0, <1>1, <2>1
<1>2. CASE pc[r] = "endBooking"
  <2>1. call[r].booking \in Request /\ bookingLock[call[r].booking] = q
    BY <1>2, CallFields DEF WaitsFor, Inv, TypeInv, TypeOK, ControlOK, Fits, Working
  <2>2. pc[q] \in {"freeSeat", "commit", "endBookings", "freeSeats"}
    BY <2>1 DEF Inv, LockInv, BookingLockOK
  <2>. QED
    BY <1>2, <2>2
<1>3. CASE pc[r] = "freeSeat"
  <2>1. Releasing(r)
    BY <1>3 DEF Releasing, Working, Op, Inv, TypeInv, ControlOK, Fits
  <2>2. seatID[r] \in Seat /\ seatLock[seatID[r]] = q
    BY <1>3, <2>1 DEF WaitsFor, Inv, TypeInv, ControlOK
  <2>. QED
    BY <1>0, <1>3, <2>2
<1>4. CASE pc[r] = "cancelShow"
  <2>1. call[r].show \in Show /\ showLock[call[r].show] = q
    BY <1>4, CallFields DEF WaitsFor, Inv, TypeInv, TypeOK, ControlOK, Fits, Working
  <2>2. pc[q] \in {"readBookings", "endBookings", "freeSeats", "commit"}
    BY <2>1 DEF Inv, LockInv, ShowLockOK
  <2>. QED
    BY <1>4, <2>2
<1>5. CASE pc[r] = "endBookings"
  <2>1. PICK b \in batch[r] : bookingLock[b] = q
    BY <1>5 DEF WaitsFor
  <2>. QED
    BY <1>5, <2>1, BatchWaits
<1>6. CASE pc[r] = "freeSeats"
  <2>1. PICK s \in seatBatch[r] : seatLock[s] = q
    BY <1>6 DEF WaitsFor
  <2>2. s \in Seat /\ q # r /\ ShowOf[s] = call[r].show
    BY <2>1 DEF WaitInv, SeatBatchFree, Inv, SeatBatchOK, TypeInv, TypeOK
  <2>3. Op(r) = "CancelShow"
    BY <1>6 DEF Inv, TypeInv, ControlOK, Fits, Working, Op
  <2>. QED
    BY <1>0, <1>6, <2>1, <2>2, <2>3, OneCanceller DEF Cancelling
<1>7. CASE pc[r] = "insertSeats"
  <2>1. PICK s \in Seat : seatLock[s] = q
    BY <1>7 DEF WaitsFor, ShowSeats
  <2>. QED
    BY <1>0, <1>7, <2>1
<1>8. CASE pc[r] \notin {"takeSeat", "endBooking", "freeSeat", "cancelShow",
                         "endBookings", "freeSeats", "insertSeats"}
  BY <1>8 DEF WaitsFor
<1>. QED
  BY <1>1, <1>2, <1>3, <1>4, <1>5, <1>6, <1>7, <1>8

\* In a set of requests none of which deletes a seat map, one that has come furthest
\* waits for none of the set.
LEMMA FurthestGoesOn ==
  ASSUME Inv, WaitInv, NEW S \in SUBSET Request, S # {}, \A r \in S : pc[r] # "deleteSeats"
  PROVE  \E r \in S : \A q \in S : ~WaitsFor(r, q)
<1>. SUFFICES ASSUME \A r \in S : \E q \in S : WaitsFor(r, q)
              PROVE  FALSE
  OBVIOUS
<1>1. \A r \in S : \E q \in S : Rank(pc[q]) > Rank(pc[r])
  BY WaitsForFurther
<1>2. \A r \in S : Rank(pc[r]) \in 0..6
  BY DEF Rank
<1>. DEFINE Reached(n) == \E r \in S : Rank(pc[r]) >= n
<1>3. Reached(0)
  BY <1>2
<1>4. ASSUME NEW n \in 0..6, Reached(n) PROVE Reached(n + 1)
  <2>. PICK r \in S : Rank(pc[r]) >= n
    BY <1>4
  <2>. PICK q \in S : Rank(pc[q]) > Rank(pc[r])
    BY <1>1
  <2>. QED
    BY <1>2
<1>. HIDE DEF Reached
<1>5. Reached(7)
  BY <1>3, <1>4
<1>. QED
  BY <1>2, <1>5 DEF Reached

\* A request that still waits for the first row it writes, or for the rows of a map it
\* inserts, holds none: nobody waits for it.
LEMMA HoldsNothing ==
  ASSUME Inv, NEW r \in Request, NEW q \in Request, WaitsFor(r, q)
  PROVE  pc[q] \in Working \ {"takeSeat", "endBooking", "cancelShow", "insertSeats"}
<1>1. /\ \A h \in Show : showLock[h] = q => pc[q] \in Cancelling
      /\ \A s \in Seat : seatLock[s] = q => pc[q] \in {"freeSeats", "deleteSeats", "commit"}
      /\ \A b \in Request : bookingLock[b] = q => pc[q] \in {"freeSeat", "endBookings", "freeSeats", "commit"}
  BY DEF Inv, LockInv, ShowLockOK, SeatLockOK, SeatLockedFor, BookingLockOK, Cancelling
<1>2. /\ pc[r] = "takeSeat" => call[r].seat \in Seat
      /\ pc[r] = "endBooking" => call[r].booking \in Request
      /\ pc[r] = "freeSeat" => seatID[r] \in Seat
      /\ pc[r] = "cancelShow" => call[r].show \in Show
      /\ batch[r] \subseteq Request /\ seatBatch[r] \subseteq Seat
  BY CallFields DEF Inv, TypeInv, TypeOK, ControlOK, Fits, Working, Releasing, Op
<1>3. \/ \E h \in Show : showLock[h] = q
      \/ \E s \in Seat : seatLock[s] = q
      \/ \E b \in Request : bookingLock[b] = q
  BY <1>2 DEF WaitsFor, ShowSeats, Referring
<1>. QED
  BY <1>1, <1>3 DEF Cancelling, Working

\* Nobody on a circle waits for a refund: who waits for its booking either holds nothing
\* itself, or cancels the show and is waited for only by such.
LEMMA RefundsNotOnCircles ==
  ASSUME Inv, WaitInv, NEW S \in SUBSET Request, Circle(S), NEW r \in S
  PROVE  Op(r) # "Refund"
<1>. SUFFICES ASSUME Op(r) = "Refund" PROVE FALSE
  OBVIOUS
<1>. USE DEF Circle
<1>0. ASSUME NEW x \in S PROVE pc[x] \notin {"takeSeat", "endBooking", "cancelShow", "insertSeats"}
  <2>1. PICK y \in S : WaitsFor(y, x)
    OBVIOUS
  <2>. QED
    BY <2>1, HoldsNothing
<1>1. pc[r] = "freeSeat"
  <2>1. PICK y \in S : WaitsFor(r, y)
    OBVIOUS
  <2>2. pc[r] \in Working /\ pc[r] # "commit"
    BY <2>1 DEF WaitsFor, Working
  <2>. QED
    BY <1>0, <2>2 DEF Inv, TypeInv, ControlOK, Fits, Working, Op
<1>2. /\ \A h \in Show : showLock[h] # r
      /\ \A s \in Seat : seatLock[s] # r
  BY <1>1 DEF Inv, LockInv, ShowLockOK, SeatLockOK, SeatLockedFor
<1>3. PICK q \in S : WaitsFor(q, r)
  OBVIOUS
<1>4. pc[q] = "endBookings" /\ \E b \in batch[q] : bookingLock[b] = r
  <2>1. seatBatch[q] \subseteq Seat /\ (pc[q] = "freeSeat" => seatID[q] \in Seat)
    BY DEF Inv, TypeInv, TypeOK, ControlOK, Fits, Working, Releasing, Op
  <2>2. \A b \in Request : bookingLock[b] = r => ~BeingDeleted(b)
    BY DEF BeingDeleted
  <2>. QED
    BY <1>0, <1>2, <1>3, <2>1, <2>2 DEF WaitsFor, Referring
<1>5. Op(q) = "CancelShow"
  BY <1>4, BatchWaits
<1>6. /\ \A s \in Seat : seatLock[s] # q
      /\ \A b \in Request : bookingLock[b] = q => ~BeingDeleted(b)
  BY <1>4, <1>5 DEF Inv, LockInv, SeatLockOK, SeatLockedFor, BeingDeleted
<1>7. PICK x \in S : WaitsFor(x, q)
  OBVIOUS
<1>8. pc[x] = "endBookings" /\ \E b \in batch[x] : bookingLock[b] = q
  <2>1. seatBatch[x] \subseteq Seat /\ (pc[x] = "freeSeat" => seatID[x] \in Seat)
    BY DEF Inv, TypeInv, TypeOK, ControlOK, Fits, Working, Releasing, Op
  <2>. QED
    BY <1>0, <1>6, <1>7, <2>1 DEF WaitsFor, Referring
<1>. QED
  BY <1>5, <1>8, BatchWaits

\* A circle has the DELETE of a seat map on it, and no refund: the database never fails
\* a refund to break a deadlock, and without seat maps it has none to break.
THEOREM CirclesNeedSeatMaps == Spec => []DeadlocksNeedSeatMaps
<1>1. Inv /\ WaitInv => DeadlocksNeedSeatMaps
  <2>. SUFFICES ASSUME Inv, WaitInv, NEW S \in SUBSET Request, Circle(S)
                PROVE  /\ \E r \in S : pc[r] = "deleteSeats"
                       /\ \A r \in S : Op(r) # "Refund"
    BY DEF DeadlocksNeedSeatMaps
  <2>1. \E r \in S : pc[r] = "deleteSeats"
    BY FurthestGoesOn DEF Circle
  <2>2. ASSUME NEW r \in S PROVE Op(r) # "Refund"
    BY RefundsNotOnCircles
  <2>. QED
    BY <2>1, <2>2
<1>. QED
  BY <1>1, WaitInit, WaitNext, Invariance, PTL DEF Spec

-----------------------------------------------------------------------------
(* Requests go on: somebody can, and whoever does comes nearer to an answer.  *)

\* The rows that the next statement of r has to lock or to look at are free: what the
\* guards of Proceed ask of locks.
Unblocked(r) ==
  /\ pc[r] = "takeSeat" /\ SeatMatches(call[r]) => seatLock[call[r].seat] = None
  /\ pc[r] = "endBooking" => bookingLock[call[r].booking] = None
  /\ pc[r] = "freeSeat" => seatLock[seatID[r]] = None
  /\ pc[r] = "cancelShow" => showLock[call[r].show] = None
  /\ pc[r] = "endBookings" => \A b \in batch[r] : bookingLock[b] = None
  /\ pc[r] \in {"freeSeats", "deleteSeats"} => \A s \in seatBatch[r] : seatLock[s] = None
  /\ pc[r] = "deleteSeats" /\ seatBatch[r] = {} => \A b \in Referring(r) : ~BeingDeleted(b)
  /\ pc[r] = "insertSeats" => \A s \in ShowSeats(call[r].show) : seatLock[s] = None

\* If every request under way waits, some of them wait in a circle, which the database
\* breaks.
SomebodyUnblocked ==
  (\E r \in Request : pc[r] \in Working) =>
    \/ \E r \in Request : pc[r] \in Working /\ Unblocked(r)
    \/ \E S \in SUBSET Request : Circle(S)

\* Who waits for nobody finds its rows free.
LEMMA WaitingOrUnblocked ==
  ASSUME TypeInv, NEW r \in Request, pc[r] \in Working, \A q \in Request : ~WaitsFor(r, q)
  PROVE  Unblocked(r)
<1>0. Fits(pc[r], call[r].op) /\ call[r] \in Call /\ Op(r) = call[r].op
  BY DEF TypeInv, TypeOK, ControlOK, Op
<1>1. pc[r] = "takeSeat" /\ SeatMatches(call[r]) => seatLock[call[r].seat] = None
  BY <1>0, CallFields DEF WaitsFor, TypeInv, TypeOK, Fits
<1>2. pc[r] = "endBooking" => bookingLock[call[r].booking] = None
  BY <1>0, CallFields DEF WaitsFor, TypeInv, TypeOK, Fits
<1>3. pc[r] = "freeSeat" => seatLock[seatID[r]] = None
  <2>1. pc[r] = "freeSeat" => Releasing(r)
    BY <1>0 DEF Releasing, Fits
  <2>. QED
    BY <2>1 DEF WaitsFor, TypeInv, TypeOK, ControlOK
<1>4. pc[r] = "cancelShow" => showLock[call[r].show] = None
  BY <1>0, CallFields DEF WaitsFor, TypeInv, TypeOK, Fits
<1>5. pc[r] = "endBookings" => \A b \in batch[r] : bookingLock[b] = None
  BY DEF WaitsFor, TypeInv, TypeOK
<1>6. pc[r] \in {"freeSeats", "deleteSeats"} => \A s \in seatBatch[r] : seatLock[s] = None
  BY DEF WaitsFor, TypeInv, TypeOK
<1>7. pc[r] = "deleteSeats" /\ seatBatch[r] = {} => \A b \in Referring(r) : ~BeingDeleted(b)
  <2>1. \A b \in Referring(r) : BeingDeleted(b) => bookingLock[b] \in Request
    BY DEF Referring, BeingDeleted, TypeInv, TypeOK
  <2>. QED
    BY <2>1 DEF WaitsFor
<1>8. pc[r] = "insertSeats" => \A s \in ShowSeats(call[r].show) : seatLock[s] = None
  BY DEF WaitsFor, TypeInv, TypeOK, ShowSeats
<1>. QED
  BY <1>1, <1>2, <1>3, <1>4, <1>5, <1>6, <1>7, <1>8 DEF Unblocked

\* Of some finite sets there is one that has no other below it.
LEMMA SmallestSet ==
  ASSUME NEW S, IsFiniteSet(S), NEW B \in SUBSET SUBSET S, B # {}
  PROVE  \E m \in B : \A n \in SUBSET m : n # m => n \notin B
<1>1. B \subseteq FiniteSubsetsOf(S)
  BY FS_Subset DEF FiniteSubsetsOf
<1>2. PICK m \in B : \A n \in B : ~ (<<n, m>> \in StrictSubsetOrdering(S))
  BY <1>1, FS_StrictSubsetOrderingWellFounded, WFMin
<1>. QED
  BY <1>2 DEF StrictSubsetOrdering

\* A finite set of requests that all wait for some of it has a circle in it: the least
\* such set is one, because who is not waited for could be left out.
LEMMA WaitersHaveCircle ==
  ASSUME NEW S \in SUBSET Request, IsFiniteSet(S), S # {},
         \A r \in S : \E q \in S : WaitsFor(r, q)
  PROVE  \E C \in SUBSET S : Circle(C)
<1>. DEFINE B == {C \in SUBSET S : C # {} /\ \A r \in C : \E q \in C : WaitsFor(r, q)}
<1>1. PICK C \in B : \A D \in SUBSET C : D # C => D \notin B
  <2>1. B \in SUBSET SUBSET S /\ B # {}
    OBVIOUS
  <2>. HIDE DEF B
  <2>. QED
    BY <2>1, SmallestSet
<1>2. ASSUME NEW r \in C, \A q \in C : ~WaitsFor(q, r) PROVE FALSE
  <2>1. C \ {r} \in SUBSET C /\ C \ {r} # C
    OBVIOUS
  <2>2. PICK q \in C : WaitsFor(r, q)
    OBVIOUS
  <2>3. q # r
    BY <1>2, <2>2
  <2>4. C \ {r} \in B
    BY <1>2, <2>2, <2>3
  <2>. QED
    BY <1>1, <2>1, <2>4
<1>. QED
  BY <1>2 DEF Circle

\* Whenever requests are under way, one of them can run its next statement at once, or
\* there is a circle, and hence the DELETE of a seat map: nobody waits for the rows of
\* one that will never go on, except while the database has a deadlock to break.
THEOREM SomebodyCanGoOn == IsFiniteSet(Request) /\ Spec => []SomebodyUnblocked
<1>. SUFFICES ASSUME IsFiniteSet(Request) PROVE Spec => []SomebodyUnblocked
  OBVIOUS
<1>1. Inv /\ WaitInv => SomebodyUnblocked
  <2>. SUFFICES ASSUME Inv, NEW p \in Request, pc[p] \in Working,
                       \A r \in Request : pc[r] \in Working => ~Unblocked(r)
                PROVE  \E S \in SUBSET Request : Circle(S)
    BY DEF SomebodyUnblocked
  <2>1. PICK S : S = {r \in Request : pc[r] \in Working}
    OBVIOUS
  <2>2. S \in SUBSET Request /\ S # {} /\ IsFiniteSet(S)
    BY <2>1, FS_Subset
  <2>3. ASSUME NEW r \in S PROVE \E q \in S : WaitsFor(r, q)
    <3>1. r \in Request /\ pc[r] \in Working
      BY <2>1
    <3>2. PICK q \in Request : WaitsFor(r, q)
      BY <3>1, WaitingOrUnblocked DEF Inv
    <3>. QED
      BY <2>1, <3>1, <3>2, HoldsNothing
  <2>. QED
    BY <2>2, <2>3, WaitersHaveCircle
<1>. QED
  BY <1>1, WaitInit, WaitNext, Invariance, PTL DEF Spec

\* The order in which a request of any kind runs its statements.
Stage(p) ==
  IF p \in {"cancelShow", "readSeats"} THEN 1
  ELSE IF p \in {"readBookings", "deleteSeats"} THEN 2
  ELSE IF p \in {"endBooking", "endBookings", "insertSeats"} THEN 3
  ELSE IF p \in {"takeSeat", "freeSeat", "freeSeats"} THEN 4
  ELSE IF p = "commit" THEN 5
  ELSE IF p \in Replied THEN 6
  ELSE 0

Fewer(S, T) == S \subseteq T /\ S # T

\* Request r gets to a later statement, or has fewer rows left at the one it is at.
Advance(r) ==
  \/ Stage(pc'[r]) > Stage(pc[r])
  \/ pc'[r] = pc[r] /\ pc[r] = "endBookings" /\ Fewer(batch'[r], batch[r])
  \/ pc'[r] = pc[r] /\ pc[r] \in {"freeSeats", "deleteSeats"} /\ Fewer(seatBatch'[r], seatBatch[r])

\* Request r is where it was, with the rows left that it had.
Stay(r) == pc'[r] = pc[r] /\ batch'[r] = batch[r] /\ seatBatch'[r] = seatBatch[r]

\* A statement brings its request on, and none sets another request back.
RequestsAdvance ==
  [][\A r \in Request :
       /\ Proceed(r) \/ Abort(r) => Advance(r)
       /\ pc[r] \in Working => Advance(r) \/ Stay(r)]_vars

\* A statement of r brings r on.
LEMMA StepAdvances ==
  ASSUME TypeInv, NEW r \in Request, Proceed(r) \/ Abort(r)
  PROVE  Advance(r)
<1>. USE DEF TypeInv, TypeOK, Statement, Advance, Stage
<1>1. CASE TakeSeat(r) \/ EndBooking(r) \/ FreeSeat(r)
  BY <1>1 DEF TakeSeat, EndBooking, FreeSeat, Replied
<1>2. CASE MarkShow(r) \/ ReadBookings(r) \/ SeatsFreed(r)
  BY <1>2 DEF MarkShow, ReadBookings, SeatsFreed, Replied
<1>3. CASE EndOneBooking(r)
  BY <1>3 DEF EndOneBooking, Fewer
<1>4. CASE BookingsEnded(r) \/ ReadSeats(r)
  BY <1>4 DEF BookingsEnded, ReadSeats, SeatsRead, Replied
<1>5. CASE FreeOneSeat(r) \/ DeleteOneSeat(r)
  BY <1>5 DEF FreeOneSeat, DeleteOneSeat, SeatReached, Fewer
<1>6. CASE Locking(r)
  BY <1>1, <1>2, <1>3, <1>4, <1>5, <1>6 DEF Locking
<1>7. CASE SeatsDeleted(r)
  BY <1>7 DEF SeatsDeleted, Replied
<1>8. ASSUME pc[r] \in Working, NEW answer \in Replied, Finish(r, answer) PROVE Advance(r)
  BY <1>8 DEF Finish, Working, Replied
<1>9. CASE Commit(r) \/ QuietEnd(r)
  <2>1. pc[r] \in Working /\ \E answer \in Replied : Finish(r, answer)
    BY <1>9 DEF Commit, QuietEnd, Working, Replied
  <2>. QED
    BY <1>8, <2>1
<1>. QED
  BY <1>6, <1>7, <1>9, StepKinds

\* A step of another request leaves r where it is, with its rows and its locks.
LEMMA OthersKeepRows ==
  ASSUME TypeInv, NEW r \in Request, NEW q \in Request \ {r},
         Receive(q) \/ Proceed(q) \/ Abort(q)
  PROVE  /\ pc'[r] = pc[r] /\ call'[r] = call[r]
         /\ batch'[r] = batch[r] /\ seatBatch'[r] = seatBatch[r]
         /\ \A b \in Request : bookingLock'[b] = r <=> bookingLock[b] = r
<1>. USE BookingsAssumption DEF TypeInv, TypeOK
<1>1. ASSUME NEW c, NEW p, Start(q, c, p)
      PROVE  /\ pc'[r] = pc[r] /\ call'[r] = call[r]
             /\ UNCHANGED <<batch, seatBatch, bookingLock>>
  BY <1>1 DEF Start, locks, batches
<1>2. CASE Receive(q)
  BY <1>1, <1>2 DEF Receive, StartBook, StartCancel, StartRefund, StartCancelShow, StartGenerate
<1>3. CASE Commit(q) \/ QuietEnd(q)
  <2>1. PICK answer : Finish(q, answer)
    BY <1>3 DEF Commit, QuietEnd
  <2>. QED
    BY <2>1 DEF Finish, Unlock
<1>4. CASE TakeSeat(q) \/ FreeSeat(q) \/ MarkShow(q) \/ SeatsFreed(q)
  BY <1>4 DEF TakeSeat, FreeSeat, MarkShow, SeatsFreed, Statement, locks, batches
<1>5. CASE EndBooking(q)
  <2>1. call[q].booking \in Request
    BY <1>5, CallFields DEF EndBooking, Statement, ControlOK, Fits, Working
  <2>. QED
    BY <1>5, <2>1 DEF EndBooking, Statement, batches
<1>6. CASE ReadBookings(q) \/ BookingsEnded(q) \/ ReadSeats(q)
  BY <1>6 DEF ReadBookings, BookingsEnded, ReadSeats, SeatsRead, Statement, locks
<1>7. CASE EndOneBooking(q)
  BY <1>7 DEF EndOneBooking, Statement
<1>8. CASE FreeOneSeat(q) \/ DeleteOneSeat(q)
  BY <1>8 DEF FreeOneSeat, DeleteOneSeat, SeatReached, Statement
<1>9. CASE Locking(q)
  BY <1>4, <1>5, <1>6, <1>7, <1>8, <1>9 DEF Locking
<1>10. CASE SeatsDeleted(q)
  BY <1>10 DEF SeatsDeleted, batches
<1>. QED
  BY <1>2, <1>3, <1>9, <1>10, StepKinds

\* Statements bring requests on and never back; of a request's finitely many rows
\* and statements each is behind it once.  What liveness needs besides is that
\* the statements run.
THEOREM RequestsComeOn == Spec => RequestsAdvance
<1>. DEFINE A == \A r \in Request :
       /\ Proceed(r) \/ Abort(r) => Advance(r)
       /\ pc[r] \in Working => Advance(r) \/ Stay(r)
<1>1. TypeInv /\ [Next]_vars => [A]_vars
  <2>. SUFFICES ASSUME TypeInv, [Next]_vars, NEW r \in Request, pc[r] \in Working
                PROVE  Advance(r) \/ Stay(r)
    BY StepAdvances
  <2>1. ASSUME Receive(r) PROVE FALSE
    BY <2>1 DEF Receive, StartBook, StartCancel, StartRefund, StartCancelShow, StartGenerate, Start,
                Working
  <2>2. CASE (\E h \in Show : UpdateStatus(h)) \/ UNCHANGED vars
    BY <2>2 DEF UpdateStatus, vars, batches, Stay
  <2>. QED
    BY <2>1, <2>2, StepAdvances, OthersKeepRows DEF Next, Stay
<1>. QED
  BY <1>1, TypeInit, TypeNext, PTL DEF Spec, RequestsAdvance

-----------------------------------------------------------------------------
(* What CancelShow leaves behind. *)

\* The UPDATE of bookings of r has begun, and r has not ended.
HasRead(r) == Op(r) = "CancelShow" /\ pc[r] \in {"endBookings", "freeSeats", "commit"}

\* The live bookings of its show that it neither has locked nor is going to.
Missed(r) == {b \in ShowBookings(call[r].show) : b \notin batch[r] /\ bookingLock[b] # r}

\* CancelShow misses no booking when its UPDATE begins; from then on it misses
\* another one only when that is inserted; and what stays live when it ends is what
\* it has missed.  So a ticket that is not refunded was sold during the cancellation.
MissesOnlyNewBookings ==
  [][\A r \in Request :
       /\ ~HasRead(r) /\ HasRead(r)' => Missed(r)' = {}
       /\ HasRead(r) /\ HasRead(r)' =>
            \A b \in Missed(r)' : b \in Missed(r) \/ booking[b] = None
       /\ HasRead(r) /\ pc'[r] = "ok" =>
            \A h \in Show : call[r].show = h => ShowBookings(h)' = Missed(r)]_vars

\* A live booking after a step was live before and is not ended by the step, or is new.
LEMMA LiveBefore ==
  ASSUME Inv, [Next]_vars, NEW b \in Request, Live(b)', booking[b] # None
  PROVE  /\ booking'[b] = booking[b]
         /\ \A r \in Request : Commit(r) => bookingLock[b] # r /\ b # r
<1>1. CASE \A r \in Request : ~Commit(r)
  BY <1>1, OnlyCommitWrites DEF Inv
<1>2. ASSUME NEW r \in Request, Commit(r)
      PROVE  booking'[b] = booking[b] /\ bookingLock[b] # r /\ b # r
  BY <1>2, CommitBookings DEF Inv
<1>. QED
  BY <1>1, <1>2

\* Whoever gets to HasRead does so by ReadBookings.
LEMMA ReadFirst ==
  ASSUME Inv, [Next]_vars, NEW r \in Request, ~HasRead(r), HasRead(r)'
  PROVE  ReadBookings(r)
<1>. USE DEF Inv, TypeInv, TypeOK, ControlOK, Fits, Working, Op, HasRead
<1>1. ASSUME NEW c, NEW p, Start(r, c, p), p \notin {"endBookings", "freeSeats", "commit"} PROVE FALSE
  BY <1>1 DEF Start
<1>2. ~Receive(r)
  BY <1>1, FirstStatement DEF Replied
<1>3. CASE Commit(r) \/ QuietEnd(r)
  BY <1>3 DEF Commit, QuietEnd, Finish
<1>4. CASE TakeSeat(r) \/ EndBooking(r) \/ FreeSeat(r) \/ MarkShow(r)
  BY <1>4 DEF TakeSeat, EndBooking, FreeSeat, MarkShow, Statement
<1>5. CASE EndOneBooking(r) \/ SeatsFreed(r)
  BY <1>5 DEF EndOneBooking, SeatsFreed, Statement
<1>6. CASE BookingsEnded(r) \/ FreeOneSeat(r) \/ ReadSeats(r) \/ DeleteOneSeat(r)
  BY <1>6 DEF BookingsEnded, FreeOneSeat, ReadSeats, DeleteOneSeat, SeatsRead, SeatReached, Statement
<1>7. CASE SeatsDeleted(r)
  BY <1>7 DEF SeatsDeleted
<1>8. ASSUME NEW q \in Request \ {r}, Receive(q) \/ Proceed(q) \/ Abort(q) PROVE FALSE
  BY <1>8, OthersKeepRows
<1>9. CASE (\E h \in Show : UpdateStatus(h)) \/ UNCHANGED vars
  BY <1>9 DEF UpdateStatus, vars
<1>10. CASE Proceed(r) \/ Abort(r)
  BY <1>3, <1>4, <1>5, <1>6, <1>7, <1>10, StepKinds DEF Locking
<1>. QED
  BY <1>2, <1>8, <1>9, <1>10 DEF Next

\* No step of a cancellation makes it miss a booking.
LEMMA OwnStepMisses ==
  ASSUME Inv, NEW r \in Request, HasRead(r), HasRead(r)', Proceed(r) \/ Abort(r)
  PROVE  /\ UNCHANGED <<call, booking>>
         /\ \A b \in Request : b \in ShowBookings(call[r].show) /\ b \notin batch'[r]
              /\ bookingLock'[b] # r => b \notin batch[r] /\ bookingLock[b] # r
<1>. USE DEF Inv, TypeInv, TypeOK, ControlOK, Fits, Working, HasRead, Statement, tables, Op
<1>1. CASE Commit(r) \/ QuietEnd(r) \/ SeatsDeleted(r)
  BY <1>1 DEF Commit, QuietEnd, Finish, SeatsDeleted
<1>2. CASE TakeSeat(r) \/ EndBooking(r) \/ FreeSeat(r) \/ MarkShow(r) \/ ReadBookings(r)
  BY <1>2 DEF TakeSeat, EndBooking, FreeSeat, MarkShow, ReadBookings
<1>3. CASE BookingsEnded(r) \/ FreeOneSeat(r) \/ SeatsFreed(r) \/ ReadSeats(r) \/ DeleteOneSeat(r)
  BY <1>3 DEF BookingsEnded, FreeOneSeat, SeatsFreed, ReadSeats, DeleteOneSeat, SeatsRead,
              SeatReached, locks, batches
<1>4. CASE EndOneBooking(r)
  BY <1>4 DEF EndOneBooking
<1>. QED
  BY <1>1, <1>2, <1>3, <1>4, StepKinds DEF Locking

\* CancelShow misses only bookings that come into being after it has read them.
THEOREM CancelShowMissesOnlyNew == Spec => MissesOnlyNewBookings
<1>. DEFINE A == \A r \in Request :
       /\ ~HasRead(r) /\ HasRead(r)' => Missed(r)' = {}
       /\ HasRead(r) /\ HasRead(r)' =>
            \A b \in Missed(r)' : b \in Missed(r) \/ booking[b] = None
       /\ HasRead(r) /\ pc'[r] = "ok" =>
            \A h \in Show : call[r].show = h => ShowBookings(h)' = Missed(r)
<1>1. Inv /\ WaitInv /\ [Next]_vars => [A]_vars
  <2>. SUFFICES ASSUME Inv, WaitInv, [Next]_vars, NEW r \in Request
                PROVE  /\ ~HasRead(r) /\ HasRead(r)' => Missed(r)' = {}
                       /\ HasRead(r) /\ HasRead(r)' =>
                            \A b \in Missed(r)' : b \in Missed(r) \/ booking[b] = None
                       /\ HasRead(r) /\ pc'[r] = "ok" =>
                            \A h \in Show : call[r].show = h => ShowBookings(h)' = Missed(r)
    OBVIOUS
  <2>1. ASSUME ~HasRead(r), HasRead(r)' PROVE Missed(r)' = {}
    <3>1. ReadBookings(r)
      BY <2>1, ReadFirst
    <3>2. /\ UNCHANGED <<call, booking>>
          /\ batch'[r] = ShowBookings(call[r].show)
      BY <3>1 DEF ReadBookings, Statement, tables, Inv, TypeInv, TypeOK
    <3>. QED
      BY <3>2 DEF Missed, ShowBookings, Live
  <2>2. ASSUME HasRead(r), HasRead(r)', NEW b \in Missed(r)', booking[b] # None
        PROVE  b \in Missed(r)
    <3>1. b \in Request /\ Live(b)' /\ booking'[b].show = call'[r].show
      BY <2>2 DEF Missed, ShowBookings
    <3>2. b \notin batch'[r] /\ bookingLock'[b] # r
      BY <2>2 DEF Missed
    <3>3. booking'[b] = booking[b]
      BY <2>2, <3>1, LiveBefore
    <3>4. SUFFICES call'[r] = call[r] /\ b \notin batch[r] /\ bookingLock[b] # r
      BY <3>1, <3>3 DEF Missed, ShowBookings, Live
    <3>5. CASE Proceed(r) \/ Abort(r)
      <4>1. call' = call /\ b \in ShowBookings(call[r].show)
        BY <2>2, <3>1, <3>3, <3>5, OwnStepMisses DEF ShowBookings, Live
      <4>. QED
        BY <2>2, <3>1, <3>2, <3>5, <4>1, OwnStepMisses
    <3>6. ASSUME NEW q \in Request \ {r}, Receive(q) \/ Proceed(q) \/ Abort(q)
          PROVE  call'[r] = call[r] /\ b \notin batch[r] /\ bookingLock[b] # r
      BY <3>1, <3>2, <3>6, OthersKeepRows DEF Inv
    <3>7. ~Receive(r)
      BY <2>2 DEF HasRead, Receive, StartBook, StartCancel, StartRefund, StartCancelShow,
                  StartGenerate, Start
    <3>8. CASE (\E h \in Show : UpdateStatus(h)) \/ UNCHANGED vars
      BY <3>2, <3>8 DEF UpdateStatus, vars, locks, batches
    <3>. QED
      BY <3>5, <3>6, <3>7, <3>8 DEF Next
  <2>3. ASSUME HasRead(r), pc'[r] = "ok", NEW h \in Show, call[r].show = h
        PROVE  ShowBookings(h)' = Missed(r)
    <3>1. pc[r] = "commit" /\ Commit(r)
      <4>1. ASSUME NEW q \in Request \ {r}, Receive(q) \/ Proceed(q) \/ Abort(q) PROVE FALSE
        BY <2>3, <4>1, OthersKeepRows DEF HasRead, Inv
      <4>2. ~Receive(r) /\ ~Abort(r)
        BY <2>3 DEF HasRead, Receive, StartBook, StartCancel, StartRefund, StartCancelShow,
                    StartGenerate, Start, Abort, Finish, Inv, TypeInv, TypeOK
      <4>3. ~ ((\E g \in Show : UpdateStatus(g)) \/ UNCHANGED vars)
        BY <2>3 DEF HasRead, UpdateStatus, vars
      <4>4. Proceed(r)
        BY <4>1, <4>2, <4>3 DEF Next
      <4>5. ~SeatTaken(r) /\ ~SeatsReferred(r) /\ ~SeatsDeleted(r) /\ ~InsertSeats(r)
        BY <2>3 DEF HasRead, SeatTaken, SeatsReferred, SeatsDeleted, InsertSeats
      <4>6. ~Locking(r)
        <5>1. Locking(r) => \E p, q \in Working : Statement(r, p, q)
          BY Flow
          DEF Locking, TakeSeat, EndBooking, FreeSeat, MarkShow, ReadBookings, EndOneBooking,
              BookingsEnded, FreeOneSeat, SeatsFreed, ReadSeats, DeleteOneSeat, SeatsRead, SeatReached
        <5>2. ASSUME NEW p \in Working, NEW q \in Working, Statement(r, p, q) PROVE FALSE
          BY <2>3, <5>2 DEF Statement, Working, Inv, TypeInv, TypeOK
        <5>. QED
          BY <5>1, <5>2
      <4>. QED
        BY <4>4, <4>5, <4>6 DEF Proceed, Locking, Commit
    <3>2. batch[r] = {}
      BY <3>1 DEF WaitInv, BatchOK, Inv, TypeInv, TypeOK
    <3>3. Op(r) = "CancelShow" /\ booking[r] = None /\ booking'[r] = None
      BY <2>3, <3>1, CommitBookings DEF HasRead, Inv
    <3>4. \A b \in Request : Live(b)' <=> Live(b) /\ bookingLock[b] # r
      BY <3>1, <3>3, CommitBookings DEF Live, Inv
    <3>5. \A b \in Request : Live(b)' => booking'[b] = booking[b]
      BY <3>1, <3>3, CommitBookings DEF Live, Inv
    <3>6. Missed(r) = {b \in Request : Live(b) /\ booking[b].show = h /\ bookingLock[b] # r}
      BY <2>3, <3>2 DEF Missed, ShowBookings
    <3>. QED
      BY <3>4, <3>5, <3>6 DEF ShowBookings
  <2>. QED
    BY <2>1, <2>2, <2>3
<1>. QED
  BY <1>1, WaitInit, WaitNext, Invariance, PTL DEF Spec, MissesOnlyNewBookings

=============================================================================
