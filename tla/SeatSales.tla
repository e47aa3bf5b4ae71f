----------------------------- MODULE SeatSales -----------------------------
(***************************************************************************)
(* What the booking code promises, without transactions, locks or tables:  *)
(* every seat is held by at most one booking, a booking holds at most one  *)
(* seat, a seat is sold only while nobody holds it and is put on sale      *)
(* again only by ending the booking that holds it.                         *)
(***************************************************************************)
CONSTANTS
  Seat,       \* the seats on sale
  Booking,    \* the identifiers of bookings
  Nobody      \* no booking: the holder of a seat that is on sale

VARIABLE holder   \* holder[s]: the booking that holds seat s, or Nobody

Init == holder = [s \in Seat |-> Nobody]

Sell(s, b) ==
  /\ holder[s] = Nobody
  /\ \A t \in Seat : holder[t] # b
  /\ holder' = [holder EXCEPT ![s] = b]

End(s) ==
  /\ holder[s] # Nobody
  /\ holder' = [holder EXCEPT ![s] = Nobody]

Next == \E s \in Seat : End(s) \/ \E b \in Booking : Sell(s, b)

Spec == Init /\ [][Next]_holder
=============================================================================
