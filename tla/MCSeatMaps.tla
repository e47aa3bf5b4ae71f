----------------------------- MODULE MCSeatMaps -----------------------------
(* A small instance of SeatMaps and what is read of them for TLC. *)
EXTENDS SeatReports, TLC

\* Two seats in a row; two rows with zones that overlap, one of them with a price
\* below zero; maps without a row or with such a price of their own; and one that
\* has more parameters than a statement may have.
MCInputs ==
  {[rows |-> 1, seatsPerRow |-> 2, price |-> 5, zones |-> <<>>],
   [rows |-> 2, seatsPerRow |-> 1, price |-> 5,
    zones |-> <<[from |-> 2, to |-> 3, price |-> -7], [from |-> 1, to |-> 2, price |-> 9]>>],
   [rows |-> 0, seatsPerRow |-> 1, price |-> 5, zones |-> <<>>],
   [rows |-> 1, seatsPerRow |-> 1, price |-> -5, zones |-> <<>>],
   [rows |-> 3, seatsPerRow |-> 1, price |-> 5, zones |-> <<>>]}

\* Requests differ in nothing but their names.
Symmetry == Permutations(Request)
=============================================================================
