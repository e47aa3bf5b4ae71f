----------------------------- MODULE MCBookings -----------------------------
(* Small instances of Bookings for TLC. *)
EXTENDS Bookings, TLC

CONSTANTS u1, u2, h1, h2, s1, s2

\* Two seats of one show, and two shows with a seat each; u1 organizes.
OneShow  == (s1 :> h1) @@ (s2 :> h1)
TwoShows == (s1 :> h1) @@ (s2 :> h2)
OneSeat  == s1 :> h1
U1Organizes == [h \in Show |-> u1]

\* Requests differ in nothing but their names.
Symmetry == Permutations(Request)
=============================================================================
