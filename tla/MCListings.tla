----------------------------- MODULE MCListings -----------------------------
(* A small instance of Listings for TLC. *)
EXTENDS Listings, TLC

\* Two ticks a day: the two of day 0, the first of day 1, and a draft of day 0.
MCRows ==
  {[starts |-> 0, status |-> "published", terms |-> {"t"}],
   [starts |-> 1, status |-> "published", terms |-> {"t"}],
   [starts |-> 2, status |-> "published", terms |-> {}],
   [starts |-> 1, status |-> "draft", terms |-> {"t"}]}

Ask(by, page, size) ==
  [by |-> by, status |-> None, terms |-> {}, from |-> None, to |-> None,
   page |-> page, size |-> size]

\* Pages of one list; pages and sizes that are not sent, below 0 or too large;
\* offsets that wrap around to one below 0 and to one that is not; conditions.
MCQueries ==
  {Ask("public", 0, 0), Ask("public", 2, 0), Ask("public", -1, 7), Ask("public", 5, 3),
   Ask("public", 7, 3), Ask("admin", 0, 7), Ask("admin", 2, 2),
   [Ask("public", 1, 3) EXCEPT !.to = 0],
   [Ask("public", 1, 1) EXCEPT !.from = 0, !.to = 1, !.terms = {"t"}],
   [Ask("admin", 1, 3) EXCEPT !.status = "draft", !.from = 0, !.to = 1]}

\* Shows differ in their rows only, and requests in nothing but their names.
Symmetry == Permutations(ShowId) \cup Permutations(Request)
=============================================================================
