------------------------------ MODULE Listings ------------------------------
(***************************************************************************)
(* The lists of shows: the public one (ShowHandler.List, ShowService.List, *)
(* PgShowRepo.List) and the administrators' (AdminHandler.GetAllShows,     *)
(* adminService.ListShows, pgAdminRepo.ListShows).  A request counts the   *)
(* shows that match and then selects a page of them, in two statements     *)
(* that see the table as it is when each of them runs; other requests      *)
(* write it in between.  Rows that start at the same time come in any      *)
(* order, and two statements may disagree on it.                           *)
(*                                                                         *)
(* The words of a search, the venue and the organizer are the terms of a   *)
(* query: a row has those it satisfies.  Time is counted in ticks, so many *)
(* to a day.                                                               *)
(***************************************************************************)
EXTENDS Integers, FiniteSets, Sequences

CONSTANTS
  ShowId,          \* the ids of shows
  Rows,            \* the rows that organizers and administrators write
  Request,         \* the requests for a page
  Queries,         \* what they ask for
  DefaultPageSize, \* 20 in the code
  MaxPageSize,     \* 100 in the code
  TicksPerDay,
  MaxInt,          \* 2^63 - 1 in the code: the largest int
  MaxWrites,       \* how often the table may change
  None             \* no row, no bound, no answer

ShowStatus == {"draft", "published", "cancelled"}
Row    == [starts : Nat, status : ShowStatus, terms : SUBSET STRING]
Number == -MaxInt - 1 .. MaxInt
Query  == [by : {"public", "admin"}, status : ShowStatus \cup {None},
           terms : SUBSET STRING, from : Nat \cup {None}, to : Nat \cup {None},
           page : Number, size : Number]

ASSUME ListingsAssumption ==
  /\ IsFiniteSet(ShowId)
  /\ Rows \subseteq Row
  /\ Queries \subseteq Query
  /\ None \notin Rows \cup Queries \cup Nat \cup ShowStatus
  /\ MaxInt \in Nat /\ TicksPerDay \in Nat \ {0} /\ MaxWrites \in Nat
  /\ MaxPageSize \in Number /\ DefaultPageSize \in 1..MaxPageSize

VARIABLES
  shows,   \* the table: shows[s] is the row of show s, or None
  writes,  \* how often the table has changed
  query,   \* query[r]: what request r asks for, or None
  count,   \* count[r]: what the first statement found, and when, or None
  answer,  \* answer[r]: the response with the rows of the second, and when, or None
  pc       \* pc[r]: the statement r runs next, or its outcome

vars == <<shows, writes, query, count, answer, pc>>

\* The columns, locals and responses, and nothing else.
TypeOK ==
  /\ shows \in [ShowId -> Rows \cup {None}]
  /\ writes \in 0..MaxWrites
  /\ query \in [Request -> Queries \cup {None}]
  /\ \A r \in Request :
       /\ pc[r] \in {"new", "select", "ok", "ErrInvalid", "error"}
       /\ pc[r] \in {"select", "ok"} =>
            query[r] # None /\ count[r].total \in 0..Cardinality(ShowId) /\ count[r].at \in 0..writes
       /\ pc[r] = "ok" =>
            /\ answer[r].items \in Seq([id : ShowId, row : Rows])
            /\ answer[r].page \in Number /\ answer[r].size \in Number
            /\ answer[r].at \in count[r].at..writes

Init ==
  /\ shows \in [ShowId -> Rows \cup {None}]
  /\ writes = 0
  /\ query = [r \in Request |-> None]
  /\ count = [r \in Request |-> None]
  /\ answer = [r \in Request |-> None]
  /\ pc = [r \in Request |-> "new"]

-----------------------------------------------------------------------------
(* The page a query means. *)

\* An int after an operation whose result may be too large.
Wrap(n) == ((n + MaxInt + 1) % (2 * (MaxInt + 1))) - (MaxInt + 1)

Page(q) == IF q.page < 1 THEN 1 ELSE q.page

\* The public list takes a size that is too large for the largest, the
\* administrators' one for none at all.
PageSize(q) ==
  IF q.size < 1 THEN DefaultPageSize
  ELSE IF q.size <= MaxPageSize THEN q.size
  ELSE IF q.by = "public" THEN MaxPageSize ELSE DefaultPageSize

\* Mutant: pages counted from 0.
OffsetFromZero(q) == Wrap(Page(q) * PageSize(q))

\* OFFSET, multiplied as an int.
Offset(q) == Wrap((Page(q) - 1) * PageSize(q))

-----------------------------------------------------------------------------
(* The rows a query means. *)

\* The public list is of published shows, the administrators' of any they want.
Statuses(q) ==
  IF q.by = "public" THEN {"published"}
  ELSE IF q.status = None THEN ShowStatus ELSE {q.status}

\* Mutant: date_to is the last midnight.
DateToMidnight(q) == q.to * TicksPerDay

\* The tick at which the dates of a query end: the handler of the public list
\* adds a day to date_to, that of the administrators' does not.
DateTo(q) == IF q.by = "public" THEN (q.to + 1) * TicksPerDay ELSE q.to * TicksPerDay

\* Mutant: drafts are listed.
MatchingDrafts(q) ==
  {s \in ShowId :
     /\ shows[s] # None
     /\ q.terms \subseteq shows[s].terms
     /\ q.from # None => shows[s].starts >= q.from * TicksPerDay
     /\ q.to # None => shows[s].starts < DateTo(q)}

\* WHERE, the same in both statements.
Matching(q) ==
  {s \in ShowId :
     /\ shows[s] # None
     /\ shows[s].status \in Statuses(q)
     /\ q.terms \subseteq shows[s].terms
     /\ q.from # None => shows[s].starts >= q.from * TicksPerDay
     /\ q.to # None => shows[s].starts < DateTo(q)}

\* Mutant: no ORDER BY.
OrdersAny(ids) ==
  {o \in [1..Cardinality(ids) -> ids] : \A i, j \in DOMAIN o : i # j => o[i] # o[j]}

\* The sequences that ORDER BY starts_at ASC may make of a set of shows.
Orders(ids) ==
  {o \in [1..Cardinality(ids) -> ids] :
     \A i, j \in DOMAIN o :
       i < j => o[i] # o[j] /\ shows[o[i]].starts <= shows[o[j]].starts}

\* The part of an ordered list that LIMIT and OFFSET leave, with the rows.
Cut(order, offset, limit) ==
  LET n == IF offset >= Len(order) THEN 0
           ELSE IF Len(order) - offset < limit THEN Len(order) - offset ELSE limit
  IN  [i \in 1..n |-> [id |-> order[offset + i], row |-> shows[order[offset + i]]]]

-----------------------------------------------------------------------------
(* A request. *)

Goto(r, p) == pc' = [pc EXCEPT ![r] = p]

\* A date, or the id of an organizer, does not parse.
Refuse(r) ==
  /\ pc[r] = "new"
  /\ Goto(r, "ErrInvalid")
  /\ UNCHANGED <<shows, writes, query, count, answer>>

\* Mutants: COUNT without WHERE; or of what is left after the offset.
CountAll(r) ==
  /\ pc[r] = "new"
  /\ \E q \in Queries :
       /\ query' = [query EXCEPT ![r] = q]
       /\ count' = [count EXCEPT ![r] =
            [total |-> Cardinality({s \in ShowId : shows[s] # None}), at |-> writes]]
  /\ Goto(r, "select")
  /\ UNCHANGED <<shows, writes, answer>>

CountRest(r) ==
  /\ pc[r] = "new"
  /\ \E q \in Queries :
       /\ query' = [query EXCEPT ![r] = q]
       /\ count' = [count EXCEPT ![r] =
            [total |-> Cardinality(Matching(q)) - Offset(q), at |-> writes]]
  /\ Goto(r, "select")
  /\ UNCHANGED <<shows, writes, answer>>

\* SELECT COUNT(*).  A page number that does not parse counts as 0, one that is
\* too large as the largest int.
Count(r) ==
  /\ pc[r] = "new"
  /\ \E q \in Queries :
       /\ query' = [query EXCEPT ![r] = q]
       /\ count' = [count EXCEPT ![r] =
            [total |-> Cardinality(Matching(q)), at |-> writes]]
  /\ Goto(r, "select")
  /\ UNCHANGED <<shows, writes, answer>>

\* Mutant: the public response repeats what was asked for, too.
SelectPageEcho(r) ==
  LET q == query[r]
  IN  /\ pc[r] = "select"
      /\ Offset(q) >= 0
      /\ \E o \in Orders(Matching(q)) :
           answer' = [answer EXCEPT ![r] =
             [items |-> Cut(o, Offset(q), PageSize(q)), at |-> writes,
              page |-> q.page, size |-> q.size]]
      /\ Goto(r, "ok")
      /\ UNCHANGED <<shows, writes, query, count>>

\* SELECT ... ORDER BY ... LIMIT ... OFFSET, and the response.  A negative offset
\* is an error.  The public response says which page it is; the other one repeats
\* what was asked for, because the service changes a copy of the filter.
SelectPage(r) ==
  LET q == query[r]
  IN  /\ pc[r] = "select"
      /\ Offset(q) >= 0
      /\ \E o \in Orders(Matching(q)) :
           answer' = [answer EXCEPT ![r] =
             [items |-> Cut(o, Offset(q), PageSize(q)), at |-> writes,
              page |-> IF q.by = "public" THEN Page(q) ELSE q.page,
              size |-> IF q.by = "public" THEN PageSize(q) ELSE q.size]]
      /\ Goto(r, "ok")
      /\ UNCHANGED <<shows, writes, query, count>>

\* A statement fails, a negative offset included.
Fail(r) ==
  /\ pc[r] = "select"
  /\ Goto(r, "error")
  /\ UNCHANGED <<shows, writes, query, count, answer>>

\* Somebody creates, changes or deletes a show; module Shows says who may.
Write(s) ==
  /\ writes < MaxWrites
  /\ \E row \in Rows \cup {None} :
       /\ row # shows[s]
       /\ shows' = [shows EXCEPT ![s] = row]
  /\ writes' = writes + 1
  /\ UNCHANGED <<query, count, answer, pc>>

Next ==
  \/ \E r \in Request : Refuse(r) \/ Count(r) \/ SelectPage(r) \/ Fail(r)
  \/ \E s \in ShowId : Write(s)

Spec == Init /\ [][Next]_vars

-----------------------------------------------------------------------------
(* Safety. *)

\* The offset a client means is one that an int can hold.
OffsetFits(q) == (Page(q) - 1) * PageSize(q) \in Number

\* The response says which page it is: always to the public, and to an
\* administrator who asked for a page and a size that were taken as they are.
SaysItsPage(q) == q.by = "public" \/ (q.page >= 1 /\ q.size \in 1..MaxPageSize)

\* The number of items on the given page of a list of total shows.
ItemsOnPage(total, page, size) ==
  LET rest == total - (page - 1) * size
  IN  IF rest < 0 THEN 0 ELSE IF rest > size THEN size ELSE rest

\* A client that computes from the total, page and page_size of a response how
\* many items there should be is wrong by no more than the writes that came
\* between the two statements; right, if there were none.
TotalFitsItems ==
  \A r \in Request :
    pc[r] = "ok" /\ OffsetFits(query[r]) /\ SaysItsPage(query[r]) =>
      LET a == answer[r]
          said == ItemsOnPage(count[r].total, a.page, a.size)
          drift == a.at - count[r].at
      IN  said - drift <= Len(a.items) /\ Len(a.items) <= said + drift

\* The table has not changed since request r selected its page.
Fresh(r) == pc[r] = "ok" /\ OffsetFits(query[r]) /\ answer[r].at = writes

Listed(r) == {answer[r].items[i].id : i \in DOMAIN answer[r].items}

\* A show that starts when no other matching show does is on the page that the
\* number of earlier ones puts it on, and on no other: page by page, a client
\* sees it once.
UntiedOnItsPage ==
  \A r \in Request :
    Fresh(r) =>
      LET q == query[r]
          first == (Page(q) - 1) * PageSize(q)
          earlier(s) == {t \in Matching(q) : shows[t].starts < shows[s].starts}
          ties(s) == {t \in Matching(q) : shows[t].starts = shows[s].starts}
      IN  \A s \in Matching(q) :
            ties(s) = {s} =>
              (s \in Listed(r) <=> Cardinality(earlier(s)) \in first..first + PageSize(q) - 1)

\* Requests q and p ask for pages of one list.
SameList(p, q) ==
  /\ [p EXCEPT !.page = 1, !.size = 1] = [q EXCEPT !.page = 1, !.size = 1]
  /\ PageSize(p) = PageSize(q)

\* Two pages of one list follow each other: no show on the second starts before
\* one on the first, and a show on both ties with another one, which is the only
\* way in which two statements may order the rows differently.
PagesFollow ==
  \A r1, r2 \in Request :
    /\ Fresh(r1) /\ Fresh(r2)
    /\ SameList(query[r1], query[r2])
    /\ Page(query[r1]) < Page(query[r2])
    => \A s \in Listed(r1), t \in Listed(r2) :
         /\ shows[s].starts <= shows[t].starts
         /\ s = t => \E u \in Matching(query[r1]) :
                       u # s /\ shows[u].starts = shows[s].starts

\* The published shows of the days from..to, both included.
OnDays(q) ==
  {s \in ShowId :
     /\ shows[s] # None /\ shows[s].status = "published"
     /\ q.terms \subseteq shows[s].terms
     /\ q.from # None => q.from <= shows[s].starts \div TicksPerDay
     /\ q.to # None => shows[s].starts \div TicksPerDay <= q.to}

\* The public sees published shows only, those of the last day of its period
\* included up to midnight, and is told their number.
PublicSeesWholeDays ==
  \A r \in Request :
    Fresh(r) /\ query[r].by = "public" =>
      /\ Listed(r) \subseteq OnDays(query[r])
      /\ count[r].at = writes => count[r].total = Cardinality(OnDays(query[r]))
=============================================================================
