---------------------------- MODULE SeatReports -----------------------------
(***************************************************************************)
(* What is read of a show's seats while SeatMaps replaces, sells and frees *)
(* them: the public detail (ShowService.GetByID), the organizer's          *)
(* statistics (ShowService.GetStats), the administrators' sales of a       *)
(* period (adminService.GetStats, also exported) and the plan of the hall  *)
(* (seats.Repository.GetShowSeats).  Each statement sees the rows that are *)
(* committed when it runs; a read of several statements may see several    *)
(* states.                                                                 *)
(*                                                                         *)
(* Whether the show is published, and when it starts, is left to module    *)
(* Shows: a read may find it either way.                                   *)
(***************************************************************************)
EXTENDS SeatMaps, FiniteSetsExt

CONSTANT Reader  \* the requests that read

VARIABLES
  report,  \* report[q]: what the response of q says, or None
  at       \* at[q]: the next statement of q, or its outcome

reportVars == <<exists, seats, booking, lock, input, pc, report, at>>

Totals == [total : Nat, sold : Nat, revenue : Int]

\* The responses and locals, and nothing else.
ReportsTypeOK ==
  /\ TypeOK
  /\ \A q \in Reader :
       /\ at[q] \in {"new", "exists", "aggregate", "countFree"} \cup Replied
       /\ report[q] # None =>
            /\ at[q] = "ok"
            /\ \/ report[q].of \in {"show", "period"} /\ report[q].lines \in SUBSET Totals
               \/ report[q].of = "detail" /\ report[q].free \in Nat
               \/ report[q].of = "plan" /\ report[q].seats \in SUBSET Seat

ReportsInit ==
  /\ Init
  /\ report = [q \in Reader |-> None]
  /\ at = [q \in Reader |-> "new"]

-----------------------------------------------------------------------------
(* What the aggregates compute from the rows of seats. *)

Sold == {s \in seats : s.status = "booked"}

Revenue(rows) == LET price(s) == s.price IN MapThenSumSet(price, rows)

\* Mutants: the sum is that of all seats; the seats of the join are the sold ones;
\* or SUM without COALESCE.
TotalsOfAll ==
  [total |-> Cardinality(seats), sold |-> Cardinality(Sold), revenue |-> Revenue(seats)]
TotalsJoined ==
  [total |-> Cardinality(Sold), sold |-> Cardinality(Sold), revenue |-> Revenue(Sold)]
TotalsNull ==
  [total |-> Cardinality(seats), sold |-> Cardinality(Sold),
   revenue |-> IF Sold = {} THEN None ELSE Revenue(Sold)]

\* COUNT(*), and COUNT and SUM of the booked ones, in one statement.
TotalsNow ==
  [total |-> Cardinality(seats), sold |-> Cardinality(Sold), revenue |-> Revenue(Sold)]

-----------------------------------------------------------------------------
(* The reads. *)

\* Reader q goes on with p.
GoOn(q, p) == at' = [at EXCEPT ![q] = p] /\ UNCHANGED <<exists, seats, booking, lock, input, pc>>

\* Reader q is answered with x.
Report(q, x) == report' = [report EXCEPT ![q] = x] /\ GoOn(q, "ok")

\* GetByID and the owner test.
StartStats(q) ==
  /\ at[q] = "new"
  /\ \E owner \in BOOLEAN :
       GoOn(q, IF ~exists THEN "ErrNotFound" ELSE IF ~owner THEN "ErrForbidden" ELSE "exists")
  /\ UNCHANGED report

\* SELECT EXISTS.
CheckExists(q) ==
  /\ at[q] = "exists"
  /\ GoOn(q, IF exists THEN "aggregate" ELSE "ErrNotFound")
  /\ UNCHANGED report

\* The aggregate; all zeros when the show has no seats, or has gone by now.
Aggregate(q) ==
  /\ at[q] = "aggregate"
  /\ Report(q, [of |-> "show", lines |-> {TotalsNow}])

\* GetByID: only a published show has a public detail.
StartDetail(q) ==
  /\ at[q] = "new"
  /\ \E published \in BOOLEAN :
       GoOn(q, IF exists /\ published THEN "countFree" ELSE "ErrNotFound")
  /\ UNCHANGED report

\* CountFreeSeats.
CountFree(q) ==
  /\ at[q] = "countFree"
  /\ Report(q, [of |-> "detail", free |-> Cardinality({s \in seats : s.status = "free"})])

\* Mutant: LEFT JOIN.
ReportPeriodLeft(q) ==
  /\ at[q] = "new"
  /\ Report(q, [of |-> "period", lines |-> IF exists THEN {TotalsNow} ELSE {}])

\* GetStatsByPeriod, one statement for all shows: a show outside the period, and
\* by JOIN one without seats, has no line.  A period that ends before it begins
\* is refused, and so is a date that does not parse.
ReportPeriod(q) ==
  /\ at[q] = "new"
  /\ \/ \E inPeriod \in BOOLEAN :
          Report(q, [of |-> "period",
                     lines |-> IF inPeriod /\ exists /\ seats # {} THEN {TotalsNow} ELSE {}])
     \/ GoOn(q, "ErrInvalid") /\ UNCHANGED report

\* GetShowSeats; a show that does not exist has an empty plan.
ReadPlan(q) ==
  /\ at[q] = "new"
  /\ Report(q, [of |-> "plan", seats |-> seats])

\* A statement fails or the client goes away.
ReadFails(q) ==
  /\ at[q] \in {"exists", "aggregate", "countFree"}
  /\ GoOn(q, "error")
  /\ UNCHANGED report

Read(q) ==
  \/ StartStats(q) \/ CheckExists(q) \/ Aggregate(q)
  \/ StartDetail(q) \/ CountFree(q)
  \/ ReportPeriod(q) \/ ReadPlan(q) \/ ReadFails(q)

ReportsNext ==
  \/ Next /\ UNCHANGED <<report, at>>
  \/ \E q \in Reader : Read(q)

ReportsSpec == ReportsInit /\ [][ReportsNext]_reportVars

-----------------------------------------------------------------------------
(* Safety. *)

\* The seats of the map that request r asked for, all free.
MapOf(r) == Layout(r, input[r])

\* A line of figures that the sale of some seats of r's map explains.
Explains(r, line) ==
  /\ line.total = Cardinality(MapOf(r))
  /\ \E some \in SUBSET MapOf(r) : line.sold = Cardinality(some) /\ line.revenue = Revenue(some)

\* However maps are replaced while they are read, a report is about one whole map
\* that a request has inserted, or about a show without seats, and its figures
\* belong together: so many seats sold at the prices of that map.
ReportsAreOfOneMap ==
  \A q \in Reader : report[q] # None =>
    LET rep == report[q]
        maps == {r \in Request : input[r] # None /\ pc[r] \in {"ok", "error"}}
    IN  CASE rep.of = "show" ->
               \A line \in rep.lines :
                 \/ line = [total |-> 0, sold |-> 0, revenue |-> 0]
                 \/ \E r \in maps : Explains(r, line)
          [] rep.of = "period" -> \A line \in rep.lines : \E r \in maps : Explains(r, line)
          [] rep.of = "detail" -> rep.free = 0 \/ \E r \in maps : rep.free <= Cardinality(MapOf(r))
          [] rep.of = "plan" ->
               \/ rep.seats = {}
               \/ \E r \in maps : {Id(s) : s \in rep.seats} = {Id(s) : s \in MapOf(r)}
=============================================================================
