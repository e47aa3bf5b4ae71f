------------------------------- MODULE Server -------------------------------
(***************************************************************************)
(* The life of the process: main, the HTTP server, the request handlers,   *)
(* the cleaner of stale holds, and the pool of database connections that   *)
(* the last two share.  A handler visits the pool for one statement after  *)
(* the other, or once for a transaction, and holds a connection during the *)
(* visit; what it does there is in the other modules.                      *)
(***************************************************************************)
EXTENDS Naturals, FiniteSets

CONSTANTS
  Request,     \* requests that clients may send
  Cleaner,     \* the goroutine of the cleaner
  MaxConns,    \* connections in the pool
  MaxVisits    \* visits to the pool that a handler makes, at most

ASSUME ServerAssumption ==
  /\ Cleaner \notin Request
  /\ MaxConns \in Nat \ {0}
  /\ MaxVisits \in Nat

VARIABLES
  config,     \* HOLD_TTL and HOLD_CHECK_INTERVAL as they are set
  main,       \* the next step of main, or "ended" when the process is gone
  server,     \* the HTTP server
  stopping,   \* stopCtx is done
  timedOut,   \* Shutdown has returned an error
  cleaner,    \* the next step of the cleaner
  tick,       \* the channel of the ticker holds a tick
  closed,     \* the pool is closed
  conns,      \* who holds a connection of the pool
  pc,         \* pc[r]: where request r is
  visits      \* visits[r]: the visits that its handler has yet to make

vars == <<config, main, server, stopping, timedOut, cleaner, tick, closed,
          conns, pc, visits>>
process == <<config, main, server, stopping, timedOut>>
handlers == <<pc, visits>>
cleaning == <<cleaner, tick>>

Init ==
  /\ config \in {"good", "unparsable", "notPositive"}
  /\ main = "connect" /\ server = "off"
  /\ stopping = FALSE /\ timedOut = FALSE
  /\ cleaner = "off" /\ tick = FALSE
  /\ closed = FALSE /\ conns = {}
  /\ pc = [r \in Request |-> "idle"]
  /\ visits = [r \in Request |-> 0]

\* Requests that have been accepted and not answered.
InProgress == {r \in Request : pc[r] \in {"handler", "visit"}}

\* The pool hands out a connection, unless it is closed or all are taken.
Free == ~closed /\ Cardinality(conns) < MaxConns

-----------------------------------------------------------------------------
(* main *)

\* The process goes away, and with it every handler and the cleaner.
Exit ==
  /\ main' = "ended"
  /\ UNCHANGED <<config, server, stopping, timedOut, cleaning, closed, conns, handlers>>

\* The database answers the ping, and the server is started in a goroutine.
Connect ==
  /\ main = "connect"
  /\ main' = "notify" /\ server' = "starting"
  /\ UNCHANGED <<config, stopping, timedOut, cleaning, closed, conns, handlers>>

\* It does not answer, or a duration of the tokens cannot be parsed.
ConnectFails == main = "connect" /\ Exit

\* ListenAndServe fails for another reason than a Shutdown.
ListenFails == main # "ended" /\ server \in {"starting", "listening"} /\ Exit

\* A signal that comes before signal.NotifyContext ends the process.
SignalKills == main \in {"connect", "notify"} /\ Exit

Notify ==
  /\ main = "notify"
  /\ main' = "configure"
  /\ UNCHANGED <<config, server, stopping, timedOut, cleaning, closed, conns, handlers>>

\* The first signal after that; further ones are caught and do nothing.
Signal ==
  /\ main \in {"configure", "wait"} /\ ~stopping
  /\ stopping' = TRUE
  /\ UNCHANGED <<config, main, server, timedOut, cleaning, closed, conns, handlers>>

\* HOLD_TTL and HOLD_CHECK_INTERVAL are parsed while the server is listening.
ConfigFails == main = "configure" /\ config = "unparsable" /\ Exit

StartCleaner ==
  /\ main = "configure" /\ config # "unparsable"
  /\ main' = "wait" /\ cleaner' = "starting"
  /\ UNCHANGED <<config, server, stopping, timedOut, tick, closed, conns, handlers>>

\* Shutdown first closes the listener; a server that has not listened yet will not.
Shutdown ==
  /\ main = "wait" /\ stopping
  /\ main' = "shutdown"
  /\ server' = IF server = "listening" THEN "closing" ELSE "closed"
  /\ UNCHANGED <<config, stopping, timedOut, cleaning, closed, conns, handlers>>

\* Mutant: the server is closed and not shut down.
ShutdownReturnsAtOnce ==
  /\ main = "shutdown" /\ server = "closed"
  /\ main' = "close"
  /\ UNCHANGED <<config, server, stopping, timedOut, cleaning, closed, conns, handlers>>

ShutdownReturns ==
  /\ main = "shutdown" /\ server = "closed" /\ InProgress = {}
  /\ main' = "close"
  /\ UNCHANGED <<config, server, stopping, timedOut, cleaning, closed, conns, handlers>>

\* Mutant: os.Exit after the error.
ShutdownTimesOutExit ==
  /\ main = "shutdown" /\ server = "closed" /\ InProgress # {}
  /\ main' = "ended" /\ timedOut' = TRUE
  /\ UNCHANGED <<config, server, stopping, cleaning, closed, conns, handlers>>

\* Shutdown stops waiting after fifteen seconds, and the handlers go on.
ShutdownTimesOut ==
  /\ main = "shutdown" /\ server = "closed" /\ InProgress # {}
  /\ main' = "close" /\ timedOut' = TRUE
  /\ UNCHANGED <<config, server, stopping, cleaning, closed, conns, handlers>>

\* pool.Close refuses further connections and waits for those that are out.
ClosePool ==
  /\ main = "close"
  /\ main' = "drain" /\ closed' = TRUE
  /\ UNCHANGED <<config, server, stopping, timedOut, cleaning, conns, handlers>>

Return == main = "drain" /\ conns = {} /\ Exit

-----------------------------------------------------------------------------
(* The HTTP server and the handlers. *)

Listen ==
  /\ main # "ended" /\ server = "starting"
  /\ server' = "listening"
  /\ UNCHANGED <<config, main, stopping, timedOut, cleaning, closed, conns, handlers>>

\* Shutdown closes the connections of clients that have no request in progress.
CloseIdle ==
  /\ main = "shutdown" /\ server = "closing"
  /\ server' = "closed"
  /\ UNCHANGED <<config, main, stopping, timedOut, cleaning, closed, conns, handlers>>

\* A request arrives; until Shutdown has closed them, on old connections too.
Accept(r) ==
  /\ main # "ended" /\ server \in {"listening", "closing"} /\ pc[r] = "idle"
  /\ pc' = [pc EXCEPT ![r] = "handler"]
  /\ \E n \in 0..MaxVisits : visits' = [visits EXCEPT ![r] = n]
  /\ UNCHANGED <<process, cleaning, closed, conns>>

Acquire(r) ==
  /\ main # "ended" /\ pc[r] = "handler" /\ visits[r] > 0 /\ Free
  /\ pc' = [pc EXCEPT ![r] = "visit"]
  /\ conns' = conns \cup {r}
  /\ UNCHANGED <<process, cleaning, closed, visits>>

\* Mutant: a visit that is over is ended once more by its deferred Close.
EndVisitTwice(r) ==
  /\ main # "ended" /\ pc[r] \in {"handler", "visit"}
  /\ pc' = [pc EXCEPT ![r] = "handler"]
  /\ visits' = [visits EXCEPT ![r] = @ - 1]
  /\ conns' = conns \ {r}
  /\ UNCHANGED <<process, cleaning, closed>>

\* Mutant: rows that are not closed keep their connection.
EndVisitLeak(r) ==
  /\ main # "ended" /\ pc[r] = "visit"
  /\ pc' = [pc EXCEPT ![r] = "handler"]
  /\ visits' = [visits EXCEPT ![r] = @ - 1]
  /\ UNCHANGED <<process, cleaning, closed, conns>>

\* The last row is read, the statement done, the transaction committed.
EndVisit(r) ==
  /\ main # "ended" /\ pc[r] = "visit"
  /\ pc' = [pc EXCEPT ![r] = "handler"]
  /\ visits' = [visits EXCEPT ![r] = @ - 1]
  /\ conns' = conns \ {r}
  /\ UNCHANGED <<process, cleaning, closed>>

\* Mutant: an error path returns before the defer that gives the connection back.
GiveUpLeak(r) ==
  /\ main # "ended" /\ pc[r] \in {"handler", "visit"} /\ visits[r] > 0
  /\ pc' = [pc EXCEPT ![r] = "handler"]
  /\ visits' = [visits EXCEPT ![r] = 0]
  /\ UNCHANGED <<process, cleaning, closed, conns>>

\* A statement fails, the client goes away or the request is refused: rows are
\* closed, a transaction is rolled back, and no further visit is made.
GiveUp(r) ==
  /\ main # "ended" /\ pc[r] \in {"handler", "visit"} /\ visits[r] > 0
  /\ pc' = [pc EXCEPT ![r] = "handler"]
  /\ visits' = [visits EXCEPT ![r] = 0]
  /\ conns' = conns \ {r}
  /\ UNCHANGED <<process, cleaning, closed>>

\* A closed pool refuses the next statement of a handler that is still running.
Refused(r) == closed /\ pc[r] = "handler" /\ GiveUp(r)

Answer(r) ==
  /\ main # "ended" /\ pc[r] = "handler" /\ visits[r] = 0
  /\ pc' = [pc EXCEPT ![r] = "answered"]
  /\ UNCHANGED <<process, cleaning, closed, conns, visits>>

-----------------------------------------------------------------------------
(* The cleaner of stale holds. *)

RunCleaner ==
  /\ main # "ended" /\ cleaner = "starting" /\ config = "good"
  /\ cleaner' = "select"
  /\ UNCHANGED <<process, tick, closed, conns, handlers>>

\* time.NewTicker panics on an interval that is not positive.
CleanerPanics == main # "ended" /\ cleaner = "starting" /\ config = "notPositive" /\ Exit

\* A tick that finds the last one unread is dropped.
Tick ==
  /\ main # "ended" /\ cleaner \in {"select", "acquire", "query"} /\ ~tick
  /\ tick' = TRUE
  /\ UNCHANGED <<process, cleaner, closed, conns, handlers>>

\* When both are ready select may take the tick although stopCtx is done.
TakeTick ==
  /\ main # "ended" /\ cleaner = "select" /\ tick
  /\ cleaner' = "acquire" /\ tick' = FALSE
  /\ UNCHANGED <<process, closed, conns, handlers>>

CleanerAcquires ==
  /\ main # "ended" /\ cleaner = "acquire" /\ ~stopping /\ Free
  /\ cleaner' = "query" /\ conns' = conns \cup {Cleaner}
  /\ UNCHANGED <<process, tick, closed, handlers>>

\* ReleaseStaleHolds has an error because stopCtx is done, the pool is closed or
\* there is no connection to be had; it is logged and the loop goes on.
CleanerRefused ==
  /\ main # "ended" /\ cleaner = "acquire"
  /\ cleaner' = "select"
  /\ UNCHANGED <<process, tick, closed, conns, handlers>>

\* Mutant: the cleaner keeps its connection.
CleanerDoneLeak ==
  /\ main # "ended" /\ cleaner = "query"
  /\ cleaner' = "select"
  /\ UNCHANGED <<process, tick, closed, conns, handlers>>

\* Its statement is done, has failed or is cancelled with stopCtx.
CleanerDone ==
  /\ main # "ended" /\ cleaner = "query"
  /\ cleaner' = "select" /\ conns' = conns \ {Cleaner}
  /\ UNCHANGED <<process, tick, closed, handlers>>

StopCleaner ==
  /\ main # "ended" /\ cleaner = "select" /\ stopping
  /\ cleaner' = "stopped"
  /\ UNCHANGED <<process, tick, closed, conns, handlers>>

-----------------------------------------------------------------------------
Main ==
  Connect \/ Notify \/ ConfigFails \/ StartCleaner \/ Shutdown \/ ClosePool \/ Return

Handle(r) == EndVisit(r) \/ Refused(r) \/ Answer(r)

Clean ==
  RunCleaner \/ CleanerPanics \/ TakeTick \/ CleanerRefused \/ CleanerDone \/ StopCleaner

Next ==
  \/ Main \/ ShutdownReturns \/ ShutdownTimesOut
  \/ ConnectFails \/ ListenFails \/ SignalKills \/ Signal
  \/ Listen \/ CloseIdle
  \/ \E r \in Request : Accept(r) \/ Acquire(r) \/ GiveUp(r) \/ Handle(r)
  \/ Clean \/ Tick \/ CleanerAcquires

Spec == Init /\ [][Next]_vars

\* Goroutines and the database run on, and the pool serves in order those who
\* wait for a connection.  Nothing makes anybody send a request or a signal.
Fairness ==
  /\ WF_vars(Main) /\ WF_vars(ShutdownReturns) /\ WF_vars(ShutdownTimesOut)
  /\ WF_vars(CloseIdle) /\ WF_vars(Clean)
  /\ \A r \in Request : WF_vars(Handle(r)) /\ SF_vars(Acquire(r))

FairSpec == Spec /\ Fairness

-----------------------------------------------------------------------------
TypeOK ==
  /\ config \in {"good", "unparsable", "notPositive"}
  /\ main \in {"connect", "notify", "configure", "wait", "shutdown", "close",
               "drain", "ended"}
  /\ server \in {"off", "starting", "listening", "closing", "closed"}
  /\ stopping \in BOOLEAN /\ timedOut \in BOOLEAN /\ tick \in BOOLEAN
  /\ closed \in BOOLEAN
  /\ cleaner \in {"off", "starting", "select", "acquire", "query", "stopped"}
  /\ conns \subseteq Request \cup {Cleaner}
  /\ pc \in [Request -> {"idle", "handler", "visit", "answered"}]
  /\ visits \in [Request -> 0..MaxVisits]

\* Whatever fails, is given up, refused or cancelled, a connection that is out is with
\* a handler at a visit or with the cleaner at its query, and no more are out than
\* there are: rows are closed and transactions ended on every path.
ConnectionsInUse ==
  /\ conns = {r \in Request : pc[r] = "visit"} \cup {c \in {Cleaner} : cleaner = "query"}
  /\ IsFiniteSet(conns) /\ Cardinality(conns) <= MaxConns

\* Shutdown has been called and, unless it timed out, has let every handler
\* finish: no request that was accepted meets a closed pool or the end of the
\* process.
ShutdownAnswersAll ==
  (closed \/ main = "ended") /\ server = "closed" /\ config = "good" /\ ~timedOut =>
    InProgress = {}

\* Even a Shutdown that times out ends the process between transactions: nobody
\* holds a connection when main returns.
NoVisitCutOff ==
  main = "ended" /\ server = "closed" /\ config = "good" => conns = {}

\* A process that has caught a signal ends, though pool.Close waits for its
\* connections without a limit.
SignalEndsProcess == stopping ~> main = "ended"

\* A request that is accepted is answered, unless the process ends before: no
\* handler waits for a connection for ever, however few there are.
AcceptedAnswered ==
  \A r \in Request : pc[r] = "handler" ~> pc[r] = "answered" \/ main = "ended"
=============================================================================
