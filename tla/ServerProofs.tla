---------------------------- MODULE ServerProofs ----------------------------
(***************************************************************************)
(* What holds of the process for every number of requests, of connections  *)
(* and of visits: the types, that a shutdown cuts nothing off that the     *)
(* code promises to let finish, and that connections come back to the      *)
(* pool.                                                                   *)
(***************************************************************************)
EXTENDS Server, FiniteSetTheorems, TLAPS

\* How far main has come, and what that says of the server and the pool.
OrderOK ==
  /\ main = "connect" => server = "off"
  /\ main \in {"notify", "configure", "wait"} => server \in {"starting", "listening"}
  /\ main = "shutdown" => server \in {"closing", "closed"}
  /\ main \in {"close", "drain"} => server = "closed"
  /\ main \in {"connect", "notify", "configure", "wait", "shutdown", "close"} => ~closed

\* Once main has gone on from a Shutdown that returned no error, no request is in
\* progress.
AllAnswered ==
  /\ main \in {"close", "drain"} /\ ~timedOut => InProgress = {}
  /\ ShutdownAnswersAll

\* A handler at a visit has it still to make.
VisitOK == \A r \in Request : pc[r] = "visit" => visits[r] > 0

Inv == TypeOK /\ OrderOK /\ VisitOK /\ AllAnswered /\ NoVisitCutOff

\* At first nothing runs.
LEMMA InitInv == Init => Inv
<1>. SUFFICES ASSUME Init PROVE Inv
  OBVIOUS
<1>1. TypeOK
  <2>1. 0 \in 0..MaxVisits
    BY ServerAssumption DEF ServerAssumption
  <2>. QED
    BY <2>1 DEF Init, TypeOK
<1>2. OrderOK
  BY DEF Init, OrderOK
<1>3. AllAnswered
  BY DEF Init, AllAnswered, ShutdownAnswersAll
<1>4. VisitOK
  BY DEF Init, VisitOK
<1>5. NoVisitCutOff
  BY DEF Init, NoVisitCutOff
<1>. QED
  BY <1>1, <1>2, <1>3, <1>4, <1>5 DEF Inv

\* The process may go away in any state in which what it owes is done.
LEMMA ExitInv ==
  ASSUME Inv, Exit,
         server = "closed" /\ config = "good" =>
           conns = {} /\ (timedOut \/ InProgress = {})
  PROVE  Inv'
BY DEF Exit, Inv, TypeOK, OrderOK, VisitOK, AllAnswered, ShutdownAnswersAll, NoVisitCutOff,
       InProgress, cleaning, handlers

\* Every step of main keeps the invariant.
LEMMA MainInv ==
  ASSUME Inv, Main \/ ShutdownReturns \/ ShutdownTimesOut
  PROVE  Inv'
<1>. USE DEF Inv, TypeOK, OrderOK, VisitOK, AllAnswered, ShutdownAnswersAll, NoVisitCutOff,
             InProgress, cleaning, handlers
<1>1. CASE Connect
  BY <1>1 DEF Connect
<1>2. CASE Notify
  BY <1>2 DEF Notify
<1>3. CASE ConfigFails
  BY <1>3, ExitInv DEF ConfigFails
<1>4. CASE StartCleaner
  BY <1>4 DEF StartCleaner
<1>5. CASE Shutdown
  BY <1>5 DEF Shutdown
<1>6. CASE ClosePool
  BY <1>6 DEF ClosePool
<1>7. CASE Return
  BY <1>7, ExitInv DEF Return
<1>8. CASE ShutdownReturns
  BY <1>8 DEF ShutdownReturns
<1>9. CASE ShutdownTimesOut
  BY <1>9 DEF ShutdownTimesOut
<1>. QED
  BY <1>1, <1>2, <1>3, <1>4, <1>5, <1>6, <1>7, <1>8, <1>9 DEF Main

\* So does every way in which the process, the server or a signal steps in.
LEMMA OutsideInv ==
  ASSUME Inv, ConnectFails \/ ListenFails \/ SignalKills \/ Signal \/ Listen \/ CloseIdle
  PROVE  Inv'
<1>. USE DEF Inv, TypeOK, OrderOK, VisitOK, AllAnswered, ShutdownAnswersAll, NoVisitCutOff,
             InProgress, cleaning, handlers
<1>1. CASE ConnectFails
  BY <1>1, ExitInv DEF ConnectFails
<1>2. CASE ListenFails
  BY <1>2, ExitInv DEF ListenFails
<1>3. CASE SignalKills
  BY <1>3, ExitInv DEF SignalKills
<1>4. CASE Signal
  BY <1>4 DEF Signal
<1>5. CASE Listen
  BY <1>5 DEF Listen
<1>6. CASE CloseIdle
  BY <1>6 DEF CloseIdle
<1>. QED
  BY <1>1, <1>2, <1>3, <1>4, <1>5, <1>6

\* A request that is accepted finds a server that is not closed yet, and a
\* handler never starts another request.
LEMMA HandlerInv ==
  ASSUME Inv, NEW r \in Request, Accept(r) \/ Acquire(r) \/ GiveUp(r) \/ Handle(r)
  PROVE  Inv'
<1>. USE ServerAssumption DEF ServerAssumption
<1>1. CASE Accept(r)
  <2>1. TypeOK'
    BY <1>1 DEF Accept, Inv, TypeOK, process, cleaning
  <2>. QED
    BY <1>1, <2>1
    DEF Accept, Inv, TypeOK, OrderOK, VisitOK, AllAnswered, ShutdownAnswersAll, NoVisitCutOff,
        InProgress, process, cleaning
<1>2. ASSUME pc[r] \in {"handler", "visit"}, main # "ended",
             UNCHANGED <<process, cleaning, closed>>, TypeOK', VisitOK',
             \A q \in Request \ {r} : pc'[q] = pc[q]
      PROVE  Inv'
  <2>1. r \in InProgress /\ InProgress' \subseteq InProgress
    BY <1>2 DEF InProgress
  <2>. QED
    BY <1>2, <2>1
    DEF Inv, OrderOK, AllAnswered, ShutdownAnswersAll, NoVisitCutOff, process
<1>3. CASE Acquire(r)
  BY <1>2, <1>3 DEF Acquire, Inv, TypeOK, VisitOK, process, cleaning
<1>4. ASSUME GiveUp(r) PROVE Inv'
  BY <1>2, <1>4 DEF GiveUp, Inv, TypeOK, VisitOK, process, cleaning
<1>5. CASE EndVisit(r)
  BY <1>2, <1>5 DEF EndVisit, Inv, TypeOK, VisitOK, process, cleaning
<1>6. CASE Answer(r)
  BY <1>2, <1>6 DEF Answer, Inv, TypeOK, VisitOK, process, cleaning
<1>. QED
  BY <1>1, <1>3, <1>4, <1>5, <1>6 DEF Handle, Refused

\* The cleaner takes connections and gives them back, and only its panic ends
\* the process.
LEMMA CleanerInv ==
  ASSUME Inv, Clean \/ Tick \/ CleanerAcquires
  PROVE  Inv'
<1>1. CASE CleanerPanics
  BY <1>1, ExitInv DEF CleanerPanics
<1>2. ASSUME main # "ended", UNCHANGED <<process, closed, handlers>>, TypeOK'
      PROVE  Inv'
  BY <1>2 DEF Inv, OrderOK, VisitOK, AllAnswered, ShutdownAnswersAll, NoVisitCutOff,
              InProgress, process, handlers
<1>. USE DEF Inv, TypeOK, process, handlers
<1>3. CASE RunCleaner
  BY <1>2, <1>3 DEF RunCleaner
<1>4. CASE TakeTick
  BY <1>2, <1>4 DEF TakeTick
<1>5. CASE CleanerRefused
  BY <1>2, <1>5 DEF CleanerRefused
<1>6. CASE CleanerDone
  BY <1>2, <1>6 DEF CleanerDone
<1>7. CASE StopCleaner
  BY <1>2, <1>7 DEF StopCleaner
<1>8. CASE Tick
  BY <1>2, <1>8 DEF Tick
<1>9. CASE CleanerAcquires
  BY <1>2, <1>9 DEF CleanerAcquires
<1>. QED
  BY <1>1, <1>3, <1>4, <1>5, <1>6, <1>7, <1>8, <1>9 DEF Clean

\* The invariant holds in every reachable state.
LEMMA Invariance == Spec => []Inv
<1>1. Inv /\ [Next]_vars => Inv'
  <2>. SUFFICES ASSUME Inv, [Next]_vars PROVE Inv'
    OBVIOUS
  <2>1. CASE UNCHANGED vars
    BY <2>1 DEF vars, Inv, TypeOK, OrderOK, VisitOK, AllAnswered, ShutdownAnswersAll,
                NoVisitCutOff, InProgress
  <2>. QED
    BY <2>1, MainInv, OutsideInv, HandlerInv, CleanerInv DEF Next
<1>. QED
  BY <1>1, InitInv, PTL DEF Spec

\* Every variable keeps its type.
THEOREM ServerTypeCorrect == Spec => []TypeOK
BY Invariance, PTL DEF Inv

\* A Shutdown that returns in time has let every accepted request finish.
THEOREM ShutdownsAnswerAll == Spec => []ShutdownAnswersAll
BY Invariance, PTL DEF Inv, AllAnswered

\* No transaction and no statement is cut off, whether Shutdown returns in time
\* or not.
THEOREM VisitsAreFinished == Spec => []NoVisitCutOff
BY Invariance, PTL DEF Inv

-----------------------------------------------------------------------------
(* The pool at its limit. *)

\* When the pool has none to give, and whenever it waits for some to come back,
\* somebody has one and needs nothing more of the pool to give it back.
SomebodyGivesBack ==
  main # "ended" /\ ((~closed /\ ~Free) \/ (main = "drain" /\ conns # {})) =>
    (\E r \in Request : pc[r] = "visit") \/ cleaner = "query"

\* The cleaner does not run before main has started it.
CleanerWaits == main \in {"connect", "notify", "configure"} => cleaner = "off"

\* One more connection is out, and there was one.
LEMMA OneMore ==
  ASSUME NEW S, IsFiniteSet(S), Cardinality(S) < MaxConns, NEW x
  PROVE  IsFiniteSet(S \cup {x}) /\ Cardinality(S \cup {x}) <= MaxConns
<1>1. Cardinality(S) \in Nat /\ MaxConns \in Nat
  BY FS_CardinalityType, ServerAssumption
<1>2. IsFiniteSet(S \cup {x}) /\ (Cardinality(S \cup {x}) = Cardinality(S) \/
                                 Cardinality(S \cup {x}) = Cardinality(S) + 1)
  BY FS_AddElement
<1>. QED
  BY <1>1, <1>2

\* One less is out, or as many as before.
LEMMA OneLess ==
  ASSUME NEW S, IsFiniteSet(S), Cardinality(S) <= MaxConns, NEW x
  PROVE  IsFiniteSet(S \ {x}) /\ Cardinality(S \ {x}) <= MaxConns
<1>1. S \ {x} \subseteq S
  OBVIOUS
<1>2. IsFiniteSet(S \ {x}) /\ Cardinality(S \ {x}) <= Cardinality(S)
  BY <1>1, FS_Subset
<1>. QED
  BY <1>2, FS_CardinalityType, ServerAssumption

\* Only main starts the cleaner, and it never goes back.
LEMMA CleanerWaitsNext ==
  ASSUME TypeOK, CleanerWaits, [Next]_vars
  PROVE  CleanerWaits'
<1>. USE DEF CleanerWaits, cleaning, process
<1>1. CASE Main \/ ShutdownReturns \/ ShutdownTimesOut
  BY <1>1
  DEF Main, Connect, Notify, ConfigFails, StartCleaner, Shutdown, ClosePool, Return, Exit,
      ShutdownReturns, ShutdownTimesOut
<1>2. CASE ConnectFails \/ ListenFails \/ SignalKills \/ Signal \/ Listen \/ CloseIdle
  BY <1>2 DEF ConnectFails, ListenFails, SignalKills, Exit, Signal, Listen, CloseIdle
<1>3. ASSUME NEW r \in Request, Accept(r) \/ Acquire(r) \/ GiveUp(r) \/ Handle(r)
      PROVE  UNCHANGED <<process, cleaning>>
  BY <1>3 DEF Accept, Acquire, GiveUp, Handle, EndVisit, Refused, Answer
<1>4. CASE Clean \/ Tick \/ CleanerAcquires
  BY <1>4
  DEF Clean, RunCleaner, CleanerPanics, Exit, TakeTick, CleanerRefused, CleanerDone, StopCleaner,
      Tick, CleanerAcquires
<1>5. CASE UNCHANGED vars
  BY <1>5 DEF vars
<1>. QED
  BY <1>1, <1>2, <1>3, <1>4, <1>5 DEF Next

\* A handler that takes or leaves a connection changes the pool by that one.
LEMMA PoolNext ==
  ASSUME TypeOK, CleanerWaits, ConnectionsInUse, [Next]_vars
  PROVE  ConnectionsInUse'
<1>. USE DEF ConnectionsInUse, TypeOK
<1>0. Cleaner \notin Request
  BY ServerAssumption
<1>1. ASSUME UNCHANGED <<conns, pc, cleaner>> PROVE ConnectionsInUse'
  BY <1>1
<1>2. ASSUME NEW r \in Request, Acquire(r) PROVE ConnectionsInUse'
  <2>1. conns' = {q \in Request : pc'[q] = "visit"} \cup {c \in {Cleaner} : cleaner' = "query"}
    BY <1>2 DEF Acquire, cleaning
  <2>2. IsFiniteSet(conns') /\ Cardinality(conns') <= MaxConns
    BY <1>2, OneMore DEF Acquire, Free
  <2>. QED
    BY <2>1, <2>2
<1>3. ASSUME NEW r \in Request, EndVisit(r) \/ GiveUp(r) PROVE ConnectionsInUse'
  <2>1. conns' = {q \in Request : pc'[q] = "visit"} \cup {c \in {Cleaner} : cleaner' = "query"}
    BY <1>0, <1>3 DEF EndVisit, GiveUp, cleaning
  <2>2. IsFiniteSet(conns') /\ Cardinality(conns') <= MaxConns
    <3>1. conns' = conns \ {r}
      BY <1>3 DEF EndVisit, GiveUp
    <3>2. IsFiniteSet(conns) /\ Cardinality(conns) <= MaxConns
      OBVIOUS
    <3>. HIDE DEF ConnectionsInUse, TypeOK
    <3>. QED
      BY <3>1, <3>2, OneLess
  <2>. QED
    BY <2>1, <2>2
<1>4. CASE CleanerAcquires
  <2>1. conns' = {q \in Request : pc'[q] = "visit"} \cup {c \in {Cleaner} : cleaner' = "query"}
    BY <1>4 DEF CleanerAcquires, handlers
  <2>2. IsFiniteSet(conns') /\ Cardinality(conns') <= MaxConns
    BY <1>4, OneMore DEF CleanerAcquires, Free
  <2>. QED
    BY <2>1, <2>2
<1>5. CASE CleanerDone
  <2>1. conns' = {q \in Request : pc'[q] = "visit"} \cup {c \in {Cleaner} : cleaner' = "query"}
    BY <1>0, <1>5 DEF CleanerDone, handlers
  <2>2. IsFiniteSet(conns') /\ Cardinality(conns') <= MaxConns
    <3>1. conns' = conns \ {Cleaner}
      BY <1>5 DEF CleanerDone
    <3>2. IsFiniteSet(conns) /\ Cardinality(conns) <= MaxConns
      OBVIOUS
    <3>. HIDE DEF ConnectionsInUse, TypeOK
    <3>. QED
      BY <3>1, <3>2, OneLess
  <2>. QED
    BY <2>1, <2>2
<1>6. ASSUME NEW r \in Request, Accept(r) \/ Answer(r) PROVE ConnectionsInUse'
  BY <1>6, <1>1 DEF Accept, Answer, cleaning
<1>7. CASE Main \/ ShutdownReturns \/ ShutdownTimesOut
  BY <1>7
  DEF Main, Connect, Notify, ConfigFails, StartCleaner, Shutdown, ClosePool, Return, Exit,
      ShutdownReturns, ShutdownTimesOut, CleanerWaits, cleaning, handlers
<1>8. CASE ConnectFails \/ ListenFails \/ SignalKills \/ Signal \/ Listen \/ CloseIdle
  BY <1>1, <1>8
  DEF ConnectFails, ListenFails, SignalKills, Exit, Signal, Listen, CloseIdle, cleaning, handlers
<1>9. CASE RunCleaner \/ CleanerPanics \/ TakeTick \/ CleanerRefused \/ StopCleaner \/ Tick
  BY <1>9
  DEF RunCleaner, CleanerPanics, Exit, TakeTick, CleanerRefused, StopCleaner, Tick, cleaning, handlers
<1>10. CASE UNCHANGED vars
  BY <1>1, <1>10 DEF vars
<1>. QED
  BY <1>2, <1>3, <1>4, <1>5, <1>6, <1>7, <1>8, <1>9, <1>10 DEF Next, Handle, Refused, Clean

\* Whatever fails, is refused or is given up, no connection is kept by somebody who
\* does not use it, and nobody has two.
THEOREM NoConnectionLeaks == Spec => []ConnectionsInUse
<1>0. Init => CleanerWaits
  BY DEF Init, CleanerWaits
<1>1. Init => ConnectionsInUse
  <2>. SUFFICES ASSUME Init PROVE ConnectionsInUse
    OBVIOUS
  <2>1. conns = {} /\ IsFiniteSet({}) /\ Cardinality({}) = 0
    BY FS_EmptySet DEF Init
  <2>. QED
    BY <2>1, ServerAssumption DEF Init, ConnectionsInUse
<1>2. TypeOK /\ CleanerWaits /\ [Next]_vars => CleanerWaits'
  BY CleanerWaitsNext
<1>3. TypeOK /\ CleanerWaits /\ ConnectionsInUse /\ [Next]_vars => ConnectionsInUse'
  BY PoolNext
<1>. QED
  BY <1>0, <1>1, <1>2, <1>3, ServerTypeCorrect, PTL DEF Spec

\* A handler waits for a connection, and pool.Close for the last ones, only while
\* somebody is about to give one back.
THEOREM PoolComesBack == Spec => []SomebodyGivesBack
<1>1. ConnectionsInUse => SomebodyGivesBack
  <2>. SUFFICES ASSUME ConnectionsInUse, (~closed /\ ~Free) \/ conns # {}
                PROVE  (\E r \in Request : pc[r] = "visit") \/ cleaner = "query"
    BY DEF SomebodyGivesBack
  <2>1. conns # {}
    BY ServerAssumption, FS_EmptySet DEF Free
  <2>. QED
    BY <2>1 DEF ConnectionsInUse
<1>. QED
  BY <1>1, NoConnectionLeaks, PTL
=============================================================================
