---------------------------- MODULE ManagerProofs ----------------------------
(***************************************************************************)
(* Safety of the connection supervisor, that it implements the service of  *)
(* ConnectionService, and what its histories show, for every set of        *)
(* handles and callers and every configuration.                            *)
(***************************************************************************)
EXTENDS ManagerHistory, TLAPS

USE DEF MaxFailures, MaxBackoff

\* The helper Close only ever closes one session and forgets its socket.
LEMMA CloseType ==
  ASSUME TypeOK, NEW c, Close(c)
  PROVE  /\ session' \in [Conns -> {"closed", "connected", "authed", "scoped"}]
         /\ broken' \in SUBSET Conns
         /\ \A d \in Conns : d # c => session'[d] = session[d]
         /\ c \in Conns => session'[c] = "closed"
BY DEF TypeOK, Close

\* Every value a sign-in can return as expiry is one.
LEMMA IssuedType == TypeOK => Issued \subseteq Expiries
BY ManagerAssumption DEF ManagerAssumption, TypeOK, Issued, Expiries

\* The initial states satisfy the inductive invariant.
LEMMA InitIInv == Init => IInv
<1> SUFFICES ASSUME Init PROVE IInv
  OBVIOUS
<1>1. TypeOK
  <2>1. jwtExp \in Expiries
    BY ManagerAssumption DEF ManagerAssumption, Init, Expiries
  <2>2. sup \in Points /\ backoff \in 1..MaxBackoff /\ failures \in 0..MaxFailures
    BY DEF Init, Points
  <2>3. {local, conn, token} \subseteq Conns \cup {NoConn}
    BY DEF Init
  <2>4. /\ tokenExp \in Expiries
        /\ readyOk \in BOOLEAN
        /\ readyCloses \in {0, 1}
        /\ cancelled \in BOOLEAN
    BY DEF Init, Expiries
  <2>5. /\ stop \in {"uncalled", "waiting", "returned"}
        /\ server \in {"up", "rejecting", "down"}
    BY DEF Init
  <2>6. /\ session \in [Conns -> {"closed", "connected", "authed", "scoped"}]
        /\ broken \in SUBSET Conns
    BY DEF Init
  <2>7. /\ waiting \in SUBSET Clients
        /\ held \in [Clients -> Conns \cup {NoConn}]
    BY DEF Init
  <2> QED
    BY <2>1, <2>2, <2>3, <2>4, <2>5, <2>6, <2>7 DEF TypeOK
<1>2. LocalStage /\ ConnStage
  BY DEF Init, LocalStage, ConnStage, Dialling, Connected, Supervised
<1>3. OthersClosed /\ HeldScoped
  BY DEF Init, OthersClosed, HeldScoped, Open, Dialling
<1>4. TokenFollowsConn /\ ReadyStage /\ FailuresStage /\ StopStage
  BY DEF Init, TokenFollowsConn, ReadyStage, FailuresStage, StopStage,
         Supervised
<1> QED
  BY <1>1, <1>2, <1>3, <1>4 DEF IInv

\* Type correctness is preserved; the bounds of the counters need the rest.
LEMMA NextType == IInv /\ [Next]_vars => TypeOK'
<1> SUFFICES ASSUME IInv, [Next]_vars PROVE TypeOK'
  OBVIOUS
<1> USE ManagerAssumption DEF ManagerAssumption, IInv
<1>1. CASE Supervisor
  <2>1. CASE Top \/ Connect \/ ConnectFailed \/ SignIn \/ Use
    BY <2>1 DEF TypeOK, Points, NextRound, Top, Connect, ConnectFailed, SignIn,
       Use, Goto,
                Fresh, supVars, sharedVars, readyVars, endVars, netVars,
                envVars, getVars
  <2>2. CASE SignInFailed \/ UseFailed \/ CloseOld
    BY <2>2, CloseType
       DEF TypeOK, Points, SignInFailed, UseFailed, CloseOld, Discard, Goto,
           sharedVars, readyVars, endVars, envVars, getVars
  <2>3. CASE BackoffElapsed \/ BackoffCancelled
    BY <2>3 DEF TypeOK, Points, BackoffElapsed, BackoffCancelled, NextBackoff,
                Goto, sharedVars, readyVars, endVars, netVars, envVars, getVars
  <2>4. CASE Install \/ Refresh
    BY <2>4, IssuedType
       DEF TypeOK, Points, LocalStage, Install, Refresh, Publish, Goto,
           sharedVars, readyVars, endVars, netVars, envVars, getVars
  <2>5. CASE SignalReady
    BY <2>5 DEF TypeOK, Points, ReadyStage, SignalReady, Closings, Goto,
       sharedVars,
                readyVars, endVars, netVars, envVars, getVars
  <2>6. CASE SuperviseCancelled \/ Tick \/ RefreshFailed
    BY <2>6 DEF TypeOK, Points, SuperviseCancelled, Tick, RefreshFailed, Goto,
                sharedVars, readyVars, endVars, netVars, envVars, getVars
  <2>7. CASE Ping \/ Upsert \/ HeartbeatFailed
    BY <2>7 DEF TypeOK, Points, FailuresStage, Supervised, Ping, Upsert,
                HeartbeatFailed, Beat, Miss, Goto, sharedVars, readyVars,
                endVars, netVars, envVars, getVars
  <2>8. CASE Teardown
    BY <2>8 DEF TypeOK, Points, Expiries, Teardown, Withdraw, Goto, readyVars,
                endVars, netVars, envVars, getVars
  <2> QED
    BY <1>1, <2>1, <2>2, <2>3, <2>4, <2>5, <2>6, <2>7, <2>8 DEF Supervisor
<1>2. CASE Callers
  <2>1. CASE ParentCancel \/ StopCall
    BY <2>1 DEF TypeOK, ParentCancel, StopCall, supVars, sharedVars, readyVars,
                netVars, envVars, getVars
  <2>2. CASE StopReturn
    BY <2>2, CloseType
       DEF TypeOK, StopReturn, supVars, readyVars, netVars, envVars, getVars
  <2>3. ASSUME NEW g \in Clients,
               GetCall(g) \/ GetConn(g) \/ GetFail(g) \/ GetAbandon(g)
                 \/ Release(g)
        PROVE  TypeOK'
    BY <2>3 DEF TypeOK, GetCall, GetConn, GetFail, GetAbandon, Release, supVars,
                sharedVars, readyVars, endVars, netVars, envVars
  <2> QED
    BY <1>2, <2>1, <2>2, <2>3 DEF Callers
<1>3. CASE Environment
  BY <1>3 DEF Environment, TypeOK, ServerChange, Break, Age, Aged, Expiries,
              supVars, sharedVars, readyVars, endVars, netVars, envVars,
              getVars
<1>4. CASE UNCHANGED vars
  BY <1>4 DEF TypeOK, vars, supVars, sharedVars, readyVars, endVars, netVars,
              envVars, getVars
<1> QED
  BY <1>1, <1>2, <1>3, <1>4 DEF Next

(***************************************************************************)
(* Every step keeps what the control points know.                          *)
(***************************************************************************)
LEMMA NextStages ==
  IInv /\ TypeOK' /\ [Next]_vars =>
    (/\ LocalStage /\ ConnStage /\ OthersClosed /\ HeldScoped
     /\ TokenFollowsConn /\ ReadyStage /\ FailuresStage /\ StopStage)'
<1> DEFINE Stages == /\ LocalStage /\ ConnStage /\ OthersClosed /\ HeldScoped
                     /\ TokenFollowsConn /\ ReadyStage /\ FailuresStage
                     /\ StopStage
<1> SUFFICES ASSUME IInv, TypeOK', [Next]_vars PROVE Stages'
  OBVIOUS
<1> USE ManagerAssumption
    DEF ManagerAssumption, IInv, TypeOK, LocalStage, ConnStage, OthersClosed,
        HeldScoped, TokenFollowsConn, ReadyStage, FailuresStage, StopStage,
        Open, Dialling, Connected, Supervised, Goto, supVars, sharedVars,
        readyVars, endVars, netVars, envVars, getVars
<1>1. CASE Supervisor
  <2>1. CASE Top
    BY <2>1 DEF Top, NextRound
  <2>2. CASE Connect
    BY <2>2 DEF Connect, Fresh
  <2>3. CASE ConnectFailed
    BY <2>3 DEF ConnectFailed
  <2>4. CASE SignIn
    BY <2>4 DEF SignIn
  <2>5. CASE SignInFailed
    BY <2>5 DEF SignInFailed, Discard, Close
  <2>6. CASE Use
    BY <2>6 DEF Use
  <2>7. CASE UseFailed
    BY <2>7 DEF UseFailed, Discard, Close
  <2>8. CASE BackoffElapsed
    BY <2>8 DEF BackoffElapsed
  <2>9. CASE BackoffCancelled
    BY <2>9 DEF BackoffCancelled
  <2>10. CASE Install
    BY <2>10 DEF Install, Publish, Issued
  <2>11. CASE SignalReady
    BY <2>11 DEF SignalReady, Closings
  <2>12. CASE SuperviseCancelled
    BY <2>12 DEF SuperviseCancelled
  <2>13. CASE Tick
    BY <2>13 DEF Tick, RefreshDue
  <2>14. CASE Refresh
    BY <2>14 DEF Refresh, Issued
  <2>15. CASE RefreshFailed
    BY <2>15 DEF RefreshFailed
  <2>16. CASE Ping
    BY <2>16 DEF Ping, Beat
  <2>17. CASE Upsert
    BY <2>17 DEF Upsert, Beat
  <2>18. CASE HeartbeatFailed
    BY <2>18 DEF HeartbeatFailed, Miss
  <2>19. CASE Teardown
    BY <2>19 DEF Teardown, Withdraw
  <2>20. CASE CloseOld
    BY <2>20 DEF CloseOld, Close
  <2> QED
    BY <1>1, <2>1, <2>2, <2>3, <2>4, <2>5, <2>6, <2>7, <2>8, <2>9, <2>10,
       <2>11, <2>12, <2>13, <2>14, <2>15, <2>16, <2>17, <2>18, <2>19, <2>20 DEF
       Supervisor
<1>2. CASE Callers
  <2>1. CASE ParentCancel
    BY <2>1 DEF ParentCancel
  <2>2. CASE StopCall
    BY <2>2 DEF StopCall
  <2>3. CASE StopReturn
    BY <2>3 DEF StopReturn, SupervisorExited
  <2>4. ASSUME NEW g \in Clients,
               GetCall(g) \/ GetFail(g) \/ GetAbandon(g)
        PROVE  Stages'
    BY <2>4 DEF GetCall, GetFail, GetAbandon
  <2>5. ASSUME NEW g \in Clients, GetConn(g) PROVE Stages'
    BY <2>5 DEF GetConn
  <2>6. ASSUME NEW g \in Clients, Release(g) PROVE Stages'
    BY <2>6 DEF Release
  <2> QED
    BY <1>2, <2>1, <2>2, <2>3, <2>4, <2>5, <2>6 DEF Callers
<1>3. CASE Environment
  <2>1. CASE ServerChange
    BY <2>1 DEF ServerChange
  <2>2. ASSUME NEW c \in Conns, Break(c) PROVE Stages'
    BY <2>2 DEF Break
  <2>3. CASE Age
    BY <2>3 DEF Age, Aged
  <2> QED
    BY <1>3, <2>1, <2>2, <2>3 DEF Environment
<1>4. CASE UNCHANGED vars
  BY <1>4 DEF vars
<1> QED
  BY <1>1, <1>2, <1>3, <1>4 DEF Next

(***************************************************************************)
(* The supervisor's bookkeeping holds in every reachable state: the        *)
(* invariant of the control points in run, dial and supervise.             *)
(***************************************************************************)
THEOREM Invariance == Spec => []IInv
<1>1. Init => IInv
  BY InitIInv
<1>2. IInv /\ [Next]_vars => IInv'
  BY NextType, NextStages DEF IInv
<1> QED
  BY <1>1, <1>2, PTL DEF Spec

\* The variables of the Manager have their types in every reachable state.
THEOREM TypeCorrect == Spec => []TypeOK
<1>1. IInv => TypeOK
  BY DEF IInv
<1> QED
  BY <1>1, Invariance, PTL

(***************************************************************************)
(* dial's error paths and run's teardown leak no connection: what is open  *)
(* is being dialled, handed out or closed, and nothing is once run has     *)
(* returned.                                                               *)
(***************************************************************************)
THEOREM ConnectionsAccounted == Spec => []NoLeak
<1>1. IInv => NoLeak
  <2> SUFFICES ASSUME IInv, NEW c \in Conns, Open(c)
               PROVE  c \in {local, conn} /\ sup # "done"
    BY DEF NoLeak
  <2>1. c \in {local, conn}
    BY DEF IInv, OthersClosed
  <2>2. sup = "done" => local = NoConn /\ conn = NoConn
    BY DEF IInv, LocalStage, ConnStage, Connected, Supervised
  <2> QED
    BY <2>1, <2>2, ManagerAssumption DEF ManagerAssumption
<1> QED
  BY <1>1, Invariance, PTL

\* Get hands out, and its callers go on holding, only signed-in and scoped
\* sessions, or ones that are closed again.
THEOREM HandlesScoped == Spec => []OnlyScopedHandles
<1>1. IInv => OnlyScopedHandles
  BY DEF IInv, OnlyScopedHandles, ConnStage, HeldScoped
<1> QED
  BY <1>1, Invariance, PTL

\* The copy of m.conn that maybeRefresh and heartbeat work with is m.conn.
THEOREM CopyStaysCurrent == Spec => []CopyIsCurrent
<1>1. IInv => CopyIsCurrent
  BY DEF IInv, CopyIsCurrent, LocalStage, ConnStage, Connected, Supervised,
         Open
<1> QED
  BY <1>1, Invariance, PTL

\* The stored JWT and its expiry are those of the published connection.
THEOREM TokenOfConn == Spec => []TokenFollowsConn
<1>1. IInv => TokenFollowsConn
  BY DEF IInv
<1> QED
  BY <1>1, Invariance, PTL

\* However often it reconnects, signalReady closes the ready channel once.
THEOREM ReadyOnce == Spec => []ReadyClosedOnce
<1>1. IInv => ReadyClosedOnce
  BY DEF IInv, ReadyStage, ReadyClosedOnce
<1> QED
  BY <1>1, Invariance, PTL

\* After Stop has returned nothing is published and no session is open.
THEOREM StopCleans == Spec => []StoppedClean
<1>1. IInv => StoppedClean
  <2> SUFFICES ASSUME IInv, stop = "returned"
               PROVE  conn = NoConn /\ \A c \in Conns : session[c] = "closed"
    BY DEF StoppedClean
  <2>1. conn = NoConn /\ local = NoConn
    BY DEF IInv, StopStage, LocalStage, ConnStage, Connected, Supervised
  <2>2. ASSUME NEW c \in Conns PROVE session[c] = "closed"
    BY <2>1, ManagerAssumption DEF ManagerAssumption, IInv, OthersClosed, Open
  <2> QED
    BY <2>1, <2>2
<1> QED
  BY <1>1, Invariance, PTL

(***************************************************************************)
(* A step of the supervisor, of its callers or of their environment is one *)
(* of the service, or leaves what the service shows unchanged.             *)
(***************************************************************************)
LEMMA StepRefines ==
  IInv /\ IInv' /\ [Next]_vars => [Service!Next]_(Service!serviceVars)
<1> SUFFICES ASSUME IInv, IInv', [Next]_vars
             PROVE  Service!Next \/ UNCHANGED Service!serviceVars
  OBVIOUS
<1> USE DEF Ready, Service!serviceVars, supVars, sharedVars, readyVars, endVars,
            netVars, envVars, getVars
<1>1. CASE Supervisor
  <2>1. CASE Install
    <3>1. stop # "returned" /\ conn = NoConn /\ conn' \in Conns
      BY <2>1 DEF Install, Publish, IInv, StopStage, ConnStage, LocalStage,
                  Connected, Supervised, Dialling
    <3>2. conn' = local /\ \A g \in Clients : held[g] # local
      BY <2>1 DEF Install, Publish, IInv, HeldScoped, Dialling
    <3>3. Service!Publish
      BY <2>1, <3>1, <3>2 DEF Install, Service!Publish
    <3> QED
      BY <3>3 DEF Service!Next
  <2>2. CASE SignalReady
    <3>1. CASE readyOk
      BY <2>2, <3>1 DEF SignalReady, Closings, IInv, ReadyStage
    <3>2. CASE ~readyOk
      <4>1. ~Ready /\ Ready' /\ conn # NoConn
        BY <2>2, <3>2, ManagerAssumption
           DEF ManagerAssumption, SignalReady, Closings, IInv, ReadyStage, ConnStage,
               Connected
      <4>2. Service!Announce
        BY <2>2, <4>1 DEF SignalReady, Service!Announce
      <4> QED
        BY <4>2 DEF Service!Next
    <3> QED
      BY <3>1, <3>2
  <2>3. CASE Teardown
    <3>1. conn # NoConn /\ Ready
      BY <2>3, ManagerAssumption
         DEF ManagerAssumption, Teardown, IInv, ReadyStage, ConnStage, Connected
    <3>2. Service!Withdraw
      BY <2>3, <3>1 DEF Teardown, Withdraw, Service!Withdraw
    <3> QED
      BY <3>2 DEF Service!Next
  <2>4. CASE \/ Top \/ Connect \/ ConnectFailed \/ SignIn \/ SignInFailed
             \/ Use \/ UseFailed \/ BackoffElapsed \/ BackoffCancelled
    BY <2>4 DEF Top, Connect, ConnectFailed, SignIn, SignInFailed, Use,
                UseFailed, BackoffElapsed, BackoffCancelled
  <2>5. CASE \/ SuperviseCancelled \/ Tick \/ Refresh \/ RefreshFailed
             \/ Ping \/ Upsert \/ HeartbeatFailed \/ CloseOld
    BY <2>5 DEF SuperviseCancelled, Tick, Refresh, RefreshFailed, Ping, Upsert,
                HeartbeatFailed, CloseOld
  <2> QED
    BY <1>1, <2>1, <2>2, <2>3, <2>4, <2>5 DEF Supervisor
<1>2. CASE Callers
  <2>1. CASE ParentCancel
    BY <2>1 DEF ParentCancel, Service!Cancel, Service!Next
  <2>2. CASE StopCall
    BY <2>2 DEF StopCall, Service!StopCall, Service!Next
  <2>3. CASE StopReturn
    <3>1. conn = NoConn
      BY <2>3 DEF StopReturn, SupervisorExited, IInv, ConnStage, Connected,
                  Supervised
    <3>2. Service!StopReturn
      BY <2>3, <3>1 DEF StopReturn, Service!StopReturn
    <3> QED
      BY <3>2 DEF Service!Next
  <2>4. ASSUME NEW g \in Clients, GetCall(g) PROVE Service!GetCall(g)
    BY <2>4 DEF GetCall, Service!GetCall
  <2>5. ASSUME NEW g \in Clients, GetConn(g) PROVE Service!GetConn(g)
    BY <2>5 DEF GetConn, Service!GetConn
  <2>6. ASSUME NEW g \in Clients, GetFail(g) PROVE Service!GetFail(g)
    BY <2>6 DEF GetFail, Service!GetFail
  <2>7. ASSUME NEW g \in Clients, GetAbandon(g) PROVE Service!GetAbandon(g)
    BY <2>7 DEF GetAbandon, Service!GetAbandon
  <2>8. ASSUME NEW g \in Clients, Release(g) PROVE Service!Release(g)
    BY <2>8 DEF Release, Service!Release
  <2> QED
    BY <1>2, <2>1, <2>2, <2>3, <2>4, <2>5, <2>6, <2>7, <2>8
       DEF Callers, Service!Next
<1>3. CASE Environment
  BY <1>3 DEF Environment, ServerChange, Break, Age
<1>4. CASE UNCHANGED vars
  BY <1>4 DEF vars
<1> QED
  BY <1>1, <1>2, <1>3, <1>4 DEF Next

(***************************************************************************)
(* The supervisor implements the safety part of ConnectionService, the     *)
(* contract under which the batch writer and the live hub are modelled.    *)
(***************************************************************************)
THEOREM ImplementsServiceSafety == Spec => Service!Safety
<1>1. Init => Service!Init
  BY DEF Init, Service!Init, Ready
<1>2. IInv /\ IInv' /\ [Next]_vars => [Service!Next]_(Service!serviceVars)
  BY StepRefines
<1> QED
  BY <1>1, <1>2, Invariance, PTL DEF Spec, Service!Safety

-----------------------------------------------------------------------------
(* The histories: supervise gives a connection up after exactly three      *)
(* heartbeats missed in a row, and run waits between dials by the schedule *)
(* 1, 2, 4, 8, 16, 30, 30, ... seconds.                                    *)

Schedule == <<1, 2, 4, 8, 16, 30, 30, 30>>

Beating == {"signal", "select", "refresh", "ping", "upsert"}

(***************************************************************************)
(* The histories agree with the supervisor's own counters: failures counts *)
(* the misses while a connection is supervised, and backoff is the wait    *)
(* due after the next failed dial (in a wait: the one being waited).       *)
(***************************************************************************)
MissesCounted ==
  /\ sup \in Beating => misses = failures
  /\ sup = "teardown" => cancelled \/ misses = MaxFailures

BackoffCounted ==
  /\ sup = "backoff" => streak \in 1..MaxStreak /\ backoff = Schedule[streak]
  /\ sup \notin {"backoff", "done"} => backoff = Schedule[streak + 1]

HInv ==
  /\ misses \in 0..MaxMisses
  /\ streak \in 0..MaxStreak
  /\ MissesCounted
  /\ BackoffCounted

GoodBeat == (Ping \/ Upsert) /\ sup' = "select"

\* Doubling with the cap walks the schedule.
LEMMA ScheduleDoubles ==
  ASSUME NEW n \in 1..MaxStreak
  PROVE  NextBackoff(Schedule[n]) = Schedule[n + 1]
<1>1. n = 1 \/ n = 2 \/ n = 3 \/ n = 4 \/ n = 5 \/ n = 6 \/ n = 7
  BY DEF MaxStreak
<1> QED BY <1>1 DEF Schedule, NextBackoff

\* The last wait repeats.
LEMMA ScheduleSettles ==
  ASSUME NEW n \in 0..MaxStreak
  PROVE  /\ OneMore(n, MaxStreak) \in 1..MaxStreak
         /\ Schedule[OneMore(n, MaxStreak)] = Schedule[n + 1]
<1>1. CASE n < 7
  BY <1>1 DEF OneMore, MaxStreak
<1>2. CASE n = 7
  BY <1>2 DEF OneMore, MaxStreak, Schedule
<1> QED BY <1>1, <1>2 DEF MaxStreak

\* How the four events the histories count are told from all other steps.
LEMMA Events ==
  ASSUME IInv
  PROVE  /\ DialFailed => sup \in {"connect", "signin", "use"} /\ sup' = "backoff"
                          /\ backoff' = backoff
         /\ Install => sup = "install" /\ sup' = "signal"
                       /\ failures' = 0 /\ backoff' = 1
         /\ HeartbeatFailed =>
              /\ sup \in {"ping", "upsert"}
              /\ failures \in 0..2 /\ failures' = failures + 1
              /\ sup' = IF failures = 2 THEN "teardown" ELSE "select"
              /\ backoff' = backoff
         /\ GoodBeat => /\ sup \in {"ping", "upsert"} /\ sup' = "select"
                        /\ failures' = 0 /\ backoff' = backoff
<1>1. DialFailed => /\ sup \in {"connect", "signin", "use"} /\ sup' = "backoff"
                    /\ backoff' = backoff
  BY DEF DialFailed, ConnectFailed, SignInFailed, UseFailed, Discard, Goto
<1>2. Install => /\ sup = "install" /\ sup' = "signal"
                 /\ failures' = 0 /\ backoff' = 1
  BY DEF Install, Goto
<1>3. HeartbeatFailed =>
        /\ sup \in {"ping", "upsert"}
        /\ failures \in 0..2 /\ failures' = failures + 1
        /\ sup' = IF failures = 2 THEN "teardown" ELSE "select"
        /\ backoff' = backoff
  BY DEF HeartbeatFailed, Miss, Goto, IInv, TypeOK, FailuresStage, Supervised
<1>4. GoodBeat => /\ sup \in {"ping", "upsert"} /\ sup' = "select"
                  /\ failures' = 0 /\ backoff' = backoff
  BY DEF GoodBeat, Ping, Upsert, Beat, Goto
<1> QED BY <1>1, <1>2, <1>3, <1>4

Uncounted == ~DialFailed /\ ~Install /\ ~HeartbeatFailed /\ ~GoodBeat

\* What is neither counted nor the end of a wait leaves the counters alone.
Quiet ==
  /\ Uncounted
  /\ cancelled => cancelled'
  /\ backoff' = backoff
  /\ sup' \in Beating => sup \in Beating /\ failures' = failures
  /\ sup' = "teardown" => sup = "teardown" \/ cancelled'
  /\ sup' = "backoff" => sup = "backoff"
  /\ sup' \notin {"backoff", "done"} => sup \notin {"backoff", "done"}

LEMMA Steps ==
  ASSUME IInv, [Next]_vars
  PROVE  \/ DialFailed \/ Install \/ HeartbeatFailed \/ GoodBeat
         \/ BackoffElapsed /\ Uncounted
         \/ Quiet
<1> USE DEF Beating, Uncounted, Goto, supVars, sharedVars, readyVars, endVars,
            netVars, envVars, getVars
<1>1. CASE Supervisor
  <2>1. CASE DialFailed \/ Install \/ HeartbeatFailed \/ GoodBeat
    BY <2>1
  <2>2. CASE BackoffElapsed
    <3>1. sup = "backoff" /\ sup' = "top"
      BY <2>2 DEF BackoffElapsed
    <3> QED BY <2>2, <3>1, Events
  <2>3. CASE (Ping \/ Upsert) /\ ~GoodBeat
    <3>1. /\ sup = "ping" /\ sup' = "upsert" /\ failures' = failures
          /\ backoff' = backoff /\ cancelled' = cancelled
      BY <2>3 DEF Ping, Upsert, Beat, GoodBeat
    <3> QED BY <3>1, Events DEF Quiet
  <2>4. CASE Top
    <3>1. /\ sup = "top" /\ sup' \in {"done", "connect"}
          /\ backoff' = backoff /\ cancelled' = cancelled
      BY <2>4 DEF Top, NextRound
    <3> QED BY <3>1, Events DEF Quiet
  <2>5. CASE Connect \/ SignIn \/ Use
    <3>1. /\ sup \in {"connect", "signin", "use"}
          /\ sup' \in {"signin", "use", "install"}
          /\ backoff' = backoff /\ cancelled' = cancelled
      BY <2>5 DEF Connect, SignIn, Use
    <3> QED BY <3>1, Events DEF Quiet
  <2>6. CASE BackoffCancelled
    <3>1. /\ sup = "backoff" /\ sup' = "done"
          /\ backoff' = backoff /\ cancelled' = cancelled
      BY <2>6 DEF BackoffCancelled
    <3> QED BY <3>1, Events DEF Quiet
  <2>7. CASE SignalReady \/ Tick \/ Refresh \/ RefreshFailed
    <3>1. /\ sup \in {"signal", "select", "refresh"}
          /\ sup' \in {"select", "refresh", "ping"} /\ failures' = failures
          /\ backoff' = backoff /\ cancelled' = cancelled
      BY <2>7 DEF SignalReady, Tick, Refresh, RefreshFailed
    <3> QED BY <3>1, Events DEF Quiet
  <2>8. CASE SuperviseCancelled
    <3>1. /\ sup = "select" /\ sup' = "teardown"
          /\ backoff' = backoff /\ cancelled /\ cancelled' = cancelled
      BY <2>8 DEF SuperviseCancelled
    <3> QED BY <3>1, Events DEF Quiet
  <2>9. CASE Teardown \/ CloseOld
    <3>1. /\ sup \in {"teardown", "close"} /\ sup' \in {"close", "top"}
          /\ backoff' = backoff /\ cancelled' = cancelled
      BY <2>9 DEF Teardown, CloseOld
    <3> QED BY <3>1, Events DEF Quiet
  <2> QED
    BY <1>1, <2>1, <2>2, <2>3, <2>4, <2>5, <2>6, <2>7, <2>8, <2>9
       DEF Supervisor, DialFailed
<1>2. CASE Callers \/ Environment \/ UNCHANGED vars
  <2>1. UNCHANGED supVars /\ (cancelled => cancelled')
    BY <1>2 DEF Callers, ParentCancel, StopCall, StopReturn, GetCall, GetConn,
                GetFail, GetAbandon, Release, Environment, ServerChange, Break,
                Age, vars
  <2> QED BY <2>1, Events DEF Quiet
<1> QED BY <1>1, <1>2 DEF Next

-----------------------------------------------------------------------------

LEMMA HistoryStep ==
  ASSUME IInv, HInv, HNext
  PROVE  HInv'
<1> USE DEF HInv, MissesCounted, BackoffCounted
<1>1. /\ misses' = IF HeartbeatFailed THEN OneMore(misses, MaxMisses)
                   ELSE IF Install \/ GoodBeat THEN 0 ELSE misses
      /\ streak' = IF DialFailed THEN OneMore(streak, MaxStreak)
                   ELSE IF Install THEN 0 ELSE streak
  BY DEF HNext, GoodBeat
<1>2. CASE DialFailed
  <2>1. ~HeartbeatFailed /\ ~Install /\ ~GoodBeat
    BY <1>2, Events
  <2>2. /\ misses' = misses /\ streak' = OneMore(streak, MaxStreak)
        /\ sup' = "backoff" /\ backoff' = Schedule[streak + 1]
    BY <1>1, <1>2, <2>1, Events
  <2>3. streak' \in 1..MaxStreak /\ backoff' = Schedule[streak']
    BY <2>2, ScheduleSettles
  <2> QED BY <2>2, <2>3 DEF Beating, MaxStreak
<1>3. CASE Install
  <2>1. ~HeartbeatFailed /\ ~DialFailed
    BY <1>3, Events
  <2>2. /\ misses' = 0 /\ streak' = 0 /\ failures' = 0
        /\ sup' = "signal" /\ backoff' = 1
    BY <1>1, <1>3, <2>1, Events
  <2> QED BY <2>2 DEF Schedule, MaxMisses, MaxStreak
<1>4. CASE HeartbeatFailed
  <2>1. ~DialFailed /\ ~Install
    BY <1>4, Events
  <2>2. /\ misses' = OneMore(misses, MaxMisses) /\ misses = failures
        /\ streak' = streak /\ backoff' = Schedule[streak + 1]
        /\ failures \in 0..2 /\ failures' = failures + 1
        /\ sup' = IF failures = 2 THEN "teardown" ELSE "select"
    BY <1>1, <1>4, <2>1, Events DEF Beating
  <2>3. misses' = failures + 1
    BY <2>2 DEF OneMore, MaxMisses
  <2> QED BY <2>2, <2>3 DEF MaxMisses, Beating
<1>5. CASE GoodBeat
  <2>1. ~DialFailed /\ ~Install /\ ~HeartbeatFailed
    BY <1>5, Events
  <2>2. /\ misses' = 0 /\ streak' = streak /\ failures' = 0
        /\ sup' = "select" /\ backoff' = Schedule[streak + 1]
    BY <1>1, <1>5, <2>1, Events
  <2> QED BY <2>2 DEF MaxMisses
<1>6. CASE BackoffElapsed /\ Uncounted
  <2>1. misses' = misses /\ streak' = streak
    BY <1>1, <1>6 DEF Uncounted
  <2>2. /\ sup' = "top" /\ streak \in 1..MaxStreak
        /\ backoff' = NextBackoff(Schedule[streak])
    BY <1>6 DEF BackoffElapsed, Goto
  <2>3. backoff' = Schedule[streak + 1]
    BY <2>2, ScheduleDoubles
  <2> QED BY <2>1, <2>2, <2>3 DEF Beating
<1>7. CASE Quiet
  <2>1. misses' = misses /\ streak' = streak
    BY <1>1, <1>7 DEF Quiet, Uncounted
  <2> QED BY <1>7, <2>1 DEF Quiet, Beating
<1> QED
  BY <1>2, <1>3, <1>4, <1>5, <1>6, <1>7, Steps DEF HNext

\* The counters of run and supervise agree with what has happened.
THEOREM HistoryInvariance == HSpec => [](IInv /\ HInv)
<1>1. HInit => IInv /\ HInv
  <2>1. HInit => IInv
    BY InitIInv DEF HInit
  <2>2. HInit => HInv
    BY DEF HInit, Init, HInv, MissesCounted, BackoffCounted, Schedule,
           MaxMisses, MaxStreak, Beating
  <2> QED BY <2>1, <2>2
<1>2. IInv /\ HInv /\ [HNext]_<<vars, histVars>> => (IInv /\ HInv)'
  <2> SUFFICES ASSUME IInv, HInv, [HNext]_<<vars, histVars>>
               PROVE  IInv' /\ HInv'
    OBVIOUS
  <2>1. [Next]_vars
    BY DEF HNext
  <2>2. IInv'
    BY <2>1, NextType, NextStages DEF IInv
  <2>3. CASE HNext
    BY <2>2, <2>3, HistoryStep
  <2>4. CASE UNCHANGED <<vars, histVars>>
    <3>1. UNCHANGED <<sup, failures, backoff, cancelled, misses, streak>>
      BY <2>4 DEF vars, supVars, endVars, histVars
    <3>2. HInv'
      BY <3>1 DEF HInv, MissesCounted, BackoffCounted
    <3> QED BY <2>2, <3>2
  <2> QED BY <2>2, <2>3, <2>4
<1> QED BY <1>1, <1>2, PTL DEF HSpec

(***************************************************************************)
(* supervise gives a connection up after exactly three heartbeats missed   *)
(* in a row on it, or because the Manager is cancelled.                    *)
(***************************************************************************)
THEOREM ThreeMisses == HSpec => []GivenUpAfterThreeMisses
<1>1. IInv /\ HInv => GivenUpAfterThreeMisses
  BY DEF IInv, TypeOK, FailuresStage, Supervised, HInv, MissesCounted, Beating,
         GivenUpAfterThreeMisses
<1> QED BY <1>1, HistoryInvariance, PTL

\* The wait after the n-th failed dial in a row is the n-th of the schedule.
THEOREM WaitsFollowSchedule == HSpec => []BackoffFollowsSchedule
<1>1. IInv /\ HInv => BackoffFollowsSchedule
  <2> SUFFICES ASSUME HInv, sup = "backoff"
               PROVE  backoff = <<1, 2, 4, 8, 16, 30, 30>>[streak]
    BY DEF BackoffFollowsSchedule
  <2>1. streak \in 1..7 /\ backoff = Schedule[streak]
    BY DEF HInv, BackoffCounted, MaxStreak
  <2>2. \/ streak = 1 \/ streak = 2 \/ streak = 3 \/ streak = 4
        \/ streak = 5 \/ streak = 6 \/ streak = 7
    BY <2>1
  <2> QED BY <2>1, <2>2 DEF Schedule
<1> QED BY <1>1, HistoryInvariance, PTL
=============================================================================
