------------------------------- MODULE Manager -------------------------------
(***************************************************************************)
(* The connection supervisor of connection.go: one goroutine (run, with    *)
(* dial, supervise, maybeRefresh and heartbeat inlined) against the        *)
(* callers of Get, the caller of Stop, the cancellation of the parent      *)
(* context, the database server and the clock.                             *)
(*                                                                         *)
(* The control point `sup' names the code the supervisor is about to run.  *)
(* A critical section of m.mu is one step, and so is a remote call with    *)
(* the assignments up to the next call or lock.  `local' is the handle in  *)
(* the frame of the function that runs: dial's conn, the conn that         *)
(* maybeRefresh and heartbeat copy under the read lock, run's `old'.       *)
(*                                                                         *)
(* A JWT is the handle whose sign-in issued it, and its exp claim one of   *)
(* "zero" (none), "later" and "due" (no more than tokenRefresh is left,    *)
(* expired included).  The field `connected' is left out: nothing reads    *)
(* it, and it is assigned where conn is.  So is heartbeatSchema: what its  *)
(* statements answer is ignored, and they run before the first UPSERT.     *)
(***************************************************************************)
EXTENDS Naturals, FiniteSets

CONSTANTS
  Conns,           \* connection handles
  NoConn,          \* a nil *surrealdb.DB
  Clients,         \* goroutines that call Get
  Auth,            \* which case of signIn the configuration selects
  HeartbeatTable,  \* a heartbeat table is configured
  IssuedExps       \* the exp claims the server (or the configured JWT) has

Expiries == {"zero", "later", "due"}

(***************************************************************************)
(* "credentials" are the levels root, namespace, database and record with  *)
(* a bearer key (SignIn), "recordJwt" a record level with a JWT and        *)
(* "token" the level of that name (Authenticate), "missing" a record level *)
(* with neither (an error without a call).                                 *)
(***************************************************************************)
AuthKinds == {"credentials", "recordJwt", "token", "missing"}

ASSUME ManagerAssumption ==
  /\ NoConn \notin Conns
  /\ Auth \in AuthKinds
  /\ HeartbeatTable \in BOOLEAN
  /\ IssuedExps \subseteq Expiries /\ IssuedExps # {}

\* The JWT is configured, not issued: every sign-in returns the same one.
PreIssued == Auth \in {"recordJwt", "token"}

MaxFailures == 3    \* heartbeats missed in a row before the reconnect
MaxBackoff  == 30   \* seconds

VARIABLES
  \* the supervisor goroutine
  sup, backoff, local, failures,
  \* the fields under m.mu, and m.ready
  conn, token, tokenExp, readyOk, readyCloses,
  \* m.ctx and the caller of Stop
  cancelled, stop,
  \* the other end: sessions, dead sockets, the server, the configured JWT
  session, broken, server, jwtExp,
  \* the callers of Get
  waiting, held

supVars   == <<sup, backoff, local, failures>>
sharedVars == <<conn, token, tokenExp>>
readyVars == <<readyOk, readyCloses>>
endVars   == <<cancelled, stop>>
netVars   == <<session, broken>>
envVars   == <<server, jwtExp>>
getVars   == <<waiting, held>>
vars == <<supVars, sharedVars, readyVars, endVars, netVars, envVars, getVars>>

Points == {"top", "connect", "signin", "use", "backoff", "install", "signal",
           "select", "refresh", "ping", "upsert", "teardown", "close", "done"}

TypeOK ==
  /\ sup \in Points
  /\ backoff \in 1..MaxBackoff
  /\ local \in Conns \cup {NoConn}
  /\ failures \in 0..MaxFailures
  /\ conn \in Conns \cup {NoConn}
  /\ token \in Conns \cup {NoConn}
  /\ tokenExp \in Expiries
  /\ readyOk \in BOOLEAN
  /\ readyCloses \in {0, 1}
  /\ cancelled \in BOOLEAN
  /\ stop \in {"uncalled", "waiting", "returned"}
  /\ session \in [Conns -> {"closed", "connected", "authed", "scoped"}]
  /\ broken \in SUBSET Conns
  /\ server \in {"up", "rejecting", "down"}
  /\ jwtExp \in Expiries
  /\ waiting \in SUBSET Clients
  /\ held \in [Clients -> Conns \cup {NoConn}]

\* Start has run: the supervisor is at the head of its loop.
Init ==
  /\ sup = "top"
  /\ backoff = 1
  /\ local = NoConn
  /\ failures = 0
  /\ conn = NoConn
  /\ token = NoConn
  /\ tokenExp = "zero"
  /\ readyOk = FALSE
  /\ readyCloses = 0
  /\ cancelled = FALSE
  /\ stop = "uncalled"
  /\ session = [c \in Conns |-> "closed"]
  /\ broken = {}
  /\ server \in {"up", "rejecting", "down"}
  /\ jwtExp \in IF PreIssued THEN IssuedExps ELSE {"zero"}
  /\ waiting = {}
  /\ held = [g \in Clients |-> NoConn]

-----------------------------------------------------------------------------
(* Remote calls.  A call can answer only over a live socket to a running   *)
(* server, and fails over anything else, or when its context is cancelled. *)

Open(c) == c \in Conns /\ session[c] # "closed"

Answers(c) == Open(c) /\ c \notin broken /\ server # "down"

Fails(c) == ~Answers(c) \/ cancelled

Issued == IF PreIssued THEN {jwtExp} ELSE IssuedExps

SignsIn(c) == Answers(c) /\ server = "up" /\ Auth # "missing"

SignInFails(c) ==
  Fails(c) \/ ~SignsIn(c) \/ (PreIssued /\ jwtExp = "due")

\* A handle nobody has: the driver never returns the same one twice.
Fresh == {c \in Conns : ~Open(c) /\ \A g \in Clients : held[g] # c}

Close(c) ==
  /\ session' = [d \in Conns |-> IF d = c THEN "closed" ELSE session[d]]
  /\ broken' = broken \ {c}

-----------------------------------------------------------------------------
(* run: connect, back off, install.                                        *)

Goto(p) == sup' = p

\* Faulty variant: the loop forgets to look at its context.
NextRoundUnchecked == "connect"

NextRound == IF cancelled THEN "done" ELSE "connect"

Top ==
  /\ sup = "top"
  /\ Goto(NextRound)
  /\ UNCHANGED <<backoff, local, failures, sharedVars, readyVars, endVars,
                 netVars, envVars, getVars>>

Connect ==
  /\ sup = "connect"
  /\ server # "down"
  /\ \E c \in Fresh :
       /\ local' = c
       /\ session' = [session EXCEPT ![c] = "connected"]
  /\ Goto("signin")
  /\ UNCHANGED <<backoff, failures, sharedVars, readyVars, endVars, broken,
                 envVars, getVars>>

ConnectFailed ==
  /\ sup = "connect"
  /\ server = "down" \/ cancelled
  /\ Goto("backoff")
  /\ UNCHANGED <<backoff, local, failures, sharedVars, readyVars, endVars,
                 netVars, envVars, getVars>>

SignIn ==
  /\ sup = "signin"
  /\ SignsIn(local)
  /\ session' = [session EXCEPT ![local] = "authed"]
  /\ Goto("use")
  /\ UNCHANGED <<backoff, local, failures, sharedVars, readyVars, endVars,
                 broken, envVars, getVars>>

Use ==
  /\ sup = "use"
  /\ Answers(local)
  /\ session' = [session EXCEPT ![local] = "scoped"]
  /\ Goto("install")
  /\ UNCHANGED <<backoff, local, failures, sharedVars, readyVars, endVars,
                 broken, envVars, getVars>>

\* Faulty variant: the error path forgets conn.Close.
DiscardUnclosed ==
  /\ local' = NoConn
  /\ Goto("backoff")
  /\ UNCHANGED netVars

\* dial gives the half-open connection up before it returns the error.
Discard ==
  /\ Close(local)
  /\ local' = NoConn
  /\ Goto("backoff")

SignInFailed ==
  /\ sup = "signin"
  /\ SignInFails(local)
  /\ Discard
  /\ UNCHANGED <<backoff, failures, sharedVars, readyVars, endVars, envVars,
                 getVars>>

\* A server that rejects what the credentials are for may do so here.
UseFailed ==
  /\ sup = "use"
  /\ Fails(local) \/ server = "rejecting"
  /\ Discard
  /\ UNCHANGED <<backoff, failures, sharedVars, readyVars, endVars, envVars,
                 getVars>>

\* Faulty variant: no cap.
NextBackoffUncapped(b) == 2 * b

NextBackoff(b) == IF 2 * b > MaxBackoff THEN MaxBackoff ELSE 2 * b

BackoffElapsed ==
  /\ sup = "backoff"
  /\ backoff' = NextBackoff(backoff)
  /\ Goto("top")
  /\ UNCHANGED <<local, failures, sharedVars, readyVars, endVars, netVars,
                 envVars, getVars>>

BackoffCancelled ==
  /\ sup = "backoff"
  /\ cancelled
  /\ Goto("done")
  /\ UNCHANGED <<backoff, local, failures, sharedVars, readyVars, endVars,
                 netVars, envVars, getVars>>

\* The fields that readers of m.mu see together.
Publish(c) ==
  /\ conn' = c
  /\ token' = c
  /\ tokenExp' \in Issued

\* Faulty variant: the lost connection stays in place.
WithdrawTokenOnly ==
  /\ token' = NoConn
  /\ tokenExp' = "zero"
  /\ UNCHANGED conn

\* Faulty variant: the JWT of the lost connection stays in place.
WithdrawConnOnly ==
  /\ conn' = NoConn
  /\ UNCHANGED <<token, tokenExp>>

Withdraw ==
  /\ conn' = NoConn
  /\ token' = NoConn
  /\ tokenExp' = "zero"

Install ==
  /\ sup = "install"
  /\ Publish(local)
  /\ backoff' = 1
  /\ failures' = 0
  /\ local' = NoConn
  /\ Goto("signal")
  /\ UNCHANGED <<readyVars, endVars, netVars, envVars, getVars>>

\* Faulty variant: readyOk is set and the channel left open.
ClosingsForgotten == 0

\* How often signalReady closes the channel.
Closings == IF readyOk THEN 0 ELSE 1

SignalReady ==
  /\ sup = "signal"
  /\ readyOk' = TRUE
  /\ readyCloses' = readyCloses + Closings
  /\ Goto("select")
  /\ UNCHANGED <<backoff, local, failures, sharedVars, endVars, netVars,
                 envVars, getVars>>

-----------------------------------------------------------------------------
(* supervise, maybeRefresh, heartbeat.                                     *)

SuperviseCancelled ==
  /\ sup = "select"
  /\ cancelled
  /\ Goto("teardown")
  /\ UNCHANGED <<backoff, local, failures, sharedVars, readyVars, endVars,
                 netVars, envVars, getVars>>

\* Faulty variant: the comparison with the threshold is reversed.
RefreshDueReversed == Auth # "token" /\ conn # NoConn /\ tokenExp = "later"

RefreshDue == Auth # "token" /\ conn # NoConn /\ tokenExp = "due"

\* The handle is read under the lock here and used by the calls that follow.
Tick ==
  /\ sup = "select"
  /\ Goto(IF RefreshDue THEN "refresh" ELSE "ping")
  /\ local' = conn
  /\ UNCHANGED <<backoff, failures, sharedVars, readyVars, endVars, netVars,
                 envVars, getVars>>

\* After a refresh the loop continues: this tick has no heartbeat.
Refresh ==
  /\ sup = "refresh"
  /\ SignsIn(local)
  /\ token' = local
  /\ tokenExp' \in Issued
  /\ local' = NoConn
  /\ Goto("select")
  /\ UNCHANGED <<backoff, failures, conn, readyVars, endVars, netVars, envVars,
                 getVars>>

RefreshFailed ==
  /\ sup = "refresh"
  /\ SignInFails(local)
  /\ local' = conn
  /\ Goto("ping")
  /\ UNCHANGED <<backoff, failures, sharedVars, readyVars, endVars, netVars,
                 envVars, getVars>>

\* Faulty variant: a good heartbeat forgives nothing.
BeatWithoutReset ==
  /\ local' = NoConn
  /\ Goto("select")
  /\ UNCHANGED failures

Beat ==
  /\ failures' = 0
  /\ local' = NoConn
  /\ Goto("select")

\* Faulty variant: the third miss does not end supervise.
MissNeverFatal ==
  /\ failures' = (failures + 1) % MaxFailures
  /\ local' = NoConn
  /\ Goto("select")

Miss ==
  /\ failures' = failures + 1
  /\ local' = NoConn
  /\ Goto(IF failures + 1 >= MaxFailures THEN "teardown" ELSE "select")

Ping ==
  /\ sup = "ping"
  /\ Answers(local)
  /\ IF HeartbeatTable THEN Goto("upsert") /\ UNCHANGED <<failures, local>>
                       ELSE Beat
  /\ UNCHANGED <<backoff, sharedVars, readyVars, endVars, netVars, envVars,
                 getVars>>

Upsert ==
  /\ sup = "upsert"
  /\ Answers(local)
  /\ Beat
  /\ UNCHANGED <<backoff, sharedVars, readyVars, endVars, netVars, envVars,
                 getVars>>

\* The status row may also be refused over a good connection, by the table's
\* permissions, a schema of the user's or the end of the session.
HeartbeatFailed ==
  /\ sup = "upsert" \/ (sup = "ping" /\ Fails(local))
  /\ Miss
  /\ UNCHANGED <<backoff, sharedVars, readyVars, endVars, netVars, envVars,
                 getVars>>

Teardown ==
  /\ sup = "teardown"
  /\ local' = conn
  /\ Withdraw
  /\ Goto("close")
  /\ UNCHANGED <<backoff, failures, readyVars, endVars, netVars, envVars,
                 getVars>>

CloseOld ==
  /\ sup = "close"
  /\ Close(local)
  /\ local' = NoConn
  /\ Goto("top")
  /\ UNCHANGED <<backoff, failures, sharedVars, readyVars, endVars, envVars,
                 getVars>>

-----------------------------------------------------------------------------
(* Stop, and the parent context.                                           *)

ParentCancel ==
  /\ ~cancelled
  /\ cancelled' = TRUE
  /\ UNCHANGED <<supVars, sharedVars, readyVars, stop, netVars, envVars,
                 getVars>>

StopCall ==
  /\ stop = "uncalled"
  /\ stop' = "waiting"
  /\ cancelled' = TRUE
  /\ UNCHANGED <<supVars, sharedVars, readyVars, netVars, envVars, getVars>>

\* Faulty variant: Stop cancels and does not wait.
ExitNotAwaited == TRUE

SupervisorExited == sup = "done"

\* wg.Wait has returned.
StopReturn ==
  /\ stop = "waiting"
  /\ SupervisorExited
  /\ IF conn # NoConn THEN Close(conn) ELSE UNCHANGED netVars
  /\ conn' = NoConn
  /\ stop' = "returned"
  /\ UNCHANGED <<supVars, token, tokenExp, readyVars, cancelled, envVars,
                 getVars>>

-----------------------------------------------------------------------------
(* The callers of Get.  AwaitReady selects among the ready channel, the    *)
(* caller's context and the Manager's; any that is ready may be taken.     *)

Ready == readyCloses > 0

GetCall(g) ==
  /\ g \notin waiting
  /\ held[g] = NoConn
  /\ waiting' = waiting \cup {g}
  /\ UNCHANGED <<supVars, sharedVars, readyVars, endVars, netVars, envVars,
                 held>>

GetConn(g) ==
  /\ g \in waiting
  /\ Ready
  /\ conn # NoConn
  /\ held' = [held EXCEPT ![g] = conn]
  /\ waiting' = waiting \ {g}
  /\ UNCHANGED <<supVars, sharedVars, readyVars, endVars, netVars, envVars>>

GetFail(g) ==
  /\ g \in waiting
  /\ cancelled \/ (Ready /\ conn = NoConn)
  /\ waiting' = waiting \ {g}
  /\ UNCHANGED <<supVars, sharedVars, readyVars, endVars, netVars, envVars,
                 held>>

\* The caller's own context ends first.
GetAbandon(g) ==
  /\ g \in waiting
  /\ waiting' = waiting \ {g}
  /\ UNCHANGED <<supVars, sharedVars, readyVars, endVars, netVars, envVars,
                 held>>

\* The caller has finished with its handle; callers never close it.
Release(g) ==
  /\ held[g] # NoConn
  /\ held' = [held EXCEPT ![g] = NoConn]
  /\ UNCHANGED <<supVars, sharedVars, readyVars, endVars, netVars, envVars,
                 waiting>>

-----------------------------------------------------------------------------
(* The server, the network and the clock.                                  *)

ServerChange ==
  /\ server' \in {"up", "rejecting", "down"} \ {server}
  /\ UNCHANGED <<supVars, sharedVars, readyVars, endVars, netVars, jwtExp,
                 getVars>>

\* While the server is down a socket may die, and stays dead.
Break(c) ==
  /\ Open(c)
  /\ c \notin broken
  /\ server = "down"
  /\ broken' = broken \cup {c}
  /\ UNCHANGED <<supVars, sharedVars, readyVars, endVars, session, envVars,
                 getVars>>

Aged(exp) == IF exp = "later" THEN "due" ELSE exp

\* Time passes until what is left of a token is within the threshold.
Age ==
  /\ "later" \in {tokenExp, jwtExp}
  /\ tokenExp' = Aged(tokenExp)
  /\ jwtExp' = Aged(jwtExp)
  /\ UNCHANGED <<supVars, conn, token, readyVars, endVars, netVars, server,
                 getVars>>

-----------------------------------------------------------------------------

Supervisor ==
  \/ Top \/ Connect \/ ConnectFailed \/ SignIn \/ SignInFailed
  \/ Use \/ UseFailed \/ BackoffElapsed \/ BackoffCancelled
  \/ Install \/ SignalReady
  \/ SuperviseCancelled \/ Tick \/ Refresh \/ RefreshFailed
  \/ Ping \/ Upsert \/ HeartbeatFailed
  \/ Teardown \/ CloseOld

Callers ==
  \/ ParentCancel \/ StopCall \/ StopReturn
  \/ \E g \in Clients :
       GetCall(g) \/ GetConn(g) \/ GetFail(g) \/ GetAbandon(g) \/ Release(g)

Environment ==
  \/ ServerChange
  \/ \E c \in Conns : Break(c)
  \/ Age

Next == Supervisor \/ Callers \/ Environment

(***************************************************************************)
(* The scheduler runs the supervisor and the callers, every remote call    *)
(* returns and the ticker fires.  In supervise's select a cancelled        *)
(* context competes with the ticker only when a tick is pending, and then  *)
(* select chooses at random: it is taken after finitely many ticks.        *)
(* Nobody is obliged to call Get or Stop, and the server owes nothing.     *)
(***************************************************************************)
Fairness ==
  /\ WF_vars(Supervisor)
  /\ SF_vars(SuperviseCancelled)
  /\ WF_vars(StopReturn)
  /\ \A g \in Clients : WF_vars(GetConn(g) \/ GetFail(g))

Spec == Init /\ [][Next]_vars /\ Fairness

-----------------------------------------------------------------------------
(* Safety.                                                                 *)

(***************************************************************************)
(* No connection is leaked.  Every error path of dial and the teardown of  *)
(* run close what they opened: an open session is the one the supervisor   *)
(* is working on or the one that Get hands out, and a supervisor that has  *)
(* returned (at any of its three exits) leaves none open.                  *)
(***************************************************************************)
NoLeak ==
  \A c \in Conns : Open(c) => c \in {local, conn} /\ sup # "done"

(***************************************************************************)
(* A caller of Get never sees a half-made session: the handle it gets, and *)
(* the one it goes on using while the supervisor reconnects, has been      *)
(* signed in and has its namespace and database, unless it is closed by    *)
(* now.  The published one is not closed.                                  *)
(***************************************************************************)
OnlyScopedHandles ==
  /\ conn # NoConn => session[conn] = "scoped"
  /\ \A g \in Clients :
       held[g] # NoConn => session[held[g]] \in {"scoped", "closed"}

(***************************************************************************)
(* maybeRefresh and heartbeat copy m.conn under the read lock and use the  *)
(* copy after it: what they talk to is still the published connection, so  *)
(* a miss is never counted against, and a new token never stored over,     *)
(* another connection than the one it was got from.                        *)
(***************************************************************************)
CopyIsCurrent ==
  sup \in {"refresh", "ping", "upsert"} => local = conn /\ Open(local)

(***************************************************************************)
(* Token() and the refresh decision agree with the connection: the stored  *)
(* JWT was issued on the published connection, its expiry is the one that  *)
(* the configured JWT has when there is one, and neither outlives it.      *)
(***************************************************************************)
TokenFollowsConn ==
  /\ token = conn
  /\ conn = NoConn => tokenExp = "zero"
  /\ PreIssued /\ conn # NoConn => tokenExp = jwtExp

\* However often it reconnects, the supervisor closes the ready channel once:
\* a second close would panic.
ReadyClosedOnce == readyCloses = IF readyOk THEN 1 ELSE 0

(***************************************************************************)
(* After Stop has returned, and for good, nothing is published and no      *)
(* session is open, wherever the supervisor was when Stop was called.      *)
(***************************************************************************)
StoppedClean ==
  stop = "returned" =>
    conn = NoConn /\ \A c \in Conns : session[c] = "closed"

-----------------------------------------------------------------------------
(* The inductive invariant: what each control point knows.                 *)

Dialling   == {"signin", "use", "install"}
Supervised == {"select", "refresh", "ping", "upsert"}
Connected  == Supervised \cup {"signal", "teardown"}

LocalStage ==
  /\ sup \in Dialling \cup {"close"} => local \in Conns
  /\ sup = "signin" => session[local] = "connected"
  /\ sup = "use" => session[local] = "authed"
  /\ sup \in {"install", "close"} => session[local] = "scoped"
  /\ sup \in {"refresh", "ping", "upsert"} => local = conn
  /\ sup \in {"top", "connect", "backoff", "signal", "select", "teardown",
              "done"} => local = NoConn

ConnStage ==
  /\ sup \in Connected => conn \in Conns /\ session[conn] = "scoped"
  /\ sup \notin Connected => conn = NoConn

OthersClosed == \A c \in Conns : Open(c) => c \in {local, conn}

HeldScoped ==
  \A g \in Clients :
    /\ held[g] # NoConn => session[held[g]] \in {"scoped", "closed"}
    /\ sup \in Dialling => held[g] # local

ReadyStage ==
  /\ readyCloses = IF readyOk THEN 1 ELSE 0
  /\ sup \in Supervised \cup {"teardown"} => readyOk

FailuresStage == sup \in Supervised \cup {"signal"} => failures < MaxFailures

StopStage ==
  /\ stop = "returned" => sup = "done"
  /\ stop # "uncalled" => cancelled

(***************************************************************************)
(* The conjunction the safety properties follow from: at each control      *)
(* point of run, dial and supervise, what the local handle and m.conn are, *)
(* that everything else is closed, and what that point knows of the ready  *)
(* channel, of the failure count and of Stop.                              *)
(***************************************************************************)
IInv ==
  /\ TypeOK
  /\ LocalStage
  /\ ConnStage
  /\ OthersClosed
  /\ HeldScoped
  /\ TokenFollowsConn
  /\ ReadyStage
  /\ FailuresStage
  /\ StopStage

-----------------------------------------------------------------------------
(* Liveness.                                                               *)

Live == conn # NoConn /\ Answers(conn)

UpsertRefused == HeartbeatFailed /\ sup = "upsert" /\ ~Fails(local)

(***************************************************************************)
(* Once the server stays up, a Manager with credentials that is not        *)
(* stopped gets a live connection again and again, from whatever           *)
(* half-broken state the outage has left: dead sockets, missed heartbeats, *)
(* failed refreshes.  And it keeps the connection, unless the server goes  *)
(* on refusing status rows, of which supervise counts three for a loss.    *)
(***************************************************************************)
Reconnects ==
  <>[](server = "up" /\ ~cancelled) =>
    []<>Live /\ (<>[]Live \/ []<><<UpsertRefused>>_vars)

\* Stop returns, wherever the supervisor is and whatever the server does.
StopReturns == stop = "waiting" ~> stop = "returned"

(***************************************************************************)
(* A call of Get is answered once the server stays up or the Manager is    *)
(* cancelled: a reconnect in progress blocks no caller.                    *)
(***************************************************************************)
GetAnswered ==
  <>[](server = "up") \/ <>cancelled =>
    \A g \in Clients : g \in waiting ~> g \notin waiting

\* While the server is up a token that is due is replaced, or its connection is.
DueTokenRenewed ==
  <>[](server = "up") => (tokenExp = "due" ~> tokenExp # "due")

-----------------------------------------------------------------------------
(* The Manager implements what the other components rely on.               *)

Service == INSTANCE ConnectionService WITH ready <- Ready

\* Every step of the supervisor, its callers and its environment is a step of
\* the service that ConnectionService describes, or no step of it.
ImplementsService == Service!Spec

-----------------------------------------------------------------------------
(* What the comments in connection.go say, and the code does not do.       *)

(***************************************************************************)
(* "the liveness Version() ping still fires every HeartbeatInterval"       *)
(* (connection.go:94): over a server that stays up, pings go on for as     *)
(* long as there is a connection.                                          *)
(***************************************************************************)
PingKeepsFiring ==
  <>[](server = "up") => []<>(sup = "ping" \/ conn = NoConn)
=============================================================================
