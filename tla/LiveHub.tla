------------------------------- MODULE LiveHub -------------------------------
(***************************************************************************)
(* The live-query hub of live.go.  Every SSE request runs serveSSE in a    *)
(* goroutine of its own: subscribe, then the event loop, then the deferred *)
(* unsubscribe.  Requests for the same live query share one LIVE SELECT,   *)
(* counted in refs and registered in h.subs under h.mu, which subscribe    *)
(* holds through its remote calls.  A second goroutine per request, the    *)
(* fan-out, moves notifications from the subscription's channel into the   *)
(* request's own.  The Manager is the service of ConnectionService.        *)
(*                                                                         *)
(* A stream is one LIVE SELECT: its id, its state on the server and the    *)
(* notification channel the driver keeps for it.  The state "doomed" is    *)
(* that of a stream whose connection the Manager has withdrawn and not yet *)
(* closed.  SSE keep-alives, the encoding of notifications and the log are *)
(* left out, and so are requests for unknown names, which change nothing.  *)
(***************************************************************************)
EXTENDS Naturals, Sequences, FiniteSets, Functions

CONSTANTS
  Conns, NoConn,       \* connection handles, and the nil handle
  Clients, NoClient,   \* SSE requests, and no request
  Names,               \* the declared live queries
  Streams, NoStream,   \* live query ids, and no id
  OutCapacity,         \* capacity of a request's channel (16)
  MaxNotes             \* bound on the notifications of a run

ASSUME HubAssumption ==
  /\ NoConn \notin Conns
  /\ NoClient \notin Clients
  /\ NoStream \notin Streams
  /\ IsFiniteSet(Clients)
  /\ OutCapacity \in Nat \ {0}
  /\ MaxNotes \in Nat

VARIABLES
  \* the Manager, as ConnectionService has it
  conn, ready, cancelled, stop, waiting, held,
  \* h.mu, h.subs and the refs of the subscriptions in it
  holder, subs, refs,
  \* the requests: the query each asks for, its control point, whether its
  \* context is done, and the subscription in the frame that runs
  query, pc, gone, mine,
  \* the fan-out goroutines that run, and the channel each fills
  fanning, out,
  \* the other end: LIVE SELECTs, the driver's notification channels that are
  \* closed, and what waits in those that are open
  stream, chClosed, feed,
  \* the number of notifications so far, and those each request has written
  \* to its client
  notes, shown

serviceVars == <<conn, ready, cancelled, stop, waiting, held>>
hubVars     == <<holder, subs, refs>>
clientVars  == <<query, pc, gone, mine>>
fanVars     == <<fanning, out>>
streamVars  == <<stream, chClosed>>
noteVars    == <<feed, notes, shown>>
vars == <<serviceVars, hubVars, clientVars, fanVars, streamVars, noteVars>>

Service == INSTANCE ConnectionService

Points == {"idle", "lock", "get", "live", "notif", "streaming", "leaving",
           "killget", "kill", "ended"}

HubType ==
  /\ holder \in Clients \cup {NoClient}
  /\ subs \in [Names -> Streams \cup {NoStream}]
  /\ refs \in [Streams -> Nat]
  /\ query \in [Clients -> Names]
  /\ pc \in [Clients -> Points]
  /\ mine \in [Clients -> Streams \cup {NoStream}]
  /\ stream \in [Streams -> {"unused", "live", "doomed", "dead"}]

NoteType ==
  /\ gone \in SUBSET Clients
  /\ fanning \in SUBSET Clients
  /\ out \in [Clients -> Seq(1..MaxNotes)]
  /\ \A g \in Clients : Len(out[g]) <= OutCapacity
  /\ chClosed \in SUBSET Streams
  /\ feed \in [Streams -> Seq(1..MaxNotes)]
  /\ notes \in 0..MaxNotes
  /\ shown \in [Clients -> SUBSET (1..MaxNotes)]

TypeOK == Service!TypeOK /\ HubType /\ NoteType

Init ==
  /\ Service!Init
  /\ holder = NoClient
  /\ subs = [n \in Names |-> NoStream]
  /\ refs = [s \in Streams |-> 0]
  /\ query \in [Clients -> Names]
  /\ pc = [g \in Clients |-> "idle"]
  /\ gone = {}
  /\ mine = [g \in Clients |-> NoStream]
  /\ fanning = {}
  /\ out = [g \in Clients |-> <<>>]
  /\ stream = [s \in Streams |-> "unused"]
  /\ chClosed = {}
  /\ feed = [s \in Streams |-> <<>>]
  /\ notes = 0
  /\ shown = [g \in Clients |-> {}]

-----------------------------------------------------------------------------

At(g, p) == pc[g] = p
Goto(g, p) == pc' = [pc EXCEPT ![g] = p]

Running(s) == stream[s] \in {"live", "doomed"}

\* Whether a call over the handle of g reaches the published connection.
Current(g) == held[g] = conn

\* serveSSE counts as attached from refs++ to refs--.
Attached(g) == pc[g] \in {"streaming", "leaving"}

Unlock == holder' = NoClient

-----------------------------------------------------------------------------
(* subscribe.                                                              *)

Request(g) ==
  /\ At(g, "idle")
  /\ Goto(g, "lock")
  /\ UNCHANGED <<serviceVars, hubVars, query, gone, mine, fanVars, streamVars,
                 noteVars>>

\* refs++ and the fan-out goroutine; subscribe returns and unlocks.
Join(g, s) ==
  /\ refs' = [refs EXCEPT ![s] = @ + 1]
  /\ mine' = [mine EXCEPT ![g] = s]
  /\ fanning' = fanning \cup {g}
  /\ Goto(g, "streaming")

\* "reusing existing live query": the whole of subscribe in one section.
Reuse(g) ==
  /\ At(g, "lock")
  /\ holder = NoClient
  /\ subs[query[g]] # NoStream
  /\ Join(g, subs[query[g]])
  /\ UNCHANGED <<serviceVars, holder, subs, query, gone, out, streamVars,
                 noteVars>>

StartFirst(g) ==
  /\ At(g, "lock")
  /\ holder = NoClient
  /\ subs[query[g]] = NoStream
  /\ holder' = g
  /\ Service!GetCall(g)
  /\ Goto(g, "get")
  /\ UNCHANGED <<subs, refs, query, gone, mine, fanVars, streamVars, noteVars>>

SubscribeGet(g) ==
  /\ At(g, "get")
  /\ Service!GetConn(g)
  /\ Goto(g, "live")
  /\ UNCHANGED <<hubVars, query, gone, mine, fanVars, streamVars, noteVars>>

\* Faulty variant: an error return that leaves h.mu locked.
FailLocked(g) == UNCHANGED holder /\ Goto(g, "ended")

\* subscribe returns an error: no subscription, and no unsubscribe later.
Fail(g) == Unlock /\ Goto(g, "ended")

SubscribeGetFailed(g) ==
  /\ At(g, "get")
  /\ Service!GetFail(g) \/ (g \in gone /\ Service!GetAbandon(g))
  /\ Fail(g)
  /\ UNCHANGED <<subs, refs, query, gone, mine, fanVars, streamVars, noteVars>>

\* The server starts stream s for g; over a withdrawn handle it is doomed.
ServerStarts(g, s) ==
  /\ stream[s] = "unused"
  /\ stream' = [stream EXCEPT ![s] = IF Current(g) THEN "live" ELSE "doomed"]

StartLive(g) ==
  /\ At(g, "live")
  /\ \E s \in Streams :
       /\ ServerStarts(g, s)
       /\ mine' = [mine EXCEPT ![g] = s]
  /\ Goto(g, "notif")
  /\ UNCHANGED <<serviceVars, hubVars, query, gone, fanVars, chClosed,
                 noteVars>>

\* Live returns an error, though the server may have started the query.
StartLiveFailed(g) ==
  /\ At(g, "live")
  /\ \/ UNCHANGED stream
     \/ \E s \in Streams : ServerStarts(g, s)
  /\ Service!Release(g)
  /\ Fail(g)
  /\ UNCHANGED <<subs, refs, query, gone, mine, fanVars, chClosed, noteVars>>

\* Faulty variant: the subscription is created and not registered.
RegisterForgotten(n, s) == UNCHANGED subs

Register(n, s) == subs' = [subs EXCEPT ![n] = s]

OpenNotifications(g) ==
  /\ At(g, "notif")
  /\ Register(query[g], mine[g])
  /\ Join(g, mine[g])
  /\ Unlock
  /\ Service!Release(g)
  /\ UNCHANGED <<query, gone, out, streamVars, noteVars>>

\* What Kill leaves of stream s: dead, with its channel closed, or untouched
\* when the call fails.
Killed(s) ==
  \/ UNCHANGED streamVars
  \/ /\ Running(s)
     /\ stream' = [stream EXCEPT ![s] = "dead"]
     /\ chClosed' = chClosed \cup {s}

OpenNotificationsFailed(g) ==
  /\ At(g, "notif")
  /\ Killed(mine[g])
  /\ Service!Release(g)
  /\ Fail(g)
  /\ UNCHANGED <<subs, refs, query, gone, mine, fanVars, noteVars>>

-----------------------------------------------------------------------------
(* The event loop of serveSSE, and the fan-out goroutine.                  *)

\* The client disconnects.  The handler's return cancels its context as well,
\* for the fan-out goroutine that is left.
Disconnect(g) ==
  /\ g \notin gone
  /\ ~At(g, "idle")
  /\ At(g, "ended") => g \in fanning
  /\ gone' = gone \cup {g}
  /\ UNCHANGED <<serviceVars, hubVars, query, pc, mine, fanVars, streamVars,
                 noteVars>>

\* Faulty variant: the goroutine keeps no order and fills a stack.
PushedFirst(s, i) == <<i>> \o s

Pushed(s, i) == Append(s, i)

HasRoom(s) == Len(s) < OutCapacity

\* A notification is taken off the shared channel; a full `out' drops it.
Take(g) ==
  /\ g \in fanning
  /\ feed[mine[g]] # <<>>
  /\ feed' = [feed EXCEPT ![mine[g]] = Tail(@)]
  /\ out' = IF HasRoom(out[g])
              THEN [out EXCEPT ![g] = Pushed(@, Head(feed[mine[g]]))]
              ELSE out
  /\ UNCHANGED <<serviceVars, hubVars, clientVars, fanning, streamVars, notes,
                 shown>>

\* The shared channel is closed and empty, or the context is done.
FanExit(g) ==
  /\ g \in fanning
  /\ g \in gone \/ (mine[g] \in chClosed /\ feed[mine[g]] = <<>>)
  /\ fanning' = fanning \ {g}
  /\ UNCHANGED <<serviceVars, hubVars, clientVars, out, streamVars, noteVars>>

Show(g) ==
  /\ At(g, "streaming")
  /\ out[g] # <<>>
  /\ shown' = [shown EXCEPT ![g] = @ \cup {Head(out[g])}]
  /\ out' = [out EXCEPT ![g] = Tail(@)]
  /\ UNCHANGED <<serviceVars, hubVars, clientVars, fanning, streamVars, feed,
                 notes>>

\* The context is done, or the fan-out has closed `out' and it is empty.
Leave(g) ==
  /\ At(g, "streaming")
  /\ g \in gone \/ (g \notin fanning /\ out[g] = <<>>)
  /\ Goto(g, "leaving")
  /\ UNCHANGED <<serviceVars, hubVars, query, gone, mine, fanVars, streamVars,
                 noteVars>>

\* A write to the client fails before its context is done.
WriteFailed(g) ==
  /\ At(g, "streaming")
  /\ Goto(g, "leaving")
  /\ UNCHANGED <<serviceVars, hubVars, query, gone, mine, fanVars, streamVars,
                 noteVars>>

-----------------------------------------------------------------------------
(* unsubscribe.  Its return for a name that is not registered is left out: *)
(* AttachedRegistered says that it cannot be taken.                        *)

\* Faulty variant: the subscription goes while one more request uses it.
LastOffByOne(r) == r <= 1

Last(r) == r = 0

Unreferenced(s) == refs' = [refs EXCEPT ![s] = @ - 1]

\* Faulty variant: the dead entry stays, and is found by the next subscribe.
ForgetNothing(n) == UNCHANGED subs

Forget(n) == subs' = [subs EXCEPT ![n] = NoStream]

LeaveOthers(g) ==
  LET s == subs[query[g]] IN
  /\ At(g, "leaving")
  /\ holder = NoClient
  /\ s # NoStream
  /\ ~Last(refs[s] - 1)
  /\ Unreferenced(s)
  /\ Goto(g, "ended")
  /\ UNCHANGED <<serviceVars, holder, subs, query, gone, mine, fanVars,
                 streamVars, noteVars>>

\* Under the lock the subscription is deleted; the Kill follows without it.
LeaveLast(g) ==
  LET s == subs[query[g]] IN
  /\ At(g, "leaving")
  /\ holder = NoClient
  /\ s # NoStream
  /\ Last(refs[s] - 1)
  /\ Unreferenced(s)
  /\ Forget(query[g])
  /\ mine' = [mine EXCEPT ![g] = s]
  /\ Service!GetCall(g)
  /\ Goto(g, "killget")
  /\ UNCHANGED <<holder, query, gone, fanVars, streamVars, noteVars>>

KillGet(g) ==
  /\ At(g, "killget")
  /\ Service!GetConn(g)
  /\ Goto(g, "kill")
  /\ UNCHANGED <<hubVars, query, gone, mine, fanVars, streamVars, noteVars>>

KillGetFailed(g) ==
  /\ At(g, "killget")
  /\ Service!GetFail(g)
  /\ Goto(g, "ended")
  /\ UNCHANGED <<hubVars, query, gone, mine, fanVars, streamVars, noteVars>>

Kill(g) ==
  /\ At(g, "kill")
  /\ Killed(mine[g])
  /\ Service!Release(g)
  /\ Goto(g, "ended")
  /\ UNCHANGED <<hubVars, query, gone, mine, fanVars, noteVars>>

-----------------------------------------------------------------------------
(* The other end.                                                          *)

\* A stream ends without a Kill: its socket dies or its connection is closed.
\* The driver may or may not close the notification channel then.
StreamLost(s) ==
  /\ Running(s)
  /\ stream' = [stream EXCEPT ![s] = "dead"]
  /\ chClosed' \in {chClosed, chClosed \cup {s}}
  /\ UNCHANGED <<serviceVars, hubVars, clientVars, fanVars, noteVars>>

\* A record changes: one more notification.
Notify(s) ==
  /\ Running(s) /\ s \notin chClosed
  /\ notes < MaxNotes
  /\ notes' = notes + 1
  /\ feed' = [feed EXCEPT ![s] = Append(@, notes')]
  /\ UNCHANGED <<serviceVars, hubVars, clientVars, fanVars, streamVars, shown>>

Doomed == [s \in Streams |-> IF stream[s] = "live" THEN "doomed" ELSE stream[s]]

ManagerStep ==
  /\ \/ (Service!Publish \/ Service!Announce \/ Service!Cancel
          \/ Service!StopCall \/ Service!StopReturn) /\ UNCHANGED stream
     \/ Service!Withdraw /\ stream' = Doomed
  /\ UNCHANGED <<hubVars, clientVars, fanVars, chClosed, noteVars>>

-----------------------------------------------------------------------------

Subscribe(g) ==
  \/ Reuse(g) \/ StartFirst(g) \/ SubscribeGet(g) \/ SubscribeGetFailed(g)
  \/ StartLive(g) \/ StartLiveFailed(g)
  \/ OpenNotifications(g) \/ OpenNotificationsFailed(g)

Unsubscribe(g) ==
  \/ LeaveOthers(g) \/ LeaveLast(g)
  \/ KillGet(g) \/ KillGetFailed(g) \/ Kill(g)

Stream(g) == Take(g) \/ FanExit(g) \/ Show(g) \/ Leave(g)

Next ==
  \/ \E g \in Clients :
       \/ Request(g) \/ Subscribe(g) \/ Stream(g) \/ Unsubscribe(g)
       \/ Disconnect(g) \/ WriteFailed(g)
  \/ \E s \in Streams : StreamLost(s) \/ Notify(s)
  \/ ManagerStep

(***************************************************************************)
(* Every goroutine is scheduled, its calls return and its Get is answered  *)
(* when it can be; h.mu is a sync.Mutex, whose starvation mode lets a      *)
(* waiting goroutine in after finitely many others.                        *)
(***************************************************************************)
Fairness ==
  \A g \in Clients :
    /\ SF_vars(Subscribe(g))
    /\ SF_vars(Unsubscribe(g))
    /\ WF_vars(Take(g) \/ FanExit(g))
    /\ WF_vars(Show(g) \/ Leave(g))

Spec == Init /\ [][Next]_vars /\ Fairness

-----------------------------------------------------------------------------
(* Safety.                                                                 *)

(***************************************************************************)
(* The lock is held by exactly the request that is inside subscribe's      *)
(* remote calls: no error return keeps it, no other request is in there.   *)
(***************************************************************************)
LockHeldInside ==
  \A g \in Clients : holder = g <=> pc[g] \in {"get", "live", "notif"}

(***************************************************************************)
(* A registered subscription counts exactly the requests attached to it,   *)
(* of which there is at least one.                                         *)
(***************************************************************************)
Users(s) == {g \in Clients : Attached(g) /\ mine[g] = s}

RefsExact ==
  \A n \in Names : subs[n] # NoStream =>
    /\ refs[subs[n]] = Cardinality(Users(subs[n]))
    /\ Users(subs[n]) # {}

(***************************************************************************)
(* An attached request uses the subscription that is registered under its  *)
(* query, so its unsubscribe, which looks the query up again, gives back   *)
(* the reference it took and no other.                                     *)
(***************************************************************************)
AttachedRegistered ==
  \A g \in Clients : Attached(g) =>
    mine[g] # NoStream /\ subs[query[g]] = mine[g]

\* The live query that an unsubscribe kills is used by nobody, although the
\* lock is not held any more.
KillsOnlyUnused ==
  \A g \in Clients : pc[g] \in {"killget", "kill"} => Users(mine[g]) = {}

(***************************************************************************)
(* A live query that runs over the published connection has an owner that  *)
(* will kill it: the registry, or a request that is starting or killing    *)
(* it.  It loses its owner only in a step in which a remote call fails.    *)
(***************************************************************************)
Owned(s) ==
  \/ \E n \in Names : subs[n] = s
  \/ \E g \in Clients : mine[g] = s /\ pc[g] \in {"notif", "killget", "kill"}

Orphans == {s \in Streams : stream[s] = "live" /\ ~Owned(s)}

OrphansOnlyByFailure ==
  [][Orphans' \subseteq Orphans \/
       \E g \in Clients : \/ StartLiveFailed(g) \/ OpenNotificationsFailed(g)
                          \/ KillGetFailed(g) \/ (Kill(g) /\ UNCHANGED stream)]_vars

(***************************************************************************)
(* The inductive invariant behind these: what is registered, what is being *)
(* started under the lock and what is being killed after it are different  *)
(* live queries, and only a registered one is counted.                     *)
(***************************************************************************)
Starting(g) == pc[g] \in {"get", "live", "notif"}
Killing(g)  == pc[g] \in {"killget", "kill"}

RegisteredApart ==
  \A n, m \in Names : subs[n] # NoStream =>
    /\ stream[subs[n]] # "unused"
    /\ subs[n] = subs[m] => n = m

UnregisteredApart ==
  \A g \in Clients : At(g, "notif") \/ Killing(g) =>
    /\ mine[g] \in Streams
    /\ stream[mine[g]] # "unused"
    /\ \A n \in Names : subs[n] # mine[g]

StartingApart ==
  \A g \in Clients :
    /\ Starting(g) => subs[query[g]] = NoStream
    /\ At(g, "notif") =>
         /\ refs[mine[g]] = 0
         /\ \A h \in Clients : Killing(h) => mine[h] # mine[g]

UnusedUncounted == \A s \in Streams : stream[s] = "unused" => refs[s] = 0

RegistryInv ==
  /\ HubType
  /\ LockHeldInside
  /\ AttachedRegistered
  /\ RefsExact
  /\ KillsOnlyUnused
  /\ RegisteredApart
  /\ UnregisteredApart
  /\ StartingApart
  /\ UnusedUncounted

\* A client never sees the notifications out of order, even behind a full
\* channel: what waits in `out' is younger than what was shown.
ShownInOrder ==
  \A g \in Clients :
    /\ \A i \in shown[g], j \in DOMAIN out[g] : i < out[g][j]
    /\ \A i, j \in DOMAIN out[g] : i < j => out[g][i] < out[g][j]

(***************************************************************************)
(* Why: the shared channel has its notifications in order, and what a      *)
(* request has of them is older than what it may still take.               *)
(***************************************************************************)
FeedInOrder ==
  \A s \in Streams :
    /\ \A j \in DOMAIN feed[s] : feed[s][j] <= notes
    /\ \A i, j \in DOMAIN feed[s] : i < j => feed[s][i] < feed[s][j]

\* The notifications a request has seen or has in its channel.
Had(g) == shown[g] \cup {out[g][j] : j \in DOMAIN out[g]}

Joined(g) == pc[g] \notin {"idle", "lock", "get", "live", "notif"}

NotesInOrder ==
  /\ FeedInOrder
  /\ ShownInOrder
  /\ \A g \in Clients :
       /\ \A i \in Had(g) : i <= notes
       /\ ~Joined(g) => Had(g) = {} /\ g \notin fanning
       /\ g \in fanning =>
            /\ mine[g] \in Streams
            /\ \A i \in Had(g), j \in DOMAIN feed[mine[g]] :
                 i < feed[mine[g]][j]

\* All of it: the types, the registry and the order of notifications.
IInv == TypeOK /\ RegistryInv /\ NotesInOrder

-----------------------------------------------------------------------------
(* Liveness.                                                               *)

ManagerAnswers == <>(ready \/ cancelled)

(***************************************************************************)
(* The handler of a client that has disconnected returns, wherever it is:  *)
(* in the queue for the lock that subscribe holds through remote calls, in *)
(* a call of its own, in the event loop or in unsubscribe.                 *)
(***************************************************************************)
HandlersReturn ==
  ManagerAnswers =>
    \A g \in Clients : g \in gone ~> At(g, "ended")

\* A request is soon streaming, or is told that it will not be.
SubscribersAnswered ==
  ManagerAnswers =>
    \A g \in Clients : At(g, "lock") ~> pc[g] \in {"streaming", "ended"}

-----------------------------------------------------------------------------
(* What the comments in live.go say, and the code does not do.             *)

(***************************************************************************)
(* "liveHub tracks running live queries by id so we can share a single     *)
(* SurrealDB live query" (live.go:44): what a new subscriber is given to   *)
(* share is a live query that is still running.                            *)
(***************************************************************************)
SharesRunningQuery ==
  [][\A g \in Clients : Reuse(g) => Running(subs[query[g]])]_vars
=============================================================================
