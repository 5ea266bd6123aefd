-------------------------- MODULE ConnectionService --------------------------
(***************************************************************************)
(* What the Manager of connection.go promises to the rest of the plugin.   *)
(*                                                                         *)
(* The middleware, the batch writer, the live hub and the query registry   *)
(* see the Manager only through Get, Start's context and Stop: a           *)
(* connection that is published and withdrawn over and over, a ready       *)
(* signal that is given once, and an end.  How a connection is dialled,    *)
(* signed in, probed and given up is hidden; Manager.tla has that and is   *)
(* shown to implement this module.                                         *)
(***************************************************************************)

CONSTANTS
  Conns,     \* connection handles (*surrealdb.DB values)
  NoConn,    \* a nil *surrealdb.DB
  Clients    \* goroutines that call Manager.Get

VARIABLES
  conn,       \* the connection Get hands out
  ready,      \* the ready channel is closed
  cancelled,  \* the Manager's context is cancelled
  stop,       \* Manager.Stop: "uncalled", "waiting" or "returned"
  waiting,    \* the clients inside Get
  held        \* the handle each client got and still uses

serviceVars == <<conn, ready, cancelled, stop, waiting, held>>

TypeOK ==
  /\ conn \in Conns \cup {NoConn}
  /\ ready \in BOOLEAN
  /\ cancelled \in BOOLEAN
  /\ stop \in {"uncalled", "waiting", "returned"}
  /\ waiting \subseteq Clients
  /\ held \in [Clients -> Conns \cup {NoConn}]

Init ==
  /\ conn = NoConn
  /\ ready = FALSE
  /\ cancelled = FALSE
  /\ stop = "uncalled"
  /\ waiting = {}
  /\ held = [g \in Clients |-> NoConn]

-----------------------------------------------------------------------------
(* The connection.                                                         *)

\* A new connection: a handle that a client still holds is never reused.
Publish ==
  /\ stop # "returned"
  /\ conn = NoConn
  /\ conn' \in {c \in Conns : \A g \in Clients : held[g] # c}
  /\ UNCHANGED <<ready, cancelled, stop, waiting, held>>

\* The ready signal is given once, and only over a connection.
Announce ==
  /\ conn # NoConn
  /\ ~ready
  /\ ready' = TRUE
  /\ UNCHANGED <<conn, cancelled, stop, waiting, held>>

Withdraw ==
  /\ conn # NoConn
  /\ ready
  /\ conn' = NoConn
  /\ UNCHANGED <<ready, cancelled, stop, waiting, held>>

-----------------------------------------------------------------------------
(* The end of the service.                                                 *)

Cancel ==
  /\ ~cancelled
  /\ cancelled' = TRUE
  /\ UNCHANGED <<conn, ready, stop, waiting, held>>

StopCall ==
  /\ stop = "uncalled"
  /\ stop' = "waiting"
  /\ cancelled' = TRUE
  /\ UNCHANGED <<conn, ready, waiting, held>>

\* Stop returns over a service that has no connection and gets none again.
StopReturn ==
  /\ stop = "waiting"
  /\ conn = NoConn
  /\ stop' = "returned"
  /\ UNCHANGED <<conn, ready, cancelled, waiting, held>>

-----------------------------------------------------------------------------
(* The clients of Get.                                                     *)

GetCall(g) ==
  /\ g \notin waiting
  /\ held[g] = NoConn
  /\ waiting' = waiting \cup {g}
  /\ UNCHANGED <<conn, ready, cancelled, stop, held>>

GetConn(g) ==
  /\ g \in waiting
  /\ ready
  /\ conn # NoConn
  /\ held' = [held EXCEPT ![g] = conn]
  /\ waiting' = waiting \ {g}
  /\ UNCHANGED <<conn, ready, cancelled, stop>>

\* Faulty variant: a Manager that is cancelled before it has ever connected
\* lets nobody out of Get.
GetFailConnected(g) ==
  /\ g \in waiting
  /\ ready /\ conn = NoConn
  /\ waiting' = waiting \ {g}
  /\ UNCHANGED <<conn, ready, cancelled, stop, held>>

\* An error: no connection at this moment, or the Manager is being stopped.
GetFail(g) ==
  /\ g \in waiting
  /\ cancelled \/ (ready /\ conn = NoConn)
  /\ waiting' = waiting \ {g}
  /\ UNCHANGED <<conn, ready, cancelled, stop, held>>

\* The caller's own context ends first.
GetAbandon(g) ==
  /\ g \in waiting
  /\ waiting' = waiting \ {g}
  /\ UNCHANGED <<conn, ready, cancelled, stop, held>>

Release(g) ==
  /\ held[g] # NoConn
  /\ held' = [held EXCEPT ![g] = NoConn]
  /\ UNCHANGED <<conn, ready, cancelled, stop, waiting>>

-----------------------------------------------------------------------------

Next ==
  \/ Publish \/ Announce \/ Withdraw
  \/ Cancel \/ StopCall \/ StopReturn
  \/ \E g \in Clients :
       GetCall(g) \/ GetConn(g) \/ GetFail(g) \/ GetAbandon(g) \/ Release(g)

(***************************************************************************)
(* A published connection is announced, a cancelled service withdraws its  *)
(* connection, Stop comes back, and a Get that can be answered is.  Stop   *)
(* needs strong fairness: until the Manager has looked at its cancelled    *)
(* context it may publish and withdraw once more.                          *)
(***************************************************************************)
Fairness ==
  /\ WF_serviceVars(Announce)
  /\ WF_serviceVars(cancelled /\ Withdraw)
  /\ SF_serviceVars(StopReturn)
  /\ \A g \in Clients : WF_serviceVars(GetConn(g) \/ GetFail(g))

Safety == Init /\ [][Next]_serviceVars

Spec == Safety /\ Fairness
=============================================================================
