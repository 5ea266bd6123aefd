------------------------------ MODULE Middleware ------------------------------
(***************************************************************************)
(* One instance of the middleware of module.go, from the start of its      *)
(* Manager to the end of Cleanup: the goroutine in which Caddy provisions  *)
(* and later cleans up the instance, the requests it serves meanwhile and  *)
(* after, and the writer's goroutine.  The Manager is the service of       *)
(* ConnectionService, with all of these as its callers of Get.             *)
(*                                                                         *)
(* ServeHTTP decides by the routes, the headers, the rate limit (see       *)
(* RateLimiter) and the API token what becomes of a request; here it is    *)
(* the environment that decides.  A live request is LiveHub's, and the     *)
(* writer's queue is BatchWriter's: `dirty' says that a record waits in    *)
(* it, and a flush that ends after Close was called may be the last one.   *)
(* Errors in the configuration that Provision finds before it starts the   *)
(* Manager leave nothing behind and are not modelled.                      *)
(***************************************************************************)
EXTENDS Naturals

CONSTANTS
  Conns, NoConn,   \* connection handles, and the nil handle
  Requests,        \* the requests to the instance
  Statements,      \* the number of schema statements
  LogTable         \* a log table is configured

Provisioner == "provision"
Writer == "writer"

ASSUME MiddlewareAssumption ==
  /\ NoConn \notin Conns
  /\ {Provisioner, Writer} \cap Requests = {}
  /\ Statements \in Nat
  /\ LogTable \in BOOLEAN

VARIABLES
  \* the Manager, as ConnectionService has it
  conn, ready, cancelled, stop, waiting, held,
  \* Caddy's goroutine: its control point, the schema statement it is at and
  \* the statements that took effect
  phase, next, defined,
  \* the requests: control point, and those whose client has gone
  pc, gone,
  \* the writer's goroutine, and whether a record waits for it
  writer, dirty

serviceVars == <<conn, ready, cancelled, stop, waiting, held>>
schemaVars  == <<next, defined>>
requestVars == <<pc, gone>>
writerVars  == <<writer, dirty>>
vars == <<serviceVars, phase, schemaVars, requestVars, writerVars>>

Service == INSTANCE ConnectionService
             WITH Clients <- Requests \cup {Provisioner, Writer}

Provisioning == {"await", "schemaget", "schema", "register", "validate"}

TypeOK ==
  /\ Service!TypeOK
  /\ phase \in Provisioning \cup {"serving", "failed", "close", "stop",
                                  "cleaned"}
  /\ next \in 1..Statements + 1
  /\ defined \in SUBSET (1..Statements)
  /\ pc \in [Requests -> {"new", "get", "query", "next", "done"}]
  /\ gone \in SUBSET Requests
  /\ writer \in {"none", "idle", "get", "insert", "done"}
  /\ dirty \in BOOLEAN

\* NewManager and Start have run.
Init ==
  /\ Service!Init
  /\ phase = "await"
  /\ next = 1
  /\ defined = {}
  /\ pc = [r \in Requests |-> "new"]
  /\ gone = {}
  /\ writer = "none"
  /\ dirty = FALSE

-----------------------------------------------------------------------------
(* Provision.                                                              *)

\* The first connect comes within SchemaTimeout, and there is a schema.
ReadySeen ==
  /\ phase = "await"
  /\ ready
  /\ Statements # 0
  /\ Service!GetCall(Provisioner)
  /\ phase' = "schemaget"
  /\ UNCHANGED <<schemaVars, requestVars, writerVars>>

\* Not ready in time, or no schema: Provision goes on.  SchemaTimeout can pass
\* at any moment, ready or not.
SkipSchema ==
  /\ phase = "await"
  /\ phase' = "register"
  /\ UNCHANGED <<serviceVars, schemaVars, requestVars, writerVars>>

SchemaGet ==
  /\ phase = "schemaget"
  /\ Service!GetConn(Provisioner)
  /\ phase' = "schema"
  /\ UNCHANGED <<schemaVars, requestVars, writerVars>>

\* "schema skipped (not connected)".
SchemaGetFailed ==
  /\ phase = "schemaget"
  /\ Service!GetFail(Provisioner)
  /\ phase' = "register"
  /\ UNCHANGED <<schemaVars, requestVars, writerVars>>

MoreStatements == next <= Statements

\* A statement takes effect or not; an error is logged and the next one runs.
ApplyStatement ==
  /\ phase = "schema"
  /\ MoreStatements
  /\ next' = next + 1
  /\ defined' \in {defined, defined \cup {next}}
  /\ UNCHANGED <<serviceVars, phase, requestVars, writerVars>>

SchemaDone ==
  /\ phase = "schema"
  /\ ~MoreStatements
  /\ Service!Release(Provisioner)
  /\ phase' = "register"
  /\ UNCHANGED <<schemaVars, requestVars, writerVars>>

\* Queries, hub, writer and routes are set up.
Registered ==
  /\ phase = "register"
  /\ phase' = "validate"
  /\ writer' = IF LogTable THEN "idle" ELSE "none"
  /\ UNCHANGED <<serviceVars, schemaVars, requestVars, dirty>>

\* Register returns an error: Provision fails over a running Manager.
RegisterFailed ==
  /\ phase = "register"
  /\ phase' = "failed"
  /\ UNCHANGED <<serviceVars, schemaVars, requestVars, writerVars>>

\* Validate; Caddy serves an instance that is valid.
Validate ==
  /\ phase = "validate"
  /\ phase' \in {"serving", "failed"}
  /\ UNCHANGED <<serviceVars, schemaVars, requestVars, writerVars>>

-----------------------------------------------------------------------------
(* ServeHTTP and Execute.                                                  *)

At(r, p) == pc[r] = p
Goto(r, p) == pc' = [pc EXCEPT ![r] = p]

\* A query route that the rate limit admits, a named query or a statement of
\* the management API: all need a connection.
AskQuery(r) ==
  /\ phase = "serving"
  /\ At(r, "new")
  /\ Service!GetCall(r)
  /\ Goto(r, "get")
  /\ UNCHANGED <<phase, schemaVars, gone, writerVars>>

\* Too many requests, unauthorized, no such query, the list of queries.
AnswerAtOnce(r) ==
  /\ phase = "serving"
  /\ At(r, "new")
  /\ Goto(r, "done")
  /\ UNCHANGED <<serviceVars, phase, schemaVars, gone, writerVars>>

\* No route of this instance: the next handler serves the request.
PassOn(r) ==
  /\ phase = "serving"
  /\ At(r, "new")
  /\ Goto(r, "next")
  /\ UNCHANGED <<serviceVars, phase, schemaVars, gone, writerVars>>

QueryGet(r) ==
  /\ At(r, "get")
  /\ Service!GetConn(r)
  /\ Goto(r, "query")
  /\ UNCHANGED <<phase, schemaVars, gone, writerVars>>

\* Faulty variant: Get waits under context.Background(), as in writer.flush.
NeverGone(r) == FALSE

\* The request's context is done: its client has gone.
Gone(r) == r \in gone

QueryGetFailed(r) ==
  /\ At(r, "get")
  /\ Service!GetFail(r) \/ (Gone(r) /\ Service!GetAbandon(r))
  /\ Goto(r, "done")
  /\ UNCHANGED <<phase, schemaVars, gone, writerVars>>

\* Rows or an error: bad parameters, the query's timeout, a dead connection.
Answer(r) ==
  /\ At(r, "query")
  /\ Service!Release(r)
  /\ Goto(r, "done")
  /\ UNCHANGED <<phase, schemaVars, gone, writerVars>>

\* The next handler returns and, with a writer, a record is written (or not,
\* by an excluded path or a full channel).
NextReturns(r) ==
  /\ At(r, "next")
  /\ Goto(r, "done")
  /\ dirty' \in {dirty, dirty \/ writer # "none"}
  /\ UNCHANGED <<serviceVars, phase, schemaVars, gone, writer>>

Disconnect(r) ==
  /\ pc[r] \in {"get", "query", "next"}
  /\ r \notin gone
  /\ gone' = gone \cup {r}
  /\ UNCHANGED <<serviceVars, phase, schemaVars, pc, writerVars>>

-----------------------------------------------------------------------------
(* The writer.                                                             *)

Flush ==
  /\ writer = "idle"
  /\ dirty
  /\ dirty' = FALSE
  /\ Service!GetCall(Writer)
  /\ writer' = "get"
  /\ UNCHANGED <<phase, schemaVars, requestVars>>

FlushGet ==
  /\ writer = "get"
  /\ Service!GetConn(Writer)
  /\ writer' = "insert"
  /\ UNCHANGED <<phase, schemaVars, requestVars, dirty>>

AfterFlush == writer' \in {"idle"} \cup {w \in {"done"} : phase = "close"}

FlushSkipped ==
  /\ writer = "get"
  /\ Service!GetFail(Writer)
  /\ AfterFlush
  /\ UNCHANGED <<phase, schemaVars, requestVars, dirty>>

FlushEnd ==
  /\ writer = "insert"
  /\ Service!Release(Writer)
  /\ AfterFlush
  /\ UNCHANGED <<phase, schemaVars, requestVars, dirty>>

\* stopCh is closed, and drain finds nothing.
WriterExit ==
  /\ writer = "idle"
  /\ phase = "close"
  /\ ~dirty
  /\ writer' = "done"
  /\ UNCHANGED <<serviceVars, phase, schemaVars, requestVars, dirty>>

-----------------------------------------------------------------------------
(* Cleanup.                                                                *)

\* Caddy cancels the context of an instance before it cleans it up; one that
\* could not be provisioned or is not valid it cleans up at once.
CleanupCall ==
  /\ phase = "failed" \/ (phase = "serving" /\ cancelled)
  /\ phase' = "close"
  /\ UNCHANGED <<serviceVars, schemaVars, requestVars, writerVars>>

\* Faulty variant: the Manager is stopped while the writer still runs.
WriterLeftRunning == TRUE

\* Faulty variant: without a writer Cleanup never comes to Stop.
NilWriterAwaited == writer = "done"

\* There is no writer, or Close has waited for its goroutine.
WriterClosed == writer \in {"none", "done"}

StopManager ==
  /\ phase = "close"
  /\ WriterClosed
  /\ Service!StopCall
  /\ phase' = "stop"
  /\ UNCHANGED <<schemaVars, requestVars, writerVars>>

CleanupReturn ==
  /\ phase = "stop"
  /\ Service!StopReturn
  /\ phase' = "cleaned"
  /\ UNCHANGED <<schemaVars, requestVars, writerVars>>

ManagerStep ==
  /\ Service!Publish \/ Service!Announce \/ Service!Withdraw \/ Service!Cancel
  /\ UNCHANGED <<phase, schemaVars, requestVars, writerVars>>

-----------------------------------------------------------------------------

Provision ==
  \/ ReadySeen \/ SkipSchema \/ SchemaGet \/ SchemaGetFailed
  \/ ApplyStatement \/ SchemaDone \/ Registered \/ RegisterFailed
  \/ Validate

Cleanup == CleanupCall \/ StopManager

Serve(r) ==
  QueryGet(r) \/ QueryGetFailed(r) \/ Answer(r) \/ NextReturns(r)

WriterStep == Flush \/ FlushGet \/ FlushSkipped \/ FlushEnd \/ WriterExit

Next ==
  \/ Provision \/ Cleanup \/ CleanupReturn
  \/ \E r \in Requests :
       AskQuery(r) \/ AnswerAtOnce(r) \/ PassOn(r) \/ Serve(r) \/ Disconnect(r)
  \/ WriterStep
  \/ ManagerStep

(***************************************************************************)
(* Every goroutine runs and its calls return; Caddy calls Cleanup; the     *)
(* Manager keeps the promises of ConnectionService.  The select of         *)
(* AwaitReady is left by a signal or by its timeout.  Requests arrive or   *)
(* not.                                                                    *)
(***************************************************************************)
Fairness ==
  /\ WF_vars(Provision)
  /\ WF_vars(Cleanup)
  /\ SF_vars(CleanupReturn)
  /\ WF_vars(WriterStep)
  /\ \A r \in Requests : WF_vars(Serve(r))
  /\ WF_vars(Service!Announce /\ ManagerStep)
  /\ WF_vars(cancelled /\ Service!Withdraw /\ ManagerStep)

Spec == Init /\ [][Next]_vars /\ Fairness

-----------------------------------------------------------------------------
(* Safety.                                                                 *)

(***************************************************************************)
(* Whatever failed, and wherever requests and flushes are at that moment:  *)
(* the writer is out of the Manager before Stop is called, and when        *)
(* Cleanup returns there is neither a writer nor a connection left.        *)
(***************************************************************************)
CleanupComplete ==
  /\ stop # "uncalled" =>
       /\ writer \in {"none", "done"}
       /\ Writer \notin waiting /\ held[Writer] = NoConn
  /\ phase = "cleaned" => stop = "returned" /\ conn = NoConn

\* Who waits in Get and who uses a handle is where its control point says.
ClientStage ==
  /\ Provisioner \in waiting <=> phase = "schemaget"
  /\ held[Provisioner] # NoConn <=> phase = "schema"
  /\ Writer \in waiting <=> writer = "get"
  /\ held[Writer] # NoConn <=> writer = "insert"
  /\ \A r \in Requests : /\ r \in waiting <=> pc[r] = "get"
                         /\ held[r] # NoConn <=> pc[r] = "query"

\* The Manager is stopped by the last phases alone, and the writer is made by
\* Provision's last step and gone before Stop.
CleanupStage ==
  /\ phase \in Provisioning \ {"validate"} => writer = "none"
  /\ stop # "uncalled" <=> phase \in {"stop", "cleaned"}
  /\ phase = "stop" => stop = "waiting"
  /\ phase = "cleaned" => stop = "returned" /\ conn = NoConn
  /\ phase \in {"stop", "cleaned"} => writer \in {"none", "done"}

\* The inductive invariant behind CleanupComplete.
IInv == TypeOK /\ ClientStage /\ CleanupStage

-----------------------------------------------------------------------------
(* Liveness.                                                               *)

ProvisionReturns == <>(phase \notin Provisioning)

CleansUp == cancelled \/ phase = "failed" ~> phase = "cleaned"

(***************************************************************************)
(* Provision comes to an end though the database may never be reached, and *)
(* an instance that Caddy gives up, or that it could not set up, is        *)
(* cleaned up to the end: Close waits for a flush that waits in Get, and   *)
(* it is Caddy's cancellation, never Stop, that lets it out.               *)
(***************************************************************************)
SetUpAndCleanUpEnd == ProvisionReturns /\ CleansUp

ManagerAnswers == <>(ready \/ cancelled)

\* A request is answered once the Manager has ever connected or is given up,
\* through any number of reconnects.
RequestsAnswered ==
  ManagerAnswers => \A r \in Requests : At(r, "get") ~> At(r, "done")

\* While the database was never reached a request waits for as long as its
\* client does, and no longer.
GoneRequestsEnd ==
  \A r \in Requests : r \in gone ~> At(r, "done")

-----------------------------------------------------------------------------
(* What the messages in module.go say, and the code does not do.           *)

(***************************************************************************)
(* "not ready at Provision; schema will be applied on first reconnect"     *)
(* (module.go:137): an instance that serves over a connected Manager and   *)
(* stays has its schema applied.                                           *)
(***************************************************************************)
SchemaAppliedOnReconnect ==
  phase = "serving" /\ ready ~> next > Statements \/ cancelled
=============================================================================
