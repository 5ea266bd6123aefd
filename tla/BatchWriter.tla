----------------------------- MODULE BatchWriter -----------------------------
(***************************************************************************)
(* The request logger of writer.go: requests Write one record each into a  *)
(* bounded channel, one goroutine (run) moves them into a buffer and       *)
(* flushes it, and Middleware.Cleanup closes the writer and then stops the *)
(* Manager.  The Manager is the service of ConnectionService, with the     *)
(* writer as its caller of Get.                                            *)
(*                                                                         *)
(* Left out: the fields of a record and the INSERT's text, excluded paths  *)
(* (Write returns before it touches the channel), a tick on an empty       *)
(* buffer (flush returns at once) and the statements of schemaOnce, whose  *)
(* errors are only logged.  The mutex around buf is not contended: only    *)
(* the writer's goroutine reaches buf.                                     *)
(***************************************************************************)
EXTENDS Naturals, Sequences, Functions

CONSTANTS
  Conns, NoConn,   \* connection handles, and the nil handle
  Requests,        \* requests that reach the logging branch of ServeHTTP
  BatchSize,       \* records that make a flush
  BufferSize       \* capacity of the channel

ASSUME WriterAssumption ==
  /\ BatchSize \in Nat \ {0}
  /\ BufferSize \in Nat \ {0}
  /\ NoConn \notin Conns

Writer == "writer"

VARIABLES
  \* the Manager, as ConnectionService has it
  conn, ready, cancelled, stop, waiting, held,
  \* w.overflow, fixed by NewBatchWriter
  overflow,
  \* the requests: what became of each Write, and those blocked in it, in
  \* the order in which the channel serves them
  write, senders,
  \* w.ch, w.buf, flush's batch
  ch, buf, batch,
  \* the writer's goroutine: its control point, and whether its flush is the
  \* one after drain
  writer, final,
  \* BatchWriter.Close, called by Cleanup; w.stopCh is closed by the call
  closing,
  \* the log table, and the records of failed flushes (nothing reads these)
  stored, lost

serviceVars == <<conn, ready, cancelled, stop, waiting, held>>
requestVars == <<write, senders>>
writerVars  == <<writer, final>>
ownerVars   == <<overflow, closing>>
logVars     == <<stored, lost>>
vars == <<serviceVars, requestVars, ch, buf, batch, writerVars,
          ownerVars, logVars>>

Service == INSTANCE ConnectionService WITH Clients <- {Writer}

Records == Seq(Requests)

TypeOK ==
  /\ overflow \in {"drop", "block"}
  /\ Service!TypeOK
  /\ write \in [Requests -> {"serving", "blocked", "accepted", "refused"}]
  /\ senders \in Records
  /\ ch \in Records /\ Len(ch) <= BufferSize
  /\ buf \in Records
  /\ batch \in Records
  /\ writer \in {"select", "drain", "flush", "get", "insert", "done"}
  /\ final \in BOOLEAN
  /\ closing \in {"uncalled", "waiting", "returned"}
  /\ stored \in Records
  /\ lost \in SUBSET Requests

Init ==
  /\ overflow \in {"drop", "block"}
  /\ Service!Init
  /\ write = [r \in Requests |-> "serving"]
  /\ senders = <<>>
  /\ ch = <<>>
  /\ buf = <<>>
  /\ batch = <<>>
  /\ writer = "select"
  /\ final = FALSE
  /\ closing = "uncalled"
  /\ stored = <<>>
  /\ lost = {}

-----------------------------------------------------------------------------
(* Write.                                                                  *)

Mark(r, outcome) == write' = [write EXCEPT ![r] = outcome]

HasRoom == Len(ch) < BufferSize

Enqueue(r) ==
  /\ write[r] = "serving"
  /\ HasRoom
  /\ ch' = Append(ch, r)
  /\ Mark(r, "accepted")
  /\ UNCHANGED <<serviceVars, senders, buf, batch, writerVars, ownerVars,
                 logVars>>

Refuse(r) ==
  /\ write[r] = "serving"
  /\ ~HasRoom
  /\ overflow = "drop"
  /\ Mark(r, "refused")
  /\ UNCHANGED <<serviceVars, senders, ch, buf, batch, writerVars, ownerVars,
                 logVars>>

Block(r) ==
  /\ write[r] = "serving"
  /\ ~HasRoom
  /\ overflow = "block"
  /\ Mark(r, "blocked")
  /\ senders' = Append(senders, r)
  /\ UNCHANGED <<serviceVars, ch, buf, batch, writerVars, ownerVars, logVars>>

-----------------------------------------------------------------------------
(* run and drain.                                                          *)

(***************************************************************************)
(* A receive from the channel.  The runtime hands the freed slot to the    *)
(* sender that has waited longest, in the same step.                       *)
(***************************************************************************)
Receive ==
  /\ ch # <<>>
  /\ buf' = Append(buf, Head(ch))
  /\ IF senders = <<>>
       THEN /\ ch' = Tail(ch)
            /\ UNCHANGED requestVars
       ELSE /\ ch' = Append(Tail(ch), Head(senders))
            /\ senders' = Tail(senders)
            /\ Mark(Head(senders), "accepted")

Full(b) == Len(b) >= BatchSize

ReceiveRecord ==
  /\ writer = "select"
  /\ Receive
  /\ writer' = IF Full(buf') THEN "flush" ELSE "select"
  /\ UNCHANGED <<serviceVars, batch, final, ownerVars, logVars>>

\* Faulty variant: the ticker flushes full batches only.
TickDueFull == Full(buf)

TickDue == buf # <<>>

TickFlush ==
  /\ writer = "select"
  /\ TickDue
  /\ writer' = "flush"
  /\ UNCHANGED <<serviceVars, requestVars, ch, buf, batch, final, ownerVars,
                 logVars>>

StopSeen ==
  /\ writer = "select"
  /\ closing # "uncalled"
  /\ writer' = "drain"
  /\ UNCHANGED <<serviceVars, requestVars, ch, buf, batch, final, ownerVars,
                 logVars>>

DrainRecord ==
  /\ writer = "drain"
  /\ Receive
  /\ UNCHANGED <<serviceVars, batch, writerVars, ownerVars, logVars>>

DrainEnd ==
  /\ writer = "drain"
  /\ ch = <<>>
  /\ writer' = "flush"
  /\ final' = TRUE
  /\ UNCHANGED <<serviceVars, requestVars, ch, buf, batch, ownerVars, logVars>>

-----------------------------------------------------------------------------
(* flush.                                                                  *)

\* Faulty variant: run goes on after the last flush.
ResumeAlways == writer' = "select"

\* Faulty variant: run returns after any flush.
ResumeNever == writer' = "done"

\* Back to run's loop, or out of it after the flush that follows drain.
Resume == writer' = IF final THEN "done" ELSE "select"

FlushNothing ==
  /\ writer = "flush"
  /\ buf = <<>>
  /\ Resume
  /\ UNCHANGED <<serviceVars, requestVars, ch, buf, batch, final, ownerVars,
                 logVars>>

\* Faulty variant: the buffer is copied and not replaced.
SwapWithoutReset ==
  /\ batch' = buf
  /\ UNCHANGED buf

\* Under the lock the buffer becomes the batch; Get follows after it.
Swap ==
  /\ batch' = buf
  /\ buf' = <<>>

FlushBatch ==
  /\ writer = "flush"
  /\ buf # <<>>
  /\ Swap
  /\ Service!GetCall(Writer)
  /\ writer' = "get"
  /\ UNCHANGED <<requestVars, ch, final, ownerVars, logVars>>

GetOk ==
  /\ writer = "get"
  /\ Service!GetConn(Writer)
  /\ writer' = "insert"
  /\ UNCHANGED <<requestVars, ch, buf, batch, final, ownerVars, logVars>>

\* "writer flush skipped": nothing puts the batch back.
GetFailed ==
  /\ writer = "get"
  /\ Service!GetFail(Writer)
  /\ lost' = lost \cup Range(batch)
  /\ batch' = <<>>
  /\ Resume
  /\ UNCHANGED <<requestVars, ch, buf, final, ownerVars, stored>>

\* The server has stored the rows, whether or not its answer arrives.
InsertStored ==
  /\ writer = "insert"
  /\ stored' = stored \o batch
  /\ batch' = <<>>
  /\ Service!Release(Writer)
  /\ Resume
  /\ UNCHANGED <<requestVars, ch, buf, final, ownerVars, lost>>

\* The handle may be closed by now, or the server may reject the rows.
InsertFailed ==
  /\ writer = "insert"
  /\ lost' = lost \cup Range(batch)
  /\ batch' = <<>>
  /\ Service!Release(Writer)
  /\ Resume
  /\ UNCHANGED <<requestVars, ch, buf, final, ownerVars, stored>>

-----------------------------------------------------------------------------
(* Cleanup: Close, then Manager.Stop.                                      *)

CloseCall ==
  /\ closing = "uncalled"
  /\ closing' = "waiting"
  /\ UNCHANGED <<overflow, serviceVars, requestVars, ch, buf, batch,
                 writerVars, logVars>>

\* Faulty variant: Close does not wait for the goroutine.
WriterNotAwaited == TRUE

WriterExited == writer = "done"

CloseReturn ==
  /\ closing = "waiting"
  /\ WriterExited
  /\ closing' = "returned"
  /\ UNCHANGED <<overflow, serviceVars, requestVars, ch, buf, batch,
                 writerVars, logVars>>

StopManager ==
  /\ closing = "returned"
  /\ Service!StopCall
  /\ UNCHANGED <<requestVars, ch, buf, batch, writerVars, ownerVars, logVars>>

\* The Manager's own steps; Caddy may cancel its context before Cleanup.
ManagerStep ==
  /\ \/ Service!Publish \/ Service!Announce \/ Service!Withdraw
     \/ Service!Cancel \/ Service!StopReturn
  /\ UNCHANGED <<requestVars, ch, buf, batch, writerVars, ownerVars, logVars>>

-----------------------------------------------------------------------------

WriterStep ==
  \/ ReceiveRecord \/ TickFlush \/ StopSeen
  \/ DrainRecord \/ DrainEnd
  \/ FlushNothing \/ FlushBatch \/ GetOk \/ GetFailed
  \/ InsertStored \/ InsertFailed

Next ==
  \/ WriterStep
  \/ \E r \in Requests : Enqueue(r) \/ Refuse(r) \/ Block(r)
  \/ CloseCall \/ CloseReturn \/ StopManager
  \/ ManagerStep

(***************************************************************************)
(* The writer's goroutine runs, its ticker fires and its calls return; a   *)
(* Get is answered when it can be, as ConnectionService promises.  select  *)
(* picks at random among what is ready, so a closed stopCh is not passed   *)
(* over for ever.  Requests, Cleanup and the Manager owe nothing.          *)
(***************************************************************************)
Fairness ==
  /\ WF_vars(WriterStep)
  /\ SF_vars(StopSeen)
  /\ WF_vars(CloseReturn)

Spec == Init /\ [][Next]_vars /\ Fairness

-----------------------------------------------------------------------------
(* Safety.                                                                 *)

Queue == batch \o buf \o ch

Trail == stored \o Queue

Accepted == {r \in Requests : write[r] = "accepted"}

(***************************************************************************)
(* A record whose Write returned true is in exactly one place, once: in    *)
(* the pipeline, in the table or among the lost.  Across the hand-overs    *)
(* from channel to buffer to batch, the shutdown's drain and an INSERT     *)
(* whose outcome is not known, none is duplicated and none disappears.     *)
(***************************************************************************)
EveryRecordOnce ==
  /\ IsInjective(Trail)
  /\ Range(Trail) \cap lost = {}
  /\ Range(Trail) \cup lost = Accepted

\* The caller of Write waits only on a channel that is full, in the order of
\* senders, and never under overflow "drop".
BlockedOnlyWhenFull ==
  /\ senders # <<>> => Len(ch) = BufferSize /\ overflow = "block"
  /\ Range(senders) = {r \in Requests : write[r] = "blocked"}

(***************************************************************************)
(* An INSERT carries at least one and at most BatchSize records, but for   *)
(* the one after drain, which also has what the channel held at the stop   *)
(* and what its blocked senders brought.                                   *)
(***************************************************************************)
BatchBounded ==
  /\ writer = "insert" => batch # <<>>
  /\ ~final => Len(batch) <= BatchSize
  /\ writer = "select" => Len(buf) < BatchSize

\* Where the goroutine is tells what it holds.
WriterStage ==
  /\ writer \in {"get", "insert"} <=> batch # <<>>
  /\ writer \in {"get", "insert", "done"} => buf = <<>>
  /\ writer \in {"select", "drain"} => ~final
  /\ writer = "flush" /\ ~final => Len(buf) <= BatchSize
  /\ closing = "returned" => writer = "done"

(***************************************************************************)
(* The inductive invariant: a request is blocked in one place, the slot    *)
(* it waits for is taken, and no step of the goroutine drops or doubles    *)
(* what it moves.                                                          *)
(***************************************************************************)
IInv ==
  /\ TypeOK
  /\ EveryRecordOnce
  /\ BlockedOnlyWhenFull
  /\ IsInjective(senders)
  /\ BatchBounded
  /\ WriterStage

\* Once Close has returned the writer touches neither the table nor the
\* connection, so the Manager can be stopped.
QuietAfterClose ==
  [][closing = "returned" => UNCHANGED <<stored, lost, buf, batch, held>>]_vars

-----------------------------------------------------------------------------
(* Liveness.                                                               *)

ManagerAnswers == <>(ready \/ cancelled)

(***************************************************************************)
(* While the writer is not closed every accepted record is settled, also   *)
(* those that never fill a batch and those behind a failed flush, once     *)
(* the Manager has connected or is cancelled.                              *)
(***************************************************************************)
RecordsSettle ==
  ManagerAnswers /\ [](closing = "uncalled") =>
    \A r \in Requests : r \in Range(Queue) ~> r \notin Range(Queue)

\* Close returns: the drain ends while requests still write, and the last
\* flush waits for no connection that cannot come.
CloseReturns ==
  ManagerAnswers => (closing = "waiting" ~> closing = "returned")

\* Under overflow "block" a request is held up by a full channel only until
\* the writer has caught up, unless the writer is closed.
BlockedWritesReturn ==
  ManagerAnswers /\ [](closing = "uncalled") =>
    \A r \in Requests : write[r] = "blocked" ~> write[r] = "accepted"

-----------------------------------------------------------------------------
(* The writer implements the request log.                                  *)

Log == INSTANCE RequestLog WITH pending <- Queue

\* Records reach the table in the order in which they were accepted, a batch
\* at a time, each at most once, whatever fails in between.
ImplementsRequestLog == Log!Spec

-----------------------------------------------------------------------------
(* What the comments in writer.go say, and the code does not do.           *)

(***************************************************************************)
(* "Close drains and stops the writer." (writer.go:127)  A request that is *)
(* still served puts its record into the channel after drain has found it  *)
(* empty; Write returns true and the record stays there.                   *)
(***************************************************************************)
CloseDrains == closing = "returned" => ch = <<>>
=============================================================================
