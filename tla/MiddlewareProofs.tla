--------------------------- MODULE MiddlewareProofs ---------------------------
(***************************************************************************)
(* Safety of an instance's life, for any number of requests, handles and   *)
(* schema statements, with and without a writer: the order of Cleanup.     *)
(***************************************************************************)
EXTENDS Middleware, TLAPS

Callers == Requests \cup {Provisioner, Writer}

LEMMA Apart ==
  /\ Provisioner \notin Requests /\ Writer \notin Requests
  /\ Provisioner # Writer /\ NoConn \notin Conns
BY MiddlewareAssumption DEF MiddlewareAssumption, Provisioner, Writer

\* What each call of the Manager leaves of the table of its callers.
LEMMA CallKeeps ==
  ASSUME Service!TypeOK, NEW g \in Callers, Service!GetCall(g)
  PROVE  /\ Service!TypeOK' /\ waiting' = waiting \cup {g} /\ held' = held
         /\ held[g] = NoConn /\ g \notin waiting
         /\ conn' = conn /\ stop' = stop
BY DEF Service!TypeOK, Service!GetCall, Callers

LEMMA ConnKeeps ==
  ASSUME Service!TypeOK, NEW g \in Callers, Service!GetConn(g)
  PROVE  /\ Service!TypeOK' /\ waiting' = waiting \ {g} /\ g \in waiting
         /\ held'[g] # NoConn /\ \A h \in Callers \ {g} : held'[h] = held[h]
         /\ conn' = conn /\ stop' = stop
BY DEF Service!TypeOK, Service!GetConn, Callers

LEMMA FailKeeps ==
  ASSUME Service!TypeOK, NEW g \in Callers,
         Service!GetFail(g) \/ Service!GetAbandon(g)
  PROVE  /\ Service!TypeOK' /\ waiting' = waiting \ {g} /\ g \in waiting
         /\ held' = held /\ conn' = conn /\ stop' = stop
BY DEF Service!TypeOK, Service!GetFail, Service!GetAbandon, Callers

LEMMA ReleaseKeeps ==
  ASSUME Service!TypeOK, NEW g \in Callers, Service!Release(g)
  PROVE  /\ Service!TypeOK' /\ waiting' = waiting
         /\ held'[g] = NoConn /\ \A h \in Callers \ {g} : held'[h] = held[h]
         /\ conn' = conn /\ stop' = stop
BY DEF Service!TypeOK, Service!Release, Callers

LEMMA IdleKeeps ==
  ASSUME Service!TypeOK, UNCHANGED serviceVars
  PROVE  /\ Service!TypeOK' /\ waiting' = waiting /\ held' = held
         /\ conn' = conn /\ stop' = stop
BY DEF Service!TypeOK, serviceVars

LEMMA InitIInv == Init => IInv
<1> SUFFICES ASSUME Init PROVE IInv
  OBVIOUS
<1>1. Service!TypeOK
  <2>1. held \in [Requests \cup {Provisioner, Writer} -> Conns \cup {NoConn}]
    BY DEF Init, Service!Init
  <2> QED
    BY <2>1 DEF Init, Service!Init, Service!TypeOK
<1>2. TypeOK
  <2>1. next \in 1..Statements + 1 /\ defined \in SUBSET (1..Statements)
    BY MiddlewareAssumption DEF Init, MiddlewareAssumption
  <2>2. pc \in [Requests -> {"new", "get", "query", "next", "done"}]
    BY DEF Init
  <2> QED
    BY <1>1, <2>1, <2>2 DEF Init, TypeOK, Provisioning
<1>3. ClientStage /\ CleanupStage
  BY DEF Init, Service!Init, ClientStage, CleanupStage, Provisioning,
         Provisioner, Writer
<1> QED
  BY <1>2, <1>3 DEF IInv

\* Provision, of which the schema uses the Manager.
LEMMA ProvisionKeeps ==
  ASSUME IInv, Provision
  PROVE  IInv'
<1> USE Apart
    DEF IInv, TypeOK, ClientStage, CleanupStage, schemaVars, requestVars,
        writerVars, Provisioning, Callers
<1>1. CASE ReadySeen
  BY <1>1, CallKeeps DEF ReadySeen
<1>2. CASE SkipSchema
  BY <1>2, IdleKeeps DEF SkipSchema
<1>3. CASE SchemaGet
  BY <1>3, ConnKeeps DEF SchemaGet
<1>4. CASE SchemaGetFailed
  BY <1>4, FailKeeps DEF SchemaGetFailed
<1>5. CASE ApplyStatement
  BY <1>5, IdleKeeps, MiddlewareAssumption
     DEF ApplyStatement, MoreStatements, MiddlewareAssumption
<1>6. CASE SchemaDone
  <2>1. /\ Service!TypeOK' /\ waiting' = waiting
        /\ held'[Provisioner] = NoConn
        /\ \A h \in Callers \ {Provisioner} : held'[h] = held[h]
        /\ conn' = conn /\ stop' = stop
    <3>1. Service!Release(Provisioner)
      BY <1>6 DEF SchemaDone
    <3> QED
      BY <3>1, ReleaseKeeps
  <2>2. /\ phase' = "register"
        /\ UNCHANGED <<next, defined, pc, gone, writer, dirty>>
    BY <1>6 DEF SchemaDone
  <2>3. TypeOK'
    BY <2>1, <2>2
  <2>4. ClientStage'
    BY <1>6, <2>1, <2>2 DEF SchemaDone
  <2>5. CleanupStage'
    BY <1>6, <2>1, <2>2 DEF SchemaDone
  <2> QED
    BY <2>3, <2>4, <2>5
<1>7. CASE Registered
  <2>1. /\ Service!TypeOK' /\ waiting' = waiting /\ held' = held
        /\ conn' = conn /\ stop' = stop
    BY <1>7, IdleKeeps DEF Registered
  <2>2. /\ phase = "register" /\ phase' = "validate"
        /\ writer' \in {"idle", "none"}
        /\ UNCHANGED <<next, defined, pc, gone, dirty>>
    BY <1>7 DEF Registered
  <2>3. TypeOK'
    BY <2>1, <2>2
  <2>4. ClientStage'
    BY <2>1, <2>2
  <2>5. CleanupStage'
    BY <2>1, <2>2
  <2> QED
    BY <2>3, <2>4, <2>5
<1>8. CASE RegisterFailed \/ Validate
  BY <1>8, IdleKeeps DEF RegisterFailed, Validate
<1> QED
  BY <1>1, <1>2, <1>3, <1>4, <1>5, <1>6, <1>7, <1>8 DEF Provision

LEMMA RequestKeeps ==
  ASSUME IInv, NEW r \in Requests,
         AskQuery(r) \/ AnswerAtOnce(r) \/ PassOn(r) \/ Serve(r) \/ Disconnect(r)
  PROVE  IInv'
<1> USE Apart
    DEF IInv, TypeOK, ClientStage, CleanupStage, schemaVars, requestVars,
        writerVars, At, Goto, Provisioning, Callers
<1>1. CASE AskQuery(r)
  BY <1>1, CallKeeps DEF AskQuery
<1>2. CASE AnswerAtOnce(r) \/ PassOn(r)
  BY <1>2, IdleKeeps DEF AnswerAtOnce, PassOn
<1>3. CASE QueryGet(r)
  BY <1>3, ConnKeeps DEF QueryGet
<1>4. CASE QueryGetFailed(r)
  BY <1>4, FailKeeps DEF QueryGetFailed
<1>5. CASE Answer(r)
  BY <1>5, ReleaseKeeps DEF Answer
<1>6. CASE NextReturns(r)
  BY <1>6, IdleKeeps DEF NextReturns
<1>7. CASE Disconnect(r)
  BY <1>7, IdleKeeps DEF Disconnect
<1> QED
  BY <1>1, <1>2, <1>3, <1>4, <1>5, <1>6, <1>7 DEF Serve

LEMMA WriterKeeps ==
  ASSUME IInv, WriterStep
  PROVE  IInv'
<1> USE Apart
    DEF IInv, TypeOK, ClientStage, CleanupStage, schemaVars, requestVars,
        writerVars, AfterFlush, Provisioning, Callers
<1>1. CASE Flush
  <2>1. /\ Service!TypeOK' /\ waiting' = waiting \cup {Writer}
        /\ held' = held /\ held[Writer] = NoConn
        /\ conn' = conn /\ stop' = stop
    <3>1. Service!GetCall(Writer)
      BY <1>1 DEF Flush
    <3> QED
      BY <3>1, CallKeeps
  <2>2. /\ writer = "idle" /\ writer' = "get" /\ dirty' = FALSE
        /\ UNCHANGED <<phase, next, defined, pc, gone>>
    BY <1>1 DEF Flush
  <2>3. TypeOK'
    BY <2>1, <2>2
  <2>4. ClientStage'
    BY <2>1, <2>2
  <2>5. CleanupStage'
    BY <2>1, <2>2
  <2> QED
    BY <2>3, <2>4, <2>5
<1>2. CASE FlushGet
  BY <1>2, ConnKeeps DEF FlushGet
<1>3. CASE FlushSkipped
  BY <1>3, FailKeeps DEF FlushSkipped
<1>4. CASE FlushEnd
  BY <1>4, ReleaseKeeps DEF FlushEnd
<1>5. CASE WriterExit
  BY <1>5, IdleKeeps DEF WriterExit
<1> QED
  BY <1>1, <1>2, <1>3, <1>4, <1>5 DEF WriterStep

\* Cleanup and the Manager's own steps; once Stop has returned there is no
\* connection and none is published.
LEMMA CleanupKeeps ==
  ASSUME IInv, Cleanup \/ CleanupReturn \/ ManagerStep
  PROVE  IInv'
<1> USE DEF IInv, TypeOK, ClientStage, CleanupStage, schemaVars, requestVars,
            writerVars, Provisioning
<1>1. CASE CleanupCall
  BY <1>1, IdleKeeps DEF CleanupCall
<1>2. CASE StopManager
  <2>1. Service!TypeOK'
    BY <1>2 DEF StopManager, Service!StopCall, Service!TypeOK
  <2> QED
    BY <1>2, <2>1 DEF StopManager, Service!StopCall, WriterClosed
<1>3. CASE CleanupReturn
  <2>1. Service!TypeOK'
    BY <1>3 DEF CleanupReturn, Service!StopReturn, Service!TypeOK
  <2> QED
    BY <1>3, <2>1 DEF CleanupReturn, Service!StopReturn
<1>4. CASE ManagerStep
  <2>1. Service!TypeOK'
    BY <1>4 DEF ManagerStep, Service!Publish, Service!Announce,
                Service!Withdraw, Service!Cancel, Service!TypeOK
  <2> QED
    BY <1>4, <2>1 DEF ManagerStep, Service!Publish, Service!Announce,
                      Service!Withdraw, Service!Cancel
<1> QED
  BY <1>1, <1>2, <1>3, <1>4 DEF Cleanup

LEMMA NextIInv == IInv /\ [Next]_vars => IInv'
<1>1. ASSUME IInv, UNCHANGED vars PROVE IInv'
  BY <1>1, IdleKeeps
     DEF IInv, TypeOK, ClientStage, CleanupStage, vars, schemaVars,
         requestVars, writerVars
<1> QED
  BY <1>1, ProvisionKeeps, RequestKeeps, WriterKeeps, CleanupKeeps DEF Next

\* Types, who waits in Get and who holds a handle at each control point, and
\* what is left at each phase of Cleanup.
THEOREM Invariance == Spec => []IInv
BY InitIInv, NextIInv, PTL DEF Spec

\* Stop is never called while the writer is in the Manager or still runs, and
\* an instance that is cleaned up has no connection, however it failed.
THEOREM CleanupInOrder == Spec => []CleanupComplete
<1>1. IInv => CleanupComplete
  BY DEF IInv, CleanupComplete, ClientStage, CleanupStage
<1> QED
  BY <1>1, Invariance, PTL
=============================================================================
