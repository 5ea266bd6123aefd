-------------------------- MODULE BatchWriterProofs --------------------------
(***************************************************************************)
(* Safety of the request log writer, for any number of requests and any    *)
(* sizes of batch and channel: the inductive invariant, that every record  *)
(* is in one place, that Close is final, and that each step is one of the  *)
(* request log or none.                                                    *)
(***************************************************************************)
EXTENDS BatchWriter, SequenceTheorems, TLAPS

-----------------------------------------------------------------------------
(* Sequences.                                                              *)

\* An element goes from the front of one queue to the end of the one before.
LEMMA Moved ==
  ASSUME NEW S, NEW s \in Seq(S), NEW t \in Seq(S), t # <<>>
  PROVE  Append(s, Head(t)) \o Tail(t) = s \o t
OBVIOUS

\* A queue grows at the end of whatever is before it.
LEMMA Grown ==
  ASSUME NEW S, NEW s \in Seq(S), NEW t \in Seq(S), NEW x \in S
  PROVE  s \o Append(t, x) = Append(s \o t, x)
OBVIOUS

LEMMA Extended ==
  ASSUME NEW S, NEW s \in Seq(S), NEW x \in S, IsInjective(s), x \notin Range(s)
  PROVE  /\ IsInjective(Append(s, x))
         /\ Range(Append(s, x)) = Range(s) \cup {x}
<1> DEFINE n == Len(s)
           t == Append(s, x)
<1>1. /\ n \in Nat /\ DOMAIN s = 1..n /\ DOMAIN t = 1..n + 1
      /\ \A i \in 1..n : t[i] = s[i]
      /\ t[n + 1] = x
  OBVIOUS
<1>2. \A i \in 1..n : s[i] # x
  BY <1>1 DEF Range
<1> HIDE DEF n, t
<1>3. \A i, j \in 1..n + 1 : t[i] = t[j] => i = j
  <2> SUFFICES ASSUME NEW i \in 1..n + 1, NEW j \in 1..n + 1, t[i] = t[j]
               PROVE  i = j
    OBVIOUS
  <2>1. \A k \in 1..n + 1 : k \in 1..n \/ k = n + 1
    BY <1>1
  <2> QED
    BY <2>1, <1>1, <1>2 DEF IsInjective
<1>4. \A k \in 1..n + 1 : t[k] \in Range(s) \cup {x}
  <2> TAKE k \in 1..n + 1
  <2>1. k \in 1..n \/ k = n + 1
    BY <1>1
  <2> QED
    BY <2>1, <1>1 DEF Range
<1>5. \A k \in 1..n : k \in 1..n + 1
  BY <1>1
<1>6. n + 1 \in 1..n + 1
  BY <1>1
<1>7. Range(t) = Range(s) \cup {x}
  BY <1>1, <1>4, <1>5, <1>6 DEF Range
<1> QED
  BY <1>1, <1>3, <1>7 DEF IsInjective, t

LEMMA Shortened ==
  ASSUME NEW S, NEW s \in Seq(S), s # <<>>, IsInjective(s)
  PROVE  /\ IsInjective(Tail(s))
         /\ Range(Tail(s)) = Range(s) \ {Head(s)}
         /\ Head(s) \in Range(s)
<1> DEFINE n == Len(s)
           t == Tail(s)
<1>1. /\ n \in Nat \ {0} /\ DOMAIN s = 1..n /\ DOMAIN t = 1..n - 1
      /\ \A i \in 1..n - 1 : t[i] = s[i + 1] /\ i + 1 \in 1..n
      /\ Head(s) = s[1] /\ 1 \in 1..n
  OBVIOUS
<1> HIDE DEF n, t
<1>2. \A i, j \in 1..n - 1 : t[i] = t[j] => i = j
  <2> SUFFICES ASSUME NEW i \in 1..n - 1, NEW j \in 1..n - 1, t[i] = t[j]
               PROVE  i = j
    OBVIOUS
  <2>1. i + 1 = j + 1
    <3>1. s[i + 1] = s[j + 1] /\ i + 1 \in DOMAIN s /\ j + 1 \in DOMAIN s
      BY <1>1
    <3>2. \A a, b \in DOMAIN s : s[a] = s[b] => a = b
      BY DEF IsInjective
    <3> QED
      BY <3>1, <3>2
  <2> QED
    BY <2>1, <1>1
<1>3. \A i \in 1..n - 1 : t[i] \in Range(s) \ {Head(s)}
  <2> TAKE i \in 1..n - 1
  <2>1. i + 1 \in 1..n /\ i + 1 # 1
    BY <1>1
  <2>2. s[i + 1] # s[1]
    BY <2>1, <1>1 DEF IsInjective
  <2>3. s[i + 1] \in Range(s)
    BY <2>1, <1>1 DEF Range
  <2> QED
    BY <2>2, <2>3, <1>1
<1>4. ASSUME NEW y \in Range(s), y # Head(s)
      PROVE  y \in Range(t)
  <2>1. PICK k \in 1..n : y = s[k]
    BY <1>1, <1>4 DEF Range
  <2>2. k - 1 \in 1..n - 1 /\ (k - 1) + 1 = k
    BY <1>1, <2>1, <1>4
  <2> QED
    BY <1>1, <2>1, <2>2 DEF Range
<1>5. Range(t) \subseteq Range(s) \ {Head(s)}
  BY <1>1, <1>3 DEF Range
<1>6. Head(s) \in Range(s)
  BY <1>1 DEF Range
<1>7. IsInjective(t)
  BY <1>1, <1>2 DEF IsInjective
<1> QED
  BY <1>4, <1>5, <1>6, <1>7 DEF t

\* What is in the middle of a queue without repetitions is nowhere else.
LEMMA TakenOut ==
  ASSUME NEW S, NEW a \in Seq(S), NEW b \in Seq(S), NEW c \in Seq(S),
         IsInjective(a \o (b \o c))
  PROVE  /\ IsInjective(a \o c)
         /\ Range(a \o c) \cap Range(b) = {}
         /\ Range(a \o (b \o c)) = Range(a \o c) \cup Range(b)
<1> DEFINE l == Len(a)
           m == Len(b)
           n == Len(c)
           s == a \o (b \o c)
           t == a \o c
<1>1. /\ l \in Nat /\ m \in Nat /\ n \in Nat
      /\ DOMAIN s = 1..l + m + n /\ DOMAIN t = 1..l + n
      /\ DOMAIN b = 1..m
  OBVIOUS
<1>2. /\ \A i \in 1..l : t[i] = s[i]
      /\ \A i \in l + 1..l + n : t[i] = s[i + m]
      /\ \A i \in 1..m : b[i] = s[l + i]
  OBVIOUS
<1>3. Range(s) = Range(t) \cup Range(b)
  <2>1. ASSUME NEW d \in Seq(S)
        PROVE  Range(a \o d) = Range(a) \cup Range(d)
    BY RangeConcatenation
  <2>2. Range(s) = Range(a) \cup Range(b \o c)
    BY <2>1, ConcatProperties
  <2>3. Range(b \o c) = Range(b) \cup Range(c)
    BY RangeConcatenation
  <2>4. Range(t) = Range(a) \cup Range(c)
    BY RangeConcatenation
  <2> QED
    BY <2>2, <2>3, <2>4
<1>4. \A i, j \in 1..l + m + n : s[i] = s[j] => i = j
  BY <1>1 DEF IsInjective, s
<1> HIDE DEF l, m, n, s, t
<1> DEFINE At(i) == IF i <= l THEN i ELSE i + m
<1>5. \A i \in 1..l + n : t[i] = s[At(i)] /\ At(i) \in 1..l + m + n
  BY <1>1, <1>2
<1>6. \A i, j \in 1..l + n : t[i] = t[j] => i = j
  <2> SUFFICES ASSUME NEW i \in 1..l + n, NEW j \in 1..l + n, t[i] = t[j]
               PROVE  i = j
    OBVIOUS
  <2>1. At(i) = At(j)
    BY <1>4, <1>5
  <2> QED
    BY <2>1, <1>1
<1>7. \A i \in 1..l + n, j \in 1..m : t[i] # b[j]
  <2> TAKE i \in 1..l + n, j \in 1..m
  <2>1. At(i) # l + j /\ l + j \in 1..l + m + n
    BY <1>1
  <2>2. s[At(i)] # s[l + j]
    BY <2>1, <1>4, <1>5
  <2> QED
    BY <2>2, <1>2, <1>5
<1>8. Range(t) \cap Range(b) = {}
  BY <1>1, <1>7 DEF Range
<1> QED
  BY <1>1, <1>3, <1>6, <1>8 DEF IsInjective, s, t

-----------------------------------------------------------------------------
(* Types.                                                                  *)

\* What Receive does to the queues it moves a record between.
LEMMA ReceiveTypes ==
  ASSUME TypeOK, Receive, UNCHANGED overflow
  PROVE  /\ write' \in [Requests -> {"serving", "blocked", "accepted", "refused"}]
         /\ senders' \in Records
         /\ ch' \in Records /\ Len(ch') <= BufferSize
         /\ buf' \in Records
<1>1. /\ ch \in Seq(Requests) /\ ch # <<>> /\ buf \in Seq(Requests)
      /\ senders \in Seq(Requests)
      /\ buf' = Append(buf, Head(ch))
  BY DEF TypeOK, Records, Receive
<1>2. /\ Head(ch) \in Requests /\ Tail(ch) \in Seq(Requests)
      /\ Len(Tail(ch)) = Len(ch) - 1 /\ Len(ch) \in Nat
  BY <1>1
<1>3. CASE senders = <<>>
  <2>1. ch' = Tail(ch) /\ write' = write /\ senders' = senders
    BY <1>3 DEF Receive, requestVars
  <2>2. Len(ch') <= BufferSize
    BY <1>2, <2>1, WriterAssumption DEF TypeOK, WriterAssumption
  <2> QED
    BY <1>1, <1>2, <2>1, <2>2 DEF TypeOK, Records
<1>4. CASE senders # <<>>
  <2>1. Head(senders) \in Requests /\ Tail(senders) \in Seq(Requests)
    BY <1>1, <1>4
  <2>2. Len(Append(Tail(ch), Head(senders))) = Len(ch)
    BY <1>2, <2>1
  <2>3. /\ ch' = Append(Tail(ch), Head(senders))
        /\ senders' = Tail(senders)
        /\ write' = [write EXCEPT ![Head(senders)] = "accepted"]
    BY <1>4 DEF Receive, Mark
  <2>4. Len(ch') <= BufferSize
    BY <2>2, <2>3 DEF TypeOK
  <2>5. write' \in [Requests -> {"serving", "blocked", "accepted", "refused"}]
    BY <2>1, <2>3 DEF TypeOK
  <2> QED
    BY <1>1, <1>2, <2>1, <2>3, <2>4, <2>5 DEF Records
<1> QED
  BY <1>3, <1>4

\* The Manager, as the writer's one client sees it, keeps its types.
LEMMA ServiceTypes ==
  ASSUME TypeOK,
         \/ Service!Publish \/ Service!Announce \/ Service!Withdraw
         \/ Service!Cancel \/ Service!StopCall \/ Service!StopReturn
         \/ Service!GetCall(Writer) \/ Service!GetConn(Writer)
         \/ Service!GetFail(Writer) \/ Service!Release(Writer)
  PROVE  Service!TypeOK'
BY DEF TypeOK, Service!TypeOK, Service!Publish, Service!Announce,
       Service!Withdraw, Service!Cancel, Service!StopCall, Service!StopReturn,
       Service!GetCall, Service!GetConn, Service!GetFail, Service!Release

LEMMA TypesKept ==
  ASSUME TypeOK, [Next]_vars
  PROVE  TypeOK'
<1> USE DEF TypeOK, Records, requestVars, writerVars, ownerVars, logVars
<1>1. ASSUME UNCHANGED serviceVars
      PROVE  Service!TypeOK'
  BY <1>1 DEF serviceVars, Service!TypeOK
<1>2. ASSUME NEW r \in Requests, Enqueue(r) \/ Refuse(r) \/ Block(r)
      PROVE  TypeOK'
  <2>1. CASE Enqueue(r)
    <3>1. ch' \in Seq(Requests) /\ Len(ch') = Len(ch) + 1 /\ Len(ch) \in Nat
      BY <2>1, <1>2 DEF Enqueue
    <3>2. Len(ch') <= BufferSize
      BY <2>1, <3>1, WriterAssumption DEF Enqueue, HasRoom, WriterAssumption
    <3> QED
      BY <1>1, <2>1, <3>1, <3>2 DEF Enqueue, Mark
  <2>2. CASE Refuse(r)
    BY <1>1, <2>2 DEF Refuse, Mark
  <2>3. CASE Block(r)
    BY <1>1, <1>2, <2>3 DEF Block, Mark
  <2> QED
    BY <1>2, <2>1, <2>2, <2>3
<1>3. CASE ReceiveRecord \/ DrainRecord
  BY <1>1, <1>3, ReceiveTypes DEF ReceiveRecord, DrainRecord
<1>4. CASE TickFlush \/ StopSeen \/ DrainEnd \/ FlushNothing
  BY <1>1, <1>4 DEF TickFlush, StopSeen, DrainEnd, FlushNothing, Resume
<1>5. CASE FlushBatch
  BY <1>5, ServiceTypes DEF FlushBatch, Swap
<1>6. CASE GetOk
  BY <1>6, ServiceTypes DEF GetOk
<1>7. CASE GetFailed
  <2>1. Range(batch) \subseteq Requests
    BY RangeOfSeq
  <2> QED
    BY <1>7, <2>1, ServiceTypes DEF GetFailed, Resume
<1>8. CASE InsertStored
  BY <1>8, ServiceTypes DEF InsertStored, Resume
<1>9. CASE InsertFailed
  <2>1. Range(batch) \subseteq Requests
    BY RangeOfSeq
  <2> QED
    BY <1>9, <2>1, ServiceTypes DEF InsertFailed, Resume
<1>10. CASE CloseCall \/ CloseReturn
  BY <1>1, <1>10 DEF CloseCall, CloseReturn
<1>11. CASE StopManager \/ ManagerStep
  BY <1>11, ServiceTypes DEF StopManager, ManagerStep
<1>12. CASE UNCHANGED vars
  BY <1>1, <1>12 DEF vars
<1> QED
  BY <1>2, <1>3, <1>4, <1>5, <1>6, <1>7, <1>8, <1>9, <1>10, <1>11, <1>12
     DEF Next, WriterStep

-----------------------------------------------------------------------------
(* The requests that are blocked, and the bounds.                          *)

\* A slot is always taken by the request that has waited longest: while one
\* waits the channel stays full.
LEMMA SendersKept ==
  ASSUME IInv, [Next]_vars
  PROVE  BlockedOnlyWhenFull' /\ IsInjective(senders)'
<1> USE DEF IInv, BlockedOnlyWhenFull
<1>1. /\ ch \in Seq(Requests) /\ senders \in Seq(Requests)
      /\ write \in [Requests -> {"serving", "blocked", "accepted", "refused"}]
      /\ BufferSize \in Nat \ {0}
  BY WriterAssumption DEF TypeOK, Records, WriterAssumption
<1>2. ASSUME NEW r \in Requests, Enqueue(r) \/ Refuse(r)
      PROVE  BlockedOnlyWhenFull' /\ IsInjective(senders)'
  <2>1. senders' = senders /\ overflow' = overflow
    BY <1>2 DEF Enqueue, Refuse, ownerVars
  <2>2. /\ write[r] = "serving"
        /\ \E o \in {"accepted", "refused"} : write' = [write EXCEPT ![r] = o]
    BY <1>2 DEF Enqueue, Refuse, Mark
  <2>3. {q \in Requests : write'[q] = "blocked"} =
          {q \in Requests : write[q] = "blocked"}
    BY <1>1, <2>2
  <2>4. senders = <<>> \/ ch' = ch
    BY <1>1, <1>2 DEF Enqueue, Refuse, HasRoom
  <2> QED
    BY <2>1, <2>3, <2>4
<1>3. ASSUME NEW r \in Requests, Block(r)
      PROVE  BlockedOnlyWhenFull' /\ IsInjective(senders)'
  <2>1. /\ senders' = Append(senders, r) /\ overflow' = "block" /\ ch' = ch
        /\ write' = [write EXCEPT ![r] = "blocked"]
        /\ write[r] = "serving"
    BY <1>3 DEF Block, Mark, ownerVars
  <2>2. Len(ch') = BufferSize
    <3>1. Len(ch) \in Nat /\ Len(ch) <= BufferSize /\ ~(Len(ch) < BufferSize)
      BY <1>1, <1>3 DEF Block, HasRoom, TypeOK
    <3> QED
      BY <1>1, <2>1, <3>1
  <2>3. r \notin Range(senders)
    BY <2>1
  <2>4. IsInjective(senders') /\ Range(senders') = Range(senders) \cup {r}
    BY <1>1, <2>1, <2>3, Extended
  <2>5. {q \in Requests : write'[q] = "blocked"} =
          {q \in Requests : write[q] = "blocked"} \cup {r}
    BY <1>1, <2>1
  <2> QED
    BY <2>1, <2>2, <2>4, <2>5
<1>4. ASSUME Receive, UNCHANGED overflow
      PROVE  BlockedOnlyWhenFull' /\ IsInjective(senders)'
  <2>1. CASE senders = <<>>
    BY <1>4, <2>1 DEF Receive, requestVars
  <2>2. CASE senders # <<>>
    <3>1. /\ ch # <<>> /\ ch' = Append(Tail(ch), Head(senders))
          /\ senders' = Tail(senders)
          /\ write' = [write EXCEPT ![Head(senders)] = "accepted"]
      BY <1>4, <2>2 DEF Receive, Mark
    <3>2. Len(ch') = Len(ch)
      BY <1>1, <2>2, <3>1
    <3>3. /\ IsInjective(senders')
          /\ Range(senders') = Range(senders) \ {Head(senders)}
          /\ Head(senders) \in Range(senders)
      BY <1>1, <2>2, <3>1, Shortened
    <3>4. {q \in Requests : write'[q] = "blocked"} =
            {q \in Requests : write[q] = "blocked"} \ {Head(senders)}
      BY <1>1, <3>1
    <3> QED
      BY <1>4, <2>2, <3>2, <3>3, <3>4
  <2> QED
    BY <2>1, <2>2
<1>5. ASSUME UNCHANGED <<requestVars, ch, overflow>>
      PROVE  BlockedOnlyWhenFull' /\ IsInjective(senders)'
  BY <1>5 DEF requestVars
<1>6. CASE WriterStep
  BY <1>4, <1>5, <1>6
     DEF WriterStep, ReceiveRecord, TickFlush, StopSeen, DrainRecord,
         DrainEnd, FlushNothing, FlushBatch, GetOk, GetFailed, InsertStored,
         InsertFailed, ownerVars
<1>7. CASE CloseCall \/ CloseReturn \/ StopManager \/ ManagerStep
  BY <1>5, <1>7 DEF CloseCall, CloseReturn, StopManager, ManagerStep, ownerVars
<1>8. CASE UNCHANGED vars
  BY <1>5, <1>8 DEF vars, ownerVars
<1> QED
  BY <1>2, <1>3, <1>6, <1>7, <1>8 DEF Next

\* The goroutine goes round its loop and each time leaves buffer and batch as
\* the next point needs them.
LEMMA StageKept ==
  ASSUME IInv, [Next]_vars
  PROVE  BatchBounded' /\ WriterStage'
<1> USE DEF IInv, BatchBounded, WriterStage
<1>1. /\ buf \in Seq(Requests) /\ batch \in Seq(Requests)
      /\ BatchSize \in Nat \ {0} /\ final \in BOOLEAN
  BY WriterAssumption DEF TypeOK, Records, WriterAssumption
<1>2. Len(buf) \in Nat /\ Len(batch) \in Nat
  BY <1>1
<1>3. CASE ReceiveRecord
  <2>1. /\ Len(buf') = Len(buf) + 1 /\ batch' = batch /\ final' = final
        /\ closing' = closing /\ writer = "select"
        /\ writer' = IF Len(buf') >= BatchSize THEN "flush" ELSE "select"
    <3>1. Head(ch) \in Requests
      BY <1>3 DEF ReceiveRecord, Receive, TypeOK, Records
    <3> QED
      BY <1>1, <1>3, <3>1 DEF ReceiveRecord, Receive, Full, ownerVars
  <2> QED
    BY <1>1, <1>2, <2>1
<1>4. CASE DrainRecord
  BY <1>4 DEF DrainRecord, writerVars, ownerVars
<1>5. CASE TickFlush \/ StopSeen \/ DrainEnd
  BY <1>1, <1>2, <1>5 DEF TickFlush, StopSeen, DrainEnd, ownerVars
<1>6. CASE FlushNothing
  <2>1. Len(<<>>) = 0
    OBVIOUS
  <2> QED
    BY <1>1, <1>6, <2>1 DEF FlushNothing, Resume, ownerVars
<1>7. CASE FlushBatch
  BY <1>1, <1>2, <1>7 DEF FlushBatch, Swap, ownerVars
<1>8. CASE GetOk
  BY <1>1, <1>2, <1>8 DEF GetOk, ownerVars
<1>9. CASE GetFailed \/ InsertStored \/ InsertFailed
  <2>1. Len(<<>>) = 0
    OBVIOUS
  <2> QED
    BY <1>1, <1>9, <2>1 DEF GetFailed, InsertStored, InsertFailed, Resume,
                            ownerVars
<1>10. CASE CloseCall \/ CloseReturn
  BY <1>10 DEF CloseCall, CloseReturn, WriterExited, writerVars
<1>11. CASE \/ StopManager \/ ManagerStep \/ UNCHANGED vars
            \/ \E r \in Requests : Enqueue(r) \/ Refuse(r) \/ Block(r)
  BY <1>11 DEF StopManager, ManagerStep, vars, Enqueue, Refuse, Block,
               writerVars, ownerVars
<1> QED
  BY <1>3, <1>4, <1>5, <1>6, <1>7, <1>8, <1>9, <1>10, <1>11 DEF Next, WriterStep

-----------------------------------------------------------------------------
(* The records.                                                            *)

Kept    == Queue' = Queue /\ stored' = stored /\ lost' = lost
Joining == \E r \in Requests \ Accepted :
             /\ Queue' = Append(Queue, r) /\ Accepted' = Accepted \cup {r}
             /\ stored' = stored /\ lost' = lost
Settling ==
  /\ batch # <<>> /\ Queue = batch \o ch /\ Queue' = ch
  /\ \/ stored' = stored \o batch /\ lost' = lost
     \/ stored' = stored /\ lost' = lost \cup Range(batch)

\* A receive leaves the queue as it is, but for the record of a request that
\* was blocked, which joins it.
LEMMA ReceiveMoves ==
  ASSUME IInv, Receive, UNCHANGED <<batch, stored, lost>>
  PROVE  (Kept /\ Accepted' = Accepted) \/ Joining
<1>1. /\ batch \in Seq(Requests) /\ buf \in Seq(Requests) /\ ch \in Seq(Requests)
      /\ senders \in Seq(Requests) /\ ch # <<>>
      /\ write \in [Requests -> {"serving", "blocked", "accepted", "refused"}]
  BY DEF IInv, TypeOK, Records, Receive
<1> DEFINE s == batch \o buf
<1>2. s \in Seq(Requests) /\ Head(ch) \in Requests /\ Tail(ch) \in Seq(Requests)
  BY <1>1
<1>3. batch' \o buf' = Append(s, Head(ch))
  <2>1. batch' = batch /\ buf' = Append(buf, Head(ch))
    BY DEF Receive
  <2>2. batch \o Append(buf, Head(ch)) = Append(batch \o buf, Head(ch))
    BY <1>1, <1>2, Grown
  <2> QED
    BY <2>1, <2>2
<1> HIDE DEF s
<1>4. CASE senders = <<>>
  <2>1. Queue' = Append(s, Head(ch)) \o Tail(ch)
    BY <1>3, <1>4 DEF Queue, Receive
  <2>2. Queue' = s \o ch
    BY <1>1, <1>2, <2>1, Moved
  <2> QED
    BY <1>4, <2>2 DEF Kept, Queue, s, Accepted, Receive, requestVars
<1>5. CASE senders # <<>>
  <2>1. Head(senders) \in Requests
    BY <1>1, <1>5
  <2>2. Queue' = Append(s, Head(ch)) \o Append(Tail(ch), Head(senders))
    <3>1. ch' = Append(Tail(ch), Head(senders))
      BY <1>5 DEF Receive
    <3>2. Queue' = (batch' \o buf') \o ch'
      BY DEF Queue
    <3> QED
      BY <1>3, <3>1, <3>2
  <2>3. Append(s, Head(ch)) \in Seq(Requests)
    BY <1>2
  <2>4. Queue' = Append(Append(s, Head(ch)) \o Tail(ch), Head(senders))
    <3>1. \A x \in Requests :
            Append(s, Head(ch)) \o Append(Tail(ch), x) = Append(Append(s, Head(ch)) \o Tail(ch), x)
      BY <1>2, <2>3, Grown
    <3> QED
      BY <2>1, <2>2, <3>1
  <2>5. Queue' = Append(Queue, Head(senders))
    <3>1. Append(s, Head(ch)) \o Tail(ch) = s \o ch
      BY <1>1, <1>2, Moved
    <3> QED
      BY <2>4, <3>1 DEF Queue, s
  <2>6. write[Head(senders)] = "blocked"
    <3>1. Head(senders) \in Range(senders)
      BY <1>1, <1>5, Shortened DEF IInv
    <3> QED
      BY <3>1 DEF IInv, BlockedOnlyWhenFull
  <2>7. write' = [write EXCEPT ![Head(senders)] = "accepted"]
    BY <1>5 DEF Receive, Mark
  <2>8. Accepted' = Accepted \cup {Head(senders)} /\ Head(senders) \notin Accepted
    BY <1>1, <2>1, <2>6, <2>7 DEF Accepted
  <2> QED
    BY <2>1, <2>5, <2>8 DEF Joining
<1> QED
  BY <1>4, <1>5

\* What a step does to the queue: nothing, a record joins it at the end, or
\* the batch at its front is stored or lost.
LEMMA QueueMoves ==
  ASSUME IInv, [Next]_vars
  PROVE  \/ Kept /\ Accepted' = Accepted
         \/ Joining
         \/ Settling /\ Accepted' = Accepted
<1>1. /\ batch \in Seq(Requests) /\ buf \in Seq(Requests) /\ ch \in Seq(Requests)
      /\ write \in [Requests -> {"serving", "blocked", "accepted", "refused"}]
  BY DEF IInv, TypeOK, Records
<1>2. ASSUME UNCHANGED <<requestVars, ch, buf, batch, logVars>>
      PROVE  Kept /\ Accepted' = Accepted
  BY <1>2 DEF Kept, Queue, Accepted, requestVars, logVars
<1>3. ASSUME NEW r \in Requests, Enqueue(r)
      PROVE  Joining
  <2>1. /\ write[r] = "serving" /\ ch' = Append(ch, r) /\ UNCHANGED <<batch, buf>>
        /\ write' = [write EXCEPT ![r] = "accepted"] /\ UNCHANGED logVars
    BY <1>3 DEF Enqueue, Mark
  <2>2. batch \o buf \in Seq(Requests)
    BY <1>1
  <2>3. Queue' = Append(Queue, r)
    BY <1>1, <2>1, <2>2, Grown DEF Queue
  <2>4. Accepted' = Accepted \cup {r} /\ r \notin Accepted
    BY <1>1, <2>1 DEF Accepted
  <2> QED
    BY <2>1, <2>3, <2>4 DEF Joining, logVars
<1>4. ASSUME NEW r \in Requests, Refuse(r) \/ Block(r)
      PROVE  Kept /\ Accepted' = Accepted
  <2>1. /\ UNCHANGED <<ch, buf, batch, logVars>> /\ write[r] = "serving"
        /\ \E o \in {"refused", "blocked"} : write' = [write EXCEPT ![r] = o]
    BY <1>4 DEF Refuse, Block, Mark
  <2>2. Accepted' = Accepted
    BY <1>1, <2>1 DEF Accepted
  <2> QED
    BY <2>1, <2>2 DEF Kept, Queue, logVars
<1>5. CASE ReceiveRecord \/ DrainRecord
  BY <1>5, ReceiveMoves DEF ReceiveRecord, DrainRecord, logVars
<1>6. CASE FlushBatch
  <2>1. /\ batch = <<>> /\ batch' = buf /\ buf' = <<>> /\ ch' = ch
        /\ UNCHANGED <<requestVars, logVars>>
    BY <1>6 DEF FlushBatch, Swap, IInv, WriterStage
  <2>2. <<>> \o buf = buf /\ buf \o <<>> = buf
    BY <1>1
  <2> QED
    BY <2>1, <2>2 DEF Kept, Queue, Accepted, requestVars, logVars
<1>7. CASE GetFailed \/ InsertStored \/ InsertFailed
  <2>1. /\ buf = <<>> /\ batch # <<>> /\ batch' = <<>> /\ buf' = buf /\ ch' = ch
        /\ \/ stored' = stored \o batch /\ lost' = lost
           \/ stored' = stored /\ lost' = lost \cup Range(batch)
        /\ UNCHANGED requestVars
    BY <1>7 DEF GetFailed, InsertStored, InsertFailed, IInv, WriterStage
  <2>2. batch \o <<>> = batch /\ <<>> \o ch = ch /\ <<>> \o <<>> = <<>>
    BY <1>1
  <2> QED
    BY <2>1, <2>2 DEF Settling, Queue, Accepted, requestVars
<1>8. CASE TickFlush \/ StopSeen \/ DrainEnd \/ FlushNothing \/ GetOk
  BY <1>2, <1>8 DEF TickFlush, StopSeen, DrainEnd, FlushNothing, GetOk
<1>9. CASE CloseCall \/ CloseReturn \/ StopManager \/ ManagerStep
  BY <1>2, <1>9 DEF CloseCall, CloseReturn, StopManager, ManagerStep
<1>10. CASE UNCHANGED vars
  BY <1>2, <1>10 DEF vars
<1> QED
  BY <1>3, <1>4, <1>5, <1>6, <1>7, <1>8, <1>9, <1>10 DEF Next, WriterStep

LEMMA OnceKept ==
  ASSUME IInv, [Next]_vars
  PROVE  EveryRecordOnce'
<1>1. /\ batch \in Seq(Requests) /\ buf \in Seq(Requests) /\ ch \in Seq(Requests)
      /\ stored \in Seq(Requests) /\ Queue \in Seq(Requests)
      /\ Trail \in Seq(Requests)
  BY DEF IInv, TypeOK, Records, Queue, Trail
<1>2. /\ IsInjective(Trail) /\ Range(Trail) \cap lost = {}
      /\ Range(Trail) \cup lost = Accepted
  BY DEF IInv, EveryRecordOnce
<1>3. CASE Kept /\ Accepted' = Accepted
  BY <1>2, <1>3 DEF Kept, EveryRecordOnce, Trail
<1>4. CASE Joining
  <2>1. PICK r \in Requests \ Accepted :
          /\ Queue' = Append(Queue, r) /\ Accepted' = Accepted \cup {r}
          /\ stored' = stored /\ lost' = lost
    BY <1>4 DEF Joining
  <2>2. Trail' = Append(Trail, r)
    <3>1. stored \o Append(Queue, r) = Append(stored \o Queue, r)
      BY <1>1, Grown
    <3> QED
      BY <2>1, <3>1 DEF Trail
  <2>3. r \notin Range(Trail)
    BY <1>2, <2>1
  <2>4. /\ IsInjective(Append(Trail, r))
        /\ Range(Append(Trail, r)) = Range(Trail) \cup {r}
    BY <1>1, <1>2, <2>1, <2>3, Extended
  <2> QED
    BY <1>2, <2>1, <2>2, <2>4 DEF EveryRecordOnce
<1>5. CASE Settling /\ Accepted' = Accepted
  <2>1. Trail = stored \o (batch \o ch)
    BY <1>5 DEF Settling, Trail
  <2>2. CASE stored' = stored \o batch /\ lost' = lost
    <3>1. Trail' = Trail
      <4>1. Trail' = (stored \o batch) \o ch
        BY <1>5, <2>2 DEF Settling, Trail
      <4>2. (stored \o batch) \o ch = stored \o (batch \o ch)
        BY <1>1, ConcatAssociative
      <4>3. (stored \o batch) \o ch = Trail
        BY <2>1, <4>2, Zenon
      <4> QED
        BY <4>1, <4>3, Zenon
    <3> QED
      BY <1>2, <1>5, <2>2, <3>1 DEF EveryRecordOnce
  <2>3. CASE stored' = stored /\ lost' = lost \cup Range(batch)
    <3>1. Trail' = stored \o ch
      BY <1>5, <2>3 DEF Settling, Trail
    <3>2. /\ IsInjective(Trail')
          /\ Range(Trail') \cap Range(batch) = {}
          /\ Range(Trail) = Range(Trail') \cup Range(batch)
      BY <1>1, <1>2, <2>1, <3>1, TakenOut
    <3> QED
      BY <1>2, <1>5, <2>3, <3>2 DEF EveryRecordOnce
  <2> QED
    BY <1>5, <2>2, <2>3 DEF Settling
<1> QED
  BY <1>3, <1>4, <1>5, QueueMoves

-----------------------------------------------------------------------------
(* The theorems.                                                           *)

LEMMA InitIInv == Init => IInv
<1> SUFFICES ASSUME Init PROVE IInv
  OBVIOUS
<1>1. Len(<<>>) = 0 /\ <<>> \in Seq(Requests) /\ <<>> \o <<>> = <<>>
  OBVIOUS
<1>2. TypeOK
  <2>1. Service!TypeOK
    BY DEF Init, Service!Init, Service!TypeOK
  <2>2. Len(ch) <= BufferSize
    BY <1>1, WriterAssumption DEF Init, WriterAssumption
  <2> QED
    BY <1>1, <2>1, <2>2 DEF Init, TypeOK, Records
<1>3. Trail = <<>>
  BY <1>1 DEF Init, Trail, Queue
<1>4. IsInjective(<<>>) /\ Range(<<>>) = {}
  BY DEF IsInjective, Range
<1>5. EveryRecordOnce
  BY <1>3, <1>4 DEF Init, EveryRecordOnce, Accepted
<1>6. BlockedOnlyWhenFull /\ IsInjective(senders)
  BY <1>4 DEF Init, BlockedOnlyWhenFull
<1>7. BatchBounded /\ WriterStage
  BY <1>1, WriterAssumption
     DEF Init, BatchBounded, WriterStage, WriterAssumption
<1> QED
  BY <1>2, <1>5, <1>6, <1>7 DEF IInv

LEMMA NextIInv == IInv /\ [Next]_vars => IInv'
BY TypesKept, SendersKept, StageKept, OnceKept DEF IInv

\* The inductive invariant: types, the one place of every record, the order
\* and the reason in which requests are blocked, the bounds of a batch and
\* what the goroutine holds at each of its points.
THEOREM Invariance == Spec => []IInv
BY InitIInv, NextIInv, PTL DEF Spec

\* No record that Write has accepted is doubled or disappears, whatever the
\* sizes, the number of requests and the failures in between.
THEOREM RecordsOnce == Spec => []EveryRecordOnce
<1>1. IInv => EveryRecordOnce
  BY DEF IInv
<1> QED
  BY <1>1, Invariance, PTL

\* After Close has returned no step of the writer uses the table, its buffers
\* or the connection.
THEOREM CloseIsFinal == Spec => QuietAfterClose
<1>1. IInv /\ [Next]_vars =>
        [closing = "returned" => UNCHANGED <<stored, lost, buf, batch, held>>]_vars
  <2> SUFFICES ASSUME IInv, Next, closing = "returned"
               PROVE  UNCHANGED <<stored, lost, buf, batch, held>>
    OBVIOUS
  <2>1. writer = "done"
    BY DEF IInv, WriterStage
  <2>2. ~WriterStep
    BY <2>1 DEF WriterStep, ReceiveRecord, TickFlush, StopSeen, DrainRecord,
                DrainEnd, FlushNothing, FlushBatch, GetOk, GetFailed,
                InsertStored, InsertFailed
  <2>3. CASE \E r \in Requests : Enqueue(r) \/ Refuse(r) \/ Block(r)
    BY <2>3 DEF Enqueue, Refuse, Block, serviceVars, logVars
  <2>4. CASE CloseCall \/ CloseReturn
    BY <2>4 DEF CloseCall, CloseReturn, serviceVars, logVars
  <2>5. CASE StopManager \/ ManagerStep
    BY <2>5 DEF StopManager, ManagerStep, logVars, Service!StopCall,
                Service!Publish, Service!Announce, Service!Withdraw,
                Service!Cancel, Service!StopReturn
  <2> QED
    BY <2>2, <2>3, <2>4, <2>5 DEF Next
<1> QED
  BY <1>1, Invariance, PTL DEF Spec, QuietAfterClose

\* A batch that is settled is what the request log has at its front.
LEMMA SettlingIsSettled ==
  ASSUME IInv, Settling
  PROVE  Log!Store \/ Log!GiveUp
<1> DEFINE n == Len(batch)
<1>1. /\ batch \in Seq(Requests) /\ ch \in Seq(Requests)
      /\ batch # <<>> /\ Queue = batch \o ch /\ Queue' = ch
  BY DEF IInv, TypeOK, Records, Settling
<1>2. n \in 1..Len(Queue) /\ Len(Queue) = n + Len(ch) /\ Len(ch) \in Nat
  BY <1>1
<1>3. SubSeq(Queue, 1, n) = batch
  BY <1>1
<1>4. SubSeq(Queue, n + 1, Len(Queue)) = ch
  BY <1>1
<1>5. CASE stored' = stored \o batch /\ lost' = lost
  BY <1>1, <1>2, <1>3, <1>4, <1>5 DEF Log!Store, Log!Front, Log!Rest
<1>6. CASE stored' = stored /\ lost' = lost \cup Range(batch)
  <2>1. Range(batch) = {batch[i] : i \in 1..n}
    BY <1>1 DEF Range
  <2>2. \A i \in 1..n : batch[i] = Queue[i]
    BY <1>1
  <2>3. Range(batch) = {Queue[i] : i \in 1..n}
    BY <2>1, <2>2
  <2> QED
    BY <1>1, <1>2, <1>4, <1>6, <2>3 DEF Log!GiveUp, Log!Rest
<1> QED
  BY <1>5, <1>6 DEF Settling

\* A record that joins the queue was never in the request log.
LEMMA JoiningIsAccepted ==
  ASSUME IInv, Joining
  PROVE  Log!Accept
<1>1. PICK r \in Requests \ Accepted :
        Queue' = Append(Queue, r) /\ stored' = stored /\ lost' = lost
  BY DEF Joining
<1>2. r \notin lost /\ r \notin Range(Trail)
  BY <1>1 DEF IInv, EveryRecordOnce
<1>3. Queue \in Seq(Requests) /\ stored \in Seq(Requests)
  BY DEF IInv, TypeOK, Records, Queue
<1>4. Range(Trail) = Range(stored) \cup Range(Queue)
  BY <1>3, RangeConcatenation DEF Trail
<1>5. /\ \A i \in DOMAIN Queue : Queue[i] # r
      /\ \A i \in DOMAIN stored : stored[i] # r
  BY <1>2, <1>4 DEF Range
<1> QED
  BY <1>1, <1>2, <1>5 DEF Log!Accept

\* The channel, the buffer and the batch together are the request log's
\* queue: every step of the writer, its requests, Cleanup and the Manager is
\* a step of the log or none.
THEOREM ImplementsLog == Spec => ImplementsRequestLog
<1>1. Init => Log!Init
  <2>1. <<>> \o <<>> = <<>>
    OBVIOUS
  <2> QED
    BY <2>1 DEF Init, Log!Init, Queue
<1>2. IInv /\ [Next]_vars => [Log!Next]_(Log!logVars)
  <2> SUFFICES ASSUME IInv, [Next]_vars
               PROVE  Log!Next \/ UNCHANGED Log!logVars
    OBVIOUS
  <2>1. CASE Kept
    BY <2>1 DEF Kept, Log!logVars
  <2>2. CASE Joining
    BY <2>2, JoiningIsAccepted DEF Log!Next
  <2>3. CASE Settling
    BY <2>3, SettlingIsSettled DEF Log!Next
  <2> QED
    BY <2>1, <2>2, <2>3, QueueMoves
<1> QED
  BY <1>1, <1>2, Invariance, PTL DEF Spec, ImplementsRequestLog, Log!Spec
=============================================================================
