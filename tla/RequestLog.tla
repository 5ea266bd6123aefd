----------------------------- MODULE RequestLog -----------------------------
(***************************************************************************)
(* What the request log promises: a queue of records in the order in which *)
(* they were accepted.  From its front, one batch at a time, records are   *)
(* stored in the log table or given up; each record is settled once.       *)
(* BatchWriter.tla implements it.                                          *)
(***************************************************************************)
EXTENDS Naturals, Sequences

CONSTANT Requests   \* every request logs one record

VARIABLES
  pending,   \* accepted, not settled yet
  stored,    \* the log table
  lost       \* accepted and given up

logVars == <<pending, stored, lost>>

Init ==
  /\ pending = <<>>
  /\ stored = <<>>
  /\ lost = {}

\* Each record is accepted at most once: a request writes one.
Accept ==
  \E r \in Requests \ lost :
    /\ \A i \in DOMAIN pending : pending[i] # r
    /\ \A i \in DOMAIN stored : stored[i] # r
    /\ pending' = Append(pending, r)
    /\ UNCHANGED <<stored, lost>>

Front(n) == SubSeq(pending, 1, n)
Rest(n)  == SubSeq(pending, n + 1, Len(pending))

Store ==
  \E n \in 1..Len(pending) :
    /\ stored' = stored \o Front(n)
    /\ pending' = Rest(n)
    /\ UNCHANGED lost

GiveUp ==
  \E n \in 1..Len(pending) :
    /\ lost' = lost \cup {pending[i] : i \in 1..n}
    /\ pending' = Rest(n)
    /\ UNCHANGED stored

Next == Accept \/ Store \/ GiveUp

Spec == Init /\ [][Next]_logVars
=============================================================================
