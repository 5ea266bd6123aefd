--------------------------- MODULE LiveHubHistory ---------------------------
(***************************************************************************)
(* LiveHub with what the code does not keep: which requests were attached  *)
(* to a live query when it sent each of its notifications.                 *)
(***************************************************************************)
EXTENDS LiveHub

VARIABLE audience

HInit == Init /\ audience = [i \in 1..MaxNotes |-> {}]

\* The requests that stream from the live query that sends a notification.
Listeners ==
  {g \in Clients : At(g, "streaming") /\ feed'[mine[g]] # feed[mine[g]]}

HNext ==
  /\ Next
  /\ audience' = IF notes' = notes THEN audience
                 ELSE [audience EXCEPT ![notes'] = Listeners]

HSpec == HInit /\ [][HNext]_<<vars, audience>> /\ Fairness

(***************************************************************************)
(* "subscribe registers a per-client fan-out" (live.go:82): a notification *)
(* reaches every client that was attached when it was sent, unless the     *)
(* client goes or the live query ends first.  The buffers are large enough *)
(* here: nothing is dropped.                                               *)
(***************************************************************************)
FanOut ==
  \A i \in 1..MaxNotes : \A g \in Clients :
    [](g \in audience[i] =>
         <>(\/ i \in shown[g]
            \/ ~At(g, "streaming")
            \/ ~Running(mine[g])))
=============================================================================
