----------------------------- MODULE RateLimiter -----------------------------
(***************************************************************************)
(* The rate limiter of query_registry.go: one bucket for each key (method, *)
(* path and client address, of the request, which ServeHTTP puts together),*)
(* a fixed window that the first request after the end of the last one     *)
(* opens.  The whole of checkRateLimit runs under rateMu and reads the     *)
(* clock there, so it is one step.  A route without a limit, or with a     *)
(* limit that is not positive, does not come here.                         *)
(***************************************************************************)
EXTENDS Naturals, Sequences, FiniteSets

CONSTANTS
  Keys,      \* method|path|address of requests
  Limit,     \* RateLimit.Requests
  Window,    \* RateLimit.Window, in ticks of the clock
  MaxTime    \* bound on the clock of a run

ASSUME LimiterAssumption ==
  /\ Limit \in Nat \ {0}
  /\ Window \in Nat
  /\ MaxTime \in Nat

VARIABLES
  now,      \* time.Now()
  rates,    \* the buckets; a count of 0 is a key without one
  granted   \* history: when the requests of each key were admitted

vars == <<now, rates, granted>>

TypeOK ==
  /\ now \in 0..MaxTime
  /\ rates \in [Keys -> [count : 0..Limit, reset : 0..MaxTime + Window]]
  /\ granted \in [Keys -> Seq(0..MaxTime)]

Init ==
  /\ now = 0
  /\ rates = [k \in Keys |-> [count |-> 0, reset |-> 0]]
  /\ granted = [k \in Keys |-> <<>>]

-----------------------------------------------------------------------------

Grant(k) == granted' = [granted EXCEPT ![k] = Append(@, now)]

\* Faulty variant: a window ends one moment early.
ExpiredEarly(k) == rates[k].count = 0 \/ now >= rates[k].reset

Expired(k) == rates[k].count = 0 \/ now > rates[k].reset

\* The first request of a key, or of a new window.
OpenWindow(k) ==
  /\ Expired(k)
  /\ rates' = [rates EXCEPT ![k] = [count |-> 1, reset |-> now + Window]]
  /\ Grant(k)
  /\ UNCHANGED now

Room(k) == rates[k].count < Limit

\* Faulty variant: every request pushes the end of the window on.
CountedAndExtended(b) == [count |-> b.count + 1, reset |-> now + Window]

Counted(b) == [b EXCEPT !.count = @ + 1]

Admit(k) ==
  /\ ~Expired(k)
  /\ Room(k)
  /\ rates' = [rates EXCEPT ![k] = Counted(@)]
  /\ Grant(k)
  /\ UNCHANGED now

Refuse(k) ==
  /\ ~Expired(k)
  /\ ~Room(k)
  /\ UNCHANGED vars

Tick ==
  /\ now < MaxTime
  /\ now' = now + 1
  /\ UNCHANGED <<rates, granted>>

Next == Tick \/ \E k \in Keys : OpenWindow(k) \/ Admit(k) \/ Refuse(k)

Spec == Init /\ [][Next]_vars

-----------------------------------------------------------------------------
(* Safety.                                                                 *)

\* How many requests of k were admitted from one time to another.
Admitted(k, from, to) ==
  Cardinality({i \in DOMAIN granted[k] : granted[k][i] \in from..to})

(***************************************************************************)
(* Nobody is refused for an old burst: whenever a request would be refused *)
(* Limit requests were admitted within the last Window.                    *)
(***************************************************************************)
RefusedOnlyWhenFull ==
  \A k \in Keys :
    ~Expired(k) /\ ~Room(k) =>
      \E t \in 0..now : now <= t + Window /\ Admitted(k, t, now) >= Limit

-----------------------------------------------------------------------------
(* The inductive invariant it rests on.                                    *)

\* When the window of k opened, and the first request it admitted.
Opened(k) == rates[k].reset - Window
First(k)  == Len(granted[k]) - rates[k].count + 1

\* A bucket counts the requests of its window, which its opening leads.
WindowCounted ==
  \A k \in Keys :
    LET g == granted[k] IN
    /\ rates[k].count = 0 => g = <<>>
    /\ rates[k].count > 0 =>
         /\ rates[k].count <= Len(g)
         /\ Opened(k) \in 0..now
         /\ g[First(k)] = Opened(k)
         /\ \A i \in DOMAIN g :
              /\ i <= First(k) => g[i] <= Opened(k)
              /\ i >= First(k) => g[i] >= Opened(k)

\* A window has at most Limit requests and opens more than Window after the
\* last one did, so whatever lies Limit places before its first request is
\* more than Window older.
WindowsApart ==
  \A k \in Keys : rates[k].count > 0 =>
    \A i \in DOMAIN granted[k] :
      i + Limit <= First(k) => granted[k][i] + Window < Opened(k)

NeverAhead ==
  \A k \in Keys : \A i \in DOMAIN granted[k] : granted[k][i] <= now

\* The windows are fixed, so requests gather at the end of one and at the
\* start of the next; still, 2 * Limit in a row take more than a Window.
Spaced ==
  \A k \in Keys : \A i, j \in DOMAIN granted[k] :
    j >= i + 2 * Limit - 1 => granted[k][i] + Window < granted[k][j]

IInv == TypeOK /\ WindowCounted /\ WindowsApart /\ NeverAhead /\ Spaced
=============================================================================
