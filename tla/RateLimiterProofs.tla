-------------------------- MODULE RateLimiterProofs --------------------------
(***************************************************************************)
(* For any keys, limit and window: the spacing of admitted requests that   *)
(* bounds them in every span of Window, and that no request is refused     *)
(* without Limit admitted ones behind it.                                  *)
(***************************************************************************)
EXTENDS RateLimiter, FiniteSetTheorems, WellFoundedInduction,
        SequenceTheorems, TLAPS

(***************************************************************************)
(* What IInv says of one key: of its n admitted requests g, the opening o  *)
(* of its window, the place p of the window's first request, at time t.    *)
(***************************************************************************)
Window1(g, n, o, p, t) ==
  /\ p \in 1..n
  /\ o \in 0..t
  /\ g[p] = o
  /\ \A i \in 1..n :
       /\ i <= p => g[i] <= o
       /\ i >= p => g[i] >= o
       /\ i + Limit <= p => g[i] + Window < o

Spaced1(g, n, t) ==
  /\ \A i \in 1..n : g[i] <= t
  /\ \A i, j \in 1..n : j >= i + 2 * Limit - 1 => g[i] + Window < g[j]

\* A window that opens when nothing was admitted, or after the end of the last.
LEMMA OpeningKeeps ==
  ASSUME NEW n \in Nat, NEW t \in Nat, NEW o, NEW p, NEW g, NEW h,
         \A i \in 1..n : g[i] \in Nat /\ h[i] = g[i],
         h[n + 1] = t,
         Spaced1(g, n, t),
         n = 0 \/ (Window1(g, n, o, p, t) /\ t > o + Window /\ p + Limit > n)
  PROVE  Window1(h, n + 1, t, n + 1, t) /\ Spaced1(h, n + 1, t)
<1>1. Limit \in Nat \ {0} /\ Window \in Nat
  BY LimiterAssumption DEF LimiterAssumption
<1>2. \A i \in 1..n : i + Limit <= n + 1 => h[i] + Window < t
  BY <1>1 DEF Window1
<1>3. \A i, j \in 1..n + 1 : j >= i + 2 * Limit - 1 => h[i] + Window < h[j]
  BY <1>1, <1>2 DEF Spaced1
<1> QED
  BY <1>1, <1>2, <1>3 DEF Window1, Spaced1

\* One more request in a window that has fewer than Limit.
LEMMA CountingKeeps ==
  ASSUME NEW n \in Nat, NEW t \in Nat, NEW o, NEW p, NEW g, NEW h,
         \A i \in 1..n : g[i] \in Nat /\ h[i] = g[i],
         h[n + 1] = t,
         Spaced1(g, n, t), Window1(g, n, o, p, t), p + Limit > n + 1
  PROVE  Window1(h, n + 1, o, p, t) /\ Spaced1(h, n + 1, t)
<1>1. Limit \in Nat \ {0} /\ Window \in Nat
  BY LimiterAssumption DEF LimiterAssumption
<1>2. \A i \in 1..n : i + 2 * Limit - 1 <= n + 1 => h[i] + Window < t
  BY <1>1 DEF Window1
<1>3. \A i, j \in 1..n + 1 : j >= i + 2 * Limit - 1 => h[i] + Window < h[j]
  BY <1>1, <1>2 DEF Spaced1
<1> QED
  BY <1>1, <1>3 DEF Window1, Spaced1

\* A tick of the clock.
LEMMA TimeKeeps ==
  ASSUME NEW n \in Nat, NEW t \in Nat, NEW o, NEW p, NEW g,
         \A i \in 1..n : g[i] \in Nat
  PROVE  /\ Spaced1(g, n, t) => Spaced1(g, n, t + 1)
         /\ Window1(g, n, o, p, t) => Window1(g, n, o, p, t + 1)
<1>1. Spaced1(g, n, t) => Spaced1(g, n, t + 1)
  <2> SUFFICES ASSUME Spaced1(g, n, t) PROVE Spaced1(g, n, t + 1)
    OBVIOUS
  <2>1. \A i \in 1..n : g[i] <= t + 1
    BY DEF Spaced1
  <2> QED BY <2>1 DEF Spaced1
<1>2. Window1(g, n, o, p, t) => Window1(g, n, o, p, t + 1)
  <2>1. o \in 0..t => o \in 0..(t + 1)
    OBVIOUS
  <2> QED BY <2>1, ZenonT(30) DEF Window1
<1> QED BY <1>1, <1>2

-----------------------------------------------------------------------------

KeyInv(k) ==
  LET g == granted[k] IN
  /\ rates[k].count = 0 => g = <<>>
  /\ rates[k].count > 0 =>
       /\ rates[k].count <= Len(g)
       /\ Window1(g, Len(g), Opened(k), First(k), now)
  /\ Spaced1(g, Len(g), now)

LEMMA Typed ==
  ASSUME TypeOK, NEW k \in Keys
  PROVE  /\ Limit \in Nat \ {0} /\ Window \in Nat /\ now \in Nat
         /\ rates[k].count \in 0..Limit /\ rates[k].reset \in Nat
         /\ granted[k] \in Seq(Nat) /\ Len(granted[k]) \in Nat
         /\ DOMAIN granted[k] = 1..Len(granted[k])
         /\ \A i \in 1..Len(granted[k]) : granted[k][i] \in Nat
<1>1. granted[k] \in Seq(0..MaxTime) /\ 0..MaxTime \subseteq Nat
  BY DEF TypeOK
<1>2. granted[k] \in Seq(Nat)
  BY <1>1, SeqMonotonic
<1> QED BY <1>2, LimiterAssumption DEF LimiterAssumption, TypeOK

KeysInv == TypeOK /\ \A k \in Keys : KeyInv(k)

LEMMA ByKey == IInv <=> TypeOK /\ \A k \in Keys : KeyInv(k)
<1> SUFFICES ASSUME TypeOK
             PROVE  WindowCounted /\ WindowsApart /\ NeverAhead /\ Spaced
                      <=> \A k \in Keys : KeyInv(k)
  BY DEF IInv
<1>1. ASSUME NEW k \in Keys, rates[k].count > 0, rates[k].count <= Len(granted[k])
      PROVE  First(k) \in 1..Len(granted[k])
  BY <1>1, Typed DEF First
<1>2. WindowCounted /\ WindowsApart /\ NeverAhead /\ Spaced
        => \A k \in Keys : KeyInv(k)
  BY <1>1, Typed DEF WindowCounted, WindowsApart, NeverAhead, Spaced, KeyInv,
                     Window1, Spaced1
<1>3. (\A k \in Keys : KeyInv(k))
        => WindowCounted /\ WindowsApart /\ NeverAhead /\ Spaced
  BY <1>1, Typed DEF WindowCounted, WindowsApart, NeverAhead, Spaced, KeyInv,
                     Window1, Spaced1
<1> QED BY <1>2, <1>3

\* What a bucket and its history become when a request is admitted.
LEMMA GrantStep ==
  ASSUME TypeOK, NEW k \in Keys,
         NEW b \in [count : 0..Limit, reset : 0..MaxTime + Window],
         rates' = [rates EXCEPT ![k] = b], Grant(k), UNCHANGED now
  PROVE  /\ TypeOK'
         /\ rates'[k] = b
         /\ granted'[k] = Append(granted[k], now)
         /\ \A x \in Keys \ {k} : rates'[x] = rates[x] /\ granted'[x] = granted[x]
  BY DEF TypeOK, Grant

LEMMA Longer ==
  ASSUME TypeOK, NEW k \in Keys, granted'[k] = Append(granted[k], now)
  PROVE  /\ Len(granted'[k]) = Len(granted[k]) + 1
         /\ granted'[k][Len(granted[k]) + 1] = now
         /\ \A i \in 1..Len(granted[k]) :
              granted[k][i] \in Nat /\ granted'[k][i] = granted[k][i]
  BY Typed

LEMMA OpenWindowStep ==
  ASSUME TypeOK, NEW k \in Keys, KeyInv(k), OpenWindow(k)
  PROVE  /\ TypeOK' /\ KeyInv(k)' /\ now' = now
         /\ \A x \in Keys \ {k} : rates'[x] = rates[x] /\ granted'[x] = granted[x]
<1> DEFINE b == [count |-> 1, reset |-> now + Window]
<1>1. /\ b \in [count : 0..Limit, reset : 0..MaxTime + Window]
      /\ rates' = [rates EXCEPT ![k] = b] /\ Grant(k) /\ now' = now
  BY LimiterAssumption DEF LimiterAssumption, TypeOK, OpenWindow
<1>2. /\ TypeOK'
      /\ rates'[k] = b /\ granted'[k] = Append(granted[k], now)
      /\ \A x \in Keys \ {k} : rates'[x] = rates[x] /\ granted'[x] = granted[x]
  BY <1>1, GrantStep
<1>3. PICK n \in Nat : n = Len(granted[k])
  BY Typed
<1>4. n = 0 \/ (/\ Window1(granted[k], n, Opened(k), First(k), now)
                /\ now > Opened(k) + Window
                /\ First(k) + Limit > n)
  BY <1>3, Typed DEF KeyInv, OpenWindow, Expired, Opened, First
<1>5. /\ Window1(granted'[k], n + 1, now, n + 1, now)
      /\ Spaced1(granted'[k], n + 1, now)
  <2>1. Spaced1(granted[k], n, now) /\ now \in Nat
    BY <1>3, Typed DEF KeyInv
  <2>2. /\ granted'[k][n + 1] = now
        /\ \A i \in 1..n : granted[k][i] \in Nat /\ granted'[k][i] = granted[k][i]
    BY <1>2, <1>3, Longer
  <2> QED BY <1>4, <2>1, <2>2, OpeningKeeps
<1>6. Len(granted'[k]) = n + 1
  BY <1>2, <1>3, Longer
<1>7. /\ rates'[k].count = 1 /\ Opened(k)' = now /\ First(k)' = n + 1
  BY <1>2, <1>6, Typed DEF Opened, First
<1>8. KeyInv(k)'
  BY <1>1, <1>5, <1>6, <1>7 DEF KeyInv
<1> QED BY <1>1, <1>2, <1>8

LEMMA AdmitStep ==
  ASSUME TypeOK, NEW k \in Keys, KeyInv(k), Admit(k)
  PROVE  /\ TypeOK' /\ KeyInv(k)' /\ now' = now
         /\ \A x \in Keys \ {k} : rates'[x] = rates[x] /\ granted'[x] = granted[x]
<1> DEFINE b == [rates[k] EXCEPT !.count = @ + 1]
<1>1. /\ b \in [count : 0..Limit, reset : 0..MaxTime + Window]
      /\ rates' = [rates EXCEPT ![k] = b] /\ Grant(k) /\ now' = now
  <2>1. rates[k] \in [count : 0..Limit, reset : 0..MaxTime + Window]
    BY DEF TypeOK
  <2>2. rates[k].count + 1 \in 0..Limit
    BY <2>1, Typed DEF Admit, Room
  <2>3. b \in [count : 0..Limit, reset : 0..MaxTime + Window]
    BY <2>1, <2>2
  <2> QED BY <2>3 DEF Admit, Counted
<1>2. /\ TypeOK'
      /\ rates'[k] = b /\ granted'[k] = Append(granted[k], now)
      /\ \A x \in Keys \ {k} : rates'[x] = rates[x] /\ granted'[x] = granted[x]
  BY <1>1, GrantStep
<1>3. PICK n \in Nat : n = Len(granted[k])
  BY Typed
<1>4. /\ rates[k].count > 0 /\ rates[k].count < Limit /\ rates[k].count \in Nat
      /\ rates[k].count <= n
      /\ Window1(granted[k], n, Opened(k), First(k), now)
  BY <1>3, Typed DEF KeyInv, Admit, Expired, Room
<1>5. First(k) + Limit > n + 1
  BY <1>3, <1>4, Typed DEF First
<1>6. /\ Window1(granted'[k], n + 1, Opened(k), First(k), now)
      /\ Spaced1(granted'[k], n + 1, now)
  <2>1. Spaced1(granted[k], n, now) /\ now \in Nat
    BY <1>3, Typed DEF KeyInv
  <2>2. /\ granted'[k][n + 1] = now
        /\ \A i \in 1..n : granted[k][i] \in Nat /\ granted'[k][i] = granted[k][i]
    BY <1>2, <1>3, Longer
  <2> QED BY <1>4, <1>5, <2>1, <2>2, CountingKeeps
<1>7. Len(granted'[k]) = n + 1
  BY <1>2, <1>3, Longer
<1>8. /\ rates'[k].count = rates[k].count + 1 /\ rates'[k].reset = rates[k].reset
  BY <1>2 DEF TypeOK
<1>9. Opened(k)' = Opened(k) /\ First(k)' = First(k)
  <2>1. Opened(k)' = Opened(k)
    BY <1>8 DEF Opened
  <2>2. First(k)' = (n + 1) - (rates[k].count + 1) + 1
    BY <1>7, <1>8 DEF First
  <2>3. First(k) = n - rates[k].count + 1
    BY <1>3 DEF First
  <2> HIDE DEF First
  <2>4. First(k)' = First(k)
    BY <1>4, <2>2, <2>3
  <2> QED BY <2>1, <2>4
<1>10. KeyInv(k)'
  BY <1>1, <1>4, <1>6, <1>7, <1>8, <1>9 DEF KeyInv
<1> QED BY <1>1, <1>2, <1>10

\* Time only adds to the distances.
LEMMA TickStep ==
  ASSUME TypeOK, Tick, NEW k \in Keys, KeyInv(k)
  PROVE  KeyInv(k)'
<1>1. /\ now' = now + 1 /\ granted'[k] = granted[k] /\ rates'[k] = rates[k]
  BY DEF Tick
<1>2. Opened(k)' = Opened(k) /\ First(k)' = First(k)
  BY <1>1 DEF Opened, First
<1>3. PICK n \in Nat : n = Len(granted[k])
  BY Typed
<1>4. /\ Spaced1(granted[k], n, now) => Spaced1(granted[k], n, now + 1)
      /\ Window1(granted[k], n, Opened(k), First(k), now)
           => Window1(granted[k], n, Opened(k), First(k), now + 1)
  <2>1. now \in Nat /\ \A i \in 1..n : granted[k][i] \in Nat
    BY <1>3, Typed
  <2> QED BY <2>1, TimeKeeps
<1> QED BY <1>1, <1>2, <1>3, <1>4 DEF KeyInv

LEMMA OthersKeep ==
  ASSUME NEW k \in Keys, KeyInv(k), now' = now, rates'[k] = rates[k],
         granted'[k] = granted[k]
  PROVE  KeyInv(k)'
  BY DEF KeyInv, Opened, First

-----------------------------------------------------------------------------

(***************************************************************************)
(* The inductive invariant of checkRateLimit: a bucket counts the requests *)
(* of a window that its first one opened, windows lie more than Window     *)
(* apart, and so do two requests with 2 * Limit - 2 others in between.     *)
(***************************************************************************)
THEOREM Invariance == Spec => []IInv
<1>1. Init => KeysInv
  <2> SUFFICES ASSUME Init PROVE TypeOK /\ \A k \in Keys : KeyInv(k)
    BY DEF KeysInv
  <2>1. TypeOK
    BY LimiterAssumption DEF LimiterAssumption, Init, TypeOK
  <2>2. ASSUME NEW k \in Keys PROVE KeyInv(k)
    BY <2>2 DEF Init, KeyInv, Spaced1
  <2> QED BY <2>1, <2>2
<1>2. KeysInv /\ [Next]_vars => KeysInv'
  <2> SUFFICES ASSUME TypeOK, \A k \in Keys : KeyInv(k), [Next]_vars
               PROVE  TypeOK' /\ \A k \in Keys : KeyInv(k)'
    BY DEF KeysInv
  <2>1. CASE Tick
    <3>1. TypeOK'
      BY <2>1, LimiterAssumption DEF LimiterAssumption, TypeOK, Tick
    <3> QED BY <2>1, <3>1, TickStep
  <2>2. ASSUME NEW k \in Keys, OpenWindow(k)
        PROVE  TypeOK' /\ \A x \in Keys : KeyInv(x)'
    BY <2>2, OpenWindowStep, OthersKeep
  <2>3. ASSUME NEW k \in Keys, Admit(k)
        PROVE  TypeOK' /\ \A x \in Keys : KeyInv(x)'
    BY <2>3, AdmitStep, OthersKeep
  <2>4. CASE UNCHANGED vars
    BY <2>4, OthersKeep DEF vars, TypeOK
  <2>5. ASSUME NEW k \in Keys, Refuse(k) PROVE UNCHANGED vars
    BY <2>5 DEF Refuse
  <2> QED BY <2>1, <2>2, <2>3, <2>4, <2>5 DEF Next
<1>3. KeysInv => IInv
  BY ByKey DEF KeysInv
<1> QED BY <1>1, <1>2, <1>3, PTL DEF Spec

\* A set within an interval has at most its size, one around it no less.
LEMMA CountWithin ==
  ASSUME NEW S, NEW a \in Int, NEW b \in Int, a <= b + 1, S \subseteq a..b
  PROVE  IsFiniteSet(S) /\ Cardinality(S) \in Nat /\ Cardinality(S) <= b - a + 1
<1>1. IsFiniteSet(a..b) /\ Cardinality(a..b) = b - a + 1
  BY FS_Interval
<1>2. IsFiniteSet(S) /\ Cardinality(S) <= Cardinality(a..b)
  BY <1>1, FS_Subset
<1> QED BY <1>1, <1>2, FS_CardinalityType

LEMMA CountAround ==
  ASSUME NEW S, IsFiniteSet(S), NEW a \in Int, NEW b \in Int, a <= b + 1, a..b \subseteq S
  PROVE  Cardinality(S) >= b - a + 1
<1>1. IsFiniteSet(a..b) /\ Cardinality(a..b) = b - a + 1
  BY FS_Interval
<1>2. Cardinality(a..b) <= Cardinality(S)
  BY FS_Subset
<1> QED BY <1>1, <1>2, FS_CardinalityType

\* A nonempty set of numbers has a least one.
LEMMA Least ==
  ASSUME NEW S \in SUBSET Nat, S # {}
  PROVE  \E m \in S : \A i \in S : m <= i
<1>1. PICK m \in S : \A i \in S : ~ (<<i, m>> \in OpToRel(<, Nat))
  BY NatLessThanWellFounded, WFMin
<1>2. \A i \in S : ~ (i < m)
  BY <1>1 DEF OpToRel
<1> QED BY <1>2

\* The requests of a key in a span of Window are of 2 * Limit - 1 in a row.
LEMMA SpanFits ==
  ASSUME TypeOK, Spaced, NEW k \in Keys, NEW t \in 0..now
  PROVE  \E a \in Int : {i \in DOMAIN granted[k] :
                          granted[k][i] \in t..t + Window} \subseteq a..a + 2 * Limit - 2
<1> DEFINE g == granted[k]
           A == {i \in DOMAIN g : g[i] \in t..t + Window}
<1>1. /\ Limit \in Nat \ {0} /\ Window \in Nat /\ t \in Nat
      /\ A \subseteq 1..Len(g) /\ 1..Len(g) \subseteq Nat
      /\ \A i \in A : g[i] \in Nat /\ g[i] >= t /\ g[i] <= t + Window
  BY Typed DEF TypeOK
<1>2. CASE A = {}
  BY <1>2
<1>3. CASE A # {}
  <2>1. PICK m \in A : \A i \in A : m <= i
    BY <1>1, <1>3, Least
  <2>2. ASSUME NEW i \in A, i >= m + 2 * Limit - 1
        PROVE  FALSE
    <3>1. g[m] + Window < g[i]
      BY <2>2 DEF Spaced
    <3> QED BY <1>1, <2>1, <3>1
  <2>3. A \subseteq m..m + 2 * Limit - 2
    BY <1>1, <2>1, <2>2
  <2>4. m \in Int
    BY <1>1
  <2> QED BY <2>3, <2>4
<1> QED BY <1>2, <1>3

\* A refusal has Limit requests of the last Window behind it.
THEOREM RefusalsDue == Spec => []RefusedOnlyWhenFull
<1>1. IInv => RefusedOnlyWhenFull
  <2> SUFFICES ASSUME IInv, NEW k \in Keys, ~Expired(k), ~Room(k)
               PROVE  \E t \in 0..now : now <= t + Window
                                         /\ Admitted(k, t, now) >= Limit
    BY DEF RefusedOnlyWhenFull
  <2> DEFINE g == granted[k]
             n == Len(g)
             A == {i \in DOMAIN g : g[i] \in Opened(k)..now}
  <2>1. TypeOK /\ KeyInv(k)
    BY ByKey
  <2>2. /\ rates[k].count = Limit /\ Limit \in Nat \ {0} /\ n \in Nat
        /\ Limit <= n /\ now \in Nat /\ Window \in Nat
        /\ rates[k].reset \in Nat /\ now <= rates[k].reset
        /\ Window1(g, n, Opened(k), First(k), now) /\ Spaced1(g, n, now)
        /\ DOMAIN g = 1..n /\ \A i \in 1..n : g[i] \in Nat
    BY <2>1, Typed DEF KeyInv, Expired, Room
  <2>3. Opened(k) \in 0..now /\ now <= Opened(k) + Window
    BY <2>2 DEF Window1, Opened
  <2>4. First(k) = n - Limit + 1
    BY <2>2 DEF First
  <2>5. n - Limit + 1..n \subseteq A
    BY <2>2, <2>3, <2>4 DEF Window1, Spaced1
  <2>6. A \subseteq 1..n
    BY <2>2
  <2>7. Admitted(k, Opened(k), now) = Cardinality(A)
    BY DEF Admitted
  <2> HIDE DEF A, n
  <2>8. IsFiniteSet(A)
    <3>1. 1 \in Int /\ n \in Int /\ 1 <= n + 1
      BY <2>2
    <3> QED BY <2>6, <3>1, CountWithin
  <2>9. Cardinality(A) >= Limit
    <3>1. PICK a \in Int : a = n - Limit + 1
      BY <2>2
    <3>2. a..n \subseteq A /\ a <= n + 1 /\ n \in Int
      BY <2>2, <2>5, <3>1
    <3>3. Cardinality(A) >= n - a + 1
      BY <2>8, <3>2, CountAround
    <3>4. Cardinality(A) \in Nat
      BY <2>8, FS_CardinalityType
    <3> QED BY <2>2, <3>1, <3>3, <3>4
  <2> QED BY <2>3, <2>7, <2>9
<1> QED BY <1>1, Invariance, PTL
=============================================================================
