--------------------------- MODULE RegistryProofs ---------------------------
(***************************************************************************)
(* For any definitions, requests and answers of the database: a route's    *)
(* requests see the limiter of RateLimiter, with its bounds; and whatever  *)
(* order Go visits a map in that is changed meanwhile, applyOutputShape    *)
(* makes what the output block says, and nothing omitted is answered.      *)
(***************************************************************************)
EXTENDS Registry, RateLimiterProofs

\* delete(f, k).
LEMMA Delete ==
  ASSUME NEW f, NEW k
  PROVE  /\ DOMAIN Without(f, k) = (DOMAIN f) \ {k}
         /\ \A x \in (DOMAIN f) \ {k} : Without(f, k)[x] = f[x]
  BY DEF Without, Restrict

-----------------------------------------------------------------------------
(* The limiter.                                                            *)

LEMMA ServeKeepsLimiter ==
  ASSUME scenario \in Scenarios, [ServeNext]_serveVars
  PROVE  [Next]_vars
<1> USE DEF limiterVars, vars
<1>1. ASSUME NEW r \in Requests[scenario.kind], Arrive(r) \/ TooMany(r)
      PROVE  [Next]_vars
  <2>1. def.limited => Key(r) \in Keys
    BY <1>1, ServeAssumption DEF ServeAssumption, def
  <2>2. CASE Arrive(r)
    <3>1. (def.limited /\ (OpenWindow(Key(r)) \/ Admit(Key(r))))
            \/ UNCHANGED limiterVars
      BY <2>2 DEF Arrive
    <3> QED BY <2>1, <3>1 DEF Next
  <2>3. CASE TooMany(r)
    <3>1. def.limited /\ Refuse(Key(r))
      BY <2>3 DEF TooMany
    <3> QED BY <2>1, <3>1 DEF Next
  <2> QED BY <1>1, <2>2, <2>3
<1>2. CASE Clock
  BY <1>2 DEF Clock, Next
<1>3. CASE \/ GetOk \/ GetFailed \/ BindParam \/ ParamRefused
           \/ QueryFailed \/ QueryOk \/ NextRow
           \/ (\E k \in todo \cup maybe : Visit(k)) \/ Respond
           \/ UNCHANGED serveVars
  <2>1. UNCHANGED limiterVars
    BY <1>3 DEF GetOk, GetFailed, BindParam, ParamRefused, QueryFailed,
                QueryOk, NextRow, Visit, Respond, serveVars
  <2> QED BY <2>1
<1> QED BY <1>1, <1>2, <1>3 DEF ServeNext

LEMMA ScenarioFixed ==
  ASSUME [ServeNext]_serveVars
  PROVE  scenario' = scenario
  BY DEF ServeNext, Arrive, TooMany, Begin, GetOk, GetFailed, BindParam,
         ParamRefused, QueryFailed, QueryOk, NextRow, Visit, Respond, Clock,
         serveVars

\* Serving routes with limits and without is a behaviour of the limiter.
THEOREM ServeImplementsLimiter == ServeSpec => Spec
<1>1. ServeInit => Init /\ scenario \in Scenarios
  BY DEF ServeInit
<1>2. scenario \in Scenarios /\ [ServeNext]_serveVars
        => [Next]_vars /\ (scenario \in Scenarios)'
  BY ServeKeepsLimiter, ScenarioFixed
<1> QED BY <1>1, <1>2, PTL DEF ServeSpec, Spec

(***************************************************************************)
(* What a limited route lets through of a client in a span of Window, for  *)
(* any route, clients, limit and window: each path the client names has    *)
(* its own 2 * Limit - 1 places for the requests.                          *)
(***************************************************************************)
THEOREM ServeSpansBounded == ServeSpec => []ClientSpanBounded
<1>1. IInv => ClientSpanBounded
  <2> SUFFICES ASSUME TypeOK, Spaced, NEW a \in Addresses, NEW t \in 0..now
               PROVE  Cardinality(Passed(a, t, t + Window))
                        <= (2 * Limit - 1) * Cardinality(Used(a))
    BY DEF IInv, ClientSpanBounded
  <2> DEFINE A(k) == {i \in DOMAIN granted[k] : granted[k][i] \in t..t + Window}
             U == Used(a)
             P == Passed(a, t, t + Window)
             low == [k \in U |->
                       CHOOSE m \in Int : A(k) \subseteq m..m + 2 * Limit - 2]
             place == [x \in P |-> <<x[1], x[2] - low[x[1]] + 1>>]
  <2>1. PICK n \in Nat : n = 2 * Limit - 1
    BY LimiterAssumption DEF LimiterAssumption
  <2>2. ASSUME NEW k \in U PROVE low[k] \in Int /\ A(k) \subseteq low[k]..low[k] + n - 1
    <3>1. \E m \in Int : A(k) \subseteq m..m + 2 * Limit - 2
      BY SpanFits DEF Used
    <3>2. low[k] \in Int /\ A(k) \subseteq low[k]..low[k] + 2 * Limit - 2
      BY <3>1
    <3>3. low[k] + 2 * Limit - 2 = low[k] + n - 1
      BY <2>1, <3>2, LimiterAssumption DEF LimiterAssumption
    <3> QED BY <3>2, <3>3
  <2> HIDE DEF low
  <2>3. P = UNION {{k} \X A(k) : k \in U}
    BY DEF Passed
  <2>4. ASSUME NEW x \in P
        PROVE  /\ x = <<x[1], x[2]>> /\ x[1] \in U
               /\ low[x[1]] \in Int
               /\ x[2] \in low[x[1]]..low[x[1]] + n - 1
    <3>1. PICK k \in U : x \in {k} \X A(k)
      BY <2>3
    <3>2. x = <<x[1], x[2]>> /\ x[1] = k /\ x[2] \in A(k)
      BY <3>1
    <3> QED BY <2>2, <3>2
  <2> HIDE DEF P, U
  <2>5. place \in Injection(P, U \X (1..n))
    <3>1. ASSUME NEW x \in P PROVE place[x] \in U \X (1..n)
      BY <2>1, <2>4
    <3>2. ASSUME NEW x \in P, NEW y \in P, place[x] = place[y] PROVE x = y
      <4>1. x[1] = y[1] /\ x[2] - low[x[1]] + 1 = y[2] - low[y[1]] + 1
        BY <3>2
      <4>2. x[2] = y[2]
        BY <2>1, <2>4, <4>1
      <4> QED BY <2>4, <4>1, <4>2
    <3>3. place \in [P -> U \X (1..n)]
      BY <3>1
    <3> QED BY <3>2, <3>3 DEF Injection, IsInjective
  <2>6. IsFiniteSet(U) /\ Cardinality(U) \in Nat
    <3>1. IsFiniteSet(Keys) /\ U \subseteq Keys
      BY ServeAssumption, Zenon DEF ServeAssumption, U, Used
    <3> QED BY <3>1, FS_Subset, FS_CardinalityType
  <2>7. IsFiniteSet(1..n) /\ Cardinality(1..n) = n
    BY <2>1, CountWithin, FS_Interval
  <2>8. /\ IsFiniteSet(U \X (1..n))
        /\ Cardinality(U \X (1..n)) = Cardinality(U) * n
    BY <2>6, <2>7, FS_Product
  <2>9. Cardinality(P) <= Cardinality(U) * n
    BY <2>5, <2>8, FS_Injection
  <2>10. Cardinality(U) * n = n * Cardinality(U)
    BY <2>1, <2>6
  <2> QED BY <2>1, <2>9, <2>10 DEF P, U
<1> QED BY <1>1, ServeImplementsLimiter, Invariance, PTL DEF IInv

\* 429 is answered only when Limit requests were admitted within a Window.
THEOREM ServeRefusalsDue == ServeSpec => []RefusedOnlyWhenFull
  BY ServeImplementsLimiter, RefusalsDue, PTL

-----------------------------------------------------------------------------
(* One row of applyOutputShape.                                            *)

(***************************************************************************)
(* A row that had the columns cols, of which the loop has t to visit, and  *)
(* m, inserted meanwhile, perhaps.                                         *)
(***************************************************************************)
RowInv(row, cols, t, m) ==
  /\ t \subseteq cols
  /\ t \cup m \subseteq DOMAIN row
  /\ \A c \in DOMAIN row : row[c] \in out.omit => row[c] = c /\ c \in t
  /\ Clean(Row(cols)) =>
       /\ \A k \in m : k \notin t \cup out.omit /\ ~Renamed(k)
       /\ DOMAIN row = t \cup {Target(c) : c \in (cols \ t) \ out.omit}
       /\ \A c \in t : row[c] = c
       /\ \A c \in (cols \ t) \ out.omit : row[Target(c)] = c

LEMMA FreshRow ==
  ASSUME NEW cols
  PROVE  RowInv(Row(cols), cols, cols, {})
  BY DEF RowInv, Row

LEMMA ForgetInserted ==
  ASSUME NEW row, NEW cols, NEW t, NEW m, RowInv(row, cols, t, m)
  PROVE  RowInv(row, cols, t, {})
<1> SUFFICES ASSUME Clean(Row(cols))
             PROVE  /\ DOMAIN row = t \cup {Target(c) : c \in (cols \ t) \ out.omit}
                    /\ \A c \in t : row[c] = c
                    /\ \A c \in (cols \ t) \ out.omit : row[Target(c)] = c
  BY DEF RowInv
<1> QED BY DEF RowInv

LEMMA OmittedStep ==
  ASSUME NEW row, NEW cols, NEW t, NEW m, NEW k \in t \cup m,
         RowInv(row, cols, t, m), Omitted(k)
  PROVE  RowInv(Without(row, k), cols, t \ {k}, m \ {k})
<1> DEFINE new == Without(row, k)
<1>1. /\ DOMAIN new = (DOMAIN row) \ {k}
      /\ \A x \in (DOMAIN row) \ {k} : new[x] = row[x]
  BY Delete
<1> HIDE DEF new
<1>2. /\ t \ {k} \subseteq cols
      /\ (t \ {k}) \cup (m \ {k}) \subseteq DOMAIN new
      /\ \A c \in DOMAIN new : new[c] \in out.omit => new[c] = c /\ c \in t \ {k}
  BY <1>1 DEF RowInv
<1>3. ASSUME Clean(Row(cols))
      PROVE  /\ \A x \in m \ {k} : x \notin (t \ {k}) \cup out.omit /\ ~Renamed(x)
             /\ DOMAIN new = (t \ {k})
                  \cup {Target(c) : c \in (cols \ (t \ {k})) \ out.omit}
             /\ \A c \in t \ {k} : new[c] = c
             /\ \A c \in (cols \ (t \ {k})) \ out.omit : new[Target(c)] = c
  <2>1. k \in t /\ k \in out.omit
    BY <1>3 DEF RowInv, Omitted
  <2>2. (cols \ (t \ {k})) \ out.omit = (cols \ t) \ out.omit
    BY <2>1
  <2>3. ASSUME NEW c \in (cols \ t) \ out.omit
        PROVE  Target(c) # k /\ Target(c) \in DOMAIN row /\ row[Target(c)] = c
    <3>1. Renamed(c) => Target(c) \notin out.omit
      BY <1>3, <2>3 DEF Clean, Row
    <3> QED BY <1>3, <2>1, <2>3, <3>1 DEF RowInv, Target
  <2>4. /\ DOMAIN row = t \cup {Target(c) : c \in (cols \ t) \ out.omit}
        /\ \A c \in t : row[c] = c
        /\ \A x \in m : x \notin t \cup out.omit /\ ~Renamed(x)
    BY <1>3 DEF RowInv
  <2>5. DOMAIN new = (t \ {k}) \cup {Target(c) : c \in (cols \ t) \ out.omit}
    BY <1>1, <2>3, <2>4
  <2>6. t \subseteq DOMAIN row
    BY DEF RowInv
  <2>7. \A c \in t \ {k} : new[c] = c
    BY <1>1, <2>4, <2>6
  <2>8. \A c \in (cols \ t) \ out.omit : new[Target(c)] = c
    BY <1>1, <2>3
  <2> QED BY <2>2, <2>4, <2>5, <2>7, <2>8
<1>4. RowInv(new, cols, t \ {k}, m \ {k})
  BY <1>2, <1>3 DEF RowInv
<1> QED BY <1>4 DEF new

LEMMA RenamedStep ==
  ASSUME NEW row, NEW cols, NEW t, NEW m, NEW k \in t \cup m,
         RowInv(row, cols, t, m), ~Omitted(k), Renamed(k)
  PROVE  RowInv(Rename(row, k), cols, t \ {k},
                (m \cup ({out.aliases[k]} \ DOMAIN row)) \ {k})
<1> DEFINE a   == out.aliases[k]
           put == Put(row, a, row[k])
           new == Without(put, k)
           n   == (m \cup ({a} \ DOMAIN row)) \ {k}
<1>1. /\ DOMAIN put = {a} \cup DOMAIN row
      /\ put[a] = row[k]
      /\ \A x \in DOMAIN row : x # a => put[x] = row[x]
  BY DEF Put
<1> HIDE DEF put
<1>2. /\ DOMAIN new = (DOMAIN put) \ {k}
      /\ \A x \in (DOMAIN put) \ {k} : new[x] = put[x]
  BY Delete
<1> HIDE DEF new
<1>3. /\ DOMAIN new = ({a} \cup DOMAIN row) \ {k}
      /\ a # k => new[a] = row[k]
      /\ \A x \in DOMAIN row : x # a /\ x # k => new[x] = row[x]
  BY <1>1, <1>2
<1>4. k \in DOMAIN row /\ k \notin out.omit /\ row[k] \notin out.omit
  BY DEF RowInv, Omitted
<1>5. /\ t \ {k} \subseteq cols
      /\ (t \ {k}) \cup n \subseteq DOMAIN new
      /\ \A c \in DOMAIN new : new[c] \in out.omit => new[c] = c /\ c \in t \ {k}
  <2>1. t \subseteq cols /\ t \cup m \subseteq DOMAIN row
    BY DEF RowInv
  <2>2. ASSUME NEW c \in DOMAIN new, new[c] \in out.omit
        PROVE  new[c] = c /\ c \in t \ {k}
    <3>1. c # a /\ c # k /\ c \in DOMAIN row /\ new[c] = row[c]
      BY <1>3, <1>4, <2>2
    <3> QED BY <2>2, <3>1 DEF RowInv
  <2> QED BY <1>3, <2>1, <2>2
<1>6. ASSUME Clean(Row(cols))
      PROVE  /\ \A x \in n : x \notin (t \ {k}) \cup out.omit /\ ~Renamed(x)
             /\ DOMAIN new = (t \ {k})
                  \cup {Target(c) : c \in (cols \ (t \ {k})) \ out.omit}
             /\ \A c \in t \ {k} : new[c] = c
             /\ \A c \in (cols \ (t \ {k})) \ out.omit : new[Target(c)] = c
  <2>1. k \in t /\ k \in cols /\ row[k] = k /\ Target(k) = a
    BY <1>6 DEF RowInv, Target
  <2>2. /\ a \notin cols \cup out.omit /\ ~Renamed(a) /\ a # k
        /\ \A d \in cols : d # k => Target(d) # a
    <3>1. \A c \in cols : Renamed(c) =>
            /\ Target(c) \notin cols \cup out.omit \cup DOMAIN out.aliases
            /\ \A d \in cols : Target(d) = Target(c) => d = c
      BY <1>6 DEF Clean, Row
    <3> QED BY <2>1, <3>1 DEF Renamed
  <2>3. (cols \ (t \ {k})) \ out.omit = ((cols \ t) \ out.omit) \cup {k}
    BY <1>4, <2>1
  <2>4. /\ DOMAIN row = t \cup {Target(c) : c \in (cols \ t) \ out.omit}
        /\ \A c \in t : row[c] = c
        /\ \A c \in (cols \ t) \ out.omit : row[Target(c)] = c
        /\ \A x \in m : x \notin t \cup out.omit /\ ~Renamed(x)
        /\ t \subseteq cols /\ t \subseteq DOMAIN row
    BY <1>6 DEF RowInv
  <2>5. ASSUME NEW c \in (cols \ t) \ out.omit
        PROVE  Target(c) # k /\ Target(c) # a /\ Target(c) \in DOMAIN row
    <3>1. Renamed(c) => Target(c) \notin cols
      BY <1>6 DEF Clean, Row
    <3>2. Target(c) # k
      BY <2>1, <3>1 DEF Target
    <3>3. Target(c) # a
      BY <2>1, <2>2
    <3> QED BY <2>4, <3>2, <3>3
  <2>6. DOMAIN new = (t \ {k})
          \cup {Target(c) : c \in ((cols \ t) \ out.omit) \cup {k}}
    BY <1>3, <2>1, <2>2, <2>4, <2>5
  <2>7. \A c \in t \ {k} : new[c] = c
    BY <1>3, <2>2, <2>4
  <2>8. \A c \in ((cols \ t) \ out.omit) \cup {k} : new[Target(c)] = c
    BY <1>3, <2>1, <2>2, <2>4, <2>5
  <2>9. \A x \in n : x \notin (t \ {k}) \cup out.omit /\ ~Renamed(x)
    BY <2>2, <2>4
  <2> QED BY <2>3, <2>6, <2>7, <2>8, <2>9
<1>7. RowInv(new, cols, t \ {k}, n)
  BY <1>5, <1>6 DEF RowInv
<1> QED BY <1>7 DEF new, put, Rename

LEMMA PlainStep ==
  ASSUME NEW row, NEW cols, NEW t, NEW m, NEW k \in t \cup m,
         RowInv(row, cols, t, m), ~Omitted(k), ~Renamed(k)
  PROVE  RowInv(row, cols, t \ {k}, m \ {k})
<1>1. k \in DOMAIN row /\ k \notin out.omit /\ Target(k) = k
  BY DEF RowInv, Omitted, Target
<1>2. \A c \in DOMAIN row : row[c] \in out.omit => row[c] = c /\ c \in t \ {k}
  BY <1>1 DEF RowInv
<1>3. ASSUME Clean(Row(cols))
      PROVE  /\ \A x \in m \ {k} : x \notin (t \ {k}) \cup out.omit /\ ~Renamed(x)
             /\ DOMAIN row = (t \ {k})
                  \cup {Target(c) : c \in (cols \ (t \ {k})) \ out.omit}
             /\ \A c \in t \ {k} : row[c] = c
             /\ \A c \in (cols \ (t \ {k})) \ out.omit : row[Target(c)] = c
  <2>1. /\ DOMAIN row = t \cup {Target(c) : c \in (cols \ t) \ out.omit}
        /\ \A c \in t : row[c] = c
        /\ \A c \in (cols \ t) \ out.omit : row[Target(c)] = c
        /\ \A x \in m : x \notin t \cup out.omit /\ ~Renamed(x)
        /\ t \subseteq cols
    BY <1>3 DEF RowInv
  <2>2. CASE k \in t
    <3>1. (cols \ (t \ {k})) \ out.omit = ((cols \ t) \ out.omit) \cup {k}
      BY <1>1, <2>1, <2>2
    <3>2. t \cup {Target(c) : c \in (cols \ t) \ out.omit}
            = (t \ {k}) \cup {Target(c) : c \in ((cols \ t) \ out.omit) \cup {k}}
      BY <1>1, <2>2
    <3>3. row[Target(k)] = k
      BY <1>1, <2>1, <2>2
    <3> QED BY <2>1, <3>1, <3>2, <3>3
  <2>3. CASE k \notin t
    <3>1. t \ {k} = t
      BY <2>3
    <3> QED BY <2>1, <3>1
  <2> QED BY <2>2, <2>3
<1> QED BY <1>2, <1>3 DEF RowInv

\* A row that has been visited is what the output block says.
LEMMA FinishedRow ==
  ASSUME NEW row, NEW cols, NEW m, RowInv(row, cols, {}, m)
  PROVE  /\ \A c \in DOMAIN row : row[c] \notin out.omit
         /\ Clean(Row(cols)) => Shaped(row, Row(cols))
<1>1. \A c \in DOMAIN row : row[c] \notin out.omit
  BY DEF RowInv
<1>2. ASSUME Clean(Row(cols)) PROVE Shaped(row, Row(cols))
  BY <1>2 DEF RowInv, Shaped, Row
<1> QED BY <1>1, <1>2

-----------------------------------------------------------------------------
(* The loop over the rows, and its result.                                 *)

Names ==
  Columns \cup UNION {{s.def.output.aliases[a] : a \in DOMAIN s.def.output.aliases}
                        : s \in Scenarios}

AnyRow == UNION {[S -> Columns] : S \in SUBSET Names}

\* What the loop has yet to visit of row i, and what was inserted meanwhile.
Left(i)     == IF i < at THEN {} ELSE IF i = at THEN todo ELSE DOMAIN result[i]
Inserted(i) == IF i = at THEN maybe ELSE {}

Shaping ==
  /\ result \in Seq(Rows) /\ rows \in Seq(AnyRow)
  /\ Len(rows) = Len(Cut(result))
  /\ at \in 0..Len(rows)
  /\ at = 0 => todo = {} /\ maybe = {}
  /\ \A i \in 1..Len(rows) : i > at => rows[i] = result[i]
  /\ \A i \in 1..Len(rows) :
       RowInv(rows[i], DOMAIN result[i], Left(i), Inserted(i))

(***************************************************************************)
(* The state of the loop, and of what it left behind.                      *)
(***************************************************************************)
ServeInv ==
  /\ scenario \in Scenarios
  /\ phase \in {"idle", "get", "bind", "shape", "answered"}
  /\ phase \in {"idle", "get", "bind"} => todo = {} /\ maybe = {}
  /\ phase = "shape" => Shaping
  /\ ShapeFollowsConfig

LEMMA CutType ==
  ASSUME NEW s \in Seq(Rows)
  PROVE  /\ Cut(s) \in Seq(AnyRow) /\ Len(Cut(s)) \in Nat
         /\ Len(Cut(s)) <= Len(s)
         /\ \A i \in 1..Len(Cut(s)) : /\ Cut(s)[i] = s[i]
                                      /\ s[i] = Row(DOMAIN s[i])
                                      /\ DOMAIN s[i] \subseteq Columns
<1>0. MaxRows \in Int
  BY ServeAssumption, Zenon DEF ServeAssumption
<1>1. Rows \subseteq AnyRow
  <2> SUFFICES ASSUME NEW C \in SUBSET Columns PROVE Row(C) \in AnyRow
    BY DEF Rows
  <2>1. Row(C) \in [C -> Columns] /\ C \in SUBSET Names
    BY DEF Row, Names
  <2> QED BY <2>1 DEF AnyRow
<1>2. s \in Seq(AnyRow)
  BY <1>1, SeqMonotonic
<1>3. /\ Cut(s) \in Seq(AnyRow) /\ Len(Cut(s)) \in Nat /\ Len(Cut(s)) <= Len(s)
      /\ \A i \in 1..Len(Cut(s)) : Cut(s)[i] = s[i]
  <2>1. CASE Cut(s) = s
    BY <1>2, <2>1
  <2>2. CASE MaxRows > 0 /\ Len(s) > MaxRows
    <3>1. /\ Cut(s) = SubSeq(s, 1, MaxRows)
          /\ 1 \in 1..Len(s) + 1 /\ MaxRows \in 0..Len(s) /\ Len(s) \in Nat
      BY <1>0, <1>2, <2>2 DEF Cut
    <3>2. PICK n \in Nat : n = MaxRows /\ 1 <= n
      BY <1>0, <2>2
    <3>3. \A i \in 1..n : s[i] \in AnyRow
      BY <1>2, <3>1, <3>2
    <3>4. /\ SubSeq(s, 1, n) \in Seq(AnyRow) /\ Len(SubSeq(s, 1, n)) = n
          /\ \A i \in 1..n : SubSeq(s, 1, n)[i] = s[i]
      BY <3>2, <3>3, SubSeqProperties
    <3> QED BY <3>1, <3>2, <3>4
  <2> QED BY <2>1, <2>2 DEF Cut
<1>4. ASSUME NEW i \in 1..Len(s)
      PROVE  s[i] = Row(DOMAIN s[i]) /\ DOMAIN s[i] \subseteq Columns
  <2>1. PICK C \in SUBSET Columns : s[i] = Row(C)
    BY DEF Rows
  <2> QED BY <2>1 DEF Row
<1> QED BY <1>3, <1>4

LEMMA OutputFixed ==
  ASSUME scenario' = scenario
  PROVE  /\ out' = out
         /\ \A c : (Renamed(c)' <=> Renamed(c)) /\ Target(c)' = Target(c)
         /\ \A row : Clean(row)' <=> Clean(row)
<1>1. out' = out
  BY DEF out, def
<1>2. \A c : (Renamed(c)' <=> Renamed(c)) /\ Target(c)' = Target(c)
  BY <1>1 DEF Renamed, Target
<1>3. \A row : Clean(row)' <=> Clean(row)
  BY <1>1, <1>2 DEF Clean
<1> QED BY <1>1, <1>2, <1>3

LEMMA RowInvStays ==
  ASSUME NEW row, NEW cols, NEW t, NEW m, RowInv(row, cols, t, m),
         scenario' = scenario
  PROVE  RowInv(row, cols, t, m)'
<1>1. Row(cols)' = Row(cols)
  BY DEF Row
<1> QED BY <1>1, OutputFixed DEF RowInv

LEMMA ShapeStays ==
  ASSUME ShapeFollowsConfig, UNCHANGED <<scenario, phase, result, resp>>
  PROVE  ShapeFollowsConfig'
<1>1. \A new, row : Shaped(new, row)' <=> Shaped(new, row)
  BY OutputFixed DEF Shaped
<1>2. Cut(result)' = Cut(result)
  BY DEF Cut
<1> QED BY <1>1, <1>2, OutputFixed DEF ShapeFollowsConfig

\* One turn of the inner loop keeps its row in order.
LEMMA VisitRow ==
  ASSUME ServeInv, NEW k \in todo \cup maybe, Visit(k)
  PROVE  /\ Shaping /\ at \in 1..Len(rows)
         /\ RowInv(rows'[at], DOMAIN result[at], todo', maybe')
         /\ rows' \in Seq(AnyRow) /\ Len(rows') = Len(rows)
         /\ \A i \in 1..Len(rows) : i # at => rows'[i] = rows[i]
<1>1. Shaping /\ scenario \in Scenarios
  BY DEF ServeInv, Visit
<1>2. at \in 1..Len(rows) /\ rows \in Seq(AnyRow)
  BY <1>1 DEF Shaping
<1>3. RowInv(rows[at], DOMAIN result[at], todo, maybe)
  BY <1>1, <1>2 DEF Shaping, Left, Inserted
<1>4. PICK row \in AnyRow : row = rows[at]
  BY <1>2
<1>5. k \in DOMAIN row
  BY <1>3, <1>4 DEF RowInv
<1>6. PICK S \in SUBSET Names : row \in [S -> Columns]
  BY DEF AnyRow
<1>7. CASE Omitted(k)
  <2>1. /\ rows' = [rows EXCEPT ![at] = Without(row, k)]
        /\ todo' = todo \ {k} /\ maybe' = maybe \ {k}
    BY <1>4, <1>7 DEF Visit
  <2>2. Without(row, k) \in [S \ {k} -> Columns]
    BY <1>6 DEF Without, Restrict
  <2>3. Without(row, k) \in AnyRow
    BY <2>2 DEF AnyRow
  <2>4. RowInv(Without(row, k), DOMAIN result[at], todo', maybe')
    BY <1>3, <1>4, <1>7, <2>1, OmittedStep
  <2> QED BY <1>1, <1>2, <2>1, <2>3, <2>4
<1>8. CASE ~Omitted(k) /\ Renamed(k)
  <2> DEFINE a == out.aliases[k]
  <2>1. /\ rows' = [rows EXCEPT ![at] = Rename(row, k)]
        /\ todo' = todo \ {k}
        /\ maybe' = (maybe \cup ({a} \ DOMAIN row)) \ {k}
    BY <1>4, <1>8 DEF Visit
  <2>2. a \in Names
    <3>1. a \in {out.aliases[x] : x \in DOMAIN out.aliases}
      BY <1>8 DEF Renamed
    <3> QED BY <1>1, <3>1 DEF Names, out, def
  <2>3. Rename(row, k) \in [(S \cup {a}) \ {k} -> Columns]
    BY <1>5, <1>6 DEF Rename, Put, Without, Restrict
  <2>4. Rename(row, k) \in AnyRow
    BY <2>2, <2>3 DEF AnyRow
  <2>5. RowInv(Rename(row, k), DOMAIN result[at], todo', maybe')
    BY <1>3, <1>4, <1>8, <2>1, RenamedStep
  <2> QED BY <1>1, <1>2, <2>1, <2>4, <2>5
<1>9. CASE ~Omitted(k) /\ ~Renamed(k)
  <2>1. rows' = rows /\ todo' = todo \ {k} /\ maybe' = maybe \ {k}
    BY <1>9 DEF Visit
  <2>2. RowInv(rows[at], DOMAIN result[at], todo', maybe')
    BY <1>3, <1>4, <1>9, <2>1, PlainStep
  <2> QED BY <1>1, <1>2, <2>1, <2>2
<1> QED BY <1>7, <1>8, <1>9

LEMMA VisitKeeps ==
  ASSUME ServeInv, NEW k \in todo \cup maybe, Visit(k)
  PROVE  Shaping'
<1>1. UNCHANGED <<scenario, result, at, phase, resp>>
  BY DEF Visit, limiterVars
<1>2. /\ Shaping /\ at \in 1..Len(rows)
      /\ RowInv(rows'[at], DOMAIN result[at], todo', maybe')
      /\ rows' \in Seq(AnyRow) /\ Len(rows') = Len(rows)
      /\ \A i \in 1..Len(rows) : i # at => rows'[i] = rows[i]
  BY VisitRow
<1>3. ASSUME NEW i \in 1..Len(rows)
      PROVE  RowInv(rows[i], DOMAIN result[i], Left(i), Inserted(i))'
  <2>1. PICK row, cols, t, m : /\ row = rows'[i] /\ cols = DOMAIN result'[i]
                               /\ t = Left(i)' /\ m = Inserted(i)'
    OBVIOUS
  <2>2. RowInv(row, cols, t, m)
    <3>1. CASE i = at
      <4>1. t = todo' /\ m = maybe'
        BY <1>1, <1>2, <2>1, <3>1 DEF Left, Inserted
      <4> QED BY <1>1, <1>2, <2>1, <3>1, <4>1
    <3>2. CASE i # at
      <4>1. t = Left(i) /\ m = Inserted(i) /\ row = rows[i]
        BY <1>1, <1>2, <2>1, <3>2 DEF Left, Inserted
      <4> QED BY <1>1, <1>2, <2>1, <4>1 DEF Shaping
    <3> QED BY <3>1, <3>2
  <2>3. RowInv(row, cols, t, m)'
    BY <1>1, <2>2, RowInvStays
  <2> QED BY <2>1, <2>3
<1>4. /\ result' \in Seq(Rows) /\ rows' \in Seq(AnyRow)
      /\ Len(rows') = Len(Cut(result'))
      /\ at' \in 0..Len(rows') /\ at' # 0
      /\ \A i \in 1..Len(rows') : i > at' => rows'[i] = result'[i]
  BY <1>1, <1>2 DEF Shaping
<1> QED BY <1>2, <1>3, <1>4 DEF Shaping

LEMMA NextRowKeeps ==
  ASSUME ServeInv, NextRow
  PROVE  Shaping'
<1>1. /\ UNCHANGED <<scenario, result, rows>>
      /\ Shaping /\ todo = {} /\ at < Len(rows) /\ at' = at + 1
      /\ todo' = DOMAIN rows[at + 1] /\ maybe' = {}
  BY DEF NextRow, ServeInv, limiterVars
<1>2. /\ at + 1 \in 1..Len(rows) /\ at \in Nat
      /\ rows[at + 1] = result[at + 1]
  BY <1>1 DEF Shaping
<1>3. ASSUME NEW i \in 1..Len(rows)
      PROVE  RowInv(rows[i], DOMAIN result[i], Left(i), Inserted(i))'
  <2>1. PICK row, cols, t, m : /\ row = rows'[i] /\ cols = DOMAIN result'[i]
                               /\ t = Left(i)' /\ m = Inserted(i)'
    OBVIOUS
  <2>2. row = rows[i] /\ cols = DOMAIN result[i] /\ t = Left(i) /\ m = {}
    BY <1>1, <1>2, <2>1 DEF Left, Inserted
  <2>3. RowInv(row, cols, t, Inserted(i))
    BY <1>1, <2>2 DEF Shaping
  <2>4. RowInv(row, cols, t, m)
    BY <2>2, <2>3, ForgetInserted
  <2>5. RowInv(row, cols, t, m)'
    BY <1>1, <2>4, RowInvStays
  <2> QED BY <2>1, <2>5
<1>4. /\ result' \in Seq(Rows) /\ rows' \in Seq(AnyRow)
      /\ Len(rows') = Len(Cut(result'))
      /\ at' \in 0..Len(rows') /\ at' # 0
      /\ \A i \in 1..Len(rows') : i > at' => rows'[i] = result'[i]
  BY <1>1, <1>2 DEF Shaping
<1> QED BY <1>1, <1>3, <1>4 DEF Shaping

LEMMA QueryKeeps ==
  ASSUME ServeInv, QueryOk
  PROVE  Shaping'
<1>1. PICK s \in Results[scenario.kind] : result' = s /\ rows' = Cut(s)
  BY DEF QueryOk
<1>2. /\ scenario' = scenario /\ scenario \in Scenarios
      /\ at' = 0 /\ todo' = {} /\ maybe' = {}
  BY DEF QueryOk, ServeInv
<1>3. s \in Seq(Rows)
  BY <1>2, ServeAssumption DEF ServeAssumption
<1>4. /\ rows' \in Seq(AnyRow) /\ Len(rows') \in Nat
      /\ Len(rows') = Len(Cut(result'))
      /\ \A i \in 1..Len(rows') : /\ rows'[i] = result'[i]
                                  /\ rows'[i] = Row(DOMAIN result'[i])
  BY <1>1, <1>3, CutType
<1>5. ASSUME NEW i \in 1..Len(rows')
      PROVE  RowInv(rows[i], DOMAIN result[i], Left(i), Inserted(i))'
  <2>1. PICK row, cols, t, m : /\ row = rows'[i] /\ cols = DOMAIN result'[i]
                               /\ t = Left(i)' /\ m = Inserted(i)'
    OBVIOUS
  <2>2. row = Row(cols) /\ t = cols /\ m = {}
    BY <1>2, <1>4, <2>1 DEF Left, Inserted
  <2>3. RowInv(row, cols, t, m)
    BY <2>2, FreshRow
  <2>4. RowInv(row, cols, t, m)'
    BY <1>2, <2>3, RowInvStays
  <2> QED BY <2>1, <2>4
<1> QED BY <1>1, <1>2, <1>3, <1>4, <1>5 DEF Shaping

\* What Respond answers is what the output block says.
LEMMA RespondKeeps ==
  ASSUME ServeInv, Respond
  PROVE  ShapeFollowsConfig'
<1>1. /\ UNCHANGED <<scenario, result>> /\ Shaping /\ todo = {} /\ at = Len(rows)
      /\ resp'.kind = "rows" => resp'.rows = Shown
  BY DEF Respond, ServeInv, Answer, shapeVars
<1>2. out' = out
  BY <1>1 DEF out, def
<1> SUFFICES ASSUME resp'.kind = "rows"
             PROVE  (/\ Len(resp.rows) = Len(Cut(result))
                     /\ \A i \in DOMAIN resp.rows :
                          /\ out.format # "csv" /\ Clean(result[i]) =>
                               Shaped(resp.rows[i], result[i])
                          /\ \A c \in DOMAIN resp.rows[i] :
                               resp.rows[i][c] \notin out.omit)'
  BY DEF ShapeFollowsConfig
<1>3. /\ rows \in Seq(AnyRow) /\ Len(rows) \in Nat /\ DOMAIN rows = 1..Len(rows)
      /\ Len(rows) = Len(Cut(result)) /\ result \in Seq(Rows)
  BY <1>1 DEF Shaping
<1>4. ASSUME NEW i \in 1..Len(rows)
      PROVE  /\ \A c \in DOMAIN rows[i] : rows[i][c] \notin out.omit
             /\ Clean(result[i]) => Shaped(rows[i], result[i])
  <2>1. RowInv(rows[i], DOMAIN result[i], {}, Inserted(i))
    <3>1. Left(i) = {}
      BY <1>1, <1>3 DEF Left
    <3> QED BY <1>1, <3>1 DEF Shaping
  <2>3. result[i] = Row(DOMAIN result[i])
    BY <1>3, CutType
  <2>4. PICK row, cols, m : row = rows[i] /\ cols = DOMAIN result[i] /\ m = Inserted(i)
    OBVIOUS
  <2>5. /\ \A c \in DOMAIN row : row[c] \notin out.omit
        /\ Clean(Row(cols)) => Shaped(row, Row(cols))
    BY <2>1, <2>4, FinishedRow
  <2> QED BY <2>3, <2>4, <2>5
<1>5. "" \notin out.omit
  BY ServeAssumption DEF ServeAssumption, ServeInv, out, def
<1>6. /\ Len(Shown) = Len(rows) /\ DOMAIN Shown = 1..Len(rows)
      /\ out.format # "csv" => Shown = rows
  <2>1. CASE out.format # "csv"
    BY <1>3, <2>1 DEF Shown
  <2>2. CASE out.format = "csv"
    <3>1. PICK n \in Nat : n = Len(rows) /\ DOMAIN rows = 1..n
      BY <1>3
    <3>2. \E f : Shown = [i \in 1..n |-> f[i]]
      <4>1. Shown = [i \in 1..n |-> Shown[i]]
        BY <2>2, <3>1 DEF Shown
      <4> QED BY <4>1
    <3>3. DOMAIN Shown = 1..n /\ Len(Shown) = n
      BY <3>1, <3>2
    <3> QED BY <2>2, <3>1, <3>3
  <2> QED BY <2>1, <2>2
<1>7. ASSUME NEW i \in 1..Len(rows), NEW c \in DOMAIN Shown[i]
      PROVE  Shown[i][c] \notin out.omit
  <2>1. CASE out.format # "csv"
    BY <1>4, <1>6, <1>7, <2>1
  <2>2. CASE out.format = "csv"
    <3>1. Shown[i] = [x \in DOMAIN rows[1] |->
                        IF x \in DOMAIN rows[i] THEN rows[i][x] ELSE ""]
      BY <1>3, <2>2 DEF Shown
    <3>2. Shown[i][c] = "" \/ (c \in DOMAIN rows[i] /\ Shown[i][c] = rows[i][c])
      BY <1>7, <3>1
    <3> QED BY <1>4, <1>5, <3>2
  <2> QED BY <2>1, <2>2
<1>8. PICK shown : shown = Shown /\ resp'.rows = shown
  BY <1>1
<1>9. \A new, r : /\ Clean(r)' <=> Clean(r)
                  /\ Shaped(new, r)' <=> Shaped(new, r)
  BY <1>1, OutputFixed DEF Shaped
<1>10. Len(shown) = Len(Cut(result)) /\ DOMAIN shown = 1..Len(rows)
  BY <1>3, <1>6, <1>8
<1>11. \A i \in 1..Len(rows) :
         /\ out.format # "csv" /\ Clean(result[i]) => Shaped(shown[i], result[i])
         /\ \A c \in DOMAIN shown[i] : shown[i][c] \notin out.omit
  BY <1>4, <1>6, <1>7, <1>8
<1>12. Cut(result)' = Cut(result)
  BY <1>1 DEF Cut
<1> QED BY <1>1, <1>2, <1>8, <1>9, <1>10, <1>11, <1>12

(***************************************************************************)
(* In every order of visiting the map, and whatever the database answers,  *)
(* the loop keeps its rows in order.                                       *)
(***************************************************************************)
THEOREM ServeInvariance == ServeSpec => []ServeInv
<1>1. ServeInit => ServeInv
  BY DEF ServeInit, ServeInv, ShapeFollowsConfig
<1>2. ServeInv /\ [ServeNext]_serveVars => ServeInv'
  <2> SUFFICES ASSUME ServeInv, [ServeNext]_serveVars PROVE ServeInv'
    OBVIOUS
  <2>1. scenario' \in Scenarios /\ scenario' = scenario
    BY ScenarioFixed DEF ServeInv
  <2>2. ASSUME NEW r \in Requests[scenario.kind], Arrive(r) \/ TooMany(r)
        PROVE  ServeInv'
    <3>1. /\ todo' = {} /\ maybe' = {} /\ phase' \in {"get", "answered"}
          /\ resp'.kind # "rows"
      BY <2>2 DEF Arrive, TooMany, Begin, Fail, Answer, Unanswered
    <3> QED BY <2>1, <3>1 DEF ServeInv, ShapeFollowsConfig
  <2>3. CASE GetOk \/ BindParam
    <3>1. /\ todo' = todo /\ maybe' = maybe /\ phase \in {"get", "bind"}
          /\ phase' = "bind"
      BY <2>3 DEF GetOk, BindParam, shapeVars
    <3> QED BY <2>1, <3>1 DEF ServeInv, ShapeFollowsConfig
  <2>4. CASE GetFailed \/ ParamRefused \/ QueryFailed
    <3>1. phase' = "answered" /\ resp'.kind # "rows"
      BY <2>4 DEF GetFailed, ParamRefused, QueryFailed, Fail, Answer
    <3> QED BY <2>1, <3>1 DEF ServeInv, ShapeFollowsConfig
  <2>5. CASE QueryOk
    <3>1. Shaping' /\ phase' = "shape"
      BY <2>5, QueryKeeps DEF QueryOk
    <3> QED BY <2>1, <3>1 DEF ServeInv, ShapeFollowsConfig
  <2>6. CASE NextRow
    <3>1. Shaping' /\ phase' = "shape"
      BY <2>6, NextRowKeeps DEF NextRow
    <3> QED BY <2>1, <3>1 DEF ServeInv, ShapeFollowsConfig
  <2>7. ASSUME NEW k \in todo \cup maybe, Visit(k) PROVE ServeInv'
    <3>1. Shaping' /\ phase' = "shape"
      BY <2>7, VisitKeeps DEF Visit
    <3> QED BY <2>1, <3>1 DEF ServeInv, ShapeFollowsConfig
  <2>8. CASE Respond
    <3>1. ShapeFollowsConfig' /\ phase' = "answered"
      BY <2>8, RespondKeeps DEF Respond, Answer
    <3> QED BY <2>1, <3>1 DEF ServeInv
  <2>9. CASE Clock \/ UNCHANGED serveVars
    <3>1. UNCHANGED <<scenario, phase, result, rows, at, todo, maybe, resp>>
      BY <2>9 DEF Clock, serveVars, shapeVars
    <3>2. ShapeFollowsConfig'
      BY <3>1, ShapeStays DEF ServeInv
    <3>3. ASSUME Shaping PROVE Shaping'
      <4>1. ASSUME NEW i \in 1..Len(rows)
            PROVE  RowInv(rows[i], DOMAIN result[i], Left(i), Inserted(i))'
        <5>1. PICK row, cols, t, m :
                /\ row = rows'[i] /\ cols = DOMAIN result'[i]
                /\ t = Left(i)' /\ m = Inserted(i)'
          OBVIOUS
        <5>2. RowInv(row, cols, t, m)
          BY <3>1, <3>3, <5>1 DEF Shaping, Left, Inserted
        <5>3. RowInv(row, cols, t, m)'
          BY <3>1, <5>2, RowInvStays
        <5> QED BY <5>1, <5>3
      <4>2. Cut(result)' = Cut(result)
        BY <3>1 DEF Cut
      <4> QED BY <3>1, <3>3, <4>1, <4>2 DEF Shaping
    <3> QED BY <2>1, <3>1, <3>2, <3>3 DEF ServeInv
  <2> QED
    BY <2>2, <2>3, <2>4, <2>5, <2>6, <2>7, <2>8, <2>9 DEF ServeNext
<1> QED BY <1>1, <1>2, PTL DEF ServeSpec

(***************************************************************************)
(* The response has the first MaxRows rows, each with what aliases and     *)
(* omit say; nothing of an omitted column is answered under any name.      *)
(***************************************************************************)
THEOREM ShapesFollowConfig == ServeSpec => []ShapeFollowsConfig
<1>1. ServeInv => ShapeFollowsConfig
  BY DEF ServeInv
<1> QED BY <1>1, ServeInvariance, PTL

-----------------------------------------------------------------------------
(* Numbers.                                                                *)

LEMMA MinFacts ==
  ASSUME NEW S \in SUBSET Nat, S # {}
  PROVE  Min(S) \in S /\ \A i \in S : Min(S) <= i
BY Least DEF Min

\* The spacings of floats: a power of two divides IntLimit, and is even
\* if it is not 1.
LEMMA PowerFacts ==
  ASSUME NEW s \in Powers
  PROVE  /\ s \in Nat \ {0} /\ IntLimit \in Nat \ {0}
         /\ \E k \in Nat \ {0} : k * s = IntLimit
         /\ s = 1 \/ \E h \in Nat : s = 2 * h
<1>1. IntLimit \in Nat \ {0} /\ s \in Nat \ {0}
  BY CoercionAssumption DEF CoercionAssumption, Powers
<1>2. \E k \in Nat \ {0} : k * s = IntLimit
  BY <1>1 DEF Powers
<1>3. s = 1 \/ \E h \in 1..s : s = 2 * h
  BY CoercionAssumption DEF CoercionAssumption
<1> QED BY <1>1, <1>2, <1>3

LEMMA IntLimitInPowers == IntLimit \in Powers
BY CoercionAssumption DEF CoercionAssumption, Powers

LEMMA SpacingFacts ==
  ASSUME NEW n \in Int, InRange(n)
  PROVE  Spacing(n) \in Powers
<1> DEFINE S == {s \in Powers : Magnitude(n) <= s * Significand}
<1>1. S \in SUBSET Nat /\ S # {}
  BY PowerFacts DEF InRange
<1>2. Min(S) \in S
  BY <1>1, MinFacts
<1> QED BY <1>2 DEF Spacing

LEMMA RoundParts ==
  ASSUME NEW n \in Int, InRange(n)
  PROVE  \E s \in Powers, q \in Int :
           /\ q * s <= n /\ n < (q + 1) * s
           /\ Round(n) \in {q * s, (q + 1) * s}
           /\ s = 1 => Round(n) = n
<1> DEFINE s == Spacing(n)
           q == n \div s
<1>1. s \in Powers /\ s \in Nat \ {0}
  BY SpacingFacts, PowerFacts
<1>2. q \in Int /\ q * s <= n /\ n < (q + 1) * s
  BY <1>1
<1>3. Round(n) \in {q * s, (q + 1) * s}
  BY DEF Round
<1>4. ASSUME s = 1 PROVE Round(n) = n
  <2>1. q * s = n
    BY <1>2, <1>4
  <2>2. n - q * s = 0
    BY <2>1
  <2>3. 2 * (n - q * s) < s
    BY <1>4, <2>2
  <2>4. Round(n) = q * s
    BY <2>3 DEF Round
  <2> QED BY <2>1, <2>4
<1> QED BY <1>1, <1>2, <1>3, <1>4

LEMMA RoundType ==
  ASSUME NEW n \in Int, InRange(n)
  PROVE  Round(n) \in Int
<1>1. PICK s \in Powers, q \in Int : Round(n) \in {q * s, (q + 1) * s}
  BY RoundParts
<1> QED BY <1>1, PowerFacts

\* An int is in the range of float64, whatever float it becomes is an integer,
\* and none below int64.
LEMMA RoundInt ==
  ASSUME NEW m \in Int64
  PROVE  /\ InRange(2 * m)
         /\ \E k \in Int : Round(2 * m) = 2 * k /\ k >= -IntLimit
<1>1. m \in Int /\ m >= -IntLimit /\ m < IntLimit /\ IntLimit \in Nat \ {0}
  BY CoercionAssumption DEF CoercionAssumption, Int64
<1>2. InRange(2 * m)
  <2>1. Magnitude(2 * m) <= 2 * IntLimit
    BY <1>1 DEF Magnitude
  <2>2. 2 * IntLimit <= IntLimit * Significand
    BY <1>1, CoercionAssumption DEF CoercionAssumption
  <2>3. Magnitude(2 * m) <= IntLimit * Significand
    <3>1. Magnitude(2 * m) \in Int /\ Significand \in Nat
      BY <1>1, CoercionAssumption DEF Magnitude, CoercionAssumption
    <3> QED BY <1>1, <2>1, <2>2, <3>1
  <2> QED BY <2>3, IntLimitInPowers DEF InRange
<1>3. PICK s \in Powers, q \in Int :
        /\ q * s <= 2 * m /\ 2 * m < (q + 1) * s
        /\ Round(2 * m) \in {q * s, (q + 1) * s}
        /\ s = 1 => Round(2 * m) = 2 * m
  BY <1>1, <1>2, RoundParts
<1>4. CASE s = 1
  BY <1>1, <1>2, <1>3, <1>4
<1>5. CASE \E h \in Nat : s = 2 * h
  <2>1. PICK h \in Nat : s = 2 * h
    BY <1>5
  <2>2. PICK k \in Nat \ {0} : k * s = IntLimit
    BY PowerFacts
  <2>3. s \in Nat \ {0} /\ h > 0
    BY <2>1, PowerFacts
  <2>4. (q + 1 + 2 * k) * s > 0
    <3>1. (q + 1 + 2 * k) * s = (q + 1) * s + 2 * (k * s)
      BY <2>2, <2>3
    <3>2. (q + 1) * s \in Int
      BY <2>3
    <3> QED BY <1>1, <1>3, <2>2, <3>1, <3>2
  <2>5. q + 2 * k >= 0
    <3>1. q + 1 + 2 * k > 0
      BY <2>2, <2>3, <2>4
    <3> QED BY <2>2, <3>1
  <2>6. ASSUME NEW p \in Int, p + 2 * k >= 0
        PROVE  \E j \in Int : p * s = 2 * j /\ j >= -IntLimit
    <3>1. p * h \in Int /\ p * s = 2 * (p * h)
      BY <2>1
    <3>2. (p + 2 * k) * s >= 0
      BY <2>2, <2>3, <2>6
    <3>3. p * s >= -2 * IntLimit
      BY <2>2, <2>3, <3>2
    <3> QED BY <1>1, <3>1, <3>3
  <2> QED BY <1>2, <1>3, <2>2, <2>5, <2>6
<1> QED BY <1>4, <1>5, PowerFacts

LEMMA TruncateFacts ==
  ASSUME NEW c \in Int
  PROVE  /\ Truncate(c) \in Int
         /\ c >= 0 => 2 * Truncate(c) <= c /\ c <= 2 * Truncate(c) + 1
         /\ c < 0 => c <= 2 * Truncate(c) /\ 2 * Truncate(c) - 1 <= c
         /\ \A k \in Int : c = 2 * k => Truncate(c) = k
BY DEF Truncate
\* The number is within min and max, and is sent as it is or at the cap.
LEMMA Bounded ==
  ASSUME NEW b, b.min \in Optional(Int), b.max \in Optional(Int),
         b.cap \in Optional(Int),
         NEW r \in Int, NEW y \in ApplyNumericBounds({r}, b)
  PROVE  /\ \A lo \in b.min : r >= lo
         /\ \A hi \in b.max : r <= hi
         /\ \/ y = {r} /\ \A c \in b.cap : r <= c
            \/ \E c \in Int : b.cap = {c} /\ y = {c} /\ r > c
<1> USE DEF Optional
<1>1. /\ ~(\E lo \in b.min : r < lo)
      /\ ~(\E hi \in b.max : r > hi)
      /\ y = IF \E n \in {r}, c \in b.cap : n > c THEN b.cap ELSE {r}
  BY DEF ApplyNumericBounds
<1>2. CASE \E c \in b.cap : r > c
  <2>1. PICK c \in Int : c \in b.cap /\ r > c
    BY <1>2
  <2>2. b.cap = {c} /\ y = {c}
    BY <1>1, <2>1
  <2> QED BY <1>1, <2>1, <2>2
<1>3. CASE \A c \in b.cap : ~(r > c)
  BY <1>1, <1>3
<1> QED BY <1>2, <1>3

LEMMA FloatHonoured ==
  ASSUME NEW b, b.min \in Optional(Int), b.max \in Optional(Int),
         b.cap \in Optional(Int), b.type = "float",
         NEW t, t.num \in Optional(Int), t.form # "nan",
         NEW v \in Coerce(t, b)
  PROVE  v.type = "float" /\ NumberHonoured(b, t, v)
<1>1. PICK y : /\ \E x \in ParseFloat(t) : y \in ApplyNumericBounds(x, b)
               /\ v = Number("float", y)
  BY DEF Coerce
<1>2. PICK n \in t.num : InRange(n) /\ y \in ApplyNumericBounds({Round(n)}, b)
  BY <1>1 DEF ParseFloat
<1>3. n \in Int /\ t.num = {n}
  BY <1>2 DEF Optional
<1>4. PICK r \in Int : r = Round(n)
  BY <1>2, <1>3, RoundType
<1>5. /\ \A lo \in b.min : r >= lo
      /\ \A hi \in b.max : r <= hi
      /\ \/ y = {r} /\ \A c \in b.cap : r <= c
         \/ \E c \in Int : b.cap = {c} /\ y = {c} /\ r > c
  BY <1>2, <1>4, Bounded
<1>6. v.type = "float" /\ v.num = y /\ AtCap(b) = b.cap
  BY <1>1 DEF Number, AtCap
<1>7. b.min \subseteq Int /\ b.max \subseteq Int /\ b.cap \subseteq Int
  BY DEF Optional
<1>8. ASSUME Sound(b), NEW m \in y
      PROVE  /\ \A lo \in b.min : m >= lo
             /\ \A hi \in b.max : m <= hi
             /\ \A c \in b.cap : m <= c \/ m \in AtCap(b)
  BY <1>5, <1>6, <1>7, <1>8 DEF Sound
<1>9. ASSUME Exact(t) PROVE r = n
  BY <1>3, <1>4, <1>9 DEF Exact
<1> QED BY <1>3, <1>5, <1>6, <1>8, <1>9 DEF NumberHonoured

LEMMA IntHonoured ==
  ASSUME NEW b, b.min \in Optional(Int), b.max \in Optional(Int),
         b.cap \in Optional(Int), b.type = "int",
         NEW t, t.num \in Optional(Int),
         NEW v \in Coerce(t, b)
  PROVE  v.type = "int" /\ NumberHonoured(b, t, v)
<1>1. PICK n, y, m :
        /\ n \in Int64 /\ m \in ToInt64(y)
        /\ 2 * n \in t.num
        /\ y \in ApplyNumericBounds({Round(2 * n)}, b)
        /\ v = Number("int", {2 * m})
  BY DEF Coerce, ParseInt
<1>2. n \in Int /\ n < IntLimit /\ n >= -IntLimit /\ IntLimit \in Nat \ {0}
      /\ t.num = {2 * n}
  BY <1>1, CoercionAssumption DEF CoercionAssumption, Int64, Optional
<1>3. PICK k \in Int : Round(2 * n) = 2 * k /\ k >= -IntLimit
  BY <1>1, RoundInt
<1>4. PICK r \in Int : r = 2 * k
  BY <1>3
<1>5. /\ \A lo \in b.min : r >= lo
      /\ \A hi \in b.max : r <= hi
      /\ \/ y = {r} /\ \A c \in b.cap : r <= c
         \/ \E c \in Int : b.cap = {c} /\ y = {c} /\ r > c
  BY <1>1, <1>3, <1>4, Bounded
<1>6. v.type = "int" /\ v.num = {2 * m} /\ AtCap(b) = {2 * Truncate(c) : c \in b.cap}
  BY <1>1 DEF Number, AtCap
<1>7. b.min \subseteq Int /\ b.max \subseteq Int /\ b.cap \subseteq Int
  BY DEF Optional
<1>8. ASSUME NEW c \in Int, y = {c}, Truncate(c) >= -IntLimit, Truncate(c) < IntLimit
      PROVE  m = Truncate(c)
  <2>1. Truncate(c) \in Int64
    BY <1>2, <1>8, TruncateFacts DEF Int64
  <2> QED BY <1>1, <1>8, <2>1 DEF ToInt64
<1>9. Truncate(r) = k
  BY <1>4, TruncateFacts
<1>10. ASSUME NEW c \in Int, r > c
       PROVE  2 * Truncate(c) <= r /\ Truncate(c) <= k /\ Truncate(c) \in Int
  BY <1>4, <1>10, TruncateFacts
<1>11. ASSUME NEW hi \in Int, r <= hi, Truncate(hi) < IntLimit
       PROVE  k < IntLimit
  BY <1>2, <1>4, <1>11, TruncateFacts
<1>12. ASSUME Sound(b)
       PROVE  /\ \A lo \in b.min : 2 * m >= lo
              /\ \A hi \in b.max : 2 * m <= hi
              /\ \A c \in b.cap : 2 * m <= c \/ 2 * m \in AtCap(b)
  <2>1. CASE y = {r} /\ \A c \in b.cap : r <= c
    <3>1. k < IntLimit
      BY <1>5, <1>7, <1>11, <1>12, <2>1 DEF Sound
    <3>2. m = k
      BY <1>3, <1>8, <1>9, <2>1, <3>1
    <3> QED BY <1>4, <1>5, <2>1, <3>2
  <2>2. CASE \E c \in Int : b.cap = {c} /\ y = {c} /\ r > c
    <3>1. PICK c \in Int : b.cap = {c} /\ y = {c} /\ r > c
      BY <2>2
    <3>2. Truncate(c) >= -IntLimit
      BY <1>12, <3>1 DEF Sound, CapReached
    <3>3. Truncate(c) < IntLimit
      <4>1. CASE \E hi \in b.max : Truncate(hi) < IntLimit
        BY <1>2, <1>5, <1>7, <1>10, <1>11, <3>1, <4>1
      <4>2. CASE \E d \in b.cap : Truncate(d) < IntLimit
        BY <3>1, <4>2
      <4> QED BY <1>12, <4>1, <4>2 DEF Sound
    <3>4. m = Truncate(c) /\ AtCap(b) = {2 * m}
      BY <1>6, <1>8, <3>1, <3>2, <3>3
    <3>5. \A lo \in b.min : 2 * m >= lo
      <4>1. m \in Int
        BY <3>4, TruncateFacts
      <4>2. \A lo \in b.min : lo <= 2 * m
        BY <1>12, <3>4 DEF Sound
      <4> QED BY <1>7, <4>1, <4>2
    <3>6. \A hi \in b.max : 2 * m <= hi
      <4>1. m \in Int /\ 2 * m <= r
        BY <1>10, <3>1, <3>4
      <4> QED BY <1>5, <1>7, <4>1
    <3> QED BY <3>4, <3>5, <3>6
  <2> QED BY <1>5, <2>1, <2>2
<1>13. ASSUME Exact(t), CapReached(b)
       PROVE  /\ r = 2 * n
              /\ \/ m = n /\ \A c \in b.cap : 2 * n <= c
                 \/ {2 * m} = AtCap(b) /\ \A c \in b.cap : 2 * n > c
  <2>1. k = n /\ r = 2 * n
    BY <1>2, <1>3, <1>4, <1>13 DEF Exact
  <2>2. CASE y = {r} /\ \A c \in b.cap : r <= c
    BY <1>2, <1>8, <1>9, <2>1, <2>2
  <2>3. CASE \E c \in Int : b.cap = {c} /\ y = {c} /\ r > c
    <3>1. PICK c \in Int : b.cap = {c} /\ y = {c} /\ r > c
      BY <2>3
    <3>2. Truncate(c) >= -IntLimit
      BY <1>13, <3>1 DEF CapReached
    <3>3. Truncate(c) < IntLimit
      BY <1>2, <1>10, <2>1, <3>1
    <3>4. m = Truncate(c)
      BY <1>8, <3>1, <3>2, <3>3
    <3> QED BY <1>6, <2>1, <3>1, <3>4
  <2> QED BY <1>5, <2>2, <2>3
<1> QED
  BY <1>2, <1>5, <1>6, <1>12, <1>13 DEF NumberHonoured
-----------------------------------------------------------------------------
(* Parameters.                                                             *)

\* No value that coerce returns is nil, and a string fits the pattern.
LEMMA CoerceFacts ==
  ASSUME NEW b, NEW t, NEW v \in Coerce(t, b)
  PROVE  /\ v # Nil
         /\ b.pattern /\ v.type = "string" => t.fits
<1>0. Nil.type = "nil"
  BY DEF Nil, Text
<1>1. CASE b.type \in {"int", "float", "bool"}
  <2>1. v.type \in {"int", "float", "bool"}
    BY <1>1 DEF Coerce, Number
  <2> QED BY <1>0, <2>1
<1>2. CASE b.type \in {"datetime", "duration"}
  <2>1. v.type \in {"datetime", "duration"}
    BY <1>2 DEF Coerce, Text
  <2> QED BY <1>0, <2>1
<1>3. CASE b.type \notin {"int", "float", "bool", "datetime", "duration"}
  <2>1. Matches(t, b) /\ v.type = "string"
    BY <1>3 DEF Coerce, Text
  <2>2. b.pattern => t.fits
    BY <2>1 DEF Matches
  <2> QED BY <1>0, <2>1, <2>2
<1> QED BY <1>1, <1>2, <1>3

LEMMA ResolvedRight ==
  ASSUME scenario \in Scenarios, req \in Requests[scenario.kind],
         NEW i \in DOMAIN params,
         NEW v \in Resolve(params[i], params, req)
  PROVE  LET b == params[i]
             t == Given(b, params, req)
         IN /\ v = Nil <=> t = Absent
            /\ t # Absent /\ b.type \in {"int", "float"} /\ t.form # "nan" =>
                 v.type = b.type /\ NumberHonoured(b, t, v)
            /\ t # Absent /\ b.pattern /\ v.type = "string" => t.fits
<1>1. PICK b, t : b = params[i] /\ t = Given(b, params, req)
  OBVIOUS
<1>2. b \in ToSet(scenario.def.params)
  BY <1>1 DEF params, def, ToSet
<1>3. /\ b.min \in Optional(Int) /\ b.max \in Optional(Int)
      /\ b.cap \in Optional(Int) /\ t.num \in Optional(Int)
  BY <1>1, <1>2, NumbersOptional DEF NumbersOptional, params, def
<1>4. v \in IF t = Absent THEN {Nil} ELSE Coerce(t, b)
  BY <1>1 DEF Resolve
<1>5. CASE t = Absent
  BY <1>1, <1>4, <1>5
<1>6. CASE t # Absent
  BY <1>1, <1>3, <1>4, <1>6, CoerceFacts, FloatHonoured, IntHonoured
<1> QED BY <1>5, <1>6

(***************************************************************************)
(* The invariant: the variables of the first k bindings have values, each  *)
(* one that the last of its bindings allows.                               *)
(***************************************************************************)
LastOf(i, k) == \A j \in 1..k : params[j].name = params[i].name => j <= i

BoundTo(k) ==
  /\ DOMAIN bound = {params[i].name : i \in 1..k}
  /\ \A n \in DOMAIN bound : \E i \in 1..k :
       /\ params[i].name = n /\ LastOf(i, k)
       /\ bound[n] \in Resolve(params[i], params, req)

ParamInv ==
  /\ scenario \in Scenarios
  /\ phase # "idle" => req \in Requests[scenario.kind]
  /\ phase = "get" => at = 0 /\ BoundTo(0)
  /\ phase = "bind" => at \in 0..Len(params) /\ BoundTo(at)
  /\ phase = "shape" => BoundTo(Len(params))

LEMMA ParamsType ==
  ASSUME scenario \in Scenarios
  PROVE  Len(params) \in Nat /\ DOMAIN params = 1..Len(params)
<1>1. params \in Seq(ToSet(params))
  BY ServeAssumption DEF ServeAssumption, params, def
<1> QED BY <1>1

LEMMA ParamsFixed ==
  ASSUME UNCHANGED scenario
  PROVE  params' = params
BY DEF params, def

LEMMA BoundStays ==
  ASSUME UNCHANGED <<scenario, req, bound>>, NEW k, BoundTo(k)
  PROVE  BoundTo(k)'
<1>1. PICK ps, r, f : ps = params /\ r = req /\ f = bound
  OBVIOUS
<1>2. ps = params' /\ r = req' /\ f = bound'
  BY <1>1, ParamsFixed
<1>3. \A i : LastOf(i, k)' <=> LastOf(i, k)
  BY <1>1, <1>2 DEF LastOf
<1> QED BY <1>1, <1>2, <1>3 DEF BoundTo

LEMMA BindKeeps ==
  ASSUME ParamInv, BindParam
  PROVE  at' \in 0..Len(params) /\ BoundTo(at)'
<1>1. PICK ps, r, f, k : ps = params /\ r = req /\ f = bound /\ k = at
  OBVIOUS
<1>2. /\ k \in 0..Len(ps) /\ k < Len(ps) /\ Len(ps) \in Nat
      /\ DOMAIN ps = 1..Len(ps) /\ at' = k + 1
      /\ ps = params' /\ r = req'
  BY <1>1, ParamsType, ParamsFixed DEF ParamInv, BindParam
<1>3. PICK m : m = k + 1 /\ m \in 1..Len(ps) /\ 1..m = (1..k) \cup {m}
  BY <1>2
<1>4. PICK v \in Resolve(ps[m], ps, r) : bound' = Put(f, ps[m].name, v)
  BY <1>1, <1>3 DEF BindParam, Binding, Assign
<1>5. /\ DOMAIN f = {ps[i].name : i \in 1..k}
      /\ \A n \in DOMAIN f : \E i \in 1..k :
           /\ ps[i].name = n
           /\ \A j \in 1..k : ps[j].name = ps[i].name => j <= i
           /\ f[n] \in Resolve(ps[i], ps, r)
  BY <1>1 DEF ParamInv, BindParam, BoundTo, LastOf
<1>6. /\ DOMAIN bound' = {ps[i].name : i \in 1..m}
      /\ bound'[ps[m].name] = v
      /\ \A n \in DOMAIN f : n # ps[m].name => bound'[n] = f[n]
  BY <1>3, <1>4, <1>5 DEF Put
<1>7. ASSUME NEW n \in DOMAIN bound'
      PROVE  \E i \in 1..m :
               /\ ps[i].name = n
               /\ \A j \in 1..m : ps[j].name = ps[i].name => j <= i
               /\ bound'[n] \in Resolve(ps[i], ps, r)
  <2>1. CASE n = ps[m].name
    <3>1. \A j \in 1..m : j <= m
      BY <1>3
    <3> QED BY <1>3, <1>4, <1>6, <2>1, <3>1
  <2>2. CASE n # ps[m].name
    <3>1. n \in DOMAIN f /\ bound'[n] = f[n]
      BY <1>3, <1>5, <1>6, <1>7, <2>2
    <3>2. PICK i \in 1..k :
            /\ ps[i].name = n
            /\ \A j \in 1..k : ps[j].name = ps[i].name => j <= i
            /\ f[n] \in Resolve(ps[i], ps, r)
      BY <1>5, <3>1
    <3>3. i \in 1..m /\ \A j \in 1..m : ps[j].name = ps[i].name => j <= i
      BY <1>3, <2>2, <3>2
    <3> QED BY <3>1, <3>2, <3>3
  <2> QED BY <2>1, <2>2
<1>8. BoundTo(at)'
  BY <1>2, <1>3, <1>6, <1>7 DEF BoundTo, LastOf
<1> QED BY <1>1, <1>2, <1>3, <1>8

THEOREM ParamInvariance == ServeSpec => []ParamInv
<1>1. ServeInit => ParamInv
  BY DEF ServeInit, ParamInv
<1>2. ParamInv /\ [ServeNext]_serveVars => ParamInv'
  <2> SUFFICES ASSUME ParamInv, [ServeNext]_serveVars PROVE ParamInv'
    OBVIOUS
  <2>1. scenario' \in Scenarios /\ scenario' = scenario
    BY ScenarioFixed DEF ParamInv
  <2>2. params' = params /\ Len(params) \in Nat
    BY <2>1, ParamsFixed, ParamsType DEF ParamInv
  <2>3. ASSUME NEW r \in Requests[scenario.kind], Arrive(r) \/ TooMany(r)
        PROVE  ParamInv'
    <3>1. /\ req' \in Requests[scenario'.kind] /\ at' = 0 /\ bound' = <<>>
          /\ phase' \in {"get", "answered"}
      BY <2>1, <2>3 DEF Arrive, TooMany, Begin, Fail, Answer
    <3>2. BoundTo(0)'
      BY <3>1 DEF BoundTo
    <3> QED BY <2>1, <3>1, <3>2 DEF ParamInv
  <2>4. CASE GetOk
    <3>1. /\ UNCHANGED <<scenario, req, bound>> /\ at' = at
          /\ phase = "get" /\ phase' = "bind"
      BY <2>4 DEF GetOk, shapeVars
    <3>2. BoundTo(0)'
      BY <3>1, BoundStays DEF ParamInv
    <3> QED BY <2>1, <2>2, <3>1, <3>2 DEF ParamInv
  <2>5. CASE BindParam
    <3>1. phase = "bind" /\ phase' = "bind" /\ req' = req
      BY <2>5 DEF BindParam
    <3> QED BY <2>1, <2>2, <2>5, <3>1, BindKeeps DEF ParamInv
  <2>6. CASE GetFailed \/ ParamRefused \/ QueryFailed \/ Respond
    <3>1. phase' = "answered" /\ phase # "idle" /\ req' = req
      BY <2>6 DEF GetFailed, ParamRefused, QueryFailed, Respond, Fail, Answer
    <3> QED BY <2>1, <3>1 DEF ParamInv
  <2>7. CASE QueryOk
    <3>1. /\ UNCHANGED <<scenario, req, bound>>
          /\ phase = "bind" /\ at = Len(params) /\ phase' = "shape"
      BY <2>7 DEF QueryOk
    <3>2. BoundTo(Len(params))'
      BY <2>2, <3>1, BoundStays DEF ParamInv
    <3> QED BY <2>1, <2>2, <3>1, <3>2 DEF ParamInv
  <2>8. ASSUME NextRow \/ \E k \in todo \cup maybe : Visit(k) PROVE ParamInv'
    <3>1. UNCHANGED <<scenario, req, bound>> /\ phase = "shape" /\ phase' = "shape"
      BY <2>8 DEF NextRow, Visit
    <3>2. BoundTo(Len(params))'
      BY <2>2, <3>1, BoundStays DEF ParamInv
    <3> QED BY <2>1, <2>2, <3>1, <3>2 DEF ParamInv
  <2>9. CASE Clock \/ UNCHANGED serveVars
    <3>1. UNCHANGED <<scenario, req, bound, phase, at>>
      BY <2>9 DEF Clock, serveVars, shapeVars
    <3>2. \A k : BoundTo(k) => BoundTo(k)'
      BY <3>1, BoundStays
    <3> QED BY <2>1, <2>2, <3>1, <3>2 DEF ParamInv
  <2> QED
    BY <2>3, <2>4, <2>5, <2>6, <2>7, <2>8, <2>9 DEF ServeNext
<1> QED BY <1>1, <1>2, PTL DEF ServeSpec

(***************************************************************************)
(* Whatever the bindings and the request, the statement is sent with a     *)
(* value for each variable and no other, within its bounds, for int64 and  *)
(* float64 of any width.                                                   *)
(***************************************************************************)
THEOREM ParamsAreHonoured == ServeSpec => []ParamsHonoured
<1>1. ParamInv => ParamsHonoured
  <2> SUFFICES ASSUME ParamInv, Sent PROVE ParamsHonoured
    BY DEF ParamsHonoured
  <2>1. PICK k : k = Len(params) /\ k \in Nat /\ DOMAIN params = 1..k
    BY ParamsType DEF ParamInv
  <2>2. BoundTo(k) /\ req \in Requests[scenario.kind] /\ scenario \in Scenarios
    BY <2>1 DEF ParamInv, Sent
  <2>3. DOMAIN bound = {params[i].name : i \in DOMAIN params}
    BY <2>1, <2>2 DEF BoundTo
  <2>4. ASSUME NEW n \in DOMAIN bound
        PROVE  LET b == Winner(n)
                   t == Given(b, params, req)
                   v == bound[n]
               IN /\ v = Nil <=> t = Absent
                  /\ t # Absent /\ b.type \in {"int", "float"} /\ t.form # "nan" =>
                       v.type = b.type /\ NumberHonoured(b, t, v)
                  /\ t # Absent /\ b.pattern /\ v.type = "string" => t.fits
    <3>1. PICK i \in 1..k :
            /\ params[i].name = n /\ LastOf(i, k)
            /\ bound[n] \in Resolve(params[i], params, req)
      BY <2>2, <2>4 DEF BoundTo
    <3> DEFINE S == {j \in DOMAIN params : params[j].name = n}
    <3>2. i \in S /\ \A j \in S : j \in Nat /\ i >= j
      BY <2>1, <3>1 DEF LastOf
    <3>3. Max(S) = i
      <4>1. PICK m \in S : m = Max(S) /\ \A j \in S : m >= j
        BY <3>2 DEF Max
      <4> HIDE DEF S
      <4>2. i \in Nat /\ m \in Nat /\ i >= m /\ m >= i
        BY <3>2, <4>1
      <4>3. i = m
        BY <4>2
      <4> QED BY <4>1, <4>3
    <3>4. Winner(n) = params[i]
      BY <3>3 DEF Winner
    <3> QED BY <2>1, <2>2, <3>1, <3>4, ResolvedRight
  <2> QED BY <2>3, <2>4 DEF ParamsHonoured
<1> QED BY <1>1, ParamInvariance, PTL
=============================================================================
