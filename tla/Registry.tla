------------------------------- MODULE Registry -------------------------------
(***************************************************************************)
(* A query route, from the match of the route to the response: the rate    *)
(* limit (RateLimiter), Execute of query_registry.go and writeOutput of    *)
(* handler.go.  The steps of two requests touch nothing in common but the  *)
(* limiter's buckets and a definition nobody writes, so requests come one  *)
(* after the other here.  A scenario fixes the definition, the requests    *)
(* that come, again and again, and what the database may answer.  A cell   *)
(* of the answer is known by its column; the conversion of record ids to   *)
(* text, which keeps columns, and the encodings are left out.              *)
(***************************************************************************)
EXTENDS RateLimiter, Coercion

CONSTANTS
  Scenarios,   \* [def, kind] records
  Requests,    \* kind to the requests that come
  Columns,     \* the columns a table may have
  Results,     \* kind to the rows the database may answer
  MaxRows      \* QueryRegistry.maxRows

VARIABLES
  scenario,
  req,               \* the request that is served
  phase,             \* "idle", "get", "bind", "shape", "answered"
  bound,             \* resolveParams' vars: variable to value
  result,            \* the rows the database answered
  rows,              \* the same, cut and shaped so far
  at, todo, maybe,   \* the shaping loop: its row, the columns it has yet to
                     \* visit and those it may or may not (inserted meanwhile)
  resp               \* status and what is shown

limiterVars == <<now, rates, granted>>
shapeVars   == <<result, rows, at, todo, maybe>>
serveVars   == <<limiterVars, scenario, req, phase, bound, shapeVars, resp>>

def    == scenario.def
params == def.params
out    == def.output

Unanswered == [status |-> 0, kind |-> "none", rows |-> <<>>]

ServeInit ==
  /\ Init
  /\ scenario \in Scenarios
  /\ req = [path |-> "none"]
  /\ phase = "idle"
  /\ bound = <<>>
  /\ result = <<>> /\ rows = <<>>
  /\ at = 0 /\ todo = {} /\ maybe = {}
  /\ resp = Unanswered

-----------------------------------------------------------------------------
(* The limiter.                                                            *)

\* extractIP: the proxies' word comes before the peer's address.
Address(r) ==
  IF r.forwarded # <<>> THEN Head(r.forwarded)
  ELSE IF r.real # "" THEN r.real
  ELSE r.peer

Key(r) == <<r.method, r.path, Address(r)>>

Row(columns) == [c \in columns |-> c]
Rows == {Row(columns) : columns \in SUBSET Columns}

ASSUME ServeAssumption ==
  /\ MaxRows \in Int
  /\ IsFiniteSet(Keys)   \* net/http bounds the size of a request's header
  /\ \A s \in Scenarios :
       /\ s.def.limited => \A r \in Requests[s.kind] : Key(r) \in Keys
       /\ Results[s.kind] \subseteq Seq(Rows)
       /\ "" \notin s.def.output.omit   \* the cell of a column that is not there
       /\ s.def.params \in Seq(ToSet(s.def.params))

Optional(S) == {x \in SUBSET S : \A m, n \in x : m = n}

\* A bound, and the number in what a request has for a binding, may be missing.
ASSUME NumbersOptional ==
  \A s \in Scenarios : \A b \in ToSet(s.def.params) :
    /\ b.min \in Optional(Int) /\ b.max \in Optional(Int)
    /\ b.cap \in Optional(Int)
    /\ \A r \in Requests[s.kind] : Given(b, s.def.params, r).num \in Optional(Int)

Answer(status, kind, shown) ==
  /\ phase' = "answered"
  /\ resp' = [status |-> status, kind |-> kind, rows |-> shown]

Fail(status) == Answer(status, "error", <<>>)

Begin(r) ==
  /\ phase \in {"idle", "answered"}
  /\ req' = r
  /\ bound' = <<>>
  /\ result' = <<>> /\ rows' = <<>>
  /\ at' = 0 /\ todo' = {} /\ maybe' = {}
  /\ UNCHANGED scenario

Arrive(r) ==
  /\ Begin(r)
  /\ IF def.limited THEN OpenWindow(Key(r)) \/ Admit(Key(r))
     ELSE UNCHANGED limiterVars
  /\ phase' = "get"
  /\ resp' = Unanswered

TooMany(r) ==
  /\ Begin(r)
  /\ def.limited
  /\ Refuse(Key(r))
  /\ Fail(429)

-----------------------------------------------------------------------------
(* Execute.                                                                *)

GetOk ==
  /\ phase = "get"
  /\ phase' = "bind"
  /\ UNCHANGED <<limiterVars, scenario, req, bound, shapeVars, resp>>

GetFailed ==
  /\ phase = "get"
  /\ Fail(500)
  /\ UNCHANGED <<limiterVars, scenario, req, bound, shapeVars>>

\* The binding that resolveParams is at: at counts bindings until rows come.
Binding == params[at + 1]

\* f[k] = v.
Put(f, k, v) == [x \in DOMAIN f \cup {k} |-> IF x = k THEN v ELSE f[x]]

\* A variable bound twice has its last value.
Assign(n, v) == Put(bound, n, v)

BindParam ==
  /\ phase = "bind"
  /\ at < Len(params)
  /\ \E v \in Resolve(Binding, params, req) : bound' = Assign(Binding.name, v)
  /\ at' = at + 1
  /\ UNCHANGED <<limiterVars, scenario, req, phase, result, rows, todo, maybe,
                 resp>>

ParamRefused ==
  /\ phase = "bind"
  /\ at < Len(params)
  /\ Resolve(Binding, params, req) = {}
  /\ Fail(500)
  /\ UNCHANGED <<limiterVars, scenario, req, bound, shapeVars>>

\* An error, a timeout, or a last statement whose status is not OK.
QueryFailed ==
  /\ phase = "bind"
  /\ at = Len(params)
  /\ Fail(500)
  /\ UNCHANGED <<limiterVars, scenario, req, bound, shapeVars>>

Cut(s) == IF MaxRows > 0 /\ Len(s) > MaxRows THEN SubSeq(s, 1, MaxRows) ELSE s

\* The rows of the last statement; no result is no rows.
QueryOk ==
  /\ phase = "bind"
  /\ at = Len(params)
  /\ \E s \in Results[scenario.kind] :
       /\ result' = s
       /\ rows' = Cut(s)
  /\ phase' = "shape"
  /\ at' = 0
  /\ UNCHANGED <<limiterVars, scenario, req, bound, todo, maybe, resp>>

-----------------------------------------------------------------------------
(* applyOutputShape: a loop over a map that it inserts into and deletes    *)
(* from.  Go visits what was there and is not deleted before its turn; of  *)
(* what is inserted meanwhile it visits what it happens to.                *)

NextRow ==
  /\ phase = "shape"
  /\ todo = {}
  /\ at < Len(rows)
  /\ at' = at + 1
  /\ todo' = DOMAIN rows[at + 1]
  /\ maybe' = {}
  /\ UNCHANGED <<limiterVars, scenario, req, phase, bound, result, rows, resp>>

\* Faulty variant: the alias is looked up first.
OmittedUnlessRenamed(k) == k \in out.omit /\ k \notin DOMAIN out.aliases

Omitted(k) == k \in out.omit

Renamed(k) == k \in DOMAIN out.aliases /\ out.aliases[k] # ""

Without(row, k) == Restrict(row, DOMAIN row \ {k})

\* rows[i][alias] = row[k], then delete(rows[i], k).
Rename(row, k) == Without(Put(row, out.aliases[k], row[k]), k)

Visit(k) ==
  LET row == rows[at]
      alias == out.aliases[k]
  IN
  /\ phase = "shape"
  /\ k \in todo \cup maybe
  /\ todo' = todo \ {k}
  /\ IF Omitted(k) THEN
       /\ rows' = [rows EXCEPT ![at] = Without(row, k)]
       /\ maybe' = maybe \ {k}
     ELSE IF Renamed(k) THEN
       /\ rows' = [rows EXCEPT ![at] = Rename(row, k)]
       /\ maybe' = (maybe \cup ({alias} \ DOMAIN row)) \ {k}
     ELSE
       /\ maybe' = maybe \ {k}
       /\ UNCHANGED rows
  /\ UNCHANGED <<limiterVars, scenario, req, phase, bound, result, at, resp>>

\* CSV has the columns of the first row.
Shown ==
  IF out.format = "csv"
    THEN [i \in DOMAIN rows |->
            [c \in DOMAIN rows[1] |->
               IF c \in DOMAIN rows[i] THEN rows[i][c] ELSE ""]]
    ELSE rows

\* coalesceStatus; a status of 0 became 200 in Register already.
Status == IF out.status > 0 THEN out.status ELSE 200

Respond ==
  /\ phase = "shape"
  /\ todo = {}
  /\ at = Len(rows)
  /\ IF out.body THEN Answer(Status, "body", <<>>)
     ELSE Answer(Status, "rows", Shown)
  /\ UNCHANGED <<limiterVars, scenario, req, bound, shapeVars>>

Clock ==
  /\ def.limited
  /\ Tick
  /\ UNCHANGED <<scenario, req, phase, bound, shapeVars, resp>>

ServeNext ==
  \/ \E r \in Requests[scenario.kind] : Arrive(r) \/ TooMany(r)
  \/ GetOk \/ GetFailed
  \/ BindParam \/ ParamRefused
  \/ QueryFailed \/ QueryOk
  \/ NextRow \/ (\E k \in todo \cup maybe : Visit(k)) \/ Respond
  \/ Clock

ServeSpec == ServeInit /\ [][ServeNext]_serveVars

-----------------------------------------------------------------------------
(* Safety.                                                                 *)

\* The keys of a client that let requests through, one for each path it asked
\* for, and those requests, from one time to another.
Used(a) == {k \in Keys : k[3] = a /\ granted[k] # <<>>}

Passed(a, from, to) ==
  UNION {{k} \X {i \in DOMAIN granted[k] : granted[k][i] \in from..to}
           : k \in Used(a)}

Addresses == {k[3] : k \in Keys}

(***************************************************************************)
(* What a limit is for a client: in no span of Window, those that straddle *)
(* two windows included, are 2 * Limit of its requests let through for     *)
(* each method and path that it has named.  Over the route there is no     *)
(* limit, although "the bucket is per-(route|IP)" (query_registry.go:469): *)
(* a path parameter makes a bucket of each of its values.                  *)
(***************************************************************************)
ClientSpanBounded ==
  \A a \in Addresses : \A t \in 0..now :
    Cardinality(Passed(a, t, t + Window)) <= (2 * Limit - 1) * Cardinality(Used(a))

\* resolveParams is through: Execute sends the statement with bound.
Sent == phase = "shape" \/ (phase = "bind" /\ at = Len(params))

\* Of the bindings of a variable the last counts.
Winner(n) == params[Max({i \in DOMAIN params : params[i].name = n})]

\* The number in a text survives float64.
Exact(t) == t.num # {} /\ \A n \in t.num : Round(n) = n

\* What is sent at a cap: an int loses the fraction.
AtCap(b) == {IF b.type = "int" THEN 2 * Truncate(c) ELSE c : c \in b.cap}

\* A cap of an int is an int or above.
CapReached(b) == b.type = "int" => \A c \in b.cap : Truncate(c) >= -IntLimit

\* The bounds leave room, and the upper ones of an int hold it in int64.
Sound(b) ==
  /\ CapReached(b)
  /\ \A lo \in b.min, c \in AtCap(b) : lo <= c
  /\ b.type = "int" => \E m \in b.max \cup b.cap : Truncate(m) < IntLimit

\* The value sent keeps the bounds of its binding, whatever was rounded on
\* the way, and is the number of the request or the cap.
NumberHonoured(b, t, v) ==
  /\ Sound(b) => \A m \in v.num :
       /\ \A lo \in b.min : m >= lo
       /\ \A hi \in b.max : m <= hi
       /\ \A c \in b.cap : m <= c \/ m \in AtCap(b)
  /\ Exact(t) /\ CapReached(b) =>
       /\ \A n \in t.num, lo \in b.min : n >= lo
       /\ \A n \in t.num, hi \in b.max : n <= hi
       /\ v.num # {}
       /\ \/ v.num = t.num /\ \A n \in t.num, c \in b.cap : n <= c
          \/ v.num = AtCap(b) /\ \A n \in t.num, c \in b.cap : n > c

(***************************************************************************)
(* The statement runs with a value for every binding's variable and no     *)
(* other: nil exactly if the request has nothing there and there is no     *)
(* default, else of the binding's type and within what it allows, the      *)
(* default included.  NaN, which passes all bounds of a float, is left     *)
(* out, and so is an int beyond the floats that no max or cap holds back.  *)
(***************************************************************************)
ParamsHonoured ==
  Sent =>
    /\ DOMAIN bound = {params[i].name : i \in DOMAIN params}
    /\ \A n \in DOMAIN bound :
         LET b == Winner(n)
             t == Given(b, params, req)
             v == bound[n]
         IN /\ v = Nil <=> t = Absent
            /\ t # Absent /\ b.type \in {"int", "float"} /\ t.form # "nan" =>
                 v.type = b.type /\ NumberHonoured(b, t, v)
            /\ t # Absent /\ b.pattern /\ v.type = "string" => t.fits

Target(c) == IF Renamed(c) THEN out.aliases[c] ELSE c

\* The reference: every column that is not omitted, where it goes.
Shaped(new, row) ==
  LET kept == DOMAIN row \ out.omit
  IN /\ DOMAIN new = {Target(c) : c \in kept}
     /\ \A c \in kept : new[Target(c)] = row[c]

\* No alias leads to a column of the row, to one that is omitted or renamed,
\* or to where another one leads.
Clean(row) ==
  \A c \in DOMAIN row : Renamed(c) =>
    /\ Target(c) \notin DOMAIN row \cup out.omit \cup DOMAIN out.aliases
    /\ \A d \in DOMAIN row : Target(d) = Target(c) => d = c

(***************************************************************************)
(* The response has the first MaxRows rows of the answer, each with what   *)
(* aliases and omit say, in whatever order the map was visited.  Where     *)
(* aliases meet other columns the order shows, but nothing of an omitted   *)
(* column does, under any name.                                            *)
(***************************************************************************)
ShapeFollowsConfig ==
  phase = "answered" /\ resp.kind = "rows" =>
    /\ Len(resp.rows) = Len(Cut(result))
    /\ \A i \in DOMAIN resp.rows :
         /\ out.format # "csv" /\ Clean(result[i]) =>
              Shaped(resp.rows[i], result[i])
         /\ \A c \in DOMAIN resp.rows[i] : resp.rows[i][c] \notin out.omit
=============================================================================
