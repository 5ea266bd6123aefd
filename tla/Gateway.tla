------------------------------- MODULE Gateway -------------------------------
(***************************************************************************)
(* From the Caddyfile to the responses: the parser (Caddyfile), Provision, *)
(* Register and Validate on what it made, and ServeHTTP with its routes,   *)
(* the management API and the handler behind, whose response is logged.    *)
(*                                                                         *)
(* What Execute does is Registry's, what serveSSE does LiveHub's, and what *)
(* becomes of a log record BatchWriter's: here a query fails or not, a     *)
(* live request is handed over, and a record is written.  Requests do not  *)
(* disturb each other in what is modelled here and come one by one.  A     *)
(* path is the sequence of its parts between slashes.  CORS headers and    *)
(* bodies are left out; the placeholders of a Caddyfile are replaced.      *)
(***************************************************************************)
EXTENDS Caddyfile

CONSTANTS
  Paths,      \* a path in the Caddyfile, or in a request, to its parts
  NameParts,  \* a query's name that has slashes, to its parts
  ParamParts, \* the parts that begin with a colon
  Files,      \* the files there are, to what they hold
  MaxCalls    \* bound on what the handler behind does to a response

\* A word where a route has its path is a path.
PathsGiven(words) ==
  \A i \in DOMAIN words :
    i + 2 \in DOMAIN words /\ (words[i] = "route" \/ words[i] = "live_route") =>
      words[i + 2] \in DOMAIN Paths

ASSUME GatewayAssumption ==
  /\ "" \notin ParamParts
  /\ \A p \in DOMAIN Paths : IsSeq(Paths[p])
  /\ \A n \in DOMAIN NameParts : Len(NameParts[n]) > 1
  /\ \A m, n \in DOMAIN NameParts : NameParts[m] = NameParts[n] => m = n
  /\ \A m \in DOMAIN Menus :
       /\ \A i \in DOMAIN Menus[m].first : PathsGiven(Menus[m].first[i].words)
       /\ \A l \in Menus[m].then : PathsGiven(l.words)
       /\ \A r \in Menus[m].requests : r.path \in DOMAIN Paths

VARIABLES
  phase,     \* "config", "validate", "failed", "serving", "next"
  settings,  \* the configuration with the defaults
  queries,   \* m.Queries after Register has completed each
  reg,       \* the registry: a name to the query it runs
  req,       \* the request that is served
  resp,      \* how it was answered
  \* the handler behind: calls so far, the recorder's status, the status that
  \* went out (0 when none); history: a flush came before any status
  calls, rec, wire, early

nextVars    == <<calls, rec, wire, early>>
configVars  == <<settings, queries, reg>>
gatewayVars == <<parseVars, phase, configVars, req, resp, nextVars>>

Unanswered == [by |-> "nobody", route |-> 0, status |-> 0, ran |-> 0, shown |-> 0,
               params |-> <<>>]

Status(s) == [Unanswered EXCEPT !.status = s]

Init ==
  /\ ParserInit
  /\ phase = "config"
  /\ settings = Site /\ queries = <<>> /\ reg = <<>>
  /\ req = Unanswered /\ resp = Unanswered
  /\ calls = 0 /\ rec = 0 /\ wire = 0 /\ early = FALSE

ParseStep ==
  /\ Parse
  /\ UNCHANGED <<phase, configVars, req, resp, nextVars>>

-----------------------------------------------------------------------------
(* Provision, with Register, and Validate.                                 *)

\* A field that is missing or zero has a default.
Default(f, key, zero, value) ==
  IF Entry(f, key, zero) = zero THEN Put(f, key, value) ELSE f

Log(f) ==
  Default(Default(Default(Default(f,
    "batch_size", 0, 500), "flush_interval", 0, 200),
    "buffer_size", 0, 8192), "overflow", "", "drop")

ApplyDefaults(f) ==
  Default(Default(Default(Default(Put(f, "log", Log(Entry(f, "log", <<>>))),
    "max_rows", 0, 10000), "token_refresh", 0, 300000),
    "heartbeat", 0, 30000), "api_path", "", "/_surreal")

Param(p) ==
  Default(Default(Default(p, "source", "", "body"), "key", "", p.name),
          "type", "", "string")

Output(f) == Default(Default(f, "status", 0, 200), "format", "", "json")

\* What Register makes of a query; the file has precedence over the text.
Completed(q) ==
  LET named == Entry(q, "sql_file", "")
      params == Entry(q, "param", <<>>)
      sql == IF named = "" THEN Entry(q, "sql", "") ELSE Entry(Files, named, "")
  IN Put(Put(Put(Default(q, "timeout", 0, 30000), "sql", sql),
             "param", [i \in DOMAIN params |-> Param(params[i])]),
         "output", Output(Entry(q, "output", <<>>)))

\* The patterns regexp.Compile refuses, of those in the menus.
BadPatterns == {"bad"}

\* Register returns no error.
Registrable(q) ==
  /\ q.name # ""
  /\ Completed(q).sql # ""
  /\ \A p \in ToSet(Entry(q, "param", <<>>)) :
       Entry(p, "pattern", "") \notin BadPatterns

AllQueries == Entry(site, "query", <<>>)

\* Of two queries of a name the registry has the last.
Indexed(qs) ==
  [n \in {qs[i].name : i \in DOMAIN qs} |-> Max({i \in DOMAIN qs : qs[i].name = n})]

Provision ==
  /\ phase = "config"
  /\ Loaded
  /\ Entry(site, "endpoint", "") # ""
  /\ site.auth.level # ""
  /\ \A i \in DOMAIN AllQueries : Registrable(AllQueries[i])
  /\ settings' = ApplyDefaults(site)
  /\ queries' = [i \in DOMAIN AllQueries |-> Completed(AllQueries[i])]
  /\ reg' = Indexed(queries')
  /\ phase' = "validate"
  /\ UNCHANGED <<req, resp, nextVars>>

ProvisionFailed ==
  /\ phase = "config"
  /\ Loaded
  /\ \/ Entry(site, "endpoint", "") = ""
     \/ site.auth.level = ""
     \/ \E i \in DOMAIN AllQueries : ~Registrable(AllQueries[i])
  /\ phase' = "failed"
  /\ UNCHANGED <<configVars, req, resp, nextVars>>

Routes     == Entry(settings, "route", <<>>)
LiveRoutes == Entry(settings, "live_route", <<>>)
LiveNames  == {q.name : q \in ToSet(Entry(settings, "live_query", <<>>))}

\* qnames: those of the list that was read, not of the registry.
QueryNames == {q.name : q \in ToSet(queries)}

\* Faulty variant: the live queries count as well.
KnownAnywhere(rt) == rt.query \in QueryNames \cup LiveNames

Known(rt) == rt.query # "" /\ rt.query \in QueryNames

Valid ==
  /\ \A i \in DOMAIN Routes : Known(Routes[i])
  /\ \A i \in DOMAIN LiveRoutes : LiveRoutes[i].query \in LiveNames

Validate ==
  /\ phase = "validate"
  /\ phase' = IF Valid THEN "serving" ELSE "failed"
  /\ UNCHANGED <<parseVars, configVars, req, resp, nextVars>>

-----------------------------------------------------------------------------
(* Routes.                                                                 *)

\* Faulty variant: slashes stay where they are.
Untrimmed(path) == path

\* strings.Trim(path, "/"), split.
Split(path) ==
  LET parts == {i \in DOMAIN path : path[i] # ""}
  IN IF parts = {} THEN <<"">> ELSE SubSeq(path, Min(parts), Max(parts))

IsParam(part) == part \in ParamParts

MatchPath(segs, path) ==
  LET parts == Split(path) IN
  /\ Len(parts) = Len(segs)
  /\ \A i \in DOMAIN segs :
       IF IsParam(segs[i]) THEN parts[i] # "" ELSE parts[i] = segs[i]

\* The parameters by name; of two of a name the last counts.
PathParams(segs, path) ==
  [p \in ToSet(segs) \cap ParamParts |->
     Split(path)[Max({i \in DOMAIN segs : segs[i] = p})]]

CheckHeaders(r, required) ==
  \A h \in DOMAIN required :
    LET got == Entry(r.headers, h, "")
    IN IF required[h] = "" THEN got # "" ELSE got = required[h]

Segments(rt) == Split(Paths[rt.path])

Matches(rt, r) ==
  /\ rt.method = ToUpper(r.method)
  /\ MatchPath(Segments(rt), Paths[r.path])
  /\ CheckHeaders(r, Entry(rt, "require_header", <<>>))

Matching(routes, r) == {i \in DOMAIN routes : Matches(routes[i], r)}

\* Nothing was sent or recorded yet.
Nothing == calls' = 0 /\ rec' = 0 /\ wire' = 0 /\ early' = FALSE

Respond(answer) ==
  /\ phase' = "serving"
  /\ resp' = answer
  /\ Nothing
  /\ UNCHANGED <<parseVars, configVars>>

Request(r) == phase = "serving" /\ r \in Menus[menu].requests /\ req' = r

ServeLive(r) ==
  LET hits == Matching(LiveRoutes, r) IN
  /\ Request(r)
  /\ hits # {}
  /\ Respond([Unanswered EXCEPT !.by = "live", !.route = Min(hits)])

\* outputFor: of two queries of a name the first.
OutputFor(name) == Min({i \in DOMAIN queries : queries[i].name = name})

\* Execute and what follows: an error, or the rows as the query's output says.
Executed(name) ==
  IF name \notin DOMAIN reg THEN {Status(500)}
  ELSE {[Status(500) EXCEPT !.ran = reg[name]],
        [Status(queries[OutputFor(name)].output.status)
           EXCEPT !.ran = reg[name], !.shown = OutputFor(name)]}

\* A rate limit of no request is none.
MayRefuse(rt) == Entry(rt, "rate_limit", [requests |-> 0]).requests > 0

RouteAnswers(rt) ==
  Executed(rt.query) \cup (IF MayRefuse(rt) THEN {Status(429)} ELSE {})

ServeRoute(r) ==
  LET hits == Matching(Routes, r)
      i == Min(hits)
  IN
  /\ Request(r)
  /\ Matching(LiveRoutes, r) = {}
  /\ hits # {}
  /\ \E a \in RouteAnswers(Routes[i]) :
       Respond([a EXCEPT !.by = "route", !.route = i,
                  !.params = PathParams(Segments(Routes[i]), Paths[r.path])])

Routed(r) == Matching(LiveRoutes, r) # {} \/ Matching(Routes, r) # {}

-----------------------------------------------------------------------------
(* The management API.                                                     *)

ApiPath == Paths[settings.api_path]

InApi(r) == IsPrefix(ApiPath, Paths[r.path])

\* The token counts with or without "Bearer " before it.
Authorized(r) ==
  Entry(settings, "api_token", "") \in {"", Entry(r.headers, "Authorization", "")}

\* The statuses serveAPI may answer below the API's path.
SqlAnswers(r) ==
  IF ~Entry(settings, "raw_sql", FALSE) THEN {403}
  ELSE IF r.method # "POST" THEN {405}
  ELSE {503, 400, 200}

\* The path of the request is the API's, "query" and the name, slashes and all.
AsksFor(r, name) ==
  Paths[r.path] = ApiPath \o <<"query">> \o Entry(NameParts, name, <<name>>)

ApiAnswers(r) ==
  LET sub == SubSeq(Paths[r.path], Len(ApiPath) + 1, Len(Paths[r.path]))
      asked == {n \in DOMAIN reg : AsksFor(r, n)}
  IN
  IF ~Authorized(r) THEN {Status(401)}
  ELSE IF asked # {} THEN UNION {Executed(n) : n \in asked}
  ELSE
  CASE sub \in {<<>>, <<"">>, <<"queries">>} ->
         {Status(IF r.method = "GET" THEN 200 ELSE 405)}
    [] sub = <<"sql">> -> {Status(n) : n \in SqlAnswers(r)}
    [] OTHER -> {Status(404)}

ServeAPI(r) ==
  /\ Request(r)
  /\ ~Routed(r)
  /\ InApi(r)
  /\ \E a \in ApiAnswers(r) : Respond([a EXCEPT !.by = "api"])

-----------------------------------------------------------------------------
(* The handler behind, and the responseRecorder around its writer.         *)

Final(s) == s >= 200

\* net/http's writer: the first final status goes out, informational ones
\* may go before; a body or a flush makes it 200.
Out(s) == wire' = IF wire = 0 /\ Final(s) THEN s ELSE wire

PassOn(r) ==
  /\ Request(r)
  /\ ~Routed(r)
  /\ ~InApi(r)
  /\ phase' = "next"
  /\ Nothing
  /\ resp' = Unanswered
  /\ UNCHANGED <<parseVars, configVars>>

Call ==
  /\ phase = "next"
  /\ calls < MaxCalls
  /\ calls' = calls + 1
  /\ UNCHANGED <<parseVars, phase, configVars, req, resp>>

Logging == Entry(settings.log, "table", "") # ""

\* Faulty variant: every status is recorded.
RecordAny(s) == rec' = s /\ Out(s)

\* Without a writer there is no recorder in between.
RecordFirst(s) ==
  IF Logging /\ rec # 0 THEN UNCHANGED <<rec, wire>> ELSE rec' = s /\ Out(s)

WriteHeader == Call /\ (\E s \in {103, 200, 404} : RecordFirst(s)) /\ UNCHANGED early

WriteBody ==
  /\ Call
  /\ rec' = IF rec = 0 THEN 200 ELSE rec
  /\ Out(200)
  /\ UNCHANGED early

Flush == Call /\ Out(200) /\ early' = (early \/ rec = 0) /\ UNCHANGED rec

\* The handler returns, with an error perhaps: the server completes what was
\* not sent, with 200 or the error's status.
NextReturns ==
  /\ phase = "next"
  /\ \E err \in {0, 403, 500} :
       LET late == IF err = 0 THEN 200 ELSE err IN
       /\ wire' = IF wire = 0 THEN late ELSE wire
       /\ resp' = [Status(IF rec = 0 THEN late ELSE rec) EXCEPT !.by = "next"]
  /\ phase' = "serving"
  /\ UNCHANGED <<parseVars, configVars, req, calls, rec, early>>

Next ==
  \/ ParseStep
  \/ Provision \/ ProvisionFailed \/ Validate
  \/ \E r \in Menus[menu].requests :
       ServeLive(r) \/ ServeRoute(r) \/ ServeAPI(r) \/ PassOn(r)
  \/ WriteHeader \/ WriteBody \/ Flush \/ NextReturns

Spec == Init /\ [][Next]_gatewayVars

-----------------------------------------------------------------------------
(* Safety.                                                                 *)

(***************************************************************************)
(* What Validate has let pass is found when it is asked for: a route's     *)
(* request runs its query, unless the limit refuses it, one to the API the *)
(* query it names, if the configuration has one of that name, and what is  *)
(* shown is shown by the output of the very query that ran, unless two     *)
(* queries have its name.                                                  *)
(***************************************************************************)
DefinitionFound ==
  /\ resp.by = "route" =>
       IF resp.ran = 0 THEN resp.status = 429
       ELSE queries[resp.ran].name = Routes[resp.route].query
  /\ resp.by = "api" /\ Authorized(req) =>
       \A name \in QueryNames : AsksFor(req, name) => resp.ran # 0
  /\ resp.by = "api" /\ resp.ran # 0 => AsksFor(req, queries[resp.ran].name)
  /\ resp.by \in {"route", "api"} /\ resp.shown \notin {0, resp.ran} =>
       \E i, j \in DOMAIN queries :
         i # j /\ queries[i].name = queries[j].name
           /\ queries[i].name = queries[resp.ran].name

\* A path is core, but for slashes at its ends.
Slashed(path, core) ==
  \E i, j \in 0..Len(path) :
    /\ i + j <= Len(path)
    /\ core = SubSeq(path, i + 1, Len(path) - j)
    /\ \A k \in (1..i) \cup (Len(path) - j + 1 .. Len(path)) : path[k] = ""

\* The paths a pattern stands for: parts that are not empty for parameters.
Fillings(pattern, parts) ==
  {f \in [DOMAIN pattern -> parts \cup ToSet(pattern)] :
     \A i \in DOMAIN pattern :
       IF IsParam(pattern[i]) THEN f[i] \in parts \ {""} ELSE f[i] = pattern[i]}

Meets(rt, r) ==
  LET path == Paths[r.path] IN
  /\ rt.method = ToUpper(r.method)
  /\ CheckHeaders(r, Entry(rt, "require_header", <<>>))
  /\ \E full \in Fillings(Paths[rt.path], ToSet(path)) :
       \E core \in SubSeqs(path) : Slashed(path, core) /\ Slashed(full, core)

\* No two parameters of the route have one name.
Distinct(rt) ==
  \A i, j \in DOMAIN Paths[rt.path] :
    IsParam(Paths[rt.path][i]) /\ Paths[rt.path][i] = Paths[rt.path][j] => i = j

(***************************************************************************)
(* A request is served by the first live route, or else the first query    *)
(* route, that some non-empty values of its parameters make its path, up   *)
(* to slashes at the ends, with the values of its own path; and by the     *)
(* API or the handler behind only if there is no such route.               *)
(***************************************************************************)
RoutesExact ==
  LET live == {i \in DOMAIN LiveRoutes : Meets(LiveRoutes[i], req)}
      hits == {i \in DOMAIN Routes : Meets(Routes[i], req)}
      rt == Routes[resp.route]
  IN CASE resp.by = "live" -> live # {} /\ resp.route = Min(live)
       [] resp.by = "route" ->
            /\ live = {} /\ hits # {} /\ resp.route = Min(hits)
            /\ Distinct(rt) =>
                 \E core \in SubSeqs(Paths[req.path]) :
                   /\ Slashed(Paths[req.path], core)
                   /\ Slashed([i \in DOMAIN Paths[rt.path] |->
                        Entry(resp.params, Paths[rt.path][i], Paths[rt.path][i])], core)
       [] resp.by \in {"api", "next"} -> live = {} /\ hits = {}
       [] OTHER -> TRUE

(***************************************************************************)
(* "responseRecorder captures status" (handler.go:203): the status in the  *)
(* log is the one the client got, whatever the handler did and returned,   *)
(* unless it flushed before it set a status or sent an informational one.  *)
(***************************************************************************)
LoggedIsSent ==
  resp.by = "next" /\ Logging => resp.status = wire \/ early \/ rec = 103
=============================================================================
