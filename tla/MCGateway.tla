------------------------------ MODULE MCGateway ------------------------------
(***************************************************************************)
(* What authors may write, for Gateway: for each kind of block a menu of   *)
(* its lines, good ones and bad, and for routes, the API, the handler      *)
(* behind and Provision files that begin alike and go on differently, with *)
(* the requests that come.                                                 *)
(***************************************************************************)
EXTENDS Gateway

L(words) == [words |-> words, opens |-> FALSE]
B(words) == [words |-> words, opens |-> TRUE]

Menu(first, then, more) ==
  [first |-> first, then |-> then, more |-> more, requests |-> {}]

Good == <<L(<<"endpoint", "ws">>), L(<<"auth", "root", "u", "p">>)>>

SiteLines ==
  {L(<<"endpoint", "ws">>), L(<<"endpoint", "http">>), L(<<"endpoint">>),
   L(<<"endpoint", "ws", "extra">>), L(<<"namespace", "n", "database", "d">>),
   L(<<"database", "d">>), L(<<"raw_sql">>), L(<<"raw_sql", "off">>),
   L(<<"max_rows", "2">>), L(<<"max_rows", "many">>), B(<<"raw_sql">>),
   L(<<"heartbeat", "30s">>), L(<<"heartbeat", "soon">>),
   L(<<"heartbeat_table", "t">>), L(<<"token_refresh", "0">>),
   L(<<"cors_origin", "o">>), L(<<"bogus">>), L(<<"schema">>), L(<<"log">>),
   L(<<"api_path", "/x", "api_token", "t">>)}

AuthLines ==
  {B(<<"auth">>), L(<<"auth">>), L(<<"auth", "root", "u", "p">>),
   L(<<"auth", "token", "t">>), L(<<"auth", "guest", "g">>),
   L(<<"auth", "record", "a">>), B(<<"auth", "token", "t">>),
   L(<<"database", "v", "q">>), L(<<"token", "s">>), L(<<"record", "a", "k">>)}

QueryLines ==
  {L(<<"sql", "s">>), L(<<"sql", "s", "timeout", "30s">>), L(<<"cache", "30s">>),
   B(<<"output">>), L(<<"output">>), L(<<"format", "csv">>),
   L(<<"format", "raw">>), L(<<"omit", "a", "b">>), L(<<"omit">>),
   L(<<"alias", "a", "x">>), L(<<"alias", "a", "y">>), L(<<"alias", "a">>),
   L(<<"status", "404">>), L(<<"status", "many">>), L(<<"envelope">>),
   L(<<"envelope", "no">>), B(<<"query", "q">>)}

ParamLines ==
  {L(<<"from", "path">>), L(<<"source", "header">>), L(<<"key", "k">>),
   L(<<"min", "1.5">>), L(<<"max", "many">>), L(<<"cap", "2">>),
   L(<<"default", "d">>), B(<<"param", "u">>), L(<<"param", "u">>),
   L(<<"param">>)}

RouteLines ==
  {B(<<"route", "get", "/p", "q">>), L(<<"route", "GET", "/p", "q">>),
   L(<<"route", "GET", "/p">>), L(<<"require_header", "h">>),
   L(<<"require_header", "h", "v">>), L(<<"require_header">>),
   L(<<"rate_limit", "2", "per", "30s">>), L(<<"rate_limit", "2", "in", "30s">>),
   B(<<"live_query", "l">>), L(<<"live_query", "l">>),
   B(<<"live_route", "get", "/p", "l">>), L(<<"diff">>), L(<<"table", "t">>)}

LogLines ==
  {B(<<"log">>), L(<<"table", "t">>), L(<<"batch_size", "2">>),
   L(<<"buffer_size", "many">>), L(<<"flush_interval", "30s">>),
   L(<<"overflow", "block">>), L(<<"exclude_path", "/p", "/x">>),
   L(<<"exclude_path", "/y">>), L(<<"omit", "ip">>)}

\* Statements whole or in part, "d" for their other characters: strings and
\* parentheses, which end on their line, with semicolons, each other and
\* escaped quotes in them.
SchemaLines ==
  {L(<<<<"d">>>>), L(<<<<"d">>, <<"t", "end">>>>),
   L(<<<<"single", "semicolon", "single">>>>),
   L(<<<<"lpar", "s", "semicolon", "lpar">>,
       <<"rpar", "semicolon", "rpar", "end", "d">>>>),
   L(<<<<"back", "rpar", "single", "back", "end">>>>),
   L(<<<<"single", "escape", "single", "semicolon", "lpar", "single", "end">>>>)}

\* A statement over two lines, then another schema.
FirstSchema ==
  <<B(<<"schema">>), L(<<<<"d", "single">>>>),
    L(<<<<"semicolon", "single">>, <<"end">>>>), L(<<<<"d">>>>), Close,
    B(<<"schema">>)>>

\* A statement with blocks of its own; a semicolon that does not end it would
\* be taken for one that does.
BraceLines ==
  {B(<<<<"d">>>>), L(<<<<"single", "rpar", "single">>>>), L(<<<<"end">>>>)}

Queries ==
  <<B(<<"query", "q">>), L(<<"sql", "s">>), Close,
    B(<<"query", "r">>), L(<<"sql", "s">>), B(<<"output">>),
    L(<<"status", "404">>), Close, Close,
    B(<<"live_query", "l">>), L(<<"table", "t">>), Close>>

ServeLines ==
  {L(<<"route", "GET", pq[1], pq[2]>>) :
     pq \in {<<"/", "q">>, <<"/p", "q">>, <<"/p/:a", "r">>, <<"/:a/:b", "q">>,
             <<"/:a/p/:a", "r">>, <<"p/", "l">>}}
    \cup {L(<<"live_route", "GET", p, "l">>) : p \in {"/p", "/:b"}}
    \cup {L(<<"live_route", "GET", "/p", "q">>)}

ServeRequests ==
  {[method |-> m, path |-> p, headers |-> <<>>] :
     m \in {"GET", "POST"},
     p \in {"/", "//", "/p", "/p/", "/p/1", "//p/1/", "/p//1", "/1/p/2",
            "/x/queries"}}
    \cup {[method |-> "get", path |-> "/p/1", headers |-> <<>>]}

HeaderLines ==
  {L(<<"require_header", "h">>), L(<<"require_header", "h", "v">>),
   L(<<"rate_limit", "2", "per", "30s">>), L(<<"rate_limit", "0", "per", "30s">>),
   B(<<"route", "GET", "/p", "r">>)}

HeaderRequests ==
  {[method |-> "GET", path |-> "/p", headers |-> h] :
     h \in {<<>>, [h |-> "v"], [h |-> "w"]}}

NamedWithSlash == <<B(<<"query", "a/b">>), L(<<"sql", "s">>), Close>>

ApiLines ==
  {L(<<"api_path", "/x">>), L(<<"api_token", "t">>), L(<<"raw_sql">>)}

ApiRequests ==
  {[method |-> m, path |-> p, headers |-> h] :
     m \in {"GET", "POST"}, h \in {<<>>, [Authorization |-> "t"]},
     p \in {"/x", "/x/", "/x/queries", "/x/query/q", "/x/query/z", "/x/query/a/b",
            "/x/sql", "/x/other", "/_surreal/queries", "/p"}}

NextLines == {B(<<"log">>), L(<<"table", "t">>), L(<<"overflow", "block">>)}

QueryFiles ==
  {B(<<"query", n>>) : n \in {"q", ""}}
    \cup {L(<<"sql", "s">>), L(<<"sql_file", "there">>), L(<<"sql_file", "gone">>),
          L(<<"status", "404">>), B(<<"output">>)}

PatternLines == {L(<<"pattern", w>>) : w \in {"bad", "good"}}

MCMenus ==
  [site |-> Menu(<<>>, SiteLines, 2),
   auth |-> Menu(<<L(<<"endpoint", "ws">>)>>, AuthLines, 4),
   query |-> Menu(<<B(<<"query", "q">>)>>, QueryLines, 4),
   param |-> Menu(<<B(<<"query", "q">>), B(<<"param", "v">>)>>, ParamLines, 4),
   route |-> Menu(<<>>, RouteLines, 4),
   log |-> Menu(<<>>, LogLines, 5),
   schema |-> Menu(<<B(<<"schema">>)>>, SchemaLines, 3),
   schemas |-> Menu(FirstSchema, SchemaLines, 2),
   braces |-> Menu(<<B(<<"schema">>), B(<<<<"d">>>>)>>, BraceLines, 4),
   serve |-> [Menu(Good \o Queries, ServeLines, 2)
                EXCEPT !.requests = ServeRequests],
   headers |-> [Menu(Good \o Queries \o <<B(<<"route", "GET", "/p", "q">>)>>,
                     HeaderLines, 3) EXCEPT !.requests = HeaderRequests],
   api |-> [Menu(Good \o Queries \o NamedWithSlash, ApiLines, 3)
            EXCEPT !.requests = ApiRequests],
   next |-> [Menu(Good, NextLines, 3) EXCEPT !.requests =
               {[method |-> "GET", path |-> "/p", headers |-> <<>>]}],
   patterns |-> Menu(Good \o <<B(<<"query", "q">>), L(<<"sql", "s">>),
                             B(<<"param", "v">>)>>, PatternLines, 2),
   files |-> [Menu(Good \o <<L(<<"route", "GET", "/p", "q">>)>>, QueryFiles, 6)
                EXCEPT !.requests =
                  {[method |-> "GET", path |-> "/p", headers |-> <<>>]}]]

MCParamParts == {":a", ":b"}

MCPaths ==
  ("/" :> <<"">>) @@ ("//" :> <<"", "">>) @@ ("/p" :> <<"p">>)
    @@ ("/p/" :> <<"p", "">>) @@ ("p/" :> <<"p", "">>) @@ ("/p/1" :> <<"p", "1">>)
    @@ ("//p/1/" :> <<"", "p", "1", "">>) @@ ("/p//1" :> <<"p", "", "1">>)
    @@ ("/1/p/2" :> <<"1", "p", "2">>) @@ ("/p/:a" :> <<"p", ":a">>)
    @@ ("/:a/:b" :> <<":a", ":b">>) @@ ("/:a/p/:a" :> <<":a", "p", ":a">>)
    @@ ("/:b" :> <<":b">>)
    @@ ("/x" :> <<"x">>) @@ ("/x/" :> <<"x", "">>) @@ ("/x/queries" :> <<"x", "queries">>)
    @@ ("/x/query/q" :> <<"x", "query", "q">>) @@ ("/x/query/z" :> <<"x", "query", "z">>)
    @@ ("/x/query/a/b" :> <<"x", "query", "a", "b">>)
    @@ ("/x/sql" :> <<"x", "sql">>) @@ ("/x/other" :> <<"x", "other">>)
    @@ ("/_surreal" :> <<"_surreal">>)
    @@ ("/_surreal/queries" :> <<"_surreal", "queries">>)

MCNameParts == [n \in {"a/b"} |-> <<"a", "b">>]

MCFiles == [there |-> "s"]
=============================================================================
