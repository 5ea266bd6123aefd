------------------------------ MODULE MCRegistry ------------------------------
(***************************************************************************)
(* Scenarios for Registry, of three kinds: a limited route, /q/:id, that   *)
(* its requests reach by two paths; bindings against texts, at the edges   *)
(* of a small int64 and float64 among them; output configurations against  *)
(* rows.                                                                   *)
(***************************************************************************)
EXTENDS Registry

MCKeys == {<<"GET", p, a>> : p \in {"/q/1", "/q/2"}, a \in {"k", "l"}}

\* Requests and definitions.

Empty == [x \in {} |-> x]

Request == [method |-> "GET", path |-> "/q/1", forwarded |-> <<>>, real |-> "",
            peer |-> "peer", body |-> Absent, query |-> Empty,
            header |-> Empty, env |-> Empty]

Plain == [aliases |-> Empty, omit |-> {}, format |-> "json", body |-> FALSE,
          status |-> 200]

Def == [params |-> <<>>, output |-> Plain, limited |-> FALSE]

Scenario(d, kind) == [def |-> d, kind |-> kind]

\* A limited route; of its clients k asks by both paths, and the address is
\* the proxy's word or the peer's.
Limited ==
  Scenario([Def EXCEPT !.limited = TRUE, !.output.body = TRUE], "limited")

FromClients ==
  {[Request EXCEPT !.forwarded = <<"k">>],
   [Request EXCEPT !.path = "/q/2", !.real = "k"],
   [Request EXCEPT !.path = "/q/2", !.peer = "l"]}

\* Numbers: every int with its neighbours, a fraction, NaN, a word.

Digits(n)    == [form |-> "int", num |-> {2 * n}, fits |-> FALSE]
Form(f, fit) == [form |-> f, num |-> {}, fits |-> fit]

NumberTexts ==
  {Digits(n) : n \in -IntLimit - 1 .. IntLimit}
    \cup {[form |-> "real", num |-> {n}, fits |-> FALSE] :
            n \in {-3, 3, 9, IntLimit * Significand + 1}}
    \cup {Form("nan", FALSE), Form("plain", FALSE), Absent}

FromNumbers ==
  {[Request EXCEPT !.query = [k \in {<<"v">>} |-> t]] : t \in NumberTexts}

Binding0 == [name |-> "v", source |-> "query", key |-> <<"v">>,
             type |-> "string", default |-> Absent, pattern |-> FALSE,
             min |-> {}, max |-> {}, cap |-> {}]

Numbers ==
  {Scenario([Def EXCEPT !.params = <<[Binding0 EXCEPT
                !.type = type, !.default = default,
                !.min = min, !.max = max, !.cap = cap]>>], "numbers") :
     type \in {"int", "float"}, default \in {Absent, Digits(4)},
     min \in {{}, {-2}, {3}}, max \in {{}, {5}, {12}},
     cap \in {{}, {-3}, {6}, {-2 * IntLimit - 4}}}

\* Types, sources and two bindings of one variable.

WordTexts ==
  {Form(f, fit) : f \in {"plain", "uuid", "link", "time", "span"},
                  fit \in BOOLEAN}
    \cup {Absent, Digits(0), Digits(1),
          [form |-> "word", num |-> {2}, fits |-> FALSE]}

Node(fields) ==
  [form |-> "object", num |-> {}, fits |-> FALSE, fields |-> fields]

FromWords ==
  UNION {{[Request EXCEPT !.query = [k \in {<<"v">>} |-> t]],
          [Request EXCEPT !.header = [k \in {<<"v">>} |-> t]],
          [Request EXCEPT !.env = [k \in {<<"v">>} |-> t],
                          !.body = Node([p \in {"v"} |-> Digits(1)])],
          [Request EXCEPT !.body = Node([p \in {"v"} |-> Node([q \in {"w"} |-> t])])]}
         : t \in WordTexts}

Sources ==
  {[Binding0 EXCEPT !.type = type, !.pattern = pattern, !.source = source,
                    !.key = key] :
     type \in {"string", "bool", "uuid", "record", "datetime", "duration"},
     pattern \in BOOLEAN,
     source \in {"body", "query", "header", "env", "cookie", "placeholder"},
     key \in {<<"v">>, <<"v", "w">>}}

Words ==
  {Scenario([Def EXCEPT !.params = <<b>>], "words") : b \in Sources}
    \cup {Scenario([Def EXCEPT !.params = <<b, c>>], "words") :
            b \in {d \in Sources : d.type = "bool" /\ ~d.pattern},
            c \in {[Binding0 EXCEPT !.name = n, !.source = "body",
                                    !.default = Form("plain", TRUE)] :
                     n \in {"v", "u"}}}

\* Aliases over two columns, into each other, into the air, into omitted ones.

Shapes ==
  {Scenario([Def EXCEPT !.output = [Plain EXCEPT
                !.aliases = aliases, !.omit = omit, !.format = format,
                !.status = 201]], "shapes") :
     aliases \in UNION {[S -> {"a", "b", "x", ""}] : S \in SUBSET {"a", "b"}},
     omit \in SUBSET {"a", "b", "x"}, format \in {"json", "csv"}}

Tables ==
  {<<>>, <<Row({"a"}), Row({"a", "b"})>>,
   <<Row({"a", "b"}), Row({"a"}), Row({"a", "b"})>>}

MCRequests ==
  [limited |-> FromClients, numbers |-> FromNumbers, words |-> FromWords,
   shapes |-> {Request}]

MCResults ==
  [limited |-> {<<>>}, numbers |-> {<<>>}, words |-> {<<>>}, shapes |-> Tables]

MCScenarios == {Limited} \cup Numbers \cup Words \cup Shapes
=============================================================================
