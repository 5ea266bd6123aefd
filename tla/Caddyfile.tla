------------------------------ MODULE Caddyfile ------------------------------
(***************************************************************************)
(* The parser of caddyfile.go.  An author writes the surrealdb block line  *)
(* by line and the parser follows: a step takes one directive with its     *)
(* arguments from the line.  What is left of the line is taken for the     *)
(* next directive, as the Dispenser's tokens do not tell.  Caddy's lexer   *)
(* and Dispenser are external: a line is a sequence of words, perhaps with *)
(* an opening brace at its end, or a closing brace alone, and braces are   *)
(* balanced.  A word is a string, in the schema a sequence of characters.  *)
(*                                                                         *)
(* A block becomes the function from its directives to their values; the   *)
(* directives and the way each reads its arguments are tables.             *)
(***************************************************************************)
EXTENDS Integers, Sequences, SequencesExt

CONSTANT Menus   \* what an author may write, by name: the lines to begin
                 \* with (first), and how many more of which others (then)

IsSeq(s) == Len(s) \in Nat /\ s = [i \in 1..Len(s) |-> s[i]]

\* A closing brace is a line without words.
Close == [words |-> <<>>, opens |-> FALSE]

IsLine(l) ==
  IsSeq(l.words) /\ l.opens \in BOOLEAN /\ (l.words = <<>> => l = Close)

ASSUME CaddyfileAssumption ==
  \A m \in DOMAIN Menus :
    /\ IsSeq(Menus[m].first)
    /\ \A i \in DOMAIN Menus[m].first : IsLine(Menus[m].first[i])
    /\ \A l \in Menus[m].then : IsLine(l)

VARIABLES
  menu,     \* the author's, by name
  file,     \* the lines written, each with the line that opened its block
  open,     \* the author's open blocks, by the lines that opened them
  stack,    \* the parser's open blocks: kind and what was read of each
  rest,     \* the words left of the line
  brace,    \* the line's opening brace is still to come
  status    \* "parsing", "refused", "parsed" or "loaded"

parseVars == <<menu, file, open, stack, rest, brace, status>>

-----------------------------------------------------------------------------
(* The directives of each block, and how each reads its arguments.         *)

SiteBlock ==
  [endpoint |-> "text", namespace |-> "text", database |-> "text",
   auth |-> "auth", schema |-> "schema", query |-> "query",
   route |-> "route", live_query |-> "live_query",
   live_route |-> "live_route", log |-> "log", heartbeat |-> "duration",
   heartbeat_table |-> "text", token_refresh |-> "duration",
   api_path |-> "text", api_token |-> "text", raw_sql |-> "flag",
   cors_origin |-> "text", max_rows |-> "int"]

AuthBlock ==
  [root |-> "pair", namespace |-> "pair", database |-> "pair",
   record |-> "pair", token |-> "text"]

QueryBlock ==
  [sql |-> "text", sql_file |-> "text", param |-> "param",
   output |-> "output", cache |-> "duration", timeout |-> "duration"]

ParamBlock ==
  [from |-> "text", source |-> "text", key |-> "text", type |-> "text",
   default |-> "text", min |-> "float", max |-> "float", cap |-> "float",
   pattern |-> "text"]

OutputBlock ==
  [format |-> "text", envelope |-> "flag", status |-> "status",
   body |-> "text", omit |-> "texts", alias |-> "pair"]

RouteBlock == [require_header |-> "header", rate_limit |-> "limit"]

LiveQueryBlock ==
  [table |-> "text", where |-> "text", diff |-> "flag", format |-> "text"]

LiveRouteBlock == [require_header |-> "header"]

LogBlock ==
  [table |-> "text", batch_size |-> "int", flush_interval |-> "duration",
   buffer_size |-> "int", overflow |-> "text", exclude_path |-> "texts",
   omit |-> "texts"]

Grammar ==
  [site |-> SiteBlock, auth |-> AuthBlock, query |-> QueryBlock,
   param |-> ParamBlock, output |-> OutputBlock, route |-> RouteBlock,
   live_query |-> LiveQueryBlock, live_route |-> LiveRouteBlock,
   log |-> LogBlock]

\* The arguments a block's own line has, by the field each becomes.
Heads ==
  [query |-> <<"name">>, param |-> <<"name">>, live_query |-> <<"name">>,
   route |-> <<"method", "path", "query">>,
   live_route |-> <<"method", "path", "query">>,
   output |-> <<>>, log |-> <<>>, schema |-> <<>>, auth |-> <<>>]

Blocks == DOMAIN Heads

\* The number of arguments without which a directive is refused.
Required(kind) ==
  CASE kind \in Blocks            -> Len(Heads[kind])
    [] kind \in {"flag", "texts"} -> 0
    [] kind = "pair"              -> 2
    [] kind = "limit"             -> 3
    [] OTHER                      -> 1

\* The number a directive takes of n.
Taken(kind, n) ==
  CASE kind = "texts" -> n
    [] kind \in {"flag", "header"} /\ n > Required(kind) -> Required(kind) + 1
    [] OTHER -> Required(kind)

(* strconv and time on the words of the menus; floats in halves, durations *)
(* in milliseconds.                                                        *)
Ints      == ("0" :> 0) @@ ("2" :> 2) @@ ("404" :> 404)
Floats    == ("0" :> 0) @@ ("1.5" :> 3) @@ ("2" :> 4) @@ ("404" :> 808)
Durations == ("0" :> 0) @@ ("30s" :> 30000)
True      == {"on", "true", "yes", "1"}

Parses(kind, args) ==
  CASE kind = "int"      -> args[1] \in DOMAIN Ints
    [] kind = "float"    -> args[1] \in DOMAIN Floats
    [] kind = "duration" -> args[1] \in DOMAIN Durations
    [] kind = "limit"    -> /\ args[1] \in DOMAIN Ints
                            /\ args[2] = "per"
                            /\ args[3] \in DOMAIN Durations
    [] OTHER -> TRUE

ToUpper(w) == IF w = "get" THEN "GET" ELSE w

Entry(f, key, default) == IF key \in DOMAIN f THEN f[key] ELSE default

Put(f, key, value) ==
  [k \in DOMAIN f \cup {key} |-> IF k = key THEN value ELSE f[k]]

\* What a directive that had the value old is after its arguments.
Value(kind, args, old) ==
  CASE kind = "int"      -> Ints[args[1]]
    [] kind = "float"    -> Floats[args[1]]
    [] kind = "duration" -> Durations[args[1]]
    [] kind = "status"   -> Entry(Ints, args[1], 0)
    [] kind = "flag"     -> args = <<>> \/ args[1] \in True
    [] kind = "limit"    -> [requests |-> Ints[args[1]],
                             window |-> Durations[args[3]]]
    [] kind = "texts"    -> old \o args
    [] kind \in {"header", "pair"} ->
         Put(old, args[1], IF Len(args) = 2 THEN args[2] ELSE "")
    [] OTHER -> args[1]

\* `from' is another name for `source'.
Field(key) == IF key = "from" THEN "source" ELSE key

\* The fields of a block that its own line gives.
Opening(kind, args) ==
  [f \in ToSet(Heads[kind]) |->
     LET w == args[CHOOSE i \in DOMAIN args : Heads[kind][i] = f]
     IN IF f = "method" THEN ToUpper(w) ELSE w]

NoAuth == [level |-> "", args |-> <<>>]

Site == [auth |-> NoAuth, schema |-> <<>>]

-----------------------------------------------------------------------------
(* The schema.                                                             *)

(* Characters go by name where a string could not hold them.               *)
Quotes == {"single", "double", "back"}

\* Faulty variant: a parenthesis does not protect a semicolon.
ParenthesesIgnored(s, c) == s.quote = "" /\ c = "semicolon"

\* A semicolon at the end of a statement.
Ends(s, c) == s.quote = "" /\ c = "semicolon" /\ s.depth = 0

\* One character further: s has the statements so far, the current one, the
\* open quote, the open parentheses and the character before.
Scan(s, c) ==
  LET t == [s EXCEPT !.cur = Append(@, c), !.last = c] IN
  IF s.quote # ""
  THEN IF c = s.quote /\ s.last # "escape" THEN [t EXCEPT !.quote = ""] ELSE t
  ELSE
  CASE c \in Quotes  -> [t EXCEPT !.quote = c]
    [] c = "lpar"       -> [t EXCEPT !.depth = @ + 1]
    [] c = "rpar"       -> [t EXCEPT !.depth = IF @ > 0 THEN @ - 1 ELSE 0]
    [] Ends(s, c)    -> [t EXCEPT !.out = Append(@, s.cur), !.cur = <<>>]
    [] OTHER         -> t

IsBlank(c) == c \in {"blank", "newline"}

\* Whitespace outside of quotes means nothing; here it is dropped everywhere.
Trimmed(stmt) == SelectSeq(stmt, LAMBDA c : ~IsBlank(c))

\* splitSurrealQL, and the statements parseSchema keeps.
SplitSurrealQL(text) ==
  LET s == FoldLeft(Scan, [out |-> <<>>, cur |-> <<>>, quote |-> "",
                           depth |-> 0, last |-> ""], text)
      all == Append(s.out, s.cur)
  IN SelectSeq([i \in DOMAIN all |-> Trimmed(all[i])], LAMBDA x : x # <<>>)

\* The words of a line, joined, on a line of their own.
Joined(text, words) ==
  FoldLeft(LAMBDA t, i : t \o (IF i > 1 THEN <<"blank">>
                               ELSE IF t # <<>> THEN <<"newline">> ELSE <<>>) \o words[i],
           text, [i \in DOMAIN words |-> i])

-----------------------------------------------------------------------------
(* The author: a line has words and perhaps an opening brace at its end.   *)

Parsing == status = "parsing"

\* The parser has done with the lines there are.
Idle == Parsing /\ rest = <<>> /\ ~brace

Within == IF open = <<>> THEN 0 ELSE Last(open)

\* The lines that may come next: the file can end where no block is open.
Offered ==
  LET m == Menus[menu]
      n == Len(file)
  IN IF n < Len(m.first) THEN {m.first[n + 1]}
     ELSE {Close} \cup (IF n < Len(m.first) + m.more THEN m.then ELSE {})

Write(l) ==
  /\ Idle
  /\ l \in Offered
  /\ file' = Append(file, [in |-> Within, words |-> l.words, opens |-> l.opens])
  /\ open' = IF l.opens THEN Append(open, Len(file) + 1)
             ELSE IF l = Close /\ open # <<>> THEN Front(open)
             ELSE open
  /\ UNCHANGED menu

-----------------------------------------------------------------------------
(* The parser.                                                             *)

Top == Last(stack)

Frame(kind, fields) == [kind |-> kind, fields |-> fields]

ParserInit ==
  /\ menu \in DOMAIN Menus
  /\ file = <<>> /\ open = <<>>
  /\ stack = <<Frame("site", Site)>>
  /\ rest = <<>> /\ brace = FALSE
  /\ status = "parsing"

\* Blocks of which one takes up where the one before ended.
Merged == {"output", "log", "auth"}

\* Faulty variant: a second `output' or `log' starts anew.
StartedAnew(kind, args, fields) ==
  CASE kind = "auth"     -> fields.auth
    [] kind = "schema"   -> [text |-> <<>>]
    [] OTHER             -> Opening(kind, args)

\* A block as it is when its line has been read, in a block with fields.
Started(kind, args, fields) ==
  CASE kind \in Merged   -> Entry(fields, kind, <<>>)
    [] kind = "schema"   -> [text |-> <<>>]
    [] OTHER             -> Opening(kind, args)

\* A block's fields when another one in it has ended.
Ended(fields, kind, block) ==
  CASE kind \in Merged -> Put(fields, kind, block)
    [] kind = "schema" ->
         Put(fields, "schema", fields.schema \o SplitSurrealQL(block.text))
    [] OTHER -> Put(fields, kind, Append(Entry(fields, kind, <<>>), block))

ReadDirectives(l) ==
  /\ Top.kind # "schema"
  /\ l # Close
  /\ Write(l)
  /\ rest' = l.words
  /\ brace' = l.opens
  /\ UNCHANGED <<stack, status>>

\* "end" is how the author means a semicolon that ends a statement.
Read(words) ==
  [i \in DOMAIN words |->
     [j \in DOMAIN words[i] |->
        IF words[i][j] = "end" THEN "semicolon" ELSE words[i][j]]]

\* Within a schema: the Dispenser is in a block of a statement.
Nested == Len(open) >= Len(stack)

\* The text of a schema with one more line; NextBlock comes to a brace on its
\* own.
Noted(text, l) ==
  LET line == Joined(text, IF l = Close THEN <<<<"rbrace">>>> ELSE Read(l.words))
  IN IF l.opens THEN Joined(line, <<<<"lbrace">>>>) ELSE line

ReadSchema(l) ==
  /\ Top.kind = "schema"
  /\ l # Close \/ Nested
  /\ Write(l)
  /\ stack' = [stack EXCEPT ![Len(stack)].fields = [text |-> Noted(@.text, l)]]
  /\ UNCHANGED <<rest, brace, status>>

CloseBlock ==
  /\ Len(stack) > 1
  /\ ~Nested
  /\ Write(Close)
  /\ stack' = [Front(stack) EXCEPT ![Len(stack) - 1].fields =
                 Ended(@, Top.kind, Top.fields)]
  /\ UNCHANGED <<rest, brace, status>>

CloseFile ==
  /\ Len(stack) = 1
  /\ Write(Close)
  /\ status' = "parsed"
  /\ UNCHANGED <<stack, rest, brace>>

\* The directive the words begin with, in a block of some kind, and its
\* arguments: `auth' with arguments is a line of the auth block.
Kind(block, words) ==
  IF Head(words) \in DOMAIN Grammar[block] THEN Grammar[block][Head(words)]
  ELSE "unknown"

Args(kind, words) == SubSeq(words, 2, 1 + Taken(kind, Len(words) - 1))

Accepted(kind, words) ==
  /\ kind # "unknown"
  /\ Len(words) > Required(kind)
  /\ Parses(kind, Args(kind, words))

InlineAuth == Top.kind = "site" /\ Len(rest) > 1 /\ Head(rest) = "auth"

Block == IF InlineAuth THEN "auth" ELSE Top.kind
Words == IF InlineAuth THEN Tail(rest) ELSE rest

\* Faulty variant: credentials keep the arguments that the new ones have not.
SetParts(fields, kind) ==
  LET key == Field(Head(Words))
      args == Args(kind, Words)
  IN IF Block = "auth"
     THEN [level |-> key,
           args |-> args \o SubSeq(fields.args, Len(args) + 1, Len(fields.args))]
     ELSE Put(fields, key, Value(kind, args, Entry(fields, key, <<>>)))

\* The fields of the block after a directive; credentials change as a whole.
Set(fields, kind) ==
  LET key == Field(Head(Words))
      args == Args(kind, Words)
  IN IF Block = "auth" THEN [level |-> key, args |-> args]
     ELSE Put(fields, key, Value(kind, args, Entry(fields, key, <<>>)))

SetFields(kind) ==
  stack' = [stack EXCEPT ![Len(stack)].fields =
              IF InlineAuth THEN Put(@, "auth", Set(@.auth, kind))
              ELSE Set(@, kind)]

\* Faulty variant: the last argument is read again, as a directive.
WordLeft(kind) == rest' = SubSeq(Words, 1 + Len(Args(kind, Words)), Len(Words))

Take(kind) == rest' = SubSeq(Words, 2 + Len(Args(kind, Words)), Len(Words))

Directive ==
  LET kind == Kind(Block, Words) IN
  /\ Parsing /\ rest # <<>>
  /\ kind \notin Blocks
  /\ Accepted(kind, Words)
  /\ SetFields(kind)
  /\ Take(kind)
  /\ UNCHANGED <<menu, file, open, brace, status>>

OpenBlock ==
  LET kind == Kind(Block, Words) IN
  /\ Parsing /\ rest # <<>>
  /\ kind \in Blocks
  /\ Accepted(kind, Words)
  /\ Take(kind)
  /\ IF rest' = <<>> /\ brace
       THEN /\ stack' = Append(stack,
                 Frame(kind, Started(kind, Args(kind, Words), Top.fields)))
            /\ brace' = FALSE
       ELSE /\ stack' = [stack EXCEPT ![Len(stack)].fields =
                 IF kind \in Merged \cup {"schema"} THEN @
                 ELSE Ended(@, kind, Started(kind, Args(kind, Words), @))]
            /\ UNCHANGED brace
  /\ UNCHANGED <<menu, file, open, status>>

Refuse ==
  /\ Parsing
  /\ \/ rest # <<>> /\ ~Accepted(Kind(Block, Words), Words)
     \/ rest = <<>> /\ brace
  /\ status' = "refused"
  /\ UNCHANGED <<menu, file, open, stack, rest, brace>>

Parse ==
  \/ \E l \in Offered : ReadDirectives(l) \/ ReadSchema(l)
  \/ CloseBlock \/ CloseFile
  \/ Directive \/ OpenBlock \/ Refuse

\* What the parser made of the file.
site == stack[1].fields

\* The file is read once; nothing of it stays but the configuration.
Loaded ==
  /\ status = "parsed"
  /\ status' = "loaded"
  /\ file' = <<>>
  /\ stack' = <<Frame("site", Site)>>
  /\ UNCHANGED <<menu, open, rest, brace>>

-----------------------------------------------------------------------------
(* What a file means, from its lines as a whole.                           *)

IsClose(l) == l.words = <<>>

\* The kind of block or directive that line i is; 0 is the whole file.
KindOf[i \in 0..Len(file)] ==
  IF i = 0 THEN "site"
  ELSE LET up == KindOf[file[i].in] IN
       IF up \in {"schema", "statements"} THEN "statements"
       ELSE IF IsClose(file[i]) \/ up \notin DOMAIN Grammar THEN "unknown"
       ELSE Kind(up, file[i].words)

\* Line i has just the arguments its directive wants.
Regular(i) ==
  LET l == file[i]
      inline == KindOf[i] = "auth" /\ Len(l.words) > 1
      words == IF inline THEN Tail(l.words) ELSE l.words
      kind == IF inline THEN Kind("auth", words) ELSE KindOf[i]
  IN \/ IsClose(l)
     \/ kind = "statements"
     \/ /\ Accepted(kind, words)
        /\ Len(words) = 1 + Len(Args(kind, words))
        /\ l.opens => kind \in Blocks

\* The statements of the file, as the author ends them.
Statements ==
  LET chars(i) ==
        IF KindOf[i] = "schema" THEN <<"end">>
        ELSE IF KindOf[i] # "statements" THEN <<>>
        ELSE IF IsClose(file[i])
               THEN IF KindOf[file[i].in] = "schema" THEN <<>> ELSE <<"rbrace">>
        ELSE FlattenSeq(file[i].words) \o
               IF file[i].opens THEN <<"lbrace">> ELSE <<>>
      split(out, c) ==
        IF c = "end" THEN Append(out, <<>>)
        ELSE Append(Front(out), Append(Last(out), c))
  IN SelectSeq(FoldLeft(split, <<<<>>>>,
                        FlattenSeq([i \in DOMAIN file |-> chars(i)])),
               LAMBDA x : x # <<>>)

\* The credentials of the last line that has any.
Credentials ==
  LET words(i) == IF KindOf[i] = "auth" THEN Tail(file[i].words)
                  ELSE IF KindOf[file[i].in] = "auth" /\ ~IsClose(file[i])
                    THEN file[i].words
                  ELSE <<>>
      lines == {i \in DOMAIN file : words(i) # <<>>}
      w == words(Max(lines))
  IN IF lines = {} THEN NoAuth ELSE [level |-> w[1], args |-> Tail(w)]

\* The block that line i is in; those that take up each other are one.
Place(i) ==
  LET up == file[i].in
      kind == KindOf[up]
  IN [kind |-> kind, line |-> IF kind \in Merged THEN file[up].in ELSE up]

Silent == [at |-> [kind |-> "none", line |-> 0], key |-> "none", args |-> <<>>]

\* What each line gives to which block, but for credentials and statements.
Lines ==
  [i \in DOMAIN file |->
     IF \/ KindOf[i] \in {"unknown", "auth", "schema", "statements"}
        \/ KindOf[i] \in Merged /\ ~file[i].opens
     THEN Silent
     ELSE [at |-> Place(i), key |-> Field(Head(file[i].words)),
           args |-> Tail(file[i].words)]]

\* The sequences that some of the lines give, in the order of the lines.
InOrder(lines, parts) == FlattenSeq([i \in DOMAIN lines |-> Entry(parts, i, <<>>)])

\* Both, where the provers do not know @@.
Together(f, g) ==
  [k \in DOMAIN f \cup DOMAIN g |-> IF k \in DOMAIN f THEN f[k] ELSE g[k]]

\* What lines make of the directive key in block b, with the fields that they
\* make of each block in it.
Meant(lines, inner, b, key) ==
  LET kind == Grammar[b.kind][key]
      mine == {i \in DOMAIN lines : lines[i].at = b /\ lines[i].key = key}
      args(i) == lines[i].args
      within(line) == Entry(inner, [kind |-> kind, line |-> line], <<>>)
      pair(w) == LET last == args(Max({i \in mine : args(i)[1] = w}))
                 IN IF Len(last) = 2 THEN last[2] ELSE ""
  IN CASE kind \in Merged -> within(b.line)
       [] kind \in Blocks \ Merged ->
            InOrder(lines, [i \in mine |-> <<Together(Opening(kind, args(i)), within(i))>>])
       [] kind = "texts" -> InOrder(lines, [i \in mine |-> args(i)])
       [] kind \in {"pair", "header"} -> [w \in {args(i)[1] : i \in mine} |-> pair(w)]
       [] OTHER -> Value(kind, args(Max(mine)), <<>>)

\* The fields of each block that lines give any to.
Filling(lines, inner) ==
  [b \in {lines[i].at : i \in DOMAIN lines} \ {Silent.at} |->
     [key \in {lines[i].key : i \in {j \in DOMAIN lines : lines[j].at = b}} |->
        Meant(lines, inner, b, key)]]

\* No block is deeper than a parameter or an output in a query in the site.
Contents(lines) == Filling(lines, Filling(lines, Filling(lines, <<>>)))

\* What the site has of lines, but for credentials and schema.
Meaning(lines) == Entry(Contents(lines), [kind |-> "site", line |-> 0], <<>>)

AllRegular == \A i \in DOMAIN file : Regular(i)

(***************************************************************************)
(* The configuration of a file of which every line has just what its       *)
(* directive wants is what the file means: of several lines the last       *)
(* counts, lists and repeated blocks add up in order, `output' and `log'   *)
(* go on where they ended, and nothing comes from elsewhere.               *)
(***************************************************************************)
ConfigMeansFile ==
  status = "parsed" /\ AllRegular =>
    [f \in DOMAIN site \ {"auth", "schema"} |-> site[f]] = Meaning(Lines)

(***************************************************************************)
(* splitSurrealQL: the schema of a regular file has the statements that    *)
(* the author wrote, whatever semicolons their strings and parentheses     *)
(* hold and however they go over lines and blocks.                         *)
(***************************************************************************)
SchemaMeansFile ==
  status = "parsed" /\ AllRegular => site.schema = Statements

(***************************************************************************)
(* parseAuth assigns the credentials as a whole: of a regular file the     *)
(* level and its arguments are those of one line, the last that has any,   *)
(* inline or in whichever of the `auth' blocks.                            *)
(***************************************************************************)
CredentialsNeverMix ==
  status = "parsed" /\ AllRegular => site.auth = Credentials

(***************************************************************************)
(* A file is refused for a reason: some line of it alone, with the block   *)
(* it is in, is not what its directive wants.  What was left of lines      *)
(* before, or which blocks have come and gone, makes no good line bad.     *)
(***************************************************************************)
RefusedForReason == status = "refused" => ~AllRegular
=============================================================================
