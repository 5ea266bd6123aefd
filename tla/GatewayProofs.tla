----------------------------- MODULE GatewayProofs -----------------------------
(***************************************************************************)
(* What Gateway promises, for every menu, path, file and request: the      *)
(* status in the log is the one that was sent, what Validate let pass is   *)
(* found, routes are matched exactly and in order, no good line is refused *)
(* and the credentials are those of one line.                              *)
(***************************************************************************)
EXTENDS Gateway, CaddyfileProofs

-----------------------------------------------------------------------------
(* The status in the log.                                                  *)

\* Every answer is a response, with all of its fields.
Whole(a) == DOMAIN a = DOMAIN Unanswered

LEMMA StatusWhole == \A s : Whole(Status(s))
BY DEF Whole, Status, Unanswered

LEMMA UnansweredBy == Unanswered.by = "nobody"
BY DEF Unanswered

LEMMA ExecutedWhole ==
  ASSUME NEW name, NEW a \in Executed(name)
  PROVE  Whole(a)
<1>1. PICK a5, an, i, j : /\ a5 = Status(500)
                          /\ an = Status(queries[OutputFor(name)].output.status)
                          /\ i = reg[name] /\ j = OutputFor(name)
  OBVIOUS
<1>2. Whole(a5) /\ Whole(an)
  BY <1>1, StatusWhole
<1>3. a = a5 \/ a = [a5 EXCEPT !.ran = i] \/ a = [an EXCEPT !.ran = i, !.shown = j]
  BY <1>1 DEF Executed
<1> QED BY <1>2, <1>3 DEF Whole

\* The API runs a query that has the name it is asked for, if there is one.
ApiAnswered(a, r) ==
  \/ a.ran = 0 /\ a.shown = 0
     /\ (Authorized(r) => \A n \in DOMAIN reg : ~AsksFor(r, n))
  \/ \E n \in DOMAIN reg :
       AsksFor(r, n) /\ a.ran = reg[n] /\ a.shown \in {0, OutputFor(n)}

LEMMA StatusRuns == \A s : Status(s).ran = 0 /\ Status(s).shown = 0
BY DEF Status, Unanswered

LEMMA ExecutedRuns ==
  ASSUME NEW name \in DOMAIN reg, NEW a \in Executed(name)
  PROVE  a.ran = reg[name] /\ a.shown \in {0, OutputFor(name)}
<1>1. PICK a5, an, i, j : /\ a5 = Status(500)
                          /\ an = Status(queries[OutputFor(name)].output.status)
                          /\ i = reg[name] /\ j = OutputFor(name)
  OBVIOUS
<1>2. /\ DOMAIN a5 = DOMAIN Unanswered /\ DOMAIN an = DOMAIN Unanswered
      /\ a5.shown = 0
  BY <1>1, StatusWhole, StatusRuns DEF Whole
<1>3. a = [a5 EXCEPT !.ran = i] \/ a = [an EXCEPT !.ran = i, !.shown = j]
  BY <1>1 DEF Executed
<1>4. "ran" \in DOMAIN Unanswered /\ "shown" \in DOMAIN Unanswered
  BY DEF Unanswered
<1>5. a.ran = i /\ a.shown \in {0, j}
  BY <1>2, <1>3, <1>4
<1> QED BY <1>1, <1>5

LEMMA ApiAnswersRight ==
  ASSUME NEW r, NEW a \in ApiAnswers(r)
  PROVE  Whole(a) /\ ApiAnswered(a, r)
<1> DEFINE asked == {n \in DOMAIN reg : AsksFor(r, n)}
<1>1. CASE Authorized(r) /\ asked # {}
  <2>1. PICK n \in asked : a \in Executed(n)
    BY <1>1 DEF ApiAnswers
  <2>2. Whole(a)
    BY <2>1, ExecutedWhole
  <2>3. a.ran = reg[n] /\ a.shown \in {0, OutputFor(n)}
    BY <2>1, ExecutedRuns
  <2> QED BY <2>1, <2>2, <2>3 DEF ApiAnswered
<1>2. CASE ~Authorized(r) \/ asked = {}
  <2>1. \E s : a = Status(s)
    <3>1. CASE ~Authorized(r)
      BY <3>1, Zenon DEF ApiAnswers
    <3>2. CASE Authorized(r) /\ asked = {}
      BY <3>2, Zenon DEF ApiAnswers
    <3> QED BY <1>2, <3>1, <3>2
  <2>2. PICK s : a = Status(s)
    BY <2>1
  <2>3. Authorized(r) => \A n \in DOMAIN reg : ~AsksFor(r, n)
    BY <1>2
  <2> QED BY <2>2, <2>3, StatusWhole, StatusRuns DEF ApiAnswered
<1> QED BY <1>1, <1>2

\* The recorder and the response go apart only after a flush before any
\* status, or an informational one.
Recorded ==
  /\ rec = 0 => wire = 0 \/ early
  /\ rec # 0 => rec = wire \/ early \/ rec = 103

LogInv ==
  /\ phase # "serving" => resp = Unanswered
  /\ phase = "next" /\ Logging => Recorded
  /\ LoggedIsSent

LEMMA LogInvStep == LogInv /\ [Next]_gatewayVars => LogInv'
<1> SUFFICES ASSUME LogInv, [Next]_gatewayVars PROVE LogInv'
  OBVIOUS
<1>1. ASSUME ParseStep PROVE LogInv'
  BY <1>1 DEF LogInv, ParseStep, LoggedIsSent, Logging, Recorded, configVars, nextVars
<1>2. ASSUME Provision PROVE LogInv'
  BY <1>2, UnansweredBy DEF LogInv, Provision, LoggedIsSent
<1>3. ASSUME ProvisionFailed \/ Validate PROVE LogInv'
  BY <1>3, UnansweredBy DEF LogInv, ProvisionFailed, Validate, LoggedIsSent
<1>4. ASSUME NEW r \in Menus[menu].requests, ServeLive(r) PROVE LogInv'
  BY <1>4 DEF LogInv, ServeLive, Respond, LoggedIsSent, Unanswered
<1>5. ASSUME NEW r \in Menus[menu].requests, ServeRoute(r) PROVE LogInv'
  <2>1. PICK a \in RouteAnswers(Routes[Min(Matching(Routes, r))]) :
          Respond([a EXCEPT !.by = "route", !.route = Min(Matching(Routes, r)),
                     !.params = PathParams(Segments(Routes[Min(Matching(Routes, r))]),
                                           Paths[r.path])])
    BY <1>5 DEF ServeRoute
  <2>2. Whole(a)
    BY <2>1, StatusWhole, ExecutedWhole DEF RouteAnswers
  <2>3. resp'.by = "route" /\ phase' = "serving"
    BY <2>1, <2>2 DEF Respond, Whole, Unanswered
  <2> QED BY <2>3 DEF LogInv, LoggedIsSent
<1>6. ASSUME NEW r \in Menus[menu].requests, ServeAPI(r) PROVE LogInv'
  <2>1. PICK a \in ApiAnswers(r) : Respond([a EXCEPT !.by = "api"])
    BY <1>6 DEF ServeAPI
  <2>2. Whole(a)
    BY <2>1, ApiAnswersRight
  <2>3. resp'.by = "api" /\ phase' = "serving"
    BY <2>1, <2>2 DEF Respond, Whole, Unanswered
  <2> QED BY <2>3 DEF LogInv, LoggedIsSent
<1>7. ASSUME NEW r \in Menus[menu].requests, PassOn(r) PROVE LogInv'
  BY <1>7 DEF LogInv, PassOn, Nothing, LoggedIsSent, Recorded, Unanswered
<1>8. ASSUME WriteHeader \/ WriteBody \/ Flush PROVE LogInv'
  <2>1. /\ phase = "next" /\ phase' = "next"
        /\ resp' = Unanswered
        /\ Logging' = Logging
    BY <1>8 DEF LogInv, WriteHeader, WriteBody, Flush, Call, Logging, configVars
  <2>2. Logging => Recorded'
    <3> SUFFICES ASSUME Logging PROVE Recorded'
      OBVIOUS
    <3>1. Recorded
      BY <2>1 DEF LogInv
    <3>2. CASE WriteHeader
      BY <3>1, <3>2 DEF WriteHeader, RecordFirst, Out, Final, Recorded
    <3>3. CASE WriteBody
      BY <3>1, <3>3 DEF WriteBody, Out, Final, Recorded
    <3>4. CASE Flush
      BY <3>1, <3>4 DEF Flush, Out, Final, Recorded
    <3> QED BY <1>8, <3>2, <3>3, <3>4
  <2> QED BY <2>1, <2>2, UnansweredBy DEF LogInv, LoggedIsSent
<1>9. ASSUME NextReturns PROVE LogInv'
  <2>1. phase = "next" /\ phase' = "serving" /\ Logging' = Logging
        /\ UNCHANGED <<rec, early>>
    BY <1>9 DEF NextReturns, Logging, configVars
  <2>2. PICK late \in {200, 403, 500} :
          /\ wire' = IF wire = 0 THEN late ELSE wire
          /\ resp' = [Status(IF rec = 0 THEN late ELSE rec) EXCEPT !.by = "next"]
    BY <1>9 DEF NextReturns
  <2>3. resp'.status = IF rec = 0 THEN late ELSE rec
    BY <2>2 DEF Status, Unanswered
  <2>4. Logging => Recorded
    BY <2>1 DEF LogInv
  <2>5. LoggedIsSent'
    BY <2>1, <2>2, <2>3, <2>4 DEF LoggedIsSent, Recorded
  <2> QED BY <2>1, <2>5 DEF LogInv
<1>10. ASSUME UNCHANGED gatewayVars PROVE LogInv'
  BY <1>10 DEF LogInv, gatewayVars, configVars, nextVars, Recorded,
               LoggedIsSent, Logging
<1> QED
  BY <1>1, <1>2, <1>3, <1>4, <1>5, <1>6, <1>7, <1>8, <1>9, <1>10
     DEF Next

(***************************************************************************)
(* The recorder says what the client got, whatever the handler behind did  *)
(* and in whatever order, for any number of its calls.                     *)
(***************************************************************************)
THEOREM LoggedStatus == Spec => []LoggedIsSent
<1>1. Init => LogInv
  BY DEF Init, LogInv, LoggedIsSent, Unanswered
<1>2. LogInv => LoggedIsSent
  BY DEF LogInv
<1> QED BY <1>1, <1>2, LogInvStep, PTL DEF Spec

-----------------------------------------------------------------------------
(* What the parser keeps.                                                  *)

RouteKinds == {"route", "live_route"}

HasPath(block) == "path" \in DOMAIN block /\ block.path \in DOMAIN Paths

\* The lists in the configuration are sequences, and its routes have paths.
Lists(f) ==
  /\ \A k \in {"query"} \cup RouteKinds : IsSeq(Entry(f, k, <<>>))
  /\ \A k \in RouteKinds : \A i \in DOMAIN Entry(f, k, <<>>) :
       HasPath(Entry(f, k, <<>>)[i])

Fit(f, kind) ==
  /\ kind \in RouteKinds => HasPath(f)
  /\ kind = "site" => Lists(f)

\* The parser's stack begins with the site.
Frames(s) ==
  /\ IsSeq(s) /\ Len(s) >= 1
  /\ \A i \in DOMAIN s :
       /\ s[i] = Frame(s[i].kind, s[i].fields)
       /\ s[i].kind = "site" <=> i = 1
       /\ s[i].kind \in {"site"} \cup Blocks
       /\ Fit(s[i].fields, s[i].kind)

Usable(words) == IsSeq(words) /\ PathsGiven(words)

ParserInv ==
  /\ menu \in DOMAIN Menus
  /\ IsSeq(file)
  /\ Usable(rest)
  /\ rest # <<>> => Top.kind # "schema"
  /\ Frames(stack)

\* The tables say where a route or a query may begin, and no directive has
\* the name of a path's field.
LEMMA GrammarFacts ==
  ASSUME NEW b \in DOMAIN Grammar, NEW h \in DOMAIN Grammar[b]
  PROVE  /\ Grammar[b][h] \in RouteKinds => h = Grammar[b][h]
         /\ h \in {"query"} \cup RouteKinds => b = "site" /\ Grammar[b][h] \in Blocks
         /\ h # "path"
<1>1. b \in {"site", "auth", "query", "param", "output", "route", "live_query",
             "live_route", "log"}
  BY BlocksAre
<1>2. CASE b = "site"
  BY <1>2, BlocksAre DEF Grammar, SiteBlock, RouteKinds
<1>3. CASE b = "auth"
  BY <1>3 DEF Grammar, AuthBlock, RouteKinds
<1>4. CASE b = "query"
  BY <1>4 DEF Grammar, QueryBlock, RouteKinds
<1>5. CASE b = "param"
  BY <1>5 DEF Grammar, ParamBlock, RouteKinds
<1>6. CASE b = "output"
  BY <1>6 DEF Grammar, OutputBlock, RouteKinds
<1>7. CASE b = "route"
  BY <1>7 DEF Grammar, RouteBlock, RouteKinds
<1>8. CASE b = "live_query"
  BY <1>8 DEF Grammar, LiveQueryBlock, RouteKinds
<1>9. CASE b = "live_route"
  BY <1>9 DEF Grammar, LiveRouteBlock, RouteKinds
<1>10. CASE b = "log"
  BY <1>10 DEF Grammar, LogBlock, RouteKinds
<1> QED BY <1>1, <1>2, <1>3, <1>4, <1>5, <1>6, <1>7, <1>8, <1>9, <1>10

LEMMA PutFits ==
  ASSUME NEW f, NEW kind, Fit(f, kind), NEW v,
         NEW key, key \notin {"path", "query"} \cup RouteKinds
  PROVE  Fit(Put(f, key, v), kind)
<1>1. HasPath(f) => HasPath(Put(f, key, v))
  BY DEF HasPath, Put
<1>2. \A k \in {"query"} \cup RouteKinds :
        Entry(Put(f, key, v), k, <<>>) = Entry(f, k, <<>>)
  BY EntryPut
<1>3. Lists(f) => Lists(Put(f, key, v))
  BY <1>2 DEF Lists
<1> QED BY <1>1, <1>3 DEF Fit

\* A block that ends is one more of its list, or takes the place of the one
\* it went on with.
LEMMA EndedFits ==
  ASSUME NEW f, NEW up, Fit(f, up), NEW kind \in Blocks, NEW block, Fit(block, kind)
  PROVE  Fit(Ended(f, kind, block), up)
<1>1. CASE kind \in Merged
  <2>1. Ended(f, kind, block) = Put(f, kind, block)
    BY <1>1 DEF Ended, Merged
  <2> QED BY <1>1, <2>1, PutFits DEF Merged, RouteKinds
<1>2. CASE kind = "schema"
  BY <1>2, PutFits DEF Ended, Merged, RouteKinds
<1>3. CASE kind \notin Merged /\ kind # "schema"
  <2> DEFINE old == Entry(f, kind, <<>>)
             new == Append(old, block)
  <2>1. Ended(f, kind, block) = Put(f, kind, new)
    BY <1>3 DEF Ended
  <2>2. CASE kind \notin {"query"} \cup RouteKinds
    BY <1>3, <2>1, <2>2, PutFits, BlocksAre DEF Merged
  <2>3. CASE kind \in {"query"} \cup RouteKinds
    <3>1. up \in RouteKinds => HasPath(Put(f, kind, new))
      BY <2>3 DEF Fit, HasPath, Put, RouteKinds
    <3>2. ASSUME up = "site" PROVE Lists(Put(f, kind, new))
      <4>1. Lists(f)
        BY <3>2 DEF Fit
      <4>2. /\ IsSeq(new)
            /\ DOMAIN new = 1..Len(old) + 1 /\ DOMAIN old = 1..Len(old)
            /\ Len(old) \in Nat
            /\ \A i \in 1..Len(old) : new[i] = old[i]
            /\ new[Len(old) + 1] = block
        <5>1. IsSeq(old)
          BY <2>3, <4>1 DEF Lists
        <5> HIDE DEF old
        <5> QED BY <5>1, AppendFacts, IsSeqFacts
      <4>3. kind \in RouteKinds => \A i \in DOMAIN new : HasPath(new[i])
        <5> SUFFICES ASSUME kind \in RouteKinds, NEW i \in DOMAIN new
                     PROVE  HasPath(new[i])
          OBVIOUS
        <5>1. CASE i \in 1..Len(old)
          BY <4>1, <4>2, <5>1 DEF Lists
        <5>2. CASE i = Len(old) + 1
          BY <4>2, <5>2 DEF Fit
        <5> HIDE DEF old, new
        <5> QED BY <4>2, <5>1, <5>2
      <4>4. \A k : Entry(Put(f, kind, new), k, <<>>)
                     = IF k = kind THEN new ELSE Entry(f, k, <<>>)
        <5> HIDE DEF new
        <5> QED BY EntryPut
      <4> HIDE DEF old, new
      <4> QED BY <4>1, <4>2, <4>3, <4>4 DEF Lists
    <3> QED BY <2>1, <3>1, <3>2 DEF Fit
  <2> QED BY <2>2, <2>3
<1> QED BY <1>1, <1>2, <1>3

\* Changing the fields of a frame.
LEMMA FramesExcept ==
  ASSUME NEW s, Frames(s), NEW n \in DOMAIN s, NEW f, Fit(f, s[n].kind),
         NEW t, t = [s EXCEPT ![n].fields = f]
  PROVE  Frames(t) /\ Len(t) = Len(s)
<1>1. DOMAIN s = 1..Len(s) /\ Len(s) \in Nat /\ s \in Seq(ToSet(s))
  BY IsSeqFacts DEF Frames
<1>2. /\ DOMAIN t = DOMAIN s
      /\ t[n] = Frame(s[n].kind, f)
      /\ \A i \in DOMAIN s : i # n => t[i] = s[i]
  BY DEF Frames, Frame
<1>3. Len(t) = Len(s) /\ IsSeq(t)
  <2>1. t = [i \in 1..Len(s) |-> t[i]]
    BY <1>1
  <2> QED BY <1>1, <2>1, FunctionIsSeq
<1>4. \A i \in DOMAIN s :
        /\ t[i].kind = s[i].kind
        /\ t[i] = Frame(t[i].kind, t[i].fields)
        /\ Fit(t[i].fields, t[i].kind)
  BY <1>2 DEF Frames, Frame
<1> QED BY <1>2, <1>3, <1>4 DEF Frames

LEMMA FramesAppend ==
  ASSUME NEW s, Frames(s), NEW kind \in Blocks, NEW f, Fit(f, kind)
  PROVE  Frames(Append(s, Frame(kind, f)))
<1> DEFINE t == Append(s, Frame(kind, f))
<1>1. IsSeq(s) /\ Len(s) \in Nat /\ DOMAIN s = 1..Len(s) /\ Len(s) >= 1
  BY IsSeqFacts DEF Frames
<1>2. /\ IsSeq(t) /\ Len(t) = Len(s) + 1 /\ DOMAIN t = 1..Len(s) + 1
      /\ \A i \in 1..Len(s) : t[i] = s[i]
      /\ t[Len(s) + 1] = Frame(kind, f)
  BY <1>1, AppendFacts
<1>3. kind # "site"
  BY BlocksAre
<1> HIDE DEF t
<1>4. ASSUME NEW i \in DOMAIN t
      PROVE  /\ t[i] = Frame(t[i].kind, t[i].fields)
             /\ t[i].kind = "site" <=> i = 1
             /\ t[i].kind \in {"site"} \cup Blocks
             /\ Fit(t[i].fields, t[i].kind)
  <2>1. CASE i \in 1..Len(s)
    BY <1>1, <1>2, <2>1 DEF Frames
  <2>2. CASE i = Len(s) + 1
    BY <1>1, <1>2, <1>3, <2>2 DEF Frame
  <2> QED BY <1>1, <1>2, <2>1, <2>2
<1>5. Frames(t)
  BY <1>1, <1>2, <1>4 DEF Frames
<1> QED BY <1>5 DEF t

LEMMA FramesFront ==
  ASSUME NEW s, Frames(s), Len(s) > 1
  PROVE  /\ Frames(Front(s))
         /\ Len(s) - 1 \in DOMAIN Front(s)
         /\ Len(Front(s)) = Len(s) - 1
         /\ \A i \in DOMAIN Front(s) : i \in DOMAIN s /\ Front(s)[i] = s[i]
<1>1. IsSeq(s) /\ Len(s) \in Nat /\ DOMAIN s = 1..Len(s)
  BY IsSeqFacts DEF Frames
<1>2. /\ IsSeq(Front(s)) /\ Len(Front(s)) = Len(s) - 1
      /\ DOMAIN Front(s) = 1..Len(s) - 1
      /\ \A i \in 1..Len(s) - 1 : Front(s)[i] = s[i]
  BY <1>1, SubSeqFacts DEF Front
<1> QED BY <1>1, <1>2 DEF Frames

LEMMA TopIn ==
  ASSUME NEW s, Frames(s)
  PROVE  Len(s) \in DOMAIN s /\ Last(s) = s[Len(s)] /\ Fit(Last(s).fields, Last(s).kind)
BY IsSeqFacts DEF Frames, Last

LEMMA SuffixUsable ==
  ASSUME NEW words, Usable(words), NEW m \in Nat \ {0}, m <= Len(words) + 1
  PROVE  Usable(SubSeq(words, m, Len(words)))
<1> DEFINE w == SubSeq(words, m, Len(words))
<1>1. IsSeq(words) /\ PathsGiven(words)
  BY DEF Usable
<1>2. Len(words) \in Nat /\ DOMAIN words = 1..Len(words)
  BY <1>1, IsSeqFacts
<1>3. /\ IsSeq(w) /\ DOMAIN w = 1 .. Len(words) - m + 1
      /\ \A i \in 1 .. Len(words) - m + 1 : w[i] = words[m + i - 1]
  BY <1>1, <1>2, SubSeqFacts
<1> HIDE DEF w
<1>4. ASSUME NEW i \in DOMAIN w, i + 2 \in DOMAIN w, w[i] = "route" \/ w[i] = "live_route"
      PROVE  w[i + 2] \in DOMAIN Paths
  <2>1. PICK j \in DOMAIN words : j = m + i - 1 /\ j + 2 \in DOMAIN words
    BY <1>2, <1>3, <1>4
  <2>2. w[i] = words[j]
    BY <1>3, <2>1
  <2>3. i + 2 \in 1 .. Len(words) - m + 1 /\ m + (i + 2) - 1 = j + 2
    BY <1>3, <1>4, <2>1
  <2>4. w[i + 2] = words[j + 2]
    BY <1>3, <2>3
  <2> QED BY <1>1, <1>4, <2>1, <2>2, <2>4 DEF PathsGiven
<1>5. Usable(w)
  BY <1>3, <1>4 DEF Usable, PathsGiven
<1> QED BY <1>5 DEF w

LEMMA OfferedLines ==
  ASSUME ParserInv, NEW l \in Offered
  PROVE  Usable(l.words)
<1>1. Usable(Close.words)
  BY EmptyIsSeq DEF Usable, Close, PathsGiven
<1>2. /\ IsSeq(Menus[menu].first)
      /\ \A i \in DOMAIN Menus[menu].first : Usable(Menus[menu].first[i].words)
      /\ \A k \in Menus[menu].then : Usable(k.words)
  BY GatewayAssumption, CaddyfileAssumption DEF ParserInv, IsLine, Usable
<1>3. CASE Len(file) < Len(Menus[menu].first)
  <2>1. /\ Len(file) \in Nat
        /\ DOMAIN Menus[menu].first = 1..Len(Menus[menu].first)
        /\ Len(Menus[menu].first) \in Nat
    BY <1>2, IsSeqFacts DEF ParserInv
  <2>2. Len(file) + 1 \in DOMAIN Menus[menu].first /\ l = Menus[menu].first[Len(file) + 1]
    BY <1>3, <2>1 DEF Offered
  <2> QED BY <1>2, <2>2
<1>4. CASE ~(Len(file) < Len(Menus[menu].first))
  BY <1>1, <1>2, <1>4 DEF Offered
<1> QED BY <1>3, <1>4

LEMMA WriteKeeps ==
  ASSUME IsSeq(file), NEW l, Write(l)
  PROVE  IsSeq(file)' /\ menu' = menu
BY AppendFacts DEF Write, IsSeq

\* The words a directive begins with, and its block.
LEMMA BlockFacts ==
  ASSUME ParserInv, rest # <<>>
  PROVE  /\ Block \in DOMAIN Grammar
         /\ Usable(Words) /\ Words # <<>>
         /\ Block = IF InlineAuth THEN "auth" ELSE Top.kind
         /\ InlineAuth => Top.kind = "site"
<1>1. IsSeq(rest) /\ Usable(rest)
  BY DEF ParserInv, Usable
<1>2. rest \in Seq(ToSet(rest)) /\ Len(rest) \in Nat /\ Len(rest) >= 1
  BY <1>1, IsSeqFacts, EmptySeq
<1>3. CASE InlineAuth
  <2>1. Words = SubSeq(rest, 2, Len(rest)) /\ Len(rest) > 1
    BY <1>2, <1>3, TailIsSubSeq DEF Words, InlineAuth
  <2>2. Usable(Words)
    BY <1>1, <1>2, <2>1, SuffixUsable
  <2>3. Len(Words) = Len(rest) - 1
    BY <1>1, <1>2, <2>1, SubSeqFacts
  <2>4. Len(Words) # Len(<<>>)
    BY <1>2, <2>1, <2>3, EmptyIsSeq
  <2> QED BY <1>3, <2>2, <2>4, BlocksAre DEF Block, InlineAuth
<1>4. CASE ~InlineAuth
  <2>1. Top.kind \in {"site"} \cup Blocks /\ Top.kind # "schema"
    BY TopIn DEF ParserInv, Frames, Top
  <2> QED BY <1>1, <1>4, <2>1, BlocksAre DEF Block, Words
<1> QED BY <1>3, <1>4

\* Its kind, and what it takes.
LEMMA KindFacts ==
  ASSUME ParserInv, rest # <<>>, NEW kind, kind = Kind(Block, Words),
         Accepted(kind, Words)
  PROVE  /\ Head(Words) = Words[1] /\ Words[1] \in DOMAIN Grammar[Block]
         /\ kind = Grammar[Block][Words[1]]
         /\ Taken(kind, Len(Words) - 1) \in 0 .. Len(Words) - 1
         /\ Len(Args(kind, Words)) = Taken(kind, Len(Words) - 1)
         /\ Usable(SubSeq(Words, 2 + Len(Args(kind, Words)), Len(Words)))
<1>1. Usable(Words) /\ Words # <<>> /\ IsSeq(Words)
  BY BlockFacts DEF Usable
<1>2. Words \in Seq(ToSet(Words)) /\ Len(Words) \in Nat /\ Len(Words) >= 1
  BY <1>1, IsSeqFacts, EmptySeq
<1>3. Head(Words) = Words[1]
  BY <1>2
<1>4. Words[1] \in DOMAIN Grammar[Block] /\ kind = Grammar[Block][Words[1]]
  BY <1>3 DEF Kind, Accepted
<1>5. Required(kind) \in Nat
  BY BlocksAre DEF Required, Heads
<1>6. Taken(kind, Len(Words) - 1) \in 0 .. Len(Words) - 1
  BY <1>2, <1>5 DEF Accepted, Taken
<1>7. PICK n \in 0 .. Len(Words) - 1 : n = Taken(kind, Len(Words) - 1)
  BY <1>6
<1>8. Len(Args(kind, Words)) = n
  BY <1>1, <1>2, <1>7, SubSeqFacts DEF Args
<1>9. Usable(SubSeq(Words, 2 + n, Len(Words)))
  BY <1>1, <1>2, SuffixUsable
<1> QED BY <1>3, <1>4, <1>7, <1>8, <1>9

LEMMA SetFits ==
  ASSUME ParserInv, rest # <<>>, NEW kind, kind = Kind(Block, Words),
         Accepted(kind, Words), kind \notin Blocks, ~InlineAuth
  PROVE  Fit(Set(Top.fields, kind), Top.kind)
<1>1. Block = Top.kind /\ Block \in DOMAIN Grammar
  BY BlockFacts
<1>2. CASE Block = "auth"
  BY <1>1, <1>2 DEF Fit, RouteKinds
<1>3. CASE Block # "auth"
  <2> DEFINE key == Field(Head(Words))
             v == Value(kind, Args(kind, Words), Entry(Top.fields, key, <<>>))
  <2>1. Set(Top.fields, kind) = Put(Top.fields, key, v)
    BY <1>3 DEF Set
  <2>2. key \notin {"path", "query"} \cup RouteKinds
    <3>1. PICK h : h = Head(Words) /\ h \in DOMAIN Grammar[Block]
                     /\ kind = Grammar[Block][h]
      BY KindFacts
    <3>2. h \notin {"path", "query"} \cup RouteKinds
      BY <1>1, <3>1, GrammarFacts
    <3> QED BY <3>1, <3>2 DEF Field, RouteKinds
  <2>3. Fit(Top.fields, Top.kind)
    BY TopIn DEF Top, ParserInv
  <2> HIDE DEF key, v
  <2> QED BY <2>1, <2>2, <2>3, PutFits
<1> QED BY <1>2, <1>3

LEMMA OpeningPath ==
  ASSUME NEW kind \in RouteKinds, NEW args, DOMAIN args = 1..3
  PROVE  "path" \in DOMAIN Opening(kind, args) /\ Opening(kind, args).path = args[2]
<1>1. Heads[kind] = <<"method", "path", "query">>
  BY DEF Heads, RouteKinds
<1>2. ToSet(Heads[kind]) = {"method", "path", "query"}
  BY <1>1 DEF ToSet
<1>3. \A i \in DOMAIN args : Heads[kind][i] = "path" <=> i = 2
  BY <1>1
<1> QED BY <1>1, <1>2, <1>3 DEF Opening

\* A block begins as one that fits: a route has the path of its line.
LEMMA StartedFits ==
  ASSUME ParserInv, rest # <<>>, NEW kind, kind = Kind(Block, Words),
         Accepted(kind, Words), kind \in Blocks, NEW fields
  PROVE  Fit(Started(kind, Args(kind, Words), fields), kind)
<1>1. kind # "site"
  BY BlocksAre
<1>2. CASE kind \notin RouteKinds
  BY <1>1, <1>2 DEF Fit
<1>3. CASE kind \in RouteKinds
  <2>1. Started(kind, Args(kind, Words), fields) = Opening(kind, Args(kind, Words))
    BY <1>3 DEF Started, Merged, RouteKinds
  <2>2. Words[1] = kind
    BY BlockFacts, KindFacts, GrammarFacts, <1>3
  <2>3. Usable(Words)
    BY BlockFacts
  <2>4. Len(Words) \in Nat /\ Len(Words) > 3 /\ DOMAIN Words = 1..Len(Words)
    <3>1. Required(kind) = 3
      BY <1>3 DEF Required, RouteKinds, Blocks, Heads
    <3> QED BY <2>3, <3>1, IsSeqFacts DEF Usable, Accepted
  <2>5. Taken(kind, Len(Words) - 1) = 3
    BY <1>3 DEF Taken, Required, RouteKinds, Blocks, Heads
  <2>6. Args(kind, Words) = SubSeq(Words, 2, 4)
    <3>1. 1 + Taken(kind, Len(Words) - 1) = 4
      BY <2>5
    <3> QED BY <3>1 DEF Args
  <2>7. Args(kind, Words)[2] = Words[3] /\ DOMAIN Args(kind, Words) = 1..3
    BY <2>3, <2>4, <2>6, SubSeqFacts DEF Usable
  <2>8. Words[3] \in DOMAIN Paths
    <3>1. PathsGiven(Words)
      BY <2>3 DEF Usable
    <3>2. kind \in {"route", "live_route"}
      BY <1>3 DEF RouteKinds
    <3>3. 1 \in DOMAIN Words /\ 1 + 2 \in DOMAIN Words /\ 1 + 2 = 3
      BY <2>4
    <3>4. Words[1 + 2] \in DOMAIN Paths
      BY <2>2, <3>1, <3>2, <3>3 DEF PathsGiven
    <3> QED BY <3>3, <3>4
  <2>9. HasPath(Opening(kind, Args(kind, Words)))
    BY <1>3, <2>7, <2>8, OpeningPath DEF HasPath
  <2> QED BY <1>1, <2>1, <2>9 DEF Fit
<1> QED BY <1>2, <1>3

LEMMA ParseKeeps == ParserInv /\ Parse => ParserInv'
<1> SUFFICES ASSUME ParserInv, Parse PROVE ParserInv'
  OBVIOUS
<1>0. /\ Len(stack) \in DOMAIN stack /\ Top = stack[Len(stack)]
      /\ Fit(Top.fields, Top.kind) /\ Frames(stack)
      /\ DOMAIN stack = 1..Len(stack) /\ Len(stack) \in Nat
  BY TopIn, IsSeqFacts DEF ParserInv, Top, Frames
<1>1. ASSUME NEW l \in Offered, ReadDirectives(l) PROVE ParserInv'
  <2>1. Usable(rest)'
    BY <1>1, OfferedLines DEF ReadDirectives
  <2>2. IsSeq(file)' /\ menu' = menu
    BY <1>1, WriteKeeps DEF ReadDirectives, ParserInv
  <2> QED BY <1>1, <2>1, <2>2 DEF ReadDirectives, ParserInv, Top
<1>2. ASSUME NEW l \in Offered, ReadSchema(l) PROVE ParserInv'
  <2>1. PICK f : stack' = [stack EXCEPT ![Len(stack)].fields = f]
    BY <1>2 DEF ReadSchema
  <2>2. Fit(f, Top.kind)
    BY <1>2 DEF ReadSchema, Fit, RouteKinds
  <2>3. Frames(stack')
    BY <1>0, <2>1, <2>2, FramesExcept
  <2>4. IsSeq(file)' /\ menu' = menu
    BY <1>2, WriteKeeps DEF ReadSchema, ParserInv
  <2> QED BY <1>2, <2>3, <2>4 DEF ReadSchema, ParserInv, Write, Idle
<1>3. ASSUME CloseBlock PROVE ParserInv'
  <2> DEFINE s == Front(stack)
             n == Len(stack) - 1
             f == Ended(s[n].fields, Top.kind, Top.fields)
  <2>1. stack' = [s EXCEPT ![n].fields = f] /\ Len(stack) > 1
    BY <1>3 DEF CloseBlock
  <2>2. Frames(s) /\ n \in DOMAIN s
    BY <1>0, <2>1, FramesFront
  <2>3. Top.kind \in Blocks
    BY <1>0, <2>1 DEF Frames
  <2>4. Fit(s[n].fields, s[n].kind)
    BY <2>2 DEF Frames
  <2>5. Fit(f, s[n].kind)
    BY <1>0, <2>3, <2>4, EndedFits
  <2> HIDE DEF s, n, f
  <2>6. Frames(stack')
    BY <2>1, <2>2, <2>5, FramesExcept
  <2>7. IsSeq(file)' /\ menu' = menu
    BY <1>3, WriteKeeps DEF CloseBlock, ParserInv
  <2> QED BY <1>3, <2>6, <2>7 DEF CloseBlock, ParserInv, Write, Idle
<1>4. ASSUME CloseFile PROVE ParserInv'
  <2>1. IsSeq(file)' /\ menu' = menu
    BY <1>4, WriteKeeps DEF CloseFile, ParserInv
  <2> QED BY <1>4, <2>1 DEF CloseFile, ParserInv, Top
<1>5. ASSUME Directive PROVE ParserInv'
  <2>1. PICK kind : /\ kind = Kind(Block, Words) /\ kind \notin Blocks
                    /\ Accepted(kind, Words) /\ rest # <<>>
                    /\ SetFields(kind) /\ Take(kind)
                    /\ UNCHANGED <<menu, file>>
    BY <1>5 DEF Directive
  <2>2. Usable(rest')
    BY <2>1, KindFacts DEF Take
  <2>3. PICK f : stack' = [stack EXCEPT ![Len(stack)].fields = f] /\ Fit(f, Top.kind)
    <3>1. CASE InlineAuth
      <4>1. stack' = [stack EXCEPT ![Len(stack)].fields =
                        Put(Top.fields, "auth", Set(Top.fields.auth, kind))]
        BY <1>0, <2>1, <3>1 DEF SetFields
      <4>2. "auth" \notin {"path", "query"} \cup RouteKinds
        BY DEF RouteKinds
      <4> QED BY <1>0, <4>1, <4>2, PutFits
    <3>2. CASE ~InlineAuth
      <4>1. stack' = [stack EXCEPT ![Len(stack)].fields = Set(Top.fields, kind)]
        BY <1>0, <2>1, <3>2 DEF SetFields
      <4> QED BY <2>1, <3>2, <4>1, SetFits
    <3> QED BY <3>1, <3>2
  <2>4. Frames(stack') /\ Top'.kind = Top.kind
    <3>0. Fit(f, stack[Len(stack)].kind)
      BY <1>0, <2>3
    <3>1. Frames(stack')
      BY <1>0, <2>3, <3>0, FramesExcept
    <3>3. Len(stack') = Len(stack)
      BY <1>0, <2>3, <3>0, FramesExcept
    <3>2. stack'[Len(stack)].kind = stack[Len(stack)].kind
      BY <1>0, <2>3 DEF Frames, Frame
    <3> QED BY <1>0, <3>1, <3>2, <3>3 DEF Top, Last
  <2> QED BY <2>1, <2>2, <2>4 DEF ParserInv
<1>6. ASSUME OpenBlock PROVE ParserInv'
  <2>1. PICK kind : /\ kind = Kind(Block, Words) /\ kind \in Blocks
                    /\ Accepted(kind, Words) /\ rest # <<>> /\ Take(kind)
                    /\ UNCHANGED <<menu, file>>
    BY <1>6 DEF OpenBlock
  <2> DEFINE new(f) == Started(kind, Args(kind, Words), f)
  <2>2. Usable(rest')
    BY <2>1, KindFacts DEF Take
  <2>3. \A f : Fit(new(f), kind)
    BY <2>1, StartedFits
  <2>4. CASE rest' = <<>> /\ brace
    <3>1. stack' = Append(stack, Frame(kind, new(Top.fields)))
      BY <1>6, <2>1, <2>4 DEF OpenBlock
    <3> HIDE DEF new
    <3>2. Frames(stack')
      BY <1>0, <2>1, <2>3, <3>1, FramesAppend
    <3> QED BY <2>1, <2>2, <2>4, <3>2 DEF ParserInv
  <2>5. CASE ~(rest' = <<>> /\ brace)
    <3> DEFINE f == IF kind \in Merged \cup {"schema"} THEN Top.fields
                    ELSE Ended(Top.fields, kind, new(Top.fields))
    <3>1. stack' = [stack EXCEPT ![Len(stack)].fields = f]
      BY <1>0, <1>6, <2>1, <2>5 DEF OpenBlock
    <3>2. Fit(f, Top.kind)
      <4> HIDE DEF new
      <4> QED BY <1>0, <2>1, <2>3, EndedFits
    <3> HIDE DEF new, f
    <3>3. Frames(stack') /\ Top'.kind = Top.kind
      <4>0. Fit(f, stack[Len(stack)].kind)
        BY <1>0, <3>2
      <4>1. Frames(stack')
        BY <1>0, <3>1, <4>0, FramesExcept
      <4>3. Len(stack') = Len(stack)
        BY <1>0, <3>1, <4>0, FramesExcept
      <4>2. stack'[Len(stack)].kind = stack[Len(stack)].kind
        BY <1>0, <3>1 DEF Frames, Frame
      <4> QED BY <1>0, <4>1, <4>2, <4>3 DEF Top, Last
    <3> QED BY <2>1, <2>2, <3>3 DEF ParserInv
  <2> QED BY <2>4, <2>5
<1>7. ASSUME Refuse PROVE ParserInv'
  BY <1>7 DEF Refuse, ParserInv, Top
<1> QED BY <1>1, <1>2, <1>3, <1>4, <1>5, <1>6, <1>7 DEF Parse

LEMMA SiteFits == Frames(<<Frame("site", Site)>>) /\ Last(<<Frame("site", Site)>>).kind = "site"
<1> DEFINE s == <<Frame("site", Site)>>
<1>1. IsSeq(s) /\ Len(s) = 1 /\ DOMAIN s = {1} /\ s[1] = Frame("site", Site)
  <2>1. s \in Seq({Frame("site", Site)}) /\ Len(s) = 1 /\ s[1] = Frame("site", Site)
    OBVIOUS
  <2>2. DOMAIN s = {1}
    OBVIOUS
  <2> HIDE DEF s
  <2> QED BY <2>1, <2>2, SeqIsSeq
<1>2. \A k \in {"query"} \cup RouteKinds : Entry(Site, k, <<>>) = <<>>
  BY DEF Entry, Site, RouteKinds
<1>3. Lists(Site)
  BY <1>2, EmptyIsSeq DEF Lists
<1>4. "site" \notin RouteKinds
  BY DEF RouteKinds
<1>5. Frame("site", Site).kind = "site" /\ Frame("site", Site).fields = Site
  BY DEF Frame
<1> HIDE DEF s
<1>6. Frames(s)
  BY <1>1, <1>3, <1>4, <1>5 DEF Frames, Fit
<1>7. Last(s).kind = "site"
  BY <1>1, <1>5 DEF Last
<1> QED BY <1>6, <1>7 DEF s

LEMMA ParserStarts == ParserInit => ParserInv
BY SiteFits, EmptyIsSeq DEF ParserInit, ParserInv, Usable, PathsGiven

LEMMA LoadedKeeps == ParserInv /\ Loaded => ParserInv'
BY SiteFits, EmptyIsSeq DEF Loaded, ParserInv, Top

-----------------------------------------------------------------------------
(* What Validate let pass is found.                                        *)

Configured ==
  /\ Lists(settings)
  /\ IsSeq(queries)
  /\ reg = Indexed(queries)

\* The answer's query, its routes and its parameters are the request's.
Answered ==
  LET live == Matching(LiveRoutes, req)
      hits == Matching(Routes, req)
      rt == Routes[resp.route]
  IN
  /\ resp.by # "nobody" => req.path \in DOMAIN Paths
  /\ resp.by = "live" => live # {} /\ resp.route = Min(live)
  /\ resp.by = "route" =>
       /\ live = {} /\ hits # {} /\ resp.route = Min(hits)
       /\ resp.params = PathParams(Segments(rt), Paths[req.path])
       /\ \/ resp.ran = 0 /\ resp.shown = 0 /\ resp.status = 429
          \/ /\ rt.query \in DOMAIN reg
             /\ resp.ran = reg[rt.query]
             /\ resp.shown \in {0, OutputFor(rt.query)}
  /\ resp.by = "api" => ApiAnswered(resp, req)
  /\ resp.by \in {"api", "next"} => live = {} /\ hits = {}

GatewayInv ==
  /\ ParserInv
  /\ phase \in {"validate", "serving", "next"} => Configured
  /\ phase \in {"serving", "next"} => Valid
  /\ phase # "serving" => resp = Unanswered
  /\ phase = "serving" => Answered
  /\ phase = "next" => req.path \in DOMAIN Paths /\ ~Routed(req)

LEMMA SiteLists == ParserInv => Lists(site)
BY IsSeqFacts DEF ParserInv, Frames, Fit, site

LEMMA DefaultLists ==
  ASSUME NEW f, Lists(f), NEW zero, NEW v,
         NEW key, key \notin {"path", "query"} \cup RouteKinds
  PROVE  Lists(Default(f, key, zero, v))
<1>1. Fit(f, "site")
  BY DEF Fit, RouteKinds
<1>2. Fit(Put(f, key, v), "site")
  BY <1>1, PutFits
<1> QED BY <1>2 DEF Default, Fit

LEMMA DefaultsLists == ASSUME NEW f, Lists(f) PROVE Lists(ApplyDefaults(f))
<1> DEFINE a == Put(f, "log", Log(Entry(f, "log", <<>>)))
           b == Default(a, "max_rows", 0, 10000)
           c == Default(b, "token_refresh", 0, 300000)
           d == Default(c, "heartbeat", 0, 30000)
           e == Default(d, "api_path", "", "/_surreal")
<1>0. \A key \in {"log", "max_rows", "token_refresh", "heartbeat", "api_path"} :
        key \notin {"path", "query"} \cup RouteKinds
  BY DEF RouteKinds
<1>1. ApplyDefaults(f) = e
  BY DEF ApplyDefaults
<1>2. Fit(f, "site")
  BY DEF Fit, RouteKinds
<1>3. Fit(a, "site")
  BY <1>0, <1>2, PutFits
<1>4. Lists(a)
  <2> HIDE DEF a
  <2> QED BY <1>3 DEF Fit
<1> HIDE DEF a
<1>5. Lists(b)
  BY <1>0, <1>4, DefaultLists
<1> HIDE DEF b
<1>6. Lists(c)
  BY <1>0, <1>5, DefaultLists
<1> HIDE DEF c
<1>7. Lists(d)
  BY <1>0, <1>6, DefaultLists
<1> HIDE DEF d
<1>8. Lists(e)
  BY <1>0, <1>7, DefaultLists
<1> HIDE DEF e
<1> QED BY <1>1, <1>8

\* Of routes that match there is a first.
LEMMA FirstMatch ==
  ASSUME NEW routes, IsSeq(routes), NEW r, Matching(routes, r) # {}
  PROVE  /\ Min(Matching(routes, r)) \in Matching(routes, r)
         /\ Min(Matching(routes, r)) \in DOMAIN routes
<1>1. Matching(routes, r) \in SUBSET Nat
  BY IsSeqFacts DEF Matching
<1>2. Min(Matching(routes, r)) \in Matching(routes, r)
  BY <1>1, Least
<1> QED BY <1>2 DEF Matching

\* What does not change the configuration leaves what depends on it.
LEMMA ConfigKept ==
  ASSUME UNCHANGED configVars
  PROVE  /\ Routes' = Routes /\ LiveRoutes' = LiveRoutes
         /\ Configured' <=> Configured
         /\ Valid' <=> Valid
         /\ reg' = reg /\ queries' = queries
BY DEF configVars, Routes, LiveRoutes, Configured, Valid, LiveNames, Known, Routes,
       LiveRoutes, QueryNames

LEMMA ApiKept ==
  ASSUME UNCHANGED configVars, NEW a, NEW r, ApiAnswered(a, r),
         resp'.ran = a.ran, resp'.shown = a.shown, req' = r
  PROVE  ApiAnswered(resp, req)'
<1>1. settings' = settings /\ reg' = reg /\ queries' = queries
  BY DEF configVars
<1>2. Authorized(req)' <=> Authorized(r)
  BY <1>1, Zenon DEF Authorized
<1>3. \A n : AsksFor(req, n)' <=> AsksFor(r, n)
  BY <1>1 DEF AsksFor, ApiPath
<1>4. \A n : OutputFor(n)' = OutputFor(n)
  BY <1>1 DEF OutputFor
<1>5. CASE /\ a.ran = 0 /\ a.shown = 0
           /\ Authorized(r) => \A n \in DOMAIN reg : ~AsksFor(r, n)
  BY <1>1, <1>2, <1>3, <1>5 DEF ApiAnswered
<1>6. CASE \E n \in DOMAIN reg :
             AsksFor(r, n) /\ a.ran = reg[n] /\ a.shown \in {0, OutputFor(n)}
  BY <1>1, <1>3, <1>4, <1>6 DEF ApiAnswered
<1> QED BY <1>5, <1>6 DEF ApiAnswered

LEMMA RespondKeeps ==
  ASSUME GatewayInv, phase = "serving", UNCHANGED <<parseVars, configVars>>,
         phase' = "serving", Answered'
  PROVE  GatewayInv'
<1>1. ParserInv'
  BY DEF GatewayInv, ParserInv, parseVars, Top
<1> QED BY <1>1, ConfigKept DEF GatewayInv

LEMMA PathGiven ==
  ASSUME GatewayInv, NEW r \in Menus[menu].requests
  PROVE  r.path \in DOMAIN Paths
BY GatewayAssumption DEF GatewayInv, ParserInv

LEMMA ServeRouteKeeps ==
  ASSUME GatewayInv, NEW r \in Menus[menu].requests, ServeRoute(r)
  PROVE  GatewayInv'
<1>1. /\ phase = "serving" /\ phase' = "serving" /\ req' = r
      /\ UNCHANGED <<parseVars, configVars>>
      /\ Matching(LiveRoutes, r) = {} /\ Matching(Routes, r) # {}
  BY DEF ServeRoute, Request, Respond
<1>2. PICK i : i = Min(Matching(Routes, r))
  OBVIOUS
<1>3. PICK a \in RouteAnswers(Routes[i]) :
        resp' = [a EXCEPT !.by = "route", !.route = i,
                  !.params = PathParams(Segments(Routes[i]), Paths[r.path])]
  BY <1>2 DEF ServeRoute, Respond
<1>4. IsSeq(Routes) /\ Valid
  BY <1>1 DEF GatewayInv, Configured, Lists, Routes, RouteKinds
<1>5. i \in DOMAIN Routes
  BY <1>1, <1>2, <1>4, FirstMatch
<1>6. Routes[i].query \in DOMAIN reg
  <2>1. Routes[i].query \in QueryNames /\ reg = Indexed(queries)
    BY <1>1, <1>4, <1>5 DEF Valid, Known, GatewayInv, Configured
  <2> QED BY <2>1 DEF QueryNames, ToSet, Indexed
<1>7. /\ DOMAIN a = DOMAIN Unanswered
      /\ \/ a.ran = 0 /\ a.shown = 0 /\ a.status = 429
         \/ a.ran = reg[Routes[i].query] /\ a.shown \in {0, OutputFor(Routes[i].query)}
  <2>1. a = Status(429) \/ a \in Executed(Routes[i].query)
    BY <1>3 DEF RouteAnswers
  <2>2. Whole(a)
    BY <2>1, StatusWhole, ExecutedWhole
  <2>3. CASE a = Status(429)
    BY <2>2, <2>3, StatusRuns DEF Status, Unanswered, Whole
  <2>4. CASE a \in Executed(Routes[i].query)
    BY <1>6, <2>2, <2>4, ExecutedRuns DEF Whole
  <2> QED BY <2>1, <2>3, <2>4
<1>8. /\ resp'.by = "route" /\ resp'.route = i
      /\ resp'.params = PathParams(Segments(Routes[i]), Paths[r.path])
      /\ resp'.ran = a.ran /\ resp'.shown = a.shown /\ resp'.status = a.status
  BY <1>3, <1>7 DEF Unanswered
<1>9. /\ Routes' = Routes /\ LiveRoutes' = LiveRoutes
      /\ reg' = reg /\ queries' = queries
      /\ OutputFor(Routes[i].query)' = OutputFor(Routes[i].query)
  BY <1>1, ConfigKept DEF OutputFor
<1>10. Answered'
  BY <1>1, <1>2, <1>6, <1>7, <1>8, <1>9, PathGiven DEF Answered
<1> QED BY <1>1, <1>10, RespondKeeps

LEMMA ServeOthersKeep ==
  ASSUME GatewayInv, NEW r \in Menus[menu].requests,
         ServeLive(r) \/ ServeAPI(r) \/ PassOn(r)
  PROVE  GatewayInv'
<1>1. /\ phase = "serving" /\ req' = r /\ r.path \in DOMAIN Paths
      /\ UNCHANGED <<parseVars, configVars>>
  BY PathGiven DEF ServeLive, ServeAPI, PassOn, Request, Respond
<1>2. Routes' = Routes /\ LiveRoutes' = LiveRoutes
  BY <1>1, ConfigKept
<1>3. CASE ServeLive(r)
  <2>1. /\ phase' = "serving" /\ Matching(LiveRoutes, r) # {}
        /\ resp' = [Unanswered EXCEPT !.by = "live", !.route = Min(Matching(LiveRoutes, r))]
    BY <1>3 DEF ServeLive, Respond
  <2>2. resp'.by = "live" /\ resp'.route = Min(Matching(LiveRoutes, r))
    BY <2>1 DEF Unanswered
  <2>3. Answered'
    BY <1>1, <1>2, <2>1, <2>2 DEF Answered
  <2> QED BY <1>1, <2>1, <2>3, RespondKeeps
<1>4. CASE ServeAPI(r)
  <2>1. PICK a \in ApiAnswers(r) : resp' = [a EXCEPT !.by = "api"]
    BY <1>4 DEF ServeAPI, Respond
  <2>2. resp'.by = "api" /\ resp'.ran = a.ran /\ resp'.shown = a.shown
    BY <2>1, ApiAnswersRight DEF Whole, Unanswered
  <2>3. phase' = "serving" /\ ~Routed(r)
    BY <1>4 DEF ServeAPI, Respond
  <2>5. ApiAnswered(resp, req)'
    BY <1>1, <2>1, <2>2, ApiAnswersRight, ApiKept
  <2>4. Answered'
    BY <1>1, <1>2, <2>2, <2>3, <2>5 DEF Answered, Routed
  <2> QED BY <1>1, <2>3, <2>4, RespondKeeps
<1>5. CASE PassOn(r)
  <2>1. phase' = "next" /\ ~Routed(r) /\ resp' = Unanswered
    BY <1>5 DEF PassOn
  <2>2. ParserInv'
    BY <1>1 DEF GatewayInv, ParserInv, parseVars, Top
  <2>3. ~Routed(req)'
    BY <1>1, <1>2, <2>1 DEF Routed
  <2> QED BY <1>1, <2>1, <2>2, <2>3, ConfigKept DEF GatewayInv
<1> QED BY <1>3, <1>4, <1>5

LEMMA GatewayInvStep == GatewayInv /\ [Next]_gatewayVars => GatewayInv'
<1> SUFFICES ASSUME GatewayInv, [Next]_gatewayVars PROVE GatewayInv'
  OBVIOUS
<1>0. ASSUME UNCHANGED <<configVars, req, resp>>
      PROVE  Answered => Answered'
  BY <1>0, ConfigKept, ApiKept DEF Answered, OutputFor
<1>1. ASSUME ParseStep PROVE GatewayInv'
  <2>1. ParserInv'
    BY <1>1, ParseKeeps DEF ParseStep, GatewayInv
  <2>2. Routed(req)' <=> Routed(req)
    BY <1>1, ConfigKept DEF ParseStep, Routed
  <2> QED BY <1>0, <1>1, <2>1, <2>2, ConfigKept DEF ParseStep, GatewayInv
<1>2. ASSUME Provision PROVE GatewayInv'
  <2>1. ParserInv'
    BY <1>2, LoadedKeeps DEF Provision, GatewayInv
  <2>2. Lists(site)
    BY SiteLists DEF GatewayInv
  <2>3. Lists(settings)'
    BY <1>2, <2>2, DefaultsLists DEF Provision
  <2>4. IsSeq(AllQueries)
    BY <2>2 DEF Lists, AllQueries
  <2>5. IsSeq(queries)'
    <3>1. PICK n \in Nat : DOMAIN AllQueries = 1..n
      BY <2>4, IsSeqFacts
    <3>2. queries' = [i \in 1..n |-> Completed(AllQueries[i])]
      BY <1>2, <3>1 DEF Provision
    <3>3. queries' = [i \in 1..n |-> queries'[i]]
      BY <3>2
    <3> QED BY <3>3, FunctionIsSeq
  <2>6. Configured'
    BY <1>2, <2>3, <2>5 DEF Provision, Configured
  <2> QED BY <1>2, <2>1, <2>6 DEF Provision, GatewayInv
<1>3. ASSUME ProvisionFailed PROVE GatewayInv'
  <2>1. ParserInv'
    BY <1>3, LoadedKeeps DEF ProvisionFailed, GatewayInv
  <2> QED BY <1>3, <2>1 DEF ProvisionFailed, GatewayInv
<1>4. ASSUME Validate PROVE GatewayInv'
  <2>1. ParserInv'
    BY <1>4 DEF Validate, GatewayInv, ParserInv, parseVars, Top
  <2>2. phase' = "serving" => Answered'
    BY <1>4, UnansweredBy DEF Validate, GatewayInv, Answered
  <2> QED BY <1>4, <2>1, <2>2, ConfigKept DEF Validate, GatewayInv
<1>5. ASSUME WriteHeader \/ WriteBody \/ Flush PROVE GatewayInv'
  <2>1. phase' = phase /\ UNCHANGED <<parseVars, configVars, req, resp>>
    BY <1>5 DEF WriteHeader, WriteBody, Flush, Call
  <2>2. ParserInv'
    BY <2>1 DEF GatewayInv, ParserInv, parseVars, Top
  <2>3. Routed(req)' <=> Routed(req)
    BY <2>1, ConfigKept DEF Routed
  <2> QED BY <1>0, <2>1, <2>2, <2>3, ConfigKept DEF GatewayInv
<1>6. ASSUME NextReturns PROVE GatewayInv'
  <2>1. /\ phase = "next" /\ phase' = "serving"
        /\ UNCHANGED <<parseVars, configVars, req>>
    BY <1>6 DEF NextReturns
  <2>2. PICK s : resp' = [Status(s) EXCEPT !.by = "next"]
    BY <1>6 DEF NextReturns
  <2>3. resp'.by = "next"
    BY <2>2 DEF Status, Unanswered
  <2>4. ParserInv'
    BY <2>1 DEF GatewayInv, ParserInv, parseVars, Top
  <2>5. Answered'
    BY <2>1, <2>3, ConfigKept DEF GatewayInv, Answered, Routed
  <2> QED BY <2>1, <2>4, <2>5, ConfigKept DEF GatewayInv
<1>7. ASSUME UNCHANGED gatewayVars PROVE GatewayInv'
  <2>1. phase' = phase /\ UNCHANGED <<parseVars, configVars, req, resp>>
    BY <1>7 DEF gatewayVars
  <2>2. ParserInv'
    BY <2>1 DEF GatewayInv, ParserInv, parseVars, Top
  <2>3. Routed(req)' <=> Routed(req)
    BY <2>1, ConfigKept DEF Routed
  <2> QED BY <1>0, <2>1, <2>2, <2>3, ConfigKept DEF GatewayInv
<1> QED
  BY <1>1, <1>2, <1>3, <1>4, <1>5, <1>6, <1>7, ServeRouteKeeps, ServeOthersKeep DEF Next

(***************************************************************************)
(* The parser, Provision, Validate and ServeHTTP keep GatewayInv: the      *)
(* parser's stack begins with the site, the lists of the configuration are *)
(* lists of what their blocks say, the registry has the queries of the     *)
(* list, and the response is the one of the request's first route.         *)
(***************************************************************************)
THEOREM GatewayInvariance == Spec => []GatewayInv
<1>1. Init => GatewayInv
  BY ParserStarts DEF Init, GatewayInv
<1> QED BY <1>1, GatewayInvStep, PTL DEF Spec

LEMMA IndexedFacts ==
  ASSUME IsSeq(queries), NEW n \in DOMAIN Indexed(queries)
  PROVE  /\ Indexed(queries)[n] \in DOMAIN queries
         /\ queries[Indexed(queries)[n]].name = n
         /\ 0 \notin DOMAIN queries
         /\ OutputFor(n) \in DOMAIN queries
         /\ queries[OutputFor(n)].name = n
<1> DEFINE S == {i \in DOMAIN queries : queries[i].name = n}
<1>1. PICK k \in Nat : DOMAIN queries = 1..k
  BY IsSeqFacts
<1>2. S \in SUBSET (1..k) /\ S \in SUBSET Nat /\ S # {}
  BY <1>1 DEF Indexed
<1>3. Max(S) \in S /\ Min(S) \in S
  <2> HIDE DEF S
  <2> QED BY <1>2, Least, Greatest
<1> QED BY <1>1, <1>3 DEF Indexed, OutputFor

(***************************************************************************)
(* Whatever the Caddyfile says: the query of a route that Validate let     *)
(* pass, in the list, is found when it is asked for, in the registry, and  *)
(* so is one that the API is asked for; and only of queries with one name  *)
(* is one run and another one's output block used.                         *)
(***************************************************************************)
THEOREM DefinitionsFound == Spec => []DefinitionFound
<1>1. GatewayInv => DefinitionFound
  <2> SUFFICES ASSUME GatewayInv, resp.by \in {"route", "api"} PROVE DefinitionFound
    BY DEF DefinitionFound
  <2>1. Answered /\ IsSeq(queries) /\ reg = Indexed(queries)
    BY UnansweredBy DEF GatewayInv, Configured
  <2>2. \/ /\ resp.ran = 0 /\ resp.shown = 0
           /\ resp.by = "route" => resp.status = 429
           /\ resp.by = "api" /\ Authorized(req) =>
                \A n \in DOMAIN reg : ~AsksFor(req, n)
        \/ \E n \in DOMAIN reg :
             /\ resp.by = "route" => n = Routes[resp.route].query
             /\ resp.by = "api" => AsksFor(req, n)
             /\ resp.ran = reg[n] /\ resp.shown \in {0, OutputFor(n)}
    BY <2>1 DEF Answered, ApiAnswered
  <2>3. CASE /\ resp.ran = 0 /\ resp.shown = 0
             /\ resp.by = "route" => resp.status = 429
             /\ resp.by = "api" /\ Authorized(req) =>
                  \A n \in DOMAIN reg : ~AsksFor(req, n)
    <3>1. QueryNames \subseteq DOMAIN reg
      BY <2>1 DEF QueryNames, ToSet, Indexed
    <3> QED BY <2>3, <3>1 DEF DefinitionFound
  <2>4. ASSUME NEW n \in DOMAIN reg,
               /\ resp.by = "route" => n = Routes[resp.route].query
               /\ resp.by = "api" => AsksFor(req, n)
               /\ resp.ran = reg[n] /\ resp.shown \in {0, OutputFor(n)}
        PROVE  DefinitionFound
    <3>1. /\ resp.ran \in DOMAIN queries /\ queries[resp.ran].name = n /\ resp.ran # 0
          /\ OutputFor(n) \in DOMAIN queries /\ queries[OutputFor(n)].name = n
      BY <2>1, <2>4, IndexedFacts
    <3> QED BY <2>4, <3>1 DEF DefinitionFound
  <2> QED BY <2>2, <2>3, <2>4
<1> QED BY <1>1, GatewayInvariance, PTL

-----------------------------------------------------------------------------
(* Routes.                                                                 *)

Blank(s) == \A i \in DOMAIN s : s[i] = ""

\* From a to b is s without the slashes at its ends.
Core(s, a, b) ==
  /\ a \in DOMAIN s /\ b \in DOMAIN s /\ a <= b
  /\ s[a] # "" /\ s[b] # ""
  /\ \A i \in DOMAIN s : i < a \/ i > b => s[i] = ""

LEMMA SplitCases ==
  ASSUME NEW s, IsSeq(s)
  PROVE  \/ Blank(s) /\ Split(s) = <<"">>
         \/ \E a, b \in DOMAIN s : Core(s, a, b) /\ Split(s) = SubSeq(s, a, b)
<1> DEFINE parts == {i \in DOMAIN s : s[i] # ""}
<1>1. PICK n \in Nat : DOMAIN s = 1..n
  BY IsSeqFacts
<1>2. CASE parts = {}
  BY <1>2 DEF Split, Blank
<1>3. CASE parts # {}
  <2>1. /\ Min(parts) \in parts /\ \A i \in parts : Min(parts) <= i
        /\ Max(parts) \in parts /\ \A i \in parts : Max(parts) >= i
    <3>0. \A i \in 1..n : i \in Nat
      OBVIOUS
    <3>1. \A i \in parts : i \in 1..n /\ i \in Nat
      BY <1>1, <3>0
    <3> HIDE DEF parts
    <3>2. parts \in SUBSET (1..n) /\ parts \in SUBSET Nat
      BY <3>1
    <3> QED BY <1>3, <3>2, Least, Greatest
  <2>2. PICK a, b : a = Min(parts) /\ b = Max(parts)
    OBVIOUS
  <2>3. Split(s) = SubSeq(s, a, b)
    BY <1>3, <2>2 DEF Split
  <2>4. \A i \in DOMAIN s : i < a \/ i > b => i \notin parts
    <3> HIDE DEF parts
    <3>1. \A i \in parts : a <= i /\ i <= b /\ i \in 1..n
      BY <1>1, <2>1, <2>2 DEF parts
    <3>2. a \in Nat /\ b \in Nat
      BY <2>1, <2>2, <3>1
    <3> QED BY <1>1, <3>1, <3>2
  <2>5. a \in parts /\ b \in parts /\ a <= b
    <3> HIDE DEF parts
    <3> QED BY <2>1, <2>2
  <2>6. Core(s, a, b)
    BY <2>4, <2>5 DEF Core
  <2> QED BY <2>3, <2>5, <2>6
<1> QED BY <1>2, <1>3

LEMMA SplitBlank == ASSUME NEW s, Blank(s) PROVE Split(s) = <<"">>
BY DEF Split, Blank

LEMMA SplitCore ==
  ASSUME NEW s, IsSeq(s), NEW a, NEW b, Core(s, a, b)
  PROVE  Split(s) = SubSeq(s, a, b)
<1>1. ~Blank(s)
  BY DEF Blank, Core
<1>2. PICK c, d \in DOMAIN s : Core(s, c, d) /\ Split(s) = SubSeq(s, c, d)
  BY <1>1, SplitCases
<1>3. a \in Nat /\ b \in Nat /\ c \in Nat /\ d \in Nat
  <2>1. PICK n \in Nat : DOMAIN s = 1..n
    BY IsSeqFacts
  <2>2. \A i \in DOMAIN s : i \in Nat
    BY <2>1
  <2> QED BY <1>2, <2>2 DEF Core
<1>4. ~(c < a) /\ ~(d > b) /\ ~(a < c) /\ ~(b > d)
  BY <1>2 DEF Core
<1>5. a = c /\ b = d
  BY <1>3, <1>4
<1> QED BY <1>2, <1>5

\* What Split keeps, part by part.
LEMMA CoreParts ==
  ASSUME NEW s, IsSeq(s), NEW a, NEW b, Core(s, a, b)
  PROVE  /\ a \in 1..Len(s) /\ b \in a..Len(s) /\ Len(s) \in Nat
         /\ IsSeq(Split(s)) /\ Len(Split(s)) = b - a + 1
         /\ DOMAIN Split(s) = 1 .. b - a + 1
         /\ \A i \in 1 .. b - a + 1 : Split(s)[i] = s[a + i - 1]
<1>1. PICK n \in Nat : n = Len(s) /\ DOMAIN s = 1..n
  BY IsSeqFacts
<1>2. a \in 1..n /\ b \in a..n
  <2>1. a \in 1..n /\ b \in 1..n /\ a <= b
    BY <1>1 DEF Core
  <2> QED BY <2>1
<1>3. Split(s) = SubSeq(s, a, b)
  BY SplitCore
<1>4. /\ IsSeq(SubSeq(s, a, b)) /\ Len(SubSeq(s, a, b)) = b - a + 1
      /\ DOMAIN SubSeq(s, a, b) = 1 .. b - a + 1
      /\ \A i \in 1 .. b - a + 1 : SubSeq(s, a, b)[i] = s[a + i - 1]
  BY <1>1, <1>2, SubSeqFacts
<1> QED BY <1>1, <1>2, <1>3, <1>4

\* Slashes at the ends do not matter.
LEMMA SplitSlashed ==
  ASSUME NEW s, IsSeq(s), NEW core, Slashed(s, core)
  PROVE  Split(core) = Split(s)
<1>1. PICK n \in Nat : n = Len(s) /\ DOMAIN s = 1..n
  BY IsSeqFacts
<1>2. PICK i, j \in 0..n :
        /\ i + j <= n
        /\ core = SubSeq(s, i + 1, n - j)
        /\ \A k \in (1..i) \cup (n - j + 1 .. n) : s[k] = ""
  BY <1>1 DEF Slashed
<1>3. i \in Nat /\ j \in Nat /\ i + j <= n
  <2>1. \A k \in 0..n : k \in Nat
    OBVIOUS
  <2> QED BY <1>2, <2>1
<1>4. /\ IsSeq(core) /\ DOMAIN core = 1 .. n - j - i
      /\ \A k \in 1 .. n - j - i : core[k] = s[i + k]
  <2>1. /\ IsSeq(core) /\ DOMAIN core = 1 .. (n - j) - (i + 1) + 1
        /\ \A k \in 1 .. (n - j) - (i + 1) + 1 : core[k] = s[(i + 1) + k - 1]
    <3>1. i + 1 \in Nat \ {0} /\ n - j \in Int /\ n - j <= n /\ i + 1 <= (n - j) + 1
      BY <1>3
    <3>2. core = SubSeq(s, i + 1, n - j)
      BY <1>2
    <3>3. PICK c, d : c = i + 1 /\ d = n - j
      OBVIOUS
    <3>4. /\ IsSeq(SubSeq(s, c, d)) /\ DOMAIN SubSeq(s, c, d) = 1 .. d - c + 1
          /\ \A k \in 1 .. d - c + 1 : SubSeq(s, c, d)[k] = s[c + k - 1]
      BY <1>1, <3>1, <3>3, SubSeqFacts
    <3> QED BY <3>2, <3>3, <3>4
  <2>2. (n - j) - (i + 1) + 1 = n - j - i
    BY <1>3
  <2>3. \A k \in 1 .. n - j - i : (i + 1) + k - 1 = i + k
    BY <1>3
  <2> QED BY <2>1, <2>2, <2>3
<1>5. CASE Blank(s)
  <2>1. Blank(core)
    <3>1. \A k \in 1 .. n - j - i : i + k \in 1..n
      BY <1>3
    <3> QED BY <1>1, <1>4, <1>5, <3>1 DEF Blank
  <2> QED BY <1>5, <2>1, SplitBlank
<1>6. CASE ~Blank(s)
  <2>1. PICK a, b \in DOMAIN s : Core(s, a, b)
    BY <1>6, SplitCases
  <2>2. a \in i + 1 .. n - j /\ b \in a .. n - j
    <3>1. a \notin 1..i /\ b \notin n - j + 1 .. n /\ b \notin 1..i /\ a \notin n - j + 1 .. n
      BY <1>2, <2>1 DEF Core
    <3>2. a \in 1..n /\ b \in 1..n /\ a <= b
      BY <1>1, <2>1 DEF Core
    <3> QED BY <1>3, <3>1, <3>2
  <2>3. Core(core, a - i, b - i)
    <3>1. a - i \in 1 .. n - j - i /\ b - i \in 1 .. n - j - i /\ a - i <= b - i
      BY <1>3, <2>2
    <3>2. i + (a - i) = a /\ i + (b - i) = b
      BY <1>3, <2>2
    <3>3. core[a - i] = s[a] /\ core[b - i] = s[b]
      BY <1>4, <3>1, <3>2
    <3>4. ASSUME NEW k \in 1 .. n - j - i, k < a - i \/ k > b - i PROVE core[k] = ""
      <4>1. i + k \in 1..n /\ (i + k < a \/ i + k > b)
        BY <1>3, <2>2, <3>4
      <4>2. s[i + k] = ""
        BY <1>1, <2>1, <4>1 DEF Core
      <4> QED BY <1>4, <4>2
    <3> QED BY <1>4, <2>1, <3>1, <3>3, <3>4 DEF Core
  <2>4. /\ IsSeq(Split(core)) /\ Len(Split(core)) = b - a + 1
        /\ \A k \in 1 .. b - a + 1 : Split(core)[k] = s[a + k - 1]
    <3>1. (b - i) - (a - i) + 1 = b - a + 1
      BY <1>3, <2>2
    <3>2. /\ IsSeq(Split(core)) /\ Len(Split(core)) = b - a + 1
          /\ \A k \in 1 .. b - a + 1 : Split(core)[k] = core[(a - i) + k - 1]
      <4>1. PICK c, d : c = a - i /\ d = b - i
        OBVIOUS
      <4>0. IsSeq(core) /\ Core(core, c, d)
        BY <1>4, <2>3, <4>1
      <4>2. /\ IsSeq(Split(core)) /\ Len(Split(core)) = d - c + 1
            /\ \A k \in 1 .. d - c + 1 : Split(core)[k] = core[c + k - 1]
        BY <4>0, CoreParts
      <4>3. d - c + 1 = b - a + 1
        BY <3>1, <4>1
      <4> QED BY <4>1, <4>2, <4>3
    <3>3. ASSUME NEW k \in 1 .. b - a + 1
          PROVE  core[(a - i) + k - 1] = s[a + k - 1]
      <4>1. (a - i) + k - 1 \in 1 .. n - j - i /\ i + ((a - i) + k - 1) = a + k - 1
        BY <1>3, <2>2
      <4> QED BY <1>4, <4>1
    <3> QED BY <3>2, <3>3
  <2>5. /\ IsSeq(Split(s)) /\ Len(Split(s)) = b - a + 1
        /\ \A k \in 1 .. b - a + 1 : Split(s)[k] = s[a + k - 1]
    BY <2>1, CoreParts
  <2> QED BY <2>4, <2>5, SeqsEqual
<1> QED BY <1>5, <1>6

\* A sequence without what it begins and ends with is its core.
LEMMA SplitSlashes ==
  ASSUME NEW s, IsSeq(s), NEW a, NEW b, Core(s, a, b)
  PROVE  Split(s) \in SubSeqs(s) /\ Slashed(s, Split(s))
<1>1. PICK n \in Nat : n = Len(s) /\ DOMAIN s = 1..n
  BY IsSeqFacts
<1>2. a \in 1..n /\ b \in a..n
  BY <1>1, CoreParts
<1>3. Split(s) = SubSeq(s, a, b)
  BY SplitCore
<1>4. PICK i, j \in 0..n : i = a - 1 /\ j = n - b
  BY <1>2
<1>5. /\ i + j <= n /\ i + 1 = a /\ n - j = b /\ n - j + 1 = b + 1 /\ b \in 0..n
      /\ i \in Nat /\ b \in Nat /\ a \in Nat
  BY <1>2, <1>4
<1>6. Split(s) = SubSeq(s, i + 1, b) /\ Split(s) = SubSeq(s, i + 1, n - j)
  BY <1>3, <1>5
<1>7. \A k \in (1..i) \cup (n - j + 1 .. n) : s[k] = ""
  <2>1. \A k \in (1..i) \cup (n - j + 1 .. n) : k \in 1..n /\ (k < a \/ k > b)
    BY <1>2, <1>5
  <2> QED BY <1>1, <2>1 DEF Core
<1>8. Split(s) \in SubSeqs(s)
  BY <1>1, <1>5, <1>6 DEF SubSeqs
<1>9. Slashed(s, Split(s))
  BY <1>1, <1>5, <1>6, <1>7 DEF Slashed
<1> QED BY <1>8, <1>9

LEMMA BlankSlashes ==
  ASSUME NEW s, IsSeq(s), Blank(s)
  PROVE  <<>> \in SubSeqs(s) /\ Slashed(s, <<>>)
<1>1. PICK n \in Nat : n = Len(s) /\ DOMAIN s = 1..n
  BY IsSeqFacts
<1>2. SubSeq(s, n + 1, n) = <<>>
  <2>1. IsSeq(SubSeq(s, n + 1, n)) /\ Len(SubSeq(s, n + 1, n)) = 0
    <3>1. PICK m : m = n + 1
      OBVIOUS
    <3>2. m \in Nat \ {0} /\ n \in Int /\ n <= Len(s) /\ m <= n + 1 /\ n - m + 1 = 0
      BY <1>1, <3>1
    <3>3. IsSeq(SubSeq(s, m, n)) /\ Len(SubSeq(s, m, n)) = n - m + 1
      BY <3>2, SubSeqFacts
    <3> QED BY <3>1, <3>2, <3>3
  <2>2. \A i \in 1..Len(<<>>) : SubSeq(s, n + 1, n)[i] = <<>>[i]
    BY EmptyIsSeq
  <2> QED BY <2>1, <2>2, EmptyIsSeq, SeqsEqual
<1>3. <<>> \in SubSeqs(s)
  BY <1>1, <1>2 DEF SubSeqs
<1>4. n \in 0..n /\ 0 \in 0..n /\ n + 0 <= n /\ n - 0 = n
  OBVIOUS
<1>5. \A k \in (1..n) \cup (n - 0 + 1 .. n) : s[k] = ""
  <2>1. \A k \in (1..n) \cup (n - 0 + 1 .. n) : k \in 1..n
    OBVIOUS
  <2> QED BY <1>1, <2>1 DEF Blank
<1>6. Slashed(s, <<>>)
  BY <1>1, <1>2, <1>4, <1>5 DEF Slashed
<1> QED BY <1>3, <1>6

\* A filling has slashes where the pattern has them.
LEMMA FillingFacts ==
  ASSUME NEW P, IsSeq(P), NEW parts, NEW f \in Fillings(P, parts)
  PROVE  /\ IsSeq(f) /\ DOMAIN f = DOMAIN P
         /\ \A i \in DOMAIN P :
              IF IsParam(P[i]) THEN f[i] \in parts \ {""} ELSE f[i] = P[i]
         /\ \A i \in DOMAIN P : f[i] = "" <=> P[i] = ""
<1>1. PICK n \in Nat : DOMAIN P = 1..n
  BY IsSeqFacts
<1>2. /\ f \in [1..n -> parts \cup ToSet(P)]
      /\ \A i \in 1..n :
           IF IsParam(P[i]) THEN f[i] \in parts \ {""} ELSE f[i] = P[i]
  BY <1>1 DEF Fillings
<1>3. IsSeq(f)
  <2>1. f = [i \in 1..n |-> f[i]]
    BY <1>2
  <2> QED BY <2>1, FunctionIsSeq
<1>4. \A i \in 1..n : f[i] = "" <=> P[i] = ""
  BY <1>2, GatewayAssumption DEF IsParam
<1> QED BY <1>1, <1>2, <1>3, <1>4

LEMMA BlankMatch ==
  ASSUME NEW P, Blank(P), NEW q, MatchPath(Split(P), q)
  PROVE  Len(Split(q)) = 1 /\ Split(q)[1] = ""
<1>1. Split(P) = <<"">>
  BY SplitBlank
<1>2. Len(Split(q)) = Len(<<"">>) /\ \A i \in DOMAIN <<"">> :
        IF IsParam(<<"">>[i]) THEN Split(q)[i] # "" ELSE Split(q)[i] = <<"">>[i]
  BY <1>1 DEF MatchPath
<1>3. Len(<<"">>) = 1 /\ 1 \in DOMAIN <<"">> /\ <<"">>[1] = ""
  OBVIOUS
<1>4. ~IsParam("")
  BY GatewayAssumption DEF IsParam
<1> QED BY <1>2, <1>3, <1>4

\* What makes the path of the pattern matches.
LEMMA MeetsMatches ==
  ASSUME NEW P, IsSeq(P), NEW q, IsSeq(q), NEW f \in Fillings(P, ToSet(q)),
         NEW core, Slashed(q, core), Slashed(f, core)
  PROVE  MatchPath(Split(P), q)
<1>1. /\ IsSeq(f) /\ DOMAIN f = DOMAIN P
      /\ \A i \in DOMAIN P :
           IF IsParam(P[i]) THEN f[i] \in ToSet(q) \ {""} ELSE f[i] = P[i]
      /\ \A i \in DOMAIN P : f[i] = "" <=> P[i] = ""
  BY FillingFacts
<1>2. Split(q) = Split(f)
  BY <1>1, SplitSlashed
<1>3. CASE Blank(P)
  <2>1. Blank(f)
    BY <1>1, <1>3 DEF Blank
  <2>2. Split(q) = <<"">> /\ Split(P) = <<"">>
    BY <1>2, <1>3, <2>1, SplitBlank
  <2>3. \A i \in DOMAIN <<"">> : <<"">>[i] = ""
    <3>1. <<"">>[1] = ""
      OBVIOUS
    <3>2. \A i \in DOMAIN <<"">> : i = 1
      OBVIOUS
    <3> QED BY <3>1, <3>2
  <2>4. ~IsParam("")
    BY GatewayAssumption DEF IsParam
  <2>5. \A i \in DOMAIN Split(P) : Split(P)[i] = "" /\ Split(q) = Split(P)
    BY <2>2, <2>3
  <2> QED BY <2>2, <2>4, <2>5 DEF MatchPath
<1>4. CASE ~Blank(P)
  <2>1. PICK a, b \in DOMAIN P : Core(P, a, b)
    BY <1>4, SplitCases
  <2>2. Core(f, a, b)
    BY <1>1, <2>1 DEF Core
  <2>3. /\ Len(Split(q)) = b - a + 1
        /\ \A k \in 1 .. b - a + 1 : Split(q)[k] = f[a + k - 1]
    <3>1. /\ Len(Split(f)) = b - a + 1
          /\ \A k \in 1 .. b - a + 1 : Split(f)[k] = f[a + k - 1]
      <4>1. IsSeq(f) /\ Core(f, a, b)
        BY <1>1, <2>2
      <4> QED BY <4>1, CoreParts
    <3> QED BY <1>2, <3>1
  <2>4. /\ Len(Split(P)) = b - a + 1 /\ DOMAIN Split(P) = 1 .. b - a + 1
        /\ \A k \in 1 .. b - a + 1 : Split(P)[k] = P[a + k - 1]
        /\ a \in 1..Len(P) /\ b \in a..Len(P) /\ Len(P) \in Nat
    BY <2>1, CoreParts
  <2>5. \A k \in 1 .. b - a + 1 : a + k - 1 \in DOMAIN P
    <3>1. \A k \in 1 .. b - a + 1 : a + k - 1 \in 1..Len(P)
      BY <2>4
    <3> QED BY <3>1, IsSeqFacts
  <2>6. ASSUME NEW k \in DOMAIN Split(P)
        PROVE  IF IsParam(Split(P)[k]) THEN Split(q)[k] # "" ELSE Split(q)[k] = Split(P)[k]
    <3>1. PICK i \in DOMAIN P : Split(P)[k] = P[i] /\ Split(q)[k] = f[i]
      BY <2>3, <2>4, <2>5
    <3> QED BY <1>1, <3>1
  <2> QED BY <2>3, <2>4, <2>6 DEF MatchPath
<1> QED BY <1>3, <1>4

\* The pattern, from c on, with what Split leaves of q for its parameters.
Filled(P, q, c) ==
  [i \in DOMAIN P |-> IF IsParam(P[i]) THEN Split(q)[i - c + 1] ELSE P[i]]

\* What matches has a path that the pattern makes.
LEMMA MatchesMeets ==
  ASSUME NEW P, IsSeq(P), NEW q, IsSeq(q), MatchPath(Split(P), q),
         NEW a, NEW b, Core(P, a, b)
  PROVE  /\ Split(q) \in SubSeqs(q) /\ Slashed(q, Split(q))
         /\ Filled(P, q, a) \in Fillings(P, ToSet(q))
         /\ Slashed(Filled(P, q, a), Split(q))
<1> DEFINE f == Filled(P, q, a)
<1>1. /\ a \in 1..Len(P) /\ b \in a..Len(P) /\ Len(P) \in Nat
      /\ IsSeq(Split(P)) /\ Len(Split(P)) = b - a + 1
      /\ DOMAIN Split(P) = 1 .. b - a + 1
      /\ \A k \in 1 .. b - a + 1 : Split(P)[k] = P[a + k - 1]
  BY CoreParts
<1>2. DOMAIN P = 1..Len(P)
  BY IsSeqFacts
<1>3. /\ Len(Split(q)) = b - a + 1
      /\ \A k \in 1 .. b - a + 1 :
           IF IsParam(P[a + k - 1]) THEN Split(q)[k] # ""
                                    ELSE Split(q)[k] = P[a + k - 1]
  BY <1>1 DEF MatchPath
<1>4. \A i \in a..b : i - a + 1 \in 1 .. b - a + 1 /\ a + (i - a + 1) - 1 = i
  BY <1>1
<1>5. \A i \in a..b : IF IsParam(P[i]) THEN Split(q)[i - a + 1] # ""
                                       ELSE Split(q)[i - a + 1] = P[i]
  BY <1>3, <1>4
<1>6. \A i \in DOMAIN P : i \notin a..b => P[i] = "" /\ ~IsParam(P[i])
  <2>1. \A i \in 1..Len(P) : i \notin a..b => i < a \/ i > b
    BY <1>1
  <2>2. \A i \in DOMAIN P : i \notin a..b => P[i] = ""
    BY <1>2, <2>1 DEF Core
  <2> QED BY <2>2, GatewayAssumption DEF IsParam
<1>7. /\ DOMAIN f = DOMAIN P
      /\ \A i \in a..b : f[i] = Split(q)[i - a + 1]
      /\ \A i \in DOMAIN P : i \notin a..b => f[i] = ""
      /\ \A i \in DOMAIN P : ~IsParam(P[i]) => f[i] = P[i]
  <2>1. DOMAIN f = DOMAIN P
    BY DEF Filled
  <2>2. \A i \in DOMAIN P :
          f[i] = IF IsParam(P[i]) THEN Split(q)[i - a + 1] ELSE P[i]
    BY DEF Filled
  <2>3. \A i \in a..b : i \in DOMAIN P
    BY <1>1, <1>2
  <2> HIDE DEF f
  <2> QED BY <1>5, <1>6, <2>1, <2>2, <2>3
<1>8. PICK c, d \in DOMAIN q : Core(q, c, d)
  <2>1. SUFFICES ASSUME Blank(q) PROVE FALSE
    BY SplitCases
  <2>2. Split(q) = <<"">>
    BY <2>1, SplitBlank
  <2>3. Len(<<"">>) = 1 /\ <<"">>[1] = ""
    OBVIOUS
  <2>4. a \in a..b /\ a - a + 1 = 1
    BY <1>1
  <2>5. b - a + 1 = 1 /\ Split(q)[a - a + 1] = ""
    BY <1>3, <2>2, <2>3, <2>4
  <2>6. ~IsParam(P[a]) /\ P[a] = ""
    BY <1>5, <2>4, <2>5
  <2> QED BY <2>6 DEF Core
<1>9. Split(q) \in SubSeqs(q) /\ Slashed(q, Split(q))
  BY <1>8, SplitSlashes
<1>10. /\ IsSeq(Split(q)) /\ Len(Split(q)) = d - c + 1
       /\ DOMAIN Split(q) = 1 .. d - c + 1
       /\ \A k \in 1 .. d - c + 1 : Split(q)[k] = q[c + k - 1]
       /\ c \in 1..Len(q) /\ d \in c..Len(q) /\ Len(q) \in Nat
  BY <1>8, CoreParts
<1>11. \A k \in 1 .. b - a + 1 : Split(q)[k] \in ToSet(q)
  <2>1. d - c + 1 = b - a + 1
    BY <1>3, <1>10
  <2>2. \A k \in 1 .. d - c + 1 : c + k - 1 \in 1..Len(q)
    BY <1>10
  <2>3. \A k \in 1 .. d - c + 1 : c + k - 1 \in DOMAIN q
    BY <2>2, IsSeqFacts
  <2> QED BY <1>10, <2>1, <2>3 DEF ToSet
<1>12. f \in Fillings(P, ToSet(q))
  <2>1. \A i \in DOMAIN P :
          IF IsParam(P[i]) THEN f[i] \in ToSet(q) \ {""} ELSE f[i] = P[i]
    <3>1. \A i \in DOMAIN P : IsParam(P[i]) => f[i] \in ToSet(q) \ {""}
      <4> SUFFICES ASSUME NEW i \in DOMAIN P, IsParam(P[i])
                   PROVE  f[i] \in ToSet(q) \ {""}
        OBVIOUS
      <4>1. i \in a..b
        BY <1>6
      <4>2. f[i] = Split(q)[i - a + 1] /\ i - a + 1 \in 1 .. b - a + 1
        BY <1>4, <1>7, <4>1
      <4> QED BY <1>5, <1>11, <4>1, <4>2
    <3> QED BY <1>7, <3>1
  <2>2. \A i \in DOMAIN P : f[i] \in ToSet(q) \cup ToSet(P)
    BY <2>1 DEF ToSet
  <2>3. f \in [DOMAIN P -> ToSet(q) \cup ToSet(P)]
    <3>1. f = [i \in DOMAIN P |-> f[i]]
      BY DEF Filled
    <3> HIDE DEF f
    <3> QED BY <2>2, <3>1
  <2> HIDE DEF f
  <2> QED BY <2>1, <2>3 DEF Fillings
<1>13. IsSeq(f)
  BY <1>12, FillingFacts
<1>14. Core(f, a, b)
  <2>1. \A i \in DOMAIN P : P[i] # "" => f[i] # ""
    BY <1>12, FillingFacts
  <2>2. \A i \in DOMAIN P : i < a \/ i > b => f[i] = ""
    <3>1. \A i \in 1..Len(P) : i < a \/ i > b => i \notin a..b
      BY <1>1
    <3> QED BY <1>2, <1>7, <3>1
  <2> HIDE DEF f
  <2> QED BY <1>7, <2>1, <2>2 DEF Core
<1>15. Split(f) = Split(q)
  <2>1. /\ IsSeq(Split(f)) /\ Len(Split(f)) = b - a + 1
        /\ \A k \in 1 .. b - a + 1 : Split(f)[k] = f[a + k - 1]
    BY <1>13, <1>14, CoreParts
  <2>2. \A k \in 1 .. b - a + 1 : a + k - 1 \in a..b /\ (a + k - 1) - a + 1 = k
    BY <1>1
  <2>3. \A k \in 1 .. b - a + 1 : Split(f)[k] = Split(q)[k]
    BY <1>7, <2>1, <2>2
  <2> HIDE DEF f
  <2> QED BY <1>3, <1>10, <2>1, <2>3, SeqsEqual
<1>16. Slashed(f, Split(q))
  BY <1>13, <1>14, <1>15, SplitSlashes
<1> QED BY <1>9, <1>12, <1>16

\* A pattern of slashes alone matches such paths only, and makes them.
LEMMA BlankMeets ==
  ASSUME NEW P, IsSeq(P), Blank(P), NEW q, IsSeq(q), MatchPath(Split(P), q)
  PROVE  /\ <<>> \in SubSeqs(q) /\ Slashed(q, <<>>) /\ Slashed(P, <<>>)
         /\ P \in Fillings(P, ToSet(q))
<1>1. Len(Split(q)) = 1 /\ Split(q)[1] = ""
  BY BlankMatch
<1>2. Blank(q)
  <2>1. SUFFICES ASSUME ~Blank(q) PROVE FALSE
    OBVIOUS
  <2>2. PICK c, d \in DOMAIN q : Core(q, c, d)
    BY <2>1, SplitCases
  <2>3. /\ c \in 1..Len(q) /\ d \in c..Len(q) /\ Len(q) \in Nat
        /\ \A k \in 1 .. d - c + 1 : Split(q)[k] = q[c + k - 1]
    BY <2>2, CoreParts
  <2>4. 1 \in 1 .. d - c + 1 /\ c + 1 - 1 = c
    BY <2>3
  <2>5. Split(q)[1] = q[c]
    BY <2>3, <2>4
  <2> QED BY <1>1, <2>2, <2>5 DEF Core
<1>3. P \in Fillings(P, ToSet(q))
  <2>1. \A i \in DOMAIN P : ~IsParam(P[i]) /\ P[i] \in ToSet(q) \cup ToSet(P)
    BY GatewayAssumption DEF Blank, IsParam, ToSet
  <2>2. P \in [DOMAIN P -> ToSet(q) \cup ToSet(P)]
    <3>1. PICK n : n = Len(P) /\ P = [i \in 1..n |-> P[i]]
      BY DEF IsSeq
    <3> QED BY <2>1, <3>1
  <2> QED BY <2>1, <2>2 DEF Fillings
<1> QED BY <1>2, <1>3, BlankSlashes

\* So Matches is what Meets says of the whole path.
LEMMA MatchesIsMeets ==
  ASSUME NEW rt, HasPath(rt), NEW r, r.path \in DOMAIN Paths
  PROVE  Matches(rt, r) <=> Meets(rt, r)
<1>1. PICK P, q : P = Paths[rt.path] /\ q = Paths[r.path]
  OBVIOUS
<1>2. IsSeq(P) /\ IsSeq(q)
  BY <1>1, GatewayAssumption DEF HasPath
<1> DEFINE Made == \E f \in Fillings(P, ToSet(q)) :
                     \E core \in SubSeqs(q) : Slashed(q, core) /\ Slashed(f, core)
<1>3. Made => MatchPath(Split(P), q)
  BY <1>2, MeetsMatches
<1>4. MatchPath(Split(P), q) => Made
  <2> SUFFICES ASSUME MatchPath(Split(P), q) PROVE Made
    OBVIOUS
  <2>1. CASE Blank(P)
    <3>1. /\ <<>> \in SubSeqs(q) /\ Slashed(q, <<>>) /\ Slashed(P, <<>>)
          /\ P \in Fillings(P, ToSet(q))
      BY <1>2, <2>1, BlankMeets
    <3> QED BY <3>1
  <2>2. CASE ~Blank(P)
    <3>1. PICK a, b \in DOMAIN P : Core(P, a, b)
      BY <1>2, <2>2, SplitCases
    <3>2. /\ Split(q) \in SubSeqs(q) /\ Slashed(q, Split(q))
          /\ Filled(P, q, a) \in Fillings(P, ToSet(q))
          /\ Slashed(Filled(P, q, a), Split(q))
      BY <1>2, <3>1, MatchesMeets
    <3> QED BY <3>2
  <2> QED BY <2>1, <2>2
<1>5. Meets(rt, r) <=>
        /\ rt.method = ToUpper(r.method)
        /\ CheckHeaders(r, Entry(rt, "require_header", <<>>))
        /\ Made
  BY <1>1 DEF Meets
<1>6. Matches(rt, r) <=>
        /\ rt.method = ToUpper(r.method)
        /\ MatchPath(Split(P), q)
        /\ CheckHeaders(r, Entry(rt, "require_header", <<>>))
  BY <1>1 DEF Matches, Segments
<1> HIDE DEF Made
<1> QED BY <1>3, <1>4, <1>5, <1>6

\* With the parameters of a match for its own, the pattern is the path.
LEMMA ParamsFill ==
  ASSUME NEW rt, HasPath(rt), Distinct(rt), NEW q, IsSeq(q), MatchPath(Segments(rt), q)
  PROVE  LET params == PathParams(Segments(rt), q)
             P == Paths[rt.path]
         IN  \E core \in SubSeqs(q) :
               /\ Slashed(q, core)
               /\ Slashed([i \in DOMAIN P |-> Entry(params, P[i], P[i])], core)
<1>1. PICK P, segs, params :
        P = Paths[rt.path] /\ segs = Split(P) /\ params = PathParams(segs, q)
  OBVIOUS
<1>2. IsSeq(P) /\ Segments(rt) = segs /\ MatchPath(segs, q)
  BY <1>1, GatewayAssumption DEF HasPath, Segments
<1>3. /\ DOMAIN params = ToSet(segs) \cap ParamParts
      /\ \A p \in ToSet(segs) \cap ParamParts :
           params[p] = Split(q)[Max({i \in DOMAIN segs : segs[i] = p})]
  BY <1>1 DEF PathParams
<1> DEFINE g == [i \in DOMAIN P |-> Entry(params, P[i], P[i])]
<1>4. \E core \in SubSeqs(q) : Slashed(q, core) /\ Slashed(g, core)
  <2>1. CASE Blank(P)
    <3>1. g = P
      <4>1. \A i \in DOMAIN P : P[i] \notin DOMAIN params
        BY <1>3, <2>1, GatewayAssumption DEF Blank
      <4>2. \A i \in DOMAIN P : Entry(params, P[i], P[i]) = P[i]
        BY <4>1 DEF Entry
      <4>3. PICK n : P = [i \in 1..n |-> P[i]]
        BY <1>2 DEF IsSeq
      <4> QED BY <4>2, <4>3
    <3>2. <<>> \in SubSeqs(q) /\ Slashed(q, <<>>) /\ Slashed(P, <<>>)
      BY <1>1, <1>2, <2>1, BlankMeets
    <3> HIDE DEF g
    <3> QED BY <3>1, <3>2
  <2>2. CASE ~Blank(P)
    <3>1. PICK a, b \in DOMAIN P : Core(P, a, b)
      BY <1>2, <2>2, SplitCases
    <3>2. /\ a \in 1..Len(P) /\ b \in a..Len(P) /\ Len(P) \in Nat
          /\ DOMAIN segs = 1 .. b - a + 1
          /\ \A k \in 1 .. b - a + 1 : segs[k] = P[a + k - 1]
      <4>1. /\ a \in 1..Len(P) /\ b \in a..Len(P) /\ Len(P) \in Nat
            /\ DOMAIN Split(P) = 1 .. b - a + 1
            /\ \A k \in 1 .. b - a + 1 : Split(P)[k] = P[a + k - 1]
        BY <1>2, <3>1, CoreParts
      <4>2. segs = Split(P)
        BY <1>1
      <4> QED BY <4>1, <4>2
    <3>3. ASSUME NEW i \in DOMAIN P, IsParam(P[i])
          PROVE  Entry(params, P[i], P[i]) = Split(q)[i - a + 1]
      <4>1. i \in a..b
        <5>1. P[i] # ""
          BY <3>3, GatewayAssumption DEF IsParam
        <5>2. ~(i < a) /\ ~(i > b) /\ i \in 1..Len(P)
          BY <1>2, <3>1, <5>1, IsSeqFacts DEF Core
        <5> QED BY <3>2, <5>2
      <4>2. i - a + 1 \in 1 .. b - a + 1 /\ a + (i - a + 1) - 1 = i
        BY <3>2, <4>1
      <4>3. i - a + 1 \in DOMAIN segs /\ segs[i - a + 1] = P[i]
        BY <3>2, <4>2
      <4>4. ASSUME NEW k \in DOMAIN segs, segs[k] = P[i] PROVE k = i - a + 1
        <5>1. a + k - 1 \in 1..Len(P) /\ segs[k] = P[a + k - 1]
          BY <3>2
        <5>2. a + k - 1 \in DOMAIN P
          BY <1>2, <5>1, IsSeqFacts
        <5>3. a + k - 1 = i
          BY <1>1, <3>3, <4>4, <5>1, <5>2 DEF Distinct
        <5>4. a \in Int /\ k \in Int /\ i \in Int
          BY <3>2, <4>1
        <5> QED BY <5>3, <5>4
      <4>5. {k \in DOMAIN segs : segs[k] = P[i]} = {i - a + 1}
        BY <4>3, <4>4
      <4>6. Max({i - a + 1}) = i - a + 1
        <5>1. i - a + 1 \in Int
          BY <3>2, <4>1
        <5> QED BY <5>1 DEF Max
      <4>7. P[i] \in ToSet(segs) \cap ParamParts
        BY <3>3, <4>3 DEF ToSet, IsParam
      <4> QED BY <1>3, <4>5, <4>6, <4>7 DEF Entry
    <3>4. \A i \in DOMAIN P : ~IsParam(P[i]) => Entry(params, P[i], P[i]) = P[i]
      BY <1>3 DEF Entry, IsParam
    <3>5. g = Filled(P, q, a)
      BY <3>3, <3>4 DEF Filled
    <3>6. /\ Split(q) \in SubSeqs(q) /\ Slashed(q, Split(q))
          /\ Slashed(Filled(P, q, a), Split(q))
      BY <1>1, <1>2, <3>1, MatchesMeets
    <3> HIDE DEF g
    <3> QED BY <3>5, <3>6
  <2> QED BY <2>1, <2>2
<1> QED BY <1>1, <1>2, <1>4

LEMMA MatchingIsMeeting ==
  ASSUME NEW routes, NEW r, r.path \in DOMAIN Paths,
         \A i \in DOMAIN routes : HasPath(routes[i])
  PROVE  Matching(routes, r) = {i \in DOMAIN routes : Meets(routes[i], r)}
BY MatchesIsMeets DEF Matching

(***************************************************************************)
(* Trim, split and compare part by part does what a route promises: it     *)
(* answers the paths that values of its parameters make of its pattern, up *)
(* to slashes at the ends, and no others; the first such route gets the    *)
(* request, with those values, and only without one it goes on.  So for    *)
(* every configuration the parser accepts, any paths and any requests.     *)
(***************************************************************************)
THEOREM RoutesAreExact == Spec => []RoutesExact
<1>1. GatewayInv => RoutesExact
  <2> SUFFICES ASSUME GatewayInv, resp.by \in {"live", "route", "api", "next"}
               PROVE  RoutesExact
    BY DEF RoutesExact
  <2>1. phase = "serving"
    BY UnansweredBy DEF GatewayInv
  <2>2. Answered /\ Lists(settings)
    BY <2>1 DEF GatewayInv, Configured
  <2>3. req.path \in DOMAIN Paths
    BY <2>2 DEF Answered
  <2>4. /\ IsSeq(Routes) /\ IsSeq(LiveRoutes)
        /\ \A i \in DOMAIN Routes : HasPath(Routes[i])
        /\ \A i \in DOMAIN LiveRoutes : HasPath(LiveRoutes[i])
    BY <2>2 DEF Lists, RouteKinds, Routes, LiveRoutes
  <2>5. /\ Matching(LiveRoutes, req) = {i \in DOMAIN LiveRoutes : Meets(LiveRoutes[i], req)}
        /\ Matching(Routes, req) = {i \in DOMAIN Routes : Meets(Routes[i], req)}
    BY <2>3, <2>4, MatchingIsMeeting
  <2>6. CASE resp.by = "live"
    BY <2>2, <2>5, <2>6 DEF Answered, RoutesExact
  <2>7. CASE resp.by \in {"api", "next"}
    BY <2>2, <2>5, <2>7 DEF Answered, RoutesExact
  <2>8. CASE resp.by = "route"
    <3>1. /\ Matching(LiveRoutes, req) = {} /\ Matching(Routes, req) # {}
          /\ resp.route = Min(Matching(Routes, req))
          /\ resp.params = PathParams(Segments(Routes[resp.route]), Paths[req.path])
      BY <2>2, <2>8 DEF Answered
    <3>2. resp.route \in Matching(Routes, req) /\ resp.route \in DOMAIN Routes
      BY <2>4, <3>1, FirstMatch
    <3>3. PICK rt : rt = Routes[resp.route]
      OBVIOUS
    <3>4. HasPath(rt) /\ MatchPath(Segments(rt), Paths[req.path]) /\ IsSeq(Paths[req.path])
      BY <2>3, <2>4, <3>2, <3>3, GatewayAssumption DEF Matching, Matches
    <3>5. Distinct(rt) =>
            \E core \in SubSeqs(Paths[req.path]) :
              /\ Slashed(Paths[req.path], core)
              /\ Slashed([i \in DOMAIN Paths[rt.path] |->
                   Entry(resp.params, Paths[rt.path][i], Paths[rt.path][i])], core)
      BY <3>1, <3>3, <3>4, ParamsFill
    <3> QED BY <2>5, <2>8, <3>1, <3>3, <3>5 DEF RoutesExact
  <2> QED BY <2>6, <2>7, <2>8
<1> QED BY <1>1, GatewayInvariance, PTL

-----------------------------------------------------------------------------
(* The parser and the author, as long as the gateway runs.                 *)

LEMMA FollowInvStep == FollowInv /\ [Next]_gatewayVars => FollowInv'
<1> SUFFICES ASSUME FollowInv, [Next]_gatewayVars PROVE FollowInv'
  OBVIOUS
<1>1. CASE ParseStep
  BY <1>1, FollowStep DEF ParseStep
<1>2. CASE Provision \/ ProvisionFailed
  BY <1>2, FollowLoaded DEF Provision, ProvisionFailed
<1>3. CASE \E r \in Menus[menu].requests :
             ServeLive(r) \/ ServeRoute(r) \/ ServeAPI(r) \/ PassOn(r)
  <2>1. UNCHANGED parseVars
    BY <1>3 DEF ServeLive, ServeRoute, ServeAPI, PassOn, Respond
  <2> QED BY <2>1, FollowUnchanged
<1>4. CASE Validate \/ WriteHeader \/ WriteBody \/ Flush \/ NextReturns \/ UNCHANGED gatewayVars
  <2>1. UNCHANGED parseVars
    BY <1>4 DEF Validate, WriteHeader, WriteBody, Flush, Call, NextReturns, gatewayVars
  <2> QED BY <2>1, FollowUnchanged
<1> QED BY <1>1, <1>2, <1>3, <1>4 DEF Next

(***************************************************************************)
(* Of whatever file, however its blocks, braces and schemas follow each    *)
(* other: the parser is in the block the author is in, takes every line    *)
(* that is as its directive wants it to its last word, and has the         *)
(* credentials of the last line read that has any.                         *)
(***************************************************************************)
THEOREM ParserFollows == Spec => []FollowInv
<1>1. Init => FollowInv
  BY FollowInit DEF Init
<1> QED BY <1>1, FollowInvStep, PTL DEF Spec

(***************************************************************************)
(* No file is refused but for a line of it that by itself, in the block it *)
(* is in, is not what its directive wants, whatever came before it.        *)
(***************************************************************************)
THEOREM RefusalsHaveReasons == Spec => []RefusedForReason
<1>1. FollowInv => RefusedForReason
  BY DEF FollowInv
<1> QED BY <1>1, ParserFollows, PTL

(***************************************************************************)
(* The credentials of a regular file are those of one line, the last that  *)
(* has any, in whichever of the two forms parseAuth reads; they are never  *)
(* put together of two lines.                                              *)
(***************************************************************************)
THEOREM CredentialsWhole == Spec => []CredentialsNeverMix
<1>1. FollowInv => CredentialsNeverMix
  BY DEF FollowInv
<1> QED BY <1>1, ParserFollows, PTL

(* The same steps for what the parser has gathered.                        *)

LEMMA MeaningInvStep == MeaningInv /\ [Next]_gatewayVars => MeaningInv'
<1> SUFFICES ASSUME MeaningInv, [Next]_gatewayVars PROVE MeaningInv'
  OBVIOUS
<1>1. CASE ParseStep
  BY <1>1, MeaningStep DEF ParseStep
<1>2. CASE Provision \/ ProvisionFailed
  BY <1>2, MeaningLoaded DEF Provision, ProvisionFailed
<1>3. CASE \E r \in Menus[menu].requests :
             ServeLive(r) \/ ServeRoute(r) \/ ServeAPI(r) \/ PassOn(r)
  <2>1. UNCHANGED parseVars
    BY <1>3 DEF ServeLive, ServeRoute, ServeAPI, PassOn, Respond
  <2> QED BY <2>1, MeaningUnchanged
<1>4. CASE Validate \/ WriteHeader \/ WriteBody \/ Flush \/ NextReturns \/ UNCHANGED gatewayVars
  <2>1. UNCHANGED parseVars
    BY <1>4 DEF Validate, WriteHeader, WriteBody, Flush, Call, NextReturns, gatewayVars
  <2> QED BY <2>1, MeaningUnchanged
<1> QED BY <1>1, <1>2, <1>3, <1>4 DEF Next

(***************************************************************************)
(* At every line of a file that is regular so far, each block the parser   *)
(* has, open or ended, merged or repeated, however deep, has the fields    *)
(* that the lines heard so far mean for it, and no others.                 *)
(***************************************************************************)
THEOREM BlocksGathered == Spec => []MeaningInv
<1>1. Init => MeaningInv
  BY MeaningInit DEF Init
<1> QED BY <1>1, MeaningInvStep, PTL DEF Spec

(***************************************************************************)
(* The configuration of a regular file, but for credentials and schema, is *)
(* what the file means, whatever the lines and however its blocks nest,    *)
(* repeat and take up each other.                                          *)
(***************************************************************************)
THEOREM ConfigIsMeaning == Spec => []ConfigMeansFile
<1>1. MeaningInv => ConfigMeansFile
  BY DEF MeaningInv
<1> QED BY <1>1, BlocksGathered, PTL
=============================================================================
