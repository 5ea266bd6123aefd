---------------------------- MODULE CaddyfileProofs ----------------------------
(***************************************************************************)
(* The parser of Caddyfile against the file as a whole, for every menu: it *)
(* is in the block that the author is in, so it refuses no line that is as *)
(* its directive wants it, takes the credentials of the last one, and what *)
(* it has gathered of each block is what the lines read so far mean.       *)
(***************************************************************************)
EXTENDS Caddyfile, TLAPS, SequenceTheorems, NaturalsInduction, WellFoundedInduction

-----------------------------------------------------------------------------
(* Sequences.                                                              *)

LEMMA SeqIsSeq ==
  ASSUME NEW S, NEW s \in Seq(S)
  PROVE  IsSeq(s)
BY LenProperties DEF IsSeq

LEMMA IsSeqFacts ==
  ASSUME NEW s, IsSeq(s)
  PROVE  /\ s \in Seq(ToSet(s))
         /\ Len(s) \in Nat
         /\ DOMAIN s = 1..Len(s)
<1>1. Len(s) \in Nat /\ DOMAIN s = 1..Len(s)
  BY DEF IsSeq
<1>2. s \in [1..Len(s) -> ToSet(s)]
  BY <1>1 DEF IsSeq, ToSet
<1> QED BY <1>1, <1>2

LEMMA FunctionIsSeq ==
  ASSUME NEW n \in Nat, NEW s, s = [i \in 1..n |-> s[i]]
  PROVE  IsSeq(s) /\ Len(s) = n
<1>1. PICK S : S = ToSet(s)
  OBVIOUS
<1>2. s \in [1..n -> S]
  BY <1>1 DEF ToSet
<1>3. s \in Seq(S) /\ Len(s) = n
  BY <1>2
<1> QED BY <1>3, SeqIsSeq

LEMMA EmptyIsSeq == IsSeq(<<>>) /\ DOMAIN <<>> = {} /\ Len(<<>>) = 0
BY EmptySeq DEF IsSeq

LEMMA AppendFacts ==
  ASSUME NEW s, IsSeq(s), NEW x
  PROVE  /\ IsSeq(Append(s, x))
         /\ Len(Append(s, x)) = Len(s) + 1
         /\ DOMAIN Append(s, x) = 1..Len(s) + 1
         /\ \A i \in 1..Len(s) : Append(s, x)[i] = s[i]
         /\ Append(s, x)[Len(s) + 1] = x
<1> DEFINE T == ToSet(s) \cup {x}
<1>1. s \in Seq(ToSet(s)) /\ Len(s) \in Nat
  BY IsSeqFacts
<1>2. s \in Seq(T) /\ x \in T
  BY <1>1, SeqMonotonic
<1> HIDE DEF T
<1>3. /\ Append(s, x) \in Seq(T)
      /\ Len(Append(s, x)) = Len(s) + 1
      /\ \A i \in 1..Len(s) : Append(s, x)[i] = s[i]
      /\ Append(s, x)[Len(s) + 1] = x
  BY <1>2
<1> QED BY <1>3, SeqIsSeq, LenProperties

LEMMA SubSeqFacts ==
  ASSUME NEW s, IsSeq(s), NEW m \in Nat \ {0}, NEW n \in Int,
         n <= Len(s), m <= n + 1
  PROVE  /\ IsSeq(SubSeq(s, m, n))
         /\ Len(SubSeq(s, m, n)) = n - m + 1
         /\ DOMAIN SubSeq(s, m, n) = 1 .. n - m + 1
         /\ \A i \in 1 .. n - m + 1 : SubSeq(s, m, n)[i] = s[m + i - 1]
<1>1. \A i \in m..n : s[i] \in ToSet(s)
  BY IsSeqFacts DEF ToSet
<1>2. /\ SubSeq(s, m, n) \in Seq(ToSet(s))
      /\ Len(SubSeq(s, m, n)) = n - m + 1
      /\ \A i \in 1 .. n - m + 1 : SubSeq(s, m, n)[i] = s[m + i - 1]
  BY <1>1, SubSeqProperties
<1> QED BY <1>2, SeqIsSeq, LenProperties

LEMMA FrontFacts ==
  ASSUME NEW s, IsSeq(s), Len(s) >= 1
  PROVE  /\ IsSeq(Front(s))
         /\ Len(Front(s)) = Len(s) - 1
         /\ DOMAIN Front(s) = 1 .. Len(s) - 1
         /\ \A i \in 1 .. Len(s) - 1 : Front(s)[i] = s[i]
<1>1. Len(s) \in Nat
  BY IsSeqFacts
<1>2. PICK n \in Int : n = Len(s) - 1
  BY <1>1
<1>3. /\ IsSeq(SubSeq(s, 1, n)) /\ Len(SubSeq(s, 1, n)) = n - 1 + 1
      /\ DOMAIN SubSeq(s, 1, n) = 1 .. n - 1 + 1
      /\ \A i \in 1 .. n - 1 + 1 : SubSeq(s, 1, n)[i] = s[1 + i - 1]
  BY <1>1, <1>2, SubSeqFacts
<1>4. n - 1 + 1 = n /\ \A i \in 1..n : 1 + i - 1 = i
  BY <1>2
<1>5. Front(s) = SubSeq(s, 1, n)
  BY <1>2 DEF Front
<1> QED BY <1>2, <1>3, <1>4, <1>5

LEMMA SeqsEqual ==
  ASSUME NEW s, IsSeq(s), NEW t, IsSeq(t), Len(s) = Len(t),
         \A i \in 1..Len(s) : s[i] = t[i]
  PROVE  s = t
BY DEF IsSeq

LEMMA NothingLeft ==
  ASSUME NEW s, IsSeq(s), NEW m, m = Len(s) + 1
  PROVE  SubSeq(s, m, Len(s)) = <<>>
<1>1. Len(s) \in Nat
  BY IsSeqFacts
<1>2. IsSeq(SubSeq(s, m, Len(s))) /\ Len(SubSeq(s, m, Len(s))) = 0
  <2>1. m \in Nat \ {0} /\ Len(s) \in Int /\ m <= Len(s) + 1 /\ Len(s) - m + 1 = 0
    BY <1>1
  <2> QED BY <2>1, SubSeqFacts
<1>3. \A i \in 1..Len(<<>>) : SubSeq(s, m, Len(s))[i] = <<>>[i]
  BY EmptyIsSeq
<1> QED BY <1>2, <1>3, EmptyIsSeq, SeqsEqual

\* A nonempty set of numbers has a least one, and one below n a greatest.
LEMMA Least ==
  ASSUME NEW S \in SUBSET Nat, S # {}
  PROVE  Min(S) \in S /\ \A i \in S : Min(S) <= i
<1>1. PICK m \in S : \A i \in S : ~ (<<i, m>> \in OpToRel(<, Nat))
  BY NatLessThanWellFounded, WFMin
<1>2. \A i \in S : ~ (i < m)
  BY <1>1 DEF OpToRel
<1>3. \A i \in S : m <= i
  BY <1>2
<1> QED BY <1>3 DEF Min

LEMMA Greatest ==
  ASSUME NEW n \in Nat, NEW S \in SUBSET (1..n), S # {}
  PROVE  Max(S) \in S /\ \A i \in S : Max(S) >= i
<1> DEFINE T == {n - i : i \in S}
<1>1. T \in SUBSET Nat /\ T # {}
  <2>1. \A i \in S : i \in 1..n /\ n - i \in Nat
    OBVIOUS
  <2> QED BY <2>1
<1>2. Min(T) \in T /\ \A j \in T : Min(T) <= j
  <2> HIDE DEF T
  <2> QED BY <1>1, Least
<1>3. PICK m \in S : n - m = Min(T)
  BY <1>2
<1>4. \A i \in S : n - m <= n - i
  BY <1>2, <1>3
<1>5. \A i \in S : m >= i
  BY <1>4
<1> QED BY <1>5 DEF Max

-----------------------------------------------------------------------------
(* Tables.                                                                 *)

LEMMA BlocksAre ==
  /\ Blocks = {"query", "param", "live_query", "route", "live_route", "output",
               "log", "schema", "auth"}
  /\ DOMAIN Grammar = ({"site"} \cup Blocks) \ {"schema"}
BY DEF Blocks, Heads, Grammar

\* Only the site has credentials on a line of their own, and no block of
\* credentials holds another.
LEMMA GrammarKinds ==
  ASSUME NEW b \in DOMAIN Grammar, NEW h \in DOMAIN Grammar[b]
  PROVE  /\ Grammar[b][h] # "statements"
         /\ Grammar[b][h] = "auth" <=> b = "site" /\ h = "auth"
         /\ b = "auth" => Grammar[b][h] \notin Blocks
<1>1. b \in {"site", "auth", "query", "param", "output", "route", "live_query",
             "live_route", "log"}
  BY BlocksAre
<1>2. CASE b = "site"
  BY <1>2 DEF Grammar, SiteBlock
<1>3. CASE b = "auth"
  BY <1>3, BlocksAre DEF Grammar, AuthBlock
<1>4. CASE b = "query"
  BY <1>4 DEF Grammar, QueryBlock
<1>5. CASE b = "param"
  BY <1>5 DEF Grammar, ParamBlock
<1>6. CASE b = "output"
  BY <1>6 DEF Grammar, OutputBlock
<1>7. CASE b = "route"
  BY <1>7 DEF Grammar, RouteBlock
<1>8. CASE b = "live_query"
  BY <1>8 DEF Grammar, LiveQueryBlock
<1>9. CASE b = "live_route"
  BY <1>9 DEF Grammar, LiveRouteBlock
<1>10. CASE b = "log"
  BY <1>10 DEF Grammar, LogBlock
<1> QED BY <1>1, <1>2, <1>3, <1>4, <1>5, <1>6, <1>7, <1>8, <1>9, <1>10

LEMMA EntryPut ==
  ASSUME NEW f, NEW key, NEW v, NEW k, NEW d
  PROVE  Entry(Put(f, key, v), k, d) = IF k = key THEN v ELSE Entry(f, k, d)
BY DEF Entry, Put

-----------------------------------------------------------------------------
(* The kinds of a file's lines.                                            *)

\* Each line is in a block that a line before it opened.
Opened(fl) == IsSeq(fl) /\ \A i \in 1..Len(fl) : fl[i].in \in 0 .. i - 1

\* What line i is if its block is as k says.
KindStep(fl, k, i) ==
  IF i = 0 THEN "site"
  ELSE IF k[fl[i].in] \in {"schema", "statements"} THEN "statements"
  ELSE IF IsClose(fl[i]) \/ k[fl[i].in] \notin DOMAIN Grammar THEN "unknown"
  ELSE Kind(k[fl[i].in], fl[i].words)

Kinds(fl) == CHOOSE k : k = [i \in 0..Len(fl) |-> KindStep(fl, k, i)]

LEMMA KindOfFile == KindOf = Kinds(file) /\ KindOf' = Kinds(file')
BY DEF KindOf, Kinds, KindStep, IsClose

\* By the least n without: the lines up to n have kinds.
LEMMA KindsExist ==
  ASSUME NEW fl, Opened(fl)
  PROVE  Kinds(fl) = [i \in 0..Len(fl) |-> KindStep(fl, Kinds(fl), i)]
<1> DEFINE Has(n) == \E k : k = [i \in 0..n |-> KindStep(fl, k, i)]
           S == {n \in Nat : n <= Len(fl) /\ ~Has(n)}
<1>0. Len(fl) \in Nat
  BY DEF Opened, IsSeq
<1>1. Has(0)
  <2>1. [i \in 0..0 |-> "site"] = [i \in 0..0 |-> KindStep(fl, [j \in 0..0 |-> "site"], i)]
    BY DEF KindStep
  <2> QED BY <2>1
<1>2. ASSUME NEW m \in Nat, m + 1 <= Len(fl), Has(m) PROVE Has(m + 1)
  <2>1. PICK k : k = [i \in 0..m |-> KindStep(fl, k, i)]
    BY <1>2
  <2> DEFINE h == [i \in 0 .. m + 1 |-> IF i = m + 1 THEN KindStep(fl, k, i) ELSE k[i]]
  <2>2. ASSUME NEW i \in 0 .. m + 1 PROVE KindStep(fl, h, i) = KindStep(fl, k, i)
    <3>1. CASE i = 0
      BY <3>1 DEF KindStep
    <3>2. CASE i # 0
      <4>1. fl[i].in \in 0 .. i - 1
        BY <1>0, <1>2, <3>2 DEF Opened
      <4>2. h[fl[i].in] = k[fl[i].in]
        BY <4>1
      <4> HIDE DEF h
      <4> QED BY <3>2, <4>2 DEF KindStep
    <3> QED BY <3>1, <3>2
  <2>3. \A i \in 0 .. m + 1 : h[i] = KindStep(fl, k, i)
    <3>1. \A i \in 0 .. m + 1 : i = m + 1 \/ i \in 0..m
      OBVIOUS
    <3> QED BY <2>1, <3>1
  <2>4. h = [i \in 0 .. m + 1 |-> KindStep(fl, h, i)]
    <3>1. h = [i \in 0 .. m + 1 |-> h[i]]
      OBVIOUS
    <3> HIDE DEF h
    <3> QED BY <2>2, <2>3, <3>1
  <2> HIDE DEF h
  <2> QED BY <2>4
<1>3. S = {}
  <2>1. SUFFICES ASSUME S # {} PROVE FALSE
    OBVIOUS
  <2> HIDE DEF Has
  <2>2. S \in SUBSET Nat
    OBVIOUS
  <2>3. PICK n \in S : \A i \in S : n <= i
    <3> HIDE DEF S
    <3> QED BY <2>1, <2>2, Least
  <2>4. n \in Nat /\ n <= Len(fl) /\ ~Has(n) /\ n # 0
    BY <1>1, <2>3
  <2>5. n - 1 \in Nat /\ n - 1 <= Len(fl) /\ n - 1 \notin S /\ (n - 1) + 1 = n
    <3>1. n - 1 \in Nat /\ n - 1 <= Len(fl) /\ (n - 1) + 1 = n /\ ~(n <= n - 1)
      BY <1>0, <2>4
    <3> HIDE DEF S
    <3> QED BY <2>3, <3>1
  <2>6. Has(n - 1)
    BY <2>5
  <2>7. Has(n)
    BY <1>2, <2>4, <2>5, <2>6
  <2> QED BY <2>4, <2>7
<1>4. Has(Len(fl))
  <2> HIDE DEF Has
  <2> QED BY <1>0, <1>3
<1> QED BY <1>4 DEF Kinds

\* More lines leave the kinds of those before as they are.
LEMMA KindsKept ==
  ASSUME NEW fl, Opened(fl), NEW gl, Opened(gl), Len(fl) <= Len(gl),
         \A i \in 1..Len(fl) : gl[i] = fl[i]
  PROVE  \A i \in 0..Len(fl) : Kinds(gl)[i] = Kinds(fl)[i]
<1> DEFINE S == {i \in 0..Len(fl) : Kinds(gl)[i] # Kinds(fl)[i]}
<1>0. Len(fl) \in Nat /\ Len(gl) \in Nat
  BY DEF Opened, IsSeq
<1>1. /\ \A i \in 0..Len(fl) : Kinds(fl)[i] = KindStep(fl, Kinds(fl), i)
      /\ \A i \in 0..Len(gl) : Kinds(gl)[i] = KindStep(gl, Kinds(gl), i)
  <2>1. PICK k, m : k = Kinds(fl) /\ m = Kinds(gl)
    OBVIOUS
  <2>2. /\ k = [i \in 0..Len(fl) |-> KindStep(fl, k, i)]
        /\ m = [i \in 0..Len(gl) |-> KindStep(gl, m, i)]
    BY <2>1, KindsExist
  <2>3. /\ \A i \in 0..Len(fl) : k[i] = KindStep(fl, k, i)
        /\ \A i \in 0..Len(gl) : m[i] = KindStep(gl, m, i)
    BY <2>2
  <2> QED BY <2>1, <2>3
<1>2. SUFFICES ASSUME S # {} PROVE FALSE
  OBVIOUS
<1>3. PICK n \in S : \A i \in S : n <= i
  <2>1. \A i \in S : i \in Nat
    BY <1>0
  <2> HIDE DEF S
  <2>2. S \in SUBSET Nat
    BY <2>1
  <2> QED BY <1>2, <2>2, Least
<1>4. n \in 0..Len(fl) /\ n \in 0..Len(gl) /\ n \in Nat
  BY <1>0
<1>5. CASE n = 0
  BY <1>1, <1>4, <1>5 DEF KindStep
<1>6. CASE n # 0
  <2>1. fl[n].in \in 0 .. n - 1 /\ gl[n] = fl[n]
    BY <1>0, <1>4, <1>6 DEF Opened
  <2>2. fl[n].in \in 0..Len(fl) /\ ~(n <= fl[n].in)
    BY <1>0, <1>4, <1>6, <2>1
  <2>3. Kinds(gl)[fl[n].in] = Kinds(fl)[fl[n].in]
    BY <1>3, <2>2
  <2>4. Kinds(gl)[n] = Kinds(fl)[n]
    BY <1>1, <1>4, <1>6, <2>1, <2>3 DEF KindStep
  <2> QED BY <2>4
<1> QED BY <1>5, <1>6

-----------------------------------------------------------------------------
(* A line is written.                                                      *)

\* What is written so far is a file.
Layout ==
  /\ Opened(file)
  /\ \A i \in 1..Len(file) : IsSeq(file[i].words) /\ file[i].opens \in BOOLEAN
  /\ IsSeq(open)
  /\ \A j \in 1..Len(open) : open[j] \in 1..Len(file)

LEMMA OfferedIsLine ==
  ASSUME menu \in DOMAIN Menus, Layout, NEW l \in Offered
  PROVE  IsLine(l)
<1>1. IsLine(Close)
  BY EmptyIsSeq DEF IsLine, Close
<1>2. /\ IsSeq(Menus[menu].first)
      /\ \A i \in DOMAIN Menus[menu].first : IsLine(Menus[menu].first[i])
      /\ \A k \in Menus[menu].then : IsLine(k)
  BY CaddyfileAssumption
<1>3. CASE Len(file) < Len(Menus[menu].first)
  <2>1. /\ Len(file) \in Nat
        /\ DOMAIN Menus[menu].first = 1..Len(Menus[menu].first)
        /\ Len(Menus[menu].first) \in Nat
    BY <1>2, IsSeqFacts DEF Layout, Opened
  <2>2. Len(file) + 1 \in DOMAIN Menus[menu].first /\ l = Menus[menu].first[Len(file) + 1]
    BY <1>3, <2>1 DEF Offered
  <2> QED BY <1>2, <2>2
<1>4. CASE ~(Len(file) < Len(Menus[menu].first))
  BY <1>1, <1>2, <1>4 DEF Offered
<1> QED BY <1>3, <1>4

LEMMA WithinIsLine ==
  ASSUME Layout
  PROVE  /\ Within \in 0..Len(file)
         /\ open = <<>> => Within = 0
         /\ open # <<>> => Len(open) \in 1..Len(open) /\ Within = open[Len(open)]
<1>1. Len(open) \in Nat /\ Len(file) \in Nat /\ open \in Seq(ToSet(open))
  BY IsSeqFacts DEF Layout, Opened
<1>2. CASE open = <<>>
  BY <1>1, <1>2 DEF Within
<1>3. CASE open # <<>>
  <2>1. Len(open) \in 1..Len(open)
    BY <1>1, <1>3, EmptySeq
  <2>2. Within = open[Len(open)]
    BY <1>3 DEF Within, Last
  <2> QED BY <1>1, <1>3, <2>1, <2>2 DEF Layout
<1> QED BY <1>2, <1>3

\* The file has one line more, in the author's innermost block.
LEMMA WriteFacts ==
  ASSUME Layout, NEW l, IsLine(l), Write(l)
  PROVE  /\ Layout'
         /\ Len(file) \in Nat /\ Len(file') = Len(file) + 1
         /\ \A i \in 1..Len(file) : file'[i] = file[i]
         /\ file'[Len(file) + 1] = [in |-> Within, words |-> l.words, opens |-> l.opens]
         /\ l.opens => open' = Append(open, Len(file) + 1)
         /\ ~l.opens => open' = IF l = Close /\ open # <<>> THEN Front(open) ELSE open
         /\ menu' = menu
<1> DEFINE x == [in |-> Within, words |-> l.words, opens |-> l.opens]
<1>1. /\ file' = Append(file, x)
      /\ l.opens => open' = Append(open, Len(file) + 1)
      /\ ~l.opens => open' = IF l = Close /\ open # <<>> THEN Front(open) ELSE open
      /\ menu' = menu
  BY DEF Write
<1>2. x.in = Within /\ x.words = l.words /\ x.opens = l.opens
  OBVIOUS
<1>3. IsSeq(file) /\ IsSeq(open) /\ Len(file) \in Nat /\ Len(open) \in Nat
  BY IsSeqFacts DEF Layout, Opened
<1> HIDE DEF x
<1>4. /\ IsSeq(file') /\ Len(file') = Len(file) + 1
      /\ \A i \in 1..Len(file) : file'[i] = file[i]
      /\ file'[Len(file) + 1] = x
  BY <1>1, <1>3, AppendFacts
<1>5. ASSUME NEW i \in 1..Len(file')
      PROVE  /\ file'[i].in \in 0 .. i - 1
             /\ IsSeq(file'[i].words) /\ file'[i].opens \in BOOLEAN
  <2>1. CASE i \in 1..Len(file)
    BY <1>4, <2>1 DEF Layout, Opened
  <2>2. CASE i = Len(file) + 1
    BY <1>2, <1>3, <1>4, <2>2, WithinIsLine DEF IsLine
  <2> QED BY <1>3, <1>4, <2>1, <2>2
<1>6. IsSeq(open') /\ \A j \in 1..Len(open') : open'[j] \in 1..Len(file')
  <2>1. CASE l.opens
    <3>1. /\ IsSeq(open') /\ Len(open') = Len(open) + 1
          /\ \A j \in 1..Len(open) : open'[j] = open[j]
          /\ open'[Len(open) + 1] = Len(file) + 1
      <4>1. PICK n : n = Len(file) + 1
        OBVIOUS
      <4>2. /\ IsSeq(Append(open, n)) /\ Len(Append(open, n)) = Len(open) + 1
            /\ \A j \in 1..Len(open) : Append(open, n)[j] = open[j]
            /\ Append(open, n)[Len(open) + 1] = n
        BY <1>3, AppendFacts
      <4>3. open' = Append(open, n)
        BY <1>1, <2>1, <4>1
      <4> QED BY <4>1, <4>2, <4>3
    <3>2. \A j \in 1 .. Len(open) + 1 : j \in 1..Len(open) \/ j = Len(open) + 1
      BY <1>3
    <3>3. \A j \in 1..Len(open) : open[j] \in 1 .. Len(file) + 1
      BY <1>3 DEF Layout
    <3> QED BY <1>3, <1>4, <3>1, <3>2, <3>3
  <2>2. CASE ~l.opens /\ l = Close /\ open # <<>>
    <3>1. open' = Front(open) /\ Len(open) >= 1
      BY <1>1, <1>3, <2>2, WithinIsLine
    <3>2. /\ IsSeq(open') /\ Len(open') = Len(open) - 1
          /\ \A j \in 1 .. Len(open) - 1 : open'[j] = open[j]
      BY <1>3, <3>1, FrontFacts
    <3>3. \A j \in 1 .. Len(open) - 1 : open[j] \in 1 .. Len(file) + 1
      BY <1>3 DEF Layout
    <3> QED BY <1>4, <3>2, <3>3
  <2>3. CASE ~l.opens /\ ~(l = Close /\ open # <<>>)
    <3>1. open' = open
      BY <1>1, <2>3
    <3>2. \A j \in 1..Len(open) : open[j] \in 1 .. Len(file) + 1
      BY <1>3 DEF Layout
    <3> QED BY <1>3, <1>4, <3>1, <3>2
  <2> QED BY <2>1, <2>2, <2>3
<1>7. Layout'
  BY <1>4, <1>5, <1>6 DEF Layout, Opened
<1> QED BY <1>1, <1>3, <1>4, <1>7 DEF x

LEMMA KindsLine ==
  ASSUME NEW fl, Opened(fl)
  PROVE  /\ Kinds(fl)[0] = "site" /\ Len(fl) \in Nat
         /\ \A i \in 0..Len(fl) : Kinds(fl)[i] = KindStep(fl, Kinds(fl), i)
<1>0. Len(fl) \in Nat
  BY DEF Opened, IsSeq
<1>1. PICK k : k = Kinds(fl)
  OBVIOUS
<1>2. k = [i \in 0..Len(fl) |-> KindStep(fl, k, i)]
  BY <1>1, KindsExist
<1>3. \A i \in 0..Len(fl) : k[i] = KindStep(fl, k, i)
  BY <1>2
<1>4. k[0] = "site"
  BY <1>0, <1>3 DEF KindStep
<1> QED BY <1>0, <1>1, <1>3, <1>4

\* The lines before stay what they are, and the new one is of a kind that
\* depends on its block alone.
LEMMA WriteKinds ==
  ASSUME Layout, NEW l, IsLine(l), Write(l)
  PROVE  /\ \A i \in 0..Len(file) : KindOf'[i] = KindOf[i]
         /\ KindOf[Within] \in {"schema", "statements"} =>
              KindOf'[Len(file) + 1] = "statements"
         /\ KindOf[Within] \in DOMAIN Grammar /\ l.words # <<>> =>
              KindOf'[Len(file) + 1] = Kind(KindOf[Within], l.words)
         /\ l.words = <<>> => KindOf'[Len(file) + 1] \in {"statements", "unknown"}
<1>1. /\ Opened(file) /\ Opened(file') /\ Len(file) <= Len(file')
      /\ \A i \in 1..Len(file) : file'[i] = file[i]
      /\ Len(file') = Len(file) + 1 /\ Len(file) \in Nat
      /\ file'[Len(file) + 1] = [in |-> Within, words |-> l.words, opens |-> l.opens]
  <2>1. /\ Layout' /\ Len(file) \in Nat /\ Len(file') = Len(file) + 1
        /\ \A i \in 1..Len(file) : file'[i] = file[i]
        /\ file'[Len(file) + 1] = [in |-> Within, words |-> l.words, opens |-> l.opens]
    BY WriteFacts
  <2> QED BY <2>1 DEF Layout
<1>2. \A i \in 0..Len(file) : KindOf'[i] = KindOf[i]
  BY <1>1, KindsKept, KindOfFile
<1>3. Within \in 0..Len(file)
  BY WithinIsLine
<1>4. KindOf'[Len(file) + 1] = KindStep(file', KindOf', Len(file) + 1)
  <2>1. Len(file) + 1 \in 0..Len(file')
    BY <1>1
  <2> QED BY <1>1, <2>1, KindsLine, KindOfFile
<1>5. /\ file'[Len(file) + 1].in = Within /\ file'[Len(file) + 1].words = l.words
      /\ KindOf'[Within] = KindOf[Within] /\ Len(file) + 1 # 0
  BY <1>1, <1>2, <1>3
<1>6. "schema" \notin DOMAIN Grammar /\ "statements" \notin DOMAIN Grammar
  BY BlocksAre
<1> QED BY <1>2, <1>4, <1>5, <1>6 DEF KindStep, IsClose

LEMMA WriteRegular ==
  ASSUME Layout, NEW l, IsLine(l), Write(l), AllRegular'
  PROVE  AllRegular
<1>1. /\ Len(file) \in Nat /\ Len(file') = Len(file) + 1
      /\ \A i \in 1..Len(file) : file'[i] = file[i]
      /\ IsSeq(file) /\ IsSeq(file')
  <2>1. Layout'
    BY WriteFacts
  <2> QED BY <2>1, WriteFacts DEF Layout, Opened
<1>2. \A i \in 0..Len(file) : KindOf'[i] = KindOf[i]
  BY WriteKinds
<1>3. DOMAIN file = 1..Len(file) /\ DOMAIN file' = 1..Len(file')
  BY <1>1, IsSeqFacts
<1>4. ASSUME NEW i \in DOMAIN file PROVE Regular(i)
  <2>1. file'[i] = file[i] /\ KindOf'[i] = KindOf[i] /\ i \in DOMAIN file'
    BY <1>1, <1>2, <1>3
  <2>2. Regular(i)'
    BY <2>1 DEF AllRegular
  <2> QED BY <2>1, <2>2 DEF Regular
<1> QED BY <1>4 DEF AllRegular

-----------------------------------------------------------------------------
(* The parser is in the block that the author is in.                       *)

Framed(s) ==
  /\ IsSeq(s) /\ Len(s) >= 1
  /\ \A i \in 1..Len(s) : s[i] = Frame(s[i].kind, s[i].fields)
  /\ s[1].kind = "site"
  /\ \A i \in 2..Len(s) : s[i].kind \in Blocks

\* The parser's blocks are the author's, but for those within a schema.
Aligned ==
  /\ Len(open) >= Len(stack) - 1
  /\ \A j \in 1 .. Len(stack) - 1 : stack[j + 1].kind = KindOf[open[j]]

\* No line is under way.
Rested ==
  rest = <<>> =>
    /\ ~brace
    /\ Nested => Top.kind = "schema"
    /\ \A j \in Len(stack)..Len(open) : KindOf[open[j]] = "statements"

\* The last line is, and nothing of it is read yet.
Reading ==
  rest # <<>> =>
    /\ Len(file) >= 1
    /\ rest = file[Len(file)].words /\ brace = file[Len(file)].opens
    /\ KindOf[file[Len(file)].in] = Top.kind /\ Top.kind # "schema"
    /\ Len(open) = IF brace THEN Len(stack) ELSE Len(stack) - 1
    /\ brace => open[Len(stack)] = Len(file)

InStep == Framed(stack) /\ Aligned /\ Rested /\ Reading

LEMMA InnermostKind ==
  ASSUME Layout, InStep, rest = <<>>
  PROVE  KindOf[Within] = IF Nested THEN "statements" ELSE Top.kind
<1>1. /\ Len(stack) \in Nat /\ Len(stack) >= 1 /\ Len(open) \in Nat
      /\ Top = stack[Len(stack)]
  BY IsSeqFacts DEF InStep, Framed, Layout, Top, Last
<1>2. CASE Nested
  <2>1. Len(open) \in Len(stack)..Len(open) /\ open # <<>>
    BY <1>1, <1>2, EmptyIsSeq DEF Nested
  <2>2. Within = open[Len(open)]
    BY <2>1, WithinIsLine
  <2> QED BY <1>2, <2>1, <2>2 DEF InStep, Rested
<1>3. CASE ~Nested
  <2>1. Len(open) = Len(stack) - 1
    BY <1>1, <1>3 DEF Nested, InStep, Aligned
  <2>2. CASE Len(stack) = 1
    <3>1. open = <<>>
      BY <1>1, <2>1, <2>2, EmptySeq, IsSeqFacts DEF Layout
    <3>2. Within = 0 /\ KindOf[0] = "site"
      BY <3>1, WithinIsLine, KindsLine, KindOfFile DEF Layout
    <3> QED BY <1>1, <1>3, <2>2, <3>2 DEF InStep, Framed
  <2>3. CASE Len(stack) # 1
    <3>1. Len(open) \in 1 .. Len(stack) - 1 /\ open # <<>> /\ Len(open) + 1 = Len(stack)
      BY <1>1, <2>1, <2>3, EmptyIsSeq
    <3>2. Within = open[Len(open)]
      BY <3>1, WithinIsLine
    <3> QED BY <1>1, <1>3, <3>1, <3>2 DEF InStep, Aligned
  <2> QED BY <2>2, <2>3
<1> QED BY <1>2, <1>3

\* Of the blocks s the one at n gets the fields f.
Refilled(t, s, n, f) == t = [s EXCEPT ![n].fields = f]

LEMMA FramedExcept ==
  ASSUME NEW s, Framed(s), NEW n \in 1..Len(s), NEW f,
         NEW t, Refilled(t, s, n, f)
  PROVE  /\ Framed(t) /\ Len(t) = Len(s)
         /\ \A i \in 1..Len(s) : t[i].kind = s[i].kind /\ (i # n => t[i] = s[i])
         /\ t[n].fields = f
<1>1. DOMAIN s = 1..Len(s) /\ Len(s) \in Nat
  BY IsSeqFacts DEF Framed
<1>2. /\ DOMAIN t = DOMAIN s
      /\ t[n] = Frame(s[n].kind, f)
      /\ \A i \in DOMAIN s : i # n => t[i] = s[i]
  BY <1>1 DEF Framed, Frame, Refilled
<1>3. Len(t) = Len(s) /\ IsSeq(t)
  <2>1. t = [i \in 1..Len(s) |-> t[i]]
    BY <1>1 DEF Refilled
  <2> QED BY <1>1, <2>1, FunctionIsSeq
<1>4. \A i \in 1..Len(s) :
        /\ t[i].kind = s[i].kind
        /\ t[i] = Frame(t[i].kind, t[i].fields)
  BY <1>1, <1>2 DEF Framed, Frame
<1>5. 1 \in 1..Len(s) /\ \A i \in 2..Len(s) : i \in 1..Len(s)
  BY <1>1 DEF Framed
<1>6. Framed(t)
  BY <1>3, <1>4, <1>5 DEF Framed
<1> QED BY <1>1, <1>2, <1>3, <1>4, <1>6 DEF Frame

LEMMA StackFacts ==
  ASSUME InStep, Layout
  PROVE  /\ Len(stack) \in Nat /\ Len(stack) \in 1..Len(stack) /\ IsSeq(stack)
         /\ Top = stack[Len(stack)] /\ Top.kind \in {"site"} \cup Blocks
         /\ Len(open) \in Nat /\ Len(file) \in Nat /\ IsSeq(open)
         /\ \A j \in 1..Len(open) : open[j] \in 0..Len(file)
<1>1. Len(stack) \in Nat /\ Len(stack) >= 1
  BY IsSeqFacts DEF InStep, Framed
<1>2. Len(open) \in Nat /\ Len(file) \in Nat
  BY IsSeqFacts DEF Layout, Opened
<1>3. \A j \in 1..Len(open) : open[j] \in 0..Len(file)
  BY <1>2 DEF Layout
<1>4. Top = stack[Len(stack)]
  BY DEF Top, Last
<1>5. Len(stack) = 1 \/ Len(stack) \in 2..Len(stack)
  <2>1. \A n \in Nat : n >= 1 => n = 1 \/ n \in 2..n
    OBVIOUS
  <2> QED BY <1>1, <2>1
<1> QED BY <1>1, <1>2, <1>3, <1>4, <1>5 DEF InStep, Framed, Layout

\* The innermost block gets other fields.
LEMMA RefilledStack ==
  ASSUME Layout, InStep, NEW f, Refilled(stack', stack, Len(stack), f)
  PROVE  /\ Framed(stack') /\ Len(stack') = Len(stack) /\ Top' = Frame(Top.kind, f)
         /\ \A i \in 1..Len(stack) : stack'[i].kind = stack[i].kind
         /\ \A i \in 1 .. Len(stack) - 1 : stack'[i] = stack[i]
<1>1. /\ Len(stack) \in Nat /\ Len(stack) \in 1..Len(stack)
      /\ Top = stack[Len(stack)]
  BY StackFacts
<1>2. PICK s, t, n : s = stack /\ t = stack' /\ n = Len(stack)
  OBVIOUS
<1>3. Framed(s) /\ n \in 1..Len(s) /\ Refilled(t, s, n, f)
  BY <1>1, <1>2 DEF InStep
<1>4. /\ Framed(t) /\ Len(t) = Len(s)
      /\ \A i \in 1..Len(s) : t[i].kind = s[i].kind /\ (i # n => t[i] = s[i])
      /\ t[n].fields = f
  BY <1>3, FramedExcept
<1>5. t[n] = Frame(t[n].kind, t[n].fields)
  BY <1>3, <1>4 DEF Framed
<1>6. Top' = t[n] /\ Top = s[n]
  BY <1>1, <1>2, <1>4 DEF Top, Last
<1>7. Top' = Frame(Top.kind, f)
  BY <1>3, <1>4, <1>5, <1>6
<1>8. \A i \in 1 .. n - 1 : i \in 1..n /\ i # n
  BY <1>1, <1>2
<1> QED BY <1>2, <1>4, <1>7, <1>8

\* The innermost block ends, and the one around it gets what it had.
LEMMA ClosedStack ==
  ASSUME Layout, InStep, CloseBlock, NEW n, n = Len(stack) - 1
  PROVE  /\ n \in Nat /\ n >= 1 /\ Framed(stack') /\ Len(stack') = n
         /\ \A i \in 1..n : stack'[i].kind = stack[i].kind /\ (i # n => stack'[i] = stack[i])
         /\ stack'[n].fields = Ended(stack[n].fields, Top.kind, Top.fields)
<1>1. /\ Len(stack) > 1 /\ Len(stack) \in Nat /\ IsSeq(stack)
  BY StackFacts DEF CloseBlock
<1>2. n \in Nat /\ n >= 1 /\ Len(stack) = n + 1
  BY <1>1
<1>3. PICK s : s = Front(stack)
  OBVIOUS
<1>4. Len(s) = n /\ IsSeq(s) /\ \A i \in 1..n : s[i] = stack[i]
  <2>1. Len(stack) >= 1
    BY <1>1
  <2> QED BY <1>1, <1>3, <2>1, FrontFacts
<1>5. /\ \A i \in 1..n : i \in 1..Len(stack)
      /\ \A i \in 2..n : i \in 2..Len(stack) /\ i \in 1..n
      /\ 1 \in 1..n /\ n \in 1..n
  BY <1>2
<1>6. Framed(s)
  BY <1>2, <1>4, <1>5 DEF InStep, Framed
<1>7. PICK f, t : /\ f = Ended(s[n].fields, Top.kind, Top.fields) /\ t = stack'
                  /\ Refilled(t, s, n, f)
  BY <1>3 DEF CloseBlock, Refilled
<1>8. /\ Framed(t) /\ Len(t) = Len(s)
      /\ \A i \in 1..Len(s) : t[i].kind = s[i].kind /\ (i # n => t[i] = s[i])
      /\ t[n].fields = f
  <2>1. n \in 1..Len(s)
    BY <1>4, <1>5
  <2> QED BY <1>6, <1>7, <2>1, FramedExcept
<1> QED BY <1>2, <1>4, <1>5, <1>7, <1>8

LEMMA DirectivesInStep ==
  ASSUME Layout, InStep, NEW l, IsLine(l), ReadDirectives(l)
  PROVE  InStep'
<1>1. /\ Top.kind # "schema" /\ l # Close /\ Write(l) /\ rest = <<>> /\ ~brace
      /\ rest' = l.words /\ brace' = l.opens /\ stack' = stack
  BY DEF ReadDirectives, Write, Idle
<1>2. l.words # <<>> /\ l.opens \in BOOLEAN
  BY <1>1 DEF IsLine
<1>3. /\ Len(stack) \in Nat /\ Len(stack) >= 1 /\ Len(open) \in Nat
      /\ \A j \in 1..Len(open) : open[j] \in 0..Len(file)
  BY StackFacts
<1>4. ~Nested /\ Len(open) = Len(stack) - 1
  BY <1>1, <1>3 DEF InStep, Rested, Nested, Aligned
<1>5. KindOf[Within] = Top.kind
  BY <1>1, <1>4, InnermostKind
<1>6. /\ Len(file) \in Nat /\ Len(file') = Len(file) + 1
      /\ file'[Len(file) + 1] = [in |-> Within, words |-> l.words, opens |-> l.opens]
      /\ l.opens => open' = Append(open, Len(file) + 1)
      /\ ~l.opens => open' = open
  BY <1>1, WriteFacts
<1>7. /\ \A i \in 0..Len(file) : KindOf'[i] = KindOf[i]
      /\ Within \in 0..Len(file)
  BY <1>1, WriteKinds, WithinIsLine
<1>8. /\ Len(open') = IF l.opens THEN Len(stack) ELSE Len(stack) - 1
      /\ \A j \in 1 .. Len(stack) - 1 : open'[j] = open[j]
      /\ l.opens => open'[Len(stack)] = Len(file) + 1
  <2>1. CASE l.opens
    <3>1. PICK n : n = Len(file) + 1
      OBVIOUS
    <3>2. /\ Len(Append(open, n)) = Len(open) + 1
          /\ \A j \in 1..Len(open) : Append(open, n)[j] = open[j]
          /\ Append(open, n)[Len(open) + 1] = n
      BY StackFacts, AppendFacts
    <3>3. open' = Append(open, n) /\ Len(open) + 1 = Len(stack)
      BY <1>3, <1>4, <1>6, <2>1, <3>1
    <3> QED BY <1>4, <2>1, <3>1, <3>2, <3>3
  <2>2. CASE ~l.opens
    BY <1>4, <1>6, <2>2
  <2> QED BY <2>1, <2>2
<1>9. Aligned'
  <2>1. Len(open') >= Len(stack) - 1
    BY <1>3, <1>8
  <2>2. \A j \in 1 .. Len(stack) - 1 : stack[j + 1].kind = KindOf'[open'[j]]
    BY <1>3, <1>4, <1>7, <1>8 DEF InStep, Aligned
  <2> QED BY <1>1, <2>1, <2>2 DEF Aligned
<1>10. Reading'
  <2>1. Top' = Top /\ Len(file') >= 1
    BY <1>1, <1>6 DEF Top
  <2>2. /\ file'[Len(file')].words = l.words /\ file'[Len(file')].opens = l.opens
        /\ file'[Len(file')].in = Within
    BY <1>6
  <2>3. KindOf'[file'[Len(file')].in] = Top.kind
    BY <1>5, <1>7, <2>2
  <2> QED BY <1>1, <1>6, <1>8, <2>1, <2>2, <2>3 DEF Reading
<1> QED BY <1>1, <1>2, <1>9, <1>10 DEF InStep, Rested

LEMMA SchemaInStep ==
  ASSUME Layout, InStep, NEW l, IsLine(l), ReadSchema(l)
  PROVE  InStep'
<1>1. /\ Top.kind = "schema" /\ (l # Close \/ Nested) /\ Write(l) /\ rest = <<>> /\ ~brace
      /\ rest' = rest /\ brace' = brace
  BY DEF ReadSchema, Write, Idle
<1>2. PICK f : Refilled(stack', stack, Len(stack), f)
  BY DEF ReadSchema, Refilled
<1>3. /\ Len(stack) \in Nat /\ Len(stack) \in 1..Len(stack) /\ Len(open) \in Nat
      /\ \A j \in 1..Len(open) : open[j] \in 0..Len(file)
      /\ Top = stack[Len(stack)]
  BY StackFacts
<1>4. /\ Framed(stack') /\ Len(stack') = Len(stack)
      /\ \A i \in 1..Len(stack) : stack'[i].kind = stack[i].kind
  BY <1>2, RefilledStack
<1>5. Top'.kind = "schema"
  BY <1>1, <1>3, <1>4 DEF Top, Last
<1>6. KindOf[Within] \in {"schema", "statements"}
  BY <1>1, InnermostKind
<1>7. /\ \A i \in 0..Len(file) : KindOf'[i] = KindOf[i]
      /\ KindOf'[Len(file) + 1] = "statements"
  BY <1>1, <1>6, WriteKinds
<1>8. /\ Len(open) >= Len(stack) - 1
      /\ \A j \in 1 .. Len(stack) - 1 : stack[j + 1].kind = KindOf[open[j]]
      /\ \A j \in Len(stack)..Len(open) : KindOf[open[j]] = "statements"
  BY <1>1 DEF InStep, Aligned, Rested
<1>9. /\ Len(open') \in Nat /\ Len(open') >= Len(stack) - 1
      /\ \A j \in 1..Len(open') :
           \/ j \in 1..Len(open) /\ open'[j] = open[j]
           \/ j \notin 1 .. Len(stack) - 1 /\ open'[j] = Len(file) + 1
  <2>1. CASE l.opens
    <3>1. PICK n : n = Len(file) + 1
      OBVIOUS
    <3>2. /\ Len(Append(open, n)) = Len(open) + 1
          /\ \A j \in 1..Len(open) : Append(open, n)[j] = open[j]
          /\ Append(open, n)[Len(open) + 1] = n
      BY StackFacts, AppendFacts
    <3>3. open' = Append(open, n)
      BY <1>1, <2>1, <3>1, WriteFacts
    <3>4. \A j \in 1 .. Len(open) + 1 : j \in 1..Len(open) \/ j = Len(open) + 1
      BY <1>3
    <3>5. Len(open) + 1 \notin 1 .. Len(stack) - 1 /\ Len(open) + 1 >= Len(stack) - 1
      BY <1>3, <1>8
    <3> QED BY <1>3, <3>1, <3>2, <3>3, <3>4, <3>5
  <2>2. CASE ~l.opens /\ l = Close /\ open # <<>>
    <3>1. Len(open) >= Len(stack)
      BY <1>1, <2>2 DEF Nested
    <3>2. open' = Front(open) /\ Len(open) >= 1
      <4>1. open' = Front(open)
        BY <1>1, <2>2, WriteFacts
      <4>2. Len(open) >= 1
        BY <1>3, <3>1
      <4> QED BY <4>1, <4>2
    <3>3. /\ Len(Front(open)) = Len(open) - 1
          /\ \A j \in 1 .. Len(open) - 1 : Front(open)[j] = open[j]
      BY <3>2, StackFacts, FrontFacts
    <3>4. \A j \in 1 .. Len(open) - 1 : j \in 1..Len(open)
      BY <1>3
    <3> QED BY <1>3, <3>1, <3>2, <3>3, <3>4
  <2>3. CASE ~l.opens /\ ~(l = Close /\ open # <<>>)
    <3>1. open' = open
      BY <1>1, <2>3, WriteFacts
    <3> QED BY <1>3, <1>8, <3>1
  <2> QED BY <2>1, <2>2, <2>3
<1>10. Aligned'
  <2>1. ASSUME NEW j \in 1 .. Len(stack) - 1
        PROVE  stack'[j + 1].kind = KindOf'[open'[j]]
    <3>1. j \in 1..Len(open') /\ j + 1 \in 1..Len(stack)
      BY <1>3, <1>9
    <3>2. j \in 1..Len(open) /\ open'[j] = open[j]
      BY <1>9, <3>1
    <3> QED BY <1>3, <1>4, <1>7, <1>8, <3>1, <3>2
  <2> QED BY <1>4, <1>9, <2>1 DEF Aligned
<1>11. \A j \in Len(stack)..Len(open') : KindOf'[open'[j]] = "statements"
  <2> SUFFICES ASSUME NEW j \in Len(stack)..Len(open')
               PROVE  KindOf'[open'[j]] = "statements"
    OBVIOUS
  <2>1. j \in 1..Len(open')
    BY <1>3, <1>9
  <2>2. CASE j \in 1..Len(open) /\ open'[j] = open[j]
    <3>1. j \in Len(stack)..Len(open)
      BY <1>3, <1>9, <2>2
    <3> QED BY <1>3, <1>7, <1>8, <2>2, <3>1
  <2>3. CASE open'[j] = Len(file) + 1
    BY <1>7, <2>3
  <2> QED BY <1>9, <2>1, <2>2, <2>3
<1>12. Rested' /\ Reading'
  BY <1>1, <1>4, <1>5, <1>11 DEF Rested, Reading
<1> QED BY <1>4, <1>10, <1>12 DEF InStep

LEMMA CloseInStep ==
  ASSUME Layout, InStep, CloseBlock
  PROVE  InStep'
<1>0. PICK n : n = Len(stack) - 1
  OBVIOUS
<1>1. /\ Len(stack) > 1 /\ ~Nested /\ Write(Close) /\ rest = <<>> /\ ~brace
      /\ rest' = rest /\ brace' = brace
  BY DEF CloseBlock, Write, Idle
<1>2. /\ Len(stack) \in Nat /\ IsSeq(stack) /\ Len(open) \in Nat /\ IsSeq(open)
      /\ \A j \in 1..Len(open) : open[j] \in 0..Len(file)
  BY StackFacts
<1>3. IsLine(Close) /\ Close.opens = FALSE
  BY EmptyIsSeq DEF IsLine, Close
<1>4. Len(open) = n /\ n \in Nat /\ n >= 1 /\ n = Len(stack) - 1
  BY <1>0, <1>1, <1>2 DEF Nested, InStep, Aligned
<1>5. /\ Framed(stack') /\ Len(stack') = n
      /\ \A i \in 1..n : stack'[i].kind = stack[i].kind
  BY <1>0, ClosedStack
<1>6. /\ open' = Front(open)
      /\ \A i \in 0..Len(file) : KindOf'[i] = KindOf[i]
  <2>1. open # <<>>
    BY <1>4, EmptyIsSeq
  <2> QED BY <1>1, <1>3, <2>1, WriteFacts, WriteKinds
<1>7. /\ Len(open') = n - 1
      /\ \A j \in 1 .. n - 1 : open'[j] = open[j]
  <2>1. Len(open) >= 1
    BY <1>4
  <2> QED BY <1>2, <1>4, <1>6, <2>1, FrontFacts
<1>8. Aligned'
  <2>1. ASSUME NEW j \in 1 .. n - 1 PROVE stack'[j + 1].kind = KindOf'[open'[j]]
    <3>1. j \in 1 .. Len(stack) - 1 /\ j + 1 \in 1..n /\ j \in 1..Len(open)
      BY <1>2, <1>4
    <3>2. stack[j + 1].kind = KindOf[open[j]]
      BY <3>1 DEF InStep, Aligned
    <3> QED BY <1>2, <1>5, <1>6, <1>7, <3>1, <3>2
  <2> QED BY <1>4, <1>5, <1>7, <2>1 DEF Aligned
<1>9. Rested' /\ Reading'
  <2>1. ~Nested' /\ \A j \in n .. n - 1 : FALSE
    BY <1>4, <1>5, <1>7 DEF Nested
  <2> QED BY <1>1, <1>5, <1>7, <2>1 DEF Rested, Reading
<1> QED BY <1>5, <1>8, <1>9 DEF InStep

-----------------------------------------------------------------------------
(* A line is read.                                                         *)

LEMMA TailFacts ==
  ASSUME NEW s, IsSeq(s), s # <<>>
  PROVE  /\ IsSeq(Tail(s)) /\ Len(Tail(s)) = Len(s) - 1
         /\ \A i \in 1 .. Len(s) - 1 : Tail(s)[i] = s[i + 1]
         /\ Head(s) = s[1]
<1>1. PICK S : S = ToSet(s)
  OBVIOUS
<1>2. s \in Seq(S)
  BY <1>1, IsSeqFacts
<1>3. /\ Tail(s) \in Seq(S) /\ Len(Tail(s)) = Len(s) - 1
      /\ \A i \in 1..Len(Tail(s)) : Tail(s)[i] = s[i + 1]
  BY <1>2, HeadTailProperties
<1>4. Head(s) = s[1]
  BY <1>2
<1>5. IsSeq(Tail(s))
  BY <1>3, SeqIsSeq
<1> QED BY <1>3, <1>4, <1>5

\* An accepted directive takes no more arguments than there are.
LEMMA ArgsFacts ==
  ASSUME NEW kind, NEW words, IsSeq(words), Accepted(kind, words)
  PROVE  /\ IsSeq(Args(kind, words)) /\ Len(Args(kind, words)) \in Nat
         /\ Len(Args(kind, words)) < Len(words)
         /\ \A i \in 1..Len(Args(kind, words)) : Args(kind, words)[i] = words[i + 1]
<1>1. Len(words) \in Nat
  BY IsSeqFacts
<1>2. Required(kind) \in Nat
  <2>1. CASE kind \in Blocks
    <3>1. Heads[kind] \in {<<>>, <<"name">>, <<"method", "path", "query">>}
      BY <2>1, BlocksAre DEF Heads
    <3>2. Len(Heads[kind]) \in Nat
      BY <3>1
    <3> QED BY <2>1, <3>2, BlocksAre DEF Required
  <2>2. CASE kind \notin Blocks
    BY <2>2 DEF Required
  <2> QED BY <2>1, <2>2
<1>3. Len(words) > Required(kind)
  BY DEF Accepted
<1>4. PICK n : n = Len(words) - 1
  OBVIOUS
<1>5. Taken(kind, n) \in 0..n
  BY <1>1, <1>2, <1>3, <1>4 DEF Taken
<1>6. PICK m : m = 1 + Taken(kind, n)
  OBVIOUS
<1>7. m \in Int /\ m <= Len(words) /\ 2 <= m + 1 /\ m - 2 + 1 \in Nat
  BY <1>1, <1>4, <1>5, <1>6
<1>8. /\ IsSeq(SubSeq(words, 2, m)) /\ Len(SubSeq(words, 2, m)) = m - 2 + 1
      /\ \A i \in 1 .. m - 2 + 1 : SubSeq(words, 2, m)[i] = words[2 + i - 1]
  BY <1>7, SubSeqFacts
<1>9. Args(kind, words) = SubSeq(words, 2, m)
  BY <1>4, <1>6 DEF Args
<1>10. m - 2 + 1 < Len(words) /\ \A i \in 1 .. m - 2 + 1 : 2 + i - 1 = i + 1
  BY <1>1, <1>7
<1> QED BY <1>7, <1>8, <1>9, <1>10

\* The parser takes the line for what the author meant it to be.
LEMMA LineKind ==
  ASSUME Layout, InStep, rest # <<>>
  PROVE  /\ Len(file) \in 1..Len(file) /\ ~IsClose(file[Len(file)])
         /\ rest = file[Len(file)].words /\ IsSeq(rest)
         /\ Top.kind \in DOMAIN Grammar /\ KindOf[file[Len(file)].in] = Top.kind
         /\ KindOf[Len(file)] = Kind(Top.kind, rest)
         /\ KindOf[Len(file)] = "auth" <=> Top.kind = "site" /\ Head(rest) = "auth"
         /\ Kind(Block, Words) # "statements"
<1>1. /\ Len(file) >= 1 /\ rest = file[Len(file)].words
      /\ KindOf[file[Len(file)].in] = Top.kind /\ Top.kind # "schema"
  BY DEF InStep, Reading
<1>2. Len(file) \in 1..Len(file) /\ Len(file) \in 0..Len(file) /\ Len(file) # 0
  BY <1>1, StackFacts
<1>3. Top.kind \in DOMAIN Grammar /\ Top.kind # "statements"
  BY <1>1, StackFacts, BlocksAre
<1>4. ~IsClose(file[Len(file)]) /\ IsSeq(rest)
  BY <1>1, <1>2 DEF IsClose, Layout
<1>5. KindOf[Len(file)] = Kind(Top.kind, rest)
  <2>1. KindOf[Len(file)] = KindStep(file, KindOf, Len(file))
    BY <1>2, KindsLine, KindOfFile DEF Layout
  <2> QED BY <1>1, <1>2, <1>3, <1>4, <2>1 DEF KindStep
<1>6. Kind(Top.kind, rest) = "auth" <=> Top.kind = "site" /\ Head(rest) = "auth"
  <2>1. CASE Head(rest) \in DOMAIN Grammar[Top.kind]
    BY <1>3, <2>1, GrammarKinds DEF Kind
  <2>2. CASE Head(rest) \notin DOMAIN Grammar[Top.kind]
    <3>1. "auth" \in DOMAIN Grammar["site"]
      BY DEF Grammar, SiteBlock
    <3> QED BY <2>2, <3>1 DEF Kind
  <2> QED BY <2>1, <2>2
<1>7. Block \in DOMAIN Grammar
  BY <1>3, BlocksAre DEF Block
<1>8. Kind(Block, Words) # "statements"
  <2>1. PICK h : h = Head(Words)
    OBVIOUS
  <2>2. Kind(Block, Words) = IF h \in DOMAIN Grammar[Block] THEN Grammar[Block][h] ELSE "unknown"
    BY <2>1 DEF Kind
  <2>3. h \in DOMAIN Grammar[Block] => Grammar[Block][h] # "statements"
    <3>1. PICK b : b = Block
      OBVIOUS
    <3>2. b \in DOMAIN Grammar
      BY <1>7, <3>1
    <3>3. h \in DOMAIN Grammar[b] => Grammar[b][h] # "statements"
      BY <3>2, GrammarKinds
    <3> QED BY <3>1, <3>3
  <2> QED BY <2>2, <2>3
<1> QED BY <1>1, <1>2, <1>3, <1>4, <1>5, <1>6, <1>8

\* A line as its directive wants it is accepted, to its last word.
LEMMA LineRegular ==
  ASSUME Layout, InStep, AllRegular, rest # <<>>
  PROVE  /\ IsSeq(Words) /\ Words # <<>>
         /\ Accepted(Kind(Block, Words), Words)
         /\ Len(Words) = 1 + Len(Args(Kind(Block, Words), Words))
         /\ brace => Kind(Block, Words) \in Blocks
         /\ Kind(Block, Words) \in Blocks => ~InlineAuth
<1>1. /\ Len(file) \in 1..Len(file) /\ ~IsClose(file[Len(file)])
      /\ rest = file[Len(file)].words /\ IsSeq(rest)
      /\ KindOf[Len(file)] = Kind(Top.kind, rest)
      /\ KindOf[Len(file)] = "auth" <=> Top.kind = "site" /\ Head(rest) = "auth"
      /\ Kind(Block, Words) # "statements"
  BY LineKind
<1>2. brace = file[Len(file)].opens
  BY DEF InStep, Reading
<1>3. IsSeq(Words) /\ Words # <<>>
  <2>1. CASE InlineAuth
    <3>1. IsSeq(Tail(rest)) /\ Len(Tail(rest)) = Len(rest) - 1
      BY <1>1, TailFacts
    <3>2. Len(rest) > 1 /\ Len(rest) \in Nat
      BY <1>1, <2>1, IsSeqFacts DEF InlineAuth
    <3>3. Len(Tail(rest)) # 0
      BY <3>1, <3>2
    <3> QED BY <2>1, <3>1, <3>3, EmptyIsSeq DEF Words
  <2>2. CASE ~InlineAuth
    BY <1>1, <2>2 DEF Words
  <2> QED BY <2>1, <2>2
<1>4. Regular(Len(file))
  <2>1. DOMAIN file = 1..Len(file)
    BY IsSeqFacts DEF Layout, Opened
  <2> QED BY <1>1, <2>1 DEF AllRegular
<1>5. InlineAuth <=> KindOf[Len(file)] = "auth" /\ Len(file[Len(file)].words) > 1
  BY <1>1 DEF InlineAuth
<1>6. /\ Words = IF InlineAuth THEN Tail(file[Len(file)].words) ELSE file[Len(file)].words
      /\ Kind(Block, Words) = IF InlineAuth THEN Kind("auth", Words) ELSE KindOf[Len(file)]
  BY <1>1 DEF Words, Block
<1>7. /\ Accepted(Kind(Block, Words), Words)
      /\ Len(Words) = 1 + Len(Args(Kind(Block, Words), Words))
      /\ brace => Kind(Block, Words) \in Blocks
  <2>1. PICK w, k : w = Words /\ k = Kind(Block, Words)
    OBVIOUS
  <2>2. /\ w = IF InlineAuth THEN Tail(file[Len(file)].words) ELSE file[Len(file)].words
        /\ k = IF InlineAuth THEN Kind("auth", w) ELSE KindOf[Len(file)]
        /\ k # "statements"
    BY <1>1, <1>6, <2>1
  <2>3. /\ Accepted(k, w)
        /\ Len(w) = 1 + Len(Args(k, w))
        /\ file[Len(file)].opens => k \in Blocks
    BY <1>1, <1>4, <1>5, <2>2 DEF Regular
  <2> QED BY <1>2, <2>1, <2>3
<1>8. Kind(Block, Words) \in Blocks => ~InlineAuth
  <2>1. PICK h : h = Head(Words)
    OBVIOUS
  <2>2. "auth" \in DOMAIN Grammar
    BY BlocksAre
  <2>3. h \in DOMAIN Grammar["auth"] => Grammar["auth"][h] \notin Blocks
    BY <2>2, GrammarKinds
  <2>4. "unknown" \notin Blocks
    BY BlocksAre
  <2> QED BY <1>6, <2>1, <2>3, <2>4 DEF Kind
<1> QED BY <1>3, <1>7, <1>8

LEMMA LineRead ==
  ASSUME Layout, InStep, AllRegular, Directive \/ OpenBlock
  PROVE  /\ rest # <<>> /\ rest' = <<>> /\ file' = file /\ open' = open
         /\ KindOf' = KindOf /\ menu' = menu /\ status' = status
         /\ Kind(Block, Words) \in Blocks <=> OpenBlock
<1>1. /\ rest # <<>> /\ file' = file /\ open' = open /\ menu' = menu /\ status' = status
      /\ Take(Kind(Block, Words))
      /\ Kind(Block, Words) \in Blocks <=> OpenBlock
  BY DEF Directive, OpenBlock
<1>2. rest' = <<>>
  <2>1. PICK w, k : w = Words /\ k = Kind(Block, Words)
    OBVIOUS
  <2>2. IsSeq(w) /\ Accepted(k, w) /\ Len(w) = 1 + Len(Args(k, w))
    BY <1>1, <2>1, LineRegular
  <2>3. Len(Args(k, w)) \in Nat
    BY <2>2, ArgsFacts
  <2>4. PICK m : m = 2 + Len(Args(k, w))
    OBVIOUS
  <2>5. m = Len(w) + 1
    BY <2>2, <2>3, <2>4
  <2>6. SubSeq(w, m, Len(w)) = <<>>
    BY <2>2, <2>5, NothingLeft
  <2> QED BY <1>1, <2>1, <2>4, <2>6 DEF Take
<1>3. KindOf' = KindOf
  BY <1>1, KindOfFile
<1> QED BY <1>1, <1>2, <1>3

\* The line has been read, and changed what the innermost block has.
LEMMA FilledInStep ==
  ASSUME Layout, InStep, rest # <<>>, rest' = <<>>, ~brace, brace' = brace,
         open' = open, KindOf' = KindOf,
         NEW f, Refilled(stack', stack, Len(stack), f)
  PROVE  /\ InStep'
         /\ Len(stack') = Len(stack) /\ Top' = Frame(Top.kind, f)
         /\ \A i \in 1 .. Len(stack) - 1 : stack'[i] = stack[i]
<1>1. /\ Len(stack) \in Nat /\ Len(stack) \in 1..Len(stack) /\ Len(open) \in Nat
  BY StackFacts
<1>2. PICK s, t, n : s = stack /\ t = stack' /\ n = Len(stack)
  OBVIOUS
<1>3. /\ Framed(stack') /\ Len(t) = n /\ Top' = Frame(Top.kind, f)
      /\ \A i \in 1..n : t[i].kind = s[i].kind
      /\ \A i \in 1 .. Len(stack) - 1 : stack'[i] = stack[i]
  BY <1>2, RefilledStack
<1>4. Len(open) = Len(stack) - 1
  BY DEF InStep, Reading
<1>5. Aligned'
  <2>1. ASSUME NEW j \in 1 .. n - 1 PROVE t[j + 1].kind = KindOf[open[j]]
    <3>1. j + 1 \in 1..n
      BY <1>1, <1>2
    <3> QED BY <1>2, <1>3, <3>1 DEF InStep, Aligned
  <2> QED BY <1>1, <1>2, <1>3, <1>4, <2>1 DEF Aligned
<1>6. Rested' /\ Reading'
  <2>1. ~Nested' /\ \A j \in Len(stack')..Len(open') : FALSE
    BY <1>1, <1>2, <1>3, <1>4 DEF Nested
  <2> QED BY <2>1 DEF Rested, Reading
<1> QED BY <1>2, <1>3, <1>5, <1>6 DEF InStep

\* The line has been read, and opened a block.
LEMMA PushedInStep ==
  ASSUME Layout, InStep, rest # <<>>, rest' = <<>>, brace, brace' = FALSE,
         open' = open, KindOf' = KindOf, NEW f, KindOf[Len(file)] \in Blocks,
         stack' = Append(stack, Frame(KindOf[Len(file)], f))
  PROVE  /\ InStep'
         /\ Len(stack') = Len(stack) + 1 /\ Top' = Frame(KindOf[Len(file)], f)
         /\ \A i \in 1..Len(stack) : stack'[i] = stack[i]
<1>1. /\ Len(stack) \in Nat /\ Len(stack) >= 1 /\ Len(open) \in Nat /\ IsSeq(stack)
  BY StackFacts
<1>2. PICK s, t, n, x : s = stack /\ t = stack' /\ n = Len(stack)
                        /\ x = Frame(KindOf[Len(file)], f)
  OBVIOUS
<1>3. IsSeq(s) /\ n = Len(s) /\ n \in Nat /\ n >= 1 /\ t = Append(s, x) /\ Framed(s)
  BY <1>1, <1>2 DEF InStep
<1>4. /\ IsSeq(t) /\ Len(t) = n + 1
      /\ \A i \in 1..n : t[i] = s[i]
      /\ t[n + 1] = x
  <2>1. /\ IsSeq(Append(s, x)) /\ Len(Append(s, x)) = Len(s) + 1
        /\ \A i \in 1..Len(s) : Append(s, x)[i] = s[i]
        /\ Append(s, x)[Len(s) + 1] = x
    BY <1>3, AppendFacts
  <2> QED BY <1>3, <2>1
<1>5. x.kind = KindOf[Len(file)] /\ x = Frame(x.kind, x.fields)
  BY <1>2 DEF Frame
<1>6. Framed(t)
  <2>1. /\ \A i \in 1 .. n + 1 : i \in 1..n \/ i = n + 1
        /\ \A i \in 2 .. n + 1 : i \in 2..n \/ i = n + 1
        /\ \A i \in 2..n : i \in 1..n
        /\ 1 \in 1..n
    BY <1>3
  <2>2. \A i \in 1 .. n + 1 : t[i] = Frame(t[i].kind, t[i].fields)
    BY <1>3, <1>4, <1>5, <2>1 DEF Framed
  <2>3. t[1].kind = "site" /\ \A i \in 2 .. n + 1 : t[i].kind \in Blocks
    BY <1>3, <1>4, <1>5, <2>1 DEF Framed
  <2> QED BY <1>3, <1>4, <2>2, <2>3 DEF Framed
<1>7. Top' = x
  BY <1>2, <1>4 DEF Top, Last
<1>8. Len(open) = n /\ open[n] = Len(file)
  BY <1>2 DEF InStep, Reading
<1>9. Aligned'
  <2>1. ASSUME NEW j \in 1..n PROVE t[j + 1].kind = KindOf[open[j]]
    <3>1. CASE j \in 1 .. n - 1
      <4>1. j + 1 \in 1..n
        BY <1>3, <3>1
      <4>2. s[j + 1].kind = KindOf[open[j]]
        BY <1>2, <3>1 DEF InStep, Aligned
      <4> QED BY <1>4, <4>1, <4>2
    <3>2. CASE j = n
      BY <1>4, <1>5, <1>8, <3>2
    <3> QED BY <1>3, <3>1, <3>2
  <2> QED BY <1>2, <1>3, <1>4, <1>8, <2>1 DEF Aligned
<1>10. Rested' /\ Reading'
  <2>1. ~Nested' /\ \A j \in Len(stack')..Len(open') : FALSE
    BY <1>2, <1>3, <1>4, <1>8 DEF Nested
  <2> QED BY <2>1 DEF Rested, Reading
<1> QED BY <1>2, <1>4, <1>6, <1>7, <1>9, <1>10 DEF InStep

LEMMA DirectiveInStep ==
  ASSUME Layout, InStep, AllRegular, Directive
  PROVE  InStep'
<1>1. /\ rest # <<>> /\ rest' = <<>> /\ open' = open /\ KindOf' = KindOf
      /\ Kind(Block, Words) \notin Blocks /\ brace' = brace
  BY LineRead DEF Directive
<1>2. ~brace
  BY <1>1, LineRegular
<1>3. PICK f : Refilled(stack', stack, Len(stack), f)
  BY DEF Directive, SetFields, Refilled
<1> QED BY <1>1, <1>2, <1>3, FilledInStep

LEMMA OpenBlockInStep ==
  ASSUME Layout, InStep, AllRegular, OpenBlock
  PROVE  InStep'
<1>1. /\ rest # <<>> /\ rest' = <<>> /\ open' = open /\ KindOf' = KindOf
      /\ Kind(Block, Words) \in Blocks
  BY LineRead
<1>2. KindOf[Len(file)] = Kind(Block, Words)
  BY <1>1, LineKind, LineRegular DEF Block, Words
<1>3. CASE brace
  <2>1. PICK f : /\ stack' = Append(stack, Frame(KindOf[Len(file)], f))
                 /\ brace' = FALSE
    BY <1>1, <1>2, <1>3 DEF OpenBlock
  <2> QED BY <1>1, <1>2, <1>3, <2>1, PushedInStep
<1>4. CASE ~brace
  <2>1. PICK f : Refilled(stack', stack, Len(stack), f) /\ brace' = brace
    BY <1>4 DEF OpenBlock, Refilled
  <2> QED BY <1>1, <1>4, <2>1, FilledInStep
<1> QED BY <1>3, <1>4

LEMMA RefusedIrregular ==
  ASSUME Layout, InStep, Refuse
  PROVE  ~AllRegular
BY LineRegular DEF Refuse, InStep, Rested

-----------------------------------------------------------------------------
(* The credentials.                                                        *)

\* The words of line i that are credentials, and what they say.
AuthWords(i) ==
  IF KindOf[i] = "auth" THEN Tail(file[i].words)
  ELSE IF KindOf[file[i].in] = "auth" /\ ~IsClose(file[i]) THEN file[i].words
  ELSE <<>>

Said(w) == [level |-> w[1], args |-> Tail(w)]

Saying(m) == {i \in 1..m : AuthWords(i) # <<>>}

\* The credentials of the last of m lines that has any.
CredentialsTo(m) ==
  IF Saying(m) = {} THEN NoAuth ELSE Said(AuthWords(Max(Saying(m))))

\* What the parser has of them: in their block, or where it ended last.
Held == IF Top.kind = "auth" THEN Top.fields ELSE site.auth

\* They are those of the lines read; their block is the site's and has none.
Credited ==
  /\ "auth" \in DOMAIN site
  /\ Top.kind = "auth" => Len(stack) = 2
  /\ \A j \in 2 .. Len(stack) - 1 : stack[j].kind # "auth"
  /\ Held = CredentialsTo(IF rest = <<>> THEN Len(file) ELSE Len(file) - 1)

LEMMA CredentialsNext ==
  ASSUME NEW m \in Nat
  PROVE  CredentialsTo(m + 1) = IF AuthWords(m + 1) = <<>> THEN CredentialsTo(m)
                                ELSE Said(AuthWords(m + 1))
<1> DEFINE S == Saying(m + 1)
<1>0. \A i \in 1 .. m + 1 : i \in 1..m \/ i = m + 1
  OBVIOUS
<1>1. CASE AuthWords(m + 1) = <<>>
  <2>1. Saying(m + 1) = Saying(m)
    BY <1>0, <1>1 DEF Saying
  <2> QED BY <1>1, <2>1 DEF CredentialsTo
<1>2. CASE AuthWords(m + 1) # <<>>
  <2>1. m + 1 \in S /\ S \in SUBSET (1 .. m + 1)
    BY <1>2 DEF Saying
  <2> HIDE DEF S
  <2>2. PICK n \in Nat : n = m + 1
    OBVIOUS
  <2>3. n \in S /\ S \in SUBSET (1..n)
    BY <2>1, <2>2
  <2>4. Max(S) \in S /\ \A i \in S : Max(S) >= i
    BY <2>2, <2>3, Greatest
  <2>5. Max(S) = n
    <3>1. Max(S) \in 1..n /\ Max(S) >= n
      BY <2>3, <2>4
    <3> QED BY <3>1
  <2>6. CredentialsTo(m + 1) = Said(AuthWords(Max(S)))
    BY <2>1 DEF CredentialsTo, S
  <2> QED BY <1>2, <2>2, <2>5, <2>6
<1> QED BY <1>1, <1>2

LEMMA CredentialsSame ==
  ASSUME file' = file, KindOf' = KindOf
  PROVE  \A m : CredentialsTo(m)' = CredentialsTo(m)
BY DEF CredentialsTo, Saying, AuthWords

\* One more line leaves the credentials of those before as they are.
LEMMA CredentialsWritten ==
  ASSUME Layout, NEW l, IsLine(l), Write(l), NEW n, n = Len(file)
  PROVE  CredentialsTo(n)' = CredentialsTo(n)
<1>1. /\ Len(file) \in Nat /\ Len(file') = Len(file) + 1
      /\ \A i \in 1..Len(file) : file'[i] = file[i]
  BY WriteFacts
<1>2. \A i \in 0..Len(file) : KindOf'[i] = KindOf[i]
  BY WriteKinds
<1>3. n \in Nat
  BY <1>1
<1>4. \A i \in 1..n : AuthWords(i)' = AuthWords(i)
  <2>1. \A i \in 1..n : i \in 0..n /\ file[i].in \in 0..n
    BY <1>3 DEF Layout, Opened
  <2> QED BY <1>1, <1>2, <1>3, <2>1 DEF AuthWords, IsClose
<1>5. Saying(n)' = Saying(n) /\ Saying(n) \in SUBSET (1..n)
  BY <1>4 DEF Saying
<1>6. CASE Saying(n) = {}
  BY <1>5, <1>6 DEF CredentialsTo
<1>7. CASE Saying(n) # {}
  <2>1. PICK S, m : S = Saying(n) /\ m = Max(S)
    OBVIOUS
  <2>2. m \in 1..n
    <3>1. S \in SUBSET (1..n) /\ S # {}
      BY <1>5, <1>7, <2>1
    <3> QED BY <1>3, <2>1, <3>1, Greatest
  <2>3. CredentialsTo(n) = Said(AuthWords(m))
    BY <1>7, <2>1 DEF CredentialsTo
  <2>4. CredentialsTo(n)' = Said(AuthWords(m)')
    BY <1>5, <1>7, <2>1 DEF CredentialsTo, Said
  <2>5. AuthWords(m)' = AuthWords(m)
    BY <1>4, <2>2
  <2> QED BY <2>3, <2>4, <2>5
<1> QED BY <1>6, <1>7

LEMMA BlockOfTop ==
  ASSUME Layout, InStep
  PROVE  /\ Top.kind = "site" <=> Len(stack) = 1
         /\ Len(stack) # 1 => Len(stack) \in 2..Len(stack) /\ Top.kind \in Blocks
         /\ Len(stack) = 1 => Top = stack[1]
         /\ "site" \notin Blocks
<1>1. /\ Len(stack) \in Nat /\ Len(stack) \in 1..Len(stack)
      /\ Top = stack[Len(stack)]
  BY StackFacts
<1>2. Len(stack) # 1 => Len(stack) \in 2..Len(stack)
  <2>1. \A n \in Nat : n \in 1..n /\ n # 1 => n \in 2..n
    OBVIOUS
  <2> QED BY <1>1, <2>1
<1>3. "site" \notin Blocks
  BY BlocksAre
<1> QED BY <1>1, <1>2, <1>3 DEF InStep, Framed

\* The words of the line under way that are credentials.
LEMMA LineAuth ==
  ASSUME Layout, InStep, rest # <<>>
  PROVE  AuthWords(Len(file)) = IF Block = "auth" THEN Words ELSE <<>>
<1> DEFINE n == Len(file)
<1>1. /\ ~IsClose(file[n]) /\ rest = file[n].words /\ IsSeq(rest)
      /\ KindOf[file[n].in] = Top.kind
      /\ KindOf[n] = "auth" <=> Top.kind = "site" /\ Head(rest) = "auth"
  BY LineKind
<1> HIDE DEF n
<1>2. CASE InlineAuth
  BY <1>1, <1>2 DEF AuthWords, InlineAuth, Block, Words, n
<1>3. CASE ~InlineAuth /\ Top.kind = "auth"
  BY <1>1, <1>3 DEF AuthWords, Block, Words, n
<1>4. CASE ~InlineAuth /\ Top.kind # "auth" /\ KindOf[n] = "auth"
  <2>1. Len(rest) = 1
    <3>1. Len(rest) \in Nat /\ Len(rest) # 0
      BY <1>1, IsSeqFacts, EmptyIsSeq, SeqsEqual
    <3>2. Top.kind = "site" /\ Head(rest) = "auth"
      BY <1>1, <1>4
    <3>3. ~(Len(rest) > 1)
      BY <1>4, <3>2 DEF InlineAuth
    <3> QED BY <3>1, <3>3
  <2>2. Tail(rest) = <<>>
    <3>1. IsSeq(Tail(rest)) /\ Len(Tail(rest)) = 0
      BY <1>1, <2>1, TailFacts
    <3>2. \A i \in 1..0 : Tail(rest)[i] = <<>>[i]
      OBVIOUS
    <3> QED BY <3>1, <3>2, EmptyIsSeq, SeqsEqual
  <2> QED BY <1>1, <1>4, <2>2 DEF AuthWords, Block, n
<1>5. CASE ~InlineAuth /\ Top.kind # "auth" /\ KindOf[n] # "auth"
  BY <1>1, <1>5 DEF AuthWords, Block, n
<1> QED BY <1>2, <1>3, <1>4, <1>5

\* The directive takes them all.
LEMMA CredentialsTaken ==
  ASSUME Layout, InStep, AllRegular, rest # <<>>, Block = "auth",
         NEW kind, kind = Kind(Block, Words), NEW old
  PROVE  Set(old, kind) = Said(Words)
<1>1. PICK w : w = Words
  OBVIOUS
<1>2. /\ IsSeq(w) /\ w # <<>> /\ Accepted(kind, w)
      /\ Len(w) = 1 + Len(Args(kind, w))
  BY <1>1, LineRegular
<1>3. Field(Head(w)) = w[1]
  <2>1. Head(w) \in DOMAIN Grammar["auth"]
    BY <1>1, <1>2 DEF Accepted, Kind
  <2>2. Head(w) # "from"
    BY <2>1 DEF Grammar, AuthBlock
  <2> QED BY <1>2, <2>2, TailFacts DEF Field
<1>4. Args(kind, w) = Tail(w)
  <2>1. /\ IsSeq(Args(kind, w)) /\ Len(Args(kind, w)) \in Nat
        /\ \A i \in 1..Len(Args(kind, w)) : Args(kind, w)[i] = w[i + 1]
    BY <1>2, ArgsFacts
  <2>2. /\ IsSeq(Tail(w)) /\ Len(Tail(w)) = Len(w) - 1
        /\ \A i \in 1 .. Len(w) - 1 : Tail(w)[i] = w[i + 1]
    BY <1>2, TailFacts
  <2>3. Len(w) - 1 = Len(Args(kind, w))
    BY <1>2, <2>1
  <2> QED BY <2>1, <2>2, <2>3, SeqsEqual
<1> QED BY <1>1, <1>3, <1>4 DEF Set, Said

LEMMA TopWithin ==
  ASSUME Layout, InStep
  PROVE  /\ Top.kind = "auth" => Len(stack) # 1
         /\ Top = Frame(Top.kind, Top.fields)
         /\ Len(stack) = 1 => Top.fields = site
<1>1. /\ Len(stack) \in Nat /\ Len(stack) \in 1..Len(stack)
      /\ Top = stack[Len(stack)]
  BY StackFacts
<1>2. Framed(stack)
  BY DEF InStep
<1>3. Top = Frame(Top.kind, Top.fields)
  BY <1>1, <1>2 DEF Framed
<1> QED BY <1>1, <1>3, BlockOfTop DEF site

\* A block gets fields: those of the site are the ones below the others.
LEMMA FilledCredited ==
  ASSUME Layout, InStep, Credited, Len(stack') = Len(stack), NEW f,
         Top' = Frame(Top.kind, f),
         \A i \in 1 .. Len(stack) - 1 : stack'[i] = stack[i]
  PROVE  /\ Top'.kind = Top.kind
         /\ site' = IF Len(stack) = 1 THEN f ELSE site
         /\ Held' = IF Top.kind = "auth" THEN f ELSE site'.auth
         /\ Top.kind = "auth" => Len(stack') = 2
         /\ \A j \in 2 .. Len(stack') - 1 : stack'[j].kind # "auth"
<1>1. Len(stack) \in Nat /\ Len(stack) \in 1..Len(stack)
  BY StackFacts
<1>2. Top'.kind = Top.kind /\ Top'.fields = f
  BY DEF Frame
<1>3. Top' = stack'[Len(stack')]
  BY DEF Top, Last
<1>4. CASE Len(stack) = 1
  BY <1>1, <1>2, <1>3, <1>4, BlockOfTop DEF Credited, Held, site
<1>5. CASE Len(stack) # 1
  <2>1. /\ 1 \in 1 .. Len(stack) - 1
        /\ \A j \in 2 .. Len(stack) - 1 : j \in 1 .. Len(stack) - 1
    BY <1>1, <1>5
  <2> QED BY <1>2, <1>5, <2>1 DEF Credited, Held, site
<1> QED BY <1>4, <1>5

\* The line under way says what is held from now on, or nothing.
LEMMA LineCredentials ==
  ASSUME Layout, InStep, AllRegular, Credited, rest # <<>>,
         file' = file, KindOf' = KindOf, NEW n, n = Len(file)
  PROVE  CredentialsTo(n)' = IF Block = "auth" THEN Said(Words) ELSE Held
<1>1. Len(file) \in 1..Len(file) /\ Len(file) \in Nat
  BY LineKind, StackFacts
<1>2. CredentialsTo(n)' = CredentialsTo(n)
  BY CredentialsSame
<1>3. PICK m \in Nat : m = n - 1 /\ m + 1 = n
  BY <1>1
<1>4. CredentialsTo(n) = IF AuthWords(n) = <<>> THEN CredentialsTo(m) ELSE Said(AuthWords(n))
  BY <1>3, CredentialsNext
<1>5. AuthWords(n) = (IF Block = "auth" THEN Words ELSE <<>>) /\ Words # <<>>
  BY LineAuth, LineRegular
<1>6. Held = CredentialsTo(m)
  BY <1>3 DEF Credited
<1> QED BY <1>2, <1>4, <1>5, <1>6

LEMMA DirectiveCredited ==
  ASSUME Layout, InStep, AllRegular, Credited, Directive
  PROVE  Credited'
<1> DEFINE kind == Kind(Block, Words)
<1>1. /\ rest # <<>> /\ rest' = <<>> /\ open' = open /\ file' = file /\ KindOf' = KindOf
      /\ kind \notin Blocks /\ brace' = brace
  BY LineRead DEF Directive
<1>2. ~brace
  BY <1>1, LineRegular
<1>3. PICK f : /\ Refilled(stack', stack, Len(stack), f)
               /\ f = IF InlineAuth THEN Put(Top.fields, "auth", Set(Top.fields.auth, kind))
                      ELSE Set(Top.fields, kind)
  BY StackFacts DEF Directive, SetFields, Refilled
<1>4. /\ Len(stack') = Len(stack) /\ Top' = Frame(Top.kind, f)
      /\ \A i \in 1 .. Len(stack) - 1 : stack'[i] = stack[i]
  BY <1>1, <1>2, <1>3, FilledInStep
<1>5. /\ Top'.kind = Top.kind
      /\ site' = IF Len(stack) = 1 THEN f ELSE site
      /\ Held' = IF Top.kind = "auth" THEN f ELSE site'.auth
      /\ Top.kind = "auth" => Len(stack') = 2
      /\ \A j \in 2 .. Len(stack') - 1 : stack'[j].kind # "auth"
  BY <1>4, FilledCredited
<1>6. PICK n : n = Len(file)
  OBVIOUS
<1>7. CredentialsTo(n)' = IF Block = "auth" THEN Said(Words) ELSE Held
  BY <1>1, <1>6, LineCredentials
<1>8. Block = "auth" => \A old : Set(old, kind) = Said(Words)
  BY <1>1, CredentialsTaken
<1>9. "auth" \in DOMAIN site' /\ Held' = CredentialsTo(n)'
  <2>1. CASE InlineAuth
    <3>1. Len(stack) = 1 /\ Block = "auth" /\ Top.kind = "site"
      BY <2>1, BlockOfTop DEF InlineAuth, Block
    <3>2. f = Put(Top.fields, "auth", Said(Words))
      BY <1>3, <1>8, <2>1, <3>1
    <3> QED BY <1>5, <1>7, <3>1, <3>2 DEF Put
  <2>2. CASE ~InlineAuth /\ Top.kind = "auth"
    <3>1. Len(stack) # 1 /\ Block = "auth"
      BY <2>2, TopWithin DEF Block
    <3> QED BY <1>3, <1>5, <1>7, <1>8, <2>2, <3>1 DEF Credited
  <2>3. CASE ~InlineAuth /\ Top.kind = "site"
    <3>1. Len(stack) = 1 /\ Block = "site" /\ Words = rest /\ Top.fields = site
      BY <2>3, BlockOfTop, TopWithin DEF Block, Words
    <3>2. Field(Head(Words)) # "auth"
      <4>1. kind # "auth"
        BY <1>1, BlocksAre
      <4>2. Head(rest) # "auth"
        BY <1>1, <3>1, <4>1, <2>3, LineKind
      <4> QED BY <3>1, <4>2 DEF Field
    <3>3. PICK k, v : f = Put(site, k, v) /\ k # "auth"
      BY <1>3, <2>3, <3>1, <3>2 DEF Set
    <3>4. "auth" \in DOMAIN f /\ f.auth = site.auth
      BY <3>3 DEF Put, Credited
    <3>5. Held = site.auth /\ Block # "auth"
      BY <2>3, <3>1 DEF Held
    <3> QED BY <1>5, <1>7, <2>3, <3>1, <3>4, <3>5
  <2>4. CASE ~InlineAuth /\ Top.kind \notin {"site", "auth"}
    <3>1. Len(stack) # 1 /\ Block # "auth" /\ Held = site.auth
      BY <2>4, BlockOfTop DEF Block, Held
    <3> QED BY <1>5, <1>7, <2>4, <3>1 DEF Credited
  <2> QED BY <2>1, <2>2, <2>3, <2>4
<1> QED BY <1>1, <1>5, <1>6, <1>9 DEF Credited

LEMMA OpenBlockCredited ==
  ASSUME Layout, InStep, AllRegular, Credited, OpenBlock
  PROVE  Credited'
<1> DEFINE kind == Kind(Block, Words)
<1>1. /\ rest # <<>> /\ rest' = <<>> /\ open' = open /\ file' = file /\ KindOf' = KindOf
      /\ kind \in Blocks
  BY LineRead
<1>2. ~InlineAuth /\ Block = Top.kind /\ Words = rest /\ KindOf[Len(file)] = kind
  BY <1>1, LineKind, LineRegular DEF Block, Words
<1>3. Top.kind # "auth" /\ (kind = "auth" <=> Top.kind = "site" /\ Head(rest) = "auth")
  <2>1. Top.kind \in DOMAIN Grammar
    BY <1>1, LineKind
  <2>2. PICK b, h : b = Top.kind /\ h = Head(rest)
    OBVIOUS
  <2>3. kind = Grammar[b][h] /\ h \in DOMAIN Grammar[b]
    BY <1>1, <1>2, <2>2, BlocksAre DEF Kind
  <2> QED BY <1>1, <1>2, <2>1, <2>2, <2>3, GrammarKinds
<1>4. PICK n : n = Len(file)
  OBVIOUS
<1>5. CredentialsTo(n)' = Held /\ Held = site.auth
  BY <1>1, <1>2, <1>3, <1>4, LineCredentials DEF Held
<1>6. Len(stack) \in Nat /\ Len(stack) \in 1..Len(stack)
  BY StackFacts
<1>7. CASE brace
  <2>1. PICK g : /\ g = Started(kind, Args(kind, Words), Top.fields)
                 /\ stack' = Append(stack, Frame(kind, g)) /\ brace' = FALSE
    BY <1>1, <1>7 DEF OpenBlock
  <2> HIDE DEF kind
  <2>2. /\ Len(stack') = Len(stack) + 1 /\ Top' = Frame(kind, g)
        /\ \A i \in 1..Len(stack) : stack'[i] = stack[i]
    BY <1>1, <1>2, <1>7, <2>1, PushedInStep
  <2>3. site' = site /\ Top'.kind = kind /\ Top'.fields = g
    <3>1. 1 \in 1..Len(stack)
      BY <1>6
    <3> QED BY <2>2, <3>1 DEF site, Frame
  <2>4. CASE kind = "auth"
    <3>1. Len(stack) = 1 /\ Top.fields = site
      BY <1>3, <2>4, BlockOfTop, TopWithin
    <3>2. g = site.auth
      BY <2>1, <2>4, <3>1 DEF Started, Merged, Entry, Credited
    <3>3. Len(stack') = 2 /\ \A j \in 2 .. Len(stack') - 1 : FALSE
      BY <2>2, <3>1
    <3>4. Held' = site.auth
      BY <2>3, <2>4, <3>2 DEF Held
    <3> QED BY <1>1, <1>4, <1>5, <2>3, <3>3, <3>4 DEF Credited
  <2>5. CASE kind # "auth"
    <3>1. \A j \in 2 .. Len(stack') - 1 : stack'[j].kind # "auth"
      <4>1. Top = stack[Len(stack)]
        BY StackFacts
      <4>2. \A j \in 2 .. Len(stack') - 1 :
              j \in 1..Len(stack) /\ (j \in 2 .. Len(stack) - 1 \/ j = Len(stack))
        BY <1>6, <2>2
      <4> QED BY <1>3, <2>2, <4>1, <4>2 DEF Credited
    <3>2. Held' = site.auth
      BY <2>3, <2>5 DEF Held
    <3> QED BY <1>1, <1>4, <1>5, <2>3, <2>5, <3>1, <3>2 DEF Credited
  <2> QED BY <2>4, <2>5
<1>8. CASE ~brace
  <2>1. PICK f, g : /\ Refilled(stack', stack, Len(stack), f) /\ brace' = brace
                    /\ f = IF kind \in Merged \cup {"schema"} THEN Top.fields
                           ELSE Ended(Top.fields, kind, g)
    BY <1>8, StackFacts DEF OpenBlock, Refilled
  <2> HIDE DEF kind
  <2>2. /\ Len(stack') = Len(stack) /\ Top' = Frame(Top.kind, f)
        /\ \A i \in 1 .. Len(stack) - 1 : stack'[i] = stack[i]
    BY <1>1, <1>8, <2>1, FilledInStep
  <2>3. /\ Top'.kind = Top.kind
        /\ site' = IF Len(stack) = 1 THEN f ELSE site
        /\ Held' = IF Top.kind = "auth" THEN f ELSE site'.auth
        /\ \A j \in 2 .. Len(stack') - 1 : stack'[j].kind # "auth"
    BY <2>2, FilledCredited
  <2>4. "auth" \in DOMAIN site' /\ site'.auth = site.auth
    <3>1. CASE Len(stack) = 1
      <4>1. Top.fields = site
        BY <3>1, TopWithin
      <4>2. kind \notin Merged \cup {"schema"} =>
              \E v : f = Put(site, kind, v) /\ kind # "auth"
        BY <2>1, <4>1 DEF Ended, Merged
      <4> QED BY <2>1, <2>3, <3>1, <4>1, <4>2 DEF Put, Credited
    <3>2. CASE Len(stack) # 1
      BY <2>3, <3>2 DEF Credited
    <3> QED BY <3>1, <3>2
  <2> QED BY <1>1, <1>3, <1>4, <1>5, <2>3, <2>4 DEF Credited
<1> QED BY <1>7, <1>8

LEMMA CredentialsOn ==
  \A m \in Nat : CredentialsTo(m + 1) =
    IF AuthWords(m + 1) = <<>> THEN CredentialsTo(m) ELSE Said(AuthWords(m + 1))
BY CredentialsNext

LEMMA CredentialsOnPrime ==
  (\A m \in Nat : CredentialsTo(m + 1) =
     IF AuthWords(m + 1) = <<>> THEN CredentialsTo(m) ELSE Said(AuthWords(m + 1)))'
BY CredentialsOn, PTL

\* A line written where the author says nothing of credentials.
LEMMA QuietLine ==
  ASSUME Layout, Credited, rest = <<>>, NEW l, IsLine(l), Write(l), NEW n, n = Len(file'),
         KindOf'[n] # "auth", l.words = <<>> \/ KindOf[Within] # "auth"
  PROVE  CredentialsTo(n)' = Held
<1>1. PICK m \in Nat : m = Len(file) /\ n = m + 1
  BY WriteFacts
<1>2. /\ file'[n] = [in |-> Within, words |-> l.words, opens |-> l.opens]
      /\ KindOf'[Within] = KindOf[Within]
  BY <1>1, WriteFacts, WriteKinds, WithinIsLine
<1>3. AuthWords(n)' = <<>>
  BY <1>2 DEF AuthWords, IsClose
<1>4. CredentialsTo(n)' = CredentialsTo(m)'
  BY <1>1, <1>3, CredentialsOnPrime
<1>5. CredentialsTo(m)' = CredentialsTo(m)
  BY <1>1, CredentialsWritten
<1> QED BY <1>1, <1>4, <1>5 DEF Credited

LEMMA DirectivesCredited ==
  ASSUME Layout, InStep, Credited, NEW l, IsLine(l), ReadDirectives(l)
  PROVE  Credited'
<1>1. /\ Write(l) /\ rest = <<>> /\ rest' # <<>> /\ stack' = stack
  <2>1. l # Close /\ rest' = l.words
    BY DEF ReadDirectives
  <2> QED BY <2>1 DEF ReadDirectives, Write, Idle, IsLine
<1>2. PICK n : n = Len(file)
  OBVIOUS
<1>3. n = Len(file') - 1
  <2>1. Len(file) \in Nat /\ Len(file') = Len(file) + 1
    BY <1>1, WriteFacts
  <2> QED BY <1>2, <2>1
<1>4. CredentialsTo(n)' = CredentialsTo(n)
  BY <1>1, <1>2, CredentialsWritten
<1>5. Top' = Top /\ site' = site /\ Held' = Held
  BY <1>1 DEF Top, site, Held
<1> QED BY <1>1, <1>2, <1>3, <1>4, <1>5 DEF Credited

LEMMA SchemaCredited ==
  ASSUME Layout, InStep, Credited, NEW l, IsLine(l), ReadSchema(l)
  PROVE  Credited'
<1>1. Write(l) /\ rest = <<>> /\ rest' = rest /\ Top.kind = "schema"
  BY DEF ReadSchema, Write, Idle
<1>2. PICK f : Refilled(stack', stack, Len(stack), f)
  BY DEF ReadSchema, Refilled
<1>3. /\ Len(stack') = Len(stack) /\ Top' = Frame(Top.kind, f)
      /\ \A i \in 1 .. Len(stack) - 1 : stack'[i] = stack[i]
  BY <1>2, RefilledStack
<1>4. /\ Top'.kind = Top.kind
      /\ site' = IF Len(stack) = 1 THEN f ELSE site
      /\ Held' = IF Top.kind = "auth" THEN f ELSE site'.auth
      /\ \A j \in 2 .. Len(stack') - 1 : stack'[j].kind # "auth"
  BY <1>3, FilledCredited
<1>5. site' = site /\ Held' = Held /\ Top'.kind # "auth"
  BY <1>1, <1>4, BlockOfTop DEF Held
<1>6. PICK n : n = Len(file')
  OBVIOUS
<1>7. KindOf[Within] \in {"schema", "statements"}
  BY <1>1, InnermostKind
<1>8. KindOf'[n] = "statements"
  BY <1>1, <1>6, <1>7, WriteFacts, WriteKinds
<1>9. CredentialsTo(n)' = Held
  BY <1>1, <1>6, <1>7, <1>8, QuietLine
<1> QED BY <1>1, <1>4, <1>5, <1>6, <1>9 DEF Credited

\* The author's closing brace says nothing.
LEMMA ClosingLine ==
  ASSUME Layout, Credited, Write(Close), NEW n, n = Len(file')
  PROVE  CredentialsTo(n)' = Held
<1>1. IsLine(Close) /\ Close.words = <<>>
  BY EmptyIsSeq DEF IsLine, Close
<1>2. rest = <<>>
  BY DEF Write, Idle
<1>3. KindOf'[n] \in {"statements", "unknown"}
  BY <1>1, WriteFacts, WriteKinds
<1> QED BY <1>1, <1>2, <1>3, QuietLine

LEMMA CloseCredited ==
  ASSUME Layout, InStep, Credited, CloseBlock
  PROVE  Credited'
<1>1. Write(Close) /\ rest' = rest /\ rest = <<>>
  BY DEF CloseBlock, Write, Idle
<1>2. PICK n : n = Len(stack) - 1
  OBVIOUS
<1>3. PICK f : /\ f = Ended(stack[n].fields, Top.kind, Top.fields)
               /\ n \in Nat /\ n >= 1 /\ Len(stack') = n
               /\ \A i \in 1..n : stack'[i].kind = stack[i].kind /\ (i # n => stack'[i] = stack[i])
               /\ stack'[n].fields = f
  BY <1>2, ClosedStack
<1>4. Top' = stack'[n] /\ n \in 1..n
  BY <1>3 DEF Top, Last
<1>5. Len(stack) = n + 1
  BY <1>2, StackFacts
<1>6. PICK m : m = Len(file')
  OBVIOUS
<1>7. CredentialsTo(m)' = Held
  BY <1>1, <1>6, ClosingLine
<1>8. \E k, v : /\ f = Put(stack[n].fields, k, v)
                /\ k = "auth" <=> Top.kind = "auth"
                /\ k = "auth" => v = Top.fields
  <2>1. PICK t, g, b : t = Top.kind /\ g = stack[n].fields /\ b = Top.fields
    OBVIOUS
  <2>2. f = Ended(g, t, b)
    BY <1>3, <2>1
  <2>3. CASE t \in Merged
    <3>1. f = Put(g, t, b)
      BY <2>2, <2>3 DEF Ended, Merged
    <3> QED BY <2>1, <3>1
  <2>4. CASE t = "schema"
    <3>1. PICK v : f = Put(g, "schema", v)
      BY <2>2, <2>4 DEF Ended, Merged
    <3> QED BY <2>1, <2>4, <3>1
  <2>5. CASE t \notin Merged /\ t # "schema"
    <3>1. PICK v : f = Put(g, t, v)
      BY <2>2, <2>5 DEF Ended
    <3>2. t # "auth"
      BY <2>5 DEF Merged
    <3> QED BY <2>1, <3>1, <3>2
  <2> QED BY <2>3, <2>4, <2>5
<1>9. CASE n = 1
  <2>1. Top'.kind = "site"
    BY <1>3, <1>4, <1>9 DEF InStep, Framed
  <2>2. site' = f /\ stack[n].fields = site
    BY <1>3, <1>9 DEF site
  <2>3. "auth" \in DOMAIN site' /\ site'.auth = Held
    BY <1>8, <2>2 DEF Put, Credited, Held
  <2>4. \A j \in 2 .. Len(stack') - 1 : FALSE
    BY <1>3, <1>9
  <2>5. Held' = Held /\ Top'.kind # "auth"
    BY <2>1, <2>3 DEF Held
  <2> QED BY <1>1, <1>6, <1>7, <2>3, <2>4, <2>5 DEF Credited
<1>10. CASE n # 1
  <2>1. /\ 1 \in 1..n /\ n \in 2 .. Len(stack) - 1
        /\ \A j \in 2 .. n - 1 : j \in 1..n /\ j # n /\ j \in 2 .. Len(stack) - 1
    BY <1>3, <1>5, <1>10
  <2>2. site' = site
    BY <1>3, <1>10, <2>1 DEF site
  <2>3. Top'.kind # "auth" /\ Top.kind # "auth"
    BY <1>3, <1>4, <1>5, <1>10, <2>1 DEF Credited
  <2>4. \A j \in 2 .. Len(stack') - 1 : stack'[j].kind # "auth"
    BY <1>3, <2>1 DEF Credited
  <2>5. Held' = Held
    BY <2>2, <2>3 DEF Held
  <2> QED BY <1>1, <1>6, <1>7, <2>2, <2>3, <2>4, <2>5 DEF Credited
<1> QED BY <1>9, <1>10

LEMMA CredentialsOf ==
  IsSeq(file) => \A n : n = Len(file) => CredentialsTo(n) = Credentials
<1> SUFFICES ASSUME IsSeq(file), NEW n, n = Len(file)
             PROVE  CredentialsTo(n) = Credentials
  OBVIOUS
<1>1. DOMAIN file = 1..n
  BY IsSeqFacts
<1> QED BY <1>1 DEF CredentialsTo, Saying, AuthWords, Said, Credentials

LEMMA CredentialsOfPrime ==
  (IsSeq(file) => \A n : n = Len(file) => CredentialsTo(n) = Credentials)'
BY CredentialsOf, PTL

LEMMA FileCredited ==
  ASSUME Layout, InStep, Credited, CloseFile
  PROVE  site'.auth = Credentials'
<1>1. Write(Close) /\ Len(stack) = 1 /\ stack' = stack
  BY DEF CloseFile
<1>2. IsLine(Close)
  BY EmptyIsSeq DEF IsLine, Close
<1>3. IsSeq(file')
  <2>1. Layout'
    BY <1>1, <1>2, WriteFacts
  <2> QED BY <2>1 DEF Layout, Opened
<1>4. PICK n : n = Len(file')
  OBVIOUS
<1>5. CredentialsTo(n)' = Credentials'
  BY <1>3, <1>4, CredentialsOfPrime
<1>6. CredentialsTo(n)' = Held
  BY <1>1, <1>4, ClosingLine
<1>7. Held = site.auth /\ site' = site
  BY <1>1, BlockOfTop DEF Held, site
<1> QED BY <1>5, <1>6, <1>7

-----------------------------------------------------------------------------
(* The parser follows the author: what every step keeps.                   *)

FollowInv ==
  /\ menu \in DOMAIN Menus
  /\ status # "loaded" => Layout
  /\ status = "parsing" /\ AllRegular => InStep /\ Credited
  /\ RefusedForReason
  /\ CredentialsNeverMix

LEMMA FollowInit ==
  ASSUME ParserInit
  PROVE  FollowInv
<1>1. /\ file = <<>> /\ open = <<>> /\ stack = <<Frame("site", Site)>>
      /\ rest = <<>> /\ brace = FALSE /\ status = "parsing" /\ menu \in DOMAIN Menus
  BY DEF ParserInit
<1>2. Layout
  BY <1>1, EmptyIsSeq DEF Layout, Opened
<1>3. /\ Len(stack) = 1 /\ stack[1] = Frame("site", Site) /\ IsSeq(stack)
  <2>1. stack \in Seq({Frame("site", Site)})
    BY <1>1
  <2> QED BY <1>1, <2>1, SeqIsSeq
<1>4. Framed(stack)
  BY <1>3 DEF Framed, Frame
<1>5. Len(open) = 0
  BY <1>1, EmptyIsSeq
<1>6. InStep
  BY <1>1, <1>3, <1>4, <1>5 DEF InStep, Aligned, Rested, Reading, Nested
<1>7. Credited
  <2>1. site = Site /\ Top = Frame("site", Site)
    BY <1>3 DEF site, Frame, Top, Last
  <2>2. CredentialsTo(0) = NoAuth
    BY DEF CredentialsTo, Saying
  <2>3. Held = NoAuth /\ "auth" \in DOMAIN site /\ Top.kind # "auth"
    BY <2>1 DEF Held, Site, Frame
  <2>4. Len(file) = 0 /\ \A j \in 2 .. Len(stack) - 1 : FALSE
    BY <1>1, <1>3, EmptyIsSeq
  <2> QED BY <1>1, <2>2, <2>3, <2>4 DEF Credited
<1> QED BY <1>1, <1>2, <1>6, <1>7 DEF FollowInv, RefusedForReason, CredentialsNeverMix

LEMMA FollowStep ==
  ASSUME FollowInv, Parse
  PROVE  FollowInv'
<1>1. menu \in DOMAIN Menus /\ Layout /\ (AllRegular => InStep /\ Credited) /\ status = "parsing"
  BY DEF FollowInv, Parse, ReadDirectives, ReadSchema, CloseBlock, CloseFile,
         Write, Idle, Parsing, Directive, OpenBlock, Refuse
<1>2. ASSUME NEW l \in Offered, ReadDirectives(l) \/ ReadSchema(l) PROVE FollowInv'
  <2>1. IsLine(l) /\ Write(l) /\ status' = status
    BY <1>1, <1>2, OfferedIsLine DEF ReadDirectives, ReadSchema
  <2>2. Layout' /\ menu' = menu /\ (AllRegular' => AllRegular)
    BY <1>1, <2>1, WriteFacts, WriteRegular
  <2>3. AllRegular => InStep' /\ Credited'
    BY <1>1, <1>2, <2>1, DirectivesInStep, SchemaInStep, DirectivesCredited, SchemaCredited
  <2> QED BY <1>1, <2>1, <2>2, <2>3 DEF FollowInv, RefusedForReason, CredentialsNeverMix
<1>3. IsLine(Close)
  BY EmptyIsSeq DEF IsLine, Close
<1>4. CASE CloseBlock
  <2>1. Write(Close) /\ status' = status
    BY <1>4 DEF CloseBlock
  <2>2. Layout' /\ menu' = menu /\ (AllRegular' => AllRegular)
    BY <1>1, <1>3, <2>1, WriteFacts, WriteRegular
  <2> QED BY <1>1, <1>4, <2>1, <2>2, CloseInStep, CloseCredited
     DEF FollowInv, RefusedForReason, CredentialsNeverMix
<1>5. CASE CloseFile
  <2>1. Write(Close) /\ status' = "parsed"
    BY <1>5 DEF CloseFile
  <2>2. Layout' /\ menu' = menu /\ (AllRegular' => AllRegular)
    BY <1>1, <1>3, <2>1, WriteFacts, WriteRegular
  <2> QED BY <1>1, <1>5, <2>1, <2>2, FileCredited
      DEF FollowInv, RefusedForReason, CredentialsNeverMix
<1>6. ASSUME UNCHANGED <<menu, file, open>>
      PROVE  menu' = menu /\ Layout' /\ AllRegular' = AllRegular
  BY <1>1, <1>6, KindOfFile DEF Layout, Opened, AllRegular, Regular
<1>7. CASE Directive
  <2>1. UNCHANGED <<menu, file, open>> /\ status' = status
    BY <1>7 DEF Directive
  <2> QED BY <1>1, <1>6, <1>7, <2>1, DirectiveInStep, DirectiveCredited
     DEF FollowInv, RefusedForReason, CredentialsNeverMix
<1>8. CASE OpenBlock
  <2>1. UNCHANGED <<menu, file, open>> /\ status' = status
    BY <1>8 DEF OpenBlock
  <2> QED BY <1>1, <1>6, <1>8, <2>1, OpenBlockInStep, OpenBlockCredited
     DEF FollowInv, RefusedForReason, CredentialsNeverMix
<1>9. CASE Refuse
  <2>1. UNCHANGED <<menu, file, open>> /\ status' = "refused"
    BY <1>9 DEF Refuse
  <2>2. ~AllRegular
    BY <1>1, <1>9, RefusedIrregular
  <2> QED BY <1>1, <1>6, <2>1, <2>2 DEF FollowInv, RefusedForReason, CredentialsNeverMix
<1> QED BY <1>2, <1>4, <1>5, <1>7, <1>8, <1>9 DEF Parse

LEMMA FollowUnchanged ==
  ASSUME FollowInv, UNCHANGED parseVars
  PROVE  FollowInv'
<1>1. /\ menu' = menu /\ file' = file /\ open' = open /\ stack' = stack
      /\ rest' = rest /\ brace' = brace /\ status' = status
  BY DEF parseVars
<1>2. KindOf' = KindOf
  BY <1>1, KindOfFile
<1>3. Layout' = Layout /\ AllRegular' = AllRegular
  BY <1>1, <1>2 DEF Layout, Opened, AllRegular, Regular
<1>4. InStep' = InStep
  BY <1>1, <1>2
     DEF InStep, Framed, Aligned, Rested, Reading, Top, Nested
<1>5. Credited' = Credited
  BY <1>1, <1>2, CredentialsSame DEF Credited, Held, Top, site
<1>6. site' = site /\ Credentials' = Credentials
  BY <1>1, <1>2 DEF site, Credentials
<1> QED BY <1>1, <1>3, <1>4, <1>5, <1>6
    DEF FollowInv, RefusedForReason, CredentialsNeverMix

LEMMA FollowLoaded ==
  ASSUME FollowInv, Loaded
  PROVE  FollowInv'
BY DEF FollowInv, Loaded, RefusedForReason, CredentialsNeverMix

-----------------------------------------------------------------------------
(* Sequences end to end.                                                   *)

LEMMA ConcatFacts ==
  ASSUME NEW s, IsSeq(s), NEW t, IsSeq(t)
  PROVE  /\ IsSeq(s \o t)
         /\ s \o <<>> = s
         /\ <<>> \o s = s
<1> DEFINE T == ToSet(s) \cup ToSet(t)
<1>1. s \in Seq(ToSet(s)) /\ t \in Seq(ToSet(t))
  BY IsSeqFacts
<1>2. s \in Seq(T) /\ t \in Seq(T)
  BY <1>1, SeqMonotonic
<1> HIDE DEF T
<1>3. s \o t \in Seq(T)
  BY <1>2
<1>4. s \o <<>> = s /\ <<>> \o s = s
  BY <1>2, ConcatEmptySeq
<1> QED BY <1>3, <1>4, SeqIsSeq

LEMMA AppendUnit ==
  ASSUME NEW s, IsSeq(s), NEW x
  PROVE  Append(s, x) = s \o <<x>>
<1> DEFINE T == ToSet(s) \cup {x}
<1>1. s \in Seq(T) /\ x \in T
  BY IsSeqFacts, SeqMonotonic
<1> HIDE DEF T
<1> QED BY <1>1, AppendIsConcat

LEMMA UnitIsSeq == \A x : IsSeq(<<x>>) /\ Len(<<x>>) = 1 /\ <<x>>[1] = x
<1> SUFFICES ASSUME NEW x PROVE IsSeq(<<x>>) /\ Len(<<x>>) = 1 /\ <<x>>[1] = x
  OBVIOUS
<1>1. <<x>> \in Seq({x})
  OBVIOUS
<1> QED BY <1>1, SeqIsSeq

\* A sequence of sequences.
Parts(s) == IsSeq(s) /\ \A i \in 1..Len(s) : IsSeq(s[i])

RunStep(s, g, i) == IF i = 1 THEN s[i] ELSE g[i - 1] \o s[i]

\* FlattenSeq, up to each place.
Runs(s) == CHOOSE g : g = [i \in 1..Len(s) |-> RunStep(s, g, i)]

LEMMA FlattenRuns ==
  ASSUME NEW s, IsSeq(s)
  PROVE  FlattenSeq(s) = IF Len(s) = 0 THEN <<>> ELSE Runs(s)[Len(s)]
<1>1. Len(s) = 0 => s = <<>>
  BY EmptyIsSeq, SeqsEqual
<1> QED BY <1>1 DEF FlattenSeq, Runs, RunStep

LEMMA RunsExist ==
  ASSUME NEW s, IsSeq(s)
  PROVE  Runs(s) = [i \in 1..Len(s) |-> RunStep(s, Runs(s), i)]
<1> DEFINE Has(n) == \E g : g = [i \in 1..n |-> RunStep(s, g, i)]
           S == {n \in Nat : n <= Len(s) /\ ~Has(n)}
<1>0. Len(s) \in Nat
  BY DEF IsSeq
<1>1. Has(0)
  <2>1. \A i \in 1..0 : FALSE
    OBVIOUS
  <2>2. [i \in 1..0 |-> 0] = [i \in 1..0 |-> RunStep(s, [j \in 1..0 |-> 0], i)]
    BY <2>1
  <2> QED BY <2>2
<1>2. ASSUME NEW m \in Nat, m + 1 <= Len(s), Has(m) PROVE Has(m + 1)
  <2>1. PICK g : g = [i \in 1..m |-> RunStep(s, g, i)]
    BY <1>2
  <2> DEFINE h == [i \in 1 .. m + 1 |-> IF i = m + 1 THEN RunStep(s, g, i) ELSE g[i]]
  <2>2. ASSUME NEW i \in 1 .. m + 1 PROVE RunStep(s, h, i) = RunStep(s, g, i)
    <3>1. CASE i = 1
      BY <3>1 DEF RunStep
    <3>2. CASE i # 1
      <4>1. i - 1 \in 1 .. m + 1 /\ i - 1 # m + 1
        BY <3>2
      <4>2. h[i - 1] = g[i - 1]
        BY <4>1
      <4> HIDE DEF h
      <4> QED BY <3>2, <4>2 DEF RunStep
    <3> QED BY <3>1, <3>2
  <2>3. \A i \in 1 .. m + 1 : h[i] = RunStep(s, g, i)
    <3>1. \A i \in 1 .. m + 1 : i = m + 1 \/ i \in 1..m
      OBVIOUS
    <3> QED BY <2>1, <3>1
  <2>4. h = [i \in 1 .. m + 1 |-> RunStep(s, h, i)]
    <3>1. h = [i \in 1 .. m + 1 |-> h[i]]
      OBVIOUS
    <3> HIDE DEF h
    <3> QED BY <2>2, <2>3, <3>1
  <2> HIDE DEF h
  <2> QED BY <2>4
<1>3. S = {}
  <2>1. SUFFICES ASSUME S # {} PROVE FALSE
    OBVIOUS
  <2> HIDE DEF Has
  <2>2. S \in SUBSET Nat
    OBVIOUS
  <2>3. PICK n \in S : \A i \in S : n <= i
    <3> HIDE DEF S
    <3> QED BY <2>1, <2>2, Least
  <2>4. n \in Nat /\ n <= Len(s) /\ ~Has(n) /\ n # 0
    BY <1>1, <2>3
  <2>5. n - 1 \in Nat /\ n - 1 <= Len(s) /\ n - 1 \notin S /\ (n - 1) + 1 = n
    <3>1. n - 1 \in Nat /\ n - 1 <= Len(s) /\ (n - 1) + 1 = n /\ ~(n <= n - 1)
      BY <1>0, <2>4
    <3> HIDE DEF S
    <3> QED BY <2>3, <3>1
  <2>6. Has(n - 1)
    BY <2>5
  <2>7. Has(n)
    BY <1>2, <2>4, <2>5, <2>6
  <2> QED BY <2>4, <2>7
<1>4. Has(Len(s))
  <2> HIDE DEF Has
  <2> QED BY <1>0, <1>3
<1> QED BY <1>4 DEF Runs

LEMMA RunsAt ==
  ASSUME NEW s, IsSeq(s)
  PROVE  \A i \in 1..Len(s) : Runs(s)[i] = RunStep(s, Runs(s), i)
<1>1. PICK g : g = Runs(s)
  OBVIOUS
<1>2. g = [i \in 1..Len(s) |-> RunStep(s, g, i)]
  BY <1>1, RunsExist
<1>3. \A i \in 1..Len(s) : g[i] = RunStep(s, g, i)
  BY <1>2
<1> QED BY <1>1, <1>3

\* From one number to the next, up to n.
LEMMA UpTo ==
  ASSUME NEW n \in Nat, NEW S, n >= 1 => 1 \in S,
         \A i \in 1 .. n - 1 : i \in S => i + 1 \in S
  PROVE  \A i \in 1..n : i \in S
<1> DEFINE T == {i \in 1..n : i \notin S}
<1>1. SUFFICES ASSUME T # {} PROVE FALSE
  OBVIOUS
<1>2. T \in SUBSET Nat
  OBVIOUS
<1>3. PICK m \in T : \A i \in T : m <= i
  <2> HIDE DEF T
  <2> QED BY <1>1, <1>2, Least
<1>4. m \in 1..n /\ m \notin S /\ m # 1
  BY <1>3
<1>5. m - 1 \in 1 .. n - 1 /\ m - 1 \in 1..n /\ ~(m <= m - 1) /\ (m - 1) + 1 = m
  BY <1>4
<1>6. m - 1 \in S
  BY <1>3, <1>5
<1> QED BY <1>4, <1>5, <1>6

LEMMA RunsAreSeqs ==
  ASSUME NEW s, Parts(s)
  PROVE  \A i \in 1..Len(s) : IsSeq(Runs(s)[i])
<1> DEFINE n == Len(s)
           S == {i \in 1..n : IsSeq(Runs(s)[i])}
<1>1. n \in Nat /\ \A i \in 1..n : Runs(s)[i] = RunStep(s, Runs(s), i) /\ IsSeq(s[i])
  BY RunsAt, IsSeqFacts DEF Parts
<1>2. n >= 1 => 1 \in S
  BY <1>1 DEF RunStep
<1>3. ASSUME NEW i \in 1 .. n - 1, i \in S PROVE i + 1 \in S
  <2>1. i + 1 \in 1..n /\ i + 1 # 1 /\ (i + 1) - 1 = i
    BY <1>1, <1>3
  <2>2. Runs(s)[i + 1] = Runs(s)[i] \o s[i + 1]
    BY <1>1, <2>1 DEF RunStep
  <2>3. IsSeq(Runs(s)[i]) /\ IsSeq(s[i + 1])
    BY <1>1, <1>3, <2>1
  <2>4. IsSeq(Runs(s)[i] \o s[i + 1])
    BY <2>3, ConcatFacts
  <2> QED BY <2>1, <2>2, <2>4
<1>4. \A i \in 1..n : i \in S
  <2> HIDE DEF S, n
  <2> QED BY <1>1, <1>2, <1>3, UpTo
<1> QED BY <1>4

LEMMA FlattenParts ==
  ASSUME NEW s, Parts(s)
  PROVE  IsSeq(FlattenSeq(s))
<1>1. Len(s) \in Nat /\ (Len(s) # 0 => Len(s) \in 1..Len(s))
  <2>1. Len(s) \in Nat
    BY IsSeqFacts DEF Parts
  <2> QED BY <2>1
<1> QED BY <1>1, FlattenRuns, RunsAreSeqs, EmptyIsSeq DEF Parts

\* As far as two sequences are the same, they run the same.
LEMMA RunsSame ==
  ASSUME NEW s, IsSeq(s), NEW t, IsSeq(t), NEW n \in Nat, n <= Len(s), n <= Len(t),
         \A i \in 1..n : t[i] = s[i]
  PROVE  \A i \in 1..n : Runs(t)[i] = Runs(s)[i]
<1> DEFINE S == {i \in 1..n : Runs(t)[i] = Runs(s)[i]}
<1>1. \A i \in 1..n : /\ Runs(s)[i] = RunStep(s, Runs(s), i)
                      /\ Runs(t)[i] = RunStep(t, Runs(t), i)
  <2>1. Len(s) \in Nat /\ Len(t) \in Nat
    BY IsSeqFacts
  <2>2. \A i \in 1..n : i \in 1..Len(s) /\ i \in 1..Len(t)
    BY <2>1
  <2> QED BY <2>2, RunsAt
<1>2. n >= 1 => 1 \in S
  BY <1>1 DEF RunStep
<1>3. ASSUME NEW i \in 1 .. n - 1, i \in S PROVE i + 1 \in S
  <2>1. i + 1 \in 1..n /\ i + 1 # 1 /\ (i + 1) - 1 = i
    BY <1>3
  <2> QED BY <1>1, <1>3, <2>1 DEF RunStep
<1>4. \A i \in 1..n : i \in S
  <2> HIDE DEF S
  <2> QED BY <1>2, <1>3, UpTo
<1> QED BY <1>4

\* An empty part more.
LEMMA FlattenPadded ==
  ASSUME NEW s, Parts(s)
  PROVE  FlattenSeq(Append(s, <<>>)) = FlattenSeq(s)
<1> DEFINE t == Append(s, <<>>)
           n == Len(s)
<1>1. /\ n \in Nat /\ IsSeq(s) /\ IsSeq(t) /\ Len(t) = n + 1
      /\ \A i \in 1..n : t[i] = s[i]
      /\ t[n + 1] = <<>>
  BY AppendFacts, IsSeqFacts DEF Parts
<1> HIDE DEF t, n
<1>2. FlattenSeq(t) = Runs(t)[n + 1]
  <2>1. Len(t) # 0
    BY <1>1
  <2> QED BY <1>1, <2>1, FlattenRuns
<1>3. Runs(t)[n + 1] = RunStep(t, Runs(t), n + 1)
  <2>1. n + 1 \in 1..Len(t)
    BY <1>1
  <2> QED BY <1>1, <2>1, RunsAt
<1>4. CASE n = 0
  <2>1. FlattenSeq(s) = <<>>
    BY <1>1, <1>4, FlattenRuns DEF n
  <2> QED BY <1>1, <1>2, <1>3, <1>4, <2>1 DEF RunStep, t
<1>5. CASE n # 0
  <2>1. n \in 1..n /\ n + 1 # 1 /\ (n + 1) - 1 = n /\ n <= Len(t)
    BY <1>1, <1>5
  <2>2. Runs(t)[n] = Runs(s)[n]
    BY <1>1, <2>1, RunsSame DEF n
  <2>3. Runs(t)[n + 1] = Runs(s)[n] \o <<>>
    BY <1>1, <1>3, <2>1, <2>2 DEF RunStep
  <2>4. IsSeq(Runs(s)[n])
    BY <2>1, RunsAreSeqs DEF n
  <2>5. Runs(s)[n] \o <<>> = Runs(s)[n]
    BY <2>4, ConcatFacts, EmptyIsSeq
  <2>6. FlattenSeq(s) = Runs(s)[n]
    BY <1>1, <1>5, FlattenRuns DEF n
  <2> QED BY <1>2, <2>3, <2>5, <2>6 DEF t
<1> QED BY <1>4, <1>5

LEMMA FlattenBlank ==
  ASSUME NEW s, IsSeq(s), \A i \in 1..Len(s) : s[i] = <<>>
  PROVE  FlattenSeq(s) = <<>>
<1> DEFINE n == Len(s)
           S == {i \in 1..n : Runs(s)[i] = <<>>}
<1>1. n \in Nat /\ \A i \in 1..n : Runs(s)[i] = RunStep(s, Runs(s), i)
  BY RunsAt, IsSeqFacts
<1>2. n >= 1 => 1 \in S
  BY <1>1 DEF RunStep
<1>3. ASSUME NEW i \in 1 .. n - 1, i \in S PROVE i + 1 \in S
  <2>1. i + 1 \in 1..n /\ i + 1 # 1 /\ (i + 1) - 1 = i
    BY <1>1, <1>3
  <2>2. Runs(s)[i + 1] = <<>> \o <<>>
    BY <1>1, <1>3, <2>1 DEF RunStep
  <2>3. <<>> \o <<>> = <<>>
    BY EmptyIsSeq, ConcatFacts
  <2> QED BY <2>1, <2>2, <2>3
<1>4. \A i \in 1..n : i \in S
  <2> HIDE DEF S, n
  <2> QED BY <1>1, <1>2, <1>3, UpTo
<1>5. n # 0 => n \in 1..n
  BY <1>1
<1> QED BY <1>4, <1>5, FlattenRuns

\* One part more, after which the others are empty.
LEMMA FlattenGrown ==
  ASSUME NEW s, Parts(s), NEW x \in 1..Len(s), NEW v, IsSeq(v),
         s[x] = <<>>, \A i \in 1..Len(s) : i > x => s[i] = <<>>,
         NEW t, IsSeq(t), Len(t) = Len(s),
         \A i \in 1..Len(s) : t[i] = IF i = x THEN v ELSE s[i]
  PROVE  FlattenSeq(t) = FlattenSeq(s) \o v
<1> DEFINE n == Len(s)
           R(i) == Runs(s)[i]
           S == {i \in 1..n : Runs(t)[i] = IF i < x THEN R(i) ELSE R(i) \o v}
<1>1. /\ n \in Nat /\ x \in 1..n /\ IsSeq(s)
      /\ \A i \in 1..n : /\ R(i) = RunStep(s, Runs(s), i) /\ IsSeq(R(i))
                         /\ Runs(t)[i] = RunStep(t, Runs(t), i)
  BY RunsAt, RunsAreSeqs, IsSeqFacts DEF Parts
<1>2. ASSUME NEW i \in 1..n
      PROVE  R(i) \o <<>> = R(i) /\ (R(i) \o v) \o <<>> = R(i) \o v /\ <<>> \o v = v
  <2>1. IsSeq(R(i)) /\ IsSeq(<<>>)
    BY <1>1, EmptyIsSeq
  <2> HIDE DEF R
  <2>2. IsSeq(R(i) \o v)
    BY <2>1, ConcatFacts
  <2> QED BY <2>1, <2>2, ConcatFacts
<1>3. n >= 1 => 1 \in S
  <2> SUFFICES ASSUME n >= 1 PROVE 1 \in S
    OBVIOUS
  <2>1. 1 \in 1..n /\ Runs(t)[1] = t[1] /\ R(1) = s[1]
    BY <1>1 DEF RunStep
  <2>2. CASE x = 1
    <3>1. t[1] = v /\ R(1) = <<>> /\ <<>> \o v = v /\ ~(1 < x)
      BY <1>1, <1>2, <2>1, <2>2
    <3> QED BY <2>1, <3>1
  <2>3. CASE x # 1
    BY <1>1, <2>1, <2>3
  <2> QED BY <2>2, <2>3
<1>4. ASSUME NEW i \in 1 .. n - 1, i \in S PROVE i + 1 \in S
  <2>1. i \in 1..n /\ i + 1 \in 1..n /\ i + 1 # 1 /\ (i + 1) - 1 = i
    BY <1>1, <1>4
  <2>2. Runs(t)[i + 1] = Runs(t)[i] \o t[i + 1] /\ R(i + 1) = R(i) \o s[i + 1]
    BY <1>1, <2>1 DEF RunStep
  <2>3. Runs(t)[i] = IF i < x THEN R(i) ELSE R(i) \o v
    BY <1>4
  <2>4. CASE i + 1 < x
    <3>1. i < x /\ t[i + 1] = s[i + 1]
      BY <1>1, <2>1, <2>4
    <3> QED BY <2>1, <2>2, <2>3, <2>4, <3>1
  <2>5. CASE i + 1 = x
    <3>1. i < x /\ ~(i + 1 < x) /\ t[i + 1] = v /\ s[i + 1] = <<>>
      BY <1>1, <2>1, <2>5
    <3>2. Runs(t)[i + 1] = R(i) \o v /\ R(i + 1) = R(i)
      BY <1>2, <2>1, <2>2, <2>3, <3>1
    <3> QED BY <2>1, <3>1, <3>2
  <2>6. CASE i + 1 > x
    <3>1. ~(i < x) /\ ~(i + 1 < x) /\ t[i + 1] = <<>> /\ s[i + 1] = <<>>
      BY <1>1, <2>1, <2>6
    <3>2. Runs(t)[i + 1] = R(i) \o v /\ R(i + 1) = R(i)
      BY <1>2, <2>1, <2>2, <2>3, <3>1
    <3> QED BY <2>1, <3>1, <3>2
  <2> QED BY <1>1, <2>1, <2>4, <2>5, <2>6
<1>5. \A i \in 1..n : i \in S
  <2> HIDE DEF S, n
  <2> QED BY <1>1, <1>3, <1>4, UpTo
<1>6. n \in 1..n /\ ~(n < x) /\ n # 0
  BY <1>1
<1>7. Runs(t)[n] = R(n) \o v
  BY <1>5, <1>6
<1> QED BY <1>1, <1>6, <1>7, FlattenRuns

-----------------------------------------------------------------------------
(* What lines mean, from what each gives.                                  *)

\* The fields that c has of block b.
Part(c, b) == Entry(c, b, <<>>)

Mine(lines, b, key) == {i \in DOMAIN lines : lines[i].at = b /\ lines[i].key = key}

KeysAt(lines, b) == {lines[i].key : i \in {j \in DOMAIN lines : lines[j].at = b}}

FieldsAt(lines, inner, b) ==
  [key \in KeysAt(lines, b) |-> Meant(lines, inner, b, key)]

\* What each line gives is something the grammar has.
Tame(lines) ==
  /\ IsSeq(lines)
  /\ \A i \in 1..Len(lines) :
       lines[i] # Silent =>
         /\ lines[i].at.kind \in DOMAIN Grammar
         /\ lines[i].key \in DOMAIN Grammar[lines[i].at.kind]
         /\ IsSeq(lines[i].args)

\* What m lines give, by line, as one list.
Listed(n, parts) == FlattenSeq([i \in 1..n |-> Entry(parts, i, <<>>)])

LEMMA InOrderListed ==
  ASSUME NEW lines, IsSeq(lines), NEW parts
  PROVE  InOrder(lines, parts) = Listed(Len(lines), parts)
BY IsSeqFacts DEF InOrder, Listed

LEMMA NoneIsEmpty ==
  ASSUME NEW f, DOMAIN f = {}, f = [k \in DOMAIN f |-> f[k]]
  PROVE  f = <<>>
<1>1. <<>> = [i \in 1..0 |-> <<>>[i]]
  BY EmptyIsSeq DEF IsSeq
<1>2. f = [i \in 1..0 |-> <<>>[i]]
  BY <1>1
<1> QED BY <1>1, <1>2

LEMMA FillingAt ==
  ASSUME NEW lines, NEW inner, NEW b, b # Silent.at
  PROVE  Part(Filling(lines, inner), b) = FieldsAt(lines, inner, b)
<1> DEFINE bs == {lines[i].at : i \in DOMAIN lines} \ {Silent.at}
<1>1. CASE b \in bs
  <2>1. Filling(lines, inner) = [a \in bs |-> FieldsAt(lines, inner, a)]
    BY DEF Filling, FieldsAt, KeysAt
  <2> HIDE DEF bs
  <2> QED BY <1>1, <2>1 DEF Part, Entry
<1>2. CASE b \notin bs
  <2>1. KeysAt(lines, b) = {}
    BY <1>2 DEF KeysAt
  <2>2. DOMAIN FieldsAt(lines, inner, b) = {}
    BY <2>1 DEF FieldsAt
  <2>3. FieldsAt(lines, inner, b) = <<>>
    BY <2>2, NoneIsEmpty DEF FieldsAt
  <2>4. DOMAIN Filling(lines, inner) = bs
    BY DEF Filling
  <2> QED BY <1>2, <2>3, <2>4 DEF Part, Entry
<1> QED BY <1>1, <1>2

BlockParts(kind, lines, mine, inner) ==
  [i \in mine |-> <<Together(Opening(kind, lines[i].args),
                             Part(inner, [kind |-> kind, line |-> i]))>>]

\* What the last of some lines says of a pair or a header.
LastSaid(lines, some) ==
  LET last == lines[Max(some)].args IN IF Len(last) = 2 THEN last[2] ELSE ""

Naming(lines, mine, w) == {i \in mine : lines[i].args[1] = w}

\* Meant, for a directive of one kind.
MeantOf(kind, lines, inner, line, mine) ==
  IF kind \in Merged THEN Part(inner, [kind |-> kind, line |-> line])
  ELSE IF kind \in Blocks THEN InOrder(lines, BlockParts(kind, lines, mine, inner))
  ELSE IF kind = "texts" THEN InOrder(lines, [i \in mine |-> lines[i].args])
  ELSE IF kind \in {"pair", "header"}
    THEN [w \in {lines[i].args[1] : i \in mine} |-> LastSaid(lines, Naming(lines, mine, w))]
  ELSE Value(kind, lines[Max(mine)].args, <<>>)

LEMMA MeantIs ==
  ASSUME NEW lines, NEW inner, NEW b, NEW key
  PROVE  Meant(lines, inner, b, key) =
           MeantOf(Grammar[b.kind][key], lines, inner, b.line, Mine(lines, b, key))
<1>1. PICK kind, mine : kind = Grammar[b.kind][key] /\ mine = Mine(lines, b, key)
  OBVIOUS
<1>2. Merged \subseteq Blocks /\ "texts" \notin Blocks /\ "pair" \notin Blocks
      /\ "header" \notin Blocks
  BY BlocksAre DEF Merged
<1>3. CASE kind \in Merged
  BY <1>1, <1>2, <1>3 DEF Meant, MeantOf, Part
<1>4. CASE kind \in Blocks \ Merged
  <2>1. MeantOf(kind, lines, inner, b.line, mine)
          = InOrder(lines, BlockParts(kind, lines, mine, inner))
    BY <1>4 DEF MeantOf
  <2> QED BY <1>1, <1>2, <1>4, <2>1 DEF Meant, BlockParts, Part, Mine
<1>5. CASE kind = "texts"
  BY <1>1, <1>2, <1>5 DEF Meant, MeantOf, Mine
<1>6. CASE kind \in {"pair", "header"}
  BY <1>1, <1>2, <1>6 DEF Meant, MeantOf, Mine, LastSaid, Naming
<1>7. CASE kind \notin Blocks /\ kind \notin {"texts", "pair", "header"}
  BY <1>1, <1>2, <1>7 DEF Meant, MeantOf, Mine
<1> QED BY <1>2, <1>3, <1>4, <1>5, <1>6, <1>7

\* A block is called what it is, and is in the site or in a query.
LEMMA BlockDepth ==
  ASSUME NEW b \in DOMAIN Grammar, NEW h \in DOMAIN Grammar[b]
  PROVE  Grammar[b][h] \in Blocks =>
           /\ Grammar[b][h] = h
           /\ \/ b = "site" /\ h \in Blocks \ {"param", "output"}
              \/ b = "query" /\ h \in {"param", "output"}
<1>1. b \in {"site", "auth", "query", "param", "output", "route", "live_query",
             "live_route", "log"}
  BY BlocksAre
<1>2. CASE b = "site"
  BY <1>2, BlocksAre DEF Grammar, SiteBlock
<1>3. CASE b = "auth"
  BY <1>3, BlocksAre DEF Grammar, AuthBlock
<1>4. CASE b = "query"
  BY <1>4, BlocksAre DEF Grammar, QueryBlock
<1>5. CASE b = "param"
  BY <1>5, BlocksAre DEF Grammar, ParamBlock
<1>6. CASE b = "output"
  BY <1>6, BlocksAre DEF Grammar, OutputBlock
<1>7. CASE b = "route"
  BY <1>7, BlocksAre DEF Grammar, RouteBlock
<1>8. CASE b = "live_query"
  BY <1>8, BlocksAre DEF Grammar, LiveQueryBlock
<1>9. CASE b = "live_route"
  BY <1>9, BlocksAre DEF Grammar, LiveRouteBlock
<1>10. CASE b = "log"
  BY <1>10, BlocksAre DEF Grammar, LogBlock
<1> QED BY <1>1, <1>2, <1>3, <1>4, <1>5, <1>6, <1>7, <1>8, <1>9, <1>10

\* `from' is read as `source' is.
LEMMA FieldKind ==
  ASSUME NEW b \in DOMAIN Grammar, NEW h \in DOMAIN Grammar[b]
  PROVE  Field(h) \in DOMAIN Grammar[b] /\ Grammar[b][Field(h)] = Grammar[b][h]
<1>1. CASE h # "from"
  BY <1>1 DEF Field
<1>2. CASE h = "from"
  <2>1. b \in {"site", "auth", "query", "param", "output", "route", "live_query",
               "live_route", "log"}
    BY BlocksAre
  <2>2. b = "param"
    BY <1>2, <2>1 DEF Grammar, SiteBlock, AuthBlock, QueryBlock, OutputBlock, RouteBlock,
                      LiveQueryBlock, LiveRouteBlock, LogBlock
  <2> QED BY <1>2, <2>2 DEF Field, Grammar, ParamBlock
<1> QED BY <1>1, <1>2

LEMMA MineMax ==
  ASSUME NEW n \in Nat, NEW mine \in SUBSET (1..n), mine # {}
  PROVE  Max(mine) \in mine
BY Greatest

\* Some of the lines of l and m give the same, one by one and in order.
Alike(l, m, mine) ==
  /\ mine # {} /\ \E n \in Nat : mine \in SUBSET (1..n)
  /\ \A i \in mine : m[i].args = l[i].args /\ IsSeq(l[i].args)
  /\ \A parts : DOMAIN parts = mine /\ (\A i \in mine : IsSeq(parts[i]))
               => InOrder(m, parts) = InOrder(l, parts)

\* The blocks that they are, or are in, have the same in them.
SameInside(kind, line, mine, inner, outer) ==
  /\ kind \in Merged =>
       Part(outer, [kind |-> kind, line |-> line]) = Part(inner, [kind |-> kind, line |-> line])
  /\ kind \in Blocks \ Merged => \A i \in mine :
       Part(outer, [kind |-> kind, line |-> i]) = Part(inner, [kind |-> kind, line |-> i])

\* Such lines, with the same in them, mean the same.
LEMMA MeantSame ==
  ASSUME NEW kind, NEW line,
         NEW l, NEW m, NEW mine, Alike(l, m, mine),
         NEW inner, NEW outer, SameInside(kind, line, mine, inner, outer)
  PROVE  MeantOf(kind, m, outer, line, mine) = MeantOf(kind, l, inner, line, mine)
<1>1. /\ \A i \in mine : m[i].args = l[i].args /\ IsSeq(l[i].args)
      /\ \A parts : DOMAIN parts = mine /\ (\A i \in mine : IsSeq(parts[i]))
                   => InOrder(m, parts) = InOrder(l, parts)
  BY DEF Alike
<1>0. PICK n \in Nat : mine \in SUBSET (1..n) /\ mine # {}
  BY DEF Alike
<1>2. Max(mine) \in mine
  BY <1>0, MineMax
<1>3. CASE kind \in Merged
  BY <1>3 DEF MeantOf, SameInside
<1>4. CASE kind \in Blocks \ Merged
  <2>1. BlockParts(kind, m, mine, outer) = BlockParts(kind, l, mine, inner)
    BY <1>1, <1>4 DEF BlockParts, SameInside
  <2>2. PICK parts : parts = BlockParts(kind, l, mine, inner)
    OBVIOUS
  <2>3. DOMAIN parts = mine /\ \A i \in mine : IsSeq(parts[i])
    BY <2>2, UnitIsSeq DEF BlockParts
  <2>4. InOrder(m, parts) = InOrder(l, parts)
    BY <1>1, <2>3
  <2> QED BY <1>4, <2>1, <2>2, <2>4 DEF MeantOf
<1>5. CASE kind \notin Merged /\ kind \notin Blocks /\ kind = "texts"
  <2>1. [i \in mine |-> m[i].args] = [i \in mine |-> l[i].args]
    BY <1>1
  <2>2. PICK parts : parts = [i \in mine |-> l[i].args]
    OBVIOUS
  <2>3. InOrder(m, parts) = InOrder(l, parts)
    BY <1>1, <2>2
  <2> QED BY <1>5, <2>1, <2>2, <2>3 DEF MeantOf
<1>6. CASE kind \notin Merged /\ kind \notin Blocks /\ kind \in {"pair", "header"}
  <2>1. \A w : Naming(m, mine, w) = Naming(l, mine, w)
    BY <1>1 DEF Naming
  <2>2. {m[i].args[1] : i \in mine} = {l[i].args[1] : i \in mine}
    BY <1>1
  <2>3. ASSUME NEW w \in {l[i].args[1] : i \in mine}
        PROVE  LastSaid(m, Naming(m, mine, w)) = LastSaid(l, Naming(l, mine, w))
    <3>1. PICK S : S = Naming(l, mine, w)
      OBVIOUS
    <3>2. S \in SUBSET (1..n) /\ S \subseteq mine /\ S # {}
      BY <1>0, <3>1 DEF Naming
    <3>3. Max(S) \in mine
      BY <1>0, <3>2, MineMax
    <3>4. m[Max(S)].args = l[Max(S)].args
      BY <1>1, <3>3
    <3>5. LastSaid(m, S) = LastSaid(l, S)
      BY <3>4 DEF LastSaid
    <3> QED BY <2>1, <3>1, <3>5
  <2> QED BY <1>6, <2>2, <2>3 DEF MeantOf
<1>7. CASE kind \notin Merged /\ kind \notin Blocks /\ kind \notin {"texts", "pair", "header"}
  BY <1>1, <1>2, <1>7 DEF MeantOf
<1>8. Merged \subseteq Blocks
  BY BlocksAre DEF Merged
<1> QED BY <1>3, <1>4, <1>5, <1>6, <1>7, <1>8

LEMMA SilentIs ==
  /\ Silent.at.kind = "none" /\ Silent.at.line = 0 /\ Silent.key = "none"
  /\ "none" \notin DOMAIN Grammar /\ "none" \notin Blocks
BY BlocksAre DEF Silent

LEMMA MineOf ==
  ASSUME NEW l, Tame(l), NEW b, b # Silent.at, NEW key \in KeysAt(l, b)
  PROVE  /\ Mine(l, b, key) \in SUBSET (1..Len(l)) /\ Mine(l, b, key) # {}
         /\ b.kind \in DOMAIN Grammar /\ key \in DOMAIN Grammar[b.kind]
         /\ \A i \in Mine(l, b, key) : IsSeq(l[i].args)
<1>1. DOMAIN l = 1..Len(l)
  BY IsSeqFacts DEF Tame
<1>2. PICK i \in 1..Len(l) : l[i].at = b /\ l[i].key = key
  BY <1>1 DEF KeysAt
<1>3. l[i] # Silent /\ \A j \in Mine(l, b, key) : l[j] # Silent
  BY <1>2 DEF Mine
<1> QED BY <1>1, <1>2, <1>3 DEF Tame, Mine

\* A block that may be in one of some kind.
InnerKinds(b) ==
  IF b = "site" THEN Blocks \ {"param", "output"}
  ELSE IF b = "query" THEN {"param", "output"} ELSE {}

LEMMA FieldsSame ==
  ASSUME NEW l, Tame(l), NEW b, b # Silent.at, NEW inner, NEW outer,
         \A k \in InnerKinds(b.kind) : \A line :
           Part(outer, [kind |-> k, line |-> line]) = Part(inner, [kind |-> k, line |-> line])
  PROVE  FieldsAt(l, outer, b) = FieldsAt(l, inner, b)
<1>1. ASSUME NEW key \in KeysAt(l, b)
      PROVE  Meant(l, outer, b, key) = Meant(l, inner, b, key)
  <2>1. PICK kind, mine : kind = Grammar[b.kind][key] /\ mine = Mine(l, b, key)
    OBVIOUS
  <2>2. /\ mine \in SUBSET (1..Len(l)) /\ mine # {}
        /\ b.kind \in DOMAIN Grammar /\ key \in DOMAIN Grammar[b.kind]
        /\ \A i \in mine : IsSeq(l[i].args)
    BY <2>1, MineOf
  <2>3. kind \in Blocks => kind \in InnerKinds(b.kind)
    BY <2>1, <2>2, BlockDepth DEF InnerKinds
  <2>4. Merged \subseteq Blocks
    BY BlocksAre DEF Merged
  <2>5. Len(l) \in Nat
    BY IsSeqFacts DEF Tame
  <2>6. MeantOf(kind, l, outer, b.line, mine) = MeantOf(kind, l, inner, b.line, mine)
    <3>1. SameInside(kind, b.line, mine, inner, outer)
      BY <2>3, <2>4 DEF SameInside
    <3>2. Alike(l, l, mine)
      BY <2>2, <2>5 DEF Alike
    <3> QED BY <3>1, <3>2, MeantSame
  <2> QED BY <2>1, <2>6, MeantIs
<1> QED BY <1>1 DEF FieldsAt

\* No block is deeper than in a query in the site, so three times is enough.
LEMMA ContentsFixed ==
  ASSUME NEW l, Tame(l), NEW b, b # Silent.at
  PROVE  Part(Contents(l), b) = FieldsAt(l, Contents(l), b)
<1>1. ASSUME NEW a, a # Silent.at, a.kind \notin {"site", "query"}, NEW inner, NEW outer
      PROVE  FieldsAt(l, outer, a) = FieldsAt(l, inner, a)
  <2>1. InnerKinds(a.kind) = {}
    BY <1>1 DEF InnerKinds
  <2> QED BY <1>1, <2>1, FieldsSame
<1>2. ASSUME NEW k, k \in Blocks, NEW line
      PROVE  /\ [kind |-> k, line |-> line] # Silent.at
             /\ [kind |-> k, line |-> line].kind = k
             /\ k # "site"
  BY <1>2, SilentIs, BlocksAre
<1>3. ASSUME NEW a, a # Silent.at, a.kind # "site", NEW inner, NEW outer
      PROVE  FieldsAt(l, Filling(l, outer), a) = FieldsAt(l, Filling(l, inner), a)
  <2>1. ASSUME NEW k \in InnerKinds(a.kind), NEW line
        PROVE  Part(Filling(l, outer), [kind |-> k, line |-> line]) =
                 Part(Filling(l, inner), [kind |-> k, line |-> line])
    <3>1. PICK c : c = [kind |-> k, line |-> line]
      OBVIOUS
    <3>2. k \in {"param", "output"}
      BY <1>3 DEF InnerKinds
    <3>3. c # Silent.at /\ c.kind \notin {"site", "query"}
      BY <1>2, <3>1, <3>2, BlocksAre
    <3> QED BY <1>1, <3>1, <3>3, FillingAt
  <2> QED BY <1>3, <2>1, FieldsSame
<1>4. ASSUME NEW a, a # Silent.at, NEW inner, NEW outer
      PROVE  FieldsAt(l, Filling(l, Filling(l, outer)), a) =
               FieldsAt(l, Filling(l, Filling(l, inner)), a)
  <2>1. ASSUME NEW k \in InnerKinds(a.kind), NEW line
        PROVE  Part(Filling(l, Filling(l, outer)), [kind |-> k, line |-> line]) =
                 Part(Filling(l, Filling(l, inner)), [kind |-> k, line |-> line])
    <3>1. PICK c : c = [kind |-> k, line |-> line]
      OBVIOUS
    <3>2. k \in Blocks
      BY BlocksAre DEF InnerKinds
    <3>3. c # Silent.at /\ c.kind # "site"
      BY <1>2, <3>1, <3>2
    <3> QED BY <1>3, <3>1, <3>3, FillingAt
  <2> QED BY <1>4, <2>1, FieldsSame
<1>5. Part(Contents(l), b) = FieldsAt(l, Filling(l, Filling(l, <<>>)), b)
  BY FillingAt DEF Contents
<1>6. FieldsAt(l, Contents(l), b) = FieldsAt(l, Filling(l, Filling(l, <<>>)), b)
  <2>1. PICK g : g = Filling(l, <<>>)
    OBVIOUS
  <2>2. FieldsAt(l, Filling(l, Filling(l, g)), b) = FieldsAt(l, Filling(l, Filling(l, <<>>)), b)
    BY <1>4
  <2> QED BY <2>1, <2>2 DEF Contents
<1> QED BY <1>5, <1>6

-----------------------------------------------------------------------------
(* A line more.                                                            *)

\* One that gives nothing.
LEMMA TamePadded ==
  ASSUME NEW l, Tame(l), NEW m, m = Append(l, Silent)
  PROVE  /\ Tame(m) /\ DOMAIN l = 1..Len(l) /\ DOMAIN m = 1 .. Len(l) + 1
         /\ Len(l) \in Nat /\ Len(m) = Len(l) + 1
         /\ \A i \in 1..Len(l) : m[i] = l[i]
         /\ m[Len(l) + 1] = Silent
<1>1. /\ IsSeq(l) /\ Len(l) \in Nat /\ DOMAIN l = 1..Len(l)
      /\ IsSeq(m) /\ Len(m) = Len(l) + 1 /\ DOMAIN m = 1 .. Len(l) + 1
      /\ \A i \in 1..Len(l) : m[i] = l[i]
      /\ m[Len(l) + 1] = Silent
  BY IsSeqFacts, AppendFacts DEF Tame
<1>2. \A i \in 1 .. Len(l) + 1 : i \in 1..Len(l) \/ i = Len(l) + 1
  BY <1>1
<1> QED BY <1>1, <1>2 DEF Tame

LEMMA ListedPadded ==
  ASSUME NEW n \in Nat, NEW parts, DOMAIN parts \subseteq 1..n,
         \A i \in DOMAIN parts : IsSeq(parts[i])
  PROVE  Listed(n + 1, parts) = Listed(n, parts)
<1> DEFINE s == [i \in 1..n |-> Entry(parts, i, <<>>)]
           t == [i \in 1 .. n + 1 |-> Entry(parts, i, <<>>)]
<1>1. IsSeq(s) /\ Len(s) = n
  BY FunctionIsSeq
<1>2. IsSeq(t) /\ Len(t) = n + 1
  <2>1. n + 1 \in Nat
    OBVIOUS
  <2>2. PICK k \in Nat : k = n + 1
    BY <2>1
  <2>3. t = [i \in 1..k |-> t[i]]
    BY <2>2
  <2> HIDE DEF t
  <2> QED BY <2>2, <2>3, FunctionIsSeq
<1>3. \A i \in 1..n : IsSeq(s[i])
  BY EmptyIsSeq DEF Entry
<1>4. n + 1 \notin DOMAIN parts
  OBVIOUS
<1>5. t[n + 1] = <<>>
  BY <1>4 DEF Entry
<1>6. t = Append(s, <<>>)
  <2>1. /\ IsSeq(Append(s, <<>>)) /\ Len(Append(s, <<>>)) = n + 1
        /\ \A i \in 1..n : Append(s, <<>>)[i] = s[i]
        /\ Append(s, <<>>)[n + 1] = <<>>
    <3> HIDE DEF s
    <3> QED BY <1>1, AppendFacts
  <2>2. \A i \in 1..n : t[i] = s[i]
    OBVIOUS
  <2>3. \A i \in 1 .. n + 1 : i \in 1..n \/ i = n + 1
    OBVIOUS
  <2> HIDE DEF s, t
  <2> QED BY <1>2, <1>5, <2>1, <2>2, <2>3, SeqsEqual
<1>7. FlattenSeq(t) = FlattenSeq(s)
  <2>1. Parts(s)
    BY <1>1, <1>3 DEF Parts
  <2> HIDE DEF s, t
  <2> QED BY <1>6, <2>1, FlattenPadded
<1> QED BY <1>7 DEF Listed

LEMMA ContentsPadded ==
  ASSUME NEW l, Tame(l), NEW m, m = Append(l, Silent)
  PROVE  Contents(m) = Contents(l)
<1>1. /\ Tame(m) /\ DOMAIN l = 1..Len(l) /\ DOMAIN m = 1 .. Len(l) + 1
      /\ Len(l) \in Nat /\ Len(m) = Len(l) + 1
      /\ \A i \in 1..Len(l) : m[i] = l[i]
      /\ m[Len(l) + 1] = Silent
  BY TamePadded
<1>2. \A i \in 1 .. Len(l) + 1 : i \in 1..Len(l) \/ i = Len(l) + 1
  BY <1>1
<1>3. ASSUME NEW b, b # Silent.at
      PROVE  /\ KeysAt(m, b) = KeysAt(l, b)
             /\ \A key : Mine(m, b, key) = Mine(l, b, key)
  BY <1>1, <1>2, <1>3 DEF KeysAt, Mine
<1>4. {m[i].at : i \in DOMAIN m} \ {Silent.at} = {l[i].at : i \in DOMAIN l} \ {Silent.at}
  BY <1>1, <1>2
<1>5. ASSUME NEW b, b # Silent.at, NEW inner, NEW key \in KeysAt(l, b)
      PROVE  Meant(m, inner, b, key) = Meant(l, inner, b, key)
  <2>1. PICK kind, mine : kind = Grammar[b.kind][key] /\ mine = Mine(l, b, key)
    OBVIOUS
  <2>2. /\ mine \in SUBSET (1..Len(l)) /\ mine # {}
        /\ \A i \in mine : IsSeq(l[i].args)
    BY <1>5, <2>1, MineOf
  <2>3. \A i \in mine : m[i].args = l[i].args
    BY <1>1, <2>2
  <2>4. ASSUME NEW parts, DOMAIN parts = mine, \A i \in mine : IsSeq(parts[i])
        PROVE  InOrder(m, parts) = InOrder(l, parts)
    <3>1. Listed(Len(l) + 1, parts) = Listed(Len(l), parts)
      BY <1>1, <2>2, <2>4, ListedPadded
    <3> QED BY <1>1, <3>1, InOrderListed DEF Tame
  <2>5. MeantOf(kind, m, inner, b.line, mine) = MeantOf(kind, l, inner, b.line, mine)
    <3>1. Alike(l, m, mine)
      BY <1>1, <2>2, <2>3, <2>4 DEF Alike
    <3>2. SameInside(kind, b.line, mine, inner, inner)
      BY DEF SameInside
    <3> QED BY <3>1, <3>2, MeantSame
  <2> QED BY <1>3, <1>5, <2>1, <2>5, MeantIs
<1>6. ASSUME NEW inner PROVE Filling(m, inner) = Filling(l, inner)
  <2>1. PICK bs : /\ bs = {l[i].at : i \in DOMAIN l} \ {Silent.at}
                  /\ bs = {m[i].at : i \in DOMAIN m} \ {Silent.at}
    BY <1>4
  <2>2. /\ Filling(l, inner) = [b \in bs |-> FieldsAt(l, inner, b)]
        /\ Filling(m, inner) = [b \in bs |-> FieldsAt(m, inner, b)]
    BY <2>1 DEF Filling, FieldsAt, KeysAt
  <2>3. \A b \in bs : FieldsAt(m, inner, b) = FieldsAt(l, inner, b)
    BY <1>3, <1>5, <2>1 DEF FieldsAt
  <2> QED BY <2>2, <2>3
<1> QED BY <1>6 DEF Contents

\* One that gave nothing gives v, in a block whose line gives nothing yet, and
\* none after it gives that block anything.
Adds(l, m, x, v) ==
  /\ Tame(l) /\ Tame(m) /\ Len(m) = Len(l)
  /\ x \in 1..Len(l) /\ l[x] = Silent /\ m[x] = v /\ v.at # Silent.at
  /\ \A i \in 1..Len(l) : i # x => m[i] = l[i]
  /\ v.at.line \in 1..Len(l) => m[v.at.line] = Silent
  /\ \A i \in 1..Len(l) : i > x => l[i].at # v.at

\* Nothing in b comes of block p.
Untouched(b, p) ==
  b # p /\ ~(p.kind \in Merged /\ p.line = b.line /\ p.kind \in InnerKinds(b.kind))

AddsAlike(l, m, x, v) ==
  \A b : b # Silent.at =>
    \A key : /\ x \notin Mine(l, b, key)
             /\ (b # v.at \/ key # v.key) => Mine(m, b, key) = Mine(l, b, key)
             /\ b # v.at => KeysAt(m, b) = KeysAt(l, b)

LEMMA AddsMine ==
  ASSUME NEW l, NEW m, NEW x, NEW v, Adds(l, m, x, v)
  PROVE  /\ DOMAIN l = 1..Len(l) /\ DOMAIN m = 1..Len(l) /\ Len(l) \in Nat
         /\ AddsAlike(l, m, x, v)
         /\ \A mine : mine # {} /\ mine \in SUBSET (1..Len(l)) /\ x \notin mine
                        /\ (\A i \in mine : IsSeq(l[i].args)) => Alike(l, m, mine)
<1>1. DOMAIN l = 1..Len(l) /\ DOMAIN m = 1..Len(l) /\ Len(l) \in Nat
  BY IsSeqFacts DEF Adds, Tame
<1>2. /\ \A i \in 1..Len(l) : i # x => m[i] = l[i]
      /\ x \in 1..Len(l) /\ l[x] = Silent /\ m[x] = v
  BY DEF Adds
<1>3. ASSUME NEW b, b # Silent.at, NEW key
      PROVE  /\ x \notin Mine(l, b, key)
             /\ (b # v.at \/ key # v.key) => Mine(m, b, key) = Mine(l, b, key)
             /\ b # v.at => KeysAt(m, b) = KeysAt(l, b)
  BY <1>1, <1>2, <1>3 DEF Mine, KeysAt
<1>4. \A parts : InOrder(m, parts) = InOrder(l, parts)
  BY InOrderListed DEF Adds, Tame
<1>5. ASSUME NEW mine, mine # {}, mine \in SUBSET (1..Len(l)), x \notin mine,
             \A i \in mine : IsSeq(l[i].args)
      PROVE  Alike(l, m, mine)
  BY <1>1, <1>2, <1>4, <1>5 DEF Alike
<1> QED BY <1>1, <1>3, <1>5 DEF AddsAlike

\* If the blocks in a are as before, so is a, but for the block added to.
LEMMA ElsewhereIf ==
  ASSUME NEW l, NEW m, NEW x, NEW v, Adds(l, m, x, v), NEW c, NEW d,
         NEW a, a # Silent.at,
         \A k \in InnerKinds(a.kind) : \A line :
           Untouched([kind |-> k, line |-> line], v.at) =>
             Part(d, [kind |-> k, line |-> line]) = Part(c, [kind |-> k, line |-> line]),
         NEW key \in KeysAt(l, a), a # v.at \/ key # v.key,
         ~(v.at.kind \in Merged /\ v.at.line = a.line /\ key = v.at.kind)
  PROVE  Meant(m, d, a, key) = Meant(l, c, a, key)
<1>1. PICK kind, mine : kind = Grammar[a.kind][key] /\ mine = Mine(l, a, key)
  OBVIOUS
<1>2. /\ mine \in SUBSET (1..Len(l)) /\ mine # {}
      /\ a.kind \in DOMAIN Grammar /\ key \in DOMAIN Grammar[a.kind]
      /\ \A i \in mine : IsSeq(l[i].args)
  BY <1>1, MineOf DEF Adds
<1>3. Mine(m, a, key) = mine /\ x \notin mine
  BY <1>1, AddsMine DEF AddsAlike
<1>4. Alike(l, m, mine)
  BY <1>2, <1>3, AddsMine
<1>5. kind \in Blocks => kind = key /\ kind \in InnerKinds(a.kind)
  BY <1>1, <1>2, BlockDepth DEF InnerKinds
<1>6. kind \in Merged => kind \in Blocks /\ InnerKinds(kind) = {}
  BY BlocksAre DEF Merged, InnerKinds
<1>7. ASSUME kind \in Merged
      PROVE  Part(d, [kind |-> kind, line |-> a.line]) = Part(c, [kind |-> kind, line |-> a.line])
  <2>1. PICK b : b = [kind |-> kind, line |-> a.line]
    OBVIOUS
  <2>2. b.kind = kind /\ b.line = a.line
    BY <2>1
  <2>3. b # v.at
    BY <1>5, <1>6, <1>7, <2>2
  <2>4. Untouched(b, v.at)
    BY <1>6, <1>7, <2>2, <2>3 DEF Untouched
  <2> QED BY <1>5, <1>6, <1>7, <2>1, <2>4
<1>8. ASSUME kind \in Blocks \ Merged, NEW i \in mine
      PROVE  Part(d, [kind |-> kind, line |-> i]) = Part(c, [kind |-> kind, line |-> i])
  <2>1. PICK b : b = [kind |-> kind, line |-> i]
    OBVIOUS
  <2>2. b.kind = kind /\ b.line = i
    BY <2>1
  <2>3. m[i] # Silent
    <3>1. m[i].at = a
      BY <1>3, <1>8 DEF Mine
    <3> QED BY <3>1
  <2>4. v.at.line # i
    BY <1>2, <1>8, <2>3 DEF Adds
  <2>5. Untouched(b, v.at)
    BY <2>2, <2>4 DEF Untouched
  <2> QED BY <1>5, <1>8, <2>1, <2>5
<1>9. SameInside(kind, a.line, mine, c, d)
  BY <1>7, <1>8 DEF SameInside
<1>10. MeantOf(kind, m, d, a.line, mine) = MeantOf(kind, l, c, a.line, mine)
  BY <1>4, <1>9, MeantSame
<1> QED BY <1>1, <1>3, <1>10, MeantIs

LEMMA MergedKey ==
  ASSUME NEW b \in DOMAIN Grammar, NEW h \in DOMAIN Grammar[b], h \in Merged
  PROVE  h \in InnerKinds(b)
<1>1. b \in {"site", "auth", "query", "param", "output", "route", "live_query",
             "live_route", "log"}
  BY BlocksAre
<1>2. b \in {"site", "query"}
  BY <1>1 DEF Merged, Grammar, AuthBlock, ParamBlock, OutputBlock, RouteBlock,
              LiveQueryBlock, LiveRouteBlock, LogBlock
<1> QED BY <1>2, BlocksAre DEF Merged, InnerKinds, Grammar, SiteBlock, QueryBlock

LEMMA ElsewhereAbove ==
  ASSUME NEW l, NEW m, NEW x, NEW v, Adds(l, m, x, v),
         NEW a, a # Silent.at, Untouched(a, v.at),
         \A k \in InnerKinds(a.kind) : \A line :
           Untouched([kind |-> k, line |-> line], v.at) =>
             Part(Contents(m), [kind |-> k, line |-> line]) =
               Part(Contents(l), [kind |-> k, line |-> line])
  PROVE  Part(Contents(m), a) = Part(Contents(l), a)
<1>0. Tame(l) /\ Tame(m)
  BY DEF Adds
<1>1. PICK c, d : c = Contents(l) /\ d = Contents(m)
  OBVIOUS
<1>2. a # v.at
  BY DEF Untouched
<1>3. KeysAt(m, a) = KeysAt(l, a)
  BY <1>2, AddsMine DEF AddsAlike
<1>4. ASSUME NEW key \in KeysAt(l, a)
      PROVE  Meant(m, d, a, key) = Meant(l, c, a, key)
  <2>1. a.kind \in DOMAIN Grammar /\ key \in DOMAIN Grammar[a.kind]
    BY <1>0, MineOf
  <2>2. ~(v.at.kind \in Merged /\ v.at.line = a.line /\ key = v.at.kind)
    BY <2>1, MergedKey DEF Untouched
  <2> QED BY <1>1, <1>2, <2>2, ElsewhereIf
<1>5. FieldsAt(m, d, a) = FieldsAt(l, c, a)
  BY <1>3, <1>4 DEF FieldsAt
<1> QED BY <1>0, <1>1, <1>5, ContentsFixed

LEMMA ElsewhereSame ==
  ASSUME NEW l, NEW m, NEW x, NEW v, Adds(l, m, x, v),
         NEW b, b # Silent.at, Untouched(b, v.at)
  PROVE  Part(Contents(m), b) = Part(Contents(l), b)
<1>1. ASSUME NEW k, k \in Blocks, NEW line
      PROVE  /\ [kind |-> k, line |-> line] # Silent.at
             /\ [kind |-> k, line |-> line].kind = k
             /\ k # "site"
  BY <1>1, SilentIs, BlocksAre
<1>2. ASSUME NEW a, a # Silent.at, Untouched(a, v.at), a.kind \notin {"site", "query"}
      PROVE  Part(Contents(m), a) = Part(Contents(l), a)
  <2>1. InnerKinds(a.kind) = {}
    BY <1>2 DEF InnerKinds
  <2> QED BY <1>2, <2>1, ElsewhereAbove
<1>3. ASSUME NEW a, a # Silent.at, Untouched(a, v.at), a.kind # "site"
      PROVE  Part(Contents(m), a) = Part(Contents(l), a)
  <2>1. ASSUME NEW k \in InnerKinds(a.kind), NEW line,
               Untouched([kind |-> k, line |-> line], v.at)
        PROVE  Part(Contents(m), [kind |-> k, line |-> line]) =
                 Part(Contents(l), [kind |-> k, line |-> line])
    <3>1. k \in {"param", "output"}
      BY <1>3 DEF InnerKinds
    <3>2. k \in Blocks /\ k \notin {"site", "query"}
      BY <3>1, BlocksAre
    <3> QED BY <1>1, <1>2, <2>1, <3>2
  <2> QED BY <1>3, <2>1, ElsewhereAbove
<1>4. ASSUME NEW k \in InnerKinds(b.kind), NEW line,
             Untouched([kind |-> k, line |-> line], v.at)
      PROVE  Part(Contents(m), [kind |-> k, line |-> line]) =
               Part(Contents(l), [kind |-> k, line |-> line])
  <2>1. k \in Blocks
    BY BlocksAre DEF InnerKinds
  <2> QED BY <1>1, <1>3, <1>4, <2>1
<1> QED BY <1>4, ElsewhereAbove

\* What the line is read in has the same in all other directives: but for the
\* block added to, nothing changes in it that is not of the line's own.
LEMMA ElsewhereFields ==
  ASSUME NEW l, NEW m, NEW x, NEW v, Adds(l, m, x, v),
         NEW a, a # Silent.at, a # v.at
  PROVE  /\ DOMAIN Part(Contents(m), a) = DOMAIN Part(Contents(l), a)
         /\ \A key \in DOMAIN Part(Contents(l), a) :
              ~(v.at.kind \in Merged /\ v.at.line = a.line /\ key = v.at.kind) =>
                Part(Contents(m), a)[key] = Part(Contents(l), a)[key]
<1>0. Tame(l) /\ Tame(m)
  BY DEF Adds
<1>1. PICK c, d : c = Contents(l) /\ d = Contents(m)
  OBVIOUS
<1>2. KeysAt(m, a) = KeysAt(l, a)
  BY AddsMine DEF AddsAlike
<1>3. ASSUME NEW k \in InnerKinds(a.kind), NEW line,
             Untouched([kind |-> k, line |-> line], v.at)
      PROVE  Part(d, [kind |-> k, line |-> line]) = Part(c, [kind |-> k, line |-> line])
  <2>1. k \in Blocks
    BY BlocksAre DEF InnerKinds
  <2>2. [kind |-> k, line |-> line] # Silent.at
    BY <2>1, SilentIs
  <2> QED BY <1>1, <1>3, <2>2, ElsewhereSame
<1>4. Part(c, a) = FieldsAt(l, c, a) /\ Part(d, a) = FieldsAt(m, d, a)
  BY <1>0, <1>1, ContentsFixed
<1>5. ASSUME NEW key \in KeysAt(l, a),
             ~(v.at.kind \in Merged /\ v.at.line = a.line /\ key = v.at.kind)
      PROVE  Meant(m, d, a, key) = Meant(l, c, a, key)
  BY <1>3, <1>5, ElsewhereIf
<1> QED BY <1>1, <1>2, <1>4, <1>5 DEF FieldsAt

LEMMA EntriesAreParts ==
  ASSUME NEW n \in Nat, NEW parts, \A i \in DOMAIN parts : IsSeq(parts[i]),
         NEW s, s = [i \in 1..n |-> Entry(parts, i, <<>>)]
  PROVE  Parts(s) /\ Len(s) = n
<1>1. IsSeq(s) /\ Len(s) = n
  BY FunctionIsSeq
<1>2. \A i \in 1..n : IsSeq(s[i])
  BY EmptyIsSeq DEF Entry
<1> QED BY <1>1, <1>2 DEF Parts

LEMMA ListedNone ==
  ASSUME NEW n \in Nat, NEW parts, DOMAIN parts = {}
  PROVE  Listed(n, parts) = <<>>
<1> DEFINE s == [i \in 1..n |-> Entry(parts, i, <<>>)]
<1>1. Len(s) = n /\ IsSeq(s)
  BY FunctionIsSeq
<1>2. \A i \in 1..n : s[i] = <<>>
  BY DEF Entry
<1>3. FlattenSeq(s) = <<>>
  <2> HIDE DEF s
  <2> QED BY <1>1, <1>2, FlattenBlank
<1> QED BY <1>3 DEF Listed

\* One part more, at x, after all the others.
Longer(n, parts, more, x) ==
  /\ x \in 1..n /\ x \notin DOMAIN parts
  /\ \A i \in DOMAIN parts : i \in 1..n /\ i < x /\ IsSeq(parts[i]) /\ more[i] = parts[i]
  /\ DOMAIN more = DOMAIN parts \cup {x}
  /\ IsSeq(more[x])

LEMMA ListedGrown ==
  ASSUME NEW n \in Nat, NEW parts, NEW more, NEW x, Longer(n, parts, more, x)
  PROVE  Listed(n, more) = Listed(n, parts) \o more[x] /\ IsSeq(Listed(n, parts))
<1>0. /\ x \in 1..n /\ x \notin DOMAIN parts /\ DOMAIN more = DOMAIN parts \cup {x}
      /\ \A i \in DOMAIN parts : i \in 1..n /\ i < x /\ IsSeq(parts[i]) /\ more[i] = parts[i]
      /\ IsSeq(more[x])
  BY DEF Longer
<1>1. PICK s : s = [i \in 1..n |-> Entry(parts, i, <<>>)]
  OBVIOUS
<1>2. PICK t : t = [i \in 1..n |-> Entry(more, i, <<>>)]
  OBVIOUS
<1>3. Parts(s) /\ Len(s) = n
  BY <1>0, <1>1, EntriesAreParts
<1>4. \A i \in DOMAIN more : IsSeq(more[i])
  BY <1>0
<1>5. IsSeq(t) /\ Len(t) = n
  BY <1>2, <1>4, EntriesAreParts DEF Parts
<1>6. PICK v : v = more[x]
  OBVIOUS
<1>7. /\ s[x] = <<>> /\ \A i \in 1..n : i > x => s[i] = <<>>
      /\ \A i \in 1..n : t[i] = IF i = x THEN v ELSE s[i]
  <2>1. \A i \in 1..n : i > x => i \notin DOMAIN parts
    BY <1>0
  <2> QED BY <1>0, <1>1, <1>2, <1>6, <2>1 DEF Entry
<1>8. FlattenSeq(t) = FlattenSeq(s) \o v
  <2>1. /\ x \in 1..Len(s) /\ IsSeq(v) /\ Len(t) = Len(s)
        /\ s[x] = <<>> /\ \A i \in 1..Len(s) : i > x => s[i] = <<>>
        /\ \A i \in 1..Len(s) : t[i] = IF i = x THEN v ELSE s[i]
    BY <1>0, <1>3, <1>5, <1>6, <1>7
  <2> QED BY <1>3, <1>5, <2>1, FlattenGrown
<1>9. IsSeq(FlattenSeq(s))
  BY <1>3, FlattenParts
<1> QED BY <1>1, <1>2, <1>6, <1>8, <1>9 DEF Listed

LEMMA AddsBelow ==
  ASSUME NEW l, NEW m, NEW x, NEW v, Adds(l, m, x, v)
  PROVE  /\ v.at.kind \in DOMAIN Grammar /\ v.key \in DOMAIN Grammar[v.at.kind]
         /\ IsSeq(v.args) /\ m[x] = v /\ x \in 1..Len(l) /\ Len(l) \in Nat
         /\ \A i \in Mine(l, v.at, v.key) : m[i] = l[i] /\ i \in 1..Len(l) /\ i < x
                                            /\ IsSeq(l[i].args)
         /\ Mine(m, v.at, v.key) = Mine(l, v.at, v.key) \cup {x}
         /\ Max(Mine(m, v.at, v.key)) = x
         /\ KeysAt(m, v.at) = KeysAt(l, v.at) \cup {v.key}
         /\ v.key \in KeysAt(l, v.at) <=> Mine(l, v.at, v.key) # {}
<1>1. /\ DOMAIN l = 1..Len(l) /\ DOMAIN m = 1..Len(l) /\ Len(l) \in Nat
      /\ x \in 1..Len(l) /\ l[x] = Silent /\ m[x] = v /\ v.at # Silent.at
      /\ \A i \in 1..Len(l) : i # x => m[i] = l[i]
      /\ \A i \in 1..Len(l) : i > x => l[i].at # v.at
      /\ Tame(l) /\ Tame(m) /\ Len(m) = Len(l)
  BY AddsMine DEF Adds
<1>2. v # Silent
  BY <1>1
<1>3. /\ v.at.kind \in DOMAIN Grammar /\ v.key \in DOMAIN Grammar[v.at.kind]
      /\ IsSeq(v.args)
  BY <1>1, <1>2 DEF Tame
<1>4. PICK M : M = Mine(l, v.at, v.key)
  OBVIOUS
<1>5. \A i \in M : m[i] = l[i] /\ i \in 1..Len(l) /\ i < x /\ IsSeq(l[i].args)
  <2>1. \A i \in M : i \in 1..Len(l) /\ l[i].at = v.at /\ l[i] # Silent
    BY <1>1, <1>4 DEF Mine
  <2>2. \A i \in M : i # x /\ ~(i > x)
    BY <1>1, <2>1
  <2> QED BY <1>1, <2>1, <2>2 DEF Tame
<1>6. Mine(m, v.at, v.key) = M \cup {x}
  BY <1>1, <1>4 DEF Mine
<1>7. Max(M \cup {x}) = x
  <2>1. PICK S : S = M \cup {x}
    OBVIOUS
  <2>2. S \in SUBSET (1..Len(l)) /\ x \in S /\ S # {}
    BY <1>1, <1>5, <2>1
  <2>3. Max(S) \in S /\ Max(S) >= x
    BY <1>1, <2>2, Greatest
  <2>4. Max(S) \notin M
    BY <1>1, <1>5, <2>3
  <2> QED BY <2>1, <2>3, <2>4
<1>8. KeysAt(m, v.at) = KeysAt(l, v.at) \cup {v.key}
  BY <1>1 DEF KeysAt
<1>9. v.key \in KeysAt(l, v.at) <=> M # {}
  BY <1>1, <1>4 DEF KeysAt, Mine
<1> QED BY <1>1, <1>3, <1>4, <1>5, <1>6, <1>7, <1>8, <1>9

\* What the directive has once line x gave it arguments, after old.
Gained(kind, c, line, x, args, old) ==
  IF kind \in Merged THEN Part(c, [kind |-> kind, line |-> line])
  ELSE IF kind \in Blocks
    THEN Append(old, Together(Opening(kind, args), Part(c, [kind |-> kind, line |-> x])))
  ELSE Value(kind, args, old)

\* A list gets one part more.
LEMMA ListGained ==
  ASSUME NEW l, IsSeq(l), NEW m, IsSeq(m), Len(m) = Len(l),
         NEW parts, NEW more, NEW x, Longer(Len(l), parts, more, x)
  PROVE  /\ InOrder(m, more) = InOrder(l, parts) \o more[x]
         /\ IsSeq(InOrder(l, parts))
         /\ DOMAIN parts = {} => InOrder(l, parts) = <<>>
<1>2. PICK n \in Nat : n = Len(l)
  BY IsSeqFacts
<1>3. Listed(n, more) = Listed(n, parts) \o more[x] /\ IsSeq(Listed(n, parts))
  BY <1>2, ListedGrown
<1>4. DOMAIN parts = {} => Listed(n, parts) = <<>>
  BY ListedNone
<1> QED BY <1>2, <1>3, <1>4, InOrderListed

LEMMA MeantGained ==
  ASSUME NEW l, NEW m, NEW x, NEW v, Adds(l, m, x, v), NEW c, NEW d,
         NEW kind, kind = Grammar[v.at.kind][v.key],
         \A k \in InnerKinds(v.at.kind) : \A line :
           Untouched([kind |-> k, line |-> line], v.at) =>
             Part(d, [kind |-> k, line |-> line]) = Part(c, [kind |-> k, line |-> line]),
         NEW old, old = IF v.key \in KeysAt(l, v.at) THEN Meant(l, c, v.at, v.key) ELSE <<>>
  PROVE  Meant(m, d, v.at, v.key) = Gained(kind, c, v.at.line, x, v.args, old)
<1>1. PICK p, mine, all : /\ p = v.at /\ mine = Mine(l, p, v.key)
                          /\ all = Mine(m, p, v.key)
  OBVIOUS
<1>2. /\ p.kind \in DOMAIN Grammar /\ v.key \in DOMAIN Grammar[p.kind]
      /\ IsSeq(v.args) /\ m[x] = v
      /\ \A i \in mine : m[i] = l[i] /\ i < x /\ IsSeq(l[i].args)
      /\ all = mine \cup {x} /\ Max(all) = x
  BY <1>1, AddsBelow
<1>3. old = IF mine = {} THEN <<>> ELSE MeantOf(kind, l, c, p.line, mine)
  <2>1. v.key \in KeysAt(l, v.at) <=> mine # {}
    <3>1. v.key \in KeysAt(l, v.at) <=> Mine(l, v.at, v.key) # {}
      BY AddsBelow
    <3> QED BY <1>1, <3>1
  <2>2. Meant(l, c, v.at, v.key) = MeantOf(kind, l, c, p.line, mine)
    BY <1>1, MeantIs
  <2> QED BY <2>1, <2>2
<1>4. Meant(m, d, p, v.key) = MeantOf(kind, m, d, p.line, all)
  BY <1>1, MeantIs
<1>5. kind \in Blocks => kind \in InnerKinds(p.kind) /\ p.kind \in {"site", "query"}
  BY <1>1, <1>2, BlockDepth DEF InnerKinds
<1>6. /\ x \notin mine /\ \A i \in mine : i \in 1..Len(l)
      /\ x \in 1..Len(l) /\ Len(l) \in Nat
  BY <1>1, <1>2, AddsBelow
<1>13. IsSeq(l) /\ IsSeq(m) /\ Len(m) = Len(l)
  BY DEF Adds, Tame
<1>7. CASE kind \in Merged
  <2>1. kind \in Blocks /\ InnerKinds(kind) = {} /\ kind # p.kind
    BY <1>5, <1>7, BlocksAre DEF Merged, InnerKinds
  <2>2. PICK b : b = [kind |-> kind, line |-> p.line]
    OBVIOUS
  <2>3. b.kind = kind /\ b # p
    BY <2>1, <2>2
  <2>4. Untouched(b, p)
    BY <2>1, <2>3 DEF Untouched
  <2>5. Part(d, b) = Part(c, b)
    BY <1>1, <1>5, <2>1, <2>2, <2>4
  <2> QED BY <1>1, <1>4, <1>7, <2>2, <2>5 DEF MeantOf, Gained
<1>8. CASE kind \in Blocks \ Merged
  <2>1. ASSUME NEW i \in all
        PROVE  Part(d, [kind |-> kind, line |-> i]) = Part(c, [kind |-> kind, line |-> i])
    <3>1. PICK b : b = [kind |-> kind, line |-> i]
      OBVIOUS
    <3>2. b.kind = kind /\ b.line = i
      BY <3>1
    <3>3. i \in 1..Len(l) /\ m[i] # Silent
      <4>1. i \in 1..Len(l)
        BY <1>1, <1>2, <1>6, AddsBelow
      <4>2. m[i].at = p
        BY <1>1 DEF Mine
      <4>3. p # Silent.at
        BY <1>1 DEF Adds
      <4> QED BY <4>1, <4>2, <4>3
    <3>4. p.line # i
      BY <1>1, <3>3 DEF Adds
    <3>5. Untouched(b, p)
      BY <3>2, <3>4 DEF Untouched
    <3> QED BY <1>1, <1>5, <1>8, <3>1, <3>5
  <2>2. PICK parts, more : /\ parts = BlockParts(kind, l, mine, c)
                           /\ more = BlockParts(kind, m, all, d)
    OBVIOUS
  <2>3. DOMAIN parts = mine /\ Longer(Len(l), parts, more, x)
    <3>1. /\ DOMAIN parts = mine /\ \A i \in mine : IsSeq(parts[i])
          /\ DOMAIN more = mine \cup {x} /\ \A i \in mine : more[i] = parts[i]
          /\ IsSeq(more[x])
      BY <1>2, <2>1, <2>2, UnitIsSeq DEF BlockParts
    <3> QED BY <1>2, <1>6, <3>1 DEF Longer
  <2>4. PICK e : /\ e = Together(Opening(kind, v.args), Part(c, [kind |-> kind, line |-> x]))
                 /\ more[x] = <<e>>
    BY <1>2, <2>1, <2>2 DEF BlockParts
  <2>5. /\ InOrder(m, more) = InOrder(l, parts) \o <<e>>
        /\ IsSeq(InOrder(l, parts))
        /\ mine = {} => InOrder(l, parts) = <<>>
    <3>1. /\ InOrder(m, more) = InOrder(l, parts) \o more[x]
          /\ IsSeq(InOrder(l, parts))
          /\ DOMAIN parts = {} => InOrder(l, parts) = <<>>
      BY <1>13, <2>3, ListGained
    <3> QED BY <2>3, <2>4, <3>1
  <2>6. InOrder(l, parts) = old
    BY <1>3, <1>8, <2>2, <2>5 DEF MeantOf
  <2>7. Append(old, e) = old \o <<e>>
    BY <2>5, <2>6, AppendUnit
  <2>8. MeantOf(kind, m, d, p.line, all) = InOrder(m, more)
    BY <1>8, <2>2 DEF MeantOf
  <2>9. Gained(kind, c, p.line, x, v.args, old) = Append(old, e)
    BY <1>8, <2>4 DEF Gained
  <2> QED BY <1>1, <1>4, <2>5, <2>6, <2>7, <2>8, <2>9
<1>9. CASE kind \notin Merged /\ kind \notin Blocks /\ kind = "texts"
  <2>1. PICK parts, more : /\ parts = [i \in mine |-> l[i].args]
                           /\ more = [i \in all |-> m[i].args]
    OBVIOUS
  <2>2. DOMAIN parts = mine /\ more[x] = v.args /\ Longer(Len(l), parts, more, x)
    <3>1. /\ DOMAIN parts = mine /\ \A i \in mine : IsSeq(parts[i])
          /\ DOMAIN more = mine \cup {x} /\ \A i \in mine : more[i] = parts[i]
          /\ more[x] = v.args
      BY <1>2, <2>1
    <3> QED BY <1>2, <1>6, <3>1 DEF Longer
  <2>3. /\ InOrder(m, more) = InOrder(l, parts) \o v.args
        /\ mine = {} => InOrder(l, parts) = <<>>
    <3>1. /\ InOrder(m, more) = InOrder(l, parts) \o more[x]
          /\ IsSeq(InOrder(l, parts))
          /\ DOMAIN parts = {} => InOrder(l, parts) = <<>>
      BY <1>13, <2>2, ListGained
    <3> QED BY <2>2, <3>1
  <2>4. InOrder(l, parts) = old
    BY <1>3, <1>9, <2>1, <2>3 DEF MeantOf
  <2>5. MeantOf(kind, m, d, p.line, all) = InOrder(m, more)
    BY <1>9, <2>1 DEF MeantOf
  <2>6. Gained(kind, c, p.line, x, v.args, old) = old \o v.args
    BY <1>9 DEF Gained, Value
  <2> QED BY <1>1, <1>4, <2>3, <2>4, <2>5, <2>6
<1>10. CASE kind \notin Merged /\ kind \notin Blocks /\ kind \in {"pair", "header"}
  <2>1. PICK says, ws, us, h : /\ says = IF Len(v.args) = 2 THEN v.args[2] ELSE ""
                               /\ ws = {l[i].args[1] : i \in mine}
                               /\ us = {m[i].args[1] : i \in all}
                               /\ h = v.args[1]
    OBVIOUS
  <2>2. us = ws \cup {h} /\ m[x].args = v.args
    <3>1. m[x] = v /\ all = mine \cup {x} /\ \A i \in mine : m[i] = l[i]
      BY <1>2
    <3>2. \A i \in mine : i \in all /\ m[i].args[1] = l[i].args[1]
      BY <3>1
    <3>3. x \in all /\ m[x].args[1] = h
      BY <2>1, <3>1
    <3>4. us \subseteq ws \cup {h}
      <4>1. SUFFICES ASSUME NEW i \in all PROVE m[i].args[1] \in ws \cup {h}
        BY <2>1
      <4>2. i = x \/ i \in mine
        BY <3>1
      <4>3. i \in mine => l[i].args[1] \in ws
        BY <2>1
      <4> QED BY <3>2, <3>3, <4>2, <4>3
    <3>5. ws \cup {h} \subseteq us
      BY <2>1, <3>2, <3>3
    <3> QED BY <3>1, <3>4, <3>5
  <2>3. LastSaid(m, Naming(m, all, h)) = says
    <3>1. PICK S : S = Naming(m, all, h)
      OBVIOUS
    <3>2. x \in S /\ S \in SUBSET (1..Len(l)) /\ S \subseteq all /\ S # {}
      BY <1>2, <1>6, <2>1, <2>2, <3>1 DEF Naming
    <3>3. Max(S) \in S /\ Max(S) >= x
      BY <1>6, <3>2, Greatest
    <3>4. Max(S) = x
      <4>1. \A i \in mine : i < x /\ i \in Nat /\ x \in Nat
        BY <1>2, <1>6
      <4>2. Max(S) \notin mine
        BY <3>3, <4>1
      <4> QED BY <1>2, <3>2, <3>3, <4>2
    <3> QED BY <2>1, <2>2, <3>1, <3>4 DEF LastSaid
  <2>4. ASSUME NEW w \in ws, w # h
        PROVE  LastSaid(m, Naming(m, all, w)) = LastSaid(l, Naming(l, mine, w))
    <3>1. PICK S : S = Naming(l, mine, w)
      OBVIOUS
    <3>2. S \in SUBSET (1..Len(l)) /\ S \subseteq mine /\ S # {}
      BY <1>6, <2>1, <3>1 DEF Naming
    <3>3. Naming(m, all, w) = S
      BY <1>2, <2>1, <2>2, <2>4, <3>1 DEF Naming
    <3>4. Max(S) \in mine
      BY <3>2, AddsBelow, MineMax
    <3> QED BY <1>2, <3>1, <3>3, <3>4 DEF LastSaid
  <2>5. MeantOf(kind, m, d, p.line, all) = [w \in us |-> LastSaid(m, Naming(m, all, w))]
    BY <1>10, <2>1 DEF MeantOf
  <2>6. DOMAIN old = ws /\ \A w \in ws : old[w] = LastSaid(l, Naming(l, mine, w))
    <3>1. CASE mine = {}
      BY <1>3, <2>1, <3>1, EmptyIsSeq
    <3>2. CASE mine # {}
      BY <1>3, <1>10, <2>1, <3>2 DEF MeantOf
    <3> QED BY <3>1, <3>2
  <2>7. Gained(kind, c, p.line, x, v.args, old) = Put(old, h, says)
    BY <1>10, <2>1 DEF Gained, Value
  <2>8. Put(old, h, says) = [w \in us |-> LastSaid(m, Naming(m, all, w))]
    BY <2>2, <2>3, <2>4, <2>6 DEF Put
  <2> QED BY <1>1, <1>4, <2>5, <2>7, <2>8
<1>11. CASE kind \notin Merged /\ kind \notin Blocks /\ kind \notin {"texts", "pair", "header"}
  <2>1. MeantOf(kind, m, d, p.line, all) = Value(kind, v.args, <<>>)
    BY <1>2, <1>11 DEF MeantOf
  <2>2. Gained(kind, c, p.line, x, v.args, old) = Value(kind, v.args, old)
    BY <1>11 DEF Gained
  <2>3. Value(kind, v.args, old) = Value(kind, v.args, <<>>)
    BY <1>11 DEF Value
  <2> QED BY <1>1, <1>4, <2>1, <2>2, <2>3
<1>12. Merged \subseteq Blocks
  BY BlocksAre DEF Merged
<1> QED BY <1>7, <1>8, <1>9, <1>10, <1>11, <1>12

\* The block that the line is in gets what the line gives it, and no more.
LEMMA HereFields ==
  ASSUME NEW l, NEW m, NEW x, NEW v, Adds(l, m, x, v), NEW c, c = Contents(l),
         NEW kind, kind = Grammar[v.at.kind][v.key]
  PROVE  Part(Contents(m), v.at) =
           Put(Part(c, v.at), v.key,
               Gained(kind, c, v.at.line, x, v.args, Entry(Part(c, v.at), v.key, <<>>)))
<1>0. Tame(l) /\ Tame(m) /\ v.at # Silent.at
  BY DEF Adds
<1>1. PICK d : d = Contents(m)
  OBVIOUS
<1>2. Part(c, v.at) = FieldsAt(l, c, v.at) /\ Part(d, v.at) = FieldsAt(m, d, v.at)
  BY <1>0, <1>1, ContentsFixed
<1>3. /\ v.at.kind \in DOMAIN Grammar /\ v.key \in DOMAIN Grammar[v.at.kind]
      /\ KeysAt(m, v.at) = KeysAt(l, v.at) \cup {v.key}
  BY AddsBelow
<1>4. ASSUME NEW k \in InnerKinds(v.at.kind), NEW line,
             Untouched([kind |-> k, line |-> line], v.at)
      PROVE  Part(d, [kind |-> k, line |-> line]) = Part(c, [kind |-> k, line |-> line])
  <2>1. k \in Blocks
    BY BlocksAre DEF InnerKinds
  <2>2. [kind |-> k, line |-> line] # Silent.at
    BY <2>1, SilentIs
  <2> QED BY <1>1, <1>4, <2>2, ElsewhereSame
<1>5. PICK old : old = Entry(Part(c, v.at), v.key, <<>>)
  OBVIOUS
<1>6. old = IF v.key \in KeysAt(l, v.at) THEN Meant(l, c, v.at, v.key) ELSE <<>>
  BY <1>2, <1>5 DEF Entry, FieldsAt
<1>7. Meant(m, d, v.at, v.key) = Gained(kind, c, v.at.line, x, v.args, old)
  BY <1>4, <1>6, MeantGained
<1>8. ASSUME NEW key \in KeysAt(l, v.at), key # v.key
      PROVE  Meant(m, d, v.at, key) = Meant(l, c, v.at, key)
  <2>1. ~(v.at.kind \in Merged /\ key = v.at.kind)
    <3>1. key \in DOMAIN Grammar[v.at.kind]
      BY <1>0, MineOf
    <3>2. v.at.kind \in Merged => InnerKinds(v.at.kind) = {}
      BY DEF Merged, InnerKinds
    <3> QED BY <1>3, <3>1, <3>2, MergedKey
  <2> QED BY <1>0, <1>4, <1>8, <2>1, ElsewhereIf
<1>9. FieldsAt(m, d, v.at) =
        Put(FieldsAt(l, c, v.at), v.key, Gained(kind, c, v.at.line, x, v.args, old))
  BY <1>3, <1>7, <1>8 DEF FieldsAt, Put
<1> QED BY <1>1, <1>2, <1>5, <1>9

-----------------------------------------------------------------------------
(* The author's blocks, one in the other.                                  *)

\* The line that opened block j of those with the lines o; 0 is the site.
BlockLine(o, j) == IF j = 1 THEN 0 ELSE o[j - 1]

\* The lines o are open in the file fl, and what comes after is in them.
Nest(fl, o) ==
  /\ \A j \in 1..Len(o) : fl[o[j]].opens /\ fl[o[j]].in = BlockLine(o, j)
  /\ \A j, k \in 1..Len(o) : j < k => o[j] < o[k]
  /\ \A j \in 1..Len(o) : \A i \in 1..Len(fl) : i > o[j] => fl[i].in >= o[j]
  /\ \A i \in 1..Len(fl) : fl[i].in # 0 => fl[fl[i].in].opens

\* A line in the last of the blocks.
LEMMA NestLonger ==
  ASSUME NEW fl, NEW o, Nest(fl, o), Opened(fl), IsSeq(o),
         \A j \in 1..Len(o) : o[j] \in 1..Len(fl),
         NEW gl, Opened(gl), Len(gl) = Len(fl) + 1, \A i \in 1..Len(fl) : gl[i] = fl[i],
         gl[Len(fl) + 1].in = BlockLine(o, Len(o) + 1)
  PROVE  Nest(gl, o)
<1>1. Len(fl) \in Nat /\ Len(o) \in Nat /\ (Len(o) + 1) - 1 = Len(o)
  BY IsSeqFacts DEF Opened
<1>2. PICK n \in Nat : n = Len(fl)
  BY <1>1
<1>3. \A i \in 1 .. n + 1 : i \in 1..n \/ i = n + 1
  OBVIOUS
<1>4. gl[n + 1].in = IF Len(o) = 0 THEN 0 ELSE o[Len(o)]
  BY <1>1, <1>2 DEF BlockLine
<1>5. \A j \in 1..Len(o) : gl[o[j]].opens /\ gl[o[j]].in = BlockLine(o, j)
  BY DEF Nest
<1>6. ASSUME NEW j \in 1..Len(o), NEW i \in 1 .. n + 1, i > o[j]
      PROVE  gl[i].in >= o[j]
  <2>1. CASE i \in 1..n
    BY <1>2, <1>6, <2>1 DEF Nest
  <2>2. CASE i = n + 1
    <3>1. Len(o) \in 1..Len(o) /\ Len(o) # 0 /\ (j = Len(o) \/ j < Len(o))
      <4>1. PICK m \in Nat : m = Len(o)
        BY <1>1
      <4>2. j \in 1..m => m \in 1..m /\ m # 0 /\ (j = m \/ j < m)
        OBVIOUS
      <4> QED BY <4>1, <4>2
    <3>2. o[j] <= o[Len(o)]
      <4>1. o[j] \in 1..n /\ o[Len(o)] \in 1..n
        BY <1>2, <3>1
      <4>2. j < Len(o) => o[j] < o[Len(o)]
        BY <3>1 DEF Nest
      <4>3. \A x, y \in 1..n : x = y \/ x < y => x <= y
        OBVIOUS
      <4> QED BY <3>1, <4>1, <4>2, <4>3
    <3>3. gl[n + 1].in = o[Len(o)]
      BY <1>4, <3>1
    <3> QED BY <2>2, <3>2, <3>3
  <2> QED BY <1>3, <2>1, <2>2
<1>7. ASSUME NEW i \in 1 .. n + 1, gl[i].in # 0
      PROVE  gl[gl[i].in].opens
  <2>1. CASE i \in 1..n
    <3>1. fl[i].in \in 0 .. i - 1 /\ gl[i] = fl[i]
      BY <1>2, <2>1 DEF Opened
    <3>2. fl[i].in \in 1..n
      BY <1>7, <2>1, <3>1
    <3> QED BY <1>2, <1>7, <2>1, <3>1, <3>2 DEF Nest
  <2>2. CASE i = n + 1
    <3>1. Len(o) \in 1..Len(o) /\ gl[i].in = o[Len(o)]
      BY <1>1, <1>4, <1>7, <2>2
    <3> QED BY <1>5, <3>1
  <2> QED BY <1>3, <2>1, <2>2
<1> QED BY <1>2, <1>5, <1>6, <1>7 DEF Nest

LEMMA NestWritten ==
  ASSUME Layout, Nest(file, open), NEW l, IsLine(l), Write(l)
  PROVE  Nest(file', open) /\ Nest(file', open')
<1>1. /\ Layout' /\ Len(file) \in Nat /\ Len(file') = Len(file) + 1
      /\ \A i \in 1..Len(file) : file'[i] = file[i]
      /\ file'[Len(file) + 1] = [in |-> Within, words |-> l.words, opens |-> l.opens]
      /\ l.opens => open' = Append(open, Len(file) + 1)
      /\ ~l.opens => open' = IF l = Close /\ open # <<>> THEN Front(open) ELSE open
  BY WriteFacts
<1>2. PICK n \in Nat : n = Len(file)
  BY <1>1
<1>3. /\ Opened(file) /\ IsSeq(open) /\ Opened(file') /\ Len(open) \in Nat
      /\ \A j \in 1..Len(open) : open[j] \in 1..n
  BY <1>1, <1>2, IsSeqFacts DEF Layout
<1>4. file'[n + 1].in = BlockLine(open, Len(open) + 1) /\ file'[n + 1].opens = l.opens
  <2>1. (Len(open) + 1) - 1 = Len(open) /\ (Len(open) + 1 = 1 <=> Len(open) = 0)
    BY <1>3
  <2>2. open = <<>> <=> Len(open) = 0
    BY <1>3, EmptyIsSeq, SeqsEqual
  <2> QED BY <1>1, <1>2, <2>1, <2>2, WithinIsLine DEF BlockLine
<1>5. Nest(file', open)
  BY <1>1, <1>2, <1>3, <1>4, NestLonger
<1>6. CASE l.opens
  <2>1. PICK o : o = open'
    OBVIOUS
  <2>2. /\ Len(o) = Len(open) + 1
        /\ \A j \in 1..Len(open) : o[j] = open[j]
        /\ o[Len(open) + 1] = n + 1
    <3>1. PICK k : k = n + 1
      OBVIOUS
    <3>2. o = Append(open, k)
      BY <1>1, <1>2, <1>6, <2>1, <3>1
    <3> QED BY <1>3, <3>1, <3>2, AppendFacts
  <2>3. \A j \in 1 .. Len(open) + 1 : j \in 1..Len(open) \/ j = Len(open) + 1
    BY <1>3
  <2>4. \A j \in 1 .. Len(open) + 1 : BlockLine(o, j) = BlockLine(open, j)
    <3>1. \A j \in 1 .. Len(open) + 1 : j # 1 => j - 1 \in 1..Len(open)
      BY <1>3
    <3> QED BY <2>2, <3>1 DEF BlockLine
  <2>5. \A j \in 1 .. Len(open) + 1 : file'[o[j]].opens /\ file'[o[j]].in = BlockLine(o, j)
    BY <1>4, <1>5, <1>6, <2>2, <2>3, <2>4 DEF Nest
  <2>6. \A j, k \in 1 .. Len(open) + 1 : j < k => o[j] < o[k]
    <3> SUFFICES ASSUME NEW j \in 1 .. Len(open) + 1, NEW k \in 1 .. Len(open) + 1, j < k
                 PROVE  o[j] < o[k]
      OBVIOUS
    <3>1. j \in 1..Len(open)
      BY <1>3
    <3>2. CASE k \in 1..Len(open)
      BY <1>5, <2>2, <3>1, <3>2 DEF Nest
    <3>3. CASE k = Len(open) + 1
      BY <1>3, <2>2, <3>1, <3>3
    <3> QED BY <2>3, <3>2, <3>3
  <2>7. \A j \in 1 .. Len(open) + 1 : \A i \in 1 .. n + 1 : i > o[j] => file'[i].in >= o[j]
    <3> SUFFICES ASSUME NEW j \in 1 .. Len(open) + 1, NEW i \in 1 .. n + 1, i > o[j]
                 PROVE  file'[i].in >= o[j]
      OBVIOUS
    <3>1. j \in 1..Len(open)
      BY <1>2, <2>2, <2>3
    <3> QED BY <1>1, <1>2, <1>5, <2>2, <3>1 DEF Nest
  <2> QED BY <1>1, <1>2, <1>5, <2>1, <2>2, <2>5, <2>6, <2>7 DEF Nest
<1>7. CASE ~l.opens /\ l = Close /\ open # <<>>
  <2>1. PICK o : o = open'
    OBVIOUS
  <2>2. Len(open) >= 1
    BY <1>3, <1>7, WithinIsLine
  <2>3. Len(o) = Len(open) - 1 /\ \A j \in 1 .. Len(open) - 1 : o[j] = open[j]
    BY <1>1, <1>3, <1>7, <2>1, <2>2, FrontFacts
  <2>4. \A j \in 1 .. Len(open) - 1 : BlockLine(o, j) = BlockLine(open, j) /\ j \in 1..Len(open)
    <3>1. \A j \in 1 .. Len(open) - 1 : j # 1 => j - 1 \in 1 .. Len(open) - 1
      BY <1>3
    <3> QED BY <1>3, <2>3, <3>1 DEF BlockLine
  <2> QED BY <1>5, <2>1, <2>3, <2>4 DEF Nest
<1>8. CASE ~l.opens /\ ~(l = Close /\ open # <<>>)
  BY <1>1, <1>5, <1>8
<1> QED BY <1>5, <1>6, <1>7, <1>8

-----------------------------------------------------------------------------
(* What the lines of a file give.                                          *)

FileOk(fl) == Opened(fl) /\ \A i \in 1..Len(fl) : IsSeq(fl[i].words)

\* Line i gives nothing, or credentials or statements.
Quiet(fl, i) ==
  \/ Kinds(fl)[i] \in {"unknown", "auth", "schema", "statements"}
  \/ Kinds(fl)[i] \in Merged /\ ~fl[i].opens

PlaceIn(fl, i) ==
  LET up == fl[i].in IN
  [kind |-> Kinds(fl)[up],
   line |-> IF Kinds(fl)[up] \in Merged THEN fl[up].in ELSE up]

ItemOf(fl, i) ==
  IF Quiet(fl, i) THEN Silent
  ELSE [at |-> PlaceIn(fl, i), key |-> Field(Head(fl[i].words)),
        args |-> Tail(fl[i].words)]

\* What all lines give but those in un.
HeardOf(fl, un) == [i \in 1..Len(fl) |-> IF i \in un THEN Silent ELSE ItemOf(fl, i)]

LEMMA LinesHeard ==
  ASSUME IsSeq(file)
  PROVE  Lines = HeardOf(file, {})
<1>1. DOMAIN file = 1..Len(file) /\ KindOf = Kinds(file)
  BY IsSeqFacts, KindOfFile
<1> QED BY <1>1 DEF Lines, HeardOf, ItemOf, Quiet, PlaceIn, Place

LEMMA ItemFacts ==
  ASSUME NEW fl, FileOk(fl), NEW i \in 1..Len(fl), ~Quiet(fl, i), NEW v, v = ItemOf(fl, i)
  PROVE  /\ v.at = PlaceIn(fl, i) /\ v.at.kind = Kinds(fl)[fl[i].in]
         /\ v.args = Tail(fl[i].words) /\ IsSeq(v.args)
         /\ v.at.kind \in DOMAIN Grammar /\ Head(fl[i].words) \in DOMAIN Grammar[v.at.kind]
         /\ v.key = Field(Head(fl[i].words)) /\ v.key \in DOMAIN Grammar[v.at.kind]
         /\ Grammar[v.at.kind][v.key] = Kinds(fl)[i]
         /\ v.at # Silent.at
<1>1. /\ v.at = PlaceIn(fl, i) /\ v.args = Tail(fl[i].words)
      /\ v.key = Field(Head(fl[i].words)) /\ v.at.kind = Kinds(fl)[fl[i].in]
  BY DEF ItemOf, PlaceIn
<1>2. PICK n \in Nat : n = Len(fl) /\ i \in 1..n
  BY IsSeqFacts DEF FileOk, Opened
<1>3. PICK up : up = Kinds(fl)[fl[i].in]
  OBVIOUS
<1>4. Kinds(fl)[i] = KindStep(fl, Kinds(fl), i) /\ i # 0
  <2>1. i \in 0..n /\ i # 0
    BY <1>2
  <2> QED BY <1>2, <2>1, KindsLine DEF FileOk
<1>5. /\ up \in DOMAIN Grammar /\ ~IsClose(fl[i]) /\ Head(fl[i].words) \in DOMAIN Grammar[up]
      /\ Kinds(fl)[i] = Grammar[up][Head(fl[i].words)]
  BY <1>3, <1>4 DEF KindStep, Quiet, Kind
<1>6. IsSeq(Tail(fl[i].words))
  BY <1>5, TailFacts DEF FileOk, IsClose
<1>7. Field(Head(fl[i].words)) \in DOMAIN Grammar[up]
      /\ Grammar[up][Field(Head(fl[i].words))] = Kinds(fl)[i]
  BY <1>5, FieldKind
<1>8. up # "none"
  BY <1>5, SilentIs
<1> QED BY <1>1, <1>3, <1>5, <1>6, <1>7, <1>8, SilentIs

LEMMA HeardTame ==
  ASSUME NEW fl, FileOk(fl), NEW un
  PROVE  /\ Tame(HeardOf(fl, un)) /\ Len(HeardOf(fl, un)) = Len(fl) /\ Len(fl) \in Nat
         /\ DOMAIN HeardOf(fl, un) = 1..Len(fl)
         /\ \A i \in 1..Len(fl) :
              HeardOf(fl, un)[i] = IF i \in un THEN Silent ELSE ItemOf(fl, i)
<1>1. PICK n \in Nat : n = Len(fl)
  BY IsSeqFacts DEF FileOk, Opened
<1>2. PICK l : l = HeardOf(fl, un)
  OBVIOUS
<1>3. \A i \in 1..n : l[i] = IF i \in un THEN Silent ELSE ItemOf(fl, i)
  BY <1>1, <1>2 DEF HeardOf
<1>4. l = [i \in 1..n |-> l[i]]
  BY <1>1, <1>2 DEF HeardOf
<1>5. IsSeq(l) /\ Len(l) = n
  BY <1>4, FunctionIsSeq
<1>6. ASSUME NEW i \in 1..n, l[i] # Silent
      PROVE  l[i].at.kind \in DOMAIN Grammar /\ l[i].key \in DOMAIN Grammar[l[i].at.kind]
             /\ IsSeq(l[i].args)
  <2>1. l[i] = ItemOf(fl, i) /\ ~Quiet(fl, i)
    BY <1>3, <1>6 DEF ItemOf
  <2> QED BY <1>1, <2>1, ItemFacts
<1>7. Tame(l)
  BY <1>5, <1>6 DEF Tame
<1> QED BY <1>1, <1>2, <1>3, <1>4, <1>5, <1>7

\* More lines leave what those before give.
LEMMA ItemsKept ==
  ASSUME NEW fl, FileOk(fl), NEW gl, FileOk(gl), Len(fl) <= Len(gl),
         \A i \in 1..Len(fl) : gl[i] = fl[i]
  PROVE  \A i \in 1..Len(fl) : ItemOf(gl, i) = ItemOf(fl, i)
<1> SUFFICES ASSUME NEW i \in 1..Len(fl) PROVE ItemOf(gl, i) = ItemOf(fl, i)
  OBVIOUS
<1>1. PICK n \in Nat : n = Len(fl)
  BY IsSeqFacts DEF FileOk, Opened
<1>2. \A k \in 0..n : Kinds(gl)[k] = Kinds(fl)[k]
  BY <1>1, KindsKept DEF FileOk
<1>3. i \in 0..n /\ fl[i].in \in 0 .. i - 1 /\ i \in 1..n
  BY <1>1 DEF FileOk, Opened
<1>4. PICK up : up = fl[i].in
  OBVIOUS
<1>5. up \in 0..n /\ (up = 0 \/ up \in 1..n)
  BY <1>3, <1>4
<1>6. gl[i] = fl[i] /\ Kinds(gl)[i] = Kinds(fl)[i] /\ Kinds(gl)[up] = Kinds(fl)[up]
  BY <1>1, <1>2, <1>3, <1>5
<1>7. up # 0 => gl[up] = fl[up]
  BY <1>1, <1>5
<1>8. up = 0 => Kinds(fl)[up] \notin Merged
  <2>1. Kinds(fl)[0] = "site"
    BY KindsLine DEF FileOk
  <2> QED BY <2>1 DEF Merged
<1>9. PlaceIn(gl, i) = PlaceIn(fl, i)
  BY <1>4, <1>6, <1>7, <1>8 DEF PlaceIn
<1>10. Quiet(gl, i) <=> Quiet(fl, i)
  BY <1>6 DEF Quiet
<1> QED BY <1>6, <1>9, <1>10 DEF ItemOf

LEMMA HeardPadded ==
  ASSUME NEW fl, FileOk(fl), NEW gl, FileOk(gl), Len(gl) = Len(fl) + 1,
         \A i \in 1..Len(fl) : gl[i] = fl[i],
         NEW un, NEW vn, \A i \in 1..Len(fl) : i \in vn <=> i \in un,
         Len(gl) \in vn \/ Quiet(gl, Len(gl))
  PROVE  /\ HeardOf(gl, vn) = Append(HeardOf(fl, un), Silent)
         /\ Contents(HeardOf(gl, vn)) = Contents(HeardOf(fl, un))
<1>1. PICK n \in Nat : n = Len(fl) /\ Len(gl) = n + 1
  BY IsSeqFacts DEF FileOk, Opened
<1>2. PICK l, m : l = HeardOf(fl, un) /\ m = HeardOf(gl, vn)
  OBVIOUS
<1>3. /\ Tame(l) /\ Len(l) = n
      /\ \A i \in 1..n : l[i] = IF i \in un THEN Silent ELSE ItemOf(fl, i)
  BY <1>1, <1>2, HeardTame
<1>4. /\ Tame(m) /\ Len(m) = n + 1
      /\ \A i \in 1 .. n + 1 : m[i] = IF i \in vn THEN Silent ELSE ItemOf(gl, i)
  BY <1>1, <1>2, HeardTame
<1>5. \A i \in 1..n : ItemOf(gl, i) = ItemOf(fl, i)
  <2>1. n <= n + 1
    OBVIOUS
  <2> QED BY <1>1, <2>1, ItemsKept
<1>6. m[n + 1] = Silent
  <2>1. n + 1 \in 1 .. n + 1
    OBVIOUS
  <2> QED BY <1>1, <1>4, <2>1 DEF ItemOf
<1>7. \A i \in 1..n : m[i] = l[i] /\ i \in 1 .. n + 1
  <2>1. \A i \in 1..n : i \in 1 .. n + 1
    OBVIOUS
  <2> QED BY <1>1, <1>3, <1>4, <1>5, <2>1
<1>8. m = Append(l, Silent)
  <2>1. PICK k : k = Append(l, Silent)
    OBVIOUS
  <2>2. IsSeq(k) /\ Len(k) = n + 1 /\ k[n + 1] = Silent /\ \A i \in 1..n : k[i] = l[i]
    BY <1>3, <2>1, AppendFacts DEF Tame
  <2>3. \A i \in 1 .. n + 1 : m[i] = k[i]
    <3>1. \A i \in 1 .. n + 1 : i \in 1..n \/ i = n + 1
      OBVIOUS
    <3> QED BY <1>6, <1>7, <2>2, <3>1
  <2>4. IsSeq(m)
    BY <1>4 DEF Tame
  <2>5. m = k
    BY <1>4, <2>2, <2>3, <2>4, SeqsEqual
  <2> QED BY <2>1, <2>5
<1> QED BY <1>2, <1>3, <1>8, ContentsPadded

\* Lines that give nothing need not be read.
LEMMA HeardSame ==
  ASSUME NEW fl, NEW un, NEW vn,
         \A i \in 1..Len(fl) : (i \in un <=> i \in vn) \/ Quiet(fl, i)
  PROVE  HeardOf(fl, vn) = HeardOf(fl, un)
BY DEF HeardOf, ItemOf

-----------------------------------------------------------------------------
(* The parser's blocks are the author's, up to the innermost of the parser. *)

Fits(fl, o, s) ==
  /\ FileOk(fl) /\ Nest(fl, o) /\ Framed(s)
  /\ IsSeq(o) /\ Len(o) >= Len(s) - 1
  /\ \A j \in 1..Len(o) : o[j] \in 1..Len(fl)
  /\ \A j \in 1 .. Len(s) - 1 : s[j + 1].kind = Kinds(fl)[o[j]]

\* What lines give to block j of the parser, they give there.
Address(s, o, j) ==
  [kind |-> s[j].kind, line |-> BlockLine(o, IF s[j].kind \in Merged THEN j - 1 ELSE j)]

LEMMA BlockLines ==
  ASSUME NEW fl, NEW o, NEW s, Fits(fl, o, s)
  PROVE  /\ Len(s) \in Nat /\ Len(s) >= 1 /\ Len(o) \in Nat /\ Len(fl) \in Nat
         /\ \A j \in 1..Len(s) : BlockLine(o, j) \in 0..Len(fl)
                                 /\ s[j].kind = Kinds(fl)[BlockLine(o, j)]
         /\ \A j, k \in 1..Len(s) : j < k => BlockLine(o, j) < BlockLine(o, k)
<1>1. PICK n \in Nat, k \in Nat, r \in Nat :
         n = Len(fl) /\ k = Len(s) /\ r = Len(o) /\ k >= 1 /\ r >= k - 1
  BY IsSeqFacts DEF Fits, FileOk, Opened, Framed
<1>2. \A j \in 1..k : j # 1 => j - 1 \in 1..r /\ j - 1 \in 1 .. k - 1
  BY <1>1
<1>3. \A j \in 1..r : o[j] \in 1..n
  BY <1>1 DEF Fits
<1>4. ASSUME NEW j \in 1..k
      PROVE  BlockLine(o, j) \in 0..n /\ s[j].kind = Kinds(fl)[BlockLine(o, j)]
  <2>1. CASE j = 1
    <3>1. s[1].kind = "site" /\ Kinds(fl)[0] = "site"
      BY KindsLine DEF Fits, Framed, FileOk
    <3> QED BY <2>1, <3>1 DEF BlockLine
  <2>2. CASE j # 1
    <3>1. PICK i : i = j - 1 /\ i \in 1..r /\ i \in 1 .. k - 1 /\ i + 1 = j
      BY <1>2, <2>2
    <3>2. s[j].kind = Kinds(fl)[o[i]]
      BY <1>1, <3>1 DEF Fits
    <3> QED BY <1>3, <2>2, <3>1, <3>2 DEF BlockLine
  <2> QED BY <2>1, <2>2
<1>5. ASSUME NEW i \in 1..k, NEW j \in 1..k, i < j
      PROVE  BlockLine(o, i) < BlockLine(o, j)
  <2>1. j # 1 /\ j - 1 \in 1..r /\ o[j - 1] \in 1..n
    BY <1>2, <1>3, <1>5
  <2>2. CASE i = 1
    BY <2>1, <2>2 DEF BlockLine
  <2>3. CASE i # 1
    <3>1. i - 1 \in 1..r /\ i - 1 < j - 1
      BY <1>2, <1>5, <2>3
    <3>2. o[i - 1] < o[j - 1]
      BY <1>1, <2>1, <3>1 DEF Fits, Nest
    <3> QED BY <2>1, <2>3, <3>2 DEF BlockLine
  <2> QED BY <2>2, <2>3
<1> QED BY <1>1, <1>4, <1>5

\* The line that opened the block after block j.
LEMMA InnerBlock ==
  ASSUME NEW fl, NEW o, NEW s, Fits(fl, o, s), NEW j \in 1 .. Len(s) - 1
  PROVE  /\ o[j] \in 1..Len(fl) /\ fl[o[j]].opens /\ fl[o[j]].in = BlockLine(o, j)
         /\ BlockLine(o, j + 1) = o[j] /\ j \in 1..Len(s) /\ j + 1 \in 1..Len(s)
         /\ Kinds(fl)[o[j]] = s[j + 1].kind
         /\ Head(fl[o[j]].words) = s[j + 1].kind
         /\ s[j].kind \in DOMAIN Grammar /\ s[j + 1].kind \in DOMAIN Grammar[s[j].kind]
         /\ Grammar[s[j].kind][s[j + 1].kind] = s[j + 1].kind
         /\ s[j + 1].kind \in Blocks /\ s[j].kind \notin Merged
         /\ \/ s[j].kind = "site" /\ s[j + 1].kind \notin {"param", "output"}
            \/ s[j].kind = "query" /\ s[j + 1].kind \in {"param", "output"}
<1>1. /\ Len(s) \in Nat /\ Len(o) \in Nat /\ Len(fl) \in Nat /\ Len(o) >= Len(s) - 1
  BY BlockLines DEF Fits
<1>2. PICK k \in Nat, r \in Nat : k = Len(s) /\ r = Len(o) /\ r >= k - 1 /\ j \in 1 .. k - 1
  BY <1>1
<1>3. j \in 1..r /\ j \in 1..k /\ j + 1 \in 1..k /\ j + 1 # 1 /\ (j + 1) - 1 = j /\ j + 1 \in 2..k
  BY <1>2
<1>4. o[j] \in 1..Len(fl) /\ fl[o[j]].opens /\ fl[o[j]].in = BlockLine(o, j)
  BY <1>2, <1>3 DEF Fits, Nest
<1>5. Kinds(fl)[o[j]] = s[j + 1].kind /\ s[j + 1].kind \in Blocks
  BY <1>2, <1>3 DEF Fits, Framed
<1>6. BlockLine(o, j + 1) = o[j]
  BY <1>3 DEF BlockLine
<1>7. s[j].kind = Kinds(fl)[BlockLine(o, j)]
  BY <1>2, <1>3, BlockLines
<1>8. PICK x : x = o[j]
  OBVIOUS
<1>9. Kinds(fl)[x] = KindStep(fl, Kinds(fl), x) /\ x # 0
  <2>1. x \in 0..Len(fl) /\ x # 0
    BY <1>1, <1>4, <1>8
  <2> QED BY <2>1, KindsLine DEF Fits, FileOk
<1>10. s[j + 1].kind \notin {"statements", "unknown"}
  BY <1>5, BlocksAre
<1>11. /\ s[j].kind \in DOMAIN Grammar /\ Head(fl[x].words) \in DOMAIN Grammar[s[j].kind]
       /\ s[j + 1].kind = Grammar[s[j].kind][Head(fl[x].words)]
  BY <1>4, <1>5, <1>7, <1>8, <1>9, <1>10 DEF KindStep, Kind
<1>12. PICK b, h : b = s[j].kind /\ h = Head(fl[x].words)
  OBVIOUS
<1>13. /\ Grammar[b][h] = h
       /\ \/ b = "site" /\ h \notin {"param", "output"}
          \/ b = "query" /\ h \in {"param", "output"}
  BY <1>5, <1>11, <1>12, BlockDepth
<1>14. b \notin Merged
  BY <1>13 DEF Merged
<1> QED BY <1>2, <1>3, <1>4, <1>5, <1>6, <1>8, <1>11, <1>12, <1>13, <1>14

LEMMA MergedWithin ==
  ASSUME NEW fl, NEW o, NEW s, Fits(fl, o, s), NEW j \in 1..Len(s), s[j].kind \in Merged
  PROVE  /\ j - 1 \in 1 .. Len(s) - 1 /\ j - 1 \in 1..Len(s) /\ (j - 1) + 1 = j
         /\ fl[BlockLine(o, j)].in = BlockLine(o, j - 1)
<1>1. PICK k \in Nat : k = Len(s) /\ j \in 1..k
  BY BlockLines
<1>2. j # 1
  BY DEF Fits, Framed, Merged
<1>3. j - 1 \in 1 .. k - 1 /\ j - 1 \in 1..k /\ (j - 1) + 1 = j
  BY <1>1, <1>2
<1>4. fl[o[j - 1]].in = BlockLine(o, j - 1)
  BY <1>1, <1>3, InnerBlock
<1> QED BY <1>1, <1>2, <1>3, <1>4 DEF BlockLine

LEMMA PlaceIsAddress ==
  ASSUME NEW fl, NEW o, NEW s, Fits(fl, o, s), NEW t \in 1..Len(s),
         NEW x, fl[x].in = BlockLine(o, t)
  PROVE  PlaceIn(fl, x) = Address(s, o, t)
<1>1. s[t].kind = Kinds(fl)[BlockLine(o, t)]
  BY BlockLines
<1>2. s[t].kind \in Merged => fl[BlockLine(o, t)].in = BlockLine(o, t - 1)
  BY MergedWithin
<1> QED BY <1>1, <1>2 DEF PlaceIn, Address

\* Where the line of an address is: that of the block or of the one around it.
LEMMA AddressLine ==
  ASSUME NEW fl, NEW o, NEW s, Fits(fl, o, s), NEW j \in 1..Len(s),
         NEW i, i = IF s[j].kind \in Merged THEN j - 1 ELSE j
  PROVE  Address(s, o, j).line = BlockLine(o, i) /\ i \in 1..Len(s)
<1>1. s[j].kind \in Merged => j - 1 \in 1..Len(s)
  BY MergedWithin
<1> QED BY <1>1 DEF Address

LEMMA AddressesDiffer ==
  ASSUME NEW fl, NEW o, NEW s, Fits(fl, o, s), NEW j \in 1..Len(s), NEW t \in 1..Len(s), j < t
  PROVE  /\ Address(s, o, j) # Address(s, o, t)
         /\ s[t].kind \in Merged /\ Address(s, o, j).line = Address(s, o, t).line => t = j + 1
<1>1. PICK k \in Nat : k = Len(s) /\ j \in 1..k /\ t \in 1..k
  BY BlockLines
<1>2. PICK a : /\ a = IF s[j].kind \in Merged THEN j - 1 ELSE j
               /\ Address(s, o, j).line = BlockLine(o, a) /\ a \in 1..k
  <2>1. PICK a : a = IF s[j].kind \in Merged THEN j - 1 ELSE j
    OBVIOUS
  <2> QED BY <1>1, <2>1, AddressLine
<1>3. PICK b : /\ b = IF s[t].kind \in Merged THEN t - 1 ELSE t
               /\ Address(s, o, t).line = BlockLine(o, b) /\ b \in 1..k
  <2>1. PICK b : b = IF s[t].kind \in Merged THEN t - 1 ELSE t
    OBVIOUS
  <2> QED BY <1>1, <2>1, AddressLine
<1>4. a = b \/ a < b \/ b < a
  BY <1>2, <1>3
<1>5. BlockLine(o, a) \in Nat /\ BlockLine(o, b) \in Nat
  <2>1. \A i \in 1..k : BlockLine(o, i) \in 0..Len(fl) /\ Len(fl) \in Nat
    BY <1>1, BlockLines
  <2> QED BY <1>2, <1>3, <2>1
<1>6. /\ a < b => BlockLine(o, a) < BlockLine(o, b)
      /\ b < a => BlockLine(o, b) < BlockLine(o, a)
  BY <1>1, <1>2, <1>3, BlockLines
<1>7. Address(s, o, j).line = Address(s, o, t).line => a = b
  BY <1>2, <1>3, <1>4, <1>5, <1>6
<1>8. s[j].kind = s[t].kind => a # b
  BY <1>1, <1>2, <1>3
<1>9. Address(s, o, j) = Address(s, o, t) => s[j].kind = s[t].kind
  BY DEF Address
<1>10. s[t].kind \in Merged /\ a = b => t = j + 1
  BY <1>1, <1>2, <1>3
<1> QED BY <1>7, <1>8, <1>9, <1>10

LEMMA AddressHeard ==
  ASSUME NEW fl, NEW o, NEW s, Fits(fl, o, s), NEW j \in 1..Len(s)
  PROVE  Address(s, o, j) # Silent.at
<1>1. s[j].kind \in {"site"} \cup Blocks
  <2>1. PICK k \in Nat : k = Len(s) /\ j \in 1..k
    BY BlockLines
  <2>2. j = 1 \/ j \in 2..k
    BY <2>1
  <2> QED BY <2>1, <2>2 DEF Fits, Framed
<1> QED BY <1>1, SilentIs DEF Address

-----------------------------------------------------------------------------
(* Fields of the parser and of the file.                                   *)

\* But for those in skip, f has the fields g.
Agree(f, g, skip) ==
  /\ f = [k \in DOMAIN f |-> f[k]]
  /\ DOMAIN f \ skip = DOMAIN g \ skip
  /\ \A k \in DOMAIN f \ skip : f[k] = g[k]

LEMMA AgreePut ==
  ASSUME NEW f, NEW h, NEW g, NEW skip, Agree(f, Together(h, g), skip),
         NEW key, key \notin DOMAIN h, NEW v, NEW left, skip \subseteq left \cup {key}
  PROVE  Agree(Put(f, key, v), Together(h, Put(g, key, v)), left)
<1>1. PICK e, d : e = Put(f, key, v) /\ d = Together(h, Put(g, key, v))
  OBVIOUS
<1>2. /\ DOMAIN e = DOMAIN f \cup {key} /\ e[key] = v
      /\ \A k \in DOMAIN f : k # key => e[k] = f[k]
      /\ e = [k \in DOMAIN e |-> e[k]]
  BY <1>1 DEF Put
<1>3. /\ DOMAIN d = DOMAIN h \cup DOMAIN g \cup {key} /\ d[key] = v
      /\ \A k \in DOMAIN h \cup DOMAIN g : k # key => d[k] = Together(h, g)[k]
  BY <1>1 DEF Put, Together
<1>4. DOMAIN Together(h, g) = DOMAIN h \cup DOMAIN g
  BY DEF Together
<1>5. DOMAIN e \ left = DOMAIN d \ left
  BY <1>2, <1>3, <1>4 DEF Agree
<1>6. ASSUME NEW k \in DOMAIN e \ left PROVE e[k] = d[k]
  <2>1. CASE k = key
    BY <1>2, <1>3, <2>1
  <2>2. CASE k # key
    <3>1. k \in DOMAIN f /\ k \notin skip
      BY <1>2, <1>6, <2>2
    <3>2. f[k] = Together(h, g)[k] /\ k \in DOMAIN h \cup DOMAIN g
      BY <1>4, <3>1 DEF Agree
    <3> QED BY <1>2, <1>3, <2>2, <3>1, <3>2
  <2> QED BY <2>1, <2>2
<1> QED BY <1>1, <1>2, <1>5, <1>6 DEF Agree

LEMMA AgreeWider ==
  ASSUME NEW f, NEW g, NEW skip, Agree(f, g, skip), NEW left, skip \subseteq left
  PROVE  Agree(f, g, left)
BY DEF Agree

LEMMA AgreeAside ==
  ASSUME NEW f, NEW g, NEW skip, Agree(f, g, skip), NEW key \in skip, NEW v
  PROVE  Agree(Put(f, key, v), g, skip)
<1>1. PICK e : e = Put(f, key, v)
  OBVIOUS
<1>2. /\ DOMAIN e = DOMAIN f \cup {key} /\ e = [k \in DOMAIN e |-> e[k]]
      /\ \A k \in DOMAIN f : k # key => e[k] = f[k]
  BY <1>1 DEF Put
<1> QED BY <1>1, <1>2 DEF Agree

LEMMA AgreeEntry ==
  ASSUME NEW f, NEW h, NEW g, NEW skip, Agree(f, Together(h, g), skip),
         NEW key, key \notin DOMAIN h, key \notin skip, NEW d
  PROVE  Entry(f, key, d) = Entry(g, key, d)
<1>1. /\ DOMAIN Together(h, g) = DOMAIN h \cup DOMAIN g
      /\ key \in DOMAIN g => Together(h, g)[key] = g[key]
  BY DEF Together
<1> QED BY <1>1 DEF Agree, Entry

LEMMA AgreeSame ==
  ASSUME NEW f, NEW h, NEW g, NEW skip, Agree(f, Together(h, g), skip),
         NEW e, DOMAIN e = DOMAIN g, \A k \in DOMAIN g \ skip : e[k] = g[k]
  PROVE  Agree(f, Together(h, e), skip)
<1>1. /\ DOMAIN Together(h, g) = DOMAIN h \cup DOMAIN g
      /\ DOMAIN Together(h, e) = DOMAIN h \cup DOMAIN g
      /\ \A k \in (DOMAIN h \cup DOMAIN g) \ skip : Together(h, e)[k] = Together(h, g)[k]
  BY DEF Together
<1> QED BY <1>1 DEF Agree

IsFunction(f) == f = [k \in DOMAIN f |-> f[k]]

LEMMA TogetherNone ==
  ASSUME NEW h, IsFunction(h), NEW g, IsFunction(g)
  PROVE  /\ DOMAIN g = {} => Together(h, g) = h
         /\ DOMAIN h = {} => Together(h, g) = g
BY DEF Together, IsFunction

LEMMA AgreeWhole ==
  ASSUME NEW f, NEW g, IsFunction(g)
  PROVE  Agree(f, g, {}) <=> f = g
BY DEF Agree, IsFunction

\* A block's own line gives no field that a line in it gives.
LEMMA OpeningKeys ==
  ASSUME NEW kind \in Blocks, NEW args, NEW h, h = Opening(kind, args)
  PROVE  /\ IsFunction(h)
         /\ kind # "schema" => \A key \in DOMAIN h : key \notin DOMAIN Grammar[kind]
         /\ kind \in Merged \cup {"schema"} => DOMAIN h = {}
<1>1. IsFunction(h) /\ DOMAIN h = ToSet(Heads[kind])
  BY DEF IsFunction, Opening
<1>2. CASE kind \in {"query", "param", "live_query"}
  <2>1. DOMAIN h = {"name"}
    BY <1>1, <1>2 DEF Heads, ToSet
  <2>2. "name" \notin DOMAIN Grammar[kind]
    BY <1>2 DEF Grammar, QueryBlock, ParamBlock, LiveQueryBlock
  <2> QED BY <1>1, <1>2, <2>1, <2>2 DEF Merged
<1>3. CASE kind \in {"route", "live_route"}
  <2>1. Heads[kind] = <<"method", "path", "query">>
    BY <1>3 DEF Heads
  <2>2. DOMAIN h \subseteq {"method", "path", "query"}
    BY <1>1, <2>1 DEF ToSet
  <2>3. \A key \in {"method", "path", "query"} : key \notin DOMAIN Grammar[kind]
    BY <1>3 DEF Grammar, RouteBlock, LiveRouteBlock
  <2> QED BY <1>1, <1>3, <2>2, <2>3 DEF Merged
<1>4. CASE kind \in {"output", "log", "schema", "auth"}
  <2>1. Heads[kind] = <<>>
    BY <1>4 DEF Heads
  <2>2. DOMAIN h = {}
    BY <1>1, <2>1 DEF ToSet
  <2> QED BY <1>1, <2>2
<1> QED BY <1>2, <1>3, <1>4, BlocksAre

LEMMA PartIsFunction ==
  ASSUME NEW l, Tame(l), NEW b, b # Silent.at
  PROVE  /\ IsFunction(Part(Contents(l), b))
         /\ DOMAIN Part(Contents(l), b) = KeysAt(l, b)
         /\ (\A i \in DOMAIN l : l[i].at # b) => Part(Contents(l), b) = <<>>
<1>1. PICK f : f = Part(Contents(l), b) /\ f = FieldsAt(l, Contents(l), b)
  BY ContentsFixed
<1>2. IsFunction(f) /\ DOMAIN f = KeysAt(l, b)
  BY <1>1 DEF IsFunction, FieldsAt
<1>3. (\A i \in DOMAIN l : l[i].at # b) => KeysAt(l, b) = {}
  BY DEF KeysAt
<1>4. DOMAIN f = {} => f = <<>>
  BY <1>2, NoneIsEmpty DEF IsFunction
<1> QED BY <1>1, <1>2, <1>3, <1>4

-----------------------------------------------------------------------------
(* A line is taken for block t of the parser.                              *)

LinesOf(o, t) == {o[j] : j \in 1..t}

\* Of the lines un, not taken yet, it is x; those of the blocks that it is in
\* remain.
Due(fl, o, s, t, x, un) ==
  /\ Fits(fl, o, s) /\ t \in 1..Len(s)
  /\ x \in 1..Len(fl) /\ x \in un /\ fl[x].in = BlockLine(o, t)
  /\ \A j \in 1..t : j # 1 => BlockLine(o, j) \in un
  /\ \A i \in 1..Len(fl) : i > x => fl[i].in >= x

\* Nothing later is at its place.
LEMMA NoneLater ==
  ASSUME NEW fl, NEW o, NEW s, NEW t, NEW x, NEW un, Due(fl, o, s, t, x, un),
         ~Quiet(fl, x), NEW i \in 1..Len(fl), i > x, ~Quiet(fl, i)
  PROVE  ItemOf(fl, i).at # PlaceIn(fl, x)
<1> SUFFICES ASSUME ItemOf(fl, i).at = PlaceIn(fl, x) PROVE FALSE
  OBVIOUS
<1>1. PICK n \in Nat : n = Len(fl) /\ x \in 1..n /\ i \in 1..n
  BY BlockLines DEF Due
<1>2. PICK y : y = fl[i].in
  OBVIOUS
<1>3. /\ y \in 0 .. i - 1 /\ fl[x].in \in 0 .. x - 1
      /\ \A k \in 1..n : fl[k].in \in 0 .. k - 1
  BY <1>1, <1>2 DEF Due, Fits, FileOk, Opened
<1>4. y >= x
  BY <1>2 DEF Due
<1>5. y \in 1..n /\ y \in Nat
  BY <1>1, <1>3, <1>4
<1>6. /\ ItemOf(fl, i).at = PlaceIn(fl, i)
      /\ Kinds(fl)[fl[x].in] \in DOMAIN Grammar
      /\ \E key \in DOMAIN Grammar[Kinds(fl)[fl[x].in]] :
           Grammar[Kinds(fl)[fl[x].in]][key] = Kinds(fl)[x]
  BY ItemFacts DEF Due, Fits
<1>7. Kinds(fl)[y] = Kinds(fl)[fl[x].in] /\ PlaceIn(fl, i).line = PlaceIn(fl, x).line
  BY <1>2, <1>6 DEF PlaceIn
<1>8. PlaceIn(fl, x).line < x
  <2>1. CASE Kinds(fl)[fl[x].in] \in Merged
    <3>1. fl[x].in # 0
      <4>1. Kinds(fl)[0] = "site"
        BY KindsLine DEF Due, Fits, FileOk
      <4> QED BY <2>1, <4>1 DEF Merged
    <3>2. fl[x].in \in 1..n /\ fl[fl[x].in].in < x
      <4>1. fl[x].in \in 1..n
        BY <1>1, <1>3, <3>1
      <4>2. fl[fl[x].in].in \in 0 .. fl[x].in - 1
        BY <1>3, <4>1
      <4> QED BY <1>1, <1>3, <4>1, <4>2
    <3> QED BY <2>1, <3>2 DEF PlaceIn
  <2>2. CASE Kinds(fl)[fl[x].in] \notin Merged
    <3>1. PlaceIn(fl, x).line = fl[x].in
      BY <2>2 DEF PlaceIn
    <3> QED BY <1>1, <1>3, <3>1
  <2> QED BY <2>1, <2>2
<1>9. CASE Kinds(fl)[y] \notin Merged
  <2>1. PlaceIn(fl, i).line = y
    BY <1>2, <1>9 DEF PlaceIn
  <2>2. y < x
    BY <1>7, <1>8, <2>1
  <2> QED BY <1>1, <1>4, <1>5, <2>2
<1>10. CASE Kinds(fl)[y] \in Merged
  <2>1. PlaceIn(fl, i).line = fl[y].in
    BY <1>2, <1>10 DEF PlaceIn
  <2>2. CASE y = x
    <3>1. PICK b, key : /\ b = Kinds(fl)[fl[x].in] /\ b \in DOMAIN Grammar
                        /\ key \in DOMAIN Grammar[b] /\ Grammar[b][key] = b
      BY <1>6, <1>7, <2>2
    <3>2. b \in Merged
      BY <1>7, <1>10, <3>1
    <3>3. b \in Blocks => b = "site" \/ b = "query"
      BY <3>1, BlockDepth
    <3> QED BY <3>2, <3>3, BlocksAre DEF Merged
  <2>3. CASE y # x
    <3>1. y > x
      BY <1>1, <1>4, <1>5, <2>3
    <3>2. fl[y].in >= x
      BY <1>1, <1>5, <3>1 DEF Due
    <3>3. fl[y].in \in Nat /\ fl[y].in < x
      BY <1>3, <1>5, <1>7, <1>8, <2>1
    <3> QED BY <1>1, <3>2, <3>3
  <2> QED BY <2>2, <2>3
<1> QED BY <1>9, <1>10

LEMMA HeardAdded ==
  ASSUME NEW fl, NEW o, NEW s, NEW t, NEW x, NEW un, Due(fl, o, s, t, x, un),
         ~Quiet(fl, x), NEW v, v = ItemOf(fl, x)
  PROVE  /\ Adds(HeardOf(fl, un), HeardOf(fl, un \ {x}), x, v)
         /\ v.at = Address(s, o, t)
<1>1. PICK l, m : l = HeardOf(fl, un) /\ m = HeardOf(fl, un \ {x})
  OBVIOUS
<1>2. PICK n \in Nat : n = Len(fl) /\ x \in 1..n
  BY BlockLines DEF Due
<1>3. /\ Tame(l) /\ Len(l) = n
      /\ \A i \in 1..n : l[i] = IF i \in un THEN Silent ELSE ItemOf(fl, i)
  BY <1>1, <1>2, HeardTame DEF Due, Fits
<1>4. /\ Tame(m) /\ Len(m) = n
      /\ \A i \in 1..n : m[i] = IF i \in un \ {x} THEN Silent ELSE ItemOf(fl, i)
  BY <1>1, <1>2, HeardTame DEF Due, Fits
<1>5. v.at = PlaceIn(fl, x) /\ v.at # Silent.at
  BY ItemFacts DEF Due, Fits
<1>6. v.at = Address(s, o, t) /\ t \in 1..Len(s)
  BY <1>5, PlaceIsAddress DEF Due
<1>7. l[x] = Silent /\ m[x] = v /\ \A i \in 1..n : i # x => m[i] = l[i]
  BY <1>2, <1>3, <1>4 DEF Due
<1>8. ASSUME v.at.line \in 1..n PROVE m[v.at.line] = Silent
  <2>1. PICK k \in Nat : k = Len(s) /\ t \in 1..k
    BY <1>6, BlockLines DEF Due
  <2>2. PICK j : j = IF s[t].kind \in Merged THEN t - 1 ELSE t
    OBVIOUS
  <2>3. v.at.line = BlockLine(o, j) /\ j \in 1..k
    BY <1>6, <2>1, <2>2, AddressLine DEF Due
  <2>4. j \in 1..t
    BY <2>1, <2>2, <2>3
  <2>5. j # 1
    BY <1>8, <2>3 DEF BlockLine
  <2>6. v.at.line \in un
    BY <2>3, <2>4, <2>5 DEF Due
  <2>7. v.at.line # x
    <3>1. BlockLine(o, t) \in 0 .. x - 1
      BY <1>2 DEF Due, Fits, FileOk, Opened
    <3>2. j = t \/ BlockLine(o, j) < BlockLine(o, t)
      BY <2>1, <2>3, <2>4, BlockLines DEF Due
    <3>3. BlockLine(o, j) \in 1..n
      BY <1>8, <2>3
    <3> QED BY <1>2, <2>3, <3>1, <3>2, <3>3
  <2> QED BY <1>4, <1>8, <2>6, <2>7
<1>9. ASSUME NEW i \in 1..n, i > x PROVE l[i].at # v.at
  <2>1. l[i] = Silent \/ (l[i] = ItemOf(fl, i) /\ ~Quiet(fl, i))
    BY <1>3, <1>9 DEF ItemOf
  <2>2. ~Quiet(fl, i) => ItemOf(fl, i).at # PlaceIn(fl, x)
    BY <1>2, <1>9, NoneLater
  <2> QED BY <1>5, <2>1, <2>2
<1>10. Adds(l, m, x, v)
  BY <1>2, <1>3, <1>4, <1>5, <1>7, <1>8, <1>9 DEF Adds
<1> QED BY <1>1, <1>6, <1>10

-----------------------------------------------------------------------------
(* What the parser has of its blocks is what the lines taken mean.         *)

HeadOf(fl, s, o, j) ==
  IF j = 1 THEN <<>> ELSE Opening(s[j].kind, Tail(fl[o[j - 1]].words))

\* What block j has later or otherwise.
Untold(s, j) ==
  (IF j = 1 THEN {"auth", "schema"} ELSE {}) \cup
  (IF j < Len(s) THEN {s[j + 1].kind} \cap Merged ELSE {})

Agreed(fl, s, o, c, j) ==
  s[j].kind \notin {"auth", "schema"} =>
    Agree(s[j].fields, Together(HeadOf(fl, s, o, j), Part(c, Address(s, o, j))),
          Untold(s, j))

LEMMA HeadKeys ==
  ASSUME NEW fl, NEW o, NEW s, Fits(fl, o, s), NEW j \in 1..Len(s), s[j].kind # "schema",
         NEW h, h = HeadOf(fl, s, o, j)
  PROVE  /\ IsFunction(h)
         /\ s[j].kind \in DOMAIN Grammar
         /\ \A key \in DOMAIN h : key \notin DOMAIN Grammar[s[j].kind]
         /\ j = 1 \/ s[j].kind \in Merged => DOMAIN h = {}
<1>1. PICK k \in Nat : k = Len(s) /\ j \in 1..k
  BY BlockLines
<1>2. CASE j = 1
  <2>1. h = <<>> /\ s[j].kind = "site"
    BY <1>2 DEF HeadOf, Fits, Framed
  <2>2. DOMAIN h = {} /\ IsFunction(h)
    BY <2>1, EmptyIsSeq DEF IsFunction
  <2> QED BY <2>1, <2>2, BlocksAre
<1>3. CASE j # 1
  <2>1. j \in 2..k
    BY <1>1, <1>3
  <2>2. s[j].kind \in Blocks
    BY <1>1, <2>1 DEF Fits, Framed
  <2>3. h = Opening(s[j].kind, Tail(fl[o[j - 1]].words))
    BY <1>3 DEF HeadOf
  <2> QED BY <1>3, <2>2, <2>3, OpeningKeys, BlocksAre
<1> QED BY <1>2, <1>3

\* The blocks around the one that a line is taken for stay what they are.
LEMMA AgreedBelow ==
  ASSUME NEW fl, NEW o, NEW s, NEW t, NEW x, NEW un, Due(fl, o, s, t, x, un),
         NEW l, l = HeardOf(fl, un), NEW m, m = HeardOf(fl, un \ {x}),
         NEW j \in 1..Len(s), j < t, Agreed(fl, s, o, Contents(l), j)
  PROVE  Agreed(fl, s, o, Contents(m), j)
<1>1. CASE Quiet(fl, x)
  <2>1. m = l
    BY <1>1, HeardSame
  <2> QED BY <2>1
<1>2. CASE ~Quiet(fl, x)
  <2>1. PICK v : v = ItemOf(fl, x)
    OBVIOUS
  <2>2. Adds(l, m, x, v) /\ v.at = Address(s, o, t)
    BY <1>2, <2>1, HeardAdded
  <2>3. PICK a : a = Address(s, o, j)
    OBVIOUS
  <2>4. Fits(fl, o, s) /\ t \in 1..Len(s)
    BY DEF Due
  <2>5. /\ a # v.at /\ v.at.kind = s[t].kind
        /\ s[t].kind \in Merged /\ v.at.line = a.line => t = j + 1
    BY <2>2, <2>3, <2>4, AddressesDiffer DEF Address
  <2>6. a # Silent.at
    BY <2>3, <2>4, AddressHeard
  <2>7. DOMAIN Part(Contents(m), a) = DOMAIN Part(Contents(l), a)
    BY <2>2, <2>5, <2>6, ElsewhereFields
  <2>8. ASSUME NEW key \in DOMAIN Part(Contents(l), a) \ Untold(s, j)
        PROVE  Part(Contents(m), a)[key] = Part(Contents(l), a)[key]
    <3>1. ~(v.at.kind \in Merged /\ v.at.line = a.line /\ key = v.at.kind)
      <4>1. t = j + 1 => j < Len(s)
        BY <2>4, BlockLines
      <4> QED BY <2>5, <2>8, <4>1 DEF Untold
    <3> QED BY <2>2, <2>5, <2>6, <3>1, ElsewhereFields
  <2> QED BY <2>3, <2>7, <2>8, AgreeSame DEF Agreed
<1> QED BY <1>1, <1>2

\* The line gives the block that it is taken for what it means there.
LEMMA AgreedHere ==
  ASSUME NEW fl, NEW o, NEW s, NEW t, NEW x, NEW un, Due(fl, o, s, t, x, un),
         ~Quiet(fl, x), s[t].kind \notin {"auth", "schema"},
         NEW c, c = Contents(HeardOf(fl, un)), Agreed(fl, s, o, c, t),
         NEW v, v = ItemOf(fl, x),
         NEW left, Untold(s, t) \subseteq left \cup {v.key},
         v.key \in Untold(s, t) => Kinds(fl)[x] \in Merged,
         NEW f, f = Put(s[t].fields, v.key,
                        Gained(Kinds(fl)[x], c, v.at.line, x, v.args,
                               Entry(s[t].fields, v.key, <<>>)))
  PROVE  Agree(f, Together(HeadOf(fl, s, o, t),
                           Part(Contents(HeardOf(fl, un \ {x})), Address(s, o, t))), left)
<1>1. PICK l, m : l = HeardOf(fl, un) /\ m = HeardOf(fl, un \ {x})
  OBVIOUS
<1>2. Adds(l, m, x, v) /\ v.at = Address(s, o, t)
  BY <1>1, HeardAdded
<1>3. PICK kind : kind = Kinds(fl)[x]
  OBVIOUS
<1>4. kind = Grammar[v.at.kind][v.key] /\ v.key \in DOMAIN Grammar[v.at.kind]
  BY <1>3, ItemFacts DEF Due, Fits
<1>5. PICK g, h, e : g = Part(c, v.at) /\ h = HeadOf(fl, s, o, t) /\ e = s[t].fields
  OBVIOUS
<1>6. v.key \notin DOMAIN h
  <2>1. v.at.kind = s[t].kind
    BY <1>2 DEF Address
  <2> QED BY <1>4, <1>5, <2>1, HeadKeys DEF Due
<1>7. Agree(e, Together(h, g), Untold(s, t))
  BY <1>2, <1>5 DEF Agreed
<1>8. Gained(kind, c, v.at.line, x, v.args, Entry(e, v.key, <<>>)) =
        Gained(kind, c, v.at.line, x, v.args, Entry(g, v.key, <<>>))
  <2>1. CASE kind \in Merged
    BY <2>1 DEF Gained
  <2>2. CASE kind \notin Merged
    <3>1. Entry(e, v.key, <<>>) = Entry(g, v.key, <<>>)
      BY <1>3, <1>6, <1>7, <2>2, AgreeEntry
    <3> QED BY <3>1
  <2> QED BY <2>1, <2>2
<1>9. PICK w : w = Gained(kind, c, v.at.line, x, v.args, Entry(g, v.key, <<>>))
  OBVIOUS
<1>10. Part(Contents(m), v.at) = Put(g, v.key, w)
  BY <1>1, <1>2, <1>4, <1>5, <1>9, HereFields
<1>11. f = Put(e, v.key, w)
  BY <1>3, <1>5, <1>8, <1>9
<1>12. Agree(f, Together(h, Put(g, v.key, w)), left)
  BY <1>6, <1>7, <1>11, AgreePut
<1> QED BY <1>1, <1>2, <1>5, <1>10, <1>12

\* No line is in the last one.
LEMMA NothingWithin ==
  ASSUME NEW fl, FileOk(fl), NEW un, NEW x, x = Len(fl), NEW kind \in Blocks
  PROVE  Part(Contents(HeardOf(fl, un)), [kind |-> kind, line |-> x]) = <<>>
<1>1. PICK b : b = [kind |-> kind, line |-> x]
  OBVIOUS
<1>2. b # Silent.at
  BY <1>1, SilentIs
<1>3. PICK l : l = HeardOf(fl, un)
  OBVIOUS
<1>4. PICK n \in Nat : /\ n = Len(fl) /\ Tame(l) /\ DOMAIN l = 1..n
                       /\ \A i \in 1..n : l[i] = IF i \in un THEN Silent ELSE ItemOf(fl, i)
  BY <1>3, HeardTame
<1>5. ASSUME NEW i \in 1..n, l[i].at = b PROVE FALSE
  <2>1. l[i] = ItemOf(fl, i) /\ ~Quiet(fl, i)
    BY <1>2, <1>4, <1>5 DEF ItemOf
  <2>2. l[i].at = PlaceIn(fl, i)
    BY <1>4, <2>1, ItemFacts
  <2>3. PICK y : y = fl[i].in /\ y \in 0 .. i - 1
    BY <1>4 DEF FileOk, Opened
  <2>4. (IF Kinds(fl)[y] \in Merged THEN fl[y].in ELSE y) = n
    BY <1>1, <1>4, <1>5, <2>2, <2>3 DEF PlaceIn
  <2>5. Kinds(fl)[y] \in Merged => y # 0
    <3>1. Kinds(fl)[0] = "site"
      BY KindsLine DEF FileOk
    <3> QED BY <3>1 DEF Merged
  <2>6. y = 0 \/ (y \in 1..n /\ fl[y].in \in 0 .. y - 1)
    <3>1. y # 0 => y \in 1..n
      BY <2>3
    <3> QED BY <1>4, <3>1 DEF FileOk, Opened
  <2> QED BY <1>4, <2>3, <2>4, <2>5, <2>6
<1> QED BY <1>1, <1>2, <1>3, <1>4, <1>5, PartIsFunction

\* The last line, and the one that opened the innermost block.
LEMMA DueLast ==
  ASSUME NEW fl, NEW o, NEW s, Fits(fl, o, s), NEW t, t = Len(s),
         NEW x, x = Len(fl), x >= 1, fl[x].in = BlockLine(o, t),
         NEW un, un = LinesOf(o, t - 1) \cup {x}
  PROVE  Due(fl, o, s, t, x, un)
<1>1. t \in Nat /\ t >= 1 /\ x \in Nat
  BY BlockLines
<1>2. t \in 1..t /\ x \in 1..x /\ \A i \in 1..x : ~(i > x)
  BY <1>1
<1>3. ASSUME NEW j \in 1..t, j # 1 PROVE BlockLine(o, j) \in un
  <2>1. j - 1 \in 1 .. t - 1
    BY <1>1, <1>3
  <2> QED BY <1>3, <2>1 DEF BlockLine, LinesOf
<1> QED BY <1>2, <1>3 DEF Due

LEMMA DueClosed ==
  ASSUME NEW fl, NEW o, NEW s, Fits(fl, o, s), NEW t, t = Len(s) - 1, t >= 1,
         NEW x, x = o[t], NEW un, un = LinesOf(o, t)
  PROVE  /\ Due(fl, o, s, t, x, un)
         /\ un \ {x} = LinesOf(o, t - 1)
<1>1. t \in Nat /\ Len(s) = t + 1 /\ Len(o) \in Nat /\ Len(o) >= t
  <2>1. Len(s) \in Nat /\ Len(o) \in Nat
    BY BlockLines
  <2> QED BY <2>1 DEF Fits
<1>2. t \in 1..t /\ t \in 1..Len(o) /\ t \in 1 .. t + 1 /\ t \in 1 .. Len(s) - 1
  BY <1>1
<1>3. x \in 1..Len(fl) /\ fl[x].in = BlockLine(o, t)
  BY <1>2 DEF Fits, Nest
<1>4. \A i \in 1..Len(fl) : i > x => fl[i].in >= x
  BY <1>2 DEF Fits, Nest
<1>5. ASSUME NEW j \in 1..t, j # 1 PROVE BlockLine(o, j) \in un
  <2>1. j - 1 \in 1..t
    BY <1>1, <1>5
  <2> QED BY <1>5, <2>1 DEF BlockLine, LinesOf
<1>6. \A j \in 1 .. t - 1 : j \in 1..t /\ o[j] # x
  <2> SUFFICES ASSUME NEW j \in 1 .. t - 1 PROVE j \in 1..t /\ o[j] # x
    OBVIOUS
  <2>1. j \in 1..t /\ j \in 1..Len(o) /\ j < t
    BY <1>1
  <2>2. o[j] < x
    BY <1>2, <2>1 DEF Fits, Nest
  <2>3. Len(fl) \in Nat
    BY BlockLines
  <2>4. x \in Nat
    BY <1>3, <2>3
  <2> QED BY <2>1, <2>2, <2>4
<1>7. \A j \in 1..t : j = t \/ j \in 1 .. t - 1
  BY <1>1
<1>8. un \ {x} = LinesOf(o, t - 1)
  BY <1>6, <1>7 DEF LinesOf
<1>9. t \in 1..Len(s) /\ x \in un
  BY <1>1, <1>2 DEF LinesOf
<1>10. Due(fl, o, s, t, x, un)
  BY <1>3, <1>4, <1>5, <1>9 DEF Due
<1> QED BY <1>8, <1>10

\* A block ends, and is in the one around it what its lines mean there.
LEMMA ClosedHere ==
  ASSUME NEW fl, NEW o, NEW s, NEW t, NEW x, NEW un, Due(fl, o, s, t, x, un),
         t + 1 = Len(s), x = o[t],
         NEW c, c = Contents(HeardOf(fl, un)),
         Agreed(fl, s, o, c, t), Agreed(fl, s, o, c, t + 1),
         NEW f, f = Ended(s[t].fields, s[t + 1].kind, s[t + 1].fields)
  PROVE  Agree(f, Together(HeadOf(fl, s, o, t),
                           Part(Contents(HeardOf(fl, un \ {x})), Address(s, o, t))),
               IF t = 1 THEN {"auth", "schema"} ELSE {})
<1>0. Fits(fl, o, s) /\ t \in 1..Len(s) /\ x \in 1..Len(fl)
  BY DEF Due
<1>1. t \in Nat /\ t >= 1 /\ t \in 1 .. Len(s) - 1 /\ Len(s) = t + 1
  <2>1. PICK k \in Nat : k = Len(s) /\ t \in 1..k /\ t + 1 = k
    BY <1>0, BlockLines
  <2>2. t \in Nat /\ t >= 1 /\ t \in 1 .. k - 1
    BY <2>1
  <2> QED BY <2>1, <2>2
<1>2. PICK b, kind : b = s[t].kind /\ kind = s[t + 1].kind
  OBVIOUS
<1>3. /\ kind \in Blocks /\ b \notin Merged /\ fl[x].opens /\ BlockLine(o, t + 1) = x
      /\ Kinds(fl)[x] = kind /\ Head(fl[x].words) = kind
      /\ b \in DOMAIN Grammar /\ kind \in DOMAIN Grammar[b]
  BY <1>0, <1>1, <1>2, InnerBlock
<1>4. \/ b = "site" /\ kind \notin {"param", "output"}
      \/ b = "query" /\ kind \in {"param", "output"}
  <2>1. Fits(fl, o, s) /\ t \in 1 .. Len(s) - 1
    BY <1>0, <1>1
  <2>2. \/ s[t].kind = "site" /\ s[t + 1].kind \notin {"param", "output"}
        \/ s[t].kind = "query" /\ s[t + 1].kind \in {"param", "output"}
    BY <2>1, InnerBlock
  <2> QED BY <1>2, <2>2
<1>5. b = "site" => t = 1
  <2>1. t = 1 \/ t \in 2..Len(s)
    BY <1>1
  <2> QED BY <1>0, <1>2, <2>1, BlocksAre DEF Fits, Framed
<1>6. t < Len(s)
  BY <1>1
<1>7. Untold(s, t) = (IF t = 1 THEN {"auth", "schema"} ELSE {}) \cup ({kind} \cap Merged)
  BY <1>2, <1>6 DEF Untold
<1>8. PICK left : left = IF t = 1 THEN {"auth", "schema"} ELSE {}
  OBVIOUS
<1>9. b \notin {"auth", "schema"}
  BY <1>4
<1>10. CASE kind \in {"auth", "schema"}
  <2>1. HeardOf(fl, un \ {x}) = HeardOf(fl, un)
    <3>1. Quiet(fl, x)
      BY <1>3, <1>10 DEF Quiet
    <3> QED BY <3>1, HeardSame
  <2>2. t = 1 /\ Untold(s, t) = left /\ kind \in left
    BY <1>4, <1>5, <1>7, <1>8, <1>10
  <2>3. \E w : f = Put(s[t].fields, kind, w)
    <3>1. CASE kind = "auth"
      BY <1>2, <3>1 DEF Ended, Merged
    <3>2. CASE kind = "schema"
      BY <1>2, <3>2 DEF Ended, Merged
    <3> QED BY <1>10, <3>1, <3>2
  <2>4. PICK w : f = Put(s[t].fields, kind, w)
    BY <2>3
  <2>5. Agree(s[t].fields, Together(HeadOf(fl, s, o, t), Part(c, Address(s, o, t))), left)
    BY <1>2, <1>9, <2>2 DEF Agreed
  <2>6. Agree(f, Together(HeadOf(fl, s, o, t), Part(c, Address(s, o, t))), left)
    BY <2>2, <2>4, <2>5, AgreeAside
  <2> QED BY <1>8, <2>1, <2>6
<1>11. CASE kind \notin {"auth", "schema"}
  <2>1. ~Quiet(fl, x)
    <3>1. kind # "unknown" /\ kind # "statements"
      BY <1>3, BlocksAre
    <3> QED BY <1>3, <1>11, <3>1 DEF Quiet
  <2>2. PICK v : v = ItemOf(fl, x)
    OBVIOUS
  <2>3. v.key = kind /\ v.at = Address(s, o, t) /\ v.args = Tail(fl[x].words)
    <3>1. kind # "from"
      BY <1>3, BlocksAre
    <3>2. Field(kind) = kind
      BY <3>1 DEF Field
    <3>3. Adds(HeardOf(fl, un), HeardOf(fl, un \ {x}), x, v) /\ v.at = Address(s, o, t)
      BY <2>1, <2>2, HeardAdded
    <3> QED BY <1>0, <1>3, <2>1, <2>2, <3>2, <3>3, ItemFacts DEF Fits
  <2>4. v.at.line = BlockLine(o, t)
    BY <1>2, <1>3, <2>3 DEF Address
  <2>5. t + 1 # 1 /\ (t + 1) - 1 = t /\ t + 1 \in 1..Len(s) /\ ~(t + 1 < Len(s))
    BY <1>1
  <2>6. PICK h, p : h = HeadOf(fl, s, o, t + 1) /\ p = Part(c, Address(s, o, t + 1))
    OBVIOUS
  <2>7. h = Opening(kind, v.args)
    BY <1>2, <2>3, <2>5, <2>6 DEF HeadOf
  <2>8. Address(s, o, t + 1) = [kind |-> kind,
                                line |-> IF kind \in Merged THEN v.at.line ELSE x]
    BY <1>2, <1>3, <2>4, <2>5 DEF Address
  <2>9. s[t + 1].fields = Together(h, p)
    <3>1. Untold(s, t + 1) = {}
      BY <2>5 DEF Untold
    <3>2. Agree(s[t + 1].fields, Together(h, p), {})
      BY <1>2, <1>11, <2>6, <3>1 DEF Agreed
    <3>3. IsFunction(Together(h, p))
      BY DEF IsFunction, Together
    <3> QED BY <3>2, <3>3, AgreeWhole
  <2>10. f = Put(s[t].fields, v.key,
                 Gained(Kinds(fl)[x], c, v.at.line, x, v.args, Entry(s[t].fields, v.key, <<>>)))
    <3>1. CASE kind \in Merged
      <4>1. IsFunction(h) /\ DOMAIN h = {}
        BY <1>3, <2>7, <3>1, OpeningKeys
      <4>2. IsFunction(p)
        <5>1. Address(s, o, t + 1) # Silent.at
          BY <1>0, <2>5, AddressHeard
        <5> QED BY <1>0, <2>6, <5>1, HeardTame, PartIsFunction DEF Fits
      <4>3. s[t + 1].fields = p
        BY <2>9, <4>1, <4>2, TogetherNone
      <4>4. f = Put(s[t].fields, kind, p)
        BY <1>2, <3>1, <4>3 DEF Ended, Merged
      <4>5. Gained(kind, c, v.at.line, x, v.args, Entry(s[t].fields, v.key, <<>>)) = p
        BY <2>6, <2>8, <3>1 DEF Gained
      <4> QED BY <1>3, <2>3, <4>4, <4>5
    <3>2. CASE kind \notin Merged
      <4>1. p = Part(c, [kind |-> kind, line |-> x])
        BY <2>6, <2>8, <3>2
      <4>2. f = Put(s[t].fields, kind,
                    Append(Entry(s[t].fields, kind, <<>>), Together(h, p)))
        BY <1>2, <1>11, <2>9, <3>2 DEF Ended
      <4> QED BY <1>3, <2>3, <2>7, <3>2, <4>1, <4>2 DEF Gained
    <3> QED BY <3>1, <3>2
  <2>11. /\ Untold(s, t) \subseteq left \cup {v.key}
         /\ v.key \in Untold(s, t) => Kinds(fl)[x] \in Merged
    BY <1>3, <1>7, <1>8, <1>11, <2>3
  <2>12. s[t].kind \notin {"auth", "schema"}
    BY <1>2, <1>9
  <2>13. Agree(f, Together(HeadOf(fl, s, o, t),
                           Part(Contents(HeardOf(fl, un \ {x})), Address(s, o, t))), left)
    BY <2>1, <2>2, <2>10, <2>11, <2>12, AgreedHere
  <2> QED BY <1>8, <2>13
<1> QED BY <1>10, <1>11

\* A directive of the innermost block.
LEMMA TakenHere ==
  ASSUME NEW fl, NEW o, NEW s, NEW t, NEW x, NEW un, Due(fl, o, s, t, x, un),
         t = Len(s), s[t].kind \notin {"auth", "schema"},
         NEW c, c = Contents(HeardOf(fl, un)), Agreed(fl, s, o, c, t),
         NEW kind, kind = Kinds(fl)[x], kind \notin Blocks \cup {"unknown", "statements"},
         NEW key, key = Field(Head(fl[x].words)),
         NEW f, f = Put(s[t].fields, key,
                        Value(kind, Tail(fl[x].words), Entry(s[t].fields, key, <<>>)))
  PROVE  Agree(f, Together(HeadOf(fl, s, o, t),
                           Part(Contents(HeardOf(fl, un \ {x})), Address(s, o, t))),
               Untold(s, t))
<1>1. ~Quiet(fl, x) /\ kind \notin Merged
  <2>1. kind \notin {"auth", "schema"} /\ kind \notin Merged
    BY BlocksAre DEF Merged
  <2> QED BY <2>1 DEF Quiet
<1>2. PICK v : v = ItemOf(fl, x)
  OBVIOUS
<1>3. Adds(HeardOf(fl, un), HeardOf(fl, un \ {x}), x, v) /\ v.at = Address(s, o, t)
  BY <1>1, <1>2, HeardAdded
<1>4. Fits(fl, o, s) /\ FileOk(fl) /\ x \in 1..Len(fl) /\ t \in 1..Len(s)
  BY DEF Due, Fits
<1>5. /\ v.key = key /\ v.args = Tail(fl[x].words) /\ Grammar[v.at.kind][key] = kind
      /\ v.at.kind = s[t].kind
  BY <1>1, <1>2, <1>3, <1>4, ItemFacts DEF Address
<1>6. key \notin Untold(s, t)
  <2>1. ~(t < Len(s))
    BY <1>4, BlockLines
  <2>2. t = 1 => s[t].kind = "site"
    BY <1>4 DEF Fits, Framed
  <2>3. Grammar["site"]["auth"] = "auth" /\ Grammar["site"]["schema"] = "schema"
    BY DEF Grammar, SiteBlock
  <2>4. t = 1 => key \notin {"auth", "schema"}
    BY <1>5, <2>2, <2>3, BlocksAre
  <2> QED BY <2>1, <2>4 DEF Untold
<1>7. Gained(kind, c, v.at.line, x, v.args, Entry(s[t].fields, key, <<>>)) =
        Value(kind, Tail(fl[x].words), Entry(s[t].fields, key, <<>>))
  BY <1>1, <1>5 DEF Gained
<1>8. f = Put(s[t].fields, v.key,
              Gained(Kinds(fl)[x], c, v.at.line, x, v.args, Entry(s[t].fields, v.key, <<>>)))
  BY <1>5, <1>7
<1>9. /\ Untold(s, t) \subseteq Untold(s, t) \cup {v.key}
      /\ v.key \in Untold(s, t) => Kinds(fl)[x] \in Merged
  BY <1>5, <1>6
<1> QED BY <1>1, <1>2, <1>8, <1>9, AgreedHere

\* Line x is of this kind.
Named(fl, x, kind) == kind = Kinds(fl)[x]

\* A block without lines of its own.
LEMMA OpenedHere ==
  ASSUME NEW fl, NEW o, NEW s, NEW t, NEW x, NEW un, Due(fl, o, s, t, x, un),
         t = Len(s), s[t].kind \notin {"auth", "schema"},
         NEW c, c = Contents(HeardOf(fl, un)), Agreed(fl, s, o, c, t),
         NEW kind, Named(fl, x, kind), kind \in Blocks, kind \notin Merged \cup {"schema"},
         Part(c, [kind |-> kind, line |-> x]) = <<>>,
         NEW f, f = Ended(s[t].fields, kind, Opening(kind, Tail(fl[x].words)))
  PROVE  Agree(f, Together(HeadOf(fl, s, o, t),
                           Part(Contents(HeardOf(fl, un \ {x})), Address(s, o, t))),
               Untold(s, t))
<1>1. ~Quiet(fl, x)
  <2>1. kind \notin {"auth", "schema", "unknown", "statements"}
    BY BlocksAre DEF Merged
  <2> QED BY <2>1 DEF Quiet, Named
<1>2. PICK v : v = ItemOf(fl, x)
  OBVIOUS
<1>3. Adds(HeardOf(fl, un), HeardOf(fl, un \ {x}), x, v) /\ v.at = Address(s, o, t)
  BY <1>1, <1>2, HeardAdded
<1>4. Fits(fl, o, s) /\ FileOk(fl) /\ x \in 1..Len(fl) /\ t \in 1..Len(s)
  BY DEF Due, Fits
<1>5. /\ v.key = Field(Head(fl[x].words)) /\ v.args = Tail(fl[x].words)
      /\ v.at.kind \in DOMAIN Grammar /\ v.key \in DOMAIN Grammar[v.at.kind]
      /\ Grammar[v.at.kind][v.key] = kind
  <2>1. /\ v.key = Field(Head(fl[x].words)) /\ v.args = Tail(fl[x].words)
        /\ v.at.kind \in DOMAIN Grammar /\ v.key \in DOMAIN Grammar[v.at.kind]
        /\ Grammar[v.at.kind][v.key] = Kinds(fl)[x]
    BY <1>1, <1>2, <1>4, ItemFacts
  <2> QED BY <2>1 DEF Named
<1>6. v.key = kind
  BY <1>5, BlockDepth
<1>7. kind \notin Untold(s, t)
  <2>1. ~(t < Len(s))
    BY <1>4, BlockLines
  <2>2. kind \notin {"auth", "schema"}
    BY DEF Merged
  <2> QED BY <2>1, <2>2 DEF Untold
<1>8. PICK h : h = Opening(kind, v.args)
  OBVIOUS
<1>9. Together(h, Part(c, [kind |-> kind, line |-> x])) = h
  <2>1. IsFunction(h)
    BY <1>8, OpeningKeys
  <2>2. DOMAIN <<>> = {} /\ IsFunction(<<>>)
    BY EmptyIsSeq DEF IsFunction
  <2> QED BY <2>1, <2>2, TogetherNone
<1>10. PICK w : w = Append(Entry(s[t].fields, kind, <<>>), h)
  OBVIOUS
<1>11. f = Put(s[t].fields, kind, w)
  BY <1>5, <1>8, <1>10 DEF Ended
<1>12. Gained(kind, c, v.at.line, x, v.args, Entry(s[t].fields, kind, <<>>)) = w
  BY <1>8, <1>9, <1>10 DEF Gained
<1>13. f = Put(s[t].fields, v.key,
               Gained(Kinds(fl)[x], c, v.at.line, x, v.args, Entry(s[t].fields, v.key, <<>>)))
  BY <1>6, <1>11, <1>12 DEF Named
<1>14. /\ Untold(s, t) \subseteq Untold(s, t) \cup {v.key}
       /\ v.key \in Untold(s, t) => Kinds(fl)[x] \in Merged
  BY <1>6, <1>7 DEF Named
<1> QED BY <1>1, <1>2, <1>13, <1>14, AgreedHere

\* Where no line of an `output' or a `log' has been taken, none of its is.
LEMMA MergedStart ==
  ASSUME NEW fl, NEW o, NEW s, NEW t, NEW x, NEW un, Due(fl, o, s, t, x, un),
         t = Len(s), x = Len(fl), un = LinesOf(o, t - 1) \cup {x},
         NEW l, l = HeardOf(fl, un),
         NEW kind \in Merged, s[t].kind \notin Merged, kind # "auth",
         kind \notin KeysAt(l, Address(s, o, t)), NEW i \in 1..Len(fl)
  PROVE  l[i].at # [kind |-> kind, line |-> BlockLine(o, t)]
<1> SUFFICES ASSUME l[i].at = [kind |-> kind, line |-> BlockLine(o, t)] PROVE FALSE
  OBVIOUS
<1>0. Fits(fl, o, s) /\ FileOk(fl) /\ t \in 1..Len(s)
  BY DEF Due, Fits
<1>1. PICK n \in Nat : /\ n = Len(fl) /\ DOMAIN l = 1..n
                       /\ \A k \in 1..n : l[k] = IF k \in un THEN Silent ELSE ItemOf(fl, k)
  BY <1>0, HeardTame
<1>2. Merged \subseteq Blocks
  BY BlocksAre DEF Merged
<1>3. l[i] = ItemOf(fl, i) /\ ~Quiet(fl, i)
  <2>1. l[i] # Silent
    BY <1>2, SilentIs
  <2>2. i \in 1..n
    BY <1>1
  <2> QED BY <1>1, <2>1, <2>2 DEF ItemOf
<1>4. l[i].at = PlaceIn(fl, i)
  BY <1>0, <1>3, ItemFacts
<1>5. PICK y : y = fl[i].in /\ y \in 0 .. i - 1
  BY <1>0 DEF FileOk, Opened
<1>6. Kinds(fl)[y] = kind /\ fl[y].in = BlockLine(o, t)
  BY <1>4, <1>5 DEF PlaceIn
<1>7. y # 0
  <2>1. Kinds(fl)[0] = "site"
    BY <1>0, KindsLine DEF FileOk
  <2> QED BY <1>6, <2>1 DEF Merged
<1>8. y \in 1..n /\ y < i /\ i <= n
  BY <1>1, <1>5, <1>7
<1>9. fl[y].opens
  BY <1>0, <1>1, <1>5, <1>7 DEF Fits, Nest
<1>10. ~Quiet(fl, y)
  <2>1. kind # "unknown" /\ kind # "schema" /\ kind # "statements"
    BY DEF Merged
  <2> QED BY <1>6, <1>9, <2>1 DEF Quiet
<1>11. PICK v : v = ItemOf(fl, y)
  OBVIOUS
<1>12. v.at = Address(s, o, t) /\ v.key = kind
  <2>1. v.at = PlaceIn(fl, y) /\ v.at.kind \in DOMAIN Grammar
        /\ v.key \in DOMAIN Grammar[v.at.kind] /\ Grammar[v.at.kind][v.key] = kind
    BY <1>0, <1>1, <1>6, <1>8, <1>10, <1>11, ItemFacts
  <2>2. PlaceIn(fl, y) = Address(s, o, t)
    BY <1>0, <1>6, PlaceIsAddress
  <2>3. v.key = kind
    BY <1>2, <2>1, BlockDepth
  <2> QED BY <2>1, <2>2, <2>3
<1>13. y \notin un
  <2>1. y # x
    BY <1>1, <1>8
  <2>2. ASSUME NEW j \in 1 .. t - 1, y = o[j] PROVE FALSE
    <3>1. PICK k \in Nat : k = Len(s) /\ k = t
      BY <1>0, BlockLines
    <3>2. j \in 1 .. Len(s) - 1 /\ j \in 1..Len(s) /\ j < t
      BY <3>1
    <3>3. fl[y].in = BlockLine(o, j)
      BY <1>0, <2>2, <3>2, InnerBlock
    <3>4. BlockLine(o, j) < BlockLine(o, t) /\ BlockLine(o, j) \in 0..n
      BY <1>0, <1>1, <3>2, BlockLines
    <3> QED BY <1>1, <1>6, <3>3, <3>4
  <2> QED BY <2>1, <2>2 DEF LinesOf
<1>14. l[y] = v
  BY <1>1, <1>8, <1>11, <1>13
<1> QED BY <1>1, <1>8, <1>12, <1>14 DEF KeysAt

\* A block begins: with what was in it before, or with nothing but what its own
\* line says.
LEMMA PushedHere ==
  ASSUME NEW fl, NEW o, NEW s, NEW t, NEW x, NEW un, Due(fl, o, s, t, x, un),
         t = Len(s), x = Len(fl), un = LinesOf(o, t - 1) \cup {x},
         fl[x].opens, s[t].kind \notin {"auth", "schema"},
         NEW l, l = HeardOf(fl, un), Agreed(fl, s, o, Contents(l), t),
         NEW kind, kind = Kinds(fl)[x], kind \in Blocks \ {"auth", "schema"},
         NEW h, h = Opening(kind, Tail(fl[x].words)),
         NEW p, p = Part(Contents(l), [kind |-> kind,
                                       line |-> IF kind \in Merged THEN BlockLine(o, t) ELSE x])
  PROVE  Agree(Started(kind, Tail(fl[x].words), s[t].fields), Together(h, p), {})
<1>0. Fits(fl, o, s) /\ FileOk(fl) /\ x \in 1..Len(fl) /\ t \in 1..Len(s)
  BY DEF Due, Fits
<1>1. IsFunction(h) /\ (kind \in Merged => DOMAIN h = {})
  BY OpeningKeys
<1>2. CASE kind \notin Merged
  <2>1. p = <<>>
    BY <1>0, <1>2, NothingWithin
  <2>2. DOMAIN <<>> = {} /\ IsFunction(<<>>)
    BY EmptyIsSeq DEF IsFunction
  <2>3. Together(h, p) = h
    BY <1>1, <2>1, <2>2, TogetherNone
  <2>4. Started(kind, Tail(fl[x].words), s[t].fields) = h
    BY <1>2 DEF Started
  <2> QED BY <1>1, <2>3, <2>4, AgreeWhole
<1>3. CASE kind \in Merged
  <2>1. PICK b : b = s[t].kind
    OBVIOUS
  <2>2. PICK c, g, a : c = Contents(l) /\ a = Address(s, o, t) /\ g = Part(c, a)
    OBVIOUS
  <2>3. b \in DOMAIN Grammar /\ kind \in DOMAIN Grammar[b] /\ Grammar[b][kind] = kind
        /\ (b = "site" \/ b = "query")
    <3>1. ~Quiet(fl, x)
      <4>1. kind # "unknown" /\ kind # "statements"
        BY BlocksAre
      <4> QED BY <4>1 DEF Quiet
    <3>2. PICK v : v = ItemOf(fl, x)
      OBVIOUS
    <3>3. /\ v.at.kind = Kinds(fl)[fl[x].in]
          /\ v.at.kind \in DOMAIN Grammar /\ v.key \in DOMAIN Grammar[v.at.kind]
          /\ Grammar[v.at.kind][v.key] = Kinds(fl)[x]
      BY <1>0, <3>1, <3>2, ItemFacts
    <3>4. v.at.kind = b
      <4>1. fl[x].in = BlockLine(o, t)
        BY DEF Due
      <4>2. s[t].kind = Kinds(fl)[BlockLine(o, t)]
        BY <1>0, BlockLines
      <4> QED BY <2>1, <3>3, <4>1, <4>2
    <3>5. Grammar[b][v.key] \in Blocks
      BY <3>3, <3>4
    <3> QED BY <3>3, <3>4, <3>5, BlockDepth
  <2>4. b \notin Merged
    BY <2>3 DEF Merged
  <2>5. a.line = BlockLine(o, t) /\ a.kind = b /\ a # Silent.at
    BY <1>0, <2>1, <2>2, <2>4, AddressHeard DEF Address
  <2>6. p = Part(c, [kind |-> kind, line |-> a.line])
    BY <1>3, <2>2, <2>5
  <2>7. Tame(l) /\ DOMAIN l = 1..Len(fl)
    BY <1>0, HeardTame
  <2>8. g = FieldsAt(l, c, a)
    BY <2>2, <2>5, <2>7, ContentsFixed
  <2>9. Entry(g, kind, <<>>) = p
    <3>1. CASE kind \in KeysAt(l, a)
      <4>1. Entry(g, kind, <<>>) = Meant(l, c, a, kind)
        BY <2>8, <3>1 DEF Entry, FieldsAt
      <4>2. Meant(l, c, a, kind) = MeantOf(kind, l, c, a.line, Mine(l, a, kind))
        BY <2>3, <2>5, MeantIs
      <4> QED BY <1>3, <2>6, <4>1, <4>2 DEF MeantOf
    <3>2. CASE kind \notin KeysAt(l, a)
      <4>1. Entry(g, kind, <<>>) = <<>>
        BY <2>8, <3>2 DEF Entry, FieldsAt
      <4>2. PICK d : d = [kind |-> kind, line |-> a.line]
        OBVIOUS
      <4>3. \A i \in DOMAIN l : l[i].at # d
        <5>1. kind # "auth" /\ s[t].kind \notin Merged /\ kind \notin KeysAt(l, Address(s, o, t))
          BY <2>1, <2>2, <2>4, <3>2
        <5>2. \A i \in 1..Len(fl) : l[i].at # [kind |-> kind, line |-> BlockLine(o, t)]
          BY <1>3, <5>1, MergedStart
        <5> QED BY <2>5, <2>7, <4>2, <5>2
      <4>4. d # Silent.at
        BY <4>2, SilentIs
      <4>5. Tame(l) /\ d # Silent.at /\ \A i \in DOMAIN l : l[i].at # d
        BY <2>7, <4>3, <4>4
      <4>6. Part(Contents(l), d) = <<>>
        BY <4>5, PartIsFunction
      <4>7. p = <<>>
        BY <2>2, <2>6, <4>2, <4>6
      <4> QED BY <4>1, <4>7
    <3> QED BY <3>1, <3>2
  <2>10. Entry(s[t].fields, kind, <<>>) = Entry(g, kind, <<>>)
    <3>1. PICK top : top = HeadOf(fl, s, o, t)
      OBVIOUS
    <3>2. Agree(s[t].fields, Together(top, g), Untold(s, t))
      BY <2>2, <3>1 DEF Agreed
    <3>3. kind \notin Untold(s, t)
      <4>1. ~(t < Len(s))
        BY <1>0, BlockLines
      <4> QED BY <4>1 DEF Untold
    <3>4. kind \notin DOMAIN top
      BY <1>0, <2>1, <2>3, <3>1, HeadKeys
    <3> QED BY <3>2, <3>3, <3>4, AgreeEntry
  <2>11. Started(kind, Tail(fl[x].words), s[t].fields) = p
    BY <1>3, <2>9, <2>10 DEF Started, Merged
  <2>12. IsFunction(p)
    <3>1. PICK d : d = [kind |-> kind, line |-> a.line]
      OBVIOUS
    <3>2. d # Silent.at
      BY <3>1, SilentIs
    <3> QED BY <2>2, <2>6, <2>7, <3>1, <3>2, PartIsFunction
  <2>13. Together(h, p) = p
    BY <1>1, <1>3, <2>12, TogetherNone
  <2> QED BY <2>11, <2>12, <2>13, AgreeWhole
<1> QED BY <1>2, <1>3

-----------------------------------------------------------------------------
(* Every step keeps it so.                                                 *)

\* The lines of the open blocks, and the one under way.
Unread ==
  LinesOf(open, Len(stack) - 1) \cup (IF rest = <<>> THEN {} ELSE {Len(file)})

Heard == HeardOf(file, Unread)

Gathered ==
  /\ rest # <<>> => file[Len(file)].in = BlockLine(open, Len(stack))
  /\ \A j \in 1..Len(stack) : Agreed(file, stack, open, Contents(Heard), j)

LEMMA StateFits ==
  Layout /\ InStep /\ Nest(file, open) => Fits(file, open, stack)
BY KindOfFile DEF Layout, InStep, Aligned, Fits, FileOk

\* The blocks up to j have the same lines.
Moved(fl, o, gl, r, j) ==
  \A i \in 1 .. j - 1 : r[i] = o[i] /\ gl[o[i]].words = fl[o[i]].words

LEMMA PlaceMoved ==
  ASSUME NEW fl, NEW o, NEW s, Fits(fl, o, s), NEW j \in 1..Len(s),
         NEW gl, NEW r, Moved(fl, o, gl, r, j), NEW z, z[j].kind = s[j].kind
  PROVE  /\ HeadOf(gl, z, r, j) = HeadOf(fl, s, o, j)
         /\ Address(z, r, j) = Address(s, o, j)
<1>1. PICK k \in Nat : k = Len(s) /\ j \in 1..k
  BY BlockLines
<1>2. j # 1 => j - 1 \in 1 .. j - 1
  BY <1>1
<1>3. HeadOf(gl, z, r, j) = HeadOf(fl, s, o, j)
  BY <1>2 DEF HeadOf, Moved
<1>4. BlockLine(r, j) = BlockLine(o, j)
  BY <1>2 DEF BlockLine, Moved
<1>5. s[j].kind \in Merged => BlockLine(r, j - 1) = BlockLine(o, j - 1)
  <2> SUFFICES ASSUME s[j].kind \in Merged, j - 1 # 1
               PROVE  BlockLine(r, j - 1) = BlockLine(o, j - 1)
    BY DEF BlockLine
  <2>1. j - 1 \in 1..k
    BY <1>1, MergedWithin
  <2>2. (j - 1) - 1 \in 1 .. j - 1
    BY <1>1, <2>1
  <2> QED BY <2>2 DEF BlockLine, Moved
<1>6. Address(z, r, j) = Address(s, o, j)
  BY <1>4, <1>5 DEF Address
<1> QED BY <1>3, <1>6

LEMMA AgreedMoved ==
  ASSUME NEW fl, NEW o, NEW s, Fits(fl, o, s), NEW j \in 1..Len(s), NEW c,
         Agreed(fl, s, o, c, j),
         NEW gl, NEW r, Moved(fl, o, gl, r, j),
         NEW z, z[j] = s[j], Untold(s, j) \subseteq Untold(z, j)
  PROVE  Agreed(gl, z, r, c, j)
<1>1. z[j].kind = s[j].kind
  OBVIOUS
<1>2. /\ HeadOf(gl, z, r, j) = HeadOf(fl, s, o, j)
      /\ Address(z, r, j) = Address(s, o, j)
  BY <1>1, PlaceMoved
<1> QED BY <1>2, AgreeWider DEF Agreed

LEMMA WrittenHeard ==
  ASSUME Layout, NEW l, IsLine(l), Write(l), NEW gl, gl = file', NEW un, NEW vn,
         vn = un \cup {Len(gl)} \/ (vn = un /\ Quiet(gl, Len(gl)))
  PROVE  /\ HeardOf(gl, vn) = Append(HeardOf(file, un), Silent)
         /\ Contents(HeardOf(gl, vn)) = Contents(HeardOf(file, un))
<1>1. PICK n \in Nat : n = Len(file)
  BY WriteFacts
<1>2. /\ FileOk(file) /\ FileOk(gl) /\ Len(gl) = n + 1 /\ \A i \in 1..n : gl[i] = file[i]
  <2>1. Layout' /\ Len(gl) = n + 1 /\ \A i \in 1..n : gl[i] = file[i]
    BY <1>1, WriteFacts
  <2> QED BY <2>1 DEF Layout, FileOk
<1>3. \A i \in 1..n : i \in vn <=> i \in un
  <2>1. \A i \in 1..n : i # n + 1
    OBVIOUS
  <2> QED BY <1>2, <2>1
<1>4. Len(gl) \in vn \/ Quiet(gl, Len(gl))
  OBVIOUS
<1> QED BY <1>1, <1>2, <1>3, <1>4, HeardPadded

LEMMA DirectivesGathered ==
  ASSUME Layout, InStep, Nest(file, open), Gathered, NEW l, IsLine(l), ReadDirectives(l)
  PROVE  Gathered'
<1>1. /\ Write(l) /\ rest = <<>> /\ rest' # <<>> /\ stack' = stack /\ l # Close
      /\ Top.kind # "schema"
  <2>1. l # Close /\ rest' = l.words
    BY DEF ReadDirectives
  <2> QED BY <2>1 DEF ReadDirectives, Write, Idle, IsLine
<1>2. PICK n \in Nat : n = Len(file)
  BY <1>1, WriteFacts
<1>3. PICK k \in Nat : k = Len(stack) /\ k >= 1 /\ Fits(file, open, stack)
  BY StateFits, BlockLines
<1>4. Len(open) = k - 1 /\ IsSeq(open)
  <2>1. ~Nested
    BY <1>1 DEF InStep, Rested
  <2>2. Len(open) \in Nat /\ Len(open) >= k - 1
    BY <1>3, StackFacts DEF InStep, Aligned
  <2>3. ~(Len(open) >= k)
    BY <1>3, <2>1 DEF Nested
  <2> QED BY <1>3, <2>2, <2>3, StackFacts
<1>5. PICK r, gl : r = open' /\ gl = file'
  OBVIOUS
<1>6. /\ Len(gl) = n + 1 /\ \A i \in 1..n : gl[i] = file[i]
      /\ gl[n + 1].in = Within
      /\ r = IF l.opens THEN Append(open, n + 1) ELSE open
  <2>1. l.opens \in BOOLEAN
    BY DEF IsLine
  <2>2. /\ Len(file') = Len(file) + 1
        /\ \A i \in 1..Len(file) : file'[i] = file[i]
        /\ file'[Len(file) + 1] = [in |-> Within, words |-> l.words, opens |-> l.opens]
        /\ l.opens => open' = Append(open, Len(file) + 1)
        /\ ~l.opens => open' = IF l = Close /\ open # <<>> THEN Front(open) ELSE open
    BY <1>1, WriteFacts
  <2> QED BY <1>1, <1>2, <1>5, <2>1, <2>2
<1>7. \A i \in 1 .. k - 1 : r[i] = open[i] /\ open[i] \in 1..n
  <2>1. \A i \in 1 .. k - 1 : Append(open, n + 1)[i] = open[i]
    BY <1>4, AppendFacts
  <2>2. \A i \in 1 .. k - 1 : open[i] \in 1..n
    BY <1>2, <1>4 DEF Layout
  <2> QED BY <1>6, <2>1, <2>2
<1>8. gl[n + 1].in = BlockLine(r, k)
  <2>1. k = 1 => Within = 0
    <3>1. k = 1 => Len(open) = 0
      BY <1>4
    <3>2. Len(open) = 0 => open = <<>>
      BY <1>4, EmptyIsSeq, SeqsEqual
    <3> QED BY <3>1, <3>2, WithinIsLine
  <2>2. k # 1 => k - 1 \in 1 .. k - 1 /\ Within = open[k - 1]
    <3>1. k # 1 => Len(open) # 0
      BY <1>3, <1>4
    <3>2. Len(open) # 0 => open # <<>>
      BY EmptyIsSeq
    <3> QED BY <1>3, <1>4, <3>1, <3>2, WithinIsLine
  <2> QED BY <1>6, <1>7, <2>1, <2>2 DEF BlockLine
<1>9. PICK un, vn : un = LinesOf(open, k - 1) /\ vn = un \cup {n + 1}
  OBVIOUS
<1>10. Unread = un /\ Unread' = vn
  <2>1. Unread = un
    BY <1>1, <1>3, <1>9 DEF Unread
  <2>2. Unread' = LinesOf(r, k - 1) \cup {n + 1}
    BY <1>1, <1>3, <1>5, <1>6 DEF Unread
  <2>3. LinesOf(r, k - 1) = un
    BY <1>7, <1>9 DEF LinesOf
  <2> QED BY <1>9, <2>1, <2>2, <2>3
<1>11. Contents(HeardOf(gl, vn)) = Contents(HeardOf(file, un))
  BY <1>1, <1>5, <1>6, <1>9, WrittenHeard
<1>12. PICK c : c = Contents(HeardOf(file, un))
  OBVIOUS
<1>13. ASSUME NEW j \in 1..k PROVE Agreed(gl, stack, r, c, j)
  <2>1. Agreed(file, stack, open, c, j)
    BY <1>3, <1>10, <1>12 DEF Gathered, Heard
  <2>2. Moved(file, open, gl, r, j)
    <3>1. \A i \in 1 .. j - 1 : i \in 1 .. k - 1
      OBVIOUS
    <3> QED BY <1>6, <1>7, <3>1 DEF Moved
  <2>3. j \in 1..Len(stack) /\ Untold(stack, j) \subseteq Untold(stack, j)
    BY <1>3
  <2> QED BY <1>3, <2>1, <2>2, <2>3, AgreedMoved
<1> QED BY <1>1, <1>2, <1>3, <1>5, <1>6, <1>8, <1>10, <1>11, <1>12, <1>13 DEF Gathered, Heard

LEMMA SchemaGathered ==
  ASSUME Layout, InStep, Nest(file, open), Gathered, NEW l, IsLine(l), ReadSchema(l)
  PROVE  Gathered'
<1>1. /\ Write(l) /\ rest = <<>> /\ rest' = rest /\ Top.kind = "schema"
      /\ (l # Close \/ Nested)
  BY DEF ReadSchema, Write, Idle
<1>2. PICK n \in Nat : n = Len(file)
  BY <1>1, WriteFacts
<1>3. PICK k \in Nat : /\ k = Len(stack) /\ k >= 1 /\ Fits(file, open, stack)
                       /\ Top = stack[k] /\ Len(open) >= k - 1
                       /\ IsSeq(open) /\ Len(open) \in Nat
  <2>1. Fits(file, open, stack)
    BY StateFits
  <2> QED BY <2>1, BlockLines, StackFacts DEF Fits
<1>4. PICK r, gl : r = open' /\ gl = file'
  OBVIOUS
<1>5. /\ Len(gl) = n + 1 /\ \A i \in 1..n : gl[i] = file[i]
      /\ l.opens => r = Append(open, n + 1)
      /\ ~l.opens => r = IF l = Close /\ open # <<>> THEN Front(open) ELSE open
  <2>1. /\ Len(file') = Len(file) + 1
        /\ \A i \in 1..Len(file) : file'[i] = file[i]
        /\ l.opens => open' = Append(open, Len(file) + 1)
        /\ ~l.opens => open' = IF l = Close /\ open # <<>> THEN Front(open) ELSE open
    BY <1>1, WriteFacts
  <2> QED BY <1>2, <1>4, <2>1
<1>6. \A i \in 1 .. k - 1 : r[i] = open[i] /\ open[i] \in 1..n
  <2>1. \A i \in 1 .. k - 1 : i \in 1..Len(open)
    BY <1>3
  <2>2. \A i \in 1 .. k - 1 : open[i] \in 1..n
    BY <1>2, <2>1 DEF Layout
  <2>3. \A i \in 1 .. k - 1 : Append(open, n + 1)[i] = open[i]
    BY <1>3, <2>1, AppendFacts
  <2>4. l = Close => \A i \in 1 .. k - 1 : Front(open)[i] = open[i]
    <3> SUFFICES ASSUME l = Close PROVE \A i \in 1 .. k - 1 : Front(open)[i] = open[i]
      OBVIOUS
    <3>1. Len(open) >= k
      BY <1>1, <1>3 DEF Nested
    <3>2. \A i \in 1 .. k - 1 : i \in 1 .. Len(open) - 1
      BY <1>3, <3>1
    <3>3. Len(open) >= 1
      BY <1>3, <3>1
    <3> QED BY <1>3, <3>2, <3>3, FrontFacts
  <2> QED BY <1>5, <2>2, <2>3, <2>4 DEF IsLine
<1>7. PICK un : un = LinesOf(open, k - 1)
  OBVIOUS
<1>8. PICK z : z = stack'
  OBVIOUS
<1>9. /\ Len(z) = k /\ z[k].kind = "schema"
      /\ \A i \in 1..k : z[i].kind = stack[i].kind
      /\ \A i \in 1 .. k - 1 : z[i] = stack[i]
  <2>1. PICK f : Refilled(stack', stack, Len(stack), f)
    BY DEF ReadSchema, Refilled
  <2>2. /\ Len(stack') = Len(stack)
        /\ \A i \in 1..Len(stack) : stack'[i].kind = stack[i].kind
        /\ \A i \in 1 .. Len(stack) - 1 : stack'[i] = stack[i]
    BY <2>1, RefilledStack
  <2>3. k \in 1..k
    BY <1>3
  <2> QED BY <1>1, <1>3, <1>8, <2>2, <2>3
<1>10. Unread = un /\ Unread' = un
  <2>1. Unread = un
    BY <1>1, <1>3, <1>7 DEF Unread
  <2>2. Unread' = LinesOf(r, k - 1)
    BY <1>1, <1>4, <1>8, <1>9 DEF Unread
  <2>3. LinesOf(r, k - 1) = un
    BY <1>6, <1>7 DEF LinesOf
  <2> QED BY <2>1, <2>2, <2>3
<1>11. Quiet(gl, Len(gl))
  <2>1. KindOf[Within] \in {"schema", "statements"}
    BY <1>1, InnermostKind
  <2>2. KindOf'[Len(file) + 1] = "statements"
    BY <1>1, <2>1, WriteKinds
  <2>3. KindOf' = Kinds(gl)
    BY <1>4, KindOfFile
  <2> QED BY <1>2, <1>5, <2>2, <2>3 DEF Quiet
<1>12. Contents(HeardOf(gl, un)) = Contents(HeardOf(file, un))
  BY <1>1, <1>4, <1>11, WrittenHeard
<1>13. PICK c : c = Contents(HeardOf(file, un))
  OBVIOUS
<1>14. ASSUME NEW j \in 1..k PROVE Agreed(gl, z, r, c, j)
  <2>1. CASE j = k
    BY <1>9, <2>1 DEF Agreed
  <2>2. CASE j # k
    <3>1. j \in 1 .. k - 1 /\ j + 1 \in 1..k /\ j \in 1..Len(stack)
      BY <1>3, <2>2
    <3>2. Agreed(file, stack, open, c, j)
      BY <1>3, <1>10, <1>13, <3>1 DEF Gathered, Heard
    <3>3. Moved(file, open, gl, r, j)
      <4>1. \A i \in 1 .. j - 1 : i \in 1 .. k - 1
        BY <3>1
      <4> QED BY <1>5, <1>6, <4>1 DEF Moved
    <3>4. z[j] = stack[j] /\ Untold(stack, j) \subseteq Untold(z, j)
      BY <1>3, <1>9, <3>1 DEF Untold
    <3> QED BY <1>3, <3>1, <3>2, <3>3, <3>4, AgreedMoved
  <2> QED BY <2>1, <2>2
<1> QED BY <1>1, <1>4, <1>8, <1>9, <1>10, <1>12, <1>13, <1>14 DEF Gathered, Heard

LEMMA CloseGathered ==
  ASSUME Layout, InStep, Nest(file, open), Gathered, CloseBlock
  PROVE  Gathered'
<1>1. /\ IsLine(Close) /\ Write(Close) /\ rest = <<>> /\ rest' = rest /\ ~Nested
      /\ Close.words = <<>>
  BY EmptyIsSeq DEF CloseBlock, Write, Idle, IsLine, Close
<1>2. PICK n \in Nat : n = Len(file)
  BY <1>1, WriteFacts
<1>3. PICK t \in Nat : /\ t = Len(stack) - 1 /\ Len(stack) = t + 1 /\ t >= 1
                       /\ Fits(file, open, stack) /\ Top = stack[t + 1]
                       /\ Len(open) = t /\ IsSeq(open)
  <2>1. Fits(file, open, stack)
    BY StateFits
  <2>2. Len(stack) \in Nat /\ Len(open) \in Nat /\ Len(open) >= Len(stack) - 1
    BY <2>1, BlockLines DEF Fits
  <2>3. Len(stack) > 1 /\ ~(Len(open) >= Len(stack))
    BY <1>1 DEF CloseBlock, Nested
  <2>4. Top = stack[Len(stack)] /\ IsSeq(open)
    BY StackFacts
  <2>5. PICK u : u = Len(stack) - 1
    OBVIOUS
  <2>6. u \in Nat /\ Len(stack) = u + 1 /\ u >= 1 /\ Len(open) = u
    BY <2>2, <2>3, <2>5
  <2> QED BY <2>1, <2>4, <2>5, <2>6
<1>4. PICK r, gl, z, s, o : r = open' /\ gl = file' /\ z = stack' /\ s = stack /\ o = open
  OBVIOUS
<1>5. /\ Len(gl) = n + 1 /\ \A i \in 1..n : gl[i] = file[i]
      /\ r = Front(o) /\ FileOk(gl) /\ Opened(file) /\ Opened(gl)
  <2>1. /\ Layout' /\ Len(file') = Len(file) + 1
        /\ \A i \in 1..Len(file) : file'[i] = file[i]
        /\ ~Close.opens => open' = IF Close = Close /\ open # <<>> THEN Front(open) ELSE open
    BY <1>1, WriteFacts
  <2>2. open # <<>> /\ ~Close.opens
    BY <1>3, EmptyIsSeq DEF Close
  <2> QED BY <1>2, <1>4, <2>1, <2>2 DEF Layout, FileOk
<1>6. /\ Len(z) = t /\ \A i \in 1..t : z[i].kind = s[i].kind /\ (i # t => z[i] = s[i])
      /\ z[t].fields = Ended(s[t].fields, s[t + 1].kind, s[t + 1].fields)
  BY <1>3, <1>4, ClosedStack
<1>7. \A i \in 1..t : o[i] \in 1..n /\ i \in 1..Len(o)
  BY <1>2, <1>3, <1>4 DEF Layout
<1>8. \A i \in 1 .. t - 1 : r[i] = o[i] /\ i \in 1..t
  <2>1. Len(o) >= 1 /\ IsSeq(o) /\ Len(o) = t
    BY <1>3, <1>4
  <2>2. \A i \in 1 .. t - 1 : Front(o)[i] = o[i]
    BY <2>1, FrontFacts
  <2> QED BY <1>3, <1>5, <2>2
<1>9. Fits(gl, o, s)
  <2>1. Nest(gl, o)
    BY <1>1, <1>4, NestWritten
  <2>2. \A j \in 1..Len(o) : o[j] \in 1..Len(gl)
    <3>1. \A i \in 1..n : i \in 1 .. n + 1
      OBVIOUS
    <3> QED BY <1>3, <1>4, <1>5, <1>7, <3>1
  <2>3. \A j \in 1..t : Kinds(gl)[o[j]] = Kinds(file)[o[j]]
    <3>1. \A i \in 0..n : Kinds(gl)[i] = Kinds(file)[i]
      <4>1. n <= n + 1
        OBVIOUS
      <4> QED BY <1>2, <1>5, <4>1, KindsKept
    <3>2. \A i \in 1..n : i \in 0..n
      OBVIOUS
    <3> QED BY <1>7, <3>1, <3>2
  <2>4. \A j \in 1 .. Len(s) - 1 : s[j + 1].kind = Kinds(file)[o[j]] /\ j \in 1..t
    BY <1>3, <1>4 DEF Fits
  <2>5. Framed(s) /\ IsSeq(o) /\ Len(o) >= Len(s) - 1
    BY <1>3, <1>4 DEF Fits
  <2> QED BY <1>5, <2>1, <2>2, <2>3, <2>4, <2>5 DEF Fits
<1>10. PICK x, un : x = o[t] /\ un = LinesOf(o, t)
  OBVIOUS
<1>11. PICK vn : vn = un \ {x} /\ vn = LinesOf(o, t - 1) /\ Due(gl, o, s, t, x, un)
  <2>1. t = Len(s) - 1 /\ t >= 1
    BY <1>3, <1>4
  <2>2. Due(gl, o, s, t, x, un) /\ un \ {x} = LinesOf(o, t - 1)
    BY <1>9, <1>10, <2>1, DueClosed
  <2> QED BY <2>2
<1>12. Unread = un /\ Unread' = vn
  <2>1. Unread = un
    BY <1>1, <1>3, <1>4, <1>10 DEF Unread
  <2>2. Unread' = LinesOf(r, t - 1)
    BY <1>1, <1>4, <1>6 DEF Unread
  <2>3. LinesOf(r, t - 1) = vn
    BY <1>8, <1>11 DEF LinesOf
  <2> QED BY <2>1, <2>2, <2>3
<1>13. Quiet(gl, Len(gl))
  <2>1. KindOf'[Len(file) + 1] \in {"statements", "unknown"}
    BY <1>1, WriteKinds
  <2>2. KindOf' = Kinds(gl)
    BY <1>4, KindOfFile
  <2> QED BY <1>2, <1>5, <2>1, <2>2 DEF Quiet
<1>14. PICK c, d : /\ c = Contents(HeardOf(gl, un)) /\ c = Contents(HeardOf(file, un))
                   /\ d = Contents(HeardOf(gl, vn))
  <2>1. Contents(HeardOf(gl, un)) = Contents(HeardOf(file, un))
    BY <1>1, <1>4, <1>13, WrittenHeard
  <2> QED BY <2>1
<1>15. ASSUME NEW j \in 1 .. t + 1 PROVE Agreed(gl, s, o, c, j)
  <2>1. Agreed(file, s, o, c, j) /\ j \in 1..Len(s)
    BY <1>3, <1>4, <1>12, <1>14 DEF Gathered, Heard
  <2>2. Moved(file, o, gl, o, j)
    <3>1. \A i \in 1 .. j - 1 : i \in 1..t
      OBVIOUS
    <3> QED BY <1>5, <1>7, <3>1 DEF Moved
  <2>3. Fits(file, o, s) /\ Untold(s, j) \subseteq Untold(s, j)
    BY <1>3, <1>4
  <2> QED BY <2>1, <2>2, <2>3, AgreedMoved
<1>16. ASSUME NEW j \in 1..t PROVE Moved(gl, o, gl, r, j)
  <2>1. \A i \in 1 .. j - 1 : i \in 1 .. t - 1
    OBVIOUS
  <2> QED BY <1>8, <2>1 DEF Moved
<1>17. ASSUME NEW j \in 1..t PROVE Agreed(gl, z, r, d, j)
  <2>0. j \in 1 .. t + 1 /\ j \in 1..Len(s)
    BY <1>3, <1>4
  <2>1. CASE j # t
    <3>1. j < t /\ j + 1 \in 1..t
      BY <2>1
    <3>2. Agreed(gl, s, o, d, j)
      BY <1>11, <1>14, <1>15, <2>0, <3>1, AgreedBelow
    <3>3. z[j] = s[j] /\ Untold(s, j) \subseteq Untold(z, j)
      BY <1>3, <1>6, <2>1, <3>1 DEF Untold
    <3> QED BY <1>9, <1>16, <2>0, <3>2, <3>3, AgreedMoved
  <2>2. CASE j = t
    <3>1. PICK f, left : f = z[t].fields /\ left = IF t = 1 THEN {"auth", "schema"} ELSE {}
      OBVIOUS
    <3>2. Agree(f, Together(HeadOf(gl, s, o, t), Part(d, Address(s, o, t))), left)
      <4>1. Agreed(gl, s, o, c, t) /\ Agreed(gl, s, o, c, t + 1)
        <5>1. t + 1 \in 1 .. t + 1
          BY <1>3
        <5> QED BY <1>15, <2>0, <2>2, <5>1
      <4>2. t + 1 = Len(s)
        BY <1>3, <1>4
      <4>3. Agree(f, Together(HeadOf(gl, s, o, t),
                              Part(Contents(HeardOf(gl, un \ {x})), Address(s, o, t))),
                  IF t = 1 THEN {"auth", "schema"} ELSE {})
        BY <1>6, <1>10, <1>11, <1>14, <3>1, <4>1, <4>2, ClosedHere
      <4> QED BY <1>11, <1>14, <3>1, <4>3
    <3>3. /\ HeadOf(gl, z, r, t) = HeadOf(gl, s, o, t)
          /\ Address(z, r, t) = Address(s, o, t)
      <4>1. z[t].kind = s[t].kind /\ t \in 1..Len(s) /\ Moved(gl, o, gl, r, t)
        BY <1>6, <1>16, <2>0, <2>2
      <4> QED BY <1>9, <4>1, PlaceMoved
    <3>4. Untold(z, t) = left
      <4>1. ~(t < Len(z))
        BY <1>6
      <4> QED BY <3>1, <4>1 DEF Untold
    <3> QED BY <2>2, <3>1, <3>2, <3>3, <3>4 DEF Agreed
  <2> QED BY <2>1, <2>2
<1> QED BY <1>1, <1>4, <1>6, <1>12, <1>14, <1>17 DEF Gathered, Heard

\* The line under way is due, and its directive takes all its arguments.
LEMMA LineDue ==
  ASSUME Layout, InStep, Nest(file, open), Gathered, AllRegular, rest # <<>>,
         NEW t, t = Len(stack), NEW x, x = Len(file), NEW un, un = Unread
  PROVE  /\ Due(file, open, stack, t, x, un) /\ un = LinesOf(open, t - 1) \cup {x}
         /\ Fits(file, open, stack) /\ Top = stack[t] /\ t \in 1..Len(stack)
         /\ rest = file[x].words /\ brace = file[x].opens
         /\ Kinds(file)[x] = Kind(Top.kind, rest)
         /\ Top.kind \in DOMAIN Grammar
         /\ Args(Kind(Block, Words), Words) = Tail(Words)
<1>1. /\ x \in 1..x /\ rest = file[x].words /\ Top.kind \in DOMAIN Grammar
      /\ KindOf[x] = Kind(Top.kind, rest)
  BY LineKind
<1>2. brace = file[x].opens
  BY DEF InStep, Reading
<1>3. Fits(file, open, stack) /\ Top = stack[t] /\ t \in 1..Len(stack)
  BY StateFits, StackFacts
<1>4. file[x].in = BlockLine(open, t)
  BY DEF Gathered
<1>5. un = LinesOf(open, t - 1) \cup {x}
  BY DEF Unread
<1>6. Due(file, open, stack, t, x, un)
  <2>1. x >= 1
    BY DEF InStep, Reading
  <2> QED BY <1>3, <1>4, <1>5, <2>1, DueLast
<1>7. Args(Kind(Block, Words), Words) = Tail(Words)
  <2>1. PICK w, a : w = Words /\ a = Args(Kind(Block, Words), Words)
    OBVIOUS
  <2>2. /\ IsSeq(w) /\ w # <<>> /\ Accepted(Kind(Block, Words), Words) /\ Len(w) = 1 + Len(a)
    BY <2>1, LineRegular
  <2>3. IsSeq(a) /\ Len(a) \in Nat /\ \A i \in 1..Len(a) : a[i] = w[i + 1]
    BY <2>1, <2>2, ArgsFacts
  <2>4. IsSeq(Tail(w)) /\ Len(Tail(w)) = Len(w) - 1
        /\ \A i \in 1 .. Len(w) - 1 : Tail(w)[i] = w[i + 1]
    BY <2>2, TailFacts
  <2>5. Len(w) - 1 = Len(a)
    BY <2>2, <2>3
  <2>6. a = Tail(w)
    BY <2>3, <2>4, <2>5, SeqsEqual
  <2> QED BY <2>1, <2>6
<1> QED BY <1>1, <1>2, <1>3, <1>5, <1>6, <1>7, KindOfFile

\* The line has been read, and given the innermost block what it means.
LEMMA RefilledGathered ==
  ASSUME Layout, InStep, Nest(file, open), Gathered, AllRegular, rest # <<>>, ~brace,
         rest' = <<>>, file' = file, open' = open,
         NEW t, t = Len(stack), NEW x, x = Len(file), NEW un, un = Unread,
         NEW f, Refilled(stack', stack, Len(stack), f),
         Top.kind # "auth" =>
           Agree(f, Together(HeadOf(file, stack, open, t),
                             Part(Contents(HeardOf(file, un \ {x})), Address(stack, open, t))),
                 Untold(stack, t))
  PROVE  Gathered'
<1>1. /\ Due(file, open, stack, t, x, un) /\ un = LinesOf(open, t - 1) \cup {x}
      /\ Fits(file, open, stack) /\ Top = stack[t] /\ t \in 1..Len(stack)
      /\ brace = file[x].opens
  BY LineDue
<1>2. PICK k \in Nat : k = Len(stack) /\ k = t /\ k >= 1
  BY <1>1, BlockLines
<1>3. PICK z : z = stack'
  OBVIOUS
<1>4. /\ Len(z) = k /\ z[k].fields = f
      /\ \A i \in 1..k : z[i].kind = stack[i].kind
      /\ \A i \in 1 .. k - 1 : z[i] = stack[i]
  <2>1. /\ Len(stack') = Len(stack)
        /\ \A i \in 1..Len(stack) : stack'[i].kind = stack[i].kind
        /\ \A i \in 1 .. Len(stack) - 1 : stack'[i] = stack[i]
    BY RefilledStack
  <2>2. stack'[Len(stack)].fields = f
    <3>1. Framed(stack) /\ Len(stack) \in 1..Len(stack)
      BY <1>1 DEF InStep
    <3> QED BY <3>1, FramedExcept
  <2> QED BY <1>2, <1>3, <2>1, <2>2
<1>5. x \notin LinesOf(open, k - 1)
  <2>1. \A j \in 1 .. k - 1 : file[open[j]].opens
    <3>1. \A j \in 1 .. k - 1 : j \in 1..Len(open)
      <4>1. Len(open) \in Nat /\ Len(open) >= k - 1
        BY <1>1, <1>2, BlockLines DEF Fits
      <4> QED BY <1>2, <4>1
    <3> QED BY <3>1 DEF Nest
  <2> QED BY <1>1, <2>1 DEF LinesOf
<1>6. PICK vn : vn = un \ {x} /\ Unread' = vn
  <2>1. Unread' = LinesOf(open, k - 1)
    BY <1>3, <1>4 DEF Unread
  <2> QED BY <1>1, <1>2, <1>5, <2>1
<1>7. PICK c, d : c = Contents(HeardOf(file, un)) /\ d = Contents(HeardOf(file, vn))
  OBVIOUS
<1>8. \A j \in 1..k : Moved(file, open, file, open, j)
  BY DEF Moved
<1>9. ASSUME NEW j \in 1..k PROVE Agreed(file, z, open, d, j)
  <2>0. j \in 1..Len(stack) /\ Moved(file, open, file, open, j)
    BY <1>2, <1>8
  <2>1. Untold(z, j) = Untold(stack, j)
    <3>1. j < k => j + 1 \in 1..k
      BY <1>2
    <3> QED BY <1>2, <1>4, <3>1 DEF Untold
  <2>2. CASE j # k
    <3>1. j < t /\ j \in 1 .. k - 1
      BY <1>2, <2>2
    <3>2. Agreed(file, stack, open, c, j)
      BY <1>2, <1>7, <2>0 DEF Gathered, Heard
    <3>3. Agreed(file, stack, open, d, j)
      BY <1>1, <1>6, <1>7, <2>0, <3>1, <3>2, AgreedBelow
    <3>4. z[j] = stack[j] /\ Untold(stack, j) \subseteq Untold(z, j)
      BY <1>4, <2>1, <3>1
    <3> QED BY <1>1, <2>0, <3>3, <3>4, AgreedMoved
  <2>3. CASE j = k
    <3>1. z[j].kind = stack[j].kind
      BY <1>4
    <3>2. /\ HeadOf(file, z, open, j) = HeadOf(file, stack, open, j)
          /\ Address(z, open, j) = Address(stack, open, j)
      BY <1>1, <2>0, <3>1, PlaceMoved
    <3> QED BY <1>1, <1>2, <1>4, <1>6, <1>7, <2>1, <2>3, <3>1, <3>2 DEF Agreed
  <2> QED BY <2>2, <2>3
<1> QED BY <1>3, <1>4, <1>6, <1>7, <1>9 DEF Gathered, Heard

LEMMA DirectiveGathered ==
  ASSUME Layout, InStep, Nest(file, open), Gathered, AllRegular, Directive
  PROVE  Gathered'
<1>1. /\ rest # <<>> /\ rest' = <<>> /\ file' = file /\ open' = open
  BY LineRead
<1>2. PICK kind : kind = Kind(Block, Words)
  OBVIOUS
<1>3. kind \notin Blocks /\ kind # "unknown" /\ kind # "statements" /\ ~brace
  <2>1. kind \notin Blocks /\ kind # "unknown"
    BY <1>2 DEF Directive, Accepted
  <2>2. kind # "statements"
    BY <1>1, <1>2, LineKind
  <2> QED BY <1>1, <1>2, <2>1, <2>2, LineRegular
<1>4. PICK t, x, un : t = Len(stack) /\ x = Len(file) /\ un = Unread
  OBVIOUS
<1>5. /\ Due(file, open, stack, t, x, un) /\ Fits(file, open, stack)
      /\ Top = stack[t] /\ t \in 1..Len(stack) /\ rest = file[x].words
      /\ Kinds(file)[x] = Kind(Top.kind, rest) /\ Top.kind \in DOMAIN Grammar
      /\ Args(Kind(Block, Words), Words) = Tail(Words)
  BY <1>1, <1>4, LineDue
<1>6. PICK f : /\ Refilled(stack', stack, Len(stack), f)
               /\ f = IF InlineAuth THEN Put(Top.fields, "auth", Set(Top.fields.auth, kind))
                      ELSE Set(Top.fields, kind)
  <2>1. Top = stack[Len(stack)]
    BY <1>4, <1>5
  <2> QED BY <1>2, <2>1 DEF Directive, SetFields, Refilled
<1>7. PICK c : c = Contents(HeardOf(file, un)) /\ Agreed(file, stack, open, c, t)
  BY <1>4, <1>5 DEF Gathered, Heard
<1>8. ASSUME Top.kind # "auth"
      PROVE  Agree(f, Together(HeadOf(file, stack, open, t),
                               Part(Contents(HeardOf(file, un \ {x})), Address(stack, open, t))),
                   Untold(stack, t))
  <2>1. Top.kind \notin {"auth", "schema"}
    BY <1>5, <1>8, BlocksAre
  <2>2. CASE InlineAuth
    <3>1. Top.kind = "site" /\ Head(rest) = "auth" /\ t = 1
      BY <1>4, <2>2, BlockOfTop DEF InlineAuth
    <3>2. Kinds(file)[x] = "auth"
      BY <1>5, <3>1 DEF Kind, Grammar, SiteBlock
    <3>3. HeardOf(file, un \ {x}) = HeardOf(file, un)
      <4>1. Quiet(file, x)
        BY <3>2 DEF Quiet
      <4> QED BY <4>1, HeardSame
    <3>4. "auth" \in Untold(stack, t)
      BY <3>1 DEF Untold
    <3> QED BY <1>5, <1>6, <1>7, <2>1, <2>2, <3>3, <3>4, AgreeAside DEF Agreed
  <2>3. CASE ~InlineAuth
    <3>1. Block = Top.kind /\ Words = rest
      BY <2>3 DEF Block, Words
    <3>2. PICK key : key = Field(Head(file[x].words))
      OBVIOUS
    <3>3. kind = Kinds(file)[x] /\ kind \notin Blocks \cup {"unknown", "statements"}
      BY <1>2, <1>3, <1>5, <3>1
    <3>4. f = Put(stack[t].fields, key,
                  Value(kind, Tail(file[x].words), Entry(stack[t].fields, key, <<>>)))
      BY <1>2, <1>5, <1>6, <1>8, <2>3, <3>1, <3>2 DEF Set
    <3>5. t = Len(stack) /\ stack[t].kind \notin {"auth", "schema"}
      BY <1>4, <1>5, <2>1
    <3> QED BY <1>5, <1>7, <3>2, <3>3, <3>4, <3>5, TakenHere
  <2> QED BY <2>2, <2>3
<1> QED BY <1>1, <1>3, <1>4, <1>6, <1>8, RefilledGathered

LEMMA OpenBlockGathered ==
  ASSUME Layout, InStep, Nest(file, open), Gathered, AllRegular, OpenBlock
  PROVE  Gathered'
<1>1. /\ rest # <<>> /\ rest' = <<>> /\ file' = file /\ open' = open
  BY LineRead
<1>2. PICK kind : kind = Kind(Block, Words)
  OBVIOUS
<1>3. kind \in Blocks /\ ~InlineAuth
  BY <1>1, <1>2, LineRegular DEF OpenBlock
<1>4. PICK t, x, un : t = Len(stack) /\ x = Len(file) /\ un = Unread
  OBVIOUS
<1>5. /\ Due(file, open, stack, t, x, un) /\ un = LinesOf(open, t - 1) \cup {x}
      /\ Fits(file, open, stack) /\ Top = stack[t] /\ t \in 1..Len(stack)
      /\ rest = file[x].words /\ brace = file[x].opens
      /\ Kinds(file)[x] = Kind(Top.kind, rest) /\ Top.kind \in DOMAIN Grammar
      /\ Args(Kind(Block, Words), Words) = Tail(Words)
  BY <1>1, <1>4, LineDue
<1>6. Block = Top.kind /\ Words = rest
  BY <1>3 DEF Block, Words
<1>7. kind = Kinds(file)[x] /\ Args(kind, Words) = Tail(file[x].words)
  BY <1>2, <1>5, <1>6
<1>8. PICK c : c = Contents(HeardOf(file, un)) /\ \A j \in 1..t : Agreed(file, stack, open, c, j)
  BY <1>4 DEF Gathered, Heard
<1>9. stack[t].kind \notin {"auth", "schema"}
  <2>1. Top.kind # "auth"
    <3>1. kind # "unknown"
      BY <1>3, BlocksAre
    <3>2. Head(rest) \in DOMAIN Grammar[Top.kind] /\ kind = Grammar[Top.kind][Head(rest)]
      BY <1>2, <1>6, <3>1 DEF Kind
    <3> QED BY <1>3, <1>5, <3>2, GrammarKinds
  <2> QED BY <1>5, <2>1, BlocksAre
<1>10. PICK args : args = Tail(file[x].words)
  OBVIOUS
<1>11. CASE brace
  <2>1. PICK k \in Nat : k = t /\ k = Len(stack) /\ k >= 1 /\ IsSeq(stack) /\ Len(open) = k
                         /\ open[k] = x
    <3>1. Len(open) = t /\ open[t] = x
      BY <1>1, <1>4, <1>11 DEF InStep, Reading
    <3>2. Len(stack) \in Nat /\ Len(stack) >= 1 /\ IsSeq(stack)
      BY <1>5, BlockLines DEF Fits, Framed
    <3> QED BY <1>4, <3>1, <3>2
  <2>2. PICK z, f : /\ z = stack' /\ f = Started(kind, args, stack[t].fields)
                    /\ z = Append(stack, Frame(kind, f))
    BY <1>1, <1>2, <1>5, <1>7, <1>10, <1>11 DEF OpenBlock
  <2>3. /\ Len(z) = k + 1 /\ \A i \in 1..k : z[i] = stack[i]
        /\ z[k + 1] = Frame(kind, f)
    <3>1. PICK w : w = Frame(kind, f)
      OBVIOUS
    <3> QED BY <2>1, <2>2, <3>1, AppendFacts
  <2>4. Unread' = un
    <3>1. Unread' = LinesOf(open, k)
      <4>1. (k + 1) - 1 = k
        OBVIOUS
      <4> QED BY <1>1, <2>2, <2>3, <4>1 DEF Unread
    <3>2. LinesOf(open, k) = LinesOf(open, k - 1) \cup {x}
      <4>1. \A i \in 1..k : i = k \/ i \in 1 .. k - 1
        OBVIOUS
      <4>2. k \in 1..k /\ \A i \in 1 .. k - 1 : i \in 1..k
        BY <2>1
      <4> QED BY <2>1, <4>1, <4>2 DEF LinesOf
    <3> QED BY <1>5, <2>1, <3>1, <3>2
  <2>5. ASSUME NEW j \in 1..k PROVE Agreed(file, z, open, c, j)
    <3>1. Agreed(file, stack, open, c, j) /\ j \in 1..Len(stack)
      BY <1>8, <2>1
    <3>2. z[j] = stack[j] /\ Untold(stack, j) \subseteq Untold(z, j)
      <4>1. j < k => j < k + 1 /\ j + 1 \in 1..k
        BY <2>1
      <4> QED BY <2>1, <2>3, <4>1 DEF Untold
    <3>3. Moved(file, open, file, open, j)
      BY DEF Moved
    <3> QED BY <1>5, <3>1, <3>2, <3>3, AgreedMoved
  <2>6. Agreed(file, z, open, c, k + 1)
    <3> SUFFICES ASSUME kind \notin {"auth", "schema"}
                 PROVE  Agree(f, Together(HeadOf(file, z, open, k + 1),
                                          Part(c, Address(z, open, k + 1))),
                              Untold(z, k + 1))
      BY <2>3 DEF Agreed, Frame
    <3>1. k + 1 # 1 /\ (k + 1) - 1 = k /\ ~(k + 1 < k + 1)
      BY <2>1
    <3>2. z[k + 1].kind = kind
      BY <2>3 DEF Frame
    <3>3. HeadOf(file, z, open, k + 1) = Opening(kind, args)
      BY <1>10, <2>1, <3>1, <3>2 DEF HeadOf
    <3>4. Address(z, open, k + 1) =
            [kind |-> kind, line |-> IF kind \in Merged THEN BlockLine(open, t) ELSE x]
      BY <2>1, <3>1, <3>2 DEF Address, BlockLine
    <3>5. Untold(z, k + 1) = {}
      BY <2>3, <3>1 DEF Untold
    <3>6. PICK h, p, l : /\ h = Opening(kind, args) /\ l = HeardOf(file, un)
                         /\ p = Part(c, [kind |-> kind,
                                         line |-> IF kind \in Merged THEN BlockLine(open, t) ELSE x])
      OBVIOUS
    <3>7. Agree(f, Together(h, p), {})
      <4>1. t = Len(stack) /\ x = Len(file) /\ file[x].opens
        BY <1>4, <1>5, <1>11
      <4>2. Agreed(file, stack, open, Contents(l), t)
        BY <1>8, <2>1, <3>6
      <4>3. kind = Kinds(file)[x] /\ kind \in Blocks \ {"auth", "schema"}
        BY <1>3, <1>7
      <4>4. h = Opening(kind, Tail(file[x].words))
        BY <1>10, <3>6
      <4>5. p = Part(Contents(l), [kind |-> kind,
                                   line |-> IF kind \in Merged THEN BlockLine(open, t) ELSE x])
        BY <1>8, <3>6
      <4>6. Agree(Started(kind, Tail(file[x].words), stack[t].fields), Together(h, p), {})
        BY <1>5, <1>9, <3>6, <4>1, <4>2, <4>3, <4>4, <4>5, PushedHere
      <4> QED BY <1>10, <2>2, <4>6
    <3> QED BY <3>3, <3>4, <3>5, <3>6, <3>7
  <2>7. \A j \in 1 .. k + 1 : j \in 1..k \/ j = k + 1
    BY <2>1
  <2> QED BY <1>1, <1>8, <2>2, <2>3, <2>4, <2>5, <2>6, <2>7 DEF Gathered, Heard
<1>12. CASE ~brace
  <2>1. PICK f : /\ Refilled(stack', stack, Len(stack), f)
                 /\ f = IF kind \in Merged \cup {"schema"} THEN stack[t].fields
                        ELSE Ended(stack[t].fields, kind, Started(kind, args, stack[t].fields))
    BY <1>2, <1>4, <1>5, <1>7, <1>10, <1>12 DEF OpenBlock, Refilled
  <2>2. Agree(f, Together(HeadOf(file, stack, open, t),
                          Part(Contents(HeardOf(file, un \ {x})), Address(stack, open, t))),
              Untold(stack, t))
    <3>1. CASE kind \in Merged \cup {"schema"}
      <4>1. HeardOf(file, un \ {x}) = HeardOf(file, un)
        <5>1. Quiet(file, x)
          BY <1>5, <1>7, <1>12, <3>1 DEF Quiet
        <5> QED BY <5>1, HeardSame
      <4>2. Agreed(file, stack, open, c, t)
        BY <1>4, <1>5, <1>8
      <4> QED BY <1>8, <1>9, <2>1, <3>1, <4>1, <4>2 DEF Agreed
    <3>2. CASE kind \notin Merged \cup {"schema"}
      <4>1. f = Ended(stack[t].fields, kind, Opening(kind, Tail(file[x].words)))
        BY <1>10, <2>1, <3>2 DEF Started
      <4>2. Part(c, [kind |-> kind, line |-> x]) = <<>>
        <5>1. FileOk(file)
          BY <1>5 DEF Fits
        <5> QED BY <1>3, <1>4, <1>8, <5>1, NothingWithin
      <4>3. Agreed(file, stack, open, c, t) /\ t = Len(stack)
        BY <1>4, <1>5, <1>8
      <4>4. c = Contents(HeardOf(file, un)) /\ Named(file, x, kind)
        BY <1>7, <1>8 DEF Named
      <4> QED BY <1>3, <1>5, <1>9, <3>2, <4>1, <4>2, <4>3, <4>4, OpenedHere
    <3> QED BY <3>1, <3>2
  <2> QED BY <1>1, <1>4, <1>12, <2>1, <2>2, RefilledGathered
<1> QED BY <1>11, <1>12

\* The whole file has been read.
LEMMA FileGathered ==
  ASSUME Layout, InStep, Nest(file, open), Gathered, CloseFile,
         NEW m, m = Meaning(HeardOf(file', {}))
  PROVE  [f \in DOMAIN site' \ {"auth", "schema"} |-> site'[f]] = m
<1>1. /\ IsLine(Close) /\ Write(Close) /\ rest = <<>> /\ Len(stack) = 1 /\ stack' = stack
      /\ Close.words = <<>>
  BY EmptyIsSeq DEF CloseFile, Write, Idle, IsLine, Close
<1>2. PICK gl, s, o, l : gl = file' /\ s = stack /\ o = open /\ l = HeardOf(file, {})
  OBVIOUS
<1>3. Quiet(gl, Len(gl))
  <2>1. KindOf'[Len(file) + 1] \in {"statements", "unknown"} /\ Len(gl) = Len(file) + 1
    BY <1>1, <1>2, WriteKinds, WriteFacts
  <2>2. KindOf' = Kinds(gl)
    BY <1>2, KindOfFile
  <2> QED BY <2>1, <2>2 DEF Quiet
<1>4. Contents(HeardOf(gl, {})) = Contents(l)
  BY <1>1, <1>2, <1>3, WrittenHeard
<1>5. Unread = {}
  <2>1. LinesOf(open, 0) = {}
    BY DEF LinesOf
  <2> QED BY <1>1, <2>1 DEF Unread
<1>6. Fits(file, o, s) /\ FileOk(file) /\ s[1].kind = "site" /\ 1 \in 1..Len(s)
  <2>1. Fits(file, open, stack)
    BY StateFits
  <2>2. Framed(s) /\ FileOk(file) /\ Fits(file, o, s)
    BY <1>2, <2>1 DEF Fits
  <2>3. 1 \in 1..1
    OBVIOUS
  <2> QED BY <1>1, <1>2, <2>2, <2>3 DEF Framed
<1>7. Agreed(file, s, o, Contents(l), 1)
  BY <1>1, <1>2, <1>5 DEF Gathered, Heard
<1>8. PICK a, g : a = [kind |-> "site", line |-> 0] /\ g = Part(Contents(l), a)
  OBVIOUS
<1>9. Address(s, o, 1) = a /\ HeadOf(file, s, o, 1) = <<>>
      /\ Untold(s, 1) = {"auth", "schema"}
  BY <1>1, <1>2, <1>6, <1>8 DEF Address, BlockLine, Merged, HeadOf, Untold
<1>10. a # Silent.at
  BY <1>8, SilentIs
<1>11. PICK n \in Nat : /\ n = Len(file) /\ Tame(l) /\ DOMAIN l = 1..n
                        /\ \A i \in 1..n : l[i] = ItemOf(file, i)
  <2>1. \A i : i \notin {}
    OBVIOUS
  <2> QED BY <1>2, <1>6, <2>1, HeardTame
<1>12. IsFunction(g) /\ DOMAIN g = KeysAt(l, a)
  BY <1>8, <1>10, <1>11, PartIsFunction
<1>13. Together(<<>>, g) = g
  <2>1. DOMAIN <<>> = {} /\ IsFunction(<<>>)
    BY EmptyIsSeq DEF IsFunction
  <2> QED BY <1>12, <2>1, TogetherNone
<1>14. Agree(s[1].fields, g, {"auth", "schema"})
  BY <1>6, <1>7, <1>8, <1>9, <1>13 DEF Agreed
<1>15. DOMAIN g \cap {"auth", "schema"} = {}
  <2> SUFFICES ASSUME NEW i \in 1..n, l[i].at = a PROVE l[i].key \notin {"auth", "schema"}
    BY <1>11, <1>12 DEF KeysAt
  <2>1. l[i] = ItemOf(file, i) /\ ~Quiet(file, i)
    BY <1>10, <1>11 DEF ItemOf
  <2>2. Grammar[l[i].at.kind][l[i].key] = Kinds(file)[i]
    BY <1>6, <1>11, <2>1, ItemFacts
  <2>3. Grammar["site"]["auth"] = "auth" /\ Grammar["site"]["schema"] = "schema"
    BY DEF Grammar, SiteBlock
  <2> QED BY <1>8, <2>1, <2>2, <2>3 DEF Quiet
<1>16. site' = s[1].fields
  BY <1>1, <1>2 DEF site
<1>17. m = g
  BY <1>2, <1>4, <1>8 DEF Meaning, Part
<1>18. [f \in DOMAIN s[1].fields \ {"auth", "schema"} |-> s[1].fields[f]] = g
  BY <1>12, <1>14, <1>15 DEF Agree, IsFunction
<1> QED BY <1>16, <1>17, <1>18

LEMMA LinesAre == IsSeq(file) => Lines = HeardOf(file, {})
BY LinesHeard

LEMMA LinesArePrime == (IsSeq(file) => Lines = HeardOf(file, {}))'
BY LinesAre, PTL

MeaningInv ==
  /\ FollowInv
  /\ status # "loaded" => Nest(file, open)
  /\ status = "parsing" /\ AllRegular => Gathered
  /\ ConfigMeansFile

LEMMA MeaningInit ==
  ASSUME ParserInit
  PROVE  MeaningInv
<1>1. /\ file = <<>> /\ open = <<>> /\ stack = <<Frame("site", Site)>>
      /\ rest = <<>> /\ status = "parsing"
  BY DEF ParserInit
<1>2. FollowInv
  BY FollowInit
<1>3. Len(file) = 0 /\ Len(open) = 0 /\ IsSeq(file)
  BY <1>1, EmptyIsSeq
<1>4. Nest(file, open)
  BY <1>3 DEF Nest
<1>5. PICK s, c, a : s = stack /\ c = Contents(Heard) /\ a = [kind |-> "site", line |-> 0]
  OBVIOUS
<1>6. Len(s) = 1 /\ s[1].kind = "site" /\ s[1].fields = Site
  BY <1>1, <1>5 DEF Frame
<1>7. Part(c, a) = <<>>
  <2>1. PICK l : l = Heard
    OBVIOUS
  <2>2. FileOk(file)
    BY <1>3 DEF FileOk, Opened
  <2>3. Tame(l) /\ DOMAIN l = 1..0
    BY <1>3, <2>1, <2>2, HeardTame DEF Heard
  <2>4. \A i \in DOMAIN l : l[i].at # a
    BY <2>3
  <2>5. a # Silent.at
    BY <1>5, SilentIs
  <2> QED BY <1>5, <2>1, <2>3, <2>4, <2>5, PartIsFunction
<1>8. Agreed(file, s, open, c, 1)
  <2>1. /\ Address(s, open, 1) = a /\ HeadOf(file, s, open, 1) = <<>>
        /\ Untold(s, 1) = {"auth", "schema"}
    BY <1>5, <1>6 DEF Address, BlockLine, Merged, HeadOf, Untold
  <2>2. DOMAIN <<>> = {}
    BY EmptyIsSeq
  <2>3. DOMAIN Together(<<>>, <<>>) = {}
    BY <2>2 DEF Together
  <2>4. DOMAIN Site = {"auth", "schema"} /\ Site = [k \in DOMAIN Site |-> Site[k]]
    BY DEF Site
  <2>5. Agree(Site, Together(<<>>, <<>>), {"auth", "schema"})
    BY <2>3, <2>4 DEF Agree
  <2> QED BY <1>6, <1>7, <2>1, <2>5 DEF Agreed
<1>9. Gathered
  <2>1. \A j \in 1..1 : j = 1
    OBVIOUS
  <2> QED BY <1>1, <1>5, <1>6, <1>8, <2>1 DEF Gathered
<1> QED BY <1>1, <1>2, <1>4, <1>9 DEF MeaningInv, ConfigMeansFile

LEMMA MeaningStep ==
  ASSUME MeaningInv, Parse
  PROVE  MeaningInv'
<1>1. /\ status = "parsing" /\ Layout /\ Nest(file, open) /\ menu \in DOMAIN Menus
      /\ AllRegular => InStep /\ Gathered
  <2>1. status = "parsing"
    BY DEF Parse, ReadDirectives, ReadSchema, CloseBlock, CloseFile,
           Write, Idle, Parsing, Directive, OpenBlock, Refuse
  <2> QED BY <2>1 DEF MeaningInv, FollowInv
<1>2. FollowInv'
  BY FollowStep DEF MeaningInv
<1>3. IsLine(Close)
  BY EmptyIsSeq DEF IsLine, Close
<1>4. ASSUME NEW l \in Offered, ReadDirectives(l) \/ ReadSchema(l) PROVE MeaningInv'
  <2>1. IsLine(l) /\ Write(l) /\ status' = status
    BY <1>1, <1>4, OfferedIsLine DEF ReadDirectives, ReadSchema
  <2>2. Nest(file', open') /\ (AllRegular' => AllRegular)
    BY <1>1, <2>1, NestWritten, WriteRegular
  <2>3. AllRegular => Gathered'
    BY <1>1, <1>4, <2>1, DirectivesGathered, SchemaGathered
  <2> QED BY <1>1, <1>2, <2>1, <2>2, <2>3 DEF MeaningInv, ConfigMeansFile
<1>5. CASE CloseBlock
  <2>1. Write(Close) /\ status' = status
    BY <1>5 DEF CloseBlock
  <2>2. Nest(file', open') /\ (AllRegular' => AllRegular)
    BY <1>1, <1>3, <2>1, NestWritten, WriteRegular
  <2>3. AllRegular => Gathered'
    BY <1>1, <1>5, CloseGathered
  <2> QED BY <1>1, <1>2, <2>1, <2>2, <2>3 DEF MeaningInv, ConfigMeansFile
<1>6. CASE CloseFile
  <2>1. Write(Close) /\ status' = "parsed"
    BY <1>6 DEF CloseFile
  <2>2. Nest(file', open') /\ (AllRegular' => AllRegular)
    BY <1>1, <1>3, <2>1, NestWritten, WriteRegular
  <2>3. Lines' = HeardOf(file', {})
    <3>1. Layout'
      BY <1>1, <1>3, <2>1, WriteFacts
    <3> QED BY <3>1, LinesArePrime DEF Layout, Opened
  <2>4. PICK m : m = Meaning(HeardOf(file', {}))
    OBVIOUS
  <2>5. AllRegular => [f \in DOMAIN site' \ {"auth", "schema"} |-> site'[f]] = m
    BY <1>1, <1>6, <2>4, FileGathered
  <2> QED BY <1>1, <1>2, <2>1, <2>2, <2>3, <2>4, <2>5 DEF MeaningInv, ConfigMeansFile
<1>7. ASSUME UNCHANGED <<menu, file, open>>
      PROVE  Nest(file', open') /\ AllRegular' = AllRegular
  BY <1>1, <1>7, KindOfFile DEF AllRegular, Regular
<1>8. CASE Directive
  <2>1. UNCHANGED <<menu, file, open>> /\ status' = status
    BY <1>8 DEF Directive
  <2> QED BY <1>1, <1>2, <1>7, <1>8, <2>1, DirectiveGathered DEF MeaningInv, ConfigMeansFile
<1>9. CASE OpenBlock
  <2>1. UNCHANGED <<menu, file, open>> /\ status' = status
    BY <1>9 DEF OpenBlock
  <2> QED BY <1>1, <1>2, <1>7, <1>9, <2>1, OpenBlockGathered DEF MeaningInv, ConfigMeansFile
<1>10. CASE Refuse
  <2>1. UNCHANGED <<menu, file, open>> /\ status' = "refused"
    BY <1>10 DEF Refuse
  <2> QED BY <1>2, <1>7, <2>1 DEF MeaningInv, ConfigMeansFile
<1> QED BY <1>4, <1>5, <1>6, <1>8, <1>9, <1>10 DEF Parse

LEMMA MeaningUnchanged ==
  ASSUME MeaningInv, UNCHANGED parseVars
  PROVE  MeaningInv'
<1>1. /\ file' = file /\ open' = open /\ stack' = stack
      /\ rest' = rest /\ brace' = brace /\ status' = status
  BY DEF parseVars
<1>2. KindOf' = KindOf
  BY <1>1, KindOfFile
<1>3. AllRegular' = AllRegular
  BY <1>1, <1>2 DEF AllRegular, Regular
<1>4. Gathered' = Gathered
  BY <1>1 DEF Gathered, Heard, Unread
<1>5. site' = site /\ Lines' = Lines
  BY <1>1, <1>2 DEF site, Lines, Place
<1>6. ConfigMeansFile' = ConfigMeansFile
  BY <1>1, <1>3, <1>5 DEF ConfigMeansFile
<1>7. FollowInv'
  BY FollowUnchanged DEF MeaningInv
<1> QED BY <1>1, <1>3, <1>4, <1>6, <1>7 DEF MeaningInv

LEMMA MeaningLoaded ==
  ASSUME MeaningInv, Loaded
  PROVE  MeaningInv'
<1>1. FollowInv'
  BY FollowLoaded DEF MeaningInv
<1> QED BY <1>1 DEF MeaningInv, Loaded, ConfigMeansFile
=============================================================================
