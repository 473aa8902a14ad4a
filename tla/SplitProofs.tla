---------------------------- MODULE SplitProofs ----------------------------
(***************************************************************************)
(* Inputs of any length: the second pass of Split repeats the first, so it    *)
(* fills the array the first one sized. The flags of pass 1 are remembered    *)
(* per token (counts, depths, marks); pass 2 finds the same ones.             *)
(***************************************************************************)
EXTENDS SplitParser, TLAPS, FiniteSetTheorems, WellFoundedInduction

Before(c, j) == IF j = 0 THEN 0 ELSE c[j]

\* Token j terminated a statement in the first pass.
Ended(j) == j - 1 \in marks /\ Before(depths, j - 1) = 0 /\ Token(j) \in {";", EOF}

Remembered(j) ==
  /\ Token(j) # "bad"
  /\ j \in marks <=> (Token(j) \in Keywords \/ (j - 1 \in marks /\ ~Ended(j)))
  /\ depths[j] = Before(depths, j - 1) + Change(Token(j))
  /\ counts[j] = Before(counts, j - 1) + (IF Ended(j) THEN 1 ELSE 0)
  /\ counts[j] <= n_stmts

History ==
  /\ Len(depths) = Len(counts) /\ Len(counts) <= Len(input) + 1
  /\ marks \subseteq 1 .. Len(counts)
  /\ \A j \in 1 .. Len(counts) : Remembered(j)

Flagged == (keyword <=> pos \in marks) /\ parens = Before(depths, pos)

FirstPass ==
  pass = 1 => /\ pos = Len(counts) /\ Flagged
              /\ n_stmts = Before(counts, pos)
              /\ stmts = <<>> /\ stmtstart = 0 /\ room = -1

SecondPass ==
  pass = 2 => /\ Len(counts) = Len(input) + 1 /\ pos <= Len(input) + 1 /\ Flagged
              /\ Len(stmts) = Before(counts, pos)
              /\ room = n_stmts /\ counts[Len(input) + 1] = n_stmts
              /\ stmtstart <= pos /\ (keyword => stmtstart < pos)

Returned == pass = 3 /\ room >= 0 => Len(stmts) = n_stmts /\ room = n_stmts

Spans ==
  /\ SpansOrdered
  /\ \A k \in DOMAIN stmts : stmts[k].loc + stmts[k].len < stmtstart

IInv == TypeOK /\ History /\ FirstPass /\ SecondPass /\ Returned /\ Spans

-----------------------------------------------------------------------------
(* What the second pass has found, next to what is there to find.            *)

\* The statement being scanned: no terminator since it began, and its keywords.
Segment ==
  pass = 2 /\ pos <= Len(input) =>
    /\ parens = Depth(pos + 1)
    /\ stmtstart = 0 \/ stmtstart \in Cuts
    /\ \A i \in stmtstart + 1 .. pos : i \notin Cuts
    /\ keyword <=> \E i \in stmtstart + 1 .. pos : input[i] \in Keywords

Places == {<<s.loc, s.loc + s.len>> : s \in {stmts[k] : k \in DOMAIN stmts}}
PlacesUpTo(p) == {<<Start(c), c - 1>> : c \in {d \in Statements : d <= p}}

Finished == pass = 3 /\ ~error

FoundSoFar ==
  /\ pass = 1 => stmts = <<>>
  /\ pass = 2 \/ Finished => Places = PlacesUpTo(pos)
  /\ Finished => pos = Len(input) + 1
  /\ error => \E i \in DOMAIN input : input[i] = "bad"

FInv == Segment /\ FoundSoFar

-----------------------------------------------------------------------------
(* What the parser has found.                                                *)

Starts == {0} \cup {i \in Separators : i <= Len(input)}
Empty(s) == Words(s) \subseteq {"blank"}

TreeInv ==
  /\ tree \in Seq([loc : Nat, len : Nat])
  /\ parsed \in {"run", "tree", "error"}
  /\ tree # <<>> \/ parsed = "tree" => Parses
  /\ parsed = "run" => from \in Starts
  /\ parsed = "tree" => from = Len(input) + 1
  /\ parsed # "error" =>
       {tree[k].loc : k \in DOMAIN tree} = {s \in Starts : s < from /\ ~Empty(s)}
  /\ \A k, l \in DOMAIN tree : k < l => tree[k].loc < tree[l].loc
  /\ \A k \in DOMAIN tree :
       \/ tree[k].loc + tree[k].len = NextSeparator(tree[k].loc) - 1 /\ tree[k].len > 0
       \/ k = Len(tree) /\ tree[k].len = 0 /\ from = NextSeparator(tree[k].loc)

-----------------------------------------------------------------------------

\* A token is one of Tokens or the end of the input.
LEMMA TokenType ==
  ASSUME TypeOK
  PROVE  \A i \in Nat \ {0} : Token(i) \in Tokens \cup {EOF}
BY DEF TypeOK, Token

\* The call starts with nothing lexed.
LEMMA InitIInv == Init => IInv
<1>1. ASSUME NEW n \in 0 .. MaxLen, NEW i \in [1 .. n -> Tokens], InitOn(i) PROVE IInv
  <2>1. input \in Seq(Tokens)
    BY <1>1, SplitAssumption DEF InitOn
  <2>2. TypeOK
    <3>1. counts \in Seq(Nat) /\ depths \in Seq(Int) /\ marks \subseteq Nat
          /\ stmts \in Seq([loc : Nat, len : Int])
      BY <1>1 DEF InitOn
    <3>2. pass = 1 /\ parens = 0 /\ room = -1
      BY <1>1 DEF InitOn
    <3>3. pass \in 1 .. 3 /\ parens \in Int /\ room \in Int
      BY <3>2
    <3>4. pos \in Nat /\ keyword \in BOOLEAN
          /\ n_stmts \in Nat /\ stmtstart \in Nat /\ error \in BOOLEAN
      BY <1>1 DEF InitOn
    <3> QED BY <2>1, <3>1, <3>3, <3>4 DEF TypeOK
  <2>3. /\ pass = 1 /\ pos = 0 /\ Len(counts) = 0 /\ Len(depths) = 0 /\ marks = {} /\ ~keyword
        /\ parens = 0 /\ n_stmts = 0 /\ stmts = <<>> /\ stmtstart = 0 /\ room = -1
        /\ Len(input) \in Nat
    BY <1>1, <2>1 DEF InitOn
  <2>4. History
    BY <2>3 DEF History
  <2>5. FirstPass /\ SecondPass /\ Returned
    BY <2>3 DEF FirstPass, SecondPass, Returned, Flagged, Before
  <2>6. Spans
    BY <2>3 DEF Spans, SpansOrdered
  <2> QED BY <2>2, <2>4, <2>5, <2>6 DEF IInv
<1> QED BY <1>1 DEF Init

\* The first pass remembers what it does with each token.
LEMMA CountStep == ASSUME IInv, Count PROVE IInv'
<1> USE DEF IInv
<1>1. /\ pass = 1 /\ pos = Len(counts) /\ pos \in Nat /\ pos <= Len(input)
      /\ (keyword <=> pos \in marks) /\ parens = Before(depths, pos)
      /\ n_stmts = Before(counts, pos)
      /\ stmts = <<>> /\ stmtstart = 0 /\ room = -1 /\ tok = Token(pos + 1) /\ tok # "bad"
  BY DEF Count, FirstPass, Flagged, tok, TypeOK
<1>2. /\ Len(depths) = pos /\ counts \in Seq(Nat) /\ depths \in Seq(Int)
      /\ marks \subseteq 1 .. pos /\ parens \in Int /\ n_stmts \in Nat /\ keyword \in BOOLEAN
  BY <1>1 DEF History, TypeOK
<1>3. Terminates <=> Ended(pos + 1)
  <2>1. pos + 1 - 1 = pos
    BY <1>1
  <2>2. Ended(pos + 1) <=> pos \in marks /\ Before(depths, pos) = 0 /\ tok \in {";", EOF}
    BY <1>1, <2>1 DEF Ended
  <2> QED BY <1>1, <2>2 DEF Terminates, Terminator
<1>4. /\ keyword' \in BOOLEAN
      /\ keyword' <=> (tok \in Keywords \/ (keyword /\ ~Terminates))
  BY DEF Count, Flags
<1>5. parens' = parens + Change(tok) /\ Change(tok) \in Int
  BY DEF Count, Flags, Change
<1>6. /\ n_stmts' = n_stmts + (IF Terminates THEN 1 ELSE 0) /\ n_stmts' \in Nat
      /\ n_stmts <= n_stmts'
  BY <1>2 DEF Count
<1>7. /\ counts' = Append(counts, n_stmts') /\ depths' = Append(depths, parens')
      /\ marks' = (IF keyword' THEN marks \cup {pos + 1} ELSE marks)
      /\ pos' = pos + 1 /\ input' = input /\ pass' = pass
      /\ room' = room /\ stmts' = stmts /\ stmtstart' = stmtstart /\ error' = error
  BY DEF Count
<1>8. /\ counts' \in Seq(Nat) /\ Len(counts') = pos + 1 /\ counts'[pos + 1] = n_stmts'
      /\ \A j \in 1 .. pos : counts'[j] = counts[j]
      /\ depths' \in Seq(Int) /\ Len(depths') = pos + 1 /\ depths'[pos + 1] = parens'
      /\ \A j \in 1 .. pos : depths'[j] = depths[j]
  BY <1>1, <1>2, <1>5, <1>6, <1>7, SMTT(20)
<1>9. TypeOK'
  <2>1. marks' \subseteq Nat /\ parens' \in Int /\ pos' \in Nat /\ room' \in Int
    <3>1. ASSUME NEW j \in marks' PROVE j \in Nat
      <4>1. j \in marks \/ j = pos + 1
        BY <1>7
      <4>2. marks \subseteq Nat
        BY DEF TypeOK
      <4>3. pos + 1 \in Nat
        BY <1>1
      <4> QED BY <4>1, <4>2, <4>3
    <3>2. room \in Int
      BY DEF TypeOK
    <3>3. parens' \in Int /\ pos' \in Nat /\ room' \in Int
      BY <3>2, <1>1, <1>2, <1>5, <1>7
    <3> QED BY <3>1, <3>3
  <2> QED BY <2>1, <1>4, <1>6, <1>7, <1>8 DEF TypeOK
<1>10. /\ \A j \in 0 .. pos : Before(counts', j) = Before(counts, j)
       /\ \A j \in 0 .. pos : Before(depths', j) = Before(depths, j)
       /\ \A j \in 0 .. pos : j \in marks' <=> j \in marks
       /\ pos + 1 \in marks' <=> keyword'
  BY <1>1, <1>2, <1>7, <1>8 DEF Before
<1>11. \A j \in 1 .. pos + 1 : Token(j)' = Token(j) /\ (Ended(j)' <=> Ended(j))
  <2> SUFFICES ASSUME NEW j \in 1 .. pos + 1 PROVE Token(j)' = Token(j) /\ (Ended(j)' <=> Ended(j))
    OBVIOUS
  <2>1. j - 1 \in 0 .. pos
    BY <1>1
  <2>2. Token(j)' = Token(j)
    BY <1>7 DEF Token
  <2> QED BY <2>1, <2>2, <1>10 DEF Ended, Before
<1>12. ASSUME NEW j \in 1 .. pos PROVE Remembered(j)'
  <2>1. Remembered(j) /\ j - 1 \in 0 .. pos /\ j \in 0 .. pos /\ j \in 1 .. pos + 1
    BY <1>1 DEF History
  <2>2. counts'[j] <= n_stmts'
    <3>1. counts[j] <= n_stmts
      BY <2>1 DEF Remembered
    <3>2. Len(counts) = pos /\ counts[j] \in Nat
      BY <1>1, <1>2
    <3>3. counts'[j] = counts[j]
      BY <1>8
    <3> QED BY <3>1, <3>2, <3>3, <1>2, <1>6
  <2>3. /\ Before(counts, j - 1)' = Before(counts, j - 1)
        /\ Before(depths, j - 1)' = Before(depths, j - 1)
    BY <2>1, <1>10 DEF Before
  <2> QED BY <2>1, <2>2, <2>3, <1>8, <1>10, <1>11 DEF Remembered
<1>13. ASSUME NEW j \in Nat, j = pos + 1 PROVE Remembered(j)'
  <2>1. /\ Token(j)' = tok /\ (Ended(j)' <=> Terminates)
        /\ j - 1 = pos /\ pos \in 0 .. pos /\ j \in 1 .. pos + 1
    BY <1>1, <1>3, <1>11, <1>13
  <2>2. /\ Before(counts', j - 1) = n_stmts /\ Before(depths', j - 1) = parens
        /\ (j - 1 \in marks' <=> keyword) /\ (j \in marks' <=> keyword')
    BY <1>1, <1>10, <2>1, <1>13
  <2>3. Before(counts, j - 1)' = n_stmts /\ Before(depths, j - 1)' = parens
    BY <2>2 DEF Before
  <2>4. depths'[j] = parens' /\ counts'[j] = n_stmts'
    BY <1>8, <1>13
  <2> QED
    BY <2>1, <2>2, <2>3, <2>4, <1>1, <1>4, <1>5, <1>6 DEF Remembered
<1>14. History'
  <2>1. Len(depths') = Len(counts') /\ Len(counts') <= Len(input') + 1
    BY <1>1, <1>7, <1>8
  <2>2. marks' \subseteq 1 .. Len(counts')
    <3> SUFFICES ASSUME NEW j \in marks' PROVE j \in 1 .. pos + 1
      BY <1>8
    <3>1. j \in marks \/ j = pos + 1
      BY <1>7
    <3>2. CASE j \in marks
      <4>1. j \in 1 .. pos
        BY <3>2, <1>2
      <4> QED BY <4>1, <1>1
    <3>3. CASE j = pos + 1
      BY <3>3, <1>1
    <3> QED BY <3>1, <3>2, <3>3
  <2>3. ASSUME NEW j \in 1 .. pos + 1 PROVE Remembered(j)'
    <3>1. CASE j \in 1 .. pos
      BY <3>1, <1>12
    <3>2. CASE j = pos + 1
      BY <3>2, <1>13
    <3> QED BY <3>1, <3>2, <1>1
  <2> QED BY <2>1, <2>2, <2>3, <1>8 DEF History
<1>15. FirstPass'
  <2>1. pos' = Len(counts') /\ (keyword' <=> pos' \in marks')
    BY <1>7, <1>8, <1>10
  <2>2. pos' # 0 /\ parens' = depths'[pos'] /\ n_stmts' = counts'[pos']
    BY <1>1, <1>7, <1>8
  <2> QED BY <2>1, <2>2, <1>1, <1>7 DEF FirstPass, Flagged, Before
<1>16. SecondPass' /\ Returned' /\ Spans'
  BY <1>1, <1>7 DEF SecondPass, Returned, Spans, SpansOrdered
<1> QED BY <1>9, <1>14, <1>15, <1>16

\* The second pass starts as the first did.
LEMMA AllocateStep == ASSUME IInv, Allocate PROVE IInv'
<1> USE DEF IInv
<1>1. /\ pass = 1 /\ pos = Len(input) + 1 /\ pos = Len(counts) /\ n_stmts = Before(counts, pos)
      /\ stmts = <<>> /\ stmtstart = 0 /\ input \in Seq(Tokens)
  BY DEF Allocate, FirstPass, TypeOK
<1>2. /\ room' = n_stmts /\ pass' = 2 /\ pos' = 0 /\ ~keyword' /\ parens' = 0
      /\ keyword' \in BOOLEAN
      /\ input' = input /\ n_stmts' = n_stmts /\ stmts' = stmts /\ stmtstart' = stmtstart
      /\ error' = error /\ counts' = counts /\ depths' = depths /\ marks' = marks
  BY DEF Allocate, history
<1>3. TypeOK'
  BY <1>2 DEF TypeOK
<1>4. History'
  BY <1>2 DEF History, Remembered, Ended, Before, Token
<1>5. 0 \notin marks
  BY DEF History
<1>6. Len(counts) = Len(input) + 1 /\ counts[Len(input) + 1] = n_stmts /\ Len(input) \in Nat
  BY <1>1 DEF Before
<1>7. Len(stmts) = 0
  BY <1>1
<1>8. SecondPass'
  BY <1>1, <1>2, <1>5, <1>6, <1>7 DEF SecondPass, Flagged, Before
<1>9. FirstPass' /\ Returned'
  BY <1>2 DEF FirstPass, Returned
<1>10. Spans'
  BY <1>1, <1>2 DEF Spans, SpansOrdered
<1> QED BY <1>3, <1>4, <1>8, <1>9, <1>10

\* The second pass finds the flags of the first.
LEMMA FillStep == ASSUME IInv, Fill PROVE IInv'
<1> USE DEF IInv
<1>1. /\ pass = 2 /\ pos \in Nat /\ pos <= Len(input) /\ Len(input) \in Nat
      /\ Len(counts) = Len(input) + 1 /\ (keyword <=> pos \in marks)
      /\ parens = Before(depths, pos) /\ Len(stmts) = Before(counts, pos)
      /\ room = n_stmts /\ counts[Len(input) + 1] = n_stmts
      /\ stmtstart \in Nat /\ stmtstart <= pos /\ (keyword => stmtstart < pos)
      /\ tok = Token(pos + 1) /\ keyword \in BOOLEAN
  BY DEF Fill, SecondPass, Flagged, tok, TypeOK
<1>2. /\ pass' = pass /\ pos' = pos + 1 /\ input' = input /\ n_stmts' = n_stmts
      /\ room' = room /\ error' = error
      /\ counts' = counts /\ depths' = depths /\ marks' = marks
  BY DEF Fill, history
<1>3. /\ keyword' \in BOOLEAN
      /\ keyword' <=> (tok \in Keywords \/ (keyword /\ ~Terminates))
      /\ parens' = parens + Change(tok) /\ Change(tok) \in Int
  <2>1. Change(tok) \in Int
    BY DEF Change
  <2>2. /\ keyword' = (tok \in Keywords \/ (keyword /\ ~Terminates))
        /\ parens' = parens + Change(tok)
    BY DEF Fill, Flags
  <2> QED BY <2>1, <2>2
<1>4. pos + 1 \in 1 .. Len(counts) /\ pos + 1 - 1 = pos
  BY <1>1
<1>5. Remembered(pos + 1)
  BY <1>4 DEF History
<1>6. Terminates <=> Ended(pos + 1)
  <2>1. Ended(pos + 1) <=> pos \in marks /\ Before(depths, pos) = 0 /\ tok \in {";", EOF}
    BY <1>1, <1>4 DEF Ended
  <2> QED BY <1>1, <2>1 DEF Terminates, Terminator
<1>7. /\ pos + 1 \in marks <=> (tok \in Keywords \/ (keyword /\ ~Terminates))
      /\ depths[pos + 1] = parens + Change(tok)
      /\ counts[pos + 1] = Len(stmts) + (IF Terminates THEN 1 ELSE 0)
  BY <1>1, <1>4, <1>5, <1>6 DEF Remembered
<1>8. /\ parens \in Int /\ stmts \in Seq([loc : Nat, len : Int])
      /\ input \in Seq(Tokens) /\ pass \in 1 .. 3 /\ n_stmts \in Nat /\ room \in Int
      /\ error \in BOOLEAN /\ counts \in Seq(Nat) /\ depths \in Seq(Int) /\ marks \subseteq Nat
      /\ Len(stmts) \in Nat /\ DOMAIN stmts = 1 .. Len(stmts)
  BY DEF TypeOK
<1>a. \A k \in DOMAIN stmts : stmts[k].loc \in Nat /\ stmts[k].len \in Int
  <2> SUFFICES ASSUME NEW k \in DOMAIN stmts
               PROVE  stmts[k].loc \in Nat /\ stmts[k].len \in Int
    OBVIOUS
  <2> DEFINE Span == [loc : Nat, len : Int]
  <2>1. stmts \in Seq(Span)
    BY <1>8
  <2> HIDE DEF Span
  <2>2. stmts[k] \in Span
    BY <2>1
  <2> QED BY <2>2 DEF Span
<1>b. parens' \in Int /\ pos' \in Nat
  BY <1>1, <1>2, <1>3, <1>8
<1>c. TypeOK' <=> stmts' \in Seq([loc : Nat, len : Int]) /\ stmtstart' \in Nat
  BY <1>2, <1>3, <1>8, <1>b DEF TypeOK
<1>9. CASE Terminates
  <2>1. keyword /\ tok \in {";", EOF} /\ stmtstart < pos
    BY <1>1, <1>9 DEF Terminates, Terminator
  <2> DEFINE s == [loc |-> stmtstart, len |-> pos - stmtstart]
  <2>2. stmts' = Append(stmts, s) /\ stmtstart' = pos + 1
    BY <1>9 DEF Fill, Add, Advance, yylloc
  <2>3. s \in [loc : Nat, len : Int] /\ s.loc = stmtstart /\ s.len = pos - stmtstart
    BY <1>1
  <2> HIDE DEF s
  <2>4. /\ stmts' \in Seq([loc : Nat, len : Int]) /\ Len(stmts') = Len(stmts) + 1
        /\ stmts'[Len(stmts) + 1] = s
        /\ \A k \in 1 .. Len(stmts) : stmts'[k] = stmts[k]
        /\ DOMAIN stmts = 1 .. Len(stmts) /\ DOMAIN stmts' = 1 .. Len(stmts) + 1
    BY <2>2, <2>3, <1>8
  <2>5. TypeOK'
    BY <2>2, <2>4, <1>1, <1>c
  <2>6. SecondPass'
    <3>1. ~keyword'
      BY <2>1, <1>3, <1>9 DEF Keywords, EOF
    <3> QED BY <3>1, <2>2, <2>4, <1>1, <1>2, <1>3, <1>7, <1>9 DEF SecondPass, Flagged, Before
  <2>7. \A k \in DOMAIN stmts :
          /\ stmts[k].len > 0 /\ stmts[k].loc + stmts[k].len <= Len(input)
          /\ stmts[k].loc + stmts[k].len < stmtstart
          /\ stmts[k].loc \in Nat /\ stmts[k].len \in Int
    BY <1>a DEF Spans, SpansOrdered
  <2>8. \A k, l \in DOMAIN stmts : k < l => stmts[k].loc + stmts[k].len < stmts[l].loc
    BY DEF Spans, SpansOrdered
  <2>9. ASSUME NEW k \in DOMAIN stmts'
        PROVE  /\ stmts'[k].len > 0 /\ stmts'[k].loc + stmts'[k].len <= Len(input')
               /\ stmts'[k].loc + stmts'[k].len < stmtstart'
    <3>1. CASE k \in 1 .. Len(stmts)
      <4>1. stmts'[k] = stmts[k] /\ k \in DOMAIN stmts
        BY <3>1, <2>4
      <4>2. stmts[k].loc + stmts[k].len < stmtstart'
        <5>1. stmts[k].loc + stmts[k].len < stmtstart /\ stmts[k].loc + stmts[k].len \in Int
          BY <4>1, <2>7
        <5>2. stmtstart' = pos + 1
          BY <2>2
        <5>3. pos \in Nat /\ stmtstart \in Nat /\ stmtstart < pos
          BY <2>1, <1>1
        <5> QED BY <5>1, <5>2, <5>3
      <4> QED BY <4>1, <4>2, <2>7, <1>2
    <3>2. CASE k = Len(stmts) + 1
      <4>1. stmts'[k] = s
        BY <3>2, <2>4
      <4>2. s.len > 0 /\ s.loc + s.len = pos /\ pos < stmtstart'
        <5>1. pos \in Nat /\ stmtstart \in Nat /\ stmtstart < pos
          BY <2>1, <1>1
        <5>2. stmtstart' = pos + 1 /\ s.loc = stmtstart /\ s.len = pos - stmtstart
          BY <2>2, <2>3
        <5> QED BY <5>1, <5>2
      <4> QED BY <4>1, <4>2, <1>1, <1>2
    <3> QED BY <3>1, <3>2, <2>4
  <2>10. ASSUME NEW k \in DOMAIN stmts', NEW l \in DOMAIN stmts', k < l
         PROVE  stmts'[k].loc + stmts'[k].len < stmts'[l].loc
    <3>1. k \in 1 .. Len(stmts) /\ Len(stmts) \in Nat
      <4>1. k \in 1 .. Len(stmts) + 1 /\ l \in 1 .. Len(stmts) + 1 /\ k < l
        BY <2>4, <2>10
      <4> QED BY <4>1, <1>8
    <3>2. CASE l \in 1 .. Len(stmts)
      BY <3>1, <3>2, <2>4, <2>8, <2>10
    <3>3. CASE l = Len(stmts) + 1
      BY <3>1, <3>3, <2>3, <2>4, <2>7
    <3> QED BY <3>2, <3>3, <2>4
  <2>11. Spans'
    BY <2>9, <2>10 DEF Spans, SpansOrdered
  <2>12. FirstPass' /\ Returned'
    BY <1>1, <1>2 DEF FirstPass, Returned
  <2>13. History'
    BY <1>2 DEF History, Remembered, Ended, Before, Token
  <2> QED BY <2>5, <2>6, <2>11, <2>12, <2>13
<1>10. CASE ~Terminates
  <2>1. stmts' = stmts /\ stmtstart' \in {stmtstart, pos + 1}
    BY <1>10 DEF Fill, Add, Advance, yylloc
  <2>2. stmtstart' = pos + 1 => ~keyword'
    <3>1. CASE stmtstart' = pos + 1
      <4>1. stmtstart # pos + 1
        BY <1>1
      <4>2. parens = 0 /\ tok = ";"
        BY <3>1, <4>1, <1>10 DEF Fill, Advance
      <4>3. ~keyword
        BY <4>2, <1>10 DEF Terminates, Terminator
      <4> QED BY <4>2, <4>3, <1>3 DEF Keywords
    <3> QED BY <3>1
  <2>3. TypeOK'
    BY <2>1, <1>1, <1>8, <1>c
  <2>4. stmtstart' <= pos' /\ (keyword' => stmtstart' < pos') /\ stmtstart <= stmtstart'
    BY <2>1, <2>2, <1>1, <1>2
  <2>5. SecondPass'
    BY <2>1, <2>4, <1>1, <1>2, <1>3, <1>7, <1>10 DEF SecondPass, Flagged, Before
  <2>6. Spans'
    <3>1. \A k \in DOMAIN stmts : stmts[k].loc + stmts[k].len < stmtstart'
      BY <2>1, <2>4, <1>1, <1>a DEF Spans
    <3> QED BY <3>1, <2>1, <1>2 DEF Spans, SpansOrdered
  <2>7. FirstPass' /\ Returned'
    BY <1>1, <1>2 DEF FirstPass, Returned
  <2>8. History'
    BY <1>2 DEF History, Remembered, Ended, Before, Token
  <2> QED BY <2>3, <2>5, <2>6, <2>7, <2>8
<1> QED BY <1>9, <1>10

\* The lexer can only raise an error in the first pass.
LEMMA LexErrorStep == ASSUME IInv, LexError PROVE IInv'
<1> USE DEF IInv
<1>1. /\ pass < 3 /\ tok = "bad" /\ error' = TRUE /\ pass' = 3
      /\ input' = input /\ pos' = pos /\ keyword' = keyword /\ parens' = parens
      /\ n_stmts' = n_stmts /\ room' = room /\ stmts' = stmts /\ stmtstart' = stmtstart
      /\ counts' = counts /\ depths' = depths /\ marks' = marks
  BY DEF LexError, scan, history
<1>2. pass = 1
  <2> SUFFICES ASSUME pass = 2 PROVE FALSE
    BY <1>1 DEF TypeOK
  <2>1. pos + 1 \in 1 .. Len(counts) \/ pos >= Len(input) + 1
    BY DEF SecondPass, TypeOK
  <2>2. CASE pos + 1 \in 1 .. Len(counts)
    BY <2>2, <1>1 DEF History, Remembered, tok
  <2>3. CASE pos >= Len(input) + 1
    BY <2>3, <1>1 DEF tok, Token, EOF, TypeOK
  <2> QED BY <2>1, <2>2, <2>3
<1>3. room = -1
  BY <1>2 DEF FirstPass
<1>4. TypeOK'
  BY <1>1 DEF TypeOK
<1>5. History'
  BY <1>1 DEF History, Remembered, Ended, Before, Token
<1>6. Spans'
  BY <1>1 DEF Spans, SpansOrdered
<1> QED BY <1>1, <1>3, <1>4, <1>5, <1>6 DEF FirstPass, SecondPass, Returned

LEMMA ReturnStep == ASSUME IInv, Return PROVE IInv'
<1> USE DEF IInv
<1>1. /\ pass = 2 /\ pos = Len(input) + 1 /\ pass' = 3
      /\ input' = input /\ pos' = pos /\ keyword' = keyword /\ parens' = parens
      /\ n_stmts' = n_stmts /\ room' = room /\ stmts' = stmts /\ stmtstart' = stmtstart
      /\ error' = error /\ counts' = counts /\ depths' = depths /\ marks' = marks
  BY DEF Return, scan, result, history
<1>2. Len(stmts) = n_stmts /\ room = n_stmts
  BY <1>1 DEF SecondPass, Before, TypeOK
<1>3. TypeOK'
  BY <1>1 DEF TypeOK
<1>4. History'
  BY <1>1 DEF History, Remembered, Ended, Before, Token
<1>5. Spans'
  BY <1>1 DEF Spans, SpansOrdered
<1> QED BY <1>1, <1>2, <1>3, <1>4, <1>5 DEF FirstPass, SecondPass, Returned

LEMMA StutterStep == ASSUME IInv, UNCHANGED vars PROVE IInv'
<1>1. /\ input' = input /\ pass' = pass /\ pos' = pos /\ keyword' = keyword
      /\ parens' = parens /\ n_stmts' = n_stmts /\ room' = room /\ stmts' = stmts
      /\ stmtstart' = stmtstart /\ error' = error
      /\ counts' = counts /\ depths' = depths /\ marks' = marks
  BY DEF vars, scan, result, history
<1> QED
  BY <1>1 DEF IInv, TypeOK, History, Remembered, Ended, Before, Token, FirstPass, SecondPass,
              Flagged, Returned, Spans, SpansOrdered

-----------------------------------------------------------------------------
(* Lemmas about the input.                                                   *)

\* A set of natural numbers has a least one.
LEMMA LeastNat ==
  ASSUME NEW T \in SUBSET Nat, T # {}
  PROVE  \E m \in T : \A n \in T : m <= n
<1>1. PICK x \in T : \A y \in T : ~(<<y, x>> \in OpToRel(<, Nat))
  BY WFMin, NatLessThanWellFounded
<1>2. \A y \in T : ~(y < x)
  BY <1>1 DEF OpToRel
<1>3. x \in Nat /\ \A y \in T : y \in Nat
  OBVIOUS
<1>4. \A y \in T : x <= y
  BY <1>2, <1>3
<1> QED BY <1>4

\* A set of natural numbers that are not above n has a greatest one.
LEMMA GreatestNat ==
  ASSUME NEW n \in Nat, NEW T \in SUBSET (0 .. n), T # {}
  PROVE  \E m \in T : \A k \in T : k <= m
<1> DEFINE D == {n - k : k \in T}
<1>1. D \in SUBSET Nat /\ D # {}
  OBVIOUS
<1>2. PICK d \in D : \A e \in D : d <= e
  BY <1>1, LeastNat
<1>3. PICK m \in T : d = n - m
  OBVIOUS
<1>4. ASSUME NEW k \in T PROVE k <= m
  <2>1. n - m <= n - k
    BY <1>2, <1>3
  <2> QED BY <2>1
<1> QED BY <1>4

Seen(c, p) == {j \in 1 .. p : input[j] = c}

\* How many of a character there are in one token more.
LEMMA SeenStep ==
  ASSUME NEW p \in Nat, NEW c
  PROVE  /\ Cardinality(Seen(c, p)) \in Nat
         /\ Cardinality(Seen(c, p + 1))
              = Cardinality(Seen(c, p)) + (IF input[p + 1] = c THEN 1 ELSE 0)
<1>1. IsFiniteSet(Seen(c, p))
  <2>1. IsFiniteSet(1 .. p)
    BY FS_Interval
  <2> QED BY <2>1, FS_Subset DEF Seen
<1>2. p + 1 \notin Seen(c, p)
  BY DEF Seen
<1>3. CASE input[p + 1] = c
  <2>1. Seen(c, p + 1) = Seen(c, p) \cup {p + 1}
    BY <1>3 DEF Seen
  <2> QED BY <2>1, <1>1, <1>2, <1>3, FS_AddElement, FS_CardinalityType
<1>4. CASE input[p + 1] # c
  <2>1. Seen(c, p + 1) = Seen(c, p)
    BY <1>4 DEF Seen
  <2> QED BY <2>1, <1>1, <1>4, FS_CardinalityType
<1> QED BY <1>3, <1>4

\* The parentheses open, token by token.
LEMMA DepthStep ==
  ASSUME NEW p \in Nat
  PROVE  /\ Depth(1) = 0 /\ Depth(p + 1) \in Int
         /\ Depth(p + 2) = Depth(p + 1) + Change(input[p + 1])
<1>1. \A q \in Nat : Depth(q + 1) = Cardinality(Seen("(", q)) - Cardinality(Seen(")", q))
  <2> TAKE q \in Nat
  <2>1. q + 1 - 1 = q
    OBVIOUS
  <2> QED BY <2>1 DEF Depth, Seen
<1>2. Depth(1) = 0
  <2>1. Seen("(", 0) = {} /\ Seen(")", 0) = {}
    BY DEF Seen
  <2>2. Depth(1) = Cardinality(Seen("(", 0)) - Cardinality(Seen(")", 0))
    <3>1. 0 \in Nat /\ 0 + 1 = 1
      OBVIOUS
    <3> QED BY <3>1, <1>1
  <2>3. Cardinality({}) = 0
    BY FS_EmptySet
  <2>4. Cardinality(Seen("(", 0)) = 0 /\ Cardinality(Seen(")", 0)) = 0
    BY <2>1, <2>3, Zenon
  <2> HIDE DEF Seen
  <2> QED BY <2>2, <2>4
<1>3. \A c : /\ Cardinality(Seen(c, p)) \in Nat
             /\ Cardinality(Seen(c, p + 1))
                  = Cardinality(Seen(c, p)) + (IF input[p + 1] = c THEN 1 ELSE 0)
  BY SeenStep
<1>4. Depth(p + 2) = Cardinality(Seen("(", p + 1)) - Cardinality(Seen(")", p + 1))
  <2>1. p + 1 \in Nat /\ (p + 1) + 1 = p + 2
    OBVIOUS
  <2> QED BY <2>1, <1>1
<1>5. /\ Depth(p + 1) = Cardinality(Seen("(", p)) - Cardinality(Seen(")", p))
      /\ Cardinality(Seen("(", p)) \in Nat /\ Cardinality(Seen(")", p)) \in Nat
      /\ Cardinality(Seen("(", p + 1))
           = Cardinality(Seen("(", p)) + (IF input[p + 1] = "(" THEN 1 ELSE 0)
      /\ Cardinality(Seen(")", p + 1))
           = Cardinality(Seen(")", p)) + (IF input[p + 1] = ")" THEN 1 ELSE 0)
  BY <1>1, <1>3
<1>6. Depth(p + 2) = Depth(p + 1) + Change(input[p + 1])
  BY <1>4, <1>5 DEF Change
<1> QED BY <1>2, <1>5, <1>6

\* Terminators are tokens of the input, or its end.
LEMMA CutsType ==
  ASSUME TypeOK
  PROVE  Cuts \subseteq 1 .. Len(input) + 1 /\ Len(input) \in Nat /\ Cuts \subseteq Nat
<1>1. Len(input) \in Nat
  BY DEF TypeOK
<1>2. Cuts \subseteq 1 .. Len(input) + 1
  BY DEF Cuts
<1> QED BY <1>1, <1>2

\* A segment begins at the last terminator in front of it, or with the input.
LEMMA StartIs ==
  ASSUME TypeOK, NEW c \in Nat, NEW s \in Nat, s < c, s = 0 \/ s \in Cuts,
         \A i \in s + 1 .. c - 1 : i \notin Cuts
  PROVE  Start(c) = s
<1> DEFINE before == {i \in Cuts : i < c}
<1>1. \A i \in before : i \in Nat /\ i >= 1 /\ i <= s
  <2> TAKE i \in before
  <2>1. i \in Nat /\ i >= 1 /\ i < c /\ i \in Cuts
    BY CutsType
  <2>2. i \notin s + 1 .. c - 1
    BY <2>1
  <2> QED BY <2>1, <2>2
<1>2. CASE s = 0
  <2>1. before = {}
    BY <1>1, <1>2
  <2> QED BY <2>1, <1>2 DEF Start
<1>3. CASE s # 0
  <2>1. s \in before
    BY <1>3
  <2>2. \A m \in before : (\A j \in before : j <= m) => m = s
    <3> TAKE m \in before
    <3> HAVE \A j \in before : j <= m
    <3>1. s <= m /\ m <= s /\ m \in Nat
      BY <2>1, <1>1
    <3> QED BY <3>1
  <2>3. \A j \in before : j <= s
    BY <1>1
  <2>4. (CHOOSE i \in before : \A j \in before : j <= i) = s
    BY <2>1, <2>2, <2>3
  <2> QED BY <2>1, <2>4 DEF Start
<1> QED BY <1>2, <1>3

\* Every terminator has such a beginning.
LEMMA StartOf ==
  ASSUME TypeOK, NEW c \in Cuts
  PROVE  /\ Start(c) \in Nat /\ Start(c) < c /\ (Start(c) = 0 \/ Start(c) \in Cuts)
         /\ \A i \in Start(c) + 1 .. c - 1 : i \notin Cuts
<1> DEFINE before == {i \in Cuts : i < c}
<1>1. c \in Nat /\ c >= 1 /\ Cuts \subseteq Nat /\ before \subseteq 0 .. c
  BY CutsType
<1>2. CASE before = {}
  <2>1. Start(c) = 0
    BY <1>2 DEF Start
  <2>2. \A i \in 1 .. c - 1 : i \notin Cuts
    BY <1>1, <1>2
  <2> QED BY <2>1, <2>2, <1>1
<1>3. CASE before # {}
  <2>1. \E m \in before : \A k \in before : k <= m
    BY <1>1, <1>3, GreatestNat
  <2>2. Start(c) \in before /\ \A k \in before : k <= Start(c)
    BY <2>1, <1>3 DEF Start
  <2>3. \A i \in Start(c) + 1 .. c - 1 : i \notin Cuts
    <3> SUFFICES ASSUME NEW i \in Start(c) + 1 .. c - 1, i \in Cuts PROVE FALSE
      OBVIOUS
    <3>1. Start(c) \in Nat /\ i \in before
      BY <2>2, <1>1
    <3>2. i <= Start(c)
      BY <3>1, <2>2
    <3> QED BY <3>1, <3>2, <1>1
  <2> QED BY <2>2, <2>3, <1>1
<1> QED BY <1>2, <1>3

\* Terminators and statements are about the input alone.
LEMMA SameInput ==
  ASSUME input' = input
  PROVE  /\ \A i : Token(i)' = Token(i) /\ Depth(i)' = Depth(i)
         /\ Cuts' = Cuts /\ Statements' = Statements
         /\ \A c : Start(c)' = Start(c)
         /\ \A p : PlacesUpTo(p)' = PlacesUpTo(p)
<1>1. \A i : Token(i)' = Token(i) /\ Depth(i)' = Depth(i)
  BY DEF Token, Depth
<1>2. Cuts' = Cuts
  BY <1>1 DEF Cuts
<1>3. \A c : Start(c)' = Start(c)
  BY <1>2 DEF Start
<1>4. Statements' = Statements
  BY <1>2, <1>3 DEF Statements
<1>5. \A p : PlacesUpTo(p)' = PlacesUpTo(p)
  BY <1>3, <1>4 DEF PlacesUpTo
<1> QED BY <1>1, <1>2, <1>3, <1>4, <1>5

-----------------------------------------------------------------------------
(* The second pass finds the statements.                                     *)

\* The place of a statement that is added.
LEMMA PlacesAppend ==
  ASSUME TypeOK, NEW b \in Nat, NEW l \in Int,
         stmts' = Append(stmts, [loc |-> b, len |-> l])
  PROVE  Places' = Places \cup {<<b, b + l>>}
<1> DEFINE Span == [loc : Nat, len : Int]
<1> DEFINE s == [loc |-> b, len |-> l]
<1> DEFINE n == Len(stmts) + 1
<1>1. stmts \in Seq(Span) /\ s \in Span /\ s.loc = b /\ s.len = l
  BY DEF TypeOK
<1> HIDE DEF Span, s
<1>2. stmts' = Append(stmts, s)
  BY DEF s
<1>3. /\ DOMAIN stmts' = DOMAIN stmts \cup {n} /\ stmts'[n] = s
      /\ \A k \in DOMAIN stmts : stmts'[k] = stmts[k]
  BY <1>1, <1>2
<1> HIDE DEF n
<1>4. {stmts'[k] : k \in DOMAIN stmts'} = {stmts[k] : k \in DOMAIN stmts} \cup {s}
  BY <1>3
<1>5. Places' = {<<t.loc, t.loc + t.len>> : t \in {stmts'[k] : k \in DOMAIN stmts'}}
  BY DEF Places
<1>6. Places' = Places \cup {<<s.loc, s.loc + s.len>>}
  BY <1>4, <1>5 DEF Places
<1> QED BY <1>1, <1>6

\* The place of a statement that is there to be found.
LEMMA PlacesUpToStep ==
  ASSUME TypeOK, NEW p \in Nat
  PROVE  /\ p + 1 \in Statements =>
              PlacesUpTo(p + 1) = PlacesUpTo(p) \cup {<<Start(p + 1), p>>}
         /\ p + 1 \notin Statements => PlacesUpTo(p + 1) = PlacesUpTo(p)
         /\ PlacesUpTo(0) = {}
<1>1. \A d \in Statements : d \in Nat /\ d >= 1
  <2>1. Statements \subseteq Cuts
    BY DEF Statements
  <2> QED BY <2>1, CutsType
<1>2. {d \in Statements : d <= p + 1}
        = {d \in Statements : d <= p} \cup (IF p + 1 \in Statements THEN {p + 1} ELSE {})
  <2>1. \A d \in Statements : d <= p + 1 <=> d <= p \/ d = p + 1
    BY <1>1
  <2> HIDE DEF Statements
  <2> QED BY <2>1, Zenon
<1>3. {d \in Statements : d <= 0} = {}
  <2>1. \A d \in Statements : ~(d <= 0)
    BY <1>1
  <2> QED BY <2>1
<1>4. CASE p + 1 \in Statements
  <2>1. {d \in Statements : d <= p + 1} = {d \in Statements : d <= p} \cup {p + 1}
    BY <1>2, <1>4
  <2>2. PlacesUpTo(p + 1) = PlacesUpTo(p) \cup {<<Start(p + 1), (p + 1) - 1>>}
    BY <2>1 DEF PlacesUpTo
  <2>3. (p + 1) - 1 = p
    OBVIOUS
  <2> QED BY <2>2, <2>3, <1>3, <1>4 DEF PlacesUpTo
<1>5. CASE p + 1 \notin Statements
  BY <1>2, <1>3, <1>5 DEF PlacesUpTo
<1> QED BY <1>4, <1>5

\* Before the second pass nothing is there.
LEMMA InitFInv == Init => FInv
<1>1. ASSUME NEW n \in 0 .. MaxLen, NEW i \in [1 .. n -> Tokens], InitOn(i) PROVE FInv
  BY <1>1 DEF InitOn, FInv, Segment, FoundSoFar, Finished
<1> QED BY <1>1 DEF Init

\* The second pass, token by token.
LEMMA FillFound == ASSUME IInv, FInv, Fill PROVE FInv'
<1>1. /\ TypeOK /\ pass = 2 /\ pos \in Nat /\ pos <= Len(input) /\ Len(input) \in Nat
      /\ tok = Token(pos + 1) /\ keyword \in BOOLEAN /\ stmtstart \in Nat /\ stmtstart <= pos
      /\ input \in Seq(Tokens)
  BY DEF Fill, IInv, TypeOK, SecondPass, tok
<1>2. /\ pass' = pass /\ pos' = pos + 1 /\ input' = input /\ error' = error
      /\ keyword' = (tok \in Keywords \/ (keyword /\ ~Terminates))
      /\ parens' = parens + Change(tok)
  BY DEF Fill, Flags
<1>3. /\ parens = Depth(pos + 1) /\ (stmtstart = 0 \/ stmtstart \in Cuts)
      /\ \A i \in stmtstart + 1 .. pos : i \notin Cuts
      /\ keyword <=> \E i \in stmtstart + 1 .. pos : input[i] \in Keywords
  BY <1>1 DEF FInv, Segment
<1>4. pos + 1 \in Nat /\ stmtstart < pos + 1 /\ pos + 1 - 1 = pos /\ pos + 1 \in 1 .. Len(input) + 1
  BY <1>1
<1>5. Start(pos + 1) = stmtstart
  BY <1>1, <1>3, <1>4, StartIs
<1>6. pos + 1 \in Cuts <=> Terminator /\ parens = 0
  BY <1>1, <1>3, <1>4 DEF Cuts, Terminator
<1>7. Terminates <=> pos + 1 \in Statements
  <2>1. Terminates <=> keyword /\ pos + 1 \in Cuts
    BY <1>6 DEF Terminates
  <2> DEFINE c == pos + 1
  <2>2. c - 1 = pos /\ Start(c) = stmtstart
    <3>1. c - 1 = pos
      BY <1>1
    <3>2. Start(c) = stmtstart
      BY <1>5, Zenon
    <3> QED BY <3>1, <3>2
  <2> HIDE DEF c
  <2>3. c \in Statements <=>
          c \in Cuts /\ \E i \in stmtstart + 1 .. pos : input[i] \in Keywords
    BY <2>2, Zenon DEF Statements
  <2> QED BY <2>1, <2>3, <1>3 DEF c
<1>8. Places' = PlacesUpTo(pos + 1)
  <2>1. Places = PlacesUpTo(pos)
    BY <1>1 DEF FInv, FoundSoFar
  <2>2. CASE Terminates
    <3>1. stmts' = Append(stmts, [loc |-> stmtstart, len |-> pos - stmtstart])
      BY <2>2 DEF Fill, Add, yylloc
    <3>2. pos - stmtstart \in Int /\ stmtstart + (pos - stmtstart) = pos
      BY <1>1
    <3>3. Places' = Places \cup {<<stmtstart, pos>>}
      BY <3>1, <3>2, <1>1, PlacesAppend
    <3> QED BY <3>3, <2>1, <2>2, <1>1, <1>5, <1>7, PlacesUpToStep
  <2>3. CASE ~Terminates
    <3>1. Places' = Places
      BY <2>3 DEF Fill, Add, Places
    <3> QED BY <3>1, <2>1, <2>3, <1>1, <1>7, PlacesUpToStep
  <2> QED BY <2>2, <2>3
<1>9. Segment'
  <2> SUFFICES ASSUME pos + 1 <= Len(input)
               PROVE  /\ parens' = Depth(pos + 2)
                      /\ stmtstart' = 0 \/ stmtstart' \in Cuts
                      /\ \A i \in stmtstart' + 1 .. pos + 1 : i \notin Cuts
                      /\ keyword' <=> \E i \in stmtstart' + 1 .. pos + 1 : input[i] \in Keywords
    <3>1. pos' + 1 = pos + 2
      BY <1>1, <1>2
    <3> QED BY <3>1, <1>2, SameInput DEF Segment
  <2>1. tok = input[pos + 1] /\ tok # EOF
    <3>1. tok = input[pos + 1]
      BY <1>1, <1>4 DEF Token
    <3>2. input[pos + 1] \in Tokens
      BY <1>1, <1>4
    <3>3. EOF \notin Tokens
      BY DEF Tokens, Keywords, EOF
    <3> QED BY <3>1, <3>2, <3>3
  <2>2. parens' = Depth(pos + 2)
    BY <2>1, <1>1, <1>2, <1>3, DepthStep
  <2>3. CASE pos + 1 \in Cuts
    <3>1. stmtstart' = pos + 1 /\ tok = ";" /\ parens = 0
      BY <2>1, <2>3, <1>6 DEF Fill, Advance, Terminator, Terminates, yylloc
    <3>2. ~keyword'
      BY <3>1, <1>2 DEF Terminates, Terminator, Keywords
    <3>3. \A i \in stmtstart' + 1 .. pos + 1 : FALSE
      <4>1. \A x \in Nat : \A i \in x + 1 .. x : FALSE
        OBVIOUS
      <4> QED BY <4>1, <3>1, <1>4
    <3> QED BY <3>1, <3>2, <3>3, <2>2, <2>3
  <2>4. CASE pos + 1 \notin Cuts
    <3>1. stmtstart' = stmtstart /\ ~Terminates
      BY <2>4, <1>6, <1>7 DEF Fill, Advance, Terminator, Terminates, Statements
    <3> DEFINE a == stmtstart
    <3> DEFINE b == pos
    <3>0. a \in Nat /\ b \in Nat /\ a <= b
      BY <1>1
    <3> HIDE DEF a, b
    <3>2. \A i \in a + 1 .. b + 1 : i \in a + 1 .. b \/ i = b + 1
      BY <3>0
    <3>3. \A i \in a + 1 .. b : i \in a + 1 .. b + 1
      BY <3>0
    <3>4. b + 1 \in a + 1 .. b + 1
      BY <3>0
    <3>5. keyword' <=> (tok \in Keywords \/ keyword)
      BY <3>1, <1>2
    <3> QED BY <3>1, <3>2, <3>3, <3>4, <3>5, <2>1, <2>2, <2>4, <1>3 DEF a, b
  <2> QED BY <2>3, <2>4
<1>10. FoundSoFar'
  <2>2. pass' # 1 /\ ~Finished'
    BY <1>1, <1>2 DEF Finished
  <2>3. error' => \E i \in DOMAIN input' : input'[i] = "bad"
    BY <1>2 DEF FInv, FoundSoFar
  <2>4. Places' = PlacesUpTo(pos)'
    BY <1>8, <1>2, SameInput DEF PlacesUpTo
  <2> QED BY <2>2, <2>3, <2>4 DEF FoundSoFar
<1> QED BY <1>9, <1>10 DEF FInv

\* The other steps.
LEMMA OtherFound ==
  ASSUME IInv, FInv, LexError \/ Count \/ Allocate \/ Return \/ UNCHANGED vars
  PROVE  FInv'
<1>1. CASE LexError
  <2>1. /\ pass < 3 /\ tok = "bad" /\ error' = TRUE /\ pass' = 3 /\ input' = input
        /\ pos \in Nat /\ Len(input) \in Nat
    BY <1>1 DEF LexError, IInv, TypeOK
  <2>2. \E i \in DOMAIN input : input[i] = "bad"
    <3>1. pos + 1 <= Len(input) /\ input[pos + 1] = "bad"
      BY <2>1 DEF tok, Token, EOF
    <3>2. pos + 1 \in DOMAIN input
      BY <3>1, <2>1 DEF IInv, TypeOK
    <3> QED BY <3>1, <3>2
  <2> QED BY <2>1, <2>2 DEF FInv, Segment, FoundSoFar, Finished
<1>2. CASE Count
  <2>1. pass = 1 /\ pass' = 1 /\ stmts' = stmts /\ error' = error /\ input' = input
    BY <1>2 DEF Count
  <2> QED BY <2>1 DEF FInv, Segment, FoundSoFar, Finished
<1>3. CASE Allocate
  <2>1. /\ pass = 1 /\ pass' = 2 /\ pos' = 0 /\ keyword' = FALSE /\ parens' = 0 /\ input' = input
        /\ stmts' = stmts /\ stmtstart' = 0 /\ error' = error
    BY <1>3 DEF Allocate, IInv, FirstPass
  <2>2. stmts' = <<>> /\ TypeOK
    BY <2>1 DEF FInv, FoundSoFar, IInv
  <2>3. Places' = {}
    BY <2>2 DEF Places
  <2>4. PlacesUpTo(pos)' = {}
    <3>1. PlacesUpTo(0) = {}
      BY <2>2, PlacesUpToStep
    <3> QED BY <3>1, <2>1, SameInput DEF PlacesUpTo
  <2>5. Segment'
    <3>1. Depth(1) = 0
      BY DepthStep
    <3>2. \A i \in 0 + 1 .. 0 : FALSE
      OBVIOUS
    <3>3. Depth(0 + 1)' = 0
      BY <3>1, <2>1, SameInput
    <3> QED BY <3>2, <3>3, <2>1 DEF Segment
  <2>6. FoundSoFar'
    BY <2>1, <2>3, <2>4 DEF FoundSoFar, Finished, FInv
  <2> QED BY <2>5, <2>6 DEF FInv
<1>4. CASE Return
  <2>1. /\ pass = 2 /\ pass' = 3 /\ pos = Len(input) + 1 /\ pos' = pos /\ input' = input
        /\ stmts' = stmts /\ error' = error
    BY <1>4 DEF Return, scan, result
  <2>2. Places' = Places /\ PlacesUpTo(pos)' = PlacesUpTo(pos)
    BY <2>1, SameInput DEF Places, PlacesUpTo
  <2> QED BY <2>1, <2>2 DEF FInv, Segment, FoundSoFar, Finished
<1>5. CASE UNCHANGED vars
  <2>1. /\ pass' = pass /\ pos' = pos /\ input' = input /\ keyword' = keyword /\ parens' = parens
        /\ stmts' = stmts /\ stmtstart' = stmtstart /\ error' = error
    BY <1>5 DEF vars, scan, result
  <2>2. /\ Places' = Places /\ PlacesUpTo(pos)' = PlacesUpTo(pos)
        /\ Cuts' = Cuts /\ Depth(pos + 1)' = Depth(pos + 1)
    BY <2>1, SameInput DEF Places, PlacesUpTo, Depth
  <2>3. Segment'
    BY <2>1, <2>2 DEF FInv, Segment
  <2>4. FoundSoFar'
    BY <2>1, <2>2 DEF FInv, FoundSoFar, Finished
  <2> QED BY <2>3, <2>4 DEF FInv
<1> QED BY <1>1, <1>2, <1>3, <1>4, <1>5

\* The parts of a statement.
LEMMA StmtType ==
  ASSUME TypeOK, NEW k \in DOMAIN stmts PROVE stmts[k].loc \in Nat /\ stmts[k].len \in Int
<1> DEFINE Span == [loc : Nat, len : Int]
<1>1. stmts \in Seq(Span)
  BY DEF TypeOK
<1> HIDE DEF Span
<1>2. stmts[k] \in Span
  BY <1>1
<1> QED BY <1>2 DEF Span

\* What a call that succeeds has found.
LEMMA FoundAtEnd == ASSUME IInv, FInv PROVE StatementsFound
<1> SUFFICES ASSUME pass = 3, ~error
             PROVE  /\ Places = {<<Start(c), c - 1>> : c \in Statements}
                    /\ \A k, l \in DOMAIN stmts : k < l => stmts[k].loc < stmts[l].loc
  BY DEF StatementsFound, Places
<1>1. pos = Len(input) + 1 /\ Places = PlacesUpTo(pos)
  BY DEF FInv, FoundSoFar, Finished
<1>2. {d \in Statements : d <= Len(input) + 1} = Statements
  <2>1. \A d \in Statements : d <= Len(input) + 1
    BY CutsType DEF Statements, IInv
  <2> QED BY <2>1
<1>3. ASSUME NEW k \in DOMAIN stmts, NEW l \in DOMAIN stmts, k < l
      PROVE  stmts[k].loc < stmts[l].loc
  <2>1. stmts[k].len > 0 /\ stmts[k].loc + stmts[k].len < stmts[l].loc
    BY <1>3 DEF IInv, Spans, SpansOrdered
  <2>2. /\ stmts[k].loc \in Nat /\ stmts[k].len \in Int /\ stmts[l].loc \in Nat
    BY StmtType DEF IInv
  <2> QED BY <2>1, <2>2
<1> QED BY <1>1, <1>2, <1>3 DEF PlacesUpTo

-----------------------------------------------------------------------------
(* The parser on the same input.                                             *)

\* Separators are terminators of the input, or its end.
LEMMA SeparatorsType ==
  ASSUME TypeOK
  PROVE  /\ Separators \subseteq 1 .. Len(input) + 1 /\ Len(input) + 1 \in Separators
         /\ Len(input) \in Nat
         /\ \A i \in Separators : i \in Nat /\ i >= 1 /\ i <= Len(input) + 1
         /\ \A s \in Starts : s \in Nat /\ s <= Len(input) /\ (s = 0 \/ s \in Separators)
<1>1. Len(input) \in Nat
  BY DEF TypeOK
<1>2. Separators \subseteq 1 .. Len(input) + 1 /\ Len(input) + 1 \in Separators
  <2>1. 1 .. Len(input) \subseteq 1 .. Len(input) + 1 /\ Len(input) + 1 \in 1 .. Len(input) + 1
    BY <1>1
  <2> QED BY <2>1, Zenon DEF Separators
<1>3. \A i \in Separators : i \in Nat /\ i >= 1 /\ i <= Len(input) + 1
  BY <1>1, <1>2
<1>4. \A s \in Starts : s \in Nat /\ s <= Len(input) /\ (s = 0 \/ s \in Separators)
  BY <1>1, <1>3 DEF Starts
<1> QED BY <1>1, <1>2, <1>3, <1>4

\* The next separator is the first one behind.
LEMMA NextIs ==
  ASSUME TypeOK, NEW i \in Nat, i <= Len(input)
  PROVE  /\ NextSeparator(i) \in Separators /\ NextSeparator(i) > i
         /\ \A k \in Separators : k > i => NextSeparator(i) <= k
         /\ NextSeparator(i) \in Nat /\ NextSeparator(i) <= Len(input) + 1
<1> DEFINE T == {j \in Separators : j > i}
<1>1. Len(input) + 1 \in T
  BY SeparatorsType
<1>2. T \in SUBSET Nat
  BY SeparatorsType
<1>3. PICK m \in T : \A n \in T : m <= n
  BY <1>1, <1>2, LeastNat
<1>4. \E j \in Separators : j > i /\ \A k \in Separators : k > i => j <= k
  BY <1>3
<1>5. /\ NextSeparator(i) \in Separators /\ NextSeparator(i) > i
      /\ \A k \in Separators : k > i => NextSeparator(i) <= k
  BY <1>4 DEF NextSeparator
<1> QED BY <1>5, SeparatorsType

\* What the parser makes of the input depends on the input alone.
LEMMA SameForParser ==
  ASSUME input' = input
  PROVE  /\ Parses' = Parses /\ Separators' = Separators /\ Starts' = Starts
         /\ \A i : NextSeparator(i)' = NextSeparator(i)
         /\ \A i : Words(i)' = Words(i) /\ (Empty(i)' <=> Empty(i))
<1>1. \A i : Depth(i)' = Depth(i) /\ (InBody(i)' <=> InBody(i))
  BY DEF Depth, InBody
<1>2. Separators' = Separators
  BY <1>1 DEF Separators
<1>3. \A i : NextSeparator(i)' = NextSeparator(i)
  BY <1>2 DEF NextSeparator
<1>4. \A i : Words(i)' = Words(i)
  BY <1>3 DEF Words
<1>5. \A i : Empty(i)' <=> Empty(i)
  BY <1>4 DEF Empty
<1>6. Parses' = Parses
  BY <1>1, <1>2, <1>4 DEF Parses
<1>7. Starts' = Starts
  BY <1>2 DEF Starts
<1> QED BY <1>2, <1>3, <1>4, <1>5, <1>6, <1>7

\* No step changes the input.
LEMMA InputKept == [Next]_vars => input' = input
BY DEF Next, LexError, Count, Allocate, Fill, Return, vars

\* The parts of a RawStmt.
LEMMA RawType ==
  ASSUME TreeInv, NEW k \in DOMAIN tree
  PROVE  /\ tree[k] \in [loc : Nat, len : Nat] /\ tree[k].loc \in Nat /\ tree[k].len \in Nat
         /\ k \in Nat /\ k >= 1 /\ k <= Len(tree)
         /\ DOMAIN tree = 1 .. Len(tree) /\ Len(tree) \in Nat
<1> DEFINE Raw == [loc : Nat, len : Nat]
<1>1. tree \in Seq(Raw)
  BY DEF TreeInv
<1> HIDE DEF Raw
<1>2. /\ tree[k] \in Raw /\ k \in Nat /\ k >= 1 /\ k <= Len(tree)
      /\ DOMAIN tree = 1 .. Len(tree) /\ Len(tree) \in Nat
  BY <1>1
<1> QED BY <1>2 DEF Raw

\* Where the parser sees a statement there is a token.
LEMMA NotEmpty ==
  ASSUME TypeOK, NEW s \in Starts, ~Empty(s) PROVE NextSeparator(s) - 1 > s
<1>1. PICK j \in s + 1 .. NextSeparator(s) - 1 : TRUE
  BY DEF Empty, Words
<1>2. s \in Nat /\ s <= Len(input) /\ NextSeparator(s) \in Nat
  BY SeparatorsType, NextIs
<1> QED BY <1>1, <1>2

\* At the next semicolon the last statement gets its end, if it had none.
LEMMA Updated ==
  ASSUME TypeOK, TreeInv, parsed = "run", NEW u, u = UpdateRawStmtEnd(tree)
  PROVE  /\ u \in Seq([loc : Nat, len : Nat]) /\ Len(u) = Len(tree) /\ DOMAIN u = DOMAIN tree
         /\ \A k \in DOMAIN tree :
              /\ u[k].loc = tree[k].loc /\ u[k].len > 0
              /\ u[k].loc + u[k].len = NextSeparator(tree[k].loc) - 1
<1> DEFINE n == Len(tree)
<1>1. /\ tree \in Seq([loc : Nat, len : Nat]) /\ n \in Nat /\ DOMAIN tree = 1 .. n
      /\ from \in Starts /\ from \in Nat
  BY SeparatorsType DEF TreeInv
<1>2. \A k \in DOMAIN tree :
        \/ tree[k].loc + tree[k].len = NextSeparator(tree[k].loc) - 1 /\ tree[k].len > 0
        \/ k = n /\ tree[k].len = 0 /\ from = NextSeparator(tree[k].loc)
  BY DEF TreeInv
<1>3. CASE tree = <<>> \/ tree[n].len > 0
  <2>1. u = tree
    BY <1>3 DEF UpdateRawStmtEnd
  <2>2. \A k \in DOMAIN tree : ~(k = n /\ tree[k].len = 0)
    BY <1>1, <1>3
  <2> QED BY <2>1, <2>2, <1>1, <1>2
<1>4. CASE ~(tree = <<>> \/ tree[n].len > 0)
  <2>1. u = [tree EXCEPT ![n].len = from - 1 - tree[n].loc]
    BY <1>4 DEF UpdateRawStmtEnd
  <2>2. n \in DOMAIN tree
    BY <1>1, <1>4
  <2>3. /\ tree[n] \in [loc : Nat, len : Nat] /\ tree[n].loc \in Nat /\ tree[n].len \in Nat
    BY <2>2, RawType
  <2>4. tree[n].len = 0 /\ from = NextSeparator(tree[n].loc)
    BY <2>2, <2>3, <1>2, <1>4
  <2>5. from - 1 > tree[n].loc
    <3>1. tree[n].loc \in Starts /\ ~Empty(tree[n].loc)
      BY <2>2 DEF TreeInv
    <3> QED BY <3>1, <2>4, NotEmpty
  <2> DEFINE l == from - 1 - tree[n].loc
  <2>6. l \in Nat /\ l > 0 /\ tree[n].loc + l = from - 1
    BY <2>3, <2>5, <1>1
  <2> HIDE DEF l
  <2> DEFINE r == [tree[n] EXCEPT !.len = l]
  <2>7. r \in [loc : Nat, len : Nat] /\ r.loc = tree[n].loc /\ r.len = l
    BY <2>3, <2>6
  <2>8. u = [tree EXCEPT ![n] = r]
    BY <2>1 DEF l
  <2> HIDE DEF r
  <2>9. /\ u \in Seq([loc : Nat, len : Nat]) /\ Len(u) = n /\ DOMAIN u = DOMAIN tree
        /\ u[n] = r /\ \A k \in DOMAIN tree : k # n => u[k] = tree[k]
    <3> DEFINE Raw == [loc : Nat, len : Nat]
    <3>1. tree \in Seq(Raw) /\ r \in Raw
      BY <1>1, <2>7
    <3> HIDE DEF Raw
    <3>2. /\ u \in Seq(Raw) /\ Len(u) = n /\ DOMAIN u = DOMAIN tree
          /\ u[n] = r /\ \A k \in DOMAIN tree : k # n => u[k] = tree[k]
      BY <3>1, <2>2, <2>8
    <3> QED BY <3>2 DEF Raw
  <2>10. ASSUME NEW k \in DOMAIN tree
         PROVE  /\ u[k].loc = tree[k].loc /\ u[k].len > 0
                /\ u[k].loc + u[k].len = NextSeparator(tree[k].loc) - 1
    <3>1. CASE k = n
      BY <3>1, <2>4, <2>6, <2>7, <2>9
    <3>2. CASE k # n
      BY <3>2, <2>9, <1>2
    <3> QED BY <3>1, <3>2
  <2> QED BY <2>9, <2>10
<1> QED BY <1>3, <1>4

\* A concatenation, element by element.
LEMMA Joined ==
  ASSUME NEW S, NEW s \in Seq(S), NEW t \in Seq(S)
  PROVE  /\ s \o t \in Seq(S) /\ Len(s \o t) = Len(s) + Len(t)
         /\ \A k \in 1 .. Len(s) : (s \o t)[k] = s[k]
         /\ \A k \in Len(s) + 1 .. Len(s) + Len(t) : (s \o t)[k] = t[k - Len(s)]
OBVIOUS

\* One element more at the end of a sequence.
LEMMA OneMore ==
  ASSUME NEW S, NEW s \in Seq(S), NEW e \in S
  PROVE  /\ s \o <<e>> \in Seq(S) /\ Len(s \o <<e>>) = Len(s) + 1
         /\ (s \o <<e>>)[Len(s) + 1] = e
         /\ \A k \in 1 .. Len(s) : (s \o <<e>>)[k] = s[k]
         /\ DOMAIN (s \o <<e>>) = 1 .. Len(s) + 1
<1> DEFINE o == <<e>>
<1>1. o \in Seq(S) /\ Len(o) = 1 /\ o[1] = e
  OBVIOUS
<1> HIDE DEF o
<1>2. /\ s \o o \in Seq(S) /\ Len(s \o o) = Len(s) + Len(o)
      /\ \A k \in 1 .. Len(s) : (s \o o)[k] = s[k]
      /\ \A k \in Len(s) + 1 .. Len(s) + Len(o) : (s \o o)[k] = o[k - Len(s)]
  BY <1>1, Joined
<1>3. Len(s) \in Nat
  OBVIOUS
<1>4. Len(s) + 1 \in Len(s) + 1 .. Len(s) + Len(o) /\ Len(s) + 1 - Len(s) = 1
  BY <1>1, <1>3
<1>5. (s \o o)[Len(s) + 1] = e
  BY <1>1, <1>2, <1>4
<1>6. DOMAIN (s \o o) = 1 .. Len(s) + 1
  BY <1>1, <1>2
<1> QED BY <1>1, <1>2, <1>5, <1>6 DEF o

\* A reduction of stmtmulti.
LEMMA ReduceStep ==
  ASSUME TypeOK, TreeInv, Reduce, input' = input PROVE TreeInv'
<1> DEFINE u == UpdateRawStmtEnd(tree)
<1> DEFINE n == NextSeparator(from)
<1> DEFINE more == IF Empty(from) THEN <<>> ELSE <<[loc |-> from, len |-> 0]>>
<1>1. /\ parsed = "run" /\ Parses /\ tree' = u \o more /\ from' = n
      /\ parsed' = IF n > Len(input) THEN "tree" ELSE "run"
      /\ from \in Starts /\ from \in Nat /\ from <= Len(input)
  BY SeparatorsType DEF Reduce, Empty, TreeInv
<1>2. /\ u \in Seq([loc : Nat, len : Nat]) /\ Len(u) = Len(tree) /\ DOMAIN u = DOMAIN tree
      /\ \A k \in DOMAIN tree :
           /\ u[k].loc = tree[k].loc /\ u[k].len > 0
           /\ u[k].loc + u[k].len = NextSeparator(tree[k].loc) - 1
  BY <1>1, Updated
<1>3. /\ n \in Separators /\ n > from /\ n \in Nat /\ n <= Len(input) + 1
      /\ \A k \in Separators : k > from => n <= k
  BY <1>1, NextIs
<1>4. /\ {tree[k].loc : k \in DOMAIN tree} = {s \in Starts : s < from /\ ~Empty(s)}
      /\ \A k, l \in DOMAIN tree : k < l => tree[k].loc < tree[l].loc
      /\ Len(tree) \in Nat /\ DOMAIN tree = 1 .. Len(tree)
  BY <1>1 DEF TreeInv
<1>5. \A k \in DOMAIN tree : tree[k].loc < from /\ tree[k].loc \in Nat
  BY <1>4, RawType
<1>6. {s \in Starts : s < n /\ ~Empty(s)}
        = {s \in Starts : s < from /\ ~Empty(s)} \cup (IF Empty(from) THEN {} ELSE {from})
  <2>1. ASSUME NEW s \in Starts PROVE s < n <=> s < from \/ s = from
    <3>1. s \in Nat /\ (s = 0 \/ s \in Separators)
      BY SeparatorsType
    <3>2. CASE s > from
      BY <3>1, <3>2, <1>1, <1>3
    <3>3. CASE s <= from
      BY <3>1, <3>3, <1>1, <1>3
    <3> QED BY <3>1, <3>2, <3>3, <1>1
  <2> HIDE DEF n
  <2>2. CASE Empty(from)
    BY <2>1, <2>2
  <2>3. CASE ~Empty(from)
    <3>1. from \in {s \in Starts : s < n /\ ~Empty(s)}
      BY <2>1, <2>3, <1>1
    <3> QED BY <3>1, <2>1, <2>3
  <2> QED BY <2>2, <2>3
<1>7. parsed' = "run" => n \in Starts
  BY <1>1, <1>3 DEF Starts
<1>8. parsed' \in {"run", "tree"} /\ (parsed' = "tree" => n = Len(input) + 1)
  BY <1>1, <1>3, SeparatorsType
<1> HIDE DEF u, n, more
<1>9. /\ tree' \in Seq([loc : Nat, len : Nat])
      /\ {tree'[k].loc : k \in DOMAIN tree'} = {s \in Starts : s < n /\ ~Empty(s)}
      /\ \A k, l \in DOMAIN tree' : k < l => tree'[k].loc < tree'[l].loc
      /\ \A k \in DOMAIN tree' :
           \/ /\ tree'[k].loc + tree'[k].len = NextSeparator(tree'[k].loc) - 1
              /\ tree'[k].len > 0
           \/ k = Len(tree') /\ tree'[k].len = 0 /\ n = NextSeparator(tree'[k].loc)
  <2>1. CASE Empty(from)
    <3>1. tree' = u
      BY <2>1, <1>1, <1>2 DEF more
    <3>2. \A k \in DOMAIN tree' : k \in DOMAIN tree /\ tree'[k].loc = tree[k].loc
      BY <3>1, <1>2
    <3>3. {tree'[k].loc : k \in DOMAIN tree'} = {tree[k].loc : k \in DOMAIN tree}
      BY <3>1, <1>2
    <3>4. {s \in Starts : s < n /\ ~Empty(s)} = {s \in Starts : s < from /\ ~Empty(s)}
      BY <2>1, <1>6
    <3>5. \A k, l \in DOMAIN tree' : k < l => tree'[k].loc < tree'[l].loc
      BY <3>2, <1>4
    <3>6. \A k \in DOMAIN tree' :
            /\ tree'[k].loc + tree'[k].len = NextSeparator(tree'[k].loc) - 1
            /\ tree'[k].len > 0
      BY <3>1, <3>2, <1>2
    <3> QED BY <3>1, <3>3, <3>4, <3>5, <3>6, <1>2, <1>4
  <2>2. CASE ~Empty(from)
    <3> DEFINE Raw == [loc : Nat, len : Nat]
    <3> DEFINE r == [loc |-> from, len |-> 0]
    <3> DEFINE m == Len(tree) + 1
    <3>1. r \in Raw /\ r.loc = from /\ r.len = 0 /\ u \in Seq(Raw)
      BY <1>1, <1>2
    <3> HIDE DEF Raw, r
    <3>2. tree' = u \o <<r>>
      BY <2>2, <1>1 DEF more, r
    <3>3. /\ tree' \in Seq(Raw) /\ Len(tree') = m /\ tree'[m] = r /\ m \in Nat
          /\ DOMAIN tree' = DOMAIN tree \cup {m} /\ \A k \in DOMAIN tree : k < m
          /\ \A k \in DOMAIN tree : tree'[k] = u[k]
      <4>1. /\ u \o <<r>> \in Seq(Raw) /\ Len(u \o <<r>>) = Len(u) + 1
            /\ (u \o <<r>>)[Len(u) + 1] = r
            /\ \A k \in 1 .. Len(u) : (u \o <<r>>)[k] = u[k]
            /\ DOMAIN (u \o <<r>>) = 1 .. Len(u) + 1
        BY <3>1, OneMore
      <4>2. Len(u) = Len(tree) /\ Len(tree) \in Nat /\ DOMAIN tree = 1 .. Len(tree)
        BY <1>2, <1>4
      <4> QED BY <4>1, <4>2, <3>2
    <3>4. tree'[m].loc = from /\ tree'[m].len = 0
      BY <3>1, <3>3
    <3> HIDE DEF m
    <3>5. \A k \in DOMAIN tree : tree'[k].loc = tree[k].loc /\ k # m /\ k \in Nat
      BY <3>3, <1>2, <1>4
    <3>6. {tree'[k].loc : k \in DOMAIN tree'} = {tree[k].loc : k \in DOMAIN tree} \cup {from}
      BY <3>3, <3>4, <3>5
    <3>7. {s \in Starts : s < n /\ ~Empty(s)} = {s \in Starts : s < from /\ ~Empty(s)} \cup {from}
      BY <2>2, <1>6
    <3>8. ASSUME NEW k \in DOMAIN tree', NEW l \in DOMAIN tree', k < l
          PROVE  tree'[k].loc < tree'[l].loc
      <4>1. k \in DOMAIN tree
        <5> SUFFICES ASSUME k = m PROVE FALSE
          BY <3>3
        <5>1. l = m \/ l < m
          BY <3>3
        <5>2. l \in Nat
          BY <3>3, <3>5
        <5> QED BY <5>1, <5>2, <3>3, <3>8
      <4>2. CASE l \in DOMAIN tree
        BY <4>1, <4>2, <3>5, <3>8, <1>4
      <4>3. CASE l = m
        BY <4>1, <4>3, <3>4, <3>5, <1>5
      <4> QED BY <4>2, <4>3, <3>3
    <3>9. ASSUME NEW k \in DOMAIN tree'
          PROVE  \/ /\ tree'[k].loc + tree'[k].len = NextSeparator(tree'[k].loc) - 1
                    /\ tree'[k].len > 0
                 \/ k = Len(tree') /\ tree'[k].len = 0 /\ n = NextSeparator(tree'[k].loc)
      <4>1. CASE k \in DOMAIN tree
        BY <4>1, <3>3, <3>5, <1>2
      <4>2. CASE k = m
        BY <4>2, <3>3, <3>4 DEF n
      <4> QED BY <4>1, <4>2, <3>3
    <3>10. {tree'[k].loc : k \in DOMAIN tree'} = {s \in Starts : s < n /\ ~Empty(s)}
      BY <3>6, <3>7, <1>4
    <3> QED BY <3>3, <3>8, <3>9, <3>10 DEF Raw
  <2> QED BY <2>1, <2>2
<1> QED BY <1>1, <1>7, <1>8, <1>9, SameForParser DEF TreeInv

\* The other steps.
LEMMA NextTreeInv == ASSUME TypeOK, TreeInv, [ParserNext]_<<vars, parser>> PROVE TreeInv'
<1>1. input' = input
  <2>1. UNCHANGED vars => input' = input
    BY DEF vars
  <2> QED BY <2>1, InputKept DEF ParserNext
<1>2. CASE Reduce
  BY <1>1, <1>2, ReduceStep
<1>3. CASE SyntaxError
  BY <1>3, SeparatorsType DEF SyntaxError, TreeInv
<1>4. CASE UNCHANGED parser
  <2>1. from' = from /\ tree' = tree /\ parsed' = parsed
    BY <1>4 DEF parser
  <2> QED BY <1>1, <2>1, SameForParser DEF TreeInv
<1> QED BY <1>2, <1>3, <1>4 DEF ParserNext

\* Nothing is reduced yet.
LEMMA InitTreeInv == ParserInit => IInv /\ FInv /\ TreeInv
<1> SUFFICES ASSUME ParserInit PROVE IInv /\ FInv /\ TreeInv
  OBVIOUS
<1>1. IInv /\ FInv
  BY InitIInv, InitFInv DEF ParserInit
<1>2. from = 0 /\ tree = <<>> /\ parsed = "run"
  BY DEF ParserInit
<1>3. \A s \in Starts : s \in Nat
  BY <1>1, SeparatorsType DEF IInv
<1>4. {s \in Starts : s < from /\ ~Empty(s)} = {}
  BY <1>2, <1>3
<1>5. {tree[k].loc : k \in DOMAIN tree} = {}
  BY <1>2
<1>6. 0 \in Starts
  BY DEF Starts
<1> QED BY <1>1, <1>2, <1>4, <1>5, <1>6 DEF TreeInv

-----------------------------------------------------------------------------
(* The two agree.                                                            *)

Span == [loc : Nat, len : Int]
Rising(n, f) == \A k, l \in 1 .. n : k < l => f[k].loc < f[l].loc

\* Of two lists of spans in order, that hold the same ones, each begins with the other.
LEMMA OneBegins ==
  ASSUME NEW m \in Nat, NEW n \in Nat, NEW f \in [1 .. m -> Span], NEW g \in [1 .. n -> Span],
         Rising(m, f), Rising(n, g),
         \A k \in 1 .. m : \E l \in 1 .. n : f[k] = g[l],
         \A l \in 1 .. n : \E k \in 1 .. m : g[l] = f[k]
  PROVE  \A k \in 1 .. m : k <= n /\ f[k] = g[k]
<1> DEFINE B == {k \in 1 .. m : ~(k <= n /\ f[k] = g[k])}
<1> SUFFICES ASSUME B # {} PROVE FALSE
  OBVIOUS
<1>1. B \in SUBSET Nat
  OBVIOUS
<1>2. PICK k \in B : \A j \in B : k <= j
  BY <1>1, LeastNat
<1>3. k \in 1 .. m /\ k \in Nat /\ ~(k <= n /\ f[k] = g[k])
  OBVIOUS
<1>4. \A j \in 1 .. m : j < k => j <= n /\ f[j] = g[j]
  <2> TAKE j \in 1 .. m
  <2> HAVE j < k
  <2>1. ~(k <= j)
    BY <1>3
  <2>2. j \notin B
    BY <2>1, <1>2
  <2> QED BY <2>2
<1> HIDE DEF B
<1>5. PICK l \in 1 .. n : f[k] = g[l]
  BY <1>3
<1>6. /\ \A i \in 1 .. m : f[i].loc \in Nat
      /\ \A i \in 1 .. n : g[i].loc \in Nat
  BY DEF Span
<1>7. ~(l < k)
  <2> SUFFICES ASSUME l < k PROVE FALSE
    OBVIOUS
  <2>1. l \in 1 .. m
    BY <1>3
  <2>2. f[l] = g[l] /\ f[l].loc < f[k].loc
    BY <2>1, <1>3, <1>4 DEF Rising
  <2>3. f[k].loc = g[l].loc /\ f[l].loc = g[l].loc
    BY <2>2, <1>5
  <2>4. f[l].loc < f[l].loc /\ f[l].loc \in Nat
    BY <2>1, <2>2, <2>3, <1>6
  <2> DEFINE x == f[l].loc
  <2>5. x < x /\ x \in Nat
    BY <2>4
  <2> HIDE DEF x
  <2> QED BY <2>5
<1>8. k <= n /\ l > k
  BY <1>3, <1>5, <1>7, SMTT(30)
<1>9. k \in 1 .. n /\ g[k].loc < g[l].loc
  BY <1>3, <1>8 DEF Rising
<1>10. PICK i \in 1 .. m : g[k] = f[i]
  BY <1>9
<1>11. i < k
  <2> SUFFICES ASSUME i >= k PROVE FALSE
    BY <1>3
  <2>1. f[i].loc < f[k].loc
    BY <1>5, <1>9, <1>10
  <2> DEFINE x == f[i].loc
  <2> DEFINE y == f[k].loc
  <2>4. x \in Nat /\ y \in Nat /\ x < y
    BY <2>1, <1>3, <1>6
  <2>2. CASE i = k
    <3>1. x = y
      BY <2>2
    <3> HIDE DEF x, y
    <3> QED BY <3>1, <2>4
  <2>3. CASE i > k
    <3>1. y < x
      BY <2>3, <1>3 DEF Rising
    <3> HIDE DEF x, y
    <3> QED BY <3>1, <2>4
  <2> QED BY <2>2, <2>3, <1>3
<1>12. i \in 1 .. n /\ f[i] = g[i] /\ g[i].loc < g[k].loc
  <2>1. i <= n /\ f[i] = g[i]
    BY <1>11, <1>4
  <2>2. i \in 1 .. n
    BY <2>1
  <2> QED BY <2>1, <2>2, <1>9, <1>11 DEF Rising
<1> DEFINE x == g[k].loc
<1>13. g[i].loc = x
  BY <1>10, <1>12
<1>14. x < x /\ x \in Nat
  BY <1>6, <1>9, <1>12, <1>13
<1> HIDE DEF x
<1> QED BY <1>14

\* What the parser returned.
LEMMA ParserPlaces ==
  ASSUME TypeOK, TreeInv, parsed = "tree"
  PROVE  /\ Parses
         /\ SplitWithParser \in [1 .. Len(tree) -> Span] /\ Rising(Len(tree), SplitWithParser)
         /\ Len(tree) \in Nat /\ DOMAIN tree = 1 .. Len(tree)
         /\ \A k \in DOMAIN tree :
              /\ SplitWithParser[k].loc \in Starts /\ ~Empty(SplitWithParser[k].loc)
              /\ SplitWithParser[k].loc + SplitWithParser[k].len
                   = NextSeparator(SplitWithParser[k].loc) - 1
         /\ \A s \in Starts : ~Empty(s) => \E k \in DOMAIN tree : SplitWithParser[k].loc = s
<1>1. /\ Parses /\ from = Len(input) + 1 /\ Len(input) \in Nat
      /\ tree \in Seq([loc : Nat, len : Nat])
      /\ {tree[k].loc : k \in DOMAIN tree} = {s \in Starts : s < from /\ ~Empty(s)}
      /\ \A k, l \in DOMAIN tree : k < l => tree[k].loc < tree[l].loc
      /\ \A k \in DOMAIN tree :
           \/ tree[k].loc + tree[k].len = NextSeparator(tree[k].loc) - 1 /\ tree[k].len > 0
           \/ k = Len(tree) /\ tree[k].len = 0 /\ from = NextSeparator(tree[k].loc)
  BY SeparatorsType DEF TreeInv
<1>2. Len(tree) \in Nat /\ DOMAIN tree = 1 .. Len(tree)
  BY <1>1
<1>3. \A k \in DOMAIN tree :
        /\ SplitWithParser[k] = [loc |-> tree[k].loc, len |-> StmtLen(tree[k])]
        /\ SplitWithParser[k].loc = tree[k].loc /\ SplitWithParser[k].len = StmtLen(tree[k])
  BY DEF SplitWithParser
<1>4. ASSUME NEW k \in DOMAIN tree
      PROVE  /\ tree[k].loc \in Nat /\ StmtLen(tree[k]) \in Int
             /\ tree[k].loc + StmtLen(tree[k]) = NextSeparator(tree[k].loc) - 1
  <2>1. tree[k].loc \in Nat /\ tree[k].len \in Nat
    BY RawType
  <2>2. CASE tree[k].len > 0
    <3>1. StmtLen(tree[k]) = tree[k].len
      BY <2>1, <2>2 DEF StmtLen
    <3> QED BY <3>1, <2>1, <2>2, <1>1
  <2>3. CASE tree[k].len = 0
    <3>1. StmtLen(tree[k]) = Len(input) - tree[k].loc
      BY <2>3 DEF StmtLen
    <3>2. from = NextSeparator(tree[k].loc)
      BY <2>1, <2>3, <1>1
    <3>3. Len(input) - tree[k].loc \in Int
          /\ tree[k].loc + (Len(input) - tree[k].loc) = Len(input)
          /\ Len(input) = from - 1
      BY <2>1, <1>1, SMTT(30)
    <3> QED BY <3>1, <3>2, <3>3, <2>1
  <2> QED BY <2>1, <2>2, <2>3
<1>5. SplitWithParser \in [1 .. Len(tree) -> Span]
  <2>1. \A k \in DOMAIN tree : [loc |-> tree[k].loc, len |-> StmtLen(tree[k])] \in Span
    BY <1>4 DEF Span
  <2> QED BY <2>1, <1>2 DEF SplitWithParser
<1>6. Rising(Len(tree), SplitWithParser)
  BY <1>1, <1>2, <1>3 DEF Rising
<1>7. ASSUME NEW k \in DOMAIN tree
      PROVE  tree[k].loc \in Starts /\ ~Empty(tree[k].loc)
  BY <1>1
<1>8. ASSUME NEW s \in Starts, ~Empty(s) PROVE \E k \in DOMAIN tree : tree[k].loc = s
  <2>1. s < from
    BY <1>1, SeparatorsType
  <2>2. s \in {tree[k].loc : k \in DOMAIN tree}
    BY <2>1, <1>1, <1>8
  <2> QED BY <2>2
<1> QED BY <1>1, <1>2, <1>3, <1>4, <1>5, <1>6, <1>7, <1>8

\* Every separator is a terminator, and without BEGIN ATOMIC every terminator is one.
LEMMA SeparatorsAreCuts ==
  ASSUME TypeOK, Parses
  PROVE  /\ Separators \subseteq Cuts
         /\ (\A i \in DOMAIN input : input[i] # "atomic") => Cuts = Separators
<1>1. /\ Len(input) \in Nat /\ DOMAIN input = 1 .. Len(input)
      /\ \A i \in 1 .. Len(input) : input[i] \in Tokens
  BY DEF TypeOK
<1>2. Depth(Len(input) + 1) = 0 /\ Token(Len(input) + 1) = EOF
  BY <1>1 DEF Parses, Token
<1>3. \A i \in 1 .. Len(input) : Token(i) = input[i] /\ input[i] # EOF
  <2>1. EOF \notin Tokens
    BY DEF Tokens, Keywords, EOF
  <2> QED BY <2>1, <1>1 DEF Token
<1>4. Len(input) + 1 \in Cuts
  <2>1. Len(input) + 1 \in 1 .. Len(input) + 1
    BY <1>1
  <2>2. EOF \in {";", EOF}
    OBVIOUS
  <2> QED BY <2>1, <2>2, <1>2 DEF Cuts
<1>5. \A i \in 1 .. Len(input) : i \in Cuts <=> input[i] = ";" /\ Depth(i) = 0
  <2> TAKE i \in 1 .. Len(input)
  <2>1. i \in 1 .. Len(input) + 1
    BY <1>1
  <2> QED BY <2>1, <1>3 DEF Cuts
<1>6. Separators \subseteq Cuts
  BY <1>4, <1>5 DEF Separators
<1>7. ASSUME \A i \in DOMAIN input : input[i] # "atomic"
      PROVE  Cuts \subseteq Separators
  <2>1. ASSUME NEW i \in 1 .. Len(input) PROVE ~InBody(i)
    <3>1. \A j \in 1 .. i - 1 : j \in DOMAIN input
      BY <1>1
    <3> QED BY <3>1, <1>7 DEF InBody
  <2>2. \A i \in Cuts : i \in 1 .. Len(input) \/ i = Len(input) + 1
    BY CutsType
  <2> QED BY <2>1, <2>2, <1>5 DEF Separators
<1> QED BY <1>6, <1>7

\* The places of the scanner's statements, one by one.
LEMMA ScannerPlaces ==
  ASSUME IInv, FInv, pass = 3, Parses
  PROVE  /\ \A k \in DOMAIN stmts : \E c \in Statements :
              stmts[k].loc = Start(c) /\ stmts[k].loc + stmts[k].len = c - 1
         /\ \A c \in Statements : \E k \in DOMAIN stmts :
              stmts[k].loc = Start(c) /\ stmts[k].loc + stmts[k].len = c - 1
<1>1. ~error
  <2>1. \A i \in DOMAIN input : i \in 1 .. Len(input)
    BY DEF IInv, TypeOK
  <2> QED BY <2>1 DEF FInv, FoundSoFar, Parses
<1>2. Places = {<<Start(c), c - 1>> : c \in Statements}
  BY <1>1, FoundAtEnd DEF StatementsFound, Places
<1>3. ASSUME NEW k \in DOMAIN stmts
      PROVE  \E c \in Statements :
               stmts[k].loc = Start(c) /\ stmts[k].loc + stmts[k].len = c - 1
  <2>1. <<stmts[k].loc, stmts[k].loc + stmts[k].len>> \in Places
    BY DEF Places
  <2> QED BY <2>1, <1>2
<1>4. ASSUME NEW c \in Statements
      PROVE  \E k \in DOMAIN stmts :
               stmts[k].loc = Start(c) /\ stmts[k].loc + stmts[k].len = c - 1
  <2>1. <<Start(c), c - 1>> \in Places
    BY <1>2
  <2> QED BY <2>1 DEF Places
<1> QED BY <1>3, <1>4

\* Without BEGIN ATOMIC the two lists are the same.
LEMMA AgreeWithoutBody ==
  ASSUME IInv, FInv, TreeInv, pass = 3, parsed = "tree",
         \A i \in DOMAIN input : input[i] # "atomic"
  PROVE  stmts = SplitWithParser
<1>1. TypeOK /\ Parses /\ Cuts = Separators
  BY ParserPlaces, SeparatorsAreCuts DEF IInv
<1> DEFINE m == Len(stmts)
<1> DEFINE n == Len(tree)
<1> DEFINE w == SplitWithParser
<1>2. /\ n \in Nat /\ DOMAIN tree = 1 .. n /\ w \in [1 .. n -> Span] /\ Rising(n, w)
      /\ \A k \in 1 .. n : /\ w[k].loc \in Starts /\ ~Empty(w[k].loc)
                           /\ w[k].loc + w[k].len = NextSeparator(w[k].loc) - 1
      /\ \A s \in Starts : ~Empty(s) => \E k \in 1 .. n : w[k].loc = s
  BY <1>1, ParserPlaces
<1>3. /\ m \in Nat /\ DOMAIN stmts = 1 .. m /\ stmts \in [1 .. m -> Span]
      /\ \A k \in 1 .. m : stmts[k].loc \in Nat /\ stmts[k].len \in Int
  <2>1. stmts \in Seq(Span)
    BY DEF IInv, TypeOK, Span
  <2>2. m \in Nat /\ DOMAIN stmts = 1 .. m /\ stmts \in [1 .. m -> Span]
    BY <2>1
  <2> QED BY <2>2, <1>1, StmtType
<1> HIDE DEF m, n, w
<1>4. Rising(m, stmts)
  <2> SUFFICES ASSUME NEW k \in 1 .. m, NEW l \in 1 .. m, k < l
               PROVE  stmts[k].loc < stmts[l].loc
    BY DEF Rising
  <2>1. stmts[k].len > 0 /\ stmts[k].loc + stmts[k].len < stmts[l].loc
    BY <1>3 DEF IInv, Spans, SpansOrdered
  <2> QED BY <2>1, <1>3
<1>5. \A k \in 1 .. n : w[k].loc \in Nat /\ w[k].len \in Int
  BY <1>2 DEF Span
<1>6. \A a, b \in Span : a.loc = b.loc /\ a.loc + a.len = b.loc + b.len => a = b
  <2> TAKE a, b \in Span
  <2>1. /\ a = [loc |-> a.loc, len |-> a.len] /\ b = [loc |-> b.loc, len |-> b.len]
        /\ a.loc \in Nat /\ a.len \in Int /\ b.loc \in Nat /\ b.len \in Int
    BY DEF Span
  <2> HAVE a.loc = b.loc /\ a.loc + a.len = b.loc + b.len
  <2>2. a.len = b.len
    BY <2>1
  <2> QED BY <2>1, <2>2
<1>7. ASSUME NEW s \in Starts, ~Empty(s)
      PROVE  NextSeparator(s) \in Statements /\ Start(NextSeparator(s)) = s
  <2>1. /\ s \in Nat /\ s <= Len(input) /\ (s = 0 \/ s \in Separators) /\ Len(input) \in Nat
    BY <1>1, SeparatorsType
  <2> DEFINE c == NextSeparator(s)
  <2>2. /\ c \in Cuts /\ c > s /\ c \in Nat /\ \A k \in Cuts : k > s => c <= k
    BY <2>1, <1>1, NextIs
  <2>3. \A i \in s + 1 .. c - 1 : i \notin Cuts
    BY <2>1, <2>2
  <2>4. Start(c) = s
    BY <2>1, <2>2, <2>3, <1>1, StartIs
  <2>5. Words(s) \cap Keywords # {}
    <3>1. s \in ({0} \cup Separators) \ {Len(input) + 1}
      BY <2>1
    <3> QED BY <3>1, <1>1, <1>7 DEF Parses, Empty
  <2>6. \E i \in s + 1 .. c - 1 : input[i] \in Keywords
    BY <2>5 DEF Words
  <2> HIDE DEF c
  <2>7. c \in Statements
    BY <2>2, <2>4, <2>6 DEF Statements
  <2> QED BY <2>4, <2>7 DEF c
<1>8. ASSUME NEW c \in Statements
      PROVE  Start(c) \in Starts /\ ~Empty(Start(c)) /\ NextSeparator(Start(c)) = c
  <2>1. c \in Cuts /\ \E i \in Start(c) + 1 .. c - 1 : input[i] \in Keywords
    BY DEF Statements
  <2>2. /\ Start(c) \in Nat /\ Start(c) < c /\ (Start(c) = 0 \/ Start(c) \in Cuts)
        /\ \A i \in Start(c) + 1 .. c - 1 : i \notin Cuts
    BY <2>1, <1>1, StartOf
  <2>3. c \in Nat /\ c <= Len(input) + 1 /\ Len(input) \in Nat
    BY <2>1, <1>1, CutsType
  <2>4. Start(c) <= Len(input) /\ Start(c) \in Starts
    BY <2>2, <2>3, <1>1 DEF Starts
  <2> DEFINE s == Start(c)
  <2> DEFINE d == NextSeparator(s)
  <2>5. d \in Cuts /\ d > s /\ d <= c /\ d \in Nat
    BY <2>1, <2>2, <2>4, <1>1, NextIs
  <2>6. d = c
    <3> SUFFICES ASSUME d < c PROVE FALSE
      BY <2>3, <2>5
    <3>1. d \in s + 1 .. c - 1
      BY <2>2, <2>3, <2>5
    <3> QED BY <3>1, <2>2, <2>5
  <2>7. ~Empty(s)
    <3>1. PICK i \in s + 1 .. c - 1 : input[i] \in Keywords
      BY <2>1
    <3>2. input[i] \in Words(s)
      BY <3>1, <2>6 DEF Words
    <3>3. "blank" \notin Keywords
      BY DEF Keywords
    <3> QED BY <3>1, <3>2, <3>3 DEF Empty
  <2> QED BY <2>4, <2>6, <2>7
<1>9. \A k \in 1 .. m : \E l \in 1 .. n : stmts[k] = w[l]
  <2> TAKE k \in 1 .. m
  <2>1. PICK c \in Statements : stmts[k].loc = Start(c) /\ stmts[k].loc + stmts[k].len = c - 1
    BY <1>1, <1>3, ScannerPlaces
  <2>2. PICK l \in 1 .. n : w[l].loc = Start(c)
    BY <1>2, <1>8
  <2>3. w[l].loc + w[l].len = c - 1
    BY <2>2, <1>2, <1>8
  <2>4. stmts[k] \in Span /\ w[l] \in Span
    BY <1>2, <1>3
  <2> QED BY <2>1, <2>2, <2>3, <2>4, <1>6
<1>10. \A l \in 1 .. n : \E k \in 1 .. m : w[l] = stmts[k]
  <2> TAKE l \in 1 .. n
  <2> DEFINE c == NextSeparator(w[l].loc)
  <2>1. c \in Statements /\ Start(c) = w[l].loc /\ w[l].loc + w[l].len = c - 1
    BY <1>2, <1>7
  <2> HIDE DEF c
  <2>2. PICK k \in 1 .. m : stmts[k].loc = Start(c) /\ stmts[k].loc + stmts[k].len = c - 1
    BY <2>1, <1>1, <1>3, ScannerPlaces
  <2>3. stmts[k] \in Span /\ w[l] \in Span
    BY <1>2, <1>3
  <2> QED BY <2>1, <2>2, <2>3, <1>6
<1>11. m \in Nat /\ n \in Nat /\ stmts \in [1 .. m -> Span] /\ w \in [1 .. n -> Span]
  BY <1>2, <1>3
<1>12. Rising(m, stmts) /\ Rising(n, w)
  BY <1>2, <1>3, <1>4
<1>13. \A k \in 1 .. m : k <= n /\ stmts[k] = w[k]
  <2> HIDE DEF m, n, w
  <2> QED BY <1>11, <1>12, <1>9, <1>10, OneBegins
<1>14. \A l \in 1 .. n : l <= m /\ w[l] = stmts[l]
  <2> HIDE DEF m, n, w
  <2>1. Rising(n, w) /\ Rising(m, stmts)
    BY <1>12
  <2>2. w \in [1 .. n -> Span] /\ stmts \in [1 .. m -> Span] /\ n \in Nat /\ m \in Nat
    BY <1>11
  <2> QED BY <2>1, <2>2, <1>9, <1>10, OneBegins
<1>15. m = n
  <2>1. m <= n
    BY <1>2, <1>3, <1>13
  <2>2. n <= m
    BY <1>2, <1>3, <1>14
  <2> QED BY <2>1, <2>2, <1>2, <1>3
<1>16. stmts = w
  BY <1>2, <1>3, <1>13, <1>15
<1> QED BY <1>16 DEF w

\* With BEGIN ATOMIC the scanner only splits further.
LEMMA AgreeWithBody ==
  ASSUME IInv, FInv, TreeInv, pass = 3, parsed = "tree", NEW k \in DOMAIN stmts
  PROVE  \E s \in {SplitWithParser[l] : l \in DOMAIN tree} :
           s.loc <= stmts[k].loc /\ stmts[k].loc + stmts[k].len <= s.loc + s.len
<1>1. TypeOK /\ Parses /\ Separators \subseteq Cuts
  BY ParserPlaces, SeparatorsAreCuts DEF IInv
<1>2. PICK c \in Statements : stmts[k].loc = Start(c) /\ stmts[k].loc + stmts[k].len = c - 1
  BY <1>1, ScannerPlaces
<1>3. c \in Cuts /\ \E i \in Start(c) + 1 .. c - 1 : input[i] \in Keywords
  BY DEF Statements
<1>4. /\ Start(c) \in Nat /\ Start(c) < c
      /\ \A i \in Start(c) + 1 .. c - 1 : i \notin Cuts
  BY <1>1, <1>3, StartOf
<1>5. c \in Nat /\ c <= Len(input) + 1 /\ Len(input) \in Nat
  BY <1>1, <1>3, CutsType
<1> DEFINE T == {x \in Starts : x <= Start(c)}
<1>6. T \in SUBSET (0 .. Start(c)) /\ 0 \in T
  <2>1. \A x \in Starts : x \in Nat
    BY <1>1, SeparatorsType
  <2>2. 0 \in Starts
    BY DEF Starts
  <2> QED BY <2>1, <2>2, <1>4
<1>7. PICK s \in T : \A x \in T : x <= s
  BY <1>4, <1>6, GreatestNat
<1>8. s \in Starts /\ s <= Start(c) /\ s \in Nat /\ s <= Len(input)
  BY <1>1, SeparatorsType
<1> DEFINE n == NextSeparator(s)
<1>9. n \in Separators /\ n > s /\ n \in Nat /\ n \in Cuts
  BY <1>1, <1>8, NextIs
<1> HIDE DEF n
<1>10. n >= c
  <2> SUFFICES ASSUME n < c PROVE FALSE
    BY <1>5, <1>9
  <2>1. n \notin Start(c) + 1 .. c - 1
    BY <1>4, <1>9
  <2>2. n <= Start(c)
    BY <2>1, <1>4, <1>5, <1>9
  <2>3. n \in Starts
    BY <1>5, <1>9 DEF Starts
  <2>4. n <= s
    BY <2>2, <2>3, <1>7
  <2> QED BY <2>4, <1>8, <1>9
<1>11. ~Empty(s)
  <2>1. PICK i \in Start(c) + 1 .. c - 1 : input[i] \in Keywords
    BY <1>3
  <2>2. i \in s + 1 .. n - 1
    BY <1>4, <1>5, <1>8, <1>9, <1>10
  <2>3. input[i] \in Words(s)
    BY <2>2 DEF Words, n
  <2>4. "blank" \notin Keywords
    BY DEF Keywords
  <2> QED BY <2>1, <2>3, <2>4 DEF Empty
<1>12. PICK l \in DOMAIN tree : SplitWithParser[l].loc = s
  BY <1>1, <1>8, <1>11, ParserPlaces
<1>13. SplitWithParser[l].loc + SplitWithParser[l].len = n - 1
  BY <1>1, <1>12, ParserPlaces DEF n
<1>14. c - 1 <= n - 1
  BY <1>5, <1>9, <1>10
<1> QED BY <1>2, <1>8, <1>12, <1>13, <1>14

-----------------------------------------------------------------------------

\* The second pass stays in step with the first, on every input.
THEOREM Invariance == Spec => []IInv
<1>1. IInv /\ [Next]_vars => IInv'
  BY CountStep, AllocateStep, FillStep, LexErrorStep, ReturnStep, StutterStep DEF Next
<1> QED BY InitIInv, <1>1, PTL DEF Spec

\* The second pass never writes past the array that the first one sized.
THEOREM ArraySuffices == Spec => []FitsArray
<1>1. ASSUME IInv PROVE FitsArray
  <2> USE <1>1 DEF IInv
  <2>1. CASE pass = 2
    <3>1. /\ Len(stmts) = Before(counts, pos) /\ pos \in Nat /\ pos <= Len(counts)
          /\ room = n_stmts /\ n_stmts \in Nat
      BY <2>1 DEF SecondPass, TypeOK
    <3>2. pos # 0 => counts[pos] <= n_stmts
      BY <3>1 DEF History, Remembered
    <3> QED BY <2>1, <3>1, <3>2 DEF FitsArray, Before
  <2>2. CASE pass = 3
    BY <2>2 DEF Returned, FitsArray, TypeOK
  <2>3. CASE pass = 1
    BY <2>3 DEF FitsArray
  <2> QED BY <2>1, <2>2, <2>3 DEF TypeOK
<1> QED BY <1>1, Invariance, PTL

\* Whatever pg_query_free_split_result frees has been set, after a lexer error too.
THEOREM FreeIsSafe == Spec => []FreeSafe
<1>1. IInv => FreeSafe
  BY DEF IInv, Returned, FreeSafe
<1> QED BY <1>1, Invariance, PTL

\* The statements are disjoint, in order, inside the input and not empty.
THEOREM SpansAreOrdered == Spec => []SpansOrdered
<1>1. IInv => SpansOrdered
  BY DEF IInv, Spans
<1> QED BY <1>1, Invariance, PTL

\* The statements found are the statements of the input, at every step.
THEOREM FoundInvariance == Spec => []FInv
<1>1. IInv /\ FInv /\ [Next]_vars => FInv'
  BY FillFound, OtherFound DEF Next
<1> QED BY InitFInv, <1>1, Invariance, PTL DEF Spec

\* For an input of any length the result is its statements, in order.
THEOREM StatementsAreFound == Spec => []StatementsFound
<1>1. IInv /\ FInv => StatementsFound
  BY FoundAtEnd
<1> QED BY <1>1, Invariance, FoundInvariance, PTL

\* What holds of the scanner holds of it next to the parser too.
THEOREM ParserInvariance == ParserSpec => [](IInv /\ FInv /\ TreeInv)
<1>1. IInv /\ [ParserNext]_<<vars, parser>> => IInv'
  <2>1. IInv /\ [Next]_vars => IInv'
    BY CountStep, AllocateStep, FillStep, LexErrorStep, ReturnStep, StutterStep DEF Next
  <2>2. [ParserNext]_<<vars, parser>> => [Next]_vars
    BY DEF ParserNext
  <2> QED BY <2>1, <2>2
<1>2. IInv /\ FInv /\ [ParserNext]_<<vars, parser>> => FInv'
  <2>1. [ParserNext]_<<vars, parser>> => [Next]_vars
    BY DEF ParserNext
  <2> QED BY <2>1, FillFound, OtherFound DEF Next
<1>3. IInv /\ TreeInv /\ [ParserNext]_<<vars, parser>> => TreeInv'
  BY NextTreeInv DEF IInv
<1> QED BY <1>1, <1>2, <1>3, InitTreeInv, PTL DEF ParserSpec

\* On every input that parses the scanner and the parser split alike, but for the
\* bodies of BEGIN ATOMIC, which the scanner splits further.
THEOREM SplitsAgreeTheorem == ParserSpec => []SplitsAgree
<1>1. IInv /\ FInv /\ TreeInv => SplitsAgree
  BY AgreeWithoutBody, AgreeWithBody DEF SplitsAgree
<1> QED BY <1>1, ParserInvariance, PTL
=============================================================================
