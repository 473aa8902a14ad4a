---------------------------- MODULE SplitParser ----------------------------
(***************************************************************************)
(* pg_query_split_with_parser on the input that Split scans: the reductions  *)
(* of stmtmulti, which give each RawStmt its location and length, and what   *)
(* the call makes of them. To the grammar the semicolons of a BEGIN ATOMIC   *)
(* ... END body are part of the statement.                                   *)
(***************************************************************************)
EXTENDS Split

VARIABLES
  from,    \* where the statement being parsed begins
  tree,    \* the list of RawStmts reduced so far
  parsed   \* "run", then "tree", or "error" when tree is NULL

parser == <<from, tree, parsed>>

InBody(i) ==
  \E j \in 1 .. i - 1 : /\ input[j] = "atomic"
                        /\ \A k \in j + 1 .. i - 1 : input[k] # "end"

\* The semicolons that separate statements in stmtmulti, and the end of the input.
Separators ==
  {i \in 1 .. Len(input) : input[i] = ";" /\ Depth(i) = 0 /\ ~InBody(i)} \cup {Len(input) + 1}
NextSeparator(i) == CHOOSE j \in Separators : j > i /\ \A k \in Separators : k > i => j <= k
Words(i) == {input[j] : j \in i + 1 .. NextSeparator(i) - 1}

\* Whether the grammar can accept the input: every statement has a keyword and closes
\* what it opens.
Parses ==
  /\ \A i \in 1 .. Len(input) : input[i] # "bad" /\ Depth(i) >= 0
  /\ Depth(Len(input) + 1) = 0 /\ ~InBody(Len(input) + 1)
  /\ \A i \in ({0} \cup Separators) \ {Len(input) + 1} :
       Words(i) \subseteq {"blank"} \/ Words(i) \cap Keywords # {}

ParserInit == Init /\ from = 0 /\ tree = <<>> /\ parsed = "run"


\* Mutant: the length of a statement is updated at every semicolon after it.
UpdateEveryEnd(t) ==
  IF t = <<>> THEN t ELSE [t EXCEPT ![Len(t)].len = from - 1 - t[Len(t)].loc]

\* updateRawStmtEnd of the last statement, at the semicolon before this one.
UpdateRawStmtEnd(t) ==
  IF t = <<>> \/ t[Len(t)].len > 0
  THEN t
  ELSE [t EXCEPT ![Len(t)].len = from - 1 - t[Len(t)].loc]

\* An empty statement is NULL and adds nothing.
Reduce ==
  /\ parsed = "run" /\ Parses
  /\ tree' = UpdateRawStmtEnd(tree)
               \o (IF Words(from) \subseteq {"blank"} THEN <<>> ELSE <<[loc |-> from, len |-> 0]>>)
  /\ from' = NextSeparator(from)
  /\ parsed' = IF NextSeparator(from) > Len(input) THEN "tree" ELSE "run"

SyntaxError ==
  /\ parsed = "run" /\ ~Parses
  /\ parsed' = "error" /\ tree' = <<>>
  /\ UNCHANGED from

\* A length of 0 is the rest of the input.
StmtLen(raw) == IF raw.len = 0 THEN Len(input) - raw.loc ELSE raw.len

SplitWithParser == [k \in DOMAIN tree |-> [loc |-> tree[k].loc, len |-> StmtLen(tree[k])]]

ParserNext ==
  \/ pass = 3 /\ (Reduce \/ SyntaxError) /\ UNCHANGED vars
  \/ Next /\ UNCHANGED parser

ParserSpec == ParserInit /\ [][ParserNext]_<<vars, parser>>

\* Where the input parses, the scanner finds the same statements as the parser; it
\* only splits a statement with a BEGIN ATOMIC body further.
SplitsAgree ==
  pass = 3 /\ parsed = "tree" =>
    IF \A i \in DOMAIN input : input[i] # "atomic"
    THEN stmts = SplitWithParser
    ELSE \A k \in DOMAIN stmts : \E s \in {SplitWithParser[l] : l \in DOMAIN tree} :
           s.loc <= stmts[k].loc /\ stmts[k].loc + stmts[k].len <= s.loc + s.len
=============================================================================
