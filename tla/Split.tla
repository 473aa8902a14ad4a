------------------------------- MODULE Split -------------------------------
(***************************************************************************)
(* pg_query_split_with_scanner: two passes of the lexer over the input, the  *)
(* first to count the statements and allocate the result array, the second   *)
(* to fill it in. A token stands at the location of its index, less one; a   *)
(* "blank" is anything the passes skip: white space, comments, literals,     *)
(* identifiers, operators. "bad" is where the lexer raises an error. ATOMIC  *)
(* and the END of its body are keywords to the lexer.                        *)
(***************************************************************************)
EXTENDS Integers, Sequences, FiniteSets

CONSTANT MaxLen  \* bound: tokens in the input

ASSUME SplitAssumption == MaxLen \in Nat

VARIABLES
  input,      \* the tokens
  pass,       \* 1 and 2; 3 when the call has returned
  pos,        \* tokens lexed in this pass
  keyword,    \* keyword_before_terminator
  parens,     \* open_parens; a size_t, but only ever compared with 0
  n_stmts,    \* result.n_stmts
  room,       \* entries of result.stmts, -1 while it is NULL
  stmts,      \* the entries set so far: curstmt is their number
  stmtstart,
  error,      \* result.error is set
  counts,     \* history: n_stmts after each token of pass 1
  depths,     \* history: open_parens after each token of pass 1
  marks       \* history: the tokens of pass 1 after which keyword is set

scan == <<pos, keyword, parens>>
result == <<n_stmts, room, stmts, stmtstart, error>>
history == <<counts, depths, marks>>
vars == <<input, pass, scan, result, history>>

Keywords == {"keyword", "atomic", "end"}
Tokens == Keywords \cup {"(", ")", ";", "blank", "bad"}
EOF == "eof"

Token(i) == IF i <= Len(input) THEN input[i] ELSE EOF

\* What core_yylex returns next, and where (yylloc).
tok == Token(pos + 1)
yylloc == pos

TypeOK ==
  /\ input \in Seq(Tokens) /\ pass \in 1 .. 3 /\ pos \in Nat
  /\ keyword \in BOOLEAN /\ parens \in Int
  /\ n_stmts \in Nat /\ room \in Int /\ stmtstart \in Nat /\ error \in BOOLEAN
  /\ stmts \in Seq([loc : Nat, len : Int])
  /\ counts \in Seq(Nat) /\ depths \in Seq(Int) /\ marks \subseteq Nat

InitOn(i) ==
  /\ input = i
  /\ pass = 1 /\ pos = 0 /\ keyword = FALSE /\ parens = 0
  /\ n_stmts = 0 /\ room = -1 /\ stmts = <<>> /\ stmtstart = 0 /\ error = FALSE
  /\ counts = <<>> /\ depths = <<>> /\ marks = {}

Init == \E n \in 0 .. MaxLen : \E i \in [1 .. n -> Tokens] : InitOn(i)

Terminator == tok = ";" \/ tok = EOF
Terminates == keyword /\ parens = 0 /\ Terminator

\* What a token does to open_parens.
Change(t) == IF t = "(" THEN 1 ELSE IF t = ")" THEN -1 ELSE 0

\* The flags after this token.
Flags ==
  /\ keyword' = (tok \in Keywords \/ (keyword /\ ~Terminates))
  /\ parens' = parens + Change(tok)

\* core_yylex raises an error: the catch block leaves stmts and n_stmts alone.
LexError ==
  /\ pass < 3 /\ tok = "bad"
  /\ error' = TRUE /\ pass' = 3
  /\ UNCHANGED <<input, scan, n_stmts, room, stmts, stmtstart, history>>

Count ==
  /\ pass = 1 /\ pos <= Len(input) /\ tok # "bad"
  /\ Flags
  /\ n_stmts' = IF Terminates THEN n_stmts + 1 ELSE n_stmts
  /\ counts' = Append(counts, n_stmts') /\ depths' = Append(depths, parens')
  /\ marks' = IF keyword' THEN marks \cup {pos + 1} ELSE marks
  /\ pos' = pos + 1
  /\ UNCHANGED <<input, pass, room, stmts, stmtstart, error>>


\* Mutant: the flags of the first pass are kept.
AllocateKeepingFlags ==
  /\ pass = 1 /\ pos = Len(input) + 1
  /\ room' = n_stmts /\ pass' = 2 /\ pos' = 0
  /\ UNCHANGED <<input, keyword, parens, n_stmts, stmts, stmtstart, error, history>>

\* The end of the first pass.
Allocate ==
  /\ pass = 1 /\ pos = Len(input) + 1
  /\ room' = n_stmts
  /\ pass' = 2 /\ pos' = 0 /\ keyword' = FALSE /\ parens' = 0
  /\ UNCHANGED <<input, n_stmts, stmts, stmtstart, error, history>>


\* Mutant: a statement that the end of the input ends is not added.
AddAtSemicolon ==
  IF Terminates /\ tok = ";"
  THEN stmts' = Append(stmts, [loc |-> stmtstart, len |-> yylloc - stmtstart])
  ELSE UNCHANGED stmts

Add ==
  IF Terminates
  THEN stmts' = Append(stmts, [loc |-> stmtstart, len |-> yylloc - stmtstart])
  ELSE UNCHANGED stmts


\* Mutant: empty statements are not skipped.
AdvanceAfterStmt == stmtstart' = IF Terminates THEN yylloc + 1 ELSE stmtstart


\* Mutant: the next statement starts at the terminator.
AdvanceTooLittle ==
  stmtstart' = IF Terminates \/ (parens = 0 /\ tok = ";") THEN yylloc ELSE stmtstart

\* The statement start also advances over an empty statement.
Advance ==
  stmtstart' = IF Terminates \/ (parens = 0 /\ tok = ";") THEN yylloc + 1 ELSE stmtstart

Fill ==
  /\ pass = 2 /\ pos <= Len(input) /\ tok # "bad"
  /\ Flags /\ Add /\ Advance
  /\ pos' = pos + 1
  /\ UNCHANGED <<input, pass, n_stmts, room, error, history>>

Return ==
  /\ pass = 2 /\ pos = Len(input) + 1
  /\ pass' = 3
  /\ UNCHANGED <<input, scan, result, history>>

Next == LexError \/ Count \/ Allocate \/ Fill \/ Return

Spec == Init /\ [][Next]_vars

-----------------------------------------------------------------------------
(* Correctness.                                                              *)

\* The second pass never writes an entry the first did not make room for.
FitsArray == pass > 1 /\ room >= 0 => Len(stmts) <= room

\* pg_query_free_split_result frees n_stmts entries of an array that is not NULL: on
\* every return, after an error too, each of them has been set.
FreeSafe == pass = 3 /\ room >= 0 => Len(stmts) = n_stmts /\ room = n_stmts

\* The statements are in order, lie in the input, hold at least a token and leave at
\* least the terminator between them.
SpansOrdered ==
  /\ \A k \in DOMAIN stmts :
       stmts[k].len > 0 /\ stmts[k].loc + stmts[k].len <= Len(input)
  /\ \A k, l \in DOMAIN stmts : k < l => stmts[k].loc + stmts[k].len < stmts[l].loc

\* The parentheses open before token i.
Depth(i) ==
  LET Seen(c) == {j \in 1 .. i - 1 : input[j] = c}
  IN  Cardinality(Seen("(")) - Cardinality(Seen(")"))

\* What a statement is: the tokens between two terminators outside parentheses, if
\* there is a keyword among them. A segment is given by the terminator that ends it.
Cuts == {i \in 1 .. Len(input) + 1 : Token(i) \in {";", EOF} /\ Depth(i) = 0}
Start(c) == LET before == {i \in Cuts : i < c}
            IN  IF before = {} THEN 0 ELSE CHOOSE i \in before : \A j \in before : j <= i
Statements == {c \in Cuts : \E i \in Start(c) + 1 .. c - 1 : input[i] \in Keywords}

\* The result is these statements, each with its place in the input.
StatementsFound ==
  pass = 3 /\ ~error =>
    /\ {<<s.loc, s.loc + s.len>> : s \in {stmts[k] : k \in DOMAIN stmts}}
         = {<<Start(c), c - 1>> : c \in Statements}
    /\ \A k, l \in DOMAIN stmts : k < l => stmts[k].loc < stmts[l].loc
=============================================================================
