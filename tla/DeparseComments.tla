--------------------------- MODULE DeparseComments ---------------------------
(***************************************************************************)
(* pg_query_deparse_comments_for_query, which takes the comments out of a    *)
(* query, and pg_query_deparse_protobuf_opts, which puts them back while it  *)
(* deparses the parse tree of the same query. Every token and line break is  *)
(* one character at the location of its index, less one; white space within  *)
(* a line is left out. A "node" is a token whose expression carries its      *)
(* location into the deparser: a constant, a column, the name of a CTE. A    *)
(* "word" is any other: a keyword, an operator, the name of a table, which   *)
(* is printed without a look at the comments. What is printed is only told   *)
(* apart by its location, and pretty_print is off.                           *)
(***************************************************************************)
EXTENDS Integers, Sequences, FiniteSets

CONSTANTS
  MaxLen,  \* bound: characters in the query
  Breaks   \* the characters that end a line for the lexer: "newline" and "return"

ASSUME DeparseCommentsAssumption == MaxLen \in Nat /\ Breaks \subseteq {"newline", "return"}

VARIABLES
  query,
  pos,                     \* the token looked at last
  prior_token_was_comment, prior_non_comment_end, prior_token_end,
  comments,                \* result.comments; a number of newlines is the set of them
  phase,                   \* "scan", "begin", "emit", "visit" or "done"
  stmt_location,           \* of the statement that is deparsed
  location,                \* the location that comments are looked up for
  visited,                 \* nodes of the statement printed so far
  emitted_comments,
  output                   \* <<"comment", i>>, <<"newline", 0>>, <<"text", location>> for
                           \* a node or the start of a statement, <<"word", location>>

prior == <<prior_token_was_comment, prior_non_comment_end, prior_token_end>>
scan == <<pos, prior, comments>>
state == <<stmt_location, location, visited, emitted_comments>>
vars == <<query, scan, phase, state, output>>

CommentTokens == {"line", "block"}
Tokens == CommentTokens \cup {"node", "word", ";"}

TypeOK ==
  /\ query \in Seq(Tokens \cup Breaks)
  /\ pos \in Nat /\ prior_non_comment_end \in Nat /\ prior_token_end \in Nat
  /\ prior_token_was_comment \in BOOLEAN
  /\ comments \in Seq([at : 1 .. Len(query), match_location : Nat,
                       before : SUBSET (1 .. Len(query)), after : SUBSET (1 .. Len(query))])
  /\ phase \in {"scan", "begin", "emit", "visit", "done"}
  /\ stmt_location \in Int /\ location \in Int
  /\ visited \subseteq 1 .. Len(query)
  /\ emitted_comments \subseteq DOMAIN comments
  /\ output \in Seq({"comment", "newline", "text", "word"} \X Int)

-----------------------------------------------------------------------------
(* The query, as the lexer and the grammar see it.                           *)

TokenAfter(p) ==
  LET later == {q \in p + 1 .. Len(query) : query[q] \in Tokens}
  IN  IF later = {} THEN Len(query) + 1 ELSE CHOOSE q \in later : \A r \in later : q <= r

\* Statements, each by its stmt_location: the end of the semicolon in front of it.
Within(s, p) == \A r \in s + 1 .. p : query[r] # ";"
Stmts == {s \in {0} \cup {p \in 1 .. Len(query) : query[p] = ";"} :
            \E p \in s + 1 .. Len(query) : query[p] = "word" /\ Within(s, p)}
Nodes(s) == {p \in s + 1 .. Len(query) : query[p] = "node" /\ Within(s, p)}

\* The words but for the first, which is printed as the start of the statement.
Words(s) == {p \in s + 2 .. Len(query) :
               query[p] = "word" /\ Within(s, p) /\ \E q \in s + 1 .. p - 1 : query[q] = "word"}

\* A line comment extends to the end of its line, a statement begins with a word.
Parses ==
  /\ \A p \in DOMAIN query : query[p] = "line" /\ p < Len(query) => query[p + 1] \in Breaks
  /\ \A p \in DOMAIN query : query[p] = "node" =>
       \E q \in 1 .. p - 1 : query[q] = "word" /\ Within(q, p)

InitOn(q) ==
  /\ query = q
  /\ pos = 0 /\ prior_token_was_comment = FALSE
  /\ prior_non_comment_end = 0 /\ prior_token_end = 0
  /\ comments = <<>> /\ phase = "scan"
  /\ stmt_location = -1 /\ location = 0 /\ visited = {} /\ emitted_comments = {}
  /\ output = <<>>

Init == \E n \in 0 .. MaxLen : \E q \in [1 .. n -> Tokens \cup Breaks] : InitOn(q) /\ Parses

-----------------------------------------------------------------------------
(* pg_query_deparse_comments_for_query.                                      *)

Newlines(from, to) == {p \in from + 1 .. to : query[p] = "newline"}


\* Mutant: newlines before a comment are counted after a comment too.
BeforeAlways(tok) == Newlines(prior_token_end, tok - 1)

\* After a comment they have been counted as newlines after that one.
NewlinesBefore(tok) ==
  IF prior_token_was_comment THEN {} ELSE Newlines(prior_token_end, tok - 1)


\* Mutant: newlines after a comment are counted in front of code only.
AfterUnlessComment(tok) ==
  IF TokenAfter(tok) <= Len(query) /\ query[TokenAfter(tok)] \notin CommentTokens
  THEN Newlines(tok, TokenAfter(tok) - 1) ELSE {}

NewlinesAfter(tok) ==
  IF TokenAfter(tok) <= Len(query) THEN Newlines(tok, TokenAfter(tok) - 1) ELSE {}

\* Mutant: a comment behind another one is placed behind that one, not behind the code.
LastToken == prior_token_end

MatchLocation == prior_non_comment_end

Comment ==
  LET tok == TokenAfter(pos)
  IN  /\ phase = "scan" /\ tok <= Len(query) /\ query[tok] \in CommentTokens
      /\ comments' = Append(comments,
           [at |-> tok, match_location |-> MatchLocation,
            before |-> NewlinesBefore(tok), after |-> NewlinesAfter(tok)])
      /\ pos' = tok /\ prior_token_end' = tok /\ prior_token_was_comment' = TRUE
      /\ UNCHANGED <<query, prior_non_comment_end, phase, state, output>>

OtherToken ==
  LET tok == TokenAfter(pos)
  IN  /\ phase = "scan" /\ tok <= Len(query) /\ query[tok] \notin CommentTokens
      /\ pos' = tok /\ prior_token_end' = tok
      /\ prior_non_comment_end' = tok /\ prior_token_was_comment' = FALSE
      /\ UNCHANGED <<query, comments, phase, state, output>>

Scanned ==
  /\ phase = "scan" /\ TokenAfter(pos) > Len(query)
  /\ phase' = "begin"
  /\ UNCHANGED <<query, scan, state, output>>

-----------------------------------------------------------------------------
(* pg_query_deparse_protobuf_opts: deparseRawStmtOpts for each statement.    *)

Later == {s \in Stmts : s > stmt_location}


\* Mutant: comments of the statements before this one are not filtered out.
NoneBefore(s) == {}

\* Mutant: a comment at the start of the statement is filtered out with them.
PlacedUpTo(s) == {i \in DOMAIN comments : comments[i].match_location <= s}

\* "Filter out comments that are placed before this statement starts"
PlacedBefore(s) == {i \in DOMAIN comments : comments[i].match_location < s}

DeparseRawStmt ==
  /\ phase = "begin"
  /\ \E s \in Later :
       /\ \A t \in Later : s <= t
       /\ stmt_location' = s /\ location' = s
       /\ emitted_comments' = PlacedBefore(s)
  /\ visited' = {} /\ phase' = "emit"
  /\ UNCHANGED <<query, scan, output>>

\* What deparseAppendCommentsIfNeeded(state, location) has still to emit.
Reached == {i \in DOMAIN comments \ emitted_comments : comments[i].match_location <= location}

Repeat(n) == [k \in 1 .. n |-> <<"newline", 0>>]

EmitComment ==
  /\ phase = "emit"
  /\ \E i \in Reached :
       /\ \A j \in Reached : i <= j
       /\ output' = output \o Repeat(Cardinality(comments[i].before))
                      \o <<<<"comment", i>>>> \o Repeat(Cardinality(comments[i].after))
       /\ emitted_comments' = emitted_comments \cup {i}
  /\ UNCHANGED <<query, scan, phase, stmt_location, location, visited>>

EmitText ==
  /\ phase = "emit" /\ Reached = {}
  /\ output' = Append(output, <<"text", location>>)
  /\ phase' = "visit"
  /\ UNCHANGED <<query, scan, state>>

\* The deparser comes to its nodes in an order of its own: deparseAConst,
\* deparseColumnRef, deparseCommonTableExpr.
VisitNode ==
  /\ phase = "visit"
  /\ \E p \in Nodes(stmt_location) \ visited :
       location' = p - 1 /\ visited' = visited \cup {p}
  /\ phase' = "emit"
  /\ UNCHANGED <<query, scan, stmt_location, emitted_comments, output>>

\* The words and table names of the statement, each at most once and among the nodes in any
\* order: deparseSelectStmt, deparseRangeVar. Some are not printed again.
PrintWord ==
  /\ phase = "visit"
  /\ \E p \in Words(stmt_location) :
       /\ \A a \in DOMAIN output : output[a] # <<"word", p - 1>>
       /\ output' = Append(output, <<"word", p - 1>>)
  /\ UNCHANGED <<query, scan, phase, state>>

StmtEnds ==
  /\ phase = "visit" /\ visited = Nodes(stmt_location)
  /\ phase' = "begin"
  /\ UNCHANGED <<query, scan, state, output>>

Done ==
  /\ phase = "begin" /\ Later = {}
  /\ phase' = "done"
  /\ UNCHANGED <<query, scan, state, output>>

Next ==
  \/ Comment \/ OtherToken \/ Scanned
  \/ DeparseRawStmt \/ EmitComment \/ EmitText \/ VisitNode \/ PrintWord \/ StmtEnds
  \/ Done

Spec == Init /\ [][Next]_vars

-----------------------------------------------------------------------------
(* Correctness.                                                              *)

IsComment(a) == output[a][1] = "comment"
IsText(a) == output[a][1] = "text"

\* "Comments will only be output at most once" over all statements, and in the order
\* of the query, in whatever order the deparser comes to the nodes.
CommentsOnceInOrder ==
  \A a, b \in DOMAIN output :
    IsComment(a) /\ IsComment(b) /\ a < b => output[a][2] < output[b][2]

\* Code, a semicolon included, that begins behind location l and ends at or before p.
CodeBetween(l, p) == \E q \in l + 1 .. p : query[q] \in Tokens \ CommentTokens

\* The node or statement b printed right behind the comment a: only comments in between.
PrintedBehind(a, b) ==
  /\ a < b /\ IsText(b)
  /\ \A c \in a + 1 .. b - 1 : ~IsText(c)

\* A comment comes back in front of a node of its own statement, or of the statement, that
\* it stood in front of, with no word of other code in between; and of the nodes printed
\* before it, each stood in front of it. Words, and names of tables, have no such place: a
\* comment behind "a" in "SELECT a FROM x WHERE b" goes in front of "b" (best effort,
\* postgres_deparse.c:172-177).
CommentsInFront ==
  \A a \in DOMAIN output : IsComment(a) =>
    LET p == comments[output[a][2]].at
    IN  /\ \A b \in 1 .. a - 1 : IsText(b) => CodeBetween(output[b][2], p)
        /\ \A b \in DOMAIN output : PrintedBehind(a, b) =>
             /\ ~CodeBetween(output[b][2], p) /\ Within(p, output[b][2])
             /\ \A c \in a + 1 .. b - 1 : output[c][1] # "word"

\* The comments put back are those for which a statement that begins at or before the
\* code in front of them goes on, with a node, behind them.
EmittedWhenReached ==
  phase = "done" =>
    {output[a][2] : a \in {b \in DOMAIN output : IsComment(b)}}
      = {i \in DOMAIN comments :
           \E s \in Stmts : /\ s <= comments[i].match_location
                            /\ \E l \in {s} \cup {p - 1 : p \in Nodes(s)} :
                                 comments[i].match_location <= l}

\* A newline next to a comment is counted for one comment, as one before it or one
\* after it, and none is left out between the code on both sides of comments.
NewlinesOnce ==
  phase # "scan" =>
    /\ \A i \in DOMAIN comments : comments[i].before \cap comments[i].after = {}
    /\ \A i, j \in DOMAIN comments : i # j =>
         (comments[i].before \cup comments[i].after)
           \cap (comments[j].before \cup comments[j].after) = {}
    /\ \A p \in 1 .. Len(query) : \A i \in DOMAIN comments :
         /\ query[p] = "newline"
         /\ \A q \in comments[i].match_location + 1 .. p :
              query[q] \in CommentTokens \cup {"newline", "return"}
         /\ p > comments[i].match_location
         /\ TokenAfter(p) <= Len(query)
         => \E j \in DOMAIN comments : p \in comments[j].before \cup comments[j].after

\* In the output too a line comment is the last thing on its line, so that it does not
\* swallow the code that follows it.
LineCommentsEnd ==
  \A a \in DOMAIN output :
    IsComment(a) /\ query[comments[output[a][2]].at] = "line" =>
      a < Len(output) /\ output[a + 1][1] = "newline"
=============================================================================
