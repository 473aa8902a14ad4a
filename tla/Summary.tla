------------------------------ MODULE Summary ------------------------------
(***************************************************************************)
(* pg_query_summary_internal: the walk that collects relations, CTE names,   *)
(* functions and filter columns (pg_query_summary.c), then the truncation of *)
(* the same tree (pg_query_summary_truncate.c). The calls of the recursive   *)
(* walk that are still to make are on a stack. A tree has up to MaxStmts     *)
(* statements; a statement refers to one relation, has one column in its     *)
(* target list and may have one condition f(column) in its WHERE clause.     *)
(* Wording is abstracted: a text is the sequence of its characters' widths   *)
(* in bytes. Some kinds of statements stand for others: see Kinds. Schema    *)
(* names and pg_query_summary_statement_walk are left out.                   *)
(***************************************************************************)
EXTENDS Integers, SequencesExt

CONSTANTS
  Names,    \* names of relations and CTEs
  Limits,   \* values of truncate_limit that are not negative
  Distinct, \* statements, by number, that have a DISTINCT if they are a SELECT
  MaxStmts  \* bound: statements in a tree

ASSUME SummaryAssumption ==
  Names # {} /\ Limits \subseteq Nat /\ Distinct \subseteq Nat /\ MaxStmts \in Nat

VARIABLES
  tree,           \* what the parser returned: statements, a parent before its children
  todo,           \* calls of the walker that are still to make, the next one first
  save_filter_columns,
  range_vars,     \* statements whose relation is still to look up in cte_names
  cte_names,      \* statements that are CTE queries; their names
  functions,      \* statements whose f() was added
  filter_columns, \* columns added, each by its statement and place
  tables,         \* statements whose relation was added, and the context
  aliases,        \* statements whose relation's alias was added
  limit,          \* truncate_limit
  truncations,    \* possible truncations not yet applied
  cut,            \* truncations applied
  output,         \* the query text, truncated so far
  pc

walk == <<todo, save_filter_columns, range_vars, cte_names, functions, filter_columns>>
truncation == <<truncations, cut, output>>
vars == <<tree, walk, tables, aliases, limit, truncation, pc>>

NoTruncation == -1

\* A SELECT of the two arms of a set operation and one of VALUES are kinds of their own.
\* ViewStmt is CREATE TABLE AS, too, ExplainStmt also PREPARE and COPY of a query, CopyStmt
\* is COPY of a table, and IndexStmt, without a condition, any DDL on one relation.
Queries == {"SelectStmt", "SetOperation", "ValuesStmt"}
Changes == {"UpdateStmt", "InsertStmt", "DeleteStmt"}
Wrappers == {"ViewStmt", "ExplainStmt", "IndexStmt", "CopyStmt"}
Kinds == Queries \cup Changes \cup Wrappers

\* The condition of an INSERT is that of its ON CONFLICT.
WithRelation == Kinds \ {"SetOperation", "ValuesStmt", "ExplainStmt"}
WithCondition == WithRelation \ {"ViewStmt"}
WithTargets == {"SelectStmt", "ValuesStmt", "UpdateStmt", "InsertStmt"}
NoName == "none"

Parts == {"target", "from", "where", "cte", "query"}

\* Where a statement's own condition is among those of its WHERE clause.
Conditions == {"none", "first", "last"}

NodeType == [kind : Kinds, parent : 0 .. MaxStmts, part : Parts, rel : Names \cup {NoName},
             cte : Names \cup {NoName}, cond : Conditions,
             children : [Parts -> Seq(1 .. MaxStmts)]]

Statements == DOMAIN tree
Children(s, p) == tree[s].children[p]

\* The parts of a statement in the order raw_expression_tree_walker takes them; those of
\* the wrappers are walked by the summary itself, and of a COPY none.
PartsOf(kind) ==
  CASE kind = "SelectStmt"   -> <<"target", "from", "where", "cte">>
    [] kind = "SetOperation" -> <<"cte", "query">>
    [] kind = "ValuesStmt"   -> <<"target", "cte">>
    [] kind = "UpdateStmt"   -> <<"target", "where", "from", "cte">>
    [] kind = "InsertStmt"   -> <<"query", "where", "cte">>
    [] kind = "DeleteStmt"   -> <<"from", "where", "cte">>
    [] kind = "IndexStmt"    -> <<"where">>
    [] kind = "CopyStmt"     -> <<>>
    [] kind \in {"ViewStmt", "ExplainStmt"} -> <<"query">>

QueriesIn(kind) ==
  IF "query" \notin ToSet(PartsOf(kind)) THEN 0 ELSE IF kind = "SetOperation" THEN 2 ELSE 1

-----------------------------------------------------------------------------
(* The parser: every tree of up to MaxStmts statements, children in order.   *)

Init ==
  /\ tree = <<>> /\ todo = <<>> /\ save_filter_columns = FALSE
  /\ range_vars = <<>> /\ cte_names = <<>> /\ functions = <<>> /\ filter_columns = <<>>
  /\ tables = <<>> /\ aliases = <<>>
  /\ limit = NoTruncation
  /\ truncations = {} /\ cut = {} /\ output = <<>>
  /\ pc = "parse"

\* A statement in place p of a statement of this kind: data-modifying ones only in WITH
\* and EXPLAIN.
FitsIn(node) ==
  IF node.parent = 0 THEN node.part = "query"
  ELSE LET outer == tree[node.parent]
           last == tree[Len(tree)]
           place(p) == CHOOSE i \in DOMAIN PartsOf(outer.kind) : PartsOf(outer.kind)[i] = p
       IN  /\ node.part \in ToSet(PartsOf(outer.kind))
           /\ node.kind \in Queries
                \cup IF node.part = "cte" \/ outer.kind = "ExplainStmt" THEN Changes ELSE {}
           /\ node.part = "query" =>
                Len(Children(node.parent, "query")) < QueriesIn(outer.kind)
           /\ last.parent <= node.parent
           /\ last.parent = node.parent => place(last.part) <= place(node.part)

ParseNode ==
  /\ pc = "parse" /\ Len(tree) < MaxStmts
  /\ \E kind \in Kinds, p \in Parts, cond \in Conditions, rel, cte \in Names \cup {NoName},
        parent \in IF tree = <<>> THEN {0} ELSE Statements :
       LET node == [kind |-> kind, parent |-> parent, part |-> p, rel |-> rel,
                    cte |-> cte, cond |-> cond, children |-> [q \in Parts |-> <<>>]]
           above == IF parent = 0 THEN tree
                    ELSE [tree EXCEPT ![parent].children[p] = Append(@, Len(tree) + 1)]
       IN  /\ FitsIn(node)
           /\ rel # NoName <=> kind \in WithRelation
           /\ cte # NoName <=> p = "cte"
           /\ kind \notin WithCondition => cond = "none"
           /\ tree' = Append(above, node)
  /\ UNCHANGED <<walk, tables, aliases, limit, truncation, pc>>

Parsed ==
  /\ pc = "parse" /\ tree # <<>>
  /\ \A s \in Statements :
       /\ Len(Children(s, "query")) = QueriesIn(tree[s].kind)
       /\ tree[s].cond = "last" => Children(s, "where") # <<>>
  /\ todo' = <<<<"stmt", 1>>>>
  /\ pc' = "walk"
  /\ UNCHANGED <<tree, save_filter_columns, range_vars, cte_names, functions, filter_columns,
                 tables, aliases, limit, truncation>>

-----------------------------------------------------------------------------
(* The walk: pg_query_summary_walk_impl and raw_expression_tree_walker.      *)

Calls(s, p) == [i \in DOMAIN Children(s, p) |->
                  <<IF p = "cte" THEN "cte" ELSE "stmt", Children(s, p)[i]>>]

\* The conditions of a WHERE clause, in the order written.
WhereClause(s) ==
  (IF tree[s].cond = "first" THEN <<<<"cond", s>>>> ELSE <<>>) \o Calls(s, "where")
    \o (IF tree[s].cond = "last" THEN <<<<"cond", s>>>> ELSE <<>>)

WalkPart(s, p) ==
  IF p = "where" THEN WhereClause(s)
  ELSE (IF p = "target" THEN <<<<"target", s>>>> ELSE <<>>) \o Calls(s, p)

RawWalk(s) ==
  LET parts == PartsOf(tree[s].kind)
      part(i) == IF i \in DOMAIN parts THEN WalkPart(s, parts[i]) ELSE <<>>
  IN  part(1) \o part(2) \o part(3) \o part(4)

Call == todo[1]
Walks(what) == pc = "walk" /\ todo # <<>> /\ Call[1] = what

\* return true: every caller up to the one that started the pass returns true as well.
Aborted == SubSeq(todo, CHOOSE i \in DOMAIN todo :
                          todo[i][1] = "saved" /\ \A j \in 1 .. i - 1 : todo[j][1] # "saved",
                  Len(todo))

\* Mutant: the pass that saves filter columns descends into sub-SELECTs.
NeverStops(s) == FALSE

Stops(s) == tree[s].kind \in Queries /\ save_filter_columns

\* A SELECT walks its WHERE clause once more, ahead of the rest, to save filter columns.
SavesColumns(s) == tree[s].kind = "SelectStmt" /\ WhereClause(s) # <<>>

VisitStmt ==
  /\ Walks("stmt")
  /\ LET s == Call[2] IN
     IF Stops(s)
     THEN todo' = Aborted /\ UNCHANGED <<save_filter_columns, range_vars>>
     ELSE /\ range_vars' = IF tree[s].kind \in WithRelation THEN Append(range_vars, s)
                           ELSE range_vars
          /\ IF SavesColumns(s)
             THEN /\ save_filter_columns' = TRUE
                  /\ todo' = WhereClause(s) \o <<<<"saved", s>>>> \o RawWalk(s) \o Tail(todo)
             ELSE /\ todo' = RawWalk(s) \o Tail(todo)
                  /\ UNCHANGED save_filter_columns
  /\ UNCHANGED <<tree, cte_names, functions, filter_columns, tables, aliases, limit,
                 truncation, pc>>

\* Mutant: the flag stays set after the pass.
SavedKeepingFlag == Walks("saved") /\ UNCHANGED save_filter_columns

Saved == Walks("saved") /\ save_filter_columns' = FALSE

WhereSaved ==
  /\ Saved
  /\ todo' = Tail(todo)
  /\ UNCHANGED <<tree, range_vars, cte_names, functions, filter_columns, tables, aliases,
                 limit, truncation, pc>>

VisitCommonTableExpr ==
  /\ Walks("cte")
  /\ cte_names' = Append(cte_names, Call[2])
  /\ todo' = <<<<"stmt", Call[2]>>>> \o Tail(todo)
  /\ UNCHANGED <<tree, save_filter_columns, range_vars, functions, filter_columns, tables,
                 aliases, limit, truncation, pc>>

\* A column of the target list, or the function call of a condition and its argument.
VisitColumnRef ==
  /\ Walks("target") \/ Walks("cond")
  /\ functions' = IF Call[1] = "cond" THEN Append(functions, Call[2]) ELSE functions
  /\ filter_columns' = IF save_filter_columns THEN Append(filter_columns, Call)
                       ELSE filter_columns
  /\ todo' = Tail(todo)
  /\ UNCHANGED <<tree, save_filter_columns, range_vars, cte_names, tables, aliases, limit,
                 truncation, pc>>

\* Mutant: a range var is looked up as soon as it has been added.
LooksUpEarly == TRUE

LooksUp == todo = <<>>

ContextOf(kind) ==
  CASE kind \in {"SelectStmt", "CopyStmt"} -> "Select"
    [] kind \in {"ViewStmt", "IndexStmt"} -> "DDL"
    [] OTHER -> "DML"

\* A relation may have an alias.
HasAlias(kind) == kind \in WithRelation \ Wrappers

HandleRangeVar ==
  /\ pc = "walk" /\ LooksUp /\ range_vars # <<>>
  /\ LET s == Head(range_vars) IN
     /\ tables' = IF tree[s].rel \in {tree[c].cte : c \in ToSet(cte_names)} THEN tables
                  ELSE Append(tables, <<s, ContextOf(tree[s].kind)>>)
     /\ aliases' = IF HasAlias(tree[s].kind) THEN Append(aliases, s) ELSE aliases
  /\ range_vars' = Tail(range_vars)
  /\ UNCHANGED <<tree, todo, save_filter_columns, cte_names, functions, filter_columns, limit,
                 truncation, pc>>

\* The caller's truncate_limit is first looked at here.
WalkEnds ==
  /\ pc = "walk" /\ todo = <<>> /\ range_vars = <<>>
  /\ limit' \in Limits \cup {NoTruncation, -2}
  /\ pc' = IF limit' = NoTruncation THEN "done" ELSE "truncate"
  /\ UNCHANGED <<tree, walk, tables, aliases, truncation>>

-----------------------------------------------------------------------------
(* The deparsed text, and what pg_query_summary_truncate may cut from it.    *)

Ascii(n) == [i \in 1 .. n |-> 1]
Bytes(text) == FoldLeft(+, 0, text)
Dots == Ascii(3)

\* A long target list (of an INSERT: its columns; of VALUES: the rows), but a short one in
\* the second statement; a condition whose names are not ASCII.
TargetText(s) == Ascii(IF s = 2 THEN 1 ELSE 5)
ConditionText == <<1, 2, 2, 2>>

\* What is left of a target that was cut: "... = ..." behind SET; "... AS ..." behind
\* DISTINCT, as only "SELECT ... AS ..." is replaced by "SELECT ...".
CutTarget(s) ==
  CASE tree[s].kind = "UpdateStmt" -> Dots \o Ascii(3) \o Dots
    [] tree[s].kind = "SelectStmt" /\ s \in Distinct -> Dots \o Ascii(4) \o Dots
    [] OTHER -> Dots

Joined(kids, text) == FlattenSeq([i \in DOMAIN kids |-> text[kids[i]]])
TargetList(s, text) ==
  IF tree[s].kind \notin WithTargets THEN <<>>
  ELSE TargetText(s) \o Joined(Children(s, "target"), text)
Where(s, text) ==
  (IF tree[s].cond = "none" THEN <<>> ELSE ConditionText) \o Joined(Children(s, "where"), text)

\* The text of each statement of the tree with these truncations applied: deparse_raw_stmt_list
\* and the replacement of the dummy nodes. All of a statement that is never cut is three
\* characters.
Texts(applied) ==
  LET Gone(s, p) == <<s, p>> \in applied
      text[s \in Statements] ==
        FlattenSeq([i \in DOMAIN Children(s, "cte") |->
                      LET c == Children(s, "cte")[i]
                      IN  IF Gone(c, "cte") THEN Dots ELSE text[c]])
        \o Ascii(3)
        \o (IF Gone(s, "target") THEN CutTarget(s) ELSE TargetList(s, text))
        \o Joined(Children(s, "from"), text)
        \o Joined(Children(s, "query"), text)
        \o (IF Gone(s, "where") THEN Dots ELSE Where(s, text))
  IN  text

Query(applied) == Texts(applied)[1]

\* Levels of the parse tree between a statement and a SELECT in one of its parts: lists and
\* the nodes that hold it. Conditions other than a single one are under a BoolExpr, those of
\* an INSERT in two clauses of ON CONFLICT.
ConflictLevels(s) == IF tree[s].kind = "InsertStmt" THEN 2 ELSE 0
Levels(s, p) ==
  CASE p = "target" -> 4 [] p = "from" -> 3 [] p = "cte" -> 4 [] p = "query" -> 1
    [] p = "where" -> ConflictLevels(s) + IF Len(WhereClause(s)) = 1 THEN 2 ELSE 4

Depths ==
  LET depth[s \in Statements] ==
        IF s = 1 THEN 1 ELSE depth[tree[s].parent] + Levels(tree[s].parent, tree[s].part)
  IN  depth

\* Mutant: whatever there is may be cut.
NoShorterToo(length) == length > 0

\* add_truncation: not if it won't become shorter
Shorter(length) == length > 3

\* generate_possible_truncations; of a wrapper it looks at the condition only. A CTE is one
\* level above its query and is named by it here.
PossibleTruncations ==
  LET text == Texts({})
      depth == Depths
      targets == {[of |-> <<s, "target">>, depth |-> depth[s],
                   length |-> Bytes(TargetList(s, text))] : s \in Statements}
      wheres == {[of |-> <<s, "where">>, depth |-> depth[s] + ConflictLevels(s),
                  length |-> Bytes(Where(s, text))] : s \in Statements}
      ctes == {[of |-> <<s, "cte">>, depth |-> depth[s] - 1, length |-> Bytes(text[s])] :
                 s \in {c \in Statements : tree[c].part = "cte"}}
  IN  {t \in targets \cup wheres \cup ctes :
         /\ Shorter(t.length)
         /\ tree[1].kind \in Wrappers => t.of = <<1, "where">>}

\* Mutant: the longest first, at any depth.
LongestFirst(a, b) == a.length >= b.length

\* cmp_possible_truncations: a is not after b. Equal ones may be sorted either way.
NotAfter(a, b) == a.depth > b.depth \/ (a.depth = b.depth /\ a.length >= b.length)

\* pg_mbcharcliplen on a budget of n_chars bytes, for max characters
Kept(text, max) ==
  Cardinality({i \in DOMAIN text : i <= max /\ Bytes(SubSeq(text, 1, i - 1)) < Len(text)})

\* Mutant: no room is left for the dots.
CutWithoutRoom(text, max) ==
  IF max < 0 \/ Len(text) <= max THEN text ELSE SubSeq(text, 1, Kept(text, max)) \o Dots

\* truncate_mbstr; max_chars is a size_t, and a negative one no limit
TruncateMbstr(text, max) ==
  IF max < 0 \/ Len(text) <= max THEN text ELSE SubSeq(text, 1, Kept(text, max - 3)) \o Dots

Truncate ==
  /\ pc = "truncate"
  /\ output' = Query({})
  /\ IF Bytes(output') <= limit
     THEN pc' = "done" /\ UNCHANGED truncations
     ELSE pc' = "apply" /\ truncations' = PossibleTruncations
  /\ UNCHANGED <<tree, walk, tables, aliases, limit, cut>>

\* One round of apply_truncations; its comparison is one of size_t, too.
ApplyTruncation ==
  /\ pc = "apply"
  /\ \E t \in truncations :
       /\ \A u \in truncations : NotAfter(t, u)
       /\ truncations' = truncations \ {t}
       /\ cut' = cut \cup {t.of}
  /\ output' = Query(cut')
  /\ pc' = IF limit < 0 \/ Bytes(output') <= limit THEN "done" ELSE "apply"
  /\ UNCHANGED <<tree, walk, tables, aliases, limit>>

TruncateHard ==
  /\ pc = "apply" /\ truncations = {}
  /\ output' = TruncateMbstr(output, limit)
  /\ pc' = "done"
  /\ UNCHANGED <<tree, walk, tables, aliases, limit, truncations, cut>>

-----------------------------------------------------------------------------
Next ==
  \/ ParseNode \/ Parsed
  \/ VisitStmt \/ WhereSaved \/ VisitCommonTableExpr \/ VisitColumnRef
  \/ HandleRangeVar \/ WalkEnds
  \/ Truncate \/ ApplyTruncation \/ TruncateHard

Spec == Init /\ [][Next]_vars

TypeOK ==
  /\ tree \in Seq(NodeType) /\ Len(tree) <= MaxStmts
  /\ todo \in Seq({"stmt", "cte", "target", "cond", "saved"} \X Statements)
  /\ save_filter_columns \in BOOLEAN
  /\ range_vars \in Seq(Statements) /\ cte_names \in Seq(Statements)
  /\ functions \in Seq(Statements) /\ filter_columns \in Seq({"target", "cond"} \X Statements)
  /\ tables \in Seq(Statements \X {"Select", "DML", "DDL"}) /\ aliases \in Seq(Statements)
  /\ limit \in Limits \cup {NoTruncation, -2}
  /\ cut \subseteq Statements \X {"target", "where", "cte"}
  /\ \A t \in truncations : t.of \notin cut
  /\ output \in Seq(1 .. 2)
  /\ pc \in {"parse", "walk", "truncate", "apply", "done"}

-----------------------------------------------------------------------------
(* Correctness.                                                              *)

CteNames == {tree[c].cte : c \in {d \in Statements : tree[d].part = "cte"}}
Walked == pc \in {"truncate", "apply", "done"}

\* Although WHERE clauses are walked twice and a pass may end early, each relation is
\* reported once, unless a CTE has its name. CTEs, aliases and functions, but for those in
\* the condition of a COPY, which is not walked, are found, how often is not said.
EverythingFoundOnce ==
  Walked =>
    /\ \A s \in Statements :
         Cardinality({i \in DOMAIN tables : tables[i][1] = s})
           = IF tree[s].rel \in CteNames \cup {NoName} THEN 0 ELSE 1
    /\ \A s \in Statements : tree[s].part = "cte" <=> s \in ToSet(cte_names)
    /\ \A s \in Statements : HasAlias(tree[s].kind) => s \in ToSet(aliases)
    /\ \A s \in Statements :
         tree[s].cond # "none" /\ tree[s].kind # "CopyStmt" => s \in ToSet(functions)

\* The name of a CTE is never reported as a table, even where a reference comes first.
CtesHidden == \A i \in DOMAIN tables : tree[tables[i][1]].rel \notin CteNames

\* A filter column is one in the WHERE clause of a SELECT, at most once: not one that
\* was met later, outside of the clause, or again in a sub-SELECT.
FiltersReal ==
  /\ \A i \in DOMAIN filter_columns :
       filter_columns[i][1] = "cond" /\ tree[filter_columns[i][2]].kind = "SelectStmt"
  /\ Cardinality(ToSet(filter_columns)) = Len(filter_columns)

\* Every column that is in the WHERE clause of a SELECT, not in a sub-SELECT of the clause,
\* is a filter column (pg_query_summary.c:154 leaves out only sub-SELECTs).
FilterColumnsFound ==
  Walked => \A s \in Statements :
    tree[s].kind = "SelectStmt" /\ tree[s].cond # "none" => <<"cond", s>> \in ToSet(filter_columns)

\* The truncated query is no longer than the limit, in characters, if that has room for dots.
TextFits == pc = "done" /\ limit >= 3 => Len(output) <= limit

Above ==
  LET above[s \in Statements] ==
        {s} \cup IF tree[s].parent = 0 THEN {} ELSE above[tree[s].parent]
  IN  above

\* Truncation b removes what truncation a, of another part, replaced.
Within(a, b) ==
  /\ a # b
  /\ \E s \in Above[a[1]] :
       b = <<s, "cte">> \/ b = <<tree[s].parent, tree[s].part>>

\* The deepest part is cut first: no round is spent on a part that is gone already.
DeepestFirst == [][\A a \in cut' \ cut, b \in cut : ~Within(a, b)]_cut

\* The part a truncation takes out is longer than what takes its place, at that time: that a
\* SET list or the list of a SELECT DISTINCT is, is not sure.
Worthwhile(a) ==
  \/ a[2] # "target"
  \/ CutTarget(a[1]) = Dots
  \/ Bytes(TargetList(a[1], Texts(cut))) > Bytes(CutTarget(a[1]))

\* Every round that puts three dots in place of something makes the query shorter, although
\* lengths were measured before the first round; so does one that puts "... = ..." or
\* "... AS ..." there, if that is shorter than what the earlier rounds have left of the list.
RoundsShorten ==
  [][\A a \in cut' \ cut : Worthwhile(a) => Bytes(output') < Bytes(output)]_cut

\* Every round makes the query shorter: "Don't bother truncating if it won't become shorter."
EveryRoundShortens == [][Bytes(output') < Bytes(output)]_cut

-----------------------------------------------------------------------------
\* Names are only compared.
Symmetry == Permutations(Names)
=============================================================================
