---------------------------- MODULE LoadObjects ----------------------------
(***************************************************************************)
(* load_objects! of lib/pg_query/parse.rb: four work lists, one item taken   *)
(* off each per round, and the CTE names seen so far, which decide whether a *)
(* reference is to a table. The parse result is not given: each step chooses *)
(* what the item it takes is. An item carries where it is in the query.      *)
(* Aliases, functions, schema names and locations in the result are left     *)
(* out, and so are the parts of a statement that the code does not look at.  *)
(***************************************************************************)
EXTENDS Naturals, Sequences, FiniteSets

CONSTANTS
  Names,    \* relation and CTE names
  MaxItems, \* bound: items of the work lists
  MaxWith   \* bound: CTEs of one WITH clause

ASSUME LoadObjectsAssumption ==
  Names # {} /\ MaxItems \in Nat /\ MaxWith \in Nat /\ IsFiniteSet(Names)

VARIABLES
  statements,         \* work lists of Places
  subselect_items,
  call_items,
  from_clause_items,  \* of Places and the type of reference
  cte_names,          \* @cte_names
  tables,             \* @tables: name and type
  pc,                 \* the list to take from next
  items,              \* items put on a list
  ref,                \* history: the reference looked at in this step
  again               \* history: the names with more than one CTE

lists == <<statements, subselect_items, call_items, from_clause_items>>
vars == <<lists, cte_names, tables, pc, items, ref, again>>

\* Where an item is: the CTE names visible there; those whose body, searched by
\* record_self_references_in, it is in; those visible because they were redefined
\* in such a body; and those of all non-recursive CTEs whose body it is in.
Places == [visible : SUBSET Names, recorded : SUBSET Names, redefined : SUBSET Names,
           inside : SUBSET Names]
Top == [visible |-> {}, recorded |-> {}, redefined |-> {}, inside |-> {}]

Types == {"select", "dml", "ddl"}
Refs == [name : Names, place : Places, type : Types, schema : BOOLEAN, cte : BOOLEAN]
NoRef == [name |-> CHOOSE n \in Names : TRUE, place |-> Top, type |-> "ddl",
          schema |-> TRUE, cte |-> FALSE]

TypeOK ==
  /\ statements \in Seq(Places) /\ subselect_items \in Seq(Places)
  /\ call_items \in Seq(Places) /\ from_clause_items \in Seq([place : Places, type : Types])
  /\ cte_names \subseteq Names /\ tables \subseteq Names \X Types
  /\ pc \in {"statement", "subselect", "call", "from", "done"}
  /\ items \in 0 .. MaxItems /\ ref \in Refs /\ again \subseteq cte_names

Init ==
  /\ \E n \in {1, 2} : statements = [i \in 1 .. n |-> Top] /\ items = n
  /\ subselect_items = <<>> /\ call_items = <<>> /\ from_clause_items = <<>>
  /\ cte_names = {} /\ tables = {}
  /\ pc = "statement" /\ ref = NoRef /\ again = {}

Times(n, item) == [i \in 1 .. n |-> item]
From(n, p, t) == Times(n, [place |-> p, type |-> t])

\* The rest of the input has room for n more items.
Adds(n) == items + n <= MaxItems /\ items' = items + n

-----------------------------------------------------------------------------
(* WITH clauses: a sequence of different names, recursive or not.            *)

WithClauses ==
  UNION {{w \in [1 .. n -> Names] : \A i, j \in 1 .. n : i # j => w[i] # w[j]} : n \in 0 .. MaxWith}
NamesOf(with) == {with[i] : i \in DOMAIN with}


\* Mutant: the names are on the list before the self-references are looked for.
RecordsAfterConcat(name, with, recursive) ==
  ~recursive /\ name \notin cte_names \cup NamesOf(with)

\* Mutant: self-references are looked for in a redefinition of a name, too.
RecordsAnyName(name, with, recursive) == ~recursive

\* record_cte_self_references! and record_self_references_for_cte!
Records(name, with, recursive) == ~recursive /\ name \notin cte_names

\* Where the statement itself is, with its own CTEs visible.
Main(p, with) ==
  [p EXCEPT !.visible = @ \cup NamesOf(with),
            !.redefined = @ \cup (NamesOf(with) \cap p.recorded)]

\* Where the body of the i-th CTE is: it sees those before it, of a recursive WITH all.
Body(p, with, recursive, i) ==
  LET seen == IF recursive THEN NamesOf(with) ELSE {with[j] : j \in 1 .. i - 1}
      self == {with[i]}
  IN  [p EXCEPT
         !.visible = @ \cup seen,
         !.redefined = @ \cup (seen \cap p.recorded),
         !.recorded = @ \cup IF Records(with[i], with, recursive) THEN self ELSE {},
         !.inside = IF recursive THEN @ ELSE @ \cup self]

\* statements_and_cte_names_for_with_clause, and the names it adds
Bodies(p, with, recursive) == [i \in DOMAIN with |-> Body(p, with, recursive, i)]
Concat(with) ==
  /\ cte_names' = cte_names \cup NamesOf(with)
  /\ again' = again \cup (cte_names \cap NamesOf(with))

-----------------------------------------------------------------------------
(* The round.                                                                *)

Skip(list, from, to) ==
  /\ pc = from /\ list = <<>>
  /\ pc' = to /\ ref' = NoRef
  /\ UNCHANGED <<lists, cte_names, tables, items, again>>

TakeStatement ==
  /\ pc = "statement" /\ statements # <<>>
  /\ pc' = "subselect" /\ ref' = NoRef

\* SELECT, INSERT, UPDATE, DELETE: their expressions, FROM items, the relation they change
\* or SELECT INTO, and the WITH clause. A set operation has two arms and no FROM, an INSERT
\* has the query it inserts.
Query ==
  /\ TakeStatement
  /\ \E with \in WithClauses, recursive \in BOOLEAN, exprs, froms, arms \in 0 .. 2,
        targets \in 0 .. 1, type \in {"dml", "ddl"} :
       LET place == Head(statements)
           main == Main(place, with)
           target == From(targets, main, type)
           selects == From(froms, main, "select")
       IN  /\ with = <<>> => ~recursive
           /\ arms = 1 => type = "dml" /\ targets = 1 /\ froms = 0
           /\ arms = 2 => targets + froms = 0
           /\ Adds(Len(with) + exprs + froms + targets + arms)
           /\ statements' = Tail(statements) \o Times(arms, main) \o Bodies(place, with, recursive)
           /\ subselect_items' = subselect_items \o Times(exprs, main)
           /\ from_clause_items' = from_clause_items
                \o (IF type = "dml" THEN target \o selects ELSE selects \o target)
           /\ Concat(with)
  /\ UNCHANGED <<call_items, tables>>

\* A statement around another one: COPY, CREATE TABLE AS, CREATE VIEW, EXPLAIN, PREPARE.
Wrapper ==
  /\ TakeStatement
  /\ \E targets \in 0 .. 1, type \in {"dml", "ddl"} :
       /\ Adds(targets + 1)
       /\ statements' = Append(Tail(statements), Head(statements))
       /\ from_clause_items' = from_clause_items \o From(targets, Head(statements), type)
  /\ UNCHANGED <<subselect_items, call_items, cte_names, tables, again>>

\* Other statements: relations they change, expressions of an index.
Utility ==
  /\ TakeStatement
  /\ \E relations \in 0 .. 2, exprs \in 0 .. 1 :
       /\ Adds(relations + exprs)
       /\ from_clause_items' = from_clause_items \o From(relations, Head(statements), "ddl")
       /\ subselect_items' = subselect_items \o Times(exprs, Head(statements))
  /\ statements' = Tail(statements)
  /\ UNCHANGED <<call_items, cte_names, tables, again>>

\* DROP TABLE, RULE and TRIGGER have names instead of RangeVars.
Drop ==
  /\ TakeStatement
  /\ \E dropped \in SUBSET Names : tables' = tables \cup (dropped \X {"ddl"})
  /\ statements' = Tail(statements)
  /\ UNCHANGED <<subselect_items, call_items, from_clause_items, cte_names, items, again>>

Call ==
  /\ TakeStatement
  /\ Adds(1)
  /\ call_items' = Append(call_items, Head(statements))
  /\ statements' = Tail(statements)
  /\ UNCHANGED <<subselect_items, from_clause_items, cte_names, tables, again>>

\* An expression with its operands, or a sub-select.
Subselect ==
  /\ pc = "subselect" /\ subselect_items # <<>>
  /\ LET p == Head(subselect_items)
     IN  \/ /\ \E operands \in 0 .. 2 :
                 /\ Adds(operands)
                 /\ subselect_items' = Tail(subselect_items) \o Times(operands, p)
            /\ UNCHANGED statements
         \/ /\ Adds(1)
            /\ statements' = Append(statements, p)
            /\ subselect_items' = Tail(subselect_items)
  /\ pc' = "call" /\ ref' = NoRef
  /\ UNCHANGED <<call_items, from_clause_items, cte_names, tables, again>>

CallArguments ==
  /\ pc = "call" /\ call_items # <<>>
  /\ \E args \in 0 .. 2 :
       /\ Adds(args)
       /\ subselect_items' = subselect_items \o Times(args, Head(call_items))
  /\ call_items' = Tail(call_items)
  /\ pc' = "from" /\ ref' = NoRef
  /\ UNCHANGED <<statements, from_clause_items, cte_names, tables, again>>


\* Mutant: the end of the loop does not wait for the FROM items.
EndsWithoutFrom(subs, stmts, froms) == subs = <<>> /\ stmts = <<>>

\* break if subselect_items.empty? && statements.empty? && from_clause_items.empty?
Ends(subs, stmts, froms) == subs = <<>> /\ stmts = <<>> /\ froms = <<>>

AfterRound ==
  pc' = IF Ends(subselect_items', statements', from_clause_items') THEN "done" ELSE "statement"

\* A join, a list of items, a function in FROM or a sub-select in FROM.
FromItem ==
  /\ pc = "from" /\ from_clause_items # <<>>
  /\ LET item == Head(from_clause_items)
     IN  \E sides \in {0, 2}, quals, queries \in 0 .. 1 :
           /\ queries = 1 => sides + quals = 0
           /\ Adds(sides + quals + queries)
           /\ from_clause_items' = Tail(from_clause_items) \o Times(sides, item)
           /\ subselect_items' = subselect_items \o Times(quals, item.place)
           /\ statements' = statements \o Times(queries, item.place)
  /\ AfterRound /\ ref' = NoRef
  /\ UNCHANGED <<call_items, cte_names, tables, again>>

CteReference(r) ==
  /\ r.type = "select" /\ ~r.schema
  /\ r.name \in cte_names
  /\ r.name \notin r.place.recorded

\* A RangeVar: a CTE reference goes on with the next round without a look at the lists.
RangeVar ==
  /\ pc = "from" /\ from_clause_items # <<>>
  /\ UNCHANGED <<statements, subselect_items, call_items, cte_names, items, again>>
  /\ \E name \in Names, schema \in BOOLEAN :
       LET item == Head(from_clause_items)
           r == [name |-> name, place |-> item.place, type |-> item.type, schema |-> schema]
           isCte == CteReference(r)
       IN  /\ ref' = [name |-> name, place |-> item.place, type |-> item.type,
                      schema |-> schema, cte |-> isCte]
           /\ from_clause_items' = Tail(from_clause_items)
           /\ IF isCte
              THEN pc' = "statement" /\ UNCHANGED tables
              ELSE AfterRound /\ tables' = tables \cup {<<name, item.type>>}

NoFromItem ==
  /\ pc = "from" /\ from_clause_items = <<>>
  /\ UNCHANGED <<lists, cte_names, tables, items, again>>
  /\ AfterRound /\ ref' = NoRef

Next ==
  \/ Query \/ Wrapper \/ Utility \/ Drop \/ Call
  \/ Subselect \/ CallArguments \/ FromItem \/ RangeVar \/ NoFromItem
  \/ Skip(statements, "statement", "subselect")
  \/ Skip(subselect_items, "subselect", "call") \/ Skip(call_items, "call", "from")

Spec == Init /\ [][Next]_vars

-----------------------------------------------------------------------------
(* Correctness.                                                              *)

\* When the loop ends, nothing is left on any list: call_items, which the condition does
\* not look at, is empty then too.
NothingLeftOver ==
  pc = "done" => statements = <<>> /\ subselect_items = <<>> /\ call_items = <<>>
                   /\ from_clause_items = <<>>

\* A reference to a CTE is not taken for a table, whichever lists brought it and the WITH
\* clause up, unless the name is defined again in the body of a CTE of that name.
CtesHidden ==
  ref.type = "select" /\ ~ref.schema /\ ref.name \in ref.place.visible /\ ~ref.cte =>
    ref.name \in ref.place.redefined

\* A table is reported from inside the body of a CTE of the same name, at any depth,
\* unless another CTE has that name too.
SelfReferencesKept ==
  ref.cte /\ ref.name \notin ref.place.visible /\ ref.name \in ref.place.inside =>
    ref.name \in again
=============================================================================
