# Verification of pg_query

pg_query is a Ruby gem around a C library. The C library carries the parser of
PostgreSQL out of the server: it parses, normalizes, fingerprints, splits,
summarizes and deparses SQL, in the threads of a host program that has no
PostgreSQL runtime. The library brings its own small runtime for that (memory
contexts, PG_TRY handlers, lexer settings, all of them thread-local), and its
own algorithms on top of the parse tree. This directory models that runtime and
those algorithms in TLA+, checks them with TLC and proves the main theorems with
TLAPS. Paths are given relative to `src/`; `pq/` stands for `ext/pg_query/` and
`rb/` for `lib/pg_query/`.

 1. The system: components, state, operations, interactions
 2. The plan
 3. The modules: state and actions against the code
 4. The runs: what each asks, its bounds, what it shows
 5. Fairness
 6. What is proved, and how
 7. What is only model-checked, and what is not modelled
 8. Where the code and its promises part

## 1. The system

### The C library

| Component | State it keeps | Operations | Correct when |
|---|---|---|---|
| Thread runtime (`pq/pg_query.c`) | thread-local `pg_query_initialized`, `TopMemoryContext`, `ErrorContext`, `CurrentMemoryContext`; one static `pg_query_thread_exit_key` for all threads | `pg_query_init`, enter and exit of the call context, the key's destructor, `pg_query_exit` | each call leaves the contexts as it found them; an exited thread leaves none |
| Error handling (`elog.h`, `elog.c`) | thread-local `PG_exception_stack`, the `errordata` stack | `PG_TRY`, `PG_CATCH`, `PG_END_TRY`, `PG_RE_THROW`, `ereport(ERROR)` | an error jumps to a live block; there is a block for each error; the error stack is flushed |
| Raw parse (`pq/pg_query_parse.c`) | lexer settings `backslash_quote`, `standard_conforming_strings`, `escape_string_warning`, thread-local; the result's malloc-ed pieces | `pg_query_raw_parse`, `pg_query_parse_opts`, free functions | the input is lexed under the settings the call asks for; nothing is leaked |
| Normalization (`pq/pg_query_normalize.c`) | `clocations`, `highest_normalize_param_id`, `highest_extern_param_id`, the `param_refs` buffer, `fp_and_param_refs_list` per SELECT | `const_record_walker`, `RecordConstLocation`, `generate_normalized_query` | numbers are dense and distinct, apart from the `$n` of the input; GROUP BY items repeat the numbers of the target list element they repeat |
| Splitting (`pq/pg_query_split.c`) | `keyword_before_terminator`, `open_parens`, `stmtstart`, `curstmt`, result array | split by scanner (two passes), split by parser | the passes agree; the array is filled; the spans are the statements; the two splits agree |
| PL/pgSQL (`pq/pg_query_parse_plpgsql.c`) | list of statements found, compile context | statements walker, compile loop | a result or an error, nothing left behind |
| Summary and truncation (`pq/pg_query_summary*.c`) | lists of tables, CTE names, functions, filter columns, statement types; list of possible truncations | recursive walk; apply truncations in order of depth and length | all tables and no CTE names are reported; the text fits the limit |
| Fingerprint (`pq/pg_query_fingerprint.c`) | token list, hash state, cache of sorted lists | recursive walk with list sorting and roll-back of empty fields | equal up to order and constants, whatever the cache holds |
| Deparse API and comments (`pq/pg_query_deparse.c`) | comment array | deparse in a PG_TRY; attribute comments to positions | comments keep their place |
| Scan, is_utility (`pq/pg_query_scan.c`, `pq/pg_query_is_utility_stmt.c`) | none beyond the runtime | one call each | as the runtime |
| Output and input of trees (`pg_query_outfuncs_*`, `pg_query_readfuncs_protobuf.c`), vendored PostgreSQL, protobuf-c, xxHash | none | conversions | out of scope |

### The Ruby library

`rb/parse.rb` walks the parse result to find tables, functions and CTEs
(`load_objects!`, four work lists and a set of CTE names); `rb/truncate.rb`
shortens a query by replacing parts of it; `rb/filter_columns.rb`,
`rb/param_refs.rb` and `rb/treewalker.rb` are walks without memory; the rest
converts what the C library returns. `pq/pg_query_ruby.c` has one method per
call, between the two: it checks and converts the arguments, calls, copies the
result into Ruby objects or its error into an exception, frees the C result, and
returns or raises.

### How they interact

Every entry point of the C library does the same: enter the call context (and
initialise the thread if need be), open a PG_TRY block or call
`pg_query_raw_parse`, which opens one, work, leave the block, leave the context,
return a struct of malloc-ed pieces that the host frees with the matching free
function. Fingerprint, is_utility, split by parser, PL/pgSQL and summary all take
the tree and the error of `pg_query_raw_parse` apart in their own way. Normalize
calls the fingerprint of a subtree from inside its walk. The walkers of normalize
and of PL/pgSQL open a PG_TRY block per node, nested as deep as the tree. Threads
share one thing, the pthread key.

### What is hard

Nothing blocks and nothing is persisted, so there are no deadlocks and no crash
recovery here. What a unit test hardly reaches is listed under `hazards` in
`PROJECT.json`:

- the state a *failed* call leaves to the next one in the thread (settings,
  handlers, contexts, error stack), and the order of calls that brings it out;
- threads that initialise and exit in all orders while they overwrite one key;
- what of a result is owned by whom on each early return;
- counting numbers down again in the middle of a walk that nests, with one buffer
  for all levels;
- two passes over an input that have to agree on every input, broken ones too;
- two algorithms for the same job (split by scanner and by parser) that have to
  agree;
- a cache shared by nested contexts, and a tree with nodes that have two parents;
- comments, found in the order of the text and put back in the order of the output;
- methods that are left by longjmp, past the frees that follow.

## 2. The plan

In order of weight.

1. `ApiContract`, the abstract specification: what each call promises its caller.
2. `Session`, the runtime and the body of every API call, composed with the host;
   it implements `ApiContract`. `SessionProofs`.
3. `Normalize`, the numbering. `NormalizeProofs`.
4. `Split`, the two passes. `SplitProofs`.
5. `SplitParser`, which composes `Split` with the parser's statement locations.
6. `LoadObjects`: the work lists of `rb/parse.rb`, and the CTE names known at the time a
   table reference is looked at, against the scope of each name. `LoadObjectsProofs`.
7. `Summary`: the walk of `pq/pg_query_summary.c` and the truncation of the same tree,
   in bytes and in characters. `SummaryProofs`.
8. `DeparseComments`: comments found in a query and put back by the deparser.
   `DeparseCommentsProofs`.
9. `Fingerprint`: sorting and caching of lists, nested contexts, roll-back of field names;
   the reference is a function of the tree that has none of them. `FingerprintProofs`.
10. `RubyBinding`, the methods of the gem as a layer over `Session`; it implements
    `ApiContract`, too. `RubyProofs`.

What is left: MERGE and the DDL statements on several objects in the summary's walk, and
that it reports the same tables as 6 where CTE names are used once.

## 3. The modules

### Session (with ApiContract and MCSession)

One step of a thread is one stretch of a call between two points where something
can be raised, or where another thread can see a difference. `pc[t]` names the
point; `op[t]` is the API function.

| In the model | In the code |
|---|---|
| `exitKey`, `keys` | `pg_query_thread_exit_key`, keys created by `pthread_key_create` so far; no key is ever deleted |
| `initialized`, `registered` | `pg_query_initialized`; threads with a value under the key (`pthread_setspecific`) |
| `live`, `current` | contexts that exist; `CurrentMemoryContext` |
| `depth`, `handler`, `saved`, `kind` | PG_TRY blocks on the C stack, `PG_exception_stack`, each block's `_save_exception_stack`, the function that opened it |
| `errors` | entries of the `errordata` stack |
| `settings`, `lexed` | the lexer settings in force; those the input was lexed under |
| `tree`, `nodes`, `stmts` | what `raw_parser` returned; nodes walked; PL/pgSQL bodies left |
| `heap`, `result` | malloc-ed pieces not yet freed; those the result struct points to |
| `Call`, `InitContexts`, `KeyCreate`, `SetSpecific`, `EnterMemoryContext`, `ExitMemoryContext` | `pg_query_init`, `pg_query_enter_memory_context`, `pg_query_exit_memory_context` |
| `BeginTry`, `EndTry`, `Catch` | `PG_TRY`, `PG_END_TRY`, the catch block with the switch back of the context, `CopyErrorData`, `FlushErrorState` |
| `RawParse`, `RawParseReturns`, `AfterRawParse` | `pg_query_raw_parse`, and what each of its callers does with tree and error |
| `Lex`, `Build` | the scanner calls of scan, split and normalize; putting the result together |
| `WalkNode`, `VisitChildren`, `WalkReturn`, `WalkDone` | `const_record_walker` and `stmts_walker`, which open a block per node |
| `CompileNext`, `Compiled`, `CompileDone` | the loop of `pg_query_parse_plpgsql` |
| `Error`/`Raise` | `ereport(ERROR)`, `errstart` and `errfinish`: FATAL without a handler, `siglongjmp` to the handler |
| `FreeResult`, `ThreadExit`, `PgQueryExit` | the host: a free function, the key's destructor, `pg_query_exit` |

`Raise` has three outcomes, since the handler may be none (the process ends), a
live block (the jump), or a block of a function that has returned (undefined
behaviour, `process = "undefined"`, after which the model stops). The last one is
not excluded by the shape of the model: `LeavesWalker` returns from inside the
block of `const_record_walker` as the code does, and leaves the handler behind.

What a call computes is not in `Session`. An input is what it makes the call do:
where it raises, whether its tree is empty, how many nodes and bodies it has.

`ApiContract` is what a host may rely on. In `Session`, its `clean` is mapped to `Pristine(t)`, its
`outcome` to whether the result has an error, and its fairness says that a call ends.

### RubyBinding (with MCRuby)

`RubyBinding` puts the methods of `pq/pg_query_ruby.c` around the calls of `Session`, and
has no host but them. All methods are one pattern; the functions without one (PL/pgSQL,
is_utility, split by scanner) are called by a C host in the same way.

| In the model | In the code |
|---|---|
| `method`, `outcome` | where the method is: its arguments, the comments of `deparse_protobuf_opts`, the function it called, the copy, its end; value or exception |
| `comments`, `forgotten` | the malloc-ed array and structs of `deparse_opts`; whether some were left behind |
| `BadArgument`, `BadComment` | `Check_Type`, `StringValueCStr` and `NUM2INT` raise, before anything is allocated or amid the comments |
| `AddComment`, `DeparseOpts`, `CallFunction` | the loop over the comments; the calls |
| `Copy`, `FreeAndLeave` | `rb_str_new2` and the like, in the method or in `raise_ruby_*_error`; the free function, the free of the comments, return or `rb_exc_raise` |
| `Reads` | what the copy takes for granted |

`MethodContract` is `ApiContract` once more, with methods for calls: `clean` says now that
no result is held either. Ruby running out of memory in the middle of a copy is left out.

### Normalize

The walk is not given a tree: each step chooses what the walk meets next, a
constant, a `$n`, a SELECT and in it the target list, the FROM clause, the GROUP BY
items and the rest in the order of `const_record_walker`'s `T_SelectStmt` case. So
a behaviour is a tree together with its walk.

| In the model | In the code |
|---|---|
| `ids` | `clocations[i].param_id`, negative for a number that is not yet offset by the highest `$n` |
| `highest`, `extern` | `highest_normalize_param_id`, `highest_extern_param_id` |
| `refs`, `bufSize` | `param_refs`, `param_refs_buf_size`; 0 stands for a NULL buffer |
| `fps`, `lists`, `own`, `used`, `match` | `FpAndParamRefs` entries, `fp_and_param_refs_list` of each SELECT, `list_delete_cell`, `fppr` |
| `RecordConstLocation`, `ParamRef`, `RecordRef` | the function, the `T_ParamRef` case, the growing buffer in both |
| `PassOver` | a `$n` where the walk does not go: type modifiers, nodes the walker raises for, CREATE FUNCTION bodies |
| `BeginTarget` .. `EndSelect` | the parts of the `T_SelectStmt` case |
| `AssignParams` | giving the item the element's numbers and counting down |
| `Generate`, `Number` | `generate_normalized_query` |

Fingerprints are model values under three conditions that can be dropped one by
one. `SelectFps` are those of expressions that contain a SELECT with a target list:
two expressions with one fingerprint agree on that, unless `DeepTrees`, as the
fingerprint ignores what is nested more than 100 levels deep. A fingerprint leaves out a `$n`
(`pq/include/pg_query_fingerprint_conds.c:259`) as it does a constant, for which
`_fingerprintNode` has no case, so that `$1 || 'a'` and `'b' || 'a'` have the same one. So `Fits`
asks of two expressions with one fingerprint that they have the same `Shape`: constants or
`$n`, whichever they are, and sub-SELECTs in the same order. With `Folding` not even that is
asked: the code also takes lists for equal that are sorted and have their items in another order
or repeated, and that differ in items that are nothing but constants and `$n`. The runs are
without `Folding`; of the theorems, `PlainItemsShare` alone assumes that. The values of
constants are not in the model: expressions that differ in them only are one expression here
(and "repeats" in the properties means up to such values), as they are for the code, where the
`'b'` and `'a'` of `SELECT 'b' FROM x GROUP BY 'a'` do get one number.

`walked`, `walks`, `offsets`, `params`, `copied` and `bound` are histories, used by properties
and proofs and by no action's effect; `bound` are the fingerprints of those elements and
items of a SELECT that hold a `$n`.

### Split and SplitParser

A token is one of a keyword, ATOMIC, END, the parentheses, a semicolon, a token
the lexer raises for ("bad"), or "blank", which stands for everything the passes do
not look at: white space, comments, literals, names and operators. A token is one
byte long, so that the location of a token is its index less one: lengths do not
enter any decision of the code.

`Count`, `Allocate`, `Fill`, `Return` and `LexError` are the first loop, the code
between the loops, the second loop, the end, and the catch block. `open_parens` is a
`size_t` in the code and an integer here: it is compared with 0 only, and an input
long enough to wrap it around to 0 does not exist. `counts`, `depths` and `marks` are
histories of the first pass that the proof compares the second one with.

`SplitParser` runs the grammar over the same tokens: `Reduce` is one reduction of
`stmtmulti` with `updateRawStmtEnd` for the statement before it, `SyntaxError` the
NULL tree. The grammar is external and reduced to what both splits can tell apart:
statements are separated by semicolons outside parentheses and outside BEGIN ATOMIC
bodies, each has a keyword, and an input with an unclosed parenthesis or body does
not parse.

### LoadObjects

| In the model | In the code |
|---|---|
| `statements`, `subselect_items`, `call_items`, `from_clause_items` | the local arrays of the same names; an item is reduced to its place in the query |
| `cte_names`, `tables` | `@cte_names`, `@tables` by name and type |
| `place.recorded` | whether the item's location would be in `@cte_self_reference_locations` for a name: locations are recorded when the WITH clause is met, before the items of its bodies are put on a list |
| `Query`, `Wrapper`, `Utility`, `Drop`, `Call` | the branches of the case on `statement.node` |
| `Subselect`, `CallArguments`, `FromItem`, `RangeVar`, `NoFromItem` | the other three parts of a round, and the `break` |

As in `Normalize`, the input is not given: what an item is, is chosen when it is taken
off its list, within `MaxItems`. The scope that the code does not know travels with
each item: `place.visible` are the CTE names SQL makes visible there, `inside` the
non-recursive CTEs whose body it is in, `redefined` the visible names that were
defined again within a body recorded for the same name. Parts of a statement that the
code does not look at (LIMIT, MERGE, cursors and others) are outside the model: it asks
whether what is put on a list is looked at, and how it is judged.

### Summary

| In the model | In the code |
|---|---|
| `tree` | the parse tree, reduced to its statements: the part of the outer statement each is in, its relation, the CTE it is the query of, where its own condition `f(column)` is in its WHERE clause; `children` lists those in each of its own parts, in order |
| `todo` | the calls of the recursive walk that are still to make; "saved" marks the return of the explicit call for the WHERE clause |
| `save_filter_columns`, `range_vars`, `cte_names`, `functions`, `filter_columns`, `tables`, `aliases` | the fields of `WalkState`; what is added is named by the statement it comes from |
| `VisitStmt`, `WhereSaved`, `VisitCommonTableExpr`, `VisitColumnRef` | the cases of `pg_query_summary_walk_impl`, and the end of the pass that saves filter columns |
| `Aborted` | `return true`, which `raw_expression_tree_walker` hands up to that explicit call |
| `RawWalk`, `PartsOf` | the order in which `raw_expression_tree_walker` goes through a statement: WITH comes last |
| `HandleRangeVar`, `WalkEnds` | the loop after the walk |
| `truncations`, `cut`, `output` | the sorted list, the parts replaced so far, the text |
| `Truncate`, `ApplyTruncation`, `TruncateHard` | `pg_query_summary_truncate`, a round of `apply_truncations`, `truncate_mbstr` |

The parser is external: `ParseNode` adds a statement to the tree, so that a run goes
through all trees. Of ten kinds of statements some stand for several: a set operation is a
SELECT of two arms, a view any statement with a relation and a query that the summary
walks itself, EXPLAIN the same without a relation, COPY and CREATE INDEX those with a
relation and a condition, walked or not. The truncation does not look into any of these
four, but cuts their conditions. A text is the sequence of the byte widths of its
characters; keywords and names have short fixed lengths, one target list is too short to
be worth cutting, and the names in a condition are not ASCII, so that bytes and
characters differ. `Levels` gives the nodes between a statement and one in its parts, on
which the order of truncations depends. `Distinct` says which statements have a DISTINCT if
they are a SELECT: `CutTarget` is the text put in place of a target list, three dots but for a
SET list (`... = ...`) and a list behind DISTINCT (`... AS ...`), as only `SELECT "…" AS "…"` is
replaced by `SELECT "…"` (`pq/pg_query_summary_truncate.c:355`). `limit` is chosen where it is first read; a
negative limit other than -1 becomes a huge `size_t` in the code, and no limit here.
`pg_query_summary_statement_walk`, which runs in between, looks at nothing the others use.

### DeparseComments

Every token and line break of a query is one character at the location of its index, less
one: a "word", a "node" (a constant, a column or the name of a CTE, whose location the
deparser looks comments up for), `;`, comments, newlines, carriage returns. A word is
anything else that is printed: a keyword, an operator, the name of a table.

| In the model | In the code |
|---|---|
| `Comment`, `OtherToken` | the loop over the tokens in `pg_query_deparse_comments_for_query` |
| `comments` | the `PostgresDeparseComment`s; `before` and `after` are the newlines counted, each by its place, for `newlines_before_comment` and `newlines_after_comment` |
| `DeparseRawStmt`, `PlacedBefore` | the loop over the statements with `deparseRawStmtOpts`, which filters out comments in front of the statement |
| `Reached`, `EmitComment` | `deparseAppendCommentsIfNeeded` |
| `VisitNode`, `EmitText` | the deparser comes to the next node, looks comments up, and prints it |
| `PrintWord` | it prints a word or the name of a table, without a look at the comments (`deparseRangeVar`, the keywords of `deparseSelectStmt`) |

The deparser is any program that comes to the nodes of a statement in any order, as it
prints a list of CTEs or a clause where its grammar has it, and that prints the words of the
statement, each once or not at all, in any order among the nodes; the first one is the start of
the statement, at which comments are looked up. So comments move over words:
`SELECT a /* c */ FROM x WHERE b` comes back as `SELECT a FROM x WHERE /* c */ b`, which
`pq/postgres_deparse.c:172` calls best effort. `CommentsInFront` says how far: to the next node,
and right in front of it. `pretty_print` is off: the line
breaks it adds are left out. The comments are those of the query that is deparsed.

### Fingerprint

| In the model | In the code |
|---|---|
| `kind`, `parent`, `children` | the tree. A struct is any node with fields; a field is named after the kind of its child: "sorted" is one of the six names of line 153. A const is ignored, as `A_Const` and locations are; "again" is a `MultiAssignRef` whose `source` is that of the one before it |
| `todo` | the calls of the recursive walk that are still to make, and what follows them: `digest` after an item, `sort` after the items, `ended` after a field, with the hash from before it |
| `contexts`, `tokens` | the `FingerprintContext`s on the C stack; the token list of the first |
| `listsort_items`, `listsort_cache` | the hashes and the order of the items of a list, by list |
| `FingerprintNothing`, `FingerprintValue`, `FingerprintStruct`, `FingerprintPlainList` | the cases of `_fingerprintNode` |
| `FingerprintCachedList`, `FingerprintNewList`, `InitContext`, `FreeContext`, `SortList`, `NextItem` | `_fingerprintList` |
| `Field`, `FieldKept`, `FieldTakenBack` | the code that the generated functions have for each field |

A hash is the sequence of the strings fed into it, so that hashes are equal only where the
input is, and order is that of sequences. The code feeds strings without separators into 64
bits, so that there equal hashes do not quite mean equal strings. `MaxDepth` stands for 100.
Structs embedded without a call of `_fingerprintNode` (ON CONFLICT and others) escape the
depth test; a node shared below parents of different depths, which the grammar makes for
the types of an ordered-set aggregate's arguments, may hold a list cached above the
cut-off and used below it. Both matter near the cut-off only and are left out.

## 4. The runs

| Run | Asks | Bounds |
|---|---|---|
| `session_calls` | Does every call clean up behind it, contain its errors, own its result, and implement `ApiContract`, liveness included? | 1 thread, all 11 functions, 3 calls, 4 nested blocks, 4 nodes, 2 bodies, two sets of options |
| `ruby_methods` | Do the Ruby methods read what is there only, lose memory in known places only, and implement `ApiContract` in their turn, whatever the functions in them do? | the same, and 2 comments |
| `session_threads` | Do two threads that race for one key get their contexts freed, when any allocation may fail and the host may call `pg_query_exit`? Do settings, memory or a call ever get lost? Does a call that still returns clean up? | 2 threads, parse and is_utility, 2 calls each, 1 key |
| `session_settings` | a promise that the code breaks, see 8 | smallest that shows it |
| `normalize_numbers` | Are numbers dense and distinct, has a constant the number of a `$n` walked only where an item took it over from an element with that `$n`, does `param_refs` fit, do GROUP BY items of plain constants share, but for what a `$n` in an element or item like them brings about? | 2 nested SELECTs, 2 target list elements, 5 leaves, one `$n`, one fingerprint of each sort |
| `normalize_param` | a promise that the code breaks, see 8 | smallest that shows it |
| `split` | Do the passes agree, are the spans the statements, does the parser find the same? | every input of up to 5 of the 8 tokens |
| `load_objects` | Is every item looked at? Are references to CTEs and to tables of a CTE's own name told apart, whatever order the lists bring them up in? | 1 or 2 statements, 2 names, 6 items, 2 CTEs per WITH clause |
| `summary` | Are relations reported once, and CTEs, aliases and functions found, in spite of the second walk of WHERE clauses that ends early? Does truncation go from the inside out, get shorter in each round that has something longer to cut out, and end within the limit? | all trees of up to 3 statements of 10 kinds, a DISTINCT in two of them, 2 names, 2 limits and a negative one |
| `summary_filters` | a promise that the code breaks, see 8 | 2 statements, 1 name |
| `deparse_comments` | Are comments put back at most once, in order, right in front of the node or statement they stand before, and in all statements that reach them? Is each newline next to a comment counted once, and does a line comment end its line? | every query of up to 7 characters, any number of statements |
| `fingerprint` | Is the fingerprint that of the tree up to order and repetition, with cache, contexts and cut-off? Do the tokens tell what was hashed? Is the walk kept from exponential time? | all trees of up to 6 nodes, cut off at depth 5 |

Why the bounds are enough. *Session*: a call's state is reset by the next call but for
`settings` and the handler chain, so that two calls show what one leaves to the next
and a third shows that nothing adds up; a walk of four nodes nests blocks deeper than
the two kinds there are, and has both an error below another block and one after a
return. Two threads are enough for the key: each operation on it concerns one thread
and overwrites one variable; the proof of `ThreadsFreed` covers any number. *Normalize*:
two levels have an element inside an element and an item inside an item, two elements
have the one with an equal fingerprint that was taken off the list and one that was
not; with five steps there is a constant before, in and after each. A walk of six
steps (2.6 million states) finds nothing else. *Split*: five tokens have two
statements with an empty one between them, a nested parenthesis with a terminator in
it, and an unbalanced one on either side; a BEGIN ATOMIC body with a semicolon fits.
*LoadObjects*: the smallest inputs in which a name is defined twice and used in a body
take five items, one less than the bound; seven items (750 thousand states before DROP was
added) show nothing else.

*Summary*: three statements have a sub-SELECT in a sub-SELECT of a WHERE clause and in a CTE
of one, two siblings in any two parts, a CTE that is named after it is referenced
and one that is changed by an UPDATE; DISTINCT is on the outermost statement and on the last
one, both with a long list, and a SELECT with a short list is without it; of the two limits,
one is met by cutting parts in some trees and by the hard cut in others. Names are interchangeable (symmetry).

*DeparseComments*: seven characters have two comments in a row with a newline on either side
and one in between, a comment behind the last token, between two statements and after a
semicolon; or a statement of a word, a node, a comment, a word and a node, in which the comment
moves over the second word. *Fingerprint*: six nodes have a sorted list in a sorted list of a struct, with
equal items in the inner one, and a sub-tree with a sorted list below two parents; the
cut-off at five takes off the lowest of them. Without the cache the visits grow from the
second nested list on.

`CHECK_DEADLOCK FALSE` is set throughout because the systems do stop: a host may
stop calling and its calls are bounded by `MaxCalls`, a walk is done, an input is
split, the lists are empty, a summary is done.

Every property of a passing run has a mutant: a change of one definition, of the kind
a slip in the code would be (a missing switch back of the context, a restored handler
forgotten, a buffer that grows one entry late, numbers not given back, flags not reset
between the passes), with which TLC finds the property violated under the same
configuration.

## 5. Fairness

Only `Session` and `RubyBinding` have any: weak fairness of `Step(t)` for each thread,
which is what a call does by itself, and of `MethodStep(t)`, which adds what a method does. It is justified by there being no lock, wait or callback in the
library: a thread that the operating system runs gets on with its call. Host actions
(calling, freeing, exiting) are not fair. Nothing assumes that errors do not happen or
that they stop happening; the walks end because a tree is finite (`MaxNodes`). With
this, `CallsReturn` and the liveness part of `ApiContract` hold. The latter is checked
without failing allocations and `pg_query_exit`; `CallsReturn` is checked with them and
says that a call returns unless the process is lost.

## 6. What is proved

All theorems hold for every value of the constants that the modules' assumptions
allow (`SessionAssumption`, `NormalizeAssumption` and so on), and those of a theorem's own
where named below; the bounds (`MaxCalls`, `MaxFrames`, `MaxWalk`, `MaxLen`, `MaxItems`
and so on) are arbitrary naturals, so that they bound nothing.

**SessionProofs.** `IInv` is `TypeOK` and, per thread, `StackInv` and `MemInv`.
`ReadyBetweenCalls` is not inductive: that a call returns with no handler depends on
what each block saved when it was opened. `StackInv` says for each `pc` how many blocks
are live, of which kinds (at most one "api", one "raw_parse" or "compile" above
it, "walker" blocks only in a walk), and that each block's saved handler is the block
below it. The exception is the return from inside a block in normalize: there the
handler may run ahead of the blocks that are open, and blocks opened later save the
stale one, until the outer PG_END_TRY reinstates what the "api" block saved. So for
normalize `HandlerInv` asks only that the lowest block saved 0, and that the handler is
right where the code raises by itself, in a node just entered. `MemInv` says
which contexts live at which `pc`. Theorems: `TypeCorrect`, `CleansUp`
(`ReadyBetweenCalls`, with no assumption on allocations or `pg_query_exit`),
`ResultsValid` (`ResultOwned`), `ErrorsContained` (`ErrorsStayInside`, assuming
~AllocationFailures and ~CallsExit), `ThreadsFreed` (`ExitedThreadsFreed`, assuming that
one key can be created, `MaxKeys > 0`), and `Refinement`: each step of `Session` is a
step of `ApiContract` or stutters, so `Spec => Contract!ASpec`. In the proof each action
is shown to preserve the part of its own thread, and a common lemma shows that it
leaves the other threads' parts alone.

**SessionProofs**, memory and settings. That nothing is lost is a matter of every early return, and needs to know
exactly what a call holds at each of them. `HeapInv` says so for each `pc`, leaving out what
earlier calls have lost: nothing before the parse, `stderr_buffer` in the walks that keep it,
error or `stderr_buffer` between the two, and from the end of the work on no more than the
free function of the result frees (`Accounted`). In a catch block it depends on the kind of
block that caught (`CatchHeap`), which is the innermost one that is live even where the
handlers of normalize dangle (`RaiseHere`, from `StackInv`). Theorems: `MemoryReturned`
(`NothingLeaked`, if `Ops` has none of `LossyOps`, the three functions for which it fails,
see 8) and `LexedAsAsked` (`LexedAsRequested`, if all of `Ops` parse, or if no other options
than the default ones are asked for: `session_settings` shows what happens without).

**RubyProofs.** `RubyBinding` is first shown to implement `Session` (`Implements`): each step
of a method is a step of the function in it, of its host, or none, so that what is proved of
`Session` holds of the methods. `MethodInv` ties the two program counters together. Theorems:
`ReadsAreThere` (`ReadsWhatIsThere`; `ReadInv` says which functions always hand out
`stderr_buffer` or an error), `LossesKnown` (`LosesOnly`), and `MethodsRefine`, the
refinement of `ApiContract` by the methods.

**NormalizeProofs.** Assuming `~DeepTrees`. `HighestIsNext` is not inductive: giving
numbers back is right only if they are the last ones given out, and in a
nested item it is not obvious that nothing else took a number in between. `IInv` adds:
`Numbering` (all numbers below `highest` are in use, none above); what the buffer and
each list hold are numbers already in use (`Recorded`, `Listed`); for an item with a
match, that its constants so far were numbered consecutively from where `highest`
stood when the item began (`Matched`, over `Base(d)`), which holds because an item whose
fingerprint tells of no SELECT has no other item inside it (`Plain`), and one that does
can only be matched with an element that does, whose list is empty, since leaving the
inner target list freed the buffer. Theorems: `RefsFit`, `NumbersContiguous`,
`ConstantsApart`. For `ParamsApart` (`NoCollision`), `Sources` follows positive numbers from the
walk into `param_refs`, from there into the list of the element whose walk holds the `$n`,
and into the constants that took over this list (`copied`); all other numbers are negative and
come out above `extern`, which no `$n` walked exceeds.

`PlainGroupItemsShare` is about an element that was walked, numbered and listed long before
the item that repeats it. `SInv` follows such an element: one of nothing but constants is the
innermost, so that its constants are the whole of the walk since it began and all of them are
in `param_refs` (`InElement`); once listed it keeps the numbers it got, as items change what
they walked themselves only (`PlainLists`); and one that is no longer on its list was taken
over by an earlier item (`Taken`, `Apart`). Theorems: `ShareInvariance` (`SInv`) and
`PlainItemsShare`, which also assumes `~Folding`: where equal fingerprints do not mean equal
shapes, an item can take the element of another one (see 8). As the shape does not tell a `$n`
from a constant, the property itself leaves out fingerprints that an element or an earlier item
with a `$n` has in the same SELECT (`bound`): that element comes first on the list, or that item
has taken the plain one off it. Elsewhere in the query there may be any `$n`.

**SplitProofs.** `FitsArray` is about two passes. The proof keeps, as a history, what
the first pass held after each token, and `IInv` says that the second pass holds the
same at the same token (`SecondPass`): it replays the first. Then the number of entries
written is at most the last count. Theorems: `ArraySuffices`, `FreeIsSafe`,
`SpansAreOrdered`.

That the spans are the statements is a matter of definitions that speak of the whole input,
which the second pass is compared with token by token: `FInv` says that since the last cut the
keyword flag, the parentheses and the start of the span are what those definitions say of the
stretch (`Segment`), and that the spans written are those of `Statements` that end before
`pos` (`FoundSoFar`). For the parser, `TreeInv` says the same of `reduced`: the statements
found are the stretches with a keyword between the separators so far, and each but the last
has the length that the next reduction gives it. A stretch between two separators is a
statement for both or for neither, and none of its ends is in a body or a parenthesis where
the input parses. Theorems: `StatementsAreFound`, `SplitsAgreeTheorem`.

**DeparseCommentsProofs.** No filter on statements is inductive by itself: a statement
emits what lies in front of the locations it comes to, in whatever order, and hands on to
the next one which comments are left. `IInv` says that `match_location` never decreases
(`Ordered`), so that the comments emitted or filtered out are always the first ones
(`FirstOnes`), and that all that was printed lies in front of the start of each statement to
come (`Behind`, `Located`): the nodes of a statement end where the next one begins.
Theorem: `CommentsOnceInOrderTheorem`.

`ScanInv` is about the loop over the tokens: what it has found is the comments of the query up
to the token (`AllFound`), each with the newlines that stand next to it, the ones still to be
handed to the next comment included (`Prior`). `EmitInv` is about what is reached: a comment
is printed or left out only when the deparser came to a location behind it (`OnlyReached`),
and all in front of such a location are (`AllReached`, `Current` for the statement at hand).
Theorems: `NewlinesOnceTheorem`, `EmittedWhenReachedTheorem`, and `LineCommentsEndTheorem`,
which assumes that the breaks of a text do not include the carriage return: with it the
property is false (see 8).

`CommentsInFront` is about what is printed after a comment, which no state looks back at.
`FrontInv` says that from a comment put back up to the node or statement it was looked up for,
nothing is printed but comments (`Pending`), and that this node then stands behind the comment
with no code in between (`StoodInFront`). That there is no code in between needs that all
comments in front of an earlier location are gone (`AllReached`), whatever the order of the
nodes, and that a comment is placed behind the last code in front of it, past other comments
(`AllFound`). Theorem: `CommentsInFrontTheorem`.

**FingerprintProofs.** `TokensAgree` is about the hash of the first context and the token
list, which is cut by one where the hash goes back to a copy from before the field. That
the copy is shorter by one string just then is what has to be shown, whatever happened in
between: a hash that an `ended` entry of `todo` saved is a proper prefix of the hash of its
context (`EntryIn`), entries of one context saved longer hashes the earlier they are done,
and a context is freed by a `digest` that is the last entry of it (`InOrder`); so what a
nested context does leaves the others alone. Theorems: `Invariant` (`IInv`),
`TokensAgreeTheorem`.

`SameAsReference` compares the walk, with its stack, contexts, caches and names taken back,
with `Expected`, a recursive function of the tree that has none of them. `After` says what an
entry of `todo` makes of the hash of its context, and `Chain` that these steps lead from the
hash of the innermost context over all of `todo` to the expected one (a `digest` compares the
hash of its context with what is expected of the item, and goes back to the context outside).
Every step of the walk keeps such a chain: what it calls adds up to what the entry it
replaces was to add. For a sorted list that needs more, all in `EInv`: the items are hashed
before the list is sorted or read from the cache (`ItemsHashed`, `CacheOK`), and while the
items of a list are written nobody sorts it again, as the walk is then below the list
(`Descends`, by a rank that each child has one more of than its parent, `IsRank`). The lemmas
about the operators: the order of hashes is a strict total order (`LessTransitive`,
`LessTotal`), so that every finite set of hashes can be listed in order (`SortedLists`) in
one way (`ListsOnce`), and any sorting of the items, repeated ones left out, writes this list
(`SortedOnce`, `InOrderOnce`), whichever of equal items comes first; the recursions of
`Expected` and `Ancestors` end (`ExpectedIs`, `AncestorsType`), since ranks are bounded and
parents come first. Theorems: `HashInvariant` (`IInv` and `EInv`), `SameAsReferenceTheorem`.

`VisitsBounded` bounds the visits of a node by a recursive function of the tree, which the
visits so far say nothing about; so `VWalk` keeps an account instead. The visits a node has
had and those that `todo` still has for it (`Pending`) are no more than the visits of its
parents, and one more from when the sorting of its list is called for (`Due`). A visit
of a parent pays for the calls it makes (`Spends`), and any other call for the one it is
replaced by. A new list is where the account would fail: it calls for its items,
and then for the sorting that calls for them again. That the second call is paid for once and for
all needs that no list is called to be sorted while it is being sorted or is cached
(`SortsAbove`, `SortsNew`: what is done before the sorting of a list is further down in
the tree, so that it never visits the list), and that an item has one sorted list only and
is in it once (`BranchesOK`). The account gives the bound by a least rank at which it would
fail (`Affords`), as the recursion of `Expense` ends (`ExpenseIs`) and sums over parents
grow with their terms (`TotalGrows`, `TotalNoLess`; the library has no theorems about its
sums, so that `SumExists` and `TotalIs` show that they are there). Theorems:
`VisitsInvariance` (`VInv`), `VisitsBoundedTheorem`.

**LoadObjectsProofs.** A reference is judged by the names known when it is looked at, rounds
after it was put on a list. `Sound` is what is kept of an item in the meantime: the names
visible at its place have been recorded, those recorded as self-references there are visible
only if redefined, and the CTEs it is inside of are recorded or used twice. Knowing more names
keeps items sound (`SoundGrows`), and `MainSound` and `BodySound` show that a statement and
the bodies of its WITH clause are put on the list sound, in spite of the bodies seeing less
than their statement. `IInv` adds that `call_items` holds at most one item, and none when a
round ends (`CallsInv`). Theorems: `NothingIsLeft`, `CtesAreHidden`, `SelfReferencesAreKept`.

**SummaryProofs.** The walk calls itself, goes through WHERE clauses twice, and leaves the first
time through by `return true` from any depth. `WalkInv` cuts `todo` in two: the calls of the
pass that saves filter columns, up to "saved", and those of the walk proper behind it
(`Saving`: the flag is set exactly while the first part is there; what is in it is the
condition of the clause, not recorded yet, and sub-SELECTs, at which the pass ends). With `E`
for the statements that the walk proper has entered, `Ahead` says that a statement whose
parent is in `E` is in `E` or is called exactly once by the second part, as itself or as
a CTE; so that an early end of the pass takes nothing away. `Columns`, `Found` and `Relations` relate
what was collected to `E`: a relation entered is in `range_vars` or has been judged, and none is
judged while calls are left, so that all CTE names are known (`NamesKnown`). `TreeInv` is
what the parser guarantees of trees. When `todo` is empty, `E` is all of the tree: else take the
least statement that is not in it; its parent is (`AllEntered`). Theorems: `WalkInvariance`
(`IInv`), `EverythingFoundOnceTheorem`, `CtesHiddenTheorem`, `FiltersRealTheorem`.

For the truncation of the same tree, `RoundsInv` says that the query is `Query(cut)` while
rounds go on, and that what was cut is at least as deep as all that is left to cut. Texts,
depths, bytes and what a statement is inside of are recursive functions, shown to exist and to be
what their equations say (`TextsAre`, `DepthsAre`, `AboveAre`, `BytesAre`, `SumsExist`); from
there on, arguments are by a least or greatest statement for which a claim is wrong.

- `DeepestFirstTheorem`: a part that contains another is less deep (`WithinLessDeep`), although
  the depths of the parts of one statement differ by up to two.
- `TextFitsTheorem`: a query that fits in bytes fits in characters (`FitsInBytes`); the hard
  cut bounds characters (`CutFits`), whatever their width, from a limit of 3 on.
- `RoundsShortenTheorem`: a cut never makes any text longer (`NoneLonger`). Texts inside a
  part are cut down to dots at the least, so that a part measured as longer than the dots
  before the first round is longer in the later ones (`LongStays`), although it shrinks. As
  nothing that the part is inside of was cut before it (`DeepestFirst`), the part still stands
  in the query, and each text from there to the outermost one gets shorter (`OuterShorter`,
  `RoundShorter`). A SET list and a list behind DISTINCT are cut to more than the dots, nine and
  ten bytes (`CutTargetBytes`): what was measured says nothing of them, and the property asks that
  they are longer than that when their turn comes (`Worthwhile`).

## 7. What is only model-checked, and what is not modelled

Only model-checked:

- liveness (`CallsReturn`, the fair parts of `ImplementsContract` and
  `MethodsImplementContract`), which the prover does not handle.

Where a property says something of all elements of recursive data and no more, a
least-element argument is enough (`AllEntered` in `SummaryProofs`), and so it is where it
compares two computations of the same recursive function (`ExpectedIs` and
`ExpenseIs` in `FingerprintProofs`, `NoneLonger` in `SummaryProofs`); such properties are
proved.

Not modelled, and why:

- vendored and third-party code (PostgreSQL, protobuf-c, xxHash) and generated tables
  (output and input functions, walker support, statement types): no state of this
  project's, or switches from one name to another. The parser, the deparser and the
  PL/pgSQL compiler appear as steps that may raise.
- the text between constants in `generate_normalized_query` and the length of each
  constant, found by a second lexer pass: conversions of text.
- the statements of the summary other than those of `Summary`: DROP, GRANT, RENAME and the
  like add relations and functions without a walk; MERGE is walked as DELETE is, and the table
  it takes its rows from is not reported (`spec/lib/summary_spec.rb:97` says so). The rest of the Ruby library: walks without memory
  and conversions.
- errors made without all fields of a `PgQueryError` (`pq/pg_query_fingerprint.c:375`,
  `pq/pg_query_summary.c:27`, `pq/pg_query_parse_plpgsql.c:497`), which the free functions
  and the Ruby methods read: they follow failures of `snprintf` or of the packing that no
  input brings about.
- In `Session`, allocation failures are raised where a call builds or walks; inside
  `pg_query_init` and at the entry of the context they would end the process in the
  same way and are left out.

## 8. Where the code and its promises part

Found while modelling; each of the numbered ones is a run that ends in a
counterexample.

1. `session_settings`: after a parse error the parser options of that call stay in
   force for scan, split by scanner and normalize in the same thread
   (`pq/pg_query_parse.c:75` restores on success only).
2. `normalize_param`: a `$n` in a target list element keeps the GROUP BY item that
   repeats it from sharing its numbers: `SELECT $1+1 FROM x GROUP BY $1+1` becomes
   `SELECT $1+$2 FROM x GROUP BY $1+$3`. The same happens with a sub-SELECT in
   the element (`SELECT 1+(SELECT 2) GROUP BY 1+(SELECT 2)`).
3. `summary_filters`: the walk that saves filter columns ends at the first sub-SELECT of a
   WHERE clause: `SELECT * FROM x WHERE y IN (SELECT 1) AND z = 1` reports y and not z.

And without a run of their own: a `$n` and a constant look the same in a fingerprint, so that a
GROUP BY item matches an element with a `$n` in the place of one of its constants, and the
counts agree if the item has none itself. The constant then gets the number of the `$n`, although
`highest_extern_param_id` is kept "in order to start normalization correctly"
(`pq/pg_query_normalize.c:40` and 518): `SELECT $1 || 'a' FROM x GROUP BY 'b' || 'a'` becomes
`SELECT $1 || $2 FROM x GROUP BY $1 || $2`, and `NumbersAfterParams` fails with the constants of
`NormalizeParam.cfg`. In the same way an element with a `$n` that comes first is taken in
place of a plain one: `SELECT $1 || 'a', 'b' || 'a' FROM x GROUP BY 'b' || 'a'`. `NoCollision`
and `PlainGroupItemsShare` hold with these cases in the runs: without `Folding` there are no others.

Whether cutting a list makes the query shorter is decided by the length of three dots
(`pq/pg_query_summary_truncate.c:97`; line 96 says "Don't bother truncating if it won't become
shorter."), but behind DISTINCT `... AS ...` takes its place: `SELECT DISTINCT abcd FROM x` becomes
`SELECT DISTINCT ... AS ... FROM x`. So it is with `... = ...` for the list of an UPDATE's SET.
`EveryRoundShortens` fails with the constants of `Summary.cfg`; `RoundsShorten` is what is left.

The lexer ends a `--` comment at a carriage return, too, but only
newlines are counted (`pq/pg_query_deparse.c:160`), so that `SELECT -- foo<CR>a` deparsed with its
comments becomes `SELECT -- fooa`: `LineCommentsEnd` fails with `Breaks = {"newline", "return"}`.
A `$n` that the walk of normalize does not meet is not counted, and a
constant gets its number: `SELECT 1::numeric($1), 3` becomes `SELECT $1::numeric($1), $2`
(`NoCollision` speaks of the `$n` walked). After an unbalanced parenthesis the scanner split
drops the rest of the input and reports no error (`SELECT 1); SELECT 2` has no statement;
`StatementsFound` takes this view). Memory is lost where calls and methods fail, in the
places that `LosesOnly` names: `pg_query_parse_plpgsql` loses `stderr_buffer` on its early
returns (lines 463 to 482), `pg_query_summary` where something raises after the parse,
`pg_query_free_deparse_comments_result` does not free the error, and
`pg_query_ruby_deparse_protobuf_opts` raises the error of the deparser, or of a comment
that does not convert, before it frees the comments (`pq/pg_query_ruby.c:265`).

`pg_query_exit` frees the contexts but leaves them registered; the exit
of the thread frees them again (`pq/pg_query.c:73`; `CallsExit` and `NoWildAccess` show it).
A further call after `pg_query_exit` finds the thread initialised and has no context to
allocate in, although `pg_query.h:161` calls the function optional cleanup without
saying that it is the last one (`NotTerminated`). `const_record_walker` returns from inside its PG_TRY
(`pq/pg_query_normalize.c:587`), which leaves a stale handler until the outer block ends;
`ErrorsContained` shows that no error is raised in that window unless an allocation
fails. With `Folding`, an item can take an element off the list that only looks
like it (`SELECT a IN (1,2), a IN (3) ... GROUP BY a IN (3), a IN (1,2)`). With
`DeepTrees`, an element nested more than 100 levels deep can hold a SELECT that the
fingerprint does not tell of, and `HighestIsNext` fails. After a lexer error in the second
statement, `n_stmts` of the result is 1 while `stmts` is NULL; the free function copes.

`LoadObjects` states what holds of the lookup, and the conditions in its properties name
what does not: a comment in `rb/parse.rb:393` has it that `cte_reference?` "determines
whether a RangeVar refers to a CTE rather than to a relation", but

- CTE names are one list for the whole input: table x of `SELECT * FROM a, x; WITH x AS
  (SELECT 1) SELECT * FROM x` is not reported, as it comes up in the second round, when
  the name is known (without `a` it is), and in `WITH a AS (SELECT * FROM b), b AS (SELECT 1) SELECT 1`
  table b is not;
- a second CTE of a name is not searched for self-references, so that the table in
  `WITH x AS (SELECT 1) SELECT * FROM x; WITH x AS (SELECT * FROM x) SELECT 1` is not
  reported (`again` in `SelfReferencesKept`);
- a name defined again in its own body is recorded as a self-reference although it is
  the inner CTE: `WITH x AS (WITH x AS (SELECT 1) SELECT * FROM x) SELECT 1` reports a
  table x (`redefined` in `CtesHidden`).

`Summary` models these as they are, and its properties leave them out:

- the hard cut gives `pg_mbcharcliplen` the number of characters as the number of bytes
  (`pq/pg_query_summary_truncate.c:85`), so that a text that is not ASCII is cut shorter
  than the limit: 25 characters with nine of two bytes become 23 under a limit of 24;
- cuts are tried when the text has more *bytes* than the limit, while `rb/truncate.rb:11`
  counts characters, although `rb/summary.rb:10` calls the two equivalent;
- a limit below 3 gives three dots, and of a negative limit other than -1 only the first
  cut is made;
- a CTE hides its name in the whole input, not only where it is visible: `WITH x AS (SELECT 1)
  INSERT INTO x SELECT * FROM x` reports no table;
- a function in the WHERE clause of a COPY is not reported, as no part of a COPY of a table
  is walked;
- CTE names leak from one statement of an input into the others in the same way; the tree of the
  model has one statement at its root;
- a function in a WHERE clause is added by both passes and is reported twice, if it
  comes before the first sub-SELECT.
