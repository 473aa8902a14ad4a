------------------------------ MODULE Session ------------------------------
(***************************************************************************)
(* The runtime every entry point of the C library runs in: the per-thread   *)
(* memory contexts (pg_query.c), the stack of PG_TRY handlers (elog.h,      *)
(* elog.c), the lexer settings of pg_query_raw_parse, and the malloc-ed     *)
(* pieces of a result, followed through the whole body of each API call.    *)
(* What a call computes is left to the other modules.                       *)
(***************************************************************************)
EXTENDS Naturals, FiniteSets

CONSTANTS
  Threads,            \* threads of the host program
  Ops,                \* API functions the host calls, a subset of AllOps
  ParserOptions,      \* combinations of backslash_quote, standard_conforming_strings, ...
  DefaultOptions,     \* the combination of PG_QUERY_PARSE_DEFAULT
  MaxKeys,            \* PTHREAD_KEYS_MAX
  MaxCalls,           \* bound: API calls of one thread
  MaxFrames,          \* bound: nested PG_TRY blocks
  MaxNodes,           \* bound: parse tree nodes walked by one call
  MaxStmts,           \* bound: PL/pgSQL bodies of one input
  AllocationFailures, \* TRUE: palloc may raise "out of memory"
  CallsExit           \* TRUE: the host may call pg_query_exit

AllOps == {"parse", "fingerprint", "is_utility", "split_with_parser", "plpgsql",
           "summary", "scan", "split_with_scanner", "normalize", "deparse",
           "deparse_comments"}

\* The functions that hand their input to pg_query_raw_parse.
RawParseOps == {"parse", "fingerprint", "is_utility", "split_with_parser",
                "plpgsql", "summary"}

\* The functions that pass the caller's parser_options on.
OptionOps == {"parse", "fingerprint", "summary"}

\* The functions whose body is one PG_TRY block.
TryOps == {"summary", "scan", "split_with_scanner", "normalize", "deparse",
           "deparse_comments"}

ASSUME SessionAssumption ==
  /\ Ops \subseteq AllOps
  /\ DefaultOptions \in ParserOptions
  /\ MaxKeys \in Nat /\ MaxCalls \in Nat /\ MaxNodes \in Nat /\ MaxStmts \in Nat
  /\ MaxFrames \in Nat /\ MaxFrames >= 2
  /\ AllocationFailures \in BOOLEAN /\ CallsExit \in BOOLEAN

VARIABLES
  exitKey,     \* static pg_query_thread_exit_key, shared by all threads; 0 before the first key
  keys,        \* pthread keys created so far
  process,     \* "running", or how the host process was lost
  initialized, \* the threads whose pg_query_initialized is set
  registered,  \* the threads with a value stored under the key
  live,        \* per thread: the memory contexts that are alive
  current,     \* per thread: CurrentMemoryContext
  depth,       \* per thread: PG_TRY blocks that are live on the C stack
  handler,     \* per thread: the block PG_exception_stack points to, 0 for NULL
  saved,       \* per thread and block: its _save_exception_stack
  kind,        \* per thread and block: the function that opened it
  errors,      \* per thread: errors on the errordata stack
  settings,    \* per thread: the lexer settings in force
  pc,          \* per thread: the step it is at
  op,          \* per thread: the API function it is in
  options,     \* per thread: the parser options it was called with
  lexed,       \* per thread: the settings the input was lexed under
  tree,        \* per thread: what raw_parser returned
  nodes,       \* per thread: parse tree nodes walked
  stmts,       \* per thread: PL/pgSQL bodies left to compile
  count,       \* per thread: calls made
  heap,        \* per thread: malloc-ed pieces not yet freed
  result       \* per thread: pieces the result struct points to

setup  == <<exitKey, keys, initialized, registered>>
mem    == <<live, current>>
stack  == <<depth, handler, saved, kind>>
input  == <<op, options, count>>
work   == <<lexed, tree, nodes, stmts>>
output == <<heap, result>>
vars   == <<setup, process, mem, stack, errors, settings, pc, input, work, output>>

\* What a call may malloc; "lost" stands for pieces an earlier call left behind.
Pieces == {"payload", "stderr_buffer", "error", "lost"}
Contexts == {"TopMemoryContext", "ErrorContext", "pg_query", "plpgsql"}
Frames == 1 .. MaxFrames
FrameKinds == {"raw_parse", "api", "walker", "compile"}
Pcs == {"idle", "init", "key_create", "set_specific", "enter", "try", "raw_parse",
        "parsing", "parsed", "lex", "walk", "visit", "build", "compile", "compiling",
        "end_try", "catch", "leave", "returned", "exited"}

TypeOK ==
  /\ exitKey \in 0 .. MaxKeys
  /\ keys \in 0 .. MaxKeys
  /\ process \in {"running", "terminated", "undefined"}
  /\ initialized \subseteq Threads
  /\ registered \subseteq Threads
  /\ live \in [Threads -> SUBSET Contexts]
  /\ current \in [Threads -> Contexts \cup {"NULL"}]
  /\ depth \in [Threads -> 0 .. MaxFrames]
  /\ handler \in [Threads -> 0 .. MaxFrames]
  /\ saved \in [Threads -> [Frames -> 0 .. MaxFrames]]
  /\ kind \in [Threads -> [Frames -> FrameKinds]]
  /\ errors \in [Threads -> 0 .. 1]
  /\ settings \in [Threads -> ParserOptions]
  /\ pc \in [Threads -> Pcs]
  /\ op \in [Threads -> AllOps]
  /\ options \in [Threads -> ParserOptions]
  /\ lexed \in [Threads -> ParserOptions]
  /\ tree \in [Threads -> {"NIL", "list"}]
  /\ nodes \in [Threads -> 0 .. MaxNodes]
  /\ stmts \in [Threads -> 0 .. MaxStmts]
  /\ count \in [Threads -> 0 .. MaxCalls]
  /\ heap \in [Threads -> SUBSET Pieces]
  /\ result \in [Threads -> SUBSET Pieces]

Init ==
  /\ exitKey = 0 /\ keys = 0 /\ process = "running"
  /\ initialized = {} /\ registered = {}
  /\ live = [t \in Threads |-> {}] /\ current = [t \in Threads |-> "NULL"]
  /\ depth = [t \in Threads |-> 0] /\ handler = [t \in Threads |-> 0]
  /\ saved = [t \in Threads |-> [f \in Frames |-> 0]]
  /\ kind = [t \in Threads |-> [f \in Frames |-> "api"]]
  /\ errors = [t \in Threads |-> 0]
  /\ settings = [t \in Threads |-> DefaultOptions]
  /\ pc = [t \in Threads |-> "idle"] /\ op = [t \in Threads |-> "parse"]
  /\ options = [t \in Threads |-> DefaultOptions]
  /\ lexed = [t \in Threads |-> DefaultOptions]
  /\ tree = [t \in Threads |-> "NIL"]
  /\ nodes = [t \in Threads |-> 0] /\ stmts = [t \in Threads |-> 0]
  /\ count = [t \in Threads |-> 0]
  /\ heap = [t \in Threads |-> {}] /\ result = [t \in Threads |-> {}]

At(t, step) == process = "running" /\ pc[t] = step

Goto(t, step) == pc' = [pc EXCEPT ![t] = step]

\* TopMemoryContext and ErrorContext are not NULL; they live and die together.
HasTop(t) == "TopMemoryContext" \in live[t]

-----------------------------------------------------------------------------
(* The PG_TRY macros. A frame is a PG_TRY block that is live on the C stack. *)
(* A handler above depth points into a stack frame that has returned.       *)

\* PG_TRY
Try(t, what) ==
  /\ depth' = [depth EXCEPT ![t] = @ + 1]
  /\ handler' = [handler EXCEPT ![t] = depth[t] + 1]
  /\ saved' = [saved EXCEPT ![t][depth[t] + 1] = handler[t]]
  /\ kind' = [kind EXCEPT ![t][depth[t] + 1] = what]


\* Mutant: PG_END_TRY leaves PG_exception_stack alone.
TryEndsKeepingHandler(t) ==
  /\ depth' = [depth EXCEPT ![t] = @ - 1]
  /\ UNCHANGED <<handler, saved, kind>>

\* PG_END_TRY, on either way out of the block
TryEnds(t) ==
  /\ depth' = [depth EXCEPT ![t] = @ - 1]
  /\ handler' = [handler EXCEPT ![t] = saved[t][depth[t]]]
  /\ UNCHANGED <<saved, kind>>

InWalker(t) == depth[t] > 0 /\ kind[t][depth[t]] = "walker"

\* ereport(ERROR): without a handler the error is promoted to FATAL, without an
\* ErrorContext errstart gives up; otherwise siglongjmp to the handler.
Raise(t) ==
  /\ IF handler[t] = 0 \/ ~HasTop(t)
     THEN process' = "terminated" /\ UNCHANGED <<current, depth, errors, pc>>
     ELSE IF handler[t] > depth[t]
     THEN process' = "undefined" /\ UNCHANGED <<current, depth, errors, pc>>
     ELSE /\ current' = [current EXCEPT ![t] = "ErrorContext"]
          /\ depth' = [depth EXCEPT ![t] = handler[t]]
          /\ errors' = [errors EXCEPT ![t] = 1]
          /\ Goto(t, "catch")
          /\ UNCHANGED process
  /\ UNCHANGED <<setup, live, handler, saved, kind, settings, input, work, output>>

-----------------------------------------------------------------------------
(* pg_query_init, pg_query_enter_memory_context, pg_query_exit_memory_context. *)

Call(t) ==
  /\ At(t, "idle") /\ count[t] < MaxCalls
  /\ \E f \in Ops :
       /\ op' = [op EXCEPT ![t] = f]
       /\ \E o \in IF f \in OptionOps THEN ParserOptions ELSE {DefaultOptions} :
            options' = [options EXCEPT ![t] = o]
  /\ tree' = [tree EXCEPT ![t] = "NIL"]
  /\ nodes' = [nodes EXCEPT ![t] = 0]
  /\ stmts' = [stmts EXCEPT ![t] = 0]
  /\ count' = [count EXCEPT ![t] = @ + 1]
  /\ Goto(t, IF t \in initialized THEN "enter" ELSE "init")
  /\ UNCHANGED <<setup, process, mem, stack, errors, settings, lexed, output>>

InitContexts(t) ==
  /\ At(t, "init")
  /\ initialized' = initialized \cup {t}
  /\ live' = [live EXCEPT ![t] = {"TopMemoryContext", "ErrorContext"}]
  /\ current' = [current EXCEPT ![t] = "TopMemoryContext"]
  /\ Goto(t, "key_create")
  /\ UNCHANGED <<exitKey, keys, registered, process, stack, errors, settings, input,
                 work, output>>


\* Mutant: pg_query_init gives up when pthread_key_create fails.
KeyCreateChecked(t) ==
  /\ At(t, "key_create")
  /\ IF keys < MaxKeys
     THEN keys' = keys + 1 /\ exitKey' = keys + 1 /\ Goto(t, "set_specific")
     ELSE UNCHANGED <<keys, exitKey>> /\ Goto(t, "enter")
  /\ UNCHANGED <<initialized, registered, process, mem, stack, errors, settings,
                 input, work, output>>

\* A failed pthread_key_create leaves the key of an earlier thread in place.
KeyCreate(t) ==
  /\ At(t, "key_create")
  /\ IF keys < MaxKeys
     THEN keys' = keys + 1 /\ exitKey' = keys + 1
     ELSE UNCHANGED <<keys, exitKey>>
  /\ Goto(t, "set_specific")
  /\ UNCHANGED <<initialized, registered, process, mem, stack, errors, settings,
                 input, work, output>>

SetSpecific(t) ==
  /\ At(t, "set_specific")
  /\ registered' = IF exitKey = 0 THEN registered ELSE registered \cup {t}
  /\ Goto(t, "enter")
  /\ UNCHANGED <<exitKey, keys, initialized, process, mem, stack, errors, settings,
                 input, work, output>>

EnterMemoryContext(t) ==
  /\ At(t, "enter")
  /\ live' = [live EXCEPT ![t] = @ \cup {"pg_query"}]
  /\ current' = [current EXCEPT ![t] = "pg_query"]
  /\ Goto(t, IF op[t] \in TryOps THEN "try" ELSE "raw_parse")
  /\ UNCHANGED <<setup, process, stack, errors, settings, input, work, output>>


\* Mutant: the call context is left to the next call.
ExitMemoryContextLate(t) ==
  /\ At(t, "leave")
  /\ current' = [current EXCEPT ![t] = IF HasTop(t) THEN "TopMemoryContext" ELSE "NULL"]
  /\ UNCHANGED live
  /\ Goto(t, "returned")
  /\ UNCHANGED <<setup, process, stack, errors, settings, input, work, output>>

\* deparse_comments_for_query goes on after pg_query_scan has returned and frees
\* the scan result it was built from.
ExitMemoryContext(t) ==
  /\ At(t, "leave")
  /\ live' = [live EXCEPT ![t] = @ \ {"pg_query", "plpgsql"}]
  /\ current' = [current EXCEPT ![t] = IF HasTop(t) THEN "TopMemoryContext" ELSE "NULL"]
  /\ IF op[t] = "deparse_comments"
     THEN /\ heap' = [heap EXCEPT ![t] = @ \ {"stderr_buffer"}]
          /\ result' = [result EXCEPT ![t] = @ \ {"stderr_buffer"}]
     ELSE UNCHANGED output
  /\ Goto(t, "returned")
  /\ UNCHANGED <<setup, process, stack, errors, settings, input, work>>

-----------------------------------------------------------------------------
(* The bodies of the calls.                                                  *)

BeginTry(t) ==
  /\ At(t, "try")
  /\ Try(t, "api")
  /\ Goto(t, CASE op[t] = "summary" -> "raw_parse"
               [] op[t] = "deparse" -> "build"
               [] OTHER -> "lex")
  /\ UNCHANGED <<setup, process, mem, errors, settings, input, work, output>>


\* Mutant: the settings are assigned only when an option asks for it.
RawParseSettingsOnRequest(t) ==
  /\ At(t, "raw_parse")
  /\ Try(t, "raw_parse")
  /\ settings' = IF options[t] = DefaultOptions THEN settings
                 ELSE [settings EXCEPT ![t] = options[t]]
  /\ Goto(t, "parsing")
  /\ UNCHANGED <<setup, process, mem, errors, input, work, output>>

\* pg_query_raw_parse up to the call of raw_parser
RawParse(t) ==
  /\ At(t, "raw_parse")
  /\ Try(t, "raw_parse")
  /\ settings' = [settings EXCEPT ![t] = options[t]]
  /\ Goto(t, "parsing")
  /\ UNCHANGED <<setup, process, mem, errors, input, work, output>>

\* raw_parser returned, with NIL for an input without statements
RawParseReturns(t) ==
  /\ At(t, "parsing")
  /\ \E list \in {"NIL", "list"} : tree' = [tree EXCEPT ![t] = list]
  /\ lexed' = [lexed EXCEPT ![t] = settings[t]]
  /\ settings' = [settings EXCEPT ![t] = DefaultOptions]
  /\ heap' = [heap EXCEPT ![t] = @ \cup {"stderr_buffer"}]
  /\ TryEnds(t)
  /\ Goto(t, "parsed")
  /\ UNCHANGED <<setup, process, mem, errors, input, nodes, stmts, result>>

\* Whether the caller of pg_query_raw_parse has something to do with its result:
\* pg_query_parse prints any tree, the others stop at an error or an empty tree.
GoesOn(t) ==
  LET failed == "error" \in heap[t]
  IN  \/ op[t] = "parse"
      \/ op[t] = "fingerprint" /\ (tree[t] # "NIL" \/ ~failed)
      \/ op[t] = "split_with_parser" /\ tree[t] # "NIL"
      \/ op[t] \in {"is_utility", "plpgsql", "summary"} /\ ~failed

\* What each caller of pg_query_raw_parse does with the tree and the error.
AfterRawParse(t) ==
  /\ At(t, "parsed")
  /\ result' = [result EXCEPT ![t] =
       heap[t] \cap IF op[t] \in {"parse", "fingerprint", "split_with_parser"}
                     THEN {"error", "stderr_buffer"} ELSE {"error"}]
  /\ Goto(t, IF ~GoesOn(t) THEN IF op[t] = "summary" THEN "end_try" ELSE "leave"
             ELSE IF op[t] = "plpgsql" THEN "walk" ELSE "build")
  /\ UNCHANGED <<setup, process, mem, stack, errors, settings, input, work, heap>>

\* The scanner passes of pg_query_scan and pg_query_split_with_scanner, the
\* raw_parser call of pg_query_normalize_ext: all use the settings in force.
Lex(t) ==
  /\ At(t, "lex")
  /\ lexed' = [lexed EXCEPT ![t] = settings[t]]
  /\ Goto(t, IF op[t] = "normalize" THEN "walk" ELSE "build")
  /\ UNCHANGED <<setup, process, mem, stack, errors, settings, input, tree, nodes,
                 stmts, output>>

\* const_record_walker and stmts_walker open a PG_TRY block for every node and
\* call raw_expression_tree_walker in it.
WalkNode(t) ==
  /\ At(t, "walk") /\ depth[t] < MaxFrames /\ nodes[t] < MaxNodes
  /\ Try(t, "walker")
  /\ nodes' = [nodes EXCEPT ![t] = @ + 1]
  /\ Goto(t, "visit")
  /\ UNCHANGED <<setup, process, mem, errors, settings, input, lexed, tree, stmts,
                 output>>

\* A node type raw_expression_tree_walker knows: on to its children.
VisitChildren(t) ==
  /\ At(t, "visit")
  /\ Goto(t, "walk")
  /\ UNCHANGED <<setup, process, mem, stack, errors, settings, input, work, output>>

\* stmts_walker leaves the block through PG_END_TRY, const_record_walker returns
\* from inside it, so that PG_exception_stack keeps pointing to it.
LeavesWalker(t) ==
  IF op[t] = "normalize"
  THEN depth' = [depth EXCEPT ![t] = @ - 1] /\ UNCHANGED <<handler, saved, kind>>
  ELSE TryEnds(t)

WalkReturn(t) ==
  /\ At(t, "walk") /\ InWalker(t)
  /\ LeavesWalker(t)
  /\ UNCHANGED <<setup, process, mem, errors, settings, pc, input, work, output>>

WalkDone(t) ==
  /\ At(t, "walk") /\ ~InWalker(t)
  /\ \E n \in IF op[t] = "plpgsql" THEN 0 .. MaxStmts ELSE {0} :
       stmts' = [stmts EXCEPT ![t] = n]
  /\ Goto(t, "build")
  /\ UNCHANGED <<setup, process, mem, stack, errors, settings, input, lexed, tree,
                 nodes, output>>


\* Mutant: summary and the scanner functions keep the stderr_buffer to themselves.
BuiltPayloadOnly(t) == result[t] \cup {"payload"}

\* Mutant: is_utility hands out the stderr_buffer it frees.
BuiltWithStderr(t) ==
  CASE op[t] \in {"scan", "split_with_scanner", "deparse_comments", "summary",
                       "is_utility"} -> {"payload", "stderr_buffer"}
    [] OTHER -> result[t] \cup {"payload"}

\* The pieces a result points to once its payload is complete.
Built(t) ==
  CASE op[t] \in {"scan", "split_with_scanner", "deparse_comments", "summary"} ->
         {"payload", "stderr_buffer"}
    [] OTHER -> result[t] \cup {"payload"}


\* Mutant: is_utility does not free the stderr_buffer.
BuildKeepingStderr(t) ==
  /\ At(t, "build")
  /\ result' = [result EXCEPT ![t] = Built(t)]
  /\ heap' = [heap EXCEPT ![t] = @ \cup Built(t)]
  /\ Goto(t, IF op[t] \in TryOps THEN "end_try"
             ELSE IF op[t] = "plpgsql" /\ stmts[t] > 0 THEN "compile" ELSE "leave")
  /\ UNCHANGED <<setup, process, mem, stack, errors, settings, input, work>>

Build(t) ==
  /\ At(t, "build")
  /\ result' = [result EXCEPT ![t] = Built(t)]
  /\ heap' = [heap EXCEPT ![t] = IF op[t] = "is_utility"
                                 THEN (@ \cup Built(t)) \ {"stderr_buffer"}
                                 ELSE @ \cup Built(t)]
  /\ Goto(t, IF op[t] \in TryOps THEN "end_try"
             ELSE IF op[t] = "plpgsql" /\ stmts[t] > 0 THEN "compile" ELSE "leave")
  /\ UNCHANGED <<setup, process, mem, stack, errors, settings, input, work>>


\* Mutant: the loop over the statements runs once too often.
CompileNextTooFar(t) ==
  /\ At(t, "compile")
  /\ Try(t, "compile")
  /\ live' = [live EXCEPT ![t] = @ \cup {"plpgsql"}]
  /\ current' = [current EXCEPT ![t] = "plpgsql"]
  /\ Goto(t, "compiling")
  /\ UNCHANGED <<setup, process, errors, settings, input, work, output>>

\* The loop of pg_query_parse_plpgsql over the statements found.
CompileNext(t) ==
  /\ At(t, "compile") /\ stmts[t] > 0
  /\ Try(t, "compile")
  /\ live' = [live EXCEPT ![t] = @ \cup {"plpgsql"}]
  /\ current' = [current EXCEPT ![t] = "plpgsql"]
  /\ Goto(t, "compiling")
  /\ UNCHANGED <<setup, process, errors, settings, input, work, output>>

Compiled(t) ==
  /\ At(t, "compiling")
  /\ TryEnds(t)
  /\ live' = [live EXCEPT ![t] = @ \ {"plpgsql"}]
  /\ current' = [current EXCEPT ![t] = "pg_query"]
  /\ stmts' = [stmts EXCEPT ![t] = @ - 1]
  /\ Goto(t, "compile")
  /\ UNCHANGED <<setup, process, errors, settings, input, lexed, tree, nodes, output>>

CompileDone(t) ==
  /\ At(t, "compile") /\ stmts[t] = 0
  /\ heap' = [heap EXCEPT ![t] = @ \ {"stderr_buffer"}]
  /\ Goto(t, "leave")
  /\ UNCHANGED <<setup, process, mem, stack, errors, settings, input, work, result>>

EndTry(t) ==
  /\ At(t, "end_try")
  /\ TryEnds(t)
  /\ Goto(t, "leave")
  /\ UNCHANGED <<setup, process, mem, errors, settings, input, work, output>>

-----------------------------------------------------------------------------
(* Errors.                                                                   *)

\* Where the code raises: a syntax or lexer error, a node type the tree walker
\* does not know, a tree that cannot be deparsed or summarised, PL/pgSQL that
\* does not compile; and, if allocations can fail, wherever memory is allocated.
Raises(t) ==
  \/ pc[t] \in {"parsing", "lex", "visit", "compiling"}
  \/ pc[t] = "build" /\ op[t] \in {"deparse", "summary"}
  \/ AllocationFailures /\ pc[t] \in {"walk", "build"}

Error(t) == process = "running" /\ Raises(t) /\ Raise(t)


\* Mutant: a failed raw_parser call is tried again.
CatchAndRetry(t) ==
  LET k == kind[t][depth[t]]
  IN
  /\ At(t, "catch")
  /\ TryEnds(t)
  /\ errors' = [errors EXCEPT ![t] = 0]
  /\ current' = [current EXCEPT ![t] = "pg_query"]
  /\ Goto(t, IF k = "raw_parse" THEN "raw_parse" ELSE "leave")
  /\ UNCHANGED <<setup, process, live, settings, input, work, output>>

\* Mutant: a handler copies the error without switching back to its context.
CatchInErrorContext(t) ==
  LET k == kind[t][depth[t]]
  IN
  /\ At(t, "catch")
  /\ TryEnds(t)
  /\ heap' = [heap EXCEPT ![t] = IF k = "walker" THEN @ ELSE @ \cup {"error"}]
  /\ result' = [result EXCEPT ![t] = IF k \in {"api", "compile"}
                                     THEN @ \cup {"error"} ELSE @]
  /\ Goto(t, CASE k = "walker"    -> "walk"
               [] k = "raw_parse" -> "parsed"
               [] OTHER              -> "leave")
  /\ UNCHANGED <<setup, process, mem, errors, settings, input, work>>

\* The PG_CATCH block and the PG_END_TRY after it, by the kind of frame. The
\* walkers swallow the error, the others turn it into a malloc-ed PgQueryError.
Catch(t) ==
  LET k == kind[t][depth[t]]
  IN
  /\ At(t, "catch")
  /\ TryEnds(t)
  /\ errors' = [errors EXCEPT ![t] = 0]
  /\ current' = [current EXCEPT ![t] = "pg_query"]
  /\ heap' = [heap EXCEPT ![t] = IF k = "walker" THEN @ ELSE @ \cup {"error"}]
  /\ result' = [result EXCEPT ![t] = IF k \in {"api", "compile"}
                                     THEN @ \cup {"error"} ELSE @]
  /\ Goto(t, CASE k = "walker"    -> "walk"
               [] k = "raw_parse" -> "parsed"
               [] OTHER              -> "leave")
  /\ UNCHANGED <<setup, process, live, settings, input, work>>

-----------------------------------------------------------------------------
(* The host: frees a result, ends a thread, calls pg_query_exit.             *)

\* pg_query_free_deparse_comments_result does not look at the error.
Freed(f, pieces) == IF f = "deparse_comments" THEN pieces \ {"error"} ELSE pieces

FreeResult(t) ==
  /\ At(t, "returned")
  /\ heap' = [heap EXCEPT ![t] = IF @ \subseteq Freed(op[t], result[t]) THEN {} ELSE {"lost"}]
  /\ result' = [result EXCEPT ![t] = {}]
  /\ Goto(t, "idle")
  /\ UNCHANGED <<setup, process, mem, stack, errors, settings, input, work>>

FreeTop(t) ==
  /\ live' = [live EXCEPT ![t] = {}]
  /\ current' = [current EXCEPT ![t] = "NULL"]

\* The destructor gets the context pointer that was stored under the key.
ThreadExit(t) ==
  /\ At(t, "idle")
  /\ IF t \notin registered THEN UNCHANGED <<process, mem>>
     ELSE IF HasTop(t) THEN FreeTop(t) /\ UNCHANGED process
     ELSE process' = "undefined" /\ UNCHANGED mem
  /\ Goto(t, "exited")
  /\ UNCHANGED <<setup, stack, errors, settings, input, work, output>>

PgQueryExit(t) ==
  /\ CallsExit /\ At(t, "idle") /\ HasTop(t)
  /\ FreeTop(t)
  /\ UNCHANGED <<setup, process, stack, errors, settings, pc, input, work, output>>

-----------------------------------------------------------------------------

\* The steps of a call: what the thread does by itself once it has been called.
Step(t) ==
  \/ InitContexts(t) \/ KeyCreate(t) \/ SetSpecific(t) \/ EnterMemoryContext(t)
  \/ BeginTry(t) \/ RawParse(t) \/ RawParseReturns(t) \/ AfterRawParse(t) \/ Lex(t)
  \/ WalkNode(t) \/ VisitChildren(t) \/ WalkReturn(t) \/ WalkDone(t) \/ Build(t)
  \/ CompileNext(t) \/ Compiled(t) \/ CompileDone(t) \/ EndTry(t)
  \/ Error(t) \/ Catch(t) \/ ExitMemoryContext(t)

Host(t) == Call(t) \/ FreeResult(t) \/ ThreadExit(t) \/ PgQueryExit(t)

Next == \E t \in Threads : Step(t) \/ Host(t)

Spec == Init /\ [][Next]_vars

\* A thread that runs gets on with the call it is in; whether the host calls,
\* frees or exits is up to the host.
FairSpec == Spec /\ \A t \in Threads : WF_vars(Step(t))

-----------------------------------------------------------------------------
(* Correctness.                                                              *)

\* Between two calls, and after one that failed half-way, the thread's runtime is
\* as pg_query_init left it: no call context is alive, the current context is the
\* top-level one, PG_exception_stack is NULL and the error state is flushed.
Pristine(t) ==
  /\ live[t] = IF HasTop(t) THEN {"TopMemoryContext", "ErrorContext"} ELSE {}
  /\ current[t] = IF HasTop(t) THEN "TopMemoryContext" ELSE "NULL"
  /\ depth[t] = 0 /\ handler[t] = 0 /\ errors[t] = 0

ReadyBetweenCalls ==
  \A t \in Threads : pc[t] \in {"idle", "returned", "exited"} => Pristine(t)

\* No error of a call ends the host process or jumps into a dead frame: whatever
\* a call raises, it raises where PG_exception_stack leads to a live PG_CATCH.
ErrorsStayInside == process = "running"

\* The two halves of it: the library neither exits the host's process ...
NotTerminated == process # "terminated"

\* ... nor uses memory that is gone (a freed context, a returned stack frame).
NoWildAccess == process # "undefined"

\* A finished call lexed its input under the settings asked for: the caller's
\* parser_options where it passes them, the defaults otherwise, whatever an earlier
\* call of the same thread used or failed with.
LexedAsRequested ==
  \A t \in Threads :
    pc[t] = "returned" /\ "error" \notin result[t] /\ op[t] # "deparse" =>
      lexed[t] = options[t]

\* What a result struct points to has not been freed, and a result without an
\* error has a payload (split_with_parser returns none for an empty input).
ResultOwned ==
  \A t \in Threads :
    pc[t] = "returned" =>
      /\ result[t] \subseteq heap[t]
      /\ \/ result[t] \cap {"payload", "error"} # {}
         \/ op[t] = "split_with_parser" /\ tree[t] = "NIL"

\* Once the host has freed the result, nothing the call malloc-ed is left.
NothingLeaked == \A t \in Threads : pc[t] = "idle" => heap[t] = {}

\* Memory contexts of a thread do not outlive it, in whatever order the threads
\* overwrite the shared key and whether or not a key could be created for it.
ExitedThreadsFreed ==
  \A t \in Threads : pc[t] = "exited" => live[t] = {}

\* Every call returns to its caller, on the error paths too, unless the host loses
\* its process (which ErrorsStayInside excludes where no allocation fails).
CallsReturn ==
  \A t \in Threads : pc[t] = "enter" ~> pc[t] = "returned" \/ process # "running"

-----------------------------------------------------------------------------
(* Session implements ApiContract.                                           *)

Phase(t) ==
  IF pc[t] = "idle" THEN "idle" ELSE IF pc[t] = "returned" THEN "done"
  ELSE IF pc[t] = "exited" THEN "gone" ELSE "busy"

Outcome(t) ==
  IF pc[t] = "returned"
  THEN IF "error" \in result[t] THEN "error" ELSE "value"
  ELSE "none"

Contract == INSTANCE ApiContract WITH
  phase   <- [t \in Threads |-> Phase(t)],
  outcome <- [t \in Threads |-> Outcome(t)],
  clean   <- [t \in Threads |-> Pristine(t)]

\* The calls of every thread follow the contract of the library: each begun call
\* ends, with exactly one of value and error to look at, and cleans up behind it.
ImplementsContract == Contract!AFairSpec
=============================================================================
