--------------------------- MODULE SessionProofs ---------------------------
(***************************************************************************)
(* Proofs about Session for every set of threads and every bound.          *)
(***************************************************************************)
EXTENDS Session, TLAPS

\* The PG_TRY blocks a call keeps open from BeginTry to EndTry.
Base(t) == IF op[t] \in TryOps THEN 1 ELSE 0

Outside == {"idle", "init", "key_create", "set_specific", "enter", "returned", "exited"}

WalkOps == {"normalize", "plpgsql"}

\* Which functions reach which steps.
OpInv(t) ==
  /\ pc[t] \in {"try", "end_try"} => op[t] \in TryOps
  /\ pc[t] \in {"raw_parse", "parsing", "parsed"} => op[t] \in RawParseOps
  /\ pc[t] = "lex" => op[t] \in TryOps \ {"deparse", "summary"}
  /\ pc[t] \in {"walk", "visit"} => op[t] \in WalkOps
  /\ pc[t] \in {"compile", "compiling"} => op[t] = "plpgsql"
  /\ pc[t] = "compiling" => stmts[t] > 0

\* How many PG_TRY blocks are open at each step.
DepthInv(t) ==
  /\ pc[t] \in Outside \cup {"try", "leave"} => depth[t] = 0
  /\ pc[t] \in {"raw_parse", "parsed", "lex", "build", "end_try", "compile"} => depth[t] = Base(t)
  /\ pc[t] = "parsing" => depth[t] = Base(t) + 1
  /\ pc[t] = "walk" => depth[t] >= Base(t)
  /\ pc[t] = "visit" => depth[t] > Base(t)
  /\ pc[t] = "compiling" => depth[t] = 1
  /\ pc[t] = "catch" => depth[t] >= 1

\* Which function opened the blocks: the outermost one of a call with a body in
\* PG_TRY is the API function's, the ones above it are of what it called.
KindInv(t) ==
  /\ \A f \in Frames : f <= depth[t] => (kind[t][f] = "api" <=> f = Base(t))
  /\ pc[t] = "parsing" => kind[t][Base(t) + 1] = "raw_parse"
  /\ pc[t] = "compiling" => kind[t][1] = "compile"
  /\ pc[t] \in {"walk", "visit"} =>
       \A f \in Frames : Base(t) < f /\ f <= depth[t] => kind[t][f] = "walker"
  /\ pc[t] = "catch" =>
       CASE kind[t][depth[t]] = "raw_parse" -> depth[t] = Base(t) + 1 /\ op[t] \in RawParseOps
         [] kind[t][depth[t]] = "walker" ->
              /\ depth[t] > Base(t) /\ op[t] \in WalkOps
              /\ \A f \in Frames : Base(t) < f /\ f <= depth[t] => kind[t][f] = "walker"
         [] OTHER -> depth[t] = 1

\* Where PG_exception_stack points to. Only in the walk of normalize, which returns
\* from inside its blocks, does it run ahead of the blocks that are open.
HandlerInv(t) ==
  /\ handler[t] >= depth[t]
  /\ depth[t] = 0 => handler[t] = 0
  /\ op[t] # "normalize" \/ pc[t] \in {"visit", "lex"} => handler[t] = depth[t]
  /\ \A f \in Frames : f <= depth[t] =>
       saved[t][f] >= f - 1 /\ (op[t] # "normalize" \/ f = 1 => saved[t][f] = f - 1)

StackInv(t) == OpInv(t) /\ DepthInv(t) /\ KindInv(t) /\ HandlerInv(t)

\* Which contexts are alive, and when the error state is flushed.
MemInv(t) ==
  /\ live[t] \cap {"TopMemoryContext", "ErrorContext"} =
       IF HasTop(t) THEN {"TopMemoryContext", "ErrorContext"} ELSE {}
  /\ pc[t] \in Outside => /\ live[t] \cap {"pg_query", "plpgsql"} = {}
                          /\ current[t] = IF HasTop(t) THEN "TopMemoryContext" ELSE "NULL"
  /\ pc[t] = "catch" \/ errors[t] = 0

\* The inductive invariant.
IInv == TypeOK /\ \A t \in Threads : StackInv(t) /\ MemInv(t)

\* The part of TypeOK that PG_TRY and PG_END_TRY touch.
StackTypeOK ==
  /\ depth \in [Threads -> 0 .. MaxFrames]
  /\ handler \in [Threads -> 0 .. MaxFrames]
  /\ saved \in [Threads -> [Frames -> 0 .. MaxFrames]]
  /\ kind \in [Threads -> [Frames -> FrameKinds]]

\* The four variables of the handler stack keep their types under PG_TRY, ...
LEMMA TryType ==
  ASSUME StackTypeOK, NEW t \in Threads, depth[t] < MaxFrames,
         NEW what \in FrameKinds, Try(t, what)
  PROVE  StackTypeOK'
<1>1. depth' \in [Threads -> 0 .. MaxFrames]
  BY SessionAssumption DEF StackTypeOK, Try
<1>2. handler' \in [Threads -> 0 .. MaxFrames]
  BY SessionAssumption DEF StackTypeOK, Try
<1>3. saved' \in [Threads -> [Frames -> 0 .. MaxFrames]]
  BY SessionAssumption DEF StackTypeOK, Try
<1>4. kind' \in [Threads -> [Frames -> FrameKinds]]
  BY SessionAssumption DEF StackTypeOK, Try
<1> QED BY <1>1, <1>2, <1>3, <1>4 DEF StackTypeOK

\* ... under PG_END_TRY, ...
LEMMA TryEndsType ==
  ASSUME StackTypeOK, NEW t \in Threads, depth[t] > 0, TryEnds(t)
  PROVE  StackTypeOK'
<1>1. depth[t] \in Frames /\ depth[t] - 1 \in 0 .. MaxFrames
  BY SessionAssumption DEF StackTypeOK, Frames
<1>2. saved[t][depth[t]] \in 0 .. MaxFrames
  BY <1>1 DEF StackTypeOK
<1> QED BY <1>1, <1>2 DEF StackTypeOK, TryEnds

\* ... and when a walker returns.
LEMMA LeavesWalkerType ==
  ASSUME StackTypeOK, NEW t \in Threads, depth[t] > 0, LeavesWalker(t)
  PROVE  StackTypeOK'
<1>1. CASE TryEnds(t)
  BY <1>1, TryEndsType
<1>2. CASE depth' = [depth EXCEPT ![t] = @ - 1] /\ UNCHANGED <<handler, saved, kind>>
  BY <1>2, SessionAssumption DEF StackTypeOK
<1> QED BY <1>1, <1>2 DEF LeavesWalker

\* A step keeps every variable in its type. It needs the stack invariant of the thread
\* that takes it: no block is opened above MaxFrames and none is closed below 0.
LEMMA TypeStep ==
  ASSUME TypeOK, NEW t \in Threads, StackInv(t), Step(t) \/ Host(t)
  PROVE  TypeOK'
<1>0. StackTypeOK
  BY DEF TypeOK, StackTypeOK
<1>d. depth[t] \in 0 .. MaxFrames /\ Base(t) \in 0 .. 1 /\ MaxFrames \in Nat /\ MaxFrames >= 2
  BY SessionAssumption DEF TypeOK, Base
<1>1. ASSUME Call(t) PROVE TypeOK'
  BY <1>1, SessionAssumption
     DEF Call, TypeOK, At, Goto, setup, mem, stack, input, work, output, Pcs, AllOps
<1>2. ASSUME InitContexts(t) PROVE TypeOK'
  BY <1>2
     DEF InitContexts, TypeOK, At, Goto, setup, mem, stack, input, work, output, Pcs,
         Contexts
<1>3. ASSUME KeyCreate(t) PROVE TypeOK'
  BY <1>3, SessionAssumption
     DEF KeyCreate, TypeOK, At, Goto, setup, mem, stack, input, work, output, Pcs
<1>4. ASSUME SetSpecific(t) PROVE TypeOK'
  BY <1>4 DEF SetSpecific, TypeOK, At, Goto, setup, mem, stack, input, work, output, Pcs
<1>5. ASSUME EnterMemoryContext(t) PROVE TypeOK'
  BY <1>5
     DEF EnterMemoryContext, TypeOK, At, Goto, setup, mem, stack, input, work, output,
         Pcs, Contexts
<1>6. ASSUME BeginTry(t) PROVE TypeOK'
  <2>1. depth[t] < MaxFrames
    BY <1>6, <1>d DEF BeginTry, At, StackInv, DepthInv, Outside
  <2>2. StackTypeOK'
    BY <1>6, <1>0, <2>1, TryType DEF BeginTry, FrameKinds
  <2> QED BY <1>6, <2>2
             DEF BeginTry, TypeOK, StackTypeOK, At, Goto, setup, mem, input, work, output,
                 Pcs
<1>7. ASSUME RawParse(t) PROVE TypeOK'
  <2>1. depth[t] < MaxFrames
    BY <1>7, <1>d DEF RawParse, At, StackInv, DepthInv, Outside
  <2>2. StackTypeOK'
    BY <1>7, <1>0, <2>1, TryType DEF RawParse, FrameKinds
  <2> QED BY <1>7, <2>2
             DEF RawParse, TypeOK, StackTypeOK, At, Goto, setup, mem, input, work, output,
                 Pcs
<1>8. ASSUME RawParseReturns(t) PROVE TypeOK'
  <2>1. depth[t] > 0
    BY <1>8, <1>d DEF RawParseReturns, At, StackInv, DepthInv, OpInv, Base
  <2>2. StackTypeOK'
    BY <1>8, <1>0, <2>1, TryEndsType DEF RawParseReturns
  <2>3. tree' \in [Threads -> {"NIL", "list"}] /\ lexed' \in [Threads -> ParserOptions] /\ settings' \in [Threads -> ParserOptions]
    BY <1>8, SessionAssumption, SMTT(10) DEF RawParseReturns, TypeOK
  <2>4. heap' \in [Threads -> SUBSET Pieces] /\ pc' \in [Threads -> Pcs]
    BY <1>8, SMTT(10) DEF RawParseReturns, TypeOK, Goto, Pcs, Pieces
  <2> QED BY <1>8, <2>2, <2>3, <2>4
             DEF RawParseReturns, setup, mem, input, TypeOK, StackTypeOK
<1>9. ASSUME AfterRawParse(t) PROVE TypeOK'
  BY <1>9
     DEF AfterRawParse, TypeOK, At, Goto, setup, mem, stack, input, work, output, Pcs,
         Pieces
<1>10. ASSUME Lex(t) PROVE TypeOK'
  BY <1>10 DEF Lex, TypeOK, At, Goto, setup, mem, stack, input, work, output, Pcs
<1>11. ASSUME WalkNode(t) PROVE TypeOK'
  <2>1. depth[t] < MaxFrames
    BY <1>11, <1>d DEF WalkNode, At, StackInv, DepthInv, Outside
  <2>2. StackTypeOK'
    BY <1>11, <1>0, <2>1, TryType DEF WalkNode, FrameKinds
  <2>3. nodes' \in [Threads -> 0 .. MaxNodes] /\ pc' \in [Threads -> Pcs]
    BY <1>11, SessionAssumption, SMTT(10) DEF WalkNode, TypeOK, Goto, Pcs
  <2> QED BY <1>11, <2>2, <2>3 DEF WalkNode, setup, mem, input, output, TypeOK, StackTypeOK
<1>12. ASSUME VisitChildren(t) PROVE TypeOK'
  BY <1>12 DEF VisitChildren, TypeOK, At, Goto, setup, mem, stack, input, work, output, Pcs
<1>13. ASSUME WalkReturn(t) PROVE TypeOK'
  <2>1. depth[t] > 0
    BY <1>13, <1>d DEF WalkReturn, At, StackInv, DepthInv, OpInv, Base, InWalker
  <2>2. StackTypeOK'
    BY <1>13, <1>0, <2>1, LeavesWalkerType DEF WalkReturn
  <2> QED BY <1>13, <2>2
             DEF WalkReturn, TypeOK, StackTypeOK, At, Goto, setup, mem, input, work,
                 output, Pcs
<1>14. ASSUME WalkDone(t) PROVE TypeOK'
  BY <1>14, SessionAssumption
     DEF WalkDone, TypeOK, At, Goto, setup, mem, stack, input, work, output, Pcs
<1>15. ASSUME Build(t) PROVE TypeOK'
  BY <1>15
     DEF Build, TypeOK, At, Goto, setup, mem, stack, input, work, output, Pcs, Built,
         Pieces
<1>16. ASSUME CompileNext(t) PROVE TypeOK'
  <2>1. depth[t] < MaxFrames
    BY <1>16, <1>d DEF CompileNext, At, StackInv, DepthInv, Outside
  <2>2. StackTypeOK'
    BY <1>16, <1>0, <2>1, TryType DEF CompileNext, FrameKinds
  <2> QED BY <1>16, <2>2
             DEF CompileNext, TypeOK, StackTypeOK, At, Goto, setup, mem, input, work,
                 output, Pcs, Contexts
<1>17. ASSUME Compiled(t) PROVE TypeOK'
  <2>1. depth[t] > 0 /\ stmts[t] > 0
    BY <1>17, <1>d DEF Compiled, At, StackInv, DepthInv, OpInv, Base
  <2>2. StackTypeOK'
    BY <1>17, <1>0, <2>1, TryEndsType DEF Compiled
  <2>3. stmts' \in [Threads -> 0 .. MaxStmts] /\ pc' \in [Threads -> Pcs]
    BY <1>17, <2>1, SessionAssumption, SMTT(10) DEF Compiled, TypeOK, Goto, Pcs
  <2>4. live' \in [Threads -> SUBSET Contexts] /\ current' \in [Threads -> Contexts \cup {"NULL"}]
    BY <1>17, SMTT(10) DEF Compiled, TypeOK, Contexts
  <2> QED BY <1>17, <2>2, <2>3, <2>4 DEF Compiled, setup, input, output, TypeOK, StackTypeOK
<1>18. ASSUME CompileDone(t) PROVE TypeOK'
  BY <1>18
     DEF CompileDone, TypeOK, At, Goto, setup, mem, stack, input, work, output, Pcs,
         Pieces
<1>19. ASSUME EndTry(t) PROVE TypeOK'
  <2>1. depth[t] > 0
    BY <1>19, <1>d DEF EndTry, At, StackInv, DepthInv, OpInv, Base
  <2>2. StackTypeOK'
    BY <1>19, <1>0, <2>1, TryEndsType DEF EndTry
  <2> QED BY <1>19, <2>2
             DEF EndTry, TypeOK, StackTypeOK, At, Goto, setup, mem, input, work, output,
                 Pcs
<1>20. ASSUME Error(t) PROVE TypeOK'
  <2>1. current' \in [Threads -> Contexts \cup {"NULL"}]
    BY <1>20, SMTT(10) DEF Error, Raise, TypeOK, Contexts
  <2>2. depth' \in [Threads -> 0 .. MaxFrames] /\ errors' \in [Threads -> 0 .. 1]
    <3>1. \/ UNCHANGED <<depth, errors>>
          \/ /\ depth' = [depth EXCEPT ![t] = handler[t]]
             /\ errors' = [errors EXCEPT ![t] = 1]
      BY <1>20 DEF Error, Raise
    <3>2. /\ depth \in [Threads -> 0 .. MaxFrames]
          /\ handler[t] \in 0 .. MaxFrames
          /\ errors \in [Threads -> 0 .. 1]
      BY DEF TypeOK
    <3> QED BY <3>1, <3>2
  <2>3. pc' \in [Threads -> Pcs] /\ process' \in {"running", "terminated", "undefined"}
    BY <1>20, SMTT(10) DEF Error, Raise, TypeOK, Goto, Pcs
  <2> QED BY <1>20, <2>1, <2>2, <2>3 DEF Error, Raise, setup, input, work, output, TypeOK
<1>21. ASSUME Catch(t) PROVE TypeOK'
  <2>1. depth[t] > 0
    BY <1>21, <1>d DEF Catch, At, StackInv, DepthInv, OpInv, Base
  <2>2. StackTypeOK'
    BY <1>21, <1>0, <2>1, TryEndsType DEF Catch
  <2>3. heap' \in [Threads -> SUBSET Pieces]
    BY <1>21, SMTT(10) DEF Catch, TypeOK, Pieces
  <2>4. result' \in [Threads -> SUBSET Pieces]
    BY <1>21, SMTT(10) DEF Catch, TypeOK, Pieces
  <2>5. pc' \in [Threads -> Pcs] /\ errors' \in [Threads -> 0 .. 1]
    BY <1>21, SMTT(10) DEF Catch, TypeOK, Goto, Pcs
  <2>6. current' \in [Threads -> Contexts \cup {"NULL"}]
    BY <1>21, SMTT(10) DEF Catch, TypeOK, Contexts
  <2> QED BY <1>21, <2>2, <2>3, <2>4, <2>5, <2>6
             DEF Catch, setup, input, work, TypeOK, StackTypeOK
<1>22. ASSUME ExitMemoryContext(t) PROVE TypeOK'
  <2>1. heap' \in [Threads -> SUBSET Pieces] /\ result' \in [Threads -> SUBSET Pieces]
    <3>1. \/ UNCHANGED <<heap, result>>
          \/ /\ heap' = [heap EXCEPT ![t] = @ \ {"stderr_buffer"}]
             /\ result' = [result EXCEPT ![t] = @ \ {"stderr_buffer"}]
      BY <1>22 DEF ExitMemoryContext, output
    <3>2. heap \in [Threads -> SUBSET Pieces] /\ result \in [Threads -> SUBSET Pieces]
      BY DEF TypeOK
    <3>3. heap[t] \ {"stderr_buffer"} \in SUBSET Pieces
      BY <3>2
    <3>4. result[t] \ {"stderr_buffer"} \in SUBSET Pieces
      BY <3>2
    <3> QED BY <3>1, <3>2, <3>3, <3>4
  <2>2. live' \in [Threads -> SUBSET Contexts] /\ current' \in [Threads -> Contexts \cup {"NULL"}]
    BY <1>22, SMTT(10) DEF ExitMemoryContext, TypeOK, Contexts
  <2>3. pc' \in [Threads -> Pcs]
    BY <1>22, SMTT(10) DEF ExitMemoryContext, TypeOK, Goto, Pcs
  <2> QED BY <1>22, <2>1, <2>2, <2>3
             DEF ExitMemoryContext, setup, stack, input, work, TypeOK
<1>23. ASSUME FreeResult(t) PROVE TypeOK'
  <2>1. heap' \in [Threads -> SUBSET Pieces] /\ result' \in [Threads -> SUBSET Pieces]
    BY <1>23 DEF FreeResult, TypeOK, Pieces
  <2> QED BY <1>23, <2>1 DEF FreeResult, TypeOK, Goto, setup, mem, stack, input, work, Pcs
<1>24. ASSUME ThreadExit(t) PROVE TypeOK'
  BY <1>24
     DEF ThreadExit, TypeOK, At, Goto, setup, mem, stack, input, work, output, Pcs,
         FreeTop
<1>25. ASSUME PgQueryExit(t) PROVE TypeOK'
  BY <1>25
     DEF PgQueryExit, TypeOK, At, Goto, setup, mem, stack, input, work, output, Pcs,
         FreeTop
<1> QED BY <1>1, <1>2, <1>3, <1>4, <1>5, <1>6, <1>7, <1>8, <1>9, <1>10, <1>11, <1>12, <1>13, <1>14, <1>15, <1>16, <1>17, <1>18, <1>19, <1>20, <1>21, <1>22, <1>23, <1>24, <1>25
           DEF Step, Host

\* A step of one thread leaves the runtime of every other thread alone.
LEMMA OthersStep ==
  ASSUME TypeOK, NEW t \in Threads, Step(t) \/ Host(t), NEW u \in Threads, u # t
  PROVE  /\ pc'[u] = pc[u] /\ op'[u] = op[u] /\ stmts'[u] = stmts[u]
         /\ depth'[u] = depth[u] /\ handler'[u] = handler[u]
         /\ saved'[u] = saved[u] /\ kind'[u] = kind[u]
         /\ live'[u] = live[u] /\ current'[u] = current[u] /\ errors'[u] = errors[u]
         /\ heap'[u] = heap[u] /\ result'[u] = result[u] /\ tree'[u] = tree[u]
         /\ options'[u] = options[u] /\ lexed'[u] = lexed[u] /\ settings'[u] = settings[u]
<1>1. CASE Call(t)
  BY <1>1, SMTT(10) DEF Call, TypeOK, Goto, setup, mem, stack, input, work, output
<1>2. CASE InitContexts(t)
  BY <1>2, SMTT(10) DEF InitContexts, TypeOK, Goto, setup, mem, stack, input, work, output
<1>3. CASE KeyCreate(t)
  BY <1>3, SMTT(10) DEF KeyCreate, TypeOK, Goto, setup, mem, stack, input, work, output
<1>4. CASE SetSpecific(t)
  BY <1>4, SMTT(10) DEF SetSpecific, TypeOK, Goto, setup, mem, stack, input, work, output
<1>5. CASE EnterMemoryContext(t)
  BY <1>5, SMTT(10)
     DEF EnterMemoryContext, TypeOK, Goto, setup, mem, stack, input, work, output
<1>6. CASE BeginTry(t)
  BY <1>6, SMTT(10) DEF BeginTry, TypeOK, Goto, setup, mem, stack, input, work, output, Try
<1>7. CASE RawParse(t)
  BY <1>7, SMTT(10) DEF RawParse, TypeOK, Goto, setup, mem, stack, input, work, output, Try
<1>8. CASE RawParseReturns(t)
  BY <1>8, SMTT(10)
     DEF RawParseReturns, TypeOK, Goto, setup, mem, stack, input, work, output, TryEnds
<1>9. CASE AfterRawParse(t)
  BY <1>9, SMTT(10) DEF AfterRawParse, TypeOK, Goto, setup, mem, stack, input, work, output
<1>10. CASE Lex(t)
  BY <1>10, SMTT(10) DEF Lex, TypeOK, Goto, setup, mem, stack, input, work, output
<1>11. CASE WalkNode(t)
  BY <1>11, SMTT(10) DEF WalkNode, TypeOK, Goto, setup, mem, stack, input, work, output, Try
<1>12. CASE VisitChildren(t)
  BY <1>12, SMTT(10) DEF VisitChildren, TypeOK, Goto, setup, mem, stack, input, work, output
<1>13. CASE WalkReturn(t)
  BY <1>13, SMTT(10)
     DEF WalkReturn, TypeOK, Goto, setup, mem, stack, input, work, output, LeavesWalker,
         InWalker, TryEnds
<1>14. CASE WalkDone(t)
  BY <1>14, SMTT(10)
     DEF WalkDone, TypeOK, Goto, setup, mem, stack, input, work, output, InWalker
<1>15. CASE Build(t)
  BY <1>15, SMTT(10) DEF Build, TypeOK, Goto, setup, mem, stack, input, work, output
<1>16. CASE CompileNext(t)
  BY <1>16, SMTT(10)
     DEF CompileNext, TypeOK, Goto, setup, mem, stack, input, work, output, Try
<1>17. CASE Compiled(t)
  BY <1>17, SMTT(10)
     DEF Compiled, TypeOK, Goto, setup, mem, stack, input, work, output, TryEnds
<1>18. CASE CompileDone(t)
  BY <1>18, SMTT(10) DEF CompileDone, TypeOK, Goto, setup, mem, stack, input, work, output
<1>19. CASE EndTry(t)
  BY <1>19, SMTT(10)
     DEF EndTry, TypeOK, Goto, setup, mem, stack, input, work, output, TryEnds
<1>20. CASE Error(t)
  BY <1>20, SMTT(10)
     DEF Error, TypeOK, Goto, setup, mem, stack, input, work, output, Raise, Raises
<1>21. CASE Catch(t)
  BY <1>21, SMTT(10)
     DEF Catch, TypeOK, Goto, setup, mem, stack, input, work, output, TryEnds
<1>22. CASE ExitMemoryContext(t)
  BY <1>22, SMTT(10)
     DEF ExitMemoryContext, TypeOK, Goto, setup, mem, stack, input, work, output
<1>23. CASE FreeResult(t)
  BY <1>23, SMTT(10) DEF FreeResult, TypeOK, Goto, setup, mem, stack, input, work, output
<1>24. CASE ThreadExit(t)
  BY <1>24, SMTT(10)
     DEF ThreadExit, TypeOK, Goto, setup, mem, stack, input, work, output, FreeTop
<1>25. CASE PgQueryExit(t)
  BY <1>25, SMTT(10)
     DEF PgQueryExit, TypeOK, Goto, setup, mem, stack, input, work, output, FreeTop
<1> QED BY <1>1, <1>2, <1>3, <1>4, <1>5, <1>6, <1>7, <1>8, <1>9, <1>10, <1>11, <1>12, <1>13, <1>14, <1>15, <1>16, <1>17, <1>18, <1>19, <1>20, <1>21, <1>22, <1>23, <1>24, <1>25
           DEF Step, Host


\* PG_TRY and PG_END_TRY, seen from the thread that executes them.
LEMMA TryHere ==
  ASSUME StackTypeOK, NEW t \in Threads, depth[t] < MaxFrames,
         NEW what \in FrameKinds, Try(t, what)
  PROVE  /\ depth'[t] = depth[t] + 1 /\ handler'[t] = depth[t] + 1
         /\ \A f \in Frames : saved'[t][f] = IF f = depth[t] + 1 THEN handler[t] ELSE saved[t][f]
         /\ \A f \in Frames : kind'[t][f] = IF f = depth[t] + 1 THEN what ELSE kind[t][f]
BY DEF StackTypeOK, Try

LEMMA TryEndsHere ==
  ASSUME StackTypeOK, NEW t \in Threads, TryEnds(t)
  PROVE  /\ depth'[t] = depth[t] - 1 /\ handler'[t] = saved[t][depth[t]]
         /\ saved'[t] = saved[t] /\ kind'[t] = kind[t]
BY DEF StackTypeOK, TryEnds

\* A step of a thread keeps its stack invariant: for every action, the step of the
\* thread and its effect on the frames first, then the four parts of the invariant.
LEMMA StackStep ==
  ASSUME TypeOK, NEW t \in Threads, StackInv(t), Step(t) \/ Host(t)
  PROVE  StackInv(t)'
<1>s. StackTypeOK
  BY DEF TypeOK, StackTypeOK
<1>d. /\ depth[t] \in 0 .. MaxFrames /\ handler[t] \in 0 .. MaxFrames
      /\ Base(t) \in 0 .. 1 /\ MaxFrames \in Nat /\ MaxFrames >= 2
      /\ Frames = 1 .. MaxFrames /\ op[t] \in AllOps
      /\ \A f \in Frames : saved[t][f] \in 0 .. MaxFrames
  BY SessionAssumption DEF TypeOK, Base, Frames
<1>1. CASE Call(t)
  <2>1. pc[t] = "idle" /\ pc'[t] \in {"enter", "init"} /\ op'[t] \in AllOps
    BY <1>1, SessionAssumption DEF Call, TypeOK, At, Goto, input, work
  <2>2. depth'[t] = depth[t] /\ handler'[t] = handler[t] /\ saved'[t] = saved[t] /\ kind'[t] = kind[t]
    BY <1>1 DEF Call, stack
  <2>3. OpInv(t)'
    BY <1>d, <2>1, <2>2, SMTT(10)
       DEF StackInv, OpInv, DepthInv, KindInv, HandlerInv, Base, Outside, TryOps,
           RawParseOps, WalkOps, AllOps
  <2>4. DepthInv(t)'
    BY <1>d, <2>1, <2>2, SMTT(10)
       DEF StackInv, OpInv, DepthInv, KindInv, HandlerInv, Base, Outside, TryOps,
           RawParseOps, WalkOps, AllOps
  <2>5. KindInv(t)'
    BY <1>d, <2>1, <2>2, SMTT(10)
       DEF StackInv, OpInv, DepthInv, KindInv, HandlerInv, Base, Outside, TryOps,
           RawParseOps, WalkOps, AllOps
  <2>6. HandlerInv(t)'
    BY <1>d, <2>1, <2>2, SMTT(10)
       DEF StackInv, OpInv, DepthInv, KindInv, HandlerInv, Base, Outside, TryOps,
           RawParseOps, WalkOps, AllOps
  <2> QED BY <2>3, <2>4, <2>5, <2>6 DEF StackInv
<1>2. CASE InitContexts(t)
  <2>1. pc[t] = "init" /\ pc'[t] = "key_create" /\ op'[t] = op[t]
    BY <1>2 DEF InitContexts, TypeOK, At, Goto, input, work
  <2>2. depth'[t] = depth[t] /\ handler'[t] = handler[t] /\ saved'[t] = saved[t] /\ kind'[t] = kind[t]
    BY <1>2 DEF InitContexts, stack
  <2>3. OpInv(t)'
    BY <1>d, <2>1, <2>2, SMTT(10)
       DEF StackInv, OpInv, DepthInv, KindInv, HandlerInv, Base, Outside, TryOps,
           RawParseOps, WalkOps, AllOps
  <2>4. DepthInv(t)'
    BY <1>d, <2>1, <2>2, SMTT(10)
       DEF StackInv, OpInv, DepthInv, KindInv, HandlerInv, Base, Outside, TryOps,
           RawParseOps, WalkOps, AllOps
  <2>5. KindInv(t)'
    BY <1>d, <2>1, <2>2, SMTT(10)
       DEF StackInv, OpInv, DepthInv, KindInv, HandlerInv, Base, Outside, TryOps,
           RawParseOps, WalkOps, AllOps
  <2>6. HandlerInv(t)'
    BY <1>d, <2>1, <2>2, SMTT(10)
       DEF StackInv, OpInv, DepthInv, KindInv, HandlerInv, Base, Outside, TryOps,
           RawParseOps, WalkOps, AllOps
  <2> QED BY <2>3, <2>4, <2>5, <2>6 DEF StackInv
<1>3. CASE KeyCreate(t)
  <2>1. pc[t] = "key_create" /\ pc'[t] = "set_specific" /\ op'[t] = op[t]
    BY <1>3 DEF KeyCreate, TypeOK, At, Goto, input, work
  <2>2. depth'[t] = depth[t] /\ handler'[t] = handler[t] /\ saved'[t] = saved[t] /\ kind'[t] = kind[t]
    BY <1>3 DEF KeyCreate, stack
  <2>3. OpInv(t)'
    BY <1>d, <2>1, <2>2, SMTT(10)
       DEF StackInv, OpInv, DepthInv, KindInv, HandlerInv, Base, Outside, TryOps,
           RawParseOps, WalkOps, AllOps
  <2>4. DepthInv(t)'
    BY <1>d, <2>1, <2>2, SMTT(10)
       DEF StackInv, OpInv, DepthInv, KindInv, HandlerInv, Base, Outside, TryOps,
           RawParseOps, WalkOps, AllOps
  <2>5. KindInv(t)'
    BY <1>d, <2>1, <2>2, SMTT(10)
       DEF StackInv, OpInv, DepthInv, KindInv, HandlerInv, Base, Outside, TryOps,
           RawParseOps, WalkOps, AllOps
  <2>6. HandlerInv(t)'
    BY <1>d, <2>1, <2>2, SMTT(10)
       DEF StackInv, OpInv, DepthInv, KindInv, HandlerInv, Base, Outside, TryOps,
           RawParseOps, WalkOps, AllOps
  <2> QED BY <2>3, <2>4, <2>5, <2>6 DEF StackInv
<1>4. CASE SetSpecific(t)
  <2>1. pc[t] = "set_specific" /\ pc'[t] = "enter" /\ op'[t] = op[t]
    BY <1>4 DEF SetSpecific, TypeOK, At, Goto, input, work
  <2>2. depth'[t] = depth[t] /\ handler'[t] = handler[t] /\ saved'[t] = saved[t] /\ kind'[t] = kind[t]
    BY <1>4 DEF SetSpecific, stack
  <2>3. OpInv(t)'
    BY <1>d, <2>1, <2>2, SMTT(10)
       DEF StackInv, OpInv, DepthInv, KindInv, HandlerInv, Base, Outside, TryOps,
           RawParseOps, WalkOps, AllOps
  <2>4. DepthInv(t)'
    BY <1>d, <2>1, <2>2, SMTT(10)
       DEF StackInv, OpInv, DepthInv, KindInv, HandlerInv, Base, Outside, TryOps,
           RawParseOps, WalkOps, AllOps
  <2>5. KindInv(t)'
    BY <1>d, <2>1, <2>2, SMTT(10)
       DEF StackInv, OpInv, DepthInv, KindInv, HandlerInv, Base, Outside, TryOps,
           RawParseOps, WalkOps, AllOps
  <2>6. HandlerInv(t)'
    BY <1>d, <2>1, <2>2, SMTT(10)
       DEF StackInv, OpInv, DepthInv, KindInv, HandlerInv, Base, Outside, TryOps,
           RawParseOps, WalkOps, AllOps
  <2> QED BY <2>3, <2>4, <2>5, <2>6 DEF StackInv
<1>5. CASE EnterMemoryContext(t)
  <2>1. pc[t] = "enter" /\ pc'[t] = (IF op[t] \in TryOps THEN "try" ELSE "raw_parse") /\ op'[t] = op[t]
    BY <1>5 DEF EnterMemoryContext, TypeOK, At, Goto, input, work
  <2>2. depth'[t] = depth[t] /\ handler'[t] = handler[t] /\ saved'[t] = saved[t] /\ kind'[t] = kind[t]
    BY <1>5 DEF EnterMemoryContext, stack
  <2>3. OpInv(t)'
    BY <1>d, <2>1, <2>2, SMTT(10)
       DEF StackInv, OpInv, DepthInv, KindInv, HandlerInv, Base, Outside, TryOps,
           RawParseOps, WalkOps, AllOps
  <2>4. DepthInv(t)'
    BY <1>d, <2>1, <2>2, SMTT(10)
       DEF StackInv, OpInv, DepthInv, KindInv, HandlerInv, Base, Outside, TryOps,
           RawParseOps, WalkOps, AllOps
  <2>5. KindInv(t)'
    BY <1>d, <2>1, <2>2, SMTT(10)
       DEF StackInv, OpInv, DepthInv, KindInv, HandlerInv, Base, Outside, TryOps,
           RawParseOps, WalkOps, AllOps
  <2>6. HandlerInv(t)'
    BY <1>d, <2>1, <2>2, SMTT(10)
       DEF StackInv, OpInv, DepthInv, KindInv, HandlerInv, Base, Outside, TryOps,
           RawParseOps, WalkOps, AllOps
  <2> QED BY <2>3, <2>4, <2>5, <2>6 DEF StackInv
<1>6. CASE BeginTry(t)
  <2>1. pc[t] = "try" /\ op'[t] = op[t] /\ pc'[t] = (CASE op[t] = "summary" -> "raw_parse" [] op[t] = "deparse" -> "build" [] OTHER -> "lex")
    BY <1>6 DEF BeginTry, TypeOK, At, Goto, input, work
  <2>0. depth[t] < MaxFrames
    BY <1>6, <1>d, <2>1 DEF BeginTry, StackInv, DepthInv, Outside
  <2>2. /\ depth'[t] = depth[t] + 1 /\ handler'[t] = depth[t] + 1
        /\ \A f \in Frames : saved'[t][f] = IF f = depth[t] + 1 THEN handler[t] ELSE saved[t][f]
        /\ \A f \in Frames : kind'[t][f] = IF f = depth[t] + 1 THEN "api" ELSE kind[t][f]
    BY <1>6, <1>s, <2>0, TryHere DEF BeginTry, FrameKinds
  <2>3. OpInv(t)'
    BY <1>d, <2>1, <2>2, SMTT(10)
       DEF StackInv, OpInv, DepthInv, KindInv, HandlerInv, Base, Outside, TryOps,
           RawParseOps, WalkOps, AllOps
  <2>4. DepthInv(t)'
    BY <1>d, <2>1, <2>2, SMTT(10)
       DEF StackInv, OpInv, DepthInv, KindInv, HandlerInv, Base, Outside, TryOps,
           RawParseOps, WalkOps, AllOps
  <2>5. KindInv(t)'
    BY <1>d, <2>1, <2>2, SMTT(10)
       DEF StackInv, OpInv, DepthInv, KindInv, HandlerInv, Base, Outside, TryOps,
           RawParseOps, WalkOps, AllOps
  <2>6. HandlerInv(t)'
    BY <1>d, <2>1, <2>2, SMTT(10)
       DEF StackInv, OpInv, DepthInv, KindInv, HandlerInv, Base, Outside, TryOps,
           RawParseOps, WalkOps, AllOps
  <2> QED BY <2>3, <2>4, <2>5, <2>6 DEF StackInv
<1>7. CASE RawParse(t)
  <2>1. pc[t] = "raw_parse" /\ pc'[t] = "parsing" /\ op'[t] = op[t]
    BY <1>7 DEF RawParse, TypeOK, At, Goto, input, work
  <2>0. depth[t] < MaxFrames
    BY <1>7, <1>d, <2>1 DEF RawParse, StackInv, DepthInv, Outside
  <2>2. /\ depth'[t] = depth[t] + 1 /\ handler'[t] = depth[t] + 1
        /\ \A f \in Frames : saved'[t][f] = IF f = depth[t] + 1 THEN handler[t] ELSE saved[t][f]
        /\ \A f \in Frames : kind'[t][f] = IF f = depth[t] + 1 THEN "raw_parse" ELSE kind[t][f]
    BY <1>7, <1>s, <2>0, TryHere DEF RawParse, FrameKinds
  <2>3. OpInv(t)'
    BY <1>d, <2>1, <2>2, SMTT(10)
       DEF StackInv, OpInv, DepthInv, KindInv, HandlerInv, Base, Outside, TryOps,
           RawParseOps, WalkOps, AllOps
  <2>4. DepthInv(t)'
    BY <1>d, <2>1, <2>2, SMTT(10)
       DEF StackInv, OpInv, DepthInv, KindInv, HandlerInv, Base, Outside, TryOps,
           RawParseOps, WalkOps, AllOps
  <2>5. KindInv(t)'
    BY <1>d, <2>1, <2>2, SMTT(10)
       DEF StackInv, OpInv, DepthInv, KindInv, HandlerInv, Base, Outside, TryOps,
           RawParseOps, WalkOps, AllOps
  <2>6. HandlerInv(t)'
    BY <1>d, <2>1, <2>2, SMTT(10)
       DEF StackInv, OpInv, DepthInv, KindInv, HandlerInv, Base, Outside, TryOps,
           RawParseOps, WalkOps, AllOps
  <2> QED BY <2>3, <2>4, <2>5, <2>6 DEF StackInv
<1>8. CASE RawParseReturns(t)
  <2>1. pc[t] = "parsing" /\ pc'[t] = "parsed" /\ op'[t] = op[t]
    BY <1>8 DEF RawParseReturns, TypeOK, At, Goto, input, work
  <2>2. /\ depth'[t] = depth[t] - 1 /\ handler'[t] = saved[t][depth[t]]
        /\ saved'[t] = saved[t] /\ kind'[t] = kind[t]
    BY <1>8, <1>s, TryEndsHere DEF RawParseReturns
  <2>3. OpInv(t)'
    BY <1>d, <2>1, <2>2, SMTT(10)
       DEF StackInv, OpInv, DepthInv, KindInv, HandlerInv, Base, Outside, TryOps,
           RawParseOps, WalkOps, AllOps
  <2>4. DepthInv(t)'
    BY <1>d, <2>1, <2>2, SMTT(10)
       DEF StackInv, OpInv, DepthInv, KindInv, HandlerInv, Base, Outside, TryOps,
           RawParseOps, WalkOps, AllOps
  <2>5. KindInv(t)'
    BY <1>d, <2>1, <2>2, SMTT(10)
       DEF StackInv, OpInv, DepthInv, KindInv, HandlerInv, Base, Outside, TryOps,
           RawParseOps, WalkOps, AllOps
  <2>6. HandlerInv(t)'
    BY <1>d, <2>1, <2>2, SMTT(10)
       DEF StackInv, OpInv, DepthInv, KindInv, HandlerInv, Base, Outside, TryOps,
           RawParseOps, WalkOps, AllOps
  <2> QED BY <2>3, <2>4, <2>5, <2>6 DEF StackInv
<1>9. CASE AfterRawParse(t)
  <2>1. /\ pc[t] = "parsed" /\ op'[t] = op[t]
        /\ \/ op[t] # "summary" /\ pc'[t] \in {"build", "leave"}
           \/ op[t] = "plpgsql" /\ pc'[t] = "walk"
           \/ op[t] = "summary" /\ pc'[t] \in {"build", "end_try"}
    <3>1. pc \in [Threads -> Pcs]
      BY DEF TypeOK
    <3>2. pc[t] = "parsed" /\ op'[t] = op[t]
      BY <1>9 DEF AfterRawParse, At, input
    <3>3. pc'[t] = (IF ~GoesOn(t) THEN IF op[t] = "summary" THEN "end_try" ELSE "leave"
                    ELSE IF op[t] = "plpgsql" THEN "walk" ELSE "build")
      BY <1>9, <3>1 DEF AfterRawParse, Goto
    <3> QED BY <3>2, <3>3
  <2>2. depth'[t] = depth[t] /\ handler'[t] = handler[t] /\ saved'[t] = saved[t] /\ kind'[t] = kind[t]
    BY <1>9 DEF AfterRawParse, stack
  <2>3. OpInv(t)'
    BY <1>d, <2>1, <2>2, SMTT(10)
       DEF StackInv, OpInv, DepthInv, KindInv, HandlerInv, Base, Outside, TryOps,
           RawParseOps, WalkOps, AllOps
  <2>4. DepthInv(t)'
    BY <1>d, <2>1, <2>2, SMTT(10)
       DEF StackInv, OpInv, DepthInv, KindInv, HandlerInv, Base, Outside, TryOps,
           RawParseOps, WalkOps, AllOps
  <2>5. KindInv(t)'
    BY <1>d, <2>1, <2>2, SMTT(10)
       DEF StackInv, OpInv, DepthInv, KindInv, HandlerInv, Base, Outside, TryOps,
           RawParseOps, WalkOps, AllOps
  <2>6. HandlerInv(t)'
    BY <1>d, <2>1, <2>2, SMTT(10)
       DEF StackInv, OpInv, DepthInv, KindInv, HandlerInv, Base, Outside, TryOps,
           RawParseOps, WalkOps, AllOps
  <2> QED BY <2>3, <2>4, <2>5, <2>6 DEF StackInv
<1>10. CASE Lex(t)
  <2>1. pc[t] = "lex" /\ op'[t] = op[t] /\ pc'[t] = (IF op[t] = "normalize" THEN "walk" ELSE "build")
    BY <1>10 DEF Lex, TypeOK, At, Goto, input, work
  <2>2. depth'[t] = depth[t] /\ handler'[t] = handler[t] /\ saved'[t] = saved[t] /\ kind'[t] = kind[t]
    BY <1>10 DEF Lex, stack
  <2>3. OpInv(t)'
    BY <1>d, <2>1, <2>2, SMTT(10)
       DEF StackInv, OpInv, DepthInv, KindInv, HandlerInv, Base, Outside, TryOps,
           RawParseOps, WalkOps, AllOps
  <2>4. DepthInv(t)'
    BY <1>d, <2>1, <2>2, SMTT(10)
       DEF StackInv, OpInv, DepthInv, KindInv, HandlerInv, Base, Outside, TryOps,
           RawParseOps, WalkOps, AllOps
  <2>5. KindInv(t)'
    BY <1>d, <2>1, <2>2, SMTT(10)
       DEF StackInv, OpInv, DepthInv, KindInv, HandlerInv, Base, Outside, TryOps,
           RawParseOps, WalkOps, AllOps
  <2>6. HandlerInv(t)'
    BY <1>d, <2>1, <2>2, SMTT(10)
       DEF StackInv, OpInv, DepthInv, KindInv, HandlerInv, Base, Outside, TryOps,
           RawParseOps, WalkOps, AllOps
  <2> QED BY <2>3, <2>4, <2>5, <2>6 DEF StackInv
<1>11. CASE WalkNode(t)
  <2>1. pc[t] = "walk" /\ pc'[t] = "visit" /\ op'[t] = op[t]
    BY <1>11 DEF WalkNode, TypeOK, At, Goto, input, work
  <2>0. depth[t] < MaxFrames
    BY <1>11, <1>d, <2>1 DEF WalkNode, StackInv, DepthInv, Outside
  <2>2. /\ depth'[t] = depth[t] + 1 /\ handler'[t] = depth[t] + 1
        /\ \A f \in Frames : saved'[t][f] = IF f = depth[t] + 1 THEN handler[t] ELSE saved[t][f]
        /\ \A f \in Frames : kind'[t][f] = IF f = depth[t] + 1 THEN "walker" ELSE kind[t][f]
    BY <1>11, <1>s, <2>0, TryHere DEF WalkNode, FrameKinds
  <2>3. OpInv(t)'
    BY <1>d, <2>1, <2>2, SMTT(10)
       DEF StackInv, OpInv, DepthInv, KindInv, HandlerInv, Base, Outside, TryOps,
           RawParseOps, WalkOps, AllOps
  <2>4. DepthInv(t)'
    BY <1>d, <2>1, <2>2, SMTT(10)
       DEF StackInv, OpInv, DepthInv, KindInv, HandlerInv, Base, Outside, TryOps,
           RawParseOps, WalkOps, AllOps
  <2>5. KindInv(t)'
    BY <1>d, <2>1, <2>2, SMTT(30)
       DEF StackInv, OpInv, DepthInv, KindInv, HandlerInv, Base, Outside, TryOps,
           RawParseOps, WalkOps, AllOps
  <2>6. HandlerInv(t)'
    BY <1>d, <2>1, <2>2, SMTT(10)
       DEF StackInv, OpInv, DepthInv, KindInv, HandlerInv, Base, Outside, TryOps,
           RawParseOps, WalkOps, AllOps
  <2> QED BY <2>3, <2>4, <2>5, <2>6 DEF StackInv
<1>12. CASE VisitChildren(t)
  <2>1. pc[t] = "visit" /\ pc'[t] = "walk" /\ op'[t] = op[t]
    BY <1>12 DEF VisitChildren, TypeOK, At, Goto, input, work
  <2>2. depth'[t] = depth[t] /\ handler'[t] = handler[t] /\ saved'[t] = saved[t] /\ kind'[t] = kind[t]
    BY <1>12 DEF VisitChildren, stack
  <2>3. OpInv(t)'
    BY <1>d, <2>1, <2>2, SMTT(10)
       DEF StackInv, OpInv, DepthInv, KindInv, HandlerInv, Base, Outside, TryOps,
           RawParseOps, WalkOps, AllOps
  <2>4. DepthInv(t)'
    BY <1>d, <2>1, <2>2, SMTT(10)
       DEF StackInv, OpInv, DepthInv, KindInv, HandlerInv, Base, Outside, TryOps,
           RawParseOps, WalkOps, AllOps
  <2>5. KindInv(t)'
    BY <1>d, <2>1, <2>2, SMTT(10)
       DEF StackInv, OpInv, DepthInv, KindInv, HandlerInv, Base, Outside, TryOps,
           RawParseOps, WalkOps, AllOps
  <2>6. HandlerInv(t)'
    BY <1>d, <2>1, <2>2, SMTT(10)
       DEF StackInv, OpInv, DepthInv, KindInv, HandlerInv, Base, Outside, TryOps,
           RawParseOps, WalkOps, AllOps
  <2> QED BY <2>3, <2>4, <2>5, <2>6 DEF StackInv
<1>13. CASE WalkReturn(t)
  <2>1. pc[t] = "walk" /\ pc'[t] = "walk" /\ depth[t] > 0 /\ kind[t][depth[t]] = "walker" /\ op'[t] = op[t]
    BY <1>13 DEF WalkReturn, TypeOK, At, Goto, input, work, InWalker
  <2>2. /\ depth'[t] = depth[t] - 1 /\ saved'[t] = saved[t] /\ kind'[t] = kind[t]
        /\ handler'[t] = (IF op[t] = "normalize" THEN handler[t] ELSE saved[t][depth[t]])
    BY <1>13, <1>s, TryEndsHere DEF WalkReturn, LeavesWalker, StackTypeOK
  <2>3. OpInv(t)'
    BY <1>d, <2>1, <2>2, SMTT(10)
       DEF StackInv, OpInv, DepthInv, KindInv, HandlerInv, Base, Outside, TryOps,
           RawParseOps, WalkOps, AllOps
  <2>4. DepthInv(t)'
    BY <1>d, <2>1, <2>2, SMTT(10)
       DEF StackInv, OpInv, DepthInv, KindInv, HandlerInv, Base, Outside, TryOps,
           RawParseOps, WalkOps, AllOps
  <2>5. KindInv(t)'
    BY <1>d, <2>1, <2>2, SMTT(10)
       DEF StackInv, OpInv, DepthInv, KindInv, HandlerInv, Base, Outside, TryOps,
           RawParseOps, WalkOps, AllOps
  <2>6. HandlerInv(t)'
    BY <1>d, <2>1, <2>2, SMTT(10)
       DEF StackInv, OpInv, DepthInv, KindInv, HandlerInv, Base, Outside, TryOps,
           RawParseOps, WalkOps, AllOps
  <2> QED BY <2>3, <2>4, <2>5, <2>6 DEF StackInv
<1>14. CASE WalkDone(t)
  <2>1. pc[t] = "walk" /\ pc'[t] = "build" /\ ~(depth[t] > 0 /\ kind[t][depth[t]] = "walker") /\ op'[t] = op[t]
    BY <1>14 DEF WalkDone, TypeOK, At, Goto, input, work, InWalker
  <2>2. depth'[t] = depth[t] /\ handler'[t] = handler[t] /\ saved'[t] = saved[t] /\ kind'[t] = kind[t]
    BY <1>14 DEF WalkDone, stack
  <2>3. OpInv(t)'
    BY <1>d, <2>1, <2>2, SMTT(10)
       DEF StackInv, OpInv, DepthInv, KindInv, HandlerInv, Base, Outside, TryOps,
           RawParseOps, WalkOps, AllOps
  <2>4. DepthInv(t)'
    BY <1>d, <2>1, <2>2, SMTT(10)
       DEF StackInv, OpInv, DepthInv, KindInv, HandlerInv, Base, Outside, TryOps,
           RawParseOps, WalkOps, AllOps
  <2>5. KindInv(t)'
    BY <1>d, <2>1, <2>2, SMTT(10)
       DEF StackInv, OpInv, DepthInv, KindInv, HandlerInv, Base, Outside, TryOps,
           RawParseOps, WalkOps, AllOps
  <2>6. HandlerInv(t)'
    BY <1>d, <2>1, <2>2, SMTT(10)
       DEF StackInv, OpInv, DepthInv, KindInv, HandlerInv, Base, Outside, TryOps,
           RawParseOps, WalkOps, AllOps
  <2> QED BY <2>3, <2>4, <2>5, <2>6 DEF StackInv
<1>15. CASE Build(t)
  <2>1. /\ pc[t] = "build" /\ op'[t] = op[t]
        /\ \/ op[t] \in TryOps /\ pc'[t] = "end_try"
           \/ op[t] = "plpgsql" /\ pc'[t] = "compile"
           \/ op[t] \notin TryOps /\ pc'[t] = "leave"
    <3>1. pc \in [Threads -> Pcs]
      BY DEF TypeOK
    <3>2. pc[t] = "build" /\ op'[t] = op[t]
      BY <1>15 DEF Build, At, input
    <3>3. pc'[t] = (IF op[t] \in TryOps THEN "end_try"
                    ELSE IF op[t] = "plpgsql" /\ stmts[t] > 0 THEN "compile" ELSE "leave")
      BY <1>15, <3>1 DEF Build, Goto
    <3> QED BY <3>2, <3>3
  <2>2. depth'[t] = depth[t] /\ handler'[t] = handler[t] /\ saved'[t] = saved[t] /\ kind'[t] = kind[t]
    BY <1>15 DEF Build, stack
  <2>3. OpInv(t)'
    BY <1>d, <2>1, <2>2, SMTT(10)
       DEF StackInv, OpInv, DepthInv, KindInv, HandlerInv, Base, Outside, TryOps,
           RawParseOps, WalkOps, AllOps
  <2>4. DepthInv(t)'
    BY <1>d, <2>1, <2>2, SMTT(10)
       DEF StackInv, OpInv, DepthInv, KindInv, HandlerInv, Base, Outside, TryOps,
           RawParseOps, WalkOps, AllOps
  <2>5. KindInv(t)'
    BY <1>d, <2>1, <2>2, SMTT(10)
       DEF StackInv, OpInv, DepthInv, KindInv, HandlerInv, Base, Outside, TryOps,
           RawParseOps, WalkOps, AllOps
  <2>6. HandlerInv(t)'
    BY <1>d, <2>1, <2>2, SMTT(10)
       DEF StackInv, OpInv, DepthInv, KindInv, HandlerInv, Base, Outside, TryOps,
           RawParseOps, WalkOps, AllOps
  <2> QED BY <2>3, <2>4, <2>5, <2>6 DEF StackInv
<1>16. CASE CompileNext(t)
  <2>1. pc[t] = "compile" /\ pc'[t] = "compiling" /\ stmts'[t] = stmts[t] /\ stmts[t] > 0 /\ op'[t] = op[t]
    BY <1>16 DEF CompileNext, TypeOK, At, Goto, input, work
  <2>0. depth[t] < MaxFrames
    BY <1>16, <1>d, <2>1 DEF CompileNext, StackInv, DepthInv, Outside
  <2>2. /\ depth'[t] = depth[t] + 1 /\ handler'[t] = depth[t] + 1
        /\ \A f \in Frames : saved'[t][f] = IF f = depth[t] + 1 THEN handler[t] ELSE saved[t][f]
        /\ \A f \in Frames : kind'[t][f] = IF f = depth[t] + 1 THEN "compile" ELSE kind[t][f]
    BY <1>16, <1>s, <2>0, TryHere DEF CompileNext, FrameKinds
  <2>3. OpInv(t)'
    BY <1>d, <2>1, <2>2, SMTT(10)
       DEF StackInv, OpInv, DepthInv, KindInv, HandlerInv, Base, Outside, TryOps,
           RawParseOps, WalkOps, AllOps
  <2>4. DepthInv(t)'
    BY <1>d, <2>1, <2>2, SMTT(10)
       DEF StackInv, OpInv, DepthInv, KindInv, HandlerInv, Base, Outside, TryOps,
           RawParseOps, WalkOps, AllOps
  <2>5. KindInv(t)'
    BY <1>d, <2>1, <2>2, SMTT(10)
       DEF StackInv, OpInv, DepthInv, KindInv, HandlerInv, Base, Outside, TryOps,
           RawParseOps, WalkOps, AllOps
  <2>6. HandlerInv(t)'
    BY <1>d, <2>1, <2>2, SMTT(10)
       DEF StackInv, OpInv, DepthInv, KindInv, HandlerInv, Base, Outside, TryOps,
           RawParseOps, WalkOps, AllOps
  <2> QED BY <2>3, <2>4, <2>5, <2>6 DEF StackInv
<1>17. CASE Compiled(t)
  <2>1. pc[t] = "compiling" /\ pc'[t] = "compile" /\ op'[t] = op[t]
    BY <1>17 DEF Compiled, TypeOK, At, Goto, input, work
  <2>2. /\ depth'[t] = depth[t] - 1 /\ handler'[t] = saved[t][depth[t]]
        /\ saved'[t] = saved[t] /\ kind'[t] = kind[t]
    BY <1>17, <1>s, TryEndsHere DEF Compiled
  <2>3. OpInv(t)'
    BY <1>d, <2>1, <2>2, SMTT(10)
       DEF StackInv, OpInv, DepthInv, KindInv, HandlerInv, Base, Outside, TryOps,
           RawParseOps, WalkOps, AllOps
  <2>4. DepthInv(t)'
    BY <1>d, <2>1, <2>2, SMTT(10)
       DEF StackInv, OpInv, DepthInv, KindInv, HandlerInv, Base, Outside, TryOps,
           RawParseOps, WalkOps, AllOps
  <2>5. KindInv(t)'
    BY <1>d, <2>1, <2>2, SMTT(10)
       DEF StackInv, OpInv, DepthInv, KindInv, HandlerInv, Base, Outside, TryOps,
           RawParseOps, WalkOps, AllOps
  <2>6. HandlerInv(t)'
    BY <1>d, <2>1, <2>2, SMTT(10)
       DEF StackInv, OpInv, DepthInv, KindInv, HandlerInv, Base, Outside, TryOps,
           RawParseOps, WalkOps, AllOps
  <2> QED BY <2>3, <2>4, <2>5, <2>6 DEF StackInv
<1>18. CASE CompileDone(t)
  <2>1. pc[t] = "compile" /\ pc'[t] = "leave" /\ op'[t] = op[t]
    BY <1>18 DEF CompileDone, TypeOK, At, Goto, input, work
  <2>2. depth'[t] = depth[t] /\ handler'[t] = handler[t] /\ saved'[t] = saved[t] /\ kind'[t] = kind[t]
    BY <1>18 DEF CompileDone, stack
  <2>3. OpInv(t)'
    BY <1>d, <2>1, <2>2, SMTT(10)
       DEF StackInv, OpInv, DepthInv, KindInv, HandlerInv, Base, Outside, TryOps,
           RawParseOps, WalkOps, AllOps
  <2>4. DepthInv(t)'
    BY <1>d, <2>1, <2>2, SMTT(10)
       DEF StackInv, OpInv, DepthInv, KindInv, HandlerInv, Base, Outside, TryOps,
           RawParseOps, WalkOps, AllOps
  <2>5. KindInv(t)'
    BY <1>d, <2>1, <2>2, SMTT(10)
       DEF StackInv, OpInv, DepthInv, KindInv, HandlerInv, Base, Outside, TryOps,
           RawParseOps, WalkOps, AllOps
  <2>6. HandlerInv(t)'
    BY <1>d, <2>1, <2>2, SMTT(10)
       DEF StackInv, OpInv, DepthInv, KindInv, HandlerInv, Base, Outside, TryOps,
           RawParseOps, WalkOps, AllOps
  <2> QED BY <2>3, <2>4, <2>5, <2>6 DEF StackInv
<1>19. CASE EndTry(t)
  <2>1. pc[t] = "end_try" /\ pc'[t] = "leave" /\ op'[t] = op[t]
    BY <1>19 DEF EndTry, TypeOK, At, Goto, input, work
  <2>2. /\ depth'[t] = depth[t] - 1 /\ handler'[t] = saved[t][depth[t]]
        /\ saved'[t] = saved[t] /\ kind'[t] = kind[t]
    BY <1>19, <1>s, TryEndsHere DEF EndTry
  <2>3. OpInv(t)'
    BY <1>d, <2>1, <2>2, SMTT(10)
       DEF StackInv, OpInv, DepthInv, KindInv, HandlerInv, Base, Outside, TryOps,
           RawParseOps, WalkOps, AllOps
  <2>4. DepthInv(t)'
    BY <1>d, <2>1, <2>2, SMTT(10)
       DEF StackInv, OpInv, DepthInv, KindInv, HandlerInv, Base, Outside, TryOps,
           RawParseOps, WalkOps, AllOps
  <2>5. KindInv(t)'
    BY <1>d, <2>1, <2>2, SMTT(10)
       DEF StackInv, OpInv, DepthInv, KindInv, HandlerInv, Base, Outside, TryOps,
           RawParseOps, WalkOps, AllOps
  <2>6. HandlerInv(t)'
    BY <1>d, <2>1, <2>2, SMTT(10)
       DEF StackInv, OpInv, DepthInv, KindInv, HandlerInv, Base, Outside, TryOps,
           RawParseOps, WalkOps, AllOps
  <2> QED BY <2>3, <2>4, <2>5, <2>6 DEF StackInv
<1>20. CASE Error(t)
  <2>1. Raises(t) /\ op'[t] = op[t] /\ stmts'[t] = stmts[t] /\ UNCHANGED <<handler, saved, kind>>
    BY <1>20 DEF Error, Raise, input, work
  <2>2. CASE UNCHANGED <<depth, pc>>
    BY <2>1, <2>2, SMTT(30) DEF StackInv, OpInv, DepthInv, KindInv, HandlerInv, Base
  <2>3. CASE /\ depth' = [depth EXCEPT ![t] = handler[t]] /\ pc' = [pc EXCEPT ![t] = "catch"]
             /\ handler[t] # 0 /\ handler[t] <= depth[t]
    <3>1. handler[t] = depth[t] /\ depth[t] >= 1
      BY <2>3, <1>d DEF StackInv, HandlerInv
    <3>2. depth'[t] = depth[t] /\ pc'[t] = "catch"
      BY <2>3, <3>1 DEF TypeOK
    <3>3. depth[t] \in Frames
      BY <3>1, <1>d
    <3>4. OpInv(t)'
      BY <3>2 DEF OpInv
    <3>5. DepthInv(t)'
      BY <3>1, <3>2 DEF DepthInv, Outside
    <3>6. KindInv(t)'
      BY <1>d, <2>1, <3>1, <3>2, <3>3, SMTT(30)
         DEF Raises, StackInv, OpInv, DepthInv, KindInv, Base, TryOps, WalkOps, RawParseOps
    <3>7. HandlerInv(t)'
      BY <1>d, <2>1, <3>1, <3>2 DEF StackInv, HandlerInv
    <3> QED BY <3>4, <3>5, <3>6, <3>7 DEF StackInv
  <2> QED BY <1>20, <2>2, <2>3, <1>d DEF Error, Raise, Goto
<1>21. CASE Catch(t)
  <2>1. pc[t] = "catch" /\ op'[t] = op[t] /\ pc'[t] = (CASE kind[t][depth[t]] = "walker" -> "walk" [] kind[t][depth[t]] = "raw_parse" -> "parsed" [] OTHER -> "leave")
    BY <1>21 DEF Catch, TypeOK, At, Goto, input, work
  <2>2. /\ depth'[t] = depth[t] - 1 /\ handler'[t] = saved[t][depth[t]]
        /\ saved'[t] = saved[t] /\ kind'[t] = kind[t]
    BY <1>21, <1>s, TryEndsHere DEF Catch
  <2>3. OpInv(t)'
    BY <1>d, <2>1, <2>2, SMTT(10)
       DEF StackInv, OpInv, DepthInv, KindInv, HandlerInv, Base, Outside, TryOps,
           RawParseOps, WalkOps, AllOps
  <2>4. DepthInv(t)'
    BY <1>d, <2>1, <2>2, SMTT(10)
       DEF StackInv, OpInv, DepthInv, KindInv, HandlerInv, Base, Outside, TryOps,
           RawParseOps, WalkOps, AllOps
  <2>5. KindInv(t)'
    BY <1>d, <2>1, <2>2, SMTT(10)
       DEF StackInv, OpInv, DepthInv, KindInv, HandlerInv, Base, Outside, TryOps,
           RawParseOps, WalkOps, AllOps
  <2>6. HandlerInv(t)'
    BY <1>d, <2>1, <2>2, SMTT(10)
       DEF StackInv, OpInv, DepthInv, KindInv, HandlerInv, Base, Outside, TryOps,
           RawParseOps, WalkOps, AllOps
  <2> QED BY <2>3, <2>4, <2>5, <2>6 DEF StackInv
<1>22. CASE ExitMemoryContext(t)
  <2>1. pc[t] = "leave" /\ pc'[t] = "returned" /\ op'[t] = op[t]
    BY <1>22 DEF ExitMemoryContext, TypeOK, At, Goto, input, work
  <2>2. depth'[t] = depth[t] /\ handler'[t] = handler[t] /\ saved'[t] = saved[t] /\ kind'[t] = kind[t]
    BY <1>22 DEF ExitMemoryContext, stack
  <2>3. OpInv(t)'
    BY <1>d, <2>1, <2>2, SMTT(10)
       DEF StackInv, OpInv, DepthInv, KindInv, HandlerInv, Base, Outside, TryOps,
           RawParseOps, WalkOps, AllOps
  <2>4. DepthInv(t)'
    BY <1>d, <2>1, <2>2, SMTT(10)
       DEF StackInv, OpInv, DepthInv, KindInv, HandlerInv, Base, Outside, TryOps,
           RawParseOps, WalkOps, AllOps
  <2>5. KindInv(t)'
    BY <1>d, <2>1, <2>2, SMTT(10)
       DEF StackInv, OpInv, DepthInv, KindInv, HandlerInv, Base, Outside, TryOps,
           RawParseOps, WalkOps, AllOps
  <2>6. HandlerInv(t)'
    BY <1>d, <2>1, <2>2, SMTT(10)
       DEF StackInv, OpInv, DepthInv, KindInv, HandlerInv, Base, Outside, TryOps,
           RawParseOps, WalkOps, AllOps
  <2> QED BY <2>3, <2>4, <2>5, <2>6 DEF StackInv
<1>23. CASE FreeResult(t)
  <2>1. pc[t] = "returned" /\ pc'[t] = "idle" /\ op'[t] = op[t]
    BY <1>23 DEF FreeResult, TypeOK, At, Goto, input, work
  <2>2. depth'[t] = depth[t] /\ handler'[t] = handler[t] /\ saved'[t] = saved[t] /\ kind'[t] = kind[t]
    BY <1>23 DEF FreeResult, stack
  <2>3. OpInv(t)'
    BY <1>d, <2>1, <2>2, SMTT(10)
       DEF StackInv, OpInv, DepthInv, KindInv, HandlerInv, Base, Outside, TryOps,
           RawParseOps, WalkOps, AllOps
  <2>4. DepthInv(t)'
    BY <1>d, <2>1, <2>2, SMTT(10)
       DEF StackInv, OpInv, DepthInv, KindInv, HandlerInv, Base, Outside, TryOps,
           RawParseOps, WalkOps, AllOps
  <2>5. KindInv(t)'
    BY <1>d, <2>1, <2>2, SMTT(10)
       DEF StackInv, OpInv, DepthInv, KindInv, HandlerInv, Base, Outside, TryOps,
           RawParseOps, WalkOps, AllOps
  <2>6. HandlerInv(t)'
    BY <1>d, <2>1, <2>2, SMTT(10)
       DEF StackInv, OpInv, DepthInv, KindInv, HandlerInv, Base, Outside, TryOps,
           RawParseOps, WalkOps, AllOps
  <2> QED BY <2>3, <2>4, <2>5, <2>6 DEF StackInv
<1>24. CASE ThreadExit(t)
  <2>1. pc[t] = "idle" /\ pc'[t] = "exited" /\ op'[t] = op[t]
    BY <1>24 DEF ThreadExit, TypeOK, At, Goto, input, work
  <2>2. depth'[t] = depth[t] /\ handler'[t] = handler[t] /\ saved'[t] = saved[t] /\ kind'[t] = kind[t]
    BY <1>24 DEF ThreadExit, stack
  <2>3. OpInv(t)'
    BY <1>d, <2>1, <2>2, SMTT(10)
       DEF StackInv, OpInv, DepthInv, KindInv, HandlerInv, Base, Outside, TryOps,
           RawParseOps, WalkOps, AllOps
  <2>4. DepthInv(t)'
    BY <1>d, <2>1, <2>2, SMTT(10)
       DEF StackInv, OpInv, DepthInv, KindInv, HandlerInv, Base, Outside, TryOps,
           RawParseOps, WalkOps, AllOps
  <2>5. KindInv(t)'
    BY <1>d, <2>1, <2>2, SMTT(10)
       DEF StackInv, OpInv, DepthInv, KindInv, HandlerInv, Base, Outside, TryOps,
           RawParseOps, WalkOps, AllOps
  <2>6. HandlerInv(t)'
    BY <1>d, <2>1, <2>2, SMTT(10)
       DEF StackInv, OpInv, DepthInv, KindInv, HandlerInv, Base, Outside, TryOps,
           RawParseOps, WalkOps, AllOps
  <2> QED BY <2>3, <2>4, <2>5, <2>6 DEF StackInv
<1>25. CASE PgQueryExit(t)
  <2>1. pc[t] = "idle" /\ pc'[t] = "idle" /\ op'[t] = op[t]
    BY <1>25 DEF PgQueryExit, TypeOK, At, Goto, input, work
  <2>2. depth'[t] = depth[t] /\ handler'[t] = handler[t] /\ saved'[t] = saved[t] /\ kind'[t] = kind[t]
    BY <1>25 DEF PgQueryExit, stack
  <2>3. OpInv(t)'
    BY <1>d, <2>1, <2>2, SMTT(10)
       DEF StackInv, OpInv, DepthInv, KindInv, HandlerInv, Base, Outside, TryOps,
           RawParseOps, WalkOps, AllOps
  <2>4. DepthInv(t)'
    BY <1>d, <2>1, <2>2, SMTT(10)
       DEF StackInv, OpInv, DepthInv, KindInv, HandlerInv, Base, Outside, TryOps,
           RawParseOps, WalkOps, AllOps
  <2>5. KindInv(t)'
    BY <1>d, <2>1, <2>2, SMTT(10)
       DEF StackInv, OpInv, DepthInv, KindInv, HandlerInv, Base, Outside, TryOps,
           RawParseOps, WalkOps, AllOps
  <2>6. HandlerInv(t)'
    BY <1>d, <2>1, <2>2, SMTT(10)
       DEF StackInv, OpInv, DepthInv, KindInv, HandlerInv, Base, Outside, TryOps,
           RawParseOps, WalkOps, AllOps
  <2> QED BY <2>3, <2>4, <2>5, <2>6 DEF StackInv
<1> QED BY <1>1, <1>2, <1>3, <1>4, <1>5, <1>6, <1>7, <1>8, <1>9, <1>10, <1>11, <1>12, <1>13, <1>14, <1>15, <1>16, <1>17, <1>18, <1>19, <1>20, <1>21, <1>22, <1>23, <1>24, <1>25
           DEF Step, Host

\* A step of a thread keeps what is said of its memory contexts and its error state.
LEMMA MemStep ==
  ASSUME TypeOK, NEW t \in Threads, MemInv(t), Step(t) \/ Host(t)
  PROVE  MemInv(t)'
<1>t. /\ live \in [Threads -> SUBSET Contexts]
      /\ current \in [Threads -> Contexts \cup {"NULL"}]
      /\ errors \in [Threads -> 0 .. 1]
      /\ pc \in [Threads -> Pcs]
  BY DEF TypeOK
<1>1. CASE Call(t)
  BY <1>1, <1>t, SMTT(10) DEF Call, At, Goto, MemInv, HasTop, mem, Contexts, Outside
<1>2. CASE InitContexts(t)
  BY <1>2, <1>t, SMTT(10) DEF InitContexts, At, Goto, MemInv, HasTop, mem, Contexts, Outside
<1>3. CASE KeyCreate(t)
  BY <1>3, <1>t, SMTT(10) DEF KeyCreate, At, Goto, MemInv, HasTop, mem, Contexts, Outside
<1>4. CASE SetSpecific(t)
  BY <1>4, <1>t, SMTT(10) DEF SetSpecific, At, Goto, MemInv, HasTop, mem, Contexts, Outside
<1>5. CASE EnterMemoryContext(t)
  BY <1>5, <1>t, SMTT(10)
     DEF EnterMemoryContext, At, Goto, MemInv, HasTop, mem, Contexts, Outside
<1>6. CASE BeginTry(t)
  BY <1>6, <1>t, SMTT(10) DEF BeginTry, At, Goto, MemInv, HasTop, mem, Contexts, Outside
<1>7. CASE RawParse(t)
  BY <1>7, <1>t, SMTT(10) DEF RawParse, At, Goto, MemInv, HasTop, mem, Contexts, Outside
<1>8. CASE RawParseReturns(t)
  BY <1>8, <1>t, SMTT(10)
     DEF RawParseReturns, At, Goto, MemInv, HasTop, mem, Contexts, Outside
<1>9. CASE AfterRawParse(t)
  BY <1>9, <1>t, SMTT(10)
     DEF AfterRawParse, At, Goto, MemInv, HasTop, mem, Contexts, Outside
<1>10. CASE Lex(t)
  BY <1>10, <1>t, SMTT(10) DEF Lex, At, Goto, MemInv, HasTop, mem, Contexts, Outside
<1>11. CASE WalkNode(t)
  BY <1>11, <1>t, SMTT(10) DEF WalkNode, At, Goto, MemInv, HasTop, mem, Contexts, Outside
<1>12. CASE VisitChildren(t)
  BY <1>12, <1>t, SMTT(10)
     DEF VisitChildren, At, Goto, MemInv, HasTop, mem, Contexts, Outside
<1>13. CASE WalkReturn(t)
  BY <1>13, <1>t, SMTT(10) DEF WalkReturn, At, Goto, MemInv, HasTop, mem, Contexts, Outside
<1>14. CASE WalkDone(t)
  BY <1>14, <1>t, SMTT(10) DEF WalkDone, At, Goto, MemInv, HasTop, mem, Contexts, Outside
<1>15. CASE Build(t)
  BY <1>15, <1>t, SMTT(10) DEF Build, At, Goto, MemInv, HasTop, mem, Contexts, Outside
<1>16. CASE CompileNext(t)
  BY <1>16, <1>t, SMTT(10) DEF CompileNext, At, Goto, MemInv, HasTop, mem, Contexts, Outside
<1>17. CASE Compiled(t)
  BY <1>17, <1>t, SMTT(10) DEF Compiled, At, Goto, MemInv, HasTop, mem, Contexts, Outside
<1>18. CASE CompileDone(t)
  BY <1>18, <1>t, SMTT(10) DEF CompileDone, At, Goto, MemInv, HasTop, mem, Contexts, Outside
<1>19. CASE EndTry(t)
  BY <1>19, <1>t, SMTT(10) DEF EndTry, At, Goto, MemInv, HasTop, mem, Contexts, Outside
<1>20. CASE Error(t)
  BY <1>20, <1>t, SMTT(10)
     DEF Error, At, Goto, MemInv, HasTop, mem, Contexts, Outside, Raise
<1>21. CASE Catch(t)
  BY <1>21, <1>t, SMTT(10) DEF Catch, At, Goto, MemInv, HasTop, mem, Contexts, Outside
<1>22. CASE ExitMemoryContext(t)
  BY <1>22, <1>t, SMTT(10)
     DEF ExitMemoryContext, At, Goto, MemInv, HasTop, mem, Contexts, Outside
<1>23. CASE FreeResult(t)
  BY <1>23, <1>t, SMTT(10) DEF FreeResult, At, Goto, MemInv, HasTop, mem, Contexts, Outside
<1>24. CASE ThreadExit(t)
  BY <1>24, <1>t, SMTT(10)
     DEF ThreadExit, At, Goto, MemInv, HasTop, mem, Contexts, Outside, FreeTop
<1>25. CASE PgQueryExit(t)
  BY <1>25, <1>t, SMTT(10)
     DEF PgQueryExit, At, Goto, MemInv, HasTop, mem, Contexts, Outside, FreeTop
<1> QED BY <1>1, <1>2, <1>3, <1>4, <1>5, <1>6, <1>7, <1>8, <1>9, <1>10, <1>11, <1>12, <1>13, <1>14, <1>15, <1>16, <1>17, <1>18, <1>19, <1>20, <1>21, <1>22, <1>23, <1>24, <1>25
           DEF Step, Host

\* The invariant holds initially, ...
LEMMA InitInv == Init => IInv
<1> SUFFICES ASSUME Init PROVE IInv
  OBVIOUS
<1>1. TypeOK
  BY SessionAssumption DEF Init, TypeOK, Frames, FrameKinds, Pcs, AllOps
<1>2. ASSUME NEW t \in Threads PROVE StackInv(t)
  BY SessionAssumption
     DEF Init, StackInv, OpInv, DepthInv, KindInv, HandlerInv, Base, Outside, TryOps,
         Frames
<1>3. ASSUME NEW t \in Threads PROVE MemInv(t)
  BY DEF Init, MemInv, HasTop, Outside
<1> QED BY <1>1, <1>2, <1>3 DEF IInv

\* ... every step preserves it, ...
LEMMA StepInv == IInv /\ [Next]_vars => IInv'
<1> SUFFICES ASSUME IInv, [Next]_vars PROVE IInv'
  OBVIOUS
<1>1. CASE UNCHANGED vars
  BY <1>1
     DEF IInv, TypeOK, StackInv, OpInv, DepthInv, KindInv, HandlerInv, MemInv, HasTop,
         Base,
              vars, setup, mem, stack, input, work, output
<1>2. CASE Next
  <2> PICK t \in Threads : Step(t) \/ Host(t)
    BY <1>2 DEF Next
  <2>1. TypeOK'
    BY TypeStep DEF IInv
  <2>2. StackInv(t)' /\ MemInv(t)'
    BY StackStep, MemStep DEF IInv
  <2>3. ASSUME NEW u \in Threads, u # t PROVE StackInv(u)' /\ MemInv(u)'
    <3>1. /\ pc'[u] = pc[u] /\ op'[u] = op[u] /\ stmts'[u] = stmts[u]
          /\ depth'[u] = depth[u] /\ handler'[u] = handler[u]
          /\ saved'[u] = saved[u] /\ kind'[u] = kind[u]
          /\ live'[u] = live[u] /\ current'[u] = current[u] /\ errors'[u] = errors[u]
      BY <2>3, OthersStep DEF IInv
    <3>2. StackInv(u) /\ MemInv(u)
      BY DEF IInv
    <3>3. StackInv(u)'
      BY <3>1, <3>2 DEF StackInv, OpInv, DepthInv, KindInv, HandlerInv, Base
    <3>4. MemInv(u)'
      BY <3>1, <3>2 DEF MemInv, HasTop
    <3> QED BY <3>3, <3>4
  <2> QED BY <2>1, <2>2, <2>3 DEF IInv
<1> QED BY <1>1, <1>2

\* ... and it implies that threads between two calls are clean.
LEMMA InvReady == IInv => ReadyBetweenCalls
<1> SUFFICES ASSUME IInv, NEW t \in Threads, pc[t] \in {"idle", "returned", "exited"}
             PROVE  Pristine(t)
  BY DEF ReadyBetweenCalls
<1>1. live[t] \in SUBSET Contexts
  BY DEF IInv, TypeOK
<1>2. MemInv(t) /\ StackInv(t)
  BY DEF IInv
<1>3. live[t] = IF HasTop(t) THEN {"TopMemoryContext", "ErrorContext"} ELSE {}
  BY <1>1, <1>2 DEF MemInv, Contexts, Outside
<1> QED BY <1>2, <1>3 DEF Pristine, MemInv, StackInv, DepthInv, HandlerInv, Outside

\* The inductive invariant holds in every reachable state.
THEOREM Invariance == Spec => []IInv
<1> QED BY InitInv, StepInv, PTL DEF Spec

\* Every variable stays in its type: no call opens more PG_TRY blocks than it closes
\* and none compiles more statements than it found.
THEOREM TypeCorrect == Spec => []TypeOK
<1>1. IInv => TypeOK
  BY DEF IInv
<1> QED BY <1>1, Invariance, PTL

\* pg_query_exit_memory_context and the PG_TRY blocks of the API functions leave a
\* thread as pg_query_init left it, on every path: also with failing allocations, with a
\* host that calls pg_query_exit, and although const_record_walker returns from inside
\* its blocks, because the block around the walk restores what it saved itself.
THEOREM CleansUp == Spec => []ReadyBetweenCalls
<1> QED BY InvReady, Invariance, PTL

-----------------------------------------------------------------------------
\* What the result of a call owns while it is being put together.
ResultInv(t) ==
  /\ result[t] \subseteq heap[t]
  /\ op[t] \in {"is_utility", "plpgsql"} => "stderr_buffer" \notin result[t]
  /\ pc[t] \in {"leave", "end_try", "compile", "compiling", "returned"} =>
       \/ result[t] \cap {"payload", "error"} # {}
       \/ op[t] = "split_with_parser" /\ tree[t] = "NIL"
  /\ pc[t] \in {"idle", "init", "key_create", "set_specific", "enter", "try"} => result[t] = {}

\* A step of a thread keeps the result struct within what is allocated.
LEMMA ResultStep ==
  ASSUME TypeOK, NEW t \in Threads, StackInv(t), ResultInv(t), Step(t) \/ Host(t)
  PROVE  ResultInv(t)'
<1>t. /\ heap \in [Threads -> SUBSET Pieces] /\ result \in [Threads -> SUBSET Pieces]
      /\ op \in [Threads -> AllOps] /\ tree \in [Threads -> {"NIL", "list"}]
      /\ pc \in [Threads -> Pcs]
  BY DEF TypeOK
<1>1. CASE Call(t)
  BY <1>1, <1>t, SMTT(20) DEF Call, At, Goto, ResultInv, input, work, output
<1>2. CASE InitContexts(t)
  BY <1>2, <1>t, SMTT(20) DEF InitContexts, At, Goto, ResultInv, input, work, output
<1>3. CASE KeyCreate(t)
  BY <1>3, <1>t, SMTT(20) DEF KeyCreate, At, Goto, ResultInv, input, work, output
<1>4. CASE SetSpecific(t)
  BY <1>4, <1>t, SMTT(20) DEF SetSpecific, At, Goto, ResultInv, input, work, output
<1>5. CASE EnterMemoryContext(t)
  BY <1>5, <1>t, SMTT(20) DEF EnterMemoryContext, At, Goto, ResultInv, input, work, output
<1>6. CASE BeginTry(t)
  BY <1>6, <1>t, SMTT(20) DEF BeginTry, At, Goto, ResultInv, input, work, output
<1>7. CASE RawParse(t)
  BY <1>7, <1>t, SMTT(20) DEF RawParse, At, Goto, ResultInv, input, work, output
<1>8. CASE RawParseReturns(t)
  BY <1>8, <1>t, SMTT(20) DEF RawParseReturns, At, Goto, ResultInv, input, work, output
<1>9. CASE AfterRawParse(t)
  BY <1>9, <1>t, SMTT(20)
     DEF AfterRawParse, At, Goto, ResultInv, input, work, output, GoesOn, StackInv, OpInv,
         RawParseOps
<1>10. CASE Lex(t)
  BY <1>10, <1>t, SMTT(20) DEF Lex, At, Goto, ResultInv, input, work, output
<1>11. CASE WalkNode(t)
  BY <1>11, <1>t, SMTT(20) DEF WalkNode, At, Goto, ResultInv, input, work, output
<1>12. CASE VisitChildren(t)
  BY <1>12, <1>t, SMTT(20) DEF VisitChildren, At, Goto, ResultInv, input, work, output
<1>13. CASE WalkReturn(t)
  BY <1>13, <1>t, SMTT(20) DEF WalkReturn, At, Goto, ResultInv, input, work, output
<1>14. CASE WalkDone(t)
  BY <1>14, <1>t, SMTT(20) DEF WalkDone, At, Goto, ResultInv, input, work, output
<1>15. CASE Build(t)
  BY <1>15, <1>t, SMTT(20) DEF Build, At, Goto, ResultInv, input, work, output, Built
<1>16. CASE CompileNext(t)
  BY <1>16, <1>t, SMTT(20) DEF CompileNext, At, Goto, ResultInv, input, work, output
<1>17. CASE Compiled(t)
  BY <1>17, <1>t, SMTT(20) DEF Compiled, At, Goto, ResultInv, input, work, output
<1>18. CASE CompileDone(t)
  BY <1>18, <1>t, SMTT(20)
     DEF CompileDone, At, Goto, ResultInv, StackInv, OpInv, input, work, output
<1>19. CASE EndTry(t)
  BY <1>19, <1>t, SMTT(20) DEF EndTry, At, Goto, ResultInv, input, work, output
<1>20. CASE Error(t)
  BY <1>20, <1>t, SMTT(20) DEF Error, At, Goto, ResultInv, input, work, output, Raise
<1>21. CASE Catch(t)
  <2>1. op'[t] = op[t] /\ tree'[t] = tree[t] /\ pc[t] = "catch"
    BY <1>21 DEF Catch, At, input, work
  <2>2. CASE kind[t][depth[t]] = "walker"
    <3>1. pc' = [pc EXCEPT ![t] = "walk"]
      BY <1>21, <2>2, Zenon DEF Catch, Goto
    <3>2. heap'[t] = heap[t] /\ result'[t] = result[t]
      BY <1>21, <1>t, <2>2 DEF Catch
    <3> QED BY <1>t, <2>1, <3>1, <3>2 DEF ResultInv
  <2>3. CASE kind[t][depth[t]] = "raw_parse"
    <3>1. pc' = [pc EXCEPT ![t] = "parsed"]
      BY <1>21, <2>3 DEF Catch, Goto
    <3>2. heap'[t] = heap[t] \cup {"error"} /\ result'[t] = result[t]
      BY <1>21, <1>t, <2>3 DEF Catch
    <3> QED BY <1>t, <2>1, <3>1, <3>2 DEF ResultInv
  <2>4. CASE kind[t][depth[t]] \in {"api", "compile"}
    <3>1. pc' = [pc EXCEPT ![t] = "leave"]
      BY <1>21, <2>4 DEF Catch, Goto
    <3>2. heap'[t] = heap[t] \cup {"error"} /\ result'[t] = result[t] \cup {"error"}
      BY <1>21, <1>t, <2>4 DEF Catch
    <3> QED BY <1>t, <2>1, <3>1, <3>2 DEF ResultInv
  <2>5. kind[t][depth[t]] \in FrameKinds
    BY <2>1, SessionAssumption DEF StackInv, DepthInv, TypeOK, Frames
  <2> QED BY <2>2, <2>3, <2>4, <2>5 DEF FrameKinds
<1>22. CASE ExitMemoryContext(t)
  BY <1>22, <1>t, SMTT(20) DEF ExitMemoryContext, At, Goto, ResultInv, input, work, output
<1>23. CASE FreeResult(t)
  BY <1>23, <1>t, SMTT(20) DEF FreeResult, At, Goto, ResultInv, input, work, output, Freed
<1>24. CASE ThreadExit(t)
  BY <1>24, <1>t, SMTT(20) DEF ThreadExit, At, Goto, ResultInv, input, work, output
<1>25. CASE PgQueryExit(t)
  BY <1>25, <1>t, SMTT(20) DEF PgQueryExit, At, Goto, ResultInv, input, work, output
<1> QED BY <1>1, <1>2, <1>3, <1>4, <1>5, <1>6, <1>7, <1>8, <1>9, <1>10, <1>11, <1>12, <1>13, <1>14, <1>15, <1>16, <1>17, <1>18, <1>19, <1>20, <1>21, <1>22, <1>23, <1>24, <1>25
           DEF Step, Host

\* Initially no result exists, ...
LEMMA InitResult == Init => \A t \in Threads : ResultInv(t)
BY DEF Init, ResultInv

\* ... and no step lets one point to what was freed.
LEMMA StepResult ==
  ASSUME IInv, \A t \in Threads : ResultInv(t), [Next]_vars
  PROVE  \A t \in Threads : ResultInv(t)'
<1>1. CASE UNCHANGED vars
  BY <1>1 DEF ResultInv, vars, input, work, output
<1>2. CASE Next
  <2> PICK t \in Threads : Step(t) \/ Host(t)
    BY <1>2 DEF Next
  <2>1. ResultInv(t)'
    BY ResultStep DEF IInv
  <2>2. ASSUME NEW u \in Threads, u # t PROVE ResultInv(u)'
    <3>1. /\ pc'[u] = pc[u] /\ op'[u] = op[u] /\ heap'[u] = heap[u]
          /\ result'[u] = result[u] /\ tree'[u] = tree[u]
      BY <2>2, OthersStep DEF IInv
    <3> QED BY <3>1 DEF ResultInv
  <2> QED BY <2>1, <2>2
<1> QED BY <1>1, <1>2

\* A result handed to the host points to live memory only and has a payload or an
\* error, for every function of the API and on every error path.
THEOREM ResultsValid == Spec => []ResultOwned
<1> DEFINE RInv == \A t \in Threads : ResultInv(t)
<1>1. Init => RInv
  BY InitResult
<1>2. IInv /\ RInv /\ [Next]_vars => RInv'
  BY StepResult
<1>3. RInv => ResultOwned
  BY DEF ResultInv, ResultOwned
<1> QED BY <1>1, <1>2, <1>3, Invariance, PTL DEF Spec

-----------------------------------------------------------------------------
\* A thread that is in a call, or has made one, has its TopMemoryContext.
ReadyInv(t) ==
  /\ pc[t] # "exited" => (HasTop(t) <=> t \in initialized)
  /\ t \in registered => t \in initialized
  /\ pc[t] \notin {"idle", "init", "exited"} => t \in initialized

\* Where the code raises by itself, PG_exception_stack leads to a live block.
LEMMA HandlerThere ==
  ASSUME ~AllocationFailures, TypeOK, NEW t \in Threads, StackInv(t), Raises(t)
  PROVE  handler[t] # 0 /\ handler[t] <= depth[t]
<1>1. depth[t] \in 0 .. MaxFrames /\ Base(t) \in 0 .. 1 /\ MaxFrames \in Nat
  BY SessionAssumption DEF TypeOK, Base
<1> QED BY <1>1 DEF Raises, StackInv, OpInv, DepthInv, HandlerInv, Base, TryOps, RawParseOps

\* A step that raises finds a handler and an ErrorContext, so that the process goes on.
LEMMA ReadyStep ==
  ASSUME ~AllocationFailures, ~CallsExit, TypeOK, process = "running",
         NEW t \in Threads, StackInv(t), MemInv(t), ReadyInv(t), Step(t) \/ Host(t)
  PROVE  process' = "running" /\ ReadyInv(t)'
<1>t. /\ live \in [Threads -> SUBSET Contexts] /\ pc \in [Threads -> Pcs]
  BY DEF TypeOK
<1>1. CASE Call(t)
  BY <1>1, <1>t, SMTT(10) DEF Call, At, Goto, ReadyInv, HasTop, setup, mem, Contexts
<1>2. CASE InitContexts(t)
  BY <1>2, <1>t, SMTT(10) DEF InitContexts, At, Goto, ReadyInv, HasTop, setup, mem, Contexts
<1>3. CASE KeyCreate(t)
  BY <1>3, <1>t, SMTT(10) DEF KeyCreate, At, Goto, ReadyInv, HasTop, setup, mem, Contexts
<1>4. CASE SetSpecific(t)
  BY <1>4, <1>t, SMTT(10) DEF SetSpecific, At, Goto, ReadyInv, HasTop, setup, mem, Contexts
<1>5. CASE EnterMemoryContext(t)
  BY <1>5, <1>t, SMTT(10)
     DEF EnterMemoryContext, At, Goto, ReadyInv, HasTop, setup, mem, Contexts
<1>6. CASE BeginTry(t)
  BY <1>6, <1>t, SMTT(10) DEF BeginTry, At, Goto, ReadyInv, HasTop, setup, mem, Contexts
<1>7. CASE RawParse(t)
  BY <1>7, <1>t, SMTT(10) DEF RawParse, At, Goto, ReadyInv, HasTop, setup, mem, Contexts
<1>8. CASE RawParseReturns(t)
  BY <1>8, <1>t, SMTT(10)
     DEF RawParseReturns, At, Goto, ReadyInv, HasTop, setup, mem, Contexts
<1>9. CASE AfterRawParse(t)
  BY <1>9, <1>t, SMTT(10)
     DEF AfterRawParse, At, Goto, ReadyInv, HasTop, setup, mem, Contexts
<1>10. CASE Lex(t)
  BY <1>10, <1>t, SMTT(10) DEF Lex, At, Goto, ReadyInv, HasTop, setup, mem, Contexts
<1>11. CASE WalkNode(t)
  BY <1>11, <1>t, SMTT(10) DEF WalkNode, At, Goto, ReadyInv, HasTop, setup, mem, Contexts
<1>12. CASE VisitChildren(t)
  BY <1>12, <1>t, SMTT(10)
     DEF VisitChildren, At, Goto, ReadyInv, HasTop, setup, mem, Contexts
<1>13. CASE WalkReturn(t)
  BY <1>13, <1>t, SMTT(10) DEF WalkReturn, At, Goto, ReadyInv, HasTop, setup, mem, Contexts
<1>14. CASE WalkDone(t)
  BY <1>14, <1>t, SMTT(10) DEF WalkDone, At, Goto, ReadyInv, HasTop, setup, mem, Contexts
<1>15. CASE Build(t)
  BY <1>15, <1>t, SMTT(10) DEF Build, At, Goto, ReadyInv, HasTop, setup, mem, Contexts
<1>16. CASE CompileNext(t)
  BY <1>16, <1>t, SMTT(10) DEF CompileNext, At, Goto, ReadyInv, HasTop, setup, mem, Contexts
<1>17. CASE Compiled(t)
  BY <1>17, <1>t, SMTT(10) DEF Compiled, At, Goto, ReadyInv, HasTop, setup, mem, Contexts
<1>18. CASE CompileDone(t)
  BY <1>18, <1>t, SMTT(10) DEF CompileDone, At, Goto, ReadyInv, HasTop, setup, mem, Contexts
<1>19. CASE EndTry(t)
  BY <1>19, <1>t, SMTT(10) DEF EndTry, At, Goto, ReadyInv, HasTop, setup, mem, Contexts
<1>20. CASE Error(t)
  <2>1. Raises(t) /\ pc[t] \notin {"idle", "init", "exited"}
    BY <1>20 DEF Error, Raises
  <2>2. handler[t] # 0 /\ handler[t] <= depth[t] /\ HasTop(t)
    BY <2>1, HandlerThere DEF ReadyInv
  <2>3. depth[t] \in 0 .. MaxFrames /\ handler[t] \in 0 .. MaxFrames /\ MaxFrames \in Nat
    BY SessionAssumption DEF TypeOK
  <2> QED BY <1>20, <1>t, <2>1, <2>2, <2>3 DEF Error, Raise, Goto, ReadyInv, HasTop, setup
<1>21. CASE Catch(t)
  BY <1>21, <1>t, SMTT(10) DEF Catch, At, Goto, ReadyInv, HasTop, setup, mem, Contexts
<1>22. CASE ExitMemoryContext(t)
  BY <1>22, <1>t, SMTT(10)
     DEF ExitMemoryContext, At, Goto, ReadyInv, HasTop, setup, mem, Contexts
<1>23. CASE FreeResult(t)
  BY <1>23, <1>t, SMTT(10) DEF FreeResult, At, Goto, ReadyInv, HasTop, setup, mem, Contexts
<1>24. CASE ThreadExit(t)
  BY <1>24, <1>t, SMTT(10)
     DEF ThreadExit, At, Goto, ReadyInv, HasTop, setup, mem, Contexts, FreeTop
<1>25. CASE PgQueryExit(t)
  BY <1>25, <1>t, SMTT(10)
     DEF PgQueryExit, At, Goto, ReadyInv, HasTop, setup, mem, Contexts, FreeTop
<1> QED BY <1>1, <1>2, <1>3, <1>4, <1>5, <1>6, <1>7, <1>8, <1>9, <1>10, <1>11, <1>12, <1>13, <1>14, <1>15, <1>16, <1>17, <1>18, <1>19, <1>20, <1>21, <1>22, <1>23, <1>24, <1>25
           DEF Step, Host

\* What ReadyInv says of a thread, no other thread can change.
LEMMA OthersReady ==
  ASSUME TypeOK, NEW t \in Threads, Step(t) \/ Host(t), NEW u \in Threads, u # t, ReadyInv(u)
  PROVE  ReadyInv(u)'
<1>1. pc'[u] = pc[u] /\ live'[u] = live[u]
  BY OthersStep
<1>2. (u \in initialized' <=> u \in initialized) /\ (u \in registered' <=> u \in registered)
  BY DEF Step, Host, setup, Call, InitContexts, KeyCreate, SetSpecific, EnterMemoryContext, 
         BeginTry, RawParse, RawParseReturns, AfterRawParse, Lex, WalkNode, VisitChildren,
         WalkReturn, WalkDone, Build, CompileNext, Compiled, CompileDone, EndTry, Error, Raise,
         Catch, ExitMemoryContext, FreeResult, ThreadExit, PgQueryExit
<1> QED BY <1>1, <1>2 DEF ReadyInv, HasTop

\* Without allocation failures and without pg_query_exit no error leaves the library:
\* errstart never promotes one to FATAL and no siglongjmp goes to a returned frame,
\* even though the handlers of the normalize walk dangle between two of its blocks.
THEOREM ErrorsContained ==
  ASSUME ~AllocationFailures, ~CallsExit
  PROVE  Spec => []ErrorsStayInside
<1> DEFINE EInv == process = "running" /\ \A t \in Threads : ReadyInv(t)
<1>1. Init => EInv
  BY DEF Init, ReadyInv, HasTop
<1>2. IInv /\ EInv /\ [Next]_vars => EInv'
  <2> SUFFICES ASSUME IInv, EInv, [Next]_vars PROVE EInv'
    OBVIOUS
  <2>1. CASE UNCHANGED vars
    BY <2>1 DEF ReadyInv, HasTop, vars, setup, mem
  <2>2. CASE Next
    <3> PICK t \in Threads : Step(t) \/ Host(t)
      BY <2>2 DEF Next
    <3>1. process' = "running" /\ ReadyInv(t)'
      BY ReadyStep DEF IInv
    <3>2. ASSUME NEW u \in Threads, u # t PROVE ReadyInv(u)'
      BY <3>2, OthersReady DEF IInv
    <3> QED BY <3>1, <3>2
  <2> QED BY <2>1, <2>2
<1>3. EInv => ErrorsStayInside
  BY DEF ErrorsStayInside
<1> QED BY <1>1, <1>2, <1>3, Invariance, PTL DEF Spec

-----------------------------------------------------------------------------
\* What a thread needs to have freed its memory when it is gone.
KeyInv(t) ==
  /\ pc[t] = "set_specific" => exitKey > 0
  /\ pc[t] \notin {"key_create", "set_specific"} /\ t \in initialized => t \in registered
  /\ t \notin initialized => pc[t] \in {"idle", "init", "exited"} /\ live[t] = {}
  /\ pc[t] = "init" => t \notin initialized
  /\ pc[t] = "exited" => live[t] = {}

\* A step of a thread keeps what is needed to free its memory when it exits.
LEMMA KeyStep ==
  ASSUME MaxKeys > 0, TypeOK, keys > 0 => exitKey > 0, NEW t \in Threads, MemInv(t),
         KeyInv(t), Step(t) \/ Host(t)
  PROVE  (keys > 0 => exitKey > 0)' /\ KeyInv(t)'
<1>t. /\ live \in [Threads -> SUBSET Contexts] /\ pc \in [Threads -> Pcs]
      /\ keys \in 0 .. MaxKeys /\ exitKey \in 0 .. MaxKeys /\ MaxKeys \in Nat
  BY SessionAssumption DEF TypeOK
<1>1. CASE Call(t)
  BY <1>1, <1>t, SMTT(10) DEF Call, At, Goto, KeyInv, HasTop, setup, mem
<1>2. CASE InitContexts(t)
  BY <1>2, <1>t, SMTT(10) DEF InitContexts, At, Goto, KeyInv, HasTop, setup, mem
<1>3. CASE KeyCreate(t)
  BY <1>3, <1>t, SMTT(10) DEF KeyCreate, At, Goto, KeyInv, HasTop, setup, mem
<1>4. CASE SetSpecific(t)
  BY <1>4, <1>t, SMTT(10) DEF SetSpecific, At, Goto, KeyInv, HasTop, setup, mem
<1>5. CASE EnterMemoryContext(t)
  BY <1>5, <1>t, SMTT(10) DEF EnterMemoryContext, At, Goto, KeyInv, HasTop, setup, mem
<1>6. CASE BeginTry(t)
  BY <1>6, <1>t, SMTT(10) DEF BeginTry, At, Goto, KeyInv, HasTop, setup, mem
<1>7. CASE RawParse(t)
  BY <1>7, <1>t, SMTT(10) DEF RawParse, At, Goto, KeyInv, HasTop, setup, mem
<1>8. CASE RawParseReturns(t)
  BY <1>8, <1>t, SMTT(10) DEF RawParseReturns, At, Goto, KeyInv, HasTop, setup, mem
<1>9. CASE AfterRawParse(t)
  BY <1>9, <1>t, SMTT(10) DEF AfterRawParse, At, Goto, KeyInv, HasTop, setup, mem
<1>10. CASE Lex(t)
  BY <1>10, <1>t, SMTT(10) DEF Lex, At, Goto, KeyInv, HasTop, setup, mem
<1>11. CASE WalkNode(t)
  BY <1>11, <1>t, SMTT(10) DEF WalkNode, At, Goto, KeyInv, HasTop, setup, mem
<1>12. CASE VisitChildren(t)
  BY <1>12, <1>t, SMTT(10) DEF VisitChildren, At, Goto, KeyInv, HasTop, setup, mem
<1>13. CASE WalkReturn(t)
  BY <1>13, <1>t, SMTT(10) DEF WalkReturn, At, Goto, KeyInv, HasTop, setup, mem
<1>14. CASE WalkDone(t)
  BY <1>14, <1>t, SMTT(10) DEF WalkDone, At, Goto, KeyInv, HasTop, setup, mem
<1>15. CASE Build(t)
  BY <1>15, <1>t, SMTT(10) DEF Build, At, Goto, KeyInv, HasTop, setup, mem
<1>16. CASE CompileNext(t)
  BY <1>16, <1>t, SMTT(10) DEF CompileNext, At, Goto, KeyInv, HasTop, setup, mem
<1>17. CASE Compiled(t)
  BY <1>17, <1>t, SMTT(10) DEF Compiled, At, Goto, KeyInv, HasTop, setup, mem
<1>18. CASE CompileDone(t)
  BY <1>18, <1>t, SMTT(10) DEF CompileDone, At, Goto, KeyInv, HasTop, setup, mem
<1>19. CASE EndTry(t)
  BY <1>19, <1>t, SMTT(10) DEF EndTry, At, Goto, KeyInv, HasTop, setup, mem
<1>20. CASE Error(t)
  BY <1>20, <1>t, SMTT(10) DEF Error, At, Goto, KeyInv, HasTop, setup, mem, Raise, Raises
<1>21. CASE Catch(t)
  BY <1>21, <1>t, SMTT(10) DEF Catch, At, Goto, KeyInv, HasTop, setup, mem
<1>22. CASE ExitMemoryContext(t)
  BY <1>22, <1>t, SMTT(10) DEF ExitMemoryContext, At, Goto, KeyInv, HasTop, setup, mem
<1>23. CASE FreeResult(t)
  BY <1>23, <1>t, SMTT(10) DEF FreeResult, At, Goto, KeyInv, HasTop, setup, mem
<1>24. CASE ThreadExit(t)
  BY <1>24, <1>t, SMTT(10)
     DEF ThreadExit, At, Goto, KeyInv, HasTop, setup, mem, FreeTop, MemInv, Outside,
         Contexts
<1>25. CASE PgQueryExit(t)
  BY <1>25, <1>t, SMTT(10) DEF PgQueryExit, At, Goto, KeyInv, HasTop, setup, mem, FreeTop
<1> QED BY <1>1, <1>2, <1>3, <1>4, <1>5, <1>6, <1>7, <1>8, <1>9, <1>10, <1>11, <1>12, <1>13, <1>14, <1>15, <1>16, <1>17, <1>18, <1>19, <1>20, <1>21, <1>22, <1>23, <1>24, <1>25
           DEF Step, Host

\* The key other threads overwrite stays a key.
LEMMA OthersKey ==
  ASSUME TypeOK, NEW t \in Threads, Step(t) \/ Host(t), NEW u \in Threads, u # t,
         (keys > 0 => exitKey > 0)', KeyInv(u)
  PROVE  KeyInv(u)'
<1>1. pc'[u] = pc[u] /\ live'[u] = live[u]
  BY OthersStep
<1>2. (u \in initialized' <=> u \in initialized) /\ (u \in registered' <=> u \in registered)
  BY DEF Step, Host, setup, Call, InitContexts, KeyCreate, SetSpecific, EnterMemoryContext, 
         BeginTry, RawParse, RawParseReturns, AfterRawParse, Lex, WalkNode, VisitChildren,
         WalkReturn, WalkDone, Build, CompileNext, Compiled, CompileDone, EndTry, Error, Raise,
         Catch, ExitMemoryContext, FreeResult, ThreadExit, PgQueryExit
<1>3. UNCHANGED <<keys, exitKey>> \/ keys' = keys + 1
  BY DEF Step, Host, setup, Call, InitContexts, KeyCreate, SetSpecific, EnterMemoryContext, 
         BeginTry, RawParse, RawParseReturns, AfterRawParse, Lex, WalkNode, VisitChildren,
         WalkReturn, WalkDone, Build, CompileNext, Compiled, CompileDone, EndTry, Error, Raise,
         Catch, ExitMemoryContext, FreeResult, ThreadExit, PgQueryExit
<1>4. exitKey > 0 => exitKey' > 0
  BY <1>3, SessionAssumption DEF TypeOK
<1> QED BY <1>1, <1>2, <1>4 DEF KeyInv

\* The memory contexts of a thread that has exited are freed, however the threads race
\* for pg_query_thread_exit_key, as long as one pthread key can be created.
THEOREM ThreadsFreed ==
  ASSUME MaxKeys > 0
  PROVE  Spec => []ExitedThreadsFreed
<1> DEFINE FInv == (keys > 0 => exitKey > 0) /\ \A t \in Threads : KeyInv(t)
<1>1. Init => FInv
  BY DEF Init, KeyInv
<1>2. IInv /\ FInv /\ [Next]_vars => FInv'
  <2> SUFFICES ASSUME IInv, FInv, [Next]_vars PROVE FInv'
    OBVIOUS
  <2>1. CASE UNCHANGED vars
    BY <2>1 DEF KeyInv, vars, setup, mem
  <2>2. CASE Next
    <3> PICK t \in Threads : Step(t) \/ Host(t)
      BY <2>2 DEF Next
    <3>1. (keys > 0 => exitKey > 0)' /\ KeyInv(t)'
      BY KeyStep DEF IInv
    <3>2. ASSUME NEW u \in Threads, u # t PROVE KeyInv(u)'
      BY <3>1, <3>2, OthersKey DEF IInv
    <3> QED BY <3>1, <3>2
  <2> QED BY <2>1, <2>2
<1>3. FInv => ExitedThreadsFreed
  BY DEF ExitedThreadsFreed, KeyInv
<1> QED BY <1>1, <1>2, <1>3, Invariance, PTL DEF Spec

-----------------------------------------------------------------------------
\* The initial states of Session map to initial states of ApiContract, ...
LEMMA ContractInit == Init => Contract!AInit
<1> SUFFICES ASSUME Init PROVE Contract!AInit
  OBVIOUS
<1>1. ASSUME NEW t \in Threads PROVE Phase(t) = "idle" /\ Outcome(t) = "none" /\ Pristine(t) = TRUE
  BY DEF Init, Phase, Outcome, Pristine, HasTop
<1> QED BY <1>1 DEF Contract!AInit

\* ... and every step maps to a step of one of its calls or to no step at all.
LEMMA ContractStep ==
  ASSUME IInv, IInv', ReadyBetweenCalls, ReadyBetweenCalls', Next
  PROVE  [Contract!ANext]_Contract!avars
<1> PICK t \in Threads : Step(t) \/ Host(t)
  BY DEF Next
<1>o. ASSUME NEW u \in Threads, u # t
      PROVE  Phase(u)' = Phase(u) /\ Outcome(u)' = Outcome(u) /\ Pristine(u)' = Pristine(u)
  BY <1>o, OthersStep DEF IInv, Phase, Outcome, Pristine, HasTop
<1>c. pc[t] \in {"idle", "returned", "exited"} => Pristine(t) = TRUE
  BY DEF ReadyBetweenCalls, Pristine
<1>d. pc'[t] \in {"idle", "returned", "exited"} => Pristine(t)' = TRUE
  BY DEF ReadyBetweenCalls, Pristine
<1>b. Pristine(t)' \in BOOLEAN
  BY DEF Pristine
<1>1. CASE Call(t)
  <2>1. pc[t] = "idle" /\ pc'[t] \in {"enter", "init"} /\ result'[t] = result[t] /\ Pristine(t)' = Pristine(t)
    BY <1>1 DEF Call, At, Goto, IInv, TypeOK, output, mem, stack, Pristine, HasTop
  <2>2. Phase(t) = "idle" /\ Phase(t)' = "busy" /\ Outcome(t) = "none" /\ Outcome(t)' = "none"
    BY <2>1 DEF Phase, Outcome
  <2>3. Contract!Begin(t)
    BY <1>o, <2>1, <2>2 DEF Contract!Begin
  <2> QED BY <2>3 DEF Contract!ANext
<1>2. CASE Step(t) /\ ~ExitMemoryContext(t)
  <2>1. pc[t] \notin {"idle", "returned", "exited"} /\ pc'[t] \notin {"idle", "returned", "exited"}
    BY <1>2, SMTT(30)
       DEF IInv, TypeOK, Step, At, Goto, Raises, Call, InitContexts, KeyCreate,
           SetSpecific, EnterMemoryContext,
         BeginTry, RawParse, RawParseReturns, AfterRawParse, Lex, WalkNode, VisitChildren,
         WalkReturn, WalkDone, Build, CompileNext, Compiled, CompileDone, EndTry, Error, Raise,
         Catch, ExitMemoryContext, FreeResult, ThreadExit, PgQueryExit
  <2>2. Phase(t) = "busy" /\ Phase(t)' = "busy" /\ Outcome(t) = "none" /\ Outcome(t)' = "none"
    BY <2>1 DEF Phase, Outcome
  <2>3. Contract!Work(t)
    BY <1>o, <1>b, <2>2 DEF Contract!Work
  <2> QED BY <2>3 DEF Contract!ANext
<1>3. CASE ExitMemoryContext(t)
  <2>1. pc[t] = "leave" /\ pc'[t] = "returned"
    BY <1>3 DEF ExitMemoryContext, At, Goto, IInv, TypeOK
  <2>2. Phase(t) = "busy" /\ Phase(t)' = "done" /\ Outcome(t)' \in {"value", "error"} /\ Pristine(t)' = TRUE
    BY <1>d, <2>1 DEF Phase, Outcome
  <2>3. Contract!Return(t)
    BY <1>o, <2>2 DEF Contract!Return
  <2> QED BY <2>3 DEF Contract!ANext
<1>4. CASE FreeResult(t)
  <2>1. pc[t] = "returned" /\ pc'[t] = "idle"
    BY <1>4 DEF FreeResult, At, Goto, IInv, TypeOK
  <2>2. Phase(t) = "done" /\ Phase(t)' = "idle" /\ Outcome(t)' = "none" /\ Pristine(t)' = Pristine(t)
    BY <1>c, <1>d, <2>1 DEF Phase, Outcome
  <2>3. Contract!Take(t)
    BY <1>o, <2>2 DEF Contract!Take
  <2> QED BY <2>3 DEF Contract!ANext
<1>5. CASE ThreadExit(t)
  <2>1. pc[t] = "idle" /\ pc'[t] = "exited"
    BY <1>5 DEF ThreadExit, At, Goto, IInv, TypeOK
  <2>2. /\ Phase(t) = "idle" /\ Phase(t)' = "gone" /\ Outcome(t) = "none" /\ Outcome(t)' = "none"
        /\ Pristine(t)' = Pristine(t)
    BY <1>c, <1>d, <2>1 DEF Phase, Outcome
  <2>3. Contract!Leave(t)
    BY <1>o, <2>2 DEF Contract!Leave
  <2> QED BY <2>3 DEF Contract!ANext
<1>6. CASE PgQueryExit(t)
  <2>1. pc[t] = "idle" /\ pc'[t] = "idle"
    BY <1>6 DEF PgQueryExit, At
  <2>2. Phase(t)' = Phase(t) /\ Outcome(t)' = Outcome(t) /\ Pristine(t)' = Pristine(t)
    BY <1>c, <1>d, <2>1 DEF Phase, Outcome
  <2> QED BY <1>o, <2>2 DEF Contract!avars
<1> QED BY <1>1, <1>2, <1>3, <1>4, <1>5, <1>6 DEF Step, Host

\* Session implements the safety part of ApiContract.
THEOREM Refinement == Spec => Contract!ASpec
<1>1. IInv /\ IInv' /\ ReadyBetweenCalls /\ ReadyBetweenCalls' /\ [Next]_vars
      => [Contract!ANext]_Contract!avars
  <2> SUFFICES ASSUME IInv, IInv', ReadyBetweenCalls, ReadyBetweenCalls', [Next]_vars
               PROVE  [Contract!ANext]_Contract!avars
    OBVIOUS
  <2>1. CASE UNCHANGED vars
    BY <2>1 DEF vars, mem, stack, output, Contract!avars, Phase, Outcome, Pristine, HasTop
  <2> QED BY <2>1, ContractStep
<1> QED BY <1>1, ContractInit, Invariance, CleansUp, PTL DEF Spec, Contract!ASpec
-----------------------------------------------------------------------------
(* What the calls malloc and hand out, and the settings they lex under.       *)

\* The functions that drop a piece where they fail.
LossyOps == {"summary", "plpgsql", "deparse_comments"}

\* What a call holds, apart from what earlier calls lost.
Held(t) == heap[t] \ {"lost"}

\* Whether freeing the result frees all that is held, and where it need not.
Accounted(t) ==
  \/ Held(t) \subseteq Freed(op[t], result[t])
  \/ op[t] \in LossyOps /\ "error" \in result[t]
  \/ op[t] = "plpgsql" /\ stmts[t] = 0

\* What is held when an error is caught: nothing but the stderr_buffer of plpgsql, ...
CatchHeap(t) ==
  CASE kind[t][depth[t]] = "raw_parse" -> Held(t) = {}
    [] kind[t][depth[t]] = "walker" ->
         Held(t) = IF op[t] = "normalize" THEN {} ELSE {"stderr_buffer"}
    [] OTHER -> op[t] \in LossyOps \/ Held(t) = {}

\* ... and at the other steps of a call.
HeapInv(t) ==
  /\ pc[t] \in {"idle", "init", "key_create", "set_specific", "enter", "try", "raw_parse",
                "parsing", "lex", "exited"} => Held(t) = {}
  /\ pc[t] = "parsed" => Held(t) \in {{"error"}, {"stderr_buffer"}}
  /\ pc[t] \in {"walk", "visit"} =>
       Held(t) = IF op[t] = "normalize" THEN {} ELSE {"stderr_buffer"}
  /\ pc[t] = "build" =>
       CASE op[t] \in {"is_utility", "plpgsql", "summary"} -> Held(t) = {"stderr_buffer"}
         [] op[t] \in TryOps \ {"summary"} -> Held(t) = {}
         [] OTHER -> Held(t) = result[t] /\ result[t] # {}
  /\ pc[t] \in {"compile", "compiling"} => Held(t) \subseteq result[t] \cup {"stderr_buffer"}
  /\ pc[t] = "catch" => CatchHeap(t)
  /\ pc[t] \in {"end_try", "leave", "returned"} => Accounted(t)

\* siglongjmp to the handler of the innermost block that is live.
Raised(t) ==
  /\ handler[t] # 0 /\ handler[t] = depth[t] /\ pc'[t] = "catch"
  /\ kind'[t][depth'[t]] = kind[t][depth[t]] /\ depth[t] \in Frames

\* An error ends the process, or it is caught by the innermost block, even where the
\* handlers of the normalize walk dangle.
LEMMA RaiseHere ==
  ASSUME TypeOK, NEW t \in Threads, StackInv(t), Error(t)
  PROVE  \/ pc'[t] = pc[t] /\ pc[t] # "catch"
         \/ Raised(t)
<1>1. Raise(t) /\ pc[t] # "catch"
  BY DEF Error, Raises
<1>2. /\ depth \in [Threads -> 0 .. MaxFrames] /\ handler[t] \in 0 .. MaxFrames
      /\ depth[t] \in 0 .. MaxFrames /\ MaxFrames \in Nat /\ pc \in [Threads -> Pcs]
  BY SessionAssumption DEF TypeOK
<1>3. CASE handler[t] = 0 \/ ~HasTop(t)
  BY <1>1, <1>3, Zenon DEF Raise
<1>4. CASE handler[t] > depth[t]
  BY <1>1, <1>4, Zenon DEF Raise
<1>5. CASE ~(handler[t] = 0 \/ ~HasTop(t)) /\ ~(handler[t] > depth[t])
  <2>1. /\ depth' = [depth EXCEPT ![t] = handler[t]] /\ kind' = kind
        /\ pc' = [pc EXCEPT ![t] = "catch"]
    BY <1>1, <1>5 DEF Raise, Goto
  <2>2. handler[t] = depth[t] /\ handler[t] # 0
    BY <1>2, <1>5 DEF StackInv, HandlerInv
  <2> QED BY <1>2, <2>1, <2>2 DEF Raised, Frames
<1> QED BY <1>3, <1>4, <1>5

\* A step of a thread keeps account of what its call holds.
LEMMA HeapStep ==
  ASSUME TypeOK, NEW t \in Threads, StackInv(t), HeapInv(t), Step(t) \/ Host(t)
  PROVE  HeapInv(t)'
<1>t. /\ heap \in [Threads -> SUBSET Pieces] /\ result \in [Threads -> SUBSET Pieces]
      /\ op \in [Threads -> AllOps] /\ stmts \in [Threads -> 0 .. MaxStmts]
      /\ pc \in [Threads -> Pcs]
  BY DEF TypeOK
<1>1. CASE Call(t)
  BY <1>1, <1>t, SMTT(30) DEF Call, At, Goto, HeapInv, Held, input, work, output
<1>2. CASE InitContexts(t)
  BY <1>2, <1>t, SMTT(30) DEF InitContexts, At, Goto, HeapInv, Held, input, work, output
<1>3. CASE KeyCreate(t)
  BY <1>3, <1>t, SMTT(30) DEF KeyCreate, At, Goto, HeapInv, Held, input, work, output
<1>4. CASE SetSpecific(t)
  BY <1>4, <1>t, SMTT(30) DEF SetSpecific, At, Goto, HeapInv, Held, input, work, output
<1>5. CASE EnterMemoryContext(t)
  BY <1>5, <1>t, SMTT(30)
     DEF EnterMemoryContext, At, Goto, HeapInv, Held, input, work, output
<1>6. CASE BeginTry(t)
  BY <1>6, <1>t, SMTT(30)
     DEF BeginTry, At, Goto, HeapInv, Held, input, work, output, StackInv, OpInv, TryOps
<1>7. CASE RawParse(t)
  BY <1>7, <1>t, SMTT(30) DEF RawParse, At, Goto, HeapInv, Held, input, work, output
<1>8. CASE RawParseReturns(t)
  BY <1>8, <1>t, SMTT(30)
     DEF RawParseReturns, At, Goto, HeapInv, Held, input, work, output, work, output
<1>9. CASE AfterRawParse(t)
  BY <1>9, <1>t, SMTT(30)
     DEF AfterRawParse, At, Goto, HeapInv, Held, input, work, output, GoesOn, StackInv,
         OpInv, RawParseOps, TryOps, Accounted, Freed, LossyOps
<1>10. CASE Lex(t)
  BY <1>10, <1>t, SMTT(30)
     DEF Lex, At, Goto, HeapInv, Held, input, work, output, StackInv, OpInv, TryOps
<1>11. CASE WalkNode(t)
  BY <1>11, <1>t, SMTT(30) DEF WalkNode, At, Goto, HeapInv, Held, input, work, output
<1>12. CASE VisitChildren(t)
  BY <1>12, <1>t, SMTT(30) DEF VisitChildren, At, Goto, HeapInv, Held, input, work, output
<1>13. CASE WalkReturn(t)
  BY <1>13, <1>t, SMTT(30) DEF WalkReturn, At, Goto, HeapInv, Held, input, work, output
<1>14. CASE WalkDone(t)
  BY <1>14, <1>t, SMTT(30)
     DEF WalkDone, At, Goto, HeapInv, Held, input, work, output, StackInv, OpInv, WalkOps,
         TryOps
<1>15. CASE Build(t)
  BY <1>15, <1>t, SMTT(30)
     DEF Build, At, Goto, HeapInv, Held, input, work, output, Built, TryOps, Accounted,
         Freed, LossyOps, AllOps
<1>16. CASE CompileNext(t)
  BY <1>16, <1>t, SMTT(30) DEF CompileNext, At, Goto, HeapInv, Held, input, work, output
<1>17. CASE Compiled(t)
  BY <1>17, <1>t, SMTT(30) DEF Compiled, At, Goto, HeapInv, Held, input, work, output
<1>18. CASE CompileDone(t)
  BY <1>18, <1>t, SMTT(30)
     DEF CompileDone, At, Goto, HeapInv, Held, input, work, output, StackInv, OpInv,
         Accounted, Freed
<1>19. CASE EndTry(t)
  BY <1>19, <1>t, SMTT(30)
     DEF EndTry, At, Goto, HeapInv, Held, input, work, output, Accounted
<1>20. CASE Error(t)
  <2>1. \/ pc'[t] = pc[t] /\ pc[t] # "catch"
        \/ Raised(t)
    BY <1>20, RaiseHere
  <2>2. /\ heap' = heap /\ op' = op /\ result' = result
        /\ pc[t] \in {"parsing", "lex", "visit", "compiling", "build", "walk"}
    BY <1>20 DEF Error, Raise, Raises, input, output
  <2>3. CASE pc'[t] = pc[t] /\ pc[t] # "catch"
    BY <2>2, <2>3 DEF HeapInv, Held
  <2>4. CASE Raised(t)
    <3>1. /\ handler[t] # 0 /\ handler[t] = depth[t] /\ pc'[t] = "catch"
          /\ kind'[t][depth'[t]] = kind[t][depth[t]] /\ depth[t] \in Frames
      BY <2>4 DEF Raised
    <3>2. depth[t] \in Nat /\ depth[t] > 0
      BY <3>1, SessionAssumption DEF Frames
    <3>6. CatchHeap(t)
      <4>1. Raises(t)
        BY <1>20 DEF Error
      <4>2. Base(t) \in 0 .. 1 /\ (op[t] \in TryOps <=> Base(t) = 1)
        BY DEF Base
      <4>3. CASE pc[t] = "parsing"
        BY <3>2, <3>1, <4>2, <4>3 DEF StackInv, DepthInv, KindInv, CatchHeap, HeapInv
      <4>4. CASE pc[t] = "lex"
        BY <3>1, <3>2, <4>2, <4>4 DEF StackInv, OpInv, DepthInv, KindInv, CatchHeap, HeapInv
      <4>5. CASE pc[t] \in {"walk", "visit"}
        <5>1. op[t] \in WalkOps /\ depth[t] >= Base(t)
          BY <3>2, <4>2, <4>5 DEF StackInv, OpInv, DepthInv
        <5>2. CASE depth[t] > Base(t)
          <6>1. kind[t][depth[t]] = "walker"
            BY <3>1, <3>2, <4>2, <4>5, <5>2 DEF StackInv, KindInv
          <6> QED BY <4>5, <6>1 DEF CatchHeap, HeapInv
        <5>3. CASE depth[t] = Base(t)
          <6>1. op[t] = "normalize" /\ kind[t][depth[t]] = "api"
            BY <3>1, <3>2, <4>2, <5>1, <5>3 DEF StackInv, KindInv, WalkOps, TryOps
          <6> QED BY <4>5, <6>1 DEF CatchHeap, HeapInv
        <5> QED BY <3>2, <4>2, <5>1, <5>2, <5>3
      <4>6. CASE pc[t] = "build"
        <5>1. op[t] \in TryOps /\ depth[t] = 1
          BY <3>1, <3>2, <4>2, <4>6 DEF StackInv, DepthInv, HandlerInv
        <5>2. kind[t][depth[t]] = "api"
          BY <3>1, <3>2, <4>2, <5>1 DEF StackInv, KindInv
        <5> QED BY <4>6, <5>1, <5>2 DEF CatchHeap, HeapInv, LossyOps, TryOps
      <4>7. CASE pc[t] = "compiling"
        <5>1. op[t] = "plpgsql" /\ kind[t][depth[t]] = "compile"
          BY <4>7, <3>2 DEF StackInv, OpInv, DepthInv, KindInv
        <5> QED BY <5>1 DEF CatchHeap, LossyOps
      <4> QED BY <4>1, <4>3, <4>4, <4>5, <4>6, <4>7 DEF Raises
    <3>7. CatchHeap(t)'
      BY <2>2, <3>1, <3>6 DEF CatchHeap, Held
    <3> QED BY <3>1, <3>7 DEF HeapInv
  <2> QED BY <2>1, <2>3, <2>4
<1>21. CASE Catch(t)
  <2>1. /\ op'[t] = op[t] /\ stmts'[t] = stmts[t] /\ pc[t] = "catch" /\ CatchHeap(t)
    BY <1>21 DEF Catch, At, input, work, HeapInv
  <2>2. CASE kind[t][depth[t]] = "walker"
    <3>1. pc' = [pc EXCEPT ![t] = "walk"]
      BY <1>21, <2>2, Zenon DEF Catch, Goto
    <3>2. heap'[t] = heap[t] /\ result'[t] = result[t]
      BY <1>21, <1>t, <2>2 DEF Catch
    <3> QED BY <1>t, <2>1, <2>2, <3>1, <3>2 DEF HeapInv, CatchHeap, Held
  <2>3. CASE kind[t][depth[t]] = "raw_parse"
    <3>1. pc' = [pc EXCEPT ![t] = "parsed"]
      BY <1>21, <2>3 DEF Catch, Goto
    <3>2. heap'[t] = heap[t] \cup {"error"}
      BY <1>21, <1>t, <2>3 DEF Catch
    <3> QED BY <1>t, <2>1, <2>3, <3>1, <3>2 DEF HeapInv, CatchHeap, Held
  <2>4. CASE kind[t][depth[t]] \in {"api", "compile"}
    <3>1. pc' = [pc EXCEPT ![t] = "leave"]
      BY <1>21, <2>4 DEF Catch, Goto
    <3>2. heap'[t] = heap[t] \cup {"error"} /\ result'[t] = result[t] \cup {"error"}
      BY <1>21, <1>t, <2>4 DEF Catch
    <3>3. Accounted(t)'
      BY <2>1, <2>4, <3>2 DEF CatchHeap, Accounted, Held, Freed, LossyOps
    <3> QED BY <1>t, <3>1, <3>3 DEF HeapInv
  <2>5. kind[t][depth[t]] \in FrameKinds
    BY <2>1, SessionAssumption DEF StackInv, DepthInv, TypeOK, Frames
  <2> QED BY <2>2, <2>3, <2>4, <2>5 DEF FrameKinds
<1>22. CASE ExitMemoryContext(t)
  BY <1>22, <1>t, SMTT(30)
     DEF ExitMemoryContext, At, Goto, HeapInv, Held, input, work, output, Accounted, Freed,
         LossyOps
<1>23. CASE FreeResult(t)
  BY <1>23, <1>t, SMTT(30)
     DEF FreeResult, At, Goto, HeapInv, Held, input, work, output, Accounted
<1>24. CASE ThreadExit(t)
  BY <1>24, <1>t, SMTT(30) DEF ThreadExit, At, Goto, HeapInv, Held, input, work, output
<1>25. CASE PgQueryExit(t)
  BY <1>25, <1>t, SMTT(30) DEF PgQueryExit, At, Goto, HeapInv, Held, input, work, output
<1> QED BY <1>1, <1>2, <1>3, <1>4, <1>5, <1>6, <1>7, <1>8, <1>9, <1>10, <1>11, <1>12, <1>13,
           <1>14, <1>15, <1>16, <1>17, <1>18, <1>19, <1>20, <1>21, <1>22, <1>23, <1>24,
           <1>25
           DEF Step, Host

\* The pieces of a result that tell what the parse or the scan printed or why it failed.
ReadInv(t) ==
  LET told == result[t] \cap {"error", "stderr_buffer"} # {}
  IN  /\ pc[t] = "build" /\ op[t] \in {"parse", "split_with_parser"} => told
      /\ pc[t] \in {"end_try", "leave", "returned"} =>
           (op[t] \in {"parse", "split_with_parser", "scan", "summary"} => told)

\* A step of a thread keeps those pieces.
LEMMA ReadStep ==
  ASSUME TypeOK, NEW t \in Threads, StackInv(t), HeapInv(t), ReadInv(t), Step(t) \/ Host(t)
  PROVE  ReadInv(t)'
<1>t. /\ heap \in [Threads -> SUBSET Pieces] /\ result \in [Threads -> SUBSET Pieces]
      /\ op \in [Threads -> AllOps] /\ pc \in [Threads -> Pcs]
  BY DEF TypeOK
<1>1. CASE Call(t)
  BY <1>1, <1>t, SMTT(20) DEF Call, At, Goto, ReadInv, input, work, output
<1>2. CASE InitContexts(t)
  BY <1>2, <1>t, SMTT(20) DEF InitContexts, At, Goto, ReadInv, input, work, output
<1>3. CASE KeyCreate(t)
  BY <1>3, <1>t, SMTT(20) DEF KeyCreate, At, Goto, ReadInv, input, work, output
<1>4. CASE SetSpecific(t)
  BY <1>4, <1>t, SMTT(20) DEF SetSpecific, At, Goto, ReadInv, input, work, output
<1>5. CASE EnterMemoryContext(t)
  BY <1>5, <1>t, SMTT(20) DEF EnterMemoryContext, At, Goto, ReadInv, input, work, output
<1>6. CASE BeginTry(t)
  BY <1>6, <1>t, SMTT(20)
     DEF BeginTry, At, Goto, ReadInv, input, work, output, StackInv, OpInv, TryOps
<1>7. CASE RawParse(t)
  BY <1>7, <1>t, SMTT(20) DEF RawParse, At, Goto, ReadInv, input, work, output
<1>8. CASE RawParseReturns(t)
  BY <1>8, <1>t, SMTT(20) DEF RawParseReturns, At, Goto, ReadInv, input, work, output
<1>9. CASE AfterRawParse(t)
  BY <1>9, <1>t, SMTT(20)
     DEF AfterRawParse, At, Goto, ReadInv, input, work, output, GoesOn, HeapInv, Held,
         StackInv, OpInv, RawParseOps, TryOps
<1>10. CASE Lex(t)
  BY <1>10, <1>t, SMTT(20)
     DEF Lex, At, Goto, ReadInv, input, work, output, StackInv, OpInv, TryOps
<1>11. CASE WalkNode(t)
  BY <1>11, <1>t, SMTT(20) DEF WalkNode, At, Goto, ReadInv, input, work, output
<1>12. CASE VisitChildren(t)
  BY <1>12, <1>t, SMTT(20) DEF VisitChildren, At, Goto, ReadInv, input, work, output
<1>13. CASE WalkReturn(t)
  BY <1>13, <1>t, SMTT(20) DEF WalkReturn, At, Goto, ReadInv, input, work, output
<1>14. CASE WalkDone(t)
  BY <1>14, <1>t, SMTT(20)
     DEF WalkDone, At, Goto, ReadInv, input, work, output, StackInv, OpInv, WalkOps
<1>15. CASE Build(t)
  BY <1>15, <1>t, SMTT(20) DEF Build, At, Goto, ReadInv, input, work, output, Built, TryOps
<1>16. CASE CompileNext(t)
  BY <1>16, <1>t, SMTT(20) DEF CompileNext, At, Goto, ReadInv, input, work, output
<1>17. CASE Compiled(t)
  BY <1>17, <1>t, SMTT(20) DEF Compiled, At, Goto, ReadInv, input, work, output
<1>18. CASE CompileDone(t)
  BY <1>18, <1>t, SMTT(20)
     DEF CompileDone, At, Goto, ReadInv, input, work, output, StackInv, OpInv
<1>19. CASE EndTry(t)
  BY <1>19, <1>t, SMTT(20) DEF EndTry, At, Goto, ReadInv, input, work, output
<1>20. CASE Error(t)
  <2>1. heap' = heap /\ op' = op /\ result' = result
    BY <1>20 DEF Error, Raise, input, output
  <2>2. pc'[t] = pc[t] \/ pc'[t] = "catch"
    BY <1>20, RaiseHere DEF Raised
  <2> QED BY <2>1, <2>2 DEF ReadInv
<1>21. CASE Catch(t)
  <2>1. op'[t] = op[t] /\ pc'[t] \in {"walk", "parsed", "leave"}
    BY <1>21, <1>t DEF Catch, Goto, input
  <2>2. CASE pc'[t] = "leave"
    <3>1. kind[t][depth[t]] \in FrameKinds
      BY <1>21, SessionAssumption DEF Catch, At, StackInv, DepthInv, TypeOK, Frames
    <3>2. kind[t][depth[t]] \in {"api", "compile"}
      BY <1>21, <1>t, <2>2, <3>1 DEF Catch, Goto, FrameKinds
    <3>3. "error" \in result'[t]
      BY <1>21, <1>t, <3>2 DEF Catch
    <3> QED BY <3>3 DEF ReadInv
  <2> QED BY <2>1, <2>2 DEF ReadInv
<1>22. CASE ExitMemoryContext(t)
  BY <1>22, <1>t, SMTT(20) DEF ExitMemoryContext, At, Goto, ReadInv, input, work, output
<1>23. CASE FreeResult(t)
  BY <1>23, <1>t, SMTT(20) DEF FreeResult, At, Goto, ReadInv, input, work, output
<1>24. CASE ThreadExit(t)
  BY <1>24, <1>t, SMTT(20) DEF ThreadExit, At, Goto, ReadInv, input, work, output
<1>25. CASE PgQueryExit(t)
  BY <1>25, <1>t, SMTT(20) DEF PgQueryExit, At, Goto, ReadInv, input, work, output
<1> QED BY <1>1, <1>2, <1>3, <1>4, <1>5, <1>6, <1>7, <1>8, <1>9, <1>10, <1>11, <1>12, <1>13,
           <1>14, <1>15, <1>16, <1>17, <1>18, <1>19, <1>20, <1>21, <1>22, <1>23, <1>24,
           <1>25
           DEF Step, Host

\* Only the free of a result, and only of one that leaves a piece out, loses memory.
LEMMA LossStep ==
  ASSUME TypeOK, NEW t \in Threads, HeapInv(t), ResultInv(t), Step(t) \/ Host(t),
         "lost" \in heap'[t], "lost" \notin heap[t]
  PROVE  /\ FreeResult(t) /\ pc[t] = "returned"
         /\ \/ op[t] \in LossyOps /\ "error" \in result[t]
            \/ op[t] = "plpgsql" /\ stmts[t] = 0
<1>1. heap \in [Threads -> SUBSET Pieces] /\ heap[t] = Held(t) /\ "lost" \notin result[t]
  BY DEF TypeOK, Held, ResultInv
<1>2. FreeResult(t)
  BY <1>1, SMTT(60)
     DEF Step, Host, output, Built,
         Call, InitContexts, KeyCreate, SetSpecific, EnterMemoryContext, BeginTry, RawParse,
         RawParseReturns, AfterRawParse, Lex, WalkNode, VisitChildren, WalkReturn, WalkDone, Build,
         CompileNext, Compiled, CompileDone, EndTry, Error, Raise, Catch, ExitMemoryContext,
         FreeResult, ThreadExit, PgQueryExit
<1>3. pc[t] = "returned" /\ ~(heap[t] \subseteq Freed(op[t], result[t]))
  BY <1>1, <1>2 DEF FreeResult, At
<1> QED BY <1>1, <1>2, <1>3 DEF HeapInv, Accounted

\* What is held, read and lost, as an invariant of all threads.
HInv == \A t \in Threads : HeapInv(t) /\ ReadInv(t) /\ ResultInv(t)

\* Initially nothing is held, ...
LEMMA InitHeap == Init => HInv
BY InitResult DEF Init, HInv, HeapInv, Held, ReadInv

\* ... and every step of any thread keeps the account of all.
LEMMA StepHeap == IInv /\ HInv /\ [Next]_vars => HInv'
<1> SUFFICES ASSUME IInv, HInv, [Next]_vars PROVE HInv'
  OBVIOUS
<1>1. CASE UNCHANGED vars
  BY <1>1
     DEF HInv, HeapInv, CatchHeap, Accounted, Held, ReadInv, ResultInv, vars, stack, input,
         work, output
<1>2. CASE Next
  <2> PICK t \in Threads : Step(t) \/ Host(t)
    BY <1>2 DEF Next
  <2>1. HeapInv(t)' /\ ReadInv(t)' /\ ResultInv(t)'
    BY HeapStep, ReadStep, ResultStep DEF IInv, HInv
  <2>2. ASSUME NEW u \in Threads, u # t PROVE HeapInv(u)' /\ ReadInv(u)' /\ ResultInv(u)'
    <3>1. /\ pc'[u] = pc[u] /\ op'[u] = op[u] /\ heap'[u] = heap[u]
          /\ result'[u] = result[u] /\ tree'[u] = tree[u] /\ stmts'[u] = stmts[u]
          /\ depth'[u] = depth[u] /\ kind'[u] = kind[u]
      BY <2>2, OthersStep DEF IInv
    <3>2. HeapInv(u) /\ ReadInv(u) /\ ResultInv(u)
      BY DEF HInv
    <3>3. HeapInv(u)'
      BY <3>1, <3>2 DEF HeapInv, CatchHeap, Accounted, Held
    <3> QED BY <3>1, <3>2, <3>3 DEF ReadInv, ResultInv
  <2> QED BY <2>1, <2>2 DEF HInv
<1> QED BY <1>1, <1>2

\* Every state of Session has its memory accounted for.
LEMMA HeapInvariance == Spec => []HInv
<1> QED BY InitHeap, StepHeap, Invariance, PTL DEF Spec

\* A thread in a call is in one that the host makes.
OpsInv == \A t \in Threads : pc[t] \notin {"idle", "exited"} => op[t] \in Ops

\* Calls are of the functions in Ops from their beginning to their end.
LEMMA OpsInvariance == Spec => []OpsInv
<1>1. Init => OpsInv
  BY DEF Init, OpsInv
<1>2. IInv /\ OpsInv /\ [Next]_vars => OpsInv'
  <2> SUFFICES ASSUME IInv, OpsInv, [Next]_vars PROVE OpsInv'
    OBVIOUS
  <2>1. CASE UNCHANGED vars
    BY <2>1 DEF OpsInv, vars, input
  <2>2. CASE Next
    <3> PICK t \in Threads : Step(t) \/ Host(t)
      BY <2>2 DEF Next
    <3>1. ASSUME NEW u \in Threads, u # t PROVE pc'[u] = pc[u] /\ op'[u] = op[u]
      BY <3>1, OthersStep DEF IInv
    <3>2. pc'[t] \notin {"idle", "exited"} => op'[t] \in Ops
      <4>t. op \in [Threads -> AllOps] /\ pc \in [Threads -> Pcs]
        BY DEF IInv, TypeOK
      <4>1. CASE Call(t)
        BY <4>t, <4>1 DEF Call
      <4>2. CASE ~Call(t)
        <5>1. op' = op
          BY <4>2
             DEF Step, Host, input,
         Call, InitContexts, KeyCreate, SetSpecific, EnterMemoryContext, BeginTry, RawParse,
         RawParseReturns, AfterRawParse, Lex, WalkNode, VisitChildren, WalkReturn, WalkDone, Build,
         CompileNext, Compiled, CompileDone, EndTry, Error, Raise, Catch, ExitMemoryContext,
         FreeResult, ThreadExit, PgQueryExit
        <5>2. pc[t] \in {"idle", "exited"} => pc'[t] \in {"idle", "exited"}
          BY <4>2, <4>t, SMTT(30)
             DEF Step, Host, At, Goto, Raises,
         Call, InitContexts, KeyCreate, SetSpecific, EnterMemoryContext, BeginTry, RawParse,
         RawParseReturns, AfterRawParse, Lex, WalkNode, VisitChildren, WalkReturn, WalkDone, Build,
         CompileNext, Compiled, CompileDone, EndTry, Error, Raise, Catch, ExitMemoryContext,
         FreeResult, ThreadExit, PgQueryExit
        <5> QED BY <5>1, <5>2 DEF OpsInv
      <4> QED BY <4>1, <4>2
    <3> QED BY <3>1, <3>2 DEF OpsInv
  <2> QED BY <2>1, <2>2
<1> QED BY <1>1, <1>2, Invariance, PTL DEF Spec

\* Where the three lossy functions are not called, nothing is ever lost: whatever a call
\* malloc-s and however it ends, the free function of its result gets at all of it.
THEOREM MemoryReturned ==
  ASSUME Ops \cap LossyOps = {}
  PROVE  Spec => []NothingLeaked
<1> DEFINE NInv == \A t \in Threads : "lost" \notin heap[t]
<1>1. Init => NInv
  BY DEF Init
<1>2. IInv /\ HInv /\ OpsInv /\ NInv /\ [Next]_vars => NInv'
  <2> SUFFICES ASSUME IInv, HInv, OpsInv, NInv, [Next]_vars PROVE NInv'
    OBVIOUS
  <2>1. CASE UNCHANGED vars
    BY <2>1 DEF vars, output
  <2>2. CASE Next
    <3> PICK t \in Threads : Step(t) \/ Host(t)
      BY <2>2 DEF Next
    <3>1. ASSUME NEW u \in Threads, u # t PROVE heap'[u] = heap[u]
      BY <3>1, OthersStep DEF IInv
    <3>2. ASSUME "lost" \in heap'[t] PROVE FALSE
      <4>1. pc[t] = "returned" /\ op[t] \in LossyOps
        BY <3>2, LossStep DEF IInv, HInv, LossyOps
      <4> QED BY <4>1 DEF OpsInv
    <3> QED BY <3>1, <3>2
  <2> QED BY <2>1, <2>2
<1>3. HInv /\ NInv => NothingLeaked
  BY DEF HInv, HeapInv, Held, NothingLeaked
<1> QED BY <1>1, <1>2, <1>3, Invariance, HeapInvariance, OpsInvariance, PTL DEF Spec

-----------------------------------------------------------------------------
\* What a call was lexed under, unless it has failed.
Lexed(t) == "error" \in result[t] \/ lexed[t] = options[t]

\* The settings at each step of a call that goes through pg_query_raw_parse.
LexInv(t) ==
  op[t] \in RawParseOps =>
    /\ pc[t] = "parsing" => settings[t] = options[t]
    /\ pc[t] = "parsed" => "error" \in heap[t] \/ lexed[t] = options[t]
    /\ pc[t] = "catch" => kind[t][depth[t]] = "raw_parse" \/ Lexed(t)
    /\ pc[t] \in {"walk", "visit", "build", "compile", "compiling", "end_try", "leave",
                  "returned"} => Lexed(t)
    /\ pc[t] = "build" /\ op[t] = "summary" => lexed[t] = options[t]

\* A step of a thread keeps the settings of its parse.
LEMMA LexStep ==
  ASSUME TypeOK, NEW t \in Threads, StackInv(t), LexInv(t), Step(t) \/ Host(t)
  PROVE  LexInv(t)'
<1>t. /\ heap \in [Threads -> SUBSET Pieces] /\ result \in [Threads -> SUBSET Pieces]
      /\ op \in [Threads -> AllOps] /\ pc \in [Threads -> Pcs]
      /\ lexed \in [Threads -> ParserOptions] /\ options \in [Threads -> ParserOptions]
      /\ settings \in [Threads -> ParserOptions]
  BY DEF TypeOK
<1>1. CASE Call(t)
  BY <1>1, <1>t, SMTT(20) DEF Call, At, Goto, LexInv, input, work, output, Lexed
<1>2. CASE InitContexts(t)
  BY <1>2, <1>t, SMTT(20) DEF InitContexts, At, Goto, LexInv, input, work, output, Lexed
<1>3. CASE KeyCreate(t)
  BY <1>3, <1>t, SMTT(20) DEF KeyCreate, At, Goto, LexInv, input, work, output, Lexed
<1>4. CASE SetSpecific(t)
  BY <1>4, <1>t, SMTT(20) DEF SetSpecific, At, Goto, LexInv, input, work, output, Lexed
<1>5. CASE EnterMemoryContext(t)
  BY <1>5, <1>t, SMTT(20)
     DEF EnterMemoryContext, At, Goto, LexInv, input, work, output, Lexed
<1>6. CASE BeginTry(t)
  BY <1>6, <1>t, SMTT(20)
     DEF BeginTry, At, Goto, LexInv, input, work, output, Lexed, StackInv, OpInv,
         RawParseOps, TryOps
<1>7. CASE RawParse(t)
  BY <1>7, <1>t, SMTT(20) DEF RawParse, At, Goto, LexInv, input, work, output, Lexed
<1>8. CASE RawParseReturns(t)
  BY <1>8, <1>t, SMTT(20) DEF RawParseReturns, At, Goto, LexInv, input, work, output, Lexed
<1>9. CASE AfterRawParse(t)
  BY <1>9, <1>t, SMTT(20)
     DEF AfterRawParse, At, Goto, LexInv, input, work, output, Lexed, GoesOn
<1>10. CASE Lex(t)
  BY <1>10, <1>t, SMTT(20)
     DEF Lex, At, Goto, LexInv, input, work, output, Lexed, StackInv, OpInv, RawParseOps,
         TryOps
<1>11. CASE WalkNode(t)
  BY <1>11, <1>t, SMTT(20) DEF WalkNode, At, Goto, LexInv, input, work, output, Lexed
<1>12. CASE VisitChildren(t)
  BY <1>12, <1>t, SMTT(20) DEF VisitChildren, At, Goto, LexInv, input, work, output, Lexed
<1>13. CASE WalkReturn(t)
  BY <1>13, <1>t, SMTT(20) DEF WalkReturn, At, Goto, LexInv, input, work, output, Lexed
<1>14. CASE WalkDone(t)
  BY <1>14, <1>t, SMTT(20)
     DEF WalkDone, At, Goto, LexInv, input, work, output, Lexed, StackInv, OpInv, WalkOps
<1>15. CASE Build(t)
  BY <1>15, <1>t, SMTT(20)
     DEF Build, At, Goto, LexInv, input, work, output, Lexed, Built, RawParseOps
<1>16. CASE CompileNext(t)
  BY <1>16, <1>t, SMTT(20) DEF CompileNext, At, Goto, LexInv, input, work, output, Lexed
<1>17. CASE Compiled(t)
  BY <1>17, <1>t, SMTT(20) DEF Compiled, At, Goto, LexInv, input, work, output, Lexed
<1>18. CASE CompileDone(t)
  BY <1>18, <1>t, SMTT(20) DEF CompileDone, At, Goto, LexInv, input, work, output, Lexed
<1>19. CASE EndTry(t)
  BY <1>19, <1>t, SMTT(20) DEF EndTry, At, Goto, LexInv, input, work, output, Lexed
<1>20. CASE Error(t)
  <2>1. /\ heap' = heap /\ op' = op /\ result' = result /\ lexed' = lexed /\ options' = options
        /\ settings' = settings
        /\ pc[t] \in {"parsing", "lex", "visit", "compiling", "build", "walk"}
    BY <1>20 DEF Error, Raise, Raises, input, work, output
  <2>2. CASE pc'[t] = pc[t] /\ pc[t] # "catch"
    BY <2>1, <2>2 DEF LexInv, Lexed
  <2>3. CASE Raised(t)
    <3>1. Base(t) \in 0 .. 1 /\ depth[t] \in Nat
      BY SessionAssumption DEF Base, TypeOK
    <3>2. op[t] \in RawParseOps /\ pc[t] = "parsing" => kind[t][depth[t]] = "raw_parse"
      BY <3>1 DEF StackInv, DepthInv, KindInv
    <3>3. pc[t] = "lex" => op[t] \notin RawParseOps
      BY DEF StackInv, OpInv, RawParseOps, TryOps
    <3> QED BY <2>1, <2>3, <3>2, <3>3 DEF Raised, LexInv, Lexed
  <2> QED BY <1>20, <2>2, <2>3, RaiseHere
<1>21. CASE Catch(t)
  <2>1. /\ op'[t] = op[t] /\ pc[t] = "catch" /\ lexed'[t] = lexed[t] /\ options'[t] = options[t]
    BY <1>21 DEF Catch, At, input, work
  <2>2. CASE kind[t][depth[t]] = "walker"
    <3>1. pc' = [pc EXCEPT ![t] = "walk"]
      BY <1>21, <2>2, Zenon DEF Catch, Goto
    <3>2. result'[t] = result[t]
      BY <1>21, <1>t, <2>2 DEF Catch
    <3> QED BY <1>t, <2>1, <2>2, <3>1, <3>2 DEF LexInv, Lexed
  <2>3. CASE kind[t][depth[t]] = "raw_parse"
    <3>1. pc' = [pc EXCEPT ![t] = "parsed"]
      BY <1>21, <2>3 DEF Catch, Goto
    <3>2. "error" \in heap'[t]
      BY <1>21, <1>t, <2>3 DEF Catch
    <3> QED BY <1>t, <3>1, <3>2 DEF LexInv
  <2>4. CASE kind[t][depth[t]] \in {"api", "compile"}
    <3>1. pc' = [pc EXCEPT ![t] = "leave"]
      BY <1>21, <2>4 DEF Catch, Goto
    <3>2. "error" \in result'[t]
      BY <1>21, <1>t, <2>4 DEF Catch
    <3> QED BY <1>t, <3>1, <3>2 DEF LexInv, Lexed
  <2>5. kind[t][depth[t]] \in FrameKinds
    BY <2>1, SessionAssumption DEF StackInv, DepthInv, TypeOK, Frames
  <2> QED BY <2>2, <2>3, <2>4, <2>5 DEF FrameKinds
<1>22. CASE ExitMemoryContext(t)
  BY <1>22, <1>t, SMTT(20)
     DEF ExitMemoryContext, At, Goto, LexInv, input, work, output, Lexed
<1>23. CASE FreeResult(t)
  BY <1>23, <1>t, SMTT(20) DEF FreeResult, At, Goto, LexInv, input, work, output, Lexed
<1>24. CASE ThreadExit(t)
  BY <1>24, <1>t, SMTT(20) DEF ThreadExit, At, Goto, LexInv, input, work, output, Lexed
<1>25. CASE PgQueryExit(t)
  BY <1>25, <1>t, SMTT(20) DEF PgQueryExit, At, Goto, LexInv, input, work, output, Lexed
<1> QED BY <1>1, <1>2, <1>3, <1>4, <1>5, <1>6, <1>7, <1>8, <1>9, <1>10, <1>11, <1>12, <1>13,
           <1>14, <1>15, <1>16, <1>17, <1>18, <1>19, <1>20, <1>21, <1>22, <1>23, <1>24,
           <1>25
           DEF Step, Host

\* Where the host calls only functions that go through pg_query_raw_parse, or only with
\* the default options, every call is lexed as its caller asked, whatever failed before.
\* The condition is needed: scan after a failed parse breaks it.
THEOREM LexedAsAsked ==
  ASSUME Ops \subseteq RawParseOps \/ ParserOptions = {DefaultOptions}
  PROVE  Spec => []LexedAsRequested
<1> DEFINE LInv == \A t \in Threads : LexInv(t)
<1>1. Init => LInv
  BY DEF Init, LexInv
<1>2. IInv /\ LInv /\ [Next]_vars => LInv'
  <2> SUFFICES ASSUME IInv, LInv, [Next]_vars PROVE LInv'
    OBVIOUS
  <2>1. CASE UNCHANGED vars
    BY <2>1 DEF LexInv, Lexed, vars, stack, input, work, output
  <2>2. CASE Next
    <3> PICK t \in Threads : Step(t) \/ Host(t)
      BY <2>2 DEF Next
    <3>1. LexInv(t)'
      BY LexStep DEF IInv
    <3>2. ASSUME NEW u \in Threads, u # t PROVE LexInv(u)'
      <4>1. /\ pc'[u] = pc[u] /\ op'[u] = op[u] /\ heap'[u] = heap[u]
            /\ result'[u] = result[u] /\ depth'[u] = depth[u] /\ kind'[u] = kind[u]
            /\ options'[u] = options[u] /\ lexed'[u] = lexed[u] /\ settings'[u] = settings[u]
        BY <3>2, OthersStep DEF IInv
      <4> QED BY <4>1 DEF LexInv, Lexed
    <3> QED BY <3>1, <3>2
  <2> QED BY <2>1, <2>2
<1>3. IInv /\ OpsInv /\ LInv => LexedAsRequested
  <2> SUFFICES ASSUME IInv, OpsInv, LInv, NEW t \in Threads, pc[t] = "returned",
                      "error" \notin result[t]
               PROVE  lexed[t] = options[t]
    BY DEF LexedAsRequested
  <2>1. CASE ParserOptions = {DefaultOptions}
    BY <2>1 DEF IInv, TypeOK
  <2>2. CASE Ops \subseteq RawParseOps
    BY <2>2 DEF OpsInv, LexInv, Lexed
  <2> QED BY <2>1, <2>2
<1> QED BY <1>1, <1>2, <1>3, Invariance, OpsInvariance, PTL DEF Spec
=============================================================================
