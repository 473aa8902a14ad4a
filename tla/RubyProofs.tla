----------------------------- MODULE RubyProofs -----------------------------
(***************************************************************************)
(* Proofs about RubyBinding: what a method reads is there, what it loses it *)
(* loses where it raises, and it implements the contract of the functions.  *)
(***************************************************************************)
EXTENDS RubyBinding, SessionProofs

RTypeOK ==
  /\ method \in [Threads -> {"none", "arguments", "comments", "called", "copied", "ended"}]
  /\ comments \in [Threads -> Nat]
  /\ outcome \in [Threads -> {"none", "value", "error"}]
  /\ forgotten \in [Threads -> BOOLEAN]

\* Where a method is says where the function in it is.
MethodInv(t) ==
  /\ method[t] = "none" => pc[t] \in {"idle", "exited"} /\ comments[t] = 0
  /\ method[t] \in {"arguments", "comments", "ended"} => pc[t] = "idle"
  /\ method[t] \in {"arguments", "ended"} => comments[t] = 0
  /\ method[t] = "called" => pc[t] \notin {"idle", "exited"}
  /\ method[t] = "copied" =>
       pc[t] = "returned" /\ outcome[t] = IF Failed(t) THEN "error" ELSE "value"
  /\ method[t] = "ended" => outcome[t] \in {"value", "error"}

\* The inductive invariant, on top of those of Session.
RInv == RTypeOK /\ \A t \in Threads : MethodInv(t)

\* A step of a method is a step of the function in it, of its host, or none of Session.
LEMMA Projection ==
  ASSUME NEW t \in Threads, MethodStep(t) \/ Caller(t)
  PROVE  Step(t) \/ Host(t) \/ UNCHANGED vars
BY DEF MethodStep, Caller, Host, BadArgument, BeginDeparseOpts, AddComment, BadComment,
       DeparseOpts, CallFunction, Copy, FreeAndLeave, CallMethod, Resume

\* The methods do to a thread what Session says can be done to it.
LEMMA Implements == RSpec => Spec
<1>1. RInit => Init
  BY DEF RInit
<1>2. [RNext]_rvars => [Next]_vars
  BY Projection DEF RNext, Next, rvars
<1> QED BY <1>1, <1>2, PTL DEF RSpec, Spec

\* The function a method is in stays busy until it returns.
LEMMA StepBusy ==
  ASSUME TypeOK, NEW t \in Threads, Step(t)
  PROVE  /\ pc[t] \notin {"idle", "exited", "returned"}
         /\ pc'[t] \notin {"idle", "exited"}
BY SMTT(60)
   DEF TypeOK, Step, At, Goto, Raises, InitContexts, KeyCreate, SetSpecific,
       EnterMemoryContext, BeginTry, RawParse, RawParseReturns, AfterRawParse, Lex, WalkNode,
       VisitChildren, WalkReturn, WalkDone, Build, CompileNext, Compiled, CompileDone, EndTry,
       Error, Raise, Catch, ExitMemoryContext

\* A step of one thread leaves the methods of every other alone.
LEMMA OthersMethod ==
  ASSUME TypeOK, RTypeOK, NEW t \in Threads, MethodStep(t) \/ Caller(t),
         NEW u \in Threads, u # t
  PROVE  /\ method'[u] = method[u] /\ comments'[u] = comments[u] /\ outcome'[u] = outcome[u]
         /\ forgotten'[u] = forgotten[u] /\ pc'[u] = pc[u] /\ result'[u] = result[u]
         /\ heap'[u] = heap[u] /\ op'[u] = op[u] /\ stmts'[u] = stmts[u]
         /\ Pristine(u)' = Pristine(u)
<1>1. /\ method'[u] = method[u] /\ comments'[u] = comments[u] /\ outcome'[u] = outcome[u]
      /\ forgotten'[u] = forgotten[u]
  BY DEF RTypeOK, MethodStep, Caller, ruby, BadArgument, BeginDeparseOpts, AddComment,
         BadComment, DeparseOpts, CallFunction, Copy, FreeAndLeave, CallMethod, Resume,
         MethodGoto, Ends
<1>2. CASE Step(t) \/ Host(t)
  BY <1>1, <1>2, OthersStep DEF Pristine, HasTop
<1>3. CASE UNCHANGED vars
  BY <1>1, <1>3 DEF vars, mem, stack, input, work, output, Pristine, HasTop
<1> QED BY <1>2, <1>3, Projection

\* A step of a method keeps its own invariant.
LEMMA MethodInvStep ==
  ASSUME TypeOK, RTypeOK, NEW t \in Threads, MethodInv(t), MethodStep(t) \/ Caller(t)
  PROVE  RTypeOK' /\ MethodInv(t)'
<1>t. pc \in [Threads -> Pcs] /\ RTypeOK
  BY DEF TypeOK
<1>1. CASE BadArgument(t)
  BY <1>1, <1>t DEF BadArgument, MethodInv, RTypeOK, MethodGoto, Ends, vars
<1>2. CASE BeginDeparseOpts(t)
  BY <1>2, <1>t DEF BeginDeparseOpts, MethodInv, RTypeOK, MethodGoto, vars
<1>3. CASE AddComment(t)
  BY <1>3, <1>t DEF AddComment, MethodInv, RTypeOK, vars
<1>4. CASE BadComment(t)
  BY <1>4, <1>t DEF BadComment, MethodInv, RTypeOK, MethodGoto, Ends, vars
<1>5. CASE DeparseOpts(t)
  BY <1>5, <1>t DEF DeparseOpts, MethodInv, RTypeOK, MethodGoto, Call, Goto
<1>6. CASE CallFunction(t)
  BY <1>6, <1>t DEF CallFunction, MethodInv, RTypeOK, MethodGoto, Call, Goto
<1>7. CASE Copy(t)
  BY <1>7, <1>t DEF Copy, MethodInv, RTypeOK, MethodGoto, At, vars, output, Failed
<1>8. CASE FreeAndLeave(t)
  BY <1>8, <1>t DEF FreeAndLeave, MethodInv, RTypeOK, MethodGoto, FreeResult, Goto
<1>9. CASE CallMethod(t)
  BY <1>9, <1>t DEF CallMethod, MethodInv, RTypeOK, MethodGoto, At, vars
<1>10. CASE Resume(t)
  BY <1>10, <1>t DEF Resume, MethodInv, RTypeOK, MethodGoto, vars
<1>11. CASE method[t] = "none" /\ ThreadExit(t) /\ UNCHANGED ruby
  BY <1>11, <1>t DEF ThreadExit, Goto, MethodInv, RTypeOK, ruby
<1>12. CASE Step(t) /\ UNCHANGED ruby
  BY <1>12, <1>t, StepBusy DEF MethodInv, RTypeOK, ruby
<1> QED BY <1>1, <1>2, <1>3, <1>4, <1>5, <1>6, <1>7, <1>8, <1>9, <1>10, <1>11, <1>12
           DEF MethodStep, Caller

\* Every thread's method and the function in it keep in step.
LEMMA MethodInvariance == RSpec => []RInv
<1>1. RInit => RInv
  BY DEF RInit, Init, RInv, RTypeOK, MethodInv
<1>2. IInv /\ RInv /\ [RNext]_rvars => RInv'
  <2> SUFFICES ASSUME IInv, RInv, [RNext]_rvars PROVE RInv'
    OBVIOUS
  <2>1. CASE UNCHANGED rvars
    BY <2>1 DEF RInv, RTypeOK, MethodInv, Failed, rvars, ruby, vars, output
  <2>2. CASE RNext
    <3> PICK t \in Threads : MethodStep(t) \/ Caller(t)
      BY <2>2 DEF RNext
    <3>1. RTypeOK' /\ MethodInv(t)'
      BY MethodInvStep DEF IInv, RInv
    <3>2. ASSUME NEW u \in Threads, u # t PROVE MethodInv(u)'
      BY <3>2, OthersMethod DEF IInv, RInv, MethodInv, Failed
    <3> QED BY <3>1, <3>2 DEF RInv
  <2> QED BY <2>1, <2>2
<1> QED BY <1>1, <1>2, Implements, Invariance, PTL DEF RSpec

\* Every method finds in the result what it reads: the error of a call that failed, else
\* the payload, and the stderr_buffer where it prints it, and none of it has been freed.
THEOREM ReadsAreThere == RSpec => []ReadsWhatIsThere
<1>1. IInv /\ HInv => ReadsWhatIsThere
  <2> SUFFICES ASSUME IInv, HInv, NEW t \in Threads, pc[t] = "returned"
               PROVE  Reads(t) \subseteq result[t] \cap heap[t]
    BY DEF ReadsWhatIsThere
  <2>1. /\ result[t] \subseteq heap[t]
        /\ \/ result[t] \cap {"payload", "error"} # {}
           \/ op[t] = "split_with_parser" /\ tree[t] = "NIL"
    BY DEF HInv, ResultInv
  <2>2. op[t] \in {"parse", "split_with_parser", "scan", "summary"} =>
          result[t] \cap {"error", "stderr_buffer"} # {}
    BY DEF HInv, ReadInv
  <2>3. CASE Failed(t)
    BY <2>1, <2>3 DEF Reads, Failed
  <2>4. CASE ~Failed(t)
    <3>1. \/ "payload" \in result[t]
          \/ op[t] = "split_with_parser" /\ tree[t] = "NIL"
      BY <2>1, <2>4 DEF Failed
    <3>2. op[t] \in {"parse", "split_with_parser", "scan", "summary"} =>
            "stderr_buffer" \in result[t]
      BY <2>2, <2>4 DEF Failed
    <3>3. CASE op[t] = "split_with_parser"
      BY <2>1, <2>4, <3>1, <3>2, <3>3 DEF Reads
    <3>4. CASE op[t] # "split_with_parser"
      BY <2>1, <2>4, <3>1, <3>2, <3>4 DEF Reads
    <3> QED BY <3>3, <3>4
  <2> QED BY <2>3, <2>4
<1> QED BY <1>1, Implements, Invariance, HeapInvariance, PTL

\* Methods lose memory only where they raise, and only in the four that lose it; the PL/pgSQL
\* function also where it finds nothing to compile.
THEOREM LossesKnown == RSpec => LosesOnly
<1>1. IInv /\ HInv /\ RInv /\ [RNext]_rvars => [\A t \in Threads : LossKnown(t)]_rvars
  <2> SUFFICES ASSUME IInv, HInv, RInv, RNext, NEW t \in Threads PROVE LossKnown(t)
    OBVIOUS
  <2> PICK u \in Threads : MethodStep(u) \/ Caller(u)
    BY DEF RNext
  <2>t. RTypeOK /\ MethodInv(t) /\ TypeOK
    BY DEF RInv, IInv
  <2>1. CASE u # t
    BY <2>1, <2>t, OthersMethod DEF LossKnown
  <2>2. CASE u = t
    <3>1. ASSUME "lost" \in heap'[t], "lost" \notin heap[t]
          PROVE  \/ op[t] \in LossyOps /\ outcome'[t] = "error"
                 \/ op[t] = "plpgsql" /\ stmts[t] = 0
      <4>1. Step(t) \/ Host(t)
        BY <2>2, <3>1, Projection DEF vars, output
      <4>2. /\ pc[t] = "returned"
            /\ \/ op[t] \in LossyOps /\ "error" \in result[t]
               \/ op[t] = "plpgsql" /\ stmts[t] = 0
        BY <2>t, <3>1, <4>1, LossStep DEF HInv
      <4>3. ~Step(t) /\ ~Call(t) /\ ~ThreadExit(t)
        BY <2>t, <4>2, StepBusy DEF Call, ThreadExit, At
      <4>4. FreeAndLeave(t)
        BY <2>2, <3>1, <4>3
           DEF MethodStep, Caller, BadArgument, BeginDeparseOpts, AddComment, BadComment,
               DeparseOpts, CallFunction, Copy, CallMethod, Resume, vars, output
      <4> QED BY <2>t, <4>2, <4>4 DEF FreeAndLeave, MethodInv, Failed
    <3>2. ASSUME forgotten'[t], ~forgotten[t] PROVE outcome'[t] = "error"
      <4>1. BadComment(t) \/ FreeAndLeave(t)
        BY <2>2, <3>2
           DEF MethodStep, Caller, BadArgument, BeginDeparseOpts, AddComment,
               DeparseOpts, CallFunction, Copy, CallMethod, Resume, ruby
      <4>2. CASE BadComment(t)
        BY <2>t, <4>2 DEF BadComment, Ends, RTypeOK
      <4>3. CASE FreeAndLeave(t)
        BY <2>t, <3>2, <4>3 DEF FreeAndLeave, MethodInv, RTypeOK
      <4> QED BY <4>1, <4>2, <4>3
    <3> QED BY <3>1, <3>2 DEF LossyOps, LossKnown
  <2> QED BY <2>1, <2>2
<1> QED BY <1>1, Implements, Invariance, HeapInvariance, MethodInvariance, PTL
        DEF RSpec, LosesOnly

-----------------------------------------------------------------------------
\* A step of a method maps to a step of its contract, given that its thread is clean
\* outside the function.
LEMMA MethodContractStep ==
  ASSUME IInv, IInv', HInv, HInv', RInv, RInv', ReadyBetweenCalls, ReadyBetweenCalls', RNext
  PROVE  [MethodContract!ANext]_MethodContract!avars
<1> PICK t \in Threads : MethodStep(t) \/ Caller(t)
  BY DEF RNext
<1>t. /\ RTypeOK /\ TypeOK /\ MethodInv(t) /\ MethodInv(t)' /\ RTypeOK' /\ TypeOK'
      /\ pc \in [Threads -> Pcs]
  BY DEF RInv, IInv, TypeOK
<1>o. ASSUME NEW u \in Threads, u # t
      PROVE  /\ MethodPhase(u)' = MethodPhase(u) /\ MethodOutcome(u)' = MethodOutcome(u)
             /\ MethodClean(u)' = MethodClean(u)
  BY <1>o, <1>t, OthersMethod DEF MethodPhase, MethodOutcome, MethodClean
<1>b. MethodClean(t)' \in BOOLEAN
  BY DEF MethodClean
<1>c. pc[t] \in {"idle", "exited"} => Pristine(t) = TRUE
  BY DEF ReadyBetweenCalls, Pristine
<1>d. pc'[t] \in {"idle", "exited"} => Pristine(t)' = TRUE
  BY DEF ReadyBetweenCalls, Pristine
<1>r. pc[t] = "idle" => result[t] = {}
  BY DEF HInv, ResultInv
<1>s. pc'[t] = "idle" => result'[t] = {}
  BY DEF HInv, ResultInv
<1>1. CASE CallMethod(t)
  <2>1. /\ method[t] = "none" /\ method'[t] = "arguments" /\ pc[t] = "idle" /\ pc'[t] = "idle"
        /\ comments'[t] = comments[t] /\ result'[t] = result[t]
    BY <1>1, <1>t DEF CallMethod, MethodGoto, At, RTypeOK, vars, output
  <2>2. /\ MethodPhase(t) = "idle" /\ MethodPhase(t)' = "busy"
        /\ MethodOutcome(t)' = MethodOutcome(t)
    BY <2>1 DEF MethodPhase, MethodOutcome
  <2>3. MethodClean(t)' = MethodClean(t)
    BY <1>c, <1>d, <2>1 DEF MethodClean
  <2>4. MethodContract!Begin(t)
    BY <1>o, <2>2, <2>3 DEF MethodContract!Begin
  <2> QED BY <2>4 DEF MethodContract!ANext
<1>2. CASE \/ BeginDeparseOpts(t) \/ AddComment(t) \/ DeparseOpts(t) \/ CallFunction(t)
           \/ Copy(t)
           \/ Step(t) /\ UNCHANGED ruby
  <2>1. /\ method[t] \notin {"none", "ended"} /\ method'[t] \notin {"none", "ended"}
        /\ pc[t] # "exited" /\ pc'[t] # "exited"
    <3>1. CASE Step(t) /\ UNCHANGED ruby
      <4>1. pc[t] \notin {"idle", "exited"} /\ pc'[t] \notin {"idle", "exited"}
        BY <1>t, <3>1, StepBusy
      <4> QED BY <1>t, <3>1, <4>1 DEF MethodInv, ruby
    <3>2. CASE ~(Step(t) /\ UNCHANGED ruby)
      BY <1>2, <1>t, <3>2
         DEF BeginDeparseOpts, AddComment, DeparseOpts, CallFunction, Copy, MethodGoto,
             RTypeOK, MethodInv
    <3> QED BY <3>1, <3>2
  <2>2. /\ MethodPhase(t) = "busy" /\ MethodPhase(t)' = "busy"
        /\ MethodOutcome(t) = "none" /\ MethodOutcome(t)' = "none"
    BY <2>1 DEF MethodPhase, MethodOutcome
  <2>3. MethodContract!Work(t)
    BY <1>o, <1>b, <2>2 DEF MethodContract!Work
  <2> QED BY <2>3 DEF MethodContract!ANext
<1>3. CASE BadArgument(t) \/ BadComment(t) \/ FreeAndLeave(t)
  <2>1. /\ method[t] \notin {"none", "ended"} /\ method'[t] = "ended" /\ pc[t] # "exited"
        /\ comments'[t] = 0
    BY <1>3, <1>t
       DEF BadArgument, BadComment, FreeAndLeave, Ends, MethodGoto, RTypeOK, MethodInv
  <2>2. pc'[t] = "idle" /\ outcome'[t] \in {"value", "error"}
    BY <1>t, <2>1 DEF MethodInv
  <2>3. /\ MethodPhase(t) = "busy" /\ MethodPhase(t)' = "done"
        /\ MethodOutcome(t)' \in {"value", "error"}
    BY <2>1, <2>2 DEF MethodPhase, MethodOutcome
  <2>4. MethodClean(t)' = TRUE
    BY <1>d, <1>s, <2>1, <2>2 DEF MethodClean
  <2>5. MethodContract!Return(t)
    BY <1>o, <2>3, <2>4 DEF MethodContract!Return
  <2> QED BY <2>5 DEF MethodContract!ANext
<1>4. CASE Resume(t)
  <2>1. /\ method[t] = "ended" /\ method'[t] = "none" /\ pc[t] = "idle" /\ pc'[t] = "idle"
        /\ comments'[t] = comments[t] /\ result'[t] = result[t]
    BY <1>4, <1>t DEF Resume, MethodGoto, RTypeOK, MethodInv, vars, output
  <2>2. /\ MethodPhase(t) = "done" /\ MethodPhase(t)' = "idle" /\ MethodOutcome(t)' = "none"
    BY <2>1 DEF MethodPhase, MethodOutcome
  <2>3. MethodClean(t)' = MethodClean(t)
    BY <1>c, <1>d, <2>1 DEF MethodClean
  <2>4. MethodContract!Take(t)
    BY <1>o, <2>2, <2>3 DEF MethodContract!Take
  <2> QED BY <2>4 DEF MethodContract!ANext
<1>5. CASE method[t] = "none" /\ ThreadExit(t) /\ UNCHANGED ruby
  <2>1. /\ method[t] = "none" /\ method'[t] = "none" /\ pc[t] = "idle" /\ pc'[t] = "exited"
        /\ comments'[t] = comments[t] /\ result'[t] = result[t]
    BY <1>5, <1>t DEF ThreadExit, At, Goto, ruby, output
  <2>2. /\ MethodPhase(t) = "idle" /\ MethodPhase(t)' = "gone"
        /\ MethodOutcome(t)' = MethodOutcome(t)
    BY <2>1 DEF MethodPhase, MethodOutcome
  <2>3. MethodClean(t)' = MethodClean(t)
    BY <1>c, <1>d, <2>1 DEF MethodClean
  <2>4. MethodContract!Leave(t)
    BY <1>o, <2>2, <2>3 DEF MethodContract!Leave
  <2> QED BY <2>4 DEF MethodContract!ANext
<1> QED BY <1>1, <1>2, <1>3, <1>4, <1>5 DEF MethodStep, Caller

\* The methods implement the safety part of the contract their functions implement: a method
\* ends with a value or by raising, and then neither a result nor a comment is held, and
\* the runtime of the thread is clean.
THEOREM MethodsRefine == RSpec => MethodContract!ASpec
<1>1. RInit => MethodContract!AInit
  <2> SUFFICES ASSUME RInit PROVE MethodContract!AInit
    OBVIOUS
  <2>1. ASSUME NEW t \in Threads
        PROVE  MethodPhase(t) = "idle" /\ MethodOutcome(t) = "none" /\ MethodClean(t) = TRUE
    BY DEF RInit, Init, MethodPhase, MethodOutcome, MethodClean, Pristine, HasTop
  <2> QED BY <2>1 DEF MethodContract!AInit
<1>2. IInv /\ IInv' /\ HInv /\ HInv' /\ RInv /\ RInv' /\ ReadyBetweenCalls
      /\ ReadyBetweenCalls' /\ [RNext]_rvars
      => [MethodContract!ANext]_MethodContract!avars
  <2> SUFFICES ASSUME IInv, IInv', HInv, HInv', RInv, RInv', ReadyBetweenCalls,
                      ReadyBetweenCalls', [RNext]_rvars
               PROVE  [MethodContract!ANext]_MethodContract!avars
    OBVIOUS
  <2>1. CASE UNCHANGED rvars
    BY <2>1
       DEF rvars, ruby, vars, mem, stack, output, MethodContract!avars, MethodPhase,
           MethodOutcome, MethodClean, Pristine, HasTop
  <2> QED BY <2>1, MethodContractStep
<1> QED BY <1>1, <1>2, Implements, Invariance, CleansUp, HeapInvariance, MethodInvariance, PTL
        DEF RSpec, MethodContract!ASpec
=============================================================================
