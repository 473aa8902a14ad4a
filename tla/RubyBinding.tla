---------------------------- MODULE RubyBinding ----------------------------
(***************************************************************************)
(* The methods of pg_query_ruby.c around the functions of Session: each     *)
(* checks its arguments, calls one of them, copies the result or the error  *)
(* into Ruby objects, frees it, and returns or raises. rb_exc_raise and the *)
(* argument checks leave a method by longjmp, past the frees that follow.   *)
(* The functions without a method are called by a C host the same way.      *)
(***************************************************************************)
EXTENDS Session

CONSTANT MaxComments \* bound: comments given to deparse_protobuf_opts

ASSUME RubyAssumption == MaxComments \in Nat

VARIABLES
  method,   \* per thread: where its method is
  comments, \* per thread: malloc-ed blocks of deparse_opts, the array and the comments
  outcome,  \* per thread: how the method ended
  forgotten \* per thread: blocks of deparse_opts are left behind

ruby == <<method, comments, outcome, forgotten>>
rvars == <<vars, ruby>>

RInit ==
  /\ Init
  /\ method = [t \in Threads |-> "none"] /\ comments = [t \in Threads |-> 0]
  /\ outcome = [t \in Threads |-> "none"] /\ forgotten = [t \in Threads |-> FALSE]

MethodGoto(t, step) == method' = [method EXCEPT ![t] = step]
Ends(t, how) == MethodGoto(t, "ended") /\ outcome' = [outcome EXCEPT ![t] = how]

CallMethod(t) ==
  /\ At(t, "idle") /\ method[t] = "none" /\ count[t] < MaxCalls
  /\ MethodGoto(t, "arguments")
  /\ UNCHANGED <<vars, comments, outcome, forgotten>>

\* Check_Type and StringValueCStr raise before anything is allocated.
BadArgument(t) ==
  /\ method[t] = "arguments"
  /\ Ends(t, "error")
  /\ UNCHANGED <<vars, comments, forgotten>>

BeginDeparseOpts(t) ==
  /\ method[t] = "arguments" /\ "deparse" \in Ops
  /\ MethodGoto(t, "comments") /\ comments' = [comments EXCEPT ![t] = 1]
  /\ UNCHANGED <<vars, outcome, forgotten>>

AddComment(t) ==
  /\ method[t] = "comments" /\ comments[t] <= MaxComments
  /\ comments' = [comments EXCEPT ![t] = @ + 1]
  /\ UNCHANGED <<vars, method, outcome, forgotten>>

\* NUM2INT or StringValueCStr raises for an attribute of a comment.
BadComment(t) ==
  /\ method[t] = "comments" /\ comments[t] <= MaxComments
  /\ Ends(t, "error")
  /\ comments' = [comments EXCEPT ![t] = 0]
  /\ forgotten' = [forgotten EXCEPT ![t] = TRUE]
  /\ UNCHANGED vars

DeparseOpts(t) ==
  /\ method[t] = "comments" /\ Call(t) /\ op'[t] = "deparse"
  /\ MethodGoto(t, "called")
  /\ UNCHANGED <<comments, outcome, forgotten>>

CallFunction(t) ==
  /\ method[t] = "arguments" /\ Call(t)
  /\ MethodGoto(t, "called")
  /\ UNCHANGED <<comments, outcome, forgotten>>

Failed(t) == "error" \in result[t]


Copy(t) ==
  /\ method[t] = "called" /\ At(t, "returned")
  /\ MethodGoto(t, "copied")
  /\ outcome' = [outcome EXCEPT ![t] = IF Failed(t) THEN "error" ELSE "value"]
  /\ UNCHANGED <<vars, comments, forgotten>>


\* Mutant: the error is raised before the result is freed.
RaisesFirst(t) ==
  /\ method[t] = "copied"
  /\ IF Failed(t) THEN UNCHANGED vars ELSE FreeResult(t)
  /\ MethodGoto(t, "ended")
  /\ comments' = [comments EXCEPT ![t] = 0]
  /\ UNCHANGED <<outcome, forgotten>>

\* The result is freed; an error is raised before the blocks of deparse_opts are.
FreeAndLeave(t) ==
  /\ method[t] = "copied" /\ FreeResult(t)
  /\ MethodGoto(t, "ended")
  /\ comments' = [comments EXCEPT ![t] = 0]
  /\ forgotten' = [forgotten EXCEPT ![t] = @ \/ (comments[t] > 0 /\ Failed(t))]
  /\ UNCHANGED outcome

\* The caller of the method goes on, or rescues.
Resume(t) ==
  /\ method[t] = "ended"
  /\ MethodGoto(t, "none") /\ outcome' = [outcome EXCEPT ![t] = "none"]
  /\ UNCHANGED <<vars, comments, forgotten>>

-----------------------------------------------------------------------------

MethodStep(t) ==
  \/ BadArgument(t) \/ BeginDeparseOpts(t) \/ AddComment(t) \/ BadComment(t)
  \/ DeparseOpts(t) \/ CallFunction(t) \/ Copy(t) \/ FreeAndLeave(t)
  \/ Step(t) /\ UNCHANGED ruby

Caller(t) ==
  \/ CallMethod(t) \/ Resume(t)
  \/ method[t] = "none" /\ ThreadExit(t) /\ UNCHANGED ruby

RNext == \E t \in Threads : MethodStep(t) \/ Caller(t)

RSpec == RInit /\ [][RNext]_rvars

\* A method that has begun goes on.
RFairSpec == RSpec /\ \A t \in Threads : WF_rvars(MethodStep(t))

-----------------------------------------------------------------------------
(* Correctness.                                                              *)

\* What a method hands to rb_str_new2 or follows without a look: a NULL among it raises or
\* crashes. fingerprint tests its string, split_with_parser loops over no statements.
Reads(t) ==
  IF Failed(t) THEN {"error"}
  ELSE CASE op[t] = "fingerprint" -> {}
         [] op[t] = "split_with_parser" ->
              {"stderr_buffer"} \cup (IF tree[t] = "NIL" THEN {} ELSE {"payload"})
         [] op[t] \in {"parse", "scan", "summary"} -> {"payload", "stderr_buffer"}
         [] OTHER -> {"payload"}

\* Whatever path a function took, what its method reads of the result is there and has not
\* been freed, and stays so until the copy is complete.
ReadsWhatIsThere ==
  \A t \in Threads :
    method[t] \in {"called", "copied"} /\ pc[t] = "returned" =>
      Reads(t) \subseteq result[t] \cap heap[t]

LossKnown(t) ==
  /\ "lost" \in heap'[t] \ heap[t] =>
       \/ op[t] \in {"summary", "plpgsql", "deparse_comments"} /\ outcome'[t] = "error"
       \/ op[t] = "plpgsql" /\ stmts[t] = 0
  /\ forgotten'[t] /\ ~forgotten[t] => outcome'[t] = "error"

\* Memory is lost in four functions only, and where they raise: summary and plpgsql drop
\* the stderr_buffer, deparse_comments the error, deparse_protobuf_opts the comments.
\* plpgsql drops it, too, if it finds no function.
LosesOnly == [][\A t \in Threads : LossKnown(t)]_rvars

MethodPhase(t) ==
  IF pc[t] = "exited" THEN "gone" ELSE IF method[t] = "none" THEN "idle"
  ELSE IF method[t] = "ended" THEN "done" ELSE "busy"

MethodOutcome(t) == IF method[t] = "ended" THEN outcome[t] ELSE "none"

MethodClean(t) == Pristine(t) /\ result[t] = {} /\ comments[t] = 0

\* Methods follow the contract of the functions: each ends, with a value or by raising, and
\* neither a result nor anything in the thread's runtime is left behind.
MethodContract == INSTANCE ApiContract WITH
  phase   <- [t \in Threads |-> MethodPhase(t)],
  outcome <- [t \in Threads |-> MethodOutcome(t)],
  clean   <- [t \in Threads |-> MethodClean(t)]

MethodsImplementContract == MethodContract!AFairSpec
=============================================================================
