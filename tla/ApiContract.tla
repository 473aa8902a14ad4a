---------------------------- MODULE ApiContract ----------------------------
(***************************************************************************)
(* What every function of the C library promises its caller, whatever it    *)
(* computes: a call ends, with a value or with an error, and leaves nothing *)
(* of its own behind in the thread it ran in.  Threads do not wait for each *)
(* other.                                                                   *)
(***************************************************************************)
CONSTANT Threads

VARIABLES
  phase,    \* per thread: between calls, in a call, holding a result, gone
  outcome,  \* per thread: what the result it holds says
  clean     \* per thread: nothing of a call is left in the thread's runtime

avars == <<phase, outcome, clean>>

ATypeOK ==
  /\ phase \in [Threads -> {"idle", "busy", "done", "gone"}]
  /\ outcome \in [Threads -> {"none", "value", "error"}]
  /\ clean \in [Threads -> BOOLEAN]

AInit ==
  /\ phase = [t \in Threads |-> "idle"]
  /\ outcome = [t \in Threads |-> "none"]
  /\ clean = [t \in Threads |-> TRUE]

Begin(t) ==
  /\ phase[t] = "idle"
  /\ phase' = [phase EXCEPT ![t] = "busy"]
  /\ UNCHANGED <<outcome, clean>>

Work(t) ==
  /\ phase[t] = "busy"
  /\ \E b \in BOOLEAN : clean' = [clean EXCEPT ![t] = b]
  /\ UNCHANGED <<phase, outcome>>

Return(t) ==
  /\ phase[t] = "busy"
  /\ phase' = [phase EXCEPT ![t] = "done"]
  /\ \E o \in {"value", "error"} : outcome' = [outcome EXCEPT ![t] = o]
  /\ clean' = [clean EXCEPT ![t] = TRUE]

Take(t) ==
  /\ phase[t] = "done"
  /\ phase' = [phase EXCEPT ![t] = "idle"]
  /\ outcome' = [outcome EXCEPT ![t] = "none"]
  /\ UNCHANGED clean

Leave(t) ==
  /\ phase[t] = "idle"
  /\ phase' = [phase EXCEPT ![t] = "gone"]
  /\ UNCHANGED <<outcome, clean>>

ANext == \E t \in Threads : Begin(t) \/ Work(t) \/ Return(t) \/ Take(t) \/ Leave(t)

ASpec == AInit /\ [][ANext]_avars

\* A call that has begun ends.
AFairSpec == ASpec /\ \A t \in Threads : WF_avars(Return(t))
=============================================================================
