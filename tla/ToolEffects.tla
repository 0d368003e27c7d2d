---------------------------- MODULE ToolEffects ----------------------------
(***************************************************************************)
(* What durable Tool execution promises for the calls of one turn, without *)
(* saying how a batch is scheduled, admitted or recovered:                 *)
(*                                                                         *)
(*   - the handler of a call begins at most once, whatever crashes, and    *)
(*     only while the turn is open;                                        *)
(*   - a call is answered at most once, and an answer is never changed;    *)
(*   - a success and a handler's error are only answered for a call whose  *)
(*     handler began, a refusal only for one whose handler never will.     *)
(*                                                                         *)
(* ToolExecution implements it: see ToolExecution!Effects.                 *)
(***************************************************************************)

CONSTANT Calls

VARIABLES
    began,      \* the calls whose handler was entered
    answer,     \* the durable observation of each call
    closed      \* the Run has left the turn

vars == <<began, answer, closed>>

Results  == {"OK", "ERROR"}
Refusals == {"DENIED", "APPROVAL_REJECTED", "BUDGET_EXCEEDED"}
Answers  == Results \cup Refusals \cup {"OUTCOME_UNKNOWN"}

Init ==
    /\ began = {}
    /\ answer = [c \in Calls |-> "NONE"]
    /\ closed = FALSE

Begin(c) ==
    /\ ~closed
    /\ c \notin began
    /\ answer[c] = "NONE"
    /\ began' = began \cup {c}
    /\ UNCHANGED <<answer, closed>>

Answer(c, a) ==
    /\ ~closed
    /\ answer[c] = "NONE"
    /\ a \in Results => c \in began
    /\ a \in Refusals => c \notin began
    /\ answer' = [answer EXCEPT ![c] = a]
    /\ UNCHANGED <<began, closed>>

Close ==
    /\ ~closed
    /\ closed' = TRUE
    /\ UNCHANGED <<began, answer>>

Next ==
    \/ \E c \in Calls : Begin(c)
    \/ \E c \in Calls, a \in Answers : Answer(c, a)
    \/ Close

Spec == Init /\ [][Next]_vars
=============================================================================
