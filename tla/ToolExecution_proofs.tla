------------------------ MODULE ToolExecution_proofs ------------------------
(***************************************************************************)
(* Theorems about ToolExecution, for every number of calls, every batch,   *)
(* every budget, every policy and any number of crashes.                   *)
(*                                                                         *)
(* The inductive invariant IInv is a conjunction of layers.                *)
(*   CallsOK   one call: its row, its approval, its ledger entry, its      *)
(*             handler and the await its worker is at                      *)
(*   Stage     who is at work in which phase                               *)
(*   Barriers  what is known of the calls before one that was started, in  *)
(*             this batch or in one a crash or a park ended                *)
(*   Windows   where windows can begin (Cuts), and that a call was started *)
(*             only in the window it belongs to                            *)
(*   Budget    a batch that is driven fits what is left, its own           *)
(*             reservations included                                       *)
(*   Reports   what the batch has told the Run of each call, against what  *)
(*             has become of the call                                      *)
(* A step of one worker leaves the other calls alone (OtherFields), which  *)
(* carries CallsOK; the layers about several calls need a case for the     *)
(* worker, one for the batch and one for the rest.                         *)
(***************************************************************************)
EXTENDS ToolExecution, FiniteSetTheorems, TLAPS

\* What is done neither by a call's worker nor by the batch.
BesideStep ==
    \/ \E d \in Calls : Expire(d)
    \/ SettleTurn \/ ResolveApproval \/ ResumeApproval \/ EndIdle \/ ResumeReconciliation \/ Abort \/ Crash
    \/ UNCHANGED vars

\* What is accounted for is a number, and so is the size of a window.
LEMMA CountType == Accounted \in Nat /\ \A a, b \in Nat : Cardinality(a .. b) \in Nat
<1>1. IsFiniteSet(Calls)
  BY FS_Interval, CallsAssumption DEF Calls
<1>2. IsFiniteSet({c \in Calls :
                     ledger[c] \in {"RESERVED", "IN_FLIGHT", "SETTLED", "CONSERVATIVE"}})
  BY <1>1, FS_Subset
<1>3. Accounted \in Nat
  BY <1>2, FS_CardinalityType DEF Accounted
<1>4. ASSUME NEW a \in Nat, NEW b \in Nat PROVE Cardinality(a .. b) \in Nat
  <2>1. IsFiniteSet(a .. b)
    BY FS_Interval
  <2>2. QED
    BY <2>1, FS_CardinalityType
<1>5. QED
  BY <1>3, <1>4

\* The initial state is well typed.
LEMMA InitTypes == Init => TypeOK
<1> SUFFICES ASSUME Init PROVE TypeOK
  OBVIOUS
<1>1. limit \in Nat /\ kind \in [Calls -> Kinds]
  BY BoundsAssumption, BatchesAssumption DEF Init
<1>2. next \in Nat \ {0} /\ window \subseteq Calls /\ crashes \in Nat
  BY DEF Init
<1>5. aborted \in BOOLEAN
  BY DEF Init
<1>3. pc \in [Calls -> Awaits \cup Ended \cup {"idle"}] /\ effects \in [Calls -> Nat]
      /\ accounted \in [Calls -> Nat]
  BY DEF Init, Idle
<1>4. QED
  BY <1>1, <1>2, <1>3, <1>5 DEF Init, TypeOK, NoItems

\* A step of a call's worker keeps the types.
LEMMA WorkerTypes ==
  ASSUME NEW c \in Calls, TypeOK, Worker(c)
  PROVE  TypeOK'
<1> USE DEF TypeOK, Goto, Commit, UnchangedButWorker, durable, batch, Awaits, Ended, Outcomes
<1>1. CASE Find(c) BY <1>1 DEF Find, Terminal
<1>2. CASE FindAborted(c) BY <1>2 DEF FindAborted
<1>3. CASE Create(c) BY <1>3 DEF Create
<1>4. CASE Lookup(c) BY <1>4 DEF Lookup, Answers, Refusals
<1>5. CASE Admit(c) BY <1>5 DEF Admit, Answers, Refusals
<1>6. CASE Ask(c) BY <1>6 DEF Ask
<1>7. CASE ReadBudget(c) BY <1>7, CountType DEF ReadBudget
<1>8. CASE Reserve(c) BY <1>8 DEF Reserve, Answers, Refusals
<1>9. CASE Start(c) BY <1>9 DEF Start
<1>10. CASE Execute(c) BY <1>10 DEF Execute
<1>11. CASE HandlerReturns(c) BY <1>11 DEF HandlerReturns, Answers
<1>12. CASE Reconcile(c) BY <1>12 DEF Reconcile, Answers
<1>13. CASE Settle(c) BY <1>13 DEF Settle, SettledEntry, Terminal
<1>14. CASE Throw(c) BY <1>14 DEF Throw
<1>15. QED
  BY <1>1, <1>2, <1>3, <1>4, <1>5, <1>6, <1>7, <1>8, <1>9, <1>10, <1>11, <1>12, <1>13, <1>14
  DEF Worker

\* A decision, a step of the Run and a crash keep the types.
LEMMA BesideTypes ==
  ASSUME TypeOK, BesideStep
  PROVE  TypeOK'
<1> USE DEF BesideStep, TypeOK, UnchangedButRun, batch, worker, CancelPending, Closed
<1>1. CASE ResolveApproval \/ \E c \in Calls : Expire(c)
  BY <1>1 DEF ResolveApproval, Expire, Refused, Granted
<1>2. CASE SettleTurn BY <1>2 DEF SettleTurn, Refused
<1>3. CASE ResumeApproval \/ ResumeReconciliation \/ Abort
  BY <1>3 DEF ResumeApproval, ResumeReconciliation, Abort
<1>4. CASE EndIdle BY <1>4 DEF EndIdle, Refused
<1>5. CASE Crash BY <1>5 DEF Crash, Idle, NoItems
<1>6. CASE UNCHANGED vars BY <1>6 DEF vars
<1>7. QED BY <1>1, <1>2, <1>3, <1>4, <1>5, <1>6

\* A step of the batch keeps the types.
LEMMA BatchTypes ==
  ASSUME TypeOK, Drive \/ Pass \/ StopAborted \/ OpenWindow \/ Complete \/ Interpret
  PROVE  TypeOK'
<1> USE DEF TypeOK, UnchangedButBatch, durable, batch
<1>1. CASE Drive
  <2>1. item' \in [Calls -> {"NONE", "OBSERVATION", "REJECTED", "SKIPPED"}]
    BY <1>1 DEF Drive, NoItems
  <2>2. QED BY <1>1, <2>1 DEF Drive
<1>2. CASE Pass
  <2>1. next \in Calls BY <1>2, CallsAssumption DEF Pass, Calls
  <2>2. QED BY <1>2, <2>1 DEF Pass, NotExecuted, Calls
<1>3. CASE StopAborted BY <1>3 DEF StopAborted, Withheld
<1>4. CASE OpenWindow
  <2>0. next \in 1 .. N => \A last \in next .. N : next .. last \subseteq 1 .. N BY CallsAssumption
  <2>1. window' \subseteq Calls BY <1>4, CallsAssumption, <2>0 DEF OpenWindow, Calls, MayShare
  <2>2. pc' \in [Calls -> Awaits \cup Ended \cup {"idle"}] BY <1>4 DEF OpenWindow, Awaits
  <2>3. QED BY <1>4, <2>1, <2>2 DEF OpenWindow
<1>5. CASE Complete BY <1>5 DEF Complete
<1>6. CASE Interpret
  <2>1. pc' \in [Calls -> Awaits \cup Ended \cup {"idle"}] /\ window' \subseteq Calls
    BY <1>6 DEF Interpret, Idle
  <2>2. item' \in [Calls -> {"NONE", "OBSERVATION", "REJECTED", "SKIPPED"}]
    BY <1>6 DEF Interpret, Withheld, WindowItems
  <2>3. barrier' \in {"NONE", "DEPENDENCY_UNPROVEN", "OUTCOME_UNKNOWN"}
    BY <1>6 DEF Interpret, WindowBarrier
  <2>4. next' \in Nat \ {0}
    <3>1. IsFiniteSet(Calls) /\ window \in SUBSET Calls BY FS_Interval, CallsAssumption DEF Calls
    <3>0. IsFiniteSet(window) BY <3>1, FS_Subset
    <3>2. Cardinality(window) \in Nat BY <3>0, FS_CardinalityType
    <3>3. QED BY <1>6, <3>2 DEF Interpret
  <2>5. result' \in {"NONE", "COMPLETED", "WAITING_APPROVAL", "EFFECT_UNCONFIRMED",
                   "BUDGET_EXCEEDED", "CANCELLED", "FAILED"} BY <1>6 DEF Interpret, WindowResult
  <2>6. phase' \in {"idle", "schedule", "window", "settle", "resume"} BY <1>6 DEF Interpret
  <2>7. QED BY <1>6, <2>1, <2>2, <2>3, <2>4, <2>5, <2>6 DEF Interpret
<1>7. QED BY <1>1, <1>2, <1>3, <1>4, <1>5, <1>6

-----------------------------------------------------------------------------
(***************************************************************************)
(* CallsOK: one call.                                                      *)
(***************************************************************************)
\* A call that was not started.
Pending(c) == invocation[c] \in {"NONE", "REQUESTED", "WAITING_APPROVAL"}

\* What the row of a call says at each await.
RowAt(c) ==
    /\ pc[c] = "create" => invocation[c] = "NONE"
    /\ pc[c] \in {"admit", "snapshot", "reserve", "start"} =>
         invocation[c] \in {"REQUESTED", "WAITING_APPROVAL"}
    /\ pc[c] = "ask" => invocation[c] = "REQUESTED"
    /\ pc[c] = "lookup" => invocation[c] = "WAITING_APPROVAL"
    /\ pc[c] \in {"execute", "handler", "reconcile"} => invocation[c] = "RUNNING"
    /\ pc[c] = "settle" =>
         /\ invocation[c] \notin Terminal \cup {"NONE"}
         /\ verdict[c] # "NONE"
         /\ verdict[c] \in Refusals <=> Pending(c)
    /\ pc[c] \in {"DONE", "OVER_BUDGET"} => invocation[c] \in Terminal
    /\ pc[c] = "WAITING_APPROVAL" => invocation[c] = "WAITING_APPROVAL"
    /\ pc[c] = "WAITING_RECONCILIATION" => invocation[c] = "RUNNING"

\* How often the handler was entered, by the row, the await and the answer.
EffectsAt(c) ==
    /\ effects[c] \in {0, 1}
    /\ Pending(c) \/ pc[c] = "execute" => effects[c] = 0
    /\ pc[c] = "handler" => effects[c] = 1
    /\ pc[c] = "settle" /\ verdict[c] \in {"OK", "ERROR"} => effects[c] = 1
    /\ answer[c] # "NONE" <=> invocation[c] \in Terminal
    /\ answer[c] = "OK" <=> invocation[c] = "COMPLETED"
    /\ answer[c] \in {"OK", "ERROR"} => effects[c] = 1
    /\ answer[c] \in Refusals => effects[c] = 0

\* A call whose approval is not granted does not get past its lookup.
ApprovalAt(c) ==
    /\ approval[c] \in Refused \cup {"PENDING"} =>
         /\ effects[c] = 0
         /\ invocation[c] \in Terminal \cup {"WAITING_APPROVAL"}
         /\ pc[c] \notin {"admit", "ask", "snapshot", "reserve", "start"}
    /\ pc[c] \in {"admit", "snapshot", "reserve", "start"} /\ invocation[c] = "WAITING_APPROVAL" =>
         approval[c] \in Granted
    /\ invocation[c] = "WAITING_APPROVAL" => approval[c] # "NONE"
    /\ invocation[c] \in {"NONE", "REQUESTED"} => approval[c] = "NONE"
    /\ approval[c] = "PENDING" => invocation[c] = "WAITING_APPROVAL" /\ pc[c] # "settle"

\* The ledger entry goes with the row, unless the call was approved once.
EntryAt(c) ==
    /\ invocation[c] = "NONE" => ledger[c] = "NONE"
    /\ Pending(c) => ledger[c] \in {"NONE", "RESERVED"}
    /\ invocation[c] \in Terminal => ledger[c] \notin {"RESERVED", "IN_FLIGHT"}
    /\ approval[c] # "APPROVED_ONCE" =>
         /\ pc[c] = "start" => ledger[c] = "RESERVED"
         /\ invocation[c] = "RUNNING" => ledger[c] \in {"IN_FLIGHT", "CONSERVATIVE"}
         /\ effects[c] > 0 => ledger[c] \in {"IN_FLIGHT", "SETTLED", "CONSERVATIVE"}

CallOK(c) == RowAt(c) /\ EffectsAt(c) /\ ApprovalAt(c) /\ EntryAt(c)

\* All that CallOK is about.
Fields(c) == <<invocation[c], answer[c], approval[c], ledger[c], pc[c], verdict[c], effects[c]>>

\* A step that leaves a call's fields alone keeps what is known of it.
LEMMA SameFields ==
  ASSUME NEW c \in Calls, CallOK(c), UNCHANGED Fields(c)
  PROVE  CallOK(c)'
  BY DEF CallOK, RowAt, EffectsAt, ApprovalAt, EntryAt, Pending, Fields

\* A worker leaves the fields of the other calls alone.
LEMMA OtherFields ==
  ASSUME NEW c \in Calls, TypeOK, Worker(c), NEW d \in Calls, d # c
  PROVE  UNCHANGED Fields(d)
<1> USE DEF TypeOK, Goto, Commit, UnchangedButWorker, durable, Fields
<1>1. CASE Find(c) \/ FindAborted(c) \/ Create(c) \/ Ask(c) \/ ReadBudget(c)
  BY <1>1 DEF Find, FindAborted, Create, Ask, ReadBudget
<1>4. CASE Lookup(c) BY <1>4 DEF Lookup
<1>5. CASE Admit(c) BY <1>5 DEF Admit
<1>8. CASE Reserve(c) BY <1>8 DEF Reserve
<1>9. CASE Start(c) \/ Execute(c) \/ HandlerReturns(c) BY <1>9 DEF Start, Execute, HandlerReturns
<1>12. CASE Reconcile(c) BY <1>12 DEF Reconcile
<1>13. CASE Settle(c) \/ Throw(c) BY <1>13 DEF Settle, Throw
<1>15. QED BY <1>1, <1>4, <1>5, <1>8, <1>9, <1>12, <1>13 DEF Worker

\* A worker keeps what is known of its own call: every transition of the row.
LEMMA WorkerCall ==
  ASSUME NEW c \in Calls, TypeOK, CallOK(c), Worker(c)
  PROVE  CallOK(c)'
<1> USE DEF TypeOK, Goto, Commit, UnchangedButWorker, durable, CallOK, RowAt, EffectsAt, ApprovalAt,
            EntryAt, Pending, Terminal, Refusals, Refused, Granted
<1>1. CASE Find(c) BY <1>1 DEF Find
<1>2. CASE FindAborted(c) BY <1>2 DEF FindAborted
<1>3. CASE Create(c) BY <1>3 DEF Create
<1>4. CASE Lookup(c) BY <1>4 DEF Lookup
<1>5. CASE Admit(c) BY <1>5 DEF Admit, RunGrant
<1>6. CASE Ask(c) BY <1>6 DEF Ask
<1>7. CASE ReadBudget(c) BY <1>7 DEF ReadBudget
<1>8. CASE Reserve(c) BY <1>8 DEF Reserve
<1>9. CASE Start(c) BY <1>9 DEF Start
<1>10. CASE Execute(c) BY <1>10 DEF Execute
<1>11. CASE HandlerReturns(c) BY <1>11 DEF HandlerReturns
<1>12. CASE Reconcile(c) BY <1>12 DEF Reconcile
<1>13. CASE Settle(c) BY <1>13 DEF Settle, SettledEntry, Answers
<1>14. CASE Throw(c) BY <1>14 DEF Throw, Awaits
<1>15. QED
  BY <1>1, <1>2, <1>3, <1>4, <1>5, <1>6, <1>7, <1>8, <1>9, <1>10, <1>11, <1>12, <1>13, <1>14
  DEF Worker

\* The batch keeps what is known of every call: it only starts and forgets workers.
LEMMA BatchCall ==
  ASSUME NEW c \in Calls, TypeOK, CallOK(c),
         Drive \/ Pass \/ StopAborted \/ OpenWindow \/ Complete \/ Interpret
  PROVE  CallOK(c)'
<1>1. UNCHANGED <<invocation, answer, approval, ledger, verdict, effects>>
  BY DEF Drive, Pass, StopAborted, OpenWindow, Complete, Interpret, UnchangedButBatch, durable
<1>2. pc'[c] \in {pc[c], "idle", "find"}
  BY DEF Drive, Pass, StopAborted, OpenWindow, Complete, Interpret, UnchangedButBatch, Idle, TypeOK
<1>3. QED
  BY <1>1, <1>2 DEF CallOK, RowAt, EffectsAt, ApprovalAt, EntryAt, Pending

\* Decisions, the Run and crashes keep what is known of every call: a crash drops the
\* worker and its verdict and puts what was in flight to its conservative amount.
LEMMA BesideCall ==
  ASSUME NEW c \in Calls, TypeOK, CallOK(c), BesideStep
  PROVE  CallOK(c)'
<1> USE DEF BesideStep, CallOK, RowAt, EffectsAt, ApprovalAt, EntryAt, Pending, Refused, Granted,
            TypeOK
<1>1. CASE Crash
  BY <1>1 DEF Crash, Idle
<1>2. ASSUME UNCHANGED <<invocation, answer, ledger, pc, verdict, effects>>,
             \/ approval'[c] = approval[c]
             \/ approval[c] = "PENDING" /\ approval'[c] \in Granted \cup Refused
      PROVE  CallOK(c)'
  BY <1>2
<1>3. CASE ResolveApproval \/ \E d \in Calls : Expire(d)
  <2>1. UNCHANGED <<invocation, answer, ledger, pc, verdict, effects>>
    BY <1>3 DEF ResolveApproval, Expire, UnchangedButRun, worker
  <2>2. \/ approval'[c] = approval[c]
        \/ approval[c] = "PENDING" /\ approval'[c] \in Granted \cup Refused
    BY <1>3 DEF ResolveApproval, Expire
  <2>3. QED BY <1>2, <2>1, <2>2
<1>4. CASE SettleTurn \/ ResumeApproval \/ EndIdle \/ ResumeReconciliation \/ Abort
  <2>1. UNCHANGED <<invocation, answer, ledger, pc, verdict, effects>>
    BY <1>4
    DEF SettleTurn, ResumeApproval, EndIdle, ResumeReconciliation, Abort, UnchangedButRun, worker
  <2>2. \/ approval'[c] = approval[c]
        \/ approval[c] = "PENDING" /\ approval'[c] \in Granted \cup Refused
    BY <1>4 DEF SettleTurn, ResumeApproval, EndIdle, ResumeReconciliation, Abort, CancelPending
  <2>3. QED BY <1>2, <2>1, <2>2
<1>5. CASE UNCHANGED vars BY <1>5 DEF vars
<1>6. QED BY <1>1, <1>3, <1>4, <1>5

-----------------------------------------------------------------------------
(***************************************************************************)
(* Stage and Barriers: several calls.                                      *)
(***************************************************************************)
\* Who is where: the calls of a window run while the Run does.
Stage ==
    /\ phase \notin {"idle", "resume"} => run = "RUNNING"
    /\ phase = "resume" => run = "WAITING_APPROVAL"
    /\ phase # "window" => window = {}
    /\ \A c \in Calls \ window : pc[c] = "idle"

\* How a call bears on the later ones.
Rejected(c) == kind[c] \in {"MODEL_REJECTED", "UNPREPARED"}
Started(c)  == invocation[c] # "NONE" \/ pc[c] # "idle"
Good(c)     == ~Rejected(c) /\ invocation[c] = "COMPLETED"
Bad(c)      == Rejected(c) \/ invocation[c] = "FAILED"

\* A call the batch is through with, for now and in every batch to come.
Passed(c) ==
    /\ answer[c] # "OUTCOME_UNKNOWN"
    /\ \/ Rejected(c) \/ invocation[c] \in Terminal
       \/ kind[c] = "MAY_MUTATE" /\ \E b \in Calls : b < c /\ Bad(b)

\* What holds of the calls before one that was started.
StartedAfter(c) ==
    Started(c) =>
        /\ ~Rejected(c)
        /\ kind[c] = "MAY_MUTATE" => \A b \in Calls : b < c => Good(b)
        /\ kind[c] # "PARALLEL_SAFE" => \A b \in Calls : b < c => Passed(b)

\* What the barrier says of the calls the batch is through with.
Scheduled ==
    phase \in {"schedule", "window"} =>
        /\ barrier = "NONE" => \A b \in Calls : b < next => Good(b)
        /\ barrier = "DEPENDENCY_UNPROVEN" => \E b \in Calls : b < next /\ Bad(b)
        /\ barrier # "OUTCOME_UNKNOWN" => \A b \in Calls : b < next => Passed(b)

\* The window that is open.
Opened ==
    phase = "window" => \E last \in Calls : next <= last /\ window = next .. last

Barriers == Scheduled /\ Opened /\ \A c \in Calls : StartedAfter(c)

CallsOK == \A c \in Calls : CallOK(c)

\* Calls are numbered from one.
LEMMA CallInInterval == \A c \in Calls : c \in Nat \ {0}
  BY CallsAssumption DEF Calls

\* Before the first batch nothing is started.
LEMMA InitRest == Init => CallsOK /\ Stage /\ Barriers
<1> SUFFICES ASSUME Init PROVE CallsOK /\ Stage /\ Barriers
  OBVIOUS
<1>1. CallsOK
  BY DEF Init, CallsOK, CallOK, RowAt, EffectsAt, ApprovalAt, EntryAt, Pending, Idle, Terminal,
         Refused, Refusals
<1>2. Stage
  BY DEF Init, Stage, Idle
<1>3. Barriers
  BY DEF Init, Barriers, Scheduled, Opened, StartedAfter, Started, Idle
<1>4. QED BY <1>1, <1>2, <1>3

\* A worker that steps is at an await, and leaves the batch alone.
LEMMA WorkerStays ==
  ASSUME NEW c \in Calls, Worker(c)
  PROVE  /\ UNCHANGED <<kind, limit, run, phase, next, window, barrier, item, result, aborted,
                        crashes>>
         /\ pc[c] # "idle"
         /\ pc[c] \notin Ended
  BY DEF Worker, Find, FindAborted, Create, Lookup, Admit, Ask, ReadBudget, Reserve, Start, Execute,
         HandlerReturns, Reconcile, Settle, Throw, UnchangedButWorker, batch, Awaits, Ended,
         Outcomes

\* The batch leaves what is durable alone.
LEMMA BatchStays ==
  ASSUME Drive \/ Pass \/ StopAborted \/ OpenWindow \/ Complete \/ Interpret
  PROVE  UNCHANGED <<kind, limit, durable, run, accounted, verdict, aborted, effects, crashes>>
  BY DEF Drive, Pass, StopAborted, OpenWindow, Complete, Interpret, UnchangedButBatch, durable

\* The rest leaves rows and handlers alone, and a crash alone forgets the batch.
LEMMA BesideStays ==
  ASSUME BesideStep
  PROVE
   /\ UNCHANGED <<kind, limit, invocation, answer, verdict, effects, accounted>>
   /\ \/ phase' = "idle" /\ pc' = Idle /\ window' = {} /\ Crash
      \/ phase' \in {"idle", "resume"} /\ UNCHANGED <<pc, next, window, barrier, ledger>>
      \/ UNCHANGED <<pc, next, window, barrier, ledger, phase>>
  BY DEF BesideStep, ResolveApproval, Expire, SettleTurn, ResumeApproval, EndIdle, ResumeReconciliation,
         Abort, Crash, UnchangedButRun, vars, batch, worker

\* Every step keeps who is where.
LEMMA StageKept ==
  ASSUME TypeOK, Stage, [Next]_vars
  PROVE  Stage'
<1>1. CASE \E c \in Calls : Worker(c)
  <2>1. PICK c \in Calls : Worker(c) BY <1>1
  <2>2. \A d \in Calls : d # c => pc'[d] = pc[d] BY <2>1, OtherFields DEF Fields
  <2>3. c \in window BY <2>1, WorkerStays DEF Stage
  <2>4. QED BY <2>1, <2>2, <2>3, WorkerStays DEF Stage
<1>2. CASE Drive \/ Pass \/ StopAborted \/ OpenWindow \/ Complete \/ Interpret
  BY <1>2
  DEF Drive, Pass, StopAborted, OpenWindow, Complete, Interpret, UnchangedButBatch, batch, Stage,
      Idle
<1>3. CASE BesideStep
  <2>1. CASE Crash BY <2>1 DEF Crash, Stage, Idle
  <2>2. CASE SettleTurn BY <2>2 DEF SettleTurn, Stage, UnchangedButRun, batch, worker
  <2>3. CASE UNCHANGED <<pc, window, phase, run>> BY <2>3 DEF Stage
  <2>4. CASE ResolveApproval \/ ResumeApproval \/ EndIdle \/ ResumeReconciliation
    BY <2>4
    DEF ResolveApproval, ResumeApproval, EndIdle, ResumeReconciliation, Stage, UnchangedButRun,
        batch, worker
  <2>5. QED
    BY <1>3, <2>1, <2>2, <2>3, <2>4
    DEF BesideStep, ResolveApproval, Expire, Abort, vars, UnchangedButRun, batch, worker
<1>4. QED BY <1>1, <1>2, <1>3 DEF Next, Driver, BesideStep

\* Every step keeps what is known of every call.
LEMMA CallsKept ==
  ASSUME TypeOK, CallsOK, [Next]_vars
  PROVE  CallsOK'
<1> SUFFICES ASSUME NEW c \in Calls PROVE CallOK(c)'
  BY DEF CallsOK
<1>0. CallOK(c) BY DEF CallsOK
<1>1. ASSUME NEW d \in Calls, Worker(d) PROVE CallOK(c)'
  <2>1. CASE d = c BY <2>1, <1>0, <1>1, WorkerCall
  <2>2. CASE d # c BY <2>2, <1>0, <1>1, OtherFields, SameFields
  <2>3. QED BY <2>1, <2>2
<1>2. CASE Drive \/ Pass \/ StopAborted \/ OpenWindow \/ Complete \/ Interpret
  BY <1>0, <1>2, BatchCall
<1>3. CASE BesideStep BY <1>0, <1>3, BesideCall DEF BesideStep
<1>4. QED BY <1>1, <1>2, <1>3 DEF Next, Driver, BesideStep

\* Every step keeps the types.
LEMMA TypesKept ==
  ASSUME TypeOK, [Next]_vars
  PROVE  TypeOK'
<1>1. CASE \E d \in Calls : Worker(d) BY <1>1, WorkerTypes
<1>2. CASE Drive \/ Pass \/ StopAborted \/ OpenWindow \/ Complete \/ Interpret BY <1>2, BatchTypes
<1>3. CASE BesideStep BY <1>3, BesideTypes DEF BesideStep
<1>4. QED BY <1>1, <1>2, <1>3 DEF Next, Driver, BesideStep

\* Terminal rows and their answers stay.
LEMMA TerminalStays ==
  ASSUME NEW c \in Calls, TypeOK, CallsOK, Worker(c), NEW b \in Calls, invocation[b] \in Terminal
  PROVE invocation'[b] = invocation[b] /\ answer'[b] = answer[b]
<1>1. CASE b # c BY <1>1, OtherFields DEF Fields
<1>2. CASE b = c
  <2>1. pc[c] \notin {"create", "ask", "start", "settle"}
    BY <1>2 DEF CallsOK, CallOK, RowAt, Terminal
  <2>2. QED
    BY <1>2, <2>1
    DEF Worker, Find, FindAborted, Create, Lookup, Admit, Ask, ReadBudget, Reserve, Start, Execute,
        HandlerReturns, Reconcile, Settle, Throw, durable
<1>3. QED BY <1>1, <1>2

\* What a worker leaves of what is known of the calls before it.
LEMMA PassedStays ==
  ASSUME NEW c \in Calls, TypeOK, CallsOK, Barriers, Worker(c), NEW b \in Calls
  PROVE  /\ Good(b) => Good(b)'
         /\ Bad(b) => Bad(b)'
         /\ Passed(b) => Passed(b)'
         /\ Started(b)' => Started(b)
<1>1. \A d \in Calls : (Good(d) => Good(d)') /\ (Bad(d) => Bad(d)')
  BY TerminalStays, WorkerStays DEF Good, Bad, Rejected, Terminal
<1>2. Started(c) BY WorkerStays DEF Started
<1>3. ASSUME Passed(b) PROVE Passed(b)'
  <2>1. CASE invocation[b] \in Terminal BY <2>1, <1>3, TerminalStays DEF Passed
  <2>2. CASE invocation[b] \notin Terminal
    <3>1. ~Started(b)
      BY <2>2, <1>3 DEF Passed, Barriers, StartedAfter, Good, Bad
    <3>2. b # c BY <3>1, <1>2
    <3>3. answer'[b] = answer[b] BY <3>2, OtherFields DEF Fields
    <3>4. QED BY <3>3, <2>2, <1>1, <1>3, WorkerStays DEF Passed, Rejected
  <2>3. QED BY <2>1, <2>2
<1>4. Started(b)' => Started(b)
  <2>1. CASE b = c BY <2>1, <1>2
  <2>2. CASE b # c BY <2>2, OtherFields DEF Fields, Started
  <2>3. QED BY <2>1, <2>2
<1>5. QED BY <1>1, <1>3, <1>4

\* A worker keeps the barriers: it makes no call good or bad that a later, started call
\* depended on.
LEMMA WorkerBarriers ==
  ASSUME NEW c \in Calls, TypeOK, CallsOK, Stage, Barriers, Worker(c)
  PROVE  Barriers'
<1>1. \A b \in Calls : StartedAfter(b)'
  BY PassedStays, WorkerStays DEF Barriers, StartedAfter, Rejected
<1>2. Scheduled' BY PassedStays, WorkerStays DEF Barriers, Scheduled
<1>3. Opened' BY WorkerStays DEF Barriers, Opened
<1>4. QED BY <1>1, <1>2, <1>3 DEF Barriers

\* Decisions, the Run and crashes keep the barriers.
LEMMA BesideBarriers ==
  ASSUME TypeOK, Barriers, BesideStep
  PROVE  Barriers'
<1>1. UNCHANGED <<kind, invocation, answer>> BY BesideStays
<1>2. \A d \in Calls : (Good(d) <=> Good(d)') /\ (Bad(d) <=> Bad(d)') /\ (Passed(d) <=> Passed(d)')
  BY <1>1 DEF Good, Bad, Passed, Rejected
<1>3. \A d \in Calls : pc'[d] = pc[d] \/ pc'[d] = "idle"
  BY BesideStays DEF Idle
<1>4. \A d \in Calls : StartedAfter(d)'
  BY <1>1, <1>2, <1>3 DEF Barriers, StartedAfter, Started, Rejected
<1>5. Scheduled' /\ Opened'
  BY <1>2, BesideStays DEF Barriers, Scheduled, Opened
<1>6. QED BY <1>4, <1>5 DEF Barriers

\* The batch keeps the barriers: what a window's calls answered decides what may follow.
LEMMA BatchBarriers ==
  ASSUME TypeOK, CallsOK, Stage, Barriers,
         Drive \/ Pass \/ StopAborted \/ OpenWindow \/ Complete \/ Interpret
  PROVE  Barriers'
<1>1. UNCHANGED <<kind, invocation, answer>> BY BatchStays DEF durable
<1>2. \A d \in Calls : (Good(d) <=> Good(d)') /\ (Bad(d) <=> Bad(d)') /\ (Passed(d) <=> Passed(d)')
  BY <1>1 DEF Good, Bad, Passed, Rejected
<1>3. \A d \in Calls : Good(d) => Passed(d)
  BY DEF Good, Passed, Rejected, Terminal, CallsOK, CallOK, EffectsAt
<1>4. \A d \in Calls : ~Started(d) => answer[d] = "NONE"
  BY DEF Started, CallsOK, CallOK, EffectsAt, Terminal
<1>5. ASSUME \A d \in Calls : Started(d)' => Started(d) PROVE \A d \in Calls : StartedAfter(d)'
  BY <1>1, <1>2, <1>5 DEF Barriers, StartedAfter, Rejected
<1>6. CASE Drive
  <2>1. Scheduled' /\ Opened' BY <1>6, CallInInterval DEF Drive, Scheduled, Opened
  <2>2. QED BY <1>1, <1>5, <1>6, <2>1 DEF Drive, Barriers, Started
<1>7. CASE Pass
  <2>1. next \in Calls BY <1>7, CallsAssumption DEF Pass, Calls, TypeOK
  <2>2. phase' = "schedule" /\ next' = next + 1 BY <1>7 DEF Pass
  <2>3. \A d \in Calls : d < next' <=> d < next \/ d = next
    BY <2>1, <2>2, CallInInterval
  <2>4. CASE Rejected(next)
    <3>1. ~Started(next) BY <2>4, <2>1 DEF Barriers, StartedAfter
    <3>2. Bad(next) /\ Passed(next) BY <3>1, <2>4, <2>1, <1>4 DEF Bad, Passed
    <3>3. barrier' # "NONE" /\ (barrier' # "OUTCOME_UNKNOWN" => barrier # "OUTCOME_UNKNOWN")
      BY <1>7, <2>4 DEF Pass, NotExecuted, Dispatchable, Rejected, TypeOK
    <3>4. Scheduled' BY <1>2, <1>7, <2>1, <2>2, <2>3, <3>2, <3>3 DEF Barriers, Scheduled, Pass
    <3>5. QED BY <1>1, <1>5, <1>7, <2>2, <3>4 DEF Pass, Barriers, Started, Opened
  <2>5. CASE ~Rejected(next)
    <3>1. /\ barrier' = barrier
          /\ barrier # "NONE"
          /\ barrier = "DEPENDENCY_UNPROVEN" => kind[next] = "MAY_MUTATE"
      BY <1>7, <2>5, <2>1 DEF Pass, NotExecuted, Dispatchable, Independent, Rejected, TypeOK, Kinds
    <3>2. CASE barrier = "OUTCOME_UNKNOWN"
      BY <1>1, <1>5, <1>7, <2>2, <3>1, <3>2 DEF Pass, Barriers, Started, Opened, Scheduled
    <3>3. CASE barrier = "DEPENDENCY_UNPROVEN"
      <4>1. \E b \in Calls : b < next /\ Bad(b) BY <1>7, <3>3 DEF Pass, Barriers, Scheduled
      <4>2. ~Started(next) BY <2>1, <3>1, <3>3, <4>1 DEF Barriers, StartedAfter, Good, Bad
      <4>3. Passed(next) BY <1>4, <2>1, <3>1, <3>3, <4>1, <4>2 DEF Passed
      <4>4. Scheduled'
        BY <1>2, <1>7, <2>1, <2>2, <2>3, <3>1, <3>3, <4>3 DEF Barriers, Scheduled, Pass
      <4>5. QED BY <1>1, <1>5, <1>7, <2>2, <4>4 DEF Pass, Barriers, Started, Opened
    <3>4. QED BY <3>1, <3>2, <3>3 DEF TypeOK
  <2>6. QED BY <2>4, <2>5
<1>8. CASE StopAborted \/ Complete
  BY <1>1, <1>5, <1>8 DEF StopAborted, Complete, Barriers, Scheduled, Opened, Started, batch
<1>9. CASE OpenWindow
  <2>1. next \in Calls BY <1>9, CallsAssumption DEF OpenWindow, Calls, TypeOK
  <2>2. PICK last \in next .. N : IsWindow(next, last) /\ window' = next .. last
    BY <1>9 DEF OpenWindow
  <2>3. last \in Calls /\ next <= last BY <2>1, <2>2, CallsAssumption DEF Calls
  <2>4. /\ ~Rejected(next)
        /\ barrier # "OUTCOME_UNKNOWN"
        /\ kind[next] = "MAY_MUTATE" => barrier = "NONE"
    BY <1>9, <2>1 DEF OpenWindow, NotExecuted, Dispatchable, Independent, Rejected, TypeOK
  <2>5. Scheduled BY DEF Barriers
  <2>6. phase = "schedule" /\ phase' = "window" /\ UNCHANGED <<next, barrier>>
    BY <1>9 DEF OpenWindow
  <2>7. Scheduled' BY <1>2, <2>5, <2>6 DEF Scheduled
  <2>8. Opened' BY <2>2, <2>3, <2>6 DEF Opened
  <2>9. ASSUME NEW d \in Calls PROVE StartedAfter(d)'
    <3>1. CASE d = next
      BY <1>1, <1>2, <2>1, <2>4, <2>5, <2>6, <3>1 DEF Scheduled, StartedAfter, Rejected
    <3>2. CASE d \in next .. last /\ d # next
      <4>1. last > next BY <2>1, <2>3, <3>2, CallInInterval
      <4>2. kind[d] = "PARALLEL_SAFE" BY <2>2, <3>2, <4>1 DEF IsWindow, MayShare
      <4>3. QED BY <1>1, <4>2 DEF StartedAfter, Rejected
    <3>3. CASE d \notin next .. last
      <4>1. pc'[d] = "idle" BY <1>9, <2>2, <3>3 DEF OpenWindow
      <4>2. Started(d)' => Started(d) BY <1>1, <4>1 DEF Started
      <4>3. QED BY <1>1, <1>2, <4>2 DEF Barriers, StartedAfter, Rejected
    <3>4. QED BY <2>1, <3>1, <3>2, <3>3
  <2>10. QED BY <2>7, <2>8, <2>9 DEF Barriers
<1>10. CASE Interpret
  <2>1. phase = "window" /\ phase' \in {"schedule", "settle"} /\ pc' = Idle BY <1>10 DEF Interpret
  <2>2. \A d \in Calls : StartedAfter(d)' BY <1>1, <1>5, <2>1 DEF Started, Idle
  <2>3. CASE phase' = "settle" BY <2>2, <2>3 DEF Barriers, Scheduled, Opened
  <2>4. CASE phase' = "schedule"
    <3>1. PICK last \in Calls : next <= last /\ window = next .. last BY <2>1 DEF Barriers, Opened
    <3>2. /\ \A c \in window : pc[c] = "DONE"
          /\ barrier' = WindowBarrier
          /\ next' = next + Cardinality(window)
      BY <1>10, <2>4 DEF Interpret, WindowResult
    <3>3. next' = last + 1
      <4>1. last \in Nat /\ next \in Nat BY <3>1, CallInInterval DEF TypeOK
      <4>2. Cardinality(window) = last - next + 1 BY <3>1, <4>1, FS_Interval
      <4>3. QED BY <3>2, <4>1, <4>2
    <3>4. \A d \in Calls : d < next' <=> d < next \/ d \in window
      BY <3>1, <3>3, CallInInterval DEF TypeOK
    <3>5. \A d \in window : /\ d \in Calls /\ Started(d) /\ Answered(d)
                            /\ invocation[d] \in Terminal /\ ~Rejected(d)
      <4>1. window \subseteq Calls BY DEF TypeOK
      <4>2. QED BY <3>2, <4>1 DEF Started, Answered, CallsOK, CallOK, RowAt, Barriers, StartedAfter
    <3>6. Scheduled BY DEF Barriers
    <3>7. ASSUME barrier' = "NONE", NEW b \in Calls, b < next' PROVE Good(b)
      <4>1. barrier = "NONE" /\ \A d \in Calls : Answered(d) => invocation[d] # "FAILED"
        BY <3>2, <3>7 DEF WindowBarrier
      <4>2. CASE b < next BY <2>1, <3>6, <4>1, <4>2 DEF Scheduled
      <4>3. CASE b \in window BY <3>5, <4>1, <4>3 DEF Good, Terminal
      <4>4. QED BY <3>4, <3>7, <4>2, <4>3
    <3>8. ASSUME barrier' # "OUTCOME_UNKNOWN", NEW b \in Calls, b < next' PROVE Passed(b)
      <4>1. /\ barrier # "OUTCOME_UNKNOWN"
            /\ \A d \in Calls : Answered(d) => answer[d] # "OUTCOME_UNKNOWN"
        BY <3>2, <3>8 DEF WindowBarrier
      <4>2. CASE b < next BY <2>1, <3>6, <4>1, <4>2 DEF Scheduled
      <4>3. CASE b \in window BY <3>5, <4>1, <4>3 DEF Passed
      <4>4. QED BY <3>4, <3>8, <4>2, <4>3
    <3>9. ASSUME barrier' = "DEPENDENCY_UNPROVEN" PROVE \E b \in Calls : b < next' /\ Bad(b)
      <4>1. \/ barrier = "DEPENDENCY_UNPROVEN"
            \/ \E d \in Calls : Answered(d) /\ invocation[d] = "FAILED"
        BY <3>2, <3>9 DEF WindowBarrier
      <4>2. CASE barrier = "DEPENDENCY_UNPROVEN" BY <2>1, <3>4, <3>6, <4>2 DEF Scheduled
      <4>3. CASE \E d \in Calls : Answered(d) /\ invocation[d] = "FAILED"
        BY <3>4, <4>3 DEF Bad, Answered
      <4>4. QED BY <4>1, <4>2, <4>3
    <3>10. Scheduled' BY <1>2, <3>7, <3>8, <3>9 DEF Scheduled
    <3>11. QED BY <2>2, <2>4, <3>10 DEF Barriers, Opened
  <2>5. QED BY <2>1, <2>3, <2>4
<1>11. QED BY <1>6, <1>7, <1>8, <1>9, <1>10

-----------------------------------------------------------------------------
(***************************************************************************)
(* Windows: every batch over the same calls cuts the same windows, as long *)
(* as no outcome is unknown, so that a call started in one batch is in the *)
(* same window in all of them.                                             *)
(***************************************************************************)
\* Where a window may begin: the least set with the first call and with whatever
\* follows a window of a member.
CutSets ==
    {S \in SUBSET (1 .. N + 1) :
        /\ 1 \in S
        /\ \A first \in Calls : \A last \in first .. N :
             first \in S /\ IsWindow(first, last) => last + 1 \in S}

Cuts == {k \in 1 .. N + 1 : \A S \in CutSets : k \in S}

\* The calls of a window that begins at a cut.
WindowOf(first, last) == first \in Cuts /\ last \in first .. N /\ IsWindow(first, last)

\* A started call was reached by passing all calls before its window.
StartedIn(c) ==
    Started(c) => \E first, last \in Calls :
        /\ WindowOf(first, last) /\ c \in first .. last
        /\ \A b \in Calls : b < first => Passed(b)

Driven == phase \in {"schedule", "window"}

Windows ==
    /\ \A c \in Calls : StartedIn(c)
    /\ Driven /\ barrier # "OUTCOME_UNKNOWN" => next \in Cuts
    /\ Driven /\ barrier = "OUTCOME_UNKNOWN" => \A c \in Calls : c >= next => ~Started(c)
    /\ phase = "window" =>
         /\ barrier # "OUTCOME_UNKNOWN"
         /\ \E last \in Calls : WindowOf(next, last) /\ window = next .. last

\* The first call is a cut, and what follows a window that begins at one.
LEMMA CutsClosed ==
  /\ 1 \in Cuts /\ Cuts \in SUBSET (1 .. N + 1)
  /\ \A first \in Calls : \A last \in first .. N :
       first \in Cuts /\ IsWindow(first, last) => last + 1 \in Cuts
<1>1. 1 \in 1 .. N + 1 BY CallsAssumption
<1>2. 1 \in Cuts BY <1>1 DEF Cuts, CutSets
<1>3. ASSUME NEW first \in Calls, NEW last \in first .. N, first \in Cuts, IsWindow(first, last)
      PROVE  last + 1 \in Cuts
  <2>1. last + 1 \in 1 .. N + 1 BY CallsAssumption DEF Calls
  <2>2. ASSUME NEW S \in CutSets PROVE last + 1 \in S
    <3>1. first \in S BY <1>3 DEF Cuts
    <3>2. QED BY <1>3, <3>1 DEF CutSets
  <2>3. QED BY <2>1, <2>2 DEF Cuts
<1>4. Cuts \in SUBSET (1 .. N + 1) BY DEF Cuts
<1>5. QED BY <1>2, <1>3, <1>4

\* A call begins at most one window.
LEMMA WindowUnique ==
  ASSUME NEW first \in Calls, NEW a \in first .. N, NEW b \in first .. N,
         IsWindow(first, a), IsWindow(first, b)
  PROVE  a = b
<1> SUFFICES ASSUME NEW l \in first .. N, NEW m \in first .. N, l < m,
                    IsWindow(first, l), IsWindow(first, m)
             PROVE  FALSE
  BY CallsAssumption DEF Calls
<1>1. first \in Int /\ N \in Int /\ l \in Int /\ m \in Int /\ MaxConcurrency \in Int
  BY CallsAssumption, WindowsAssumption DEF Calls
<1>2. MayShare(first, m) BY <1>1 DEF IsWindow
<1>3. MayShare(first, l + 1) BY <1>1, <1>2 DEF MayShare
<1>4. QED BY <1>1, <1>3 DEF IsWindow

\* No window that begins at a cut reaches over the next one.
LEMMA CutsApart ==
  ASSUME NEW f \in Cuts, NEW g \in Cuts, f < g, NEW l \in f .. N, IsWindow(f, l)
  PROVE  l < g
<1> DEFINE Apart(h) == \A k \in Cuts : k < h =>
                         \A m \in k .. N : IsWindow(k, m) => m < h
           Clear(h) == {k \in Cuts : k <= h \/ \A m \in h .. N : IsWindow(h, m) => m < k}
           Level == {h \in Cuts : Apart(h)}
<1>1. /\ Cuts \in SUBSET (1 .. N + 1) /\ 1 \in Cuts /\ Calls = 1 .. N /\ N \in Nat
      /\ \A k \in Cuts : k \in Int
      /\ \A k \in Cuts, m \in Int : m \in k .. N => k \in Calls /\ m \in Calls
  <2>1. Cuts \in SUBSET (1 .. N + 1) /\ 1 \in Cuts /\ Calls = 1 .. N /\ N \in Nat
    BY CutsClosed, CallsAssumption DEF Calls
  <2>2. \A k \in Cuts : k \in Int /\ 1 <= k BY <2>1
  <2>3. QED BY <2>1, <2>2
\* A cut no earlier window reaches over: every cut is before it or after its window.
<1>2. ASSUME NEW h \in Cuts, Apart(h) PROVE Cuts \subseteq Clear(h)
  <2>1. ASSUME NEW k \in Calls, NEW m \in k .. N, k \in Clear(h), IsWindow(k, m)
        PROVE  m + 1 \in Clear(h)
    <3>1. m + 1 \in Cuts BY <2>1, CutsClosed
    <3>2. k \in Cuts /\ k \in Int /\ m \in Int /\ h \in Int /\ k <= m BY <1>1, <2>1
    <3>3. CASE k < h
      <4>1. m < h BY <1>2, <2>1, <3>2, <3>3
      <4>2. QED BY <3>1, <3>2, <4>1
    <3>4. CASE k = h
      <4>1. \A n \in h .. N : IsWindow(h, n) => n = m BY <2>1, <3>4, WindowUnique
      <4>2. QED BY <3>1, <3>2, <4>1
    <3>5. CASE h < k
      <4>1. \A n \in h .. N : IsWindow(h, n) => n < k BY <2>1, <3>2, <3>5
      <4>2. \A n \in h .. N : n \in Int OBVIOUS
      <4>3. \A n \in h .. N : IsWindow(h, n) => n < m + 1 BY <3>2, <4>1, <4>2
      <4>4. QED BY <3>1, <4>3
    <3>6. QED BY <3>2, <3>3, <3>4, <3>5
  <2>2. 1 \in Clear(h) BY <1>1
  <2>3. Clear(h) \in CutSets BY <1>1, <2>1, <2>2 DEF CutSets
  <2>4. QED BY <2>3 DEF Cuts
\* So what follows its window is such a cut again.
<1>3. ASSUME NEW h \in Calls, NEW n \in h .. N, h \in Level, IsWindow(h, n) PROVE n + 1 \in Level
  <2>1. n + 1 \in Cuts /\ h \in Int /\ n \in Int /\ h <= n BY <1>1, <1>3, CutsClosed
  <2>2. ASSUME NEW k \in Cuts, k < n + 1, NEW m \in k .. N, IsWindow(k, m) PROVE m < n + 1
    <3>1. k \in Int /\ m \in Int BY <1>1
    <3>2. k \in Clear(h) BY <1>2, <1>3
    <3>3. k <= h BY <1>3, <2>1, <2>2, <3>1, <3>2
    <3>4. CASE k < h
      <4>1. m < h BY <1>3, <2>2, <3>4
      <4>2. QED BY <2>1, <3>1, <4>1
    <3>5. CASE k = h
      <4>1. m = n BY <1>3, <2>2, <3>5, WindowUnique
      <4>2. QED BY <2>1, <4>1
    <3>6. QED BY <2>1, <3>1, <3>3, <3>4, <3>5
  <2>3. QED BY <2>1, <2>2
<1>4. 1 \in Level
  <2>1. \A k \in Cuts : ~(k < 1) BY <1>1
  <2>2. QED BY <1>1, <2>1
<1>5. Level \in CutSets BY <1>1, <1>3, <1>4 DEF CutSets
<1>6. g \in Level BY <1>5 DEF Cuts
<1>7. QED BY <1>6

\* As long as the calls are the same, so are the windows.
LEMMA CutsStay ==
  ASSUME UNCHANGED kind
  PROVE  Cuts' = Cuts /\ \A f, l \in Calls : WindowOf(f, l)' <=> WindowOf(f, l)
<1>1. \A f, l \in Int : IsWindow(f, l)' <=> IsWindow(f, l) BY DEF IsWindow, MayShare
<1>2. \A first \in Calls, last \in Int : first \in Int BY DEF Calls
<1>3. CutSets' = CutSets BY <1>1, <1>2 DEF CutSets
<1>4. Cuts' = Cuts BY <1>3 DEF Cuts
<1>5. QED BY <1>1, <1>2, <1>4 DEF WindowOf, Calls

\* Nothing is known of windows before the first batch.
LEMMA InitWindows == Init => Windows
  BY DEF Init, Windows, StartedIn, Started, Driven, Idle

\* A call after the open window was not started if the window holds one that is not
\* passed: its own window would have had to begin after that one.
LEMMA NotBeyond ==
  ASSUME TypeOK, Windows, phase = "window", NEW b \in window, ~Passed(b),
         NEW c \in Calls, c >= next, c \notin window
  PROVE  ~Started(c)
<1> SUFFICES ASSUME Started(c) PROVE FALSE
  OBVIOUS
<1>1. PICK first, last \in Calls : /\ WindowOf(first, last) /\ c \in first .. last
                                   /\ \A d \in Calls : d < first => Passed(d)
  BY DEF Windows, StartedIn
<1>2. PICK end \in Calls : WindowOf(next, end) /\ window = next .. end
  BY DEF Windows
<1>3. b \in Calls BY DEF TypeOK
<1>4. /\ b \in Int /\ c \in Int /\ first \in Int /\ last \in Int /\ next \in Int /\ end \in Int
      /\ next <= b /\ b <= end /\ end < c /\ first <= c /\ c <= last
  BY <1>1, <1>2, <1>3, CallInInterval DEF TypeOK
<1>5. first <= b BY <1>1, <1>3, <1>4
<1>6. CASE first = next BY <1>1, <1>2, <1>4, <1>6, WindowUnique DEF WindowOf
<1>7. CASE first < next
  <2>1. last < next BY <1>1, <1>2, <1>7, CutsApart DEF WindowOf
  <2>2. QED BY <1>4, <2>1
<1>8. CASE next < first
  <2>1. end < first BY <1>1, <1>2, <1>8, CutsApart DEF WindowOf
  <2>2. QED BY <1>4, <1>5, <2>1
<1>9. QED BY <1>4, <1>6, <1>7, <1>8

\* A worker opens no window and passes no call.
LEMMA WorkerWindows ==
  ASSUME NEW c \in Calls, TypeOK, CallsOK, Stage, Barriers, Windows, Worker(c)
  PROVE  Windows'
<1>1. UNCHANGED <<kind, phase, next, window, barrier>> BY WorkerStays
<1>2. /\ Cuts' = Cuts
      /\ \A first, last \in Calls : WindowOf(first, last)' <=> WindowOf(first, last)
  BY <1>1, CutsStay
<1>3. phase = "window" BY WorkerStays DEF Stage
<1>4. \A d \in Calls : (Passed(d) => Passed(d)') /\ (Started(d)' => Started(d)) BY PassedStays
<1>5. ASSUME NEW d \in Calls PROVE StartedIn(d)'
  BY <1>2, <1>4 DEF Windows, StartedIn
<1>6. barrier # "OUTCOME_UNKNOWN" BY <1>3 DEF Windows
<1>7. \E last \in Calls : WindowOf(next, last)' /\ window = next .. last
  <2>1. PICK last \in Calls : WindowOf(next, last) /\ window = next .. last
    BY <1>3 DEF Windows
  <2>2. WindowOf(next, last)' BY <1>1, <1>2, <2>1 DEF WindowOf, IsWindow, MayShare
  <2>3. QED BY <2>1, <2>2
<1>8. next \in Cuts BY <1>3, <1>6 DEF Windows, Driven
<1>9. QED BY <1>1, <1>2, <1>5, <1>6, <1>7, <1>8 DEF Windows, Driven, WindowOf, IsWindow, MayShare

\* Decisions, the Run and crashes keep the windows.
LEMMA BesideWindows ==
  ASSUME TypeOK, Windows, BesideStep
  PROVE  Windows'
<1>1. UNCHANGED <<kind, invocation, answer>> BY BesideStays
<1>2. /\ Cuts' = Cuts
      /\ \A first, last \in Calls : WindowOf(first, last)' <=> WindowOf(first, last)
  BY <1>1, CutsStay
<1>3. \A d \in Calls : Passed(d) <=> Passed(d)'
  BY <1>1 DEF Bad, Passed, Rejected
<1>4. \A d \in Calls : Started(d)' => Started(d)
  BY <1>1, BesideStays DEF Started, Idle
<1>5. ASSUME NEW d \in Calls PROVE StartedIn(d)'
  BY <1>2, <1>3, <1>4 DEF Windows, StartedIn
<1>6. CASE phase' \in {"idle", "resume"} BY <1>5, <1>6 DEF Windows, Driven
<1>7. CASE UNCHANGED <<pc, next, window, barrier, phase>>
  <2>1. phase = "window" => \E last \in Calls : WindowOf(next, last)' /\ window = next .. last
    BY <1>1, <1>2, <1>7 DEF Windows, WindowOf, IsWindow, MayShare
  <2>2. QED
    BY <1>2, <1>4, <1>5, <1>7, <2>1 DEF Windows, Driven, WindowOf, IsWindow, MayShare
<1>8. QED BY <1>6, <1>7, BesideStays

\* The batch keeps the windows: it goes from cut to cut, until an outcome is unknown.
LEMMA BatchWindows ==
  ASSUME TypeOK, CallsOK, Stage, Barriers, Windows,
         Drive \/ Pass \/ StopAborted \/ OpenWindow \/ Complete \/ Interpret
  PROVE  Windows'
<1>1. UNCHANGED <<kind, invocation, answer>> BY BatchStays DEF durable
<1>2. /\ Cuts' = Cuts
      /\ \A first, last \in Calls : WindowOf(first, last)' <=> WindowOf(first, last)
  BY <1>1, CutsStay
<1>3. \A d \in Calls : Passed(d) <=> Passed(d)'
  BY <1>1 DEF Bad, Passed, Rejected
<1>4. ASSUME \A d \in Calls : Started(d)' => Started(d) PROVE \A d \in Calls : StartedIn(d)'
  BY <1>2, <1>3, <1>4 DEF Windows, StartedIn
<1>5. CASE Drive
  <2>1. next' \in Cuts /\ barrier' = "NONE" /\ phase' # "window" /\ pc' = pc
    BY <1>5, CutsClosed DEF Drive
  <2>2. QED BY <1>1, <1>2, <1>4, <2>1 DEF Windows, Driven, Started
<1>6. CASE Pass
  <2>1. next \in Calls BY <1>6, CallsAssumption DEF Pass, Calls, TypeOK
  <2>2. phase = "schedule" /\ phase' = "schedule" /\ next' = next + 1 /\ pc' = pc
    BY <1>6 DEF Pass
  <2>3. barrier' = "OUTCOME_UNKNOWN" <=> barrier = "OUTCOME_UNKNOWN" BY <1>6 DEF Pass
  <2>4. \A d \in Calls : Started(d)' => Started(d) BY <1>1, <2>2 DEF Started
  <2>5. CASE barrier = "OUTCOME_UNKNOWN"
    <3>1. \A d \in Calls : d >= next + 1 => d >= next BY <2>1, CallInInterval
    <3>2. QED BY <1>4, <2>2, <2>3, <2>4, <2>5, <3>1 DEF Windows, Driven
  <2>6. CASE barrier # "OUTCOME_UNKNOWN"
    <3>1. kind[next] # "PARALLEL_SAFE"
      BY <1>6, <2>6 DEF Pass, NotExecuted, Dispatchable, Independent
    <3>2. next \in next .. next + 1 /\ next \in next .. N BY <2>1, CallsAssumption DEF Calls
    <3>3. IsWindow(next, next) BY <2>1, <3>1, <3>2, CallInInterval DEF IsWindow, MayShare
    <3>4. next \in Cuts BY <2>2, <2>6 DEF Windows, Driven
    <3>5. next + 1 \in Cuts BY <2>1, <3>2, <3>3, <3>4, CutsClosed
    <3>6. QED BY <1>2, <1>4, <2>2, <2>3, <2>4, <2>6, <3>5 DEF Windows, Driven
  <2>7. QED BY <2>5, <2>6
<1>7. CASE StopAborted \/ Complete
  <2>1. phase' = "settle" /\ pc' = pc BY <1>7 DEF StopAborted, Complete
  <2>2. QED BY <1>1, <1>4, <2>1 DEF Windows, Driven, Started
<1>8. CASE OpenWindow
  <2>1. next \in Calls BY <1>8, CallsAssumption DEF OpenWindow, Calls, TypeOK
  <2>2. PICK last \in next .. N : IsWindow(next, last) /\ window' = next .. last
    BY <1>8 DEF OpenWindow
  <2>3. last \in Calls BY <2>1, <2>2, CallsAssumption DEF Calls
  <2>4. /\ phase = "schedule" /\ phase' = "window" /\ barrier # "OUTCOME_UNKNOWN"
        /\ UNCHANGED <<next, barrier>>
        /\ pc' = [d \in Calls |-> IF d \in window' THEN "find" ELSE "idle"]
    BY <1>8, <2>1 DEF OpenWindow, NotExecuted
  <2>5. next \in Cuts /\ \A d \in Calls : d < next => Passed(d)
    BY <2>4 DEF Windows, Driven, Barriers, Scheduled
  <2>6. WindowOf(next, last) BY <2>2, <2>5 DEF WindowOf
  <2>7. ASSUME NEW d \in Calls PROVE StartedIn(d)'
    <3>1. CASE d \in next .. last
      BY <1>2, <1>3, <2>1, <2>3, <2>5, <2>6, <3>1 DEF StartedIn
    <3>2. CASE d \notin next .. last
      <4>1. Started(d)' => Started(d) BY <1>1, <2>2, <2>4, <3>2 DEF Started
      <4>2. QED BY <1>2, <1>3, <4>1 DEF Windows, StartedIn
    <3>3. QED BY <3>1, <3>2
  <2>8. WindowOf(next, last)' BY <1>2, <2>1, <2>3, <2>4, <2>6 DEF WindowOf, IsWindow, MayShare
  <2>9. QED BY <1>2, <2>2, <2>3, <2>4, <2>5, <2>7, <2>8 DEF Windows, Driven, WindowOf, IsWindow, MayShare
<1>9. CASE Interpret
  <2>1. phase = "window" /\ phase' \in {"schedule", "settle"} /\ pc' = Idle
    BY <1>9 DEF Interpret
  <2>2. \A d \in Calls : Started(d)' => Started(d) BY <1>1, <2>1 DEF Started, Idle
  <2>3. CASE phase' = "settle" BY <1>4, <2>2, <2>3 DEF Windows, Driven
  <2>4. CASE phase' = "schedule"
    <3>1. PICK last \in Calls : WindowOf(next, last) /\ window = next .. last
      BY <2>1 DEF Windows
    <3>2. barrier' = WindowBarrier /\ next' = next + Cardinality(window)
      BY <1>9, <2>4 DEF Interpret
    <3>3. next \in Calls /\ next \in Int /\ last \in Int /\ next <= last /\ last \in next .. N
      BY <3>1, CallInInterval, CallsAssumption DEF WindowOf, Calls, TypeOK
    <3>4. next' = last + 1
      <4>1. Cardinality(window) = last - next + 1 BY <3>1, <3>3, FS_Interval
      <4>2. QED BY <3>2, <3>3, <4>1
    <3>5. next' \in Cuts BY <3>1, <3>3, <3>4, CutsClosed DEF WindowOf
    <3>6. ASSUME barrier' = "OUTCOME_UNKNOWN", NEW d \in Calls, d >= next' PROVE ~Started(d)
      <4>1. barrier # "OUTCOME_UNKNOWN" BY <2>1 DEF Windows
      <4>2. PICK b \in Calls : Answered(b) /\ answer[b] = "OUTCOME_UNKNOWN"
        BY <3>2, <3>6, <4>1 DEF WindowBarrier
      <4>3. b \in window /\ ~Passed(b) BY <4>2 DEF Answered, Passed
      <4>4. d >= next /\ d \notin window
        BY <3>1, <3>3, <3>4, <3>6, CallInInterval
      <4>5. QED BY <2>1, <4>3, <4>4, NotBeyond
    <3>7. QED BY <1>2, <1>4, <2>2, <2>4, <3>5, <3>6 DEF Windows, Driven
  <2>5. QED BY <2>1, <2>3, <2>4
<1>10. QED BY <1>5, <1>6, <1>7, <1>8, <1>9

-----------------------------------------------------------------------------
(***************************************************************************)
(* Reports: what the batch says of each call, what it came to, and what    *)
(* the Run waits for.                                                      *)
(***************************************************************************)
\* The item of a call says what its row does; no row goes with no execution.
Told(c) ==
    IF item[c] = "OBSERVATION" THEN invocation[c] \in Terminal
    ELSE item[c] # "NONE" /\ invocation[c] = "NONE"

\* The batch came to this result, or the Run did with it.
Came(outcome, status) == result = outcome \/ run = status

Items ==
    /\ Driven => result = "NONE" /\ \A c \in Calls : c < next => Told(c)
    /\ Came("COMPLETED", "SETTLED") => \A c \in Calls : Told(c)
    /\ result \in {"FAILED", "CANCELLED"} /\ phase \in {"idle", "resume"} => run \in Closed

Parks ==
    /\ Came("WAITING_APPROVAL", "WAITING_APPROVAL") =>
         Parked # {} /\ \A c \in Calls : invocation[c] # "RUNNING"
    /\ Came("EFFECT_UNCONFIRMED", "WAITING_RESOURCE") =>
         \E c \in Calls : invocation[c] = "RUNNING"

\* Before the first crash a row is RUNNING only under its worker, or in a turn that ends.
Uncrashed ==
    crashes = 0 =>
        /\ \A c \in Calls : invocation[c] = "RUNNING" =>
             \/ pc[c] \in {"execute", "handler", "settle", "THROWN", "ABORTED"}
             \/ result \in {"FAILED", "CANCELLED"}
        /\ \A c \in Calls : pc[c] \notin {"reconcile", "WAITING_RECONCILIATION"}
        /\ result # "EFFECT_UNCONFIRMED" /\ run # "WAITING_RESOURCE"

Reports == Items /\ Parks /\ Uncrashed

\* Before the first batch nothing is reported, waited for or left behind.
LEMMA InitReports == Init => Reports
<1>1. Init => \A c \in Calls : ~(c < next) BY CallInInterval DEF Init
<1>2. QED BY <1>1 DEF Init, Reports, Items, Parks, Uncrashed, Came, Driven, Idle

\* A worker writes to a row of the open window only, which is reported later.
LEMMA WorkerReports ==
  ASSUME NEW c \in Calls, TypeOK, Stage, Windows, Reports, Worker(c)
  PROVE  Reports'
<1>1. UNCHANGED <<run, phase, next, item, result, crashes>> BY WorkerStays
<1>2. phase = "window" /\ c \in window /\ run = "RUNNING" /\ result = "NONE"
  BY WorkerStays DEF Stage, Reports, Items, Driven
<1>3. PICK last \in Calls : window = next .. last BY <1>2 DEF Windows
<1>4. ASSUME NEW d \in Calls, d < next PROVE Told(d)'
  <2>1. d # c BY <1>2, <1>3, <1>4, CallInInterval DEF TypeOK
  <2>2. invocation'[d] = invocation[d] BY <2>1, OtherFields DEF Fields
  <2>3. QED BY <1>1, <1>2, <1>4, <2>2 DEF Reports, Items, Driven, Told
<1>5. Items' /\ Parks' BY <1>1, <1>2, <1>4 DEF Items, Parks, Came
<1>6. ASSUME crashes = 0
      PROVE  /\ pc'[c] \notin {"reconcile", "WAITING_RECONCILIATION"}
             /\ invocation'[c] = "RUNNING" =>
                  pc'[c] \in {"execute", "handler", "settle", "THROWN", "ABORTED"}
  <2>1. /\ pc[c] \notin {"reconcile", "WAITING_RECONCILIATION"}
        /\ invocation[c] = "RUNNING" =>
             pc[c] \in {"execute", "handler", "settle", "THROWN", "ABORTED"}
    BY <1>2, <1>6 DEF Reports, Uncrashed
  <2> USE <2>1 DEF TypeOK, Goto, Commit, durable
  <2>2. CASE Find(c) \/ FindAborted(c) \/ Create(c) \/ Lookup(c)
    BY <2>2 DEF Find, FindAborted, Create, Lookup
  <2>3. CASE Admit(c) BY <2>3 DEF Admit
  <2>4. CASE Ask(c) \/ ReadBudget(c) \/ Reserve(c) BY <2>4 DEF Ask, ReadBudget, Reserve
  <2>5. CASE Start(c) \/ Execute(c) \/ HandlerReturns(c)
    BY <2>5 DEF Start, Execute, HandlerReturns
  <2>6. CASE Reconcile(c) \/ Settle(c) \/ Throw(c) BY <2>6 DEF Reconcile, Settle, Throw
  <2>7. QED BY <2>2, <2>3, <2>4, <2>5, <2>6 DEF Worker
<1>7. \A d \in Calls : d # c => pc'[d] = pc[d] /\ invocation'[d] = invocation[d]
  BY OtherFields DEF Fields
<1>8. Uncrashed' BY <1>1, <1>2, <1>6, <1>7 DEF Reports, Uncrashed
<1>9. QED BY <1>5, <1>8 DEF Reports

\* The batch reports of a call what its row says: an answered one is finished, and one
\* that is passed over has none, whatever ran in the batches before.
LEMMA BatchItems ==
  ASSUME TypeOK, CallsOK, Stage, Barriers, Windows, Items,
         Drive \/ Pass \/ StopAborted \/ OpenWindow \/ Complete \/ Interpret
  PROVE  Items'
<1>1. UNCHANGED <<kind, invocation, run>> BY BatchStays DEF durable
<1>2. run = "RUNNING" /\ phase' # "idle"
  BY DEF Stage, Drive, Pass, StopAborted, OpenWindow, Complete, Interpret
<1>3. CASE Drive
  <2>1. /\ next' = 1 /\ phase' \in {"schedule", "settle"} /\ result' # "COMPLETED"
        /\ phase' = "schedule" => result' = "NONE"
    BY <1>3 DEF Drive
  <2>2. QED BY <1>1, <1>2, <2>1, CallInInterval DEF Items, Came, Driven
<1>4. CASE Pass
  <2>1. next \in Calls BY <1>4, CallsAssumption DEF Pass, Calls, TypeOK
  <2>2. /\ phase = "schedule" /\ phase' = "schedule" /\ next' = next + 1
        /\ item' = [item EXCEPT ![next] = NotExecuted(next)]
        /\ NotExecuted(next) # "NONE" /\ result' = result
    BY <1>4 DEF Pass
  <2>3. ~Started(next)
    <3>1. CASE barrier = "OUTCOME_UNKNOWN"
      BY <2>1, <2>2, <3>1, CallInInterval DEF Windows, Driven
    <3>2. CASE Rejected(next) BY <2>1, <3>2 DEF Barriers, StartedAfter
    <3>3. CASE barrier # "OUTCOME_UNKNOWN" /\ ~Rejected(next)
      <4>1. barrier = "DEPENDENCY_UNPROVEN" /\ kind[next] = "MAY_MUTATE"
        BY <2>1, <2>2, <3>3
        DEF NotExecuted, Dispatchable, Independent, Rejected, TypeOK, Kinds
      <4>2. \E b \in Calls : b < next /\ Bad(b) BY <2>2, <4>1 DEF Barriers, Scheduled
      <4>3. QED BY <2>1, <4>1, <4>2 DEF Barriers, StartedAfter, Good, Bad
    <3>4. QED BY <3>1, <3>2, <3>3
  <2>4. ASSUME NEW d \in Calls, d < next + 1 PROVE Told(d)'
    <3>1. CASE d = next
      <4>1. item'[d] \in {"REJECTED", "SKIPPED"}
        BY <2>1, <2>2, <3>1 DEF NotExecuted, TypeOK
      <4>2. QED BY <1>1, <2>3, <3>1, <4>1 DEF Told, Started
    <3>2. CASE d # next
      <4>1. d < next BY <2>1, <2>4, <3>2, CallInInterval
      <4>2. item'[d] = item[d] BY <2>1, <2>2, <3>2 DEF TypeOK
      <4>3. QED BY <1>1, <2>2, <4>1, <4>2 DEF Items, Driven, Told
    <3>3. QED BY <3>1, <3>2
  <2>5. QED BY <1>1, <1>2, <2>2, <2>4 DEF Items, Came, Driven
<1>5. CASE StopAborted
  BY <1>1, <1>2, <1>5 DEF StopAborted, Items, Driven, Came
<1>6. CASE OpenWindow
  BY <1>1, <1>2, <1>6 DEF OpenWindow, Items, Driven, Came, Told
<1>7. CASE Complete
  <2>1. \A c \in Calls : c < next
    <3>1. next > N /\ next \in Int /\ N \in Int BY <1>7, CallsAssumption DEF Complete, TypeOK
    <3>2. \A c \in Calls : c \in Int /\ c <= N BY CallsAssumption DEF Calls
    <3>3. QED BY <3>1, <3>2
  <2>2. phase = "schedule" /\ phase' = "settle" /\ item' = item /\ result' = "COMPLETED"
    BY <1>7 DEF Complete, batch
  <2>3. QED BY <1>1, <2>1, <2>2 DEF Items, Driven, Told
<1>8. CASE Interpret
  <2>1. phase = "window" /\ phase' \in {"schedule", "settle"} BY <1>8 DEF Interpret
  <2>2. CASE phase' = "settle"
    <3>1. result' # "COMPLETED" BY <1>8 DEF Interpret, WindowResult
    <3>2. QED BY <1>1, <1>2, <2>2, <3>1 DEF Items, Driven, Came
  <2>3. CASE phase' = "schedule"
    <3>1. /\ \A c \in window : pc[c] = "DONE"
          /\ item' = WindowItems /\ result' = "NONE"
          /\ next' = next + Cardinality(window)
      BY <1>8, <2>3 DEF Interpret, WindowResult, Ending
    <3>2. PICK last \in Calls : next <= last /\ window = next .. last
      BY <2>1 DEF Barriers, Opened
    <3>3. next' = last + 1 /\ next \in Int /\ last \in Int
      <4>1. last \in Nat /\ next \in Nat BY <3>2, CallInInterval DEF TypeOK
      <4>2. Cardinality(window) = last - next + 1 BY <3>2, <4>1, FS_Interval
      <4>3. QED BY <3>1, <4>1, <4>2
    <3>4. ASSUME NEW d \in Calls, d < next' PROVE Told(d)'
      <4>1. CASE d \in window
        <5>1. item'[d] = "OBSERVATION" BY <3>1, <4>1 DEF WindowItems, Answered
        <5>2. invocation[d] \in Terminal BY <3>1, <4>1 DEF CallsOK, CallOK, RowAt
        <5>3. QED BY <1>1, <5>1, <5>2 DEF Told
      <4>2. CASE d \notin window
        <5>1. d < next BY <3>2, <3>3, <3>4, <4>2, CallInInterval
        <5>2. item'[d] = item[d] BY <3>1, <4>2 DEF WindowItems, Answered
        <5>3. QED BY <1>1, <2>1, <5>1, <5>2 DEF Items, Driven, Told
      <4>3. QED BY <4>1, <4>2
    <3>5. QED BY <1>1, <1>2, <2>3, <3>1, <3>4 DEF Items, Came
  <2>4. QED BY <2>1, <2>2, <2>3
<1>9. QED BY <1>3, <1>4, <1>5, <1>6, <1>7, <1>8

\* The batch parks on a call of the window it has just closed: those before it are
\* reported, and a call after it was never started.
LEMMA BatchParks ==
  ASSUME TypeOK, CallsOK, Stage, Barriers, Windows, Reports,
         Drive \/ Pass \/ StopAborted \/ OpenWindow \/ Complete \/ Interpret
  PROVE  Parks'
<1>1. UNCHANGED <<kind, invocation, run>> BY BatchStays DEF durable
<1>2. run = "RUNNING"
  BY DEF Stage, Drive, Pass, StopAborted, OpenWindow, Complete, Interpret
<1>3. CASE Drive \/ Pass \/ StopAborted \/ OpenWindow \/ Complete
  <2>1. \/ result' = result
        \/ result' \notin {"WAITING_APPROVAL", "EFFECT_UNCONFIRMED"}
    BY <1>3 DEF Drive, Pass, StopAborted, OpenWindow, Complete
  <2>2. QED BY <1>1, <1>2, <2>1 DEF Reports, Parks, Came, Parked
<1>4. CASE Interpret
  <2>1. phase = "window" /\ \A c \in window : c \in Calls /\ pc[c] \in Ended
    BY <1>4 DEF Interpret, TypeOK
  <2>2. ASSUME result' = "EFFECT_UNCONFIRMED" PROVE \E c \in Calls : invocation[c] = "RUNNING"
    <3>1. PICK c \in window : pc[c] = "WAITING_RECONCILIATION"
      BY <1>4, <2>2 DEF Interpret, WindowResult, Ending
    <3>2. QED BY <2>1, <3>1 DEF CallsOK, CallOK, RowAt
  <2>3. ASSUME result' = "WAITING_APPROVAL"
        PROVE  Parked # {} /\ \A c \in Calls : invocation[c] # "RUNNING"
    <3>1. /\ \E b \in window : pc[b] = "WAITING_APPROVAL"
          /\ \A c \in window : pc[c] \notin {"THROWN", "ABORTED", "WAITING_RECONCILIATION"}
      BY <1>4, <2>3 DEF Interpret, WindowResult, Ending
    <3>2. PICK b \in window : pc[b] = "WAITING_APPROVAL" BY <3>1
    <3>3. b \in Calls /\ invocation[b] = "WAITING_APPROVAL"
      BY <2>1, <3>2 DEF CallsOK, CallOK, RowAt
    <3>4. ~Passed(b)
      <4>1. Started(b) BY <3>3 DEF Started
      <4>2. QED
        BY <3>3, <4>1 DEF Passed, Terminal, Barriers, StartedAfter, Good, Bad
    <3>5. ASSUME NEW c \in Calls PROVE invocation[c] # "RUNNING"
      <4>1. CASE c \in window
        <5>1. pc[c] \in {"DONE", "OVER_BUDGET", "WAITING_APPROVAL"}
          BY <2>1, <3>1, <4>1 DEF Ended, Outcomes
        <5>2. QED BY <5>1 DEF CallsOK, CallOK, RowAt, Terminal
      <4>2. CASE c < next
        BY <2>1, <4>2 DEF Reports, Items, Driven, Told, Terminal
      <4>3. CASE c >= next /\ c \notin window
        BY <2>1, <3>4, <4>3, NotBeyond DEF Started
      <4>4. QED BY <4>1, <4>2, <4>3, CallInInterval DEF TypeOK
    <3>6. QED BY <3>3, <3>5 DEF Parked
  <2>4. QED BY <1>1, <1>2, <2>2, <2>3 DEF Parks, Came, Parked
<1>5. QED BY <1>3, <1>4

\* Without a crash no batch begins over a row somebody left RUNNING.
LEMMA BatchUncrashed ==
  ASSUME TypeOK, Stage, Reports,
         Drive \/ Pass \/ StopAborted \/ OpenWindow \/ Complete \/ Interpret
  PROVE  Uncrashed'
<1>1. UNCHANGED <<invocation, run, crashes>> BY BatchStays DEF durable
<1>2. run = "RUNNING"
  BY DEF Stage, Drive, Pass, StopAborted, OpenWindow, Complete, Interpret
<1> SUFFICES ASSUME crashes = 0 PROVE Uncrashed'
  BY <1>1 DEF Uncrashed
<1>3. CASE Drive
  <2>1. phase = "idle" /\ pc' = pc /\ result' # "EFFECT_UNCONFIRMED" BY <1>3 DEF Drive
  <2>2. result \notin {"FAILED", "CANCELLED"}
    BY <1>2, <2>1 DEF Reports, Items, Closed
  <2>3. \A c \in Calls : pc[c] = "idle" BY <2>1 DEF Stage
  <2>4. \A c \in Calls : invocation[c] # "RUNNING" BY <2>2, <2>3 DEF Reports, Uncrashed
  <2>5. QED BY <1>1, <1>2, <2>1, <2>3, <2>4 DEF Uncrashed
<1>4. CASE Pass \/ StopAborted \/ Complete \/ OpenWindow
  <2>1. phase = "schedule" BY <1>4 DEF Pass, StopAborted, Complete, OpenWindow
  <2>2. result = "NONE" /\ \A c \in Calls : pc[c] = "idle"
    BY <2>1 DEF Stage, Reports, Items, Driven
  <2>3. \A c \in Calls : invocation[c] # "RUNNING" BY <2>2 DEF Reports, Uncrashed
  <2>4. \A c \in Calls : pc'[c] \in {"idle", "find"}
    BY <1>4, <2>2 DEF Pass, StopAborted, Complete, OpenWindow
  <2>5. result' # "EFFECT_UNCONFIRMED"
    BY <1>4, <2>2 DEF Pass, StopAborted, Complete, OpenWindow
  <2>6. QED BY <1>1, <1>2, <2>3, <2>4, <2>5 DEF Uncrashed
<1>5. CASE Interpret
  <2>1. /\ phase = "window" /\ pc' = Idle /\ \A c \in window : c \in Calls /\ pc[c] \in Ended
        /\ Ending("THROWN") => result' = "FAILED"
        /\ ~Ending("THROWN") => result' = WindowResult
    BY <1>5 DEF Interpret, TypeOK
  <2>2. result = "NONE" BY <2>1 DEF Reports, Items, Driven
  <2>3. ~Ending("WAITING_RECONCILIATION") BY <2>1 DEF Reports, Uncrashed, Ending
  <2>4. result' # "EFFECT_UNCONFIRMED" BY <2>1, <2>3 DEF WindowResult
  <2>5. ASSUME NEW c \in Calls, invocation[c] = "RUNNING" PROVE result' \in {"FAILED", "CANCELLED"}
    <3>1. pc[c] \in {"execute", "handler", "settle", "THROWN", "ABORTED"}
      BY <2>2, <2>5 DEF Reports, Uncrashed
    <3>2. c \in window BY <3>1 DEF Stage
    <3>3. pc[c] \in {"THROWN", "ABORTED"} BY <2>1, <3>1, <3>2 DEF Ended, Outcomes
    <3>4. QED BY <2>1, <3>2, <3>3 DEF Ending, WindowResult
  <2>6. QED BY <1>1, <1>2, <2>1, <2>4, <2>5 DEF Uncrashed, Idle
<1>6. QED BY <1>3, <1>4, <1>5

\* What the batch came to becomes the Run's status, and stays true while nobody drives.
LEMMA BesideReports ==
  ASSUME TypeOK, Stage, Reports, BesideStep
  PROVE  Reports'
<1> USE DEF Reports, Items, Parks, Uncrashed, Came, Driven, Parked, Told
<1>1. UNCHANGED <<kind, invocation>> BY BesideStays
<1>2. CASE Crash
  <2>1. /\ run \notin Closed /\ run' = run /\ phase' = "idle" /\ result' = "NONE"
        /\ crashes' # 0
    BY <1>2 DEF Crash, TypeOK
  <2>2. QED BY <1>1, <2>1 DEF Closed
<1>3. CASE SettleTurn
  <2>1. /\ phase = "settle" /\ phase' = "idle" /\ UNCHANGED <<next, item, result, pc, crashes>>
        /\ run' = "SETTLED" => result = "COMPLETED"
        /\ run' = "WAITING_APPROVAL" => result = "WAITING_APPROVAL"
        /\ run' = "WAITING_RESOURCE" => result = "EFFECT_UNCONFIRMED"
        /\ result \in {"FAILED", "CANCELLED"} => run' \in Closed
    BY <1>3 DEF SettleTurn, UnchangedButRun, batch, worker, Closed, TypeOK
  <2>2. QED BY <1>1, <2>1
<1>4. CASE ResumeApproval \/ EndIdle \/ ResumeReconciliation
  <2>1. /\ phase \in {"idle", "resume"} /\ phase' = "idle" /\ UNCHANGED <<next, item, result, pc, crashes>>
        /\ run' = "STOPPED" \/ (run' = "RUNNING" /\ run \notin Closed)
    BY <1>4
    DEF ResumeApproval, EndIdle, ResumeReconciliation, UnchangedButRun, batch, worker, Closed,
        Stage
  <2>2. QED BY <1>1, <2>1 DEF Closed
<1>5. CASE UNCHANGED <<run, phase, next, item, result, pc, crashes>>
  BY <1>1, <1>5
<1>6. CASE ResolveApproval
  <2>1. /\ phase = "idle" /\ phase' = "resume"
        /\ UNCHANGED <<run, next, item, result, pc, crashes>>
    BY <1>6 DEF ResolveApproval, UnchangedButRun, batch, worker
  <2>2. QED BY <1>1, <2>1
<1>7. QED
  BY <1>2, <1>3, <1>4, <1>5, <1>6
  DEF BesideStep, Expire, Abort, vars, UnchangedButRun, batch, worker

-----------------------------------------------------------------------------
(***************************************************************************)
(* Budget: the calls and the limit.                                        *)
(***************************************************************************)
\* What a batch asks of the budget.
Demand == Cardinality({c \in Calls : Dispatchable(c)})

\* A batch that is driven fits the budget, its reservations of before included.
Fits ==
    /\ phase \in {"schedule", "window"} \/ (\E c \in Calls : ledger[c] # "NONE") => Demand <= limit
    /\ phase \in {"schedule", "window"} /\ ~(Demand < limit) =>
         \A c \in Calls : ledger[c] = "RESERVED" => pc[c] \in {"start"} \cup Ended

\* So none of its calls is refused.
Affordable(c) ==
    /\ pc[c] = "reserve" => accounted[c] < limit
    /\ pc[c] = "settle" => verdict[c] # "BUDGET_EXCEEDED"
    /\ answer[c] # "BUDGET_EXCEEDED"

Budget == Fits /\ \A c \in Calls : Affordable(c)

\* All but the budget.
Inv == TypeOK /\ CallsOK /\ Stage /\ Barriers

\* Before the first batch nothing is accounted for.
LEMMA InitBudget == Init => Budget
<1> SUFFICES ASSUME Init PROVE Budget
  OBVIOUS
<1>1. Fits BY DEF Init, Fits
<1>2. \A c \in Calls : Affordable(c) BY DEF Init, Affordable, Idle
<1>3. QED BY <1>1, <1>2 DEF Budget

\* Only prepared calls are counted, so never more than the batch demands.
LEMMA CountedInDemand ==
  ASSUME TypeOK, CallsOK, Barriers
  PROVE  /\ Demand \in Nat /\ Accounted \in Nat /\ Accounted <= Demand
         /\ \A c \in Calls : Dispatchable(c) /\ ledger[c] = "NONE" => Accounted < Demand
         /\ Accounted = 0 => \A c \in Calls : ledger[c] # "RESERVED"
<1> DEFINE D == {c \in Calls : Dispatchable(c)}
           A == {c \in Calls : ledger[c] \in {"RESERVED", "IN_FLIGHT", "SETTLED", "CONSERVATIVE"}}
<1>1. IsFiniteSet(Calls) BY FS_Interval, CallsAssumption DEF Calls
<1>2. D \in SUBSET Calls /\ A \in SUBSET Calls OBVIOUS
<1>3. IsFiniteSet(D) /\ IsFiniteSet(A) BY <1>1, <1>2, FS_Subset
<1>4. A \in SUBSET D
  BY DEF CallsOK, CallOK, EntryAt, Barriers, StartedAfter, Started, Rejected, Dispatchable
<1>5. Demand = Cardinality(D) /\ Accounted = Cardinality(A) BY DEF Demand, Accounted
<1>6. Cardinality(D) \in Nat /\ Cardinality(A) \in Nat BY <1>3, FS_CardinalityType
<1>7. Cardinality(A) <= Cardinality(D) /\ (Cardinality(A) = Cardinality(D) => A = D)
  BY <1>3, <1>4, FS_Subset
<1>8. Cardinality(A) = 0 => A = {} BY <1>3, FS_EmptySet
<1>9. ASSUME NEW c \in Calls, Dispatchable(c), ledger[c] = "NONE" PROVE A # D
  BY <1>9
<1> HIDE DEF A, D
<1>10. \A c \in Calls : Dispatchable(c) /\ ledger[c] = "NONE" => Cardinality(A) < Cardinality(D)
  BY <1>6, <1>7, <1>9
<1>11. A = {} => \A c \in Calls : ledger[c] # "RESERVED" BY DEF A
<1>12. QED BY <1>5, <1>6, <1>7, <1>8, <1>10, <1>11

\* Every step keeps the budget: the preflight covers the reservations to come.
LEMMA BudgetKept ==
  ASSUME Inv, Budget, [Next]_vars
  PROVE  Budget'
<1> USE DEF Inv
<1>0. limit \in Nat BY DEF TypeOK
<1>1. ASSUME NEW c \in Calls, Worker(c) PROVE Budget'
  <2>1. phase = "window" /\ UNCHANGED <<kind, limit, phase>>
    BY <1>1, WorkerStays DEF Stage
  <2>2. Demand' = Demand BY <2>1 DEF Demand, Dispatchable
  <2>3. Demand <= limit /\ Demand \in Nat BY <2>1, CountedInDemand DEF Budget, Fits
  <2>4. \A d \in Calls : d # c => UNCHANGED <<ledger[d], pc[d], verdict[d], answer[d]>>
    BY <1>1, OtherFields DEF Fields
  <2>5. \A d \in Calls : d # c => accounted'[d] = accounted[d]
    BY <1>1
    DEF TypeOK, Worker, Find, FindAborted, Create, Lookup, Admit, Ask, ReadBudget, Reserve, Start,
        Execute, HandlerReturns, Reconcile, Settle, Throw
  <2>6. \A d \in Calls : d # c => Affordable(d)'
    BY <2>1, <2>4, <2>5 DEF Budget, Affordable
  <2>7. ~(Demand < limit)
         => (ledger'[c] = "RESERVED" => pc'[c] \in {"start"} \cup Ended)
    <3> SUFFICES ASSUME ~(Demand < limit)
                 PROVE  ledger'[c] = "RESERVED" => pc'[c] \in {"start"} \cup Ended
      OBVIOUS
    <3>1. ledger[c] = "RESERVED" => pc[c] = "start" BY <1>1, <2>1, WorkerStays DEF Budget, Fits
    <3>2. CASE Reserve(c) BY <3>1, <3>2 DEF Reserve, TypeOK, Goto
    <3>3. CASE Start(c) BY <3>3 DEF Start, TypeOK
    <3>4. CASE Settle(c) BY <3>4 DEF Settle, TypeOK, SettledEntry
    <3>5. CASE Throw(c) BY <3>5 DEF Throw, TypeOK, Goto, Ended
    <3>6. CASE Find(c) \/ FindAborted(c) \/ Create(c) \/ Lookup(c) \/ Admit(c) \/ Ask(c)
               \/ ReadBudget(c) \/ Execute(c) \/ HandlerReturns(c) \/ Reconcile(c)
      BY <3>1, <3>6
      DEF Find, FindAborted, Create, Lookup, Admit, Ask, ReadBudget, Execute, HandlerReturns,
          Reconcile, durable
    <3>7. QED BY <1>1, <3>2, <3>3, <3>4, <3>5, <3>6 DEF Worker
  <2>8. Fits' BY <2>1, <2>2, <2>3, <2>4, <2>7 DEF Budget, Fits
  <2>9. Affordable(c)'
    <3>1. Affordable(c) BY DEF Budget
    <3>2. CASE ReadBudget(c)
      <4>1. accounted'[c] = Accounted BY <3>2 DEF ReadBudget, TypeOK
      <4>2. Dispatchable(c) /\ ledger[c] \in {"NONE", "RESERVED"}
        BY <3>2
        DEF ReadBudget, CallsOK, CallOK, RowAt, EntryAt, Pending, Barriers, StartedAfter, Started,
            Rejected, Dispatchable
      <4>3. ledger[c] = "RESERVED" => Demand < limit
        BY <2>1, <3>2 DEF Budget, Fits, ReadBudget, Ended, Outcomes
      <4>4. Accounted < limit BY <1>0, <2>3, <4>2, <4>3, CountedInDemand
      <4>5. QED BY <2>1, <3>1, <3>2, <4>1, <4>4 DEF Affordable, ReadBudget, durable, Goto, TypeOK
    <3>3. CASE Reserve(c)
      BY <1>0, <2>1, <3>1, <3>3 DEF Affordable, Reserve, Goto, TypeOK
    <3>4. CASE Settle(c) BY <2>1, <3>1, <3>4 DEF Affordable, Settle, Goto, TypeOK
    <3>5. CASE Find(c) BY <2>1, <3>1, <3>5 DEF Affordable, Find, Goto, TypeOK, durable
    <3>6. CASE Lookup(c) \/ Admit(c)
      BY <2>1, <3>1, <3>6 DEF Affordable, Lookup, Admit, Goto, TypeOK, durable
    <3>7. CASE HandlerReturns(c) \/ Reconcile(c)
      BY <2>1, <3>1, <3>7 DEF Affordable, HandlerReturns, Reconcile, Goto, TypeOK, durable
    <3>8. CASE FindAborted(c) \/ Create(c) \/ Ask(c) \/ Start(c) \/ Execute(c) \/ Throw(c)
      BY <2>1, <3>1, <3>8
      DEF Affordable, FindAborted, Create, Ask, Start, Execute, Throw, Goto, TypeOK, durable
    <3>9. QED BY <1>1, <3>2, <3>3, <3>4, <3>5, <3>6, <3>7, <3>8 DEF Worker
  <2>10. QED BY <2>6, <2>8, <2>9 DEF Budget
<1>2. CASE Drive \/ Pass \/ StopAborted \/ OpenWindow \/ Complete \/ Interpret
  <2>1. UNCHANGED <<kind, limit, answer, ledger, accounted, verdict>>
    BY <1>2, BatchStays DEF durable
  <2>2. \A c \in Calls : pc'[c] \notin {"reserve", "settle"} \/ pc'[c] = pc[c]
    BY <1>2
    DEF Drive, Pass, StopAborted, OpenWindow, Complete, Interpret, UnchangedButBatch, Idle, TypeOK
  <2>3. \A c \in Calls : Affordable(c)' BY <2>1, <2>2 DEF Budget, Affordable
  <2>4. Demand' = Demand BY <2>1 DEF Demand, Dispatchable
  <2>5. CASE phase' = "settle" BY <2>1, <2>3, <2>4, <2>5 DEF Budget, Fits
  <2>6. CASE phase' # "settle"
    <3>1. CASE Drive
      <4>1. Accounted + Demand <= limit BY <1>0, <2>6, <3>1, CountedInDemand DEF Drive, Demand
      <4>2. QED BY <1>0, <2>1, <2>3, <2>4, <4>1, CountedInDemand DEF Fits, Budget
    <3>2. CASE Pass \/ OpenWindow
      <4>1. phase = "schedule" /\ Demand <= limit BY <3>2 DEF Pass, OpenWindow, Budget, Fits
      <4>2. \A c \in Calls : pc[c] = "idle" BY <4>1 DEF Stage
      <4>3. ~(Demand < limit) => \A c \in Calls : ledger[c] # "RESERVED"
        BY <4>1, <4>2 DEF Budget, Fits, Ended, Outcomes
      <4>4. QED BY <2>1, <2>3, <2>4, <4>1, <4>3 DEF Fits, Budget
    <3>3. CASE Interpret
      <4>1. phase = "window" /\ Demand <= limit BY <3>3 DEF Interpret, Budget, Fits
      <4>2. \A c \in window : pc[c] = "DONE" BY <2>6, <3>3 DEF Interpret, WindowResult
      <4>3. \A c \in Calls : ledger[c] = "RESERVED" => Demand < limit
        BY <4>1, <4>2 DEF Budget, Fits, Stage, Ended, Outcomes, CallsOK, CallOK, RowAt, EntryAt
      <4>4. QED BY <2>1, <2>3, <2>4, <4>1, <4>3 DEF Fits, Budget
    <3>4. QED BY <1>2, <2>6, <3>1, <3>2, <3>3 DEF StopAborted, Complete
  <2>7. QED BY <2>3, <2>5, <2>6 DEF Budget
<1>3. CASE BesideStep
  <2>1. UNCHANGED <<kind, limit, invocation, answer, verdict, accounted>>
    <3>1. limit' = limit
      BY <1>3
      DEF BesideStep, ResolveApproval, Expire, SettleTurn, ResumeApproval, EndIdle, ResumeReconciliation,
          Abort, Crash, UnchangedButRun, vars
    <3>2. QED BY <1>3, <3>1, BesideStays
  <2>2. Demand' = Demand BY <2>1 DEF Demand, Dispatchable
  <2>3. CASE Crash
    <3>1. phase' = "idle" /\ pc' = Idle BY <2>3 DEF Crash
    <3>2. (\E c \in Calls : ledger'[c] # "NONE") => \E c \in Calls : ledger[c] # "NONE"
      BY <2>3 DEF Crash
    <3>3. QED BY <2>1, <2>2, <3>1, <3>2 DEF Budget, Fits, Affordable, Idle
  <2>4. CASE UNCHANGED <<pc, ledger>> /\ phase' \in {phase, "idle", "resume"}
    BY <2>1, <2>2, <2>4 DEF Budget, Fits, Affordable
  <2>5. QED BY <1>3, <2>3, <2>4, BesideStays
<1>4. QED BY <1>1, <1>2, <1>3 DEF Next, Driver, BesideStep

-----------------------------------------------------------------------------
(***************************************************************************)
(* The theorems.                                                           *)
(***************************************************************************)
IInv == Inv /\ Budget /\ Windows /\ Reports

\* Every step keeps all layers.
LEMMA StepKeeps == IInv /\ [Next]_vars => IInv'
<1> SUFFICES ASSUME IInv, [Next]_vars PROVE IInv'
  OBVIOUS
<1>1. TypeOK' /\ CallsOK' /\ Stage' /\ Budget'
  BY TypesKept, CallsKept, StageKept, BudgetKept DEF IInv, Inv
<1>2. (\E d \in Calls : Worker(d)) => Barriers' /\ Windows' /\ Reports'
  BY WorkerBarriers, WorkerWindows, WorkerReports DEF IInv, Inv
<1>3. Drive \/ Pass \/ StopAborted \/ OpenWindow \/ Complete \/ Interpret
        => Barriers' /\ Windows' /\ Reports'
  BY BatchBarriers, BatchWindows, BatchItems, BatchParks, BatchUncrashed
  DEF IInv, Inv, Reports
<1>4. BesideStep => Barriers' /\ Windows' /\ Reports'
  BY BesideBarriers, BesideWindows, BesideReports DEF IInv, Inv
<1>5. Barriers' /\ Windows' /\ Reports'
  BY <1>2, <1>3, <1>4 DEF Next, Driver, BesideStep
<1>6. QED BY <1>1, <1>5 DEF IInv, Inv

\* IInv is invariant.
THEOREM Invariance == Spec => []IInv
<1>1. Init => IInv
  BY InitTypes, InitRest, InitBudget, InitWindows, InitReports DEF IInv, Inv
<1>2. QED BY <1>1, StepKeeps, PTL DEF Spec

\* A call is asked for once, and the answer stands.
THEOREM AskedOnce == Spec => DecisionsStand
<1>1. ASSUME IInv, [Next]_vars, NEW c \in Calls, approval[c] \in Granted \cup Refused
      PROVE approval'[c] = approval[c]
  <2>1. approval[c] \notin {"NONE", "PENDING"} BY <1>1 DEF Granted, Refused
  <2>2. CASE \E d \in Calls : Ask(d)
    <3>1. PICK d \in Calls : Ask(d) BY <2>2
    <3>2. approval[d] = "NONE"
      BY <1>1, <3>1 DEF IInv, Inv, CallsOK, CallOK, RowAt, ApprovalAt, Ask
    <3>3. QED BY <2>1, <3>1, <3>2 DEF Ask, IInv, Inv, TypeOK
  <2>3. CASE ResolveApproval \/ \E d \in Calls : Expire(d)
    BY <1>1, <2>1, <2>3 DEF ResolveApproval, Expire, IInv, Inv, TypeOK
  <2>4. CASE UNCHANGED approval \/ CancelPending
    BY <2>1, <2>4 DEF CancelPending
  <2>5. ASSUME NEW d \in Calls, Worker(d), ~Ask(d) PROVE UNCHANGED approval
    BY <2>5
    DEF Worker, Find, FindAborted, Create, Lookup, Admit, ReadBudget, Reserve, Start, Execute,
        HandlerReturns, Reconcile, Settle, Throw, durable
  <2>6. ASSUME Drive \/ Pass \/ StopAborted \/ OpenWindow \/ Complete \/ Interpret
        PROVE UNCHANGED approval
    BY <2>6, BatchStays DEF durable
  <2>7. ASSUME SettleTurn \/ ResumeApproval \/ EndIdle \/ ResumeReconciliation \/ Abort \/ Crash
               \/ UNCHANGED vars
        PROVE UNCHANGED approval \/ CancelPending
    BY <2>7
    DEF SettleTurn, ResumeApproval, EndIdle, ResumeReconciliation, Abort, Crash, vars
  <2>8. QED BY <1>1, <2>2, <2>3, <2>4, <2>5, <2>6, <2>7 DEF Next, Driver
<1>2. IInv /\ [Next]_vars
        => [\A c \in Calls : approval[c] \in Granted \cup Refused => approval'[c] = approval[c]]_vars
  BY <1>1
<1>3. QED BY <1>2, Invariance, PTL DEF Spec, DecisionsStand

\* TypeOK is an invariant.
THEOREM TypeCorrectness == Spec => []TypeOK
<1>1. IInv => TypeOK BY DEF IInv, Inv
<1>2. QED BY <1>1, Invariance, PTL

\* No call's handler is ever entered twice, whatever crashes and resumptions come.
THEOREM AtMostOnce == Spec => []HandlerRunsAtMostOnce
<1>1. IInv => HandlerRunsAtMostOnce
  BY DEF IInv, Inv, CallsOK, CallOK, EffectsAt, HandlerRunsAtMostOnce
<1>2. QED BY <1>1, Invariance, PTL

\* A call whose approval is pending, denied, expired or cancelled never ran.
THEOREM ApprovalGuards == Spec => []UnapprovedNeverRan
<1>1. IInv => UnapprovedNeverRan BY DEF IInv, Inv, CallsOK, CallOK, ApprovalAt, UnapprovedNeverRan
<1>2. QED BY <1>1, Invariance, PTL

\* A call that was started is accounted for, those approved once excepted.
THEOREM Accounting == Spec => []StartedIsAccounted
<1>1. IInv => StartedIsAccounted
  BY DEF IInv, Inv, CallsOK, CallOK, EntryAt, StartedIsAccounted, TypeOK
<1>2. QED BY <1>1, Invariance, PTL

\* Two calls one of which was started while the other was not passed share a window.
LEMMA SharedWindow ==
  ASSUME IInv, NEW b \in Calls, NEW c \in Calls, b < c, Started(c), ~Passed(b)
  PROVE  MayShare(b, c)
<1>1. PICK first, last \in Calls : /\ WindowOf(first, last) /\ c \in first .. last
                                   /\ \A d \in Calls : d < first => Passed(d)
  BY DEF IInv, Windows, StartedIn
<1>2. /\ b \in Int /\ c \in Int /\ first \in Int /\ last \in Int /\ MaxConcurrency \in Int
      /\ first <= c /\ c <= last /\ first <= b
  BY <1>1, CallInInterval, WindowsAssumption
<1>3. MayShare(first, last) BY <1>1, <1>2 DEF WindowOf, IsWindow
<1>4. Windowed /\ c < b + MaxConcurrency BY <1>2, <1>3 DEF MayShare
<1>5. \A d \in b .. c : d \in first .. last BY <1>2
<1>6. QED BY <1>3, <1>4, <1>5 DEF MayShare

\* A call whose handler was entered was started.
LEMMA RanIsStarted ==
  ASSUME IInv, NEW c \in Calls, effects[c] # 0
  PROVE  Started(c)
  BY DEF IInv, Inv, CallsOK, CallOK, EffectsAt, Pending, Started

\* No call ran past a failed call it may depend on, or out of the window of a call
\* whose outcome is unknown.
THEOREM BarrierTheorem == Spec => []BarrierHolds
<1>1. ASSUME IInv PROVE BarrierHolds
  <2>1. SUFFICES ASSUME NEW b \in Calls, NEW c \in Calls, b < c, effects[c] # 0
        PROVE /\ ~(Bad(b) /\ kind[c] = "MAY_MUTATE")
              /\ answer[b] = "OUTCOME_UNKNOWN" => MayShare(b, c)
    BY DEF BarrierHolds, Bad, Rejected
  <2>2. Started(c) BY <1>1, <2>1, RanIsStarted
  <2>3. ~(Bad(b) /\ kind[c] = "MAY_MUTATE")
    BY <1>1, <2>1, <2>2 DEF IInv, Inv, Barriers, StartedAfter, Good, Bad
  <2>4. answer[b] = "OUTCOME_UNKNOWN" => MayShare(b, c)
    BY <1>1, <2>1, <2>2, SharedWindow DEF Passed
  <2>5. QED BY <2>3, <2>4
<1>2. QED BY <1>1, Invariance, PTL

\* Calls that no window may hold together take effect in the order of the batch: the
\* first is finished, or never to be started, when the second one runs.
THEOREM InOrder == Spec => []EffectsInOrder
<1>1. ASSUME IInv PROVE EffectsInOrder
  <2>1. SUFFICES ASSUME NEW b \in Calls, NEW c \in Calls, b < c, effects[c] > 0,
                        ~MayShare(b, c)
        PROVE invocation[b] \in Terminal \cup {"NONE"}
    BY DEF EffectsInOrder
  <2>2. effects[c] # 0 BY <2>1
  <2>3. Passed(b) BY <1>1, <2>1, <2>2, RanIsStarted, SharedWindow
  <2>4. CASE invocation[b] \in Terminal BY <2>4
  <2>5. CASE invocation[b] \notin Terminal
    BY <1>1, <2>3, <2>5 DEF Passed, IInv, Inv, Barriers, StartedAfter, Started, Good, Bad
  <2>6. QED BY <2>4, <2>5
<1>2. QED BY <1>1, Invariance, PTL

\* No call of a batch that passed its preflight is refused for the budget, and what is
\* accounted for stays within the limit.
THEOREM PreflightTheorem == Spec => []PreflightSuffices
<1>1. ASSUME IInv PROVE PreflightSuffices
  <2>1. \A c \in Calls : answer[c] # "BUDGET_EXCEEDED" BY <1>1 DEF IInv, Budget, Affordable
  <2>2. limit \in Nat /\ Demand \in Nat /\ Accounted \in Nat /\ Accounted <= Demand
    BY <1>1, CountedInDemand DEF IInv, Inv, TypeOK
  <2>3. CASE \E c \in Calls : ledger[c] # "NONE"
    BY <1>1, <2>1, <2>2, <2>3 DEF PreflightSuffices, IInv, Budget, Fits
  <2>4. CASE \A c \in Calls : ledger[c] = "NONE"
    <3>1. {c \in Calls : ledger[c] \in {"RESERVED", "IN_FLIGHT", "SETTLED", "CONSERVATIVE"}} = {}
      BY <2>4
    <3>2. Accounted = 0 BY <3>1, FS_EmptySet DEF Accounted
    <3>3. QED BY <2>1, <2>2, <3>2 DEF PreflightSuffices
  <2>5. QED BY <2>3, <2>4
<1>2. QED BY <1>1, Invariance, PTL

\* A settled turn holds no reservation: every entry is released, settled or written off.
THEOREM SettledReleases == Spec => []SettledTurnReleases
<1>1. IInv => SettledTurnReleases
  BY DEF IInv, Inv, CallsOK, CallOK, EntryAt, Reports, Items, Came, Told, SettledTurnReleases
<1>2. QED BY <1>1, Invariance, PTL

\* A settled turn answers every call: with the observation of a finished invocation, or
\* by saying of a call that was never started, in no batch, that it did not run.
THEOREM SettledAnswers == Spec => []SettledTurnAnswersAll
<1>1. IInv => SettledTurnAnswersAll
  BY DEF IInv, Inv, CallsOK, CallOK, EffectsAt, Pending, Reports, Items, Came, Told,
         SettledTurnAnswersAll
<1>2. QED BY <1>1, Invariance, PTL

\* What RunLifecycle assumes of a Tool batch, the batch guarantees; a Run parked on an
\* approval has asked for it and leaves no effect unconfirmed, one parked on an effect
\* has one to confirm.
THEOREM AssumedOutcomes == Spec => []OutcomesAsAssumed
<1>1. ASSUME IInv PROVE OutcomesAsAssumed
  <2>1. result = "COMPLETED" => \A c \in Calls : approval[c] # "PENDING"
    BY <1>1
    DEF IInv, Inv, CallsOK, CallOK, ApprovalAt, Reports, Items, Came, Told, Terminal
  <2>2. result = "WAITING_APPROVAL" => \E c \in Calls : approval[c] # "NONE"
    BY <1>1
    DEF IInv, Inv, CallsOK, CallOK, ApprovalAt, Reports, Parks, Came, Parked
  <2>3. result = "EFFECT_UNCONFIRMED" => crashes > 0
    BY <1>1 DEF IInv, Inv, TypeOK, Reports, Uncrashed
  <2>4. /\ run = "WAITING_APPROVAL" =>
             /\ Parked # {} /\ \A c \in Parked : approval[c] # "NONE"
             /\ \A c \in Calls : invocation[c] # "RUNNING"
        /\ run = "WAITING_RESOURCE" => \E c \in Calls : invocation[c] = "RUNNING"
    BY <1>1 DEF IInv, Inv, CallsOK, CallOK, ApprovalAt, Reports, Parks, Came, Parked
  <2>5. QED BY <2>1, <2>2, <2>3, <2>4 DEF OutcomesAsAssumed
<1>2. QED BY <1>1, Invariance, PTL

\* Every step is a step of the abstract specification, or a stutter.
LEMMA StepAnswers == IInv /\ [Next]_vars => [Effects!Next]_(Effects!vars)
<1> SUFFICES ASSUME IInv, [Next]_vars PROVE [Effects!Next]_(Effects!vars)
  OBVIOUS
<1>1. ASSUME UNCHANGED <<effects, answer>>,
             (run \in Closed <=> run' \in Closed) \/ (run \notin Closed /\ run' \in Closed)
      PROVE [Effects!Next]_(Effects!vars)
  <2>1. CASE run \in Closed <=> run' \in Closed BY <1>1, <2>1 DEF Effects!vars
  <2>2. CASE run \notin Closed /\ run' \in Closed BY <1>1, <2>2 DEF Effects!Next, Effects!Close
  <2>3. QED BY <1>1, <2>1, <2>2
<1>2. ASSUME NEW c \in Calls, Worker(c) PROVE [Effects!Next]_(Effects!vars)
  <2>1. run = "RUNNING" /\ run' = run BY <1>2, WorkerStays DEF IInv, Inv, Stage
  <2>2. CASE Execute(c)
    <3>1. effects[c] = 0 /\ answer[c] = "NONE"
      BY <2>2 DEF IInv, Inv, CallsOK, CallOK, RowAt, EffectsAt, Execute, Terminal
    <3>2. {d \in Calls : effects'[d] > 0} = {d \in Calls : effects[d] > 0} \cup {c}
      BY <2>2, <3>1 DEF Execute, IInv, Inv, TypeOK
    <3>3. answer' = answer BY <2>2 DEF Execute, durable
    <3>4. Effects!Begin(c) BY <2>1, <3>1, <3>2, <3>3 DEF Effects!Begin, Closed
    <3>5. QED BY <3>4 DEF Effects!Next
  <2>3. CASE Settle(c)
    <3>1. /\ answer[c] = "NONE" /\ verdict[c] \in Effects!Answers
          /\ verdict[c] \in Effects!Results => effects[c] > 0
          /\ verdict[c] \in Effects!Refusals => ~(effects[c] > 0)
      BY <2>3
      DEF IInv, Inv, TypeOK, CallsOK, CallOK, RowAt, EffectsAt, Pending, Settle, Terminal, Answers,
          Refusals, Effects!Answers, Effects!Results, Effects!Refusals
    <3>2. answer' = [answer EXCEPT ![c] = verdict[c]] /\ effects' = effects BY <2>3 DEF Settle
    <3>3. Effects!Answer(c, verdict[c]) BY <2>1, <3>1, <3>2 DEF Effects!Answer, Closed
    <3>4. QED BY <3>1, <3>3 DEF Effects!Next
  <2>4. CASE ~Execute(c) /\ ~Settle(c)
    <3>1. UNCHANGED <<effects, answer>>
      BY <1>2, <2>4
      DEF Worker, Find, FindAborted, Create, Lookup, Admit, Ask, ReadBudget, Reserve, Start,
          HandlerReturns, Reconcile, Throw, durable
    <3>2. QED BY <1>1, <2>1, <3>1
  <2>5. QED BY <2>2, <2>3, <2>4
<1>3. CASE Drive \/ Pass \/ StopAborted \/ OpenWindow \/ Complete \/ Interpret
  BY <1>1, <1>3, BatchStays DEF durable
<1>4. CASE BesideStep
  <2>1. UNCHANGED <<effects, answer>> BY <1>4, BesideStays
  <2>2. run \in Closed => run' \in Closed
    BY <1>4
    DEF BesideStep, ResolveApproval, Expire, SettleTurn, ResumeApproval, EndIdle, ResumeReconciliation,
        Abort, Crash, vars, IInv, Inv, Stage, Closed
  <2>3. QED BY <1>1, <2>1, <2>2
<1>5. QED BY <1>2, <1>3, <1>4 DEF Next, Driver, BesideStep

\* ToolExecution implements ToolEffects: effects begin once, answers are given once,
\* only while the Run is open, and say what happened.
THEOREM Refinement == Spec => ImplementsEffects
<1>1. Init => Effects!Init BY DEF Init, Effects!Init, Closed
<1>2. QED BY <1>1, StepAnswers, Invariance, PTL DEF Spec, ImplementsEffects, Effects!Spec
=============================================================================
