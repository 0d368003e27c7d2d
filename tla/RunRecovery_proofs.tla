------------------------- MODULE RunRecovery_proofs -------------------------
(***************************************************************************)
(* Whoever asks for recoveries, and however often, the Run takes only the  *)
(* steps RunLifecycle has: every theorem about Spec holds of SweptSpec.    *)
(***************************************************************************)
EXTENDS RunRecovery, TLAPS

\* What the reconciliation and the sweeper remember.
MemoryOK ==
    /\ reconciled \in BOOLEAN
    /\ watched \in Underway \cup {"NONE"}
    /\ attempts \in 0..MaxSweeps

\* Asking is a recovery, or nothing when the lock is held.
LEMMA AskIsRunStep == AskRecovery => [Next]_vars
  <1>1. Recover => Next  BY DEF Next, Environment
  <1>2. QED  BY <1>1 DEF AskRecovery

\* Each step of the composition is a step of the Run, or leaves it alone.
LEMMA SweptStep == [SweptNext]_sweptVars => [Next]_vars
  <1>1. CASE RunSteps         BY <1>1 DEF RunSteps
  <1>2. CASE Reconcile        BY <1>2, AskIsRunStep DEF Reconcile
  <1>3. CASE SweepSeesDriver  BY <1>3 DEF SweepSeesDriver
  <1>4. CASE SweepObserves    BY <1>4 DEF SweepObserves
  <1>5. CASE SweepRecovers    BY <1>5, AskIsRunStep DEF SweepRecovers
  <1>6. CASE UNCHANGED sweptVars  BY <1>6 DEF sweptVars
  <1>7. QED  BY <1>1, <1>2, <1>3, <1>4, <1>5, <1>6 DEF SweptNext

\* The reconciliation and the sweeper (run-startup-reconciliation.ts,
\* run-liveness-sweeper.ts) write nothing of their own: with them the Run is
\* still the Run of RunLifecycle, so that its safety theorems are theirs too.
THEOREM SweptRunIsRun == SweptSpec => Spec
  <1>1. SweptInit => Init  BY DEF SweptInit
  <1>2. QED  BY <1>1, SweptStep, PTL DEF SweptSpec, Spec

\* A sweeper never spends more attempts on an episode than its policy allows,
\* and an attempt always belongs to an observed status.
THEOREM SweptMemory == SweptSpec => []MemoryOK
  <1>1. SweptInit => MemoryOK
    <2>1. 0 \in 0..MaxSweeps  BY SweepsAssumption
    <2>2. QED  BY <2>1, Zenon DEF SweptInit, MemoryOK
  <1>2. MemoryOK /\ [SweptNext]_sweptVars => MemoryOK'
    <2> SUFFICES ASSUME MemoryOK, [SweptNext]_sweptVars  PROVE MemoryOK'
      OBVIOUS
    <2> USE SweepsAssumption DEF MemoryOK
    <2>1. CASE RunSteps
      <3>1. 0 \in 0..MaxSweeps  OBVIOUS
      <3>2. UNCHANGED memory \/ Nothing  BY <2>1, Zenon DEF RunSteps
      <3>3. CASE UNCHANGED memory  BY <3>3 DEF memory
      <3>4. CASE Nothing  BY <3>1, <3>4 DEF Nothing
      <3>5. QED  BY <3>2, <3>3, <3>4
    <2>2. CASE Reconcile        BY <2>2 DEF Reconcile
    <2>3. CASE SweepSeesDriver  BY <2>3 DEF SweepSeesDriver
    <2>4. CASE SweepObserves    BY <2>4 DEF SweepObserves, Sweeping
    <2>5. CASE SweepRecovers    BY <2>5 DEF SweepRecovers
    <2>6. CASE UNCHANGED sweptVars  BY <2>6 DEF sweptVars, memory
    <2>7. QED  BY <2>1, <2>2, <2>3, <2>4, <2>5, <2>6 DEF SweptNext
  <1>3. QED  BY <1>1, <1>2, PTL DEF SweptSpec
=============================================================================
