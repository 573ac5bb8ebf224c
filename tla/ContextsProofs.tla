---------------------------- MODULE ContextsProofs ----------------------------
(***************************************************************************)
(* Proofs about Backoff, for every pair of tables and every set of results,*)
(* and about Contexts, for every number of contexts and of handles, and    *)
(* whichever creations fail.                                               *)
(***************************************************************************)
EXTENDS Contexts, FiniteSetTheorems, TLAPS

-----------------------------------------------------------------------------
(* The backoff status.                                                     *)

\* The half range that is subtracted is a natural number, so is the whole.
LEMMA RangeTypes ==
  ASSUME NEW i \in 0..Top
  PROVE  /\ FullRange(i) \in Nat
         /\ HalfRange(i) \in Nat
BY BackoffAssumption DEF FullRange, HalfRange, AtLeast

\* iotc_get_backoff_penalty returns a delay that is never below the first
\* entry, nor further below the entry of its index than the half range; only
\* the clamping to the first entry can lift it above the upper end.
LEMMA PenaltyBounds ==
  ASSUME NEW i \in 0..Top, NEW p \in Penalties(i)
  PROVE  /\ p \in Nat
         /\ p >= BackoffLut[0]
         /\ p >= BackoffLut[i] - HalfRange(i)
         /\ \/ p = BackoffLut[0]
            \/ p <= BackoffLut[i] + FullRange(i) - HalfRange(i)
<1>1. PICK rand \in 0..FullRange(i) :
        p = AtLeast(BackoffLut[i] + rand - HalfRange(i), BackoffLut[0])
  BY DEF Penalties
<1>2. /\ BackoffLut[i] \in Nat
      /\ BackoffLut[0] \in Nat
      /\ FullRange(i) \in Nat
      /\ HalfRange(i) \in Nat
  BY RangeTypes, BackoffAssumption
<1>. QED
  BY <1>1, <1>2 DEF AtLeast

-----------------------------------------------------------------------------
\* A cooldown is lost, found again, or neither.
LEMMA LostStep == lost \in BOOLEAN /\ [Next]_vars => lost' \in BOOLEAN
<1>1. [Next]_vars => lost' = TRUE \/ lost' = FALSE \/ lost' = lost
  BY DEF Next, vars, ReportHealthy, ReportError, Connect, CooldownWhileInError,
         Cooldown, RecreateContext, Tick, RestartUpdateTime, NextCooldown,
         Schedule, CannotSchedule
<1>. QED
  BY <1>1, Zenon

\* Every step keeps the types of the backoff status.
LEMMA TypeStep == TypeOK /\ [Next]_vars => TypeOK'
<1>. SUFFICES ASSUME TypeOK, [Next]_vars
              PROVE  TypeOK'
  OBVIOUS
<1>0. lost' \in BOOLEAN
  BY LostStep, Zenon DEF TypeOK
<1>. USE <1>0, BackoffAssumption DEF TypeOK
<1>1. ASSUME NEW result \in Results, ReportHealthy(result)
      PROVE  TypeOK'
  BY <1>1 DEF ReportHealthy
<1>2. ASSUME NEW result \in Results, ReportError(result)
      PROVE  TypeOK'
  <2>1. backoff_lut_i' \in 0..Top
    BY <1>2 DEF ReportError, AtMost
  <2>2. next_update' \in {NoEvent} \cup 0..MaxQuiet
    BY <1>2, <2>1 DEF ReportError, RestartUpdateTime, Schedule, CannotSchedule
  <2>3. backoff_class' \in {"NONE", "RECOVERABLE", "TERMINAL"}
    BY <1>2 DEF ReportError, ClassOf
  <2>. QED
    BY <1>2, <2>1, <2>2, <2>3 DEF ReportError
<1>3. ASSUME NEW p \in Penalties(backoff_lut_i), Connect(p)
      PROVE  TypeOK'
  BY <1>3, PenaltyBounds DEF Connect
<1>4. CASE CooldownWhileInError
  BY <1>4 DEF CooldownWhileInError, NextCooldown, Schedule, CannotSchedule
<1>5. CASE Cooldown
  <2>1. backoff_lut_i' \in 0..Top
    BY <1>5 DEF Cooldown, AtLeast
  <2>. QED
    BY <1>5, <2>1 DEF Cooldown, NextCooldown, Schedule, CannotSchedule
<1>6. CASE RecreateContext
  BY <1>6 DEF RecreateContext
<1>7. CASE Tick
  BY <1>7 DEF Tick, CooldownDue, AtMost
<1>8. CASE UNCHANGED vars
  BY <1>8 DEF vars
<1>. QED
  BY <1>1, <1>2, <1>3, <1>4, <1>5, <1>6, <1>7, <1>8 DEF Next

\* The status is well typed in every reachable state.
THEOREM TypeCorrect == Spec => []TypeOK
<1>1. Init => TypeOK
  <2>1. Init => lost \in BOOLEAN
    BY Zenon DEF Init
  <2>. QED
    BY <2>1, BackoffAssumption DEF Init, TypeOK
<1>. QED
  BY <1>1, TypeStep, PTL DEF Spec

-----------------------------------------------------------------------------
\* Every delay a connection attempt was given by iotc_connect_to lies in the
\* range of the index that was current when the attempt was made.
THEOREM PenaltiesInRange == Spec => []PenaltyInRange
<1>1. Init => PenaltyInRange
  <2>1. 0 \in 0..Top /\ BackoffLut[0] \in Nat
    BY BackoffAssumption
  <2>. QED
    BY <2>1, RangeTypes DEF Init, PenaltyInRange
<1>2. TypeOK /\ PenaltyInRange /\ [Next]_vars => PenaltyInRange'
  <2>. SUFFICES ASSUME TypeOK, PenaltyInRange, [Next]_vars
                PROVE  PenaltyInRange'
    OBVIOUS
  <2>1. ASSUME NEW p \in Penalties(backoff_lut_i), Connect(p)
        PROVE  PenaltyInRange'
    <3>1. attempt' = [index |-> backoff_lut_i, penalty |-> p]
      BY <2>1 DEF Connect
    <3>2. backoff_lut_i \in 0..Top
      BY DEF TypeOK
    <3>. QED
      BY <3>1, <3>2, PenaltyBounds DEF PenaltyInRange
  <2>2. CASE UNCHANGED attempt
    BY <2>2 DEF PenaltyInRange
  <2>. QED
    BY <2>1, <2>2 DEF Next, vars, ReportHealthy, ReportError,
                      CooldownWhileInError, Cooldown, RecreateContext, Tick
<1>. QED
  BY <1>1, <1>2, TypeCorrect, PTL DEF Spec

-----------------------------------------------------------------------------
\* What makes a cooldown last: the time that has passed without an error and
\* the time left to the scheduled event add up to the cooldown of the index.
CooldownRuns ==
  next_update # NoEvent => quiet + next_update >= DecayLut[backoff_lut_i]

\* The cooldown in progress covers the index, whatever was reported meanwhile.
LEMMA CooldownRunsStep ==
  TypeOK /\ CooldownRuns /\ [Next]_vars => CooldownRuns'
<1>. SUFFICES ASSUME TypeOK, CooldownRuns, [Next]_vars
              PROVE  CooldownRuns'
  OBVIOUS
<1>. USE BackoffAssumption DEF TypeOK, CooldownRuns
<1>0. TypeOK'
  BY TypeStep
<1>1. ASSUME NEW result \in Results, ReportHealthy(result)
      PROVE  CooldownRuns'
  BY <1>1 DEF ReportHealthy
<1>2. ASSUME NEW result \in Results, ReportError(result)
      PROVE  CooldownRuns'
  BY <1>0, <1>2 DEF ReportError, RestartUpdateTime, Schedule, CannotSchedule
<1>3. ASSUME NEW p \in Penalties(backoff_lut_i), Connect(p)
      PROVE  CooldownRuns'
  BY <1>3 DEF Connect
<1>4. CASE CooldownWhileInError
  BY <1>4 DEF CooldownWhileInError, NextCooldown, Schedule, CannotSchedule
<1>5. CASE Cooldown
  BY <1>0, <1>5 DEF Cooldown, NextCooldown, Schedule, CannotSchedule
<1>6. CASE RecreateContext
  BY <1>6 DEF RecreateContext
<1>7. CASE Tick
  <2>1. CASE next_update = NoEvent
    BY <1>7, <2>1 DEF Tick
  <2>2. CASE next_update # NoEvent
    <3>1. next_update \in 1..MaxQuiet /\ next_update' = next_update - 1
      BY <1>7, <2>2 DEF Tick, CooldownDue
    <3>2. DecayLut[backoff_lut_i] \in Nat /\ DecayLut[backoff_lut_i] <= MaxQuiet
      OBVIOUS
    <3>3. quiet' = MaxQuiet \/ quiet' = quiet + 1
      BY <1>7 DEF Tick, AtMost
    <3>4. quiet' + next_update' >= DecayLut[backoff_lut_i]
      BY <2>2, <3>1, <3>2, <3>3
    <3>. QED
      BY <1>7, <3>4 DEF Tick
  <2>. QED
    BY <2>1, <2>2
<1>8. CASE UNCHANGED vars
  BY <1>8 DEF vars
<1>. QED
  BY <1>1, <1>2, <1>3, <1>4, <1>5, <1>6, <1>7, <1>8 DEF Next

\* The index goes down one entry at a time, and only when a whole cooldown of
\* that entry has passed since the last error and since the last decrease,
\* whether or not scheduling events fails and contexts are recreated.
THEOREM CooldownsAreEarned == Spec => CooldownIsEarned
<1>1. Init => CooldownRuns
  BY DEF Init, CooldownRuns
<1>2. TypeOK /\ CooldownRuns /\ [Next]_vars
        => [backoff_lut_i' < backoff_lut_i =>
              /\ backoff_lut_i' = backoff_lut_i - 1
              /\ quiet >= DecayLut[backoff_lut_i]]_vars
  <2>. SUFFICES ASSUME TypeOK, CooldownRuns, Next,
                       backoff_lut_i' < backoff_lut_i
                PROVE  /\ backoff_lut_i' = backoff_lut_i - 1
                       /\ quiet >= DecayLut[backoff_lut_i]
    OBVIOUS
  <2>. USE BackoffAssumption DEF TypeOK
  <2>1. Cooldown
    <3>1. ASSUME NEW result \in Results, ReportError(result)
          PROVE  FALSE
      BY <3>1 DEF ReportError, AtMost
    <3>. QED
      BY <3>1 DEF Next, ReportHealthy, Connect, CooldownWhileInError,
                  RecreateContext, Tick
  <2>2. next_update = 0 /\ next_update # NoEvent
    BY <2>1 DEF Cooldown, CooldownDue
  <2>. QED
    BY <2>1, <2>2 DEF Cooldown, CooldownRuns, AtLeast
<1>. QED
  BY <1>1, <1>2, CooldownRunsStep, TypeCorrect, PTL DEF Spec, CooldownIsEarned

-----------------------------------------------------------------------------
\* A penalty in force always has its cooldown scheduled, unless the event got
\* no memory or went with the last context: nothing else can leave the index
\* stuck above 0.
THEOREM PenaltiesCanEnd == Spec => []PenaltyCanEnd
<1>1. Init => PenaltyCanEnd
  BY DEF Init, PenaltyCanEnd
<1>2. TypeOK /\ PenaltyCanEnd /\ [Next]_vars => PenaltyCanEnd'
  <2>. SUFFICES ASSUME TypeOK, PenaltyCanEnd, [Next]_vars
                PROVE  PenaltyCanEnd'
    OBVIOUS
  <2>. USE BackoffAssumption DEF TypeOK, PenaltyCanEnd
  <2>0. TypeOK'
    BY TypeStep
  <2>1. ASSUME NEW result \in Results, ReportHealthy(result)
        PROVE  PenaltyCanEnd'
    BY <2>1 DEF ReportHealthy
  <2>2. ASSUME NEW result \in Results, ReportError(result)
        PROVE  PenaltyCanEnd'
    BY <2>0, <2>2 DEF ReportError, RestartUpdateTime, Schedule, CannotSchedule
  <2>3. ASSUME NEW p \in Penalties(backoff_lut_i), Connect(p)
        PROVE  PenaltyCanEnd'
    BY <2>3 DEF Connect
  <2>4. CASE CooldownWhileInError
    BY <2>4 DEF CooldownWhileInError, NextCooldown, Schedule, CannotSchedule
  <2>5. CASE Cooldown
    BY <2>0, <2>5 DEF Cooldown, NextCooldown, Schedule, CannotSchedule
  <2>6. CASE RecreateContext
    BY <2>6 DEF RecreateContext
  <2>7. CASE Tick
    BY <2>7 DEF Tick, CooldownDue
  <2>8. CASE UNCHANGED vars
    BY <2>8 DEF vars
  <2>. QED
    BY <2>1, <2>2, <2>3, <2>4, <2>5, <2>6, <2>7, <2>8 DEF Next
<1>. QED
  BY <1>1, <1>2, TypeCorrect, PTL DEF Spec

-----------------------------------------------------------------------------
(* The contexts.                                                           *)

States == {"FREE", "IDLE", "DELAYED", "OPEN"}

\* The variables have their types.
CTypeOK ==
  /\ globals_ref_count \in Nat /\ failed \in Nat
  /\ evtd_instance \in BOOLEAN
  /\ connection \in [ContextCells -> States]
  /\ context_handles_vector \in {NULL} \cup [Slots -> ContextCells \cup {NULL}]

\* The inductive invariant.  That nothing is made anew while a context lives needs
\* the count to be exact, which a creation that failed raises for good.
CInv ==
  /\ CTypeOK
  /\ globals_ref_count = Cardinality(Live) + failed
  /\ evtd_instance => globals_ref_count > 0
  /\ context_handles_vector # NULL => evtd_instance
  /\ next_update # NoEvent => evtd_instance
  /\ ContextsAreReached

-----------------------------------------------------------------------------
(* Counting.                                                               *)

LEMMA LiveIsFinite == IsFiniteSet(Live) /\ Cardinality(Live) \in Nat
BY ContextsAssumption, FS_Subset, FS_CardinalityType DEF Live

\* A context that comes, and one that goes.
LEMMA LiveCounts ==
  ASSUME NEW c \in ContextCells
  PROVE  /\ c \notin Live /\ Live' = Live \cup {c} => Cardinality(Live') = Cardinality(Live) + 1
         /\ c \in Live /\ Live' = Live \ {c} => Cardinality(Live') = Cardinality(Live) - 1
BY LiveIsFinite, FS_AddElement, FS_RemoveElement

LEMMA NoneLive == Cardinality(Live) = 0 <=> Live = {}
BY LiveIsFinite, FS_EmptySet

-----------------------------------------------------------------------------
(* Creating and deleting.                                                  *)

LEMMA CreateStep ==
  ASSUME CInv, NEW c \in ContextCells, Create(c)
  PROVE  CInv'
<1>. DEFINE handles == HandlesFor("NONE")
<1>. USE ContextsAssumption
<1>1. /\ connection[c] = "FREE" /\ connection' = [connection EXCEPT ![c] = "IDLE"]
      /\ handles # NULL /\ Registers(handles, c)
      /\ globals_ref_count' = globals_ref_count + 1
      /\ evtd_instance' = IF First THEN TRUE ELSE evtd_instance
      /\ failed' = failed /\ next_update' = next_update
  BY DEF Create, Counts, MakesDispatcher, vars
<1>2. /\ connection \in [ContextCells -> States] /\ connection' \in [ContextCells -> States]
      /\ c \notin Live /\ Live' = Live \cup {c}
  BY <1>1 DEF CInv, CTypeOK, Live, States
<1>3. /\ globals_ref_count \in Nat /\ failed \in Nat /\ Cardinality(Live) \in Nat
      /\ globals_ref_count = Cardinality(Live) + failed
      /\ Cardinality(Live') = Cardinality(Live) + 1
  BY <1>2, LiveIsFinite, LiveCounts DEF CInv, CTypeOK
<1>4. First => Live = {}
  BY <1>3, NoneLive DEF First
<1>5. /\ handles \in [Slots -> ContextCells \cup {NULL}]
      /\ ~First => handles = context_handles_vector
      /\ First => \A s \in Slots : handles[s] = NULL
  BY <1>1 DEF HandlesFor, CInv, CTypeOK
<1>6. PICK slot \in Slots :
        /\ handles[slot] = NULL
        /\ context_handles_vector' = [handles EXCEPT ![slot] = c]
  BY <1>1 DEF Registers
<1>. HIDE DEF handles
<1>7. /\ context_handles_vector' \in [Slots -> ContextCells \cup {NULL}]
      /\ context_handles_vector' # NULL
      /\ context_handles_vector'[slot] = c
      /\ \A s \in Slots : s # slot => context_handles_vector'[s] = handles[s]
  BY <1>5, <1>6 DEF Slots
<1>8. /\ \A d \in Live : \E s \in Slots : handles[s] = d
      /\ \A s, t \in Slots : handles[s] # NULL =>
           /\ handles[s] \in Live
           /\ handles[s] = handles[t] => s = t
  BY <1>1, <1>4, <1>5 DEF CInv, ContextsAreReached
<1>9. evtd_instance'
  BY <1>1, <1>5 DEF CInv
<1>10. ContextsAreReached'
  <2>1. \A d \in Live' : \E s \in Slots : context_handles_vector'[s] = d
    <3>1. \A d \in Live : d # NULL
      BY DEF Live
    <3>. QED
      BY <1>2, <1>6, <1>7, <1>8, <3>1
  <2>2. ASSUME NEW s \in Slots, NEW t \in Slots, context_handles_vector'[s] # NULL
        PROVE  /\ context_handles_vector'[s] \in Live'
               /\ context_handles_vector'[s] = context_handles_vector'[t] => s = t
    <3>1. context_handles_vector'[s] \in Live'
      BY <1>2, <1>7, <1>8, <2>2
    <3>2. ASSUME context_handles_vector'[s] = context_handles_vector'[t]
          PROVE  s = t
      <4>1. CASE s = slot \/ t = slot
        BY <1>2, <1>7, <1>8, <2>2, <3>2, <4>1
      <4>2. CASE s # slot /\ t # slot
        BY <1>7, <1>8, <2>2, <3>2, <4>2
      <4>. QED
        BY <4>1, <4>2
    <3>. QED
      BY <3>1, <3>2
  <2>. QED
    BY <1>7, <1>9, <2>1, <2>2 DEF ContextsAreReached, Slots
<1>11. CTypeOK'
  <2>1. globals_ref_count' \in Nat /\ failed' \in Nat
    BY <1>1, <1>3
  <2>2. evtd_instance \in BOOLEAN
    BY DEF CInv, CTypeOK
  <2>3. evtd_instance' \in BOOLEAN
    BY <1>1, <2>2, Zenon
  <2>. QED
    BY <1>2, <1>7, <2>1, <2>3 DEF CTypeOK, Slots
<1>12. globals_ref_count' > 0 /\ globals_ref_count' = Cardinality(Live') + failed'
  BY <1>1, <1>3
<1>. QED
  BY <1>9, <1>10, <1>11, <1>12 DEF CInv

\* What is made by the first creation before it fails is kept, and holds no context.
LEMMA CreateFailsStep ==
  ASSUME CInv, NEW failure, CreateFails(failure)
  PROVE  CInv'
<1>. USE ContextsAssumption
<1>1. /\ globals_ref_count' = globals_ref_count + 1 /\ failed' = failed + 1
      /\ evtd_instance' = IF First THEN failure # "DISPATCHER" ELSE evtd_instance
      /\ context_handles_vector' = HandlesFor(failure)
      /\ connection' = connection /\ next_update' = next_update
  BY DEF CreateFails, Counts, MakesDispatcher, vars
<1>2. /\ Live' = Live /\ Cardinality(Live) \in Nat
      /\ globals_ref_count \in Nat /\ failed \in Nat
      /\ globals_ref_count = Cardinality(Live) + failed
  BY <1>1, LiveIsFinite DEF Live, CInv, CTypeOK
<1>3. CASE First
  <2>1. Live = {} /\ next_update = NoEvent
    BY <1>2, <1>3, NoneLive DEF First, CInv
  <2>2. \/ context_handles_vector' = NULL
        \/ /\ context_handles_vector' = [s \in Slots |-> NULL]
           /\ failure # "DISPATCHER"
    BY <1>1, <1>3 DEF HandlesFor
  <2>3. ContextsAreReached'
    BY <1>2, <2>1, <2>2 DEF ContextsAreReached, Slots
  <2>4. CTypeOK'
    BY <1>1, <1>2, <1>3, <2>2 DEF CTypeOK, CInv, Slots
  <2>5. context_handles_vector' # NULL => evtd_instance'
    BY <1>1, <1>3, <2>2
  <2>6. globals_ref_count' > 0 /\ globals_ref_count' = Cardinality(Live') + failed'
    BY <1>1, <1>2
  <2>7. next_update' = NoEvent
    BY <1>1, <2>1
  <2>. QED
    BY <2>3, <2>4, <2>5, <2>6, <2>7 DEF CInv
<1>4. CASE ~First
  <2>1. /\ context_handles_vector' = context_handles_vector
        /\ evtd_instance' = evtd_instance
    BY <1>1, <1>4 DEF HandlesFor
  <2>2. ContextsAreReached'
    BY <1>2, <2>1 DEF CInv, ContextsAreReached, Slots
  <2>3. CTypeOK'
    BY <1>1, <1>2, <2>1 DEF CInv, CTypeOK, Slots
  <2>. QED
    BY <1>1, <1>2, <2>1, <2>2, <2>3 DEF CInv
<1>. QED
  BY <1>3, <1>4

LEMMA DeleteStep ==
  ASSUME CInv, NEW c \in ContextCells, Delete(c)
  PROVE  CInv'
<1>. USE ContextsAssumption
<1>1. /\ connection[c] # "FREE" /\ connection' = [connection EXCEPT ![c] = "FREE"]
      /\ globals_ref_count' = globals_ref_count - 1
      /\ failed' = failed
  BY DEF Delete
<1>2. /\ connection \in [ContextCells -> States] /\ connection' \in [ContextCells -> States]
      /\ c \in Live /\ Live' = Live \ {c}
  BY <1>1 DEF CInv, CTypeOK, Live, States
<1>3. /\ globals_ref_count \in Nat /\ failed \in Nat /\ Cardinality(Live) \in Nat
      /\ globals_ref_count = Cardinality(Live) + failed
      /\ Cardinality(Live') = Cardinality(Live) - 1
      /\ Cardinality(Live) # 0
  BY <1>2, LiveIsFinite, LiveCounts, NoneLive DEF CInv, CTypeOK
<1>4. /\ globals_ref_count' \in Nat
      /\ globals_ref_count' = Cardinality(Live') + failed'
  BY <1>1, <1>3
<1>5. CASE globals_ref_count = 1
  <2>1. /\ next_update' = NoEvent
        /\ evtd_instance' = FALSE /\ context_handles_vector' = NULL
    BY <1>5 DEF Delete, LastGoes, RecreateContext
  <2>2. Live' = {}
    <3>1. Cardinality(Live') = 0 /\ IsFiniteSet(Live')
      BY <1>2, <1>3, <1>5, LiveIsFinite, FS_RemoveElement
    <3>. QED
      BY <3>1, FS_EmptySet
  <2>3. ContextsAreReached' /\ CTypeOK'
    BY <1>1, <1>2, <1>3, <1>4, <2>1, <2>2 DEF ContextsAreReached, CTypeOK
  <2>. QED
    BY <1>4, <2>1, <2>3 DEF CInv
<1>6. CASE globals_ref_count # 1
  <2>1. /\ next_update' = next_update /\ evtd_instance' = evtd_instance
        /\ context_handles_vector' =
             [slot \in Slots |-> IF context_handles_vector[slot] = c THEN NULL
                                 ELSE context_handles_vector[slot]]
    BY <1>6 DEF Delete, vars
  <2>2. /\ evtd_instance /\ context_handles_vector # NULL
        /\ context_handles_vector \in [Slots -> ContextCells \cup {NULL}]
        /\ \A d \in Live : \E s \in Slots : context_handles_vector[s] = d
        /\ \A s, t \in Slots : context_handles_vector[s] # NULL =>
             /\ context_handles_vector[s] \in Live
             /\ context_handles_vector[s] = context_handles_vector[t] => s = t
    BY <1>2 DEF CInv, CTypeOK, ContextsAreReached
  <2>3. /\ context_handles_vector' \in [Slots -> ContextCells \cup {NULL}]
        /\ context_handles_vector' # NULL
    BY <2>1, <2>2 DEF Slots
  <2>4. ContextsAreReached'
    <3>1. \A d \in Live' : \E s \in Slots : context_handles_vector'[s] = d
      BY <1>2, <2>1, <2>2
    <3>2. \A s, t \in Slots : context_handles_vector'[s] # NULL =>
             /\ context_handles_vector'[s] \in Live'
             /\ context_handles_vector'[s] = context_handles_vector'[t] => s = t
      BY <1>2, <2>1, <2>2
    <3>. QED
      BY <2>1, <2>2, <2>3, <3>1, <3>2 DEF ContextsAreReached, Slots
  <2>5. CTypeOK'
    BY <1>1, <1>2, <1>3, <1>4, <2>1, <2>2, <2>3 DEF CTypeOK, Slots
  <2>. QED
    BY <1>3, <1>4, <1>6, <1>1, <2>1, <2>2, <2>4, <2>5 DEF CInv
<1>. QED
  BY <1>5, <1>6

-----------------------------------------------------------------------------
(* Every step.                                                             *)

\* Alone, the backoff status would take the same steps.
LEMMA BackoffSteps == [CNext]_cvars => [Next]_vars
<1>. SUFFICES ASSUME [CNext]_cvars
              PROVE  Next \/ UNCHANGED vars
  OBVIOUS
<1>1. ASSUME NEW c \in ContextCells, Create(c) \/ Delete(c)
      PROVE  Next \/ UNCHANGED vars
  BY <1>1 DEF Create, Delete, LastGoes, Next
<1>2. ASSUME NEW c \in ContextCells, NEW p \in Penalties(backoff_lut_i), Connects(c, p)
      PROVE  Next
  BY <1>2 DEF Connects, Next
<1>3. ASSUME NEW c \in ContextCells, Starts(c) \/ Cancels(c) \/ Closes(c)
      PROVE  UNCHANGED vars
  BY <1>3 DEF Starts, Cancels, Closes
<1>4. ASSUME NEW c \in ContextCells, NEW result \in Results, Reports(c, result)
      PROVE  Next
  BY <1>4 DEF Reports, Next
<1>5. ASSUME NEW failure \in Failures, CreateFails(failure)
      PROVE  UNCHANGED vars
  BY <1>5 DEF CreateFails
<1>6. CASE LeftoverRuns \/ Cools \/ Passes
  BY <1>6 DEF LeftoverRuns, Cools, Passes, Next
<1>7. CASE UNCHANGED cvars
  BY <1>7 DEF cvars
<1>. QED
  BY <1>1, <1>2, <1>3, <1>4, <1>5, <1>6, <1>7 DEF CNext

\* A step that neither makes nor deletes a context and schedules nothing without a
\* dispatcher.
LEMMA QuietStep ==
  ASSUME CInv, UNCHANGED <<globals_ref_count, evtd_instance, context_handles_vector, failed>>,
         connection' \in [ContextCells -> States], Live' = Live,
         next_update' # NoEvent => next_update # NoEvent \/ evtd_instance
  PROVE  CInv'
<1>1. ContextsAreReached'
  BY DEF CInv, ContextsAreReached, Slots
<1>2. CTypeOK'
  BY DEF CInv, CTypeOK, Slots
<1>. QED
  BY <1>1, <1>2 DEF CInv

LEMMA ContextsStep == CInv /\ [CNext]_cvars => CInv'
<1>. SUFFICES ASSUME CInv, [CNext]_cvars
              PROVE  CInv'
  OBVIOUS
<1>. USE ContextsAssumption
<1>1. /\ connection \in [ContextCells -> States]
      /\ Live # {} => evtd_instance
  BY DEF CInv, CTypeOK, ContextsAreReached
<1>2. ASSUME UNCHANGED <<globals, connection>>,
             next_update' # NoEvent => next_update # NoEvent \/ evtd_instance
      PROVE  CInv'
  <2>1. Live' = Live
    BY <1>2 DEF Live
  <2>. QED
    BY <1>1, <1>2, <2>1, QuietStep DEF globals
<1>3. ASSUME NEW c \in ContextCells, NEW from \in States \ {"FREE"}, NEW to \in States \ {"FREE"},
             Becomes(c, from, to), UNCHANGED globals, next_update' = next_update
      PROVE  CInv'
  <2>1. connection' \in [ContextCells -> States] /\ Live' = Live
    BY <1>1, <1>3 DEF Becomes, Live
  <2>. QED
    BY <1>3, <2>1, QuietStep DEF globals
<1>4. ASSUME NEW c \in ContextCells, Create(c) \/ Delete(c)
      PROVE  CInv'
  BY <1>4, CreateStep, DeleteStep
<1>5. ASSUME NEW c \in ContextCells, NEW p \in Penalties(backoff_lut_i), Connects(c, p)
      PROVE  CInv'
  BY <1>3, <1>5 DEF Connects, Connect, States
<1>6. ASSUME NEW c \in ContextCells, Starts(c) \/ Cancels(c) \/ Closes(c)
      PROVE  CInv'
  BY <1>3, <1>6 DEF Starts, Cancels, Closes, vars, States
<1>7. ASSUME NEW c \in ContextCells, NEW result \in Results, Reports(c, result)
      PROVE  CInv'
  <2>1. evtd_instance
    BY <1>1, <1>7 DEF Reports, Live
  <2>. QED
    BY <1>2, <1>7, <2>1 DEF Reports
<1>8. ASSUME NEW failure \in Failures, CreateFails(failure)
      PROVE  CInv'
  BY <1>8, CreateFailsStep
<1>9. CASE Cools
  BY <1>2, <1>9 DEF Cools
<1>10. CASE Passes
  <2>1. next_update' # NoEvent => next_update # NoEvent
    BY <1>10 DEF Passes, Tick
  <2>. QED
    BY <1>2, <1>10, <2>1 DEF Passes
<1>11. CASE UNCHANGED cvars
  BY <1>2, <1>11 DEF cvars, vars
<1>12. CASE LeftoverRuns
  BY <1>1, <1>12, QuietStep DEF LeftoverRuns, vars, Live
<1>. QED
  BY <1>4, <1>5, <1>6, <1>7, <1>8, <1>9, <1>10, <1>11, <1>12 DEF CNext

LEMMA ContextsInit == CInit => CInv
<1>. SUFFICES ASSUME CInit
              PROVE  CInv
  OBVIOUS
<1>1. Live = {}
  BY DEF CInit, Live
<1>2. Cardinality(Live) = 0
  BY <1>1, FS_EmptySet
<1>3. next_update = NoEvent
  BY DEF CInit, Init
<1>4. ContextsAreReached /\ CTypeOK
  BY <1>1 DEF CInit, ContextsAreReached, CTypeOK, States
<1>. QED
  BY <1>2, <1>3, <1>4 DEF CInit, CInv

LEMMA ContextsInvariant == CSpec => []CInv
BY ContextsInit, ContextsStep, PTL DEF CSpec

-----------------------------------------------------------------------------
(* The theorems.                                                           *)

\* Whatever was created and deleted, and whichever creations failed, a context that
\* exists has its dispatcher and one handle, and a handle leads to a context that
\* exists (iotc_handle.c).
THEOREM ContextsAlwaysReached == CSpec => []ContextsAreReached
<1>1. CInv => ContextsAreReached
  BY DEF CInv
<1>. QED
  BY <1>1, ContextsInvariant, PTL

\* The dispatcher is there while the globals are counted, if it could be allocated.
DispatcherIsThere == globals_ref_count > 0 /\ ~aborted => evtd_instance

\* The globals are counted exactly (iotc.c), so that the last context, and only
\* that, takes the dispatcher and a scheduled cooldown away, when no creation fails
\* for want of a dispatcher.
THEOREM GlobalsAlwaysCounted ==
  ASSUME "DISPATCHER" \notin Failures
  PROVE  CSpec => []GlobalsAreCounted
<1>1. CInit => DispatcherIsThere
  BY DEF CInit, DispatcherIsThere
<1>2. CInv /\ DispatcherIsThere /\ [CNext]_cvars => DispatcherIsThere'
  <2>. SUFFICES ASSUME CInv, DispatcherIsThere, [CNext]_cvars
                PROVE  DispatcherIsThere'
    OBVIOUS
  <2>0. globals_ref_count \in Nat
    BY DEF CInv, CTypeOK
  <2>1. ASSUME UNCHANGED globals
        PROVE  DispatcherIsThere'
    BY <2>1 DEF globals, DispatcherIsThere
  <2>2. ASSUME ~aborted, NEW c \in ContextCells, Create(c)
        PROVE  DispatcherIsThere'
    <3>1. evtd_instance' = IF First THEN TRUE ELSE evtd_instance
      BY <2>2 DEF Create, MakesDispatcher
    <3>2. ~First => evtd_instance
      BY <2>0, <2>2 DEF First, DispatcherIsThere
    <3>. QED
      BY <3>1, <3>2 DEF DispatcherIsThere
  <2>3. ASSUME NEW c \in ContextCells, Delete(c)
        PROVE  DispatcherIsThere'
    BY <2>0, <2>3 DEF Delete, DispatcherIsThere
  <2>4. ASSUME ~aborted, NEW failure \in Failures, CreateFails(failure)
        PROVE  DispatcherIsThere'
    <3>1. /\ evtd_instance' = IF First THEN failure # "DISPATCHER" ELSE evtd_instance
          /\ failure # "DISPATCHER"
      BY <2>4 DEF CreateFails, MakesDispatcher
    <3>2. ~First => evtd_instance
      BY <2>0, <2>4 DEF First, DispatcherIsThere
    <3>. QED
      BY <3>1, <3>2 DEF DispatcherIsThere
  <2>5. ASSUME NEW c \in ContextCells,
               \/ \E p \in Penalties(backoff_lut_i) : Connects(c, p)
               \/ Starts(c) \/ Cancels(c) \/ Closes(c)
               \/ \E result \in Results : Reports(c, result)
        PROVE  DispatcherIsThere'
    BY <2>1, <2>5 DEF Connects, Starts, Cancels, Closes, Reports
  <2>6. CASE LeftoverRuns \/ Cools \/ Passes \/ UNCHANGED cvars
    BY <2>1, <2>6 DEF LeftoverRuns, DispatcherIsThere, Cools, Passes, cvars
  <2>. QED
    BY <2>2, <2>3, <2>4, <2>5, <2>6 DEF CNext
<1>3. CInv /\ DispatcherIsThere => GlobalsAreCounted
  BY DEF CInv, DispatcherIsThere, GlobalsAreCounted
<1>. QED
  BY <1>1, <1>2, <1>3, ContextsInvariant, PTL DEF CSpec

\* Contexts that come and go, and creations that fail, are steps of the backoff
\* status or none: what holds of it alone holds here.
THEOREM ContextsKeepBackoff == CSpec => Spec
<1>1. CInit => Init
  BY DEF CInit
<1>. QED
  BY <1>1, BackoffSteps, PTL DEF CSpec, Spec

\* With contexts that come and go too, the index falls only after a whole cooldown
\* without an error.
THEOREM CooldownsAreEarnedByContexts == CSpec => CooldownIsEarned
BY ContextsKeepBackoff, CooldownsAreEarned

\* And a penalty has its cooldown scheduled unless that got lost.
THEOREM PenaltiesCanEndForContexts == CSpec => []PenaltyCanEnd
BY ContextsKeepBackoff, PenaltiesCanEnd
=============================================================================
