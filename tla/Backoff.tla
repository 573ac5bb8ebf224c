------------------------------- MODULE Backoff -------------------------------
(***************************************************************************)
(* The backoff status, iotc_backoff_status_api.c: how long a connection    *)
(* attempt is delayed.  An index into a table of delays grows with every   *)
(* result that is an error and decays, one entry per cooldown, while the   *)
(* last result was none.  One time event of the dispatcher drives the      *)
(* decay.  The status is global: results of every context feed it, and it  *)
(* outlives the contexts.                                                  *)
(***************************************************************************)
EXTENDS Integers

CONSTANTS
  Top,          \* the last index of both tables
  BackoffLut,   \* IOTC_BACKOFF_LUT: the delay for every index
  DecayLut,     \* IOTC_DECAY_LUT: the cooldown for every index
  Results,      \* the iotc_state_t values the layers report
  NoEvent,      \* next_update while no event is scheduled
  MaxQuiet,     \* bound: the history counts no further
  OutOfMemory,  \* whether scheduling a time event may fail
  Recreate      \* whether all contexts may be deleted and one created anew

ASSUME BackoffAssumption ==
  /\ Top \in Nat
  /\ BackoffLut \in [0..Top -> Nat]
  /\ DecayLut \in [0..Top -> Nat]
  /\ NoEvent \notin Nat
  /\ MaxQuiet \in Nat
  /\ \A i \in 0..Top : DecayLut[i] <= MaxQuiet
  /\ OutOfMemory \in BOOLEAN
  /\ Recreate \in BOOLEAN

VARIABLES
  backoff_class,   \* the class of the last result
  backoff_lut_i,   \* the index into both tables
  next_update,     \* seconds left to the cooldown event, or NoEvent
  attempt,         \* the last delay a connection attempt was given, and its index
  quiet,           \* history: seconds since the index or the last error changed
  lost             \* history: the cooldown was cancelled or got no event

vars == <<backoff_class, backoff_lut_i, next_update, attempt, quiet, lost>>

-----------------------------------------------------------------------------
(* Pure helpers.                                                           *)

Terminal == {"CONNECTION_RESET_BY_PEER", "UNACCEPTABLE_PROTOCOL_VERSION",
             "IDENTIFIER_REJECTED", "BAD_USERNAME_OR_PASSWORD",
             "NOT_AUTHORIZED"}

Harmless == {"OK", "WRITTEN"}

\* iotc_backoff_classify_state
ClassOf(result) ==
  IF result \in Terminal THEN "TERMINAL"
  ELSE IF result \in Harmless THEN "NONE"
  ELSE "RECOVERABLE"

AtMost(n, bound) == IF n > bound THEN bound ELSE n
AtLeast(n, bound) == IF n < bound THEN bound ELSE n

\* Mutant: the spread follows the current entry.
FullRangeOfCurrent(i) == BackoffLut[i]

\* The width of the random spread around the delay of index i, and the half
\* of it that is subtracted.
FullRange(i) == IF i = 0 THEN 0 ELSE BackoffLut[i - 1]
HalfRange(i) == AtLeast(FullRange(i) \div 2, 1)

\* iotc_get_backoff_penalty: every value it can return for index i.
Penalties(i) ==
  {AtLeast(BackoffLut[i] + rand - HalfRange(i), BackoffLut[0]) :
     rand \in 0..FullRange(i)}

-----------------------------------------------------------------------------
(* The status.                                                             *)

Init ==
  /\ backoff_class = "NONE"
  /\ backoff_lut_i = 0
  /\ next_update = NoEvent
  /\ attempt = [index |-> 0, penalty |-> BackoffLut[0]]
  /\ quiet = 0
  /\ lost = FALSE

\* The event is due: the dispatcher has taken it before it calls the handler.
CooldownDue == next_update = 0

\* Mutant: a scheduled event is left where it is.
RestartUpdateTimeOnce(i) ==
  /\ next_update' = IF next_update = NoEvent THEN DecayLut[i] ELSE next_update
  /\ lost' = FALSE

Schedule(i) ==
  /\ next_update' = DecayLut[i]
  /\ lost' = FALSE

\* There is no memory for a new event.
CannotSchedule ==
  /\ OutOfMemory
  /\ next_update' = NoEvent
  /\ lost' = TRUE

\* iotc_restart_update_time for index i: a scheduled event is moved, otherwise
\* one is added.
RestartUpdateTime(i) ==
  \/ Schedule(i)
  \/ next_update = NoEvent /\ CannotSchedule

\* iotc_apply_cooldown once its event is taken, for the index i it leaves.
NextCooldown(i) ==
  \/ i > 0 /\ (Schedule(i) \/ CannotSchedule)
  \/ i = 0 /\ next_update' = NoEvent /\ UNCHANGED lost

\* iotc_update_backoff_penalty with a result that is no error
ReportHealthy(result) ==
  /\ ClassOf(result) = "NONE"
  /\ backoff_class' = "NONE"
  /\ UNCHANGED <<backoff_lut_i, next_update, attempt, quiet, lost>>

\* iotc_update_backoff_penalty with an error, iotc_inc_backoff_penalty
ReportError(result) ==
  /\ ClassOf(result) # "NONE"
  /\ backoff_class' = ClassOf(result)
  /\ backoff_lut_i' = AtMost(backoff_lut_i + 1, Top)
  /\ RestartUpdateTime(backoff_lut_i')
  /\ quiet' = 0
  /\ UNCHANGED attempt

\* iotc_connect_to delays the attempt it makes by iotc_get_backoff_penalty.
Connect(p) ==
  /\ p \in Penalties(backoff_lut_i)
  /\ attempt' = [index |-> backoff_lut_i, penalty |-> p]
  /\ UNCHANGED <<backoff_class, backoff_lut_i, next_update, quiet, lost>>

\* Mutant: the event is scheduled again only when the index went down.
CooldownWhileInErrorEnds ==
  /\ CooldownDue
  /\ backoff_class # "NONE"
  /\ next_update' = NoEvent
  /\ UNCHANGED <<backoff_class, backoff_lut_i, attempt, quiet, lost>>

\* iotc_apply_cooldown while the last result was an error: the index stays.
CooldownWhileInError ==
  /\ CooldownDue
  /\ backoff_class # "NONE"
  /\ NextCooldown(backoff_lut_i)
  /\ UNCHANGED <<backoff_class, backoff_lut_i, attempt, quiet>>

\* Mutant: the index goes down without a new cooldown.
CooldownOnce ==
  /\ CooldownDue
  /\ backoff_class = "NONE"
  /\ backoff_lut_i' = AtLeast(backoff_lut_i - 1, 0)
  /\ next_update' = NoEvent
  /\ quiet' = 0
  /\ UNCHANGED <<backoff_class, attempt, lost>>

\* iotc_apply_cooldown otherwise, iotc_dec_backoff_penalty
Cooldown ==
  /\ CooldownDue
  /\ backoff_class = "NONE"
  /\ backoff_lut_i' = AtLeast(backoff_lut_i - 1, 0)
  /\ NextCooldown(backoff_lut_i')
  /\ quiet' = 0
  /\ UNCHANGED <<backoff_class, attempt>>

\* The last context is deleted, which cancels the event with the dispatcher
\* it was scheduled on, and a new one is created: index and class remain.
RecreateContext ==
  /\ Recreate
  /\ next_update' = NoEvent
  /\ lost' = TRUE
  /\ UNCHANGED <<backoff_class, backoff_lut_i, attempt, quiet>>

\* A second passes; an event that is due is run before the next one.
Tick ==
  /\ ~CooldownDue
  /\ next_update' = IF next_update = NoEvent THEN NoEvent ELSE next_update - 1
  /\ quiet' = AtMost(quiet + 1, MaxQuiet)
  /\ UNCHANGED <<backoff_class, backoff_lut_i, attempt, lost>>

Next ==
  \/ \E result \in Results : ReportHealthy(result) \/ ReportError(result)
  \/ \E p \in Penalties(backoff_lut_i) : Connect(p)
  \/ CooldownWhileInError
  \/ Cooldown
  \/ RecreateContext
  \/ Tick

Spec == Init /\ [][Next]_vars

\* Time passes and the dispatcher runs due events.
LiveSpec == Spec /\ WF_vars(Tick) /\ WF_vars(Cooldown)
                 /\ WF_vars(CooldownWhileInError)

-----------------------------------------------------------------------------
(* Properties.                                                             *)

TypeOK ==
  /\ backoff_class \in {"NONE", "RECOVERABLE", "TERMINAL"}
  /\ backoff_lut_i \in 0..Top
  /\ next_update \in {NoEvent} \cup 0..MaxQuiet
  /\ attempt \in [index : 0..Top, penalty : Nat]
  /\ quiet \in 0..MaxQuiet
  /\ lost \in BOOLEAN

\* While a penalty is in force a cooldown is scheduled, so that it can end,
\* unless the event could not be added or went with the last context.
PenaltyCanEnd == backoff_lut_i > 0 => next_update # NoEvent \/ lost

\* A delay stays within half of the previous entry around the entry of its
\* index, give or take the rounding of an odd entry, and is never shorter
\* than the first entry (iotc_backoff_status_api.c:66-86).
PenaltyInRange ==
  LET i == attempt.index
  IN  /\ attempt.penalty >= BackoffLut[0]
      /\ attempt.penalty >= BackoffLut[i] - HalfRange(i)
      /\ \/ attempt.penalty = BackoffLut[0]
         \/ attempt.penalty <= BackoffLut[i] + FullRange(i) - HalfRange(i)

\* The index goes down one entry at a time, and only after a whole cooldown
\* of that entry without an error.
CooldownIsEarned ==
  [][backoff_lut_i' < backoff_lut_i =>
       /\ backoff_lut_i' = backoff_lut_i - 1
       /\ quiet >= DecayLut[backoff_lut_i]]_vars

\* An attempt made at a higher index waits longer than the one before it,
\* whatever the random spread of the two.
DelaysEscalate ==
  [][attempt'.index > attempt.index
       => attempt'.penalty > attempt.penalty]_vars

\* A device that stays healthy gets rid of its penalty (user_guide.md:96),
\* unless the cooldown is lost for good.
HealthyRecovers ==
  <>[](backoff_class = "NONE" /\ ~lost) => <>[](backoff_lut_i = 0)
=============================================================================
