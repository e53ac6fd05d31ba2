--------------------------- MODULE CircuitBreaker ---------------------------
(***************************************************************************)
(* src/proxy/circuit-breaker.ts: the circuit of one key.  Circuits of      *)
(* different keys share nothing, so one of them is the whole behaviour.    *)
(*                                                                         *)
(* A call is made under protection (withCircuitBreaker): it is admitted by *)
(* canExecute, runs for as long as it likes, and then reports a success or *)
(* a failure.  The report is read against the state the circuit is in WHEN *)
(* IT ARRIVES, which need not be the state that admitted the call.         *)
(***************************************************************************)
EXTENDS Integers, FiniteSets

CONSTANTS Calls,             \* the calls that may be in flight together
          FailureThreshold,  \* failures in the window that open the circuit
          SuccessThreshold,  \* successes that close it again
          HalfOpenMax        \* config.halfOpenMaxConcurrent

ASSUME BreakerAssumption ==
    /\ FailureThreshold \in Nat \ {0}
    /\ SuccessThreshold \in Nat \ {0}
    /\ HalfOpenMax \in Nat \ {0}
    /\ IsFiniteSet(Calls)

VARIABLES
    circuit,  \* the entry of the key, or NoCircuit
    due,      \* the circuit is open, and has been for resetTimeout
    call,     \* the calls: idle, admitted as a "trial" of the present half-open
              \* period, or "plain": admitted otherwise, or in an earlier period
    period    \* what happened in the present half-open period (history)

breakerVars == <<circuit, due, call, period>>

NoCircuit == [state |-> "absent", failures |-> 0, successes |-> 0, slots |-> 0]

NewCircuit == [NoCircuit EXCEPT !.state = "closed"]

Circuits == [state : {"absent", "closed", "open", "half_open"},
             failures : 0 .. FailureThreshold,
             successes : 0 .. SuccessThreshold,
             slots : 0 .. HalfOpenMax + 1]

Periods == [late : 0 .. Cardinality(Calls),   \* results of calls that were no trials
            good : 0 .. SuccessThreshold,     \* successes of its trials
            forced : BOOLEAN]  \* this period or an earlier one was cut short by
                               \* forceState, and no reset came since

NewPeriod == [late |-> 0, good |-> 0, forced |-> FALSE]

Trials == {c \in Calls : call[c] = "trial"}

BreakerInit == /\ circuit = NoCircuit
               /\ due = FALSE
               /\ call = [c \in Calls |-> "idle"]
               /\ period = NewPeriod

-----------------------------------------------------------------------------
\* The entry an operation works on (getOrCreateCircuit).
Entry == IF circuit = NoCircuit THEN NewCircuit ELSE circuit

\* Leaving the half-open state ends its period: what is still in flight is late.
LateCalls == [c \in Calls |-> IF call[c] = "trial" THEN "plain" ELSE call[c]]

EndPeriod(p) == call' = LateCalls /\ period' = p

\* The same when it is the result of call c that ends it.
EndPeriodWith(c) == /\ call' = [LateCalls EXCEPT ![c] = "idle"]
                    /\ period' = [NewPeriod EXCEPT !.forced = period.forced]

\* A call is let through; anything refused throws CircuitOpenError and changes
\* at most the entry, which getOrCreateCircuit makes.
AdmitClosed(c) ==
    /\ call[c] = "idle" /\ Entry.state = "closed"
    /\ circuit' = Entry
    /\ call' = [call EXCEPT ![c] = "plain"]
    /\ UNCHANGED <<due, period>>

AdmitOpen(c) ==
    /\ call[c] = "idle" /\ circuit.state = "open" /\ due
    /\ circuit' = [circuit EXCEPT !.state = "half_open", !.slots = @ + 1]
    /\ due' = FALSE
    /\ call' = [call EXCEPT ![c] = "trial"]
    /\ UNCHANGED period

\* Variant of HasSlot: one too many.
HasSlotAtLimit == circuit.slots <= HalfOpenMax

HasSlot == circuit.slots < HalfOpenMax

AdmitHalfOpen(c) ==
    /\ call[c] = "idle" /\ circuit.state = "half_open" /\ HasSlot
    /\ circuit' = [circuit EXCEPT !.slots = @ + 1]
    /\ call' = [call EXCEPT ![c] = "trial"]
    /\ UNCHANGED <<due, period>>

\* Variant of FreeSlot: it goes below zero.
FreeSlotUnclamped(k) == [k EXCEPT !.slots = @ - 1]

\* Variant of FreeSlot: a result gives nothing back.
FreeSlotNever(k) == k

FreeSlot(k) == [k EXCEPT !.slots = IF @ > 0 THEN @ - 1 ELSE 0]

\* What a success adds to the history of the period it arrives in.
Noted(c) == [period EXCEPT !.late = IF call[c] = "plain" THEN @ + 1 ELSE @,
                                 !.good = IF call[c] = "trial" THEN @ + 1 ELSE @]

\* recordSuccess: forgotten circuits, and open ones, take no notice.
SucceedHalfOpen(c) ==
    LET k == FreeSlot([circuit EXCEPT !.successes = @ + 1])
    IN  /\ circuit.state = "half_open"
        /\ IF k.successes >= SuccessThreshold
           THEN /\ circuit' = [k EXCEPT !.state = "closed", !.failures = 0, !.successes = 0]
                /\ EndPeriodWith(c)
           ELSE /\ circuit' = k
                /\ call' = [call EXCEPT ![c] = "idle"]
                /\ period' = Noted(c)

Succeed(c) == /\ call[c] # "idle"
              /\ \/ SucceedHalfOpen(c)
                 \/ /\ circuit.state # "half_open"
                    /\ call' = [call EXCEPT ![c] = "idle"]
                    /\ UNCHANGED <<circuit, period>>
              /\ UNCHANGED due

\* recordFailure.  The failures counted are those still in the window.
FailClosed(c) ==
    LET n == Entry.failures + 1
        tripped == n >= FailureThreshold
    IN  /\ Entry.state = "closed"
        /\ circuit' = [Entry EXCEPT !.failures = n, !.state = IF tripped THEN "open" ELSE @]
        /\ due' = (due /\ ~tripped)
        /\ call' = [call EXCEPT ![c] = "idle"]
        /\ UNCHANGED period

\* Variant of FailHalfOpen: the successes of the period are not forgotten.
FailHalfOpenKeeping(c) ==
    /\ circuit.state = "half_open"
    /\ circuit' = [FreeSlot(circuit) EXCEPT !.state = "open"]
    /\ due' = FALSE
    /\ EndPeriodWith(c)

FailHalfOpen(c) ==
    /\ circuit.state = "half_open"
    /\ circuit' = [FreeSlot(circuit) EXCEPT !.state = "open", !.successes = 0]
    /\ due' = FALSE
    /\ EndPeriodWith(c)

FailOpen(c) ==
    /\ circuit.state = "open"
    /\ call' = [call EXCEPT ![c] = "idle"]
    /\ UNCHANGED <<circuit, due, period>>

Fail(c) == /\ call[c] # "idle"
           /\ FailClosed(c) \/ FailHalfOpen(c) \/ FailOpen(c)

\* Time: resetTimeout elapses, a failure leaves the window.
ResetDue == /\ circuit.state = "open" /\ ~due
            /\ due' = TRUE
            /\ UNCHANGED <<circuit, call, period>>

FailureAges == /\ circuit.failures > 0
               /\ circuit' = [circuit EXCEPT !.failures = @ - 1]
               /\ UNCHANGED <<due, call, period>>

\* An operator's forceState: the slots taken, and unless it closes the circuit
\* the successes counted, stay as they are.  Every period cut short this way can
\* leave a slot taken: the guard on slots bounds how many the model follows.
ForceState(s) ==
    /\ circuit.slots <= HalfOpenMax
    /\ circuit' = IF s = "closed"
                  THEN [Entry EXCEPT !.state = s, !.failures = 0, !.successes = 0]
                  ELSE [Entry EXCEPT !.state = s]
    /\ due' = FALSE
    /\ IF circuit.state = "half_open" /\ s # "half_open"
       THEN EndPeriod([NewPeriod EXCEPT !.forced = TRUE])
       ELSE UNCHANGED <<call, period>>

\* reset, and resetAll for the one circuit there is; remove.
ResetCircuit == /\ circuit # NoCircuit
                /\ circuit' = NewCircuit
                /\ due' = FALSE
                /\ EndPeriod(NewPeriod)

RemoveCircuit == /\ circuit # NoCircuit
                 /\ circuit' = NoCircuit
                 /\ due' = FALSE
                 /\ EndPeriod(NewPeriod)

BreakerNext ==
    \/ \E c \in Calls : \/ AdmitClosed(c) \/ AdmitOpen(c) \/ AdmitHalfOpen(c)
                        \/ Succeed(c) \/ Fail(c)
    \/ ResetDue \/ FailureAges \/ ResetCircuit \/ RemoveCircuit
    \/ \E s \in {"closed", "open", "half_open"} : ForceState(s)

BreakerSpec == BreakerInit /\ [][BreakerNext]_breakerVars

-----------------------------------------------------------------------------
\* Types: the entry's counters stay within what their thresholds allow.
BreakerTypeOK == /\ circuit \in Circuits
                 /\ due \in BOOLEAN
                 /\ call \in [Calls -> {"idle", "trial", "plain"}]
                 /\ period \in Periods

\* No more than halfOpenMaxConcurrent trials run at a time, except one for
\* every result of an earlier period that arrived in this one: it frees a slot
\* it never took.
TrialsBounded ==
    circuit.state = "half_open" => Cardinality(Trials) <= HalfOpenMax + period.late

\* A half-open circuit with no trial in flight admits the next call: the slots
\* that results arriving after a period never gave back are fewer than
\* halfOpenMaxConcurrent, unless forceState cut a period short.
HalfOpenAdmits ==
    circuit.state = "half_open" /\ Trials = {} /\ ~period.forced => HasSlot

\* The slots of the half-open state are neither overdrawn nor lost.
SlotsBalance == TrialsBounded /\ HalfOpenAdmits

\* The successes that will close the circuit are those of this period's trials,
\* and of late results that arrived in it; none is left from an earlier period,
\* unless forceState cut it short.
RecoveryEarned ==
    circuit.state = "half_open" /\ ~period.forced
        => circuit.successes <= period.good + period.late
=============================================================================
