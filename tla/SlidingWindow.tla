--------------------------- MODULE SlidingWindow ---------------------------
(* llm_scheduler/utils/time_utils.py, SlidingWindow: the events of the last *)
(* window_size seconds.  Its users, tasks of one event loop, ask can_add    *)
(* and add some time later, and nothing keeps two of them from having asked *)
(* before either adds.                                                      *)
EXTENDS Integers, FiniteSetsExt

CONSTANTS
    WindowSize,    \* window_size, in ticks
    WindowLimit,   \* the limit given to can_add
    WindowCallers, \* the tasks that share the window
    MaxCount,      \* bound of the counts they ask for
    WindowHorizon  \* bound of the clock

ASSUME WindowAssumption ==
    /\ WindowSize \in Nat \ {0} /\ WindowLimit \in Nat
    /\ IsFiniteSet(WindowCallers) /\ WindowCallers # {}
    /\ MaxCount \in Nat \ {0} /\ WindowHorizon \in Nat

VARIABLES
    windowClock,   \* time.time()
    windowEvents,  \* _events: for each tick, the sum of the counts added in it
    granted,       \* for each caller, the count it was granted and is to add
    everAdded      \* history: the same, of every event ever added

windowVars == <<windowClock, windowEvents, granted, everAdded>>

WindowTicks == 0..WindowHorizon
NoEvents == [t \in WindowTicks |-> 0]

WindowInit ==
    /\ windowClock = 0 /\ windowEvents = NoEvents /\ everAdded = NoEvents
    /\ granted = [c \in WindowCallers |-> 0]

(* Faulty variant: an event lapses one tick early.                          *)
Recent_TooFew(events) ==
    [t \in WindowTicks |->
        IF t > windowClock - WindowSize + 1 THEN events[t] ELSE 0]

(* _cleanup *)
Recent(events) ==
    [t \in WindowTicks |-> IF t > windowClock - WindowSize THEN events[t] ELSE 0]

TotalIn(events, ticks) == MapThenSumSet(LAMBDA t : events[t], ticks)
TotalOf(events) == TotalIn(events, WindowTicks)

CanAdd(c, n) ==
    /\ granted[c] = 0
    /\ windowEvents' = Recent(windowEvents)
    /\ \/ /\ TotalOf(windowEvents') + n <= WindowLimit
          /\ granted' = [granted EXCEPT ![c] = n]
       \/ /\ TotalOf(windowEvents') + n > WindowLimit
          /\ UNCHANGED granted
    /\ UNCHANGED <<windowClock, everAdded>>

Add(c) ==
    /\ granted[c] > 0
    /\ windowEvents' = Recent([windowEvents EXCEPT ![windowClock] = @ + granted[c]])
    /\ everAdded' = [everAdded EXCEPT ![windowClock] = @ + granted[c]]
    /\ granted' = [granted EXCEPT ![c] = 0]
    /\ UNCHANGED windowClock

WindowTick ==
    /\ windowClock < WindowHorizon /\ windowClock' = windowClock + 1
    /\ UNCHANGED <<windowEvents, granted, everAdded>>

WindowNext ==
    \/ WindowTick
    \/ \E c \in WindowCallers :
          Add(c) \/ \E n \in 1..MaxCount : CanAdd(c, n)

WindowSpec == WindowInit /\ [][WindowNext]_windowVars

(* What the other callers may hold a yes for when the last of them asks.    *)
OthersGrants == (Cardinality(WindowCallers) - 1) * MaxCount

(* However the events lie, and however long each user takes between can_add *)
(* and add, no stretch of window_size ticks holds more than the limit and   *)
(* one grant of every other user, whether or not the window was ever        *)
(* counted at its end; a user alone never exceeds the limit                 *)
(* (time_utils.py:60-81).                                                   *)
WindowHolds ==
    \A end \in 0..windowClock :
        TotalIn(everAdded, {t \in WindowTicks : end - WindowSize < t /\ t <= end})
            <= WindowLimit + OthersGrants
=============================================================================
