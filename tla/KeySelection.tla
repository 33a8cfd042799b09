---------------------------- MODULE KeySelection ----------------------------
(***************************************************************************)
(* The ways the server chooses a key: KeyManager.select_key, the tracker's  *)
(* get_available_keys, get_best_key and get_earliest_available_key, and the *)
(* classes of llm_scheduler/strategies, over the keys of the module         *)
(* KeyManager.  The scheduler calls select_key with least_utilized only.    *)
(***************************************************************************)
EXTENDS Integers, Sequences, SequencesExt, FiniteSetsExt

CONSTANTS
    KeyOrder,            \* Seq: the keys in the order they were registered
    ProviderOf,          \* [keys -> providers]
    ProviderOrder,       \* Seq: provider_order of the fallback strategy
    KeyTpm, KeyRpm,      \* [keys -> Nat]: their limits
    KeyRate,             \* [keys -> Nat]: refill per tick, of both buckets
    Estimates,           \* estimated_tokens of the requests
    HealthLimit,         \* is_healthy's 5
    SelectionBound,      \* bound of the clock; no key is reserved on credit twice
    NoKey                \* None

ServerKeys == ToSet(KeyOrder)
Providers == {ProviderOf[k] : k \in ServerKeys}

ASSUME KeySelectionAssumption ==
    /\ KeyOrder \in Seq(ServerKeys) /\ ProviderOrder \in Seq(ToSet(ProviderOrder))
    /\ KeyTpm \in [ServerKeys -> Nat \ {0}] /\ KeyRpm \in [ServerKeys -> Nat \ {0}]
    /\ KeyRate \in [ServerKeys -> Nat \ {0}] /\ Estimates \subseteq Nat \ {0}
    /\ HealthLimit \in Nat \ {0} /\ SelectionBound \in Nat
    /\ NoKey \notin ServerKeys /\ NoKey \notin Providers

VARIABLES
    keyTpm, keyRpm, keyErrors, keyErrorAge,  \* the variables of KeyManager
    selectionClock,                          \* time.time()
    request,                                 \* estimated_tokens of the request in hand, or 0
    lastRequest                              \* last_request_time

selectionVars == <<keyTpm, keyRpm, keyErrors, keyErrorAge, selectionClock,
                   request, lastRequest>>

KM == INSTANCE KeyManager WITH
    Keys <- ServerKeys, TpmLimit <- KeyTpm, RpmLimit <- KeyRpm,
    TpmRate <- KeyRate, RpmRate <- KeyRate, Strategy <- "least_utilized",
    ErrorLimit <- HealthLimit, ErrorCap <- HealthLimit, AgeCap <- 2,
    Backoff <- [e \in 0..HealthLimit |-> 0],
    tpm <- keyTpm, rpm <- keyRpm, errors <- keyErrors, errorAge <- keyErrorAge

SelectionInit ==
    /\ KM!KeyInit
    /\ selectionClock = 0 /\ request = 0 /\ lastRequest = [k \in ServerKeys |-> 0]

Arrive(n) ==
    /\ request = 0 /\ request' = n
    /\ UNCHANGED <<keyTpm, keyRpm, keyErrors, keyErrorAge, selectionClock, lastRequest>>

(* The request reserves a key, whatever chose it.                           *)
ReserveKey(k) ==
    /\ request > 0 /\ request' = 0
    /\ keyTpm[k] >= 0 /\ keyRpm[k] >= 0
    /\ KM!Reserve(k, request)
    /\ lastRequest' = [lastRequest EXCEPT ![k] = selectionClock]
    /\ UNCHANGED selectionClock

FailKey(k) ==
    /\ KM!RecordFailure(k)
    /\ UNCHANGED <<keyTpm, keyRpm, selectionClock, request, lastRequest>>

SelectionTick ==
    /\ selectionClock < SelectionBound
    /\ selectionClock' = selectionClock + 1
    /\ KM!KeyTick /\ UNCHANGED <<request, lastRequest>>

SelectionNext ==
    \/ SelectionTick
    \/ \E n \in Estimates : Arrive(n)
    \/ \E k \in ServerKeys : FailKey(k) \/ ReserveKey(k)

SelectionSpec == SelectionInit /\ [][SelectionNext]_selectionVars

-----------------------------------------------------------------------------
(* Keys are told by their places in the list.  An order is the set of the   *)
(* pairs whose first is no worse than the second.                           *)
KeyIndices == DOMAIN KeyOrder
Pairs == ServerKeys \X ServerKeys

AsLittleUsed == {p \in Pairs : KM!NoMoreUsed(p[1], p[2])}
AsLongAgo == {p \in Pairs : lastRequest[p[1]] <= lastRequest[p[2]]}
AsTight == {p \in Pairs : keyTpm[p[1]] <= keyTpm[p[2]]}
AsSoon(n) ==
    {p \in Pairs : KM!TimeUntilAvailable(p[1], n) <= KM!TimeUntilAvailable(p[2], n)}

(* min(keys, key=...): the first of the least.                              *)
FirstLeastOf(places, order) ==
    KeyOrder[Min({i \in places :
                     \A j \in places : <<KeyOrder[i], KeyOrder[j]>> \in order})]

Of(provider) == {i \in KeyIndices : provider \in {NoKey, ProviderOf[KeyOrder[i]]}}
HealthyOf(places) == {i \in places : KM!Healthy(KeyOrder[i])}
ReadyOf(places, n) == {i \in HealthyOf(places) : KM!CanHandle(KeyOrder[i], n)}

GetAvailableKeys(n, provider) == ReadyOf(Of(provider), n)

GetBestKey(n, provider, strategy_) ==
    LET available == GetAvailableKeys(n, provider) IN
    IF available = {} THEN NoKey
    ELSE CASE strategy_ = "least_utilized" -> FirstLeastOf(available, AsLittleUsed)
           [] strategy_ = "round_robin"    -> FirstLeastOf(available, AsLongAgo)
           [] OTHER                        -> KeyOrder[Min(available)]

Nobody == [key |-> NoKey, wait |-> 0]

GetEarliestAvailableKey(n, provider) ==
    LET healthy == HealthyOf(Of(provider))
        best == FirstLeastOf(healthy, AsSoon(n))
    IN IF healthy = {} THEN Nobody
       ELSE [key |-> best, wait |-> KM!TimeUntilAvailable(best, n)]

(* What select_key compares: any other strategy stops at the first key.     *)
OrderOf(strategy_) ==
    CASE strategy_ = "least_utilized" -> AsLittleUsed
      [] strategy_ = "round_robin"    -> AsLongAgo
      [] OTHER                        -> Pairs

(* Faulty variant: a later key that is as good takes over.                  *)
Better_OrEqual(order, k, best) == best = NoKey \/ <<k, best>> \in order

Better(order, k, best) == best = NoKey \/ <<best, k>> \notin order

(* select_key's two walks along the keys, which keep the best so far.       *)
Walk(places, order) ==
    LET best[i \in 0..Len(KeyOrder)] ==
            IF i = 0 THEN NoKey
            ELSE IF i \in places /\ Better(order, KeyOrder[i], best[i - 1])
                 THEN KeyOrder[i] ELSE best[i - 1]
    IN best[Len(KeyOrder)]

(* The keys of the preferred provider, or all if it has none: a provider    *)
(* whose keys are merely exhausted is waited for.                           *)
CandidatesFor(provider) == IF Of(provider) = {} THEN KeyIndices ELSE Of(provider)

SelectKey(n, strategy_, provider) ==
    LET candidates == CandidatesFor(provider)
        best == Walk(ReadyOf(candidates, n), OrderOf(strategy_))
        earliest == Walk(HealthyOf(candidates), AsSoon(n))
    IN IF best # NoKey THEN [key |-> best, wait |-> 0]
       ELSE IF earliest # NoKey
            THEN [key |-> earliest, wait |-> KM!TimeUntilAvailable(earliest, n)]
       ELSE Nobody

(* The strategies' select, on candidates that may be any keys.              *)
LeastUtilizedSelect(places) ==
    IF places = {} THEN NoKey ELSE FirstLeastOf(places, AsLittleUsed)

RoundRobinSelect(places) ==
    IF places = {} THEN NoKey ELSE FirstLeastOf(places, AsLongAgo)

TokenAwareSelect(places, n) ==
    LET viable == {i \in places : keyTpm[KeyOrder[i]] >= n}
    IN IF viable = {} THEN LeastUtilizedSelect(places) ELSE FirstLeastOf(viable, AsTight)

FallbackSelect(places) ==
    LET itsKeys(r) == {i \in places : ProviderOf[KeyOrder[i]] = ProviderOrder[r]}
        serving == {r \in DOMAIN ProviderOrder : itsKeys(r) # {}}
    IN LeastUtilizedSelect(IF serving = {} THEN places ELSE itsKeys(Min(serving)))

-----------------------------------------------------------------------------
(* The place of a key's provider in provider_order, or the one after all.   *)
Rank(k) ==
    Min({r \in DOMAIN ProviderOrder : ProviderOrder[r] = ProviderOf[k]}
          \cup {Len(ProviderOrder) + 1})

(* The server's several ways of choosing a key are one: select_key chooses  *)
(* what get_best_key and the strategy class choose, first registered first  *)
(* among equals, and what the scheduler's model lets it choose; it defers   *)
(* exactly when the tracker finds no key available, to the key and the wait *)
(* of get_earliest_available_key.  No strategy ever picks a key without     *)
(* capacity, fallback none of a provider that comes after an available      *)
(* one's, token_aware none that wastes more than another                    *)
(* (key_manager.py:103-202, tracker.py:164-248, strategies/*.py).           *)
SelectionsAgree ==
    request > 0 =>
        LET n == request
            available == GetAvailableKeys(n, NoKey)
            keys == {KeyOrder[i] : i \in available}
            Selected(s) == SelectKey(n, s, NoKey)
            fallback == FallbackSelect(available)
            fitting == TokenAwareSelect(available, n)
        IN /\ \A s \in {"least_utilized", "round_robin", "first"} :
                 Selected(s) = IF available = {} THEN GetEarliestAvailableKey(n, NoKey)
                               ELSE [key |-> GetBestKey(n, NoKey, s), wait |-> 0]
           /\ Selected("least_utilized") \in
                 IF KM!Selections(ServerKeys, n) = {} THEN {Nobody}
                                                   ELSE KM!Selections(ServerKeys, n)
           /\ LeastUtilizedSelect(available) = GetBestKey(n, NoKey, "least_utilized")
           /\ RoundRobinSelect(available) = GetBestKey(n, NoKey, "round_robin")
           /\ available # {} =>
                 /\ {fallback, fitting} \subseteq keys
                 /\ \A k \in keys :
                       Rank(fallback) <= Rank(k) /\ keyTpm[fitting] <= keyTpm[k]
           /\ \A p \in Providers :
                 SelectKey(n, "least_utilized", p).key
                     \in {k \in ServerKeys : ProviderOf[k] = p} \cup {NoKey}
=============================================================================
