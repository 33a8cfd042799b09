------------------------------- MODULE Client -------------------------------
(***************************************************************************)
(* The SDK's client, maxllm_gate/client.py, called from several threads.    *)
(* A sync call runs its request on an event loop of its own (asyncio.run),  *)
(* a stream does so in a background thread, and a call made inside a        *)
(* running loop hands its request to that loop and blocks it.  All of them  *)
(* share the configuration, the rate limiter and one asyncio.Semaphore,     *)
(* which is neither thread-safe nor usable from two loops.                  *)
(*                                                                         *)
(* A step is what CPython 3.11 does between two points where it may switch  *)
(* threads: calls, loop heads and awaits.  So self._value -= 1 is atomic,   *)
(* and a check followed by an update across a call is not.  Attempts,       *)
(* fallbacks and breakers are SdkScheduler's: none of a request's attempts  *)
(* takes capacity or lets go of its permit, so here they are one place, and *)
(* any circuit may be open at any time.                                     *)
(***************************************************************************)
EXTENDS Integers, Sequences, SequencesExt, FiniteSets

CONSTANTS
    Threads,       \* threads that call the client
    Kinds,         \* [Threads -> SUBSET AllKinds]: what each may call
    Configured,    \* Seq of keys: config.keys at construction
    Added,         \* keys that add_key adds, each in a thread of its own
    MaxConcurrent, \* config.max_concurrent_requests
    RpmLimit,      \* rpm_limit of every key
    TpmLimit,      \* tpm_limit of every key
    Estimate,      \* total_estimate of every request
    MaxOps,        \* bound: calls, added keys and shutdowns together
    MaxChunks,     \* bound: chunks per stream
    Refilled,      \* bound: the keys whose buckets time refills
    NoOne          \* no loop, no waiter, no key

AllKinds == {"chat", "stream", "nested"}
AllKeys == ToSet(Configured) \cup Added
Loops == Threads \X Nat

(* Keys are told apart by their key_id, which a configuration file gives    *)
(* each once; a key added under an id in use would be registered once more. *)
ASSUME ClientAssumption ==
    /\ IsFiniteSet(Threads) /\ Kinds \in [Threads -> SUBSET AllKinds]
    /\ Configured \in Seq(AllKeys) /\ IsFiniteSet(Added)
    /\ IsInjective(Configured) /\ Added \cap ToSet(Configured) = {}
    /\ MaxConcurrent \in Nat \ {0} /\ RpmLimit \in Nat \ {0}
    /\ Estimate \in Nat \ {0} /\ TpmLimit \in Nat \ {0}
    /\ MaxOps \in Nat /\ MaxChunks \in Nat
    /\ NoOne \notin AllKeys /\ NoOne \notin Loops

VARIABLES
    \* the client and its limiter
    initialized,   \* _initialized
    configKeys,    \* config.keys
    adder,         \* [Added -> where add_key is]
    stopping,      \* _shutdown._shutdown
    states,        \* [AllKeys -> Seq]: every KeyState made for a key, the
                   \*   registered one last: its two buckets
    modelIndex,    \* the keys _model_index lists for the one model
    \* the semaphore
    value,         \* _value
    boundTo,       \* _loop, for ever the first loop that had to wait
    waiter,        \* whose future is in _waiters; one loop, so one at most
    handed,        \* has that future its result?
    lost,          \* history: permits taken for a future that was done
    \* the threads
    pc, made, kind, pos, key, aim,
    outcome,       \* how the request ended
    caller,        \* what its caller has seen
    \* the streams
    produced,      \* chunks put into chunk_queue
    chunkQueue,    \* chunk_queue
    received       \* chunks the consumer has got

limiterVars == <<initialized, configKeys, adder, states, modelIndex>>
semVars == <<value, boundTo, waiter, handed, lost>>
callVars == <<made, kind>>
streamVars == <<produced, chunkQueue, received>>
vars == <<limiterVars, stopping, semVars, callVars, pos, key, aim, pc,
          outcome, caller, streamVars>>

Init ==
    /\ initialized = FALSE /\ configKeys = Configured /\ stopping = FALSE
    /\ adder = [k \in Added |-> "idle"]
    /\ states = [k \in AllKeys |-> <<>>] /\ modelIndex = {}
    /\ value = MaxConcurrent /\ boundTo = NoOne /\ waiter = NoOne
    /\ handed = FALSE /\ lost = 0
    /\ pc = [t \in Threads |-> "idle"] /\ made = [t \in Threads |-> 0]
    /\ kind = [t \in Threads |-> "chat"]
    /\ pos = [t \in Threads |-> 1]
    /\ key = [t \in Threads |-> NoOne] /\ aim = [t \in Threads |-> NoOne]
    /\ outcome = [t \in Threads |-> "none"]
    /\ caller = [t \in Threads |-> "idle"]
    /\ produced = [t \in Threads |-> 0]
    /\ chunkQueue = [t \in Threads |-> <<>>]
    /\ received = [t \in Threads |-> 0]

-----------------------------------------------------------------------------
(* The loop a request runs on: one for each asyncio.run, or the caller's.   *)
LoopOf(t) == <<t, IF kind[t] = "nested" THEN 0 ELSE made[t]>>

Goto(t, place) == pc' = [pc EXCEPT ![t] = place]

End(t, how) ==
    /\ outcome' = [outcome EXCEPT ![t] = how]
    /\ Goto(t, "ending")

Moves(t, from, to) == pc[t] = from /\ Goto(t, to)

(* A bucket's tokens, and two history fields: how often a request left it   *)
(* with less than the next one needs, and how many were let go unpaid.      *)
FullBucket(limit) == [tokens |-> limit, dried |-> 0, unpaid |-> 0]

(* register_key: a new KeyState with full buckets replaces the old one, and *)
(* the model lists the key (once more: that changes no choice).  No other   *)
(* thread gets in between.                                                  *)
Register(k) ==
    /\ states' = [states EXCEPT ![k] =
          Append(@, [rpm |-> FullBucket(RpmLimit), tpm |-> FullBucket(TpmLimit)])]
    /\ modelIndex' = modelIndex \cup {k}

Registered(k) == states[k] # <<>>

(* Something of the bounded number of things to do is left.                 *)
MoreToDo ==
    SumFunction(made) + Cardinality({k \in Added : adder[k] # "idle"})
                      + (IF stopping THEN 1 ELSE 0) < MaxOps

(* A thread calls once it is done with its last call, the stream or the     *)
(* orphan that call left behind included.                                   *)
Call(t) ==
    /\ pc[t] = "idle" /\ caller[t] # "waiting" /\ MoreToDo
    /\ \E how \in Kinds[t] :
          /\ kind' = [kind EXCEPT ![t] = how]
          /\ Goto(t, IF ~ initialized THEN "registering"
                     ELSE IF how = "nested" THEN "blocked" ELSE "submit")
    /\ made' = [made EXCEPT ![t] = @ + 1]
    /\ outcome' = [outcome EXCEPT ![t] = "none"]
    /\ caller' = [caller EXCEPT ![t] = "waiting"]
    /\ produced' = [produced EXCEPT ![t] = 0]
    /\ chunkQueue' = [chunkQueue EXCEPT ![t] = <<>>]
    /\ received' = [received EXCEPT ![t] = 0]
    /\ UNCHANGED <<limiterVars, stopping, semVars, pos, key, aim>>

(* Faulty variant: the flag is raised before the keys are registered.       *)
EnsureInitialized_FlagFirst(t) ==
    /\ pc[t] = "registering" /\ initialized' = TRUE
    /\ \/ ~ initialized /\ UNCHANGED <<states, modelIndex, pos, pc>>
       \/ /\ initialized /\ pos[t] <= Len(configKeys)
          /\ Register(configKeys[pos[t]])
          /\ pos' = [pos EXCEPT ![t] = @ + 1]
          /\ UNCHANGED pc
       \/ /\ initialized /\ pos[t] > Len(configKeys)
          /\ pos' = [pos EXCEPT ![t] = 1]
          /\ Goto(t, IF kind[t] = "nested" THEN "blocked" ELSE "submit")
          /\ UNCHANGED <<states, modelIndex>>
    /\ UNCHANGED <<configKeys, adder, stopping, semVars, callVars, key, aim,
                   outcome, caller, streamVars>>

(* _ensure_initialized, one turn of its loop at a time: the list it walks   *)
(* may grow meanwhile, and another thread may walk it too.                  *)
EnsureInitialized(t) ==
    /\ pc[t] = "registering"
    /\ \/ /\ pos[t] <= Len(configKeys)
          /\ Register(configKeys[pos[t]])
          /\ pos' = [pos EXCEPT ![t] = @ + 1]
          /\ UNCHANGED <<pc, initialized>>
       \/ /\ pos[t] > Len(configKeys)
          /\ initialized' = TRUE
          /\ pos' = [pos EXCEPT ![t] = 1]
          /\ Goto(t, IF kind[t] = "nested" THEN "blocked" ELSE "submit")
          /\ UNCHANGED <<states, modelIndex>>
    /\ UNCHANGED <<configKeys, adder, stopping, semVars, callVars, key, aim,
                   outcome, caller, streamVars>>

(* add_key appends to config.keys, then registers.                          *)
AddKey(k) ==
    /\ \/ /\ adder[k] = "idle" /\ MoreToDo
          /\ configKeys' = Append(configKeys, k)
          /\ adder' = [adder EXCEPT ![k] = "listed"]
          /\ UNCHANGED <<states, modelIndex>>
       \/ /\ adder[k] = "listed"
          /\ Register(k)
          /\ adder' = [adder EXCEPT ![k] = "registered"]
          /\ UNCHANGED configKeys
    /\ UNCHANGED <<initialized, stopping, semVars, callVars, pos, key, aim, pc,
                   outcome, caller, streamVars>>

(* shutdown sets the flag and, nothing being registered with it, returns.   *)
Shutdown ==
    /\ ~ stopping /\ MoreToDo /\ stopping' = TRUE
    /\ UNCHANGED <<limiterVars, semVars, callVars, pos, key, aim, pc,
                   outcome, caller, streamVars>>

(* chat inside a running loop: the request waits for the loop the caller    *)
(* blocks.  future.result's timeout raises, and only then does it run.      *)
NestedTimeout(t) ==
    /\ Moves(t, "blocked", "submit")
    /\ caller' = [caller EXCEPT ![t] = "heard"]
    /\ UNCHANGED <<limiterVars, stopping, semVars, callVars, pos, key, aim,
                   outcome, streamVars>>

-----------------------------------------------------------------------------
(* schedule and schedule_stream up to the semaphore.                        *)
Submit(t) ==
    /\ pc[t] = "submit"
    /\ IF stopping THEN End(t, "refused")
                   ELSE Goto(t, "look") /\ UNCHANGED outcome
    /\ UNCHANGED <<limiterVars, stopping, semVars, callVars, pos, key, aim,
                   caller, streamVars>>

(* locked(): no permit, or somebody waits; any(...) is a call between.      *)
Look(t) ==
    /\ pc[t] = "look"
    /\ Goto(t, IF value = 0 THEN "queueing" ELSE "peek")
    /\ UNCHANGED <<limiterVars, stopping, semVars, callVars, pos, key, aim,
                   outcome, caller, streamVars>>

Peek(t) ==
    /\ pc[t] = "peek"
    /\ Goto(t, IF waiter # NoOne THEN "queueing" ELSE "take")
    /\ UNCHANGED <<limiterVars, stopping, semVars, callVars, pos, key, aim,
                   outcome, caller, streamVars>>

Take(t) ==
    /\ Moves(t, "take", "selecting")
    /\ value' = value - 1
    /\ UNCHANGED <<limiterVars, stopping, boundTo, waiter, handed, lost,
                   callVars, pos, key, aim, outcome, caller, streamVars>>

(* _get_loop() lets only the first loop that ever waited wait: any other    *)
(* gets a RuntimeError, which no handler of schedule expects.               *)
Wait(t) ==
    /\ pc[t] = "queueing"
    /\ IF boundTo \in {NoOne, LoopOf(t)}
       THEN /\ Goto(t, "waiting")
            /\ boundTo' = LoopOf(t) /\ waiter' = <<t, made[t]>>
            /\ handed' = FALSE
            /\ UNCHANGED outcome
       ELSE End(t, "foreign") /\ UNCHANGED <<boundTo, waiter, handed>>
    /\ UNCHANGED <<limiterVars, stopping, value, lost, callVars, pos, key, aim,
                   caller, streamVars>>

(* The waiter's loop sleeps until max_wait_time is over: set_result from    *)
(* another thread does not wake it.  A permit handed over by then is found. *)
TimerFires(t) ==
    /\ pc[t] = "waiting"
    /\ IF handed
       THEN Goto(t, "selecting") /\ waiter' = NoOne /\ handed' = FALSE
       ELSE Goto(t, "expiring") /\ UNCHANGED <<waiter, handed>>
    /\ UNCHANGED <<limiterVars, stopping, value, boundTo, lost, callVars, pos,
                   key, aim, outcome, caller, streamVars>>

(* wait_for cancels the acquire, which gives back a permit handed over      *)
(* since: nobody else waits for it.                                         *)
GiveUp(t) ==
    /\ pc[t] = "expiring"
    /\ value' = value + (IF handed THEN 1 ELSE 0)
    /\ waiter' = NoOne /\ handed' = FALSE
    /\ End(t, "full")
    /\ UNCHANGED <<limiterVars, stopping, boundTo, lost, callVars, pos, key,
                   aim, caller, streamVars>>

-----------------------------------------------------------------------------
Current(k) == Len(states[k])
State(k) == states[k][Current(k)]
HasRoom(k) == State(k).rpm.tokens >= 1 /\ State(k).tpm.tokens >= Estimate

(* A bucket fills when somebody is about to look at it, one of a replaced   *)
(* KeyState too: _refill is lazy.                                           *)
Looks(t, k, gen) ==
    \/ pc[t] = "selecting" /\ gen = Current(k)
    \/ pc[t] = "asking" /\ key[t] = k /\ gen = Current(k)
    \/ pc[t] \in {"asked", "debiting", "charging"} /\ aim[t] = <<k, gen>>

Refill(k, gen) ==
    /\ \E t \in Threads : Looks(t, k, gen)
    /\ \E rpm \in states[k][gen].rpm.tokens..RpmLimit,
          tpm \in states[k][gen].tpm.tokens..TpmLimit :
          /\ states' = [states EXCEPT ![k][gen] =
                           [@ EXCEPT !.rpm.tokens = rpm, !.tpm.tokens = tpm]]
          /\ states' # states
    /\ UNCHANGED <<initialized, configKeys, adder, modelIndex, stopping,
                   semVars, callVars, pos, key, aim, pc, outcome, caller,
                   streamVars>>

(* get_keys_for_model: the keys the model lists, or all registered ones.    *)
KeysForModel ==
    IF modelIndex # {} THEN modelIndex ELSE {k \in AllKeys : Registered(k)}

(* select_key: of the keys whose circuit is closed, whichever they are, one *)
(* with room, or without one the key to wait for, unless there is none or   *)
(* the wait is too long.                                                    *)
SelectKey(t) ==
    /\ pc[t] = "selecting"
    /\ \E healthy \in SUBSET {k \in KeysForModel : Registered(k)} :
          LET available == {k \in healthy : HasRoom(k)} IN
          \/ \E k \in available :
                key' = [key EXCEPT ![t] = k] /\ Goto(t, "asking") /\ UNCHANGED outcome
          \/ /\ available = {}
             /\ \E k \in healthy :
                   key' = [key EXCEPT ![t] = k] /\ Goto(t, "sleeping")
             /\ UNCHANGED outcome
          \/ /\ available = {}
             /\ outcome' = [outcome EXCEPT ![t] = "exhausted"]
             /\ Goto(t, "releasing") /\ UNCHANGED key
    /\ UNCHANGED <<limiterVars, stopping, semVars, callVars, pos, aim, caller,
                   streamVars>>

(* The wait is slept through, or its time limit comes first.                *)
Wake(t) ==
    /\ pc[t] = "sleeping"
    /\ \/ Goto(t, "asking") /\ UNCHANGED <<key, outcome>>
       \/ /\ outcome' = [outcome EXCEPT ![t] = "exhausted"]
          /\ Goto(t, "releasing") /\ key' = [key EXCEPT ![t] = NoOne]
    /\ UNCHANGED <<limiterVars, stopping, semVars, callVars, pos, aim, caller,
                   streamVars>>

(* Faulty variant: consume takes without asking can_handle.                 *)
Ask_Unchecked(t) ==
    /\ Moves(t, "asking", "debiting")
    /\ aim' = [aim EXCEPT ![t] = <<key[t], Current(key[t])>>]
    /\ key' = [key EXCEPT ![t] = NoOne]
    /\ UNCHANGED <<limiterVars, stopping, semVars, callVars, pos, outcome,
                   caller, streamVars>>

(* consume looks the key up again and asks can_handle: one bucket, then the *)
(* other and the circuit.  Whatever the answer, the request is sent:        *)
(* refused, it takes nothing.                                               *)
Ask(t) ==
    /\ pc[t] = "asking"
    /\ IF State(key[t]).rpm.tokens >= 1
       THEN /\ aim' = [aim EXCEPT ![t] = <<key[t], Current(key[t])>>]
            /\ Goto(t, "asked")
       ELSE Goto(t, "calling") /\ UNCHANGED aim
    /\ key' = [key EXCEPT ![t] = NoOne]
    /\ UNCHANGED <<limiterVars, stopping, semVars, callVars, pos, outcome,
                   caller, streamVars>>

AskTokens(t) ==
    LET k == aim[t][1] gen == aim[t][2] IN
    /\ pc[t] = "asked"
    /\ \/ /\ states[k][gen].tpm.tokens >= Estimate
          /\ Goto(t, "debiting") /\ UNCHANGED aim
       \/ Goto(t, "calling") /\ aim' = [aim EXCEPT ![t] = NoOne]
    /\ UNCHANGED <<limiterVars, stopping, semVars, callVars, pos, key, outcome,
                   caller, streamVars>>

(* Faulty variant: a bucket gives more than it has.                         *)
Debit_Unchecked(t, from, to, bucket, amount) ==
    LET k == aim[t][1] gen == aim[t][2] IN
    /\ Moves(t, from, to)
    /\ states' = [states EXCEPT ![k][gen][bucket].tokens = @ - amount]
    /\ UNCHANGED <<initialized, configKeys, adder, modelIndex, stopping,
                   semVars, callVars, pos, key, outcome, caller, streamVars>>

(* A bucket gives what it has, under its own lock; a refusal is ignored.    *)
Given(bucket, amount) ==
    LET left == bucket.tokens - amount IN
    IF left >= 0
    THEN [bucket EXCEPT !.tokens = left,
                        !.dried = @ + (IF left < amount THEN 1 ELSE 0)]
    ELSE [bucket EXCEPT !.unpaid = @ + 1]

Debit(t, from, to, bucket, amount) ==
    LET k == aim[t][1] gen == aim[t][2] IN
    /\ Moves(t, from, to)
    /\ states' = [states EXCEPT ![k][gen][bucket] = Given(@, amount)]
    /\ UNCHANGED <<initialized, configKeys, adder, modelIndex, stopping,
                   semVars, callVars, pos, key, outcome, caller, streamVars>>

DebitRpm(t) == Debit(t, "debiting", "charging", "rpm", 1) /\ UNCHANGED aim
DebitTpm(t) ==
    /\ Debit(t, "charging", "calling", "tpm", Estimate)
    /\ aim' = [aim EXCEPT ![t] = NoOne]

(* Faulty variant: what is no Exception skips the finally.                  *)
ProviderEnds_NoFinally(t) ==
    /\ pc[t] = "calling"
    /\ \E how \in {"answered", "failed", "killed"} :
          /\ how = "killed" => kind[t] = "stream"
          /\ outcome' = [outcome EXCEPT ![t] = how]
          /\ Goto(t, IF how = "killed" THEN "ending" ELSE "releasing")
    /\ UNCHANGED <<limiterVars, stopping, semVars, callVars, pos, key, aim,
                   caller, streamVars>>

(* An attempt is answered, or the last one fails, on whatever key; or the   *)
(* request ends by no Exception (CancelledError, SystemExit), which only a  *)
(* stream tells from a failure.                                             *)
ProviderEnds(t) ==
    /\ Moves(t, "calling", "releasing")
    /\ \E how \in {"answered", "failed", "killed"} :
          /\ how = "killed" => kind[t] = "stream"
          /\ outcome' = [outcome EXCEPT ![t] = how]
    /\ UNCHANGED <<limiterVars, stopping, semVars, callVars, pos, key, aim,
                   caller, streamVars>>

Chunk(t) ==
    /\ pc[t] = "calling" /\ kind[t] = "stream" /\ produced[t] < MaxChunks
    /\ produced' = [produced EXCEPT ![t] = @ + 1]
    /\ chunkQueue' = [chunkQueue EXCEPT ![t] = Append(@, "chunk")]
    /\ UNCHANGED <<limiterVars, stopping, semVars, callVars, pos, key, aim, pc,
                   outcome, caller, received>>

-----------------------------------------------------------------------------
(* release() of the finally: the permit goes back, then _wake_up_next looks *)
(* for a future that is not done, passing by one that has its permit, and   *)
(* only then gives it this one.                                             *)
Release(t) ==
    /\ Moves(t, "releasing", "waking")
    /\ value' = value + 1
    /\ UNCHANGED <<limiterVars, stopping, boundTo, waiter, handed, lost,
                   callVars, pos, key, aim, outcome, caller, streamVars>>

FindWaiter(t) ==
    /\ pc[t] = "waking"
    /\ IF waiter = NoOne \/ handed
       THEN Goto(t, "ending") /\ UNCHANGED aim
       ELSE Goto(t, "handing") /\ aim' = [aim EXCEPT ![t] = waiter]
    /\ UNCHANGED <<limiterVars, stopping, semVars, callVars, pos, key,
                   outcome, caller, streamVars>>

(* If the future was given a result or cancelled meanwhile, set_result      *)
(* raises InvalidStateError in place of the request's result, and the       *)
(* permit is gone.                                                          *)
HandOver(t) ==
    /\ pc[t] = "handing"
    /\ value' = value - 1
    /\ IF waiter = aim[t] /\ ~ handed
       THEN handed' = TRUE /\ Goto(t, "ending") /\ UNCHANGED <<lost, outcome>>
       ELSE lost' = lost + 1 /\ End(t, "broken") /\ UNCHANGED handed
    /\ aim' = [aim EXCEPT ![t] = NoOne]
    /\ UNCHANGED <<limiterVars, stopping, boundTo, waiter, callVars, pos, key,
                   caller, streamVars>>

(* The result or the exception reaches the caller of chat, unless that is   *)
(* gone; a stream's thread puts the last item, if `except Exception` does   *)
(* not let pass what ended it.  (Faulty variants: the exception is not put; *)
(* the sentinel is put in a finally.)                                       *)
LastItem_EndOnly(how) == IF how = "answered" THEN <<"end">> ELSE <<>>

LastItem(how) ==
    IF how = "answered" THEN <<"end">>
    ELSE IF how = "killed" THEN <<>> ELSE <<"error">>

Conclude_EndsAlways(t) ==
    /\ Moves(t, "ending", "idle")
    /\ IF kind[t] = "stream"
       THEN /\ chunkQueue' = [chunkQueue EXCEPT ![t] = Append(@, "end")]
            /\ UNCHANGED <<caller, outcome>>
       ELSE /\ outcome' = [outcome EXCEPT ![t] = "none"]
            /\ caller' = [caller EXCEPT ![t] = "heard"]
            /\ UNCHANGED chunkQueue
    /\ UNCHANGED <<limiterVars, stopping, semVars, callVars, pos, key, aim,
                   produced, received>>

Conclude(t) ==
    /\ Moves(t, "ending", "idle")
    /\ \/ /\ kind[t] = "stream"
          /\ chunkQueue' = [chunkQueue EXCEPT ![t] = @ \o LastItem(outcome[t])]
          /\ UNCHANGED <<caller, outcome>>
       \/ /\ kind[t] # "stream"
          /\ caller' = [caller EXCEPT ![t] = "heard"]
          /\ outcome' = [outcome EXCEPT ![t] = "none"]
          /\ UNCHANGED chunkQueue
    /\ UNCHANGED <<limiterVars, stopping, semVars, callVars, pos, key, aim,
                   produced, received>>

(* The consumer of a stream: the generator chat_stream returns.             *)
Reading(t) == kind[t] = "stream" /\ caller[t] = "waiting"

Receive(t) ==
    /\ Reading(t) /\ chunkQueue[t] # <<>>
    /\ chunkQueue' = [chunkQueue EXCEPT ![t] = Tail(@)]
    /\ LET item == Head(chunkQueue[t]) IN
       IF item = "chunk"
       THEN received' = [received EXCEPT ![t] = @ + 1] /\ UNCHANGED caller
       ELSE /\ caller' = [caller EXCEPT ![t] =
                            IF item = "end" THEN "ended" ELSE "raised"]
            /\ UNCHANGED received
    /\ UNCHANGED <<limiterVars, stopping, semVars, callVars, pos, key, aim, pc,
                   outcome, produced>>

(* It may be closed after any chunk; its thread knows nothing of it.        *)
CloseStream(t) ==
    /\ Reading(t) /\ received[t] > 0
    /\ caller' = [caller EXCEPT ![t] = "closed"]
    /\ UNCHANGED <<limiterVars, stopping, semVars, callVars, pos, key, aim, pc,
                   outcome, streamVars>>

-----------------------------------------------------------------------------
(* What a thread does without anybody's doing.                              *)
Run(t) ==
    \/ EnsureInitialized(t) \/ NestedTimeout(t) \/ Submit(t)
    \/ Look(t) \/ Peek(t) \/ Take(t) \/ Wait(t) \/ TimerFires(t) \/ GiveUp(t)
    \/ SelectKey(t) \/ Wake(t) \/ Ask(t) \/ AskTokens(t)
    \/ DebitRpm(t) \/ DebitTpm(t)
    \/ Release(t) \/ FindWaiter(t) \/ HandOver(t) \/ Conclude(t)

Next ==
    \/ Shutdown
    \/ \E k \in Added : AddKey(k)
    \/ \E k \in AllKeys \cap Refilled : \E gen \in DOMAIN states[k] : Refill(k, gen)
    \/ \E t \in Threads :
          \/ Call(t) \/ Run(t)
          \/ ProviderEnds(t) \/ Chunk(t) \/ Receive(t) \/ CloseStream(t)

(* Threads run and timers fire; a chat's provider call ends, by its         *)
(* request_timeout if not before; a consumer keeps asking.  Nothing ends a  *)
(* stream that stalls.                                                      *)
ClientFairness ==
    \A t \in Threads :
        /\ WF_vars(Run(t) \/ (kind[t] # "stream" /\ ProviderEnds(t)))
        /\ WF_vars(Receive(t))

Spec == Init /\ [][Next]_vars
FairSpec == Spec /\ ClientFairness

-----------------------------------------------------------------------------
Sending == {"selecting", "sleeping", "asking", "asked", "debiting", "charging",
            "calling"}
Holding == Sending \cup {"releasing"}
Places ==
    Holding \cup {"idle", "registering", "blocked", "submit", "look", "peek",
                  "take", "queueing", "waiting", "expiring", "waking",
                  "handing", "ending"}
Outcomes == {"none", "refused", "foreign", "full", "exhausted", "answered",
             "failed", "killed", "broken"}
Buckets(limit) == [tokens : 0..limit, dried : Nat, unpaid : Nat]
KeyStates == [rpm : Buckets(RpmLimit), tpm : Buckets(TpmLimit)]

(* No bucket goes below zero whatever the threads do.                       *)
ClientTypeOK ==
    /\ initialized \in BOOLEAN /\ stopping \in BOOLEAN /\ handed \in BOOLEAN
    /\ configKeys \in Seq(AllKeys) /\ modelIndex \subseteq AllKeys
    /\ adder \in [Added -> {"idle", "listed", "registered"}]
    /\ states \in [AllKeys -> Seq(KeyStates)]
    /\ value \in Int /\ lost \in Nat
    /\ boundTo \in Loops \cup {NoOne} /\ waiter \in Loops \cup {NoOne}
    /\ pc \in [Threads -> Places] /\ outcome \in [Threads -> Outcomes]
    /\ made \in [Threads -> Nat]
    /\ kind \in [Threads -> AllKinds]
    /\ key \in [Threads -> AllKeys \cup {NoOne}]
    /\ caller \in [Threads -> {"idle", "waiting", "heard", "ended", "raised", "closed"}]
    /\ produced \in [Threads -> 0..MaxChunks]
    /\ received \in [Threads -> Nat]
    /\ chunkQueue \in [Threads -> Seq({"chunk", "end", "error"})]

(* Every permit is free, held by one request, or on its way to the waiter,  *)
(* but for those lost where a releaser and the waiter's timeout, or two     *)
(* releasers, meet (scheduler.py:193, 222): no path of an acquire, timeout, *)
(* error or end loses or mints one otherwise.                               *)
PermitsConserved ==
    value + Cardinality({t \in Threads : pc[t] \in Holding})
          + (IF handed THEN 1 ELSE 0) + lost = MaxConcurrent

(* No call reaches the scheduler before all keys of the construction are    *)
(* registered and listed for the model, whoever registers them; nor is a    *)
(* key lost that add_key has registered (client.py:118-126, 344-373).       *)
Usable(k) == Registered(k) /\ k \in modelIndex

KeysAreUsable ==
    /\ (\E t \in Threads : pc[t] \notin {"idle", "registering"})
          => \A k \in ToSet(Configured) : Usable(k)
    /\ \A k \in Added : adder[k] = "registered" => Usable(k)

(* What consume lets go and no bucket gives: check and debit are apart      *)
(* (rate_limiter.py:149-155), so whenever a bucket is left with less than a *)
(* request needs, every other thread may go unpaid once, however often and  *)
(* finely it refills.  A thread racing another to initialise, or with       *)
(* add_key, fills the buckets once more each (client.py:118-126).  Of a     *)
(* request consume refuses, or an attempt that asks it nothing, this says   *)
(* nothing: those take nothing at all (scheduler.py:285, 350-366).          *)
Others == Cardinality(Threads) - 1

OverrunBounded ==
    \A k \in AllKeys :
        /\ \A gen \in DOMAIN states[k], bucket \in {"rpm", "tpm"} :
              states[k][gen][bucket].unpaid <= Others * states[k][gen][bucket].dried
        /\ Len(states[k]) <=
              Cardinality(Threads) + (IF k \in Added THEN 1 ELSE 0)

(* A consumer that is told the stream is over has got every chunk of a      *)
(* stream that ended well, and one that gets the exception has got every    *)
(* chunk before it (client.py:312-341).                                     *)
StreamIsFaithful ==
    \A t \in Threads :
        kind[t] = "stream" /\ caller[t] \in {"ended", "raised"} =>
            /\ received[t] = produced[t]
            /\ caller[t] = "ended" <=> outcome[t] = "answered"

(* Every caller hears back, one that blocks its own loop by its timeout,    *)
(* unless its stream is left to a provider that stalls, or is ended by no   *)
(* Exception and its consumer waits on the queue for ever (client.py:324,   *)
(* 334).  A stream never comes back to its provider call, so this holds     *)
(* from the end of that call on, too.                                       *)
CallersHearBack ==
    \A t \in Threads :
        caller[t] = "waiting" ~>
            \/ caller[t] # "waiting"
            \/ kind[t] = "stream" /\ (pc[t] = "calling" \/ outcome[t] = "killed")

(* "RuntimeError: If scheduler is shutting down" (scheduler.py:184, 392):   *)
(* a client that is only full never raises it.                              *)
FullIsNoRuntimeError == \A t \in Threads : outcome[t] # "foreign" \/ stopping
=============================================================================
