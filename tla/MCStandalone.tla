---------------------------- MODULE MCStandalone ----------------------------
(* Small instances of the parts that need no other: each behaviour exercises *)
(* one of them, and the others stay as they start.                           *)
EXTENDS TokenBucket, SlidingWindow, Retry, KeyScore, KeySelection, TokenEstimator,
    Admission

CONSTANTS k1, k2, k3, u1, u2, fast, slow, other, r1, r2, r3, r4

VARIABLE part

TheKeys == <<k1, k2>>
ThreeKeys == <<k1, k2, k3>>
KeyProviders == k1 :> slow @@ k2 :> fast @@ k3 :> other
FastFirst == <<fast, slow>>
TpmLimits == k1 :> 2 @@ k2 :> 2 @@ k3 :> 1
RpmLimits == k1 :> 1 @@ k2 :> 1 @@ k3 :> 1
Rates == k1 :> 1 @@ k2 :> 1 @@ k3 :> 2
SomeTexts == {[chars |-> 0, tokens |-> 0], [chars |-> 7, tokens |-> 2],
              [chars |-> 90, tokens |-> 25]}
SomeRoles == {[chars |-> 4, tokens |-> 1]}
SomeLimits == {NoMaxTokens, 0, 1, 20}

Parts == {"bucket", "window", "retry", "latency", "score", "selection", "estimate",
          "admission"}

StandaloneInit ==
    /\ part \in Parts
    /\ Init /\ WindowInit /\ RetryInit /\ LatencyInit /\ ScoreInit
    /\ SelectionInit /\ EstimateInit /\ AdmissionInit
    /\ part # "retry" => loop = "decorator"
    /\ part # "score" =>
          strategy = "balanced" /\ latency = [k \in CandidateKeys |-> NoTracker]
    /\ part # "estimate" =>
          ~ encoder /\ task = "chat" /\ family = 40 /\ maxTokens = NoMaxTokens

StandaloneNext ==
    /\ UNCHANGED part
    /\ \/ /\ part = "bucket" /\ Next
          /\ UNCHANGED <<windowVars, retryVars, latencyVars, scoreVars,
                        selectionVars, estimateVars, admissionVars>>
       \/ /\ part = "window" /\ WindowNext
          /\ UNCHANGED <<vars, retryVars, latencyVars, scoreVars,
                        selectionVars, estimateVars, admissionVars>>
       \/ /\ part = "retry" /\ RetryNext
          /\ UNCHANGED <<vars, windowVars, latencyVars, scoreVars,
                        selectionVars, estimateVars, admissionVars>>
       \/ /\ part = "latency" /\ LatencyNext
          /\ UNCHANGED <<vars, windowVars, retryVars, scoreVars,
                        selectionVars, estimateVars, admissionVars>>
       \/ /\ part = "score" /\ ScoreNext
          /\ UNCHANGED <<vars, windowVars, retryVars, latencyVars,
                        selectionVars, estimateVars, admissionVars>>
       \/ /\ part = "selection" /\ SelectionNext
          /\ UNCHANGED <<vars, windowVars, retryVars, latencyVars,
                        scoreVars, estimateVars, admissionVars>>
       \/ /\ part = "estimate" /\ EstimateNext
          /\ UNCHANGED <<vars, windowVars, retryVars, latencyVars,
                        scoreVars, selectionVars, admissionVars>>
       \/ /\ part = "admission" /\ AdmissionNext
          /\ UNCHANGED <<vars, windowVars, retryVars, latencyVars,
                        scoreVars, selectionVars, estimateVars>>

StandaloneVars == <<part, vars, windowVars, retryVars, latencyVars, scoreVars,
                    selectionVars, estimateVars, admissionVars>>
StandaloneSpec == StandaloneInit /\ [][StandaloneNext]_StandaloneVars
=============================================================================
