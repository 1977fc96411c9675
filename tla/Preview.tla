------------------------------- MODULE Preview -------------------------------
(***************************************************************************)
(* Router.preview (client/route/route.go): asking the untrusted router for *)
(* a ranked candidate list, with retries paced by a budget and switched    *)
(* off by the process-wide retryGate (client/route/ratelimit.go).          *)
(*                                                                         *)
(* Calls run concurrently and share only the gate, each of whose methods   *)
(* holds its lock once: an attempt's end, the decision to retry and the    *)
(* note that no answer came are separate steps.  Computation takes no time *)
(* on this clock; attempts and backoffs do, up to their timers.            *)
(***************************************************************************)
EXTENDS Integers

CONSTANTS
    Calls,          \* requests that preview, each once
    Attempts,       \* previewAttempts
    FirstBackoff,   \* previewRetryBackoff
    AttemptTimeout, \* previewAttemptTimeout
    RetryBudget,    \* previewRetryBudget
    TripAfter,      \* previewRetryTripAfter
    Cooldown,       \* previewRetryCooldown
    MaxTime         \* bound: the clock stops here

ASSUME PreviewAssumption ==
    /\ Attempts \in Nat \ {0}
    /\ FirstBackoff \in Nat \ {0}
    /\ AttemptTimeout \in Nat \ {0}
    /\ RetryBudget \in Nat
    /\ TripAfter \in Nat \ {0}
    /\ Cooldown \in Nat \ {0}
    /\ MaxTime \in Nat

VARIABLES
    now,         \* the clock
    consecutive, \* retryGate.consecutive
    openUntil,   \* retryGate.openUntil: retries are off before it
    pc,          \* where each call is
    attempt,     \* each call's loop variable: attempts already made
    backoff,     \* the next backoff
    start,       \* when the call began
    timer,       \* when the running attempt times out, or the backoff ends
    left,        \* the caller's context is done
    last,        \* previewResult of the latest attempt
    outcome,     \* the call-level outcome the deferred metric records
    suppressed,  \* PreviewRetrySuppressed: the retries not made
    streak,      \* history: calls without an answer since the last success
    lastNoAnswer \* history: when the latest of them ended

gate == <<consecutive, openUntil, streak, lastNoAnswer>>
vars == <<now, gate, pc, attempt, backoff, start, timer, left, last, outcome,
          suppressed>>

Results  == {"ok", "retryable", "rejected", "broken", "internal", "canceled"}
Outcomes == {"ok", "ok_retried", "failed", "rejected", "canceled", "internal"}
Active   == {"attempt", "retry", "backoff", "giveup"}

-----------------------------------------------------------------------------
Init ==
    /\ now = 0 /\ consecutive = 0 /\ openUntil = 0
    /\ streak = 0 /\ lastNoAnswer = 0
    /\ pc = [c \in Calls |-> "idle"]
    /\ attempt = [c \in Calls |-> 0]
    /\ backoff = [c \in Calls |-> FirstBackoff]
    /\ start = [c \in Calls |-> 0]
    /\ timer = [c \in Calls |-> 0]
    /\ left = [c \in Calls |-> FALSE]
    /\ last = [c \in Calls |-> "none"]
    /\ outcome = [c \in Calls |-> "failed"]
    /\ suppressed = [c \in Calls |-> 0]

(* preview marshals its body and makes the first attempt, which no gate       *)
(* suppresses.                                                                *)
Start(c) ==
    /\ pc[c] = "idle"
    /\ pc' = [pc EXCEPT ![c] = "attempt"]
    /\ start' = [start EXCEPT ![c] = now]
    /\ timer' = [timer EXCEPT ![c] = now + AttemptTimeout]
    /\ UNCHANGED <<now, gate, attempt, backoff, left, last, outcome, suppressed>>

(* The caller goes away. *)
Leave(c) ==
    /\ pc[c] \in Active /\ ~left[c]
    /\ left' = [left EXCEPT ![c] = TRUE]
    /\ UNCHANGED <<now, gate, pc, attempt, backoff, start, timer, last, outcome, suppressed>>

(* retryGate.allow *)
allow == now >= openUntil

(* retryGate.answered: a success clears the count and any window. *)
answered_KeepsWindow ==
    /\ consecutive' = 0
    /\ streak' = 0
    /\ UNCHANGED <<openUntil, lastNoAnswer>>
answered ==
    /\ consecutive' = 0 /\ openUntil' = 0
    /\ streak' = 0
    /\ UNCHANGED lastNoAnswer

(* retryGate.noAnswer: the count trips the window and starts again. *)
noAnswer_NoReset ==
    /\ consecutive' = consecutive + 1
    /\ openUntil' = IF consecutive + 1 >= TripAfter THEN now + Cooldown ELSE openUntil
    /\ streak' = streak + 1 /\ lastNoAnswer' = now
noAnswer_FromTimeout ==
    /\ IF consecutive + 1 >= TripAfter
       THEN consecutive' = 0 /\ openUntil' = now + AttemptTimeout + Cooldown
       ELSE consecutive' = consecutive + 1 /\ UNCHANGED openUntil
    /\ streak' = streak + 1 /\ lastNoAnswer' = now
noAnswer ==
    /\ IF consecutive + 1 >= TripAfter
       THEN consecutive' = 0 /\ openUntil' = now + Cooldown
       ELSE consecutive' = consecutive + 1 /\ UNCHANGED openUntil
    /\ streak' = streak + 1 /\ lastNoAnswer' = now

(* callOutcome: the call-level outcome a final attempt result maps onto.      *)
callOutcome(r) ==
    CASE r \in {"rejected", "canceled", "internal"} -> r
      [] OTHER -> "failed"

(* Only a retryable failure is re-attributed to a caller that left.           *)
attributed_Everything(c, r) == IF left[c] THEN "canceled" ELSE r
attributed(c, r) == IF r = "retryable" /\ left[c] THEN "canceled" ELSE r

(* The call returns and its locals are gone. *)
finish(c) ==
    /\ pc' = [pc EXCEPT ![c] = "done"]
    /\ backoff' = [backoff EXCEPT ![c] = FirstBackoff]
    /\ start' = [start EXCEPT ![c] = 0]
    /\ timer' = [timer EXCEPT ![c] = 0]

(* previewOnce returns a candidate list. *)
AttemptOK(c) ==
    /\ pc[c] = "attempt"
    /\ finish(c)
    /\ last' = [last EXCEPT ![c] = "ok"]
    /\ outcome' = [outcome EXCEPT ![c] = IF attempt[c] > 0 THEN "ok_retried" ELSE "ok"]
    /\ attempt' = [attempt EXCEPT ![c] = @ + 1]
    /\ answered
    /\ UNCHANGED <<now, left, suppressed>>

(* previewOnce fails: a retryable failure turns the loop, any other ends the  *)
(* call without touching the gate.                                            *)
AttemptErr(c, r) ==
    LET res == attributed(c, r)
    IN  /\ pc[c] = "attempt"
        /\ r \in {"retryable", "rejected", "broken", "internal"}
        /\ last' = [last EXCEPT ![c] = r]
        /\ attempt' = [attempt EXCEPT ![c] = @ + 1]
        /\ IF res = "retryable"
           THEN /\ pc' = [pc EXCEPT ![c] = IF attempt[c] + 1 < Attempts THEN "retry" ELSE "giveup"]
                /\ UNCHANGED <<outcome, backoff, start, timer>>
           ELSE /\ finish(c)
                /\ outcome' = [outcome EXCEPT ![c] = callOutcome(res)]
        /\ UNCHANGED <<now, gate, left, suppressed>>

(* Would the next backoff carry the call past its budget?                     *)
overBudget_BackoffFree(c) == now - start[c] >= RetryBudget
overBudget(c) == now - start[c] + backoff[c] >= RetryBudget

(* The retries a closed gate sheds for this call.                             *)
shed_One(c) == 1
shed(c) == Attempts - attempt[c]

(* The top of the loop's second turn: the budget, then the gate, then sleep.  *)
Retry(c) ==
    /\ pc[c] = "retry"
    /\ CASE overBudget(c) ->
              /\ pc' = [pc EXCEPT ![c] = "giveup"]
              /\ UNCHANGED <<timer, suppressed>>
         [] ~overBudget(c) /\ ~allow ->
              /\ pc' = [pc EXCEPT ![c] = "giveup"]
              /\ suppressed' = [suppressed EXCEPT ![c] = shed(c)]
              /\ UNCHANGED timer
         [] OTHER ->
              /\ pc' = [pc EXCEPT ![c] = "backoff"]
              /\ timer' = [timer EXCEPT ![c] = now + backoff[c]]
              /\ UNCHANGED suppressed
    /\ UNCHANGED <<now, gate, attempt, backoff, start, left, last, outcome>>

(* The backoff ends and the next attempt begins. *)
Wake(c) ==
    /\ pc[c] = "backoff" /\ now >= timer[c]
    /\ pc' = [pc EXCEPT ![c] = "attempt"]
    /\ backoff' = [backoff EXCEPT ![c] = 2 * @]
    /\ timer' = [timer EXCEPT ![c] = now + AttemptTimeout]
    /\ UNCHANGED <<now, gate, attempt, start, left, last, outcome, suppressed>>

(* The caller leaves during the backoff. *)
BackoffCanceled(c) ==
    /\ pc[c] = "backoff" /\ left[c]
    /\ finish(c)
    /\ outcome' = [outcome EXCEPT ![c] = "canceled"]
    /\ UNCHANGED <<now, gate, attempt, left, last, suppressed>>

(* Out of attempts, budget or allowance with only retryable failures behind:  *)
(* the one ending the gate counts.                                            *)
GiveUp(c) ==
    /\ pc[c] = "giveup"
    /\ noAnswer
    /\ finish(c)
    /\ UNCHANGED <<now, attempt, left, last, outcome, suppressed>>

(* Time passes up to the next timer: an attempt ends by its deadline and a    *)
(* backoff when it is over.                                                   *)
Tick ==
    /\ now < MaxTime
    /\ \A c \in Calls :
          /\ pc[c] \notin {"retry", "giveup"}
          /\ pc[c] \in {"attempt", "backoff"} => now < timer[c]
    /\ now' = now + 1
    /\ UNCHANGED <<gate, pc, attempt, backoff, start, timer, left, last, outcome, suppressed>>

AttemptEnds(c) ==
    \/ AttemptOK(c)
    \/ \E r \in Results : AttemptErr(c, r)

Step(c) == AttemptEnds(c) \/ Retry(c) \/ Wake(c) \/ BackoffCanceled(c) \/ GiveUp(c)

Next ==
    \/ Tick
    \/ \E c \in Calls : Start(c) \/ Leave(c) \/ Step(c)

Spec == Init /\ [][Next]_vars
-----------------------------------------------------------------------------
(* Every variable keeps its type; the gate never carries a full count.        *)
TypeOK ==
    /\ now \in 0 .. MaxTime
    /\ consecutive \in 0 .. TripAfter - 1 /\ openUntil \in Nat
    /\ pc \in [Calls -> {"idle", "done"} \cup Active]
    /\ attempt \in [Calls -> 0 .. Attempts]
    /\ backoff \in [Calls -> Nat] /\ start \in [Calls -> Nat] /\ timer \in [Calls -> Nat]
    /\ left \in [Calls -> BOOLEAN]
    /\ last \in [Calls -> Results \cup {"none"}]
    /\ outcome \in [Calls -> Outcomes]
    /\ suppressed \in [Calls -> 0 .. Attempts]
    /\ streak \in Nat /\ lastNoAnswer \in Nat

(* "The retry ceiling - budget plus one attempt" (ratelimit.go): however its  *)
(* attempts and backoffs fall, a preview holds its request's concurrency slot *)
(* no longer than that.                                                       *)
PreviewCeiling ==
    \A c \in Calls : pc[c] \in Active => now - start[c] <= RetryBudget + AttemptTimeout

(* Retries are off only after TripAfter calls in a row, none of them followed *)
(* by a success, got no answer: an isolated blip never trips the gate, and a  *)
(* success reopens it whatever was in flight.                                 *)
TripNeedsRun == ~allow => streak >= TripAfter

(* A recovered router gets its retries back within one cooldown of the last   *)
(* call that got no answer, however many of them piled up.                    *)
CooldownBounded == openUntil <= lastNoAnswer + Cooldown

(* What a finished call is filed under follows from its last attempt: a reply *)
(* that was rejected, broken or our own fault stays that even when the caller *)
(* left meanwhile, and "canceled" needs a caller that left.                   *)
AttributionHonest ==
    \A c \in Calls : pc[c] = "done" =>
        /\ outcome[c] = "canceled" => left[c] /\ last[c] = "retryable"
        /\ last[c] = "broken" => outcome[c] = "failed"
        /\ last[c] \in {"rejected", "internal"} => outcome[c] = last[c]
        /\ last[c] = "ok" => outcome[c] = IF attempt[c] > 1 THEN "ok_retried" ELSE "ok"

(* The retries shed plus the attempts made are the whole allowance: the       *)
(* counter reports the amplification removed, and the first attempt is never  *)
(* among it.                                                                  *)
SuppressionAccounts ==
    \A c \in Calls : suppressed[c] > 0 =>
        attempt[c] >= 1 /\ attempt[c] + suppressed[c] = Attempts

(* The shared gate: it takes a run of unanswered calls to close it and one    *)
(* cooldown, at most, to open it again.                                       *)
GateFair == TripNeedsRun /\ CooldownBounded

(* What operators read: the outcome each call is filed under and the retries  *)
(* the gate shed.                                                             *)
FiledTruly == TypeOK /\ AttributionHonest /\ SuppressionAccounts
=============================================================================
