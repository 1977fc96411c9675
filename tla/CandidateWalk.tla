---------------------------- MODULE CandidateWalk ----------------------------
(***************************************************************************)
(* One call of Complete, CompleteStream or SubmitAsync (client/core): the  *)
(* walk down the candidate chain the resolver returned, under one shared   *)
(* time budget, with the stale-key re-seal of keyrefresh.go.               *)
(*                                                                         *)
(* A materialization, an attempt and a key re-read are each one blocking   *)
(* operation of the code; here each is one step that lasts d ticks, with   *)
(* the caller's disconnect (Cancel) free to fall between any two steps.    *)
(* What an attempt does on the wire is ResponseStream's subject; here an   *)
(* attempt is the reply it ends with and, for a stream, whether a frame    *)
(* reached the caller first.                                               *)
(***************************************************************************)
EXTENDS Integers, Sequences

CONSTANTS
    MaxCandidates, \* bound: the longest chain a resolver returns
    Budget,        \* resolveBudget: what the walk may spend on wasted work
    AttemptMax,    \* bufferedTimeout; for a stream, a bound of the model
    Overrun,       \* how late a deadline's expiry may be noticed
    Kinds,         \* which of the three calls are made
    Keys           \* enc keys a provider may present over time

ASSUME WalkAssumption ==
    /\ MaxCandidates \in Nat
    /\ Budget \in Nat \ {0}
    /\ AttemptMax \in Nat
    /\ Overrun \in Nat
    /\ Kinds \subseteq {"buffered", "stream", "async"}

VARIABLES
    kind,       \* which entry point the caller used
    refreshes,  \* whether the candidates implement KeyRefresher
    verifies,   \* verifyEnabled: the section 8 response signature is checked
    n,          \* cands.Len()
    i,          \* the candidate being walked, from 1 (0 before Resolve)
    pc,         \* where the call is
    key,        \* the enc key the current provider value carries
    rekeyed,    \* attemptRekeying's loop variable
    spent,      \* candidateWalk.spent
    elapsed,    \* ticks since the walk began (the wall clock, not in the code)
    canceled,   \* the caller's context is done
    committed,  \* streamOnce: a frame of the running attempt reached onFrame
    fail,       \* walkErr: the failure held, with the tier it has
    meta,       \* recordMeta: the candidate whose headers the caller is shown
    fallbacks,  \* metricFallback's count
    budgetCuts, \* metricWalkBudgetExhausted's count
    result,     \* what the call returned
    tries,      \* history: every attempt that ended, in order
    tiers       \* history: every failure offered to walkErr.record, in order

cfgVars  == <<kind, refreshes, verifies>>
timeVars == <<spent, elapsed>>
histVars == <<tries, tiers>>
vars == <<kind, refreshes, verifies, n, i, pc, key, rekeyed, spent, elapsed,
          canceled, committed, fail, meta, fallbacks, budgetCuts, result,
          tries, tiers>>

-----------------------------------------------------------------------------
(* Tiers of walk failure, ordered by how much they tell the caller. *)
tierMaterialize == 0
tierBudget      == 1
tierAttempt     == 2
NoFailure       == -1

(* The replies an attempt can end with, by the return site they come from. *)
Accepted  == {"ok", "unverified", "body", "undecodable", "misdirected"}
Replies   == Accepted \cup {"sealfail", "transport", "transient", "refused",
                            "mismatch", "notstream", "idle", "aborted",
                            "handler"}

(* Which replies each entry point has a return site for.  "mismatch" is a 409 *)
(* carrying the key-mismatch token, "refused" any other non-transient status, *)
(* "transient" a 429 or 5xx.                                                  *)
completeOnceReplies ==
    {"ok", "sealfail", "transport", "transient", "refused", "mismatch",
     "body", "undecodable"}
      \cup (IF verifies THEN {"unverified"} ELSE {})

streamOnceReplies ==
    LET before == {"sealfail", "transport", "transient", "refused",
                   "mismatch", "notstream"}
        reading == {"body", "undecodable", "idle"}
                     \cup (IF canceled THEN {"aborted"} ELSE {})
        after   == {"ok", "handler"}
                     \cup (IF verifies THEN {"unverified"} ELSE {})
    IN  IF committed THEN reading \cup after ELSE before \cup reading

submitOnceReplies ==
    {"ok", "sealfail", "transport", "transient", "refused", "mismatch",
     "body", "undecodable", "misdirected"}

attemptReplies ==
    CASE kind = "buffered" -> completeOnceReplies
      [] kind = "stream"   -> streamOnceReplies
      [] kind = "async"    -> submitOnceReplies

(* The retry verdict of completeOnce, streamOnce and submitOnce: may the walk *)
(* fall back to the next candidate after this reply?                          *)
completeOnceRetry_Unverified(r) == r \in {"transient", "body", "undecodable", "unverified"}
streamOnceRetry_AfterCommit(r)  == r \in {"transient", "notstream", "body", "undecodable", "idle"}
submitOnceRetry_LostAnswer(r)   == r \in {"transient", "body"}
completeOnceRetry(r) == r \in {"transient", "body", "undecodable"}
streamOnceRetry(r) ==
    \/ r \in {"transient", "notstream"}
    \/ r \in {"body", "undecodable", "idle"} /\ ~committed
submitOnceRetry(r) == r = "transient"
retryable(r) ==
    CASE kind = "buffered" -> completeOnceRetry(r)
      [] kind = "stream"   -> streamOnceRetry(r)
      [] kind = "async"    -> submitOnceRetry(r)

(* candidateWalk's arithmetic. *)
remaining    == Budget - spent
charge_Dropped(s, d) == s
exhausted_Strict(s)  == s > Budget
charge(s, d) == s + d
exhausted(s) == s >= Budget

(* walkErr.record: a failure at least as informative as the one held wins.    *)
record_LatestWins(w, tier, c) == [tier |-> tier, cand |-> c]
record_NextIndex(w, tier, c)  == [tier |-> tier, cand |-> c + 1]
record(w, tier, c) ==
    IF w.tier = NoFailure \/ tier >= w.tier THEN [tier |-> tier, cand |-> c] ELSE w

(* What a call that fails returns: the failure held, or the empty-chain error.*)
failWith(w) == [ok |-> FALSE, tier |-> w.tier, cand |-> w.cand]
Pending     == [ok |-> FALSE, tier |-> NoFailure, cand |-> -1]

-----------------------------------------------------------------------------
Init ==
    /\ kind \in Kinds
    /\ refreshes \in BOOLEAN
    /\ verifies \in IF kind = "async" THEN {FALSE} ELSE BOOLEAN
    /\ n = 0 /\ i = 0
    /\ pc = "resolve"
    /\ key \in Keys
    /\ rekeyed = FALSE
    /\ spent = 0 /\ elapsed = 0
    /\ canceled = FALSE /\ committed = FALSE
    /\ fail = [tier |-> NoFailure, cand |-> 0]
    /\ meta = 0
    /\ fallbacks = 0 /\ budgetCuts = 0
    /\ result = Pending
    /\ tries = <<>> /\ tiers = <<>>

(* The caller goes away.  Nothing else happens in that instant: the walk      *)
(* finds out when the operation it is blocked in returns.                     *)
Cancel ==
    /\ pc # "done" /\ ~canceled
    /\ canceled' = TRUE
    /\ UNCHANGED <<cfgVars, n, i, pc, key, rekeyed, timeVars, committed, fail,
                   meta, fallbacks, budgetCuts, result, histVars>>

(* resolver.Resolve: an error ends the call, otherwise the chain's length is  *)
(* known and the walk starts at its head with nothing spent.                  *)
Resolve(len) ==
    /\ pc = "resolve"
    /\ n' = len
    /\ IF len = 0
       THEN /\ pc' = "done" /\ i' = 0
            /\ result' = failWith(fail)
       ELSE /\ pc' = "materialize" /\ i' = 1
            /\ UNCHANGED result
    /\ UNCHANGED <<cfgVars, key, rekeyed, timeVars, canceled, committed, fail,
                   meta, fallbacks, budgetCuts, histVars>>

(* metricFallback and metricWalkBudgetBlockedFallback count a move only when  *)
(* there is a candidate to move to.                                           *)
movesOn_Always == 1
movesOn == IF i + 1 <= n THEN 1 ELSE 0

(* continue: the fallback is counted and the loop turns; past the last        *)
(* candidate it ends and the held failure is returned.                        *)
nextCandidate(w) ==
    /\ fallbacks' = fallbacks + movesOn
    /\ IF i = n
       THEN pc' = "done" /\ result' = failWith(w) /\ UNCHANGED i
       ELSE pc' = "materialize" /\ i' = i + 1 /\ UNCHANGED result

(* break out of the walk, returning the held failure. *)
breakWalk(w) ==
    /\ pc' = "done"
    /\ result' = failWith(w)
    /\ UNCHANGED <<i, fallbacks>>

(* walk.provider succeeds: the candidate is materialized within its deadline  *)
(* and the first attempt on it begins.                                        *)
MaterializeOK(d, k) ==
    /\ pc = "materialize"
    /\ d <= remaining + Overrun
    /\ spent' = spent + d
    /\ elapsed' = elapsed + d
    /\ key' = k
    /\ pc' = "attempt" /\ rekeyed' = FALSE /\ committed' = FALSE
    /\ UNCHANGED <<cfgVars, n, i, canceled, fail, meta, fallbacks, budgetCuts,
                   result, histVars>>

(* walk.provider fails: a caller that left ends the walk, so does a spent     *)
(* budget (and is named for it), otherwise the next candidate is tried.       *)
MaterializeErr(d) ==
    LET cut  == ~canceled /\ exhausted(spent + d)
        tier == IF cut THEN tierBudget ELSE tierMaterialize
        w    == record(fail, tier, i)
    IN  /\ pc = "materialize"
        /\ d <= remaining + Overrun
        /\ spent' = spent + d
        /\ elapsed' = elapsed + d
        /\ fail' = w
        /\ tiers' = Append(tiers, [tier |-> tier, cand |-> i])
        /\ budgetCuts' = IF cut THEN budgetCuts + 1 ELSE budgetCuts
        /\ IF canceled \/ cut THEN breakWalk(w) ELSE nextCandidate(w)
        /\ UNCHANGED <<cfgVars, n, key, rekeyed, canceled, committed, meta, tries>>

(* streamOnce delivers its first frame: the stream is committed to this       *)
(* candidate and its headers are the ones the caller is shown.                *)
FirstFrame ==
    /\ pc = "attempt" /\ kind = "stream" /\ ~committed
    /\ committed' = TRUE
    /\ meta' = i
    /\ UNCHANGED <<cfgVars, n, i, pc, key, rekeyed, timeVars, canceled, fail,
                   fallbacks, budgetCuts, result, histVars>>

(* An attempt that succeeds returns to the caller; its time is not charged.   *)
AttemptOK(d) ==
    /\ pc = "attempt"
    /\ "ok" \in attemptReplies
    /\ elapsed' = elapsed + d
    /\ meta' = i
    /\ pc' = "done"
    /\ result' = [ok |-> TRUE, tier |-> NoFailure, cand |-> i]
    /\ tries' = Append(tries, [cand |-> i, key |-> key, reply |-> "ok",
                             committed |-> committed])
    /\ UNCHANGED <<cfgVars, n, i, key, rekeyed, spent, canceled, committed,
                   fail, fallbacks, budgetCuts, tiers>>

(* After a failed attempt whose verdict is "retry": stop for a caller that    *)
(* left or a spent budget (counted only when it blocked a move), else move on.*)
afterRetry_IgnoresCancel(s, w) ==
    /\ budgetCuts' = IF exhausted(s) THEN budgetCuts + movesOn ELSE budgetCuts
    /\ IF exhausted(s) THEN breakWalk(w) ELSE nextCandidate(w)
afterRetry(s, w) ==
    LET blocked == ~canceled /\ exhausted(s)
    IN  /\ budgetCuts' = IF blocked THEN budgetCuts + movesOn ELSE budgetCuts
        /\ IF canceled \/ blocked THEN breakWalk(w) ELSE nextCandidate(w)

(* attemptRekeying's gate on a re-seal: only a stale-key rejection, only once *)
(* per candidate, and not for a caller that left or a budget that is spent.   *)
mayRekey_Again(r, s) == r = "mismatch" /\ ~(canceled \/ exhausted(s))
mayRekey(r, s) == r = "mismatch" /\ ~(rekeyed \/ canceled \/ exhausted(s))

(* attemptRekeying's failure half: the attempt's time is charged, the failure *)
(* is recorded at the top tier, and the reply decides what follows.           *)
AttemptErr(d, r) ==
    LET w == record(fail, tierAttempt, i)
        s == charge(spent, d)
    IN  /\ pc = "attempt"
        /\ r \in attemptReplies \ {"ok"}
        /\ elapsed' = elapsed + d
        /\ spent' = s
        /\ fail' = w
        /\ tiers' = Append(tiers, [tier |-> tierAttempt, cand |-> i])
        /\ tries' = Append(tries, [cand |-> i, key |-> key, reply |-> r,
                                 committed |-> committed])
        /\ IF mayRekey(r, s)
           THEN /\ pc' = "rekey"
                /\ UNCHANGED <<i, fallbacks, budgetCuts, result>>
           ELSE IF r = "mismatch" \/ retryable(r)
                THEN afterRetry(s, w)
                ELSE breakWalk(w) /\ UNCHANGED budgetCuts
        /\ UNCHANGED <<cfgVars, n, key, rekeyed, canceled, committed, meta>>

(* rekey: the provider's key is re-read under what is left of the budget; a   *)
(* different key is sealed to once more.                                      *)
RekeyResealed(d, k) ==
    /\ pc = "rekey" /\ refreshes
    /\ d <= remaining + Overrun
    /\ k # key
    /\ key' = k
    /\ spent' = spent + d
    /\ elapsed' = elapsed + d
    /\ pc' = "attempt" /\ rekeyed' = TRUE /\ committed' = FALSE
    /\ UNCHANGED <<cfgVars, n, i, canceled, fail, meta, fallbacks, budgetCuts,
                   result, histVars>>

(* rekey fails: no refresher, an error, or the key is the one just refused.   *)
(* The rejection stays the attempt's failure and is retryable.                *)
RekeyFailed_NeedsRefresher(d) ==
    /\ pc = "rekey" /\ refreshes
    /\ d <= remaining + Overrun
    /\ spent' = spent + d
    /\ elapsed' = elapsed + d
    /\ afterRetry(spent + d, fail)
    /\ UNCHANGED <<cfgVars, n, key, rekeyed, canceled, committed, fail, meta,
                   histVars>>
RekeyFailed(d) ==
    /\ pc = "rekey"
    /\ d <= IF refreshes THEN remaining + Overrun ELSE 0
    /\ spent' = spent + d
    /\ elapsed' = elapsed + d
    /\ afterRetry(spent + d, fail)
    /\ UNCHANGED <<cfgVars, n, key, rekeyed, canceled, committed, fail, meta,
                   histVars>>

Ticks == 0 .. (Budget + Overrun)

Next ==
    \/ Cancel
    \/ \E len \in 0 .. MaxCandidates : Resolve(len)
    \/ \E d \in Ticks, k \in Keys : MaterializeOK(d, k)
    \/ \E d \in Ticks : MaterializeErr(d)
    \/ FirstFrame
    \/ \E d \in 0 .. AttemptMax : AttemptOK(d)
    \/ \E d \in 0 .. AttemptMax, r \in Replies : AttemptErr(d, r)
    \/ \E d \in Ticks, k \in Keys : RekeyResealed(d, k)
    \/ \E d \in Ticks : RekeyFailed(d)

(* Every blocking operation of the walk runs under a deadline and returns;    *)
(* the caller need not ever cancel.                                           *)
Progress ==
    \/ \E len \in 0 .. MaxCandidates : Resolve(len)
    \/ \E d \in Ticks, k \in Keys : MaterializeOK(d, k)
    \/ \E d \in Ticks : MaterializeErr(d)
    \/ \E d \in 0 .. AttemptMax : AttemptOK(d)
    \/ \E d \in 0 .. AttemptMax, r \in Replies : AttemptErr(d, r)
    \/ \E d \in Ticks, k \in Keys : RekeyResealed(d, k)
    \/ \E d \in Ticks : RekeyFailed(d)

Spec     == Init /\ [][Next]_vars
FairSpec == Spec /\ WF_vars(Progress)
-----------------------------------------------------------------------------
(* Every variable keeps its type; the failure held always names a candidate   *)
(* of the chain that was walked.                                              *)
TypeOK ==
    /\ kind \in Kinds /\ refreshes \in BOOLEAN /\ verifies \in BOOLEAN
    /\ n \in 0 .. MaxCandidates /\ i \in 0 .. n
    /\ pc \in {"resolve", "materialize", "attempt", "rekey", "done"}
    /\ key \in Keys
    /\ rekeyed \in BOOLEAN /\ canceled \in BOOLEAN /\ committed \in BOOLEAN
    /\ spent \in Nat /\ elapsed \in Nat
    /\ fail \in [tier : NoFailure .. tierAttempt, cand : 0 .. n]
    /\ meta \in 0 .. n
    /\ fallbacks \in Nat /\ budgetCuts \in Nat
    /\ result \in [ok : BOOLEAN, tier : NoFailure .. tierAttempt, cand : -1 .. n]
    /\ tries \in Seq([cand : 1 .. n, key : Keys, reply : Replies, committed : BOOLEAN])
    /\ tiers \in Seq([tier : tierMaterialize .. tierAttempt, cand : 1 .. n])

lastTry == tries[Len(tries)]

(* "So the ceiling ... is this budget plus one attempt" (resolveBudget): the  *)
(* caller is never held longer than the budget, plus one deadline noticed     *)
(* late, plus one attempt, however long the chain and whatever was re-keyed.  *)
WalkCeiling == elapsed <= Budget + Overrun + AttemptMax

(* Nobody is refused for want of budget: whenever a candidate is about to be  *)
(* materialized or its key re-read there is budget left, so the "spent before *)
(* candidate could be prepared" branches of provider() and refresh() are dead.*)
EntryHasBudget == pc \in {"materialize", "rekey"} => remaining > 0

(* walkErr: a call that fails returns the most informative failure it met and,*)
(* among equals, the latest: a provider's own reply is never displaced by a   *)
(* budget cut or by bookkeeping about another candidate.                      *)
MostInformativeError ==
    (pc = "done" /\ ~result.ok /\ tiers # <<>>) =>
        \E j \in DOMAIN tiers :
            /\ tiers[j] = [tier |-> result.tier, cand |-> result.cand]
            /\ \A m \in DOMAIN tiers :
                  /\ tiers[m].tier <= tiers[j].tier
                  /\ m > j => tiers[m].tier < tiers[j].tier

(* Streaming fallback is pre-first-token only: once a frame reached the       *)
(* caller no other attempt, on this candidate or another, is ever begun.      *)
StreamNeverRestarts ==
    \A j \in DOMAIN tries : tries[j].committed => j = Len(tries) /\ pc = "done"

(* recordMeta: the headers the caller is shown belong to the attempt whose    *)
(* bytes it received, never to one the walk discarded.                        *)
MetaFromAnswer ==
    meta # 0 =>
        \/ pc = "attempt" /\ committed /\ meta = i
        \/ /\ pc = "done" /\ tries # <<>>
           /\ meta = lastTry.cand
           /\ result.ok \/ lastTry.committed

(* SubmitAsync stops at the first 2xx: an accepted job is never followed by   *)
(* another submit, whatever became of the answer that announced it.           *)
AcceptedJobIsFinal ==
    kind = "async" =>
        \A j \in DOMAIN tries :
            tries[j].reply \in Accepted => j = Len(tries) /\ pc = "done"

(* A response that opened but failed the section 8 check ends the call: no    *)
(* fallback masks the provider that sent it.                                  *)
UnverifiedEndsCall ==
    \A j \in DOMAIN tries :
        tries[j].reply = "unverified" => j = Len(tries) /\ pc = "done" /\ ~result.ok

(* keyrefresh.go: a candidate is attempted twice at most, and the second time *)
(* only because it refused the first as sealed to a stale key, under a key    *)
(* that differs from the refused one.                                         *)
RekeyOnce ==
    \A j, m \in DOMAIN tries :
        (j < m /\ tries[j].cand = tries[m].cand) =>
            /\ m = j + 1
            /\ tries[j].reply = "mismatch"
            /\ tries[j].key # tries[m].key

(* The two counters operators alert on: a fallback is counted exactly once    *)
(* per candidate moved past, and the budget exactly when it, and not the end  *)
(* of the chain or the caller, is what kept a retryable walk from moving on.  *)
MetricsExact ==
    /\ fallbacks = IF i = 0 THEN 0 ELSE i - 1
    /\ budgetCuts <= 1
    /\ budgetCuts = 1 => pc = "done" /\ ~result.ok /\ ~canceled /\ exhausted(spent)
    /\ (pc = "done" /\ ~canceled /\ i < n /\ ~result.ok /\ budgetCuts = 0) =>
          ~(tries # <<>> /\ lastTry.cand = i /\ retryable(lastTry.reply))

(* A caller that went away ends the walk: from that moment it never moves to  *)
(* another candidate (and so books no fallback against the router's ranking). *)
NoWalkAfterCancel == [][canceled /\ i > 0 => i' = i]_vars

(* Every call returns: each blocking operation ends by its deadline and the   *)
(* walk takes finitely many of them.                                          *)
CallReturns == <>(pc = "done")

(* A call's hold on its caller is paid out of the budget, and the budget is   *)
(* never what turns a candidate away at the door.                             *)
BudgetKept == WalkCeiling /\ EntryHasBudget

(* Every attempt after the first was called for: nothing that may already     *)
(* have been delivered, accepted or found false is tried again, and the same  *)
(* candidate only after it refused a key that has changed since.              *)
AttemptsJustified ==
    StreamNeverRestarts /\ AcceptedJobIsFinal /\ UnverifiedEndsCall /\ RekeyOnce

(* What a call reports when it ends is true of it: the error it returns, the  *)
(* attempt its metadata names, the counters it moved.                         *)
CallReport == MostInformativeError /\ MetaFromAnswer /\ MetricsExact
=============================================================================
