------------------------- MODULE CandidateWalk_proof -------------------------
(***************************************************************************)
(* Proofs about CandidateWalk, for every chain length, budget, attempt     *)
(* deadline, overrun and key set.                                          *)
(***************************************************************************)
EXTENDS CandidateWalk, TLAPS

-----------------------------------------------------------------------------
(* What TypeOK needs besides itself: the candidate being walked is one of the *)
(* chain, and nothing was recorded before the chain's length was known.       *)
WalkIndex == pc \in {"materialize", "attempt", "rekey"} => i \in 1 .. n

FreshChain ==
    pc = "resolve" =>
        /\ n = 0 /\ i = 0 /\ meta = 0
        /\ fail = [tier |-> NoFailure, cand |-> 0]
        /\ result = Pending
        /\ tries = <<>> /\ tiers = <<>>

TypeInv == TypeOK /\ WalkIndex /\ FreshChain

(* The Boolean variables' part of TypeOK, which the provers treat apart.      *)
Flags ==
    /\ refreshes \in BOOLEAN /\ verifies \in BOOLEAN
    /\ rekeyed \in BOOLEAN /\ canceled \in BOOLEAN /\ committed \in BOOLEAN

Try   == [cand : 1 .. n, key : Keys, reply : Replies, committed : BOOLEAN]
Offer == [tier : tierMaterialize .. tierAttempt, cand : 1 .. n]

(* walkErr.record returns a failure of the chain when it is offered one.      *)
LEMMA RecordType ==
    ASSUME NEW m \in Nat, NEW w \in [tier : NoFailure .. tierAttempt, cand : 0 .. m],
           NEW t \in tierMaterialize .. tierAttempt, NEW c \in 1 .. m
    PROVE  record(w, t, c) \in [tier : NoFailure .. tierAttempt, cand : 0 .. m]
BY DEF record, NoFailure, tierMaterialize, tierAttempt

(* Breaking out of the walk or moving to the next candidate keeps the control *)
(* variables in their types.                                                  *)
LEMMA ControlType ==
    ASSUME TypeInv, NEW w \in [tier : NoFailure .. tierAttempt, cand : 0 .. n],
           i \in 1 .. n, n' = n,
           breakWalk(w) \/ nextCandidate(w)
    PROVE  /\ i' \in 1 .. n
           /\ fallbacks' \in Nat
           /\ pc' \in {"materialize", "done"}
           /\ result' \in [ok : BOOLEAN, tier : NoFailure .. tierAttempt, cand : -1 .. n]
<1>1. failWith(w) \in [ok : BOOLEAN, tier : NoFailure .. tierAttempt, cand : -1 .. n]
  BY DEF failWith, NoFailure, tierAttempt, TypeInv, TypeOK
<1>2. CASE breakWalk(w)
  BY <1>1, <1>2 DEF breakWalk, TypeInv, TypeOK
<1>3. CASE nextCandidate(w)
  BY <1>1, <1>3 DEF nextCandidate, movesOn, TypeInv, TypeOK
<1> QED BY <1>2, <1>3

(* TypeInv holds initially and every step preserves it. *)
LEMMA TypeInvariant == Spec => []TypeInv
<1>1. Init => TypeInv
  <2> SUFFICES ASSUME Init PROVE TypeInv
    OBVIOUS
  <2>1. TypeOK
    <3>1. tries \in Seq(Try) /\ tiers \in Seq(Offer)
      BY DEF Init
    <3>2. Flags
      BY Zenon DEF Init, Flags
    <3>3. result \in [ok : BOOLEAN, tier : NoFailure .. tierAttempt, cand : -1 .. n]
      BY DEF Init, Pending, NoFailure, tierAttempt
    <3>4. fail \in [tier : NoFailure .. tierAttempt, cand : 0 .. n]
      BY DEF Init, NoFailure, tierAttempt
    <3> QED
      BY <3>1, <3>2, <3>3, <3>4, WalkAssumption DEF Init, TypeOK, Flags, Try, Offer
  <2> QED
    BY <2>1 DEF Init, TypeInv, WalkIndex, FreshChain
<1>2. TypeInv /\ [Next]_vars => TypeInv'
  <2> SUFFICES ASSUME TypeInv, [Next]_vars PROVE TypeInv'
    OBVIOUS
  <2> USE WalkAssumption DEF TypeInv
  <2>1. CASE Cancel
    BY <2>1 DEF Cancel, cfgVars, timeVars, histVars, TypeOK, WalkIndex, FreshChain
  <2>2. ASSUME NEW len \in 0 .. MaxCandidates, Resolve(len) PROVE TypeInv'
    <3>1. tries' \in Seq(Try') /\ tiers' \in Seq(Offer')
      BY <2>2 DEF Resolve, FreshChain, histVars
    <3>2. /\ n' \in 0 .. MaxCandidates /\ i' \in 0 .. n'
          /\ pc' \in {"materialize", "done"}
          /\ pc' = "materialize" => i' \in 1 .. n'
      BY <2>2 DEF Resolve
    <3>3. result' \in [ok : BOOLEAN, tier : NoFailure .. tierAttempt, cand : -1 .. n']
      <4>1. \/ result' = [ok |-> FALSE, tier |-> NoFailure, cand |-> 0]
            \/ result' = [ok |-> FALSE, tier |-> NoFailure, cand |-> -1]
        BY <2>2 DEF Resolve, FreshChain, failWith, Pending
      <4>2. /\ 0 \in -1 .. n' /\ -1 \in -1 .. n'
            /\ NoFailure \in NoFailure .. tierAttempt /\ FALSE \in BOOLEAN
        BY <3>2 DEF NoFailure, tierAttempt
      <4>3. CASE result' = [ok |-> FALSE, tier |-> NoFailure, cand |-> 0]
        BY <4>2, <4>3
      <4>4. CASE result' = [ok |-> FALSE, tier |-> NoFailure, cand |-> -1]
        BY <4>2, <4>4
      <4> QED BY <4>1, <4>3, <4>4
    <3>4. fail' \in [tier : NoFailure .. tierAttempt, cand : 0 .. n'] /\ meta' \in 0 .. n'
      BY <2>2, <3>2 DEF Resolve, FreshChain, NoFailure, tierAttempt
    <3> QED
      BY <2>2, <3>1, <3>2, <3>3, <3>4
      DEF Resolve, TypeOK, WalkIndex, FreshChain, cfgVars, timeVars, histVars, Try, Offer
  <2>3. ASSUME NEW d \in Ticks, NEW k \in Keys, MaterializeOK(d, k) PROVE TypeInv'
    <3>1. Flags'
      BY <2>3, Zenon DEF MaterializeOK, TypeOK, Flags, cfgVars
    <3>2. /\ pc' = "attempt" /\ key' = k /\ spent' \in Nat /\ elapsed' \in Nat /\ i \in 1 .. n
          /\ UNCHANGED <<kind, n, i, fail, meta, fallbacks, budgetCuts, result, tries, tiers>>
      BY <2>3 DEF MaterializeOK, Ticks, TypeOK, WalkIndex, cfgVars, histVars
    <3> QED
      BY <3>1, <3>2 DEF TypeOK, Flags, WalkIndex, FreshChain
  <2>4. ASSUME NEW d \in Ticks, MaterializeErr(d) PROVE TypeInv'
    <3> DEFINE cut  == ~canceled /\ exhausted(spent + d)
               tier == IF cut THEN tierBudget ELSE tierMaterialize
               w    == record(fail, tier, i)
    <3>1. i \in 1 .. n /\ n \in Nat
      BY <2>4 DEF MaterializeErr, WalkIndex, TypeOK
    <3>2. tier \in tierMaterialize .. tierAttempt
      BY DEF tierBudget, tierMaterialize, tierAttempt
    <3>3. w \in [tier : NoFailure .. tierAttempt, cand : 0 .. n]
      BY <3>1, <3>2, RecordType DEF TypeOK
    <3>4. breakWalk(w) \/ nextCandidate(w)
      BY <2>4 DEF MaterializeErr
    <3>5. /\ n' = n /\ fail' = w /\ tiers' = Append(tiers, [tier |-> tier, cand |-> i])
          /\ budgetCuts' \in Nat /\ spent' \in Nat /\ elapsed' \in Nat
          /\ UNCHANGED <<kind, refreshes, verifies, key, rekeyed, canceled, committed, meta, tries>>
      BY <2>4 DEF MaterializeErr, cfgVars, TypeOK, Ticks
    <3>6. tiers' \in Seq(Offer')
      <4>1. [tier |-> tier, cand |-> i] \in Offer
        BY <3>1, <3>2 DEF Offer
      <4> QED BY <4>1, <3>5 DEF TypeOK, Offer
    <3> HIDE DEF w, tier, cut
    <3>7. /\ i' \in 1 .. n /\ fallbacks' \in Nat /\ pc' \in {"materialize", "done"}
          /\ result' \in [ok : BOOLEAN, tier : NoFailure .. tierAttempt, cand : -1 .. n]
      BY <3>1, <3>3, <3>4, <3>5, ControlType
    <3>8. Flags'
      BY <3>5, Zenon DEF TypeOK, Flags
    <3>9. TypeOK'
      BY <3>3, <3>5, <3>6, <3>7, <3>8 DEF TypeOK, Flags, Offer
    <3> QED
      BY <3>1, <3>5, <3>7, <3>9 DEF WalkIndex, FreshChain
  <2>5. CASE FirstFrame
    BY <2>5 DEF FirstFrame, cfgVars, timeVars, histVars, TypeOK, WalkIndex, FreshChain
  <2>6. ASSUME NEW d \in 0 .. AttemptMax, AttemptOK(d) PROVE TypeInv'
    <3>1. [cand |-> i, key |-> key, reply |-> "ok", committed |-> committed] \in Try
      BY <2>6 DEF AttemptOK, WalkIndex, TypeOK, Try, Replies, Accepted
    <3>2. tries' \in Seq(Try') /\ n' = n
      BY <2>6, <3>1 DEF AttemptOK, TypeOK, Try
    <3>3. result' \in [ok : BOOLEAN, tier : NoFailure .. tierAttempt, cand : -1 .. n]
      BY <2>6 DEF AttemptOK, TypeOK, NoFailure, tierAttempt
    <3> QED
      BY <2>6, <3>2, <3>3
      DEF AttemptOK, TypeOK, WalkIndex, FreshChain, cfgVars, Try, Offer
  <2>7. ASSUME NEW d \in 0 .. AttemptMax, NEW r \in Replies, AttemptErr(d, r) PROVE TypeInv'
    <3> DEFINE w == record(fail, tierAttempt, i)
               s == charge(spent, d)
    <3>1. i \in 1 .. n /\ n \in Nat
      BY <2>7 DEF AttemptErr, WalkIndex, TypeOK
    <3>2. tierAttempt \in tierMaterialize .. tierAttempt
      BY DEF tierMaterialize, tierAttempt
    <3>3. w \in [tier : NoFailure .. tierAttempt, cand : 0 .. n]
      BY <3>1, <3>2, RecordType DEF TypeOK
    <3>4. /\ n' = n /\ fail' = w /\ s \in Nat /\ spent' = s /\ elapsed' \in Nat
          /\ tiers' = Append(tiers, [tier |-> tierAttempt, cand |-> i])
          /\ tries' = Append(tries, [cand |-> i, key |-> key, reply |-> r, committed |-> committed])
          /\ UNCHANGED <<kind, refreshes, verifies, key, rekeyed, canceled, committed, meta>>
      BY <2>7 DEF AttemptErr, cfgVars, TypeOK, charge
    <3>5. tiers' \in Seq(Offer') /\ tries' \in Seq(Try')
      <4>1. [tier |-> tierAttempt, cand |-> i] \in Offer
        BY <3>1, <3>2 DEF Offer
      <4>2. [cand |-> i, key |-> key, reply |-> r, committed |-> committed] \in Try
        BY <3>1 DEF Try, TypeOK
      <4>3. tiers \in Seq(Offer) /\ tries \in Seq(Try) /\ Offer' = Offer /\ Try' = Try
        BY <3>4 DEF TypeOK, Offer, Try
      <4> HIDE DEF w, s
      <4> QED BY <4>1, <4>2, <4>3, <3>4
    <3>6. \/ pc' = "rekey" /\ UNCHANGED <<i, fallbacks, budgetCuts, result>>
          \/ (breakWalk(w) \/ nextCandidate(w)) /\ budgetCuts' \in Nat
      BY <2>7, SMTT(30) DEF AttemptErr, afterRetry, movesOn, TypeOK
    <3> HIDE DEF w, s
    <3>7. /\ i' \in 1 .. n /\ fallbacks' \in Nat /\ budgetCuts' \in Nat
          /\ pc' \in {"materialize", "rekey", "done"}
          /\ result' \in [ok : BOOLEAN, tier : NoFailure .. tierAttempt, cand : -1 .. n]
      <4>1. CASE pc' = "rekey" /\ UNCHANGED <<i, fallbacks, budgetCuts, result>>
        BY <4>1, <3>1 DEF TypeOK
      <4>2. CASE (breakWalk(w) \/ nextCandidate(w)) /\ budgetCuts' \in Nat
        BY <4>2, <3>1, <3>3, <3>4, ControlType
      <4> QED BY <4>1, <4>2, <3>6
    <3>8. Flags'
      BY <3>4, Zenon DEF TypeOK, Flags
    <3>9. TypeOK'
      BY <3>3, <3>4, <3>5, <3>7, <3>8 DEF TypeOK, Flags, Offer, Try
    <3> QED
      BY <3>1, <3>4, <3>7, <3>9 DEF WalkIndex, FreshChain
  <2>8. ASSUME NEW d \in Ticks, NEW k \in Keys, RekeyResealed(d, k) PROVE TypeInv'
    <3>1. Flags'
      BY <2>8, Zenon DEF RekeyResealed, TypeOK, Flags, cfgVars
    <3>2. /\ pc' = "attempt" /\ key' = k /\ spent' \in Nat /\ elapsed' \in Nat /\ i \in 1 .. n
          /\ UNCHANGED <<kind, n, i, fail, meta, fallbacks, budgetCuts, result, tries, tiers>>
      BY <2>8 DEF RekeyResealed, Ticks, TypeOK, WalkIndex, cfgVars, histVars
    <3> QED
      BY <3>1, <3>2 DEF TypeOK, Flags, WalkIndex, FreshChain
  <2>9. ASSUME NEW d \in Ticks, RekeyFailed(d) PROVE TypeInv'
    <3>1. i \in 1 .. n
      BY <2>9 DEF RekeyFailed, WalkIndex
    <3>2. (breakWalk(fail) \/ nextCandidate(fail)) /\ budgetCuts' \in Nat
      BY <2>9 DEF RekeyFailed, afterRetry, movesOn, TypeOK
    <3>3. /\ n' = n /\ spent' \in Nat /\ elapsed' \in Nat
          /\ UNCHANGED <<kind, refreshes, verifies, key, rekeyed, canceled, committed, fail, meta, tries, tiers>>
      BY <2>9 DEF RekeyFailed, cfgVars, histVars, TypeOK, Ticks
    <3>4. fail \in [tier : NoFailure .. tierAttempt, cand : 0 .. n]
      BY DEF TypeOK
    <3>5. /\ i' \in 1 .. n /\ fallbacks' \in Nat /\ pc' \in {"materialize", "done"}
          /\ result' \in [ok : BOOLEAN, tier : NoFailure .. tierAttempt, cand : -1 .. n]
      BY <3>1, <3>2, <3>3, <3>4, ControlType
    <3> QED
      BY <3>1, <3>2, <3>3, <3>5, SMTT(30) DEF TypeOK, WalkIndex, FreshChain
  <2>10. CASE UNCHANGED vars
    BY <2>10 DEF vars, TypeOK, WalkIndex, FreshChain
  <2> QED
    BY <2>1, <2>2, <2>3, <2>4, <2>5, <2>6, <2>7, <2>8, <2>9, <2>10 DEF Next
<1> QED
  BY <1>1, <1>2, PTL DEF Spec

(* Every reachable state of a call is well typed: the failure it holds and    *)
(* the one it returns name a candidate of the chain that was walked, every    *)
(* attempt it made is on such a candidate, and the clocks only move forward.  *)
THEOREM TypeCorrect == Spec => []TypeOK
<1>1. TypeInv => TypeOK
  BY DEF TypeInv
<1> QED
  BY <1>1, TypeInvariant, PTL

-----------------------------------------------------------------------------
(* The ceiling on how long a caller is held.                                  *)
(*                                                                            *)
(* WalkCeiling is not inductive: nothing in it says that time was paid for    *)
(* out of the budget.  While the call runs, everything it waited for has been *)
(* charged; a candidate is entered, or its key re-read, only with budget      *)
(* left, and overshoots it by at most one late deadline; so what is charged   *)
(* when an attempt begins is at most Budget + Overrun, and the one attempt    *)
(* that ends the call adds AttemptMax.                                        *)
BudgetInv ==
    /\ pc \in {"resolve", "materialize", "attempt", "rekey", "done"}
    /\ pc # "done" => elapsed = spent
    /\ pc = "resolve" => spent = 0
    /\ pc \in {"materialize", "rekey"} => spent < Budget
    /\ pc = "attempt" => spent <= Budget + Overrun
    /\ elapsed <= Budget + Overrun + AttemptMax

(* BudgetInv holds initially and every step preserves it. *)
LEMMA BudgetInvariant == Spec => []BudgetInv
<1> USE WalkAssumption
<1>1. Init => BudgetInv
  BY DEF Init, BudgetInv
<1>2. TypeInv /\ BudgetInv /\ [Next]_vars => BudgetInv'
  <2> SUFFICES ASSUME TypeInv, BudgetInv, [Next]_vars PROVE BudgetInv'
    OBVIOUS
  <2>0. spent \in Nat /\ elapsed \in Nat /\ Budget \in Nat /\ Overrun \in Nat
        /\ AttemptMax \in Nat
    BY DEF TypeInv, TypeOK
  <2>1. CASE Cancel
    BY <2>1 DEF Cancel, BudgetInv, timeVars
  <2>2. ASSUME NEW len \in 0 .. MaxCandidates, Resolve(len) PROVE BudgetInv'
    BY <2>0, <2>2 DEF Resolve, BudgetInv, timeVars
  <2>3. ASSUME NEW d \in Ticks, NEW k \in Keys, MaterializeOK(d, k) PROVE BudgetInv'
    BY <2>0, <2>3 DEF MaterializeOK, BudgetInv, remaining, Ticks
  <2>4. ASSUME NEW d \in Ticks, MaterializeErr(d) PROVE BudgetInv'
    BY <2>0, <2>4 DEF MaterializeErr, BudgetInv, remaining, Ticks, exhausted, breakWalk, nextCandidate
  <2>5. CASE FirstFrame
    BY <2>5 DEF FirstFrame, BudgetInv, timeVars
  <2>6. ASSUME NEW d \in 0 .. AttemptMax, AttemptOK(d) PROVE BudgetInv'
    BY <2>0, <2>6 DEF AttemptOK, BudgetInv
  <2>7. ASSUME NEW d \in 0 .. AttemptMax, NEW r \in Replies, AttemptErr(d, r) PROVE BudgetInv'
    BY <2>0, <2>7
    DEF AttemptErr, BudgetInv, charge, exhausted, mayRekey, afterRetry, breakWalk, nextCandidate
  <2>8. ASSUME NEW d \in Ticks, NEW k \in Keys, RekeyResealed(d, k) PROVE BudgetInv'
    BY <2>0, <2>8 DEF RekeyResealed, BudgetInv, remaining, Ticks
  <2>9. ASSUME NEW d \in Ticks, RekeyFailed(d) PROVE BudgetInv'
    BY <2>0, <2>9
    DEF RekeyFailed, BudgetInv, remaining, Ticks, exhausted, afterRetry, breakWalk, nextCandidate
  <2>10. CASE UNCHANGED vars
    BY <2>10 DEF vars, BudgetInv
  <2> QED
    BY <2>1, <2>2, <2>3, <2>4, <2>5, <2>6, <2>7, <2>8, <2>9, <2>10 DEF Next
<1> QED
  BY <1>1, <1>2, TypeInvariant, PTL DEF Spec

(* "The ceiling is this budget plus one attempt": however long the chain, and *)
(* whatever was re-keyed, no caller is held longer than the budget, one late  *)
(* deadline and one attempt.                                                  *)
LEMMA CeilingHolds == Spec => []WalkCeiling
<1>1. BudgetInv => WalkCeiling
  BY DEF BudgetInv, WalkCeiling
<1> QED
  BY <1>1, BudgetInvariant, PTL

(* The walk never reaches the "budget spent before candidate could be         *)
(* prepared" branches of candidateWalk.provider and refresh: it stops first.  *)
LEMMA BudgetLeftOnEntry == Spec => []EntryHasBudget
<1>1. TypeInv /\ BudgetInv => EntryHasBudget
  BY WalkAssumption DEF TypeInv, TypeOK, BudgetInv, EntryHasBudget, remaining
<1> QED
  BY <1>1, BudgetInvariant, TypeInvariant, PTL

(* A call's hold on its caller is paid out of the budget, and the budget is   *)
(* never what turns a candidate away at the door.                             *)
THEOREM BudgetHolds == Spec => []BudgetKept
<1>1. WalkCeiling /\ EntryHasBudget => BudgetKept
  BY DEF BudgetKept
<1> QED
  BY <1>1, CeilingHolds, BudgetLeftOnEntry, PTL

-----------------------------------------------------------------------------
(* Which attempts end the call.                                               *)
(*                                                                            *)
(* The three finality properties share one argument: an attempt that reached  *)
(* the caller, accepted a job, or failed its signature check has no retry     *)
(* verdict, so the step that ends it ends the call; and every attempt is      *)
(* appended by a call that has not ended, so no earlier one was of that kind. *)
Ends(t) ==
    \/ t.committed
    \/ kind = "async" /\ t.reply \in Accepted
    \/ t.reply = "unverified"

FinalInv ==
    /\ committed => kind = "stream" /\ pc \in {"attempt", "done"}
    /\ \A j \in DOMAIN tries :
          Ends(tries[j]) => j = Len(tries) /\ pc = "done"
    /\ \A j \in DOMAIN tries : tries[j].reply = "unverified" => ~result.ok

(* A failed attempt of that kind breaks out of the walk.                      *)
LEMMA EndingAttempt ==
    ASSUME TypeInv, FinalInv, NEW d \in 0 .. AttemptMax, NEW r \in Replies, AttemptErr(d, r),
           committed \/ (kind = "async" /\ r \in Accepted) \/ r = "unverified"
    PROVE  pc' = "done" /\ result' = failWith(record(fail, tierAttempt, i))
<1>1. kind \in {"buffered", "stream", "async"}
  BY WalkAssumption DEF TypeInv, TypeOK
<1>2. r \in attemptReplies
  BY DEF AttemptErr
<1>3. r # "mismatch" /\ ~retryable(r)
  <2>1. CASE kind = "buffered"
    BY <2>1, <1>2 DEF FinalInv, attemptReplies, completeOnceReplies, retryable, completeOnceRetry
  <2>2. CASE kind = "stream"
    <3>1. committed
      BY <2>2, <1>2 DEF attemptReplies, streamOnceReplies
    <3>2. r \in {"body", "undecodable", "idle", "aborted", "ok", "handler", "unverified"}
      BY <2>2, <3>1, <1>2 DEF attemptReplies, streamOnceReplies
    <3> QED BY <2>2, <3>1, <3>2 DEF retryable, streamOnceRetry
  <2>3. CASE kind = "async"
    BY <2>3, <1>2
    DEF FinalInv, attemptReplies, submitOnceReplies, retryable, submitOnceRetry, Accepted
  <2> QED BY <1>1, <2>1, <2>2, <2>3
<1> QED
  BY <1>3 DEF AttemptErr, mayRekey, breakWalk

(* What appending one element does to a sequence.                             *)
LEMMA AppendFacts ==
    ASSUME NEW S, NEW s \in Seq(S), NEW e \in S
    PROVE  /\ DOMAIN Append(s, e) = 1 .. Len(s) + 1 /\ Len(Append(s, e)) = Len(s) + 1
           /\ \A j \in DOMAIN s : Append(s, e)[j] = s[j]
           /\ Append(s, e)[Len(s) + 1] = e
           /\ DOMAIN s = 1 .. Len(s) /\ Len(s) \in Nat
OBVIOUS

(* The elements of a sequence over a set are in it. *)
LEMMA ElementType ==
    ASSUME NEW S, NEW s \in Seq(S)
    PROVE  \A j \in DOMAIN s : s[j] \in S
OBVIOUS

(* FinalInv holds initially and every step preserves it. *)
LEMMA FinalInvariant == Spec => []FinalInv
<1>1. Init => FinalInv
  BY DEF Init, FinalInv
<1>2. TypeInv /\ TypeInv' /\ FinalInv /\ [Next]_vars => FinalInv'
  <2> SUFFICES ASSUME TypeInv, TypeInv', FinalInv, [Next]_vars PROVE FinalInv'
    OBVIOUS
  <2>1. CASE Cancel
    BY <2>1 DEF Cancel, FinalInv, Ends, cfgVars, histVars
  <2>2. ASSUME NEW len \in 0 .. MaxCandidates, Resolve(len) PROVE FinalInv'
    <3>1. tries' = <<>> /\ committed' = committed /\ ~committed
      BY <2>2 DEF Resolve, TypeInv, FreshChain, histVars, FinalInv
    <3> QED BY <3>1 DEF FinalInv
  <2>3. ASSUME NEW d \in Ticks, NEW k \in Keys, MaterializeOK(d, k) PROVE FinalInv'
    BY <2>3 DEF MaterializeOK, FinalInv, Ends, cfgVars, histVars
  <2>4. ASSUME NEW d \in Ticks, MaterializeErr(d) PROVE FinalInv'
    <3>1. pc = "materialize" /\ ~committed /\ \A j \in DOMAIN tries : ~Ends(tries[j])
      BY <2>4 DEF MaterializeErr, FinalInv
    <3>2. UNCHANGED <<kind, committed, tries>>
      BY <2>4 DEF MaterializeErr, cfgVars
    <3> QED BY <3>1, <3>2 DEF FinalInv, Ends
  <2>5. CASE FirstFrame
    BY <2>5 DEF FirstFrame, FinalInv, Ends, cfgVars, histVars
  <2>6. ASSUME NEW d \in 0 .. AttemptMax, AttemptOK(d) PROVE FinalInv'
    <3> DEFINE e == [cand |-> i, key |-> key, reply |-> "ok", committed |-> committed]
    <3>1. \A j \in DOMAIN tries : ~Ends(tries[j])
      BY <2>6 DEF AttemptOK, FinalInv
    <3>2. /\ pc' = "done" /\ UNCHANGED <<kind, committed>> /\ tries' = Append(tries, e)
      BY <2>6 DEF AttemptOK, cfgVars
    <3>3. /\ DOMAIN tries' = 1 .. Len(tries) + 1 /\ Len(tries') = Len(tries) + 1
          /\ \A j \in DOMAIN tries : tries'[j] = tries[j]
          /\ tries'[Len(tries) + 1] = e
          /\ DOMAIN tries = 1 .. Len(tries) /\ Len(tries) \in Nat
      <4>1. e \in Try /\ tries \in Seq(Try)
        BY <2>6 DEF AttemptOK, TypeInv, TypeOK, WalkIndex, Try, Replies, Accepted
      <4> HIDE DEF e
      <4> QED BY <4>1, <3>2, AppendFacts
    <3>4. \A j \in DOMAIN tries' : j # Len(tries') => ~Ends(tries[j]) /\ tries'[j] = tries[j]
      BY <3>1, <3>3
    <3>5. e.reply # "unverified"
      OBVIOUS
    <3> HIDE DEF e
    <3> QED BY <3>2, <3>3, <3>4, <3>5 DEF FinalInv, Ends
  <2>7. ASSUME NEW d \in 0 .. AttemptMax, NEW r \in Replies, AttemptErr(d, r) PROVE FinalInv'
    <3> DEFINE e == [cand |-> i, key |-> key, reply |-> r, committed |-> committed]
    <3>1. pc = "attempt" /\ \A j \in DOMAIN tries : ~Ends(tries[j])
      BY <2>7 DEF AttemptErr, FinalInv
    <3>2. UNCHANGED <<kind, committed>> /\ tries' = Append(tries, e)
      BY <2>7 DEF AttemptErr, cfgVars
    <3>3. /\ DOMAIN tries' = 1 .. Len(tries) + 1 /\ Len(tries') = Len(tries) + 1
          /\ \A j \in DOMAIN tries : tries'[j] = tries[j]
          /\ tries'[Len(tries) + 1] = e
          /\ DOMAIN tries = 1 .. Len(tries) /\ Len(tries) \in Nat
      <4>1. e \in Try /\ tries \in Seq(Try)
        BY <2>7 DEF AttemptErr, TypeInv, TypeOK, WalkIndex, Try
      <4> HIDE DEF e
      <4> QED BY <4>1, <3>2, AppendFacts
    <3>4. \A j \in DOMAIN tries' : j # Len(tries') => ~Ends(tries[j]) /\ tries'[j] = tries[j]
      BY <3>1, <3>3
    <3>5. e.reply = r /\ e.committed = committed
      OBVIOUS
    <3> HIDE DEF e
    <3>6. Ends(e) => pc' = "done" /\ ~result'.ok
      BY <2>7, <3>5, EndingAttempt DEF Ends, failWith
    <3>7. committed => pc' = "done"
      BY <2>7, EndingAttempt
    <3> QED BY <3>2, <3>3, <3>4, <3>5, <3>6, <3>7 DEF FinalInv, Ends
  <2>8. ASSUME NEW d \in Ticks, NEW k \in Keys, RekeyResealed(d, k) PROVE FinalInv'
    BY <2>8 DEF RekeyResealed, FinalInv, Ends, cfgVars, histVars
  <2>9. ASSUME NEW d \in Ticks, RekeyFailed(d) PROVE FinalInv'
    <3>1. pc = "rekey" /\ ~committed /\ \A j \in DOMAIN tries : ~Ends(tries[j])
      BY <2>9 DEF RekeyFailed, FinalInv
    <3>2. UNCHANGED <<kind, committed, tries>>
      BY <2>9 DEF RekeyFailed, cfgVars, histVars
    <3> QED BY <3>1, <3>2 DEF FinalInv, Ends
  <2>10. CASE UNCHANGED vars
    BY <2>10 DEF vars, FinalInv, Ends
  <2> QED
    BY <2>1, <2>2, <2>3, <2>4, <2>5, <2>6, <2>7, <2>8, <2>9, <2>10 DEF Next
<1> QED
  BY <1>1, <1>2, TypeInvariant, PTL DEF Spec

(* Once a frame reached the caller no other attempt is ever begun.            *)
LEMMA StreamsNeverRestart == Spec => []StreamNeverRestarts
<1>1. FinalInv => StreamNeverRestarts
  BY DEF FinalInv, Ends, StreamNeverRestarts
<1> QED
  BY <1>1, FinalInvariant, PTL

(* An accepted job is never followed by another submit.                       *)
LEMMA AcceptedJobsAreFinal == Spec => []AcceptedJobIsFinal
<1>1. FinalInv => AcceptedJobIsFinal
  BY DEF FinalInv, Ends, AcceptedJobIsFinal
<1> QED
  BY <1>1, FinalInvariant, PTL

(* No fallback masks a provider whose answer failed the signature check.      *)
LEMMA UnverifiedEnds == Spec => []UnverifiedEndsCall
<1>1. FinalInv => UnverifiedEndsCall
  BY DEF FinalInv, Ends, UnverifiedEndsCall
<1> QED
  BY <1>1, FinalInvariant, PTL

-----------------------------------------------------------------------------
(* Why a candidate is attempted twice.                                        *)
(*                                                                            *)
(* RekeyOnce compares attempts that may lie far apart, so the induction has   *)
(* to carry where the walk stands relative to them: every attempt so far was  *)
(* on an earlier candidate, except, while a key is re-read or re-sealed to,   *)
(* the last one, which refused the key now held or replaced.                  *)
Untried  == pc = "materialize" \/ (pc = "attempt" /\ ~rekeyed)
Rejected == pc = "rekey" \/ (pc = "attempt" /\ rekeyed)

LastRejected ==
    /\ tries # <<>> /\ lastTry.cand = i /\ lastTry.reply = "mismatch"
    /\ \A j \in DOMAIN tries : j # Len(tries) => tries[j].cand < i
    /\ pc = "rekey" => lastTry.key = key
    /\ pc = "attempt" => lastTry.key # key

RekeyInv ==
    /\ \A j \in DOMAIN tries : tries[j].cand <= i
    /\ Untried => \A j \in DOMAIN tries : tries[j].cand < i
    /\ Rejected => LastRejected
    /\ RekeyOnce

(* Recording one more attempt on the current candidate, under the current key.*)
LEMMA AttemptRecorded ==
    ASSUME TypeInv, RekeyInv, pc = "attempt",
           NEW e \in Try, e.cand = i, e.key = key, tries' = Append(tries, e)
    PROVE  /\ \A j \in DOMAIN tries' : tries'[j].cand <= i
           /\ ~rekeyed => \A j \in DOMAIN tries' : j # Len(tries') => tries'[j].cand < i
           /\ tries' # <<>> /\ tries'[Len(tries')] = e
           /\ RekeyOnce'
<1>0. tries \in Seq(Try) /\ i \in Int /\ rekeyed \in BOOLEAN
  BY DEF TypeInv, TypeOK, Try
<1>1. /\ DOMAIN tries' = 1 .. Len(tries) + 1 /\ Len(tries') = Len(tries) + 1
      /\ \A j \in DOMAIN tries : tries'[j] = tries[j]
      /\ tries'[Len(tries) + 1] = e
      /\ DOMAIN tries = 1 .. Len(tries) /\ Len(tries) \in Nat
  BY <1>0, AppendFacts
<1>2. \A j \in DOMAIN tries' : j = Len(tries) + 1 \/ (j \in DOMAIN tries /\ j < Len(tries) + 1)
  BY <1>1
<1>3. \A j \in DOMAIN tries' : tries'[j].cand <= i
  BY <1>0, <1>1, <1>2 DEF RekeyInv
<1>4. ~rekeyed => \A j \in DOMAIN tries' : j # Len(tries') => tries'[j].cand < i
  BY <1>1, <1>2 DEF RekeyInv, Untried
<1>5. ASSUME NEW j \in DOMAIN tries', NEW m \in DOMAIN tries',
             j < m, tries'[j].cand = tries'[m].cand
      PROVE  m = j + 1 /\ tries'[j].reply = "mismatch" /\ tries'[j].key # tries'[m].key
  <2>1. j \in DOMAIN tries /\ tries'[j] = tries[j]
    BY <1>1, <1>5
  <2>2. CASE m \in DOMAIN tries
    BY <1>1, <1>5, <2>1, <2>2 DEF RekeyInv, RekeyOnce
  <2>3. CASE m = Len(tries) + 1
    <3>1. tries[j].cand = i
      BY <1>1, <1>5, <2>1, <2>3
    <3>2. ~(tries[j].cand < i)
      BY <1>0, <3>1
    <3>3. rekeyed
      BY <2>1, <3>2 DEF RekeyInv, Untried
    <3>4. LastRejected
      BY <3>3 DEF RekeyInv, Rejected
    <3>5. j = Len(tries)
      BY <2>1, <3>2, <3>4 DEF LastRejected
    <3> QED
      BY <1>1, <2>1, <2>3, <3>4, <3>5 DEF LastRejected, lastTry
  <2> QED
    BY <1>2, <2>2, <2>3
<1> QED
  BY <1>1, <1>3, <1>4, <1>5 DEF RekeyOnce

(* RekeyInv holds initially and every step preserves it. *)
LEMMA RekeyInvariant == Spec => []RekeyInv
<1>1. Init => RekeyInv
  BY DEF Init, RekeyInv, RekeyOnce, Untried, Rejected
<1>2. TypeInv /\ TypeInv' /\ RekeyInv /\ [Next]_vars => RekeyInv'
  <2> SUFFICES ASSUME TypeInv, TypeInv', RekeyInv, [Next]_vars PROVE RekeyInv'
    OBVIOUS
  <2>0. /\ i \in Int /\ tries \in Seq(Try)
        /\ \A j \in DOMAIN tries : tries[j].cand \in Int
    <3>1. i \in Int /\ tries \in Seq(Try)
      BY DEF TypeInv, TypeOK, Try
    <3>2. \A j \in DOMAIN tries : tries[j] \in Try
      BY <3>1, ElementType
    <3>3. \A t \in Try : t.cand \in Int
      BY DEF Try
    <3> QED BY <3>1, <3>2, <3>3
  <2>1. CASE Cancel
    BY <2>1 DEF Cancel, RekeyInv, RekeyOnce, Untried, Rejected, LastRejected, lastTry, histVars
  <2>2. ASSUME NEW len \in 0 .. MaxCandidates, Resolve(len) PROVE RekeyInv'
    <3>1. tries' = <<>> /\ pc' \in {"materialize", "done"}
      BY <2>2 DEF Resolve, TypeInv, FreshChain, histVars
    <3> QED BY <3>1 DEF RekeyInv, RekeyOnce, Untried, Rejected
  <2>3. ASSUME NEW d \in Ticks, NEW k \in Keys, MaterializeOK(d, k) PROVE RekeyInv'
    BY <2>3 DEF MaterializeOK, RekeyInv, RekeyOnce, Untried, Rejected, histVars
  <2>4. ASSUME NEW d \in Ticks, MaterializeErr(d) PROVE RekeyInv'
    <3>1. \/ pc' = "done" /\ i' = i
          \/ pc' = "materialize" /\ i' = i + 1
      BY <2>4 DEF MaterializeErr, breakWalk, nextCandidate
    <3>2. tries' = tries
      BY <2>4 DEF MaterializeErr
    <3> QED BY <2>0, <3>1, <3>2 DEF RekeyInv, RekeyOnce, Untried, Rejected
  <2>5. CASE FirstFrame
    BY <2>5 DEF FirstFrame, RekeyInv, RekeyOnce, Untried, Rejected, LastRejected, lastTry, histVars
  <2>6. ASSUME NEW d \in 0 .. AttemptMax, AttemptOK(d) PROVE RekeyInv'
    <3> DEFINE e == [cand |-> i, key |-> key, reply |-> "ok", committed |-> committed]
    <3>1. e \in Try /\ e.cand = i /\ e.key = key
      BY <2>6 DEF AttemptOK, TypeInv, TypeOK, WalkIndex, Try, Replies, Accepted
    <3>2. pc = "attempt" /\ pc' = "done" /\ i' = i /\ tries' = Append(tries, e)
      BY <2>6 DEF AttemptOK
    <3> HIDE DEF e
    <3>3. (\A j \in DOMAIN tries' : tries'[j].cand <= i) /\ RekeyOnce'
      BY <3>1, <3>2, AttemptRecorded
    <3> QED BY <3>2, <3>3 DEF RekeyInv, Untried, Rejected
  <2>7. ASSUME NEW d \in 0 .. AttemptMax, NEW r \in Replies, AttemptErr(d, r) PROVE RekeyInv'
    <3> DEFINE e == [cand |-> i, key |-> key, reply |-> r, committed |-> committed]
    <3>1. e \in Try /\ e.cand = i /\ e.key = key /\ e.reply = r
      BY <2>7 DEF AttemptErr, TypeInv, TypeOK, WalkIndex, Try
    <3>2. pc = "attempt" /\ tries' = Append(tries, e)
      BY <2>7 DEF AttemptErr
    <3>3. \/ pc' = "done" /\ i' = i
          \/ pc' = "materialize" /\ i' = i + 1
          \/ pc' = "rekey" /\ i' = i /\ key' = key /\ r = "mismatch" /\ ~rekeyed
      BY <2>7 DEF AttemptErr, mayRekey, afterRetry, breakWalk, nextCandidate
    <3> HIDE DEF e
    <3>4. /\ \A j \in DOMAIN tries' : tries'[j].cand <= i
          /\ ~rekeyed => \A j \in DOMAIN tries' : j # Len(tries') => tries'[j].cand < i
          /\ tries' # <<>> /\ tries'[Len(tries')] = e
          /\ RekeyOnce'
      BY <3>1, <3>2, AttemptRecorded
    <3>5. \A j \in DOMAIN tries' : tries'[j].cand \in Int
      <4>1. tries' \in Seq(Try')
        BY DEF TypeInv, TypeOK, Try
      <4>2. \A j \in DOMAIN tries' : tries'[j] \in Try'
        BY <4>1, ElementType
      <4>3. \A t \in Try' : t.cand \in Int
        BY DEF Try
      <4> QED BY <4>2, <4>3
    <3>6. CASE pc' = "done" /\ i' = i
      BY <3>4, <3>6 DEF RekeyInv, Untried, Rejected
    <3>7. CASE pc' = "materialize" /\ i' = i + 1
      <4>1. \A j \in DOMAIN tries' : tries'[j].cand < i'
        BY <2>0, <3>4, <3>5, <3>7
      <4>2. \A j \in DOMAIN tries' : tries'[j].cand <= i'
        BY <2>0, <3>4, <3>5, <3>7
      <4> QED BY <3>4, <3>7, <4>1, <4>2 DEF RekeyInv, Untried, Rejected
    <3>8. CASE pc' = "rekey" /\ i' = i /\ key' = key /\ r = "mismatch" /\ ~rekeyed
      <4>1. LastRejected'
        BY <3>1, <3>4, <3>8 DEF LastRejected, lastTry
      <4> QED BY <3>4, <3>8, <4>1 DEF RekeyInv, Untried, Rejected
    <3> QED BY <3>3, <3>6, <3>7, <3>8
  <2>8. ASSUME NEW d \in Ticks, NEW k \in Keys, RekeyResealed(d, k) PROVE RekeyInv'
    <3>1. /\ pc = "rekey" /\ pc' = "attempt" /\ rekeyed' /\ key' # key
          /\ UNCHANGED <<i, tries>>
      BY <2>8 DEF RekeyResealed, histVars
    <3>2. LastRejected'
      BY <3>1 DEF RekeyInv, Rejected, LastRejected, lastTry
    <3> QED BY <3>1, <3>2 DEF RekeyInv, RekeyOnce, Untried, Rejected
  <2>9. ASSUME NEW d \in Ticks, RekeyFailed(d) PROVE RekeyInv'
    <3>1. \/ pc' = "done" /\ i' = i
          \/ pc' = "materialize" /\ i' = i + 1
      BY <2>9 DEF RekeyFailed, afterRetry, breakWalk, nextCandidate
    <3>2. tries' = tries
      BY <2>9 DEF RekeyFailed, histVars
    <3> QED BY <2>0, <3>1, <3>2 DEF RekeyInv, RekeyOnce, Untried, Rejected
  <2>10. CASE UNCHANGED vars
    BY <2>10 DEF vars, RekeyInv, RekeyOnce, Untried, Rejected, LastRejected, lastTry
  <2> QED
    BY <2>1, <2>2, <2>3, <2>4, <2>5, <2>6, <2>7, <2>8, <2>9, <2>10 DEF Next
<1> QED
  BY <1>1, <1>2, TypeInvariant, PTL DEF Spec

(* Every attempt after the first was called for: nothing that may already     *)
(* have been delivered, accepted or found false is tried again, and the same  *)
(* candidate only once, after it refused a key that has changed since.        *)
THEOREM AttemptsAreJustified == Spec => []AttemptsJustified
<1>1. StreamNeverRestarts /\ AcceptedJobIsFinal /\ UnverifiedEndsCall /\ RekeyInv => AttemptsJustified
  BY DEF AttemptsJustified, RekeyInv
<1> QED
  BY <1>1, StreamsNeverRestart, AcceptedJobsAreFinal, UnverifiedEnds, RekeyInvariant, PTL

-----------------------------------------------------------------------------
(* What a call reports.                                                       *)
(*                                                                            *)
(* walkErr keeps one failure; w is the right one to keep of the failures s    *)
(* offered so far when it is the latest of those that tell most.              *)
Keeps(s, w) ==
    IF s = <<>> THEN w.tier = NoFailure
    ELSE \E j \in DOMAIN s :
            /\ s[j] = w
            /\ \A m \in DOMAIN s : s[m].tier <= w.tier /\ (m > j => s[m].tier < w.tier)

ErrorInv ==
    /\ Keeps(tiers, fail)
    /\ (pc = "done" /\ ~result.ok) => result.tier = fail.tier /\ result.cand = fail.cand

(* record keeps the right failure when one more is offered.                   *)
LEMMA RecordKeeps ==
    ASSUME NEW S, S \subseteq [tier : tierMaterialize .. tierAttempt, cand : Nat],
           NEW s \in Seq(S), NEW w \in [tier : NoFailure .. tierAttempt, cand : Nat],
           NEW e \in S, Keeps(s, w)
    PROVE  Keeps(Append(s, e), record(w, e.tier, e.cand))
<1> DEFINE a == Append(s, e)
           v == record(w, e.tier, e.cand)
<1>1. /\ DOMAIN a = 1 .. Len(s) + 1 /\ Len(a) = Len(s) + 1
      /\ \A j \in DOMAIN s : a[j] = s[j]
      /\ a[Len(s) + 1] = e
      /\ DOMAIN s = 1 .. Len(s) /\ Len(s) \in Nat
  BY AppendFacts
<1>2. /\ e.tier \in 0 .. 2 /\ e = [tier |-> e.tier, cand |-> e.cand]
      /\ w.tier \in -1 .. 2
  BY DEF NoFailure, tierMaterialize, tierAttempt
<1>3. \A j \in DOMAIN s : s[j].tier \in 0 .. 2
  BY ElementType DEF tierMaterialize, tierAttempt
<1>4. a # <<>>
  BY <1>1
<1>5. CASE w.tier = NoFailure \/ e.tier >= w.tier
  <2>1. v = e
    BY <1>2, <1>5 DEF record
  <2>2. \A m \in DOMAIN s : s[m].tier <= e.tier
    <3>1. CASE s = <<>>
      BY <3>1
    <3>2. CASE s # <<>>
      <4>1. PICK j \in DOMAIN s : s[j] = w /\ \A m \in DOMAIN s : s[m].tier <= w.tier
        BY <3>2 DEF Keeps
      <4>2. e.tier >= w.tier
        BY <1>2, <1>3, <1>5, <4>1 DEF NoFailure
      <4> QED BY <1>2, <1>3, <4>1, <4>2
    <3> QED BY <3>1, <3>2
  <2>3. Len(s) + 1 \in DOMAIN a
    BY <1>1
  <2>4. ASSUME NEW m \in DOMAIN a
        PROVE  a[m].tier <= v.tier /\ (m > Len(s) + 1 => a[m].tier < v.tier)
    BY <1>1, <1>2, <2>1, <2>2
  <2> HIDE DEF a, v
  <2>5. Keeps(a, v)
    BY <1>1, <1>4, <2>1, <2>3, <2>4 DEF Keeps
  <2> QED BY <2>5 DEF a, v
<1>6. CASE ~(w.tier = NoFailure \/ e.tier >= w.tier)
  <2>1. v = w
    BY <1>6 DEF record
  <2>2. s # <<>>
    BY <1>6 DEF Keeps
  <2>3. PICK j \in DOMAIN s : s[j] = w /\ \A m \in DOMAIN s : s[m].tier <= w.tier /\ (m > j => s[m].tier < w.tier)
    BY <2>2 DEF Keeps
  <2>4. j \in DOMAIN a /\ a[j] = w
    BY <1>1, <2>3
  <2>5. ASSUME NEW m \in DOMAIN a
        PROVE  a[m].tier <= v.tier /\ (m > j => a[m].tier < v.tier)
    <3>1. CASE m = Len(s) + 1
      BY <1>1, <1>2, <1>6, <2>1, <3>1, SMTT(30)
    <3>2. CASE m \in DOMAIN s
      BY <1>1, <2>1, <2>3, <3>2
    <3> QED BY <1>1, <3>1, <3>2
  <2> HIDE DEF a, v
  <2>6. Keeps(a, v)
    BY <1>4, <2>1, <2>4, <2>5 DEF Keeps
  <2> QED BY <2>6 DEF a, v
<1> QED BY <1>5, <1>6

(* ErrorInv holds initially and every step preserves it.                      *)
LEMMA ErrorInvariant == Spec => []ErrorInv
<1>1. Init => ErrorInv
  BY DEF Init, ErrorInv, Keeps
<1>2. TypeInv /\ ErrorInv /\ [Next]_vars => ErrorInv'
  <2> SUFFICES ASSUME TypeInv, ErrorInv, [Next]_vars PROVE ErrorInv'
    OBVIOUS
  <2>0. /\ tiers \in Seq(Offer) /\ fail \in [tier : NoFailure .. tierAttempt, cand : Nat]
        /\ Offer \subseteq [tier : tierMaterialize .. tierAttempt, cand : Nat]
    BY DEF TypeInv, TypeOK, Offer
  <2>1. CASE Cancel
    BY <2>1 DEF Cancel, ErrorInv, Keeps, histVars
  <2>2. ASSUME NEW len \in 0 .. MaxCandidates, Resolve(len) PROVE ErrorInv'
    <3>1. UNCHANGED <<tiers, fail>> /\ (pc' = "done" => result' = failWith(fail))
      BY <2>2 DEF Resolve, histVars
    <3> QED BY <3>1 DEF ErrorInv, Keeps, failWith
  <2>3. ASSUME NEW d \in Ticks, NEW k \in Keys, MaterializeOK(d, k) PROVE ErrorInv'
    BY <2>3 DEF MaterializeOK, ErrorInv, Keeps, histVars
  <2>4. ASSUME NEW d \in Ticks, MaterializeErr(d) PROVE ErrorInv'
    <3>1. PICK t \in {tierBudget, tierMaterialize} :
             /\ fail' = record(fail, t, i) /\ tiers' = Append(tiers, [tier |-> t, cand |-> i])
             /\ pc' = "done" => result' = failWith(fail')
      <4> DEFINE cut == ~canceled /\ exhausted(spent + d)
                 t   == IF cut THEN tierBudget ELSE tierMaterialize
      <4>1. t \in {tierBudget, tierMaterialize}
        OBVIOUS
      <4>2. /\ fail' = record(fail, t, i) /\ tiers' = Append(tiers, [tier |-> t, cand |-> i])
            /\ breakWalk(fail') \/ nextCandidate(fail')
        BY <2>4 DEF MaterializeErr
      <4>3. pc' = "done" => result' = failWith(fail')
        BY <4>2 DEF breakWalk, nextCandidate
      <4> HIDE DEF t
      <4> QED BY <4>1, <4>2, <4>3
    <3>2. i \in 1 .. n
      BY <2>4 DEF MaterializeErr, TypeInv, WalkIndex
    <3> DEFINE e == [tier |-> t, cand |-> i]
    <3>3. e \in Offer /\ e.tier = t /\ e.cand = i
      BY <3>2 DEF Offer, tierBudget, tierMaterialize, tierAttempt
    <3> HIDE DEF e
    <3>4. Keeps(Append(tiers, e), record(fail, e.tier, e.cand))
      BY <2>0, <3>3, RecordKeeps DEF ErrorInv
    <3>5. Keeps(tiers', fail')
      BY <3>1, <3>3, <3>4 DEF e
    <3> QED BY <3>1, <3>5 DEF ErrorInv, Keeps, failWith
  <2>5. CASE FirstFrame
    BY <2>5 DEF FirstFrame, ErrorInv, Keeps, histVars
  <2>6. ASSUME NEW d \in 0 .. AttemptMax, AttemptOK(d) PROVE ErrorInv'
    BY <2>6 DEF AttemptOK, ErrorInv, Keeps
  <2>7. ASSUME NEW d \in 0 .. AttemptMax, NEW r \in Replies, AttemptErr(d, r) PROVE ErrorInv'
    <3> DEFINE e == [tier |-> tierAttempt, cand |-> i]
    <3>1. /\ fail' = record(fail, tierAttempt, i) /\ tiers' = Append(tiers, e)
          /\ pc' = "rekey" \/ breakWalk(fail') \/ nextCandidate(fail')
      BY <2>7 DEF AttemptErr, afterRetry
    <3>2. pc' = "done" => result' = failWith(fail')
      BY <3>1 DEF breakWalk, nextCandidate
    <3>3. i \in 1 .. n
      BY <2>7 DEF AttemptErr, TypeInv, WalkIndex
    <3>4. e \in Offer /\ e.tier = tierAttempt /\ e.cand = i
      BY <3>3 DEF Offer, tierMaterialize, tierAttempt
    <3> HIDE DEF e
    <3>5. Keeps(Append(tiers, e), record(fail, e.tier, e.cand))
      BY <2>0, <3>4, RecordKeeps DEF ErrorInv
    <3>6. Keeps(tiers', fail')
      BY <3>1, <3>4, <3>5
    <3> QED BY <3>2, <3>6 DEF ErrorInv, Keeps, failWith
  <2>8. ASSUME NEW d \in Ticks, NEW k \in Keys, RekeyResealed(d, k) PROVE ErrorInv'
    BY <2>8 DEF RekeyResealed, ErrorInv, Keeps, histVars
  <2>9. ASSUME NEW d \in Ticks, RekeyFailed(d) PROVE ErrorInv'
    <3>1. UNCHANGED <<tiers, fail>> /\ (breakWalk(fail) \/ nextCandidate(fail))
      BY <2>9 DEF RekeyFailed, afterRetry, histVars
    <3>2. pc' = "done" => result' = failWith(fail)
      BY <3>1 DEF breakWalk, nextCandidate
    <3> QED BY <3>1, <3>2 DEF ErrorInv, Keeps, failWith
  <2>10. CASE UNCHANGED vars
    BY <2>10 DEF vars, ErrorInv, Keeps
  <2> QED
    BY <2>1, <2>2, <2>3, <2>4, <2>5, <2>6, <2>7, <2>8, <2>9, <2>10 DEF Next
<1> QED
  BY <1>1, <1>2, TypeInvariant, PTL DEF Spec

(* The error a call returns is the latest of the most informative it met.     *)
LEMMA ErrorIsMostInformative == Spec => []MostInformativeError
<1>1. TypeInv /\ ErrorInv => MostInformativeError
  <2> SUFFICES ASSUME TypeInv, ErrorInv, pc = "done", ~result.ok, tiers # <<>>
               PROVE  \E j \in DOMAIN tiers :
                         /\ tiers[j] = [tier |-> result.tier, cand |-> result.cand]
                         /\ \A m \in DOMAIN tiers :
                               /\ tiers[m].tier <= tiers[j].tier
                               /\ m > j => tiers[m].tier < tiers[j].tier
    BY DEF MostInformativeError
  <2>1. PICK j \in DOMAIN tiers :
           /\ tiers[j] = fail
           /\ \A m \in DOMAIN tiers : tiers[m].tier <= fail.tier /\ (m > j => tiers[m].tier < fail.tier)
    BY DEF ErrorInv, Keeps
  <2>2. fail = [tier |-> result.tier, cand |-> result.cand]
    BY DEF ErrorInv, TypeInv, TypeOK
  <2> QED BY <2>1, <2>2
<1> QED BY <1>1, TypeInvariant, ErrorInvariant, PTL

(* The headers shown belong to the attempt whose bytes the caller received:   *)
(* an attempt that delivered a frame ends the call (EndingAttempt), so what   *)
(* it recorded is never left behind by a walk that moves on.                  *)
LEMMA MetaIsFromAnswer == Spec => []MetaFromAnswer
<1>1. Init => MetaFromAnswer
  BY DEF Init, MetaFromAnswer
<1>2. TypeInv /\ FinalInv /\ MetaFromAnswer /\ [Next]_vars => MetaFromAnswer'
  <2> SUFFICES ASSUME TypeInv, FinalInv, MetaFromAnswer, [Next]_vars PROVE MetaFromAnswer'
    OBVIOUS
  <2>1. CASE Cancel
    BY <2>1 DEF Cancel, MetaFromAnswer, lastTry, histVars
  <2>2. ASSUME NEW len \in 0 .. MaxCandidates, Resolve(len) PROVE MetaFromAnswer'
    BY <2>2 DEF Resolve, MetaFromAnswer
  <2>3. ASSUME NEW d \in Ticks, NEW k \in Keys, MaterializeOK(d, k) PROVE MetaFromAnswer'
    BY <2>3 DEF MaterializeOK, MetaFromAnswer
  <2>4. ASSUME NEW d \in Ticks, MaterializeErr(d) PROVE MetaFromAnswer'
    BY <2>4 DEF MaterializeErr, MetaFromAnswer
  <2>5. CASE FirstFrame
    BY <2>5 DEF FirstFrame, MetaFromAnswer
  <2>6. ASSUME NEW d \in 0 .. AttemptMax, AttemptOK(d) PROVE MetaFromAnswer'
    <3> DEFINE e == [cand |-> i, key |-> key, reply |-> "ok", committed |-> committed]
    <3>1. e \in Try /\ tries \in Seq(Try) /\ e.cand = i
      BY <2>6 DEF AttemptOK, TypeInv, TypeOK, WalkIndex, Try, Replies, Accepted
    <3>2. /\ meta' = i /\ pc' = "done" /\ result'.ok /\ tries' = Append(tries, e)
      BY <2>6 DEF AttemptOK
    <3> HIDE DEF e
    <3>3. tries' # <<>> /\ tries'[Len(tries')] = e
      BY <3>1, <3>2, AppendFacts
    <3> QED BY <3>1, <3>2, <3>3 DEF MetaFromAnswer, lastTry
  <2>7. ASSUME NEW d \in 0 .. AttemptMax, NEW r \in Replies, AttemptErr(d, r) PROVE MetaFromAnswer'
    <3> DEFINE e == [cand |-> i, key |-> key, reply |-> r, committed |-> committed]
    <3>1. e \in Try /\ tries \in Seq(Try) /\ e.cand = i /\ e.committed = committed
      BY <2>7 DEF AttemptErr, TypeInv, TypeOK, WalkIndex, Try
    <3>2. pc = "attempt" /\ meta' = meta /\ tries' = Append(tries, e)
      BY <2>7 DEF AttemptErr
    <3> HIDE DEF e
    <3>3. tries' # <<>> /\ tries'[Len(tries')] = e
      BY <3>1, <3>2, AppendFacts
    <3>4. meta # 0 => committed /\ meta = i
      BY <3>2 DEF MetaFromAnswer
    <3>5. committed => pc' = "done"
      BY <2>7, EndingAttempt
    <3> QED BY <3>1, <3>2, <3>3, <3>4, <3>5 DEF MetaFromAnswer, lastTry
  <2>8. ASSUME NEW d \in Ticks, NEW k \in Keys, RekeyResealed(d, k) PROVE MetaFromAnswer'
    BY <2>8 DEF RekeyResealed, MetaFromAnswer
  <2>9. ASSUME NEW d \in Ticks, RekeyFailed(d) PROVE MetaFromAnswer'
    BY <2>9 DEF RekeyFailed, MetaFromAnswer
  <2>10. CASE UNCHANGED vars
    BY <2>10 DEF vars, MetaFromAnswer, lastTry
  <2> QED
    BY <2>1, <2>2, <2>3, <2>4, <2>5, <2>6, <2>7, <2>8, <2>9, <2>10 DEF Next
<1> QED
  BY <1>1, <1>2, TypeInvariant, FinalInvariant, PTL DEF Spec

(* The counters: while the call runs the budget has cut nothing short.        *)
MetricsInv == MetricsExact /\ (pc # "done" => budgetCuts = 0)

(* The end of a walk that could have moved on is booked on the budget.        *)
LEMMA WalkOnCounted ==
    ASSUME TypeInv, MetricsInv, i \in 1 .. n, pc # "done",
           NEW s \in Nat, NEW w, spent' = s, afterRetry(s, w), UNCHANGED <<n, canceled>>
    PROVE  /\ fallbacks' = i' - 1 /\ i' # 0
           /\ budgetCuts' \in {0, 1}
           /\ budgetCuts' = 1 => pc' = "done" /\ ~result'.ok /\ ~canceled' /\ exhausted(spent')
           /\ (pc' = "done" /\ ~canceled' /\ budgetCuts' = 0) => i' = n'
           /\ pc' # "done" => budgetCuts' = 0
<1>1. i \in Int /\ n \in Int /\ 1 <= i /\ i <= n /\ fallbacks = i - 1 /\ budgetCuts = 0 /\ canceled \in BOOLEAN
  BY DEF MetricsInv, MetricsExact, TypeInv, TypeOK
<1>2. ~failWith(w).ok
  BY DEF failWith
<1> DEFINE cut == ~canceled /\ exhausted(s)
<1>3. CASE cut
  <2>1. breakWalk(w) /\ budgetCuts' = movesOn
    BY <1>1, <1>3 DEF afterRetry, movesOn
  <2> QED BY <1>1, <1>2, <1>3, <2>1 DEF breakWalk, movesOn
<1>4. CASE canceled
  <2>1. breakWalk(w) /\ budgetCuts' = 0
    BY <1>1, <1>4 DEF afterRetry
  <2> QED BY <1>1, <1>4, <2>1 DEF breakWalk
<1>5. CASE ~canceled /\ ~cut
  <2>1. nextCandidate(w) /\ budgetCuts' = 0
    BY <1>1, <1>5 DEF afterRetry
  <2> QED BY <1>1, <1>5, <2>1 DEF nextCandidate, movesOn
<1> QED BY <1>3, <1>4, <1>5

(* MetricsInv holds initially and every step preserves it.                    *)
LEMMA MetricsInvariant == Spec => []MetricsInv
<1>1. Init => MetricsInv
  BY DEF Init, MetricsInv, MetricsExact
<1>2. TypeInv /\ MetricsInv /\ [Next]_vars => MetricsInv'
  <2> SUFFICES ASSUME TypeInv, MetricsInv, [Next]_vars PROVE MetricsInv'
    OBVIOUS
  <2> USE WalkAssumption
  <2>1. CASE Cancel
    BY <2>1 DEF Cancel, MetricsInv, MetricsExact
  <2>2. ASSUME NEW len \in 0 .. MaxCandidates, Resolve(len) PROVE MetricsInv'
    <3>1. fallbacks = 0 /\ budgetCuts = 0
      BY <2>2 DEF Resolve, MetricsInv, MetricsExact, TypeInv, FreshChain
    <3>2. UNCHANGED <<fallbacks, budgetCuts>> /\ i' \in {0, 1} /\ (pc' = "done" => i' = 0 /\ n' = 0)
      BY <2>2 DEF Resolve
    <3> QED BY <3>1, <3>2 DEF MetricsInv, MetricsExact
  <2>3. ASSUME NEW d \in Ticks, NEW k \in Keys, MaterializeOK(d, k) PROVE MetricsInv'
    BY <2>3 DEF MaterializeOK, MetricsInv, MetricsExact
  <2>4. ASSUME NEW d \in Ticks, MaterializeErr(d) PROVE MetricsInv'
    <3> DEFINE cut == ~canceled /\ exhausted(spent + d)
    <3>1. PICK w : IF canceled \/ cut THEN breakWalk(w) ELSE nextCandidate(w)
      BY <2>4 DEF MaterializeErr
    <3>2. /\ pc = "materialize" /\ budgetCuts' = IF cut THEN budgetCuts + 1 ELSE budgetCuts
          /\ spent' = spent + d /\ UNCHANGED <<n, canceled>>
      BY <2>4 DEF MaterializeErr
    <3>3. /\ i \in Int /\ n \in Int /\ 1 <= i /\ i <= n /\ fallbacks = i - 1 /\ budgetCuts = 0
          /\ canceled \in BOOLEAN
      BY <3>2 DEF MetricsInv, MetricsExact, TypeInv, TypeOK, WalkIndex
    <3>4. ~failWith(w).ok
      BY DEF failWith
    <3>5. CASE canceled
      BY <3>1, <3>2, <3>3, <3>5 DEF breakWalk, MetricsInv, MetricsExact
    <3>6. CASE cut
      <4>1. /\ budgetCuts' = 1 /\ pc' = "done" /\ ~result'.ok /\ ~canceled' /\ exhausted(spent')
            /\ i' = i /\ fallbacks' = fallbacks
        BY <3>1, <3>2, <3>3, <3>4, <3>6 DEF breakWalk
      <4> QED BY <3>3, <4>1 DEF MetricsInv, MetricsExact
    <3>7. CASE ~canceled /\ ~cut
      <4>1. budgetCuts' = 0 /\ nextCandidate(w)
        BY <3>1, <3>2, <3>3, <3>7
      <4>2. fallbacks' = i' - 1 /\ i' # 0 /\ (pc' = "done" => i' = n')
        BY <3>2, <3>3, <4>1 DEF nextCandidate, movesOn
      <4>3. i' \in Int /\ n' \in Int
        BY <3>2, <3>3, <4>1 DEF nextCandidate
      <4> QED BY <4>1, <4>2, <4>3 DEF MetricsInv, MetricsExact
    <3> QED BY <3>5, <3>6, <3>7
  <2>5. CASE FirstFrame
    BY <2>5 DEF FirstFrame, MetricsInv, MetricsExact
  <2>6. ASSUME NEW d \in 0 .. AttemptMax, AttemptOK(d) PROVE MetricsInv'
    BY <2>6 DEF AttemptOK, MetricsInv, MetricsExact
  <2>7. ASSUME NEW d \in 0 .. AttemptMax, NEW r \in Replies, AttemptErr(d, r) PROVE MetricsInv'
    <3> DEFINE e == [cand |-> i, key |-> key, reply |-> r, committed |-> committed]
               w == record(fail, tierAttempt, i)
               s == charge(spent, d)
    <3>1. e \in Try /\ tries \in Seq(Try) /\ e.reply = r /\ i \in 1 .. n
      BY <2>7 DEF AttemptErr, TypeInv, TypeOK, WalkIndex, Try
    <3>2. /\ pc = "attempt" /\ tries' = Append(tries, e) /\ spent' = s
          /\ UNCHANGED <<kind, committed, n, canceled>>
      BY <2>7 DEF AttemptErr, cfgVars
    <3>3. s \in Nat
      BY DEF charge, TypeInv, TypeOK
    <3>4. /\ i \in Int /\ n \in Int /\ i # 0 /\ fallbacks = i - 1 /\ budgetCuts = 0
      BY <3>1, <3>2 DEF MetricsInv, MetricsExact, TypeInv, TypeOK
    <3>5. CASE mayRekey(r, s)
      <4>1. pc' = "rekey" /\ UNCHANGED <<i, fallbacks, budgetCuts>>
        BY <2>7, <3>5 DEF AttemptErr
      <4> QED BY <3>4, <4>1 DEF MetricsInv, MetricsExact
    <3>6. CASE ~mayRekey(r, s) /\ (r = "mismatch" \/ retryable(r))
      <4>1. afterRetry(s, w)
        BY <2>7, <3>6 DEF AttemptErr
      <4>2. /\ fallbacks' = i' - 1 /\ i' # 0
            /\ budgetCuts' \in {0, 1}
            /\ budgetCuts' = 1 => pc' = "done" /\ ~result'.ok /\ ~canceled' /\ exhausted(spent')
            /\ (pc' = "done" /\ ~canceled' /\ budgetCuts' = 0) => i' = n'
            /\ pc' # "done" => budgetCuts' = 0
        <5> HIDE DEF s, w
        <5> QED BY <3>1, <3>2, <3>3, <4>1, WalkOnCounted
      <4>3. n' \in Int
        BY <3>2, <3>4
      <4> QED BY <4>2, <4>3 DEF MetricsInv, MetricsExact
    <3>7. CASE ~mayRekey(r, s) /\ ~(r = "mismatch" \/ retryable(r))
      <4>1. pc' = "done" /\ UNCHANGED <<i, fallbacks, budgetCuts>>
        BY <2>7, <3>7 DEF AttemptErr, breakWalk
      <4>2. tries'[Len(tries')] = e
        <5> HIDE DEF e
        <5> QED BY <3>1, <3>2, AppendFacts
      <4>3. ~retryable(r)'
        BY <3>2, <3>7 DEF retryable, completeOnceRetry, streamOnceRetry, submitOnceRetry
      <4> HIDE DEF e
      <4>4. ~retryable(lastTry.reply)'
        BY <3>1, <4>2, <4>3 DEF lastTry, retryable, completeOnceRetry, streamOnceRetry, submitOnceRetry
      <4> QED BY <3>4, <4>1, <4>4 DEF MetricsInv, MetricsExact
    <3> QED BY <3>5, <3>6, <3>7
  <2>8. ASSUME NEW d \in Ticks, NEW k \in Keys, RekeyResealed(d, k) PROVE MetricsInv'
    BY <2>8 DEF RekeyResealed, MetricsInv, MetricsExact
  <2>9. ASSUME NEW d \in Ticks, RekeyFailed(d) PROVE MetricsInv'
    <3> DEFINE s == spent + d
    <3>1. /\ pc = "rekey" /\ spent' = s /\ afterRetry(s, fail) /\ UNCHANGED <<n, canceled>>
          /\ s \in Nat /\ i \in 1 .. n
      BY <2>9 DEF RekeyFailed, Ticks, TypeInv, TypeOK, WalkIndex
    <3> HIDE DEF s
    <3>2. /\ fallbacks' = i' - 1 /\ i' # 0
          /\ budgetCuts' \in {0, 1}
          /\ budgetCuts' = 1 => pc' = "done" /\ ~result'.ok /\ ~canceled' /\ exhausted(spent')
          /\ (pc' = "done" /\ ~canceled' /\ budgetCuts' = 0) => i' = n'
          /\ pc' # "done" => budgetCuts' = 0
      BY <3>1, WalkOnCounted
    <3>3. n' \in Int
      BY <3>1 DEF TypeInv, TypeOK
    <3> QED BY <3>2, <3>3 DEF MetricsInv, MetricsExact
  <2>10. CASE UNCHANGED vars
    BY <2>10 DEF vars, MetricsInv, MetricsExact, lastTry, retryable, completeOnceRetry,
                 streamOnceRetry, submitOnceRetry
  <2> QED
    BY <2>1, <2>2, <2>3, <2>4, <2>5, <2>6, <2>7, <2>8, <2>9, <2>10 DEF Next
<1> QED
  BY <1>1, <1>2, TypeInvariant, PTL DEF Spec

(* What a call reports is true of it (walkErr, recordMeta, metricFallback,    *)
(* metricWalkBudgetExhausted): the error it returns is the latest of the most *)
(* informative it met, its headers are those of the attempt the caller read,  *)
(* and the two counters moved for the reasons they are read for.              *)
THEOREM CallReportIsTrue == Spec => []CallReport
<1>1. MostInformativeError /\ MetaFromAnswer /\ MetricsInv => CallReport
  BY DEF CallReport, MetricsInv
<1> QED
  BY <1>1, ErrorIsMostInformative, MetaIsFromAnswer, MetricsInvariant, PTL

-----------------------------------------------------------------------------
(* A caller that went away ends the walk: no step taken after the disconnect  *)
(* moves to another candidate.                                                *)
THEOREM NoWalkAfterCancelHolds == Spec => NoWalkAfterCancel
<1>1. TypeInv /\ [Next]_vars => [canceled /\ i > 0 => i' = i]_vars
  <2> SUFFICES ASSUME TypeInv, Next, canceled, i > 0 PROVE i' = i
    OBVIOUS
  <2>1. CASE Cancel
    BY <2>1 DEF Cancel
  <2>2. ASSUME NEW len \in 0 .. MaxCandidates, Resolve(len) PROVE i' = i
    BY <2>2 DEF Resolve, TypeInv, FreshChain
  <2>3. ASSUME NEW d \in Ticks, NEW k \in Keys, MaterializeOK(d, k) PROVE i' = i
    BY <2>3 DEF MaterializeOK
  <2>4. ASSUME NEW d \in Ticks, MaterializeErr(d) PROVE i' = i
    BY <2>4 DEF MaterializeErr, breakWalk
  <2>5. CASE FirstFrame
    BY <2>5 DEF FirstFrame
  <2>6. ASSUME NEW d \in 0 .. AttemptMax, AttemptOK(d) PROVE i' = i
    BY <2>6 DEF AttemptOK
  <2>7. ASSUME NEW d \in 0 .. AttemptMax, NEW r \in Replies, AttemptErr(d, r) PROVE i' = i
    BY <2>7 DEF AttemptErr, afterRetry, breakWalk
  <2>8. ASSUME NEW d \in Ticks, NEW k \in Keys, RekeyResealed(d, k) PROVE i' = i
    BY <2>8 DEF RekeyResealed
  <2>9. ASSUME NEW d \in Ticks, RekeyFailed(d) PROVE i' = i
    BY <2>9 DEF RekeyFailed, afterRetry, breakWalk
  <2> QED
    BY <2>1, <2>2, <2>3, <2>4, <2>5, <2>6, <2>7, <2>8, <2>9 DEF Next
<1> QED
  BY <1>1, TypeInvariant, PTL DEF Spec, NoWalkAfterCancel
=============================================================================
