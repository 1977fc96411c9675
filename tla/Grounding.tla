------------------------------ MODULE Grounding ------------------------------
(***************************************************************************)
(* client/route: how concurrent requests turn one router-chosen candidate  *)
(* into a provider they seal to (materialize): the verified quote cache    *)
(* with its two single flights, the grounding of the quoted signer in the  *)
(* on-chain registry, and the two rate-limited recoveries that re-read one *)
(* side or the other before a provider is turned away.                     *)
(*                                                                         *)
(* The provider rotates: generation g stands for the enclave that holds    *)
(* enc key g and signer g.  The chain acknowledges a generation some time  *)
(* after the broker starts serving it.  The registry cache is SignerCache, *)
(* here reduced to what a reading says and whether it is cached.           *)
(***************************************************************************)
EXTENDS Integers, FiniteSets, Sequences

CONSTANTS
    Requests,
    Enforce,      \* onchainEnforce
    QuoteTTL,     \* quote cache lifetime, and the re-verification window
    SignerTTL, SignerGrace,
    Window,       \* signerRevalidateWindow
    Backoff,      \* reverifyFailureBackoff
    MaxGen,       \* bound: rotations
    MaxTime       \* bound: ticks

ASSUME GroundingAssumption ==
    /\ Enforce \in BOOLEAN
    /\ QuoteTTL \in Nat \ {0} /\ SignerTTL \in Nat /\ SignerGrace \in Nat
    /\ Window \in Nat /\ Backoff \in Nat /\ MaxGen \in Nat \ {0} /\ MaxTime \in Nat

None == -1
Unacknowledged == 0

VARIABLES
    clock,
    gen,       \* the enclave the broker serves now
    chain,     \* the generation the chain acknowledges, or Unacknowledged
    acked,     \* history: every generation the chain ever acknowledged
    quotes,    \* quoteCache entry: [gen, exp]
    signers,   \* registry cache entry: [gen, exp]
    verifySF,  \* quoteSF: [st, got]
    refreshSF, \* refreshSF: [st, stale]
    nextVerify, nextRead, \* the two rateLimiters' next-allowed times
    warmer,    \* the warmer's refreshQuote: "idle" or "wait"
    stamps,    \* history: recovery verifications, [at, by, failed]
    req        \* per request: where it is and what it holds

vars == <<clock, gen, chain, acked, quotes, signers, verifySF, refreshSF,
          nextVerify, nextRead, warmer, stamps, req>>
world   == <<clock, gen, chain, acked>>
limits  == <<nextVerify, nextRead>>

NoQuote   == [gen |-> None, exp |-> None]
NoReading == [gen |-> None, cached |-> FALSE]
Fresh == [pc |-> "idle", stale |-> None, enc |-> None, signer |-> None,
          facts |-> None, cached |-> FALSE, reading |-> NoReading,
          recovered |-> FALSE, rekeyed |-> FALSE, outcome |-> "none",
          turned |-> "no"]

-----------------------------------------------------------------------------
set(r, f) == req' = [req EXCEPT ![r] = f]
goto(r, pc) == set(r, [req[r] EXCEPT !.pc = pc])

(* quoteCache.get: an entry is good up to and including its expiry. *)
quoteHit == quotes.gen # None /\ clock <= quotes.exp

(* The result of one verification is taken whole: keys and facts together.    *)
take_NextKey(q, g, cached) ==
    [q EXCEPT !.enc = g + 1, !.signer = g, !.facts = g, !.cached = cached]
take(q, g, cached) ==
    [q EXCEPT !.enc = g, !.signer = g, !.facts = g, !.cached = cached]

(* signerAgrees: the reading acknowledges exactly the quoted signer.          *)
signerAgrees(g, signer) == g # Unacknowledged /\ g = signer

(* rateLimiter.allow / reschedule for one key. *)
allowed(next)    == clock >= next
stamp(window)    == clock + window
reschedule_Now(next) == clock
reschedule(next) == IF next > clock + Backoff THEN clock + Backoff ELSE next

(* Joining (or starting) the single verification flight. *)
joinVerify == verifySF' = IF verifySF.st = "none" THEN [st |-> "run", got |-> None] ELSE verifySF

Init ==
    /\ clock = 0
    /\ gen = 1 /\ chain \in {Unacknowledged, 1} /\ acked = {chain} \ {Unacknowledged}
    /\ quotes = NoQuote /\ signers = NoQuote
    /\ verifySF = [st |-> "none", got |-> None]
    /\ refreshSF = [st |-> "none", stale |-> None]
    /\ nextVerify = 0 /\ nextRead = 0
    /\ warmer = "idle"
    /\ stamps = <<>>
    /\ req = [r \in Requests |-> Fresh]

-----------------------------------------------------------------------------
(* The world outside the gateway. *)
Tick == clock < MaxTime /\ clock' = clock + 1
        /\ UNCHANGED <<gen, chain, acked, quotes, signers, verifySF, refreshSF,
                       limits, warmer, stamps, req>>

Rotate == gen < MaxGen /\ gen' = gen + 1
          /\ UNCHANGED <<clock, chain, acked, quotes, signers, verifySF, refreshSF,
                         limits, warmer, stamps, req>>

Acknowledge == chain # gen /\ chain' = gen /\ acked' = acked \cup {gen}
               /\ UNCHANGED <<clock, gen, quotes, signers, verifySF, refreshSF,
                              limits, warmer, stamps, req>>

-----------------------------------------------------------------------------
(* The shared verification (verifyAndCache's flight): the quote is fetched    *)
(* and verified, cached on success, and the flight lands for everyone on it.  *)
VerifyQuote ==
    /\ verifySF.st = "run"
    /\ verifySF' = [st |-> "got", got |-> gen]
    /\ UNCHANGED <<world, quotes, signers, refreshSF, limits, warmer,
                   stamps, req>>

(* What a landed verification means to each request waiting on it. *)
landed_KeepsFacts(q, g) ==
    CASE q.pc = "verify"    -> [take(q, g, FALSE) EXCEPT !.pc = "ground"]
      [] q.pc = "recovering" ->
           IF g # q.signer
           THEN [q EXCEPT !.enc = g, !.signer = g, !.pc = "ground", !.recovered = TRUE]
           ELSE [q EXCEPT !.pc = "conclude", !.recovered = TRUE]
      [] OTHER -> q
landed(q, g) ==
    CASE q.pc = "verify"    -> [take(q, g, FALSE) EXCEPT !.pc = "ground"]
      [] q.pc = "recovering" ->
           IF g # q.signer
           THEN [take(q, g, q.cached) EXCEPT !.pc = "ground", !.recovered = TRUE]
           ELSE [q EXCEPT !.pc = "conclude", !.recovered = TRUE]
      [] OTHER -> q
(* The refresh flight, when it was waiting on this verification, lands too.   *)
refreshLanded(q, g) ==
    IF q.pc = "refreshing" THEN [take(q, g, FALSE) EXCEPT !.pc = "ground"] ELSE q

VerifyLands ==
    LET g == verifySF.got
        done == refreshSF.st = "verify"
    IN  /\ verifySF.st = "got"
        /\ quotes' = [gen |-> g, exp |-> clock + QuoteTTL]
        /\ verifySF' = [st |-> "none", got |-> None]
        /\ req' = [r \in Requests |-> IF done THEN refreshLanded(landed(req[r], g), g)
                                              ELSE landed(req[r], g)]
        /\ refreshSF' = IF done THEN [st |-> "none", stale |-> None] ELSE refreshSF
        /\ warmer' = "idle"
        /\ UNCHANGED <<world, signers, limits, stamps>>

(* The verification fails: lookups and refreshes fail, a recovery leaves the  *)
(* mismatch standing, the re-verification window is shortened for whoever had *)
(* stamped it, and the warmer evicts the entry.                               *)
VerifyFails_KeepsRefresh ==
    LET done   == refreshSF.st = "verify"
        stamped == done \/ \E r \in Requests : req[r].pc = "recovering"
    IN  /\ verifySF.st = "run"
        /\ verifySF' = [st |-> "none", got |-> None]
        /\ req' = [r \in Requests |->
              CASE req[r].pc = "verify"     -> [req[r] EXCEPT !.pc = "failed"]
                [] req[r].pc = "recovering" -> [req[r] EXCEPT !.pc = "conclude", !.recovered = TRUE]
                [] req[r].pc = "refreshing" /\ done -> [req[r] EXCEPT !.pc = "failed"]
                [] OTHER -> req[r]]
        /\ UNCHANGED refreshSF
        /\ nextVerify' = IF stamped THEN reschedule(nextVerify) ELSE nextVerify
        /\ stamps' = IF stamped THEN [stamps EXCEPT ![Len(stamps)].failed = TRUE] ELSE stamps
        /\ quotes' = IF warmer = "wait" THEN NoQuote ELSE quotes
        /\ warmer' = "idle"
        /\ UNCHANGED <<world, signers, nextRead>>

VerifyFails ==
    LET done   == refreshSF.st = "verify"
        stamped == done \/ \E r \in Requests : req[r].pc = "recovering"
    IN  /\ verifySF.st = "run"
        /\ verifySF' = [st |-> "none", got |-> None]
        /\ req' = [r \in Requests |->
              CASE req[r].pc = "verify"     -> [req[r] EXCEPT !.pc = "failed"]
                [] req[r].pc = "recovering" -> [req[r] EXCEPT !.pc = "conclude", !.recovered = TRUE]
                [] req[r].pc = "refreshing" /\ done -> [req[r] EXCEPT !.pc = "failed"]
                [] OTHER -> req[r]]
        /\ refreshSF' = IF done THEN [st |-> "none", stale |-> None] ELSE refreshSF
        /\ nextVerify' = IF stamped THEN reschedule(nextVerify) ELSE nextVerify
        /\ stamps' = IF stamped THEN [stamps EXCEPT ![Len(stamps)].failed = TRUE] ELSE stamps
        /\ quotes' = IF warmer = "wait" THEN NoQuote ELSE quotes
        /\ warmer' = "idle"
        /\ UNCHANGED <<world, signers, nextRead>>

(* The warmer's refreshQuote forces a verification ahead of expiry. *)
Warm ==
    /\ warmer = "idle" /\ warmer' = "wait"
    /\ joinVerify
    /\ UNCHANGED <<world, quotes, signers, refreshSF, limits, stamps, req>>

-----------------------------------------------------------------------------
(* materialize, first half: the keys to seal to. *)
Start(r) ==
    /\ req[r].pc = "idle"
    /\ set(r, [Fresh EXCEPT !.pc = "lookup"])
    /\ UNCHANGED <<world, quotes, signers, verifySF, refreshSF, limits, warmer, stamps>>

(* verifiedProviderCached, and freshProvider's test for a key just rejected.  *)
Lookup(r) ==
    LET q == req[r]
    IN  /\ q.pc = "lookup"
        /\ IF quoteHit
           THEN /\ IF q.stale # None /\ quotes.gen = q.stale
                   THEN goto(r, "refresh")
                   ELSE set(r, [take(q, quotes.gen, TRUE) EXCEPT !.pc = "ground"])
                /\ UNCHANGED verifySF
           ELSE goto(r, "verify") /\ joinVerify
        /\ UNCHANGED <<world, quotes, signers, refreshSF, limits, warmer, stamps>>

(* refreshSF: the first rejected request leads, the others join it.           *)
joinRefresh(stale) ==
    refreshSF' = IF refreshSF.st = "none" THEN [st |-> "check", stale |-> stale] ELSE refreshSF
Refresh(r) ==
    /\ req[r].pc = "refresh"
    /\ joinRefresh(req[r].stale)
    /\ goto(r, "refreshing")
    /\ UNCHANGED <<world, quotes, signers, verifySF, limits, warmer, stamps>>

(* Inside the flight the cache is read again before anything is stamped.      *)
recheck_Never == FALSE
recheck == quoteHit /\ quotes.gen # refreshSF.stale
RefreshFromCache ==
    /\ refreshSF.st = "check" /\ recheck
    /\ refreshSF' = [st |-> "none", stale |-> None]
    /\ req' = [r \in Requests |->
          IF req[r].pc = "refreshing"
          THEN [take(req[r], quotes.gen, TRUE) EXCEPT !.pc = "ground"] ELSE req[r]]
    /\ UNCHANGED <<world, quotes, signers, verifySF, limits, warmer, stamps>>

(* reverifiedProvider: at most one recovery verification per quote TTL.       *)
RefreshVerify ==
    /\ refreshSF.st = "check" /\ ~recheck /\ allowed(nextVerify)
    /\ nextVerify' = stamp(QuoteTTL)
    /\ stamps' = Append(stamps, [at |-> clock, by |-> "refresh", failed |-> FALSE])
    /\ refreshSF' = [refreshSF EXCEPT !.st = "verify"]
    /\ joinVerify
    /\ UNCHANGED <<world, quotes, signers, nextRead, warmer, req>>

(* A throttled refresh turns its callers away, the joiners with the leader.   *)
(* turned remembers what the cache held for this caller at that moment: the   *)
(* running enclave's key, another key than the one it had rejected, or none.  *)
RefreshThrottled ==
    /\ refreshSF.st = "check" /\ ~recheck /\ ~allowed(nextVerify)
    /\ refreshSF' = [st |-> "none", stale |-> None]
    /\ req' = [r \in Requests |->
          IF req[r].pc = "refreshing"
          THEN [req[r] EXCEPT !.pc = "failed",
                 !.turned = IF ~quoteHit THEN "throttled"
                            ELSE IF quotes.gen = gen THEN "current"
                            ELSE IF quotes.gen # req[r].stale THEN "cached"
                            ELSE "throttled"]
          ELSE req[r]]
    /\ UNCHANGED <<world, quotes, signers, verifySF, limits, warmer, stamps>>

(* A caller whose context ends takes nobody else's flight with it; one that   *)
(* was in a recovery sees it fail, which shortens the window as any failure.  *)
Leave(r) ==
    /\ req[r].pc \in {"verify", "refreshing", "recovering"}
    /\ IF req[r].pc = "recovering"
       THEN /\ set(r, [req[r] EXCEPT !.pc = "conclude", !.recovered = TRUE])
            /\ nextVerify' = reschedule(nextVerify)
            /\ stamps' = [stamps EXCEPT ![Len(stamps)].failed = TRUE]
       ELSE goto(r, "failed") /\ UNCHANGED <<nextVerify, stamps>>
    /\ UNCHANGED <<world, quotes, signers, verifySF, refreshSF, nextRead, warmer>>

-----------------------------------------------------------------------------
(* groundSignerOnChain.  AcknowledgedSigner answers from its cache, live, or  *)
(* (the chain unreachable) with a stale entry inside the grace window.        *)
judge(q, g, cached) ==
    IF signerAgrees(g, q.signer)
    THEN [q EXCEPT !.pc = "conclude", !.outcome = "ok", !.reading = [gen |-> g, cached |-> cached]]
    ELSE [q EXCEPT !.reading = [gen |-> g, cached |-> cached],
                   !.outcome = IF g = Unacknowledged THEN "not_acknowledged" ELSE "mismatch",
                   !.pc = IF cached THEN "doubt" ELSE "negative"]

ReadCached(r) ==
    /\ req[r].pc = "ground"
    /\ signers.gen # None /\ clock < signers.exp + SignerGrace
    /\ set(r, judge(req[r], signers.gen, TRUE))
    /\ UNCHANGED <<world, quotes, signers, verifySF, refreshSF, limits, warmer, stamps>>

ReadLive(r) ==
    /\ req[r].pc = "ground"
    /\ signers.gen = None \/ clock >= signers.exp
    /\ signers' = [gen |-> chain, exp |-> clock + SignerTTL]
    /\ set(r, judge(req[r], chain, FALSE))
    /\ UNCHANGED <<world, quotes, verifySF, refreshSF, limits, warmer, stamps>>

ReadFails(r) ==
    /\ req[r].pc = "ground"
    /\ signers.gen = None \/ clock >= signers.exp + SignerGrace
    /\ set(r, [req[r] EXCEPT !.pc = "conclude", !.outcome = "lookup_failed"])
    /\ UNCHANGED <<world, quotes, signers, verifySF, refreshSF, limits, warmer, stamps>>

(* A cached reading that disagrees: a live re-read, when the limiter allows.  *)
Doubt(r) ==
    /\ req[r].pc = "doubt"
    /\ IF allowed(nextRead)
       THEN nextRead' = stamp(Window) /\ goto(r, "reread")
       ELSE UNCHANGED nextRead /\ goto(r, "negative")
    /\ UNCHANGED <<world, quotes, signers, verifySF, refreshSF, nextVerify, warmer, stamps>>

Reread(r) ==
    /\ req[r].pc = "reread"
    /\ signers' = [gen |-> chain, exp |-> clock + SignerTTL]
    /\ set(r, judge(req[r], chain, FALSE))
    /\ UNCHANGED <<world, quotes, verifySF, refreshSF, limits, warmer, stamps>>

RereadFails(r) ==
    /\ req[r].pc = "reread"
    /\ nextRead' = reschedule(nextRead)
    /\ set(r, [req[r] EXCEPT !.pc = "conclude", !.outcome = "lookup_failed"])
    /\ UNCHANGED <<world, quotes, signers, verifySF, refreshSF, nextVerify, warmer, stamps>>

(* materialize's quote-side recovery: a mismatch decided against a cached     *)
(* quote re-verifies the quote once, if the window allows.                    *)
owedRecovery(q) == q.outcome = "mismatch" /\ q.cached /\ ~q.recovered
Negative(r) ==
    /\ req[r].pc = "negative"
    /\ IF owedRecovery(req[r]) /\ allowed(nextVerify)
       THEN /\ nextVerify' = stamp(QuoteTTL)
            /\ stamps' = Append(stamps, [at |-> clock, by |-> "ground", failed |-> FALSE])
            /\ joinVerify
            /\ goto(r, "recovering")
       ELSE /\ goto(r, "conclude")
            /\ UNCHANGED <<nextVerify, stamps, verifySF>>
    /\ UNCHANGED <<world, quotes, signers, refreshSF, nextRead, warmer>>

(* The conclusion.  Under enforce every outcome but agreement refuses the     *)
(* candidate; under warn it is sealed to.  A key that was refused and comes   *)
(* back unchanged is not sealed to again (core's rekey).                      *)
refuses_VerdictsOnly(outcome) == Enforce /\ outcome \in {"mismatch", "not_acknowledged"}
refuses(outcome) == Enforce /\ outcome # "ok"
Conclude(r) ==
    LET q == req[r]
    IN  /\ q.pc = "conclude"
        /\ goto(r, IF refuses(q.outcome) THEN "refused"
                   ELSE IF q.rekeyed /\ q.enc = q.stale THEN "failed"
                   ELSE "sealed")
        /\ UNCHANGED <<world, quotes, signers, verifySF, refreshSF, limits, warmer, stamps>>

(* The attempt: the enclave that is running opens what is sealed to its key;  *)
(* a stale key is rejected and, once, re-read (RefreshProvider).              *)
Attempt(r) ==
    LET q == req[r]
    IN  /\ q.pc = "sealed"
        /\ set(r, IF q.enc = gen THEN [q EXCEPT !.pc = "served"]
                  ELSE IF q.rekeyed THEN [q EXCEPT !.pc = "failed"]
                  ELSE [Fresh EXCEPT !.pc = "lookup", !.stale = q.enc, !.rekeyed = TRUE])
        /\ UNCHANGED <<world, quotes, signers, verifySF, refreshSF, limits, warmer, stamps>>

Next ==
    \/ Tick \/ Rotate \/ Acknowledge
    \/ VerifyQuote \/ VerifyLands \/ VerifyFails \/ Warm
    \/ RefreshFromCache \/ RefreshVerify \/ RefreshThrottled
    \/ \E r \in Requests :
         \/ Start(r) \/ Lookup(r) \/ Refresh(r) \/ Leave(r)
         \/ ReadCached(r) \/ ReadLive(r) \/ ReadFails(r)
         \/ Doubt(r) \/ Reread(r) \/ RereadFails(r)
         \/ Negative(r) \/ Conclude(r) \/ Attempt(r)

Spec == Init /\ [][Next]_vars

-----------------------------------------------------------------------------
Places == {"idle", "lookup", "verify", "refresh", "refreshing", "ground", "doubt",
           "reread", "negative", "recovering", "conclude", "sealed", "served",
           "refused", "failed"}
Outcomes == {"none", "ok", "mismatch", "not_acknowledged", "lookup_failed"}

(* State keeps its types; caches and flights never hold a generation that was *)
(* not served yet.                                                            *)
TypeOK ==
    /\ clock \in 0 .. MaxTime /\ gen \in 1 .. MaxGen /\ chain \in 0 .. gen
    /\ acked \subseteq 1 .. gen
    /\ quotes.gen \in {None} \cup 1 .. gen /\ signers.gen \in {None} \cup 0 .. gen
    /\ verifySF.st \in {"none", "run", "got"} /\ verifySF.got \in {None} \cup 1 .. gen
    /\ refreshSF.st \in {"none", "check", "verify"}
    /\ warmer \in {"idle", "wait"}
    /\ \A r \in Requests :
         /\ req[r].pc \in Places /\ req[r].outcome \in Outcomes
         /\ {req[r].enc, req[r].signer, req[r].facts, req[r].stale} \subseteq {None} \cup 1 .. gen

(* What a request seals to is one enclave: the enc key, the signer it pins    *)
(* and the facts it reports all come from the same verified quote, also when  *)
(* a recovery replaced the quote half way ("take the fresh result whole").    *)
SealedToOneEnclave ==
    \A r \in Requests :
        req[r].pc \in {"sealed", "served"} =>
            req[r].enc = req[r].signer /\ req[r].signer = req[r].facts

(* Under enforce nothing is sealed to a signer the chain never acknowledged,  *)
(* whatever was cached, throttled or unreachable on the way.                  *)
EnforcedIsAcknowledged ==
    \A r \in Requests :
        (Enforce /\ req[r].pc \in {"sealed", "served"}) => req[r].signer \in acked

(* reverifiedProvider: recovery verifications of one provider start at least  *)
(* a quote TTL apart, or a backoff apart (never more than the TTL) after one  *)
(* that concluded nothing, so no pattern of rejections or mismatches becomes  *)
(* a verification per request.                                                *)
gap(s) == IF s.failed /\ Backoff < QuoteTTL THEN Backoff ELSE QuoteTTL
RecoveryIsThrottled ==
    \A k \in 1 .. Len(stamps) - 1 : stamps[k + 1].at - stamps[k].at >= gap(stamps[k])

(* freshProvider: a request whose key was rejected is never turned away by    *)
(* the throttle while the cache already holds the key the enclave runs under. *)
TurnedAwayOnlyForWant == \A r \in Requests : req[r].turned # "current"

(* freshProvider's comment says more: "when the cache already holds a         *)
(* different key - another request that hit the same rotation refreshed it    *)
(* first - that key is used as is".  A caller that joins a refresh led by a   *)
(* request with a newer rejected key is turned away although the cache holds  *)
(* a key that is not the one rejected for it.                                 *)
CachedKeyIsUsed == \A r \in Requests : req[r].turned # "cached"

(* chain/cache.go: a cached reading is "never good enough to REJECT" and      *)
(* groundSignerOnChain: "A negative is never returned on stale evidence".     *)
RejectsOnLiveReading ==
    \A r \in Requests :
        (req[r].pc = "refused" /\ req[r].outcome \in {"mismatch", "not_acknowledged"})
            => ~req[r].reading.cached

(* Nobody waits for a flight that is gone: a request behind a verification or *)
(* a refresh, and the refresh behind its verification, has one to wait for.   *)
NobodyStranded ==
    /\ \A r \in Requests :
          /\ req[r].pc \in {"verify", "recovering"} => verifySF.st # "none"
          /\ req[r].pc = "refreshing" => refreshSF.st # "none"
    /\ refreshSF.st = "verify" => verifySF.st # "none"

(* A recovery costs the provider at most one verification per window, turns   *)
(* nobody away who could be served from the cache, and strands nobody.        *)
RecoverySound == TypeOK /\ RecoveryIsThrottled /\ TurnedAwayOnlyForWant /\ NobodyStranded
=============================================================================
