-------------------------------- MODULE Warmer --------------------------------
(***************************************************************************)
(* The background warmer (client/route/warmer.go), the readiness answer    *)
(* built on it (proxycli.go), and the provider-identity records and        *)
(* response-binding set it writes (provideridentity.go, respbind.go),      *)
(* beside requests that write identity records of their own.               *)
(*                                                                         *)
(* A provider has the endpoint the chain names, and requests may reach it  *)
(* at whatever endpoint the untrusted router names.  Every blocking call   *)
(* of a sweep is one step whose outcome is chosen when it returns; a       *)
(* request is the verification that passed and, later, the record it       *)
(* writes (what it verified and how old that may be is Grounding's).       *)
(***************************************************************************)
EXTENDS Integers, FiniteSets, Functions

CONSTANTS
    Addrs, NoAddr,   \* provider addresses, canonical (chain.ProviderKey)
    ServiceTypes,    \* warmServiceTypes
    Catalog,         \* the providers the router lists under each of them
    Requests,        \* requests in flight beside the warmer
    Enforce,         \* onchainEnforce
    ProviderEnforce, \* providerEnforce
    Interval,        \* warmInterval
    MaxAge,          \* warmStateMaxAge
    IdTTL,           \* providerIdentityTTL
    MaxRecords,      \* maxProviderIdentities
    MaxTime          \* bound: the clock stops here

ASSUME WarmerAssumption ==
    /\ IsFiniteSet(Addrs) /\ NoAddr \notin Addrs
    /\ Catalog \in [ServiceTypes -> SUBSET Addrs]
    /\ Enforce \in BOOLEAN /\ ProviderEnforce \in BOOLEAN
    /\ Interval \in Nat \ {0} /\ MaxAge \in Nat /\ IdTTL \in Nat \ {0}
    /\ MaxRecords \in Nat \ {0} /\ MaxTime \in Nat

VARIABLES
    now,      \* the clock
    ticker,   \* when the ticker fires next
    pending,  \* a tick waits in its channel
    stop,     \* the warmer's context is cancelled
    pc,       \* where RunWarmer is
    sweep,    \* the running WarmOnce's locals
    warm,     \* Router.warmState
    store,    \* identityStore.m
    bound,    \* respBindStore.on
    req,      \* each request's progress
    blame,    \* history: providers of this sweep that failed on their own account
    grounded, \* history: of this sweep, quote verified and read live and agreed
    seen      \* history: per provider, what was established about it

vars == <<now, ticker, pending, stop, pc, sweep, warm, store, bound, req,
          blame, grounded, seen>>

Verdicts == {"pass", "no_match", "unavailable", "not_checked"}
Urls     == {"chain", "router"}
NoSweep  == [todo |-> {}, total |-> 0, ready |-> 0, cur |-> NoAddr, prepared |-> FALSE,
             verified |-> FALSE, advertised |-> FALSE, onchain |-> "not_checked"]

-----------------------------------------------------------------------------
(* identityStore *)
live(e) == now <= e.exp

(* A served record of another endpoint, still readable, is not the sweep's.   *)
shieldedFrom_Never(e, url) == FALSE
shieldedFrom(e, url) == e.served /\ now < e.exp /\ e.url # url

(* makeRoomLocked: expired records first, failing that the one closest to     *)
(* expiry.                                                                    *)
roomsFor(s) ==
    LET alive == {a \in DOMAIN s : live(s[a])}
    IN  IF Cardinality(alive) < MaxRecords THEN {Restrict(s, alive)}
        ELSE {Restrict(s, alive \ {a}) :
                 a \in {b \in alive : \A c \in alive : s[b].exp <= s[c].exp}}

(* record, shared by put (a served request) and putWarmed (a sweep).          *)
record(a, url, onchain, served) ==
    LET e    == [url |-> url, onchain |-> onchain, served |-> served, exp |-> now + IdTTL]
        held == a \in DOMAIN store
    IN  IF ~served /\ held /\ shieldedFrom(store[a], url)
        THEN UNCHANGED store
        ELSE \E s \in IF ~held /\ Cardinality(DOMAIN store) >= MaxRecords
                      THEN roomsFor(store) ELSE {store} :
                store' = [b \in DOMAIN s \cup {a} |-> IF b = a THEN e ELSE s[b]]

(* delWarmed *)
delWarmed(a, url) ==
    store' = IF a \in DOMAIN store /\ ~shieldedFrom(store[a], url)
             THEN Restrict(store, DOMAIN store \ {a}) ELSE store

(* respBindStore.observe *)
observe_Sticky(a, advertised) == bound' = IF advertised THEN bound \cup {a} ELSE bound
observe(a, advertised) ==
    bound' = IF ~advertised THEN bound \ {a}
             ELSE IF a \notin bound /\ Cardinality(bound) >= MaxRecords THEN bound
             ELSE bound \cup {a}

(* readinessFromWarmState: a sweep has finished, one finished or started      *)
(* recently, and it prepared somebody.                                        *)
isReady_AnySweep == warm.at >= 0 /\ warm.ready > 0
isReady ==
    LET latest == IF warm.started > warm.at THEN warm.started ELSE warm.at
    IN  warm.at >= 0 /\ now - latest <= MaxAge * Interval /\ warm.ready > 0

-----------------------------------------------------------------------------
Init ==
    /\ now = 0 /\ ticker = 0 /\ pending = FALSE /\ stop = FALSE
    /\ pc = "begin"
    /\ sweep = NoSweep
    /\ warm = [at |-> -1, started |-> -1, ready |-> 0, total |-> 0, blamed |-> 0]
    /\ store = <<>> /\ bound = {}
    /\ req = [r \in Requests |-> [pc |-> "idle", addr |-> NoAddr, url |-> "chain"]]
    /\ blame = 0 /\ grounded = {}
    /\ seen = [a \in Addrs |-> [advertised |-> FALSE, finding |-> FALSE, doubt |-> FALSE,
                                served |-> [url |-> "chain", onchain |-> "pass", exp |-> -1]]]

(* RunWarmer's first WarmOnce, or the next after a tick: beginSweep.          *)
BeginSweep ==
    /\ \/ pc = "begin" /\ UNCHANGED pending
       \/ pc = "idle" /\ pending /\ pending' = FALSE
    /\ pc' = "list"
    /\ warm' = [warm EXCEPT !.started = now]
    /\ blame' = 0 /\ grounded' = {}
    /\ UNCHANGED <<now, ticker, stop, sweep, store, bound, req, seen>>

(* The sweep returns to RunWarmer; the first one starts the ticker.           *)
leaveSweep ==
    /\ pc' = "idle"
    /\ sweep' = NoSweep
    /\ ticker' = IF ticker = 0 THEN now + Interval ELSE ticker

(* finishSweep publishes the counters, keeping Started.                       *)
finishSweep_Swapped(ready, total) ==
    warm' = [warm EXCEPT !.at = now, !.ready = total, !.total = ready, !.blamed = blame]
finishSweep(ready, total) ==
    warm' = [warm EXCEPT !.at = now, !.ready = ready, !.total = total, !.blamed = blame]

(* listProviderAddrs: the service types that answered are merged; no answer   *)
(* at all is the sweep's failure, unless it is our own shutdown, which ends   *)
(* the listing at the first failure.                                          *)
List(answered) ==
    /\ pc = "list"
    /\ LET addrs == UNION {Catalog[t] : t \in answered}
       IN  IF answered = {} \/ (stop /\ answered # ServiceTypes)
           THEN /\ leaveSweep
                /\ IF stop THEN UNCHANGED warm ELSE finishSweep(0, 0)
           ELSE /\ pc' = "loop"
                /\ sweep' = [NoSweep EXCEPT !.todo = addrs, !.total = Cardinality(addrs)]
                /\ UNCHANGED <<warm, ticker>>
    /\ UNCHANGED <<now, pending, stop, store, bound, req, blame, grounded, seen>>

(* A cancelled context at the loop head, or once more after the last provider,*)
(* abandons the sweep.                                                        *)
AbandonSweep ==
    /\ pc = "loop" /\ stop
    /\ leaveSweep
    /\ UNCHANGED <<now, pending, stop, warm, store, bound, req, blame, grounded, seen>>

(* endpoints.ServiceInfo for the next provider: a failure skips it.           *)
ResolveEndpoint(a, ok) ==
    /\ pc = "loop" /\ ~stop /\ a \in sweep.todo
    /\ pc' = IF ok THEN "quote" ELSE "loop"
    /\ sweep' = [sweep EXCEPT !.todo = @ \ {a}, !.cur = a, !.prepared = TRUE,
                              !.onchain = "not_checked"]
    /\ blame' = IF ok THEN blame ELSE blame + 1
    /\ UNCHANGED <<now, ticker, pending, stop, warm, store, bound, req, grounded, seen>>

(* refreshQuote at the endpoint the chain names.                              *)
RefreshQuote(ok, adv) ==
    /\ pc = "quote"
    /\ adv => ok
    /\ pc' = "signer"
    /\ sweep' = [sweep EXCEPT !.verified = ok, !.prepared = ok, !.advertised = adv]
    /\ blame' = IF ok \/ stop THEN blame ELSE blame + 1
    /\ seen' = [seen EXCEPT ![sweep.cur].doubt = IF ok THEN FALSE ELSE @ \/ ~stop]
    /\ UNCHANGED <<now, ticker, pending, stop, warm, store, bound, req, grounded>>

(* cachedSignerVerdict: what a request would conclude from the cache.  Only   *)
(* agreement is reported.                                                     *)
cachedSignerVerdict_Accuses(cached) ==
    IF stop \/ ~sweep.verified \/ cached = "none" THEN "unavailable"
    ELSE IF cached = "agrees" THEN "pass" ELSE "no_match"
cachedSignerVerdict(cached) ==
    IF ~stop /\ sweep.verified /\ cached = "agrees" THEN "pass" ELSE "unavailable"

(* Whether an unread or disagreeing chain leaves the provider prepared.       *)
staysPrepared_OnCache(reading) == sweep.prepared /\ (~Enforce \/ reading = "failed")
staysPrepared(reading) == sweep.prepared /\ ~Enforce

(* registry.RefreshSigner: a live read, and what it settles.                  *)
RefreshSigner(reading, cached) ==
    /\ pc = "signer"
    /\ LET a == sweep.cur
           v == sweep.verified
           disagrees == reading = "unacknowledged" \/ (reading = "other" /\ v)
           onchain == IF reading = "failed" THEN cachedSignerVerdict(cached)
                      ELSE IF disagrees THEN "no_match"
                      ELSE IF ~v THEN cachedSignerVerdict(cached)
                      ELSE "pass"
           prepared == IF reading = "failed" \/ disagrees THEN staysPrepared(reading)
                       ELSE sweep.prepared
       IN  /\ pc' = "publish"
           /\ sweep' = [sweep EXCEPT !.onchain = onchain, !.prepared = prepared]
           /\ blame' = IF sweep.prepared /\ ~prepared /\ ~stop THEN blame + 1 ELSE blame
           /\ grounded' = IF v /\ reading = "same" THEN grounded \cup {a} ELSE grounded
           /\ seen' = [seen EXCEPT ![a].finding = @ \/ disagrees]
    /\ UNCHANGED <<now, ticker, pending, stop, warm, store, bound, req>>

(* The end of one provider: publish or withdraw its record unless we are      *)
(* shutting down, and count it when it is prepared.                           *)
Publish(passes) ==
    /\ pc = "publish"
    /\ LET a == sweep.cur
           refused == ~stop /\ sweep.verified /\ ProviderEnforce /\ sweep.prepared /\ ~passes
           counted == sweep.prepared /\ ~refused
       IN  /\ IF stop THEN UNCHANGED <<store, bound, seen>>
              ELSE IF sweep.verified
              THEN /\ observe(a, sweep.advertised)
                   /\ record(a, "chain", sweep.onchain, FALSE)
                   /\ seen' = [seen EXCEPT ![a].advertised = sweep.advertised]
              ELSE /\ delWarmed(a, "chain")
                   /\ UNCHANGED <<bound, seen>>
           /\ blame' = IF refused THEN blame + 1 ELSE blame
           /\ pc' = "loop"
           /\ sweep' = [sweep EXCEPT !.ready = IF counted THEN @ + 1 ELSE @, !.cur = NoAddr]
    /\ UNCHANGED <<now, ticker, pending, stop, warm, req, grounded>>

(* The loop is over and the context, looked at once more, is live: the        *)
(* counters are published.                                                    *)
FinishSweep_Unchecked ==
    /\ pc = "loop" /\ sweep.todo = {}
    /\ finishSweep(sweep.ready, sweep.total)
    /\ leaveSweep
    /\ UNCHANGED <<now, pending, stop, store, bound, req, blame, grounded, seen>>
FinishSweep ==
    /\ pc = "loop" /\ sweep.todo = {} /\ ~stop
    /\ finishSweep(sweep.ready, sweep.total)
    /\ leaveSweep
    /\ UNCHANGED <<now, pending, stop, store, bound, req, blame, grounded, seen>>

(* RunWarmer's select takes the cancellation.                                 *)
WarmerReturns ==
    /\ pc = "idle" /\ stop
    /\ pc' = "stopped"
    /\ UNCHANGED <<now, ticker, pending, stop, sweep, warm, store, bound, req, blame, grounded, seen>>

(* StartWarmer's stop function: shutdown.                                     *)
Shutdown ==
    /\ ~stop
    /\ stop' = TRUE
    /\ UNCHANGED <<now, ticker, pending, pc, sweep, warm, store, bound, req, blame, grounded, seen>>

(* A request's verification passes, at the endpoint the router named ...      *)
RequestVerified(r, a, url) ==
    /\ req[r].pc = "idle"
    /\ req' = [req EXCEPT ![r] = [pc |-> "verified", addr |-> a, url |-> url]]
    /\ seen' = [seen EXCEPT ![a].doubt = IF url = "chain" THEN FALSE ELSE @]
    /\ UNCHANGED <<now, ticker, pending, stop, pc, sweep, warm, store, bound, blame, grounded>>

(* ... and once it is grounded the request writes its record, which always    *)
(* wins (materialize records a candidate it goes on to refuse, too).          *)
RequestRecords(r, onchain) ==
    LET a == req[r].addr
    IN  /\ req[r].pc = "verified"
        /\ record(a, req[r].url, onchain, TRUE)
        /\ req' = [req EXCEPT ![r].pc = "done"]
        /\ seen' = [seen EXCEPT ![a].served = [url |-> req[r].url, onchain |-> onchain,
                                               exp |-> now + IdTTL],
                                ![a].finding = @ \/ onchain = "no_match"]
        /\ UNCHANGED <<now, ticker, pending, stop, pc, sweep, warm, bound, blame, grounded>>

(* ProviderIdentity(address): a read drops a record that has expired.         *)
ReadIdentity(a) ==
    /\ a \in DOMAIN store /\ ~live(store[a])
    /\ store' = Restrict(store, DOMAIN store \ {a})
    /\ UNCHANGED <<now, ticker, pending, stop, pc, sweep, warm, bound, req, blame, grounded, seen>>

(* Time passes.  What RunWarmer's select can take is taken before it does, and *)
(* the ticker keeps one tick at most.                                          *)
Tick ==
    /\ now < MaxTime
    /\ ~(pc = "begin" \/ (pc = "idle" /\ (pending \/ stop)))
    /\ now' = now + 1
    /\ IF ticker # 0 /\ now + 1 >= ticker
       THEN pending' = TRUE /\ ticker' = ticker + Interval
       ELSE UNCHANGED <<pending, ticker>>
    /\ UNCHANGED <<stop, pc, sweep, warm, store, bound, req, blame, grounded, seen>>

SweepStep ==
    \/ \E answered \in SUBSET ServiceTypes : List(answered)
    \/ AbandonSweep
    \/ \E a \in Addrs, ok \in BOOLEAN : ResolveEndpoint(a, ok)
    \/ \E ok, adv \in BOOLEAN : RefreshQuote(ok, adv)
    \/ \E reading \in {"same", "other", "unacknowledged", "failed"},
          cached \in {"agrees", "disagrees", "none"} : RefreshSigner(reading, cached)
    \/ \E passes \in BOOLEAN : Publish(passes)
    \/ FinishSweep

Next ==
    \/ Tick \/ Shutdown
    \/ BeginSweep \/ SweepStep \/ WarmerReturns
    \/ \E r \in Requests, a \in Addrs, url \in Urls : RequestVerified(r, a, url)
    \/ \E r \in Requests, v \in Verdicts : RequestRecords(r, v)
    \/ \E a \in Addrs : ReadIdentity(a)

Spec == Init /\ [][Next]_vars

-----------------------------------------------------------------------------
(* Every variable keeps its type; records and bindings name providers.        *)
TypeOK ==
    /\ now \in 0 .. MaxTime /\ ticker \in Nat /\ pending \in BOOLEAN /\ stop \in BOOLEAN
    /\ pc \in {"begin", "idle", "list", "loop", "quote", "signer", "publish", "stopped"}
    /\ sweep.todo \subseteq Addrs /\ sweep.ready \in 0 .. sweep.total
    /\ warm.ready \in 0 .. warm.total /\ warm.total \in 0 .. Cardinality(Addrs)
    /\ DOMAIN store \subseteq Addrs /\ bound \subseteq Addrs
    /\ \A a \in DOMAIN store :
          store[a] \in [url : Urls, onchain : Verdicts, served : BOOLEAN, exp : Nat]

(* Readiness is counted from when a sweep last started as well as finished, so*)
(* that a slow sweep is not a stalled one.  Even so its evidence is bounded: a*)
(* side reported ready, and not shutting down, finished a sweep that prepared *)
(* somebody at most MaxAge + 1 intervals ago, however slow the running one is.*)
ReadyEvidenceBounded == isReady /\ ~stop => now - warm.at <= (MaxAge + 1) * Interval

(* A shutdown never makes a healthy process look unready on its way out: every*)
(* provider missing from the published count failed on its own account, while *)
(* the warmer's context was live.                                             *)
ShutdownNotBlamed == warm.at >= 0 => warm.total - warm.ready = warm.blamed

(* Under enforce a provider is counted ready only when this sweep verified its*)
(* quote and the chain, read live, agreed: a reading from the cache's grace   *)
(* window keeps a record but never readiness.                                 *)
EnforcedReadyIsGrounded == Enforce => sweep.ready <= Cardinality(grounded)

(* The panel's record of an endpoint a prompt was sealed to is never replaced *)
(* or dropped by a sweep of another endpoint while it lives.                  *)
ServedRecordStands ==
    Cardinality(Addrs) <= MaxRecords =>
        \A a \in Addrs :
            (now < seen[a].served.exp /\ seen[a].served.url = "router") =>
                /\ a \in DOMAIN store
                /\ store[a].url = "router" /\ store[a].onchain = seen[a].served.onchain

(* An outage of our own chain RPC never reaches the panel as an accusation:   *)
(* a no_match is on record only when a live reading disagreed.                *)
OutageNeverAccuses ==
    \A a \in DOMAIN store : store[a].onchain = "no_match" => seen[a].finding

(* A request is sealed with the response binding only while the provider's    *)
(* latest verified quote, fetched where the chain says, advertises it.        *)
BoundIsAdvertised == \A a \in bound : seen[a].advertised

(* A ready answer rests on evidence: recent, grounded under enforce, and not  *)
(* marked down by our own shutdown.                                           *)
ReadyIsEarned == ReadyEvidenceBounded /\ EnforcedReadyIsGrounded /\ ShutdownNotBlamed

(* What the panel shows of a provider is what was found out about it.         *)
RecordsTruthful == TypeOK /\ ServedRecordStands /\ OutageNeverAccuses
=============================================================================
