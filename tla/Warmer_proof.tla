----------------------------- MODULE Warmer_proof -----------------------------
(***************************************************************************)
(* Proofs about Warmer, for every set of providers and requests, every     *)
(* catalog, interval and lifetime, with and without enforcement; then      *)
(* about Enforcement, for all builds, manifests and bundles.               *)
(***************************************************************************)
EXTENDS Warmer, Enforcement, FiniteSetTheorems, TLAPS

-----------------------------------------------------------------------------
(* The inductive invariant.                                                   *)
Stages   == {"quote", "signer", "publish"}
Sweeping == {"list", "loop"} \cup Stages

Locals == [todo : SUBSET Addrs, total : Nat, ready : Nat, cur : Addrs \cup {NoAddr},
           prepared : BOOLEAN, verified : BOOLEAN, advertised : BOOLEAN, onchain : Verdicts]
State  == [at : Int, started : Int, ready : Nat, total : Nat, blamed : Nat]
Record == [url : Urls, onchain : Verdicts, served : BOOLEAN, exp : Nat]
Req    == [pc : {"idle", "verified", "done"}, addr : Addrs \cup {NoAddr}, url : Urls]
Shown  == [url : Urls, onchain : Verdicts, exp : Int]
Seen   == [advertised : BOOLEAN, finding : BOOLEAN, doubt : BOOLEAN, served : Shown]

Typed ==
    /\ now \in 0 .. MaxTime /\ ticker \in Nat /\ pending \in BOOLEAN /\ stop \in BOOLEAN
    /\ pc \in {"begin", "idle", "stopped"} \cup Sweeping
    /\ sweep \in Locals /\ warm \in State
    /\ DOMAIN store \subseteq Addrs /\ \A a \in DOMAIN store : store[a] \in Record
    /\ bound \subseteq Addrs
    /\ req \in [Requests -> Req]
    /\ blame \in Nat /\ grounded \subseteq Addrs
    /\ seen \in [Addrs -> Seen]

(* Where RunWarmer is tells what its locals hold.                             *)
PlaceInv ==
    /\ pc \in Stages => sweep.cur \in Addrs /\ sweep.cur \notin sweep.todo
    /\ pc \notin Stages \cup {"loop"} => sweep = NoSweep
    /\ pc = "list" => blame = 0 /\ grounded = {}
    /\ pc = "quote" => sweep.prepared
    /\ pc = "signer" => sweep.prepared = sweep.verified
    /\ pc = "publish" /\ sweep.onchain = "no_match" => seen[sweep.cur].finding
    /\ \A r \in Requests : req[r].pc = "verified" => req[r].addr \in Addrs

(* Every provider listed is still to come, in hand, counted or blamed; while  *)
(* the context lives nobody is lost.                                          *)
InHand   == IF pc \in Stages THEN 1 ELSE 0
Prepared == IF pc \in Stages /\ sweep.prepared THEN 1 ELSE 0
CountInv ==
    /\ Cardinality(sweep.todo) + sweep.ready + InHand <= sweep.total
    /\ sweep.total <= Cardinality(Addrs)
    /\ (~stop /\ pc \in Sweeping) =>
          Cardinality(sweep.todo) + sweep.ready + blame + Prepared = sweep.total
    /\ warm.ready <= warm.total /\ warm.total <= Cardinality(Addrs)
    /\ ShutdownNotBlamed

(* The providers grounded so far are done with or in hand, and outnumber the  *)
(* ones counted: by one more when the one in hand is about to be counted.     *)
GroundedInv ==
    Enforce =>
        /\ grounded \cap sweep.todo = {}
        /\ pc \in {"quote", "signer"} => sweep.cur \notin grounded
        /\ sweep.ready + (IF pc = "publish" /\ sweep.prepared THEN 1 ELSE 0) <= Cardinality(grounded)

(* The ticker is at most one interval ahead, so the next sweep starts at most *)
(* one interval after the last one finished.                                  *)
TickerInv ==
    /\ ticker # 0 => now < ticker /\ ticker <= now + Interval
    /\ pc = "begin" => warm.at = -1
    /\ pc = "stopped" => stop
    /\ pc = "idle" => ticker # 0
    /\ -1 <= warm.at /\ warm.at <= now /\ warm.started <= now
    /\ (pc = "idle" /\ ~stop) =>
          /\ 0 <= warm.at /\ now - warm.at <= Interval
          /\ ~pending => ticker - warm.at <= Interval
    /\ (pc \in Sweeping /\ ~stop /\ 0 <= warm.at) => warm.started - warm.at <= Interval

(* A record a prompt was sealed under is the one last written by a request.   *)
StandsInv ==
    Cardinality(Addrs) <= MaxRecords =>
        \A a \in Addrs :
            (now < seen[a].served.exp /\ seen[a].served.url = "router") =>
                /\ a \in DOMAIN store
                /\ store[a].served /\ store[a].exp = seen[a].served.exp
                /\ store[a].url = "router" /\ store[a].onchain = seen[a].served.onchain

WarmInv ==
    /\ Typed /\ PlaceInv /\ CountInv /\ GroundedInv /\ TickerInv /\ StandsInv
    /\ OutageNeverAccuses /\ BoundIsAdvertised

-----------------------------------------------------------------------------
(* Constants and arithmetic of sets of providers.                             *)
LEMMA Constants ==
    /\ Interval \in Nat /\ Interval > 0 /\ MaxAge \in Nat /\ IdTTL \in Nat /\ MaxTime \in Nat
    /\ MaxRecords \in Nat /\ IsFiniteSet(Addrs) /\ NoAddr \notin Addrs
    /\ Enforce \in BOOLEAN /\ ProviderEnforce \in BOOLEAN
    /\ Cardinality(Addrs) \in Nat
BY WarmerAssumption, FS_CardinalityType

(* A set of providers is finite and no larger than all of them.               *)
LEMMA SomeAddrs ==
    ASSUME NEW S \in SUBSET Addrs
    PROVE  IsFiniteSet(S) /\ Cardinality(S) \in Nat /\ Cardinality(S) <= Cardinality(Addrs)
BY Constants, FS_Subset, FS_CardinalityType

LEMMA OneLess ==
    ASSUME NEW S \in SUBSET Addrs, NEW a \in S
    PROVE  Cardinality(S \ {a}) = Cardinality(S) - 1
BY SomeAddrs, FS_RemoveElement

LEMMA OneMore ==
    ASSUME NEW S \in SUBSET Addrs, NEW a \in Addrs, a \notin S
    PROVE  Cardinality(S \cup {a}) = Cardinality(S) + 1
BY SomeAddrs, FS_AddElement

(* A provider that is missing from a set leaves room for it.                  *)
LEMMA RoomForOne ==
    ASSUME NEW S \in SUBSET Addrs, NEW a \in Addrs, a \notin S
    PROVE  Cardinality(S) < Cardinality(Addrs)
<1>1. Cardinality(S \cup {a}) = Cardinality(S) + 1
  BY OneMore
<1>2. S \cup {a} \in SUBSET Addrs
  OBVIOUS
<1>3. Cardinality(S \cup {a}) <= Cardinality(Addrs)
  BY <1>2, SomeAddrs
<1> QED BY <1>1, <1>3, SomeAddrs, Constants

LEMMA NoAddrs == Cardinality({}) = 0
BY FS_EmptySet

-----------------------------------------------------------------------------
(* makeRoomLocked drops records and changes none.                             *)
LEMMA RoomOnlyDrops ==
    ASSUME NEW s, NEW x \in roomsFor(s)
    PROVE  DOMAIN x \subseteq DOMAIN s /\ \A b \in DOMAIN x : x[b] = s[b]
<1> DEFINE alive == {a \in DOMAIN s : live(s[a])}
<1>1. PICK T \in SUBSET alive : x = Restrict(s, T)
  <2>1. \/ x \in {Restrict(s, alive)}
        \/ x \in {Restrict(s, alive \ {a}) :
                     a \in {b \in alive : \A c \in alive : s[b].exp <= s[c].exp}}
    BY DEF roomsFor
  <2>2. CASE x \in {Restrict(s, alive)}
    BY <2>2
  <2>3. CASE x \in {Restrict(s, alive \ {a}) :
                     a \in {b \in alive : \A c \in alive : s[b].exp <= s[c].exp}}
    <3>1. PICK a : x = Restrict(s, alive \ {a})
      BY <2>3
    <3> QED BY <3>1
  <2> QED BY <2>1, <2>2, <2>3
<1> QED BY <1>1 DEF Restrict

(* What record does to the store: nothing where a served record of another    *)
(* endpoint stands, else it writes one record, changes no other, and drops    *)
(* one only when the providers outnumber the records.                         *)
LEMMA RecordStep ==
    ASSUME Typed, NEW a \in Addrs, NEW url \in Urls, NEW v \in Verdicts, NEW served \in BOOLEAN,
           record(a, url, v, served)
    PROVE  \/ /\ store' = store
              /\ ~served /\ a \in DOMAIN store /\ shieldedFrom(store[a], url)
           \/ /\ a \in DOMAIN store' /\ DOMAIN store' \subseteq Addrs
              /\ store'[a] = [url |-> url, onchain |-> v, served |-> served, exp |-> now + IdTTL]
              /\ ~(~served /\ a \in DOMAIN store /\ shieldedFrom(store[a], url))
              /\ \A b \in DOMAIN store' : b # a => b \in DOMAIN store /\ store'[b] = store[b]
              /\ Cardinality(Addrs) <= MaxRecords => DOMAIN store \subseteq DOMAIN store'
<1> DEFINE e    == [url |-> url, onchain |-> v, served |-> served, exp |-> now + IdTTL]
           keep == ~served /\ a \in DOMAIN store /\ shieldedFrom(store[a], url)
           full == a \notin DOMAIN store /\ Cardinality(DOMAIN store) >= MaxRecords
<1>1. CASE keep
  <2>1. store' = store
    BY <1>1 DEF record
  <2> QED BY <1>1, <2>1
<1>2. CASE ~keep
  <2>1. PICK s \in IF full THEN roomsFor(store) ELSE {store} :
           store' = [b \in DOMAIN s \cup {a} |-> IF b = a THEN e ELSE s[b]]
    BY <1>2 DEF record
  <2>2. DOMAIN s \subseteq DOMAIN store /\ \A b \in DOMAIN s : s[b] = store[b]
    <3>1. CASE full
      BY <2>1, <3>1, RoomOnlyDrops
    <3>2. CASE ~full
      BY <2>1, <3>2
    <3> QED BY <3>1, <3>2
  <2>3. DOMAIN store \subseteq Addrs
    BY DEF Typed
  <2>4. ASSUME Cardinality(Addrs) <= MaxRecords PROVE DOMAIN store \subseteq DOMAIN store'
    <3>1. ~full
      BY <2>3, <2>4, RoomForOne, SomeAddrs, Constants
    <3> QED BY <2>1, <3>1
  <2> HIDE DEF e
  <2>5. /\ a \in DOMAIN store' /\ DOMAIN store' \subseteq Addrs
        /\ store'[a] = e
        /\ \A b \in DOMAIN store' : b # a => b \in DOMAIN store /\ store'[b] = store[b]
    BY <2>1, <2>2, <2>3
  <2> QED BY <1>2, <2>4, <2>5 DEF e
<1> QED BY <1>1, <1>2

-----------------------------------------------------------------------------
(* Types and places, one step per action.                                     *)

(* What finishSweep publishes is well typed.                                  *)
LEMMA FinishType ==
    ASSUME Typed, NEW x \in Nat, NEW y \in Nat, finishSweep(x, y)
    PROVE  /\ warm' \in State
           /\ warm'.at = now /\ warm'.started = warm.started
           /\ warm'.ready = x /\ warm'.total = y /\ warm'.blamed = blame
<1>1. warm \in State /\ now \in Int /\ blame \in Nat
  BY Constants DEF Typed
<1>2. warm' = [warm EXCEPT !.at = now, !.ready = x, !.total = y, !.blamed = blame]
  BY DEF finishSweep
<1> QED BY ONLY <1>1, <1>2, x \in Nat, y \in Nat DEF State

LEMMA NoSweepType == NoSweep \in Locals /\ NoSweep.todo = {} /\ NoSweep.ready = 0 /\ NoSweep.total = 0
BY DEF NoSweep, Locals, Verdicts

LEMMA TypeStep ==
    ASSUME Typed, PlaceInv, [Next]_vars
    PROVE  Typed' /\ PlaceInv'
<1> USE Constants
<1>1. CASE Tick
  <2>1. /\ now' \in 0 .. MaxTime /\ ticker' \in Nat
        /\ UNCHANGED <<stop, pc, sweep, warm, store, bound, req, blame, grounded, seen>>
    BY <1>1 DEF Tick, Typed
  <2>2. pending' \in BOOLEAN
    BY <1>1, Zenon DEF Tick, Typed
  <2> QED BY <2>1, <2>2 DEF Typed, PlaceInv
<1>2. CASE Shutdown
  BY <1>2 DEF Shutdown, Typed, PlaceInv
<1>3. CASE BeginSweep
  <2>1. /\ pc \in {"begin", "idle"} /\ pc' = "list" /\ warm' = [warm EXCEPT !.started = now]
        /\ blame' = 0 /\ grounded' = {}
        /\ UNCHANGED <<now, ticker, stop, sweep, store, bound, req, seen>>
    BY <1>3 DEF BeginSweep
  <2>2. pending' \in BOOLEAN
    BY <1>3, Zenon DEF BeginSweep, Typed
  <2>3. warm' \in State
    BY <2>1 DEF Typed, State
  <2>4. sweep = NoSweep
    BY <2>1 DEF PlaceInv, Stages
  <2> QED BY <2>1, <2>2, <2>3, <2>4 DEF Typed, PlaceInv, Stages, Sweeping
<1>4. ASSUME NEW answered \in SUBSET ServiceTypes, List(answered) PROVE Typed' /\ PlaceInv'
  <2> DEFINE addrs == UNION {Catalog[t] : t \in answered}
  <2>1. /\ UNCHANGED <<now, pending, stop, store, bound, req, blame, grounded, seen>>
    BY <1>4 DEF List
  <2>2. addrs \in SUBSET Addrs
    BY WarmerAssumption
  <2>3. CASE answered = {} \/ (stop /\ answered # ServiceTypes)
    <3>1. /\ leaveSweep /\ (warm' = warm \/ finishSweep(0, 0))
      BY <1>4, <2>3 DEF List
    <3>2. pc' = "idle" /\ sweep' = NoSweep /\ ticker' \in Nat
      BY <3>1 DEF leaveSweep, Typed
    <3>3. warm' \in State
      BY <3>1, FinishType DEF Typed
    <3> QED BY <2>1, <3>2, <3>3, NoSweepType DEF Typed, PlaceInv, Stages, Sweeping
  <2>4. CASE ~(answered = {} \/ (stop /\ answered # ServiceTypes))
    <3> HIDE DEF addrs
    <3>1. /\ pc' = "loop" /\ UNCHANGED <<warm, ticker>>
          /\ sweep' = [NoSweep EXCEPT !.todo = addrs, !.total = Cardinality(addrs)]
      BY <1>4, <2>4 DEF List, addrs
    <3>2. sweep' \in Locals
      BY <2>2, <3>1, NoSweepType, SomeAddrs DEF Locals
    <3> QED BY <2>1, <3>1, <3>2 DEF Typed, PlaceInv, Stages, Sweeping
  <2> QED BY <2>3, <2>4
<1>5. CASE AbandonSweep
  <2>1. /\ pc' = "idle" /\ sweep' = NoSweep /\ ticker' \in Nat
        /\ UNCHANGED <<now, pending, stop, warm, store, bound, req, blame, grounded, seen>>
    BY <1>5 DEF AbandonSweep, leaveSweep, Typed
  <2> QED BY <2>1, NoSweepType DEF Typed, PlaceInv, Stages, Sweeping
<1>6. ASSUME NEW a \in Addrs, NEW ok \in BOOLEAN, ResolveEndpoint(a, ok) PROVE Typed' /\ PlaceInv'
  <2>1. /\ pc = "loop" /\ pc' \in {"quote", "loop"}
        /\ sweep' = [sweep EXCEPT !.todo = @ \ {a}, !.cur = a, !.prepared = TRUE,
                                  !.onchain = "not_checked"]
        /\ blame' \in Nat
        /\ UNCHANGED <<now, ticker, pending, stop, warm, store, bound, req, grounded, seen>>
    BY <1>6 DEF ResolveEndpoint, Typed
  <2>2. sweep' \in Locals /\ sweep'.cur = a /\ a \notin sweep'.todo /\ sweep'.prepared = TRUE
    BY <2>1 DEF Typed, Locals, Verdicts
  <2> QED BY <2>1, <2>2 DEF Typed, PlaceInv, Stages, Sweeping
<1>7. ASSUME NEW ok \in BOOLEAN, NEW adv \in BOOLEAN, RefreshQuote(ok, adv) PROVE Typed' /\ PlaceInv'
  <2>1. /\ pc = "quote" /\ pc' = "signer"
        /\ sweep' = [sweep EXCEPT !.verified = ok, !.prepared = ok, !.advertised = adv]
        /\ blame' \in Nat
        /\ UNCHANGED <<now, ticker, pending, stop, warm, store, bound, req, grounded>>
    BY <1>7 DEF RefreshQuote, Typed
  <2>2. sweep' \in Locals /\ sweep'.cur = sweep.cur /\ sweep'.todo = sweep.todo
        /\ sweep'.prepared = sweep'.verified
    BY <2>1 DEF Typed, Locals
  <2>3. sweep.cur \in Addrs /\ sweep.cur \notin sweep.todo
    BY <2>1 DEF PlaceInv, Stages
  <2>4. seen' \in [Addrs -> Seen]
    <3> DEFINE c == sweep.cur
               dbt == IF ok THEN FALSE ELSE seen[c].doubt \/ ~stop
    <3>1. seen' = [seen EXCEPT ![c] = [seen[c] EXCEPT !.doubt = dbt]]
      BY <1>7 DEF RefreshQuote
    <3>2. seen[c] \in Seen /\ dbt \in BOOLEAN
      BY <2>3 DEF Typed, Seen
    <3> HIDE DEF dbt, c
    <3>3. [seen[c] EXCEPT !.doubt = dbt] \in Seen
      BY <3>2 DEF Seen
    <3> QED BY <3>1, <3>3 DEF Typed
  <2> QED BY <2>1, <2>2, <2>3, <2>4 DEF Typed, PlaceInv, Stages, Sweeping
<1>8. ASSUME NEW reading \in {"same", "other", "unacknowledged", "failed"},
             NEW cached \in {"agrees", "disagrees", "none"}, RefreshSigner(reading, cached)
      PROVE  Typed' /\ PlaceInv'
  <2> DEFINE a == sweep.cur
             v == sweep.verified
             disagrees == reading = "unacknowledged" \/ (reading = "other" /\ v)
             onchain == IF reading = "failed" THEN cachedSignerVerdict(cached)
                        ELSE IF disagrees THEN "no_match"
                        ELSE IF ~v THEN cachedSignerVerdict(cached)
                        ELSE "pass"
             prepared == IF reading = "failed" \/ disagrees THEN staysPrepared(reading)
                         ELSE sweep.prepared
             fnd == seen[a].finding \/ disagrees
  <2>1. /\ pc = "signer" /\ pc' = "publish"
        /\ sweep' = [sweep EXCEPT !.onchain = onchain, !.prepared = prepared]
        /\ blame' \in Nat
        /\ UNCHANGED <<now, ticker, pending, stop, warm, store, bound, req>>
    BY <1>8 DEF RefreshSigner, Typed
  <2>2. seen' = [seen EXCEPT ![a] = [seen[a] EXCEPT !.finding = fnd]]
    BY <1>8 DEF RefreshSigner
  <2>3. grounded' \in {grounded, grounded \cup {a}}
    BY <1>8 DEF RefreshSigner
  <2>4. a \in Addrs /\ a \notin sweep.todo
    BY <2>1 DEF PlaceInv, Stages
  <2>5. /\ onchain \in Verdicts /\ (onchain = "no_match" => disagrees)
    BY DEF cachedSignerVerdict, Verdicts
  <2>6. prepared \in BOOLEAN /\ v \in BOOLEAN /\ seen[a] \in Seen
    BY <2>4 DEF staysPrepared, Typed, Locals
  <2>7. fnd \in BOOLEAN
    BY <2>6 DEF Seen
  <2>7a. disagrees => fnd
    OBVIOUS
  <2>7b. sweep \in Locals
    BY DEF Typed
  <2> HIDE DEF onchain, prepared, fnd, disagrees
  <2>8. sweep' \in Locals /\ sweep'.cur = a /\ sweep'.todo = sweep.todo /\ sweep'.onchain = onchain
    BY <2>1, <2>5, <2>6, <2>7b DEF Locals
  <2>9. [seen[a] EXCEPT !.finding = fnd] \in Seen /\ [seen[a] EXCEPT !.finding = fnd].finding = fnd
    BY <2>6, <2>7 DEF Seen
  <2>10. seen' \in [Addrs -> Seen] /\ seen'[a].finding = fnd
    BY <2>2, <2>4, <2>9 DEF Typed
  <2>11. sweep'.onchain = "no_match" => seen'[sweep'.cur].finding
    BY <2>5, <2>7a, <2>8, <2>10
  <2> HIDE DEF a
  <2>12. Typed'
    BY <2>1, <2>3, <2>4, <2>8, <2>10 DEF Typed, Stages, Sweeping
  <2> QED BY <2>1, <2>4, <2>8, <2>11, <2>12 DEF PlaceInv, Stages
<1>9. ASSUME NEW passes \in BOOLEAN, Publish(passes) PROVE Typed' /\ PlaceInv'
  <2> DEFINE a == sweep.cur
             refused == ~stop /\ sweep.verified /\ ProviderEnforce /\ sweep.prepared /\ ~passes
             counted == sweep.prepared /\ ~refused
  <2>1. /\ pc = "publish" /\ pc' = "loop"
        /\ sweep' = [sweep EXCEPT !.ready = IF counted THEN @ + 1 ELSE @, !.cur = NoAddr]
        /\ blame' \in Nat
        /\ UNCHANGED <<now, ticker, pending, stop, warm, req, grounded>>
    BY <1>9 DEF Publish, Typed
  <2>2. a \in Addrs /\ sweep.onchain \in Verdicts /\ sweep.advertised \in BOOLEAN
    BY <2>1 DEF PlaceInv, Stages, Typed, Locals
  <2>3. sweep' \in Locals
    <3> DEFINE k == IF counted THEN sweep.ready + 1 ELSE sweep.ready
    <3>1. sweep \in Locals /\ k \in Nat
      BY DEF Typed, Locals
    <3>2. sweep' = [sweep EXCEPT !.ready = k, !.cur = NoAddr]
      BY <2>1
    <3> HIDE DEF k
    <3> QED BY ONLY <3>1, <3>2 DEF Locals
  <2>4. /\ DOMAIN store' \subseteq Addrs /\ \A b \in DOMAIN store' : store'[b] \in Record
        /\ bound' \subseteq Addrs /\ seen' \in [Addrs -> Seen]
    <3>1. CASE stop
      BY <1>9, <3>1 DEF Publish, Typed
    <3>2. CASE ~stop /\ sweep.verified
      <4>1. /\ observe(a, sweep.advertised) /\ record(a, "chain", sweep.onchain, FALSE)
            /\ seen' = [seen EXCEPT ![a].advertised = sweep.advertised]
        BY <1>9, <3>2 DEF Publish
      <4>2. bound' \subseteq Addrs
        BY <2>2, <4>1 DEF observe, Typed
      <4>3. seen' \in [Addrs -> Seen]
        <5>1. seen[a] \in Seen
          BY <2>2 DEF Typed
        <5>2. [seen[a] EXCEPT !.advertised = sweep.advertised] \in Seen
          BY <2>2, <5>1 DEF Seen
        <5> QED BY <4>1, <5>2 DEF Typed
      <4> DEFINE e == [url |-> "chain", onchain |-> sweep.onchain, served |-> FALSE, exp |-> now + IdTTL]
      <4>4. e \in Record
        BY <2>2 DEF Record, Urls, Typed
      <4>5. "chain" \in Urls /\ FALSE \in BOOLEAN
        BY DEF Urls
      <4>6. \/ store' = store
            \/ /\ DOMAIN store' \subseteq Addrs /\ store'[a] = e
               /\ \A b \in DOMAIN store' : b # a => b \in DOMAIN store /\ store'[b] = store[b]
        BY <2>2, <4>1, <4>5, RecordStep
      <4> HIDE DEF e
      <4>7. DOMAIN store' \subseteq Addrs /\ \A b \in DOMAIN store' : store'[b] \in Record
        BY <4>4, <4>6 DEF Typed
      <4> QED BY <4>2, <4>3, <4>7
    <3>3. CASE ~stop /\ ~sweep.verified
      <4>1. delWarmed(a, "chain") /\ UNCHANGED <<bound, seen>>
        BY <1>9, <3>3 DEF Publish
      <4> QED BY <4>1 DEF delWarmed, Restrict, Typed
    <3> QED BY <3>1, <3>2, <3>3
  <2> QED BY <2>1, <2>3, <2>4 DEF Typed, PlaceInv, Stages, Sweeping
<1>10. CASE FinishSweep
  <2>1. /\ pc' = "idle" /\ sweep' = NoSweep /\ ticker' \in Nat
        /\ UNCHANGED <<now, pending, stop, store, bound, req, blame, grounded, seen>>
    BY <1>10 DEF FinishSweep, leaveSweep, Typed
  <2>2. warm' \in State
    <3>1. sweep.ready \in Nat /\ sweep.total \in Nat /\ finishSweep(sweep.ready, sweep.total)
      BY <1>10 DEF FinishSweep, Typed, Locals
    <3> QED BY <3>1, FinishType
  <2> QED BY <2>1, <2>2, NoSweepType DEF Typed, PlaceInv, Stages, Sweeping
<1>11. CASE WarmerReturns
  BY <1>11 DEF WarmerReturns, Typed, PlaceInv, Stages, Sweeping
<1>12. ASSUME NEW r \in Requests, NEW a \in Addrs, NEW url \in Urls, RequestVerified(r, a, url)
       PROVE  Typed' /\ PlaceInv'
  <2> DEFINE dbt == IF url = "chain" THEN FALSE ELSE seen[a].doubt
  <2>1. /\ req' = [req EXCEPT ![r] = [pc |-> "verified", addr |-> a, url |-> url]]
        /\ seen' = [seen EXCEPT ![a] = [seen[a] EXCEPT !.doubt = dbt]]
        /\ UNCHANGED <<now, ticker, pending, stop, pc, sweep, warm, store, bound, blame, grounded>>
    BY <1>12 DEF RequestVerified
  <2>2. req' \in [Requests -> Req] /\ \A q \in Requests : req'[q].pc = "verified" => req'[q].addr \in Addrs
    <3>1. [pc |-> "verified", addr |-> a, url |-> url] \in Req
      BY DEF Req
    <3> QED BY <2>1, <3>1 DEF Typed, PlaceInv
  <2>3. seen[a] \in Seen /\ dbt \in BOOLEAN
    BY DEF Typed, Seen
  <2> HIDE DEF dbt
  <2>4. [seen[a] EXCEPT !.doubt = dbt] \in Seen /\ [seen[a] EXCEPT !.doubt = dbt].finding = seen[a].finding
    BY <2>3 DEF Seen
  <2>5. seen' \in [Addrs -> Seen] /\ \A b \in Addrs : seen'[b].finding = seen[b].finding
    BY <2>1, <2>4 DEF Typed
  <2> QED BY <2>1, <2>2, <2>5 DEF Typed, PlaceInv, Stages
<1>13. ASSUME NEW r \in Requests, NEW v \in Verdicts, RequestRecords(r, v) PROVE Typed' /\ PlaceInv'
  <2> DEFINE a == req[r].addr
             fnd == seen[a].finding \/ v = "no_match"
             shown == [url |-> req[r].url, onchain |-> v, exp |-> now + IdTTL]
  <2>1. /\ req[r].pc = "verified" /\ record(a, req[r].url, v, TRUE)
        /\ req' = [req EXCEPT ![r].pc = "done"]
        /\ seen' = [seen EXCEPT ![a] = [[seen[a] EXCEPT !.served = shown] EXCEPT !.finding = fnd]]
        /\ UNCHANGED <<now, ticker, pending, stop, pc, sweep, warm, bound, blame, grounded>>
    BY <1>13 DEF RequestRecords
  <2>2. a \in Addrs /\ req[r].url \in Urls
    BY <2>1 DEF PlaceInv, Typed, Req
  <2>3. req' \in [Requests -> Req] /\ \A q \in Requests : req'[q].pc = "verified" => req'[q].addr \in Addrs
    <3>1. [req[r] EXCEPT !.pc = "done"] \in Req
      BY DEF Typed, Req
    <3> QED BY <2>1, <3>1 DEF Typed, PlaceInv
  <2>4. shown \in Shown /\ seen[a] \in Seen /\ fnd \in BOOLEAN
    BY <2>2 DEF Shown, Typed, Seen
  <2>4a. seen[a].finding => fnd
    OBVIOUS
  <2> DEFINE e == [url |-> req[r].url, onchain |-> v, served |-> TRUE, exp |-> now + IdTTL]
  <2>5. e \in Record
    BY <2>2 DEF Record, Typed
  <2>6. \/ store' = store
        \/ /\ DOMAIN store' \subseteq Addrs /\ store'[a] = e
           /\ \A b \in DOMAIN store' : b # a => b \in DOMAIN store /\ store'[b] = store[b]
    <3>1. TRUE \in BOOLEAN
      OBVIOUS
    <3> HIDE DEF a
    <3> QED BY <2>1, <2>2, <3>1, RecordStep
  <2> HIDE DEF e, shown, fnd, a
  <2>7. DOMAIN store' \subseteq Addrs /\ \A b \in DOMAIN store' : store'[b] \in Record
    BY <2>5, <2>6 DEF Typed
  <2>8. /\ [[seen[a] EXCEPT !.served = shown] EXCEPT !.finding = fnd] \in Seen
        /\ [[seen[a] EXCEPT !.served = shown] EXCEPT !.finding = fnd].finding = fnd
    BY <2>4 DEF Seen
  <2>9. seen' \in [Addrs -> Seen] /\ \A b \in Addrs : seen[b].finding => seen'[b].finding
    BY <2>1, <2>2, <2>4a, <2>8 DEF Typed
  <2> QED BY <2>1, <2>3, <2>7, <2>9 DEF Typed, PlaceInv, Stages
<1>14. ASSUME NEW a \in Addrs, ReadIdentity(a) PROVE Typed' /\ PlaceInv'
  BY <1>14 DEF ReadIdentity, Restrict, Typed, PlaceInv
<1>15. CASE UNCHANGED vars
  BY <1>15 DEF vars, Typed, PlaceInv
<1> QED
  BY <1>1, <1>2, <1>3, <1>4, <1>5, <1>6, <1>7, <1>8, <1>9, <1>10, <1>11, <1>12, <1>13, <1>14, <1>15
  DEF Next, SweepStep

-----------------------------------------------------------------------------
(* The clock and the ticker.                                                  *)
LEMMA LeaveTicker ==
    ASSUME Typed, TickerInv, leaveSweep
    PROVE  ticker' # 0 /\ now < ticker' /\ ticker' <= now + Interval
BY Constants DEF leaveSweep, TickerInv, Typed

LEMMA TickerStep ==
    ASSUME Typed, PlaceInv, TickerInv, [Next]_vars
    PROVE  TickerInv'
<1> USE Constants
<1>0. /\ now \in Int /\ ticker \in Int /\ warm.at \in Int /\ warm.started \in Int
      /\ pending \in BOOLEAN /\ stop \in BOOLEAN
  BY DEF Typed, State
<1>1. CASE Tick
  <2>1. /\ now' = now + 1 /\ UNCHANGED <<stop, pc, warm>>
        /\ ~(pc = "begin" \/ (pc = "idle" /\ (pending \/ stop)))
        /\ \/ ticker # 0 /\ now + 1 >= ticker /\ pending' = TRUE /\ ticker' = ticker + Interval
           \/ ~(ticker # 0 /\ now + 1 >= ticker) /\ UNCHANGED <<pending, ticker>>
    BY <1>1 DEF Tick
  <2> QED BY <1>0, <2>1 DEF TickerInv, Sweeping, Stages
<1>2. CASE Shutdown
  BY <1>2 DEF Shutdown, TickerInv
<1>3. CASE BeginSweep
  <2>1. /\ pc \in {"begin", "idle"} /\ pc' = "list" /\ warm' = [warm EXCEPT !.started = now]
        /\ UNCHANGED <<now, ticker, stop>>
    BY <1>3 DEF BeginSweep
  <2>2. warm'.at = warm.at /\ warm'.started = now
    BY <2>1 DEF Typed, State
  <2> QED BY <1>0, <2>1, <2>2 DEF TickerInv, Sweeping, Stages
<1>4. ASSUME NEW answered \in SUBSET ServiceTypes, List(answered) PROVE TickerInv'
  <2>1. pc = "list" /\ UNCHANGED <<now, pending, stop>>
    BY <1>4 DEF List
  <2>2. CASE answered = {} \/ (stop /\ answered # ServiceTypes)
    <3>1. leaveSweep /\ IF stop THEN UNCHANGED warm ELSE finishSweep(0, 0)
      BY <1>4, <2>2 DEF List
    <3>2. pc' = "idle"
      BY <3>1 DEF leaveSweep
    <3>3. ticker' # 0 /\ now < ticker' /\ ticker' <= now + Interval
      BY <3>1, LeaveTicker
    <3>4. ticker' \in Int
      BY <1>0, <3>1 DEF leaveSweep
    <3>5. IF stop THEN warm' = warm ELSE warm'.at = now /\ warm'.started = warm.started
      BY <3>1, FinishType
    <3>6. now >= 0
      BY DEF Typed
    <3> QED BY <1>0, <2>1, <3>2, <3>3, <3>4, <3>5, <3>6 DEF TickerInv, Sweeping, Stages
  <2>3. CASE ~(answered = {} \/ (stop /\ answered # ServiceTypes))
    <3>1. pc' = "loop" /\ UNCHANGED <<warm, ticker>>
      BY <1>4, <2>3 DEF List
    <3> QED BY <2>1, <3>1 DEF TickerInv, Sweeping, Stages
  <2> QED BY <2>2, <2>3
<1>5. CASE AbandonSweep
  <2>1. pc' = "idle" /\ stop /\ UNCHANGED <<now, pending, stop, warm>> /\ leaveSweep
    BY <1>5 DEF AbandonSweep, leaveSweep
  <2>2. ticker' # 0 /\ now < ticker' /\ ticker' <= now + Interval
    BY <2>1, LeaveTicker
  <2> QED BY <2>1, <2>2 DEF TickerInv, Sweeping, Stages
<1>6. ASSUME NEW a \in Addrs, NEW ok \in BOOLEAN, ResolveEndpoint(a, ok) PROVE TickerInv'
  BY <1>6 DEF ResolveEndpoint, TickerInv, Sweeping, Stages
<1>7. ASSUME NEW ok \in BOOLEAN, NEW adv \in BOOLEAN, RefreshQuote(ok, adv) PROVE TickerInv'
  BY <1>7 DEF RefreshQuote, TickerInv, Sweeping, Stages
<1>8. ASSUME NEW reading \in {"same", "other", "unacknowledged", "failed"},
             NEW cached \in {"agrees", "disagrees", "none"}, RefreshSigner(reading, cached)
      PROVE  TickerInv'
  <2>1. pc = "signer" /\ pc' = "publish" /\ UNCHANGED <<now, ticker, pending, stop, warm>>
    BY <1>8 DEF RefreshSigner
  <2> QED BY <2>1 DEF TickerInv, Sweeping, Stages
<1>9. ASSUME NEW passes \in BOOLEAN, Publish(passes) PROVE TickerInv'
  <2>1. pc = "publish" /\ pc' = "loop" /\ UNCHANGED <<now, ticker, pending, stop, warm>>
    BY <1>9 DEF Publish
  <2> QED BY <2>1 DEF TickerInv, Sweeping, Stages
<1>10. CASE FinishSweep
  <2>1. /\ pc' = "idle" /\ leaveSweep /\ UNCHANGED <<now, pending, stop>>
        /\ finishSweep(sweep.ready, sweep.total)
    BY <1>10 DEF FinishSweep, leaveSweep
  <2>2. ticker' # 0 /\ now < ticker' /\ ticker' <= now + Interval
    BY <2>1, LeaveTicker
  <2>3. ticker' \in Int /\ now >= 0
    BY <1>0, <2>1 DEF leaveSweep, Typed
  <2>4. warm'.at = now /\ warm'.started = warm.started
    BY <2>1, FinishType DEF Typed, Locals
  <2>5. pc' = "idle" /\ now' = now /\ warm.started <= now
    BY <2>1 DEF TickerInv
  <2>6. /\ -1 <= warm'.at /\ warm'.at <= now' /\ warm'.started <= now'
        /\ 0 <= warm'.at /\ now' - warm'.at <= Interval /\ ticker' - warm'.at <= Interval
    <3>0. \A t, u, k \in Int : ((t = u /\ 0 <= k) \/ t <= u + k) => t - u <= k
      OBVIOUS
    <3>1. now' - now <= Interval
      BY ONLY <1>0, <2>5, <3>0, Constants
    <3>1a. ticker' - now <= Interval
      <4>1. now \in Int /\ ticker' \in Int /\ Interval \in Int
        BY <1>0, <2>3
      <4>2. ticker' <= now + Interval
        BY <2>2
      <4> QED BY ONLY <3>0, <4>1, <4>2
    <3>2. -1 <= now /\ now <= now' /\ 0 <= now
      BY ONLY <1>0, <2>3, <2>5
    <3> QED BY ONLY <2>4, <2>5, <3>1, <3>1a, <3>2
  <2>7. pc' # "begin" /\ pc' # "stopped" /\ pc' \notin Sweeping
    BY <2>5 DEF Sweeping, Stages
  <2> QED BY ONLY <2>2, <2>5, <2>6, <2>7 DEF TickerInv
<1>11. CASE WarmerReturns
  BY <1>11 DEF WarmerReturns, TickerInv, Sweeping, Stages
<1>12. ASSUME NEW r \in Requests, NEW a \in Addrs, NEW url \in Urls, RequestVerified(r, a, url)
       PROVE  TickerInv'
  BY <1>12 DEF RequestVerified, TickerInv
<1>13. ASSUME NEW r \in Requests, NEW v \in Verdicts, RequestRecords(r, v) PROVE TickerInv'
  BY <1>13 DEF RequestRecords, TickerInv
<1>14. ASSUME NEW a \in Addrs, ReadIdentity(a) PROVE TickerInv'
  BY <1>14 DEF ReadIdentity, TickerInv
<1>15. CASE UNCHANGED vars
  BY <1>15 DEF vars, TickerInv
<1> QED
  BY <1>1, <1>2, <1>3, <1>4, <1>5, <1>6, <1>7, <1>8, <1>9, <1>10, <1>11, <1>12, <1>13, <1>14, <1>15
  DEF Next, SweepStep

-----------------------------------------------------------------------------
(* The counts.                                                                *)
LEMMA CountStep ==
    ASSUME Typed, PlaceInv, CountInv, [Next]_vars
    PROVE  CountInv'
<1> USE Constants
<1>0. /\ sweep \in Locals /\ warm \in State /\ blame \in Nat /\ stop \in BOOLEAN
      /\ sweep.todo \in SUBSET Addrs /\ sweep.ready \in Nat /\ sweep.total \in Nat
      /\ sweep.prepared \in BOOLEAN /\ sweep.verified \in BOOLEAN
      /\ Cardinality(sweep.todo) \in Nat
  <2>1. /\ sweep \in Locals /\ warm \in State /\ blame \in Nat /\ stop \in BOOLEAN
        /\ sweep.todo \in SUBSET Addrs /\ sweep.ready \in Nat /\ sweep.total \in Nat
        /\ sweep.prepared \in BOOLEAN /\ sweep.verified \in BOOLEAN
    BY DEF Typed, Locals
  <2> QED BY <2>1, SomeAddrs
<1>a. ASSUME UNCHANGED <<sweep, warm, pc>>, stop' \/ UNCHANGED <<stop, blame>> PROVE CountInv'
  BY <1>a DEF CountInv, ShutdownNotBlamed, InHand, Prepared
<1>b. ASSUME sweep' = NoSweep, pc' = "idle",
             \/ warm' = warm
             \/ \E x, y \in Nat : /\ finishSweep(x, y) /\ x <= y /\ y <= Cardinality(Addrs)
                                  /\ y - x = blame
      PROVE  CountInv'
  <2>1. Cardinality(sweep'.todo) = 0 /\ sweep'.ready = 0 /\ sweep'.total = 0
    BY <1>b, NoSweepType, NoAddrs
  <2>2. InHand' = 0 /\ pc' \notin Sweeping
    BY <1>b DEF InHand, Stages, Sweeping
  <2>3. /\ warm'.ready <= warm'.total /\ warm'.total <= Cardinality(Addrs)
        /\ ShutdownNotBlamed'
    <3>1. CASE warm' = warm
      BY <3>1 DEF CountInv, ShutdownNotBlamed
    <3>2. CASE \E x, y \in Nat : /\ finishSweep(x, y) /\ x <= y /\ y <= Cardinality(Addrs)
                                 /\ y - x = blame
      <4>1. PICK x \in Nat, y \in Nat : /\ finishSweep(x, y) /\ x <= y /\ y <= Cardinality(Addrs)
                                        /\ y - x = blame
        BY <3>2
      <4>2. warm'.ready = x /\ warm'.total = y /\ warm'.blamed = blame
        BY <4>1, FinishType
      <4> QED BY <4>1, <4>2 DEF ShutdownNotBlamed
    <3> QED BY <1>b, <3>1, <3>2
  <2> QED BY <2>1, <2>2, <2>3 DEF CountInv
<1>1. CASE Tick
  <2>1. UNCHANGED <<sweep, warm, pc, stop, blame>>
    BY <1>1 DEF Tick
  <2> QED BY <1>a, <2>1
<1>2. CASE Shutdown
  <2>1. UNCHANGED <<sweep, warm, pc>> /\ stop'
    BY <1>2 DEF Shutdown
  <2> QED BY <1>a, <2>1
<1>3. CASE BeginSweep
  <2>1. /\ pc \in {"begin", "idle"} /\ pc' = "list" /\ warm' = [warm EXCEPT !.started = now]
        /\ blame' = 0 /\ UNCHANGED sweep
    BY <1>3 DEF BeginSweep
  <2>2. sweep = NoSweep
    BY <2>1 DEF PlaceInv, Stages
  <2>3. Cardinality(sweep'.todo) = 0 /\ sweep'.ready = 0 /\ sweep'.total = 0
    BY <2>1, <2>2, NoSweepType, NoAddrs
  <2>4. /\ warm'.ready = warm.ready /\ warm'.total = warm.total /\ warm'.blamed = warm.blamed
        /\ warm'.at = warm.at
    BY <1>0, <2>1 DEF State
  <2>5. InHand' = 0 /\ Prepared' = 0
    BY <2>1 DEF InHand, Prepared, Stages
  <2> QED BY <2>1, <2>3, <2>4, <2>5 DEF CountInv, ShutdownNotBlamed
<1>4. ASSUME NEW answered \in SUBSET ServiceTypes, List(answered) PROVE CountInv'
  <2> DEFINE addrs == UNION {Catalog[t] : t \in answered}
  <2>0. pc = "list" /\ blame = 0 /\ UNCHANGED <<stop, blame>>
    BY <1>4 DEF List, PlaceInv
  <2>1. CASE answered = {} \/ (stop /\ answered # ServiceTypes)
    <3>1. leaveSweep /\ IF stop THEN UNCHANGED warm ELSE finishSweep(0, 0)
      BY <1>4, <2>1 DEF List
    <3>2. sweep' = NoSweep /\ pc' = "idle"
      BY <3>1 DEF leaveSweep
    <3>3. finishSweep(0, 0) => \E x, y \in Nat : /\ finishSweep(x, y) /\ x <= y
                                                 /\ y <= Cardinality(Addrs) /\ y - x = blame
      BY <2>0
    <3> QED BY <1>b, <3>1, <3>2, <3>3
  <2>2. CASE ~(answered = {} \/ (stop /\ answered # ServiceTypes))
    <3>0. addrs \in SUBSET Addrs
      BY WarmerAssumption
    <3> HIDE DEF addrs
    <3>1. /\ pc' = "loop" /\ warm' = warm
          /\ sweep' = [NoSweep EXCEPT !.todo = addrs, !.total = Cardinality(addrs)]
      BY <1>4, <2>2 DEF List, addrs
    <3>2. sweep'.todo = addrs /\ sweep'.total = Cardinality(addrs) /\ sweep'.ready = 0
      BY <3>1, NoSweepType DEF NoSweep
    <3>3. Cardinality(addrs) \in Nat /\ Cardinality(addrs) <= Cardinality(Addrs)
      BY <3>0, SomeAddrs
    <3>4. InHand' = 0 /\ Prepared' = 0
      BY <3>1 DEF InHand, Prepared, Stages
    <3> QED BY <2>0, <3>1, <3>2, <3>3, <3>4 DEF CountInv, ShutdownNotBlamed
  <2> QED BY <2>1, <2>2
<1>5. CASE AbandonSweep
  <2>1. sweep' = NoSweep /\ pc' = "idle" /\ warm' = warm
    BY <1>5 DEF AbandonSweep, leaveSweep
  <2> QED BY <1>b, <2>1
<1>6. ASSUME NEW a \in Addrs, NEW ok \in BOOLEAN, ResolveEndpoint(a, ok) PROVE CountInv'
  <2>1. /\ pc = "loop" /\ ~stop /\ a \in sweep.todo /\ pc' = IF ok THEN "quote" ELSE "loop"
        /\ sweep' = [sweep EXCEPT !.todo = @ \ {a}, !.cur = a, !.prepared = TRUE,
                                  !.onchain = "not_checked"]
        /\ blame' = IF ok THEN blame ELSE blame + 1
        /\ UNCHANGED <<stop, warm>>
    BY <1>6 DEF ResolveEndpoint
  <2>2. /\ sweep'.todo = sweep.todo \ {a} /\ sweep'.ready = sweep.ready /\ sweep'.total = sweep.total
        /\ sweep'.prepared = TRUE
    BY ONLY <1>0, <2>1 DEF Locals
  <2>3. Cardinality(sweep'.todo) = Cardinality(sweep.todo) - 1
    BY <1>0, <2>1, <2>2, OneLess
  <2>4. InHand = 0 /\ Prepared = 0 /\ pc \in Sweeping
    BY <2>1 DEF InHand, Prepared, Stages, Sweeping
  <2>5. InHand' = (IF ok THEN 1 ELSE 0) /\ Prepared' = IF ok THEN 1 ELSE 0
    BY <2>1, <2>2 DEF InHand, Prepared, Stages
  <2> QED BY <1>0, <2>1, <2>2, <2>3, <2>4, <2>5 DEF CountInv, ShutdownNotBlamed
<1>7. ASSUME NEW ok \in BOOLEAN, NEW adv \in BOOLEAN, RefreshQuote(ok, adv) PROVE CountInv'
  <2>1. /\ pc = "quote" /\ pc' = "signer"
        /\ sweep' = [sweep EXCEPT !.verified = ok, !.prepared = ok, !.advertised = adv]
        /\ blame' = IF ok \/ stop THEN blame ELSE blame + 1
        /\ UNCHANGED <<stop, warm>>
    BY <1>7 DEF RefreshQuote
  <2>2. /\ sweep'.todo = sweep.todo /\ sweep'.ready = sweep.ready /\ sweep'.total = sweep.total
        /\ sweep'.prepared = ok
    BY ONLY <1>0, <2>1 DEF Locals
  <2>3. InHand = 1 /\ InHand' = 1 /\ pc \in Sweeping
    BY <2>1 DEF InHand, Stages, Sweeping
  <2>4. Prepared = (IF sweep.prepared THEN 1 ELSE 0) /\ Prepared' = IF ok THEN 1 ELSE 0
    BY <2>1, <2>2 DEF Prepared, Stages
  <2>5. sweep.prepared
    BY <2>1 DEF PlaceInv
  <2> QED BY <1>0, <2>1, <2>2, <2>3, <2>4, <2>5 DEF CountInv, ShutdownNotBlamed
<1>8. ASSUME NEW reading \in {"same", "other", "unacknowledged", "failed"},
             NEW cached \in {"agrees", "disagrees", "none"}, RefreshSigner(reading, cached)
      PROVE  CountInv'
  <2>1. PICK v \in Verdicts, p \in BOOLEAN :
           /\ p => sweep.prepared
           /\ sweep' = [sweep EXCEPT !.onchain = v, !.prepared = p]
           /\ blame' = IF sweep.prepared /\ ~p /\ ~stop THEN blame + 1 ELSE blame
    <3> DEFINE v == sweep.verified
               disagrees == reading = "unacknowledged" \/ (reading = "other" /\ v)
               onchain == IF reading = "failed" THEN cachedSignerVerdict(cached)
                          ELSE IF disagrees THEN "no_match"
                          ELSE IF ~v THEN cachedSignerVerdict(cached)
                          ELSE "pass"
               p == IF reading = "failed" \/ disagrees THEN staysPrepared(reading)
                    ELSE sweep.prepared
    <3>1. p \in BOOLEAN /\ (p => sweep.prepared)
      BY <1>0 DEF staysPrepared
    <3>1a. onchain \in Verdicts
      BY DEF cachedSignerVerdict, Verdicts
    <3>2. /\ sweep' = [sweep EXCEPT !.onchain = onchain, !.prepared = p]
          /\ blame' = IF sweep.prepared /\ ~p /\ ~stop THEN blame + 1 ELSE blame
      BY <1>8 DEF RefreshSigner
    <3> HIDE DEF onchain, p
    <3> QED BY <3>1, <3>1a, <3>2
  <2>2. pc = "signer" /\ pc' = "publish" /\ UNCHANGED <<stop, warm>>
    BY <1>8 DEF RefreshSigner
  <2>3. /\ sweep'.todo = sweep.todo /\ sweep'.ready = sweep.ready /\ sweep'.total = sweep.total
        /\ sweep'.prepared = p
    BY ONLY <1>0, <2>1 DEF Locals
  <2>4. InHand = 1 /\ InHand' = 1 /\ pc \in Sweeping
    BY <2>2 DEF InHand, Stages, Sweeping
  <2>5. Prepared = (IF sweep.prepared THEN 1 ELSE 0) /\ Prepared' = IF p THEN 1 ELSE 0
    BY <2>2, <2>3 DEF Prepared, Stages
  <2> QED BY <1>0, <2>1, <2>2, <2>3, <2>4, <2>5 DEF CountInv, ShutdownNotBlamed
<1>9. ASSUME NEW passes \in BOOLEAN, Publish(passes) PROVE CountInv'
  <2> DEFINE refused == ~stop /\ sweep.verified /\ ProviderEnforce /\ sweep.prepared /\ ~passes
             counted == sweep.prepared /\ ~refused
             k == IF counted THEN sweep.ready + 1 ELSE sweep.ready
  <2>1. /\ pc = "publish" /\ pc' = "loop" /\ UNCHANGED <<stop, warm>>
        /\ sweep' = [sweep EXCEPT !.ready = k, !.cur = NoAddr]
        /\ blame' = IF refused THEN blame + 1 ELSE blame
    BY <1>9 DEF Publish
  <2>2. k \in Nat
    BY <1>0
  <2>3. sweep'.todo = sweep.todo /\ sweep'.ready = k /\ sweep'.total = sweep.total
    <3> HIDE DEF k
    <3> QED BY ONLY <1>0, <2>1 DEF Locals
  <2>4. InHand = 1 /\ InHand' = 0 /\ Prepared' = 0 /\ pc \in Sweeping
    BY <2>1 DEF InHand, Prepared, Stages, Sweeping
  <2>5. Prepared = IF sweep.prepared THEN 1 ELSE 0
    BY <2>1 DEF Prepared, Stages
  <2> QED BY <1>0, <2>1, <2>2, <2>3, <2>4, <2>5 DEF CountInv, ShutdownNotBlamed
<1>10. CASE FinishSweep
  <2>1. /\ pc = "loop" /\ sweep.todo = {} /\ ~stop /\ finishSweep(sweep.ready, sweep.total)
        /\ sweep' = NoSweep /\ pc' = "idle"
    BY <1>10 DEF FinishSweep, leaveSweep
  <2>2. Prepared = 0 /\ pc \in Sweeping
    BY <2>1 DEF Prepared, Stages, Sweeping
  <2>3. sweep.ready + blame = sweep.total /\ sweep.total <= Cardinality(Addrs)
    BY <1>0, <2>1, <2>2, NoAddrs DEF CountInv
  <2> QED BY <1>0, <1>b, <2>1, <2>3
<1>11. CASE WarmerReturns
  <2>1. pc = "idle" /\ pc' = "stopped" /\ UNCHANGED <<stop, sweep, warm, blame>>
    BY <1>11 DEF WarmerReturns
  <2> QED BY <2>1 DEF CountInv, ShutdownNotBlamed, InHand, Prepared, Stages, Sweeping
<1>12. ASSUME NEW r \in Requests, NEW a \in Addrs, NEW url \in Urls, RequestVerified(r, a, url)
       PROVE  CountInv'
  <2>1. UNCHANGED <<sweep, warm, pc, stop, blame>>
    BY <1>12 DEF RequestVerified
  <2> QED BY <1>a, <2>1
<1>13. ASSUME NEW r \in Requests, NEW v \in Verdicts, RequestRecords(r, v) PROVE CountInv'
  <2>1. UNCHANGED <<sweep, warm, pc, stop, blame>>
    BY <1>13 DEF RequestRecords
  <2> QED BY <1>a, <2>1
<1>14. ASSUME NEW a \in Addrs, ReadIdentity(a) PROVE CountInv'
  <2>1. UNCHANGED <<sweep, warm, pc, stop, blame>>
    BY <1>14 DEF ReadIdentity
  <2> QED BY <1>a, <2>1
<1>15. CASE UNCHANGED vars
  <2>1. UNCHANGED <<sweep, warm, pc, stop, blame>>
    BY <1>15 DEF vars
  <2> QED BY <1>a, <2>1
<1> QED
  BY <1>1, <1>2, <1>3, <1>4, <1>5, <1>6, <1>7, <1>8, <1>9, <1>10, <1>11, <1>12, <1>13, <1>14, <1>15
  DEF Next, SweepStep

-----------------------------------------------------------------------------
(* Who is counted ready.                                                      *)
LEMMA GroundedStep ==
    ASSUME Typed, PlaceInv, GroundedInv, Enforce, [Next]_vars
    PROVE  GroundedInv'
<1> USE Constants
<1>0. /\ sweep \in Locals /\ grounded \in SUBSET Addrs
      /\ sweep.todo \in SUBSET Addrs /\ sweep.ready \in Nat
      /\ sweep.prepared \in BOOLEAN /\ sweep.verified \in BOOLEAN
      /\ Cardinality(grounded) \in Nat
  <2>1. /\ sweep \in Locals /\ grounded \in SUBSET Addrs
        /\ sweep.todo \in SUBSET Addrs /\ sweep.ready \in Nat
        /\ sweep.prepared \in BOOLEAN /\ sweep.verified \in BOOLEAN
    BY DEF Typed, Locals
  <2> QED BY <2>1, SomeAddrs
<1>a. ASSUME UNCHANGED <<sweep, pc, grounded>> PROVE GroundedInv'
  BY <1>a DEF GroundedInv
<1>b. ASSUME sweep' = NoSweep, pc' \in {"list", "idle", "stopped"}, grounded' \in SUBSET Addrs
      PROVE  GroundedInv'
  <2>1. Cardinality(grounded') \in Nat
    BY <1>b, SomeAddrs
  <2>2. sweep'.todo = {} /\ sweep'.ready = 0
    BY <1>b, NoSweepType
  <2>3. pc' \notin {"quote", "signer"} /\ pc' # "publish"
    BY <1>b
  <2> QED BY <2>1, <2>2, <2>3 DEF GroundedInv
<1>1. CASE Tick
  BY <1>a, <1>1 DEF Tick
<1>2. CASE Shutdown
  BY <1>a, <1>2 DEF Shutdown
<1>3. CASE BeginSweep
  <2>1. pc \in {"begin", "idle"} /\ pc' = "list" /\ grounded' = {} /\ UNCHANGED sweep
    BY <1>3 DEF BeginSweep
  <2>2. sweep = NoSweep
    BY <2>1 DEF PlaceInv, Stages
  <2> QED BY <1>b, <2>1, <2>2
<1>4. ASSUME NEW answered \in SUBSET ServiceTypes, List(answered) PROVE GroundedInv'
  <2> DEFINE addrs == UNION {Catalog[t] : t \in answered}
  <2>0. pc = "list" /\ grounded' = {}
    BY <1>4 DEF List, PlaceInv
  <2>1. CASE answered = {} \/ (stop /\ answered # ServiceTypes)
    <3>1. leaveSweep
      BY <1>4, <2>1 DEF List
    <3>2. sweep' = NoSweep /\ pc' = "idle"
      BY <3>1 DEF leaveSweep
    <3> QED BY <1>b, <2>0, <3>2
  <2>2. CASE ~(answered = {} \/ (stop /\ answered # ServiceTypes))
    <3> HIDE DEF addrs
    <3>1. /\ pc' = "loop"
          /\ sweep' = [NoSweep EXCEPT !.todo = addrs, !.total = Cardinality(addrs)]
      BY <1>4, <2>2 DEF List, addrs
    <3>2. sweep'.ready = 0
      BY <3>1 DEF NoSweep
    <3> QED BY <2>0, <3>1, <3>2, NoAddrs DEF GroundedInv
  <2> QED BY <2>1, <2>2
<1>5. CASE AbandonSweep
  <2>1. sweep' = NoSweep /\ pc' = "idle" /\ grounded' = grounded
    BY <1>5 DEF AbandonSweep, leaveSweep
  <2> QED BY <1>0, <1>b, <2>1
<1>6. ASSUME NEW a \in Addrs, NEW ok \in BOOLEAN, ResolveEndpoint(a, ok) PROVE GroundedInv'
  <2>1. /\ pc = "loop" /\ a \in sweep.todo /\ pc' \in {"quote", "loop"} /\ grounded' = grounded
        /\ sweep' = [sweep EXCEPT !.todo = @ \ {a}, !.cur = a, !.prepared = TRUE,
                                  !.onchain = "not_checked"]
    BY <1>6 DEF ResolveEndpoint
  <2>2. sweep'.todo = sweep.todo \ {a} /\ sweep'.ready = sweep.ready /\ sweep'.cur = a
    BY ONLY <1>0, <2>1 DEF Locals
  <2> QED BY <1>0, <2>1, <2>2 DEF GroundedInv
<1>7. ASSUME NEW ok \in BOOLEAN, NEW adv \in BOOLEAN, RefreshQuote(ok, adv) PROVE GroundedInv'
  <2>1. /\ pc = "quote" /\ pc' = "signer" /\ grounded' = grounded
        /\ sweep' = [sweep EXCEPT !.verified = ok, !.prepared = ok, !.advertised = adv]
    BY <1>7 DEF RefreshQuote
  <2>2. sweep'.todo = sweep.todo /\ sweep'.ready = sweep.ready /\ sweep'.cur = sweep.cur
    BY ONLY <1>0, <2>1 DEF Locals
  <2> QED BY <2>1, <2>2 DEF GroundedInv
<1>8. ASSUME NEW reading \in {"same", "other", "unacknowledged", "failed"},
             NEW cached \in {"agrees", "disagrees", "none"}, RefreshSigner(reading, cached)
      PROVE  GroundedInv'
  <2>0. pc = "signer" /\ pc' = "publish"
    BY <1>8 DEF RefreshSigner
  <2>1. PICK v \in Verdicts, p \in BOOLEAN :
           /\ p => sweep.verified /\ reading = "same"
           /\ sweep' = [sweep EXCEPT !.onchain = v, !.prepared = p]
    <3> DEFINE v == sweep.verified
               disagrees == reading = "unacknowledged" \/ (reading = "other" /\ v)
               onchain == IF reading = "failed" THEN cachedSignerVerdict(cached)
                          ELSE IF disagrees THEN "no_match"
                          ELSE IF ~v THEN cachedSignerVerdict(cached)
                          ELSE "pass"
               p == IF reading = "failed" \/ disagrees THEN staysPrepared(reading)
                    ELSE sweep.prepared
    <3>1. sweep.prepared = sweep.verified
      BY <2>0 DEF PlaceInv
    <3>2. p \in BOOLEAN /\ (p => sweep.verified /\ reading = "same")
      BY <1>0, <3>1 DEF staysPrepared
    <3>3. onchain \in Verdicts
      BY DEF cachedSignerVerdict, Verdicts
    <3>4. sweep' = [sweep EXCEPT !.onchain = onchain, !.prepared = p]
      BY <1>8 DEF RefreshSigner
    <3> HIDE DEF onchain, p
    <3> QED BY <3>2, <3>3, <3>4
  <2>2. /\ sweep'.todo = sweep.todo /\ sweep'.ready = sweep.ready /\ sweep'.cur = sweep.cur
        /\ sweep'.prepared = p
    BY ONLY <1>0, <2>1 DEF Locals
  <2>3. grounded' = IF sweep.verified /\ reading = "same" THEN grounded \cup {sweep.cur} ELSE grounded
    BY <1>8 DEF RefreshSigner
  <2>4. /\ sweep.cur \in Addrs /\ sweep.cur \notin sweep.todo /\ sweep.cur \notin grounded
        /\ grounded \cap sweep.todo = {} /\ sweep.ready <= Cardinality(grounded)
    BY <1>0, <2>0 DEF PlaceInv, GroundedInv, Stages
  <2>5. Cardinality(grounded \cup {sweep.cur}) = Cardinality(grounded) + 1
    BY <1>0, <2>4, OneMore
  <2>6. CASE sweep.verified /\ reading = "same"
    <3>1. grounded' = grounded \cup {sweep.cur}
      BY <2>3, <2>6
    <3>2. Cardinality(grounded') = Cardinality(grounded) + 1 /\ grounded' \cap sweep'.todo = {}
      BY <2>2, <2>4, <2>5, <3>1
    <3> QED BY <1>0, <2>0, <2>2, <2>4, <3>2 DEF GroundedInv
  <2>7. CASE ~(sweep.verified /\ reading = "same")
    <3>1. grounded' = grounded /\ ~sweep'.prepared
      BY <2>1, <2>2, <2>3, <2>7
    <3> QED BY <1>0, <2>0, <2>2, <2>4, <3>1 DEF GroundedInv
  <2> QED BY <2>6, <2>7
<1>9. ASSUME NEW passes \in BOOLEAN, Publish(passes) PROVE GroundedInv'
  <2> DEFINE refused == ~stop /\ sweep.verified /\ ProviderEnforce /\ sweep.prepared /\ ~passes
             counted == sweep.prepared /\ ~refused
             k == IF counted THEN sweep.ready + 1 ELSE sweep.ready
  <2>1. /\ pc = "publish" /\ pc' = "loop" /\ grounded' = grounded
        /\ sweep' = [sweep EXCEPT !.ready = k, !.cur = NoAddr]
    BY <1>9 DEF Publish
  <2>2. k \in Nat /\ k <= Cardinality(grounded)
    BY <1>0, <2>1 DEF GroundedInv
  <2> HIDE DEF k
  <2>3. sweep'.todo = sweep.todo /\ sweep'.ready = k
    BY ONLY <1>0, <2>1 DEF Locals
  <2> QED BY <2>1, <2>2, <2>3 DEF GroundedInv
<1>10. CASE FinishSweep
  <2>1. sweep' = NoSweep /\ pc' = "idle" /\ grounded' = grounded
    BY <1>10 DEF FinishSweep, leaveSweep
  <2> QED BY <1>0, <1>b, <2>1
<1>11. CASE WarmerReturns
  <2>1. pc = "idle" /\ pc' = "stopped" /\ UNCHANGED <<sweep, grounded>>
    BY <1>11 DEF WarmerReturns
  <2>2. sweep = NoSweep
    BY <2>1 DEF PlaceInv, Stages
  <2> QED BY <1>0, <1>b, <2>1, <2>2
<1>12. ASSUME NEW r \in Requests, NEW a \in Addrs, NEW url \in Urls, RequestVerified(r, a, url)
       PROVE  GroundedInv'
  BY <1>a, <1>12 DEF RequestVerified
<1>13. ASSUME NEW r \in Requests, NEW v \in Verdicts, RequestRecords(r, v) PROVE GroundedInv'
  BY <1>a, <1>13 DEF RequestRecords
<1>14. ASSUME NEW a \in Addrs, ReadIdentity(a) PROVE GroundedInv'
  BY <1>a, <1>14 DEF ReadIdentity
<1>15. CASE UNCHANGED vars
  BY <1>a, <1>15 DEF vars
<1> QED
  BY <1>1, <1>2, <1>3, <1>4, <1>5, <1>6, <1>7, <1>8, <1>9, <1>10, <1>11, <1>12, <1>13, <1>14, <1>15
  DEF Next, SweepStep

-----------------------------------------------------------------------------
(* The records and the response-binding set.                                  *)
LEMMA StandsStep ==
    ASSUME Typed, PlaceInv, StandsInv, OutageNeverAccuses, BoundIsAdvertised, [Next]_vars
    PROVE  StandsInv' /\ OutageNeverAccuses' /\ BoundIsAdvertised'
<1> USE Constants
<1>0. /\ now \in Int /\ DOMAIN store \subseteq Addrs /\ seen \in [Addrs -> Seen] /\ bound \subseteq Addrs
      /\ \A a \in Addrs : seen[a].served.exp \in Int
  BY DEF Typed, Seen, Shown
<1>a. ASSUME UNCHANGED <<now, store, bound, seen>>
      PROVE  StandsInv' /\ OutageNeverAccuses' /\ BoundIsAdvertised'
  BY <1>a DEF StandsInv, OutageNeverAccuses, BoundIsAdvertised
<1>b. ASSUME UNCHANGED <<now, store, bound>>,
             \A a \in Addrs : /\ seen'[a].served = seen[a].served
                              /\ seen'[a].advertised = seen[a].advertised
                              /\ seen[a].finding => seen'[a].finding
      PROVE  StandsInv' /\ OutageNeverAccuses' /\ BoundIsAdvertised'
  BY <1>0, <1>b DEF StandsInv, OutageNeverAccuses, BoundIsAdvertised
<1>1. CASE Tick
  <2>1. now' = now + 1 /\ UNCHANGED <<store, bound, seen>>
    BY <1>1 DEF Tick
  <2>2. \A a \in Addrs : now' < seen[a].served.exp => now < seen[a].served.exp
    BY <1>0, <2>1
  <2> QED BY <2>1, <2>2 DEF StandsInv, OutageNeverAccuses, BoundIsAdvertised
<1>2. CASE Shutdown
  BY <1>a, <1>2 DEF Shutdown
<1>3. CASE BeginSweep
  BY <1>a, <1>3 DEF BeginSweep
<1>4. ASSUME NEW answered \in SUBSET ServiceTypes, List(answered)
      PROVE  StandsInv' /\ OutageNeverAccuses' /\ BoundIsAdvertised'
  BY <1>a, <1>4 DEF List
<1>5. CASE AbandonSweep
  BY <1>a, <1>5 DEF AbandonSweep
<1>6. ASSUME NEW a \in Addrs, NEW ok \in BOOLEAN, ResolveEndpoint(a, ok)
      PROVE  StandsInv' /\ OutageNeverAccuses' /\ BoundIsAdvertised'
  BY <1>a, <1>6 DEF ResolveEndpoint
<1>7. ASSUME NEW ok \in BOOLEAN, NEW adv \in BOOLEAN, RefreshQuote(ok, adv)
      PROVE  StandsInv' /\ OutageNeverAccuses' /\ BoundIsAdvertised'
  <2> DEFINE c == sweep.cur
             dbt == IF ok THEN FALSE ELSE seen[c].doubt \/ ~stop
  <2>1. /\ UNCHANGED <<now, store, bound>> /\ pc = "quote"
        /\ seen' = [seen EXCEPT ![c] = [seen[c] EXCEPT !.doubt = dbt]]
    BY <1>7 DEF RefreshQuote
  <2>2. c \in Addrs /\ seen[c] \in Seen
    BY <1>0, <2>1 DEF PlaceInv, Stages
  <2> HIDE DEF dbt, c
  <2>3. \A a \in Addrs : /\ seen'[a].served = seen[a].served
                         /\ seen'[a].advertised = seen[a].advertised
                         /\ seen[a].finding => seen'[a].finding
    BY ONLY <1>0, <2>1, <2>2 DEF Seen
  <2> QED BY <1>b, <2>1, <2>3
<1>8. ASSUME NEW reading \in {"same", "other", "unacknowledged", "failed"},
             NEW cached \in {"agrees", "disagrees", "none"}, RefreshSigner(reading, cached)
      PROVE  StandsInv' /\ OutageNeverAccuses' /\ BoundIsAdvertised'
  <2> DEFINE c == sweep.cur
             fnd == \/ seen[c].finding
                    \/ reading = "unacknowledged" \/ (reading = "other" /\ sweep.verified)
  <2>1. /\ UNCHANGED <<now, store, bound>> /\ pc = "signer"
        /\ seen' = [seen EXCEPT ![c] = [seen[c] EXCEPT !.finding = fnd]]
    BY <1>8 DEF RefreshSigner
  <2>2. c \in Addrs /\ seen[c] \in Seen /\ (seen[c].finding => fnd)
    BY <1>0, <2>1 DEF PlaceInv, Stages
  <2> HIDE DEF fnd, c
  <2>3. \A a \in Addrs : /\ seen'[a].served = seen[a].served
                         /\ seen'[a].advertised = seen[a].advertised
                         /\ seen[a].finding => seen'[a].finding
    BY ONLY <1>0, <2>1, <2>2 DEF Seen
  <2> QED BY <1>b, <2>1, <2>3
<1>9. ASSUME NEW passes \in BOOLEAN, Publish(passes)
      PROVE  StandsInv' /\ OutageNeverAccuses' /\ BoundIsAdvertised'
  <2> DEFINE a == sweep.cur
  <2>1. pc = "publish" /\ now' = now
    BY <1>9 DEF Publish
  <2>2. /\ a \in Addrs /\ sweep.onchain \in Verdicts /\ sweep.advertised \in BOOLEAN
        /\ sweep.onchain = "no_match" => seen[a].finding
    BY <2>1 DEF PlaceInv, Stages, Typed, Locals
  <2>3. CASE stop
    BY <1>9, <1>a, <2>1, <2>3 DEF Publish
  <2>4. CASE ~stop /\ sweep.verified
    <3>1. /\ observe(a, sweep.advertised) /\ record(a, "chain", sweep.onchain, FALSE)
          /\ seen' = [seen EXCEPT ![a] = [seen[a] EXCEPT !.advertised = sweep.advertised]]
      BY <1>9, <2>4 DEF Publish
    <3> HIDE DEF a
    <3>2. seen[a] \in Seen
      BY <1>0, <2>2
    <3>3. \A b \in Addrs : seen'[b].served = seen[b].served /\ seen'[b].finding = seen[b].finding
      BY ONLY <1>0, <2>2, <3>1, <3>2 DEF Seen
    <3>4. \A b \in Addrs : seen'[b].advertised = IF b = a THEN sweep.advertised ELSE seen[b].advertised
      BY ONLY <1>0, <2>2, <3>1, <3>2 DEF Seen
    <3>5. BoundIsAdvertised'
      <4>1. sweep.advertised => bound' \subseteq bound \cup {a}
        BY <3>1 DEF observe
      <4>2. ~sweep.advertised => bound' = bound \ {a}
        BY <3>1 DEF observe
      <4> QED BY <1>0, <2>2, <3>4, <4>1, <4>2 DEF BoundIsAdvertised
    <3> DEFINE e == [url |-> "chain", onchain |-> sweep.onchain, served |-> FALSE, exp |-> now + IdTTL]
    <3>6. "chain" \in Urls /\ FALSE \in BOOLEAN /\ e.onchain = sweep.onchain
      BY DEF Urls
    <3>7. \/ store' = store
          \/ /\ DOMAIN store' \subseteq Addrs /\ store'[a] = e
             /\ ~(a \in DOMAIN store /\ shieldedFrom(store[a], "chain"))
             /\ \A b \in DOMAIN store' : b # a => b \in DOMAIN store /\ store'[b] = store[b]
             /\ Cardinality(Addrs) <= MaxRecords => DOMAIN store \subseteq DOMAIN store'
      BY <2>2, <3>1, <3>6, RecordStep
    <3> HIDE DEF e
    <3>8. OutageNeverAccuses'
      BY <1>0, <2>2, <3>3, <3>6, <3>7 DEF OutageNeverAccuses
    <3>9. StandsInv'
      <4> SUFFICES ASSUME Cardinality(Addrs) <= MaxRecords, NEW b \in Addrs,
                          now < seen[b].served.exp, seen[b].served.url = "router"
                   PROVE  /\ b \in DOMAIN store'
                          /\ store'[b].served /\ store'[b].exp = seen[b].served.exp
                          /\ store'[b].url = "router" /\ store'[b].onchain = seen[b].served.onchain
        BY <2>1, <3>3 DEF StandsInv
      <4>1. /\ b \in DOMAIN store
            /\ store[b].served /\ store[b].exp = seen[b].served.exp
            /\ store[b].url = "router" /\ store[b].onchain = seen[b].served.onchain
        BY DEF StandsInv
      <4>2. shieldedFrom(store[b], "chain")
        BY <4>1 DEF shieldedFrom
      <4> QED BY <3>7, <4>1, <4>2
    <3> QED BY <3>5, <3>8, <3>9
  <2>5. CASE ~stop /\ ~sweep.verified
    <3>1. delWarmed(a, "chain") /\ UNCHANGED <<bound, seen>>
      BY <1>9, <2>5 DEF Publish
    <3> HIDE DEF a
    <3>2. \/ store' = store
          \/ /\ ~shieldedFrom(store[a], "chain")
             /\ DOMAIN store' = DOMAIN store \ {a} /\ \A b \in DOMAIN store' : store'[b] = store[b]
      BY <3>1 DEF delWarmed, Restrict
    <3>3. StandsInv'
      <4> SUFFICES ASSUME Cardinality(Addrs) <= MaxRecords, NEW b \in Addrs,
                          now < seen[b].served.exp, seen[b].served.url = "router"
                   PROVE  /\ b \in DOMAIN store'
                          /\ store'[b].served /\ store'[b].exp = seen[b].served.exp
                          /\ store'[b].url = "router" /\ store'[b].onchain = seen[b].served.onchain
        BY <2>1, <3>1 DEF StandsInv
      <4>1. /\ b \in DOMAIN store
            /\ store[b].served /\ store[b].exp = seen[b].served.exp
            /\ store[b].url = "router" /\ store[b].onchain = seen[b].served.onchain
        BY DEF StandsInv
      <4>2. shieldedFrom(store[b], "chain")
        BY <4>1 DEF shieldedFrom
      <4> QED BY <3>2, <4>1, <4>2
    <3> QED BY <3>1, <3>2, <3>3 DEF OutageNeverAccuses, BoundIsAdvertised
  <2> QED BY <2>3, <2>4, <2>5
<1>10. CASE FinishSweep
  BY <1>a, <1>10 DEF FinishSweep
<1>11. CASE WarmerReturns
  BY <1>a, <1>11 DEF WarmerReturns
<1>12. ASSUME NEW r \in Requests, NEW a \in Addrs, NEW url \in Urls, RequestVerified(r, a, url)
       PROVE  StandsInv' /\ OutageNeverAccuses' /\ BoundIsAdvertised'
  <2> DEFINE dbt == IF url = "chain" THEN FALSE ELSE seen[a].doubt
  <2>1. /\ UNCHANGED <<now, store, bound>>
        /\ seen' = [seen EXCEPT ![a] = [seen[a] EXCEPT !.doubt = dbt]]
    BY <1>12 DEF RequestVerified
  <2>2. seen[a] \in Seen
    BY <1>0
  <2> HIDE DEF dbt
  <2>3. \A b \in Addrs : /\ seen'[b].served = seen[b].served
                         /\ seen'[b].advertised = seen[b].advertised
                         /\ seen[b].finding => seen'[b].finding
    BY ONLY <1>0, <2>1, <2>2, a \in Addrs DEF Seen
  <2> QED BY <1>b, <2>1, <2>3
<1>13. ASSUME NEW r \in Requests, NEW v \in Verdicts, RequestRecords(r, v)
       PROVE  StandsInv' /\ OutageNeverAccuses' /\ BoundIsAdvertised'
  <2> DEFINE a == req[r].addr
             u == req[r].url
             fnd == seen[a].finding \/ v = "no_match"
             shown == [url |-> u, onchain |-> v, exp |-> now + IdTTL]
             e == [url |-> u, onchain |-> v, served |-> TRUE, exp |-> now + IdTTL]
  <2>1. /\ req[r].pc = "verified" /\ record(a, u, v, TRUE)
        /\ seen' = [seen EXCEPT ![a] = [[seen[a] EXCEPT !.served = shown] EXCEPT !.finding = fnd]]
        /\ UNCHANGED <<now, bound>>
    BY <1>13 DEF RequestRecords
  <2>2. a \in Addrs /\ u \in Urls /\ seen[a] \in Seen
    BY <1>0, <2>1 DEF PlaceInv, Typed, Req
  <2>3. /\ (seen[a].finding => fnd) /\ (v = "no_match" => fnd)
        /\ e.url = shown.url /\ e.onchain = shown.onchain /\ e.exp = shown.exp /\ e.served = TRUE
        /\ e.onchain = v
    OBVIOUS
  <2> HIDE DEF a, u
  <2>4. /\ DOMAIN store' \subseteq Addrs /\ a \in DOMAIN store' /\ store'[a] = e
        /\ \A b \in DOMAIN store' : b # a => b \in DOMAIN store /\ store'[b] = store[b]
        /\ Cardinality(Addrs) <= MaxRecords => DOMAIN store \subseteq DOMAIN store'
    <3>1. TRUE \in BOOLEAN
      OBVIOUS
    <3> QED BY <2>1, <2>2, <3>1, RecordStep
  <2> HIDE DEF fnd, shown, e
  <2>5. /\ \A b \in Addrs : b # a => seen'[b] = seen[b]
        /\ seen'[a].served = shown /\ seen'[a].finding = fnd /\ seen'[a].advertised = seen[a].advertised
    BY ONLY <1>0, <2>1, <2>2 DEF Seen
  <2>6. BoundIsAdvertised'
    BY <1>0, <2>1, <2>5 DEF BoundIsAdvertised
  <2>7. OutageNeverAccuses'
    BY <1>0, <2>3, <2>4, <2>5 DEF OutageNeverAccuses
  <2>8. StandsInv'
    <3> SUFFICES ASSUME Cardinality(Addrs) <= MaxRecords, NEW b \in Addrs,
                        now < seen'[b].served.exp, seen'[b].served.url = "router"
                 PROVE  /\ b \in DOMAIN store'
                        /\ store'[b].served /\ store'[b].exp = seen'[b].served.exp
                        /\ store'[b].url = "router" /\ store'[b].onchain = seen'[b].served.onchain
      BY <2>1 DEF StandsInv
    <3>1. CASE b = a
      BY <2>3, <2>4, <2>5, <3>1
    <3>2. CASE b # a
      <4>1. /\ b \in DOMAIN store
            /\ store[b].served /\ store[b].exp = seen[b].served.exp
            /\ store[b].url = "router" /\ store[b].onchain = seen[b].served.onchain
        BY <2>5, <3>2 DEF StandsInv
      <4> QED BY <2>4, <2>5, <3>2, <4>1
    <3> QED BY <3>1, <3>2
  <2> QED BY <2>6, <2>7, <2>8
<1>14. ASSUME NEW a \in Addrs, ReadIdentity(a)
       PROVE  StandsInv' /\ OutageNeverAccuses' /\ BoundIsAdvertised'
  <2>1. /\ a \in DOMAIN store /\ ~live(store[a]) /\ UNCHANGED <<now, bound, seen>>
        /\ DOMAIN store' = DOMAIN store \ {a} /\ \A b \in DOMAIN store' : store'[b] = store[b]
    BY <1>14 DEF ReadIdentity, Restrict
  <2>2. StandsInv'
    <3> SUFFICES ASSUME Cardinality(Addrs) <= MaxRecords, NEW b \in Addrs,
                        now < seen[b].served.exp, seen[b].served.url = "router"
                 PROVE  /\ b \in DOMAIN store'
                        /\ store'[b].served /\ store'[b].exp = seen[b].served.exp
                        /\ store'[b].url = "router" /\ store'[b].onchain = seen[b].served.onchain
      BY <2>1 DEF StandsInv
    <3>1. /\ b \in DOMAIN store
          /\ store[b].served /\ store[b].exp = seen[b].served.exp
          /\ store[b].url = "router" /\ store[b].onchain = seen[b].served.onchain
      BY DEF StandsInv
    <3>2. live(store[b])
      BY <1>0, <3>1 DEF live
    <3> QED BY <2>1, <3>1, <3>2
  <2> QED BY <2>1, <2>2 DEF OutageNeverAccuses, BoundIsAdvertised
<1>15. CASE UNCHANGED vars
  BY <1>a, <1>15 DEF vars
<1> QED
  BY <1>1, <1>2, <1>3, <1>4, <1>5, <1>6, <1>7, <1>8, <1>9, <1>10, <1>11, <1>12, <1>13, <1>14, <1>15
  DEF Next, SweepStep

-----------------------------------------------------------------------------
LEMMA WarmInit == Init => WarmInv
<1> SUFFICES ASSUME Init PROVE WarmInv
  OBVIOUS
<1> USE Constants
<1>1. Typed
  <2>1. warm \in State
    BY DEF Init, State
  <2>2. req \in [Requests -> Req]
    BY DEF Init, Req, Urls
  <2>3. seen \in [Addrs -> Seen]
    BY DEF Init, Seen, Shown, Urls, Verdicts
  <2>4. DOMAIN store = {}
    BY DEF Init
  <2>5. pending \in BOOLEAN /\ stop \in BOOLEAN
    BY Zenon DEF Init
  <2> QED BY <2>1, <2>2, <2>3, <2>4, <2>5, NoSweepType DEF Init, Typed
<1>2. PlaceInv
  BY DEF Init, PlaceInv, Stages
<1>3. CountInv
  <2>1. Cardinality(sweep.todo) = 0 /\ sweep.ready = 0 /\ sweep.total = 0
    BY NoSweepType, NoAddrs DEF Init
  <2>2. InHand = 0 /\ pc \notin Sweeping
    BY DEF Init, InHand, Sweeping, Stages
  <2>3. warm.at = -1 /\ warm.ready = 0 /\ warm.total = 0
    BY DEF Init
  <2> QED BY <2>1, <2>2, <2>3 DEF CountInv, ShutdownNotBlamed
<1>4. GroundedInv
  <2>1. sweep.todo = {} /\ sweep.ready = 0 /\ pc = "begin" /\ Cardinality(grounded) = 0
    BY NoSweepType, NoAddrs DEF Init
  <2> QED BY <2>1 DEF GroundedInv
<1>5. TickerInv
  BY DEF Init, TickerInv, Sweeping, Stages
<1>6. StandsInv /\ OutageNeverAccuses /\ BoundIsAdvertised
  <2>1. \A a \in Addrs : ~(now < seen[a].served.exp)
    BY DEF Init
  <2>2. DOMAIN store = {} /\ bound = {}
    BY DEF Init
  <2> QED BY <2>1, <2>2 DEF StandsInv, OutageNeverAccuses, BoundIsAdvertised
<1> QED BY <1>1, <1>2, <1>3, <1>4, <1>5, <1>6 DEF WarmInv

LEMMA WarmInvHolds == Spec => []WarmInv
<1>1. WarmInv /\ [Next]_vars => WarmInv'
  <2> SUFFICES ASSUME WarmInv, [Next]_vars PROVE WarmInv'
    OBVIOUS
  <2>1. Typed /\ PlaceInv /\ CountInv /\ GroundedInv /\ TickerInv /\ StandsInv
        /\ OutageNeverAccuses /\ BoundIsAdvertised
    BY DEF WarmInv
  <2>2. GroundedInv'
    <3>1. CASE Enforce
      BY <2>1, <3>1, GroundedStep
    <3>2. CASE ~Enforce
      BY <3>2 DEF GroundedInv
    <3> QED BY <3>1, <3>2
  <2> QED BY <2>1, <2>2, TypeStep, CountStep, TickerStep, StandsStep DEF WarmInv
<1> QED BY WarmInit, <1>1, PTL DEF Spec

(* readinessFromWarmState over sweeps of any length: a process that answers   *)
(* ready finished a sweep at most MaxAge + 1 intervals ago; under enforce it  *)
(* counted only providers this sweep grounded on a live reading; and its own  *)
(* shutdown is never held against a provider.                                 *)
THEOREM ReadinessIsEarned == Spec => []ReadyIsEarned
<1>1. WarmInv => ReadyIsEarned
  <2> SUFFICES ASSUME WarmInv PROVE ReadyIsEarned
    OBVIOUS
  <2> USE Constants
  <2>0. /\ now \in Int /\ warm.at \in Int /\ warm.started \in Int
        /\ sweep.ready \in Nat /\ grounded \in SUBSET Addrs
    BY DEF WarmInv, Typed, State, Locals
  <2>1. ReadyEvidenceBounded
    <3> SUFFICES ASSUME isReady, ~stop PROVE now - warm.at <= (MaxAge + 1) * Interval
      BY DEF ReadyEvidenceBounded
    <3> DEFINE M == MaxAge * Interval
    <3>1. M \in Nat /\ (MaxAge + 1) * Interval = M + Interval
      OBVIOUS
    <3>2. /\ 0 <= warm.at
          /\ now - (IF warm.started > warm.at THEN warm.started ELSE warm.at) <= M
      BY <2>0 DEF isReady
    <3> HIDE DEF M
    <3>3. CASE pc = "idle"
      BY <2>0, <3>1, <3>3 DEF WarmInv, TickerInv
    <3>4. CASE pc \in Sweeping
      <4>1. warm.started - warm.at <= Interval
        BY <3>2, <3>4 DEF WarmInv, TickerInv
      <4> QED BY <2>0, <3>1, <3>2, <4>1
    <3>5. CASE pc \in {"begin", "stopped"}
      BY <3>2, <3>5 DEF WarmInv, TickerInv
    <3> QED BY <3>3, <3>4, <3>5 DEF WarmInv, Typed
  <2>2. EnforcedReadyIsGrounded
    <3>1. Cardinality(grounded) \in Nat
      BY <2>0, SomeAddrs
    <3> QED BY <2>0, <3>1 DEF WarmInv, GroundedInv, EnforcedReadyIsGrounded
  <2>3. ShutdownNotBlamed
    BY DEF WarmInv, CountInv
  <2> QED BY <2>1, <2>2, <2>3 DEF ReadyIsEarned
<1> QED BY <1>1, WarmInvHolds, PTL

(* put, putWarmed and delWarmed beside one another: the record of an endpoint *)
(* a prompt was sealed to outlives every sweep of another endpoint while the  *)
(* store has room, and no_match is on record only of who was found out.       *)
THEOREM RecordsAreTruthful == Spec => []RecordsTruthful
<1>1. WarmInv => RecordsTruthful
  <2> SUFFICES ASSUME WarmInv PROVE RecordsTruthful
    OBVIOUS
  <2>1. TypeOK
    <3>1. /\ sweep.todo \in SUBSET Addrs /\ sweep.ready \in Nat /\ sweep.total \in Nat
          /\ warm.ready \in Nat /\ warm.total \in Nat
      BY DEF WarmInv, Typed, State, Locals
    <3>2. Cardinality(sweep.todo) \in Nat /\ InHand \in Nat /\ Cardinality(Addrs) \in Nat
      BY <3>1, SomeAddrs, Constants DEF InHand
    <3>3. sweep.ready \in 0 .. sweep.total /\ warm.ready \in 0 .. warm.total
          /\ warm.total \in 0 .. Cardinality(Addrs)
      BY <3>1, <3>2 DEF WarmInv, CountInv
    <3> QED BY <3>1, <3>3 DEF WarmInv, Typed, TypeOK, Record, Stages, Sweeping
  <2>2. ServedRecordStands
    BY DEF WarmInv, StandsInv, ServedRecordStands
  <2> QED BY <2>1, <2>2 DEF WarmInv, RecordsTruthful
<1> QED BY <1>1, WarmInvHolds, PTL

(* respBindStore: a provider is in the set that makes requests ask for the    *)
(* response binding only while its last verified quote advertises it.         *)
THEOREM BoundOnlyAdvertised == Spec => []BoundIsAdvertised
<1>1. WarmInv => BoundIsAdvertised
  BY DEF WarmInv
<1> QED BY <1>1, WarmInvHolds, PTL
-----------------------------------------------------------------------------
(* Enforcement.  Until the quote is taken the CVM's log is the boot's, with   *)
(* records behind it; in the recorded deployment these are the controller's,  *)
(* and without an image record the build that runs is the manifest's.  What   *)
(* the gateway read is of that log and of the manifest the CVM booted, or is  *)
(* nothing; every verdict, held or in flight, rests on what the registry      *)
(* showed; a judgement that passed still says what it rested on when the      *)
(* other is made.                                                             *)

imageEvent == "zg-image-update"
imageRecords(log) == {i \in 6..Len(log) : log[i].ev = imageEvent}
brokerIn(m) == Manifests[m].services["broker"].digest

(* The entries a log may hold.                                                *)
bootEvent == {"app-id", "compose-hash", "instance-id", "key-provider", systemReady}
Entries ==
    [ty : {"runtime", "boot"}, ev : records \cup bootEvent, sub : {empty, "i"},
     val : DOMAIN Manifests \cup Builds
           \cup {empty, "app", "i", "kms", "sha", "invalidated", "unknown", "malformed"},
     signer : Builds \cup {empty}, enc : Builds \cup {empty}]

(* An entry the controller may have written behind the boot.                  *)
controllers(e) ==
    /\ e.ev \in records => wellFormed(e)
    /\ e.ev # "zg-engine-set"
    /\ e.ev = imageEvent => e.val = e.signer /\ e.val = e.enc

LogInv(log) ==
    /\ log \in Seq(Entries) /\ Len(log) >= 5
    /\ log[5].ev = systemReady
    /\ \A i \in 1..5 : log[i].ev \notin records
    /\ \A i \in imageRecords(log) : log[i].val \in Builds \cup {"malformed"}

ControlledInv(c) ==
    /\ \A i \in 6..Len(c.rtmr3) : controllers(c.rtmr3[i])
    /\ imageRecords(c.rtmr3) = {} => c.next = empty /\ brokerIn(c.manifest) \in {empty, c.running}

CvmType ==
    [manifest : DOMAIN Manifests, mr : UNION {Reports(m) : m \in DOMAIN Manifests},
     rtmr3 : Seq(Entries), next : Builds \cup {empty}, running : Builds]

CvmInv ==
    /\ cvm \in CvmType /\ cvm.mr.hash = cvm.manifest
    /\ LogInv(cvm.rtmr3)
    /\ confined(cvm.manifest) => ControlledInv(cvm)

Quiet ==
    /\ call = Idle /\ exit = NotRun
    /\ held = <<>> /\ checks = <<>>

(* What was read of the log, and of the manifest.                             *)
StateInv(f) ==
    /\ f.state.err = empty =>
          /\ f.state.Image = NoImage \/ f.state.Image.digest \in Builds
          /\ f.confined =>
                /\ ~f.state.Engines
                /\ \/ f.state.Image = NoImage
                   \/ f.state.Image.signer = f.state.Image.digest /\ f.state.Image.encPub = f.state.Image.digest
                /\ f.state.Image = NoImage /\ f.manifest # empty => brokerIn(f.manifest) \in {empty, f.encPub}
    /\ f.state.err \notin {empty, "ErrNoEventLog", "errReaderFailed"} => ~f.served \/ ~f.confined

ManifestInv(f) ==
    /\ f.manifest # empty => f.manifest \in DOMAIN Manifests /\ (f.confined <=> confined(f.manifest))
    /\ f.why \in {empty, "no_hash", "absent", "gate", "reader"}
    /\ f.why = empty => f.manifest # empty

FactsInv == /\ facts.encPub \in Builds /\ facts.signer = facts.encPub
            /\ StateInv(facts) /\ ManifestInv(facts)

(* The judge.                                                                 *)
ReleaseVerdicts == {ReleaseAccepted, ReleaseRejected, ReleaseUnavailable}
Grounded(v, b) ==
    /\ v = ReleaseAccepted => released(b)
    /\ v = ReleaseRejected /\ b \in askedAbout => contradicted(b)

Judgements == [have : ReleaseVerdicts \cup {NoVerdict}, running : BOOLEAN]
TableInv ==
    /\ EnforcementTypeOK
    /\ held \in [DOMAIN held -> Judgements]
    /\ checks \in [DOMAIN checks -> ReleaseVerdicts \cup {NoVerdict}]
VerdictsInv ==
    /\ \A b \in DOMAIN held : Grounded(held[b].have, b)
    /\ \A b \in DOMAIN checks : Grounded(checks[b], b)

(* The request: what its two judgements rested on.                            *)
RuntimeSays(x) ==
    /\ x = "pass" =>
          /\ facts.state.err = empty /\ facts.state.Image # NoImage
          /\ facts.state.Image.signer = facts.signer /\ facts.state.Image.encPub = facts.encPub
          /\ released(facts.state.Image.digest)
    /\ x = "not_checked" /\ conf.releases => facts.state.err = empty /\ facts.state.Image = NoImage
    /\ x = "no_match" =>
          \/ ~facts.served
          \/ ~facts.confined
          \/ facts.state.Image # NoImage /\ facts.state.Image.encPub # facts.encPub
          \/ facts.state.Image # NoImage /\ contradicted(facts.state.Image.digest)
BaselineSays(x) ==
    /\ x = "pass" =>
          /\ facts.manifest # empty /\ facts.confined
          /\ brokerIn(facts.manifest) # empty /\ released(brokerIn(facts.manifest))
    /\ x = "no_match" =>
          \/ ~facts.confined
          \/ \E s \in DOMAIN Baseline.services : differs(Baseline.services[s], Manifests[facts.manifest].services[s])
RuntimeVerdicts == {"pass", "no_match", "unavailable", "not_checked"}
BaselineVerdicts == {"pass", "no_match", "unavailable", "not_checked", "no_baseline"}
CallType == [pc : {"idle", "gate", "judge", "done"}, queue : Seq(Builds), missing : Seq(Builds),
             rt : {empty} \cup RuntimeVerdicts, bl : {empty} \cup BaselineVerdicts]
CallInv == call \in CallType /\ RuntimeSays(call.rt) /\ BaselineSays(call.bl)

AuditInv == exit = 0 => facts.confined /\ released(facts.encPub) /\ released(facts.signer)

GivenInv == /\ conf \in [releases : BOOLEAN, baseline : BOOLEAN]
            /\ DOMAIN attached = Builds

EnforceInv ==
    /\ GivenInv /\ TableInv
    /\ facts.taken \in BOOLEAN
    /\ ~facts.taken => CvmInv /\ Quiet
    /\ facts.taken => FactsInv /\ VerdictsInv /\ CallInv /\ AuditInv

-----------------------------------------------------------------------------
(* Sequences and sets the model takes from the community modules.             *)

(* A set of positions that is not empty has a last one.                       *)
LEMMA LastExists ==
    ASSUME NEW n \in Nat, NEW S \in SUBSET (1..n), S # {}
    PROVE  \E i \in S : \A j \in S : j <= i
<1> DEFINE below == {n - i : i \in S}
<1>1. below \subseteq Nat
  OBVIOUS
<1>2. below # {}
  <2>1. PICK s \in S : TRUE
    OBVIOUS
  <2>2. n - s \in below
    OBVIOUS
  <2> QED
    BY <2>2
<1>3. PICK k \in below : \A m \in below : <<m, k>> \notin OpToRel(<, Nat)
  BY <1>1, <1>2, WFMin, NatLessThanWellFounded, Zenon
<1>4. \A m \in below : ~(m < k)
  BY <1>1, <1>3, Zenon DEF OpToRel
<1>5. PICK i \in S : k = n - i
  OBVIOUS
<1>6. ASSUME NEW j \in S PROVE j <= i
  <2>1. n - j \in below
    OBVIOUS
  <2> QED
    BY <1>4, <1>5, <2>1
<1> QED
  BY <1>6

LEMMA LastIsOne ==
    ASSUME NEW log, Len(log) \in Nat, NEW S \in SUBSET (1..Len(log)), S # {}
    PROVE  \E i \in S : last(S, log) = log[i]
<1>1. \E i \in S : \A j \in S : j <= i
  BY LastExists
<1>2. (CHOOSE i \in S : \A j \in S : j <= i) \in S
  BY <1>1
<1> QED
  BY <1>2, Zenon DEF last

LEMMA FunctionIsSeq ==
    ASSUME NEW n \in Nat, NEW S, NEW f \in [1..n -> S]
    PROVE  f \in Seq(S)
OBVIOUS

LEMMA SetToSeqType ==
    ASSUME NEW S, IsFiniteSet(S)
    PROVE  SetToSeq(S) \in Seq(S)
<1>1. PICK f \in [1..Cardinality(S) -> S] : IsInjective(f)
  <2>1. ExistsBijection(1..Cardinality(S), S)
    BY FS_CardinalityType
  <2> QED
    BY <2>1, Zenon DEF ExistsBijection, Bijection, Injection, IsInjective
<1>2. SetToSeq(S) \in [1..Cardinality(S) -> S]
  BY <1>1, Zenon DEF SetToSeq
<1>3. Cardinality(S) \in Nat
  BY FS_CardinalityType
<1> QED
  BY <1>2, <1>3, FunctionIsSeq

-----------------------------------------------------------------------------
(* The log.                                                                   *)

LEMMA EntryTyped ==
    ASSUME NEW ev \in records \cup bootEvent,
           NEW val \in DOMAIN Manifests \cup Builds
                       \cup {empty, "app", "i", "kms", "sha", "invalidated", "unknown", "malformed"}
    PROVE  entry(ev, val) \in Entries
BY DEF entry, Entries

(* The records the containers of a CVM may write.                             *)
LEMMA RecordsTyped ==
    ASSUME NEW keys \in Builds \cup {empty}, NEW b \in Builds
    PROVE  /\ imageRecord(b, keys) \in Entries
           /\ imageRecord(b, keys).ev = imageEvent /\ imageRecord(b, keys).val = b
           /\ imageRecord(b, keys).signer = keys /\ imageRecord(b, keys).enc = keys
           /\ imageRecord(b, keys).ty = "runtime"
<1>1. imageRecord(b, keys) = [ty |-> "runtime", ev |-> imageEvent, sub |-> empty, val |-> b, signer |-> keys, enc |-> keys]
  <2>1. entry("zg-image-update", b)
        = [ty |-> "runtime", ev |-> imageEvent, sub |-> empty, val |-> b, signer |-> empty, enc |-> empty]
    BY DEF entry, imageEvent
  <2>2. imageRecord(b, keys)
        = [[ty |-> "runtime", ev |-> imageEvent, sub |-> empty, val |-> b, signer |-> empty, enc |-> empty]
           EXCEPT !.signer = keys, !.enc = keys]
    BY <2>1, Zenon DEF imageRecord
  <2> QED
    BY <2>2
<1>2. imageEvent \in records
  BY DEF imageEvent, records, known
<1> QED
  BY <1>1, <1>2 DEF Entries

LEMMA OtherRecordsTyped ==
    ASSUME NEW e \in otherRecords
    PROVE  e \in Entries /\ controllers(e) /\ e.ev # imageEvent
<1>1. CASE e = entry("zg-config-update", "sha")
  <2>1. e = [ty |-> "runtime", ev |-> "zg-config-update", sub |-> empty, val |-> "sha", signer |-> empty, enc |-> empty]
    BY <1>1 DEF entry
  <2> QED
    BY <2>1 DEF Entries, records, known, controllers, wellFormed, imageEvent
<1>2. CASE e = entry("zg-upstream-set", "invalidated")
  <2>1. e = [ty |-> "runtime", ev |-> "zg-upstream-set", sub |-> empty, val |-> "invalidated", signer |-> empty, enc |-> empty]
    BY <1>2 DEF entry
  <2> QED
    BY <2>1 DEF Entries, records, known, controllers, wellFormed, imageEvent
<1>3. CASE e = [entry("zg-instance-config-update", "unknown") EXCEPT !.sub = "i"]
  <2>1. e = [ty |-> "runtime", ev |-> "zg-instance-config-update", sub |-> "i", val |-> "unknown", signer |-> empty, enc |-> empty]
    BY <1>3 DEF entry
  <2> QED
    BY <2>1 DEF Entries, records, known, controllers, wellFormed, imageEvent
<1>4. CASE e = entry("zg-new-record", empty)
  <2>1. e = [ty |-> "runtime", ev |-> "zg-new-record", sub |-> empty, val |-> empty, signer |-> empty, enc |-> empty]
    BY <1>4 DEF entry
  <2> QED
    BY <2>1 DEF Entries, records, known, controllers, wellFormed, imageEvent
<1> QED
  BY <1>1, <1>2, <1>3, <1>4 DEF otherRecords

LEMMA RogueRecordsTyped ==
    ASSUME cvm.running \in Builds, NEW e \in rogueRecords
    PROVE  e \in Entries /\ (e.ev = imageEvent => e.val \in Builds \cup {"malformed"})
<1>1. CASE e = entry("zg-engine-set", empty)
  <2>1. e = [ty |-> "runtime", ev |-> "zg-engine-set", sub |-> empty, val |-> empty, signer |-> empty, enc |-> empty]
    BY <1>1 DEF entry
  <2> QED
    BY <2>1 DEF Entries, records, known, imageEvent
<1>2. CASE e = entry("zg-image-update", "malformed")
  <2>1. e = [ty |-> "runtime", ev |-> "zg-image-update", sub |-> empty, val |-> "malformed", signer |-> empty, enc |-> empty]
    BY <1>2 DEF entry
  <2> QED
    BY <2>1 DEF Entries, records, known, imageEvent
<1>3. CASE e = [entry("zg-config-update", "sha") EXCEPT !.ty = "boot"]
  <2>1. e = [ty |-> "boot", ev |-> "zg-config-update", sub |-> empty, val |-> "sha", signer |-> empty, enc |-> empty]
    BY <1>3 DEF entry
  <2> QED
    BY <2>1 DEF Entries, records, known, imageEvent
<1>4. ASSUME NEW b \in Builds, e = imageRecord(b, cvm.running)
      PROVE  e \in Entries /\ e.val \in Builds
  BY <1>4, RecordsTyped
<1> QED
  BY <1>1, <1>2, <1>3, <1>4, Zenon DEF rogueRecords

LEMMA BootLogInv ==
    ASSUME NEW m \in DOMAIN Manifests
    PROVE  LogInv(bootLog(m)) /\ Len(bootLog(m)) = 5
<1> DEFINE log == bootLog(m)
<1>1. /\ log = <<log[1], log[2], log[3], log[4], log[5]>>
      /\ log[1] = entry("app-id", "app") /\ log[2] = entry("compose-hash", m)
      /\ log[3] = entry("instance-id", "i") /\ log[4] = entry("key-provider", "kms")
      /\ log[5] = entry(systemReady, empty)
  BY DEF bootLog
<1>2. Len(log) = 5
  BY DEF bootLog
<1>3. \A i \in 1..5 : log[i] \in Entries
  <2>1. log[1] \in Entries /\ log[2] \in Entries /\ log[3] \in Entries /\ log[4] \in Entries /\ log[5] \in Entries
    BY <1>1, EntryTyped DEF bootEvent
  <2> QED
    BY <2>1
<1>4. log \in Seq(Entries)
  <2>1. log \in [1..5 -> Entries]
    <3>1. DOMAIN log = 1..5 /\ log = [i \in 1..5 |-> log[i]]
      BY DEF bootLog
    <3> QED
      BY <1>3, <3>1
  <2> QED
    BY <2>1, FunctionIsSeq
<1>5. /\ log[1].ev = "app-id" /\ log[2].ev = "compose-hash" /\ log[3].ev = "instance-id"
      /\ log[4].ev = "key-provider" /\ log[5].ev = systemReady
  BY <1>1 DEF entry
<1>6. \A i \in 1..5 : log[i].ev \notin records
  <2>1. /\ log[1].ev \notin records /\ log[2].ev \notin records /\ log[3].ev \notin records
        /\ log[4].ev \notin records /\ log[5].ev \notin records
    BY <1>5 DEF records, known, systemReady
  <2> QED
    BY <2>1
<1>7. imageRecords(log) = {}
  BY <1>2 DEF imageRecords
<1> QED
  BY <1>2, <1>4, <1>5, <1>6, <1>7 DEF LogInv

(* One more entry behind the boot.                                            *)
LEMMA AppendLogInv ==
    ASSUME NEW log, LogInv(log), NEW e \in Entries, e.ev = imageEvent => e.val \in Builds \cup {"malformed"}
    PROVE  /\ LogInv(Append(log, e))
           /\ Len(Append(log, e)) = Len(log) + 1
           /\ \A i \in 6..Len(log) : Append(log, e)[i] = log[i]
           /\ Append(log, e)[Len(log) + 1] = e
<1> DEFINE more == Append(log, e)
<1>1. log \in Seq(Entries) /\ Len(log) \in Nat /\ Len(log) >= 5
  BY DEF LogInv
<1>2. /\ more \in Seq(Entries) /\ Len(more) = Len(log) + 1
      /\ \A i \in 1..Len(log) : more[i] = log[i]
      /\ more[Len(log) + 1] = e
  BY <1>1
<1>3. more[5].ev = systemReady /\ \A i \in 1..5 : more[i].ev \notin records
  BY <1>1, <1>2 DEF LogInv
<1>4. ASSUME NEW i \in imageRecords(more) PROVE more[i].val \in Builds \cup {"malformed"}
  <2>1. i \in 6..Len(more) /\ more[i].ev = imageEvent
    BY DEF imageRecords
  <2>2. CASE i \in 6..Len(log)
    <3>1. more[i] = log[i]
      BY <1>1, <1>2, <2>2
    <3>2. i \in imageRecords(log)
      BY <2>1, <2>2, <3>1 DEF imageRecords
    <3> QED
      BY <3>1, <3>2 DEF LogInv
  <2>3. CASE i = Len(log) + 1
    BY <1>2, <2>1, <2>3
  <2> QED
    BY <1>1, <1>2, <2>1, <2>2, <2>3
<1>5. LogInv(more)
  <2>1. more \in Seq(Entries) /\ Len(more) >= 5
    BY <1>1, <1>2
  <2> HIDE DEF more
  <2> QED
    BY <1>3, <1>4, <2>1, Zenon DEF LogInv
<1> QED
  BY <1>1, <1>2, <1>5

LEMMA WrittenRecords ==
    ASSUME NEW log, LogInv(log)
    PROVE  /\ 6..Len(log) \subseteq written(log) /\ written(log) \subseteq 1..Len(log)
           /\ \A ev \in records : recordsOf(ev, log) = {i \in 6..Len(log) : log[i].ev = ev}
<1>1. Len(log) \in Nat /\ Len(log) >= 5 /\ log[5].ev = systemReady /\ \A i \in 1..5 : log[i].ev \notin records
  BY DEF LogInv
<1>2. ASSUME NEW i \in 6..Len(log) PROVE i \in written(log)
  <2>1. i \in 1..Len(log) /\ 5 \in 1..(i - 1)
    BY <1>1
  <2> QED
    BY <1>1, <2>1 DEF written
<1>3. written(log) \subseteq 1..Len(log)
  BY DEF written
<1>4. ASSUME NEW ev \in records PROVE recordsOf(ev, log) = {i \in 6..Len(log) : log[i].ev = ev}
  <2>1. ASSUME NEW i \in recordsOf(ev, log) PROVE i \in 6..Len(log) /\ log[i].ev = ev
    BY <1>1, <1>3 DEF recordsOf
  <2>2. ASSUME NEW i \in 6..Len(log), log[i].ev = ev PROVE i \in recordsOf(ev, log)
    BY <1>2, <2>2 DEF recordsOf
  <2> QED
    BY <2>1, <2>2
<1> QED
  BY <1>2, <1>3, <1>4

(* What apply makes of the log.                                               *)
LEMMA Applied ==
    ASSUME NEW log, LogInv(log), NEW st, st = apply(log),
           \A i \in written(log) : log[i].ev \in records => wellFormed(log[i])
    PROVE  /\ st.err = empty
           /\ imageRecords(log) = {} => st.Image = NoImage
           /\ imageRecords(log) # {} => \E i \in imageRecords(log) :
                 st.Image = parseImageUpdate(log[i]) /\ log[i].val \in Builds
           /\ st.Engines => \E i \in 6..Len(log) : log[i].ev = "zg-engine-set"
<1>1. imageEvent \in records /\ "zg-engine-set" \in records
  BY DEF imageEvent, records, known
<1>2. recordsOf("zg-image-update", log) = imageRecords(log)
  BY <1>1, WrittenRecords DEF imageRecords, imageEvent
<1>3. /\ st.err = empty
      /\ st.Image = IF imageRecords(log) = {} THEN NoImage ELSE parseImageUpdate(last(imageRecords(log), log))
      /\ st.Engines = (recordsOf("zg-engine-set", log) # {})
  BY <1>2 DEF apply
<1>4. ASSUME imageRecords(log) # {}
      PROVE  \E i \in imageRecords(log) : st.Image = parseImageUpdate(log[i]) /\ log[i].val \in Builds
  <2>1. Len(log) \in Nat /\ imageRecords(log) \subseteq 1..Len(log)
    BY DEF LogInv, imageRecords
  <2>2. PICK i \in imageRecords(log) : last(imageRecords(log), log) = log[i]
    BY <1>4, <2>1, LastIsOne
  <2>3. st.Image = parseImageUpdate(log[i])
    BY <1>3, <1>4, <2>2
  <2>4. log[i].val \in Builds
    <3>1. i \in written(log) /\ log[i].ev = imageEvent
      BY WrittenRecords DEF imageRecords
    <3>2. wellFormed(log[i])
      BY <1>1, <3>1
    <3>3. log[i].val # "malformed"
      BY <3>1, <3>2 DEF wellFormed, imageEvent, known
    <3> QED
      BY <3>3 DEF LogInv
  <2> QED
    BY <2>3, <2>4
<1>5. ASSUME st.Engines PROVE \E i \in 6..Len(log) : log[i].ev = "zg-engine-set"
  <2>1. recordsOf("zg-engine-set", log) # {}
    BY <1>3, <1>5
  <2> QED
    BY <1>1, <2>1, WrittenRecords
<1> QED
  BY <1>3, <1>4, <1>5

(* What a reading says of the log the quote commits to; what an unread one     *)
(* says of the log that was served.                                            *)
LEMMA Reading ==
    ASSUME NEW log, LogInv(log), NEW reply, NEW st, st = ReadRuntimeState(reply, log)
    PROVE  /\ st.err = empty =>
                /\ imageRecords(log) = {} => st.Image = NoImage
                /\ imageRecords(log) # {} => \E i \in imageRecords(log) :
                      st.Image = parseImageUpdate(log[i]) /\ log[i].val \in Builds
                /\ st.Engines => \E i \in 6..Len(log) : log[i].ev = "zg-engine-set"
           /\ st.err \notin {empty, "ErrNoEventLog"} =>
                \/ eventLogOf(reply) # logOf(log)
                \/ \E i \in 6..Len(log) : log[i].ev \in records /\ ~wellFormed(log[i])
<1> DEFINE r == replayRTMR3(reply, log)
           said == eventLogOf(reply)
<1>1. /\ r.log = said.rtmr3
      /\ r.err = IF said.kind = "absent" THEN "ErrNoEventLog"
                 ELSE IF said.kind = "bad" THEN "does_not_decode"
                 ELSE IF said.rtmr3 # log THEN "does_not_replay"
                 ELSE empty
  BY DEF replayRTMR3
<1>2. empty \notin {"ErrNoEventLog", "does_not_decode", "does_not_replay", "no_system_ready", "not_a_record"}
  BY DEF empty
<1>3. CASE r.err # empty
  <2>1. st = [RuntimeState0 EXCEPT !.err = r.err]
    BY <1>3, Zenon DEF ReadRuntimeState
  <2>2. st.err = r.err
    BY <2>1 DEF RuntimeState0
  <2>3. r.err # "ErrNoEventLog" => said # logOf(log)
    <3>1. logOf(log).kind = "log" /\ logOf(log).rtmr3 = log
      BY DEF logOf
    <3>2. said = logOf(log) => said.kind = "log" /\ said.rtmr3 = log
      BY <3>1
    <3> HIDE DEF said, r
    <3> QED
      BY <1>1, <1>3, <3>2
  <2> HIDE DEF said, r
  <2> QED
    BY <1>3, <2>2, <2>3 DEF said
<1>4. CASE r.err = empty
  <2>1. r.log = log
    <3> HIDE DEF said, r
    <3> QED
      BY <1>1, <1>2, <1>4
  <2>2. ~(\A i \in 1..Len(log) : log[i].ev # systemReady)
    BY DEF LogInv
  <2>3. CASE \E i \in written(log) : log[i].ev \in records /\ ~wellFormed(log[i])
    <3>1. st = [RuntimeState0 EXCEPT !.err = "not_a_record"]
      BY <1>4, <2>1, <2>2, <2>3, Zenon DEF ReadRuntimeState
    <3>2. st.err = "not_a_record"
      BY <3>1 DEF RuntimeState0
    <3>3. PICK i \in written(log) : log[i].ev \in records /\ ~wellFormed(log[i])
      BY <2>3
    <3>4. i \in 6..Len(log)
      <4>1. i \in 1..Len(log) /\ Len(log) \in Nat /\ \A j \in 1..5 : log[j].ev \notin records
        BY WrittenRecords DEF LogInv
      <4> QED
        BY <3>3, <4>1
    <3> QED
      BY <1>2, <3>2, <3>3, <3>4
  <2>4. CASE \A i \in written(log) : log[i].ev \in records => wellFormed(log[i])
    <3>1. st = apply(log)
      BY <1>4, <2>1, <2>2, <2>4, Zenon DEF ReadRuntimeState
    <3> QED
      BY <2>4, <3>1, Applied
  <2> QED
    BY <2>3, <2>4
<1> QED
  BY <1>3, <1>4

-----------------------------------------------------------------------------
(* The CVM.                                                                   *)

LEMMA BuildsAssumed ==
    IsFiniteSet(Builds) /\ empty \notin Builds /\ "malformed" \notin Builds /\ empty \notin DOMAIN Manifests
BY EnforcementAssumption

LEMMA BrokerIsBuild ==
    ASSUME NEW m \in DOMAIN Manifests
    PROVE  brokerIn(m) \in Builds \cup {empty}
BY EnforcementAssumption DEF brokerIn

(* A controller's entry keeps the log the controller's.                       *)
LEMMA AppendControlled ==
    ASSUME NEW log, LogInv(log), NEW e \in Entries, e.ev = imageEvent => e.val \in Builds \cup {"malformed"},
           \A i \in 6..Len(log) : controllers(log[i]), controllers(e)
    PROVE  /\ \A i \in 6..Len(Append(log, e)) : controllers(Append(log, e)[i])
           /\ imageRecords(Append(log, e)) = {} => imageRecords(log) = {} /\ e.ev # imageEvent
<1> DEFINE more == Append(log, e)
<1>1. /\ Len(more) = Len(log) + 1 /\ more[Len(log) + 1] = e
      /\ \A i \in 6..Len(log) : more[i] = log[i]
  BY AppendLogInv
<1>2. Len(log) \in Nat /\ Len(log) >= 5
  BY DEF LogInv
<1> HIDE DEF more
<1>3. ASSUME NEW i \in 6..Len(more) PROVE controllers(more[i])
  <2>1. i \in 6..Len(log) \/ i = Len(log) + 1
    BY <1>1, <1>2
  <2> QED
    BY <1>1, <2>1
<1>4. ASSUME imageRecords(more) = {} PROVE imageRecords(log) = {} /\ e.ev # imageEvent
  <2>1. \A i \in 6..Len(more) : more[i].ev # imageEvent
    BY <1>4 DEF imageRecords
  <2>2. Len(log) + 1 \in 6..Len(more) /\ \A i \in 6..Len(log) : i \in 6..Len(more)
    BY <1>1, <1>2
  <2> QED
    BY <1>1, <2>1, <2>2 DEF imageRecords
<1> QED
  BY <1>3, <1>4 DEF more

LEMMA RecordImageStep ==
    ASSUME CvmInv, NEW b \in Builds, RecordImage(b)
    PROVE  CvmInv'
<1> DEFINE e == imageRecord(b, b)
           log == cvm.rtmr3
<1>1. /\ cvm' = [cvm EXCEPT !.rtmr3 = Append(log, e), !.next = b]
      /\ cvm \in CvmType /\ LogInv(log) /\ cvm.mr.hash = cvm.manifest
  BY DEF RecordImage, CvmInv
<1>2. /\ e \in Entries /\ e.ev = imageEvent /\ e.val = b /\ e.signer = b /\ e.enc = b /\ e.ty = "runtime"
  BY RecordsTyped
<1>3. LogInv(Append(log, e))
  BY <1>1, <1>2, AppendLogInv
<1>4. Append(log, e) \in Seq(Entries)
  BY <1>3 DEF LogInv
<1> HIDE DEF e, log
<1>5. /\ cvm' \in CvmType /\ cvm'.rtmr3 = Append(log, e) /\ cvm'.next = b
      /\ cvm'.manifest = cvm.manifest /\ cvm'.mr = cvm.mr /\ cvm'.running = cvm.running
  BY <1>1, <1>4 DEF CvmType
<1>6. ASSUME confined(cvm'.manifest) PROVE ControlledInv(cvm')
  <2>1. \A i \in 6..Len(log) : controllers(log[i])
    BY <1>5, <1>6 DEF CvmInv, ControlledInv, log
  <2>2. controllers(e)
    BY <1>2, BuildsAssumed DEF controllers, wellFormed, imageEvent
  <2>3. /\ \A i \in 6..Len(Append(log, e)) : controllers(Append(log, e)[i])
        /\ imageRecords(Append(log, e)) # {}
    BY <1>1, <1>2, <2>1, <2>2, AppendControlled
  <2> QED
    BY <1>5, <2>3 DEF ControlledInv
<1> QED
  BY <1>1, <1>3, <1>5, <1>6, Zenon DEF CvmInv

LEMMA WriteRecordStep ==
    ASSUME CvmInv, NEW e \in otherRecords \cup rogueRecords, WriteRecord(e)
    PROVE  CvmInv'
<1> DEFINE log == cvm.rtmr3
<1>1. /\ cvm' = [cvm EXCEPT !.rtmr3 = Append(log, e)]
      /\ cvm \in CvmType /\ LogInv(log) /\ cvm.mr.hash = cvm.manifest
      /\ e \in otherRecords \/ (~confined(cvm.manifest) /\ e \in rogueRecords)
  BY DEF WriteRecord, CvmInv
<1>2. cvm.running \in Builds
  BY <1>1 DEF CvmType
<1>3. e \in Entries /\ (e.ev = imageEvent => e.val \in Builds \cup {"malformed"})
  BY <1>2, OtherRecordsTyped, RogueRecordsTyped
<1>4. LogInv(Append(log, e))
  BY <1>1, <1>3, AppendLogInv
<1>5. Append(log, e) \in Seq(Entries)
  BY <1>4 DEF LogInv
<1> HIDE DEF log
<1>6. /\ cvm' \in CvmType /\ cvm'.rtmr3 = Append(log, e) /\ cvm'.next = cvm.next
      /\ cvm'.manifest = cvm.manifest /\ cvm'.mr = cvm.mr /\ cvm'.running = cvm.running
  BY <1>1, <1>5 DEF CvmType
<1>7. ASSUME confined(cvm'.manifest) PROVE ControlledInv(cvm')
  <2>1. /\ \A i \in 6..Len(log) : controllers(log[i])
        /\ imageRecords(log) = {} => cvm.next = empty /\ brokerIn(cvm.manifest) \in {empty, cvm.running}
    BY <1>6, <1>7 DEF CvmInv, ControlledInv, log
  <2>2. controllers(e)
    BY <1>1, <1>6, <1>7, OtherRecordsTyped
  <2>3. /\ \A i \in 6..Len(Append(log, e)) : controllers(Append(log, e)[i])
        /\ imageRecords(Append(log, e)) = {} => imageRecords(log) = {}
    BY <1>1, <1>3, <2>1, <2>2, AppendControlled
  <2> QED
    BY <1>6, <2>1, <2>3 DEF ControlledInv
<1> QED
  BY <1>1, <1>4, <1>6, <1>7, Zenon DEF CvmInv

LEMMA SwapImageStep ==
    ASSUME CvmInv, NEW runs \in BOOLEAN, SwapImage(runs)
    PROVE  CvmInv'
<1>1. /\ cvm' = [cvm EXCEPT !.next = empty, !.running = IF runs THEN cvm.next ELSE @]
      /\ cvm.next # empty
      /\ cvm \in CvmType /\ LogInv(cvm.rtmr3) /\ cvm.mr.hash = cvm.manifest
  BY DEF SwapImage, CvmInv
<1>2. /\ cvm' \in CvmType /\ cvm'.rtmr3 = cvm.rtmr3 /\ cvm'.manifest = cvm.manifest /\ cvm'.mr = cvm.mr
  BY <1>1 DEF CvmType
<1>3. ASSUME confined(cvm'.manifest) PROVE ControlledInv(cvm')
  <2>1. \A i \in 6..Len(cvm.rtmr3) : controllers(cvm.rtmr3[i])
    BY <1>2, <1>3 DEF CvmInv, ControlledInv
  <2>2. imageRecords(cvm.rtmr3) # {}
    BY <1>1, <1>2, <1>3 DEF CvmInv, ControlledInv
  <2> QED
    BY <1>2, <2>1, <2>2 DEF ControlledInv
<1> QED
  BY <1>1, <1>2, <1>3 DEF CvmInv

LEMMA RunUnrecordedStep ==
    ASSUME CvmInv, NEW b \in Builds, RunUnrecorded(b)
    PROVE  CvmInv'
<1>1. /\ cvm' = [cvm EXCEPT !.running = b] /\ ~confined(cvm.manifest)
      /\ cvm \in CvmType /\ LogInv(cvm.rtmr3) /\ cvm.mr.hash = cvm.manifest
  BY DEF RunUnrecorded, CvmInv
<1>2. /\ cvm' \in CvmType /\ cvm'.rtmr3 = cvm.rtmr3 /\ cvm'.manifest = cvm.manifest /\ cvm'.mr = cvm.mr
  BY <1>1 DEF CvmType
<1> QED
  BY <1>1, <1>2 DEF CvmInv

-----------------------------------------------------------------------------
(* The quote.                                                                 *)

(* The compose hash the reader establishes is the CVM's, or none.             *)
LEMMA HashOfManifest ==
    ASSUME NEW mr, NEW said, NEW log
    PROVE  ComposeHashOf(mr, said, log) \in {empty, mr.hash}
<1> DEFINE r == replayRTMR3(said, log)
           b == bootEvents(r.log)
<1>1. CASE mr.v # 3
  BY <1>1 DEF ComposeHashOf, ComposeHashFromMRConfigID
<1>2. CASE mr.v = 3
  <2>1. mr \in v3Candidates(b) => b.composeHash = mr.hash
    <3> HIDE DEF b
    <3> QED
      BY DEF v3Candidates
  <2>2. ComposeHashOf(mr, said, log) = IF r.err = empty /\ b.ok /\ mr \in v3Candidates(b) THEN b.composeHash ELSE empty
    BY <1>2 DEF ComposeHashOf
  <2> HIDE DEF b, r
  <2> QED
    BY <2>1, <2>2
<1> QED
  BY <1>1, <1>2

LEMMA ManifestRead ==
    ASSUME NEW appCompose, NEW hash, NEW panics \in BOOLEAN
    PROVE  /\ readManifest(appCompose, hash, panics) \in {empty, "no_hash", "absent", "gate", "reader"}
           /\ readManifest(appCompose, hash, panics) = empty => appCompose = hash /\ hash # empty
<1>1. empty \notin {"no_hash", "absent", "gate", "reader"}
  BY DEF empty
<1> QED
  BY <1>1 DEF readManifest

(* What readRuntime says of the CVM it was taken from.                        *)
LEMMA StateRead ==
    ASSUME CvmInv, NEW said, NEW panics \in BOOLEAN, NEW f,
           f.state = readRuntime(said, cvm.rtmr3, panics),
           f.confined <=> confined(cvm.manifest),
           f.served <=> eventLogOf(said) = logOf(cvm.rtmr3),
           f.encPub = cvm.running, f.manifest \in {empty, cvm.manifest}
    PROVE  StateInv(f)
<1>1. LogInv(cvm.rtmr3) /\ (f.confined => ControlledInv(cvm))
  BY DEF CvmInv
<1>2. CASE panics
  <2>1. f.state = [RuntimeState0 EXCEPT !.err = "errReaderFailed"]
    BY <1>2, Zenon DEF readRuntime
  <2>2. f.state.err = "errReaderFailed"
    BY <2>1 DEF RuntimeState0
  <2>3. empty # "errReaderFailed"
    BY DEF empty
  <2> QED
    BY <2>2, <2>3 DEF StateInv
<1>3. CASE ~panics
  <2> DEFINE log == cvm.rtmr3
             st == f.state
  <2>1. st = ReadRuntimeState(said, log)
    BY <1>3, Zenon DEF readRuntime
  <2>2. /\ st.err = empty =>
             /\ imageRecords(log) = {} => st.Image = NoImage
             /\ imageRecords(log) # {} => \E i \in imageRecords(log) :
                   st.Image = parseImageUpdate(log[i]) /\ log[i].val \in Builds
             /\ st.Engines => \E i \in 6..Len(log) : log[i].ev = "zg-engine-set"
        /\ st.err \notin {empty, "ErrNoEventLog"} =>
             \/ eventLogOf(said) # logOf(log)
             \/ \E i \in 6..Len(log) : log[i].ev \in records /\ ~wellFormed(log[i])
    BY <1>1, <2>1, Reading
  <2> HIDE DEF st
  <2>3. ASSUME st.err = empty, imageRecords(log) = {}
        PROVE  /\ st.Image = NoImage
               /\ f.confined /\ f.manifest # empty => brokerIn(f.manifest) \in {empty, f.encPub}
    BY <1>1, <2>2, <2>3 DEF ControlledInv
  <2>4. ASSUME st.err = empty, imageRecords(log) # {}
        PROVE  /\ st.Image.digest \in Builds /\ st.Image # NoImage
               /\ f.confined => st.Image.signer = st.Image.digest /\ st.Image.encPub = st.Image.digest
    <3>1. PICK i \in imageRecords(log) : st.Image = parseImageUpdate(log[i]) /\ log[i].val \in Builds
      BY <2>2, <2>4
    <3>2. i \in 6..Len(log) /\ log[i].ev = imageEvent
      BY DEF imageRecords
    <3>3. st.Image.digest = log[i].val /\ st.Image.signer = log[i].signer /\ st.Image.encPub = log[i].enc
      BY <3>1 DEF parseImageUpdate
    <3>4. f.confined => log[i].val = log[i].signer /\ log[i].val = log[i].enc
      BY <1>1, <3>2 DEF ControlledInv, controllers
    <3>5. NoImage.digest = empty
      BY DEF NoImage
    <3> QED
      BY <3>1, <3>3, <3>4, <3>5, BuildsAssumed
  <2>5. st.err = empty /\ f.confined => ~st.Engines
    BY <1>1, <2>2 DEF ControlledInv, controllers
  <2>6. st.err \notin {empty, "ErrNoEventLog"} => ~f.served \/ ~f.confined
    BY <1>1, <2>2 DEF ControlledInv, controllers
  <2> QED
    BY <2>3, <2>4, <2>5, <2>6 DEF StateInv, st
<1> QED
  BY <1>2, <1>3

LEMMA VerifyQuoteStep ==
    ASSUME CvmInv, NEW said, NEW appCompose, NEW panics \in BOOLEAN, VerifyQuote(said, appCompose, panics)
    PROVE  facts'.taken = TRUE /\ FactsInv'
<1> DEFINE hash == ComposeHashOf(cvm.mr, said, cvm.rtmr3)
           why == readManifest(appCompose, hash, panics)
           c == confined(cvm.manifest)
           s == (eventLogOf(said) = logOf(cvm.rtmr3))
<1>1. PICK bc \in BOOLEAN : bc = c
  BY DEF confined
<1>2. PICK bs \in BOOLEAN : bs = s
  OBVIOUS
<1>3. facts' = [taken |-> TRUE, state |-> readRuntime(said, cvm.rtmr3, panics),
                signer |-> cvm.running, encPub |-> cvm.running,
                manifest |-> IF why = empty THEN appCompose ELSE empty, why |-> why,
                confined |-> bc, served |-> bs]
  BY <1>1, <1>2, Zenon DEF VerifyQuote
<1>4. /\ facts'.taken = TRUE /\ facts'.state = readRuntime(said, cvm.rtmr3, panics)
      /\ facts'.signer = cvm.running /\ facts'.encPub = cvm.running
      /\ facts'.manifest = IF why = empty THEN appCompose ELSE empty
      /\ facts'.why = why /\ facts'.confined = bc /\ facts'.served = bs
  <2> HIDE DEF why
  <2> QED
    BY <1>3
<1>5. cvm.manifest \in DOMAIN Manifests /\ cvm.mr.hash = cvm.manifest
  BY DEF CvmInv, CvmType
<1>6. hash \in {empty, cvm.manifest}
  BY <1>5, HashOfManifest
<1>7. /\ why \in {empty, "no_hash", "absent", "gate", "reader"}
      /\ why = empty => appCompose = cvm.manifest
  BY <1>6, ManifestRead
<1> HIDE DEF why, hash, c, s
<1>8. facts'.manifest \in {empty, cvm.manifest}
  BY <1>4, <1>7
<1>9. StateInv(facts')
  BY <1>1, <1>2, <1>4, <1>8, StateRead DEF c, s
<1>10. ManifestInv(facts')
  BY <1>1, <1>4, <1>5, <1>7, <1>8, BuildsAssumed DEF ManifestInv, c
<1>11. cvm.running \in Builds
  BY DEF CvmInv, CvmType
<1> QED
  BY <1>4, <1>9, <1>10, <1>11, Zenon DEF FactsInv

-----------------------------------------------------------------------------
(* The judge.                                                                 *)

(* Attestations and refutations are never taken back, and a quote's facts stay. *)
Grows ==
    /\ conf' = conf /\ facts' = facts
    /\ \A b \in Builds : attached[b] \subseteq attached'[b]
    /\ refuted \subseteq refuted'

LEMMA GroundsStay ==
    ASSUME Grows, NEW b
    PROVE  /\ b \in Builds /\ released(b) => released(b)'
           /\ contradicted(b) => contradicted(b)'
           /\ askedAbout' = askedAbout
           /\ \A v : b \in Builds /\ Grounded(v, b) => Grounded(v, b)'
<1>1. b \in Builds /\ released(b) => released(b)'
  BY DEF Grows, released
<1>2. contradicted(b) => contradicted(b)'
  BY DEF Grows, contradicted
<1>3. askedAbout' = askedAbout
  BY DEF Grows, askedAbout, recordedBuild, pinnedBuilds
<1> QED
  BY <1>1, <1>2, <1>3, Zenon DEF Grounded

(* The table a build is entered into.                                         *)
LEMMA RoomMade ==
    ASSUME TableInv, NEW b, NEW h, h = IF b \in DOMAIN held THEN held ELSE makeRoomLocked
    PROVE  /\ h \in [DOMAIN h -> Judgements]
           /\ DOMAIN h \subseteq DOMAIN held /\ \A k \in DOMAIN h : h[k] = held[k]
           /\ DOMAIN checks = {k \in DOMAIN h : h[k].running}
           /\ b \in DOMAIN held => b \in DOMAIN h
           /\ IsFiniteSet(DOMAIN h) /\ Cardinality(DOMAIN h) \in Nat
           /\ Cardinality(DOMAIN h) <= maxJudgedReleases
<1>1. /\ held \in [DOMAIN held -> Judgements] /\ DOMAIN held \subseteq Builds
      /\ DOMAIN checks = {k \in DOMAIN held : held[k].running}
      /\ Cardinality(DOMAIN held) <= maxJudgedReleases
  BY DEF TableInv, EnforcementTypeOK
<1>2. /\ h \in [DOMAIN h -> Judgements]
      /\ DOMAIN h \subseteq DOMAIN held /\ \A k \in DOMAIN h : h[k] = held[k]
      /\ \A k \in DOMAIN held : held[k].running => k \in DOMAIN h
      /\ b \in DOMAIN held => b \in DOMAIN h
  <2>1. CASE h = held
    BY <1>1, <2>1
  <2>2. CASE b \notin DOMAIN held /\ h = makeRoomLocked /\ h # held
    <3> DEFINE kept == {k \in DOMAIN held : held[k].running \/ held[k].have = ReleaseAccepted}
    <3>1. h = [k \in kept |-> held[k]]
      BY <2>2 DEF makeRoomLocked
    <3> QED
      BY <1>1, <2>2, <3>1
  <2> QED
    BY <2>1, <2>2
<1>3. DOMAIN checks = {k \in DOMAIN h : h[k].running}
  BY <1>1, <1>2
<1>4. IsFiniteSet(DOMAIN held)
  BY <1>1, BuildsAssumed, FS_Subset
<1>5. IsFiniteSet(DOMAIN h) /\ Cardinality(DOMAIN h) <= Cardinality(DOMAIN held)
  BY <1>2, <1>4, FS_Subset
<1>6. /\ Cardinality(DOMAIN h) \in Nat /\ Cardinality(DOMAIN held) \in Nat
      /\ maxJudgedReleases \in Nat
  BY <1>4, <1>5, FS_CardinalityType, EnforcementAssumption
<1>7. Cardinality(DOMAIN h) <= maxJudgedReleases
  BY <1>1, <1>5, <1>6
<1> QED
  BY <1>2, <1>3, <1>5, <1>6, <1>7

(* The bounds of the judge, without the request's place and the exit status.  *)
Bounded ==
    /\ DOMAIN held \subseteq Builds /\ DOMAIN checks \subseteq DOMAIN held
    /\ Cardinality(DOMAIN held) <= maxJudgedReleases
    /\ Cardinality(DOMAIN checks) <= maxReleaseChecks
    /\ DOMAIN checks = {b \in DOMAIN held : held[b].running}
    /\ held \in [DOMAIN held -> Judgements]
    /\ checks \in [DOMAIN checks -> ReleaseVerdicts \cup {NoVerdict}]

LEMMA NoVerdictIsNone == NoVerdict \notin ReleaseVerdicts /\ ReleaseAccepted # ReleaseRejected
BY DEF NoVerdict, ReleaseVerdicts, ReleaseAccepted, ReleaseRejected, ReleaseUnavailable

LEMMA VerdictStep ==
    ASSUME TableInv, VerdictsInv, NEW b \in Builds, NEW due \in BOOLEAN, verdict(b, due), Grows
    PROVE  Bounded' /\ VerdictsInv'
<1>1. PICK h : h = IF b \in DOMAIN held THEN held ELSE makeRoomLocked
  OBVIOUS
<1>2. PICK c : c = checks
  OBVIOUS
<1>3. PICK e : e = IF b \in DOMAIN h THEN h[b] ELSE [have |-> NoVerdict, running |-> FALSE]
  OBVIOUS
<1>4. PICK on : on = [e EXCEPT !.running = TRUE]
  OBVIOUS
<1> DEFINE fits == b \in DOMAIN h \/ Cardinality(DOMAIN h) < maxJudgedReleases
           slot == Cardinality(DOMAIN c) < maxReleaseChecks
<1>5. /\ h \in [DOMAIN h -> Judgements]
      /\ DOMAIN h \subseteq DOMAIN held /\ \A k \in DOMAIN h : h[k] = held[k]
      /\ DOMAIN c = {k \in DOMAIN h : h[k].running}
      /\ IsFiniteSet(DOMAIN h) /\ Cardinality(DOMAIN h) \in Nat
      /\ Cardinality(DOMAIN h) <= maxJudgedReleases
  BY <1>1, <1>2, RoomMade
<1>6. /\ DOMAIN h \subseteq Builds /\ DOMAIN c \subseteq DOMAIN h
      /\ Cardinality(DOMAIN c) <= maxReleaseChecks
      /\ c \in [DOMAIN c -> ReleaseVerdicts \cup {NoVerdict}]
  BY <1>2, <1>5 DEF TableInv, EnforcementTypeOK
<1>7. \/ UNCHANGED <<held, checks>>
      \/ held' = h /\ checks' = c
      \/ /\ ~e.running /\ fits /\ slot
         /\ held' = [k \in DOMAIN h \cup {b} |-> IF k = b THEN on ELSE h[k]]
         /\ checks' = [k \in DOMAIN c \cup {b} |-> IF k = b THEN NoVerdict ELSE c[k]]
      \/ /\ ~e.running /\ fits
         /\ held' = [k \in DOMAIN h \cup {b} |-> IF k = b THEN e ELSE h[k]]
         /\ checks' = c
  BY <1>1, <1>2, <1>3, <1>4 DEF verdict, judgeVars
<1>8. e \in Judgements
  <2>1. [have |-> NoVerdict, running |-> FALSE] \in Judgements
    BY DEF Judgements
  <2> QED
    BY <1>3, <1>5, <2>1
<1>9. on \in Judgements /\ on.running = TRUE /\ on.have = e.have
  BY <1>4, <1>8 DEF Judgements
<1>10. Grounded(NoVerdict, b)' /\ Grounded(e.have, b)'
  <2>1. Grounded(NoVerdict, b)'
    BY DEF Grounded, NoVerdict, ReleaseAccepted, ReleaseRejected
  <2>2. b \in DOMAIN h => Grounded(e.have, b)
    BY <1>3, <1>5 DEF VerdictsInv
  <2>3. b \notin DOMAIN h => e.have = NoVerdict
    BY <1>3
  <2> QED
    BY <2>1, <2>2, <2>3, GroundsStay
<1>11. /\ \A k \in DOMAIN h : Grounded(h[k].have, k)'
       /\ \A k \in DOMAIN c : Grounded(c[k], k)'
  <2>1. \A k \in DOMAIN h : k \in Builds /\ Grounded(h[k].have, k)
    BY <1>5, <1>6 DEF VerdictsInv
  <2>2. \A k \in DOMAIN c : k \in Builds /\ Grounded(c[k], k)
    BY <1>2, <1>6 DEF VerdictsInv
  <2> QED
    BY <2>1, <2>2, GroundsStay
<1>12. /\ IsFiniteSet(DOMAIN c) /\ Cardinality(DOMAIN c) \in Nat
       /\ maxReleaseChecks \in Nat /\ maxJudgedReleases \in Nat
  <2>1. IsFiniteSet(DOMAIN c)
    BY <1>5, <1>6, FS_Subset
  <2> QED
    BY <2>1, FS_CardinalityType, EnforcementAssumption
<1>13. fits => Cardinality(DOMAIN h \cup {b}) <= maxJudgedReleases
  <2>1. Cardinality(DOMAIN h \cup {b}) = IF b \in DOMAIN h THEN Cardinality(DOMAIN h) ELSE Cardinality(DOMAIN h) + 1
    BY <1>5, FS_AddElement
  <2> QED
    BY <1>5, <1>12, <2>1
<1>14. slot => Cardinality(DOMAIN c \cup {b}) <= maxReleaseChecks
  <2>1. Cardinality(DOMAIN c \cup {b}) \in {Cardinality(DOMAIN c), Cardinality(DOMAIN c) + 1}
    BY <1>12, FS_AddElement
  <2> QED
    BY <1>12, <2>1
<1> HIDE DEF fits, slot
<1>15. CASE UNCHANGED <<held, checks>>
  <2>1. Bounded'
    BY <1>15 DEF Bounded, TableInv, EnforcementTypeOK
  <2>2. PICK t : t = held
    OBVIOUS
  <2>3. \A k \in DOMAIN t : k \in Builds /\ Grounded(t[k].have, k)
    BY <2>2 DEF VerdictsInv, TableInv, EnforcementTypeOK
  <2>4. \A k \in DOMAIN t : Grounded(t[k].have, k)'
    BY <2>3, GroundsStay
  <2>5. held' = t /\ checks' = c
    BY <1>2, <1>15, <2>2
  <2> QED
    BY <1>11, <2>1, <2>4, <2>5, Zenon DEF VerdictsInv
<1>16. CASE held' = h /\ checks' = c
  BY <1>5, <1>6, <1>11, <1>16 DEF Bounded, VerdictsInv
<1>17. CASE /\ ~e.running /\ fits /\ slot
            /\ held' = [k \in DOMAIN h \cup {b} |-> IF k = b THEN on ELSE h[k]]
            /\ checks' = [k \in DOMAIN c \cup {b} |-> IF k = b THEN NoVerdict ELSE c[k]]
  <2>1. /\ DOMAIN held' = DOMAIN h \cup {b} /\ DOMAIN checks' = DOMAIN c \cup {b}
        /\ held'[b] = on /\ checks'[b] = NoVerdict
        /\ \A k \in DOMAIN h \ {b} : held'[k] = h[k]
        /\ \A k \in DOMAIN c \ {b} : checks'[k] = c[k]
    BY <1>17
  <2>2. held' \in [DOMAIN held' -> Judgements] /\ checks' \in [DOMAIN checks' -> ReleaseVerdicts \cup {NoVerdict}]
    BY <1>5, <1>6, <1>9, <1>17
  <2>3. DOMAIN checks' = {k \in DOMAIN held' : held'[k].running}
    BY <1>5, <1>9, <2>1
  <2>4. Bounded'
    BY <1>6, <1>13, <1>14, <1>17, <2>1, <2>2, <2>3 DEF Bounded
  <2>5. PICK t : t = held'
    OBVIOUS
  <2>6. PICK d : d = checks'
    OBVIOUS
  <2>7. \A k \in DOMAIN t : Grounded(t[k].have, k)'
    BY <1>9, <1>10, <1>11, <2>1, <2>5
  <2>8. \A k \in DOMAIN d : Grounded(d[k], k)'
    BY <1>10, <1>11, <2>1, <2>6
  <2> QED
    BY <2>4, <2>5, <2>6, <2>7, <2>8, Zenon DEF VerdictsInv
<1>18. CASE /\ ~e.running /\ fits
            /\ held' = [k \in DOMAIN h \cup {b} |-> IF k = b THEN e ELSE h[k]]
            /\ checks' = c
  <2>1. /\ DOMAIN held' = DOMAIN h \cup {b} /\ held'[b] = e
        /\ \A k \in DOMAIN h \ {b} : held'[k] = h[k]
    BY <1>18
  <2>2. held' \in [DOMAIN held' -> Judgements]
    BY <1>5, <1>8, <1>18
  <2>3. DOMAIN checks' = {k \in DOMAIN held' : held'[k].running}
    BY <1>3, <1>5, <1>18, <2>1
  <2>4. Bounded'
    BY <1>6, <1>13, <1>18, <2>1, <2>2, <2>3 DEF Bounded
  <2>5. PICK t : t = held'
    OBVIOUS
  <2>6. \A k \in DOMAIN t : Grounded(t[k].have, k)'
    BY <1>10, <1>11, <2>1, <2>5
  <2>7. checks' = c
    BY <1>18
  <2> QED
    BY <1>11, <2>4, <2>5, <2>6, <2>7, Zenon DEF VerdictsInv
<1> QED
  BY <1>7, <1>15, <1>16, <1>17, <1>18

(* What an answer of the release verifier rests on.                           *)
LEMMA CheckAnswers ==
    ASSUME NEW b \in Builds, NEW registry \in {"up", "down", "garbled"}, NEW r \in {"current", "snapshot"},
           NEW v, v = check(b, registry, r)
    PROVE  /\ v \in ReleaseVerdicts
           /\ v = ReleaseAccepted => released(b)
           /\ v = ReleaseRejected =>
                 \/ b \in Foreign \cup Revoked
                 \/ registry = "garbled"
                 \/ registry = "up" /\ ~\E x \in attached[b] :
                       release(x) \/ (x.kind # "garbled" /\ x.key = "new" /\ stale(r))
<1> USE DEF ReleaseVerdicts, ReleaseAccepted, ReleaseRejected, ReleaseUnavailable
<1>1. CASE b \in Foreign \cup Revoked
  BY <1>1 DEF check
<1>2. CASE b \notin Foreign \cup Revoked /\ registry # "up"
  BY <1>2 DEF check
<1>3. CASE b \notin Foreign \cup Revoked /\ registry = "up"
  <2>1. v = judge(attached[b], r)
    BY <1>3 DEF check
  <2>2. v \in ReleaseVerdicts
    BY <2>1 DEF judge
  <2>3. v = ReleaseAccepted => released(b)
    BY <1>3, <2>1 DEF judge, released
  <2>4. ASSUME v = ReleaseRejected, NEW x \in attached[b],
               release(x) \/ (x.kind # "garbled" /\ x.key = "new" /\ stale(r))
        PROVE  FALSE
    <3>1. ~(verifies(x, r) /\ release(x))
      BY <2>1, <2>4 DEF judge
    <3>2. x.kind # "garbled"
      BY <2>4 DEF release
    <3>3. ~verifies(x, r)
      BY <2>4, <3>1 DEF verifies, stale
    <3>4. stale(r)
      BY <3>2, <3>3 DEF verifies, stale
    <3> QED
      BY <2>1, <2>4, <3>2, <3>3, <3>4 DEF judge
  <2> QED
    BY <1>3, <2>2, <2>3, <2>4
<1> QED
  BY <1>1, <1>2, <1>3

LEMMA JudgeStays ==
    ASSUME TableInv, VerdictsInv, Grows, UNCHANGED <<held, checks>>
    PROVE  Bounded' /\ VerdictsInv'
<1>1. Bounded'
  BY DEF Bounded, TableInv, EnforcementTypeOK
<1>2. PICK t : t = held
  OBVIOUS
<1>3. PICK c : c = checks
  OBVIOUS
<1>4. /\ \A k \in DOMAIN t : k \in Builds /\ Grounded(t[k].have, k)
      /\ \A k \in DOMAIN c : k \in Builds /\ Grounded(c[k], k)
  BY <1>2, <1>3 DEF VerdictsInv, TableInv, EnforcementTypeOK
<1>5. /\ \A k \in DOMAIN t : Grounded(t[k].have, k)'
      /\ \A k \in DOMAIN c : Grounded(c[k], k)'
  BY <1>4, GroundsStay
<1>6. held' = t /\ checks' = c
  BY <1>2, <1>3
<1> QED
  BY <1>1, <1>5, <1>6, Zenon DEF VerdictsInv

LEMMA CheckDoneStep ==
    ASSUME TableInv, VerdictsInv, NEW b \in DOMAIN checks, CheckDone(b), Grows
    PROVE  Bounded' /\ VerdictsInv'
<1>1. PICK t : t = held
  OBVIOUS
<1>2. PICK c : c = checks
  OBVIOUS
<1>3. PICK x : x = [have |-> c[b], running |-> FALSE]
  OBVIOUS
<1>4. /\ DOMAIN t \subseteq Builds /\ DOMAIN c \subseteq DOMAIN t /\ b \in DOMAIN c
      /\ Cardinality(DOMAIN t) <= maxJudgedReleases /\ Cardinality(DOMAIN c) <= maxReleaseChecks
      /\ DOMAIN c = {k \in DOMAIN t : t[k].running}
      /\ t \in [DOMAIN t -> Judgements] /\ c \in [DOMAIN c -> ReleaseVerdicts \cup {NoVerdict}]
  BY <1>1, <1>2 DEF TableInv, EnforcementTypeOK
<1>5. held' = [t EXCEPT ![b] = x] /\ checks' = [k \in DOMAIN c \ {b} |-> c[k]]
  BY <1>1, <1>2, <1>3 DEF CheckDone
<1>6. x \in Judgements /\ x.running = FALSE /\ x.have = c[b]
  BY <1>3, <1>4 DEF Judgements
<1>7. /\ DOMAIN held' = DOMAIN t /\ held'[b] = x /\ \A k \in DOMAIN t \ {b} : held'[k] = t[k]
      /\ DOMAIN checks' = DOMAIN c \ {b} /\ \A k \in DOMAIN c \ {b} : checks'[k] = c[k]
  BY <1>4, <1>5
<1>8. held' \in [DOMAIN held' -> Judgements] /\ checks' \in [DOMAIN checks' -> ReleaseVerdicts \cup {NoVerdict}]
  BY <1>4, <1>5, <1>6
<1>9. DOMAIN checks' = {k \in DOMAIN held' : held'[k].running}
  BY <1>4, <1>6, <1>7
<1>10. Cardinality(DOMAIN checks') <= maxReleaseChecks
  <2>1. IsFiniteSet(DOMAIN c)
    BY <1>4, BuildsAssumed, FS_Subset
  <2>2. IsFiniteSet(DOMAIN checks') /\ Cardinality(DOMAIN checks') <= Cardinality(DOMAIN c)
    BY <1>7, <2>1, FS_Subset
  <2> QED
    BY <1>4, <2>1, <2>2, FS_CardinalityType, EnforcementAssumption
<1>11. Bounded'
  BY <1>4, <1>7, <1>8, <1>9, <1>10 DEF Bounded
<1>12. /\ \A k \in DOMAIN t : Grounded(t[k].have, k)'
       /\ \A k \in DOMAIN c : Grounded(c[k], k)'
  <2>1. /\ \A k \in DOMAIN t : k \in Builds /\ Grounded(t[k].have, k)
        /\ \A k \in DOMAIN c : k \in Builds /\ Grounded(c[k], k)
    BY <1>1, <1>2, <1>4 DEF VerdictsInv
  <2> QED
    BY <2>1, GroundsStay
<1>13. PICK u : u = held'
  OBVIOUS
<1>14. PICK d : d = checks'
  OBVIOUS
<1>15. /\ \A k \in DOMAIN u : Grounded(u[k].have, k)'
       /\ \A k \in DOMAIN d : Grounded(d[k], k)'
  BY <1>4, <1>6, <1>7, <1>12, <1>13, <1>14
<1> QED
  BY <1>11, <1>13, <1>14, <1>15, Zenon DEF VerdictsInv

LEMMA VerifyAsksStep ==
    ASSUME TableInv, VerdictsInv, NEW b \in DOMAIN checks,
           NEW registry \in {"up", "down", "garbled"}, NEW r \in trust, VerifyAsks(b, registry, r)
    PROVE  Grows /\ Bounded' /\ VerdictsInv'
<1>1. Grows
  BY DEF VerifyAsks, Grows, cvmVars
<1>2. PICK t : t = held
  OBVIOUS
<1>3. PICK c : c = checks
  OBVIOUS
<1>4. PICK v : v = check(b, registry, r)
  OBVIOUS
<1>5. /\ DOMAIN t \subseteq Builds /\ DOMAIN c \subseteq DOMAIN t /\ b \in DOMAIN c
      /\ Cardinality(DOMAIN t) <= maxJudgedReleases /\ Cardinality(DOMAIN c) <= maxReleaseChecks
      /\ DOMAIN c = {k \in DOMAIN t : t[k].running}
      /\ t \in [DOMAIN t -> Judgements] /\ c \in [DOMAIN c -> ReleaseVerdicts \cup {NoVerdict}]
  BY <1>2, <1>3 DEF TableInv, EnforcementTypeOK
<1>6. held' = t /\ checks' = [c EXCEPT ![b] = v]
  BY <1>2, <1>3, <1>4 DEF VerifyAsks
<1>7. r \in {"current", "snapshot"}
  BY DEF trust
<1>8. /\ v \in ReleaseVerdicts
      /\ v = ReleaseAccepted => released(b)
      /\ v = ReleaseRejected =>
            \/ b \in Foreign \cup Revoked
            \/ registry = "garbled"
            \/ registry = "up" /\ ~\E x \in attached[b] :
                  release(x) \/ (x.kind # "garbled" /\ x.key = "new" /\ stale(r))
  BY <1>4, <1>5, <1>7, CheckAnswers
<1>9. Bounded'
  BY <1>5, <1>6, <1>8 DEF Bounded
<1>10. Grounded(v, b)'
  <2>1. v = ReleaseAccepted => released(b)'
    BY <1>1, <1>5, <1>8, GroundsStay
  <2>2. askedAbout' = askedAbout
    BY <1>1, GroundsStay
  <2>3. ASSUME v = ReleaseRejected, b \in askedAbout PROVE contradicted(b)'
    BY <1>8, <2>3 DEF VerifyAsks, contradicted
  <2> QED
    BY <2>1, <2>2, <2>3 DEF Grounded
<1>11. /\ \A k \in DOMAIN t : Grounded(t[k].have, k)'
       /\ \A k \in DOMAIN c : Grounded(c[k], k)'
  <2>1. /\ \A k \in DOMAIN t : k \in Builds /\ Grounded(t[k].have, k)
        /\ \A k \in DOMAIN c : k \in Builds /\ Grounded(c[k], k)
    BY <1>2, <1>3, <1>5 DEF VerdictsInv
  <2> QED
    BY <1>1, <2>1, GroundsStay
<1>12. PICK d : d = checks'
  OBVIOUS
<1>13. \A k \in DOMAIN d : Grounded(d[k], k)'
  BY <1>5, <1>6, <1>10, <1>11, <1>12
<1>14. held' = t
  BY <1>6
<1> QED
  BY <1>1, <1>9, <1>11, <1>12, <1>13, <1>14, Zenon DEF VerdictsInv

LEMMA UploadGrows ==
    ASSUME GivenInv, NEW b \in Builds, NEW kind, Upload(b, kind)
    PROVE  Grows /\ DOMAIN attached' = Builds
BY DEF Upload, Grows, GivenInv, cvmVars

(* What the request and the audit rest on stays.                              *)
LEMMA SayingsStay ==
    ASSUME FactsInv, Grows, NEW x
    PROVE  /\ RuntimeSays(x) => RuntimeSays(x)'
           /\ BaselineSays(x) => BaselineSays(x)'
           /\ AuditInv /\ exit' = exit => AuditInv'
<1>1. facts' = facts /\ conf' = conf
  BY DEF Grows
<1>2. \A b \in Builds : released(b) => released(b)'
  BY GroundsStay
<1>3. \A b : contradicted(b) => contradicted(b)'
  BY GroundsStay
<1>4. facts.encPub \in Builds /\ facts.signer \in Builds
  BY DEF FactsInv
<1>5. AuditInv /\ exit' = exit => AuditInv'
  <2>1. PICK p : p = facts.encPub
    OBVIOUS
  <2>2. PICK s : s = facts.signer
    OBVIOUS
  <2>3. AuditInv /\ exit = 0 => facts.confined /\ released(p)' /\ released(s)'
    BY <1>2, <1>4, <2>1, <2>2 DEF AuditInv
  <2>4. facts'.encPub = p /\ facts'.signer = s
    BY <1>1, <2>1, <2>2
  <2> QED
    BY <1>1, <2>3, <2>4 DEF AuditInv
<1>6. RuntimeSays(x) => RuntimeSays(x)'
  <2>1. PICK d : d = facts.state.Image.digest
    OBVIOUS
  <2>2. facts.state.err = empty /\ facts.state.Image # NoImage => d \in Builds
    BY <2>1 DEF FactsInv, StateInv
  <2>3. facts'.state.Image.digest = d
    BY <1>1, <2>1
  <2>4. RuntimeSays(x) /\ x = "pass" => released(d)'
    BY <1>2, <2>1, <2>2 DEF RuntimeSays
  <2>5. contradicted(d) => contradicted(d)'
    BY <1>3
  <2> QED
    BY <1>1, <2>1, <2>3, <2>4, <2>5 DEF RuntimeSays
<1>7. BaselineSays(x) => BaselineSays(x)'
  <2>1. PICK m : m = facts.manifest
    OBVIOUS
  <2>2. PICK d : d = brokerIn(m)
    OBVIOUS
  <2>3. m # empty /\ d # empty => d \in Builds
    BY <2>1, <2>2, BrokerIsBuild DEF FactsInv, ManifestInv
  <2>4. facts'.manifest = m
    BY <1>1, <2>1
  <2>5. BaselineSays(x) /\ x = "pass" => m # empty /\ facts.confined /\ d # empty /\ released(d)'
    BY <1>2, <2>1, <2>2, <2>3 DEF BaselineSays
  <2>6. \A w, g : differs(w, g) => differs(w, g)'
    BY <1>1, <1>3 DEF differs
  <2>7. BaselineSays(x) /\ x = "no_match" =>
          \/ ~facts.confined
          \/ \E s \in DOMAIN Baseline.services : differs(Baseline.services[s], Manifests[m].services[s])'
    BY <2>1, <2>6, Zenon DEF BaselineSays
  <2> QED
    BY <1>1, <2>2, <2>4, <2>5, <2>7, Zenon DEF BaselineSays
<1> QED
  BY <1>5, <1>6, <1>7

-----------------------------------------------------------------------------
(* The two judgements.                                                        *)

LEMMA RuntimeChecked ==
    ASSUME NEW st, NEW v, NEW signer, NEW encPub, NEW c, c = CheckRuntime(st, v, signer, encPub)
    PROVE  /\ c.Release <=> st.Image # NoImage
           /\ c.Failures = {} /\ c.Unverified = {} /\ st.Image # NoImage =>
                 /\ st.Image.signer = signer /\ st.Image.encPub = encPub
                 /\ v[st.Image.digest] # ReleaseRejected /\ v[st.Image.digest] # ReleaseUnavailable
           /\ c.Failures # {} =>
                 \/ st.Image # NoImage /\ (st.Image.signer # signer \/ st.Image.encPub # encPub)
                 \/ st.Image # NoImage /\ v[st.Image.digest] = ReleaseRejected
                 \/ st.Engines
<1> DEFINE named == st.Image # NoImage
           wrong == wrongKeys(st.Image, signer, encPub)
           found == {f \in {"release", "engines"} :
                        \/ f = "release" /\ named /\ v[st.Image.digest] = ReleaseRejected
                        \/ f = "engines" /\ st.Engines}
           open == {u \in {"release", "unknown_record", "upstreams", "instances"} :
                        \/ u = "release" /\ named /\ v[st.Image.digest] = ReleaseUnavailable
                        \/ u = "unknown_record" /\ st.Unknown
                        \/ u = "upstreams" /\ st.Upstreams = "invalidated"
                        \/ u = "instances" /\ st.Unstated # {}}
<1>1. c = [Release |-> named, Failures |-> (IF named THEN wrong ELSE {}) \cup found, Unverified |-> open]
  BY Zenon DEF CheckRuntime
<1>2. wrong # {} => st.Image.signer # signer \/ st.Image.encPub # encPub
  BY DEF wrongKeys
<1>3. wrong = {} => st.Image.signer = signer /\ st.Image.encPub = encPub
  <2>1. st.Image.signer # signer => "signer" \in wrong
    BY DEF wrongKeys
  <2>2. st.Image.encPub # encPub => "enc_pub" \in wrong
    BY DEF wrongKeys
  <2> QED
    BY <2>1, <2>2
<1>4. found # {} => (named /\ v[st.Image.digest] = ReleaseRejected) \/ st.Engines
  OBVIOUS
<1>5. named /\ v[st.Image.digest] = ReleaseRejected => "release" \in found
  OBVIOUS
<1>6. named /\ v[st.Image.digest] = ReleaseUnavailable => "release" \in open
  OBVIOUS
<1>7. PICK n \in BOOLEAN : n = named
  OBVIOUS
<1> HIDE DEF wrong, found, open, named
<1>8. /\ c.Release = n /\ c.Unverified = open
      /\ c.Failures = (IF named THEN wrong ELSE {}) \cup found
  BY <1>1, <1>7
<1>9. c.Release <=> named
  BY <1>7, <1>8
<1>10. c.Failures = {} /\ c.Unverified = {} /\ named =>
         /\ st.Image.signer = signer /\ st.Image.encPub = encPub
         /\ v[st.Image.digest] # ReleaseRejected /\ v[st.Image.digest] # ReleaseUnavailable
  <2> SUFFICES ASSUME c.Failures = {}, c.Unverified = {}, named
               PROVE  /\ st.Image.signer = signer /\ st.Image.encPub = encPub
                      /\ v[st.Image.digest] # ReleaseRejected /\ v[st.Image.digest] # ReleaseUnavailable
    OBVIOUS
  <2>1. wrong = {} /\ found = {} /\ open = {}
    BY <1>8
  <2> QED
    BY <1>3, <1>5, <1>6, <2>1
<1>11. ASSUME c.Failures # {}
       PROVE  \/ named /\ (st.Image.signer # signer \/ st.Image.encPub # encPub)
              \/ named /\ v[st.Image.digest] = ReleaseRejected
              \/ st.Engines
  <2>1. (named /\ wrong # {}) \/ found # {}
    BY <1>8, <1>11
  <2> QED
    BY <1>2, <1>4, <2>1
<1> QED
  BY <1>9, <1>10, <1>11 DEF named

(* A service that passes, one that does not.                                  *)
LEMMA ServiceChecked ==
    ASSUME NEW want, NEW got, NEW v, NEW judges, NEW x, x = checkService(want, got, v, judges)
    PROVE  /\ x \in {"ok", "mismatch", "unverified"}
           /\ x = "ok" => /\ got.block = want.block
                          /\ want.repository # empty => got.digest # empty /\ v[got.digest] = ReleaseAccepted
           /\ x = "mismatch" /\ got.block = want.block =>
                 \/ ~got.pinnable
                 \/ want.repository = empty /\ <<got.repo, got.digest>> # <<want.repo, want.digest>>
                 \/ /\ want.repository # empty
                    /\ got.digest = empty \/ got.repo # want.repository \/ judges \notin {empty, want.repository}
                 \/ /\ want.repository # empty /\ got.pinnable /\ got.digest # empty /\ got.repo = want.repository
                    /\ v[got.digest] # ReleaseAccepted /\ v[got.digest] # ReleaseUnavailable
<1>1. pinVerdict(v[got.digest]) = IF v[got.digest] = ReleaseAccepted THEN "ok"
                                  ELSE IF v[got.digest] = ReleaseUnavailable THEN "unverified" ELSE "mismatch"
  BY DEF pinVerdict, ReleaseAccepted, ReleaseUnavailable
<1>2. x = IF ~got.pinnable THEN "mismatch"
          ELSE IF got.block # want.block THEN "mismatch"
          ELSE IF want.repository = empty /\ <<got.repo, got.digest>> # <<want.repo, want.digest>> THEN "mismatch"
          ELSE IF want.repository = empty THEN "ok"
          ELSE IF got.digest = empty THEN "mismatch"
          ELSE IF got.repo # want.repository THEN "mismatch"
          ELSE IF judges \notin {empty, want.repository} THEN "mismatch"
          ELSE IF v[got.digest] = ReleaseAccepted THEN "ok"
          ELSE IF v[got.digest] = ReleaseUnavailable THEN "unverified" ELSE "mismatch"
  BY <1>1, Zenon DEF checkService, checkImage, pinsImageInBlock
<1> QED
  BY <1>2

LEMMA ReviewParts ==
    ASSUME NEW m \in DOMAIN Manifests, NEW v, NEW judges,
           NEW c, c = CheckReview(Baseline, Manifests[m], v, judges)
    PROVE  /\ c.Recorded = TRUE
           /\ c.Mismatches = {} /\ c.Unverified = {} =>
                 /\ confined(m)
                 /\ brokerIn(m) # empty /\ v[brokerIn(m)] = ReleaseAccepted
           /\ c.Mismatches # {} /\ confined(m) =>
                 \E s \in DOMAIN Baseline.services \cap DOMAIN Manifests[m].services :
                    checkService(Baseline.services[s], Manifests[m].services[s], v, judges) = "mismatch"
<1> DEFINE man == Manifests[m]
           both == DOMAIN Baseline.services \cap DOMAIN man.services
           verdictOn(s) == checkService(Baseline.services[s], man.services[s], v, judges)
           apart == unmatched(DOMAIN Baseline.services, DOMAIN man.services)
           wrong == {s \in both : verdictOn(s) = "mismatch"}
           top == IF Baseline.top = man.top THEN {} ELSE {"top_level"}
           open == {s \in both : verdictOn(s) = "unverified"}
<1>1. DOMAIN Baseline.services # {} /\ "broker" \in both /\ Baseline.services["broker"].repository # empty
  BY EnforcementAssumption
<1>2. CASE man.load # "ok"
  <2>1. c = [NotCompared EXCEPT !.Recorded = TRUE, !.Unverified = {"manifest"}]
        \/ c = [NotCompared EXCEPT !.Recorded = TRUE, !.Mismatches = {"manifest"}]
    BY <1>1, <1>2, Zenon DEF CheckReview
  <2>2. c.Recorded = TRUE /\ ~(c.Mismatches = {} /\ c.Unverified = {})
    BY <2>1 DEF NotCompared
  <2> QED
    BY <1>2, <2>2 DEF confined
<1>3. CASE man.load = "ok"
  <2>1. c = [Recorded |-> TRUE, Mismatches |-> apart \cup wrong \cup top, Unverified |-> open]
    BY <1>1, <1>3, Zenon DEF CheckReview, CheckCompose
  <2>2. c.Recorded = TRUE /\ c.Mismatches = apart \cup wrong \cup top /\ c.Unverified = open
    <3> HIDE DEF apart, wrong, top, open
    <3> QED
      BY <2>1
  <2>3. ASSUME c.Mismatches = {}, c.Unverified = {}
        PROVE  confined(m) /\ brokerIn(m) # empty /\ v[brokerIn(m)] = ReleaseAccepted
    <3>1. apart = {} /\ wrong = {} /\ top = {} /\ open = {}
      <4> HIDE DEF apart, wrong, top, open
      <4> QED
        BY <2>2, <2>3
    <3>2. DOMAIN man.services = DOMAIN Baseline.services
      BY <3>1 DEF unmatched
    <3>3. man.top = Baseline.top
      BY <3>1
    <3>4. ASSUME NEW s \in both PROVE verdictOn(s) = "ok"
      <4>1. verdictOn(s) \in {"ok", "mismatch", "unverified"}
        BY ServiceChecked
      <4>2. verdictOn(s) # "mismatch" /\ verdictOn(s) # "unverified"
        <5> HIDE DEF verdictOn
        <5> QED
          BY <3>1
      <4> QED
        BY <4>1, <4>2
    <3>5. \A s \in DOMAIN Baseline.services : man.services[s].block = Baseline.services[s].block
      BY <3>2, <3>4, ServiceChecked
    <3>6. man.services["broker"].digest # empty /\ v[man.services["broker"].digest] = ReleaseAccepted
      BY <1>1, <3>4, ServiceChecked
    <3> QED
      BY <1>3, <3>2, <3>3, <3>5, <3>6 DEF confined, brokerIn
  <2>4. ASSUME c.Mismatches # {}, confined(m)
        PROVE  \E s \in both : verdictOn(s) = "mismatch"
    <3>1. apart = {} /\ top = {}
      BY <2>4 DEF confined, unmatched
    <3>2. wrong # {}
      <4> HIDE DEF apart, wrong, top
      <4> QED
        BY <2>2, <2>4, <3>1
    <3> HIDE DEF verdictOn
    <3> QED
      BY <3>2
  <2> QED
    BY <2>2, <2>3, <2>4
<1> QED
  BY <1>2, <1>3

(* A service whose build is judged at all is one the gate asked about.        *)
LEMMA MismatchedService ==
    ASSUME NEW m \in DOMAIN Manifests, confined(m), NEW v, NEW judges,
           NEW s \in DOMAIN Baseline.services \cap DOMAIN Manifests[m].services,
           NEW want, want = Baseline.services[s], NEW got, got = Manifests[m].services[s],
           checkService(want, got, v, judges) = "mismatch"
    PROVE  \/ ~got.pinnable
           \/ want.repository = empty /\ <<got.repo, got.digest>> # <<want.repo, want.digest>>
           \/ /\ want.repository # empty
              /\ got.digest = empty \/ got.repo # want.repository \/ judges \notin {empty, want.repository}
           \/ /\ want.repository # empty /\ got.digest \in Builds
              /\ got.digest \in asked(Baseline, Manifests[m])
              /\ v[got.digest] # ReleaseAccepted /\ v[got.digest] # ReleaseUnavailable
<1>1. got.block = want.block
  BY DEF confined
<1>2. \/ ~got.pinnable
      \/ want.repository = empty /\ <<got.repo, got.digest>> # <<want.repo, want.digest>>
      \/ /\ want.repository # empty
         /\ got.digest = empty \/ got.repo # want.repository \/ judges \notin {empty, want.repository}
      \/ /\ want.repository # empty /\ got.pinnable /\ got.digest # empty /\ got.repo = want.repository
         /\ v[got.digest] # ReleaseAccepted /\ v[got.digest] # ReleaseUnavailable
  BY <1>1, ServiceChecked
<1>3. ASSUME want.repository # empty, got.pinnable, got.digest # empty, got.repo = want.repository
      PROVE  got.digest \in Builds /\ got.digest \in asked(Baseline, Manifests[m])
  <2>1. got.digest \in Builds
    BY <1>3, EnforcementAssumption
  <2> DEFINE all == [d \in {got.digest} |-> ReleaseAccepted]
  <2>2. all[got.digest] = ReleaseAccepted
    OBVIOUS
  <2>3. checkService(want, got, all, empty) = "ok"
    <3>1. pinVerdict(ReleaseAccepted) = "ok"
      BY DEF pinVerdict, ReleaseAccepted, ReleaseUnavailable
    <3>2. pinVerdict(all[got.digest]) = "ok"
      BY <2>2, <3>1
    <3> HIDE DEF all
    <3> QED
      BY <1>1, <1>3, <3>2 DEF checkService, checkImage, pinsImageInBlock
  <2>4. s \in {t \in DOMAIN Baseline.services \cap DOMAIN Manifests[m].services :
                /\ ~pinsImageInBlock(Baseline.services[t])
                /\ checkService(Baseline.services[t], Manifests[m].services[t],
                                [d \in {Manifests[m].services[t].digest} |-> ReleaseAccepted], empty) = "ok"}
    BY <1>3, <2>3 DEF pinsImageInBlock
  <2>5. DOMAIN Baseline.services # {} /\ Manifests[m].load = "ok"
    BY DEF confined
  <2> QED
    BY <2>1, <2>4, <2>5 DEF asked
<1> QED
  BY <1>2, <1>3

(* The verdicts a judgement reads from the table.                             *)
LEMMA JudgedFairly ==
    ASSUME TableInv, VerdictsInv, NEW b \in Builds
    PROVE  judged[b] \in ReleaseVerdicts /\ Grounded(judged[b], b)
<1>1. judged[b] = IF ~conf.releases \/ heldVerdict(held, b) = NoVerdict THEN ReleaseUnavailable ELSE held[b].have
  BY DEF judged, Verify
<1>2. CASE judged[b] = ReleaseUnavailable
  BY <1>2 DEF ReleaseVerdicts, Grounded, ReleaseUnavailable, ReleaseAccepted, ReleaseRejected
<1>3. CASE judged[b] = held[b].have /\ heldVerdict(held, b) # NoVerdict
  <2>1. b \in DOMAIN held /\ held[b].have # NoVerdict
    BY <1>3 DEF heldVerdict
  <2>2. held[b].have \in ReleaseVerdicts
    BY <2>1 DEF TableInv, Judgements
  <2> QED
    BY <1>3, <2>1, <2>2 DEF VerdictsInv
<1> QED
  BY <1>1, <1>2, <1>3

LEMMA RuntimeJudged ==
    ASSUME TableInv, VerdictsInv, FactsInv, NEW x, x = judgeRuntime(judged)
    PROVE  x \in RuntimeVerdicts /\ RuntimeSays(x)
<1>1. PICK c : c = CheckRuntime(facts.state, judged, facts.signer, facts.encPub)
  OBVIOUS
<1>2. PICK v : v = judged
  OBVIOUS
<1>3. x = IF ~conf.releases THEN "not_checked"
          ELSE IF facts.state.err # empty THEN unread(facts.state.err)
          ELSE IF c.Failures # {} THEN "no_match"
          ELSE IF c.Unverified # {} THEN "unavailable"
          ELSE IF ~c.Release THEN "not_checked"
          ELSE "pass"
  BY <1>1, Zenon DEF judgeRuntime
<1>4. /\ c.Release <=> facts.state.Image # NoImage
      /\ c.Failures = {} /\ c.Unverified = {} /\ facts.state.Image # NoImage =>
            /\ facts.state.Image.signer = facts.signer /\ facts.state.Image.encPub = facts.encPub
            /\ v[facts.state.Image.digest] # ReleaseRejected /\ v[facts.state.Image.digest] # ReleaseUnavailable
      /\ c.Failures # {} =>
            \/ /\ facts.state.Image # NoImage
               /\ facts.state.Image.signer # facts.signer \/ facts.state.Image.encPub # facts.encPub
            \/ facts.state.Image # NoImage /\ v[facts.state.Image.digest] = ReleaseRejected
            \/ facts.state.Engines
  BY <1>1, <1>2, RuntimeChecked
<1>5. /\ unread(facts.state.err) \in {"unavailable", "no_match"}
      /\ unread(facts.state.err) = "no_match" => facts.state.err \notin {"ErrNoEventLog", "errReaderFailed"}
  BY DEF unread
<1>6. x \in RuntimeVerdicts
  BY <1>3, <1>5 DEF RuntimeVerdicts
<1>7. ASSUME x = "pass"
      PROVE  /\ facts.state.err = empty /\ facts.state.Image # NoImage
             /\ facts.state.Image.signer = facts.signer /\ facts.state.Image.encPub = facts.encPub
             /\ released(facts.state.Image.digest)
  <2>1. facts.state.err = empty /\ facts.state.Image # NoImage /\ c.Failures = {} /\ c.Unverified = {}
    BY <1>3, <1>4, <1>5, <1>7
  <2>2. facts.state.Image.digest \in Builds
    BY <2>1 DEF FactsInv, StateInv
  <2>3. v[facts.state.Image.digest] \in ReleaseVerdicts /\ Grounded(v[facts.state.Image.digest], facts.state.Image.digest)
    BY <1>2, <2>2, JudgedFairly
  <2>4. v[facts.state.Image.digest] = ReleaseAccepted
    BY <1>4, <2>1, <2>3 DEF ReleaseVerdicts
  <2> QED
    BY <1>4, <2>1, <2>3, <2>4 DEF Grounded
<1>8. x = "not_checked" /\ conf.releases => facts.state.err = empty /\ facts.state.Image = NoImage
  BY <1>3, <1>4, <1>5
<1>9. ASSUME x = "no_match"
      PROVE  \/ ~facts.served
             \/ ~facts.confined
             \/ facts.state.Image # NoImage /\ facts.state.Image.encPub # facts.encPub
             \/ facts.state.Image # NoImage /\ contradicted(facts.state.Image.digest)
  <2>1. CASE facts.state.err # empty
    <3>1. facts.state.err \notin {empty, "ErrNoEventLog", "errReaderFailed"}
      BY <1>3, <1>5, <1>9, <2>1
    <3> QED
      BY <3>1 DEF FactsInv, StateInv
  <2>2. CASE facts.state.err = empty
    <3>1. c.Failures # {}
      BY <1>3, <1>9, <2>2
    <3>2. facts.signer = facts.encPub /\ StateInv(facts)
      BY DEF FactsInv
    <3>3. CASE /\ facts.state.Image # NoImage
               /\ facts.state.Image.signer # facts.signer \/ facts.state.Image.encPub # facts.encPub
      BY <2>2, <3>2, <3>3 DEF StateInv
    <3>4. CASE facts.state.Image # NoImage /\ v[facts.state.Image.digest] = ReleaseRejected
      <4>1. facts.state.Image.digest \in Builds
        BY <2>2, <3>2, <3>4 DEF StateInv
      <4>2. Grounded(v[facts.state.Image.digest], facts.state.Image.digest)
        BY <1>2, <4>1, JudgedFairly
      <4>3. facts.state.Image.digest \in askedAbout
        BY <2>2, <3>4 DEF askedAbout, recordedBuild
      <4> QED
        BY <3>4, <4>2, <4>3 DEF Grounded
    <3>5. CASE facts.state.Engines
      BY <2>2, <3>2, <3>5 DEF StateInv
    <3> QED
      BY <1>4, <3>1, <3>3, <3>4, <3>5
  <2> QED
    BY <2>1, <2>2
<1> QED
  BY <1>6, <1>7, <1>8, <1>9, Zenon DEF RuntimeSays

LEMMA BaselineJudged ==
    ASSUME TableInv, VerdictsInv, FactsInv, NEW x, x = judgeBaseline(judged)
    PROVE  x \in BaselineVerdicts /\ BaselineSays(x)
<1>1. PICK j : j = IF conf.releases THEN Repository ELSE empty
  OBVIOUS
<1>2. PICK v : v = judged
  OBVIOUS
<1>3. PICK m : m = facts.manifest
  OBVIOUS
<1>4. PICK c : c = CheckReview(Baseline, Manifests[m], v, j)
  OBVIOUS
<1>5. x = IF ~conf.baseline THEN "not_checked"
          ELSE IF m = empty THEN "unavailable"
          ELSE IF ~c.Recorded THEN "no_baseline"
          ELSE IF c.Mismatches # {} THEN "no_match"
          ELSE IF c.Unverified # {} THEN "unavailable"
          ELSE "pass"
  BY <1>1, <1>2, <1>3, <1>4, Zenon DEF judgeBaseline
<1>6. x \in BaselineVerdicts
  BY <1>5 DEF BaselineVerdicts
<1>7. m # empty => m \in DOMAIN Manifests /\ (facts.confined <=> confined(m))
  BY <1>3 DEF FactsInv, ManifestInv
<1>8. ASSUME x = "pass"
      PROVE  m # empty /\ facts.confined /\ brokerIn(m) # empty /\ released(brokerIn(m))
  <2>1. m # empty /\ m \in DOMAIN Manifests /\ c.Mismatches = {} /\ c.Unverified = {}
    BY <1>5, <1>7, <1>8
  <2>2. confined(m) /\ brokerIn(m) # empty /\ v[brokerIn(m)] = ReleaseAccepted
    BY <1>4, <2>1, ReviewParts
  <2>3. brokerIn(m) \in Builds
    BY <2>1, <2>2, BrokerIsBuild
  <2>4. Grounded(v[brokerIn(m)], brokerIn(m))
    BY <1>2, <2>3, JudgedFairly
  <2> QED
    BY <1>7, <2>1, <2>2, <2>4 DEF Grounded
<1>9. ASSUME x = "no_match", facts.confined
      PROVE  \E s \in DOMAIN Baseline.services : differs(Baseline.services[s], Manifests[m].services[s])
  <2>1. m # empty /\ m \in DOMAIN Manifests /\ c.Mismatches # {} /\ conf.baseline /\ confined(m)
    BY <1>5, <1>7, <1>9
  <2>2. PICK s \in DOMAIN Baseline.services \cap DOMAIN Manifests[m].services :
           checkService(Baseline.services[s], Manifests[m].services[s], v, j) = "mismatch"
    <3>1. m \in DOMAIN Manifests /\ confined(m) /\ c.Mismatches # {}
      BY <2>1
    <3> QED
      BY <1>4, <3>1, ReviewParts, Zenon
  <2>3. PICK w : w = Baseline.services[s]
    OBVIOUS
  <2>4. PICK g : g = Manifests[m].services[s]
    OBVIOUS
  <2>5. \/ ~g.pinnable
        \/ w.repository = empty /\ <<g.repo, g.digest>> # <<w.repo, w.digest>>
        \/ /\ w.repository # empty
           /\ g.digest = empty \/ g.repo # w.repository \/ j \notin {empty, w.repository}
        \/ /\ w.repository # empty /\ g.digest \in Builds
           /\ g.digest \in asked(Baseline, Manifests[m])
           /\ v[g.digest] # ReleaseAccepted /\ v[g.digest] # ReleaseUnavailable
    BY <2>1, <2>2, <2>3, <2>4, MismatchedService
  <2>6. ASSUME g.digest \in Builds, g.digest \in asked(Baseline, Manifests[m]),
               v[g.digest] # ReleaseAccepted, v[g.digest] # ReleaseUnavailable
        PROVE  contradicted(g.digest)
    <3>1. v[g.digest] \in ReleaseVerdicts /\ Grounded(v[g.digest], g.digest)
      BY <1>2, <2>6, JudgedFairly
    <3>2. v[g.digest] = ReleaseRejected
      BY <2>6, <3>1 DEF ReleaseVerdicts
    <3>3. g.digest \in askedAbout
      BY <1>3, <2>1, <2>6 DEF askedAbout, pinnedBuilds
    <3> QED
      BY <3>1, <3>2, <3>3 DEF Grounded
  <2>7. j \notin {empty, w.repository} => conf.releases /\ w.repository # Repository
    BY <1>1
  <2>8. differs(w, g)
    BY <2>5, <2>6, <2>7, Zenon DEF differs
  <2> QED
    BY <2>3, <2>4, <2>8
<1> QED
  BY <1>3, <1>6, <1>8, <1>9, Zenon DEF BaselineSays

-----------------------------------------------------------------------------
(* The gate.                                                                  *)

LEMMA AsksBuilds ==
    ASSUME FactsInv
    PROVE  asks \in Seq(Builds)
<1>1. recordedBuild \subseteq Builds
  BY DEF recordedBuild, FactsInv, StateInv
<1>2. pinnedBuilds \subseteq Builds
  <2>1. CASE ~(conf.baseline /\ facts.manifest # empty)
    BY <2>1 DEF pinnedBuilds
  <2>2. CASE conf.baseline /\ facts.manifest # empty
    <3>1. PICK m \in DOMAIN Manifests : m = facts.manifest
      BY <2>2 DEF FactsInv, ManifestInv
    <3>2. ASSUME NEW d \in asked(Baseline, Manifests[m]) PROVE d \in Builds
      <4>1. PICK s \in DOMAIN Baseline.services \cap DOMAIN Manifests[m].services :
              /\ d = Manifests[m].services[s].digest /\ Baseline.services[s].repository # empty
              /\ checkService(Baseline.services[s], Manifests[m].services[s],
                              [x \in {Manifests[m].services[s].digest} |-> ReleaseAccepted], empty) = "ok"
        BY <3>2 DEF asked, pinsImageInBlock
      <4>2. d # empty
        BY <4>1, ServiceChecked
      <4> QED
        BY <4>1, <4>2, EnforcementAssumption
    <3> QED
      BY <2>2, <3>1, <3>2 DEF pinnedBuilds
  <2> QED
    BY <2>1, <2>2
<1>3. PICK R : R = recordedBuild
  OBVIOUS
<1>4. PICK P : P = pinnedBuilds
  OBVIOUS
<1>5. SetToSeq(R) \in Seq(R) /\ SetToSeq(P) \in Seq(P)
  <2>1. IsFiniteSet(R) /\ IsFiniteSet(P)
    BY <1>1, <1>2, <1>3, <1>4, BuildsAssumed, FS_Subset
  <2> QED
    BY <2>1, SetToSeqType
<1>6. PICK q : q = SetToSeq(R)
  OBVIOUS
<1>7. PICK p : p = SetToSeq(P)
  OBVIOUS
<1>8. q \in Seq(Builds) /\ p \in Seq(Builds)
  BY <1>1, <1>2, <1>3, <1>4, <1>5, <1>6, <1>7
<1>9. q \o p \in Seq(Builds)
  BY <1>8
<1> QED
  BY <1>3, <1>4, <1>6, <1>7, <1>9 DEF asks

(* A step of the request that neither judges nor touches the judge.           *)
LEMMA IdleGrows ==
    ASSUME UNCHANGED <<cvmVars, provVars>>
    PROVE  Grows /\ attached' = attached
BY DEF Grows, cvmVars, provVars

(* What every step after the quote leaves to prove.                           *)
AfterQuote == GivenInv /\ TableInv /\ FactsInv /\ VerdictsInv /\ CallInv /\ AuditInv /\ facts.taken = TRUE

LEMMA Together ==
    ASSUME AfterQuote, Grows, DOMAIN attached' = Builds, Bounded', VerdictsInv', call' \in CallType,
           RuntimeSays(call.rt)', BaselineSays(call.bl)', AuditInv', exit' \in {0, 1, 3, NotRun}
    PROVE  AfterQuote'
<1>1. facts' = facts /\ conf' = conf
  BY DEF Grows
<1>2. FactsInv' /\ facts'.taken = TRUE
  BY <1>1 DEF AfterQuote, FactsInv, StateInv, ManifestInv
<1>3. GivenInv'
  BY <1>1 DEF AfterQuote, GivenInv
<1>4. TableInv'
  <2>1. call'.pc \in {"idle", "gate", "judge", "done"}
    BY DEF CallType
  <2> QED
    BY <2>1 DEF TableInv, EnforcementTypeOK, Bounded
<1>5. CallInv'
  BY DEF CallInv
<1> QED
  BY <1>2, <1>3, <1>4, <1>5 DEF AfterQuote

LEMMA ExitTyped == TableInv => exit \in {0, 1, 3, NotRun}
BY DEF TableInv, EnforcementTypeOK

(* A step that leaves both judgements as they are.                            *)
LEMMA Unjudged ==
    ASSUME AfterQuote, Grows, DOMAIN attached' = Builds, Bounded', VerdictsInv', call' \in CallType,
           call'.rt = call.rt, call'.bl = call.bl, exit' = exit
    PROVE  AfterQuote'
<1>1. PICK x : x = call.rt
  OBVIOUS
<1>2. PICK y : y = call.bl
  OBVIOUS
<1>3. FactsInv /\ RuntimeSays(x) /\ BaselineSays(y) /\ AuditInv /\ TableInv
  BY <1>1, <1>2 DEF AfterQuote, CallInv
<1>4. RuntimeSays(x)' /\ BaselineSays(y)' /\ AuditInv'
  BY <1>3, SayingsStay
<1>5. call'.rt = x /\ call'.bl = y
  BY <1>1, <1>2
<1>6. RuntimeSays(call.rt)' /\ BaselineSays(call.bl)'
  BY <1>4, <1>5
<1>7. exit' \in {0, 1, 3, NotRun}
  BY <1>3, ExitTyped
<1> QED
  BY <1>4, <1>6, <1>7, Together

LEMMA RequestStep ==
    ASSUME AfterQuote, Request
    PROVE  AfterQuote'
<1>1. Grows /\ attached' = attached
  BY IdleGrows DEF Request
<1>2. FactsInv /\ TableInv /\ VerdictsInv /\ DOMAIN attached' = Builds
  BY <1>1 DEF AfterQuote, GivenInv
<1>3. Bounded' /\ VerdictsInv'
  BY <1>1, <1>2, JudgeStays DEF Request, judgeVars
<1>4. PICK q \in Seq(Builds) : q = IF conf.releases THEN asks ELSE <<>>
  <2>1. asks \in Seq(Builds)
    BY <1>2, AsksBuilds
  <2>2. <<>> \in Seq(Builds)
    OBVIOUS
  <2> QED
    BY <2>1, <2>2, Zenon
<1>5. call' = [pc |-> "gate", queue |-> q, missing |-> <<>>, rt |-> empty, bl |-> empty]
  BY <1>4 DEF Request, Idle
<1>6. call' \in CallType /\ call'.rt = empty /\ call'.bl = empty
  BY <1>5 DEF CallType
<1>7. RuntimeSays(call.rt)' /\ BaselineSays(call.bl)'
  <2>1. RuntimeSays(empty)' /\ BaselineSays(empty)'
    <3>1. empty \notin {"pass", "not_checked", "no_match"}
      BY DEF empty
    <3> QED
      BY <3>1 DEF RuntimeSays, BaselineSays
  <2> QED
    BY <1>6, <2>1
<1>8. exit' = exit
  BY DEF Request
<1>9. AuditInv' /\ exit' \in {0, 1, 3, NotRun}
  BY <1>1, <1>2, <1>8, SayingsStay, ExitTyped DEF AfterQuote
<1> QED
  BY <1>1, <1>2, <1>3, <1>6, <1>7, <1>9, Together


LEMMA AskStep ==
    ASSUME AfterQuote, NEW due \in BOOLEAN, Ask(due)
    PROVE  AfterQuote'
<1>1. Grows /\ attached' = attached
  BY IdleGrows DEF Ask
<1>2. TableInv /\ VerdictsInv /\ DOMAIN attached' = Builds /\ call \in CallType
  BY <1>1 DEF AfterQuote, GivenInv, CallInv
<1>3. PICK b : b = Head(call.queue)
  OBVIOUS
<1>4. call.queue \in Seq(Builds) /\ call.missing \in Seq(Builds) /\ call.queue # <<>>
  BY <1>2 DEF CallType, Ask
<1>5. b \in Builds /\ Tail(call.queue) \in Seq(Builds)
  BY <1>3, <1>4
<1>6. Bounded' /\ VerdictsInv'
  BY <1>1, <1>2, <1>3, <1>5, VerdictStep DEF Ask
<1>7. PICK z : z = IF heldVerdict(held', b) = NoVerdict THEN Append(call.missing, b) ELSE call.missing
  OBVIOUS
<1>8. z \in Seq(Builds)
  BY <1>4, <1>5, <1>7
<1>9. call' = [call EXCEPT !.queue = Tail(call.queue), !.missing = z]
  BY <1>3, <1>7 DEF Ask
<1>10. call' \in CallType /\ call'.rt = call.rt /\ call'.bl = call.bl
  BY <1>2, <1>5, <1>8, <1>9 DEF CallType
<1>11. exit' = exit
  BY DEF Ask
<1> QED
  BY <1>1, <1>2, <1>6, <1>10, <1>11, Unjudged

LEMMA AwaitStep ==
    ASSUME AfterQuote, NEW due \in BOOLEAN, await(due)
    PROVE  AfterQuote'
<1>1. Grows /\ attached' = attached
  BY IdleGrows DEF await
<1>2. TableInv /\ VerdictsInv /\ DOMAIN attached' = Builds /\ call \in CallType
  BY <1>1 DEF AfterQuote, GivenInv, CallInv
<1>3. PICK b : b = Head(call.missing)
  OBVIOUS
<1>4. call.missing \in Seq(Builds) /\ call.missing # <<>>
  BY <1>2 DEF CallType, await
<1>5. b \in Builds /\ Tail(call.missing) \in Seq(Builds)
  BY <1>3, <1>4
<1>6. Bounded' /\ VerdictsInv'
  BY <1>1, <1>2, <1>3, <1>5, VerdictStep DEF await
<1>7. PICK z : z = IF heldVerdict(held', b) = NoVerdict THEN call.missing ELSE Tail(call.missing)
  OBVIOUS
<1>8. z \in Seq(Builds)
  BY <1>4, <1>5, <1>7
<1>9. call' = [call EXCEPT !.missing = z]
  BY <1>3, <1>7 DEF await
<1>10. call' \in CallType /\ call'.rt = call.rt /\ call'.bl = call.bl
  BY <1>2, <1>8, <1>9 DEF CallType
<1>11. exit' = exit
  BY DEF await
<1> QED
  BY <1>1, <1>2, <1>6, <1>10, <1>11, Unjudged

LEMMA DeadlineStep ==
    ASSUME AfterQuote, Deadline
    PROVE  AfterQuote'
<1>1. Grows /\ attached' = attached
  BY IdleGrows DEF Deadline
<1>2. TableInv /\ VerdictsInv /\ DOMAIN attached' = Builds /\ call \in CallType
  BY <1>1 DEF AfterQuote, GivenInv, CallInv
<1>3. Bounded' /\ VerdictsInv'
  BY <1>1, <1>2, JudgeStays DEF Deadline, judgeVars
<1>4. call' \in CallType /\ call'.rt = call.rt /\ call'.bl = call.bl
  BY <1>2 DEF Deadline, CallType
<1>5. exit' = exit
  BY DEF Deadline
<1> QED
  BY <1>1, <1>2, <1>3, <1>4, <1>5, Unjudged

LEMMA JudgeRuntimeStep ==
    ASSUME AfterQuote, JudgeRuntime
    PROVE  AfterQuote'
<1>1. Grows /\ attached' = attached
  BY IdleGrows DEF JudgeRuntime
<1>2. FactsInv /\ TableInv /\ VerdictsInv /\ AuditInv /\ DOMAIN attached' = Builds /\ call \in CallType
  BY <1>1 DEF AfterQuote, GivenInv, CallInv
<1>3. Bounded' /\ VerdictsInv'
  BY <1>1, <1>2, JudgeStays DEF JudgeRuntime, judgeVars
<1>4. PICK x : x = judgeRuntime(judged)
  OBVIOUS
<1>5. x \in RuntimeVerdicts /\ RuntimeSays(x)
  BY <1>2, <1>4, RuntimeJudged
<1>6. PICK y : y = call.bl
  OBVIOUS
<1>7. BaselineSays(y)
  BY <1>6 DEF AfterQuote, CallInv
<1>8. call' = [call EXCEPT !.pc = "judge", !.rt = x]
  BY <1>4 DEF JudgeRuntime
<1>9. call' \in CallType /\ call'.rt = x /\ call'.bl = y
  BY <1>2, <1>5, <1>6, <1>8 DEF CallType
<1>10. exit' = exit
  BY DEF JudgeRuntime
<1>11. RuntimeSays(x)' /\ BaselineSays(y)' /\ AuditInv' /\ exit' \in {0, 1, 3, NotRun}
  BY <1>1, <1>2, <1>5, <1>7, <1>10, SayingsStay, ExitTyped
<1>12. RuntimeSays(call.rt)' /\ BaselineSays(call.bl)'
  BY <1>9, <1>11
<1> QED
  BY <1>1, <1>2, <1>3, <1>9, <1>11, <1>12, Together

LEMMA JudgeBaselineStep ==
    ASSUME AfterQuote, JudgeBaseline
    PROVE  AfterQuote'
<1>1. Grows /\ attached' = attached
  BY IdleGrows DEF JudgeBaseline
<1>2. FactsInv /\ TableInv /\ VerdictsInv /\ AuditInv /\ DOMAIN attached' = Builds /\ call \in CallType
  BY <1>1 DEF AfterQuote, GivenInv, CallInv
<1>3. Bounded' /\ VerdictsInv'
  BY <1>1, <1>2, JudgeStays DEF JudgeBaseline, judgeVars
<1>4. PICK y : y = judgeBaseline(judged)
  OBVIOUS
<1>5. y \in BaselineVerdicts /\ BaselineSays(y)
  BY <1>2, <1>4, BaselineJudged
<1>6. PICK x : x = call.rt
  OBVIOUS
<1>7. RuntimeSays(x)
  BY <1>6 DEF AfterQuote, CallInv
<1>8. call' = [call EXCEPT !.pc = "done", !.bl = y]
  BY <1>4 DEF JudgeBaseline
<1>9. call' \in CallType /\ call'.rt = x /\ call'.bl = y
  BY <1>2, <1>5, <1>6, <1>8 DEF CallType
<1>10. exit' = exit
  BY DEF JudgeBaseline
<1>11. RuntimeSays(x)' /\ BaselineSays(y)' /\ AuditInv' /\ exit' \in {0, 1, 3, NotRun}
  BY <1>1, <1>2, <1>5, <1>7, <1>10, SayingsStay, ExitTyped
<1>12. RuntimeSays(call.rt)' /\ BaselineSays(call.bl)'
  BY <1>9, <1>11
<1> QED
  BY <1>1, <1>2, <1>3, <1>9, <1>11, <1>12, Together

-----------------------------------------------------------------------------
(* The audit.                                                                 *)

LEMMA ExitZero ==
    ASSUME NEW f \in BOOLEAN, NEW s \in BOOLEAN, NEW strict \in BOOLEAN
    PROVE  /\ exitCode(f, s, strict) \in {0, 1, 3}
           /\ exitCode(f, s, strict) = 0 => ~f /\ ~s
BY DEF exitCode

(* What a report that ends in 0 found: the manifest read and matched, the log *)
(* read, nothing failed and nothing left open.                                *)
LEMMA ReportZero ==
    ASSUME FactsInv, facts.why # "reader", NEW v, NEW onchain, NEW boot, NEW strict \in BOOLEAN,
           NEW x, x = report(onchain, boot, v, strict),
           NEW man, man = CheckReview(Baseline, Manifests[facts.manifest], v, Repository),
           NEW rt, rt = CheckRuntime(facts.state, v, facts.signer, facts.encPub)
    PROVE  /\ x \in {0, 1, 3}
           /\ x = 0 => /\ facts.why = empty /\ man.Mismatches = {} /\ man.Unverified = {}
                       /\ facts.state.err = empty /\ rt.Failures = {} /\ rt.Unverified = {}
<1>1. PICK mf \in BOOLEAN : mf = (facts.why = "gate" \/ (facts.why = empty /\ man.Mismatches # {}))
  OBVIOUS
<1>2. PICK ms \in BOOLEAN : ms = (\/ facts.why \in {"no_hash", "absent"}
                                  \/ facts.why = empty /\ (~man.Recorded \/ man.Unverified # {}))
  OBVIOUS
<1>3. PICK rf \in BOOLEAN : rf = (\/ facts.state.err \notin {empty, "ErrNoEventLog"}
                                  \/ facts.state.err = empty /\ rt.Failures # {})
  OBVIOUS
<1>4. PICK rs \in BOOLEAN : rs = (\/ facts.state.err = "ErrNoEventLog"
                                  \/ facts.state.err = empty /\ rt.Unverified # {})
  OBVIOUS
<1>5. reportManifest(v) = [failed |-> mf, skipped |-> ms]
  BY <1>1, <1>2, Zenon DEF reportManifest
<1>6. reportRuntime(v) = [failed |-> rf, skipped |-> rs]
  BY <1>3, <1>4, Zenon DEF reportRuntime
<1>7. /\ reportManifest(v).failed = mf /\ reportManifest(v).skipped = ms
      /\ reportRuntime(v).failed = rf /\ reportRuntime(v).skipped = rs
  BY <1>5, <1>6
<1>8. PICK f \in BOOLEAN : f = (\/ onchain \in {"not_acknowledged", "another_signer"} \/ boot = "unlisted"
                                \/ mf \/ rf)
  OBVIOUS
<1>9. PICK s \in BOOLEAN : s = (boot = "unconfigured" \/ ms \/ rs)
  OBVIOUS
<1>10. x = exitCode(f, s, strict)
  BY <1>7, <1>8, <1>9, Zenon DEF report
<1>11. x \in {0, 1, 3} /\ (x = 0 => ~f /\ ~s)
  BY <1>10, ExitZero
<1>12. x = 0 => ~mf /\ ~rf /\ ~ms /\ ~rs
  BY <1>8, <1>9, <1>11
<1>13. facts.why \in {empty, "no_hash", "absent", "gate", "reader"}
  BY DEF FactsInv, ManifestInv
<1>14. x = 0 => facts.why = empty
  BY <1>1, <1>2, <1>12, <1>13
<1>15. x = 0 => facts.state.err = empty
  BY <1>3, <1>4, <1>12
<1> QED
  BY <1>1, <1>2, <1>3, <1>4, <1>11, <1>12, <1>14, <1>15

LEMMA PcVerifyStep ==
    ASSUME AfterQuote, NEW onchain, NEW boot, NEW strict \in BOOLEAN, PcVerify(onchain, boot, strict)
    PROVE  AfterQuote'
<1>1. Grows /\ attached' = attached
  BY IdleGrows DEF PcVerify
<1>2. FactsInv /\ TableInv /\ VerdictsInv /\ DOMAIN attached' = Builds /\ CallInv
  BY <1>1 DEF AfterQuote, GivenInv
<1>3. Bounded' /\ VerdictsInv'
  BY <1>1, <1>2, JudgeStays DEF PcVerify, judgeVars
<1>4. PICK v \in [Builds -> ReleaseVerdicts] :
         /\ \A b \in Builds : v[b] \in freshVerdicts(b)
         /\ exit' = report(onchain, boot, v, strict)
  BY DEF PcVerify, ReleaseVerdicts
<1>5. facts.why # "reader" /\ call' = call
  BY DEF PcVerify
<1>6. ASSUME NEW b \in Builds, v[b] = ReleaseAccepted PROVE released(b)
  <2>1. PICK registry \in {"up", "down", "garbled"}, r \in {"current", "snapshot"} : v[b] = check(b, registry, r)
    BY <1>4 DEF freshVerdicts
  <2> QED
    BY <1>6, <2>1, CheckAnswers
<1>7. PICK m : m = facts.manifest
  OBVIOUS
<1>8. PICK man : man = CheckReview(Baseline, Manifests[facts.manifest], v, Repository)
  OBVIOUS
<1>9. PICK rt : rt = CheckRuntime(facts.state, v, facts.signer, facts.encPub)
  OBVIOUS
<1>10. /\ exit' \in {0, 1, 3}
       /\ exit' = 0 => /\ facts.why = empty /\ man.Mismatches = {} /\ man.Unverified = {}
                       /\ facts.state.err = empty /\ rt.Failures = {} /\ rt.Unverified = {}
  BY <1>2, <1>4, <1>5, <1>8, <1>9, ReportZero
<1>11. ASSUME exit' = 0
       PROVE  facts.confined /\ released(facts.encPub) /\ released(facts.signer)
  <2>1. /\ facts.signer = facts.encPub /\ StateInv(facts)
        /\ m \in DOMAIN Manifests /\ m # empty /\ (facts.confined <=> confined(m))
    BY <1>2, <1>7, <1>10, <1>11 DEF FactsInv, ManifestInv
  <2>2. confined(m) /\ brokerIn(m) # empty /\ v[brokerIn(m)] = ReleaseAccepted
    <3>1. m \in DOMAIN Manifests
      BY <2>1
    <3>2. man = CheckReview(Baseline, Manifests[m], v, Repository)
      BY <1>7, <1>8, Zenon
    <3>3. man.Mismatches = {} /\ man.Unverified = {}
      BY <1>10, <1>11
    <3> QED
      BY <3>1, <3>2, <3>3, ReviewParts, Zenon
  <2>3. CASE facts.state.Image = NoImage
    <3>1. brokerIn(m) = facts.encPub
      BY <1>7, <1>10, <1>11, <2>1, <2>2, <2>3 DEF StateInv
    <3>2. released(brokerIn(m))
      BY <1>6, <2>1, <2>2, BrokerIsBuild
    <3> QED
      BY <2>1, <2>2, <3>1, <3>2
  <2>4. CASE facts.state.Image # NoImage
    <3>1. /\ facts.state.Image.encPub = facts.encPub
          /\ v[facts.state.Image.digest] # ReleaseRejected /\ v[facts.state.Image.digest] # ReleaseUnavailable
      BY <1>9, <1>10, <1>11, <2>4, RuntimeChecked
    <3>2. facts.state.Image.digest \in Builds /\ facts.state.Image.encPub = facts.state.Image.digest
      BY <1>10, <1>11, <2>1, <2>2, <2>4 DEF StateInv
    <3>3. v[facts.state.Image.digest] = ReleaseAccepted
      BY <3>1, <3>2 DEF ReleaseVerdicts
    <3>4. released(facts.state.Image.digest)
      BY <1>6, <3>2, <3>3
    <3> QED
      BY <2>1, <2>2, <3>1, <3>2, <3>4
  <2> QED
    BY <2>3, <2>4
<1>12. AuditInv'
  <2>1. facts' = facts /\ attached' = attached
    BY <1>1 DEF Grows
  <2> QED
    BY <1>11, <2>1 DEF AuditInv, released
<1>13. PICK y : y = call.rt
  OBVIOUS
<1>14. PICK z : z = call.bl
  OBVIOUS
<1>15. RuntimeSays(y)' /\ BaselineSays(z)'
  BY <1>1, <1>2, <1>13, <1>14, SayingsStay DEF CallInv
<1>16. RuntimeSays(call.rt)' /\ BaselineSays(call.bl)'
  <2>1. call'.rt = y /\ call'.bl = z
    BY <1>5, <1>13, <1>14
  <2> QED
    BY <1>15, <2>1
<1>17. call' \in CallType
  BY <1>2, <1>5 DEF CallInv
<1>18. exit' \in {0, 1, 3, NotRun}
  BY <1>10
<1> QED
  BY <1>1, <1>2, <1>3, <1>12, <1>16, <1>17, <1>18, Together

-----------------------------------------------------------------------------
LEMMA EnforcementStarts == EnforcementInit => EnforceInv
<1> SUFFICES ASSUME EnforcementInit PROVE EnforceInv
  OBVIOUS
<1>1. PICK m \in DOMAIN Manifests, b \in Builds : \E mr \in Reports(m) :
        /\ Manifests[m].services["broker"].digest \in {empty, b}
        /\ cvm = [manifest |-> m, mr |-> mr, rtmr3 |-> bootLog(m), next |-> empty, running |-> b]
  BY DEF EnforcementInit
<1>2. PICK mr \in Reports(m) :
        cvm = [manifest |-> m, mr |-> mr, rtmr3 |-> bootLog(m), next |-> empty, running |-> b]
  BY <1>1
<1>3. PICK log : log = bootLog(m)
  OBVIOUS
<1>4. LogInv(log) /\ Len(log) = 5 /\ log \in Seq(Entries)
  BY <1>3, BootLogInv DEF LogInv
<1>5. mr.hash = m
  BY EnforcementAssumption
<1>6. /\ cvm \in CvmType
      /\ cvm.manifest = m /\ cvm.mr = mr /\ cvm.rtmr3 = log /\ cvm.next = empty /\ cvm.running = b
  BY <1>2, <1>3, <1>4 DEF CvmType
<1>7. ControlledInv(cvm)
  <2>1. 6..Len(log) = {}
    BY <1>4
  <2>2. brokerIn(m) \in {empty, b}
    BY <1>1 DEF brokerIn
  <2>3. \A i \in 6..Len(cvm.rtmr3) : controllers(cvm.rtmr3[i])
    BY <1>6, <2>1
  <2>4. cvm.next = empty /\ brokerIn(cvm.manifest) \in {empty, cvm.running}
    BY <1>6, <2>2
  <2> QED
    BY <2>3, <2>4 DEF ControlledInv
<1>8. CvmInv
  BY <1>4, <1>5, <1>6, <1>7 DEF CvmInv
<1>9. Quiet /\ facts.taken = FALSE
  BY DEF EnforcementInit, Quiet, NoFacts
<1>10. GivenInv
  BY DEF EnforcementInit, GivenInv
<1>11. TableInv
  <2>1. DOMAIN held = {} /\ DOMAIN checks = {}
    BY <1>9 DEF Quiet
  <2>2. Cardinality(DOMAIN held) <= maxJudgedReleases /\ Cardinality(DOMAIN checks) <= maxReleaseChecks
    BY <2>1, FS_EmptySet, EnforcementAssumption
  <2>3. held \in [DOMAIN held -> Judgements] /\ checks \in [DOMAIN checks -> ReleaseVerdicts \cup {NoVerdict}]
    <3>1. held = [k \in {} |-> k] /\ checks = [k \in {} |-> k]
      BY <1>9 DEF Quiet
    <3> QED
      BY <2>1, <3>1
  <2>4. call.pc = "idle" /\ exit = NotRun
    BY <1>9 DEF Quiet, Idle
  <2> QED
    BY <2>1, <2>2, <2>3, <2>4 DEF TableInv, EnforcementTypeOK
<1> QED
  BY <1>8, <1>9, <1>10, <1>11 DEF EnforceInv

LEMMA AfterIsInv ==
    ASSUME AfterQuote'
    PROVE  EnforceInv'
BY DEF AfterQuote, EnforceInv

(* Before the quote nothing but the CVM moves.                                *)
LEMMA BeforeQuote ==
    ASSUME EnforceInv, ~facts.taken, CvmInv', UNCHANGED <<conf, facts, provVars, judgeVars, call, exit>>
    PROVE  EnforceInv'
<1>1. Quiet' /\ GivenInv' /\ TableInv'
  BY DEF EnforceInv, Quiet, GivenInv, TableInv, EnforcementTypeOK, provVars, judgeVars
<1> QED
  BY <1>1 DEF EnforceInv

LEMMA ProviderStep ==
    ASSUME EnforceInv, Provider
    PROVE  EnforceInv'
<1>1. ASSUME NEW b \in Builds, RecordImage(b) PROVE EnforceInv'
  <2>1. ~facts.taken /\ UNCHANGED <<conf, facts, provVars, judgeVars, call, exit>>
    BY <1>1 DEF RecordImage, room
  <2>2. CvmInv'
    BY <1>1, <2>1, RecordImageStep DEF EnforceInv
  <2> QED
    BY <2>1, <2>2, BeforeQuote
<1>2. ASSUME NEW b \in Builds, RunUnrecorded(b) PROVE EnforceInv'
  <2>1. ~facts.taken /\ UNCHANGED <<conf, facts, provVars, judgeVars, call, exit>>
    BY <1>2 DEF RunUnrecorded
  <2>2. CvmInv'
    BY <1>2, <2>1, RunUnrecordedStep DEF EnforceInv
  <2> QED
    BY <2>1, <2>2, BeforeQuote
<1>3. ASSUME NEW runs \in BOOLEAN, SwapImage(runs) PROVE EnforceInv'
  <2>1. ~facts.taken /\ UNCHANGED <<conf, facts, provVars, judgeVars, call, exit>>
    BY <1>3 DEF SwapImage
  <2>2. CvmInv'
    BY <1>3, <2>1, SwapImageStep DEF EnforceInv
  <2> QED
    BY <2>1, <2>2, BeforeQuote
<1>4. ASSUME NEW e \in otherRecords \cup rogueRecords, WriteRecord(e) PROVE EnforceInv'
  <2>1. ~facts.taken /\ UNCHANGED <<conf, facts, provVars, judgeVars, call, exit>>
    BY <1>4 DEF WriteRecord, room
  <2>2. CvmInv'
    BY <1>4, <2>1, WriteRecordStep DEF EnforceInv
  <2> QED
    BY <2>1, <2>2, BeforeQuote
<1>5. ASSUME NEW said, NEW ac, NEW panics \in BOOLEAN, VerifyQuote(said, ac, panics) PROVE EnforceInv'
  <2>1. ~facts.taken /\ UNCHANGED <<conf, provVars, judgeVars, call, exit>>
    BY <1>5 DEF VerifyQuote
  <2>2. CvmInv /\ Quiet /\ GivenInv /\ TableInv
    BY <2>1 DEF EnforceInv
  <2>3. facts'.taken = TRUE /\ FactsInv'
    BY <1>5, <2>2, VerifyQuoteStep
  <2>4. GivenInv' /\ TableInv' /\ Quiet'
    BY <2>1, <2>2 DEF GivenInv, TableInv, EnforcementTypeOK, Quiet, provVars, judgeVars
  <2>5. VerdictsInv'
    <3>1. DOMAIN held' = {} /\ DOMAIN checks' = {}
      BY <2>4 DEF Quiet
    <3> QED
      BY <3>1 DEF VerdictsInv
  <2>6. AuditInv'
    BY <2>4 DEF Quiet, AuditInv, NotRun
  <2>7. CallInv'
    <3>1. call' = [pc |-> "idle", queue |-> <<>>, missing |-> <<>>, rt |-> empty, bl |-> empty]
      BY <2>4 DEF Quiet, Idle
    <3>2. call' \in CallType /\ call'.rt = empty /\ call'.bl = empty
      BY <3>1 DEF CallType
    <3>3. empty \notin {"pass", "not_checked", "no_match"}
      BY DEF empty
    <3>4. RuntimeSays(empty)' /\ BaselineSays(empty)'
      BY <3>3 DEF RuntimeSays, BaselineSays
    <3> QED
      BY <3>2, <3>4 DEF CallInv
  <2> QED
    BY <2>3, <2>4, <2>5, <2>6, <2>7 DEF EnforceInv
<1> QED
  BY <1>1, <1>2, <1>3, <1>4, <1>5 DEF Provider

LEMMA BackgroundStep ==
    ASSUME AfterQuote, Registry \/ Background
    PROVE  AfterQuote'
<1>1. GivenInv /\ TableInv /\ VerdictsInv /\ call \in CallType
  BY DEF AfterQuote, CallInv
<1>2. ASSUME NEW b \in Builds, NEW kind, Upload(b, kind) PROVE AfterQuote'
  <2>1. Grows /\ DOMAIN attached' = Builds
    BY <1>1, <1>2, UploadGrows
  <2>2. UNCHANGED <<held, checks>> /\ call' = call /\ exit' = exit
    BY <1>2 DEF Upload, judgeVars
  <2>3. Bounded' /\ VerdictsInv'
    BY <1>1, <2>1, <2>2, JudgeStays
  <2> QED
    BY <1>1, <2>1, <2>2, <2>3, Unjudged
<1>3. ASSUME NEW b \in Builds, Observe(b) PROVE AfterQuote'
  <2>1. Grows /\ attached' = attached
    BY <1>3, IdleGrows DEF Observe
  <2>2. call' = call /\ exit' = exit /\ verdict(b, TRUE)
    BY <1>3 DEF Observe
  <2>3. Bounded' /\ VerdictsInv'
    BY <1>1, <2>1, <2>2, VerdictStep
  <2>4. DOMAIN attached' = Builds
    BY <1>1, <2>1 DEF GivenInv
  <2> QED
    BY <1>1, <2>1, <2>2, <2>3, <2>4, Unjudged
<1>4. ASSUME NEW b \in DOMAIN checks, CheckDone(b) PROVE AfterQuote'
  <2>1. Grows /\ attached' = attached
    BY <1>4, IdleGrows DEF CheckDone
  <2>2. call' = call /\ exit' = exit
    BY <1>4 DEF CheckDone
  <2>3. Bounded' /\ VerdictsInv'
    BY <1>1, <1>4, <2>1, CheckDoneStep
  <2>4. DOMAIN attached' = Builds
    BY <1>1, <2>1 DEF GivenInv
  <2> QED
    BY <1>1, <2>1, <2>2, <2>3, <2>4, Unjudged
<1>5. ASSUME NEW b \in DOMAIN checks, NEW registry \in {"up", "down", "garbled"}, NEW r \in trust,
             VerifyAsks(b, registry, r)
      PROVE  AfterQuote'
  <2>1. Grows /\ Bounded' /\ VerdictsInv'
    BY <1>1, <1>5, VerifyAsksStep
  <2>2. call' = call /\ exit' = exit /\ attached' = attached
    BY <1>5 DEF VerifyAsks
  <2>3. DOMAIN attached' = Builds
    BY <1>1, <2>2 DEF GivenInv
  <2> QED
    BY <1>1, <2>1, <2>2, <2>3, Unjudged
<1> QED
  BY <1>2, <1>3, <1>4, <1>5 DEF Registry, Background

LEMMA EnforcementSteps == EnforceInv /\ [EnforcementNext]_enforcementVars => EnforceInv'
<1> SUFFICES ASSUME EnforceInv, [EnforcementNext]_enforcementVars PROVE EnforceInv'
  OBVIOUS
<1>1. facts.taken => AfterQuote
  BY DEF EnforceInv, AfterQuote
<1>2. CASE Provider
  BY <1>2, ProviderStep
<1>3. CASE facts.taken /\ (Registry \/ Background)
  BY <1>1, <1>3, BackgroundStep, AfterIsInv
<1>4. CASE facts.taken /\ Gate
  <2>1. AfterQuote'
    BY <1>1, <1>4, RequestStep, DeadlineStep, JudgeRuntimeStep, JudgeBaselineStep, AskStep, AwaitStep DEF Gate
  <2> QED
    BY <2>1, AfterIsInv
<1>5. CASE Audit
  <2>1. PICK onchain, boot : \E strict \in BOOLEAN : PcVerify(onchain, boot, strict)
    BY <1>5 DEF Audit
  <2>2. AfterQuote
    BY <1>1, <2>1 DEF PcVerify
  <2>3. AfterQuote'
    BY <2>1, <2>2, PcVerifyStep
  <2> QED
    BY <2>3, AfterIsInv
<1>6. CASE UNCHANGED enforcementVars
  <2>1. CASE ~facts.taken
    <3>1. CvmInv'
      BY <1>6, <2>1 DEF EnforceInv, CvmInv, enforcementVars
    <3>2. UNCHANGED <<conf, facts, provVars, judgeVars, call, exit>>
      BY <1>6 DEF enforcementVars, provVars, judgeVars
    <3> QED
      BY <2>1, <3>1, <3>2, BeforeQuote
  <2>2. CASE facts.taken
    <3>1. /\ Grows /\ attached' = attached /\ call' = call /\ exit' = exit
          /\ UNCHANGED <<held, checks>>
      BY <1>6 DEF enforcementVars, Grows
    <3>2. AfterQuote /\ TableInv /\ VerdictsInv /\ GivenInv /\ call \in CallType
      BY <1>1, <2>2 DEF AfterQuote, CallInv
    <3>3. Bounded' /\ VerdictsInv'
      BY <3>1, <3>2, JudgeStays
    <3>4. DOMAIN attached' = Builds
      BY <3>1, <3>2 DEF GivenInv
    <3>5. AfterQuote'
      BY <3>1, <3>2, <3>3, <3>4, Unjudged
    <3> QED
      BY <3>5, AfterIsInv
  <2> QED
    BY <2>1, <2>2
<1> QED
  BY <1>2, <1>3, <1>4, <1>5, <1>6 DEF EnforcementNext

LEMMA EnforcementInvariant == EnforcementSpec => []EnforceInv
<1>1. EnforcementInit => EnforceInv
  BY EnforcementStarts
<1>2. EnforceInv /\ [EnforcementNext]_enforcementVars => EnforceInv'
  BY EnforcementSteps
<1> QED
  BY <1>1, <1>2, PTL DEF EnforcementSpec

(* Whatever the host serves, whatever a container wrote and however verdicts  *)
(* come and go: what passes the gate (enforce.go), or what pcverify -provider *)
(* ends in 0 for, runs the recorded deployment, and requests are sealed to    *)
(* the keys of a released build.  For any builds, manifests, bundles, table   *)
(* and slots.                                                                 *)
THEOREM VouchedIsReleasedHolds == EnforcementSpec => []VouchedIsReleased
<1>1. EnforceInv => VouchedIsReleased
  <2> SUFFICES ASSUME EnforceInv, providerPasses \/ exit = 0
               PROVE  facts.confined /\ released(facts.encPub) /\ released(facts.signer)
    BY DEF VouchedIsReleased, EnforceInv, TableInv
  <2>1. facts.taken
    <3>1. Quiet => call.pc = "idle" /\ exit = 9
      BY DEF Quiet, Idle, NotRun
    <3> QED
      BY <3>1 DEF EnforceInv, providerPasses
  <2>2. /\ FactsInv /\ CallInv /\ AuditInv /\ StateInv(facts) /\ facts.signer = facts.encPub
        /\ RuntimeSays(call.rt) /\ BaselineSays(call.bl)
    BY <2>1 DEF EnforceInv, FactsInv, CallInv
  <2>3. CASE exit = 0
    BY <2>2, <2>3 DEF AuditInv
  <2>4. CASE providerPasses
    <3>1. /\ facts.manifest # empty /\ facts.confined
          /\ brokerIn(facts.manifest) # empty /\ released(brokerIn(facts.manifest))
      BY <2>2, <2>4 DEF providerPasses, BaselineSays
    <3>2. CASE call.rt = "pass"
      <4>1. /\ facts.state.err = empty /\ facts.state.Image # NoImage
            /\ facts.state.Image.encPub = facts.encPub /\ released(facts.state.Image.digest)
        BY <2>2, <3>2 DEF RuntimeSays
      <4>2. facts.state.Image.encPub = facts.state.Image.digest
        BY <2>2, <3>1, <4>1 DEF StateInv
      <4> QED
        BY <2>2, <3>1, <4>1, <4>2
    <3>3. CASE call.rt = "not_checked" /\ conf.releases
      <4>1. facts.state.err = empty /\ facts.state.Image = NoImage
        BY <2>2, <3>3 DEF RuntimeSays
      <4>2. brokerIn(facts.manifest) = facts.encPub
        BY <2>2, <3>1, <4>1 DEF StateInv
      <4> QED
        BY <2>2, <3>1, <4>2
    <3> QED
      BY <2>4, <3>2, <3>3 DEF providerPasses
  <2> QED
    BY <2>3, <2>4
<1> QED
  BY <1>1, EnforcementInvariant, PTL

(* no_match (runtimerelease.go judgeRuntime, composebaseline.go judgeBaseline) *)
(* is said of a provider only on evidence about it, never because a registry, *)
(* the trust root, the reader, the table or the slots failed us.              *)
THEOREM OutagesAccuseNobodyHolds == EnforcementSpec => []OutagesAccuseNobody
<1>1. EnforceInv => OutagesAccuseNobody
  <2> SUFFICES ASSUME EnforceInv PROVE OutagesAccuseNobody
    OBVIOUS
  <2>1. CASE ~facts.taken
    <3>1. call.rt = empty /\ call.bl = empty
      BY <2>1 DEF EnforceInv, Quiet, Idle
    <3>2. empty # "no_match"
      BY DEF empty
    <3> QED
      BY <3>1, <3>2 DEF OutagesAccuseNobody
  <2>2. CASE facts.taken
    BY <2>2, Zenon DEF EnforceInv, CallInv, RuntimeSays, BaselineSays, OutagesAccuseNobody
  <2> QED
    BY <2>1, <2>2
<1> QED
  BY <1>1, EnforcementInvariant, PTL
=============================================================================
