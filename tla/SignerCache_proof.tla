--------------------------- MODULE SignerCache_proof ---------------------------
(***************************************************************************)
(* Proofs about SignerCache, for every number of callers and providers,    *)
(* every length of the three windows and of a live read, and every cap.    *)
(***************************************************************************)
EXTENDS SignerCache, FiniteSetTheorems, TLAPS

-----------------------------------------------------------------------------
(* The inductive invariant.                                                   *)
Entry   == [read : Int, expires : Nat]
Failure == [at : Int, why : {"none", "chain"}]
Flight  == [st : {"none", "reading", "read", "stored", "landing"}, began : Nat, read : Int]
CallRec == [st : {"idle", "load", "cooldown", "grace", "join", "wait", "landed", "failed", "note"},
            op : {"ack", "refresh"}, prov : Providers, began : Nat, now : Nat, made : Nat,
            live : BOOLEAN, got : Int, ans : Answers]

Typed ==
    /\ clock \in Nat /\ clock <= MaxTime
    /\ entries \in [Providers -> Entry]
    /\ failures \in [Providers -> Failure]
    /\ flight \in [Providers -> Flight]
    /\ call \in [Callers -> CallRec]

(* An entry was read no more than one live read before it was stored.         *)
EntryInv(e) ==
    /\ e.read >= None /\ e.read <= clock /\ e.expires <= clock + TTL
    /\ e # NoEntry => e.read >= 0 /\ e.expires <= e.read + ReadMax + TTL

FailureInv(f) == f.at >= None /\ f.at <= clock

(* A flight's reading was made while it lasted, and it lasts ReadMax at most. *)
FlightInv(f) ==
    /\ f.began <= clock /\ f.read >= None /\ f.read <= clock
    /\ f.st # "none" => clock - f.began <= ReadMax
    /\ f.st \in {"read", "stored"} => f.read >= f.began
    /\ f.st = "landing" => f.read = None \/ f.read >= f.began
    /\ f.st \in {"none", "reading"} => f.read = None

(* How old the reading in an answer is, counted from the caller's decision.   *)
InDate(a, now) ==
    a.ok => now - a.read <= IF ~a.cached THEN ReadMax
                            ELSE IF a.stale THEN TTL + Grace + ReadMax
                            ELSE TTL + ReadMax

(* A call under way has no answer yet; a refresh never reaches the cache.     *)
CallInv(k) ==
    /\ k.began <= k.now /\ k.now <= clock
    /\ k.st # "idle" => ~k.ans.ok
    /\ k.op = "refresh" => k.st \notin {"load", "cooldown", "grace"}
    /\ k.st = "landed" => k.got >= 0 /\ k.got <= clock /\ k.now - k.got <= ReadMax
    /\ InDate(k.ans, k.now)
    /\ (k.op = "refresh" /\ k.ans.ok) => ~k.ans.cached /\ ~k.ans.stale

CacheInv ==
    /\ Typed
    /\ \A p \in Providers : EntryInv(entries[p]) /\ FailureInv(failures[p]) /\ FlightInv(flight[p])
    /\ \A c \in Callers : CallInv(call[c])
    /\ MapsBounded

-----------------------------------------------------------------------------
(* room, sweepExpired and put.                                                *)

LEMMA Constants ==
    /\ TTL \in Nat /\ TTL > 0 /\ Grace \in Nat /\ Cooldown \in Nat /\ ReadMax \in Nat
    /\ MaxTracked \in Nat /\ MaxTracked > 0 /\ MaxTime \in Nat /\ None = -1
    /\ IsFiniteSet(Providers) /\ Providers # {}
BY CacheAssumption DEF None

(* A write leaves every key as it was, empty, or, the one written, as given.  *)
LEMMA PutShape ==
    ASSUME NEW S, NEW m \in [Providers -> S], NEW empty \in S, NEW v \in S,
           NEW deadline, NEW now, NEW key \in Providers
    PROVE  /\ put(m, empty, deadline, now, key, v) \in [Providers -> S]
           /\ \A p \in Providers : put(m, empty, deadline, now, key, v)[p] \in {m[p], empty, v}
BY DEF put, swept

(* It never empties a key whose entry can still be used.                      *)
LEMMA PutKeeps ==
    ASSUME NEW S, NEW m \in [Providers -> S], NEW empty \in S, NEW v \in S, v # empty,
           NEW deadline, NEW now, NEW key \in Providers,
           NEW p \in Providers, m[p] # empty, p \in held(m) => ~(now >= deadline[p])
    PROVE  put(m, empty, deadline, now, key, v)[p] # empty
<1>1. swept(m, empty, deadline, now)[p] = m[p]
  BY DEF swept, inert
<1>2. swept(m, empty, deadline, now) \in [Providers -> S]
  BY DEF swept
<1> QED BY <1>1, <1>2 DEF put

(* It keeps the map inside its cap.                                           *)
LEMMA PutBounded ==
    ASSUME NEW S, NEW m \in [Providers -> S], NEW empty \in {NoEntry, NoFail}, empty \in S, NEW v \in S,
           NEW deadline, NEW now, NEW key \in Providers, Cardinality(held(m)) <= MaxTracked
    PROVE  Cardinality(held(put(m, empty, deadline, now, key, v))) <= MaxTracked
<1> DEFINE s == swept(m, empty, deadline, now)
<1>1. ASSUME NEW x \in [Providers -> S] PROVE IsFiniteSet(held(x)) /\ Cardinality(held(x)) \in Nat
  BY Constants, FS_Subset, FS_CardinalityType DEF held
<1>2. s \in [Providers -> S] /\ held(s) \subseteq held(m)
  BY DEF swept, held
<1>3. ASSUME NEW x \in [Providers -> S], Cardinality(held(x)) < MaxTracked
      PROVE  Cardinality(held([x EXCEPT ![key] = v])) <= MaxTracked
  <2> DEFINE y == [x EXCEPT ![key] = v]
  <2>1. held(y) \subseteq held(x) \cup {key} /\ y \in [Providers -> S]
    BY DEF held
  <2>2. IsFiniteSet(held(x) \cup {key}) /\ Cardinality(held(x) \cup {key}) <= Cardinality(held(x)) + 1
    <3>1. IsFiniteSet(held(x)) /\ Cardinality(held(x)) \in Nat
      BY <1>1
    <3>2. /\ IsFiniteSet(held(x) \cup {key})
          /\ \/ Cardinality(held(x) \cup {key}) = Cardinality(held(x))
             \/ Cardinality(held(x) \cup {key}) = Cardinality(held(x)) + 1
      BY <3>1, FS_AddElement
    <3> QED BY <3>1, <3>2
  <2>3. Cardinality(held(y)) <= Cardinality(held(x) \cup {key})
    BY <2>1, <2>2, FS_Subset
  <2>4. Cardinality(held(y)) \in Nat /\ Cardinality(held(x)) \in Nat /\ Cardinality(held(x) \cup {key}) \in Nat
    BY <1>1, <2>1, <2>2, FS_CardinalityType
  <2> QED BY <1>3, <2>2, <2>3, <2>4, Constants
<1>4. ASSUME key \in held(m) PROVE Cardinality(held([m EXCEPT ![key] = v])) <= MaxTracked
  <2> DEFINE y == [m EXCEPT ![key] = v]
  <2>1. held(y) \subseteq held(m) /\ y \in [Providers -> S]
    BY <1>4 DEF held
  <2>2. Cardinality(held(y)) <= Cardinality(held(m))
    BY <1>1, <2>1, FS_Subset
  <2>3. Cardinality(held(y)) \in Nat /\ Cardinality(held(m)) \in Nat
    BY <1>1, <2>1
  <2> HIDE DEF y
  <2>4. Cardinality(held(y)) <= MaxTracked
    BY <2>2, <2>3, Constants
  <2> QED BY <2>4 DEF y
<1>5. Cardinality(held(s)) <= MaxTracked
  <2>1. Cardinality(held(s)) <= Cardinality(held(m))
    BY <1>1, <1>2, FS_Subset
  <2> QED BY <1>1, <1>2, <2>1, Constants
<1>6. ASSUME NEW x \in [Providers -> S], ~full(x) PROVE Cardinality(held(x)) < MaxTracked
  BY <1>1, <1>6, Constants DEF full
<1> HIDE DEF s
<1> QED BY <1>2, <1>3, <1>4, <1>5, <1>6 DEF put, s

-----------------------------------------------------------------------------
(* The invariant, one lemma per step.                                         *)

(* What a step of one caller has to show.                                     *)
Settled(c, k) ==
    /\ call' = [call EXCEPT ![c] = k]
    /\ k \in CallRec /\ CallInv(k)
    /\ UNCHANGED clock

LEMMA CallersKept ==
    ASSUME CacheInv, NEW c \in Callers, NEW k, Settled(c, k)
    PROVE  /\ call' \in [Callers -> CallRec]
           /\ \A d \in Callers : CallInv(call[d])'
<1>1. call' \in [Callers -> CallRec]
  BY DEF CacheInv, Typed, Settled
<1>2. ASSUME NEW d \in Callers PROVE CallInv(call'[d])
  BY <1>2 DEF CacheInv, Typed, Settled
<1> QED BY <1>1, <1>2 DEF CallInv, InDate, Settled

LEMMA CallerOnly ==
    ASSUME CacheInv, NEW c \in Callers, NEW k, Settled(c, k), UNCHANGED <<entries, failures, flight>>
    PROVE  CacheInv'
<1>1. call' \in [Callers -> CallRec] /\ \A d \in Callers : CallInv(call[d])'
  BY CallersKept
<1>2. Typed'
  BY <1>1 DEF CacheInv, Typed, Settled
<1>3. \A p \in Providers : EntryInv(entries[p])' /\ FailureInv(failures[p])' /\ FlightInv(flight[p])'
  BY DEF CacheInv, Settled, EntryInv, FailureInv, FlightInv
<1>4. MapsBounded'
  BY DEF CacheInv, MapsBounded, held
<1> QED BY <1>1, <1>2, <1>3, <1>4 DEF CacheInv

(* An answer given to a caller.                                               *)
LEMMA AnswerSettles ==
    ASSUME CacheInv, NEW c \in Callers, NEW a \in Answers, answer(c, a), UNCHANGED clock,
           InDate(a, call[c].now),
           (call[c].op = "refresh" /\ a.ok) => ~a.cached /\ ~a.stale
    PROVE  \E k : Settled(c, k)
<1> DEFINE x == call[c]
           k == [x EXCEPT !.st = "idle", !.ans = a]
<1>1. x \in CallRec /\ CallInv(x)
  BY DEF CacheInv, Typed
<1>2. call' = [call EXCEPT ![c] = k]
  BY DEF answer, CacheInv, Typed
<1> HIDE DEF x
<1>3. /\ k \in CallRec /\ k.st = "idle" /\ k.ans = a /\ k.op = x.op
      /\ k.began = x.began /\ k.now = x.now
  BY <1>1 DEF CallRec
<1> HIDE DEF k
<1>4. CallInv(k)
  BY <1>1, <1>3 DEF CallInv, x
<1> QED BY <1>2, <1>3, <1>4 DEF Settled

(* A caller that moves on without an answer.                                  *)
LEMMA MoveSettles ==
    ASSUME CacheInv, NEW c \in Callers, call[c].st # "idle", UNCHANGED clock,
           NEW st \in {"cooldown", "grace", "join", "wait", "note"}, goto(c, st),
           call[c].op = "refresh" => st \notin {"cooldown", "grace"}
    PROVE  \E k : Settled(c, k)
<1> DEFINE x == call[c]
           k == [x EXCEPT !.st = st]
<1>1. x \in CallRec /\ CallInv(x)
  BY DEF CacheInv, Typed
<1>2. call' = [call EXCEPT ![c] = k]
  BY DEF goto, CacheInv, Typed
<1> HIDE DEF x
<1>3. /\ k \in CallRec /\ k.st = st /\ k.ans = x.ans /\ k.op = x.op
      /\ k.began = x.began /\ k.now = x.now
  BY <1>1 DEF CallRec
<1> HIDE DEF k
<1>4. CallInv(k)
  BY <1>1, <1>3 DEF CallInv, x
<1> QED BY <1>2, <1>3, <1>4 DEF Settled

LEMMA NoAnswerFacts ==
    ASSUME NEW now
    PROVE  NoAnswer \in Answers /\ ~NoAnswer.ok /\ InDate(NoAnswer, now)
BY Constants DEF NoAnswer, Answers, InDate

(* The forms of an answer.                                                    *)
LEMMA AnswerForms ==
    ASSUME NEW r \in 0 .. MaxTime
    PROVE  /\ live(r) \in Answers /\ fromCache(r) \in Answers /\ stale(r) \in Answers
           /\ live(r).read = r /\ fromCache(r).read = r /\ stale(r).read = r
           /\ ~live(r).cached /\ ~live(r).stale
           /\ fromCache(r).cached /\ ~fromCache(r).stale
           /\ stale(r).cached /\ stale(r).stale
BY Constants DEF live, fromCache, stale, Answers

LEMMA IdleFacts ==
    /\ Idle \in CallRec /\ Idle.ans = NoAnswer
BY Constants, NoAnswerFacts DEF Idle, CallRec

(* The record of a call that has just been made.                              *)
Made(n, st, op, p, t) ==
    [Idle EXCEPT !.made = n, !.st = st, !.op = op, !.prov = p, !.began = t, !.now = t]

LEMMA NewCall ==
    ASSUME NEW n \in Nat, NEW st \in {"load", "join"}, NEW op \in {"ack", "refresh"},
           NEW p \in Providers, NEW t \in Nat
    PROVE  LET k == Made(n, st, op, p, t)
           IN  /\ k \in CallRec /\ k.ans = NoAnswer
               /\ k.st = st /\ k.op = op /\ k.began = t /\ k.now = t
<1> DEFINE a == [Idle EXCEPT !.made = n, !.st = st]
           b == [a EXCEPT !.op = op, !.prov = p]
           k == [b EXCEPT !.began = t, !.now = t]
<1>1. a \in CallRec /\ a.ans = NoAnswer /\ a.st = st
  BY IdleFacts DEF CallRec
<1> HIDE DEF a
<1>2. b \in CallRec /\ b.ans = NoAnswer /\ b.st = st /\ b.op = op
  BY <1>1 DEF CallRec
<1> HIDE DEF b
<1>3. k \in CallRec /\ k.ans = NoAnswer /\ k.st = st /\ k.op = op /\ k.began = t /\ k.now = t
  BY <1>2 DEF CallRec
<1> QED BY <1>3 DEF a, b, Made

LEMMA CallKeeps ==
    ASSUME CacheInv, NEW c \in Callers, NEW p \in Providers, NEW op \in {"ack", "refresh"}, Call(c, p, op)
    PROVE  CacheInv'
<1> DEFINE first == IF op = "ack" THEN "load" ELSE "join"
           n == call[c].made + 1
           k == Made(n, first, op, p, clock)
<1>1. call' = [call EXCEPT ![c] = k] /\ UNCHANGED <<clock, entries, failures, flight>>
  BY DEF Call, Made
<1>2. clock \in Nat /\ n \in Nat /\ first \in {"load", "join"}
  BY DEF CacheInv, Typed, CallRec
<1> HIDE DEF first, n
<1>3. /\ k \in CallRec /\ k.ans = NoAnswer
      /\ k.st = first /\ k.op = op /\ k.began = clock /\ k.now = clock
  BY <1>2, NewCall
<1> HIDE DEF k
<1>4. CallInv(k)
  BY <1>2, <1>3, NoAnswerFacts DEF CallInv, first
<1>5. Settled(c, k)
  BY <1>1, <1>3, <1>4 DEF Settled
<1> QED BY <1>1, <1>5, CallerOnly

(* What is known of the entry a caller looks at.                              *)
LEMMA EntryFacts ==
    ASSUME CacheInv, NEW c \in Callers
    PROVE  /\ call[c].prov \in Providers /\ call[c].now \in Nat /\ clock \in Nat /\ clock <= MaxTime
           /\ call[c].st # "idle" /\ call[c].op = "refresh" => call[c].st \notin {"load", "cooldown", "grace"}
           /\ LET e == entries[call[c].prov]
              IN  /\ e \in Entry /\ e.read \in Int /\ e.expires \in Nat
                  /\ e # NoEntry => /\ e.read \in 0 .. MaxTime
                                    /\ e.expires <= e.read + ReadMax + TTL
<1>1. call[c] \in CallRec /\ CallInv(call[c]) /\ clock \in Nat /\ clock <= MaxTime
  BY DEF CacheInv, Typed
<1>2. call[c].prov \in Providers /\ call[c].now \in Nat
  BY <1>1 DEF CallRec
<1>3. entries[call[c].prov] \in Entry /\ EntryInv(entries[call[c].prov])
  BY <1>2 DEF CacheInv, Typed
<1>4. entries[call[c].prov].read \in Int /\ entries[call[c].prov].expires \in Nat
  BY <1>3 DEF Entry
<1> QED BY <1>1, <1>2, <1>3, <1>4, Constants DEF CallInv, EntryInv

LEMMA LoadKeeps ==
    ASSUME CacheInv, NEW c \in Callers, Load(c)
    PROVE  CacheInv'
<1> DEFINE e == entries[call[c].prov]
<1>1. call[c].st = "load" /\ UNCHANGED <<clock, entries, failures, flight>> /\ call[c].op # "refresh"
  BY EntryFacts DEF Load
<1>2. CASE e # NoEntry /\ call[c].now < e.expires
  <2>1. answer(c, fromCache(e.read))
    BY <1>2 DEF Load
  <2>2. /\ e.read \in 0 .. MaxTime /\ e.expires \in Nat /\ call[c].now \in Nat
        /\ e.expires <= e.read + ReadMax + TTL
    BY <1>2, EntryFacts
  <2> HIDE DEF e
  <2>3. call[c].now - e.read <= TTL + ReadMax
    BY <1>2, <2>2, Constants
  <2>4. fromCache(e.read) \in Answers /\ InDate(fromCache(e.read), call[c].now)
    BY <2>2, <2>3, AnswerForms DEF InDate
  <2> QED BY <1>1, <2>1, <2>4, AnswerSettles, CallerOnly
<1>3. CASE ~(e # NoEntry /\ call[c].now < e.expires)
  <2>1. goto(c, "cooldown")
    BY <1>3 DEF Load
  <2> QED BY <1>1, <2>1, MoveSettles, CallerOnly
<1> QED BY <1>2, <1>3

LEMMA CheckCooldownKeeps ==
    ASSUME CacheInv, NEW c \in Callers, CheckCooldown(c)
    PROVE  CacheInv'
<1>1. call[c].st = "cooldown" /\ UNCHANGED <<clock, entries, failures, flight>> /\ call[c].op # "refresh"
  BY EntryFacts DEF CheckCooldown
<1>2. goto(c, "grace") \/ goto(c, "join")
  BY DEF CheckCooldown
<1> QED BY <1>1, <1>2, MoveSettles, CallerOnly

LEMMA CheckGraceKeeps ==
    ASSUME CacheInv, NEW c \in Callers, CheckGrace(c)
    PROVE  CacheInv'
<1> DEFINE e == entries[call[c].prov]
<1>1. call[c].st = "grace" /\ UNCHANGED <<clock, entries, failures, flight>> /\ call[c].op # "refresh"
  BY EntryFacts DEF CheckGrace
<1>2. CASE staleWithinGrace(call[c].prov, call[c].now)
  <2>1. answer(c, stale(e.read)) /\ e # NoEntry /\ call[c].now < e.expires + Grace
    BY <1>2 DEF CheckGrace, staleWithinGrace, entryDeadline
  <2>2. /\ e.read \in 0 .. MaxTime /\ e.expires \in Nat /\ call[c].now \in Nat
        /\ e.expires <= e.read + ReadMax + TTL
    BY <2>1, EntryFacts
  <2> HIDE DEF e
  <2>3. call[c].now - e.read <= TTL + Grace + ReadMax
    BY <2>1, <2>2, Constants
  <2>4. stale(e.read) \in Answers /\ InDate(stale(e.read), call[c].now)
    BY <2>2, <2>3, AnswerForms DEF InDate
  <2> QED BY <1>1, <2>1, <2>4, AnswerSettles, CallerOnly
<1>3. CASE ~staleWithinGrace(call[c].prov, call[c].now)
  <2>1. answer(c, NoAnswer)
    BY <1>3 DEF CheckGrace
  <2> QED BY <1>1, <2>1, NoAnswerFacts, AnswerSettles, CallerOnly
<1> QED BY <1>2, <1>3

LEMMA JoinKeeps ==
    ASSUME CacheInv, NEW c \in Callers, Join(c)
    PROVE  CacheInv'
<1> DEFINE p == call[c].prov
<1>1. /\ call[c].st = "join" /\ goto(c, "wait") /\ UNCHANGED <<clock, entries, failures>>
      /\ p \in Providers /\ clock \in Nat
  BY EntryFacts DEF Join
<1>2. call' \in [Callers -> CallRec] /\ \A d \in Callers : CallInv(call[d])'
  BY <1>1, MoveSettles, CallersKept
<1>3. \/ flight' = flight
      \/ flight' = [flight EXCEPT ![p] = [st |-> "reading", began |-> clock, read |-> None]]
  BY DEF Join
<1> HIDE DEF p
<1>4. flight' \in [Providers -> Flight] /\ \A q \in Providers : FlightInv(flight[q])'
  <2>1. CASE flight' = flight
    BY <1>1, <2>1 DEF CacheInv, Typed, FlightInv
  <2>2. CASE flight' = [flight EXCEPT ![p] = [st |-> "reading", began |-> clock, read |-> None]]
    <3>1. [st |-> "reading", began |-> clock, read |-> None] \in Flight
      BY <1>1, Constants DEF Flight
    <3>2. flight' \in [Providers -> Flight]
      BY <2>2, <3>1 DEF CacheInv, Typed
    <3>3. FlightInv([st |-> "reading", began |-> clock, read |-> None])
      BY <1>1, Constants DEF FlightInv
    <3>4. \A q \in Providers : FlightInv(flight'[q])
      BY <2>2, <3>3 DEF CacheInv, Typed
    <3> QED BY <1>1, <3>2, <3>4 DEF FlightInv
  <2> QED BY <1>3, <2>1, <2>2
<1>5. Typed'
  BY <1>1, <1>2, <1>4 DEF CacheInv, Typed
<1>6. \A q \in Providers : EntryInv(entries[q])' /\ FailureInv(failures[q])'
  BY <1>1 DEF CacheInv, EntryInv, FailureInv
<1>7. MapsBounded'
  BY <1>1 DEF CacheInv, MapsBounded, held
<1> QED BY <1>2, <1>4, <1>5, <1>6, <1>7 DEF CacheInv

LEMMA CancelKeeps ==
    ASSUME CacheInv, NEW c \in Callers, Cancel(c)
    PROVE  CacheInv'
<1> DEFINE x == call[c]
           k == [x EXCEPT !.live = FALSE]
<1>1. x \in CallRec /\ CallInv(x) /\ UNCHANGED <<clock, entries, failures, flight>>
  BY DEF CacheInv, Typed, Cancel
<1>2. call' = [call EXCEPT ![c] = k]
  BY DEF Cancel, CacheInv, Typed
<1> HIDE DEF x
<1>3. /\ k \in CallRec /\ k.st = x.st /\ k.ans = x.ans /\ k.op = x.op
      /\ k.began = x.began /\ k.now = x.now /\ k.got = x.got
  BY <1>1 DEF CallRec
<1> HIDE DEF k
<1>4. CallInv(k)
  BY <1>1, <1>3 DEF CallInv
<1>5. Settled(c, k)
  BY <1>1, <1>2, <1>3, <1>4 DEF Settled
<1> QED BY <1>1, <1>5, CallerOnly

LEMMA TakeResultKeeps ==
    ASSUME CacheInv, NEW c \in Callers, TakeResult(c)
    PROVE  CacheInv'
<1>1. /\ call[c].st = "landed" /\ answer(c, live(call[c].got))
      /\ UNCHANGED <<clock, entries, failures, flight>>
  BY DEF TakeResult
<1>2. call[c] \in CallRec /\ CallInv(call[c]) /\ clock \in Nat /\ clock <= MaxTime
  BY DEF CacheInv, Typed
<1>3. call[c].got \in Int
  BY <1>2 DEF CallRec
<1>4. call[c].got \in 0 .. MaxTime /\ call[c].now - call[c].got <= ReadMax
  BY <1>1, <1>2, <1>3, Constants DEF CallInv
<1>5. /\ live(call[c].got) \in Answers /\ InDate(live(call[c].got), call[c].now)
      /\ ~live(call[c].got).cached /\ ~live(call[c].got).stale
  BY <1>4, AnswerForms DEF InDate
<1> QED BY <1>1, <1>5, AnswerSettles, CallerOnly

LEMMA TakeDoneKeeps ==
    ASSUME CacheInv, NEW c \in Callers, TakeDone(c)
    PROVE  CacheInv'
<1> DEFINE x == call[c]
           k == [x EXCEPT !.st = "note", !.got = None]
<1>1. /\ x \in CallRec /\ CallInv(x) /\ UNCHANGED <<clock, entries, failures, flight>>
      /\ x.st # "idle"
  BY DEF CacheInv, Typed, TakeDone
<1>2. call' = [call EXCEPT ![c] = k]
  BY DEF TakeDone, CacheInv, Typed
<1> HIDE DEF x
<1>3. /\ k \in CallRec /\ k.st = "note" /\ k.ans = x.ans /\ k.op = x.op
      /\ k.began = x.began /\ k.now = x.now
  <2>1. None \in Int
    BY DEF None
  <2> QED BY <1>1, <2>1 DEF CallRec
<1> HIDE DEF k
<1>4. CallInv(k)
  BY <1>1, <1>3 DEF CallInv
<1>5. Settled(c, k)
  BY <1>1, <1>2, <1>3, <1>4 DEF Settled
<1> QED BY <1>1, <1>5, CallerOnly

LEMMA TakeErrorKeeps ==
    ASSUME CacheInv, NEW c \in Callers, TakeError(c)
    PROVE  CacheInv'
BY MoveSettles, CallerOnly DEF TakeError

(* noteFailure: the failure recorded, and the caller's next move.             *)
LEMMA NoteFailureKeeps ==
    ASSUME CacheInv, NEW c \in Callers, NoteFailure(c)
    PROVE  CacheInv'
<1> DEFINE x == call[c]
           v == [at |-> clock, why |-> IF x.live THEN "chain" ELSE "caller"]
           w == put(failures, NoFail, failureDeadlines, clock, x.prov, v)
<1>1. /\ x \in CallRec /\ CallInv(x) /\ UNCHANGED <<clock, entries, flight>> /\ x.st = "note"
      /\ x.prov \in Providers /\ clock \in Nat /\ failures \in [Providers -> Failure]
  BY EntryFacts DEF CacheInv, Typed, NoteFailure
<1>2. failures' = failures \/ (x.live /\ failures' = w)
  BY DEF NoteFailure, mayNote
<1>3. NoFail \in Failure /\ FailureInv(NoFail)
  BY <1>1, Constants DEF NoFail, Failure, FailureInv
<1>4. ASSUME x.live PROVE v \in Failure /\ FailureInv(v)
  BY <1>1, <1>4, Constants DEF Failure, FailureInv
<1> HIDE DEF v
<1>5. ASSUME x.live
      PROVE  /\ w \in [Providers -> Failure]
             /\ \A p \in Providers : w[p] = failures[p] \/ w[p] = NoFail \/ w[p] = v
             /\ Cardinality(held(w)) <= MaxTracked
  <2>1. v \in Failure /\ NoFail \in {NoEntry, NoFail} /\ Cardinality(held(failures)) <= MaxTracked
    BY <1>4, <1>5 DEF CacheInv, MapsBounded
  <2>2. /\ w \in [Providers -> Failure]
        /\ \A p \in Providers : w[p] = failures[p] \/ w[p] = NoFail \/ w[p] = v
    <3>1. failures \in [Providers -> Failure] /\ NoFail \in Failure /\ x.prov \in Providers
      BY <1>1, <1>3
    <3>2. v \in Failure
      BY <2>1
    <3> HIDE DEF x
    <3>3. w \in [Providers -> Failure] /\ \A p \in Providers : w[p] \in {failures[p], NoFail, v}
      BY ONLY <3>1, <3>2, PutShape
    <3> QED BY <3>3
  <2>3. Cardinality(held(w)) <= MaxTracked
    BY <1>1, <1>3, <2>1, PutBounded
  <2> QED BY <2>2, <2>3
<1> HIDE DEF w
<1>6. /\ failures' \in [Providers -> Failure] /\ \A p \in Providers : FailureInv(failures'[p])
      /\ Cardinality(held(failures')) <= MaxTracked
  <2>1. CASE failures' = failures
    BY <1>1, <2>1 DEF CacheInv, MapsBounded
  <2>2. CASE x.live /\ failures' = w
    BY <1>3, <1>4, <1>5, <2>2 DEF CacheInv
  <2> QED BY <1>2, <2>1, <2>2
<1>7. \E k : Settled(c, k)
  <2>1. CASE x.op = "ack"
    <3> DEFINE k == [x EXCEPT !.st = "grace", !.now = clock]
    <3>1. call' = [call EXCEPT ![c] = k]
      BY <2>1 DEF NoteFailure, CacheInv, Typed
    <3> HIDE DEF x
    <3>2. /\ k \in CallRec /\ k.st = "grace" /\ k.ans = x.ans /\ k.op = x.op
          /\ k.began = x.began /\ k.now = clock
      BY <1>1 DEF CallRec
    <3>3. x.began \in Nat /\ x.now \in Nat
      BY <1>1 DEF CallRec
    <3> HIDE DEF k
    <3>4. CallInv(k)
      BY <1>1, <2>1, <3>2, <3>3 DEF CallInv, InDate
    <3> QED BY <1>1, <3>1, <3>2, <3>4 DEF Settled
  <2>2. CASE x.op # "ack"
    <3>1. answer(c, NoAnswer)
      BY <2>2 DEF NoteFailure
    <3> QED BY <1>1, <3>1, NoAnswerFacts, AnswerSettles
  <2> QED BY <2>1, <2>2
<1>8. call' \in [Callers -> CallRec] /\ \A d \in Callers : CallInv(call[d])'
  BY <1>7, CallersKept
<1>9. Typed'
  BY <1>1, <1>6, <1>8 DEF CacheInv, Typed
<1>10. \A p \in Providers : EntryInv(entries[p])' /\ FailureInv(failures[p])' /\ FlightInv(flight[p])'
  BY <1>1, <1>6 DEF CacheInv, EntryInv, FailureInv, FlightInv
<1>11. MapsBounded'
  BY <1>1, <1>6 DEF CacheInv, MapsBounded, held
<1> QED BY <1>8, <1>9, <1>10, <1>11 DEF CacheInv

(* Steps that leave every call alone.                                         *)
LEMMA CallsAlone ==
    ASSUME CacheInv, UNCHANGED call, clock' \in Nat, clock <= clock'
    PROVE  call' \in [Callers -> CallRec] /\ \A c \in Callers : CallInv(call[c])'
<1>1. ASSUME NEW c \in Callers PROVE CallInv(call[c])'
  <2>1. call[c] \in CallRec /\ CallInv(call[c]) /\ clock \in Nat
    BY DEF CacheInv, Typed
  <2>2. call[c].now \in Nat /\ call[c].got \in Int
    BY <2>1 DEF CallRec
  <2> QED BY <2>1, <2>2 DEF CallInv, InDate
<1> QED BY <1>1 DEF CacheInv, Typed

LEMMA TickKeeps ==
    ASSUME CacheInv, Tick
    PROVE  CacheInv'
<1>1. /\ clock \in Nat /\ clock' = clock + 1 /\ clock' <= MaxTime
      /\ UNCHANGED <<entries, failures, flight, call>>
  BY Constants DEF Tick, CacheInv, Typed
<1>2. call' \in [Callers -> CallRec] /\ \A c \in Callers : CallInv(call[c])'
  BY <1>1, CallsAlone
<1>3. ASSUME NEW p \in Providers
      PROVE  EntryInv(entries[p])' /\ FailureInv(failures[p])' /\ FlightInv(flight[p])'
  <2>1. /\ entries[p] \in Entry /\ failures[p] \in Failure /\ flight[p] \in Flight
        /\ EntryInv(entries[p]) /\ FailureInv(failures[p]) /\ FlightInv(flight[p])
    BY DEF CacheInv, Typed
  <2>2. /\ entries[p].read \in Int /\ entries[p].expires \in Nat /\ failures[p].at \in Int
        /\ flight[p].began \in Nat /\ flight[p].read \in Int
    BY <2>1 DEF Entry, Failure, Flight
  <2>3. flight[p].st # "none" => clock - flight[p].began < ReadMax
    BY DEF Tick
  <2>4. EntryInv(entries[p])'
    BY <1>1, <2>1, <2>2, Constants DEF EntryInv
  <2>5. FailureInv(failures[p])'
    BY <1>1, <2>1, <2>2, Constants DEF FailureInv
  <2>6. FlightInv(flight[p])'
    BY <1>1, <2>1, <2>2, <2>3, Constants DEF FlightInv
  <2> QED BY <2>4, <2>5, <2>6
<1>4. Typed' /\ MapsBounded'
  BY <1>1, <1>2 DEF CacheInv, Typed, MapsBounded, held
<1> QED BY <1>2, <1>3, <1>4 DEF CacheInv

(* A step of a flight that leaves maps and calls alone.                       *)
LEMMA FlightOnly ==
    ASSUME CacheInv, NEW p \in Providers, NEW f \in Flight, FlightInv(f),
           flight' = [flight EXCEPT ![p] = f], UNCHANGED clock
    PROVE  flight' \in [Providers -> Flight] /\ \A q \in Providers : FlightInv(flight[q])'
<1>1. flight' \in [Providers -> Flight]
  BY DEF CacheInv, Typed
<1>2. \A q \in Providers : FlightInv(flight'[q])
  BY DEF CacheInv, Typed
<1> QED BY <1>1, <1>2 DEF FlightInv

LEMMA FlightFacts ==
    ASSUME CacheInv, NEW p \in Providers
    PROVE  /\ flight[p] \in Flight /\ FlightInv(flight[p]) /\ clock \in Nat /\ clock <= MaxTime
           /\ flight[p].began \in Nat /\ flight[p].read \in Int
BY DEF CacheInv, Typed, Flight

LEMMA FlightReadKeeps ==
    ASSUME CacheInv, NEW p \in Providers, FlightRead(p)
    PROVE  CacheInv'
<1> DEFINE x == flight[p]
           f == [x EXCEPT !.st = "read", !.read = clock]
<1>1. /\ x \in Flight /\ FlightInv(x) /\ clock \in Nat /\ x.began \in Nat /\ x.st = "reading"
      /\ UNCHANGED <<clock, entries, failures, call>> /\ flight' = [flight EXCEPT ![p] = f]
  BY FlightFacts DEF FlightRead, CacheInv, Typed
<1> HIDE DEF x
<1>2. f \in Flight /\ f.st = "read" /\ f.read = clock /\ f.began = x.began
  <2>1. x \in Flight /\ clock \in Int
    BY <1>1
  <2> QED BY <2>1 DEF Flight
<1> HIDE DEF f
<1>3. FlightInv(f)
  BY <1>1, <1>2, Constants DEF FlightInv
<1>4. flight' \in [Providers -> Flight] /\ \A q \in Providers : FlightInv(flight[q])'
  BY <1>1, <1>2, <1>3, FlightOnly
<1>5. call' \in [Callers -> CallRec] /\ \A c \in Callers : CallInv(call[c])'
  BY <1>1, CallsAlone
<1> QED BY <1>1, <1>4, <1>5 DEF CacheInv, Typed, EntryInv, FailureInv, MapsBounded, held

LEMMA FlightFailKeeps ==
    ASSUME CacheInv, NEW p \in Providers, FlightFail(p)
    PROVE  CacheInv'
<1> DEFINE x == flight[p]
           f == [x EXCEPT !.st = "landing"]
<1>1. /\ x \in Flight /\ FlightInv(x) /\ clock \in Nat /\ x.began \in Nat /\ x.st = "reading"
      /\ UNCHANGED <<clock, entries, failures, call>> /\ flight' = [flight EXCEPT ![p] = f]
  BY FlightFacts DEF FlightFail, CacheInv, Typed
<1> HIDE DEF x
<1>2. f \in Flight /\ f.st = "landing" /\ f.read = x.read /\ f.began = x.began
  BY <1>1 DEF Flight
<1> HIDE DEF f
<1>3. FlightInv(f)
  BY <1>1, <1>2, Constants DEF FlightInv
<1>4. flight' \in [Providers -> Flight] /\ \A q \in Providers : FlightInv(flight[q])'
  BY <1>1, <1>2, <1>3, FlightOnly
<1>5. call' \in [Callers -> CallRec] /\ \A c \in Callers : CallInv(call[c])'
  BY <1>1, CallsAlone
<1> QED BY <1>1, <1>4, <1>5 DEF CacheInv, Typed, EntryInv, FailureInv, MapsBounded, held

(* A success stored: one live read old at most, and the map inside its cap.   *)
LEMMA FlightStoreKeeps ==
    ASSUME CacheInv, NEW p \in Providers, FlightStore(p)
    PROVE  CacheInv'
<1> DEFINE x == flight[p]
           f == [x EXCEPT !.st = "stored"]
           v == [read |-> x.read, expires |-> clock + TTL]
           w == put(entries, NoEntry, entryDeadlines, clock, p, v)
<1>1. /\ x \in Flight /\ FlightInv(x) /\ clock \in Nat /\ x.began \in Nat /\ x.read \in Int /\ x.st = "read"
      /\ UNCHANGED <<clock, failures, call>> /\ flight' = [flight EXCEPT ![p] = f] /\ entries' = w
  BY FlightFacts DEF FlightStore, CacheInv, Typed, expiry
<1> HIDE DEF x
<1>2. f \in Flight /\ f.st = "stored" /\ f.read = x.read /\ f.began = x.began
  BY <1>1 DEF Flight
<1> HIDE DEF f
<1>3. FlightInv(f)
  BY <1>1, <1>2, Constants DEF FlightInv
<1>4. flight' \in [Providers -> Flight] /\ \A q \in Providers : FlightInv(flight[q])'
  BY <1>1, <1>2, <1>3, FlightOnly
<1>5. v \in Entry /\ EntryInv(v)
  BY <1>1, Constants DEF Entry, EntryInv, FlightInv
<1>6. NoEntry \in Entry /\ EntryInv(NoEntry)
  BY <1>1, Constants DEF NoEntry, Entry, EntryInv
<1>7. entries \in [Providers -> Entry] /\ Cardinality(held(entries)) <= MaxTracked
  BY DEF CacheInv, Typed, MapsBounded
<1> HIDE DEF v
<1>8. /\ w \in [Providers -> Entry]
      /\ \A q \in Providers : w[q] = entries[q] \/ w[q] = NoEntry \/ w[q] = v
  <2>1. entries \in [Providers -> Entry] /\ NoEntry \in Entry /\ v \in Entry
    BY <1>5, <1>6, <1>7
  <2>2. w \in [Providers -> Entry] /\ \A q \in Providers : w[q] \in {entries[q], NoEntry, v}
    BY <2>1, PutShape
  <2> QED BY <2>2
<1>9. Cardinality(held(w)) <= MaxTracked
  BY <1>5, <1>6, <1>7, PutBounded
<1> HIDE DEF w
<1>10. \A q \in Providers : EntryInv(entries'[q])
  BY <1>1, <1>5, <1>6, <1>8 DEF CacheInv
<1>11. call' \in [Callers -> CallRec] /\ \A c \in Callers : CallInv(call[c])'
  BY <1>1, CallsAlone
<1>12. Typed'
  BY <1>1, <1>4, <1>8, <1>11 DEF CacheInv, Typed
<1>13. MapsBounded'
  BY <1>1, <1>9 DEF CacheInv, MapsBounded, held
<1>14. \A q \in Providers : EntryInv(entries[q])' /\ FailureInv(failures[q])'
  BY <1>1, <1>10 DEF CacheInv, EntryInv, FailureInv
<1> QED BY <1>4, <1>11, <1>12, <1>13, <1>14 DEF CacheInv

LEMMA FlightClearKeeps ==
    ASSUME CacheInv, NEW p \in Providers, FlightClear(p)
    PROVE  CacheInv'
<1> DEFINE x == flight[p]
           f == [x EXCEPT !.st = "landing"]
<1>1. /\ x \in Flight /\ FlightInv(x) /\ clock \in Nat /\ x.began \in Nat /\ x.st = "stored"
      /\ UNCHANGED <<clock, entries, call>> /\ flight' = [flight EXCEPT ![p] = f]
      /\ failures' = [failures EXCEPT ![p] = NoFail]
  BY FlightFacts DEF FlightClear, CacheInv, Typed
<1> HIDE DEF x
<1>2. f \in Flight /\ f.st = "landing" /\ f.read = x.read /\ f.began = x.began
  BY <1>1 DEF Flight
<1> HIDE DEF f
<1>3. FlightInv(f)
  BY <1>1, <1>2, Constants DEF FlightInv
<1>4. flight' \in [Providers -> Flight] /\ \A q \in Providers : FlightInv(flight[q])'
  BY <1>1, <1>2, <1>3, FlightOnly
<1>5. call' \in [Callers -> CallRec] /\ \A c \in Callers : CallInv(call[c])'
  BY <1>1, CallsAlone
<1>6. NoFail \in Failure /\ FailureInv(NoFail)
  BY <1>1, Constants DEF NoFail, Failure, FailureInv
<1>7. failures' \in [Providers -> Failure] /\ \A q \in Providers : FailureInv(failures'[q])
  BY <1>1, <1>6 DEF CacheInv, Typed
<1>8. Cardinality(held(failures')) <= MaxTracked
  <2>1. held(failures') \subseteq held(failures) /\ held(failures) \subseteq Providers
    BY <1>1 DEF held, CacheInv, Typed
  <2>2. IsFiniteSet(held(failures))
    BY <2>1, Constants, FS_Subset
  <2>3. Cardinality(held(failures')) <= Cardinality(held(failures)) /\ IsFiniteSet(held(failures'))
    BY <2>1, <2>2, FS_Subset
  <2>4. Cardinality(held(failures')) \in Nat /\ Cardinality(held(failures)) \in Nat
    BY <2>2, <2>3, FS_CardinalityType
  <2> QED BY <2>3, <2>4, Constants DEF CacheInv, MapsBounded
<1>9. MapsBounded'
  BY <1>1, <1>8 DEF CacheInv, MapsBounded, held
<1> QED BY <1>1, <1>4, <1>5, <1>7, <1>9 DEF CacheInv, Typed, EntryInv, FailureInv

(* The flight lands: what its callers find waiting was read within ReadMax.   *)
LEMMA FlightLandKeeps ==
    ASSUME CacheInv, NEW p \in Providers, FlightLand(p)
    PROVE  CacheInv'
<1> DEFINE r == flight[p].read
           after(x) == [x EXCEPT !.st = IF r = None THEN "failed" ELSE "landed", !.got = r]
<1>1. /\ FlightInv(flight[p]) /\ clock \in Nat /\ flight[p].began \in Nat /\ r \in Int
      /\ flight[p].st = "landing" /\ UNCHANGED <<clock, entries, failures>>
      /\ flight' = [flight EXCEPT ![p] = NoFlight]
      /\ call' = [c \in Callers |-> IF call[c].st = "wait" /\ call[c].prov = p
                                   THEN after(call[c]) ELSE call[c]]
  BY FlightFacts DEF FlightLand
<1>2. r = None \/ (r >= 0 /\ r <= clock /\ clock - r <= ReadMax)
  <2>1. /\ clock \in Nat /\ flight[p].began \in Nat /\ r \in Int /\ r <= clock
        /\ clock - flight[p].began <= ReadMax /\ (r = None \/ r >= flight[p].began)
    BY <1>1 DEF FlightInv
  <2> QED BY <2>1, Constants
<1> HIDE DEF r
<1>3. ASSUME NEW x \in CallRec, CallInv(x), x.st = "wait"
      PROVE  after(x) \in CallRec /\ CallInv(after(x))
  <2> DEFINE st == IF r = None THEN "failed" ELSE "landed"
             y == [x EXCEPT !.st = st, !.got = r]
  <2>1. st \in {"failed", "landed"} /\ (st = "landed" => r # None)
    OBVIOUS
  <2> HIDE DEF st
  <2>2. /\ y \in CallRec /\ y.st = st /\ y.got = r /\ y.ans = x.ans /\ y.op = x.op
        /\ y.began = x.began /\ y.now = x.now /\ x.now \in Nat
    BY <1>1, <2>1 DEF CallRec
  <2> HIDE DEF y
  <2>3. st = "landed" => r >= 0 /\ r <= clock /\ x.now - r <= ReadMax
    <3>1. clock \in Nat /\ r \in Int /\ x.now <= clock /\ x.now \in Nat
      BY <1>1, <1>3, <2>2 DEF CallInv
    <3> QED BY <1>2, <2>1, <3>1, Constants
  <2>4. CallInv(y)
    BY <1>3, <2>1, <2>2, <2>3 DEF CallInv
  <2> QED BY <2>2, <2>4 DEF y, st
<1> HIDE DEF after
<1>4. call' \in [Callers -> CallRec] /\ \A c \in Callers : CallInv(call'[c])
  BY <1>1, <1>3 DEF CacheInv, Typed
<1>5. NoFlight \in Flight /\ FlightInv(NoFlight)
  BY <1>1, Constants DEF NoFlight, Flight, FlightInv
<1>6. flight' \in [Providers -> Flight] /\ \A q \in Providers : FlightInv(flight[q])'
  BY <1>1, <1>5, FlightOnly
<1>7. \A c \in Callers : CallInv(call[c])'
  BY <1>1, <1>4 DEF CallInv, InDate
<1>8. Typed' /\ MapsBounded'
  BY <1>1, <1>4, <1>6 DEF CacheInv, Typed, MapsBounded, held
<1> QED BY <1>1, <1>6, <1>7, <1>8 DEF CacheInv, EntryInv, FailureInv

-----------------------------------------------------------------------------
LEMMA CacheInvariant == Spec => []CacheInv
<1>1. ASSUME Init PROVE CacheInv
  <2>1. NoEntry \in Entry /\ NoFail \in Failure /\ NoFlight \in Flight /\ Idle \in CallRec
    BY Constants, IdleFacts DEF NoEntry, Entry, NoFail, Failure, NoFlight, Flight
  <2>2. Typed
    BY <1>1, <2>1, Constants DEF Init, Typed
  <2>3. /\ EntryInv(NoEntry) /\ FailureInv(NoFail) /\ FlightInv(NoFlight)
    BY <1>1, Constants DEF Init, EntryInv, FailureInv, FlightInv, NoEntry, NoFail, NoFlight
  <2>4. CallInv(Idle)
    <3>1. Idle.began = 0 /\ Idle.now = 0 /\ Idle.st = "idle" /\ Idle.op = "ack" /\ Idle.ans = NoAnswer
      BY DEF Idle
    <3> QED BY <1>1, <3>1, NoAnswerFacts DEF CallInv, Init
  <2>5. held(entries) = {} /\ held(failures) = {}
    BY <1>1 DEF Init, held
  <2>6. MapsBounded
    BY <2>5, Constants, FS_EmptySet DEF MapsBounded
  <2> QED BY <1>1, <2>2, <2>3, <2>4, <2>6 DEF CacheInv, Init
<1>2. ASSUME CacheInv, [Next]_vars PROVE CacheInv'
  <2>1. CASE Tick
    BY <1>2, <2>1, TickKeeps
  <2>2. ASSUME NEW c \in Callers, NEW p \in Providers, NEW op \in {"ack", "refresh"}, Call(c, p, op)
        PROVE  CacheInv'
    BY <1>2, <2>2, CallKeeps
  <2>3. ASSUME NEW c \in Callers,
               \/ Load(c) \/ CheckCooldown(c) \/ CheckGrace(c) \/ Join(c) \/ Cancel(c)
               \/ TakeResult(c) \/ TakeDone(c) \/ TakeError(c) \/ NoteFailure(c)
        PROVE  CacheInv'
    BY <1>2, <2>3, LoadKeeps, CheckCooldownKeeps, CheckGraceKeeps, JoinKeeps, CancelKeeps,
       TakeResultKeeps, TakeDoneKeeps, TakeErrorKeeps, NoteFailureKeeps
  <2>4. ASSUME NEW p \in Providers,
               FlightRead(p) \/ FlightStore(p) \/ FlightClear(p) \/ FlightFail(p) \/ FlightLand(p)
        PROVE  CacheInv'
    BY <1>2, <2>4, FlightReadKeeps, FlightStoreKeeps, FlightClearKeeps, FlightFailKeeps, FlightLandKeeps
  <2>5. CASE UNCHANGED vars
    BY <1>2, <2>5 DEF vars, CacheInv, Typed, EntryInv, FailureInv, FlightInv, CallInv, InDate,
                      MapsBounded, held
  <2> QED BY <1>2, <2>1, <2>2, <2>3, <2>4, <2>5 DEF Next
<1> QED BY <1>1, <1>2, PTL DEF Spec

(* However slow the reads, however the windows are set and whoever gives up,  *)
(* no caller is handed a reading older than one live read, the TTL and, where *)
(* it is marked stale, the grace window allow; a refresh is handed a reading  *)
(* made for it and never a cached one (AcknowledgedSigner, RefreshSigner).    *)
THEOREM ReadingsStayInDate == Spec => []ReadingsInDate
<1>1. ASSUME CacheInv PROVE TypeOK
  <2>1. clock \in 0 .. MaxTime
    BY <1>1, Constants DEF CacheInv, Typed
  <2>2. ASSUME NEW p \in Providers
        PROVE  /\ entries[p] \in [read : None .. clock, expires : 0 .. clock + TTL]
               /\ failures[p] \in [at : None .. clock, why : {"none", "chain", "caller"}]
               /\ flight[p] \in [st : {"none", "reading", "read", "stored", "landing"},
                                 began : 0 .. clock, read : None .. clock]
    <3>1. /\ entries[p] \in Entry /\ failures[p] \in Failure /\ flight[p] \in Flight /\ clock \in Nat
          /\ EntryInv(entries[p]) /\ FailureInv(failures[p]) /\ FlightInv(flight[p])
      BY <1>1 DEF CacheInv, Typed
    <3>2. entries[p] \in [read : None .. clock, expires : 0 .. clock + TTL]
      BY <3>1, Constants DEF Entry, EntryInv
    <3>3. failures[p] \in [at : None .. clock, why : {"none", "chain", "caller"}]
      BY <3>1, Constants DEF Failure, FailureInv
    <3>4. flight[p] \in [st : {"none", "reading", "read", "stored", "landing"},
                         began : 0 .. clock, read : None .. clock]
      BY <3>1, Constants DEF Flight, FlightInv
    <3> QED BY <3>2, <3>3, <3>4
  <2>3. /\ entries \in [Providers -> [read : None .. clock, expires : 0 .. clock + TTL]]
        /\ failures \in [Providers -> [at : None .. clock, why : {"none", "chain", "caller"}]]
        /\ flight \in [Providers -> [st : {"none", "reading", "read", "stored", "landing"},
                                     began : 0 .. clock, read : None .. clock]]
    BY <1>1, <2>2 DEF CacheInv, Typed
  <2>4. ASSUME NEW c \in Callers
        PROVE  /\ call[c].st \in {"idle", "load", "cooldown", "grace", "join", "wait",
                                  "landed", "failed", "note"}
               /\ call[c].began <= call[c].now /\ call[c].now <= clock
               /\ call[c].ans \in Answers /\ call[c].prov \in Providers
    BY <1>1 DEF CacheInv, Typed, CallRec, CallInv
  <2> QED BY <2>1, <2>3, <2>4 DEF TypeOK
<1>2. ASSUME CacheInv PROVE BoundedStaleness
  BY <1>2 DEF CacheInv, CallInv, InDate, BoundedStaleness
<1>3. ASSUME CacheInv PROVE RefreshIsLive
  <2> SUFFICES ASSUME NEW c \in Callers, call[c].op = "refresh", call[c].ans.ok
               PROVE  /\ ~call[c].ans.cached /\ ~call[c].ans.stale
                      /\ call[c].ans.read >= call[c].began - ReadMax
    BY DEF RefreshIsLive
  <2>1. call[c] \in CallRec /\ CallInv(call[c])
    BY <1>3 DEF CacheInv, Typed
  <2>2. call[c].began \in Nat /\ call[c].now \in Nat /\ call[c].ans \in Answers
    BY <2>1 DEF CallRec
  <2>3. call[c].ans.read \in Int
    BY <2>2, Constants DEF Answers
  <2>4. ~call[c].ans.cached /\ ~call[c].ans.stale /\ call[c].began <= call[c].now
    BY <2>1 DEF CallInv
  <2>5. call[c].now - call[c].ans.read <= ReadMax
    BY <2>1, <2>4 DEF CallInv, InDate
  <2> QED BY <2>2, <2>3, <2>4, <2>5, Constants
<1> QED BY <1>1, <1>2, <1>3, CacheInvariant, PTL DEF ReadingsInDate

(* noteFailure: whoever gives up and whenever, no cooldown is ever stamped    *)
(* but by a failure of the chain.                                             *)
THEOREM CooldownsAreTheChains == Spec => []OnlyTheChainCoolsDown
<1>1. CacheInv => OnlyTheChainCoolsDown
  BY DEF CacheInv, Typed, Failure, OnlyTheChainCoolsDown
<1> QED BY <1>1, CacheInvariant, PTL

(* room and sweepExpired: neither map ever outgrows maxCachedProviders, and   *)
(* no step drops an entry that could still be served or a cooldown in force.  *)
THEOREM CapCostsNobody == Spec => CapKept
<1>1. ASSUME CacheInv, CacheInv', [Next]_vars PROVE [MapsBounded' /\ SweepKeepsUsable]_vars
  <2>1. MapsBounded'
    BY <1>1 DEF CacheInv
  <2>2. ASSUME NEW p \in Providers, entries[p] # NoEntry, clock < entries[p].expires + Grace, Next
        PROVE  entries'[p] # NoEntry
    <3>1. CASE UNCHANGED entries
      BY <2>2, <3>1
    <3>2. ASSUME NEW q \in Providers, FlightStore(q) PROVE entries'[p] # NoEntry
      <4> DEFINE v == [read |-> flight[q].read, expires |-> expiry]
      <4>1. entries' = put(entries, NoEntry, entryDeadlines, clock, q, v) /\ flight[q].st = "read"
        BY <3>2 DEF FlightStore
      <4>2. /\ FlightInv(flight[q]) /\ clock \in Nat /\ flight[q].read \in Int /\ flight[q].began \in Nat
        BY <1>1, FlightFacts
      <4>3. flight[q].read # None
        BY <4>1, <4>2, Constants DEF FlightInv
      <4>4. v # NoEntry /\ v \in Entry /\ NoEntry \in Entry
        BY <4>2, <4>3, Constants DEF NoEntry, Entry, expiry
      <4>5. entries \in [Providers -> Entry] /\ entries[p].expires \in Nat
        BY <1>1 DEF CacheInv, Typed, Entry
      <4>6. p \in held(entries) => ~(clock >= entryDeadlines[p])
        BY <2>2, <4>2, <4>5, Constants DEF entryDeadlines, entryDeadline
      <4> HIDE DEF v
      <4> QED BY <2>2, <4>1, <4>4, <4>5, <4>6, PutKeeps
    <3>3. UNCHANGED entries \/ \E q \in Providers : FlightStore(q)
      BY <2>2 DEF Next, Tick, Call, Load, CheckCooldown, CheckGrace, Join, Cancel, TakeResult, TakeDone,
                  TakeError, NoteFailure, FlightRead, FlightClear, FlightFail, FlightLand
    <3> QED BY <3>1, <3>2, <3>3
  <2>3. ASSUME NEW p \in Providers, failures[p] # NoFail, clock < failures[p].at + Cooldown,
               failures'[p] = NoFail, Next
        PROVE  flight[p].st = "stored"
    <3>1. CASE UNCHANGED failures
      BY <2>3, <3>1
    <3>2. ASSUME NEW q \in Providers, FlightClear(q) PROVE flight[p].st = "stored"
      BY <1>1, <2>3, <3>2 DEF FlightClear, CacheInv, Typed
    <3>3. ASSUME NEW c \in Callers, NoteFailure(c), ~UNCHANGED failures PROVE FALSE
      <4> DEFINE v == [at |-> clock, why |-> IF call[c].live THEN "chain" ELSE "caller"]
      <4>1. /\ failures' = put(failures, NoFail, failureDeadlines, clock, call[c].prov, v)
            /\ call[c].live
        BY <3>3 DEF NoteFailure, mayNote
      <4>2. call[c].prov \in Providers /\ clock \in Nat
        BY <1>1, EntryFacts
      <4>3. v # NoFail /\ v \in Failure /\ NoFail \in Failure
        BY <4>1, <4>2, Constants DEF NoFail, Failure
      <4>4. failures \in [Providers -> Failure] /\ failures[p].at \in Int
        BY <1>1 DEF CacheInv, Typed, Failure
      <4>5. p \in held(failures) => ~(clock >= failureDeadlines[p])
        BY <2>3, <4>2, <4>4, Constants DEF failureDeadlines, failureDeadline
      <4> HIDE DEF v
      <4> QED BY <2>3, <4>1, <4>2, <4>3, <4>4, <4>5, PutKeeps
    <3>4. \/ UNCHANGED failures \/ \E q \in Providers : FlightClear(q)
          \/ \E c \in Callers : NoteFailure(c)
      BY <2>3 DEF Next, Tick, Call, Load, CheckCooldown, CheckGrace, Join, Cancel, TakeResult, TakeDone,
                  TakeError, FlightRead, FlightStore, FlightFail, FlightLand
    <3> QED BY <3>1, <3>2, <3>3, <3>4
  <2>4. Next => SweepKeepsUsable
    BY <2>2, <2>3 DEF SweepKeepsUsable
  <2> QED BY <1>1, <2>1, <2>4
<1> QED BY <1>1, CacheInvariant, PTL DEF Spec, CapKept
=============================================================================
