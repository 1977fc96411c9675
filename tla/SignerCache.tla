----------------------------- MODULE SignerCache -----------------------------
(***************************************************************************)
(* client/chain/cache.go: the on-chain signer registry behind a TTL cache, *)
(* with a grace window, a failure cooldown and single-flighted reads, used *)
(* by concurrent callers whose contexts end independently.                 *)
(*                                                                         *)
(* A reading is identified by the tick at which the chain was read, which  *)
(* is all a consumer's decision depends on: how old what it is told is.    *)
(* Each lock section of the code is one step, so another caller or the     *)
(* flight's own goroutine can run between any two of them.                 *)
(***************************************************************************)
EXTENDS Integers, FiniteSets

CONSTANTS
    Callers, Providers,
    TTL, Grace, Cooldown, \* the cache's three windows, in ticks
    ReadMax,              \* longest live read (the inner registry's deadlines)
    MaxTracked,           \* maxCachedProviders
    MaxCalls,             \* bound: calls one caller makes
    MaxTime               \* bound: ticks explored

ASSUME CacheAssumption ==
    /\ IsFiniteSet(Providers) /\ Providers # {}
    /\ TTL \in Nat \ {0} /\ Grace \in Nat /\ Cooldown \in Nat
    /\ ReadMax \in Nat /\ MaxTracked \in Nat \ {0}
    /\ MaxCalls \in Nat /\ MaxTime \in Nat

None == -1

VARIABLES
    clock,
    entries,   \* per provider: [read, expires], read = None when absent
    failures,  \* per provider: [at, why], at = None when absent
    flight,    \* per provider: the single flight, st = "none" when there is none
    call       \* per caller: the call in progress, or the last answer
vars == <<clock, entries, failures, flight, call>>

NoEntry   == [read |-> None, expires |-> 0]
NoFail    == [at |-> None, why |-> "none"]
NoFlight  == [st |-> "none", began |-> 0, read |-> None]
NoAnswer  == [ok |-> FALSE, read |-> None, cached |-> FALSE, stale |-> FALSE]
Idle      == [st |-> "idle", op |-> "ack", prov |-> CHOOSE p \in Providers : TRUE,
              began |-> 0, now |-> 0, made |-> 0, live |-> TRUE, got |-> None, ans |-> NoAnswer]

-----------------------------------------------------------------------------
held(m)     == { p \in Providers : m[p] # NoEntry /\ m[p] # NoFail }
inert(m, deadline, now) == { p \in held(m) : now >= deadline[p] }

(* room and sweepExpired: a new key needs a free slot, after sweeping inert   *)
(* entries when the map is full.  put is the map after the write, sweep       *)
(* included, which happens even when the write is then declined.              *)
entryDeadline_NoGrace(e) == e.expires
full_Never(m)            == FALSE
entryDeadline(e)   == e.expires + Grace
failureDeadline(f) == f.at + Cooldown
full(m)            == Cardinality(held(m)) >= MaxTracked
swept(m, empty, deadline, now) ==
    [p \in Providers |-> IF p \in inert(m, deadline, now) THEN empty ELSE m[p]]
put(m, empty, deadline, now, key, v) ==
    IF key \in held(m) \/ ~full(m)
    THEN [m EXCEPT ![key] = v]
    ELSE LET s == swept(m, empty, deadline, now)
         IN  IF full(s) THEN s ELSE [s EXCEPT ![key] = v]

entryDeadlines   == [p \in held(entries)  |-> entryDeadline(entries[p])]
failureDeadlines == [p \in held(failures) |-> failureDeadline(failures[p])]

staleWithinGrace_Unbounded(p, now) == entries[p] # NoEntry
recentFailure(p, now)    == failures[p] # NoFail /\ now < failureDeadline(failures[p])
staleWithinGrace(p, now) == entries[p] # NoEntry /\ Grace > 0 /\ now < entryDeadline(entries[p])

live(r)      == [ok |-> TRUE, read |-> r, cached |-> FALSE, stale |-> FALSE]
fromCache(r) == [ok |-> TRUE, read |-> r, cached |-> TRUE,  stale |-> FALSE]
stale(r)     == [ok |-> TRUE, read |-> r, cached |-> TRUE,  stale |-> TRUE]

answer(c, a) == call' = [call EXCEPT ![c].st = "idle", ![c].ans = a]
goto(c, st)  == call' = [call EXCEPT ![c].st = st]

Init ==
    /\ clock = 0
    /\ entries  = [p \in Providers |-> NoEntry]
    /\ failures = [p \in Providers |-> NoFail]
    /\ flight   = [p \in Providers |-> NoFlight]
    /\ call     = [c \in Callers |-> Idle]

(* Time passes, but no live read outlasts its deadline. *)
Tick ==
    /\ clock < MaxTime
    /\ \A p \in Providers :
         flight[p].st # "none" => clock - flight[p].began < ReadMax
    /\ clock' = clock + 1
    /\ UNCHANGED <<entries, failures, flight, call>>

(* A caller calls AcknowledgedSigner (ack) or RefreshSigner (refresh).        *)
Call_RefreshFromCache(c, p, op) ==
    /\ call[c].st = "idle" /\ call[c].made < MaxCalls
    /\ call' = [call EXCEPT ![c] =
          [Idle EXCEPT !.made = call[c].made + 1, !.st = "load",
                       !.op = op, !.prov = p, !.began = clock, !.now = clock]]
    /\ UNCHANGED <<clock, entries, failures, flight>>
Call(c, p, op) ==
    /\ call[c].st = "idle" /\ call[c].made < MaxCalls
    /\ call' = [call EXCEPT ![c] =
          [Idle EXCEPT !.made = call[c].made + 1, !.st = IF op = "ack" THEN "load" ELSE "join",
                       !.op = op, !.prov = p, !.began = clock, !.now = clock]]
    /\ UNCHANGED <<clock, entries, failures, flight>>

(* AcknowledgedSigner's first lock section: a fresh entry answers.            *)
Load(c) ==
    LET e == entries[call[c].prov]
    IN  /\ call[c].st = "load"
        /\ IF e # NoEntry /\ call[c].now < e.expires
           THEN answer(c, fromCache(e.read))
           ELSE goto(c, "cooldown")
        /\ UNCHANGED <<clock, entries, failures, flight>>

(* The second: a failure in cooldown skips the live read.                     *)
CheckCooldown(c) ==
    /\ call[c].st = "cooldown"
    /\ goto(c, IF recentFailure(call[c].prov, call[c].now) THEN "grace" ELSE "join")
    /\ UNCHANGED <<clock, entries, failures, flight>>

(* The third: an expired entry inside the grace window stands in, stale.      *)
CheckGrace(c) ==
    LET p == call[c].prov
    IN  /\ call[c].st = "grace"
        /\ IF staleWithinGrace(p, call[c].now)
           THEN answer(c, stale(entries[p].read))
           ELSE answer(c, NoAnswer)
        /\ UNCHANGED <<clock, entries, failures, flight>>

(* refresh: join the provider's flight, starting it if there is none.         *)
Join(c) ==
    LET p == call[c].prov
    IN  /\ call[c].st = "join"
        /\ goto(c, "wait")
        /\ flight' = IF flight[p].st = "none"
                     THEN [flight EXCEPT ![p] = [st |-> "reading", began |-> clock,
                                                 read |-> None]]
                     ELSE flight
        /\ UNCHANGED <<clock, entries, failures>>

(* The flight's goroutine: the chain answers, or the read fails.              *)
FlightRead(p) ==
    /\ flight[p].st = "reading"
    /\ flight' = [flight EXCEPT ![p].st = "read", ![p].read = clock]
    /\ UNCHANGED <<clock, entries, failures, call>>

expiry_FromNextTick == clock + 1 + TTL
expiry == clock + TTL

(* A success is stored, then the failure mark is cleared: two lock sections.  *)
FlightStore(p) ==
    /\ flight[p].st = "read"
    /\ entries' = put(entries, NoEntry, entryDeadlines, clock, p,
                      [read |-> flight[p].read, expires |-> expiry])
    /\ flight' = [flight EXCEPT ![p].st = "stored"]
    /\ UNCHANGED <<clock, failures, call>>

FlightClear(p) ==
    /\ flight[p].st = "stored"
    /\ failures' = [failures EXCEPT ![p] = NoFail]
    /\ flight' = [flight EXCEPT ![p].st = "landing"]
    /\ UNCHANGED <<clock, entries, call>>

FlightFail(p) ==
    /\ flight[p].st = "reading"
    /\ flight' = [flight EXCEPT ![p].st = "landing"]
    /\ UNCHANGED <<clock, entries, failures, call>>

(* The flight ends: its key is forgotten and every caller coalesced onto it   *)
(* has the result waiting.                                                    *)
FlightLand(p) ==
    LET r == flight[p].read
    IN  /\ flight[p].st = "landing"
        /\ flight' = [flight EXCEPT ![p] = NoFlight]
        /\ call' = [c \in Callers |->
              IF call[c].st = "wait" /\ call[c].prov = p
              THEN [call[c] EXCEPT !.st = IF r = None THEN "failed" ELSE "landed",
                                   !.got = r]
              ELSE call[c]]
        /\ UNCHANGED <<clock, entries, failures>>

(* A caller's own context ends.                                               *)
Cancel(c) ==
    /\ call[c].st # "idle" /\ call[c].live
    /\ call' = [call EXCEPT ![c].live = FALSE]
    /\ UNCHANGED <<clock, entries, failures, flight>>

(* refresh's select: the shared result, or the caller's own ctx.Err(); with   *)
(* both ready either may be taken.                                            *)
TakeResult(c) ==
    /\ call[c].st = "landed"
    /\ answer(c, live(call[c].got))
    /\ UNCHANGED <<clock, entries, failures, flight>>

TakeDone(c) ==
    /\ call[c].st \in {"wait", "landed", "failed"} /\ ~call[c].live
    /\ call' = [call EXCEPT ![c].st = "note", ![c].got = None]
    /\ UNCHANGED <<clock, entries, failures, flight>>

TakeError(c) ==
    /\ call[c].st = "failed"
    /\ goto(c, "note")
    /\ UNCHANGED <<clock, entries, failures, flight>>

(* noteFailure with the clock re-read, unless the caller is the one that gave *)
(* up; an ack then falls to the grace window, a refresh returns the error.    *)
mayNote_Always(c) == TRUE
mayNote(c) == call[c].live
NoteFailure(c) ==
    LET p == call[c].prov
    IN  /\ call[c].st = "note"
        /\ failures' = IF mayNote(c)
                       THEN put(failures, NoFail, failureDeadlines, clock, p,
                                [at |-> clock,
                                 why |-> IF call[c].live THEN "chain" ELSE "caller"])
                       ELSE failures
        /\ IF call[c].op = "ack"
           THEN call' = [call EXCEPT ![c].st = "grace", ![c].now = clock]
           ELSE answer(c, NoAnswer)
        /\ UNCHANGED <<clock, entries, flight>>

Next ==
    \/ Tick
    \/ \E c \in Callers :
         \/ \E p \in Providers, op \in {"ack", "refresh"} : Call(c, p, op)
         \/ Load(c) \/ CheckCooldown(c) \/ CheckGrace(c) \/ Join(c) \/ Cancel(c)
         \/ TakeResult(c) \/ TakeDone(c) \/ TakeError(c) \/ NoteFailure(c)
    \/ \E p \in Providers :
         FlightRead(p) \/ FlightStore(p) \/ FlightClear(p) \/ FlightFail(p) \/ FlightLand(p)

Spec == Init /\ [][Next]_vars

-----------------------------------------------------------------------------
Answers == [ok : BOOLEAN, read : None .. MaxTime, cached : BOOLEAN, stale : BOOLEAN]

(* Maps, flights and calls keep their shape; no reading comes from the future.*)
TypeOK ==
    /\ clock \in 0 .. MaxTime
    /\ entries \in [Providers -> [read : None .. clock, expires : 0 .. clock + TTL]]
    /\ failures \in [Providers -> [at : None .. clock, why : {"none", "chain", "caller"}]]
    /\ flight \in [Providers -> [st : {"none", "reading", "read", "stored", "landing"},
                                 began : 0 .. clock, read : None .. clock]]
    /\ \A c \in Callers :
         /\ call[c].st \in {"idle", "load", "cooldown", "grace", "join", "wait",
                            "landed", "failed", "note"}
         /\ call[c].began <= call[c].now /\ call[c].now <= clock
         /\ call[c].ans \in Answers /\ call[c].prov \in Providers

(* How old a reading may be when a caller is handed it, counted from the      *)
(* moment it decided: a live one at most one read, a cached one at most the   *)
(* TTL plus one read, a stale one the grace window more.  Nothing an entry    *)
(* went through (a slow read, a swept map, a failed refresh) stretches it.    *)
BoundedStaleness ==
    \A c \in Callers :
        LET a == call[c].ans
        IN  a.ok =>
              call[c].now - a.read <=
                IF ~a.cached THEN ReadMax
                ELSE IF a.stale THEN TTL + Grace + ReadMax
                ELSE TTL + ReadMax

(* "RefreshSigner reads through to the chain": what it returns is a live read *)
(* that had not finished when the call was made, never a cached or a stale    *)
(* entry, so a caller may reject a provider on it.                            *)
RefreshIsLive ==
    \A c \in Callers :
        (call[c].op = "refresh" /\ call[c].ans.ok) =>
            /\ ~call[c].ans.cached /\ ~call[c].ans.stale
            /\ call[c].ans.read >= call[c].began - ReadMax

(* noteFailure: a caller that gave up says nothing about the chain.  No       *)
(* cooldown is ever stamped for somebody else's cancellation.                 *)
OnlyTheChainCoolsDown == \A p \in Providers : failures[p].why # "caller"

(* maxCachedProviders: neither map outgrows its cap, whatever addresses the   *)
(* router pairs with a live endpoint.                                         *)
MapsBounded ==
    Cardinality(held(entries)) <= MaxTracked /\ Cardinality(held(failures)) <= MaxTracked

(* sweepExpired: making room never drops an entry a reader could still be     *)
(* given, fresh or within grace, nor a cooldown still in force (only a        *)
(* success ends that early).                                                  *)
SweepKeepsUsable ==
    \A p \in Providers :
        /\ (entries[p] # NoEntry /\ clock < entries[p].expires + Grace)
              => entries'[p] # NoEntry
        /\ (failures[p] # NoFail /\ clock < failures[p].at + Cooldown /\ failures'[p] = NoFail)
              => flight[p].st = "stored"

(* A caller is told a reading no older than the windows allow, and a refresh  *)
(* one that was read for it.                                                  *)
ReadingsInDate == TypeOK /\ BoundedStaleness /\ RefreshIsLive

(* The maps stay inside their cap, and staying there costs nobody an answer.  *)
CapKept == [][MapsBounded' /\ SweepKeepsUsable]_vars
=============================================================================
