----------------------------- MODULE CatalogCache -----------------------------
(***************************************************************************)
(* The gateway's short-TTL, single-flight cache of the router's public     *)
(* reads (client/cmd/gateway/catalogcache.go).                             *)
(*                                                                         *)
(* Every client makes one request.  The first to ask for a key leads: it   *)
(* goes upstream on a context its own client cannot cancel, answers its    *)
(* client, settles the entry and closes the entry's ready channel; the     *)
(* others wait on that channel and are answered from the entry, or fetch   *)
(* for themselves when it holds nothing that can be replayed.  An entry is *)
(* named after its leader.                                                 *)
(***************************************************************************)
EXTENDS Integers, FiniteSets, Functions

CONSTANTS
    Clients,     \* one request each
    NoClient,
    Public,      \* cacheableCatalogPaths, with their query strings
    Private,     \* paths whose answer is the asking user's
    Accepts,     \* what clients say of gzip: "gzip", "refused" (q=0), "absent"
    TTL,         \* defaultCatalogCacheTTL
    MaxEntries,  \* catalogCacheMaxEntries
    MaxTime      \* bound: the clock stops here

ASSUME CatalogAssumption ==
    /\ IsFiniteSet(Clients) /\ Clients \subseteq Nat \ {NoClient}
    /\ Public \cap Private = {} /\ Accepts \subseteq {"absent", "gzip", "refused"}
    /\ TTL \in Nat \ {0} /\ MaxEntries \in Nat \ {0} /\ MaxTime \in Nat

VARIABLES
    now,
    inflight,  \* catalogCache.inflight: key -> entry being filled, uncapped
    entries,   \* catalogCache.entries: key -> settled entry, capped
    ent,       \* the entries themselves
    cl         \* each client's request

catalogVars == <<now, inflight, entries, ent, cl>>

(* An answer: its status, whether its body is all there, how it is coded, and *)
(* for whom and of what it was fetched.                                       *)
Answer == [status : {0, 200, 502}, whole : BOOLEAN, gzip : BOOLEAN,
           owner : Clients, path : Public \cup Private]

CatalogSteps == {"idle", "upstream", "flush", "settle", "close", "wait", "direct", "done", "left"}

-----------------------------------------------------------------------------
acceptsGzip(h) == h = "gzip"

(* The cache key: path, query and whether the client takes gzip.              *)
keyOf(path, accept) == <<path, acceptsGzip(accept)>>

cacheable_AnyGet(path) == TRUE
cacheable(path) == path \in Public

fresh_Forever(e) == TRUE
fresh(e) == now < ent[e].expires

NoAnswer == [status |-> 0, whole |-> FALSE, gzip |-> FALSE, owner |-> NoClient,
             path |-> "none"]

CatalogInit ==
    /\ now = 0
    /\ inflight = <<>> /\ entries = <<>>
    /\ ent = [c \in Clients |-> [ready |-> FALSE, bypass |-> FALSE, answer |-> NoAnswer,
                                 expires |-> 0]]
    /\ cl = [c \in Clients |-> [pc |-> "idle", path |-> "none", accept |-> "absent",
                                entry |-> NoClient, joined |-> FALSE, arrived |-> 0,
                                completed |-> FALSE, overflow |-> FALSE,
                                rec |-> NoAnswer, got |-> NoAnswer]]

Key(c) == keyOf(cl[c].path, cl[c].accept)

(* acquire: join the flight, else take a settled entry still fresh, else lead.*)
acquire_CapsFlights(key, c) ==
    IF key \in DOMAIN inflight THEN [e |-> inflight[key], fl |-> inflight, en |-> entries]
    ELSE IF key \in DOMAIN entries /\ fresh(entries[key])
    THEN [e |-> entries[key], fl |-> inflight, en |-> entries]
    ELSE [e |-> c,
          fl |-> IF Cardinality(DOMAIN entries) >= MaxEntries THEN inflight
                 ELSE [k \in DOMAIN inflight \cup {key} |-> IF k = key THEN c ELSE inflight[k]],
          en |-> Restrict(entries, DOMAIN entries \ {key})]
acquire(key, c) ==
    IF key \in DOMAIN inflight THEN [e |-> inflight[key], fl |-> inflight, en |-> entries]
    ELSE IF key \in DOMAIN entries /\ fresh(entries[key])
    THEN [e |-> entries[key], fl |-> inflight, en |-> entries]
    ELSE [e |-> c,
          fl |-> [k \in DOMAIN inflight \cup {key} |-> IF k = key THEN c ELSE inflight[k]],
          en |-> Restrict(entries, DOMAIN entries \ {key})]

(* wrap: a GET arrives; anything not on the list goes straight through.       *)
(* Clients are numbered in the order they arrive.                             *)
wrap(c, path, accept) ==
    /\ cl[c].pc = "idle" /\ \A d \in Clients : d < c => cl[d].pc # "idle"
    /\ LET a    == acquire(keyOf(path, accept), c)
           lead == a.e = c
           kept == ~lead /\ keyOf(path, accept) \notin DOMAIN inflight
           base == [cl[c] EXCEPT !.path = path, !.accept = accept]
       IN  IF ~cacheable(path)
           THEN /\ cl' = [cl EXCEPT ![c] = [base EXCEPT !.pc = "direct"]]
                /\ UNCHANGED <<inflight, entries>>
           ELSE /\ cl' = [cl EXCEPT ![c] =
                            [base EXCEPT !.pc = IF lead THEN "upstream" ELSE "wait",
                                         !.entry = a.e, !.joined = ~lead /\ ~kept,
                                         !.arrived = IF kept THEN now ELSE 0]]
                /\ inflight' = a.fl /\ entries' = a.en
    /\ UNCHANGED <<now, ent>>

(* What the router may answer a fetch of c: gzip only where it was asked for. *)
replyTo(c, status, whole, gzip) ==
    [status |-> status, whole |-> whole, gzip |-> gzip /\ acceptsGzip(cl[c].accept),
     owner |-> c, path |-> cl[c].path]

(* fill: the round trip into the recorder.  It returns; or the copy breaks and*)
(* panics (a body cut short, or nothing received at all).  A body past        *)
(* catalogCacheMaxBody has been streamed out as it came.  A short body that   *)
(* does not panic has contradicted its Content-Length.                        *)
Upstream(c, status, body, panics, gzip) ==
    /\ cl[c].pc = "upstream"
    /\ body = "short" => status = 200
    /\ status = 0 => panics /\ body = "whole"
    /\ panics => status = 0 \/ body = "short"
    /\ body = "over" => status = 200
    /\ cl' = [cl EXCEPT ![c].rec = replyTo(c, status, body # "short" /\ status # 0, gzip),
                        ![c].overflow = body = "over",
                        ![c].pc = IF panics THEN "settle" ELSE "flush"]
    /\ UNCHANGED <<now, inflight, entries, ent>>

(* rec.flush: the buffered answer goes to the leader's own client, as fast as *)
(* it reads; then the fill is complete.                                       *)
Flush(c) ==
    /\ cl[c].pc = "flush"
    /\ cl' = [cl EXCEPT ![c].pc = "settle", ![c].completed = TRUE]
    /\ UNCHANGED <<now, inflight, entries, ent>>

replayable_OnStatus(c) == ~cl[c].overflow /\ cl[c].rec.status # 0
replayable(c) ==
    cl[c].completed /\ ~cl[c].overflow /\ cl[c].rec.status # 0 /\ cl[c].rec.whole

keeps_AnyStatus(c) == replayable(c)
keeps(c) == replayable(c) /\ cl[c].rec.status = 200

(* evictExpiredLocked, when the map is full.                                  *)
swept ==
    IF Cardinality(DOMAIN entries) >= MaxEntries
    THEN Restrict(entries, {k \in DOMAIN entries : fresh(entries[k])}) ELSE entries

roomIn_OffByOne(m) == Cardinality(DOMAIN m) <= MaxEntries
roomIn(m) == Cardinality(DOMAIN m) < MaxEntries

(* settle: what the waiters get, the flight released, and the answer kept if  *)
(* it is a 200 and there is room among the live ones.                         *)
Settle(c) ==
    LET key  == Key(c)
        room == roomIn(swept)
    IN  /\ cl[c].pc = "settle"
        /\ ent' = [ent EXCEPT ![c].bypass = ~replayable(c),
                              ![c].answer = IF replayable(c) THEN cl[c].rec ELSE @,
                              ![c].expires = IF keeps(c) /\ room THEN now + TTL ELSE @]
        /\ inflight' = Restrict(inflight, DOMAIN inflight \ {key})
        /\ entries' = IF ~keeps(c) THEN entries
                      ELSE IF room
                      THEN [k \in DOMAIN swept \cup {key} |-> IF k = key THEN c ELSE swept[k]]
                      ELSE swept
        /\ cl' = [cl EXCEPT ![c].pc = "close", ![c].rec = NoAnswer, ![c].overflow = FALSE]
        /\ UNCHANGED now

(* close(e.ready), and the leader's handler is over.                          *)
Close_OnSuccess(c) ==
    /\ cl[c].pc = "close" /\ cl[c].completed
    /\ ent' = [ent EXCEPT ![c].ready = TRUE]
    /\ cl' = [cl EXCEPT ![c].pc = "done", ![c].completed = FALSE]
    /\ UNCHANGED <<now, inflight, entries>>
Close(c) ==
    /\ cl[c].pc = "close"
    /\ ent' = [ent EXCEPT ![c].ready = TRUE]
    /\ cl' = [cl EXCEPT ![c].pc = "done", ![c].completed = FALSE]
    /\ UNCHANGED <<now, inflight, entries>>

(* A waiter's select takes the closed channel: replayCatalog, or its own fetch.*)
WaiterServed(c) ==
    LET e == ent[cl[c].entry]
    IN  /\ cl[c].pc = "wait" /\ e.ready
        /\ cl' = [cl EXCEPT ![c].pc = IF e.bypass THEN "direct" ELSE "done",
                            ![c].got = IF e.bypass THEN @ ELSE e.answer]
        /\ UNCHANGED <<now, inflight, entries, ent>>

(* A fetch of one's own: straight through to the router, whatever it answers. *)
Direct(c) ==
    /\ cl[c].pc = "direct"
    /\ cl' = [cl EXCEPT ![c].pc = "done", ![c].got = replyTo(c, 200, TRUE, FALSE)]
    /\ UNCHANGED <<now, inflight, entries, ent>>

(* A client disconnects: a waiting or a direct request ends there.  A leader's*)
(* does not, since its round trip is detached (its Flush then writes to       *)
(* nobody).                                                                   *)
Leave(c) ==
    /\ cl[c].pc \in {"wait", "direct"}
    /\ cl' = [cl EXCEPT ![c].pc = "left"]
    /\ UNCHANGED <<now, inflight, entries, ent>>

Tick ==
    /\ now < MaxTime
    /\ now' = now + 1
    /\ UNCHANGED <<inflight, entries, ent, cl>>

LeaderStep(c) ==
    \/ \E status \in {0, 200, 502}, body \in {"whole", "short", "over"}, panics, gzip \in BOOLEAN :
          Upstream(c, status, body, panics, gzip)
    \/ Settle(c)
    \/ Close(c)
ReaderStep(c) == WaiterServed(c) \/ Direct(c)

CatalogNext ==
    \/ Tick
    \/ \E c \in Clients :
          \/ \E path \in Public \cup Private, accept \in Accepts : wrap(c, path, accept)
          \/ LeaderStep(c) \/ Flush(c) \/ ReaderStep(c) \/ Leave(c)

CatalogSpec == CatalogInit /\ [][CatalogNext]_catalogVars

(* Handlers run on, catalogUpstreamTimeout ends a round trip, and a client    *)
(* reads its answer or disconnects (the server sets no write deadline).       *)
FairSpec ==
    /\ CatalogSpec
    /\ \A c \in Clients : /\ WF_catalogVars(LeaderStep(c)) /\ WF_catalogVars(ReaderStep(c))
                         /\ WF_catalogVars(Flush(c))
-----------------------------------------------------------------------------
Replayed(c) == cl[c].pc = "done" /\ cl[c].got.owner \notin {c, NoClient}

(* Every variable keeps its type, and both maps lead to entries.              *)
CatalogTypeOK ==
    /\ now \in 0 .. MaxTime
    /\ Range(inflight) \subseteq Clients /\ Range(entries) \subseteq Clients
    /\ \A c \in Clients :
          /\ cl[c].pc \in CatalogSteps
          /\ cl[c].got \in Answer \cup {NoAnswer}
          /\ cl[c].pc = "wait" => cl[c].entry \in Clients
          /\ ent[c].answer \in Answer \cup {NoAnswer}
    /\ Cardinality(DOMAIN entries) <= MaxEntries

(* One upstream request per key at any time, also past the cap of settled     *)
(* entries, which holds: the router's single shared budget rests on it.       *)
SingleFlight ==
    /\ CatalogTypeOK
    /\ \A c, d \in Clients :
          (c # d /\ {cl[c].pc, cl[d].pc} \subseteq {"upstream", "flush", "settle"}) => Key(c) # Key(d)

(* What a waiter or a later reader is handed is a whole answer with a status, *)
(* of the path it asked for and in a coding it takes.                         *)
ReplayFits ==
    \A c \in Clients : Replayed(c) =>
        /\ cl[c].got.whole /\ cl[c].got.status # 0
        /\ cl[c].got.path = cl[c].path
        /\ cl[c].got.gzip => cl[c].accept = "gzip"

(* The answer to one user's private read never reaches another.               *)
PrivateNeverShared ==
    \A c \in Clients : cl[c].path \in Private => cl[c].got.owner \in {c, NoClient}

(* A router error is shared with those already waiting and then forgotten.    *)
ErrorsNotPinned ==
    \A c \in Clients : (Replayed(c) /\ cl[c].got.status # 200) => cl[c].joined

(* A settled answer reaches readers that arrive within its TTL, none later.   *)
ReplayIsFresh ==
    \A c \in Clients : (Replayed(c) /\ ~cl[c].joined) => ent[cl[c].entry].expires > cl[c].arrived

(* A waiter is answered, or leaves, whatever becomes of its leader: a panic, a*)
(* timeout, a client that goes away.                                          *)
WaitersReleased == \A c \in Clients : cl[c].pc = "wait" ~> cl[c].pc \in {"done", "left"}

(* Whatever is handed to a client that did not fetch it is fit for it: whole, *)
(* in its coding, public, in date, and an error only for who waited for it.   *)
ReplaySound == ReplayFits /\ ReplayIsFresh /\ ErrorsNotPinned /\ PrivateNeverShared
=============================================================================
