--------------------------- MODULE Grounding_proof ---------------------------
(***************************************************************************)
(* Proofs about Grounding, for every set of requests, every length of the  *)
(* cache lifetimes and recovery windows, with and without enforcement.     *)
(***************************************************************************)
EXTENDS Grounding, TLAPS

-----------------------------------------------------------------------------
(* The inductive invariant.                                                   *)
Reading == [gen : Int, cached : BOOLEAN]
Holding == [pc : Places, stale : Int, enc : Int, signer : Int, facts : Int,
            cached : BOOLEAN, reading : Reading, recovered : BOOLEAN,
            rekeyed : BOOLEAN, outcome : Outcomes,
            turned : {"no", "cached", "current", "throttled"}]
Stamp == [at : Int, by : {"refresh", "ground"}, failed : BOOLEAN]

(* A generation the broker has served by the time n is current, or none yet.  *)
Served(g, n) == g \in Int /\ (g = None \/ (1 <= g /\ g <= n))
Rejected(g, n) == Served(g, n) /\ (g # None => g < n)

(* What a request holds comes from one quote; agreement was reached on a      *)
(* reading the chain really gave, and outlives no re-read of the keys.        *)
QInv(q, n, ak) ==
    /\ q.enc = q.signer /\ q.signer = q.facts
    /\ Served(q.enc, n) /\ Rejected(q.stale, n)
    /\ q.outcome = "ok" => /\ q.pc \in {"conclude", "sealed", "served", "refused", "failed"}
                           /\ q.signer \in ak
    /\ (Enforce /\ q.pc \in {"sealed", "served"}) => q.outcome = "ok"
    /\ q.turned # "current"

(* A request that waits has something to wait for, and one that recovers has  *)
(* stamped the window; v and f are where the two flights are.                 *)
Waits(q, v, f, len) ==
    /\ q.pc \in {"verify", "recovering"} => v # "none"
    /\ q.pc = "refreshing" => f # "none"
    /\ q.pc = "recovering" => len > 0

Good(q, n, ak, v, f, len) == q \in Holding /\ QInv(q, n, ak) /\ Waits(q, v, f, len)

(* The books of the re-verification window: the last stamp keeps it shut.     *)
Book(s, c, next) ==
    /\ s \in Seq(Stamp) /\ next \in Int
    /\ \A k \in 1 .. Len(s) - 1 : s[k + 1].at - s[k].at >= gap(s[k])
    /\ Len(s) > 0 => s[Len(s)].at <= c /\ next >= s[Len(s)].at + gap(s[Len(s)])

WorldInv ==
    /\ clock \in Nat /\ clock <= MaxTime
    /\ gen \in Nat /\ 1 <= gen /\ gen <= MaxGen
    /\ chain \in Nat /\ chain <= gen
    /\ acked \subseteq 1 .. gen
    /\ chain # Unacknowledged => chain \in acked

CachesInv ==
    /\ quotes \in [gen : Int, exp : Int] /\ Served(quotes.gen, gen)
    /\ signers \in [gen : Int, exp : Int]
    /\ signers.gen \in {None, Unacknowledged} \cup acked
    /\ warmer \in {"idle", "wait"}

FlightsInv ==
    /\ verifySF \in [st : {"none", "run", "got"}, got : Int] /\ Served(verifySF.got, gen)
    /\ refreshSF \in [st : {"none", "check", "verify"}, stale : Int]
    /\ Rejected(refreshSF.stale, gen)
    /\ refreshSF.st = "verify" => verifySF.st # "none" /\ Len(stamps) > 0

RequestsInv ==
    /\ req \in [Requests -> Holding]
    /\ \A r \in Requests : QInv(req[r], gen, acked)
    /\ \A r \in Requests : Waits(req[r], verifySF.st, refreshSF.st, Len(stamps))

GroundInv ==
    WorldInv /\ CachesInv /\ FlightsInv /\ Book(stamps, clock, nextVerify) /\ RequestsInv

-----------------------------------------------------------------------------
LEMMA Constants ==
    /\ Enforce \in BOOLEAN /\ QuoteTTL \in Nat /\ QuoteTTL > 0 /\ SignerTTL \in Nat
    /\ SignerGrace \in Nat /\ Window \in Nat /\ Backoff \in Nat
    /\ MaxGen \in Nat /\ MaxGen > 0 /\ MaxTime \in Nat /\ None = -1 /\ Unacknowledged = 0
BY GroundingAssumption DEF None, Unacknowledged

LEMMA GapIs == ASSUME NEW s \in Stamp
               PROVE  gap(s) \in Nat /\ gap(s) <= QuoteTTL
                      /\ (s.failed => gap(s) <= Backoff) /\ (~s.failed => gap(s) = QuoteTTL)
BY Constants DEF gap, Stamp

LEMMA StampAt == ASSUME NEW s \in Stamp PROVE s.at \in Int /\ s.failed \in BOOLEAN
BY DEF Stamp

(* rateLimiter: a recovery stamps the window when the last stamp allows it.   *)
LEMMA BookAppend ==
    ASSUME NEW s, NEW c \in Nat, NEW next, NEW e \in Stamp,
           Book(s, c, next), c >= next, e.at = c, ~e.failed
    PROVE  Book(Append(s, e), c, c + QuoteTTL) /\ Len(Append(s, e)) > 0
<1> DEFINE t == Append(s, e)
<1>0. s \in Seq(Stamp) /\ next \in Int /\ Len(s) \in Nat
  BY DEF Book
<1>1. t \in Seq(Stamp) /\ Len(t) = Len(s) + 1 /\ t[Len(t)] = e
  BY <1>0
<1>2. \A k \in 1 .. Len(s) : t[k] = s[k] /\ s[k] \in Stamp /\ s[k].at \in Int
  <2>1. \A k \in 1 .. Len(s) : t[k] = s[k] /\ s[k] \in Stamp
    BY <1>0
  <2> HIDE DEF t
  <2> QED BY <2>1, StampAt
<1>3. ASSUME NEW k \in 1 .. Len(t) - 1 PROVE t[k + 1].at - t[k].at >= gap(t[k])
  <2>1. k \in 1 .. Len(s) /\ t[k] = s[k] /\ s[k] \in Stamp /\ s[k].at \in Int
    BY <1>0, <1>1, <1>2
  <2>2. CASE k < Len(s)
    <3>1. k + 1 \in 1 .. Len(s) /\ k \in 1 .. Len(s) - 1
      BY <1>0, <2>1, <2>2
    <3>2. t[k + 1] = s[k + 1]
      BY <1>2, <3>1
    <3> QED BY <2>1, <3>1, <3>2 DEF Book
  <2>3. CASE k = Len(s)
    <3>1. t[k + 1] = e
      BY <1>1, <2>3
    <3>2. next >= s[k].at + gap(s[k])
      BY <1>0, <2>1, <2>3 DEF Book
    <3>3. gap(s[k]) \in Nat
      BY <2>1, GapIs
    <3> HIDE DEF t
    <3> QED BY <1>0, <2>1, <3>1, <3>2, <3>3
  <2> QED BY <1>0, <2>1, <2>2, <2>3
<1>4. gap(e) = QuoteTTL
  BY GapIs
<1>5. c + QuoteTTL \in Int
  BY Constants
<1> HIDE DEF t
<1>6. Len(t) > 0 /\ t[Len(t)].at <= c /\ c + QuoteTTL >= t[Len(t)].at + gap(t[Len(t)])
  BY <1>0, <1>1, <1>4, Constants
<1>7. Book(t, c, c + QuoteTTL)
  BY ONLY <1>1, <1>3, <1>5, <1>6 DEF Book
<1> QED BY <1>6, <1>7 DEF t

(* reschedule: a recovery that concluded nothing shortens the window, to a    *)
(* backoff and no less.                                                       *)
LEMMA BookFail ==
    ASSUME NEW s, NEW c \in Nat, NEW next, Book(s, c, next), Len(s) > 0
    PROVE  LET t == [s EXCEPT ![Len(s)].failed = TRUE]
           IN  /\ Book(t, c, IF next > c + Backoff THEN c + Backoff ELSE next)
               /\ Len(t) = Len(s)
<1> DEFINE n == Len(s)
           t == [s EXCEPT ![n].failed = TRUE]
           m == IF next > c + Backoff THEN c + Backoff ELSE next
<1>0. s \in Seq(Stamp) /\ next \in Int /\ n \in Nat /\ n > 0
  BY DEF Book
<1>1. s[n] \in Stamp /\ s[n].at \in Int /\ s[n].at <= c
  <2>1. s[n] \in Stamp
    BY <1>0
  <2>2. s[n].at <= c
    BY <1>0 DEF Book
  <2> QED BY <2>1, <2>2, StampAt
<1>2. [s[n] EXCEPT !.failed = TRUE] \in Stamp /\ [s[n] EXCEPT !.failed = TRUE].at = s[n].at
      /\ [s[n] EXCEPT !.failed = TRUE].failed
  BY <1>1 DEF Stamp
<1>3. t \in Seq(Stamp) /\ Len(t) = n /\ t[n] = [s[n] EXCEPT !.failed = TRUE]
  <2> DEFINE e == [s[n] EXCEPT !.failed = TRUE]
  <2>1. e \in Stamp
    BY <1>2
  <2> HIDE DEF e
  <2>2. [s EXCEPT ![n] = e] \in Seq(Stamp) /\ Len([s EXCEPT ![n] = e]) = n /\ [s EXCEPT ![n] = e][n] = e
    BY <1>0, <2>1
  <2> QED BY <2>2 DEF e
<1>4. \A k \in 1 .. n : k < n => t[k] = s[k]
  BY <1>0
<1>5. gap(t[n]) \in Nat /\ gap(t[n]) <= gap(s[n]) /\ gap(t[n]) <= Backoff /\ gap(s[n]) \in Nat
  BY <1>1, <1>2, <1>3, Constants DEF gap, Stamp
<1>6. \A k \in 1 .. n : t[k].at = s[k].at
  BY <1>0, <1>2, <1>3, <1>4
<1> HIDE DEF t, n
<1>7. ASSUME NEW k \in 1 .. Len(t) - 1 PROVE t[k + 1].at - t[k].at >= gap(t[k])
  <2>1. k \in 1 .. n /\ k + 1 \in 1 .. n /\ k < n /\ k \in 1 .. n - 1
    BY <1>0, <1>3
  <2>2. t[k] = s[k] /\ t[k + 1].at = s[k + 1].at
    BY <1>4, <1>6, <2>1
  <2>3. s[k + 1].at - s[k].at >= gap(s[k])
    BY <2>1 DEF Book, n
  <2> QED BY <2>2, <2>3
<1>8. next >= s[n].at + gap(s[n])
  BY <1>0 DEF Book, n
<1>9. m \in Int /\ m >= t[n].at + gap(t[n]) /\ t[n].at <= c
  <2>1. t[n].at = s[n].at
    BY <1>2, <1>3
  <2> QED BY <1>0, <1>1, <1>5, <1>8, <2>1, Constants
<1> HIDE DEF m
<1>10. Book(t, c, m)
  BY <1>0, <1>3, <1>7, <1>9 DEF Book
<1> QED BY <1>3, <1>10 DEF t, n, m

LEMMA BookTick ==
    ASSUME NEW s, NEW c \in Nat, NEW next, Book(s, c, next) PROVE Book(s, c + 1, next)
<1>1. s \in Seq(Stamp) /\ (Len(s) > 0 => s[Len(s)].at \in Int)
  <2>1. s \in Seq(Stamp)
    BY DEF Book
  <2>2. Len(s) > 0 => s[Len(s)] \in Stamp
    BY <2>1
  <2> QED BY <2>1, <2>2, StampAt
<1>2. Len(s) > 0 => s[Len(s)].at <= c + 1
  BY <1>1 DEF Book
<1> QED BY <1>1, <1>2 DEF Book

-----------------------------------------------------------------------------
(* What the assignments to a request's record leave it with.                  *)

(* Only the place changes. *)
LEMMA Moves ==
    ASSUME NEW q \in Holding, NEW p \in Places
    PROVE  LET f == [q EXCEPT !.pc = p]
           IN  /\ f \in Holding /\ f.pc = p /\ f.enc = q.enc /\ f.signer = q.signer
               /\ f.facts = q.facts /\ f.stale = q.stale /\ f.outcome = q.outcome
               /\ f.turned = q.turned
BY DEF Holding

LEMMA MovesRecovered ==
    ASSUME NEW q \in Holding, NEW p \in Places
    PROVE  LET f == [q EXCEPT !.pc = p, !.recovered = TRUE]
           IN  /\ f \in Holding /\ f.pc = p /\ f.enc = q.enc /\ f.signer = q.signer
               /\ f.facts = q.facts /\ f.stale = q.stale /\ f.outcome = q.outcome
               /\ f.turned = q.turned
BY DEF Holding

LEMMA MovesTurned ==
    ASSUME NEW q \in Holding, NEW p \in Places, NEW w \in {"no", "cached", "current", "throttled"}
    PROVE  LET f == [q EXCEPT !.pc = p, !.turned = w]
           IN  /\ f \in Holding /\ f.pc = p /\ f.enc = q.enc /\ f.signer = q.signer
               /\ f.facts = q.facts /\ f.stale = q.stale /\ f.outcome = q.outcome
               /\ f.turned = w
BY DEF Holding

(* take: keys and facts together.                                             *)
LEMMA Takes ==
    ASSUME NEW q \in Holding, NEW g \in Int, NEW c \in BOOLEAN
    PROVE  LET f == take(q, g, c)
           IN  /\ f \in Holding /\ f.pc = q.pc /\ f.enc = g /\ f.signer = g
               /\ f.facts = g /\ f.stale = q.stale /\ f.outcome = q.outcome
               /\ f.turned = q.turned
BY DEF Holding, take

(* judge: agreement with the reading, or a finding and somewhere to take it.  *)
LEMMA Judges ==
    ASSUME NEW q \in Holding, NEW g \in Int, NEW c \in BOOLEAN
    PROVE  LET f == judge(q, g, c)
           IN  /\ f \in Holding /\ f.enc = q.enc /\ f.signer = q.signer
               /\ f.facts = q.facts /\ f.stale = q.stale /\ f.turned = q.turned
               /\ f.pc \in {"conclude", "doubt", "negative"}
               /\ f.outcome = "ok" => f.pc = "conclude" /\ g # Unacknowledged /\ g = q.signer
<1> DEFINE rd == [gen |-> g, cached |-> c]
           o  == IF g = Unacknowledged THEN "not_acknowledged" ELSE "mismatch"
           p  == IF c THEN "doubt" ELSE "negative"
<1>1. rd \in Reading
  BY DEF Reading
<1>2. o \in Outcomes /\ o # "ok" /\ p \in {"doubt", "negative"} /\ p \in Places
  BY DEF Outcomes, Places
<1> HIDE DEF rd, o, p
<1>3. CASE signerAgrees(g, q.signer)
  <2> DEFINE f == [q EXCEPT !.pc = "conclude", !.outcome = "ok", !.reading = rd]
  <2>1. judge(q, g, c) = f
    BY <1>3 DEF judge, rd
  <2>2. "conclude" \in Places /\ "ok" \in Outcomes
    BY DEF Places, Outcomes
  <2>3. /\ f \in Holding /\ f.enc = q.enc /\ f.signer = q.signer
        /\ f.facts = q.facts /\ f.stale = q.stale /\ f.turned = q.turned /\ f.pc = "conclude"
    BY <1>1, <2>2 DEF Holding
  <2> HIDE DEF f
  <2> QED BY <1>3, <2>1, <2>3 DEF signerAgrees
<1>4. CASE ~signerAgrees(g, q.signer)
  <2> DEFINE f == [q EXCEPT !.reading = rd, !.outcome = o, !.pc = p]
  <2>1. judge(q, g, c) = f
    BY <1>4 DEF judge, rd, o, p
  <2>2. /\ f \in Holding /\ f.enc = q.enc /\ f.signer = q.signer
        /\ f.facts = q.facts /\ f.stale = q.stale /\ f.turned = q.turned /\ f.pc = p /\ f.outcome = o
    BY <1>1, <1>2 DEF Holding
  <2> HIDE DEF f
  <2> QED BY <1>2, <2>1, <2>2
<1> QED BY <1>3, <1>4

LEMMA FreshIs ==
    /\ Fresh \in Holding
    /\ Fresh.pc = "idle" /\ Fresh.enc = None /\ Fresh.signer = None /\ Fresh.facts = None
    /\ Fresh.stale = None /\ Fresh.outcome = "none" /\ Fresh.turned = "no"
BY DEF Fresh, NoReading, Holding, Reading, Places, Outcomes, None

(* Attempt: a rejected request starts over with the key it was refused.       *)
LEMMA StartsOver ==
    ASSUME NEW g \in Int
    PROVE  LET f == [Fresh EXCEPT !.pc = "lookup", !.stale = g, !.rekeyed = TRUE]
           IN  /\ f \in Holding /\ f.pc = "lookup" /\ f.enc = None /\ f.signer = None
               /\ f.facts = None /\ f.stale = g /\ f.outcome = "none" /\ f.turned = "no"
BY FreshIs DEF Holding, Places

-----------------------------------------------------------------------------
(* The invariant over the pieces of a step.                                   *)

LEMMA QMono ==
    ASSUME NEW q, NEW n \in Nat, NEW m \in Nat, NEW ak, NEW bk, QInv(q, n, ak), n <= m, ak \subseteq bk
    PROVE  QInv(q, m, bk)
BY Constants DEF QInv, Served, Rejected

(* One request moves; the flights it leaves behind are still there.           *)
LEMMA StepOne ==
    ASSUME RequestsInv, NEW r \in Requests, NEW f, set(r, f),
           f \in Holding, QInv(f, gen, acked), Waits(f, verifySF'.st, refreshSF'.st, Len(stamps')),
           gen' = gen, acked' = acked,
           verifySF.st # "none" => verifySF'.st # "none",
           refreshSF.st # "none" => refreshSF'.st # "none",
           Len(stamps) \in Nat, Len(stamps') \in Nat, Len(stamps') >= Len(stamps)
    PROVE  RequestsInv'
<1>1. req \in [Requests -> Holding] /\ req' = [req EXCEPT ![r] = f]
  BY DEF RequestsInv, set
<1>2. req' \in [Requests -> Holding] /\ req'[r] = f /\ \A x \in Requests : x # r => req'[x] = req[x]
  BY <1>1
<1>3. ASSUME NEW x \in Requests
      PROVE  QInv(req'[x], gen', acked') /\ Waits(req'[x], verifySF'.st, refreshSF'.st, Len(stamps'))
  <2>1. CASE x = r
    BY <1>2, <2>1
  <2>2. CASE x # r
    <3>1. req'[x] = req[x] /\ QInv(req[x], gen, acked)
          /\ Waits(req[x], verifySF.st, refreshSF.st, Len(stamps))
      BY <1>2, <2>2 DEF RequestsInv
    <3> QED BY <3>1 DEF Waits
  <2> QED BY <2>1, <2>2
<1> QED BY <1>2, <1>3 DEF RequestsInv

LEMMA Parts ==
    ASSUME GroundInv, NEW r \in Requests
    PROVE  /\ req[r] \in Holding /\ QInv(req[r], gen, acked)
           /\ Waits(req[r], verifySF.st, refreshSF.st, Len(stamps))
           /\ Served(req[r].enc, gen) /\ req[r].enc \in Int /\ req[r].stale \in Int /\ req[r].signer \in Int
BY DEF GroundInv, RequestsInv, QInv, Served, Rejected, Holding

LEMMA Joins ==
    ASSUME FlightsInv, joinVerify
    PROVE  /\ verifySF' \in [st : {"none", "run", "got"}, got : Int] /\ Served(verifySF'.got, gen)
           /\ verifySF'.st # "none"
BY Constants DEF FlightsInv, joinVerify, Served

LEMMA StampsLen == ASSUME NEW s, NEW c, NEW n, Book(s, c, n) PROVE Len(s) \in Nat
BY DEF Book

(* A request that only moves keeps its part of the invariant.                 *)
LEMMA MoveKeeps ==
    ASSUME NEW q, NEW f, NEW n, NEW ak, QInv(q, n, ak),
           f.enc = q.enc, f.signer = q.signer, f.facts = q.facts, f.stale = q.stale,
           f.outcome = q.outcome, f.turned # "current",
           q.outcome = "ok" => f.pc \in {"conclude", "sealed", "served", "refused", "failed"},
           (Enforce /\ f.pc \in {"sealed", "served"}) => q.outcome = "ok"
    PROVE  QInv(f, n, ak)
BY DEF QInv

(* So does one that takes a verified quote whole and goes to be grounded.     *)
LEMMA TakeKeeps ==
    ASSUME NEW q \in Holding, NEW n, NEW ak, NEW g, NEW c \in BOOLEAN, NEW f,
           QInv(q, n, ak), Served(g, n), q.outcome # "ok",
           f = [take(q, g, c) EXCEPT !.pc = "ground"]
    PROVE  /\ f \in Holding /\ QInv(f, n, ak) /\ f.pc = "ground"
           /\ f.enc = g /\ f.outcome = q.outcome
<1> DEFINE t == take(q, g, c)
<1>1. g \in Int /\ "ground" \in Places
  BY DEF Served, Places
<1>2. /\ t \in Holding /\ t.pc = q.pc /\ t.enc = g /\ t.signer = g
      /\ t.facts = g /\ t.stale = q.stale /\ t.outcome = q.outcome
      /\ t.turned = q.turned
  BY <1>1, Takes
<1> HIDE DEF t
<1>3. f = [t EXCEPT !.pc = "ground"]
  BY DEF t
<1>4. /\ f \in Holding /\ f.pc = "ground" /\ f.enc = t.enc /\ f.signer = t.signer
      /\ f.facts = t.facts /\ f.stale = t.stale /\ f.outcome = t.outcome
      /\ f.turned = t.turned
  <2>1. t \in Holding /\ "ground" \in Places
    BY <1>1, <1>2
  <2> DEFINE u == [t EXCEPT !.pc = "ground"]
  <2>2. /\ u \in Holding /\ u.pc = "ground" /\ u.enc = t.enc /\ u.signer = t.signer
        /\ u.facts = t.facts /\ u.stale = t.stale /\ u.outcome = t.outcome
        /\ u.turned = t.turned
    BY ONLY <2>1, Moves
  <2>3. f = u
    BY <1>3
  <2> HIDE DEF u
  <2> QED BY ONLY <2>2, <2>3
<1> QED BY <1>2, <1>4 DEF QInv

LEMMA TakeRecovered ==
    ASSUME NEW q \in Holding, NEW n, NEW ak, NEW g, NEW c \in BOOLEAN, NEW f,
           QInv(q, n, ak), Served(g, n), q.outcome # "ok",
           f = [take(q, g, c) EXCEPT !.pc = "ground", !.recovered = TRUE]
    PROVE  f \in Holding /\ QInv(f, n, ak) /\ f.pc = "ground"
<1> DEFINE t == take(q, g, c)
<1>1. g \in Int /\ "ground" \in Places
  BY DEF Served, Places
<1>2. /\ t \in Holding /\ t.pc = q.pc /\ t.enc = g /\ t.signer = g
      /\ t.facts = g /\ t.stale = q.stale /\ t.outcome = q.outcome
      /\ t.turned = q.turned
  BY <1>1, Takes
<1> HIDE DEF t
<1>3. f = [t EXCEPT !.pc = "ground", !.recovered = TRUE]
  BY DEF t
<1>4. /\ f \in Holding /\ f.pc = "ground" /\ f.enc = t.enc /\ f.signer = t.signer
      /\ f.facts = t.facts /\ f.stale = t.stale /\ f.outcome = t.outcome
      /\ f.turned = t.turned
  <2>1. t \in Holding /\ "ground" \in Places
    BY <1>1, <1>2
  <2> DEFINE u == [t EXCEPT !.pc = "ground", !.recovered = TRUE]
  <2>2. /\ u \in Holding /\ u.pc = "ground" /\ u.enc = t.enc /\ u.signer = t.signer
        /\ u.facts = t.facts /\ u.stale = t.stale /\ u.outcome = t.outcome
        /\ u.turned = t.turned
    BY ONLY <2>1, MovesRecovered
  <2>3. f = u
    BY <1>3
  <2> HIDE DEF u
  <2> QED BY ONLY <2>2, <2>3
<1> QED BY <1>2, <1>4 DEF QInv

(* And one that is judged against what the chain said.                        *)
LEMMA JudgeKeeps ==
    ASSUME NEW q \in Holding, NEW n, NEW ak, NEW g \in Int, NEW c \in BOOLEAN, NEW f,
           QInv(q, n, ak), g # Unacknowledged => g = None \/ g \in ak, g # None,
           f = judge(q, g, c)
    PROVE  f \in Holding /\ QInv(f, n, ak) /\ f.pc \in {"conclude", "doubt", "negative"}
<1>1. /\ f \in Holding /\ f.enc = q.enc /\ f.signer = q.signer
      /\ f.facts = q.facts /\ f.stale = q.stale /\ f.turned = q.turned
      /\ f.pc \in {"conclude", "doubt", "negative"}
      /\ f.outcome = "ok" => f.pc = "conclude" /\ g # Unacknowledged /\ g = q.signer
  BY Judges
<1> QED BY <1>1 DEF QInv

-----------------------------------------------------------------------------
(* The actions of one request.                                                *)

(* A step that writes nothing but the request.                                *)
LEMMA LocalStep ==
    ASSUME GroundInv, NEW r \in Requests, NEW f, set(r, f),
           f \in Holding, QInv(f, gen, acked), Waits(f, verifySF.st, refreshSF.st, Len(stamps)),
           UNCHANGED <<world, quotes, signers, verifySF, refreshSF, nextVerify, warmer, stamps>>
    PROVE  GroundInv'
<1>1. /\ gen' = gen /\ acked' = acked /\ clock' = clock /\ chain' = chain /\ quotes' = quotes
      /\ signers' = signers /\ verifySF' = verifySF /\ refreshSF' = refreshSF
      /\ nextVerify' = nextVerify /\ warmer' = warmer /\ stamps' = stamps
  BY DEF world
<1>2. RequestsInv /\ Len(stamps) \in Nat
  BY StampsLen DEF GroundInv
<1>3. RequestsInv'
  BY <1>1, <1>2, StepOne
<1>4. WorldInv' /\ CachesInv' /\ FlightsInv' /\ Book(stamps, clock, nextVerify)'
  BY <1>1 DEF GroundInv, WorldInv, CachesInv, FlightsInv
<1> QED BY <1>3, <1>4 DEF GroundInv

LEMMA StartStep == ASSUME GroundInv, NEW r \in Requests, Start(r) PROVE GroundInv'
<1> DEFINE f == [Fresh EXCEPT !.pc = "lookup"]
<1>1. "lookup" \in Places
  BY DEF Places
<1>2. /\ f \in Holding /\ f.pc = "lookup" /\ f.enc = None /\ f.signer = None
      /\ f.facts = None /\ f.stale = None /\ f.outcome = "none" /\ f.turned = "no"
  BY <1>1, FreshIs, Moves
<1>3. set(r, f) /\ UNCHANGED <<world, quotes, signers, verifySF, refreshSF, nextVerify, warmer, stamps>>
  BY DEF Start, limits
<1> HIDE DEF f
<1>4. QInv(f, gen, acked) /\ Waits(f, verifySF.st, refreshSF.st, Len(stamps))
  BY <1>2, Constants DEF QInv, Waits, Served, Rejected
<1> QED BY <1>2, <1>3, <1>4, LocalStep

(* Moving without touching anything else.                                     *)
LEMMA GotoStep ==
    ASSUME GroundInv, NEW r \in Requests, NEW p \in Places, goto(r, p),
           p \notin {"verify", "recovering"},
           p = "refreshing" => refreshSF.st # "none",
           req[r].outcome = "ok" => p \in {"conclude", "sealed", "served", "refused", "failed"},
           (Enforce /\ p \in {"sealed", "served"}) => req[r].outcome = "ok",
           UNCHANGED <<world, quotes, signers, verifySF, refreshSF, nextVerify, warmer, stamps>>
    PROVE  GroundInv'
<1> DEFINE q == req[r]
           f == [q EXCEPT !.pc = p]
<1>1. q \in Holding /\ QInv(q, gen, acked)
  BY Parts
<1>2. /\ f \in Holding /\ f.pc = p /\ f.enc = q.enc /\ f.signer = q.signer
      /\ f.facts = q.facts /\ f.stale = q.stale /\ f.outcome = q.outcome
      /\ f.turned = q.turned
  BY <1>1, Moves
<1>3. set(r, f)
  BY DEF goto
<1> HIDE DEF f
<1>4. QInv(f, gen, acked)
  BY <1>1, <1>2 DEF QInv
<1>5. Waits(f, verifySF.st, refreshSF.st, Len(stamps))
  BY <1>2 DEF Waits
<1> QED BY <1>2, <1>3, <1>4, <1>5, LocalStep

LEMMA LookupStep == ASSUME GroundInv, NEW r \in Requests, Lookup(r) PROVE GroundInv'
<1> DEFINE q == req[r]
<1>1. q \in Holding /\ QInv(q, gen, acked) /\ q.pc = "lookup" /\ q.outcome # "ok"
  BY Parts DEF Lookup, QInv
<1>2. UNCHANGED <<world, quotes, signers, refreshSF, nextVerify, warmer, stamps>>
  BY DEF Lookup, limits
<1>3. CASE quoteHit /\ q.stale # None /\ quotes.gen = q.stale
  <2>1. goto(r, "refresh") /\ UNCHANGED verifySF
    BY <1>3 DEF Lookup
  <2>2. "refresh" \in Places
    BY DEF Places
  <2> QED BY <1>1, <1>2, <2>1, <2>2, GotoStep
<1>4. CASE quoteHit /\ ~(q.stale # None /\ quotes.gen = q.stale)
  <2> DEFINE f == [take(q, quotes.gen, TRUE) EXCEPT !.pc = "ground"]
  <2>1. set(r, f) /\ UNCHANGED verifySF
    BY <1>4 DEF Lookup
  <2>2. Served(quotes.gen, gen)
    BY DEF GroundInv, CachesInv
  <2>3. f \in Holding /\ QInv(f, gen, acked) /\ f.pc = "ground"
    <3> DEFINE c == TRUE
    <3>1. f = [take(q, quotes.gen, c) EXCEPT !.pc = "ground"] /\ c \in BOOLEAN
      OBVIOUS
    <3> HIDE DEF f, c, q
    <3> QED BY ONLY <1>1, <2>2, <3>1, TakeKeeps
  <2> HIDE DEF f
  <2>4. Waits(f, verifySF.st, refreshSF.st, Len(stamps))
    BY <2>3 DEF Waits
  <2> QED BY <1>2, <2>1, <2>3, <2>4, LocalStep
<1>5. CASE ~quoteHit
  <2> DEFINE f == [q EXCEPT !.pc = "verify"]
  <2>1. set(r, f) /\ joinVerify
    BY <1>5 DEF Lookup, goto
  <2>2. FlightsInv /\ RequestsInv /\ Len(stamps) \in Nat
    BY StampsLen DEF GroundInv
  <2>3. "verify" \in Places
    BY DEF Places
  <2>4. /\ f \in Holding /\ f.pc = "verify" /\ f.enc = q.enc /\ f.signer = q.signer
        /\ f.facts = q.facts /\ f.stale = q.stale /\ f.outcome = q.outcome
        /\ f.turned = q.turned
    BY <1>1, <2>3, Moves
  <2> HIDE DEF f
  <2>5. QInv(f, gen, acked)
    BY <1>1, <2>4 DEF QInv
  <2>6. /\ verifySF' \in [st : {"none", "run", "got"}, got : Int] /\ Served(verifySF'.got, gen)
        /\ verifySF'.st # "none"
    BY <2>1, <2>2, Joins
  <2>7. /\ gen' = gen /\ acked' = acked /\ clock' = clock /\ chain' = chain /\ quotes' = quotes
        /\ signers' = signers /\ refreshSF' = refreshSF
        /\ nextVerify' = nextVerify /\ warmer' = warmer /\ stamps' = stamps
    BY <1>2 DEF world
  <2>8. Waits(f, verifySF'.st, refreshSF'.st, Len(stamps'))
    BY <2>4, <2>6 DEF Waits
  <2>9. RequestsInv'
    BY <2>1, <2>2, <2>4, <2>5, <2>6, <2>7, <2>8, StepOne
  <2>10. FlightsInv'
    BY <2>2, <2>6, <2>7 DEF FlightsInv
  <2>11. WorldInv' /\ CachesInv' /\ Book(stamps, clock, nextVerify)'
    BY <2>7 DEF GroundInv, WorldInv, CachesInv
  <2> QED BY <2>9, <2>10, <2>11 DEF GroundInv
<1> QED BY <1>3, <1>4, <1>5

LEMMA RefreshStep == ASSUME GroundInv, NEW r \in Requests, Refresh(r) PROVE GroundInv'
<1> DEFINE q == req[r]
           f == [q EXCEPT !.pc = "refreshing"]
<1>1. q \in Holding /\ QInv(q, gen, acked) /\ q.pc = "refresh" /\ q.outcome # "ok" /\ Rejected(q.stale, gen)
  BY Parts DEF Refresh, QInv
<1>2. FlightsInv /\ RequestsInv /\ Len(stamps) \in Nat
  BY StampsLen DEF GroundInv
<1>3. "refreshing" \in Places
  BY DEF Places
<1>4. /\ f \in Holding /\ f.pc = "refreshing" /\ f.enc = q.enc /\ f.signer = q.signer
      /\ f.facts = q.facts /\ f.stale = q.stale /\ f.outcome = q.outcome
      /\ f.turned = q.turned
  BY <1>1, <1>3, Moves
<1>5. set(r, f)
  BY DEF Refresh, goto
<1> HIDE DEF f
<1>6. QInv(f, gen, acked)
  BY <1>1, <1>4 DEF QInv
<1>7. /\ gen' = gen /\ acked' = acked /\ clock' = clock /\ chain' = chain /\ quotes' = quotes
      /\ signers' = signers /\ verifySF' = verifySF
      /\ nextVerify' = nextVerify /\ warmer' = warmer /\ stamps' = stamps
  BY DEF world, Refresh, limits
<1>8. /\ refreshSF' \in [st : {"none", "check", "verify"}, stale : Int]
      /\ Rejected(refreshSF'.stale, gen) /\ refreshSF'.st # "none"
      /\ refreshSF'.st = "verify" => refreshSF.st = "verify"
  <2>1. q.stale \in Int
    BY <1>1 DEF Rejected, Served
  <2>2. CASE refreshSF.st = "none"
    <3>1. refreshSF' = [st |-> "check", stale |-> q.stale]
      BY <2>2 DEF Refresh, joinRefresh
    <3> QED BY <1>1, <2>1, <3>1
  <2>3. CASE refreshSF.st # "none"
    <3>1. refreshSF' = refreshSF
      BY <2>3 DEF Refresh, joinRefresh
    <3> QED BY <1>2, <2>3, <3>1 DEF FlightsInv
  <2> QED BY <2>2, <2>3
<1>9. Waits(f, verifySF'.st, refreshSF'.st, Len(stamps'))
  BY <1>4, <1>8 DEF Waits
<1>10. RequestsInv'
  BY <1>2, <1>4, <1>5, <1>6, <1>7, <1>8, <1>9, StepOne
<1>11. FlightsInv'
  BY <1>2, <1>7, <1>8 DEF FlightsInv
<1>12. WorldInv' /\ CachesInv' /\ Book(stamps, clock, nextVerify)'
  BY <1>7 DEF GroundInv, WorldInv, CachesInv
<1> QED BY <1>10, <1>11, <1>12 DEF GroundInv

(* A recovery that ends in failure for one caller: the window is shortened.   *)
LEMMA LeaveStep == ASSUME GroundInv, NEW r \in Requests, Leave(r) PROVE GroundInv'
<1> DEFINE q == req[r]
<1>1. /\ q \in Holding /\ QInv(q, gen, acked) /\ q.pc \in {"verify", "refreshing", "recovering"}
      /\ q.outcome # "ok" /\ Waits(q, verifySF.st, refreshSF.st, Len(stamps))
  BY Parts DEF Leave, QInv
<1>2. /\ gen' = gen /\ acked' = acked /\ clock' = clock /\ chain' = chain /\ quotes' = quotes
      /\ signers' = signers /\ verifySF' = verifySF /\ refreshSF' = refreshSF /\ warmer' = warmer
  BY DEF Leave, world
<1>3. CASE q.pc # "recovering"
  <2>1. goto(r, "failed") /\ UNCHANGED <<nextVerify, stamps>>
    BY <1>3 DEF Leave
  <2>2. "failed" \in Places
    BY DEF Places
  <2>3. UNCHANGED <<world, quotes, signers, verifySF, refreshSF, nextVerify, warmer, stamps>>
    BY <1>2, <2>1 DEF world
  <2> QED BY <1>1, <2>1, <2>2, <2>3, GotoStep
<1>4. CASE q.pc = "recovering"
  <2> DEFINE f == [q EXCEPT !.pc = "conclude", !.recovered = TRUE]
  <2>1. /\ set(r, f) /\ nextVerify' = reschedule(nextVerify)
        /\ stamps' = [stamps EXCEPT ![Len(stamps)].failed = TRUE]
    BY <1>4 DEF Leave
  <2>2. "conclude" \in Places
    BY DEF Places
  <2>3. /\ f \in Holding /\ f.pc = "conclude" /\ f.enc = q.enc /\ f.signer = q.signer
        /\ f.facts = q.facts /\ f.stale = q.stale /\ f.outcome = q.outcome
        /\ f.turned = q.turned
    BY <1>1, <2>2, MovesRecovered
  <2> HIDE DEF f
  <2>4. QInv(f, gen, acked) /\ Waits(f, verifySF'.st, refreshSF'.st, Len(stamps'))
    BY <1>1, <2>3 DEF QInv, Waits
  <2>5. Book(stamps, clock, nextVerify) /\ Len(stamps) > 0 /\ clock \in Nat /\ Len(stamps) \in Nat
    BY <1>1, <1>4, StampsLen DEF GroundInv, WorldInv, Waits
  <2>6. Book(stamps', clock, nextVerify') /\ Len(stamps') = Len(stamps)
    BY <2>1, <2>5, BookFail DEF reschedule
  <2>7. RequestsInv'
    <3>1. RequestsInv
      BY DEF GroundInv
    <3> QED BY <1>2, <2>1, <2>3, <2>4, <2>5, <2>6, <3>1, StepOne
  <2>8. WorldInv' /\ CachesInv' /\ FlightsInv'
    BY <1>2, <2>6 DEF GroundInv, WorldInv, CachesInv, FlightsInv
  <2> QED BY <1>2, <2>6, <2>7, <2>8 DEF GroundInv
<1> QED BY <1>3, <1>4

LEMMA ReadCachedStep == ASSUME GroundInv, NEW r \in Requests, ReadCached(r) PROVE GroundInv'
<1> DEFINE q == req[r]
           g == signers.gen
           c == TRUE
           f == judge(q, g, c)
<1>1. q \in Holding /\ QInv(q, gen, acked)
  BY Parts
<1>2. g \in Int /\ g # None /\ (g # Unacknowledged => g = None \/ g \in acked)
  BY DEF GroundInv, CachesInv, ReadCached
<1>3. set(r, f) /\ c \in BOOLEAN
      /\ UNCHANGED <<world, quotes, signers, verifySF, refreshSF, nextVerify, warmer, stamps>>
  BY DEF ReadCached, limits
<1>4. f = judge(q, g, c)
  OBVIOUS
<1> HIDE DEF f, c, q, g
<1>5. f \in Holding /\ QInv(f, gen, acked) /\ f.pc \in {"conclude", "doubt", "negative"}
  BY ONLY <1>1, <1>2, <1>3, <1>4, JudgeKeeps
<1>6. Waits(f, verifySF.st, refreshSF.st, Len(stamps))
  BY <1>5 DEF Waits
<1> QED BY <1>3, <1>5, <1>6, LocalStep

(* A live reading, first or repeated: what the chain says now is cached.      *)
LEMMA LiveStep ==
    ASSUME GroundInv, NEW r \in Requests,
           signers' = [gen |-> chain, exp |-> clock + SignerTTL], set(r, judge(req[r], chain, FALSE)),
           UNCHANGED <<world, quotes, verifySF, refreshSF, nextVerify, warmer, stamps>>
    PROVE  GroundInv'
<1> DEFINE q == req[r]
           c == FALSE
           f == judge(q, chain, c)
<1>1. q \in Holding /\ QInv(q, gen, acked)
  BY Parts
<1>2. chain \in Int /\ chain # None /\ (chain # Unacknowledged => chain = None \/ chain \in acked)
      /\ clock + SignerTTL \in Int
  BY Constants DEF GroundInv, WorldInv
<1>3. set(r, f) /\ c \in BOOLEAN /\ f = judge(q, chain, c)
  OBVIOUS
<1>4. /\ gen' = gen /\ acked' = acked /\ clock' = clock /\ chain' = chain /\ quotes' = quotes
      /\ verifySF' = verifySF /\ refreshSF' = refreshSF
      /\ nextVerify' = nextVerify /\ warmer' = warmer /\ stamps' = stamps
  BY DEF world
<1> HIDE DEF f, c, q
<1>5. f \in Holding /\ QInv(f, gen, acked) /\ f.pc \in {"conclude", "doubt", "negative"}
  BY ONLY <1>1, <1>2, <1>3, JudgeKeeps
<1>6. Waits(f, verifySF'.st, refreshSF'.st, Len(stamps'))
  BY <1>5 DEF Waits
<1>7. RequestsInv /\ Len(stamps) \in Nat
  BY StampsLen DEF GroundInv
<1>8. RequestsInv'
  BY <1>3, <1>4, <1>5, <1>6, <1>7, StepOne
<1>9. CachesInv'
  <2>1. signers' \in [gen : Int, exp : Int] /\ signers'.gen = chain
    BY <1>2
  <2> QED BY <1>2, <1>4, <2>1 DEF GroundInv, CachesInv
<1>10. WorldInv' /\ FlightsInv' /\ Book(stamps, clock, nextVerify)'
  BY <1>4 DEF GroundInv, WorldInv, FlightsInv
<1> QED BY <1>8, <1>9, <1>10 DEF GroundInv

LEMMA LookupFailedStep ==
    ASSUME GroundInv, NEW r \in Requests,
           set(r, [req[r] EXCEPT !.pc = "conclude", !.outcome = "lookup_failed"]),
           UNCHANGED <<world, quotes, signers, verifySF, refreshSF, nextVerify, warmer, stamps>>
    PROVE  GroundInv'
<1> DEFINE q == req[r]
           f == [q EXCEPT !.pc = "conclude", !.outcome = "lookup_failed"]
<1>1. q \in Holding /\ QInv(q, gen, acked)
  BY Parts
<1>2. "conclude" \in Places /\ "lookup_failed" \in Outcomes
  BY DEF Places, Outcomes
<1>3. /\ f \in Holding /\ f.pc = "conclude" /\ f.enc = q.enc /\ f.signer = q.signer
      /\ f.facts = q.facts /\ f.stale = q.stale /\ f.outcome = "lookup_failed"
      /\ f.turned = q.turned
  <2> HIDE DEF q
  <2> QED BY ONLY <1>1, <1>2 DEF Holding
<1>4. set(r, f)
  OBVIOUS
<1> HIDE DEF f
<1>5. QInv(f, gen, acked) /\ Waits(f, verifySF.st, refreshSF.st, Len(stamps))
  BY <1>1, <1>3 DEF QInv, Waits
<1> QED BY <1>3, <1>4, <1>5, LocalStep

LEMMA ReadSteps ==
    ASSUME GroundInv, NEW r \in Requests, ReadLive(r) \/ ReadFails(r) \/ Reread(r) \/ RereadFails(r)
    PROVE  GroundInv'
<1>1. CASE ReadLive(r)
  BY <1>1, LiveStep DEF ReadLive, limits
<1>2. CASE ReadFails(r)
  BY <1>2, LookupFailedStep DEF ReadFails, limits
<1>3. CASE Reread(r)
  BY <1>3, LiveStep DEF Reread, limits
<1>4. CASE RereadFails(r)
  BY <1>4, LookupFailedStep DEF RereadFails
<1> QED BY <1>1, <1>2, <1>3, <1>4

LEMMA DoubtStep == ASSUME GroundInv, NEW r \in Requests, Doubt(r) PROVE GroundInv'
<1>1. req[r].pc = "doubt" /\ req[r].outcome # "ok"
  BY Parts DEF Doubt, QInv
<1>2. UNCHANGED <<world, quotes, signers, verifySF, refreshSF, nextVerify, warmer, stamps>>
  BY DEF Doubt
<1>3. "reread" \in Places /\ "negative" \in Places
  BY DEF Places
<1>4. goto(r, "reread") \/ goto(r, "negative")
  BY DEF Doubt
<1>5. CASE goto(r, "reread")
  BY <1>1, <1>2, <1>3, <1>5, GotoStep
<1>6. CASE goto(r, "negative")
  BY <1>1, <1>2, <1>3, <1>6, GotoStep
<1> QED BY <1>4, <1>5, <1>6

LEMMA NegativeStep == ASSUME GroundInv, NEW r \in Requests, Negative(r) PROVE GroundInv'
<1> DEFINE q == req[r]
<1>1. q \in Holding /\ QInv(q, gen, acked) /\ q.pc = "negative" /\ q.outcome # "ok"
  BY Parts DEF Negative, QInv
<1>2. /\ gen' = gen /\ acked' = acked /\ clock' = clock /\ chain' = chain /\ quotes' = quotes
      /\ signers' = signers /\ refreshSF' = refreshSF /\ warmer' = warmer
  BY DEF Negative, world
<1>3. CASE ~(owedRecovery(q) /\ allowed(nextVerify))
  <2>1. goto(r, "conclude") /\ UNCHANGED <<nextVerify, stamps, verifySF>>
    BY <1>3 DEF Negative
  <2>2. "conclude" \in Places
    BY DEF Places
  <2>3. UNCHANGED <<world, quotes, signers, verifySF, refreshSF, nextVerify, warmer, stamps>>
    BY <1>2, <2>1 DEF world
  <2> QED BY <1>1, <2>1, <2>2, <2>3, GotoStep
<1>4. CASE owedRecovery(q) /\ allowed(nextVerify)
  <2> DEFINE f == [q EXCEPT !.pc = "recovering"]
             e == [at |-> clock, by |-> "ground", failed |-> FALSE]
  <2>1. /\ set(r, f) /\ joinVerify /\ nextVerify' = clock + QuoteTTL
        /\ stamps' = Append(stamps, e) /\ clock >= nextVerify
    BY <1>4 DEF Negative, goto, stamp, allowed
  <2>2. "recovering" \in Places
    BY DEF Places
  <2>3. /\ f \in Holding /\ f.pc = "recovering" /\ f.enc = q.enc /\ f.signer = q.signer
        /\ f.facts = q.facts /\ f.stale = q.stale /\ f.outcome = q.outcome
        /\ f.turned = q.turned
    BY <1>1, <2>2, Moves
  <2> HIDE DEF f
  <2>4. RequestsInv /\ FlightsInv /\ Book(stamps, clock, nextVerify) /\ clock \in Nat /\ Len(stamps) \in Nat
        /\ stamps \in Seq(Stamp)
    BY StampsLen DEF GroundInv, WorldInv, Book
  <2>5. e \in Stamp /\ e.at = clock /\ ~e.failed
    BY <2>4 DEF Stamp
  <2> HIDE DEF e
  <2>6. Book(stamps', clock, nextVerify')
    BY <2>1, <2>4, <2>5, BookAppend
  <2>7. Len(stamps') = Len(stamps) + 1
    BY <2>1, <2>4, <2>5
  <2>8. /\ verifySF' \in [st : {"none", "run", "got"}, got : Int] /\ Served(verifySF'.got, gen)
        /\ verifySF'.st # "none"
    BY <2>1, <2>4, Joins
  <2>9. QInv(f, gen, acked)
    BY <1>1, <2>3 DEF QInv
  <2>10. Waits(f, verifySF'.st, refreshSF'.st, Len(stamps'))
    BY <2>3, <2>4, <2>7, <2>8 DEF Waits
  <2>11. Len(stamps') \in Nat /\ Len(stamps') >= Len(stamps) /\ Len(stamps') > 0
    BY <2>4, <2>7
  <2>12. RequestsInv'
    BY <1>2, <2>1, <2>3, <2>4, <2>8, <2>9, <2>10, <2>11, StepOne
  <2>13. FlightsInv'
    BY <1>2, <2>4, <2>8, <2>11 DEF FlightsInv
  <2>14. WorldInv' /\ CachesInv'
    BY <1>2 DEF GroundInv, WorldInv, CachesInv
  <2> QED BY <1>2, <2>6, <2>12, <2>13, <2>14 DEF GroundInv
<1> QED BY <1>3, <1>4

LEMMA ConcludeStep == ASSUME GroundInv, NEW r \in Requests, Conclude(r) PROVE GroundInv'
<1> DEFINE q == req[r]
           p == IF refuses(q.outcome) THEN "refused"
                ELSE IF q.rekeyed /\ q.enc = q.stale THEN "failed" ELSE "sealed"
<1>1. goto(r, p) /\ UNCHANGED <<world, quotes, signers, verifySF, refreshSF, nextVerify, warmer, stamps>>
  BY DEF Conclude, limits
<1>2. p \in {"refused", "failed", "sealed"} /\ p \in Places
  BY DEF Places
<1>3. (Enforce /\ p \in {"sealed", "served"}) => q.outcome = "ok"
  BY DEF refuses
<1> HIDE DEF p
<1> QED BY <1>1, <1>2, <1>3, GotoStep

LEMMA AttemptStep == ASSUME GroundInv, NEW r \in Requests, Attempt(r) PROVE GroundInv'
<1> DEFINE q == req[r]
<1>1. q \in Holding /\ QInv(q, gen, acked) /\ q.pc = "sealed" /\ Served(q.enc, gen) /\ q.enc \in Int
  BY Parts DEF Attempt
<1>2. UNCHANGED <<world, quotes, signers, verifySF, refreshSF, nextVerify, warmer, stamps>>
  BY DEF Attempt, limits
<1>3. "served" \in Places /\ "failed" \in Places
  BY DEF Places
<1>4. Enforce => q.outcome = "ok"
  BY <1>1 DEF QInv
<1>5. CASE q.enc = gen
  <2>1. goto(r, "served")
    BY <1>5 DEF Attempt, goto
  <2> QED BY <1>2, <1>3, <1>4, <2>1, GotoStep
<1>6. CASE q.enc # gen /\ q.rekeyed
  <2>1. goto(r, "failed")
    BY <1>6 DEF Attempt, goto
  <2> QED BY <1>2, <1>3, <2>1, GotoStep
<1>7. CASE q.enc # gen /\ ~q.rekeyed
  <2> DEFINE g == q.enc
             f == [Fresh EXCEPT !.pc = "lookup", !.stale = g, !.rekeyed = TRUE]
  <2>1. set(r, f)
    BY <1>7 DEF Attempt
  <2>2. /\ f \in Holding /\ f.pc = "lookup" /\ f.enc = None /\ f.signer = None
        /\ f.facts = None /\ f.stale = g /\ f.outcome = "none" /\ f.turned = "no"
    BY <1>1, StartsOver
  <2>3. Rejected(g, gen)
    BY <1>1, <1>7, Constants DEF Rejected, Served, GroundInv, WorldInv
  <2> HIDE DEF f, g
  <2>4. QInv(f, gen, acked) /\ Waits(f, verifySF.st, refreshSF.st, Len(stamps))
    BY <2>2, <2>3, Constants DEF QInv, Waits, Served
  <2> QED BY <1>2, <2>1, <2>2, <2>4, LocalStep
<1> QED BY <1>5, <1>6, <1>7

-----------------------------------------------------------------------------
(* The world and the flights.                                                 *)

(* The broker rotates, the chain catches up, time passes.                     *)
LEMMA WorldStep ==
    ASSUME GroundInv, Tick \/ Rotate \/ Acknowledge PROVE GroundInv'
<1>1. /\ clock' \in Nat /\ clock' <= MaxTime /\ (clock' = clock \/ clock' = clock + 1)
      /\ gen' \in Nat /\ gen \in Nat /\ gen <= gen' /\ gen' <= MaxGen /\ 1 <= gen'
      /\ acked \subseteq acked'
      /\ chain' \in Nat /\ chain' <= gen' /\ acked' \subseteq 1 .. gen'
      /\ chain' # Unacknowledged => chain' \in acked'
  <2>1. CASE Tick
    BY <2>1, Constants DEF Tick, GroundInv, WorldInv
  <2>2. CASE Rotate
    BY <2>2, Constants DEF Rotate, GroundInv, WorldInv
  <2>3. CASE Acknowledge
    BY <2>3, Constants DEF Acknowledge, GroundInv, WorldInv
  <2> QED BY <2>1, <2>2, <2>3
<1>2. /\ quotes' = quotes /\ signers' = signers /\ verifySF' = verifySF /\ refreshSF' = refreshSF
      /\ nextVerify' = nextVerify /\ warmer' = warmer /\ stamps' = stamps /\ req' = req
  BY DEF Tick, Rotate, Acknowledge, limits
<1>3. WorldInv'
  BY <1>1 DEF WorldInv
<1>4. ASSUME NEW g PROVE (Served(g, gen) => Served(g, gen')) /\ (Rejected(g, gen) => Rejected(g, gen'))
  BY <1>1, Constants DEF Served, Rejected
<1>5. CachesInv' /\ FlightsInv'
  BY <1>1, <1>2, <1>4 DEF GroundInv, CachesInv, FlightsInv
<1>6. Book(stamps, clock, nextVerify)'
  <2>1. Book(stamps, clock, nextVerify) /\ clock \in Nat
    BY DEF GroundInv, WorldInv
  <2> QED BY <1>1, <1>2, <2>1, BookTick
<1>7. RequestsInv'
  <2>1. ASSUME NEW r \in Requests PROVE QInv(req[r], gen', acked')
    BY <1>1, QMono DEF GroundInv, RequestsInv
  <2> QED BY <1>2, <2>1 DEF GroundInv, RequestsInv
<1> QED BY <1>3, <1>5, <1>6, <1>7 DEF GroundInv

LEMMA VerifyQuoteStep == ASSUME GroundInv, VerifyQuote PROVE GroundInv'
<1>1. /\ gen' = gen /\ acked' = acked /\ clock' = clock /\ chain' = chain /\ quotes' = quotes
      /\ signers' = signers /\ refreshSF' = refreshSF /\ nextVerify' = nextVerify
      /\ warmer' = warmer /\ stamps' = stamps /\ req' = req
      /\ verifySF' = [st |-> "got", got |-> gen]
  BY DEF VerifyQuote, world, limits
<1>2. gen \in Int /\ Served(gen, gen)
  BY DEF GroundInv, WorldInv, Served
<1>3. verifySF' \in [st : {"none", "run", "got"}, got : Int] /\ verifySF'.st = "got" /\ verifySF'.got = gen
  BY <1>1, <1>2
<1>4. FlightsInv'
  BY <1>1, <1>2, <1>3 DEF GroundInv, FlightsInv
<1>5. RequestsInv'
  BY <1>1, <1>3 DEF GroundInv, RequestsInv, Waits
<1>6. WorldInv' /\ CachesInv' /\ Book(stamps, clock, nextVerify)'
  BY <1>1 DEF GroundInv, WorldInv, CachesInv
<1> QED BY <1>4, <1>5, <1>6 DEF GroundInv

LEMMA WarmStep == ASSUME GroundInv, Warm PROVE GroundInv'
<1>1. /\ gen' = gen /\ acked' = acked /\ clock' = clock /\ chain' = chain /\ quotes' = quotes
      /\ signers' = signers /\ refreshSF' = refreshSF /\ nextVerify' = nextVerify
      /\ warmer' = "wait" /\ stamps' = stamps /\ req' = req
  BY DEF Warm, world, limits
<1>2. /\ verifySF' \in [st : {"none", "run", "got"}, got : Int] /\ Served(verifySF'.got, gen)
      /\ verifySF'.st # "none"
  BY Joins DEF Warm, GroundInv
<1>3. FlightsInv'
  BY <1>1, <1>2 DEF GroundInv, FlightsInv
<1>4. RequestsInv'
  BY <1>1, <1>2 DEF GroundInv, RequestsInv, Waits
<1>5. WorldInv' /\ CachesInv' /\ Book(stamps, clock, nextVerify)'
  BY <1>1 DEF GroundInv, WorldInv, CachesInv
<1> QED BY <1>3, <1>4, <1>5 DEF GroundInv

LEMMA RefreshVerifyStep == ASSUME GroundInv, RefreshVerify PROVE GroundInv'
<1> DEFINE e == [at |-> clock, by |-> "refresh", failed |-> FALSE]
<1>1. /\ gen' = gen /\ acked' = acked /\ clock' = clock /\ chain' = chain /\ quotes' = quotes
      /\ signers' = signers /\ warmer' = warmer /\ req' = req
      /\ nextVerify' = clock + QuoteTTL /\ stamps' = Append(stamps, e) /\ clock >= nextVerify
  BY DEF RefreshVerify, world, stamp, allowed
<1>2. /\ verifySF' \in [st : {"none", "run", "got"}, got : Int] /\ Served(verifySF'.got, gen)
      /\ verifySF'.st # "none"
  BY Joins DEF RefreshVerify, GroundInv
<1>3. Book(stamps, clock, nextVerify) /\ clock \in Nat /\ Len(stamps) \in Nat /\ stamps \in Seq(Stamp)
  BY StampsLen DEF GroundInv, WorldInv, Book
<1>4. e \in Stamp /\ e.at = clock /\ ~e.failed
  BY <1>3 DEF Stamp
<1> HIDE DEF e
<1>5. Book(stamps', clock, nextVerify')
  BY <1>1, <1>3, <1>4, BookAppend
<1>6. Len(stamps') = Len(stamps) + 1
  BY <1>1, <1>3, <1>4
<1>7. /\ refreshSF' \in [st : {"none", "check", "verify"}, stale : Int]
      /\ refreshSF'.st = "verify" /\ refreshSF'.stale = refreshSF.stale
  <2>1. refreshSF \in [st : {"none", "check", "verify"}, stale : Int]
    BY DEF GroundInv, FlightsInv
  <2>2. refreshSF' = [refreshSF EXCEPT !.st = "verify"]
    BY DEF RefreshVerify
  <2> QED BY <2>1, <2>2
<1>8. Len(stamps') \in Nat /\ Len(stamps') > 0
  BY <1>3, <1>6
<1>9. FlightsInv'
  BY <1>1, <1>2, <1>7, <1>8 DEF GroundInv, FlightsInv
<1>10. RequestsInv'
  BY <1>1, <1>2, <1>7, <1>8 DEF GroundInv, RequestsInv, Waits
<1>11. WorldInv' /\ CachesInv'
  BY <1>1 DEF GroundInv, WorldInv, CachesInv
<1> QED BY <1>1, <1>5, <1>9, <1>10, <1>11 DEF GroundInv

(* The landing of a verification as one request sees it.                      *)
LEMMA LandedIs ==
    ASSUME NEW q \in Holding, NEW n, NEW ak, NEW g, QInv(q, n, ak), Served(g, n)
    PROVE  /\ landed(q, g) \in Holding /\ QInv(landed(q, g), n, ak)
           /\ landed(q, g).pc \notin {"verify", "recovering"}
           /\ landed(q, g).pc = "refreshing" => landed(q, g) = q
<1>0. q.outcome = "ok" => q.pc \in {"conclude", "sealed", "served", "refused", "failed"}
  BY DEF QInv
<1>1. CASE q.pc = "verify"
  <2> DEFINE c == FALSE
             f == [take(q, g, c) EXCEPT !.pc = "ground"]
  <2>1. landed(q, g) = f /\ c \in BOOLEAN
    BY <1>1 DEF landed
  <2>2. q.outcome # "ok"
    BY <1>0, <1>1
  <2>3. f = [take(q, g, c) EXCEPT !.pc = "ground"]
    OBVIOUS
  <2> HIDE DEF c, f
  <2>4. f \in Holding /\ QInv(f, n, ak) /\ f.pc = "ground"
    BY ONLY q \in Holding, QInv(q, n, ak), Served(g, n), <2>1, <2>2, <2>3, TakeKeeps
  <2> QED BY <2>1, <2>4
<1>2. CASE q.pc = "recovering" /\ g # q.signer
  <2> DEFINE c == q.cached
             f == [take(q, g, c) EXCEPT !.pc = "ground", !.recovered = TRUE]
  <2>1. landed(q, g) = f /\ c \in BOOLEAN
    BY <1>2 DEF landed, Holding
  <2>2. q.outcome # "ok"
    BY <1>0, <1>2
  <2>3. f = [take(q, g, c) EXCEPT !.pc = "ground", !.recovered = TRUE]
    OBVIOUS
  <2> HIDE DEF c, f
  <2>4. f \in Holding /\ QInv(f, n, ak) /\ f.pc = "ground"
    BY ONLY q \in Holding, QInv(q, n, ak), Served(g, n), <2>1, <2>2, <2>3, TakeRecovered
  <2> QED BY <2>1, <2>4
<1>3. CASE q.pc = "recovering" /\ g = q.signer
  <2> DEFINE f == [q EXCEPT !.pc = "conclude", !.recovered = TRUE]
  <2>1. landed(q, g) = f
    BY <1>3 DEF landed
  <2>2. "conclude" \in Places
    BY DEF Places
  <2>3. /\ f \in Holding /\ f.pc = "conclude" /\ f.enc = q.enc /\ f.signer = q.signer
        /\ f.facts = q.facts /\ f.stale = q.stale /\ f.outcome = q.outcome
        /\ f.turned = q.turned
    BY <2>2, MovesRecovered
  <2> HIDE DEF f
  <2>4. QInv(f, n, ak)
    BY <1>0, <1>3, <2>3 DEF QInv
  <2> QED BY <2>1, <2>3, <2>4
<1>4. CASE q.pc \notin {"verify", "recovering"}
  BY <1>4 DEF landed
<1> QED BY <1>1, <1>2, <1>3, <1>4

LEMMA RefreshLandedIs ==
    ASSUME NEW q \in Holding, NEW n, NEW ak, NEW g, QInv(q, n, ak), Served(g, n)
    PROVE  /\ refreshLanded(q, g) \in Holding /\ QInv(refreshLanded(q, g), n, ak)
           /\ refreshLanded(q, g).pc \in {q.pc, "ground"} /\ refreshLanded(q, g).pc # "refreshing"
<1>1. CASE q.pc = "refreshing"
  <2> DEFINE c == FALSE
             f == [take(q, g, c) EXCEPT !.pc = "ground"]
  <2>1. refreshLanded(q, g) = f /\ c \in BOOLEAN
    BY <1>1 DEF refreshLanded
  <2>2. q.outcome # "ok"
    BY <1>1 DEF QInv
  <2>3. f = [take(q, g, c) EXCEPT !.pc = "ground"]
    OBVIOUS
  <2> HIDE DEF c, f
  <2>4. f \in Holding /\ QInv(f, n, ak) /\ f.pc = "ground"
    BY ONLY q \in Holding, QInv(q, n, ak), Served(g, n), <2>1, <2>2, <2>3, TakeKeeps
  <2> QED BY <2>1, <2>4
<1>2. CASE q.pc # "refreshing"
  BY <1>2 DEF refreshLanded
<1> QED BY <1>1, <1>2

LEMMA VerifyLandsStep == ASSUME GroundInv, VerifyLands PROVE GroundInv'
<1> DEFINE g == verifySF.got
           done == refreshSF.st = "verify"
           f(r) == IF done THEN refreshLanded(landed(req[r], g), g) ELSE landed(req[r], g)
<1>1. /\ gen' = gen /\ acked' = acked /\ clock' = clock /\ chain' = chain
      /\ quotes' = [gen |-> g, exp |-> clock + QuoteTTL]
      /\ verifySF' = [st |-> "none", got |-> None]
      /\ refreshSF' = IF done THEN [st |-> "none", stale |-> None] ELSE refreshSF
      /\ signers' = signers /\ nextVerify' = nextVerify /\ warmer' = "idle" /\ stamps' = stamps
      /\ req' = [r \in Requests |-> f(r)]
  BY DEF VerifyLands, world, limits
<1>2. Served(g, gen) /\ g \in Int /\ clock + QuoteTTL \in Int
  BY Constants DEF GroundInv, FlightsInv, WorldInv, Served
<1>3. /\ verifySF'.st = "none" /\ verifySF'.got = None
      /\ verifySF' \in [st : {"none", "run", "got"}, got : Int]
  BY <1>1, Constants
<1>4. /\ refreshSF' \in [st : {"none", "check", "verify"}, stale : Int]
      /\ Rejected(refreshSF'.stale, gen) /\ refreshSF'.st # "verify"
      /\ ~done => refreshSF'.st = refreshSF.st
  <2>1. CASE done
    <3>1. refreshSF' = [st |-> "none", stale |-> None]
      BY <1>1, <2>1
    <3> QED BY <2>1, <3>1, Constants DEF Rejected, Served
  <2>2. CASE ~done
    <3>1. refreshSF' = refreshSF
      BY <1>1, <2>2
    <3> QED BY <2>2, <3>1 DEF GroundInv, FlightsInv
  <2> QED BY <2>1, <2>2
<1>5. FlightsInv'
  BY <1>1, <1>3, <1>4, Constants DEF FlightsInv, Served
<1>6. CachesInv'
  <2>1. quotes' \in [gen : Int, exp : Int] /\ quotes'.gen = g
    BY <1>1, <1>2
  <2> QED BY <1>1, <1>2, <2>1 DEF GroundInv, CachesInv
<1>7. WorldInv' /\ Book(stamps, clock, nextVerify)'
  BY <1>1 DEF GroundInv, WorldInv
<1>8. ASSUME NEW r \in Requests
      PROVE  /\ f(r) \in Holding /\ QInv(f(r), gen, acked)
             /\ f(r).pc \notin {"verify", "recovering"}
             /\ f(r).pc = "refreshing" => refreshSF'.st # "none"
  <2>1. req[r] \in Holding /\ QInv(req[r], gen, acked)
        /\ Waits(req[r], verifySF.st, refreshSF.st, Len(stamps))
    BY Parts
  <2> DEFINE l == landed(req[r], g)
  <2>2. /\ l \in Holding /\ QInv(l, gen, acked) /\ l.pc \notin {"verify", "recovering"}
        /\ l.pc = "refreshing" => l = req[r]
    BY <1>2, <2>1, LandedIs
  <2> HIDE DEF l, g
  <2>3. CASE done
    <3>1. f(r) = refreshLanded(l, g)
      BY <2>3 DEF l
    <3>2. /\ refreshLanded(l, g) \in Holding /\ QInv(refreshLanded(l, g), gen, acked)
          /\ refreshLanded(l, g).pc \in {l.pc, "ground"} /\ refreshLanded(l, g).pc # "refreshing"
      BY <1>2, <2>2, RefreshLandedIs
    <3> HIDE DEF f
    <3> QED BY <2>2, <3>1, <3>2
  <2>4. CASE ~done
    <3>1. f(r) = l
      BY <2>4 DEF l
    <3> HIDE DEF f
    <3> QED BY <1>4, <2>1, <2>2, <2>4, <3>1 DEF Waits
  <2> QED BY <2>3, <2>4
<1> HIDE DEF f
<1>9. RequestsInv'
  <2>1. req' \in [Requests -> Holding] /\ \A r \in Requests : req'[r] = f(r)
    BY <1>1, <1>8
  <2>2. ASSUME NEW r \in Requests
        PROVE  QInv(req'[r], gen', acked') /\ Waits(req'[r], verifySF'.st, refreshSF'.st, Len(stamps'))
    BY <1>1, <1>8, <2>1 DEF Waits
  <2> QED BY <2>1, <2>2 DEF RequestsInv
<1> QED BY <1>5, <1>6, <1>7, <1>9 DEF GroundInv

LEMMA VerifyFailsStep == ASSUME GroundInv, VerifyFails PROVE GroundInv'
<1> DEFINE done == refreshSF.st = "verify"
           stamped == done \/ \E r \in Requests : req[r].pc = "recovering"
           f(r) == CASE req[r].pc = "verify"     -> [req[r] EXCEPT !.pc = "failed"]
                     [] req[r].pc = "recovering" -> [req[r] EXCEPT !.pc = "conclude", !.recovered = TRUE]
                     [] req[r].pc = "refreshing" /\ done -> [req[r] EXCEPT !.pc = "failed"]
                     [] OTHER -> req[r]
<1>1. /\ gen' = gen /\ acked' = acked /\ clock' = clock /\ chain' = chain
      /\ quotes' = IF warmer = "wait" THEN NoQuote ELSE quotes
      /\ verifySF' = [st |-> "none", got |-> None]
      /\ refreshSF' = IF done THEN [st |-> "none", stale |-> None] ELSE refreshSF
      /\ signers' = signers /\ warmer' = "idle"
      /\ nextVerify' = IF stamped THEN reschedule(nextVerify) ELSE nextVerify
      /\ stamps' = IF stamped THEN [stamps EXCEPT ![Len(stamps)].failed = TRUE] ELSE stamps
      /\ req' = [r \in Requests |-> f(r)]
  BY DEF VerifyFails, world
<1>2. Book(stamps, clock, nextVerify) /\ clock \in Nat /\ FlightsInv
  BY DEF GroundInv, WorldInv
<1>3. stamped => Len(stamps) > 0
  BY Parts DEF GroundInv, FlightsInv, Waits
<1>4. Book(stamps', clock, nextVerify')
  <2>1. CASE stamped
    <3>1. /\ stamps' = [stamps EXCEPT ![Len(stamps)].failed = TRUE]
          /\ nextVerify' = IF nextVerify > clock + Backoff THEN clock + Backoff ELSE nextVerify
      BY <1>1, <2>1 DEF reschedule
    <3> QED BY <1>2, <1>3, <2>1, <3>1, BookFail
  <2>2. CASE ~stamped
    BY <1>1, <1>2, <2>2
  <2> QED BY <2>1, <2>2
<1> HIDE DEF stamped
<1>5. /\ verifySF'.st = "none" /\ verifySF'.got = None
      /\ verifySF' \in [st : {"none", "run", "got"}, got : Int]
  <2>1. verifySF' = [st |-> "none", got |-> None]
    BY <1>1
  <2> QED BY ONLY <2>1, Constants
<1>6. /\ refreshSF' \in [st : {"none", "check", "verify"}, stale : Int]
      /\ Rejected(refreshSF'.stale, gen) /\ refreshSF'.st # "verify"
      /\ ~done => refreshSF'.st = refreshSF.st
  <2>1. CASE done
    <3>1. refreshSF' = [st |-> "none", stale |-> None]
      BY <1>1, <2>1
    <3> QED BY <2>1, <3>1, Constants DEF Rejected, Served
  <2>2. CASE ~done
    <3>1. refreshSF' = refreshSF
      BY <1>1, <2>2
    <3> QED BY <1>2, <2>2, <3>1 DEF FlightsInv
  <2> QED BY <2>1, <2>2
<1>7. FlightsInv'
  BY <1>1, <1>5, <1>6, Constants DEF FlightsInv, Served
<1>8. CachesInv'
  <2>1. NoQuote \in [gen : Int, exp : Int] /\ Served(NoQuote.gen, gen)
    BY Constants DEF NoQuote, Served
  <2> QED BY <1>1, <2>1 DEF GroundInv, CachesInv
<1>9. WorldInv'
  BY <1>1 DEF GroundInv, WorldInv
<1>10. ASSUME NEW r \in Requests
       PROVE  /\ f(r) \in Holding /\ QInv(f(r), gen, acked)
              /\ f(r).pc \notin {"verify", "recovering"}
              /\ f(r).pc = "refreshing" => refreshSF'.st # "none"
  <2> DEFINE q == req[r]
  <2>1. q \in Holding /\ QInv(q, gen, acked)
        /\ Waits(q, verifySF.st, refreshSF.st, Len(stamps))
    BY Parts
  <2>2. "failed" \in Places /\ "conclude" \in Places
    BY DEF Places
  <2>3. CASE q.pc = "verify" \/ (q.pc = "refreshing" /\ done)
    <3> DEFINE t == [q EXCEPT !.pc = "failed"]
    <3>1. f(r) = t
      BY <2>3
    <3>2. /\ t \in Holding /\ t.pc = "failed" /\ t.enc = q.enc /\ t.signer = q.signer
          /\ t.facts = q.facts /\ t.stale = q.stale /\ t.outcome = q.outcome
          /\ t.turned = q.turned
      BY <2>1, <2>2, Moves
    <3> HIDE DEF f, t
    <3>3. QInv(t, gen, acked)
      BY <2>1, <3>2 DEF QInv
    <3> QED BY <3>1, <3>2, <3>3
  <2>4. CASE q.pc = "recovering"
    <3> DEFINE t == [q EXCEPT !.pc = "conclude", !.recovered = TRUE]
    <3>1. f(r) = t
      BY <2>4
    <3>2. /\ t \in Holding /\ t.pc = "conclude" /\ t.enc = q.enc /\ t.signer = q.signer
          /\ t.facts = q.facts /\ t.stale = q.stale /\ t.outcome = q.outcome
          /\ t.turned = q.turned
      BY <2>1, <2>2, MovesRecovered
    <3> HIDE DEF f, t
    <3>3. QInv(t, gen, acked)
      BY <2>1, <2>4, <3>2 DEF QInv
    <3> QED BY <3>1, <3>2, <3>3
  <2>5. CASE q.pc \notin {"verify", "recovering"} /\ ~(q.pc = "refreshing" /\ done)
    <3>1. f(r) = q
      BY <2>5
    <3> HIDE DEF f
    <3> QED BY <1>6, <2>1, <2>5, <3>1 DEF Waits
  <2> QED BY <2>3, <2>4, <2>5
<1> HIDE DEF f
<1>11. RequestsInv'
  <2>1. req' \in [Requests -> Holding] /\ \A r \in Requests : req'[r] = f(r)
    BY <1>1, <1>10
  <2>2. ASSUME NEW r \in Requests
        PROVE  QInv(req'[r], gen', acked') /\ Waits(req'[r], verifySF'.st, refreshSF'.st, Len(stamps'))
    BY <1>1, <1>5, <1>10, <2>1 DEF Waits
  <2> QED BY <2>1, <2>2 DEF RequestsInv
<1> QED BY <1>1, <1>4, <1>7, <1>8, <1>9, <1>11 DEF GroundInv

(* The refresh flight answers from the cache, or turns its callers away: then *)
(* the cache holds at most the key its leader had rejected, which no enclave  *)
(* runs under any more.                                                       *)
LEMMA RefreshEndsStep ==
    ASSUME GroundInv, RefreshFromCache \/ RefreshThrottled PROVE GroundInv'
<1> DEFINE w(r) == IF ~quoteHit THEN "throttled"
                   ELSE IF quotes.gen = gen THEN "current"
                   ELSE IF quotes.gen # req[r].stale THEN "cached"
                   ELSE "throttled"
           c == TRUE
           hit(r) == [take(req[r], quotes.gen, c) EXCEPT !.pc = "ground"]
           away(r) == [req[r] EXCEPT !.pc = "failed", !.turned = w(r)]
<1>1. /\ gen' = gen /\ acked' = acked /\ clock' = clock /\ chain' = chain /\ quotes' = quotes
      /\ signers' = signers /\ verifySF' = verifySF /\ nextVerify' = nextVerify
      /\ warmer' = warmer /\ stamps' = stamps /\ refreshSF' = [st |-> "none", stale |-> None]
  BY DEF RefreshFromCache, RefreshThrottled, world, limits
<1>2. \/ req' = [r \in Requests |-> IF req[r].pc = "refreshing" THEN hit(r) ELSE req[r]]
      \/ /\ ~recheck
         /\ req' = [r \in Requests |-> IF req[r].pc = "refreshing" THEN away(r) ELSE req[r]]
  BY DEF RefreshFromCache, RefreshThrottled
<1>3. /\ refreshSF' \in [st : {"none", "check", "verify"}, stale : Int]
      /\ refreshSF'.st = "none" /\ refreshSF'.stale = None
  <2>1. refreshSF' = [st |-> "none", stale |-> None]
    BY <1>1
  <2> QED BY ONLY <2>1, Constants
<1>4. FlightsInv'
  BY <1>1, <1>3, Constants DEF GroundInv, FlightsInv, Rejected, Served
<1>5. WorldInv' /\ CachesInv' /\ Book(stamps, clock, nextVerify)'
  BY <1>1 DEF GroundInv, WorldInv, CachesInv
<1>6. Served(quotes.gen, gen) /\ c \in BOOLEAN
  BY DEF GroundInv, CachesInv
<1>7. ASSUME NEW r \in Requests, req[r].pc = "refreshing"
      PROVE  hit(r) \in Holding /\ QInv(hit(r), gen, acked) /\ hit(r).pc = "ground"
  <2> DEFINE q == req[r]
             f == hit(r)
  <2>1. q \in Holding /\ QInv(q, gen, acked) /\ q.outcome # "ok"
    BY <1>7, Parts DEF QInv
  <2>2. f = [take(q, quotes.gen, c) EXCEPT !.pc = "ground"]
    OBVIOUS
  <2> HIDE DEF q, f, c, hit
  <2>3. f \in Holding /\ QInv(f, gen, acked) /\ f.pc = "ground"
    BY ONLY <1>6, <2>1, <2>2, TakeKeeps
  <2> QED BY <2>3 DEF f
<1>8. ASSUME NEW r \in Requests, req[r].pc = "refreshing", ~recheck
      PROVE  away(r) \in Holding /\ QInv(away(r), gen, acked) /\ away(r).pc = "failed"
  <2> DEFINE q == req[r]
             v == w(r)
             t == [q EXCEPT !.pc = "failed", !.turned = v]
  <2>1. q \in Holding /\ QInv(q, gen, acked) /\ "failed" \in Places
    BY Parts DEF Places
  <2>2. ~(quoteHit /\ quotes.gen = gen)
    <3>1. Rejected(refreshSF.stale, gen) /\ gen \in Nat
      BY DEF GroundInv, FlightsInv, WorldInv
    <3> QED BY <1>8, <3>1 DEF recheck, quoteHit, Rejected, Served
  <2>3. v \in {"no", "cached", "current", "throttled"} /\ v # "current"
    BY <2>2
  <2>4. away(r) = t
    OBVIOUS
  <2> HIDE DEF v, w, away, q
  <2>5. /\ t \in Holding /\ t.pc = "failed" /\ t.enc = q.enc /\ t.signer = q.signer
        /\ t.facts = q.facts /\ t.stale = q.stale /\ t.outcome = q.outcome
        /\ t.turned = v
    BY ONLY <2>1, <2>3 DEF Holding
  <2> HIDE DEF t
  <2>6. QInv(t, gen, acked)
    BY <2>1, <2>3, <2>5 DEF QInv
  <2> QED BY <2>4, <2>5, <2>6
<1> HIDE DEF hit, away
<1>9. RequestsInv'
  <2>1. ASSUME NEW r \in Requests
        PROVE  req[r] \in Holding /\ QInv(req[r], gen, acked)
               /\ Waits(req[r], verifySF.st, refreshSF.st, Len(stamps))
    BY Parts
  <2>2. CASE req' = [r \in Requests |-> IF req[r].pc = "refreshing" THEN hit(r) ELSE req[r]]
    BY <1>1, <1>7, <2>1, <2>2 DEF RequestsInv, Waits
  <2>3. CASE ~recheck /\ req' = [r \in Requests |-> IF req[r].pc = "refreshing" THEN away(r) ELSE req[r]]
    BY <1>1, <1>8, <2>1, <2>3 DEF RequestsInv, Waits
  <2> QED BY <1>2, <2>2, <2>3
<1> QED BY <1>4, <1>5, <1>9 DEF GroundInv

-----------------------------------------------------------------------------
LEMMA GroundInit == ASSUME Init PROVE GroundInv
<1>1. WorldInv
  BY Constants DEF Init, WorldInv
<1>2. CachesInv
  <2>1. NoQuote \in [gen : Int, exp : Int] /\ NoQuote.gen = None
    BY Constants DEF NoQuote
  <2> QED BY <2>1, Constants DEF Init, CachesInv, Served
<1>3. stamps = <<>> /\ nextVerify = 0 /\ clock = 0
  BY DEF Init
<1>4. Book(stamps, clock, nextVerify)
  BY <1>3 DEF Book
<1>5. FlightsInv
  BY Constants DEF Init, FlightsInv, Served, Rejected
<1>6. RequestsInv
  <2>1. QInv(Fresh, gen, acked) /\ Waits(Fresh, verifySF.st, refreshSF.st, Len(stamps))
    BY FreshIs, Constants DEF QInv, Waits, Served, Rejected
  <2>2. req = [r \in Requests |-> Fresh]
    BY DEF Init
  <2> QED BY <2>1, <2>2, FreshIs DEF RequestsInv
<1> QED BY <1>1, <1>2, <1>4, <1>5, <1>6 DEF GroundInv

LEMMA GroundNext == ASSUME GroundInv, [Next]_vars PROVE GroundInv'
<1>1. CASE UNCHANGED vars
  BY <1>1 DEF vars, GroundInv, WorldInv, CachesInv, FlightsInv, RequestsInv
<1>2. CASE Tick \/ Rotate \/ Acknowledge
  BY <1>2, WorldStep
<1>3. CASE VerifyQuote
  BY <1>3, VerifyQuoteStep
<1>4. CASE VerifyLands
  BY <1>4, VerifyLandsStep
<1>5. CASE VerifyFails
  BY <1>5, VerifyFailsStep
<1>6. CASE Warm
  BY <1>6, WarmStep
<1>7. CASE RefreshFromCache \/ RefreshThrottled
  BY <1>7, RefreshEndsStep
<1>8. CASE RefreshVerify
  BY <1>8, RefreshVerifyStep
<1>9. ASSUME NEW r \in Requests,
             \/ Start(r) \/ Lookup(r) \/ Refresh(r) \/ Leave(r)
             \/ ReadCached(r) \/ ReadLive(r) \/ ReadFails(r)
             \/ Doubt(r) \/ Reread(r) \/ RereadFails(r)
             \/ Negative(r) \/ Conclude(r) \/ Attempt(r)
      PROVE  GroundInv'
  BY <1>9, StartStep, LookupStep, RefreshStep, LeaveStep, ReadCachedStep, ReadSteps,
     DoubtStep, NegativeStep, ConcludeStep, AttemptStep
<1> QED BY <1>1, <1>2, <1>3, <1>4, <1>5, <1>6, <1>7, <1>8, <1>9 DEF Next

LEMMA GroundInvHolds == Spec => []GroundInv
<1>1. Init => GroundInv
  BY GroundInit
<1>2. GroundInv /\ [Next]_vars => GroundInv'
  BY GroundNext
<1> QED BY <1>1, <1>2, PTL DEF Spec

(* materialize and freshProvider: whatever recoveries and rotations a request *)
(* went through, the enc key it seals to, the signer it pins and the facts it *)
(* reports come from one verified quote.                                      *)
THEOREM OneEnclaveSealed == Spec => []SealedToOneEnclave
<1>1. GroundInv => SealedToOneEnclave
  BY DEF GroundInv, RequestsInv, QInv, SealedToOneEnclave
<1> QED BY <1>1, GroundInvHolds, PTL

(* groundSignerOnChain under enforce: a request is sealed only to a signer    *)
(* the chain had acknowledged, on cached, live and repeated readings alike.   *)
THEOREM SealedIsAcknowledged == Spec => []EnforcedIsAcknowledged
<1>1. GroundInv => EnforcedIsAcknowledged
  BY DEF GroundInv, RequestsInv, QInv, EnforcedIsAcknowledged
<1> QED BY <1>1, GroundInvHolds, PTL

(* reverifiedProvider and freshProvider: recovery verifications keep their    *)
(* distance, nobody is turned away while the running enclave's key is cached, *)
(* and nobody waits on a flight that has gone.                                *)
THEOREM RecoveryIsSound == Spec => []RecoverySound
<1>1. ASSUME GroundInv PROVE RecoverySound
  <2>1. TypeOK
    <3>1. /\ clock \in 0 .. MaxTime /\ gen \in 1 .. MaxGen /\ chain \in 0 .. gen
          /\ acked \subseteq 1 .. gen
      BY <1>1, Constants DEF GroundInv, WorldInv
    <3>2. ASSUME NEW g, Served(g, gen) PROVE g \in {None} \cup 1 .. gen
      BY <3>1, <3>2, Constants DEF Served
    <3>3. quotes.gen \in {None} \cup 1 .. gen
      BY <1>1, <3>2 DEF GroundInv, CachesInv
    <3>4. signers.gen \in {None} \cup 0 .. gen
      <4>1. signers.gen \in {None, Unacknowledged} \cup acked
        BY <1>1 DEF GroundInv, CachesInv
      <4>2. acked \subseteq 0 .. gen /\ Unacknowledged \in 0 .. gen
        BY <3>1, Constants
      <4> QED BY ONLY <4>1, <4>2
    <3>5. verifySF.st \in {"none", "run", "got"} /\ verifySF.got \in {None} \cup 1 .. gen
          /\ refreshSF.st \in {"none", "check", "verify"}
      BY <1>1, <3>2 DEF GroundInv, FlightsInv
    <3>6. warmer \in {"idle", "wait"}
      BY <1>1 DEF GroundInv, CachesInv
    <3>7. ASSUME NEW r \in Requests
          PROVE  /\ req[r].pc \in Places /\ req[r].outcome \in Outcomes
                 /\ {req[r].enc, req[r].signer, req[r].facts, req[r].stale} \subseteq {None} \cup 1 .. gen
      <4>1. req[r] \in Holding /\ QInv(req[r], gen, acked)
        BY <1>1, Parts
      <4>2. req[r].pc \in Places /\ req[r].outcome \in Outcomes
        BY <4>1 DEF Holding
      <4>3. Served(req[r].enc, gen) /\ Served(req[r].stale, gen)
            /\ req[r].signer = req[r].enc /\ req[r].facts = req[r].enc
        BY <4>1 DEF QInv, Rejected
      <4>4. req[r].enc \in {None} \cup 1 .. gen /\ req[r].stale \in {None} \cup 1 .. gen
        BY <3>2, <4>3
      <4> QED BY <4>2, <4>3, <4>4
    <3> QED BY <3>1, <3>3, <3>4, <3>5, <3>6, <3>7 DEF TypeOK
  <2>2. RecoveryIsThrottled
    BY <1>1 DEF GroundInv, Book, RecoveryIsThrottled
  <2>3. TurnedAwayOnlyForWant
    BY <1>1 DEF GroundInv, RequestsInv, QInv, TurnedAwayOnlyForWant
  <2>4. NobodyStranded
    BY <1>1 DEF GroundInv, RequestsInv, FlightsInv, Waits, NobodyStranded
  <2> QED BY <2>1, <2>2, <2>3, <2>4 DEF RecoverySound
<1> QED BY <1>1, GroundInvHolds, PTL
=============================================================================
