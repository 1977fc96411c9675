------------------------- MODULE TrafficSwitch_proof -------------------------
(***************************************************************************)
(* Proofs about TrafficSwitch, for every TTL, every verify window of at    *)
(* least two of them, and any number of runs, deaths, changes of the sides *)
(* and renewals.                                                           *)
(***************************************************************************)
EXTENDS TrafficSwitch, TLAPS

-----------------------------------------------------------------------------
(* The inductive invariant.                                                   *)

(* What is left of the three writes, in move_switches' order.                 *)
L3 == <<"acme", "addr", "alias">>
L2 == <<"addr", "alias">>
L1 == <<"alias">>

Op == [pc : Busy \cup Ended,
       cmd : {None, "switch", "rollback", "failover", "acme", "setup"},
       target : Sides \cup {None}, cur : Sides \cup {None}, stay : BOOLEAN,
       left : {<<>>, L1, L2, L3}, cert : {<<>>} \cup (Sides \X Nat), seen : BOOLEAN,
       until : Int, reached : Sides \cup {None},
       why : {None, "other", "split", "no other side", "no live side", "would strand", "gate"}]
Cached == [app : Sides \cup {None}, exp : Int]

Typed ==
    /\ now \in Nat /\ now <= MaxTime
    /\ rec \in Records
    /\ health \in [Sides -> {"unpublished", "down", "up", "old", "ready"}]
    /\ cert \in [Sides -> Nat]
    /\ gw \in [Clusters -> Cached]
    /\ held \in [Clusters -> Int]
    /\ op \in Op
    /\ budget \in [runs : Int, deaths : Int, flaps : Int, renewals : Int]

(* What the running command still has to do fits where it stands.             *)
OpInv ==
    /\ op.pc \in {"move", "back"} <=> op.left # <<>>
    /\ op.pc \in {"gate", "cert", "move", "verify", "acme", "setup", "back"} => op.target \in Sides
    /\ op.pc = "back" => op.cur \in Sides
    /\ op.pc \in {"gate", "cert", "move", "verify", "back"} => op.cmd # None

(* The records: whole, or as far along as the writes that are left say.       *)
Whole == (which_side # None /\ rec.alias # None) => rec.alias = side_base(which_side)
At(s) == rec.acme = s /\ rec.addr = s /\ rec.alias = side_base(s)
RecordsInv ==
    /\ (op.left # L1 /\ torn.cmd = None) => Whole
    /\ op.pc = "move" =>
          /\ op.left \in {L1, L2} => rec.acme = op.target
          /\ op.left = L1 => rec.addr = op.target
    /\ op.pc = "back" =>
          /\ op.left = L3 => At(op.target)
          /\ op.left = L2 => rec.acme = op.cur /\ rec.addr = op.target
                             /\ rec.alias = side_base(op.target)
          /\ op.left = L1 => rec.acme = op.cur /\ rec.addr = op.cur
    /\ op.pc \in {"verify", "switched", "verified", "unconfirmed"} => At(op.target)
    /\ op.pc = "rolledback" => At(op.cur)
    /\ op.pc = "setup" => ~strands(op.target)

ProvenInv ==
    /\ which_side # None => which_side \in proven
    /\ op.pc \in {"cert", "move", "verify", "back"} => op.target \in proven
    /\ op.cur # None => op.cur \in proven

(* The caches.  No client holds an alias, and no gateway an address, longer   *)
(* than a TTL; a gateway holds an address it cannot route only from a lookup  *)
(* made for clients left over from before the alias moved away, or from the   *)
(* moment between a run's two writes.                                         *)
Split == which_side # None /\ side_base(which_side) # rec.alias
LastsAtMost ==
    \A g \in Clusters : gw[g].exp <= now + TTL /\ held[g] <= now + TTL
StrayExpires ==
    \A g \in Clusters : side_base(gw[g].app) # g =>
        gw[g].exp <= held[g] + TTL \/ (g = rec.alias /\ Split)
AliasClean == (rec.alias # None /\ rec.alias \notin early /\ ~Split) => ~Unroutable(rec.alias)
WindowInv ==
    /\ op.pc \in {"verify", "back"} => \A g \in Clusters : held[g] + TTL <= op.until
    /\ op.pc = "back" => now >= op.until
    /\ op.pc = "rolledback" => ~Unroutable(rec.alias)

NoDeaths == budget.deaths = MaxDeaths
DeathInv == budget.deaths <= MaxDeaths /\ (NoDeaths => torn.cmd = None)

SwitchInv ==
    /\ Typed /\ OpInv /\ RecordsInv /\ ProvenInv /\ DeathInv /\ LastsAtMost
    /\ NoDeaths => StrayExpires /\ AliasClean /\ WindowInv

-----------------------------------------------------------------------------
LEMMA Constants ==
    /\ TTL \in Nat /\ TTL > 0 /\ VerifyWindow \in Nat /\ VerifyWindow >= 2 * TTL
    /\ MaxTime \in Nat /\ MaxRuns \in Nat /\ MaxDeaths \in Nat /\ MaxFlaps \in Nat /\ MaxRenewals \in Nat
BY SwitchAssumption

LEMMA Lefts ==
    /\ Head(L3) = "acme" /\ Head(L2) = "addr" /\ Head(L1) = "alias"
    /\ Tail(L3) = L2 /\ Tail(L2) = L1
    /\ Len(L3) = 3 /\ Len(L2) = 2 /\ Len(L1) = 1
    /\ L1 # L2 /\ L1 # L3 /\ L2 # L3 /\ L1 # <<>> /\ L2 # <<>> /\ L3 # <<>>
    /\ moveOrder = L3 /\ rollbackOrder = L3
BY DEF L1, L2, L3, moveOrder, rollbackOrder

LEMMA Bases == ASSUME NEW s PROVE side_base(s) \in Clusters /\ side_base(s) # None
BY DEF side_base, Clusters, None

LEMMA Places ==
    /\ None \notin Sides /\ None \notin Clusters /\ "other" \notin Sides
    /\ \A p \in Ended : p \notin Busy
    /\ "gate" \in Busy /\ "cert" \in Busy /\ "move" \in Busy /\ "verify" \in Busy /\ "back" \in Busy
    /\ "acme" \in Busy /\ "setup" \in Busy
    /\ "nothing" \in Ended /\ "refused" \in Ended /\ "switched" \in Ended /\ "verified" \in Ended
    /\ "unconfirmed" \in Ended /\ "rolledback" \in Ended /\ "died" \in Ended /\ "pointed" \in Ended
    /\ "idle" \in Ended
BY DEF None, Sides, Clusters, Busy, Ended

LEMMA WhichSide == ASSUME rec \in Records
                   PROVE  which_side \in Sides \cup {None} /\ (which_side # None => which_side = rec.addr)
BY DEF which_side

(* put_cname, for each of the three records.                                  *)
LEMMA PutAcme ==
    ASSUME rec \in Records, NEW s \in Sides, put_cname("acme", s)
    PROVE  /\ rec' \in Records /\ rec'.acme = s /\ rec'.addr = rec.addr /\ rec'.alias = rec.alias
           /\ held' = held /\ early' = early
BY DEF put_cname, Records

LEMMA PutAddr ==
    ASSUME rec \in Records, NEW s \in Sides, put_cname("addr", s)
    PROVE  /\ rec' \in Records /\ rec'.addr = s /\ rec'.acme = rec.acme /\ rec'.alias = rec.alias
           /\ held' = held /\ early' = early
BY DEF put_cname, Records

LEMMA PutAlias ==
    ASSUME rec \in Records, NEW s \in Sides, put_cname("alias", s)
    PROVE  LET v == side_base(s)
           IN  /\ rec' \in Records /\ rec'.alias = v /\ rec'.acme = rec.acme /\ rec'.addr = rec.addr
               /\ held' = IF rec.alias \in Clusters \ {v}
                          THEN [held EXCEPT ![rec.alias] = now + TTL] ELSE held
               /\ early' = IF rec.alias = v THEN early
                           ELSE IF now < held[v] + TTL THEN early \cup {v} ELSE early \ {v}
<1>1. side_base(s) \in Clusters
  BY Bases
<1> QED BY <1>1 DEF put_cname, Records

(* The run's record, for the fields the invariant looks at.                   *)
LEMMA NoOpIs ==
    /\ NoOp \in Op /\ NoOp.pc = "idle" /\ NoOp.cmd = None /\ NoOp.target = None /\ NoOp.cur = None
    /\ NoOp.left = <<>> /\ NoOp.until = 0
BY DEF NoOp, Op, Busy, Ended

LEMMA RunIs ==
    ASSUME rec \in Records, NEW c \in {"switch", "rollback", "failover", "acme", "setup"},
           NEW t \in Sides \cup {None}, NEW p \in Busy \cup Ended
    PROVE  LET o == Run(c, t, p)
           IN  /\ o \in Op /\ o.pc = p /\ o.cmd = c /\ o.target = t /\ o.cur = which_side
               /\ o.left = <<>>
BY NoOpIs, WhichSide, ZenonT(40) DEF Run, Op

Same(o, u) == o.pc = u.pc /\ o.cmd = u.cmd /\ o.target = u.target /\ o.cur = u.cur
              /\ o.left = u.left /\ o.until = u.until

LEMMA Stays == ASSUME NEW u \in Op PROVE [u EXCEPT !.stay = TRUE] \in Op /\ Same([u EXCEPT !.stay = TRUE], u)
BY DEF Op, Same

LEMMA Refused ==
    ASSUME NEW u \in Op, NEW w \in {"other", "split", "no other side", "no live side", "would strand", "gate"}
    PROVE  [u EXCEPT !.why = w] \in Op /\ Same([u EXCEPT !.why = w], u)
BY DEF Op, Same

(* What a command starts with: its own verdict on the records, and the side   *)
(* it found live.                                                             *)
Starts(o) ==
    /\ o \in Op /\ o.left = <<>> /\ o.cur = which_side
    /\ o.pc \in {"gate", "nothing", "refused", "acme", "setup"}
    /\ o.pc \in {"gate", "acme", "setup"} => o.target \in Sides /\ o.cmd # None
    /\ o.pc = "setup" => ~strands(o.target)

LEMMA StartsRun ==
    ASSUME rec \in Records, NEW c \in {"switch", "rollback", "failover", "acme", "setup"},
           NEW t \in Sides \cup {None}, NEW p \in {"gate", "nothing", "refused", "acme", "setup"},
           p \in {"gate", "acme", "setup"} => t \in Sides, p = "setup" => ~strands(t)
    PROVE  /\ Starts(Run(c, t, p))
           /\ Starts([Run(c, t, p) EXCEPT !.stay = TRUE])
           /\ \A w \in {"other", "split", "no other side", "no live side", "would strand", "gate"} :
                 Starts([Run(c, t, p) EXCEPT !.why = w])
<1> DEFINE u == Run(c, t, p)
<1>1. p \in Busy \cup Ended
  BY Places
<1>2. u \in Op /\ u.pc = p /\ u.cmd = c /\ u.target = t /\ u.cur = which_side /\ u.left = <<>>
  BY <1>1, RunIs
<1> HIDE DEF u
<1>3. Starts(u)
  BY <1>2 DEF Starts, None
<1>4. ASSUME NEW o \in Op, Same(o, u) PROVE Starts(o)
  BY <1>3, <1>4 DEF Starts, Same
<1>5. Starts([u EXCEPT !.stay = TRUE])
  BY <1>2, <1>4, Stays
<1>6. ASSUME NEW w \in {"other", "split", "no other side", "no live side", "would strand", "gate"}
      PROVE  Starts([u EXCEPT !.why = w])
  BY <1>2, <1>4, Refused
<1> QED BY <1>3, <1>5, <1>6 DEF u

LEMMA StartsSwitch ==
    ASSUME rec \in Records, NEW c \in {"switch", "rollback"}, NEW t \in Sides
    PROVE  Starts(switchTo(c, t))
<1>1. Starts([Run(c, t, "refused") EXCEPT !.why = "other"])
  BY StartsRun
<1>2. Starts([Run(c, t, "gate") EXCEPT !.stay = TRUE])
  BY StartsRun
<1>3. Starts(Run(c, t, "nothing")) /\ Starts(Run(c, t, "gate"))
  BY StartsRun
<1>4. Starts([Run(c, t, "refused") EXCEPT !.why = "split"])
  BY StartsRun
<1> QED BY <1>1, <1>2, <1>3, <1>4 DEF switchTo

-----------------------------------------------------------------------------
(* The invariant, one lemma per step.                                         *)

(* Nothing but the run, its budget and the histories moves: the caches stand. *)
LEMMA CachesStand ==
    ASSUME SwitchInv, UNCHANGED <<now, rec, gw, held, early>>
    PROVE  LastsAtMost' /\ (NoDeaths => StrayExpires' /\ AliasClean')
BY DEF SwitchInv, LastsAtMost, StrayExpires, AliasClean, Split, Unroutable, which_side

LEMMA BeginStep == ASSUME SwitchInv, NEW o, begin(o), Starts(o) PROVE SwitchInv'
<1>1. /\ op.pc \in Ended /\ op' = o /\ budget' = [budget EXCEPT !.runs = @ - 1]
      /\ now' = now /\ rec' = rec /\ health' = health /\ cert' = cert /\ gw' = gw /\ held' = held
      /\ torn' = torn /\ proven' = proven /\ early' = early
  BY DEF begin
<1>2. budget' \in [runs : Int, deaths : Int, flaps : Int, renewals : Int] /\ budget'.deaths = budget.deaths
  BY <1>1 DEF SwitchInv, Typed
<1>3. Typed'
  BY <1>1, <1>2 DEF SwitchInv, Typed, Starts
<1>4. OpInv'
  BY <1>1 DEF OpInv, Starts, None
<1>5. op.left = <<>>
  BY <1>1 DEF SwitchInv, OpInv, Ended
<1>6. RecordsInv'
  <2>1. torn.cmd = None => Whole
    BY <1>5, Lefts DEF SwitchInv, RecordsInv
  <2>2. (torn.cmd = None => Whole)'
    BY <1>1, <2>1 DEF Whole, which_side
  <2>3. (op.pc = "setup" => ~strands(op.target))'
    BY <1>1 DEF Starts, strands, which_side
  <2> QED BY <1>1, <2>2, <2>3 DEF RecordsInv, Starts
<1>7. ProvenInv'
  BY <1>1 DEF SwitchInv, ProvenInv, Starts, which_side
<1>8. DeathInv' /\ (NoDeaths' => NoDeaths)
  BY <1>1, <1>2 DEF SwitchInv, DeathInv, NoDeaths
<1>9. LastsAtMost' /\ (NoDeaths => StrayExpires' /\ AliasClean')
  BY <1>1, CachesStand
<1>10. WindowInv'
  BY <1>1 DEF WindowInv, Starts
<1> QED BY <1>3, <1>4, <1>6, <1>7, <1>8, <1>9, <1>10 DEF SwitchInv

LEMMA CommandStep ==
    ASSUME SwitchInv,
           \/ \E t \in Sides : CmdSwitch(t) \/ CmdFailover(t) \/ CmdSetup(t)
           \/ CmdRollback
           \/ \E t \in Sides \cup {None} : CmdAcme(t)
    PROVE  SwitchInv'
<1>1. rec \in Records /\ which_side \in Sides \cup {None}
  BY WhichSide DEF SwitchInv, Typed
<1>2. ASSUME NEW t \in Sides, CmdSwitch(t) PROVE SwitchInv'
  <2>1. Starts(switchTo("switch", t))
    BY <1>1, StartsSwitch
  <2> QED BY <1>2, <2>1, BeginStep DEF CmdSwitch
<1>3. ASSUME NEW t \in Sides, CmdFailover(t) PROVE SwitchInv'
  <2>1. Starts(Run("failover", t, "nothing"))
    BY <1>1, StartsRun
  <2>2. Starts([Run("failover", t, "gate") EXCEPT !.stay = TRUE])
    BY <1>1, StartsRun
  <2> QED BY <1>3, <2>1, <2>2, BeginStep DEF CmdFailover
<1>4. ASSUME NEW t \in Sides, CmdSetup(t) PROVE SwitchInv'
  <2>1. CASE strands(t)
    <3>1. Starts([Run("setup", t, "refused") EXCEPT !.why = "would strand"])
      BY <1>1, StartsRun
    <3> QED BY <1>4, <2>1, <3>1, BeginStep DEF CmdSetup
  <2>2. CASE ~strands(t)
    <3>1. Starts(Run("setup", t, "setup"))
      BY <1>1, <2>2, StartsRun
    <3> QED BY <1>4, <2>2, <3>1, BeginStep DEF CmdSetup
  <2> QED BY <2>1, <2>2
<1>5. ASSUME CmdRollback PROVE SwitchInv'
  <2>1. Starts([Run("rollback", None, "refused") EXCEPT !.why = "no other side"])
    BY <1>1, StartsRun
  <2>2. Starts(switchTo("rollback", other_side(which_side)))
    <3>1. other_side(which_side) \in Sides
      BY DEF other_side, Sides
    <3> QED BY <1>1, <3>1, StartsSwitch
  <2> QED BY <1>5, <2>1, <2>2, BeginStep DEF CmdRollback
<1>6. ASSUME NEW t \in Sides \cup {None}, CmdAcme(t) PROVE SwitchInv'
  <2>1. CASE t = None /\ which_side = None
    <3>1. Starts([Run("acme", t, "refused") EXCEPT !.why = "no live side"])
      BY <1>1, StartsRun
    <3> QED BY <1>6, <2>1, <3>1, BeginStep DEF CmdAcme
  <2>2. CASE ~(t = None /\ which_side = None)
    <3> DEFINE u == IF t = None THEN which_side ELSE t
    <3>1. u \in Sides
      BY <1>1, <2>2
    <3>2. begin(Run("acme", u, "acme"))
      BY <1>6, <2>2 DEF CmdAcme
    <3> HIDE DEF u
    <3>3. Starts(Run("acme", u, "acme"))
      BY <1>1, <3>1, StartsRun
    <3> QED BY <3>2, <3>3, BeginStep
  <2> QED BY <2>1, <2>2
<1> QED BY <1>2, <1>3, <1>4, <1>5, <1>6

(* A step of the run that writes no record.                                   *)
LEMMA QuietStep ==
    ASSUME SwitchInv, op' \in Op, op'.cmd = op.cmd, op'.target = op.target, op'.cur = op.cur,
           UNCHANGED <<now, rec, health, cert, gw, held, budget, torn, early>>,
           proven \subseteq proven', OpInv', RecordsInv', NoDeaths => WindowInv',
           op'.pc \in {"cert", "move", "verify", "back"} => op.target \in proven'
    PROVE  SwitchInv'
<1>1. Typed' /\ DeathInv' /\ (NoDeaths' <=> NoDeaths)
  BY DEF SwitchInv, Typed, DeathInv, NoDeaths
<1>2. ProvenInv'
  BY DEF SwitchInv, ProvenInv, which_side
<1>3. LastsAtMost' /\ (NoDeaths => StrayExpires' /\ AliasClean')
  BY CachesStand
<1> QED BY <1>1, <1>2, <1>3 DEF SwitchInv

LEMMA GateStep == ASSUME SwitchInv, Gate PROVE SwitchInv'
<1>1. /\ op.pc = "gate" /\ now' = now /\ rec' = rec /\ health' = health /\ cert' = cert /\ gw' = gw
      /\ held' = held /\ budget' = budget /\ torn' = torn /\ early' = early
  BY DEF Gate
<1>2. op \in Op /\ op.left = <<>> /\ op.target \in Sides /\ op.cmd # None
  BY <1>1 DEF SwitchInv, Typed, OpInv
<1> DEFINE p == IF passes(op.target) THEN "cert" ELSE "refused"
           w == IF passes(op.target) THEN None ELSE "gate"
<1>3. p \in Busy \cup Ended /\ p \in {"cert", "refused"} /\ w \in {None, "gate"}
      /\ (p = "cert" => passes(op.target))
  BY Places
<1>4. op' = [op EXCEPT !.pc = p, !.why = w]
  BY DEF Gate
<1> HIDE DEF p, w
<1>5. /\ op' \in Op /\ op'.pc = p /\ op'.cmd = op.cmd /\ op'.target = op.target /\ op'.cur = op.cur
      /\ op'.left = op.left
  BY ONLY <1>2, <1>3, <1>4 DEF Op
<1>6. proven \subseteq proven' /\ (p = "cert" => op.target \in proven')
  BY <1>3 DEF Gate, passes
<1>7. OpInv'
  BY <1>2, <1>3, <1>5 DEF OpInv
<1>8. RecordsInv'
  BY <1>1, <1>2, <1>3, <1>5 DEF SwitchInv, RecordsInv, Whole, which_side
<1>9. WindowInv'
  BY <1>3, <1>5 DEF WindowInv
<1> QED BY <1>1, <1>3, <1>5, <1>6, <1>7, <1>8, <1>9, QuietStep

LEMMA ReadCertStep == ASSUME SwitchInv, NEW readable \in BOOLEAN, ReadCert(readable) PROVE SwitchInv'
<1> DEFINE g == rec.alias
           fp == IF op.cur # None /\ op.cur # op.target /\ readable /\ g # None /\ answers(g)
                 THEN <<routed(g), cert[routed(g)]>> ELSE <<>>
<1>1. /\ op.pc = "cert" /\ now' = now /\ rec' = rec /\ health' = health /\ cert' = cert /\ gw' = gw
      /\ held' = held /\ budget' = budget /\ torn' = torn /\ early' = early /\ proven' = proven
      /\ op' = [op EXCEPT !.cert = fp, !.pc = "move", !.left = L3]
  BY Lefts DEF ReadCert
<1>2. op \in Op /\ op.left = <<>> /\ op.target \in Sides /\ op.cmd # None /\ op.target \in proven
  BY <1>1 DEF SwitchInv, Typed, OpInv, ProvenInv
<1>3. fp \in {<<>>} \cup (Sides \X Nat)
  BY DEF SwitchInv, Typed, answers
<1>4. "move" \in Busy \cup Ended
  BY Places
<1> HIDE DEF fp
<1>5. /\ op' \in Op /\ op'.pc = "move" /\ op'.cmd = op.cmd /\ op'.target = op.target /\ op'.cur = op.cur
      /\ op'.left = L3
  BY ONLY <1>1, <1>2, <1>3, <1>4 DEF Op
<1>6. OpInv'
  BY <1>2, <1>5, Lefts DEF OpInv
<1>7. RecordsInv'
  BY <1>1, <1>2, <1>5, Lefts DEF SwitchInv, RecordsInv, Whole, which_side
<1>8. WindowInv'
  BY <1>5 DEF WindowInv
<1> QED BY <1>1, <1>2, <1>5, <1>6, <1>7, <1>8, QuietStep

LEMMA AttemptStep ==
    ASSUME SwitchInv, NEW g \in Clusters, NEW readable \in BOOLEAN, Attempt(g, readable)
    PROVE  SwitchInv'
<1> DEFINE s == routed(g)
           ok == op.cert = <<>> \/ (readable /\ <<s, cert[s]>> # op.cert)
           p == IF ok THEN "verified" ELSE "verify"
           w == IF ok THEN s ELSE None
<1>1. /\ op.pc = "verify" /\ now' = now /\ rec' = rec /\ health' = health /\ cert' = cert /\ gw' = gw
      /\ held' = held /\ budget' = budget /\ torn' = torn /\ early' = early /\ proven' = proven
      /\ op' = [op EXCEPT !.seen = TRUE, !.pc = p, !.reached = w]
  BY DEF Attempt
<1>2. op \in Op /\ op.left = <<>> /\ op.target \in Sides /\ op.cmd # None /\ op.target \in proven
  BY <1>1 DEF SwitchInv, Typed, OpInv, ProvenInv
<1>3. w \in Sides \cup {None} /\ p \in {"verified", "verify"} /\ p \in Busy \cup Ended
  BY Places DEF Attempt, answers
<1> HIDE DEF p, w
<1>5. /\ op' \in Op /\ op'.pc = p /\ op'.cmd = op.cmd /\ op'.target = op.target /\ op'.cur = op.cur
      /\ op'.left = op.left /\ op'.until = op.until
  BY ONLY <1>1, <1>2, <1>3 DEF Op
<1>6. OpInv'
  BY <1>2, <1>3, <1>5 DEF OpInv
<1>7. RecordsInv'
  BY <1>1, <1>2, <1>3, <1>5 DEF SwitchInv, RecordsInv, Whole, which_side, At
<1>8. NoDeaths => WindowInv'
  BY <1>1, <1>3, <1>5 DEF SwitchInv, WindowInv
<1> QED BY <1>1, <1>2, <1>5, <1>6, <1>7, <1>8, QuietStep

LEMMA VerifyFailedStep == ASSUME SwitchInv, VerifyFailed PROVE SwitchInv'
<1>1. /\ op.pc = "verify" /\ now >= op.until /\ now' = now /\ rec' = rec /\ health' = health
      /\ cert' = cert /\ gw' = gw /\ held' = held /\ budget' = budget /\ torn' = torn
      /\ early' = early /\ proven' = proven
      /\ op' = IF goesBack THEN [op EXCEPT !.pc = "back", !.left = L3]
               ELSE [op EXCEPT !.pc = "unconfirmed"]
  BY Lefts DEF VerifyFailed, windowOver
<1>2. op \in Op /\ op.left = <<>> /\ op.target \in Sides /\ op.cmd # None /\ op.target \in proven
      /\ op.cur \in Sides \cup {None}
  BY <1>1 DEF SwitchInv, Typed, OpInv, ProvenInv, Op
<1>3. "back" \in Busy \cup Ended /\ "unconfirmed" \in Busy \cup Ended
  BY Places
<1>4. /\ op' \in Op /\ op'.cmd = op.cmd /\ op'.target = op.target /\ op'.cur = op.cur
      /\ op'.until = op.until
      /\ \/ op'.pc = "back" /\ op'.left = L3 /\ op.cur \in Sides
         \/ op'.pc = "unconfirmed" /\ op'.left = <<>>
  <2>1. CASE goesBack
    <3>1. op' = [op EXCEPT !.pc = "back", !.left = L3] /\ op.cur \in Sides
      BY <1>1, <1>2, <2>1 DEF goesBack
    <3> QED BY ONLY <1>2, <1>3, <3>1 DEF Op
  <2>2. CASE ~goesBack
    <3>1. op' = [op EXCEPT !.pc = "unconfirmed"]
      BY <1>1, <2>2
    <3> QED BY ONLY <1>2, <1>3, <3>1 DEF Op
  <2> QED BY <2>1, <2>2
<1>5. OpInv'
  BY <1>2, <1>4, Lefts DEF OpInv
<1>6. RecordsInv'
  BY <1>1, <1>2, <1>4, Lefts DEF SwitchInv, RecordsInv, Whole, which_side, At
<1>7. NoDeaths => WindowInv'
  BY <1>1, <1>4 DEF SwitchInv, WindowInv
<1> QED BY <1>1, <1>2, <1>4, <1>5, <1>6, <1>7, QuietStep

(* The traffic switch moves: from here to the alias the two may disagree.     *)
LEMMA AddrCaches ==
    ASSUME SwitchInv, op.left # L1, rec' \in Records, rec'.alias = rec.alias,
           UNCHANGED <<now, gw, held, early>>
    PROVE  LastsAtMost' /\ (NoDeaths => StrayExpires' /\ AliasClean')
<1>1. LastsAtMost'
  BY DEF SwitchInv, LastsAtMost
<1>2. ASSUME NoDeaths PROVE StrayExpires' /\ AliasClean'
  <2>1. Whole
    BY <1>2 DEF SwitchInv, DeathInv, RecordsInv
  <2>2. rec.alias # None => ~Split
    BY <2>1 DEF Whole, Split
  <2>3. StrayExpires' /\ AliasClean'
    BY <1>2, <2>2, Places DEF SwitchInv, StrayExpires, AliasClean, Unroutable
  <2> QED BY <2>3
<1> QED BY <1>1, <1>2

(* The alias moves to the live side's cluster: it is clean unless early says  *)
(* otherwise, and what its old gateway holds ends with the clients' TTL.      *)
LEMMA AliasCaches ==
    ASSUME SwitchInv, NEW s \in Sides, put_cname("alias", s),
           which_side = None \/ side_base(which_side) = side_base(s),
           UNCHANGED <<now, gw>>
    PROVE  LastsAtMost' /\ (NoDeaths => StrayExpires' /\ AliasClean')
<1> DEFINE v == side_base(s)
<1>1. rec \in Records /\ held \in [Clusters -> Int] /\ gw \in [Clusters -> Cached] /\ now \in Nat
  BY DEF SwitchInv, Typed
<1>2. /\ rec'.alias = v /\ rec'.addr = rec.addr
      /\ held' = IF rec.alias \in Clusters \ {v}
                 THEN [held EXCEPT ![rec.alias] = now + TTL] ELSE held
      /\ early' = IF rec.alias = v THEN early
                  ELSE IF now < held[v] + TTL THEN early \cup {v} ELSE early \ {v}
  BY <1>1, PutAlias
<1>3. v \in Clusters /\ v # None
  BY Bases
<1>4. which_side' = which_side
  BY <1>2 DEF which_side
<1>5. ~Split'
  <2>1. which_side = None \/ side_base(which_side) = v
    OBVIOUS
  <2> HIDE DEF v
  <2>2. which_side' = None \/ (side_base(which_side))' = v
    BY <1>4, <2>1 DEF side_base
  <2> QED BY <1>2, <2>2 DEF Split
<1>6. rec.alias = v => ~Split
  BY DEF Split
<1>7. ASSUME NEW g \in Clusters
      PROVE  /\ held'[g] \in Int /\ held[g] \in Int /\ gw[g].exp \in Int
             /\ gw[g].exp <= now + TTL /\ held[g] <= now + TTL
             /\ IF g = rec.alias /\ g # v THEN held'[g] = now + TTL ELSE held'[g] = held[g]
  <2>1. gw[g].exp \in Int /\ held[g] \in Int /\ now + TTL \in Int
    BY <1>1, Constants DEF Cached
  <2>2. gw[g].exp <= now + TTL /\ held[g] <= now + TTL
    BY DEF SwitchInv, LastsAtMost
  <2> HIDE DEF v
  <2>3. IF g = rec.alias /\ g # v THEN held'[g] = now + TTL ELSE held'[g] = held[g]
    BY <1>1, <1>2
  <2> QED BY <2>1, <2>2, <2>3
<1> HIDE DEF v
<1>8. LastsAtMost'
  <2>1. ASSUME NEW g \in Clusters PROVE gw'[g].exp <= now' + TTL /\ held'[g] <= now' + TTL
    BY <1>1, <1>7, Constants
  <2> QED BY <2>1 DEF LastsAtMost
<1>9. ASSUME NoDeaths PROVE StrayExpires' /\ AliasClean'
  <2>1. StrayExpires /\ AliasClean
    BY <1>9 DEF SwitchInv
  <2>2. ASSUME NEW g \in Clusters, side_base(gw[g].app) # g PROVE gw[g].exp <= held'[g] + TTL
    <3>1. CASE g = rec.alias /\ g # v
      BY <1>1, <1>7, <3>1, Constants
    <3>2. CASE ~(g = rec.alias /\ g # v)
      <4>1. ~(g = rec.alias /\ Split)
        BY <1>6, <3>2
      <4>2. gw[g].exp <= held[g] + TTL
        BY <2>1, <2>2, <4>1 DEF StrayExpires
      <4> QED BY <1>7, <3>2, <4>2
    <3> QED BY <3>1, <3>2
  <2>3. StrayExpires'
    BY <2>2 DEF StrayExpires, side_base
  <2>4. ASSUME v \notin early' PROVE ~Unroutable(v)
    <3>1. CASE rec.alias = v
      BY <1>2, <1>3, <1>6, <2>1, <2>4, <3>1 DEF AliasClean
    <3>2. CASE rec.alias # v
      <4>1. ~(now < held[v] + TTL)
        BY <1>2, <2>4, <3>2
      <4>2. side_base(gw[v].app) # v => gw[v].exp <= held[v] + TTL
        BY <1>3, <2>1, <3>2 DEF StrayExpires
      <4>3. held[v] \in Int /\ gw[v].exp \in Int
        BY <1>3, <1>7
      <4> QED BY <1>1, <4>1, <4>2, <4>3, Constants DEF Unroutable
    <3> QED BY <3>1, <3>2
  <2>5. AliasClean'
    BY <1>2, <2>4 DEF AliasClean, Unroutable, side_base
  <2> QED BY <2>3, <2>5
<1> QED BY <1>8, <1>9

(* What the next write of move_switches does to the run and to torn.          *)
LEMMA WriteIs ==
    ASSUME SwitchInv, NEW s, NEW done, op.pc \in {"move", "back"}, write(s, done)
    PROVE  /\ op \in Op /\ op.left \in {L1, L2, L3} /\ op.target \in Sides /\ op.cmd # None
           /\ op.target \in proven
           /\ op.left = L1 => put_cname("alias", s) /\ op' = done /\ torn' = [cmd |-> None, target |-> None]
           /\ op.left \in {L2, L3} =>
                /\ op' \in Op /\ op'.pc = op.pc /\ op'.cmd = op.cmd /\ op'.target = op.target
                /\ op'.cur = op.cur /\ op'.until = op.until /\ torn' = torn
           /\ op.left = L2 => put_cname("addr", s) /\ op'.left = L1
           /\ op.left = L3 => put_cname("acme", s) /\ op'.left = L2
           /\ now' = now /\ health' = health /\ cert' = cert /\ gw' = gw /\ budget' = budget
           /\ proven' = proven
<1>1. op \in Op /\ op.left \in {<<>>, L1, L2, L3}
  BY DEF SwitchInv, Typed, Op
<1>2. op.left # <<>> /\ op.target \in Sides /\ op.cmd # None /\ op.target \in proven
  BY DEF SwitchInv, OpInv, ProvenInv
<1>3. /\ now' = now /\ health' = health /\ cert' = cert /\ gw' = gw /\ budget' = budget
      /\ proven' = proven
  BY DEF write
<1>4. CASE op.left = L1
  BY <1>1, <1>2, <1>3, <1>4, Lefts DEF write
<1>5. CASE op.left = L2
  <2>1. put_cname("addr", s) /\ op' = [op EXCEPT !.left = L1] /\ torn' = torn
    <3>1. Len(op.left) > 1 /\ Head(op.left) = "addr" /\ Tail(op.left) = L1
      BY <1>5, Lefts
    <3>2. put_cname(Head(op.left), s) /\ op' = [op EXCEPT !.left = Tail(op.left)] /\ torn' = torn
      BY <3>1 DEF write
    <3> QED BY ONLY <3>1, <3>2
  <2>2. /\ op' \in Op /\ op'.pc = op.pc /\ op'.cmd = op.cmd /\ op'.target = op.target
        /\ op'.cur = op.cur /\ op'.until = op.until /\ op'.left = L1
    BY ONLY <1>1, <2>1 DEF Op
  <2> QED BY <1>1, <1>2, <1>3, <1>5, <2>1, <2>2, Lefts
<1>6. CASE op.left = L3
  <2>1. put_cname("acme", s) /\ op' = [op EXCEPT !.left = L2] /\ torn' = torn
    <3>1. Len(op.left) > 1 /\ Head(op.left) = "acme" /\ Tail(op.left) = L2
      BY <1>6, Lefts
    <3>2. put_cname(Head(op.left), s) /\ op' = [op EXCEPT !.left = Tail(op.left)] /\ torn' = torn
      BY <3>1 DEF write
    <3> QED BY ONLY <3>1, <3>2
  <2>2. /\ op' \in Op /\ op'.pc = op.pc /\ op'.cmd = op.cmd /\ op'.target = op.target
        /\ op'.cur = op.cur /\ op'.until = op.until /\ op'.left = L2
    BY ONLY <1>1, <2>1 DEF Op
  <2> QED BY <1>1, <1>2, <1>3, <1>6, <2>1, <2>2, Lefts
<1> QED BY <1>1, <1>2, <1>4, <1>5, <1>6

(* The first two writes, of a move or of a rollback.                          *)
LEMMA EarlyWrite ==
    ASSUME SwitchInv, NEW s \in Sides, NEW done, op.pc \in {"move", "back"}, write(s, done),
           s = IF op.pc = "move" THEN op.target ELSE op.cur, op.left \in {L2, L3}
    PROVE  SwitchInv'
<1>1. /\ op \in Op /\ op.target \in Sides /\ op.cmd # None /\ op.target \in proven
      /\ op' \in Op /\ op'.pc = op.pc /\ op'.cmd = op.cmd /\ op'.target = op.target
      /\ op'.cur = op.cur /\ op'.until = op.until /\ torn' = torn
      /\ op.left = L2 => put_cname("addr", s) /\ op'.left = L1
      /\ op.left = L3 => put_cname("acme", s) /\ op'.left = L2
      /\ now' = now /\ health' = health /\ cert' = cert /\ gw' = gw /\ budget' = budget
      /\ proven' = proven
  BY WriteIs
<1>2. rec \in Records
  BY DEF SwitchInv, Typed
<1>3. /\ rec' \in Records /\ rec'.alias = rec.alias /\ held' = held /\ early' = early
      /\ op.left = L3 => rec'.acme = s /\ rec'.addr = rec.addr
      /\ op.left = L2 => rec'.addr = s /\ rec'.acme = rec.acme
  <2>1. CASE op.left = L3
    BY <1>1, <1>2, <2>1, PutAcme, Lefts
  <2>2. CASE op.left = L2
    BY <1>1, <1>2, <2>2, PutAddr, Lefts
  <2> QED BY <2>1, <2>2
<1>4. Typed'
  BY <1>1, <1>3 DEF SwitchInv, Typed
<1>5. OpInv'
  BY <1>1, Lefts DEF SwitchInv, OpInv
<1>6. RecordsInv'
  <2>1. CASE op.left = L3
    <3>1. op'.left = L2 /\ rec'.acme = s /\ rec'.addr = rec.addr
      BY <1>1, <1>3, <2>1
    <3>2. (torn.cmd = None => Whole)'
      BY <1>1, <1>3, <2>1, <3>1, Lefts DEF SwitchInv, RecordsInv, Whole, which_side, side_base
    <3>3. op.pc = "back" => At(op.target)
      BY <2>1 DEF SwitchInv, RecordsInv
    <3> QED BY <1>1, <1>3, <3>1, <3>2, <3>3, Lefts DEF RecordsInv, At
  <2>2. CASE op.left = L2
    <3>1. op'.left = L1 /\ rec'.addr = s /\ rec'.acme = rec.acme
      BY <1>1, <1>3, <2>2
    <3>2. rec.acme = s
      BY <2>2 DEF SwitchInv, RecordsInv
    <3> QED BY <1>1, <3>1, <3>2, Lefts DEF RecordsInv
  <2> QED BY <2>1, <2>2
<1>7. ProvenInv'
  <2>1. s \in proven
    <3>1. op.pc = "back" => op.cur # None
      BY Places DEF SwitchInv, OpInv
    <3> QED BY <1>1, <3>1 DEF SwitchInv, ProvenInv
  <2>2. which_side' # None => which_side' \in proven
    <3>1. rec'.addr = s \/ rec'.addr = rec.addr
      BY <1>3
    <3> QED BY <2>1, <3>1 DEF SwitchInv, ProvenInv, which_side
  <2> QED BY <1>1, <2>2 DEF SwitchInv, ProvenInv
<1>8. DeathInv' /\ (NoDeaths' => NoDeaths)
  BY <1>1 DEF SwitchInv, DeathInv, NoDeaths
<1>9. LastsAtMost' /\ (NoDeaths => StrayExpires' /\ AliasClean')
  BY <1>1, <1>3, Lefts, AddrCaches
<1>10. NoDeaths => WindowInv'
  BY <1>1, <1>3 DEF SwitchInv, WindowInv
<1> QED BY <1>4, <1>5, <1>6, <1>7, <1>8, <1>9, <1>10 DEF SwitchInv

(* The last write: the three records agree.                                   *)
LEMMA LastWrite ==
    ASSUME SwitchInv, NEW s \in Sides, NEW done \in Op, op.pc \in {"move", "back"}, write(s, done),
           s = IF op.pc = "move" THEN op.target ELSE op.cur, op.left = L1,
           done.left = <<>>, done.cmd = op.cmd, done.target = op.target, done.cur = op.cur,
           \/ op.pc = "move" /\ done.pc = "verify" /\ done.until = now + VerifyWindow
           \/ op.pc = "move" /\ done.pc = "switched"
           \/ op.pc = "back" /\ done.pc = "rolledback"
    PROVE  SwitchInv'
<1>1. /\ op \in Op /\ op.target \in Sides /\ op.cmd # None /\ op.target \in proven
      /\ put_cname("alias", s) /\ op' = done /\ torn' = [cmd |-> None, target |-> None]
      /\ now' = now /\ health' = health /\ cert' = cert /\ gw' = gw /\ budget' = budget
      /\ proven' = proven
  BY WriteIs
<1> DEFINE v == side_base(s)
<1>2. rec \in Records /\ held \in [Clusters -> Int] /\ now \in Nat /\ gw \in [Clusters -> Cached]
  BY DEF SwitchInv, Typed
<1>3. /\ rec' \in Records /\ rec'.alias = v /\ rec'.acme = rec.acme /\ rec'.addr = rec.addr
      /\ held' = IF rec.alias \in Clusters \ {v} THEN [held EXCEPT ![rec.alias] = now + TTL] ELSE held
  BY <1>1, <1>2, PutAlias
<1>4. rec.acme = s /\ rec.addr = s /\ which_side = s /\ which_side' = s
  BY <1>3 DEF SwitchInv, RecordsInv, which_side
<1>5. held' \in [Clusters -> Int]
  BY <1>2, <1>3, Constants
<1>6. Typed'
  BY <1>1, <1>3, <1>5 DEF SwitchInv, Typed
<1>7. OpInv'
  BY <1>1 DEF OpInv
<1>8. RecordsInv'
  <2>1. (At(s))' /\ Whole'
    BY <1>3, <1>4 DEF At, Whole, side_base
  <2> QED BY <1>1, <2>1, Lefts DEF RecordsInv, At
<1>9. ProvenInv'
  <2>1. s \in proven
    BY <1>4, Places DEF SwitchInv, ProvenInv
  <2> QED BY <1>1, <1>4, <2>1 DEF SwitchInv, ProvenInv
<1>10. DeathInv' /\ (NoDeaths' => NoDeaths)
  BY <1>1 DEF SwitchInv, DeathInv, NoDeaths
<1>11. LastsAtMost' /\ (NoDeaths => StrayExpires' /\ AliasClean')
  BY <1>1, <1>4, AliasCaches
<1>12. ASSUME NoDeaths PROVE WindowInv'
  <2>1. CASE done.pc = "verify"
    <3>1. ASSUME NEW g \in Clusters PROVE held'[g] + TTL <= done.until
      <4>1. held'[g] <= now + TTL /\ held'[g] \in Int
        BY <1>1, <1>5, <1>11 DEF LastsAtMost
      <4> QED BY <1>2, <2>1, <4>1, Constants
    <3> QED BY <1>1, <2>1, <3>1 DEF WindowInv
  <2>2. CASE done.pc = "switched"
    BY <1>1, <2>2 DEF WindowInv
  <2>3. CASE done.pc = "rolledback"
    <3>1. op.pc = "back"
      BY <2>3
    <3>2. now >= op.until /\ held[v] + TTL <= op.until
      BY <1>12, <3>1, Bases DEF SwitchInv, WindowInv
    <3>3. side_base(gw[v].app) # v => gw[v].exp <= held[v] + TTL
      BY <1>4, <1>12, Bases DEF SwitchInv, StrayExpires, Split
    <3>4. held[v] \in Int /\ gw[v].exp \in Int /\ op.until \in Int
      BY <1>1, <1>2, Bases DEF Cached, Op
    <3> HIDE DEF v
    <3>5. ~(now < gw[v].exp /\ side_base(gw[v].app) # v)
      BY <1>2, <3>2, <3>3, <3>4, Constants
    <3> QED BY <1>1, <1>3, <2>3, <3>5 DEF WindowInv, Unroutable, side_base
  <2> QED BY <2>1, <2>2, <2>3
<1> QED BY <1>6, <1>7, <1>8, <1>9, <1>10, <1>11, <1>12 DEF SwitchInv

LEMMA MoveStep == ASSUME SwitchInv, NEW verify \in BOOLEAN, Move(verify) PROVE SwitchInv'
<1> DEFINE p == IF verify THEN "verify" ELSE "switched"
           u == now + VerifyWindow
           done == [op EXCEPT !.left = <<>>, !.pc = p, !.until = u]
<1>1. op.pc = "move" /\ write(op.target, done)
  BY DEF Move
<1>2. op \in Op /\ op.left \in {L1, L2, L3} /\ op.target \in Sides
  BY <1>1, WriteIs
<1>3. p \in {"verify", "switched"} /\ p \in Busy \cup Ended /\ u \in Int
  BY Places, Constants DEF SwitchInv, Typed
<1> HIDE DEF p, u
<1>4. /\ done \in Op /\ done.pc = p /\ done.until = u /\ done.left = <<>> /\ done.cmd = op.cmd
      /\ done.target = op.target /\ done.cur = op.cur
  BY ONLY <1>2, <1>3 DEF Op
<1> HIDE DEF done
<1>5. CASE op.left \in {L2, L3}
  BY <1>1, <1>2, <1>5, EarlyWrite
<1>6. CASE op.left = L1
  BY <1>1, <1>2, <1>3, <1>4, <1>6, LastWrite DEF u
<1> QED BY <1>2, <1>5, <1>6

LEMMA MoveBackStep == ASSUME SwitchInv, MoveBack PROVE SwitchInv'
<1> DEFINE done == [op EXCEPT !.left = <<>>, !.pc = "rolledback"]
<1>1. op.pc = "back" /\ write(op.cur, done)
  BY DEF MoveBack
<1>2. op \in Op /\ op.left \in {L1, L2, L3} /\ op.cur \in Sides
  BY <1>1, WriteIs DEF SwitchInv, OpInv
<1>3. "rolledback" \in Busy \cup Ended
  BY Places
<1>4. /\ done \in Op /\ done.pc = "rolledback" /\ done.left = <<>> /\ done.cmd = op.cmd
      /\ done.target = op.target /\ done.cur = op.cur
  BY ONLY <1>2, <1>3 DEF Op
<1> HIDE DEF done
<1>5. CASE op.left \in {L2, L3}
  BY <1>1, <1>2, <1>5, EarlyWrite
<1>6. CASE op.left = L1
  BY <1>1, <1>2, <1>4, <1>6, LastWrite
<1> QED BY <1>2, <1>5, <1>6

(* cmd_acme writes the issuance switch only.                                  *)
LEMMA PointAcmeStep == ASSUME SwitchInv, PointAcme PROVE SwitchInv'
<1>1. /\ op.pc = "acme" /\ put_cname("acme", op.target) /\ op' = [op EXCEPT !.pc = "pointed"]
      /\ now' = now /\ health' = health /\ cert' = cert /\ gw' = gw /\ budget' = budget
      /\ torn' = torn /\ proven' = proven
  BY DEF PointAcme
<1>2. op \in Op /\ op.left = <<>> /\ op.target \in Sides /\ rec \in Records
  BY <1>1 DEF SwitchInv, Typed, OpInv
<1>3. "pointed" \in Busy \cup Ended
  BY Places
<1>4. /\ op' \in Op /\ op'.pc = "pointed" /\ op'.left = op.left /\ op'.cur = op.cur
  BY ONLY <1>1, <1>2, <1>3 DEF Op
<1>5. rec' \in Records /\ rec'.addr = rec.addr /\ rec'.alias = rec.alias /\ held' = held /\ early' = early
  BY <1>1, <1>2, PutAcme
<1>6. Typed' /\ OpInv' /\ DeathInv' /\ (NoDeaths' => NoDeaths) /\ WindowInv'
  BY <1>1, <1>2, <1>4, <1>5 DEF SwitchInv, Typed, OpInv, DeathInv, NoDeaths, WindowInv
<1>7. RecordsInv' /\ ProvenInv'
  BY <1>1, <1>2, <1>4, <1>5, Lefts DEF SwitchInv, RecordsInv, ProvenInv, Whole, which_side, side_base
<1>8. LastsAtMost' /\ (NoDeaths => StrayExpires' /\ AliasClean')
  BY <1>1, <1>2, <1>5, Lefts, AddrCaches
<1> QED BY <1>6, <1>7, <1>8 DEF SwitchInv

(* cmd_setup writes the alias, to the live side's cluster if there is one.    *)
LEMMA PointAliasStep == ASSUME SwitchInv, PointAlias PROVE SwitchInv'
<1>1. /\ op.pc = "setup" /\ put_cname("alias", op.target) /\ op' = [op EXCEPT !.pc = "pointed"]
      /\ now' = now /\ health' = health /\ cert' = cert /\ gw' = gw /\ budget' = budget
      /\ torn' = torn /\ proven' = proven
  BY DEF PointAlias
<1>2. op \in Op /\ op.left = <<>> /\ op.target \in Sides /\ rec \in Records
      /\ held \in [Clusters -> Int] /\ now \in Nat
  BY <1>1 DEF SwitchInv, Typed, OpInv
<1>3. "pointed" \in Busy \cup Ended
  BY Places
<1>4. /\ op' \in Op /\ op'.pc = "pointed" /\ op'.left = op.left /\ op'.cur = op.cur
  BY ONLY <1>1, <1>2, <1>3 DEF Op
<1> DEFINE v == side_base(op.target)
<1>5. /\ rec' \in Records /\ rec'.addr = rec.addr /\ rec'.alias = v
      /\ held' = IF rec.alias \in Clusters \ {v} THEN [held EXCEPT ![rec.alias] = now + TTL] ELSE held
  BY <1>1, <1>2, PutAlias
<1>6. held' \in [Clusters -> Int]
  BY <1>2, <1>5, Constants
<1>7. which_side = None \/ side_base(which_side) = v
  BY <1>1 DEF SwitchInv, RecordsInv, strands
<1>8. Typed' /\ OpInv' /\ DeathInv' /\ (NoDeaths' => NoDeaths) /\ WindowInv'
  BY <1>1, <1>2, <1>4, <1>5, <1>6 DEF SwitchInv, Typed, OpInv, DeathInv, NoDeaths, WindowInv
<1>9. which_side' = which_side
  BY <1>5 DEF which_side
<1> HIDE DEF v
<1>10. RecordsInv' /\ ProvenInv'
  <2>1. Whole'
    BY <1>5, <1>7, <1>9 DEF Whole, side_base
  <2> QED BY <1>1, <1>2, <1>4, <1>9, <2>1, Lefts DEF SwitchInv, RecordsInv, ProvenInv
<1>11. LastsAtMost' /\ (NoDeaths => StrayExpires' /\ AliasClean')
  BY <1>1, <1>2, <1>7, AliasCaches DEF v
<1> QED BY <1>8, <1>10, <1>11 DEF SwitchInv

(* A run dies: a split it leaves is remembered in torn.                       *)
LEMMA DieStep == ASSUME SwitchInv, Die PROVE SwitchInv'
<1>1. /\ op' = [op EXCEPT !.pc = "died", !.left = <<>>]
      /\ budget.deaths > 0 /\ budget' = [budget EXCEPT !.deaths = @ - 1]
      /\ now' = now /\ rec' = rec /\ health' = health /\ cert' = cert /\ gw' = gw
      /\ held' = held /\ proven' = proven /\ early' = early
      /\ torn' = IF op.pc \in {"move", "back"} /\ op.left # L3
                 THEN [cmd |-> op.cmd, target |-> op.target] ELSE torn
  BY Lefts DEF Die
<1>2. op \in Op /\ budget \in [runs : Int, deaths : Int, flaps : Int, renewals : Int]
  BY DEF SwitchInv, Typed
<1>3. "died" \in Busy \cup Ended
  BY Places
<1>4. /\ op' \in Op /\ op'.pc = "died" /\ op'.left = <<>> /\ op'.cur = op.cur
  BY ONLY <1>1, <1>2, <1>3 DEF Op
<1>5. budget' \in [runs : Int, deaths : Int, flaps : Int, renewals : Int]
      /\ budget'.deaths = budget.deaths - 1
  BY <1>1, <1>2
<1>6. budget.deaths \in Int /\ budget.deaths <= MaxDeaths
  BY <1>2 DEF SwitchInv, DeathInv
<1>7. ~NoDeaths' /\ DeathInv'
  BY <1>5, <1>6, Constants DEF NoDeaths, DeathInv
<1>8. Typed' /\ OpInv'
  BY <1>1, <1>4, <1>5 DEF SwitchInv, Typed, OpInv
<1>9. RecordsInv'
  <2>1. torn'.cmd = None => torn.cmd = None /\ op.left # L1
    <3>1. CASE op.pc \in {"move", "back"} /\ op.left # L3
      <4>1. op.cmd # None /\ torn'.cmd = op.cmd
        BY <1>1, <3>1 DEF SwitchInv, OpInv
      <4> QED BY <4>1
    <3>2. CASE ~(op.pc \in {"move", "back"} /\ op.left # L3)
      <4>1. torn' = torn
        BY <1>1, <3>2
      <4>2. op.left # L1
        BY <3>2, Lefts DEF SwitchInv, OpInv
      <4> QED BY <4>1, <4>2
    <3> QED BY <3>1, <3>2
  <2>2. torn'.cmd = None => Whole
    BY <2>1 DEF SwitchInv, RecordsInv
  <2>3. (torn.cmd = None => Whole)'
    BY <1>1, <2>2 DEF Whole, which_side, side_base
  <2> QED BY <1>4, <2>3 DEF RecordsInv
<1>10. ProvenInv'
  BY <1>1, <1>4 DEF SwitchInv, ProvenInv, which_side
<1>11. LastsAtMost'
  BY <1>1, CachesStand
<1> QED BY <1>7, <1>8, <1>9, <1>10, <1>11 DEF SwitchInv

-----------------------------------------------------------------------------
(* The deployment.                                                            *)

(* The records and the run stand still.                                       *)
LEMMA ScriptStands ==
    ASSUME SwitchInv, rec' = rec, op' = op, torn' = torn, proven' = proven, budget'.deaths = budget.deaths
    PROVE  OpInv' /\ RecordsInv' /\ ProvenInv' /\ DeathInv' /\ (NoDeaths' => NoDeaths)
BY DEF SwitchInv, OpInv, RecordsInv, ProvenInv, DeathInv, NoDeaths, Whole, At, which_side, strands, side_base

LEMMA LookupStep == ASSUME SwitchInv, NEW g \in Clusters, Lookup(g) PROVE SwitchInv'
<1> DEFINE e == [app |-> which_side, exp |-> now + TTL]
<1>1. /\ g = rec.alias \/ now < held[g]
      /\ which_side # None /\ gw' = [gw EXCEPT ![g] = e]
      /\ now' = now /\ rec' = rec /\ health' = health /\ cert' = cert /\ held' = held /\ op' = op
      /\ budget' = budget /\ torn' = torn /\ proven' = proven /\ early' = early
  BY DEF Lookup
<1>2. gw \in [Clusters -> Cached] /\ now \in Nat /\ held \in [Clusters -> Int] /\ rec \in Records
  BY DEF SwitchInv, Typed
<1>3. e \in Cached /\ e.app = which_side /\ e.exp = now + TTL
  BY <1>2, WhichSide, Constants DEF Cached
<1> HIDE DEF e
<1>4. gw' \in [Clusters -> Cached] /\ gw'[g] = e /\ \A h \in Clusters : h # g => gw'[h] = gw[h]
  BY <1>1, <1>2, <1>3
<1>5. Typed'
  BY <1>1, <1>4 DEF SwitchInv, Typed
<1>6. OpInv' /\ RecordsInv' /\ ProvenInv' /\ DeathInv' /\ (NoDeaths' => NoDeaths)
  BY <1>1, ScriptStands
<1>7. LastsAtMost'
  <2>1. ASSUME NEW h \in Clusters PROVE gw'[h].exp <= now' + TTL /\ held'[h] <= now' + TTL
    BY <1>1, <1>2, <1>3, <1>4, Constants DEF SwitchInv, LastsAtMost
  <2> QED BY <2>1 DEF LastsAtMost
<1>8. which_side' = which_side /\ Split' = Split
  BY <1>1 DEF which_side, Split, side_base
<1>9. ASSUME NoDeaths PROVE StrayExpires' /\ AliasClean' /\ WindowInv'
  <2>1. StrayExpires /\ AliasClean /\ WindowInv
    BY <1>9 DEF SwitchInv
  <2>2. ASSUME NEW h \in Clusters, side_base(gw'[h].app) # h
        PROVE  gw'[h].exp <= held[h] + TTL \/ (h = rec.alias /\ Split)
    <3>1. CASE h # g
      BY <1>4, <2>1, <2>2, <3>1 DEF StrayExpires
    <3>2. CASE h = g /\ g = rec.alias
      BY <1>1, <1>3, <1>4, <2>2, <3>2 DEF Split
    <3>3. CASE h = g /\ g # rec.alias
      <4>1. now < held[g] /\ held[g] \in Int
        BY <1>1, <1>2, <3>3
      <4> QED BY <1>2, <1>3, <1>4, <3>3, <4>1, Constants
    <3> QED BY <3>1, <3>2, <3>3
  <2>3. StrayExpires'
    BY <1>1, <1>8, <2>2 DEF StrayExpires, side_base
  <2>4. ASSUME rec.alias # None, ~Split, ~Unroutable(rec.alias) PROVE ~Unroutable(rec.alias)'
    <3>1. rec.alias \in Clusters
      BY <1>2, <2>4 DEF Records
    <3>2. CASE rec.alias = g
      <4>1. side_base(gw'[g].app) = g
        BY <1>1, <1>3, <1>4, <2>4, <3>2 DEF Split
      <4> QED BY <1>1, <3>2, <4>1 DEF Unroutable, side_base
    <3>3. CASE rec.alias # g
      BY <1>1, <1>4, <2>4, <3>1, <3>3 DEF Unroutable, side_base
    <3> QED BY <3>2, <3>3
  <2>5. AliasClean'
    BY <1>1, <1>8, <2>1, <2>4 DEF AliasClean
  <2>6. op.pc = "rolledback" => rec.alias # None /\ ~Split
    <3>1. op.pc = "rolledback" => At(op.cur)
      BY DEF SwitchInv, RecordsInv
    <3> QED BY <1>1, <1>2, <3>1, Bases, WhichSide DEF At, Split
  <2>7. WindowInv'
    BY <1>1, <2>1, <2>4, <2>6 DEF WindowInv
  <2> QED BY <2>3, <2>5, <2>7
<1> QED BY <1>5, <1>6, <1>7, <1>9 DEF SwitchInv

LEMMA SidesStep ==
    ASSUME SwitchInv,
           \/ \E s \in Sides, h \in {"down", "up", "old", "ready"} : SideChanges(s, h)
           \/ \E s \in Sides : Renew(s)
    PROVE  SwitchInv'
<1>1. /\ now' = now /\ rec' = rec /\ gw' = gw /\ held' = held /\ op' = op /\ torn' = torn
      /\ proven' = proven /\ early' = early
  BY DEF SideChanges, Renew
<1>2. budget' \in [runs : Int, deaths : Int, flaps : Int, renewals : Int] /\ budget'.deaths = budget.deaths
  <2>1. budget \in [runs : Int, deaths : Int, flaps : Int, renewals : Int]
    BY DEF SwitchInv, Typed
  <2>2. budget' = [budget EXCEPT !.flaps = @ - 1] \/ budget' = [budget EXCEPT !.renewals = @ - 1]
    BY DEF SideChanges, Renew
  <2> QED BY <2>1, <2>2
<1>3. /\ health' \in [Sides -> {"unpublished", "down", "up", "old", "ready"}]
      /\ cert' \in [Sides -> Nat]
  BY DEF SideChanges, Renew, SwitchInv, Typed
<1>4. Typed'
  BY <1>1, <1>2, <1>3 DEF SwitchInv, Typed
<1>5. OpInv' /\ RecordsInv' /\ ProvenInv' /\ DeathInv' /\ (NoDeaths' => NoDeaths)
  BY <1>1, <1>2, ScriptStands
<1>6. LastsAtMost' /\ (NoDeaths => StrayExpires' /\ AliasClean')
  BY <1>1, CachesStand
<1>7. NoDeaths => WindowInv'
  BY <1>1 DEF SwitchInv, WindowInv, Unroutable, side_base
<1> QED BY <1>4, <1>5, <1>6, <1>7 DEF SwitchInv

LEMMA TickStep == ASSUME SwitchInv, Tick PROVE SwitchInv'
<1>1. /\ now < MaxTime /\ op.pc # "back" /\ now' = now + 1
      /\ rec' = rec /\ gw' = gw /\ held' = held /\ op' = op /\ torn' = torn /\ health' = health
      /\ cert' = cert /\ proven' = proven /\ early' = early /\ budget' = budget
  BY DEF Tick
<1>2. now \in Nat /\ gw \in [Clusters -> Cached] /\ held \in [Clusters -> Int]
  BY DEF SwitchInv, Typed
<1>3. Typed'
  BY <1>1, <1>2, Constants DEF SwitchInv, Typed
<1>4. OpInv' /\ RecordsInv' /\ ProvenInv' /\ DeathInv' /\ (NoDeaths' => NoDeaths)
  BY <1>1, ScriptStands
<1>5. \A g \in Clusters : gw[g].exp \in Int /\ held[g] \in Int
  BY <1>2 DEF Cached
<1>6. LastsAtMost'
  BY <1>1, <1>2, <1>5, Constants DEF SwitchInv, LastsAtMost
<1>7. which_side' = which_side /\ Split' = Split
  BY <1>1 DEF which_side, Split, side_base
<1>8. ASSUME NEW g, g \in Clusters, ~Unroutable(g) PROVE ~Unroutable(g)'
  BY <1>1, <1>2, <1>5, <1>8 DEF Unroutable, side_base
<1>9. rec.alias # None => rec.alias \in Clusters
  BY DEF SwitchInv, Typed, Records
<1>10. ASSUME NoDeaths PROVE StrayExpires' /\ AliasClean' /\ WindowInv'
  <2>1. StrayExpires /\ AliasClean /\ WindowInv
    BY <1>10 DEF SwitchInv
  <2>2. StrayExpires'
    BY <1>1, <1>7, <2>1 DEF StrayExpires, side_base
  <2>3. AliasClean'
    BY <1>1, <1>7, <1>8, <1>9, <2>1 DEF AliasClean
  <2>4. op.pc = "rolledback" => rec.alias # None
    BY Bases DEF SwitchInv, RecordsInv, At
  <2>5. WindowInv'
    BY <1>1, <1>8, <1>9, <2>1, <2>4 DEF WindowInv
  <2> QED BY <2>2, <2>3, <2>5
<1> QED BY <1>3, <1>4, <1>6, <1>10 DEF SwitchInv

-----------------------------------------------------------------------------
LEMMA SwitchInit == ASSUME Init PROVE SwitchInv
<1>1. /\ now = 0 /\ op = NoOp /\ gw = [g \in Clusters |-> [app |-> None, exp |-> 0]]
      /\ held = [g \in Clusters |-> 0 - TTL]
      /\ budget = [runs |-> MaxRuns, deaths |-> MaxDeaths, flaps |-> MaxFlaps,
                   renewals |-> MaxRenewals]
      /\ proven = {rec.addr} \cap Sides
  BY DEF Init
<1>2. rec \in Records /\ Whole
  BY DEF Init, Records, Sides, Clusters, None, Whole, which_side, side_base
<1>3. \A g \in Clusters : gw[g] = [app |-> None, exp |-> 0] /\ held[g] = 0 - TTL
  BY <1>1
<1>4. Typed
  <2>1. gw \in [Clusters -> Cached]
    BY <1>1 DEF Cached
  <2>2. held \in [Clusters -> Int]
    BY <1>1, Constants
  <2>3. budget \in [runs : Int, deaths : Int, flaps : Int, renewals : Int]
    BY <1>1, Constants
  <2>4. health \in [Sides -> {"unpublished", "down", "up", "old", "ready"}] /\ cert \in [Sides -> Nat]
    BY DEF Init
  <2> QED BY <1>1, <1>2, <2>1, <2>2, <2>3, <2>4, NoOpIs, Constants DEF Typed
<1>5. OpInv
  BY <1>1, NoOpIs DEF OpInv
<1>6. RecordsInv
  BY <1>1, <1>2, NoOpIs DEF RecordsInv
<1>7. ProvenInv
  BY <1>1, NoOpIs DEF ProvenInv, which_side
<1>8. DeathInv
  BY <1>1, Constants DEF DeathInv, Init
<1>9. LastsAtMost /\ StrayExpires
  BY <1>1, <1>3, Constants DEF LastsAtMost, StrayExpires
<1>10. \A g \in Clusters : ~Unroutable(g)
  BY <1>1, <1>3 DEF Unroutable
<1>11. AliasClean
  BY <1>2, <1>10 DEF AliasClean, Records
<1>12. WindowInv
  BY <1>1, NoOpIs DEF WindowInv
<1> QED BY <1>4, <1>5, <1>6, <1>7, <1>8, <1>9, <1>11, <1>12 DEF SwitchInv

LEMMA SwitchNext == ASSUME SwitchInv, [Next]_vars PROVE SwitchInv'
<1>1. CASE UNCHANGED vars
  <2>1. /\ now' = now /\ rec' = rec /\ gw' = gw /\ held' = held /\ op' = op /\ torn' = torn
        /\ health' = health /\ cert' = cert /\ proven' = proven /\ early' = early /\ budget' = budget
    BY <1>1 DEF vars
  <2>2. Typed'
    BY <2>1 DEF SwitchInv, Typed
  <2>3. OpInv' /\ RecordsInv' /\ ProvenInv' /\ DeathInv' /\ (NoDeaths' => NoDeaths)
    BY <2>1, ScriptStands
  <2>4. LastsAtMost' /\ (NoDeaths => StrayExpires' /\ AliasClean')
    BY <2>1, CachesStand
  <2>5. NoDeaths => WindowInv'
    BY <2>1 DEF SwitchInv, WindowInv, Unroutable, side_base
  <2> QED BY <2>2, <2>3, <2>4, <2>5 DEF SwitchInv
<1>2. CASE \/ \E t \in Sides : CmdSwitch(t) \/ CmdFailover(t) \/ CmdSetup(t)
           \/ CmdRollback
           \/ \E t \in Sides \cup {None} : CmdAcme(t)
  BY <1>2, CommandStep
<1>3. CASE Gate
  BY <1>3, GateStep
<1>4. CASE \E readable \in BOOLEAN : ReadCert(readable)
  BY <1>4, ReadCertStep
<1>5. CASE \E verify \in BOOLEAN : Move(verify)
  BY <1>5, MoveStep
<1>6. CASE \E g \in Clusters, readable \in BOOLEAN : Attempt(g, readable)
  BY <1>6, AttemptStep
<1>7. CASE VerifyFailed
  BY <1>7, VerifyFailedStep
<1>8. CASE MoveBack
  BY <1>8, MoveBackStep
<1>9. CASE PointAcme
  BY <1>9, PointAcmeStep
<1>10. CASE PointAlias
  BY <1>10, PointAliasStep
<1>11. CASE Die
  BY <1>11, DieStep
<1>12. CASE \E g \in Clusters : Lookup(g)
  BY <1>12, LookupStep
<1>13. CASE \/ \E s \in Sides, h \in {"down", "up", "old", "ready"} : SideChanges(s, h)
            \/ \E s \in Sides : Renew(s)
  BY <1>13, SidesStep
<1>14. CASE Tick
  BY <1>14, TickStep
<1> QED BY <1>1, <1>2, <1>3, <1>4, <1>5, <1>6, <1>7, <1>8, <1>9, <1>10, <1>11, <1>12, <1>13,
           <1>14 DEF Next

LEMMA SwitchInvHolds == Spec => []SwitchInv
<1>1. Init => SwitchInv
  BY SwitchInit
<1>2. SwitchInv /\ [Next]_vars => SwitchInv'
  BY SwitchNext
<1> QED BY <1>1, <1>2, PTL DEF Spec

(* gate_target: whatever runs, dies, rolls back or fails over, traffic only   *)
(* ever points at a side that passed the gate or was live to begin with.      *)
THEOREM OnlyProvenServe == Spec => []TrafficIsProven
<1>1. SwitchInv => TrafficIsProven
  BY DEF SwitchInv, ProvenInv, TrafficIsProven
<1> QED BY <1>1, SwitchInvHolds, PTL

(* move_switches and auto_rollback: however a run ends the alias, the traffic *)
(* switch and the issuance switch agree, unless it died between its writes.   *)
THEOREM RunsEndWhole == Spec => []EndsWhole
<1>1. ASSUME SwitchInv PROVE EndsWhole
  <2>1. TypeOK
    <3>1. now \in 0 .. MaxTime /\ rec \in Records /\ op.pc \in Busy \cup Ended
      <4>1. now \in Nat /\ now <= MaxTime /\ rec \in Records /\ op \in Op
        BY <1>1 DEF SwitchInv, Typed
      <4>2. op.pc \in Busy \cup Ended
        BY <4>1 DEF Op
      <4> QED BY <4>1, <4>2, Constants
    <3> QED BY <1>1, <3>1 DEF SwitchInv, OpInv, TypeOK
  <2>2. WholeUnlessTorn
    <3>1. op.pc \in Ended => op.left # L1
      BY <1>1, Lefts, Places DEF SwitchInv, OpInv
    <3> QED BY <1>1, <3>1 DEF SwitchInv, RecordsInv, Whole, WholeUnlessTorn
  <2>3. IssuanceFollowsTraffic
    BY <1>1 DEF SwitchInv, RecordsInv, At, IssuanceFollowsTraffic
  <2> QED BY <2>1, <2>2, <2>3 DEF EndsWhole
<1> QED BY <1>1, SwitchInvHolds, PTL

(* The order of the writes and the length of the verify window: with no death *)
(* on the way, a gateway the alias points at holds no address it cannot route *)
(* unless traffic came back early, and after an automatic rollback not then.  *)
THEOREM CachesAreOutlasted == Spec => []CachesOutlasted
<1>1. ASSUME SwitchInv PROVE CachesOutlasted
  <2>1. NewGatewayIsClean
    <3>1. SUFFICES ASSUME rec.alias # None, rec.alias \notin early, NoDeaths,
                          op.pc \notin {"move", "back"}
                   PROVE  ~Unroutable(rec.alias)
      BY DEF NewGatewayIsClean, NoDeaths
    <3>2. op.left # L1 /\ torn.cmd = None
      BY <1>1, <3>1, Lefts DEF SwitchInv, OpInv, DeathInv
    <3>3. ~Split
      BY <1>1, <3>1, <3>2 DEF SwitchInv, RecordsInv, Whole, Split
    <3> QED BY <1>1, <3>1, <3>3 DEF SwitchInv, AliasClean
  <2>2. RollbackOutlastsCaches
    BY <1>1 DEF SwitchInv, WindowInv, NoDeaths, RollbackOutlastsCaches
  <2> QED BY <2>1, <2>2 DEF CachesOutlasted
<1> QED BY <1>1, SwitchInvHolds, PTL
=============================================================================
