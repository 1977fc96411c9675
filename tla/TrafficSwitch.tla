----------------------------- MODULE TrafficSwitch -----------------------------
(***************************************************************************)
(* The blue/green traffic switch (deploy/phala/switch.sh): three DNS       *)
(* records, moved one write at a time by an operator's run that can die    *)
(* between any two of them, in front of two clusters whose gateways cache  *)
(* the app-address they looked up and clients that cache the alias.        *)
(*                                                                         *)
(*   acme   whose certificate may be issued     (issuance switch)          *)
(*   addr   which side's app_id gets traffic    (traffic switch)           *)
(*   alias  which cluster's gateway is asked    (serving alias)            *)
(*                                                                         *)
(* One run at a time, as the DNS-switch workflow's concurrency group makes *)
(* it.  Sides, clusters, caches and certificates are the deployment's, not *)
(* the script's: they change on their own.                                 *)
(***************************************************************************)
EXTENDS Integers, Sequences, FiniteSets

CONSTANTS
    TTL,           \* of the records, and so of the caches in front of them
    VerifyWindow,  \* VERIFY_RETRIES * VERIFY_INTERVAL
    MaxTime,       \* bound: the clock stops here
    MaxRuns,       \* bound on runs of the script
    MaxDeaths,     \* bound on runs that die on a Cloudflare error or a kill
    MaxFlaps,      \* bound on changes of the sides' condition
    MaxRenewals    \* bound on certificate renewals

ASSUME SwitchAssumption ==
    /\ {TTL, VerifyWindow, MaxTime, MaxRuns, MaxDeaths, MaxFlaps, MaxRenewals} \subseteq Nat
    /\ TTL > 0 /\ VerifyWindow >= 2 * TTL

Sides    == {"a", "b", "c"}
Clusters == {"main", "cold"}
None     == "none"
Records  == [acme : Sides \cup {None}, addr : Sides \cup {None, "other"},
             alias : Clusters \cup {None}]

VARIABLES
    now,
    rec,     \* the three records
    health,  \* each side: unpublished, down, up (not ready), old (no /readyz) or ready
    cert,    \* each side's certificate, by issue number
    gw,      \* each cluster gateway's cached app-address
    held,    \* until when some client still holds an alias that moved away
    op,      \* the operator's run
    budget,  \* what is left of the bounds
    torn,    \* history: the run that last died between its writes, if any
    proven,  \* history: sides that passed the gate, or were live to begin with
    early    \* history: clusters traffic came back to before the caches ran out

vars == <<now, rec, health, cert, gw, held, op, budget, torn, proven, early>>

-----------------------------------------------------------------------------
(* side_base *)
side_base(s) == IF s = "c" THEN "cold" ELSE "main"
other_side(s) == IF s = "a" THEN "b" ELSE "a"

(* alias_mismatch, and whether a recorded alias contradicts a live side.      *)
alias_mismatch(s) == rec.alias # side_base(s)

which_side == IF rec.addr \in Sides THEN rec.addr ELSE None

(* move_switches' order of writes.                                            *)
moveOrder_AliasFirst == <<"acme", "alias", "addr">>
moveOrder == <<"acme", "addr", "alias">>

(* What auto_rollback writes.                                                 *)
rollbackOrder_TrafficOnly == <<"addr", "alias">>
rollbackOrder == moveOrder

alive(s) == health[s] \in {"up", "old", "ready"}

Busy  == {"gate", "cert", "move", "verify", "back", "acme", "setup"}
Ended == {"idle", "nothing", "refused", "switched", "verified", "unconfirmed", "rolledback",
          "died", "pointed"}

NoOp == [pc |-> "idle", cmd |-> None, target |-> None, cur |-> None, stay |-> FALSE,
         left |-> <<>>, cert |-> <<>>, seen |-> FALSE, until |-> 0, reached |-> None,
         why |-> None]

Init ==
    /\ now = 0
    /\ rec \in {[acme |-> None, addr |-> None, alias |-> None],
                [acme |-> "a", addr |-> "a", alias |-> "main"],
                [acme |-> "b", addr |-> "a", alias |-> "main"],
                [acme |-> "c", addr |-> "c", alias |-> "cold"],
                [acme |-> "a", addr |-> "other", alias |-> "main"]}
    /\ health = [s \in Sides |-> IF s = "b" THEN "up" ELSE "ready"]
    /\ cert = [s \in Sides |-> 0]
    /\ gw = [g \in Clusters |-> [app |-> None, exp |-> 0]]
    /\ held = [g \in Clusters |-> 0 - TTL]
    /\ op = NoOp
    /\ budget = [runs |-> MaxRuns, deaths |-> MaxDeaths, flaps |-> MaxFlaps,
                 renewals |-> MaxRenewals]
    /\ torn = [cmd |-> None, target |-> None]
    /\ proven = {rec.addr} \cap Sides
    /\ early = {}

-----------------------------------------------------------------------------
(* A run begins: it becomes o.                                                *)
begin(o) ==
    /\ op.pc \in Ended /\ budget.runs > 0
    /\ op' = o
    /\ budget' = [budget EXCEPT !.runs = @ - 1]
    /\ UNCHANGED <<now, rec, health, cert, gw, held, torn, proven, early>>

Run(cmd, t, pc) == [NoOp EXCEPT !.cmd = cmd, !.target = t, !.cur = which_side, !.pc = pc]

(* cmd_switch, on the records as it reads them.                               *)
switchTo(cmd, t) ==
    LET cur == which_side
    IN  IF rec.addr = "other" THEN [Run(cmd, t, "refused") EXCEPT !.why = "other"]
        ELSE IF cur = t
        THEN IF alias_mismatch(t) THEN [Run(cmd, t, "gate") EXCEPT !.stay = TRUE]
             ELSE Run(cmd, t, "nothing")
        ELSE IF cur # None /\ rec.alias # None /\ alias_mismatch(cur)
        THEN [Run(cmd, t, "refused") EXCEPT !.why = "split"]
        ELSE Run(cmd, t, "gate")

CmdSwitch(t) == begin(switchTo("switch", t))

(* cmd_rollback: to the other main side, read from DNS.                       *)
CmdRollback ==
    begin(IF which_side \in {None, "c"}
          THEN [Run("rollback", None, "refused") EXCEPT !.why = "no other side"]
          ELSE switchTo("rollback", other_side(which_side)))

(* cmd_failover: no consistency asked of the records, no way back.            *)
CmdFailover(t) ==
    begin(IF which_side = t /\ ~alias_mismatch(t) THEN Run("failover", t, "nothing")
          ELSE [Run("failover", t, "gate") EXCEPT !.stay = TRUE])

(* cmd_acme, for a named side or for the live one.                            *)
CmdAcme(t) ==
    begin(IF t = None /\ which_side = None
          THEN [Run("acme", t, "refused") EXCEPT !.why = "no live side"]
          ELSE Run("acme", IF t = None THEN which_side ELSE t, "acme"))

(* cmd_setup refuses to take the alias away from the live side's cluster.     *)
strands_Unchecked(s) == FALSE
strands(s) == which_side # None /\ side_base(which_side) # side_base(s)
CmdSetup(s) ==
    begin(IF strands(s) THEN [Run("setup", s, "refused") EXCEPT !.why = "would strand"]
          ELSE Run("setup", s, "setup"))

(* gate_target: published, and ready; an image older than /readyz need only be*)
(* up.  A side that is not makes the probe window run out.                    *)
passes_Published(s) == health[s] # "unpublished"
passes(s) == health[s] \in {"ready", "old"}
Gate ==
    /\ op.pc = "gate"
    /\ op' = [op EXCEPT !.pc = IF passes(op.target) THEN "cert" ELSE "refused",
                        !.why = IF passes(op.target) THEN None ELSE "gate"]
    /\ proven' = IF passes(op.target) /\ health[op.target] \in {"ready", "old"}
                 THEN proven \cup {op.target} ELSE proven
    /\ UNCHANGED <<now, rec, health, cert, gw, held, budget, torn, early>>

(* Which side answers a connection made through cluster g's gateway.          *)
routed(g) == IF now < gw[g].exp THEN gw[g].app ELSE which_side
answers(g) == routed(g) \in Sides /\ side_base(routed(g)) = g /\ alive(routed(g))

(* cutover fingerprints the certificate served now, if there is one to read.  *)
ReadCert(readable) ==
    LET g == rec.alias
        fp == IF op.cur # None /\ op.cur # op.target /\ readable /\ g # None /\ answers(g)
              THEN <<routed(g), cert[routed(g)]>> ELSE <<>>
    IN  /\ op.pc = "cert"
        /\ op' = [op EXCEPT !.cert = fp, !.pc = "move", !.left = moveOrder]
        /\ UNCHANGED <<now, rec, health, cert, gw, held, budget, torn, proven, early>>

(* put_cname of one record for side s.  Clients may hold the alias it replaces*)
(* for a TTL.                                                                 *)
put_cname(r, s) ==
    LET v == IF r = "alias" THEN side_base(s) ELSE s
    IN  /\ rec' = [rec EXCEPT ![r] = v]
        /\ held' = IF r = "alias" /\ rec.alias \in Clusters \ {v}
                   THEN [held EXCEPT ![rec.alias] = now + TTL] ELSE held
        /\ early' = IF r # "alias" \/ rec.alias = v THEN early
                    ELSE IF now < held[v] + TTL THEN early \cup {v} ELSE early \ {v}

(* move_switches: the next write, towards side s.                             *)
write(s, done) ==
    /\ put_cname(Head(op.left), s)
    /\ op' = IF Len(op.left) > 1 THEN [op EXCEPT !.left = Tail(@)] ELSE done
    /\ torn' = IF Len(op.left) > 1 THEN torn ELSE [cmd |-> None, target |-> None]
    /\ UNCHANGED <<now, health, cert, gw, budget, proven>>

Move(verify) ==
    /\ op.pc = "move"
    /\ write(op.target, [op EXCEPT !.left = <<>>,
                                   !.pc = IF verify THEN "verify" ELSE "switched",
                                   !.until = now + VerifyWindow])

(* verify_switched: one attempt, through the alias the operator's resolver    *)
(* gives it.  A changed certificate, or without one to compare a healthy      *)
(* answer, settles it.                                                        *)
Attempt(g, readable) ==
    LET s == routed(g)
        ok == op.cert = <<>> \/ (readable /\ <<s, cert[s]>> # op.cert)
    IN  /\ op.pc = "verify" /\ now < op.until
        /\ g = rec.alias \/ now < held[g]
        /\ answers(g)
        /\ op' = [op EXCEPT !.seen = TRUE, !.pc = IF ok THEN "verified" ELSE "verify",
                            !.reached = IF ok THEN s ELSE None]
        /\ UNCHANGED <<now, rec, health, cert, gw, held, budget, torn, proven, early>>

goesBack_Always == ~op.stay
goesBack == ~op.stay /\ op.cur # None

windowOver_AtOnce == TRUE
windowOver == now >= op.until

(* The window ran out: fail_forward leaves traffic there, auto_rollback takes *)
(* it back to the side it found live.                                         *)
VerifyFailed ==
    /\ op.pc = "verify" /\ windowOver
    /\ op' = IF goesBack THEN [op EXCEPT !.pc = "back", !.left = rollbackOrder]
             ELSE [op EXCEPT !.pc = "unconfirmed"]
    /\ UNCHANGED <<now, rec, health, cert, gw, held, budget, torn, proven, early>>

MoveBack ==
    /\ op.pc = "back"
    /\ write(op.cur, [op EXCEPT !.left = <<>>, !.pc = "rolledback"])

(* The single write of acme and of setup.                                     *)
PointAcme ==
    /\ op.pc = "acme"
    /\ put_cname("acme", op.target)
    /\ op' = [op EXCEPT !.pc = "pointed"]
    /\ UNCHANGED <<now, health, cert, gw, budget, torn, proven>>
PointAlias ==
    /\ op.pc = "setup"
    /\ put_cname("alias", op.target)
    /\ op' = [op EXCEPT !.pc = "pointed"]
    /\ UNCHANGED <<now, health, cert, gw, budget, torn, proven>>

(* A Cloudflare call fails (cf dies), or the shell is killed.                 *)
Die ==
    /\ op.pc \in Busy /\ budget.deaths > 0
    /\ op' = [op EXCEPT !.pc = "died", !.left = <<>>]
    /\ budget' = [budget EXCEPT !.deaths = @ - 1]
    /\ torn' = IF op.pc \in {"move", "back"} /\ op.left \notin {moveOrder, rollbackOrder}
               THEN [cmd |-> op.cmd, target |-> op.target] ELSE torn
    /\ UNCHANGED <<now, rec, health, cert, gw, held, proven, early>>

-----------------------------------------------------------------------------
(* The deployment around the script. *)

(* A gateway whose cache ran out looks the app-address up for a client.       *)
Lookup(g) ==
    /\ g = rec.alias \/ now < held[g]
    /\ now >= gw[g].exp /\ which_side # None
    /\ gw' = [gw EXCEPT ![g] = [app |-> which_side, exp |-> now + TTL]]
    /\ UNCHANGED <<now, rec, health, cert, held, op, budget, torn, proven, early>>

SideChanges(s, h) ==
    /\ budget.flaps > 0 /\ h # health[s]
    /\ health' = [health EXCEPT ![s] = h]
    /\ budget' = [budget EXCEPT !.flaps = @ - 1]
    /\ UNCHANGED <<now, rec, cert, gw, held, op, torn, proven, early>>

(* Only the side the issuance switch names can answer the dns-01 challenge.   *)
Renew(s) ==
    /\ budget.renewals > 0 /\ rec.acme = s /\ alive(s)
    /\ cert' = [cert EXCEPT ![s] = @ + 1]
    /\ budget' = [budget EXCEPT !.renewals = @ - 1]
    /\ UNCHANGED <<now, rec, health, gw, held, op, torn, proven, early>>

(* The script's Cloudflare calls take no time to speak of; the gate's wait and*)
(* the verify window do.                                                      *)
Tick ==
    /\ now < MaxTime /\ op.pc \notin {"move", "back", "acme", "setup"}
    /\ op.pc = "verify" => now < op.until
    /\ now' = now + 1
    /\ UNCHANGED <<rec, health, cert, gw, held, op, budget, torn, proven, early>>

Next ==
    \/ \E t \in Sides : CmdSwitch(t) \/ CmdFailover(t) \/ CmdSetup(t)
    \/ CmdRollback
    \/ \E t \in Sides \cup {None} : CmdAcme(t)
    \/ Gate
    \/ \E readable \in BOOLEAN : ReadCert(readable)
    \/ \E verify \in BOOLEAN : Move(verify)
    \/ \E g \in Clusters, readable \in BOOLEAN : Attempt(g, readable)
    \/ VerifyFailed \/ MoveBack \/ PointAcme \/ PointAlias \/ Die
    \/ \E g \in Clusters : Lookup(g)
    \/ \E s \in Sides, h \in {"down", "up", "old", "ready"} : SideChanges(s, h)
    \/ \E s \in Sides : Renew(s)
    \/ Tick

Spec == Init /\ [][Next]_vars
-----------------------------------------------------------------------------
(* Every variable keeps its type, and a run with writes left is writing.      *)
TypeOK ==
    /\ now \in 0 .. MaxTime
    /\ rec \in Records
    /\ op.pc \in Busy \cup Ended
    /\ op.pc \in {"move", "back"} <=> op.left # <<>>
    /\ op.pc \in {"gate", "cert", "move", "verify", "acme", "setup"} => op.target \in Sides
    /\ op.pc = "back" => op.cur \in Sides

(* A new connection needs the alias and the traffic switch to agree.  Between *)
(* runs they do, unless a run died between its writes: a refusal, a failed    *)
(* gate, a failed verify and a setup leave no half-moved state behind.        *)
WholeUnlessTorn ==
    (op.pc \in Ended /\ torn.cmd = None /\ which_side # None /\ rec.alias # None)
        => rec.alias = side_base(which_side)

(* Cluster g's gateway holds an app-address of a side it does not host.       *)
Unroutable(g) == now < gw[g].exp /\ side_base(gw[g].app) # g

(* The order of writes: a gateway the alias has just been pointed at has never*)
(* cached an app it cannot route, unless a run died half-way or traffic came  *)
(* back to it before the caches of the last move ran out.                     *)
NewGatewayIsClean ==
    (rec.alias # None /\ rec.alias \notin early /\ budget.deaths = MaxDeaths
        /\ op.pc \notin {"move", "back"})
    => ~Unroutable(rec.alias)

(* An automatic rollback never hits such a cache: its verify window outlasts  *)
(* the clients' alias and the gateway's cache filled under it.                *)
RollbackOutlastsCaches ==
    (op.pc = "rolledback" /\ budget.deaths = MaxDeaths) => ~Unroutable(rec.alias)

(* The live side ends up owning renewal: however a move ends, issuance points *)
(* at the side traffic points at.                                             *)
IssuanceFollowsTraffic ==
    op.pc \in {"switched", "verified", "unconfirmed", "rolledback"} => rec.acme = rec.addr

(* Traffic never points at a side that has not shown it can serve.            *)
TrafficIsProven == which_side # None => which_side \in proven

(* "Re-running the same command repairs it": a run that died between its      *)
(* writes is never refused, for the split it left, when run again.            *)
RerunRepairs ==
    ~(op.pc = "refused" /\ op.why = "split" /\ op.cmd = torn.cmd /\ op.target = torn.target)

(* Nothing in front of the records serves what the move left behind.          *)
CachesOutlasted == NewGatewayIsClean /\ RollbackOutlastsCaches

(* However a run ends, alias, traffic and issuance agree, unless it died.     *)
EndsWhole == TypeOK /\ WholeUnlessTorn /\ IssuanceFollowsTraffic
=============================================================================
