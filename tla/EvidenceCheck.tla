----------------------------- MODULE EvidenceCheck -----------------------------
(***************************************************************************)
(* pcverify -gateway (client/cmd/pcverify gateway.go, chainroot.go) over   *)
(* client/evidence: is the endpoint that answers for a domain a CVM that   *)
(* runs a published release on an accepted OS image?                       *)
(*                                                                         *)
(* A domain is served by replicas, each a CVM with its own TLS key and its *)
(* own evidence bundle, which dstack-ingress rewrites piece by piece when  *)
(* a certificate is renewed.  A run fetches the bundle over one connection *)
(* that it does not verify but records, so on the way to the domain it may *)
(* meet an interceptor, which relays what it likes and runs a genuine CVM  *)
(* of its own.  A dropped connection is dialed again, and may then reach   *)
(* somebody else.                                                          *)
(*                                                                         *)
(* Digests are the documents themselves.  A manifest lists the account     *)
(* document and the certificate; an app-compose is named by its compose    *)
(* text.                                                                   *)
(***************************************************************************)
EXTENDS RuntimeLog

CONSTANTS
    Replicas,     \* the CVMs that serve the domain
    Interceptor,  \* the CVM of whoever sits on the path
    Deployments,  \* what the replicas may be running
    Commands,     \* command lines of pcverify
    Releases,     \* the compose texts GitHub publishes
    OSImages,     \* the OS-image allowlist
    MaxDials,     \* bound: connections of a run
    MaxRenewals,  \* bound: certificate renewals
    NotFetched,   \* no answer to a fetch
    None          \* no certificate, no manifest

Sites == Replicas \cup {Interceptor}

(* What a CVM may be, and what a command line may say.                         *)
CVMs == [compose : STRING, os : STRING, v : {1, 3}, log : BOOLEAN,
         net : STRING \ {"err"}]  \* "unreported" when its build names no network
CommandLines ==
    [supplied : STRING, base : BOOLEAN, appID : BOOLEAN, noCloud : BOOLEAN, noDNS : BOOLEAN,
     expect : {"default", "releases", "pinned", "off", "both"}, pinned : STRING,
     strict : BOOLEAN, waive : BOOLEAN, osImages : BOOLEAN, want : STRING \ {"unreported"}]

ASSUME EvidenceAssumption ==
    /\ Interceptor \notin Replicas /\ empty \notin Sites
    /\ Deployments \subseteq [cvm : CVMs, publicCA : BOOLEAN] /\ Commands \subseteq CommandLines
    /\ MaxDials \in Nat /\ MaxRenewals \in Nat

VARIABLES
    dep,     \* what the replicas run, and whether their CA is a public one
    served,  \* the certificate each site serves
    files,   \* each site's evidence files
    renewal, \* dstack-ingress renewing: the replica and the step it is at
    renewed, \* renewals so far
    run      \* the run of pcverify

evidenceVars == <<dep, served, files, renewal, renewed, run>>

-----------------------------------------------------------------------------
(* The deployment.                                                             *)

cvm(s) == IF s \in Replicas THEN dep.cvm
          ELSE [compose |-> CHOOSE c \in Releases : TRUE, os |-> CHOOSE o \in OSImages : TRUE,
                v |-> 1, log |-> TRUE, net |-> "mainnet"]

cert(s, key, n) == [site |-> s, key |-> key, n |-> n]
trusted(c) == c.site \in Replicas /\ dep.publicCA

(* A manifest names each file with its digest. *)
manifestOf(acct, c) == [wellFormed |-> TRUE, entries |-> [acct |-> acct, cert |-> c]]

(* A quote: the CVM it is from, the manifest its report_data is the digest of. *)
quote(s, man) == [genuine |-> TRUE, site |-> s, binds |-> man]
forged(man) == [genuine |-> FALSE, site |-> Interceptor, binds |-> man]

bundle(s, c) ==
    [acct |-> s, cert |-> c, manifest |-> manifestOf(s, c), quote |-> quote(s, manifestOf(s, c))]

NoRenewal == [site |-> empty, step |-> "idle", cert |-> None]

(* A renewal: the certificate file, then the manifest, then its quote, and only   *)
(* then HAProxy is reloaded.  The key is reused or not.                            *)
Renew(s, key) ==
    /\ renewal = NoRenewal /\ renewed < MaxRenewals
    /\ renewal' = [site |-> s, step |-> "manifest", cert |-> cert(s, key, renewed + 1)]
    /\ files' = [files EXCEPT ![s].cert = renewal'.cert]
    /\ renewed' = renewed + 1
    /\ UNCHANGED <<dep, served>>

RenewalStep ==
    LET s == renewal.site IN
    /\ renewal # NoRenewal
    /\ CASE renewal.step = "manifest" ->
              /\ files' = [files EXCEPT ![s].manifest = manifestOf(files[s].acct, files[s].cert)]
              /\ renewal' = [renewal EXCEPT !.step = "quote"]
              /\ UNCHANGED served
         [] renewal.step = "quote" ->
              /\ files' = [files EXCEPT ![s].quote = quote(s, files[s].manifest)]
              /\ renewal' = [renewal EXCEPT !.step = "reload"]
              /\ UNCHANGED served
         [] OTHER -> served' = [served EXCEPT ![s] = renewal.cert] /\ renewal' = NoRenewal /\ UNCHANGED files
    /\ UNCHANGED <<dep, renewed>>

-----------------------------------------------------------------------------
(* pcverify's command line, and the checker it builds.                          *)

(* newEvidenceChecker: one expectation, by name or from GitHub; a lookup the      *)
(* caller demanded must succeed, the default one may fail.                        *)
demands(g) == g.strict \/ g.expect = "releases"

newEvidenceChecker(g, github) ==
    IF g.expect = "both" \/ (g.strict /\ g.expect = "off") THEN [exit |-> 2]
    ELSE IF g.expect \in {"releases", "default"} /\ ~github /\ demands(g) THEN [exit |-> 1]
    ELSE
           [exit |-> 9, g |-> g,
            ExpectComposeFiles |-> IF g.expect = "off" \/ (g.expect # "pinned" /\ ~github) THEN {}
                                   ELSE IF g.expect = "pinned" THEN {g.pinned}
                                   ELSE Releases,
            ExpectComposeExplicit |-> g.expect = "pinned" \/ (g.expect # "off" /\ demands(g)),
            lookupErr |-> g.expect = "default" /\ ~github]

NotRun == [pc |-> "setup", exit |-> 9]

(* Setup ends a run the command line or a demanded lookup ends.  What else the command *)
(* line says is first read by Report, and is chosen there.                             *)
Setup(g, github) ==
    LET exit == newEvidenceChecker(g, github).exit IN
    /\ run.pc = "setup"
    /\ run' = IF exit # 9 THEN [pc |-> "done", exit |-> exit]
              ELSE [pc |-> "manifest", exit |-> 9, conn |-> empty, chains |-> <<>>,
                    manifest |-> None, filesOK |-> TRUE, cert |-> None, undisturbed |-> renewal = NoRenewal]
    /\ UNCHANGED <<dep, served, files, renewal, renewed>>

-----------------------------------------------------------------------------
(* Steps 1 to 5: the bundle, its quote, and the certificate on the connection.  *)

(* What a site answers: a replica its own file, the interceptor any file of any  *)
(* site, or one it made up; a fetch may also fail.                                *)
answers(t, name) ==
    {NotFetched} \cup
    IF t \in Replicas THEN {files[t][name]}
    ELSE {files[s][name] : s \in Sites}
         \cup CASE name = "manifest" ->
                     {[wellFormed |-> FALSE, entries |-> <<>>],
                      [wellFormed |-> TRUE, entries |-> [acct |-> Interceptor]]}
                [] name = "quote" -> {forged(files[s].manifest) : s \in Replicas}
                [] OTHER -> {}

(* newSession: one connection at a time, dialed again when it is gone; every      *)
(* dial is recorded with the leaf it was shown.                                    *)
newSession(t, dial) ==
    IF dial THEN Append(run.chains, served[t]) ELSE run.chains

(* servedChain: the leaf, unless two connections showed different ones.           *)
servedChain_Last(chains) == [leaf |-> chains[Len(chains)], changed |-> FALSE]
servedChain(chains) ==
    IF \E i \in DOMAIN chains : chains[i] # Head(chains) THEN [leaf |-> None, changed |-> TRUE]
    ELSE [leaf |-> Head(chains), changed |-> FALSE]

(* requireEntries: the account document and the certificate of the domain. *)
requireEntries(entries) == {"acct", "cert"} \subseteq DOMAIN entries

(* parseManifest takes a well-formed manifest or none of it. *)
manifestErr(man) == man = NotFetched \/ ~man.wellFormed \/ ~requireEntries(man.entries)

(* compareCert: the pass is the very certificate, not one with its key.            *)
compareCert(leaf, c) ==
    IF leaf = c THEN "exact"
    ELSE IF <<leaf.site, leaf.key>> = <<c.site, c.key>> THEN "same_key"
    ELSE "mismatch"

(* VerifyEvidenceReportData: the quote binds exactly these manifest bytes.         *)
VerifyEvidenceReportData_Skip(q, man) == TRUE
VerifyEvidenceReportData(q, man) == q.binds = man

(* Check, once the quote is in: what steps 1 to 5 found.                           *)
appraisal(q, chains) ==
    LET quoteOK == q # NotFetched /\ q.genuine
        chain == servedChain(chains)
        compared == run.cert # NotFetched /\ ~chain.changed
    IN [filesOK |-> run.filesOK, quoteOK |-> quoteOK,
        bound |-> quoteOK /\ VerifyEvidenceReportData(q, run.manifest),
        certMatch |-> IF compared THEN compareCert(chain.leaf, run.cert) ELSE "not_compared",
        leaf |-> IF compared THEN chain.leaf ELSE None,
        trustErr |-> compared /\ ~trusted(chain.leaf),
        site |-> IF quoteOK THEN q.site ELSE empty,
        seen |-> Range(chains)]

(* fetch: one file of the bundle, in Check's order.                                *)
fetch(t, dial, answer) ==
    LET chains == newSession(t, dial)
        still == run.undisturbed /\ t \in Replicas /\ answer # NotFetched /\ renewal = NoRenewal
                 /\ chains = <<served[t]>>
        listed == answer # NotFetched /\ run.manifest.entries[run.pc] = answer
        base == [run EXCEPT !.conn = t, !.chains = chains, !.undisturbed = still]
    IN run' = CASE run.pc = "manifest" ->
                     IF manifestErr(answer) THEN [pc |-> "done", exit |-> 1]
                     ELSE [base EXCEPT !.pc = "acct", !.manifest = answer]
                [] run.pc = "acct" -> [base EXCEPT !.pc = "cert", !.filesOK = @ /\ listed]
                [] run.pc = "cert" -> [base EXCEPT !.pc = "quote", !.filesOK = @ /\ listed, !.cert = answer]
                [] OTHER -> [pc |-> "report", exit |-> 9, undisturbed |-> still,
                             rep |-> appraisal(answer, chains)]

Fetch(t, dial) ==
    /\ run.pc \in {"manifest", "acct", "cert", "quote"}
    /\ IF dial THEN Len(run.chains) < MaxDials ELSE run.conn = t
    /\ \E answer \in answers(t, run.pc) : fetch(t, dial, answer)
    /\ UNCHANGED <<dep, served, files, renewal, renewed>>

-----------------------------------------------------------------------------
(* Step 6: code identity, from the verified quote.                              *)

quoteReply(s) == [event_log |-> IF cvm(s).log THEN logOf(bootLog(cvm(s).compose)) ELSE absent, tcb_info |-> absent]
mrConfigID(s) ==
    IF cvm(s).v = 1 THEN [v |-> 1, hash |-> cvm(s).compose, kp |-> empty, inst |-> empty, opts |-> {}]
    ELSE [v |-> 3, hash |-> cvm(s).compose, kp |-> "kms", inst |-> "i", opts |-> {}]

(* resolveAppID: pinned, logged by the guest, the domain's TXT record, else the    *)
(* compose hash's prefix, which is the app's id only until its first upgrade.       *)
resolveAppID(g, logged, txt) ==
    IF g.appID THEN "app"
    ELSE IF logged # empty THEN logged
    ELSE IF ~g.noDNS /\ txt THEN "app"
    ELSE "prefix"

(* The cloud API is asked unless turned off, or when the id could only be a guess.  *)
cloudUsable(g) == ~g.noCloud /\ (g.appID \/ ~g.noDNS)

(* FetchAppComposeFromCloud picks by digest, so it finds the right bytes or none.   *)
FetchAppComposeFromCloud(id, hash, look) == IF look.cloud /\ id = "app" THEN hash ELSE empty

(* FetchAppCompose takes what the guest agent's host returns.                       *)
FetchAppCompose(id, hash, look) ==
    CASE look.guest = "answers" /\ id = "app" -> hash
      [] look.guest = "other_document" -> "other"
      [] OTHER -> empty

(* The base domain: given, or the end of the domain's CNAME chain.                  *)
baseDomain(g, look) == g.base \/ (~g.noDNS /\ look.cname)

(* Where the app-compose comes from: the caller's copy, the cloud, the guest agent. *)
appCompose(g, hash, logged, look) ==
    LET id == resolveAppID(g, logged, look.txt)
        cloud == IF cloudUsable(g) THEN FetchAppComposeFromCloud(id, hash, look) ELSE empty
        guest == IF baseDomain(g, look) THEN FetchAppCompose(id, hash, look) ELSE empty
    IN IF g.supplied # empty THEN g.supplied
       ELSE IF cloud # empty THEN cloud
       ELSE guest

(* VerifyAppCompose: the bytes hash to the compose hash of the quote. *)
VerifyAppCompose_Unchecked(raw, hash) == TRUE
VerifyAppCompose(raw, hash) == raw = hash

(* MatchCompose: the label of the published text it equals. *)
MatchCompose(text, expected) == IF text \in expected THEN text ELSE empty

(* CodeIdentity, as checkCodeIdentity starts it: what was asked for. *)
CodeIdentity0(c) ==
    LET requested == c.g.supplied # empty \/ c.g.base \/ c.g.appID
    IN [Requested |-> requested, ExpectRequested |-> c.ExpectComposeFiles # {},
        ExpectExplicit |-> c.ExpectComposeExplicit, Discovered |-> c.g.supplied = empty /\ ~requested,
        HashErr |-> FALSE, NoSource |-> FALSE, FetchErr |-> FALSE, BoundErr |-> FALSE,
        MatchedExpect |-> empty]

checkCodeIdentity(rep, c, look) ==
    LET g == c.g
        rtmr3 == bootLog(cvm(rep.site).compose)
        hash == ComposeHashOf(mrConfigID(rep.site), quoteReply(rep.site), rtmr3)
        raw == appCompose(g, hash, LoggedAppID(quoteReply(rep.site), rtmr3), look)
        found == CodeIdentity0(c)
    IN IF ~rep.quoteOK \/ hash = empty THEN [found EXCEPT !.HashErr = TRUE]
       ELSE IF g.supplied = empty /\ ~cloudUsable(g) /\ ~g.base /\ g.noDNS THEN [found EXCEPT !.NoSource = TRUE]
       ELSE IF raw = empty THEN [found EXCEPT !.FetchErr = TRUE]
       ELSE IF ~VerifyAppCompose(raw, hash) THEN [found EXCEPT !.BoundErr = TRUE]
       ELSE [found EXCEPT !.MatchedExpect = MatchCompose(raw, c.ExpectComposeFiles)]

(* CodeIdentity.OK: a lookup nobody demanded may fail; a fact about the deployment  *)
(* may not.  A comparison passes only by naming what it matched.                    *)
CodeOK_NothingCompared(code) == ~code.BoundErr
CodeOK_AllFatal(code) == code.MatchedExpect # empty \/ code.NoSource
CodeOK(code) ==
    IF code.NoSource THEN ~code.ExpectExplicit
    ELSE IF code.HashErr THEN ~code.Requested /\ ~code.ExpectRequested
    ELSE IF code.BoundErr THEN FALSE
    ELSE IF code.FetchErr THEN code.Discovered /\ ~code.ExpectExplicit
    ELSE ~code.ExpectRequested \/ code.MatchedExpect # empty

(* Step 7: CheckOSImage.                                                            *)
CheckOSImage(g, rep) ==
    [Configured |-> g.osImages,
     OK |-> ~g.osImages \/ (rep.quoteOK /\ cvm(rep.site).os \in OSImages)]

-----------------------------------------------------------------------------
(* Step 8 and the verdict.                                                          *)

(* ReadChain: over a new connection, good only when it shows the bound certificate. *)
ReadChain_Unpinned(t, leaf) == IF t \in Sites THEN cvm(t).net ELSE "err"
ReadChain(t, leaf) == IF t \in Sites /\ served[t] = leaf THEN cvm(t).net ELSE "err"

(* reportChain: a build that reports no network can only be on mainnet.             *)
reportChain(want, rep, net) ==
    IF want = empty THEN [failed |-> FALSE, skipped |-> TRUE]
    ELSE IF rep.certMatch # "exact" THEN [failed |-> FALSE, skipped |-> TRUE]
    ELSE IF net = "err" THEN [failed |-> FALSE, skipped |-> TRUE]
    ELSE IF net = "unreported" THEN [failed |-> want # "mainnet", skipped |-> FALSE]
    ELSE [failed |-> net # want, skipped |-> FALSE]

(* Report.Pass. *)
Pass_NoCert(rep, code, os) == rep.filesOK /\ rep.bound /\ CodeOK(code) /\ os.OK
Pass_NoFiles(rep, code, os) == rep.bound /\ rep.certMatch = "exact" /\ CodeOK(code) /\ os.OK
Pass(rep, code, os) ==
    rep.filesOK /\ rep.quoteOK /\ rep.bound /\ rep.certMatch = "exact" /\ CodeOK(code) /\ os.OK

(* incompleteReason: a check that did not run. *)
incompleteReason_LookupsOnly(c, code, os) == code.FetchErr \/ c.lookupErr
incompleteReason(c, code, os) ==
    ~os.Configured \/ code.HashErr \/ code.NoSource \/ code.FetchErr \/ c.lookupErr \/ ~code.ExpectRequested

(* reportGateway: one check failed, one did not run, or every one passed.           *)
reportGateway(rep, c, code, net) ==
    LET os == CheckOSImage(c.g, rep)
        chain == reportChain(c.g.want, rep, net)
        skipped == incompleteReason(c, code, os) \/ chain.skipped \/ rep.trustErr
    IN IF ~Pass(rep, code, os) \/ (rep.trustErr /\ ~c.g.waive) \/ chain.failed THEN 1
       ELSE IF skipped THEN IF c.g.strict THEN 1 ELSE 3
       ELSE 0

Report(g, github, look, t) ==
    LET c == newEvidenceChecker(g, github)
        code == checkCodeIdentity(run.rep, c, look)
    IN
    /\ run.pc = "report" /\ c.exit = 9
    /\ run' = [pc |-> "done", cfg |-> c, rep |-> run.rep, code |-> code, look |-> look,
               undisturbed |-> run.undisturbed /\ t \in {x \in Sites : served[x] = run.rep.leaf},
               exit |-> reportGateway(run.rep, c, code, ReadChain(t, run.rep.leaf))]
    /\ UNCHANGED <<dep, served, files, renewal, renewed>>

-----------------------------------------------------------------------------
Lookups == [cloud : BOOLEAN, guest : {"answers", "other_document", "no_answer"}, txt : BOOLEAN, cname : BOOLEAN]

(* A bundle that failed fails whatever the lookups say: it is reported with none. *)
lookupsFor(rep) ==
    IF rep.filesOK /\ rep.bound /\ rep.certMatch = "exact" THEN Lookups
    ELSE {[cloud |-> FALSE, guest |-> "no_answer", txt |-> FALSE, cname |-> FALSE]}

EvidenceInit ==
    /\ dep \in Deployments
    /\ served = [s \in Sites |-> cert(s, 0, 0)]
    \* the interceptor's CVM quotes a bundle with its own certificate, or a replica's
    /\ \E c \in {served[s] : s \in Sites} :
          files = [s \in Sites |-> bundle(s, IF s = Interceptor THEN c ELSE served[s])]
    /\ renewal = NoRenewal /\ renewed = 0
    /\ run = NotRun

EvidenceNext ==
    \/ \E g \in Commands, github \in BOOLEAN : Setup(g, github)
    \/ \E t \in Sites, dial \in BOOLEAN : Fetch(t, dial)
    \/ /\ run.pc = "report"
       /\ \E g \in Commands, github \in BOOLEAN, look \in lookupsFor(run.rep),
             t \in Sites \cup {"nobody"} :
             Report(g, github, look, t)
    \/ run.pc # "done" /\ UNCHANGED run /\ ((\E s \in Replicas, key \in 0..1 : Renew(s, key)) \/ RenewalStep)

EvidenceSpec == EvidenceInit /\ [][EvidenceNext]_evidenceVars

-----------------------------------------------------------------------------
EvidenceTypeOK ==
    /\ dep \in Deployments
    /\ DOMAIN served = Sites /\ DOMAIN files = Sites
    /\ renewed \in 0..MaxRenewals /\ renewal.step \in {"idle", "manifest", "quote", "reload"}
    /\ run.pc \in {"setup", "manifest", "acct", "cert", "quote", "report", "done"}
    /\ run.exit \in {0, 1, 2, 3, 9} /\ (run.exit # 9 <=> run.pc = "done")

reported == run.pc = "done" /\ "rep" \in DOMAIN run

(* A gateway pcverify does not fail is one CVM from end to end: every connection   *)
(* of the run showed one certificate, and the quote is from the CVM that holds its *)
(* key, whoever answered the fetches, relayed what, or renewed in between           *)
(* (evidence.go Check).  A gateway it passes is moreover the domain's own, runs a   *)
(* text the caller expected on a listed OS image, and settles on the wanted chain.  *)
PassIsEarned ==
    /\ EvidenceTypeOK
    /\ reported /\ run.exit \in {0, 3} =>
          /\ run.rep.seen = {run.rep.leaf}
          /\ run.rep.site = run.rep.leaf.site
    /\ reported /\ run.exit = 0 =>
          /\ trusted(run.rep.leaf)
          /\ dep.cvm.compose \in run.cfg.ExpectComposeFiles
          /\ dep.cvm.os \in OSImages
          /\ run.cfg.g.want = IF dep.cvm.net = "unreported" THEN "mainnet" ELSE dep.cvm.net

(* A deployment the command line describes, reached without a failed fetch, another  *)
(* replica or a renewal.                                                             *)
matches(g) ==
    /\ dep.publicCA /\ dep.cvm.os \in OSImages /\ g.want \in {empty, dep.cvm.net}
    /\ dep.cvm.compose \in Releases /\ g.supplied \in {empty, dep.cvm.compose}
    /\ g.expect = "pinned" => g.pinned = dep.cvm.compose

(* Something the caller asked for by name could not be done. *)
demandUnmet ==
    \/ run.cfg.g.strict
    \/ run.code.FetchErr /\ (run.code.Requested \/ run.code.ExpectExplicit)
    \/ run.code.NoSource /\ run.code.ExpectExplicit
    \/ run.code.HashErr /\ (run.code.Requested \/ run.code.ExpectRequested)

(* pcverify fails nothing that is as described.  A lookup it made unasked (the cloud  *)
(* API, DNS, GitHub) costs completeness when it fails, exit 3, and never the verdict  *)
(* (CodeIdentity.OK, incompleteReason); with every answer in, the run passes.         *)
NoFalseAlarm ==
    reported /\ run.undisturbed /\ run.look.guest # "other_document" /\ matches(run.cfg.g) =>
        /\ run.exit = 1 => demandUnmet
        /\ LET g == run.cfg.g
               answered == run.look = [cloud |-> TRUE, guest |-> "answers", txt |-> TRUE, cname |-> TRUE]
               configured == g.osImages /\ g.want # empty /\ g.expect # "off" /\ ~run.cfg.lookupErr
           IN answered /\ configured /\ ~run.code.HashErr /\ ~run.code.NoSource
              /\ ~run.code.FetchErr => run.exit = 0
=============================================================================
