------------------------------ MODULE Enforcement ------------------------------
(***************************************************************************)
(* Provider enforcement (client/route enforce.go, runtimerelease.go,       *)
(* composebaseline.go, untrusted.go), the release verifier behind it       *)
(* (client/provenance) and the audit that makes the same judgement         *)
(* (client/cmd/pcverify -provider).                                        *)
(*                                                                         *)
(* A CVM boots a manifest; its controller records a new broker image in    *)
(* RTMR3 and then runs it.  The gateway verifies a quote, with an event    *)
(* log and an app-compose the host chose, keeps what it read, and seals to *)
(* the quote's keys only when the manifest is the recorded deployment and  *)
(* the running build an accepted release.  Verdicts on builds are fetched  *)
(* in the background, a few at a time, into a bounded table that every     *)
(* other provider's verifications fill too.  A later step of the CVM       *)
(* cannot change a quote already taken, so it stops once the quote is.     *)
(*                                                                         *)
(* A key is named by the build it is derived for.  Lifetimes of verdicts   *)
(* and of the trust root are not counted: a verdict that may expire is, at *)
(* every use, either still in date or not.                                 *)
(***************************************************************************)
EXTENDS RuntimeLog

CONSTANTS
    Builds,            \* broker builds
    Uploads,           \* Uploads[b]: kinds of Sigstore bundle that get attached to build b
    Revoked,           \* builds the provenance policy revokes
    Manifests,         \* app-composes by name
    Decoy,             \* the app-compose a host serves instead of the CVM's own
    Baseline,          \* the deployment recorded for the provider
    Repository,        \* the repository the release verifier judges
    Foreign,           \* builds in another repository
    Reports(_),        \* the mr_config_ids a CVM that booted manifest m may carry
    MaxRuntimeRecords, \* bound: runtime records a CVM writes
    maxReleaseChecks,  \* builds judged at once
    maxJudgedReleases  \* verdicts the judge holds

(* An mr_config_id carries the compose hash of the manifest the CVM booted, and every *)
(* manifest has a broker, the service the baseline pins by a repository rule; the     *)
(* digests it pins by such rules are builds.                                          *)
ASSUME EnforcementAssumption ==
    /\ IsFiniteSet(Builds) /\ Builds \cap {empty, "malformed"} = {}
    /\ empty \notin DOMAIN Manifests
    /\ \A m \in DOMAIN Manifests :
          /\ \A mr \in Reports(m) : mr.hash = m
          /\ "broker" \in DOMAIN Manifests[m].services
          /\ \A s \in DOMAIN Baseline.services \cap DOMAIN Manifests[m].services :
                Baseline.services[s].repository # empty => Manifests[m].services[s].digest \in Builds \cup {empty}
    /\ "broker" \in DOMAIN Baseline.services /\ Baseline.services["broker"].repository # empty
    /\ maxReleaseChecks \in Nat /\ maxJudgedReleases \in Nat

VARIABLES
    conf,     \* what the gateway was given: a release verifier, a baseline
    cvm,      \* the provider's CVM: manifest, mr_config_id, RTMR3, image being swapped in, running build
    facts,    \* what the gateway's quote verification read
    attached, \* attached[b]: the bundles the registry holds for build b
    root,     \* the verifier's trust root: untried, the snapshot, or the current one
    held,     \* the judge's table
    checks,   \* checks in flight, each holding a slot
    call,     \* the request that must pass the gate
    exit,     \* pcverify's exit code for the same quote
    refuted   \* builds a check once had every answer about, and no release among them

cvmVars == <<conf, cvm, facts>>
provVars == <<attached, root, refuted>>
judgeVars == <<held, checks>>
enforcementVars == <<conf, cvm, facts, attached, root, held, checks, call, exit, refuted>>

NoVerdict == "none"
NotRun == 9
NoCVM == [manifest |-> empty, mr |-> empty, rtmr3 |-> <<>>, next |-> empty, running |-> empty]
NoFacts == [taken |-> FALSE]
Idle == [pc |-> "idle", queue |-> <<>>, missing |-> <<>>, rt |-> empty, bl |-> empty]

-----------------------------------------------------------------------------
(* The provider's CVM: dstack boots the manifest, the controller works in it.  *)

imageRecord(b, keys) == [entry("zg-image-update", b) EXCEPT !.signer = keys, !.enc = keys]

(* In the recorded deployment only the controller can write records and start *)
(* an image; in any other a container may hold the guest agent's socket.      *)
confined(m) ==
    /\ Manifests[m].load = "ok"
    /\ DOMAIN Manifests[m].services = DOMAIN Baseline.services
    /\ Manifests[m].top = Baseline.top
    /\ \A s \in DOMAIN Baseline.services : Manifests[m].services[s].block = Baseline.services[s].block

otherRecords == {entry("zg-config-update", "sha"), entry("zg-upstream-set", "invalidated"),
                 [entry("zg-instance-config-update", "unknown") EXCEPT !.sub = "i"],
                 entry("zg-new-record", empty)}
rogueRecords == {entry("zg-engine-set", empty), entry("zg-image-update", "malformed"),
                 [entry("zg-config-update", "sha") EXCEPT !.ty = "boot"]}
                \cup {imageRecord(b, cvm.running) : b \in Builds}

room == ~facts.taken /\ Len(cvm.rtmr3) < Len(bootLog(empty)) + MaxRuntimeRecords

(* The controller records the image it is about to run, with its keys ...     *)
RecordImage(b) ==
    /\ room /\ cvm.next = empty
    /\ cvm' = [cvm EXCEPT !.rtmr3 = Append(@, imageRecord(b, b)), !.next = b]
    /\ UNCHANGED <<conf, facts, provVars, judgeVars, call, exit>>

(* ... and runs it, or gives the swap up with the record already written.     *)
SwapImage(runs) ==
    /\ ~facts.taken /\ cvm.next # empty
    /\ cvm' = [cvm EXCEPT !.next = empty, !.running = IF runs THEN cvm.next ELSE @]
    /\ UNCHANGED <<conf, facts, provVars, judgeVars, call, exit>>

WriteRecord(e) ==
    /\ room
    /\ e \in otherRecords \/ (~confined(cvm.manifest) /\ e \in rogueRecords)
    /\ cvm' = [cvm EXCEPT !.rtmr3 = Append(@, e)]
    /\ UNCHANGED <<conf, facts, provVars, judgeVars, call, exit>>

RunUnrecorded(b) ==
    /\ ~facts.taken /\ ~confined(cvm.manifest) /\ b # cvm.running
    /\ cvm' = [cvm EXCEPT !.running = b]
    /\ UNCHANGED <<conf, facts, provVars, judgeVars, call, exit>>

-----------------------------------------------------------------------------
(* The gateway's quote verification, over what the host serves with the quote. *)

replies(rtmr3) ==
    {[event_log |-> logOf(rtmr3), tcb_info |-> absent],
     [event_log |-> absent, tcb_info |-> logOf(rtmr3)],
     [event_log |-> logOf(Front(rtmr3)), tcb_info |-> logOf(rtmr3)],
     [event_log |-> absent, tcb_info |-> absent],
     [event_log |-> unreadable, tcb_info |-> absent]}

readManifest_NoGate(appCompose, hash, panics) ==
    IF hash = empty THEN "no_hash" ELSE IF appCompose = empty THEN "absent" ELSE empty

(* readManifest behind the hash gate; a panic in the loader is no finding.     *)
readManifest(appCompose, hash, panics) ==
    IF hash = empty THEN "no_hash"
    ELSE IF appCompose = empty THEN "absent"
    ELSE IF appCompose # hash THEN "gate"
    ELSE IF panics THEN "reader"
    ELSE empty

readRuntime_PanicIsAnswer(reply, rtmr3, panics) ==
    IF panics THEN [RuntimeState0 EXCEPT !.err = "panic"] ELSE ReadRuntimeState(reply, rtmr3)

(* readRuntime behind the same boundary. *)
readRuntime(reply, rtmr3, panics) ==
    IF panics THEN [RuntimeState0 EXCEPT !.err = "errReaderFailed"] ELSE ReadRuntimeState(reply, rtmr3)

VerifyQuote(reply, appCompose, panics) ==
    LET why == readManifest(appCompose, ComposeHashOf(cvm.mr, reply, cvm.rtmr3), panics)
    IN /\ ~facts.taken
       /\ facts' = [taken |-> TRUE, state |-> readRuntime(reply, cvm.rtmr3, panics),
                    signer |-> cvm.running, encPub |-> cvm.running,
                    manifest |-> IF why = empty THEN appCompose ELSE empty, why |-> why,
                    \* what the quote was really taken from
                    confined |-> confined(cvm.manifest),
                    served |-> eventLogOf(reply) = logOf(cvm.rtmr3)]
       /\ cvm' = NoCVM
       /\ UNCHANGED <<conf, provVars, judgeVars, call, exit>>

(* The builds the two judgements ask about, the recorded image first.          *)
recordedBuild ==
    IF facts.state.err = empty /\ facts.state.Image # NoImage THEN {facts.state.Image.digest} ELSE {}
pinnedBuilds ==
    IF conf.baseline /\ facts.manifest # empty THEN asked(Baseline, Manifests[facts.manifest]) ELSE {}
asks == SetToSeq(recordedBuild) \o SetToSeq(pinnedBuilds)
askedAbout == recordedBuild \cup pinnedBuilds

-----------------------------------------------------------------------------
(* The release verifier (client/provenance): the registry's bundles, judged     *)
(* against the trust root TUF last delivered or, before it ever answered, the   *)
(* embedded snapshot.                                                           *)

(* trust: fetched when due; a failed fetch keeps the root in use, and says it is *)
(* stale only while that root is the snapshot.  A current root stays current:    *)
(* keys that rotate later are not followed.                                      *)
trust == {"current"} \cup (IF root = "current" THEN {} ELSE {"snapshot"})
stale(r) == r = "snapshot"

(* release: a verified bundle is the provenance of a release, or says why not. *)
release(x) == x.kind = "provenance"

(* A bundle under a key newer than the snapshot verifies against the current root. *)
verifies(x, r) == x.kind # "garbled" /\ (x.key = "new" => r = "current")

judge_NoCaveat(bundles, r) ==
    IF \E x \in bundles : verifies(x, r) /\ release(x) THEN ReleaseAccepted ELSE ReleaseRejected
judge_AnySignature(bundles, r) ==
    IF \E x \in bundles : verifies(x, r) THEN ReleaseAccepted ELSE ReleaseRejected

judge(bundles, r) ==
    IF bundles = {} THEN ReleaseRejected
    ELSE IF \E x \in bundles : verifies(x, r) /\ release(x) THEN ReleaseAccepted
    ELSE IF stale(r) /\ \E x \in bundles : x.kind # "garbled" /\ ~verifies(x, r) THEN ReleaseUnavailable
    ELSE ReleaseRejected

check_DownIsRejected(b, registry, r) ==
    IF b \in Foreign \cup Revoked \/ registry # "up" THEN ReleaseRejected ELSE judge(attached[b], r)

(* check: what the registry answers, and what that says about the build.       *)
check(b, registry, r) ==
    IF b \in Foreign \cup Revoked THEN ReleaseRejected
    ELSE IF registry = "down" THEN ReleaseUnavailable
    ELSE IF registry = "garbled" THEN ReleaseRejected
    ELSE judge(attached[b], r)

(* Verify, called by the background check of one build.  An answer Verify has   *)
(* cached is one it gave earlier.                                               *)
VerifyAsks(b, registry, r) ==
    /\ checks[b] = NoVerdict
    /\ checks' = [checks EXCEPT ![b] = check(b, registry, r)]
    /\ root' = IF b \notin Foreign \cup Revoked /\ registry = "up" /\ attached[b] # {} THEN r ELSE root
    /\ refuted' = IF \/ registry = "garbled"
                     \/ /\ registry = "up"
                        /\ ~\E x \in attached[b] : release(x) \/ (x.kind # "garbled" /\ x.key = "new" /\ stale(r))
                  THEN refuted \cup ({b} \cap askedAbout) ELSE refuted
    /\ UNCHANGED <<cvmVars, attached, held, call, exit>>

(* An attestation is uploaded after the image, under a key the snapshot predates. *)
Upload(b, kind) ==
    /\ kind \in Uploads[b] /\ ~\E x \in attached[b] : x.kind = kind
    /\ attached' = [attached EXCEPT ![b] = @ \cup {[kind |-> kind, key |-> "new"]}]
    /\ UNCHANGED <<cvmVars, root, refuted, judgeVars, call, exit>>

-----------------------------------------------------------------------------
(* The judge: one entry per build, a few background checks at a time.          *)

makeRoomLocked_DropRunning ==
    IF Cardinality(DOMAIN held) < maxJudgedReleases THEN held
    ELSE [b \in {k \in DOMAIN held : held[k].have = ReleaseAccepted} |-> held[b]]

(* makeRoomLocked: at the bound, drop what is neither accepted nor being checked. *)
makeRoomLocked ==
    IF Cardinality(DOMAIN held) < maxJudgedReleases THEN held
    ELSE [b \in {k \in DOMAIN held : held[k].running \/ held[k].have = ReleaseAccepted} |-> held[b]]

(* due: never judged, or judged and not accepted long enough ago (releaseRecheck). *)
mayBeDue(b) ==
    IF b \notin DOMAIN held THEN {TRUE}
    ELSE CASE held[b].have = NoVerdict -> {TRUE}
           [] held[b].have = ReleaseAccepted -> {FALSE}
           [] OTHER -> BOOLEAN

(* verdict with start: a due build is entered, and sent for a verdict when a    *)
(* slot is free.  What it returns is what is held (heldVerdict).                *)
verdict(b, due) ==
    LET h == IF b \in DOMAIN held THEN held ELSE makeRoomLocked
        fits == b \in DOMAIN h \/ Cardinality(DOMAIN h) < maxJudgedReleases
        e == IF b \in DOMAIN h THEN h[b] ELSE [have |-> NoVerdict, running |-> FALSE]
        slot == Cardinality(DOMAIN checks) < maxReleaseChecks
        entered(x) == [k \in DOMAIN h \cup {b} |-> IF k = b THEN x ELSE h[k]]
    IN IF ~due \/ e.running THEN UNCHANGED judgeVars
       ELSE IF ~fits THEN held' = h /\ UNCHANGED checks
       ELSE IF slot THEN /\ held' = entered([e EXCEPT !.running = TRUE])
                         /\ checks' = [k \in DOMAIN checks \cup {b} |-> IF k = b THEN NoVerdict ELSE checks[k]]
       ELSE held' = entered(e) /\ UNCHANGED checks

heldVerdict(h, b) == IF b \in DOMAIN h THEN h[b].have ELSE NoVerdict

(* The background check stores its answer and gives its slot back.              *)
CheckDone(b) ==
    /\ checks[b] # NoVerdict
    /\ held' = [held EXCEPT ![b] = [have |-> checks[b], running |-> FALSE]]
    /\ checks' = [k \in DOMAIN checks \ {b} |-> checks[k]]
    /\ UNCHANGED <<cvmVars, provVars, call, exit>>

(* Verifications of this and other providers observe: they start, never wait.   *)
Observe(b) ==
    /\ conf.releases /\ TRUE \in mayBeDue(b)
    /\ verdict(b, TRUE)
    /\ UNCHANGED <<cvmVars, provVars, call, exit>>

-----------------------------------------------------------------------------
(* The gate.                                                                    *)

Verify_ZeroValue(b) ==
    IF heldVerdict(held, b) \in {ReleaseAccepted, ReleaseUnavailable} THEN held[b].have ELSE ReleaseRejected

(* judgedReleases.Verify: what is held, and no answer yet is unavailable;       *)
(* without a verifier every build is unavailable (VerifyRelease).               *)
Verify(b) == IF ~conf.releases \/ heldVerdict(held, b) = NoVerdict THEN ReleaseUnavailable ELSE held[b].have
judged == [b \in Builds |-> Verify(b)]

(* A log that could not be read: absent, or this process failed, is no finding.   *)
unread_NotChecked(err) == "not_checked"
unread(err) == IF err \in {"ErrNoEventLog", "errReaderFailed"} THEN "unavailable" ELSE "no_match"

judgeRuntime(verdicts) ==
    LET c == CheckRuntime(facts.state, verdicts, facts.signer, facts.encPub)
    IN IF ~conf.releases THEN "not_checked"
       ELSE IF facts.state.err # empty THEN unread(facts.state.err)
       ELSE IF c.Failures # {} THEN "no_match"
       ELSE IF c.Unverified # {} THEN "unavailable"
       ELSE IF ~c.Release THEN "not_checked"
       ELSE "pass"

judgeBaseline(verdicts) ==
    LET c == CheckReview(Baseline, Manifests[facts.manifest], verdicts,
                         IF conf.releases THEN Repository ELSE empty)
    IN IF ~conf.baseline THEN "not_checked"
       ELSE IF facts.manifest = empty THEN "unavailable"
       ELSE IF ~c.Recorded THEN "no_baseline"
       ELSE IF c.Mismatches # {} THEN "no_match"
       ELSE IF c.Unverified # {} THEN "unavailable"
       ELSE "pass"

(* providerPasses: both judgements once, asking for the verdicts they lack ...  *)
Request ==
    /\ facts.taken /\ call.pc = "idle"
    /\ call' = [Idle EXCEPT !.pc = "gate", !.queue = IF conf.releases THEN asks ELSE <<>>]
    /\ UNCHANGED <<cvmVars, provVars, judgeVars, exit>>

Ask(due) ==
    /\ call.pc = "gate" /\ call.queue # <<>>
    /\ due \in mayBeDue(Head(call.queue))
    /\ verdict(Head(call.queue), due)
    /\ call' = [call EXCEPT !.queue = Tail(@),
                   !.missing = IF heldVerdict(held', Head(call.queue)) = NoVerdict
                               THEN Append(@, Head(call.queue)) ELSE @]
    /\ UNCHANGED <<cvmVars, provVars, exit>>

(* ... then await each, under one deadline: a build in flight is waited for, one *)
(* that found no slot or no room is asked for again ...                          *)
await(due) ==
    LET b == Head(call.missing) IN
    /\ call.pc = "gate" /\ call.queue = <<>> /\ call.missing # <<>>
    /\ ~(b \in DOMAIN held /\ held[b].running /\ held[b].have = NoVerdict)
    /\ due \in mayBeDue(b)
    /\ verdict(b, due)
    /\ call' = [call EXCEPT !.missing = IF heldVerdict(held', b) = NoVerdict THEN @ ELSE Tail(@)]
    /\ UNCHANGED <<cvmVars, provVars, exit>>

Deadline ==
    /\ call.pc = "gate" /\ call.queue = <<>> /\ call.missing # <<>>
    /\ call' = [call EXCEPT !.missing = <<>>]
    /\ UNCHANGED <<cvmVars, provVars, judgeVars, exit>>

(* ... and judge again on what is held, starting nothing.                        *)
JudgeRuntime ==
    /\ call.pc = "gate" /\ call.queue = <<>> /\ call.missing = <<>>
    /\ call' = [call EXCEPT !.pc = "judge", !.rt = judgeRuntime(judged)]
    /\ UNCHANGED <<cvmVars, provVars, judgeVars, exit>>

JudgeBaseline ==
    /\ call.pc = "judge"
    /\ call' = [call EXCEPT !.pc = "done", !.bl = judgeBaseline(judged)]
    /\ UNCHANGED <<cvmVars, provVars, judgeVars, exit>>

providerPasses_RuntimeAlone == call.pc = "done" /\ call.rt = "pass"
providerPasses_BaselineAlone == call.pc = "done" /\ call.bl = "pass"

(* refuseProvider: anything but a pass refuses; not_checked from the runtime     *)
(* check leaves the manifest's pin to the baseline.                              *)
providerPasses ==
    /\ call.pc = "done"
    /\ call.rt = "pass" \/ (call.rt = "not_checked" /\ conf.releases)
    /\ call.bl = "pass"

-----------------------------------------------------------------------------
(* pcverify -provider over the same quote, with a verifier of its own.           *)

(* The verdicts a verifier that has judged nothing may reach about b. *)
freshVerdicts(b) ==
    {check(b, registry, r) : registry \in {"up", "down", "garbled"}, r \in {"current", "snapshot"}}

exitCode_SkipIsPass(failed, skipped, strict) == IF failed \/ (skipped /\ strict) THEN 1 ELSE 0

(* verdict: a failed check, then a check that did not run, then a pass.          *)
exitCode(failed, skipped, strict) ==
    IF failed THEN 1
    ELSE IF skipped THEN IF strict THEN 1 ELSE 3
    ELSE 0

(* reportManifest: the gate is a check; a manifest that cannot be read is a skip. *)
reportManifest(verdicts) ==
    LET man == CheckReview(Baseline, Manifests[facts.manifest], verdicts, Repository)
        read == facts.why = empty
    IN [failed |-> facts.why = "gate" \/ (read /\ man.Mismatches # {}),
        skipped |-> \/ facts.why \in {"no_hash", "absent"}
                    \/ read /\ (~man.Recorded \/ man.Unverified # {})]

(* reportRuntime: no log is a skip, a log that does not replay a failure.        *)
reportRuntime(verdicts) ==
    LET rt == CheckRuntime(facts.state, verdicts, facts.signer, facts.encPub)
        replayed == facts.state.err = empty
    IN [failed |-> facts.state.err \notin {empty, "ErrNoEventLog"} \/ (replayed /\ rt.Failures # {}),
        skipped |-> facts.state.err = "ErrNoEventLog" \/ (replayed /\ rt.Unverified # {})]

(* report: the on-chain hop, the boot chain, the manifest and the runtime.       *)
report(onchain, boot, verdicts, strict) ==
    LET man == reportManifest(verdicts)
        rt == reportRuntime(verdicts)
    IN exitCode(onchain \in {"not_acknowledged", "another_signer"} \/ boot = "unlisted" \/ man.failed \/ rt.failed,
                boot = "unconfigured" \/ man.skipped \/ rt.skipped,
                strict)

PcVerify(onchain, boot, strict) ==
    /\ facts.taken /\ call.pc = "idle" /\ held = <<>>
    /\ facts.why # "reader" /\ facts.state.err # "errReaderFailed"
    /\ \E v \in [Builds -> {ReleaseAccepted, ReleaseRejected, ReleaseUnavailable}] :
          /\ \A b \in Builds : v[b] \in freshVerdicts(b)
          /\ exit' = report(onchain, boot, v, strict)
    /\ UNCHANGED <<cvmVars, provVars, judgeVars, call>>

-----------------------------------------------------------------------------
EnforcementInit ==
    /\ conf \in [releases : BOOLEAN, baseline : BOOLEAN]
    /\ \E m \in DOMAIN Manifests, b \in Builds : \E mr \in Reports(m) :
          /\ Manifests[m].services["broker"].digest \in {empty, b}
          /\ cvm = [manifest |-> m, mr |-> mr, rtmr3 |-> bootLog(m), next |-> empty, running |-> b]
    /\ facts = NoFacts
    \* a build's provenance is uploaded after it; its other attestations are there
    /\ attached = [b \in Builds |-> {[kind |-> k, key |-> "old"] : k \in Uploads[b] \ {"provenance"}}]
    /\ root = "untried"
    /\ held = <<>> /\ checks = <<>>
    /\ call = Idle /\ exit = NotRun /\ refuted = {}

Provider ==
    \/ \E b \in Builds : RecordImage(b) \/ RunUnrecorded(b)
    \/ \E runs \in BOOLEAN : SwapImage(runs)
    \/ \E e \in otherRecords \cup rogueRecords : WriteRecord(e)
    \/ \E reply \in replies(cvm.rtmr3), ac \in {empty, cvm.manifest, Decoy}, panics \in BOOLEAN :
          VerifyQuote(reply, ac, panics)

Registry == \E b \in Builds : \E kind \in Uploads[b] : Upload(b, kind)

Background ==
    \/ \E b \in Builds : Observe(b)
    \/ \E b \in DOMAIN checks :
          \/ CheckDone(b)
          \/ \E registry \in {"up", "down", "garbled"}, r \in trust : VerifyAsks(b, registry, r)

Gate == \/ Request \/ Deadline \/ JudgeRuntime \/ JudgeBaseline
        \/ \E due \in BOOLEAN : Ask(due) \/ await(due)

Audit == \E onchain \in {"acknowledged", "not_acknowledged", "another_signer"},
            boot \in {"listed", "unlisted", "unconfigured"}, strict \in BOOLEAN :
            PcVerify(onchain, boot, strict)

(* Verdicts are followed, until the request is judged, for a quote that some of      *)
(* them would let one of the two judgements pass; any other is judged with none held. *)
undecided ==
    LET accepted == [b \in Builds |-> ReleaseAccepted]
    IN /\ conf.releases /\ conf.baseline /\ asks # <<>> /\ call.pc # "done"
       /\ "pass" \in {judgeRuntime(accepted), judgeBaseline(accepted)}

(* Once audited, a quote is not put to the gate as well.                           *)
EnforcementNext ==
    \/ Provider
    \/ facts.taken /\ exit = NotRun /\ (Gate \/ (undecided /\ (Registry \/ Background)))
    \/ Audit

EnforcementSpec == EnforcementInit /\ [][EnforcementNext]_enforcementVars

-----------------------------------------------------------------------------
EnforcementTypeOK ==
    /\ DOMAIN held \subseteq Builds /\ DOMAIN checks \subseteq DOMAIN held
    /\ Cardinality(DOMAIN held) <= maxJudgedReleases
    /\ Cardinality(DOMAIN checks) <= maxReleaseChecks
    /\ DOMAIN checks = {b \in DOMAIN held : held[b].running}
    /\ call.pc \in {"idle", "gate", "judge", "done"}
    /\ exit \in {0, 1, 3, NotRun}

(* The build was released: its provenance is attached, and it is not revoked.  *)
released(b) == b \notin Foreign \cup Revoked /\ \E x \in attached[b] : release(x)

(* A provider that passes the gate (enforce.go), or that pcverify vouches for,   *)
(* runs the recorded deployment, and the keys requests are sealed to are those   *)
(* of a released build: whatever log and app-compose the host served, whatever   *)
(* a container wrote into RTMR3, and however verdicts came and went while the    *)
(* request waited.  The judge never holds more than its bounds.                  *)
VouchedIsReleased ==
    /\ EnforcementTypeOK
    /\ providerPasses \/ exit = 0 =>
          /\ facts.confined
          /\ released(facts.encPub) /\ released(facts.signer)

(* What contradicts the provider itself, as opposed to a check that did not run. *)
contradicted(b) == b \in Foreign \cup Revoked \cup refuted

(* A service is not the recorded one, by what the manifest alone says of it, or  *)
(* its build is contradicted.                                                     *)
differs(want, got) ==
    \/ ~got.pinnable
    \/ want.repository = empty /\ <<got.repo, got.digest>> # <<want.repo, want.digest>>
    \/ /\ want.repository # empty
       /\ \/ got.digest = empty \/ got.repo # want.repository
          \/ conf.releases /\ want.repository # Repository
          \/ contradicted(got.digest)

(* no_match is a finding about the provider.  An unreachable registry or trust   *)
(* root, a full table, a taken slot, a deadline or a reader that failed never     *)
(* makes one (runtimerelease.go judgeRuntime, provenance.go): the log was not the *)
(* CVM's or not the controller's, the keys were another build's, or a check that  *)
(* had its answers found no release.                                             *)
OutagesAccuseNobody ==
    /\ call.rt = "no_match" =>
          \/ ~facts.served
          \/ ~facts.confined
          \/ facts.state.Image # NoImage /\ facts.state.Image.encPub # facts.encPub
          \/ facts.state.Image # NoImage /\ contradicted(facts.state.Image.digest)
    /\ call.bl = "no_match" =>
          \/ ~facts.confined
          \/ \E s \in DOMAIN Baseline.services : differs(Baseline.services[s], Manifests[facts.manifest].services[s])
=============================================================================
