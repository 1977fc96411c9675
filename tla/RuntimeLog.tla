------------------------------ MODULE RuntimeLog ------------------------------
(***************************************************************************)
(* What a verified quote says a CVM booted and what it runs now            *)
(* (client/evidence rtmr3.go and mrconfig.go, client/evidence/compose      *)
(* composebaseline.go).  The event log and the app-compose come from an    *)
(* untrusted host; the log is read only once it replays to the RTMR3 of    *)
(* the verified quote, the app-compose only once it hashes to the compose  *)
(* hash the quote commits to.                                              *)
(*                                                                         *)
(* Hashing is symbolic and free of collisions: a register is the sequence  *)
(* of the entries extended into it, the hash of a document is the document.*)
(***************************************************************************)
EXTENDS Naturals, Sequences, FiniteSets, SequencesExt

(* No value: a field that is not given, an error that did not happen.         *)
empty == ""

(* One event-log entry of RTMR3: its type, name, the instance it is about,  *)
(* its value, and for an image record the keys derived for the image.       *)
entry(ev, val) ==
    [ty |-> "runtime", ev |-> ev, sub |-> empty, val |-> val, signer |-> empty, enc |-> empty]

known == {"zg-image-update", "zg-config-update", "zg-upstream-set", "zg-engine-set",
          "zg-instance-config-update"}
records == known \cup {"zg-new-record"}
systemReady == "system-ready"

(* What dstack logs while it boots an app-compose. *)
bootLog(m) == <<entry("app-id", "app"), entry("compose-hash", m), entry("instance-id", "i"),
                entry("key-provider", "kms"), entry(systemReady, empty)>>

(* A served log: absent, unreadable, or its RTMR3 entries; those of the     *)
(* firmware's registers are skipped by every reader here.                   *)
absent == [kind |-> "absent", rtmr3 |-> <<>>]
unreadable == [kind |-> "bad", rtmr3 |-> <<>>]
logOf(es) == [kind |-> "log", rtmr3 |-> es]

(* eventLogOf: the reply's own event_log, else the copy tcb_info carries. *)
eventLogOf(reply) == IF reply.event_log.kind # "absent" THEN reply.event_log ELSE reply.tcb_info

replayRTMR3_Unanchored(reply, rtmr3) ==
    LET served == eventLogOf(reply)
    IN [err |-> IF served.kind = "absent" THEN "ErrNoEventLog" ELSE empty, log |-> served.rtmr3]

(* replayRTMR3: the RTMR3 entries of the served log must be exactly those the *)
(* quote's register was extended with.                                        *)
replayRTMR3(reply, rtmr3) ==
    LET served == eventLogOf(reply)
    IN [err |-> IF served.kind = "absent" THEN "ErrNoEventLog"
                ELSE IF served.kind = "bad" THEN "does_not_decode"
                ELSE IF served.rtmr3 # rtmr3 THEN "does_not_replay"
                ELSE empty,
        log |-> served.rtmr3]

-----------------------------------------------------------------------------
(* The runtime records.                                                       *)

NoImage == [digest |-> empty, signer |-> empty, encPub |-> empty]

RuntimeState0 ==
    [Image |-> NoImage, Upstreams |-> empty, Engines |-> FALSE, Unstated |-> {}, Unknown |-> FALSE, err |-> empty]

parseImageUpdate(e) == [digest |-> e.val, signer |-> e.signer, encPub |-> e.enc]

(* Only what follows the first system-ready was written by the CVM's         *)
(* containers; the records among it, of one kind, and the last of some.       *)
written(log) == {i \in 1..Len(log) : \E j \in 1..(i - 1) : log[j].ev = systemReady}
recordsOf(ev, log) == {i \in written(log) : log[i].ev = ev}
last(S, log) == log[CHOOSE i \in S : \A j \in S : j <= i]

(* A record of the runtime type, within its grammar.                          *)
wellFormed(e) ==
    /\ e.ty = "runtime"
    /\ e.ev \in known \ {"zg-engine-set"} => e.val # "malformed"

(* apply: the last record of each kind wins, of each instance for the         *)
(* instances' configuration.                                                  *)
apply(log) ==
    LET images == recordsOf("zg-image-update", log)
        upstreams == recordsOf("zg-upstream-set", log)
        instances == recordsOf("zg-instance-config-update", log)
    IN [Image |-> IF images = {} THEN NoImage ELSE parseImageUpdate(last(images, log)),
        Upstreams |-> IF upstreams = {} THEN empty ELSE last(upstreams, log).val,
        Engines |-> recordsOf("zg-engine-set", log) # {},
        Unstated |-> {sub \in {log[i].sub : i \in instances} :
                        last({i \in instances : log[i].sub = sub}, log).val = "unknown"},
        Unknown |-> recordsOf("zg-new-record", log) # {},
        err |-> empty]

(* ReadRuntimeState: a record that is none of the controller's ends the reading. *)
ReadRuntimeState(reply, rtmr3) ==
    LET r == replayRTMR3(reply, rtmr3)
    IN IF r.err # empty THEN [RuntimeState0 EXCEPT !.err = r.err]
       ELSE IF \A i \in 1..Len(r.log) : r.log[i].ev # systemReady
            THEN [RuntimeState0 EXCEPT !.err = "no_system_ready"]
       ELSE IF \E i \in written(r.log) : r.log[i].ev \in records /\ ~wellFormed(r.log[i])
            THEN [RuntimeState0 EXCEPT !.err = "not_a_record"]
       ELSE apply(r.log)

(* The three answers of a release verifier. *)
ReleaseAccepted == "accepted"
ReleaseRejected == "rejected"
ReleaseUnavailable == "unavailable"

(* The keys the record names are the quote's.  A signer and an encryption key are *)
(* compared apart.                                                                *)
wrongKeys_Any(image, signer, encPub) == {}
wrongKeys(image, signer, encPub) ==
    {f \in {"signer", "enc_pub"} :
        \/ f = "signer" /\ image.signer # signer
        \/ f = "enc_pub" /\ image.encPub # encPub}

(* CheckRuntime: the running build is an accepted release and its keys are the *)
(* quote's; what contradicts that, and what could not be decided.              *)
CheckRuntime(st, verdicts, signer, encPub) ==
    LET named == st.Image # NoImage
        v == verdicts[st.Image.digest]
    IN [Release |-> named,
        Failures |-> (IF named THEN wrongKeys(st.Image, signer, encPub) ELSE {})
            \cup {f \in {"release", "engines"} :
                     \/ f = "release" /\ named /\ v = ReleaseRejected
                     \/ f = "engines" /\ st.Engines},
        Unverified |-> {u \in {"release", "unknown_record", "upstreams", "instances"} :
            \/ u = "release" /\ named /\ v = ReleaseUnavailable
            \/ u = "unknown_record" /\ st.Unknown
            \/ u = "upstreams" /\ st.Upstreams = "invalidated"
            \/ u = "instances" /\ st.Unstated # {}}]

-----------------------------------------------------------------------------
(* mr_config_id: version 1 carries the compose hash, version 3 commits to a   *)
(* launch document that is rebuilt from the boot events.  Of the fields a     *)
(* document may leave out, two stand for the four.                            *)

onceEvents == {"app-id", "compose-hash", "gpu-policy-hash", "instance-id", "key-provider"}
keyProviderKinds == {"none", "kms", "local-sgx", "tpm"}

(* bootEvents: the entries before system-ready, each kind once. *)
bootEvents(log) ==
    LET ready == SelectInSeq(log, LAMBDA e : e.ev = systemReady)
        before == SubSeq(log, 1, ready - 1)
        at(ev) == {i \in 1..Len(before) : before[i].ev = ev}
        value(ev) == IF at(ev) = {} THEN empty ELSE before[CHOOSE i \in at(ev) : TRUE].val
    IN [ok |-> /\ ready > 0
               /\ \A ev \in onceEvents : Cardinality(at(ev)) <= 1
               /\ value("compose-hash") \notin {empty, "malformed"}
               /\ value("key-provider") \in keyProviderKinds,
        appID |-> value("app-id"),
        composeHash |-> value("compose-hash"),
        keyProvider |-> value("key-provider"),
        instanceID |-> value("instance-id"),
        \* the fields the host may or may not have declared
        optional |-> {<<ev, value(ev)>> : ev \in {x \in {"app-id", "gpu-policy-hash"} : at(x) # {}}}]

(* v3Candidates: every document the guest would have accepted for this boot. *)
v3Candidates(b) ==
    {[v |-> 3, hash |-> b.composeHash, kp |-> b.keyProvider, inst |-> b.instanceID, opts |-> o] :
        o \in SUBSET b.optional}

ComposeHashFromMRConfigID(mr) == IF mr.v = 1 /\ mr.hash # empty THEN mr.hash ELSE empty

(* ComposeHashOf: empty when this reader cannot establish a hash. *)
ComposeHashOf(mr, reply, rtmr3) ==
    LET r == replayRTMR3(reply, rtmr3)
        b == bootEvents(r.log)
    IN IF mr.v # 3 THEN ComposeHashFromMRConfigID(mr)
       ELSE IF r.err = empty /\ b.ok /\ mr \in v3Candidates(b) THEN b.composeHash ELSE empty

(* LoggedAppID: the app-id the guest wrote at boot, empty when it is not readable. *)
LoggedAppID(reply, rtmr3) ==
    LET r == replayRTMR3(reply, rtmr3)
        b == bootEvents(r.log)
    IN IF r.err = empty /\ b.ok /\ b.appID # "malformed" THEN b.appID ELSE empty

-----------------------------------------------------------------------------
(* The manifest against the deployment recorded for the provider.  A service   *)
(* is its block without the image line, and the image.                         *)

(* pinsImageInBlock: without a repository rule the recorded text names the image. *)
pinsImageInBlock(want) == want.repository = empty

(* What a verdict on the pinned build makes of its service. *)
pinVerdict_NoThird(v) == IF v = ReleaseAccepted THEN "ok" ELSE "mismatch"
pinVerdict(v) ==
    CASE v = ReleaseAccepted -> "ok"
      [] v = ReleaseUnavailable -> "unverified"
      [] OTHER -> "mismatch"

(* checkImage: a repository rule takes any released build, pinned by digest. *)
checkImage(want, got, verdicts, judges) ==
    IF pinsImageInBlock(want) THEN "ok"
    ELSE IF got.digest = empty THEN "mismatch"
    ELSE IF got.repo # want.repository THEN "mismatch"
    ELSE IF judges \notin {empty, want.repository} THEN "mismatch"
    ELSE pinVerdict(verdicts[got.digest])

checkService(want, got, verdicts, judges) ==
    IF ~got.pinnable THEN "mismatch"
    ELSE IF got.block # want.block THEN "mismatch"
    ELSE IF pinsImageInBlock(want) /\ <<got.repo, got.digest>> # <<want.repo, want.digest>> THEN "mismatch"
    ELSE checkImage(want, got, verdicts, judges)

(* The services one side has and the other has not. *)
unmatched_RecordedOnly(want, got) == want \ got
unmatched(want, got) == (want \ got) \cup (got \ want)

(* CheckCompose, in every direction: recorded and absent, declared and not     *)
(* recorded, or different; the top-level sections the same way.                *)
CheckCompose(dep, review, verdicts, judges) ==
    LET both == DOMAIN dep.services \cap DOMAIN review.services
        verdict(s) == checkService(dep.services[s], review.services[s], verdicts, judges)
    IN [Recorded |-> TRUE,
        Mismatches |-> unmatched(DOMAIN dep.services, DOMAIN review.services)
                       \cup {s \in both : verdict(s) = "mismatch"}
                       \cup (IF dep.top = review.top THEN {} ELSE {"top_level"}),
        Unverified |-> {s \in both : verdict(s) = "unverified"}]

NotCompared == [Recorded |-> FALSE, Mismatches |-> {}, Unverified |-> {}]

(* CheckReview: a manifest docker compose refuses is not the recorded deployment; *)
(* one this build does not read was not compared.                                 *)
CheckReview(dep, review, verdicts, judges) ==
    IF DOMAIN dep.services = {} THEN NotCompared
    ELSE IF review.load = "ok" THEN CheckCompose(dep, review, verdicts, judges)
    ELSE IF review.load = "not_read" THEN [NotCompared EXCEPT !.Recorded = TRUE, !.Unverified = {"manifest"}]
    ELSE [NotCompared EXCEPT !.Recorded = TRUE, !.Mismatches = {"manifest"}]

(* The builds a comparison asks a verifier about. *)
asked(dep, review) ==
    IF DOMAIN dep.services = {} \/ review.load # "ok" THEN {}
    ELSE {review.services[s].digest : s \in
            {t \in DOMAIN dep.services \cap DOMAIN review.services :
                /\ ~pinsImageInBlock(dep.services[t])
                /\ checkService(dep.services[t], review.services[t],
                                [d \in {review.services[t].digest} |-> ReleaseAccepted], empty) = "ok"}}
=============================================================================
