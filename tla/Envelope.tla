------------------------------- MODULE Envelope -------------------------------
(***************************************************************************)
(* One sealed exchange (protocol/wire envelope.go, response.go, async.go,  *)
(* respbind.go; client/core client.go seal and async.go; client/route      *)
(* route.go preview): the caller's request is previewed and sealed, the    *)
(* router may rewrite what it carries, the enclave opens it and seals an   *)
(* answer, the router may rewrite that too, and the client opens it.       *)
(*                                                                         *)
(* Encryption is symbolic: a ciphertext is the fields it hides, the        *)
(* associated data it was made under and the key it was made for, and it   *)
(* opens for exactly that key and data.  Requests also come from other     *)
(* clients and answers from faulty enclaves, which skip every check of the *)
(* sealing side.                                                           *)
(***************************************************************************)
EXTENDS FrameRules, Sequences

CONSTANTS
    Bodies,     \* Bodies[p]: the requests callers hand over on profile p
    Frames,     \* Frames[p]: the plaintext frames an enclave may answer with
    Confs,      \* client configurations: what is sealed, unbound, withheld
    Lists,      \* bound: Lists[p], the field lists a foreign client may write down
    FrameLists, \* bound: FrameLists[p], those a faulty enclave may write down
    Unbounds,   \* bound: Unbounds[p], the unbound lists of foreign clients and enclaves
    Rewrites,   \* bound: <<field, value>> pairs the router may set in clear
    JobIDs,     \* job ids a submit answer may carry, split at the separator
    MaxEdits    \* bound: rewrites per message

(* What is private is recognised by its value, "secret" in a request,       *)
(* "generated" in an answer, "bind" for the binding value, and not by the   *)
(* table the code decides with.                                             *)
private == {"secret", "bind", "generated", "obj[generated]"}

(* Where the APIs put what a caller says and what a model generates.        *)
requestContent ==
    [chat |-> {"messages", "tools", "tool_choice"}, image |-> {"prompt"}, asyncimage |-> {"prompt"},
     anthropic |-> {"messages", "system", "tools", "tool_choice"},
     speech |-> {"file_base64", "filename", "language", "prompt"}, embedding |-> {"input"},
     unknown |-> {"messages", "tools", "tool_choice", "system", "prompt", "file_base64", "filename",
                  "language", "input"}]
answerContent ==
    [chat |-> {"choices"}, image |-> {"data"}, asyncimage |-> {"data"},
     anthropic |-> {"content", "content_block", "delta", "stop_sequence", "error", "message"},
     speech |-> {"text", "segments", "words", "language"}, embedding |-> {"data"}]

(* Callers and models put private values where the API has them, and the    *)
(* router, which knows none, writes none.                                   *)
ASSUME EnvelopeAssumption ==
    /\ DOMAIN profiles \subseteq DOMAIN Bodies /\ DOMAIN Bodies \subseteq DOMAIN requestContent
    /\ \A p \in DOMAIN Bodies : \A req \in Bodies[p] : \A f \in DOMAIN req :
           /\ req[f] \in private => req[f] = "secret" /\ f \in requestContent[p]
           /\ req[f] # "include_usage" \* the value withStreamUsage writes
    /\ \A p \in DOMAIN profiles : \A msg \in Frames[p] : \A f \in DOMAIN msg :
           msg[f] \in private => f \in answerContent[p]
    /\ \A w \in Rewrites : w[2] \notin private
    /\ \A c \in Confs : c.extra \subseteq c.seal /\ c.unbound \cap c.seal = {}
                        /\ c.model \notin private /\ c.bind \in BOOLEAN
    /\ \E c \in Confs : c.bind
    /\ MaxEdits \in Nat

VARIABLES
    stage,    \* where the exchange is
    prof,     \* the endpoint's profile
    conf,     \* the client's configuration
    own,      \* the request was sealed by this client, not a foreign one
    sent,     \* the request: the caller's, then as the client completed it
    seen,     \* the preview body the router received
    env,      \* the sealed request in transit
    edits,    \* rewrites by the router of the message in transit
    got,      \* the request the enclave rebuilt
    faithful, \* the answer was sealed by a conforming enclave
    back,     \* the answer as the enclave meant it
    frame,    \* the sealed answer in transit
    want,     \* the job the caller polls for
    answer    \* what the client delivered

envelopeVars == <<stage, prof, conf, own, sent, seen, env, edits, got, faithful, back, frame, want, answer>>

empty == [f \in {} |-> blank]
keep(msg, fields) == [f \in (DOMAIN msg \cap fields) |-> msg[f]]
drop(msg, fields) == [f \in (DOMAIN msg \ fields) |-> msg[f]]
values(msg) == {msg[f] : f \in DOMAIN msg}
with(msg, f, v) == [g \in DOMAIN msg \cup {f} |-> IF g = f THEN v ELSE msg[g]]
merge(hidden, clear) ==
    [f \in DOMAIN hidden \cup DOMAIN clear |-> IF f \in DOMAIN hidden THEN hidden[f] ELSE clear[f]]
none == [clear |-> empty, sealed |-> {}, unbound |-> {}, final |-> FALSE, ct |-> <<>>]

-----------------------------------------------------------------------------
(* The preview body (route.go): everything that is not withheld.            *)

everyProfilesPayloadFields == UNION {DefaultSealedFieldsFor(p) : p \in DOMAIN profiles}

sensitiveFieldsFor_KnownOnly(p) == IF p \in DOMAIN profiles THEN DefaultSealedFieldsFor(p) ELSE {}
sensitiveFieldsFor(p) ==
    IF p \in DOMAIN profiles THEN DefaultSealedFieldsFor(p) ELSE everyProfilesPayloadFields

withheldFor_BaseOnly(p) == sensitiveFieldsFor(p)
withheldFor(p) == sensitiveFieldsFor(p) \cup conf.extra

presentAndNotNull(v) == v \notin {"null", "malformed"}
nonEmptyJSONArray(v) == v \notin {"null", "malformed", "[]"}

(* A withheld capability is replaced by a placeholder, never by its value.  *)
capabilitySignalFor(p, f, v) ==
    /\ p \in {"chat", "anthropic"}
    /\ \/ f = "tools" /\ nonEmptyJSONArray(v)
       \/ f = "tool_choice" /\ presentAndNotNull(v)

preview_PassSignals(p, req) ==
    [f \in {g \in DOMAIN req : g \notin withheldFor(p) \/ capabilitySignalFor(p, g, req[g])} |-> req[f]]
preview(p, req) ==
    [f \in {g \in DOMAIN req : g \notin withheldFor(p) \/ capabilitySignalFor(p, g, req[g])} |->
        IF f \in withheldFor(p) THEN "placeholder" ELSE req[f]]

-----------------------------------------------------------------------------
(* Sealing and opening a request.                                           *)

aadFromEnvelope_ClearOnly(m) == [clear |-> drop(m.clear, m.unbound)]
aadFromEnvelope(m) ==
    [clear |-> drop(m.clear, m.unbound), sealed |-> m.sealed, unbound |-> m.unbound,
     final |-> m.final]

encrypt(m, pt, key) == [m EXCEPT !.ct = [pt |-> pt, aad |-> aadFromEnvelope(m), key |-> key]]
opens(m, key) == m.ct.key = key /\ m.ct.aad = aadFromEnvelope(m)

SealRequest(req, sealed, unbound) ==
    encrypt([none EXCEPT !.clear = drop(req, sealed), !.sealed = sealed, !.unbound = unbound],
            keep(req, sealed), "enclave")

SealRequestFor_NoPins(p, req, sealed, unbound) ==
    IF sealed # {} /\ p \in DOMAIN profiles /\ validatePayloadSealedFor(p, sealed, req)
    THEN {SealRequest(req, sealed, unbound)} ELSE {}
SealRequestFor(p, req, sealed, unbound) ==
    IF /\ p \in DOMAIN profiles
       /\ validateSealInputs(p, sealed, unbound)
       /\ validateSealableRequest(p, sealed, req)
       /\ sealed \subseteq DOMAIN req /\ e2eeKey \notin DOMAIN req
    THEN {SealRequest(req, sealed, unbound)} ELSE {}

(* The sealed object has exactly the listed keys and none of the clear ones.*)
rebuild_Overwrite(m) ==
    IF DOMAIN m.ct.pt = m.sealed THEN {merge(m.ct.pt, m.clear)} ELSE {}
rebuild(m) ==
    IF DOMAIN m.ct.pt = m.sealed /\ DOMAIN m.ct.pt \cap (DOMAIN m.clear \cup {e2eeKey}) = {}
    THEN {merge(m.ct.pt, m.clear)} ELSE {}

OpenRequest(m) == IF opens(m, "enclave") THEN rebuild(m) ELSE {}

OpenRequestFor_NoPayloadCheck(p, m) ==
    IF ValidateSealedFieldsFor(p, m.sealed) /\ validatePinnedFor(p, m.clear, m.sealed, m.unbound)
    THEN OpenRequest(m) ELSE {}
OpenRequestFor(p, m) ==
    IF /\ ValidateSealedFieldsFor(p, m.sealed)
       /\ validatePayloadSealedFor(p, m.sealed, m.clear)
       /\ validatePinnedFor(p, m.clear, m.sealed, m.unbound)
    THEN OpenRequest(m) ELSE {}

-----------------------------------------------------------------------------
(* The binding value (respbind.go).  "bind" is the one derived from this    *)
(* call's ephemeral key.                                                    *)

AttachResponseBind(req) == IF fieldBind \in DOMAIN req THEN {} ELSE {with(req, fieldBind, "bind")}

decodeBind(v) == v = "bind"

(* The key an enclave that opened req seals its answer under, if it can.    *)
TakeResponseBind(p, req) ==
    IF fieldBind \notin DOMAIN req
    THEN IF requiresBind(p) THEN {} ELSE {"base"}
    ELSE IF decodeBind(req[fieldBind]) THEN {req[fieldBind]} ELSE {}

bindsResponse == conf.bind /\ ResponseBindApplies(prof)

(* The key the client opens under.                                          *)
clientKey_Base == "base"
clientKey == IF bindsResponse \/ requiresBind(prof) THEN "bind" ELSE "base"

-----------------------------------------------------------------------------
(* What the client does to the caller's request before sealing (client.go). *)

withModel(req) == IF conf.model = blank THEN req ELSE with(req, "model", conf.model)

streams(req) == "stream" \in DOMAIN req /\ req["stream"] = "true"

(* A null stream_options decodes to a nil map, and writing to it panics.    *)
withStreamUsagePanics(req) ==
    /\ prof = "chat" /\ streams(req)
    /\ "stream_options" \in DOMAIN req /\ req["stream_options"] = "null"

withStreamUsage_AnyProfile(req) ==
    IF streams(req) THEN with(req, "stream_options", "include_usage") ELSE req
withStreamUsage(req) ==
    IF prof = "chat" /\ streams(req) THEN with(req, "stream_options", "include_usage") ELSE req

sealFields(p) == IF conf.seal = {} THEN DefaultSealedFieldsFor(p) ELSE conf.seal

clientSealedFields(req) == presentSubset(sealFields(prof), req)

(* seal's request: bound first for an async submit or where the provider    *)
(* advertises it.                                                           *)
completed(req) ==
    IF bindsResponse \/ requiresBind(prof)
    THEN {withStreamUsage(withModel(r)) : r \in AttachResponseBind(req)}
    ELSE {withStreamUsage(withModel(req))}

seal(req) ==
    SealRequestFor(prof, req,
                   clientSealedFields(req)
                       \cup (IF bindsResponse THEN {fieldBind} ELSE {}),
                   conf.unbound)

-----------------------------------------------------------------------------
(* Sealing and opening a response frame (response.go).                      *)

newResponseSealer(p, unbound, key) ==
    (key = "base" => ~requiresBind(p)) /\ validateResponseUnboundFieldsFor(p, unbound)

SealResponse(msg, sealed, unbound, final, key) ==
    encrypt([none EXCEPT !.clear = drop(msg, sealed), !.sealed = sealed, !.unbound = unbound,
                         !.final = final], keep(msg, sealed), key)

SealFrame_NoQuantity(p, msg, unbound, final, key) ==
    IF spec(p).typed /\ ~hasShape(msg) THEN {}
    ELSE LET sealed == ResponseSealedFieldsForFrame(p, msg)
         IN IF /\ newResponseSealer(p, unbound, key)
               /\ validateResponseSealedFieldsForFrame(p, msg, sealed)
               /\ ValidateUnboundFields(unbound, sealed) /\ sealed \subseteq DOMAIN msg
            THEN {SealResponse(msg, sealed, unbound, final, key)} ELSE {}
SealFrame(p, msg, unbound, final, key) ==
    IF spec(p).typed /\ ~hasShape(msg) THEN {}
    ELSE LET sealed == ResponseSealedFieldsForFrame(p, msg)
         IN IF /\ newResponseSealer(p, unbound, key)
               /\ validateResponseSealedFieldsForFrame(p, msg, sealed)
               /\ ValidateUnboundFields(unbound, sealed)
               /\ final => validateResponseCleartextFor(p, msg)
               /\ sealed \subseteq DOMAIN msg /\ e2eeKey \notin DOMAIN msg
            THEN {SealResponse(msg, sealed, unbound, final, key)} ELSE {}

newResponseOpener(p, key) == key = "base" => ~requiresBind(p)

OpenFrame_SkipQuantity(p, m, key) ==
    IF /\ validateResponseUnboundFieldsFor(p, m.unbound)
       /\ validateResponseSealedFieldsForFrame(p, m.clear, m.sealed)
       /\ opens(m, key)
    THEN rebuild(m) ELSE {}
OpenFrame(p, m, key) ==
    IF /\ validateResponseUnboundFieldsFor(p, m.unbound)
       /\ validateResponseSealedFieldsForFrame(p, m.clear, m.sealed)
       /\ m.final => validateResponseCleartextFor(p, m.clear)
       /\ opens(m, key)
    THEN rebuild(m) ELSE {}

(* One frame answers a buffered call, and it must say it is the last.       *)
OpenResponseFor_AnyFrame(p, m, key) == OpenFrame(p, m, key)
OpenResponseFor(p, m, key) ==
    IF m.final /\ newResponseOpener(p, key) THEN OpenFrame(p, m, key) ELSE {}

-----------------------------------------------------------------------------
(* The async image job (async.go).                                          *)

asyncImageResultUnbound == {"model", "x_0g_trace"}

cleartextString(msg, f) == f \in DOMAIN msg /\ msg[f] \notin {blank, "junk", "null"}

SealAsyncImageResult_AnyStatus(msg) ==
    IF cleartextString(msg, "jobId")
    THEN SealFrame("asyncimage", msg, asyncImageResultUnbound, TRUE, "bind") ELSE {}
SealAsyncImageResult(msg) ==
    IF /\ fieldBind \notin DOMAIN msg
       /\ cleartextString(msg, "jobId") /\ cleartextString(msg, "status")
       /\ msg["status"] = "completed"
    THEN SealFrame("asyncimage", msg, asyncImageResultUnbound, TRUE, "bind") ELSE {}

OpenAsyncImageResult_AnyJob(m) ==
    IF m.clear["status"] = "completed" THEN OpenResponseFor("asyncimage", m, "bind") ELSE {}
OpenAsyncImageResult(m) ==
    IF /\ m.unbound \subseteq asyncImageResultUnbound
       /\ cleartextString(m.clear, "status") /\ m.clear["status"] = "completed"
       /\ cleartextString(m.clear, "jobId") /\ <<m.clear["jobId"]>> = want
    THEN OpenResponseFor("asyncimage", m, "bind") ELSE {}

(* A job id is the sequence of its parts between separators.                *)
validateJobID(job) == Len(job) = 1 /\ job[1] \notin {blank, "bad_char", "too_long"}

UserJobID(job, key) == IF validateJobID(job) THEN {Append(job, key)} ELSE {}

HasUserJobIDKey(id) == Len(id) > 1

(* Split at the last separator; both halves are validated.                  *)
ParseUserJobID(id) ==
    IF /\ HasUserJobIDKey(id)
       /\ validateJobID(SubSeq(id, 1, Len(id) - 1)) /\ id[Len(id)] = "eph"
    THEN {SubSeq(id, 1, Len(id) - 1)} ELSE {}

(* The submit answer comes from the router: only a clear, named job of the  *)
(* pinned provider is handed to the caller.                                 *)
userJobResponse(job, provider) == IF provider = "pinned" THEN UserJobID(job, "eph") ELSE {}

-----------------------------------------------------------------------------
EnvelopeInit ==
    /\ stage = "idle" /\ prof = "chat" /\ conf \in Confs /\ own = TRUE /\ sent = empty
    /\ seen = empty /\ env = none /\ edits = 0 /\ got = empty /\ faithful = TRUE
    /\ back = empty /\ frame = none /\ want = <<>> /\ answer = empty

answering == <<faithful, back, frame, want, answer>>

(* Resolve previews the route before anything is sealed.                    *)
Preview ==
    /\ stage = "idle"
    /\ \E p \in DOMAIN Bodies : \E req \in Bodies[p] :
          /\ prof' = p /\ sent' = req
          /\ seen' = preview(p, req)
    /\ stage' = "previewed"
    /\ UNCHANGED <<conf, own, env, edits, got, answering>>

Seal ==
    /\ stage = "previewed"
    /\ LET reqs == IF prof \in DOMAIN profiles THEN completed(sent) ELSE {}
       IN IF withStreamUsagePanics(sent) THEN stage' = "crashed" /\ UNCHANGED <<sent, env>>
          ELSE IF \A req \in reqs : seal(req) = {} THEN stage' = "unsent" /\ UNCHANGED <<sent, env>>
          ELSE \E req \in reqs : sent' = req /\ env' \in seal(req) /\ stage' = "sealed"
    /\ UNCHANGED <<prof, conf, own, seen, edits, got, answering>>

(* Another client's request: any list, with more or less than it in clear.  *)
SealForeign ==
    /\ stage = "idle" /\ conf = CHOOSE c \in Confs : ~c.bind
    /\ \E p \in DOMAIN profiles : \E req \in Bodies[p],
          listed \in Lists[p], hidden \in Lists[p], unbound \in Unbounds[p], twice \in BOOLEAN :
          /\ env' = encrypt([none EXCEPT !.clear = IF twice THEN req ELSE drop(req, hidden),
                                         !.sealed = listed \cap DOMAIN req, !.unbound = unbound],
                            keep(req, hidden), "enclave")
          /\ prof' = p /\ sent' = req
    /\ stage' = "sealed" /\ own' = FALSE
    /\ UNCHANGED <<conf, seen, edits, got, answering>>

(* The router sets or removes a clear field, declaring it unbound or not.   *)
rewritten(m) ==
    {[m EXCEPT !.clear = with(m.clear, w[1], w[2])] : w \in Rewrites}
        \cup {[m EXCEPT !.clear = with(m.clear, w[1], w[2]), !.unbound = m.unbound \cup {w[1]}] :
                  w \in Rewrites}
        \cup {[m EXCEPT !.clear = drop(m.clear, {f})] : f \in DOMAIN m.clear}

RewriteRequest ==
    /\ stage = "sealed" /\ edits < MaxEdits
    /\ env' \in rewritten(env) \ {env}
    /\ edits' = edits + 1
    /\ UNCHANGED <<stage, prof, conf, own, sent, seen, got, answering>>

(* The enclave opens the request and takes the binding value out of it.     *)
ServeRequest ==
    /\ stage = "sealed"
    /\ \/ \E req \in OpenRequestFor(prof, env) :
             /\ TakeResponseBind(prof, req) # {}
             /\ got' = req /\ stage' = "opened"
       \/ /\ \A req \in OpenRequestFor(prof, env) : TakeResponseBind(prof, req) = {}
          /\ got' = got /\ stage' = "refused"
    /\ UNCHANGED <<prof, conf, own, sent, seen, env, edits, answering>>

buffered == prof \notin {"chat", "anthropic"} \/ ~streams(got)

(* The router's answer to a submit names a job, and a provider.             *)
SubmitAnswer ==
    /\ stage = "opened" /\ prof = "asyncimage" /\ own /\ want = <<>>
    /\ \E job \in JobIDs, provider \in {"pinned", "other"} :
          LET ids == userJobResponse(job, provider)
          IN IF \E id \in ids : ParseUserJobID(id) # {}
             THEN \E id \in ids : want' \in ParseUserJobID(id) /\ stage' = stage
             ELSE stage' = "unpolled" /\ UNCHANGED want
    /\ UNCHANGED <<prof, conf, own, sent, seen, env, edits, got, faithful, back, frame, answer>>

(* The request is done with: what is kept is what the answer depends on.    *)
forget ==
    /\ sent' = empty /\ seen' = empty /\ env' = none /\ edits' = 0
    /\ got' = keep(got, {fieldBind, "stream"})
    /\ UNCHANGED <<prof, conf, own, want, answer>>

answerable == stage = "opened" /\ own /\ (prof = "asyncimage" => want # <<>>)

(* A conforming enclave seals the frame under the key it took.              *)
Reply ==
    /\ answerable
    /\ \E msg \in Frames[prof], unbound \in Unbounds[prof], final \in BOOLEAN, key \in TakeResponseBind(prof, got) :
          /\ buffered => final
          /\ frame' \in IF prof = "asyncimage" THEN SealAsyncImageResult(msg)
                       ELSE SealFrame(prof, msg, unbound, final, key)
          /\ back' = msg
    /\ faithful' = TRUE /\ stage' = "answered" /\ forget

(* A faulty one seals any of the fields, lists any, and binds or not.       *)
ReplyFaulty ==
    /\ answerable
    /\ \E msg \in Frames[prof], hidden \in FrameLists[prof], unbound \in Unbounds[prof],
          twice \in BOOLEAN, final \in BOOLEAN, key \in TakeResponseBind(prof, got) \cup {"base"} :
          /\ frame' = encrypt([none EXCEPT !.clear = IF twice THEN msg ELSE drop(msg, hidden),
                                           !.sealed = hidden \cap DOMAIN msg, !.unbound = unbound,
                                           !.final = final],
                              keep(msg, hidden), key)
          /\ back' = msg
    /\ faithful' = FALSE /\ stage' = "answered" /\ forget

RewriteFrame ==
    /\ stage = "answered" /\ edits < MaxEdits
    /\ frame' \in rewritten(frame) \ {frame}
    /\ edits' = edits + 1
    /\ UNCHANGED <<stage, prof, conf, own, sent, seen, env, got, faithful, back, want, answer>>

opened ==
    IF prof = "asyncimage" THEN OpenAsyncImageResult(frame)
    ELSE IF buffered THEN OpenResponseFor(prof, frame, clientKey)
    ELSE OpenFrame(prof, frame, clientKey)

Receive ==
    /\ stage = "answered"
    /\ \/ answer' \in opened /\ stage' = "delivered"
       \/ opened = {} /\ answer' = answer /\ stage' = "rejected"
    /\ UNCHANGED <<prof, conf, own, sent, seen, env, edits, got, faithful, back, frame, want>>

Over ==
    \/ stage \in {"unsent", "crashed", "refused", "unpolled", "delivered", "rejected"}
    \/ stage = "opened" /\ ~own

(* The next call of the same client starts from nothing.                    *)
NextCall ==
    /\ Over
    /\ stage' = "idle" /\ prof' = "chat" /\ conf' = conf /\ own' = TRUE /\ sent' = empty
    /\ seen' = empty /\ env' = none /\ edits' = 0 /\ got' = empty /\ faithful' = TRUE
    /\ back' = empty /\ frame' = none /\ want' = <<>> /\ answer' = empty

EnvelopeNext ==
    \/ Preview \/ Seal \/ SealForeign \/ RewriteRequest \/ ServeRequest \/ SubmitAnswer
    \/ Reply \/ ReplyFaulty \/ RewriteFrame \/ Receive \/ NextCall

EnvelopeSpec == EnvelopeInit /\ [][EnvelopeNext]_envelopeVars

-----------------------------------------------------------------------------
(* Properties.                                                              *)

EnvelopeTypeOK ==
    /\ stage \in {"idle", "previewed", "sealed", "opened", "answered", "unsent", "crashed",
                  "refused", "unpolled", "delivered", "rejected"}
    /\ prof \in DOMAIN profiles \cup {"unknown"} /\ conf \in Confs /\ edits \in 0..MaxEdits
    /\ own \in BOOLEAN /\ faithful \in BOOLEAN

accepted == stage = "opened" /\ env # none

(* Nothing private leaves the client readable: not in the preview body,     *)
(* which is built before anything is sealed, and not in the envelope, for   *)
(* any profile, body and configuration, the fields an operator added        *)
(* included; and an enclave serves no request, whoever sealed it, of which  *)
(* the router could read something private (route.go:399 withheldFor,       *)
(* client.go:1012 seal, envelope.go:1562 OpenRequestFor).                   *)
PayloadStaysSealed ==
    /\ EnvelopeTypeOK
    /\ values(seen) \cap private = {}
    /\ \A f \in conf.extra \cap DOMAIN seen : seen[f] = "placeholder"
    /\ own /\ env # none =>
           /\ values(env.clear) \cap private = {}
           /\ edits = 0 \/ accepted => conf.extra \cap DOMAIN env.clear = {}
    /\ accepted => values(env.clear) \cap private = {}

(* What an enclave rebuilds is what the client meant: every field with the  *)
(* client's value, apart from those the client itself left unbound, which   *)
(* never include one that decides how content comes back, with usage asked  *)
(* for on every chat stream and nowhere else; and such a deciding field has,*)
(* for the router as for the enclave, one of the values that keep content   *)
(* out of the clear, whoever sealed the request (envelope.go:1690           *)
(* aadFromEnvelope, 881 validatePinnedFor).                                 *)
RebuiltAsMeant ==
    accepted =>
        /\ own => /\ LET free == conf.unbound \ IF prof \in {"image", "asyncimage", "speech"}
                                             THEN {"response_format"} ELSE {}
                     IN drop(got, free) = drop(sent, free)
                  /\ conf.unbound \cap {"stream", "stream_options"} = {} =>
                         (("stream_options" \in DOMAIN got /\ got["stream_options"] = "include_usage")
                             <=> (prof = "chat" /\ streams(got)))
        /\ prof \in {"image", "asyncimage"} =>
               "response_format" \in DOMAIN env.clear /\ env.clear["response_format"] = "b64_json"
        /\ prof = "speech" =>
               /\ "response_format" \in DOMAIN env.clear
               /\ env.clear["response_format"] \in {"json", "verbose_json"}
               /\ ~streams(env.clear)
        /\ \A f \in DOMAIN env.clear : got[f] = env.clear[f]

(* Of an answer the client delivers, the router could read nothing          *)
(* generated, whatever shape the frame claims and whichever fields a faulty *)
(* enclave sealed (response.go:543 validateResponseSealedFieldsForFrame).   *)
AnswerUnreadable == stage = "delivered" => values(frame.clear) \cap private = {}

(* Fields a decision is keyed off: the frame's shape, the billed numbers,   *)
(* the job.                                                                 *)
decisive ==
    CASE prof = "anthropic"  -> {"usage", "type", "message"}
      [] prof = "speech"     -> {"usage", "duration"}
      [] prof = "asyncimage" -> {"usage", "jobId", "status"}
      [] OTHER               -> {"usage"}

billed(msg) ==
    {numberAt(f = "usage", msg[f]) : f \in DOMAIN msg \cap
        CASE prof = "speech" -> {"usage", "duration"}
          [] prof \in {"image", "asyncimage", "embedding"} -> {"usage"}
          [] OTHER -> {}} \ {"absent"}

(* Router, client and enclave read the same thing from a delivered answer:  *)
(* every decisive field has the value the enclave gave it although the      *)
(* router could rewrite what is in clear; a metered final frame states its  *)
(* quantity, and states it once; a polled job's result is that job's and    *)
(* completed; a bound call's answer was sealed under its binding            *)
(* (response.go:350, 754, async.go:144).                                    *)
ReadAsSealed ==
    stage = "delivered" =>
        /\ \A f \in decisive : keep(frame.clear, {f}) = keep(back, {f})
        /\ frame.final /\ prof \in {"image", "asyncimage", "speech", "embedding"} =>
               \E n \in {"3", "4", "0.5"} : billed(frame.clear) = {n}
        /\ prof = "asyncimage" => answer["status"] = "completed" /\ <<answer["jobId"]>> = want
        /\ prof = "anthropic" => ResponseEventName(prof, answer) = {back["type"]}
        /\ buffered => frame.final
        /\ fieldBind \in DOMAIN got => frame.ct.key = "bind"

(* The two ends agree with themselves: a request this client sealed and     *)
(* nobody touched is served, and an answer a conforming enclave sealed and  *)
(* nobody touched is delivered, unless the router named another job.  The   *)
(* one request of its own it may see refused carries a binding value of the *)
(* caller's, which an operator who does not bind answers chose to seal.     *)
OwnMessagesOpen ==
    /\ stage = "refused" => ~own \/ edits > 0 \/ (fieldBind \in conf.seal /\ ~conf.bind)
    /\ stage = "rejected" =>
           ~faithful \/ edits > 0 \/ (prof = "asyncimage" /\ <<back["jobId"]>> # want)
=============================================================================
