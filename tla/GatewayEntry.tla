----------------------------- MODULE GatewayEntry -----------------------------
(***************************************************************************)
(* The gateway's front door (client/cmd/gateway/main.go newHandler,        *)
(* sealmodels.go, routerproxy.go, and client/openaiproxy): what happens to *)
(* a request between the listener and either the sealing client core or    *)
(* the clear-text proxy to the untrusted router.                           *)
(*                                                                         *)
(* The middleware chain shares no state before the in-flight semaphore, so *)
(* everything up to it is one step; from there a request reads its body,   *)
(* is dispatched on its model, calls the core or the router, writes its    *)
(* answer and returns.  A path is the resource it names, the way it is     *)
(* spelled, and the key segment of a polled job id.                        *)
(***************************************************************************)
EXTENDS Integers, FiniteSets, Sequences

CONSTANTS
    Reqs,         \* request slots of the model
    Traffic,      \* the requests that may arrive
    Concurrent,   \* bound: those explored side by side, the others one at a time
    Policies,     \* entryPolicy values the deployment may have
    Wildcards,    \* sealModels.surfaces: rows a "<service type>:*" entry claims
    MaxInFlight,  \* capacity of LimitInFlight's semaphore
    MaxFrames     \* bound: frames one stream delivers

Rows == {"chat", "messages", "image", "speech", "embeddings", "async"}   \* endpoint.All
Streaming == {"chat", "messages"}                                        \* Endpoint.Streams

Paths == [res : Rows \cup {"jobs", "catalog", "healthz"},
          form : {"exact", "slash", "escslash", "case", "sub"},
          key : {"none", "good", "malformed"}]

Bodies == [size : {"sealable", "forwardable", "over"}, shape : {"json", "multipart", "bad"},
           model : {"listed", "unlisted", "unnamed"}, stream : {"no", "yes", "bad"}, url : BOOLEAN]

Requests == [path : Paths, method : {"GET", "POST", "preflight"},
             auth : {"none", "nonbearer", "mgmt", "key"}, cookie : BOOLEAN,
             origin : {"none", "allowed", "foreign"}, body : Bodies]

ASSUME EntryAssumption ==
    /\ IsFiniteSet(Reqs) /\ Traffic \subseteq Requests /\ Concurrent \subseteq Traffic
    /\ Traffic # {}
    /\ \A q \in Traffic : q.path.key # "none" => q.path.res = "jobs"  \* keys come in job ids
    /\ Wildcards \subseteq Rows
    /\ Policies \subseteq [seal : {"off", "all", "list"}, open : BOOLEAN, served : SUBSET Rows]
    /\ MaxInFlight \in Nat \ {0} /\ MaxFrames \in Nat \ {0}

VARIABLES
    policy,   \* entryPolicy, fixed at startup
    pc,       \* where each request is
    req,      \* the request as it arrived
    cred,     \* the credential it is served under
    slots,    \* requests holding a semaphore slot
    held,     \* requests whose body this process holds in memory
    seen,     \* what of each request the router has read in the clear
    mark,     \* the X-0G-E2EE header
    status,   \* the status line written, 0 before
    out,      \* the body: stream events, or what kind of content it is
    won,      \* the core, or the opened poll, really produced an answer
    logged    \* access-log lines of the request

vars == <<policy, pc, req, cred, slots, held, seen, mark, status, out, won, logged>>

Steps == {"idle", "body", "core", "poll", "forward", "keyless", "done", "aborted"}

-----------------------------------------------------------------------------
(* Routing.                                                                   *)

(* sealedNamespaceGuard: every spelling of a sealed prefix is folded to the   *)
(* registered one before the mux matches.                                     *)
sealedNamespaceGuard_CaseOnly(p) ==
    [p EXCEPT !.form = IF @ = "case" THEN "exact" ELSE @]
sealedNamespaceGuard_RowsOnly(p) ==
    IF p.res \notin Rows THEN p
    ELSE [p EXCEPT !.form = CASE @ = "case" -> "exact" [] @ = "escslash" -> "slash" [] OTHER -> @]
sealedNamespaceGuard(p) ==
    IF p.res \notin Rows \cup {"jobs"} THEN p
    ELSE [p EXCEPT !.form = CASE @ = "case" -> "exact" [] @ = "escslash" -> "slash" [] OTHER -> @]

sealingOn == policy.seal # "off"

(* The patterns newHandler registers, most specific first.                    *)
mux(q) ==
    LET p == sealedNamespaceGuard(q.path)
        registered == p.form \in {"exact", "slash"}
    IN IF p.res = "healthz" THEN "local"
       ELSE IF p.res = "catalog" \/ p.form \in {"case", "escslash"} THEN "catchall"
       ELSE IF p.res \in Rows /\ registered /\ q.method = "POST" /\ sealingOn THEN
                IF p.res \in policy.served THEN "sealedGate" ELSE "unserved"
       ELSE IF p.res \in Rows THEN "passthrough"
       ELSE IF p.form = "exact" /\ q.method = "GET" THEN
                IF p.key # "none" THEN "sealedGate" ELSE "keylessPoll"
       ELSE IF p.key # "none" THEN "keyRefused" ELSE "passthrough"

originAllowed(o) == o = "allowed" \/ (policy.open /\ o # "none")

credentialsAllowed == ~policy.open

(* CORS answers a preflight itself: 204 for an allowed origin, 403 otherwise. *)
CORS(q) ==
    IF q.method = "preflight" /\ q.origin # "none"
    THEN IF originAllowed(q.origin) THEN 204 ELSE 403
    ELSE 0

(* AcceptCookieCredential: an explicit credential wins, whatever its shape;   *)
(* a cookie counts only from an allowed origin.                               *)
AcceptCookieCredential_AnyOrigin(q) ==
    IF q.auth = "none" /\ q.cookie THEN "cookie" ELSE q.auth
AcceptCookieCredential(q) ==
    IF q.auth # "none" THEN q.auth
    ELSE IF q.cookie /\ credentialsAllowed THEN
            IF originAllowed(q.origin) THEN "cookie" ELSE "forbidden"
    ELSE "none"

RequireInferenceCredential(c) ==
    CASE c = "forbidden" -> 403
      [] c \in {"none", "nonbearer"} -> 401
      [] c = "mgmt" -> 403
      [] OTHER -> 0

(* LimitInFlight: one semaphore for all sealed routes.                        *)
hasRoom_PerRow(q) ==
    Cardinality({r \in slots : req[r].path.res = q.path.res}) < MaxInFlight
hasRoom(q) == Cardinality(slots) < MaxInFlight

(* What the router reads when a request is forwarded as it is.                *)
clearView(q) ==
    (IF q.method = "POST" /\ q.path.res \in Rows THEN {"prompt"} ELSE {"meta"})
      \cup (IF q.path.res = "jobs" /\ q.path.key # "none" THEN {"key"} ELSE {})

(* RedactJobPath: the path as sent, cut at the key segment in every spelling  *)
(* of the poll namespace (LogRequests runs outside the guard that folds them). *)
RedactJobPath_Folded(q) ==
    IF q.path.key = "none" \/ (q.path.res = "jobs" /\ q.path.form # "case") THEN "plain" ELSE "key"
RedactJobPath(q) == IF q.path.key = "none" \/ q.path.res = "jobs" THEN "plain" ELSE "key"

-----------------------------------------------------------------------------
(* The models sealed, and what the sealed handler refuses.                    *)

(* modelOf: the model, or that it cannot be told.                             *)
modelOf_Unlisted(b) == IF b.size = "over" \/ b.shape = "bad" THEN "unlisted" ELSE b.model
modelOf(b) ==
    IF b.size = "over" \/ b.shape = "bad" THEN "unnamed" ELSE b.model

(* sealModels.dispatch.                                                       *)
dispatch(q) ==
    IF policy.seal # "list" \/ q.path.res \in Wildcards \/ modelOf(q.body) # "unlisted"
    THEN "sealed" ELSE "cleartext"

preSealRefuses(q) == q.path.res \in {"image", "speech", "async"} /\ q.body.url

(* Register and registerAsync, from the body to the core call: 0 goes on.     *)
Register(q) ==
    IF q.body.size # "sealable" THEN 413
    ELSE IF q.body.shape = "bad" \/ (q.body.shape = "multipart" /\ q.path.res # "speech") THEN 400
    ELSE IF q.body.stream = "bad" \/ (q.body.stream = "yes" /\ q.path.res \notin Streaming) THEN 400
    ELSE IF preSealRefuses(q) THEN 400
    ELSE 0

(* An async submit asking for url format goes to the router in the clear.     *)
urlFormat(q) ==
    q.path.res = "async" /\ q.body.url /\ q.body.size = "sealable" /\ q.body.shape = "json"

-----------------------------------------------------------------------------
NoRequest == CHOOSE q \in Traffic : TRUE

Init ==
    /\ policy \in Policies
    /\ pc = [r \in Reqs |-> "idle"]
    /\ req = [r \in Reqs |-> NoRequest]
    /\ cred = [r \in Reqs |-> "none"]
    /\ slots = {} /\ held = {}
    /\ seen = [r \in Reqs |-> {}]
    /\ mark = [r \in Reqs |-> "absent"]
    /\ status = [r \in Reqs |-> 0]
    /\ out = [r \in Reqs |-> <<>>]
    /\ won = [r \in Reqs |-> FALSE]
    /\ logged = [r \in Reqs |-> <<>>]

(* The handler returns: the deferred receive gives the slot back, the body is *)
(* garbage, and LogRequests writes its line (probes excepted).                *)
return_SlotOnSuccess(r) ==
    /\ pc' = [pc EXCEPT ![r] = "done"]
    /\ slots' = IF won[r] THEN slots \ {r} ELSE slots
    /\ held' = held \ {r}
    /\ logged' = [logged EXCEPT ![r] =
                    IF req'[r].path.res = "healthz" THEN @ ELSE Append(@, RedactJobPath(req'[r]))]
return(r) ==
    /\ pc' = [pc EXCEPT ![r] = "done"]
    /\ slots' = slots \ {r}
    /\ held' = held \ {r}
    /\ logged' = [logged EXCEPT ![r] =
                    IF req'[r].path.res = "healthz" THEN @ ELSE Append(@, RedactJobPath(req'[r]))]

(* An answer in one piece: a status, and the content if there is any.         *)
answer(r, code, content) ==
    /\ status' = [status EXCEPT ![r] = code]
    /\ out' = [out EXCEPT ![r] = @ \o content]

refuse(r, code) == answer(r, code, <<>>)

event(r, e) == out' = [out EXCEPT ![r] = Append(@, e)] /\ UNCHANGED status

arrives(r, q) ==
    /\ req' = [req EXCEPT ![r] = q]
    /\ UNCHANGED <<policy, won>>

(* Answered without the router and without a slot: preflights, probes, rows   *)
(* this build cannot seal, misdirected keys.                                  *)
AnswerHere(r, q) ==
    /\ arrives(r, q)
    /\ \/ CORS(q) # 0 /\ refuse(r, CORS(q))
       \/ CORS(q) = 0 /\ mux(q) = "local" /\ refuse(r, 200)
       \/ CORS(q) = 0 /\ mux(q) = "unserved" /\ refuse(r, 501)
       \/ CORS(q) = 0 /\ mux(q) = "keyRefused" /\ refuse(r, 400)
    /\ return(r)
    /\ UNCHANGED <<cred, seen, mark>>

(* The credential gate and the limiter, behind the "sealed" marker.           *)
Gate(r, q) ==
    /\ arrives(r, q)
    /\ CORS(q) = 0 /\ mux(q) = "sealedGate"
    /\ cred' = [cred EXCEPT ![r] = AcceptCookieCredential(q)]
    /\ mark' = [mark EXCEPT ![r] = "sealed"]
    /\ UNCHANGED seen
    /\ \/ /\ RequireInferenceCredential(cred'[r]) # 0
          /\ refuse(r, RequireInferenceCredential(cred'[r]))
          /\ return(r)
       \/ /\ RequireInferenceCredential(cred'[r]) = 0
          /\ ~hasRoom(q)
          /\ refuse(r, 503)
          /\ return(r)
       \/ /\ RequireInferenceCredential(cred'[r]) = 0
          /\ hasRoom(q)
          /\ slots' = slots \cup {r}
          /\ IF q.path.res = "jobs"
             THEN pc' = [pc EXCEPT ![r] = "poll"] /\ UNCHANGED held
             ELSE pc' = [pc EXCEPT ![r] = "body"] /\ held' = held \cup {r}
          /\ UNCHANGED <<status, out, logged>>

(* The clear-text proxy, marked "none".                                       *)
forward(r, q) ==
    /\ seen' = [seen EXCEPT ![r] = @ \cup clearView(q)]
    /\ mark' = [mark EXCEPT ![r] = "none"]

PassThrough(r, q) ==
    /\ arrives(r, q)
    /\ CORS(q) = 0 /\ mux(q) \in {"passthrough", "catchall", "keylessPoll"}
    /\ forward(r, q)
    /\ pc' = [pc EXCEPT ![r] = IF mux(q) = "keylessPoll" THEN "keyless" ELSE "forward"]
    /\ UNCHANGED <<cred, slots, held, status, out, logged>>

mayArrive(r) ==
    LET others == {s \in Reqs \ {r} : pc[s] # "idle"}
    IN  IF others = {} THEN Traffic
        ELSE IF \A s \in others : req[s] \in Concurrent THEN Concurrent ELSE {}
Arrive(r) ==
    /\ pc[r] = "idle"
    /\ \E q \in mayArrive(r) : AnswerHere(r, q) \/ Gate(r, q) \/ PassThrough(r, q)
-----------------------------------------------------------------------------
(* The body arrives in full and is dispatched on its model.                   *)
BodyArrives_NoRemark(r) ==
    /\ pc[r] = "body"
    /\ IF dispatch(req[r]) = "cleartext" \/ urlFormat(req[r])
       THEN /\ seen' = [seen EXCEPT ![r] = @ \cup clearView(req[r])]
            /\ pc' = [pc EXCEPT ![r] = "forward"]
            /\ UNCHANGED <<req, mark, slots, held, status, out, logged>>
       ELSE UNCHANGED <<seen, mark, req>> /\
            IF Register(req[r]) # 0 THEN refuse(r, Register(req[r])) /\ return(r)
            ELSE pc' = [pc EXCEPT ![r] = "core"] /\ UNCHANGED <<slots, held, status, out, logged>>
    /\ UNCHANGED <<policy, cred, won>>
BodyArrives(r) ==
    /\ pc[r] = "body"
    /\ IF dispatch(req[r]) = "cleartext" \/ urlFormat(req[r])
       THEN /\ forward(r, req[r])
            /\ pc' = [pc EXCEPT ![r] = "forward"]
            /\ UNCHANGED <<req, slots, held, status, out, logged>>
       ELSE UNCHANGED <<seen, mark, req>> /\
            IF Register(req[r]) # 0 THEN refuse(r, Register(req[r])) /\ return(r)
            ELSE pc' = [pc EXCEPT ![r] = "core"] /\ UNCHANGED <<slots, held, status, out, logged>>
    /\ UNCHANGED <<policy, cred, won>>

(* BoundBodyRead's deadline passes (408), or the caller's connection breaks.  *)
BodyDeadline_Off(r) == FALSE /\ pc[r] = "body" /\ return(r)
BodyDeadline(r) ==
    /\ pc[r] = "body"
    /\ \E code \in {408, 400} : refuse(r, code)
    /\ UNCHANGED <<policy, req, cred, seen, mark, won>>
    /\ return(r)

(* Complete or SubmitAsync returns; a stream fails before its first frame.    *)
CoreFails(r) ==
    /\ pc[r] = "core" /\ status[r] = 0
    /\ \E code \in {400, 429, 500, 502} : refuse(r, code)     \* statusFor
    /\ UNCHANGED <<policy, req, cred, seen, mark, won>>
    /\ return(r)

CoreAnswers(r) ==
    /\ pc[r] = "core" /\ req[r].body.stream = "no"
    /\ answer(r, IF req[r].path.res = "async" THEN 202 ELSE 200, <<"content">>)
    /\ won' = [won EXCEPT ![r] = TRUE]
    /\ UNCHANGED <<policy, req, cred, seen, mark>>
    /\ return(r)

(* serveStream: the headers go out with the first frame.                      *)
StreamFrame(r) ==
    /\ pc[r] = "core" /\ req[r].body.stream = "yes"
    /\ Len(out[r]) < MaxFrames
    /\ answer(r, 200, <<"frame">>)
    /\ UNCHANGED <<policy, pc, req, cred, slots, held, seen, mark, won, logged>>

(* The core accepted the stream's end: "[DONE]" for chat, whose frames have   *)
(* no terminal one of their own.                                              *)
StreamEnds(r) ==
    /\ pc[r] = "core" /\ Len(out[r]) > 0
    /\ won' = [won EXCEPT ![r] = TRUE]
    /\ IF req[r].path.res = "chat" THEN event(r, "[DONE]") ELSE UNCHANGED <<status, out>>
    /\ UNCHANGED <<policy, req, cred, seen, mark>>
    /\ return(r)

(* A failure after the first frame can only end the stream, with an event.    *)
StreamBreaks_Done(r) ==
    /\ pc[r] = "core" /\ Len(out[r]) > 0
    /\ answer(r, 200, <<"error", "[DONE]">>)
    /\ UNCHANGED <<policy, req, cred, seen, mark, won>>
    /\ return(r)
StreamBreaks(r) ==
    /\ pc[r] = "core" /\ Len(out[r]) > 0
    /\ event(r, "error")
    /\ UNCHANGED <<policy, req, cred, seen, mark, won>>
    /\ return(r)
-----------------------------------------------------------------------------
(* A router's answer to a poll: refused, or a JSON object that may be a       *)
(* sealed frame, may say "completed" and may open under the job's key.        *)
PollReplies == [ok : BOOLEAN, json : BOOLEAN, sealed : BOOLEAN, completed : BOOLEAN, opens : BOOLEAN]

(* asyncPollAnswer: the status, and whether content is handed over.           *)
asyncPollAnswer_Relay(reply) ==
    IF ~reply.ok THEN <<404, FALSE>>
    ELSE IF ~reply.json THEN <<502, FALSE>>
    ELSE IF reply.sealed /\ ~(reply.completed /\ reply.opens) THEN <<502, FALSE>>
    ELSE IF reply.completed THEN <<200, TRUE>>
    ELSE <<200, FALSE>>
asyncPollAnswer(reply) ==
    IF ~reply.ok THEN <<404, FALSE>>          \* the router's status, a known code
    ELSE IF ~reply.json THEN <<502, FALSE>>
    ELSE IF reply.sealed /\ reply.completed THEN
            IF reply.opens THEN <<200, TRUE>> ELSE <<502, FALSE>>
    ELSE IF reply.sealed THEN <<502, FALSE>>       \* e2ee_malformed
    ELSE IF reply.completed THEN <<502, FALSE>>    \* e2ee_downgrade
    ELSE <<200, FALSE>>              \* reduced to its status fields

(* AsyncJobPoll: the key is cut off and the bare job id polled.               *)
Poll(r) ==
    /\ pc[r] = "poll"
    /\ \/ /\ req[r].path.key = "malformed"
          /\ refuse(r, 400) /\ UNCHANGED <<seen, won>>
       \/ /\ req[r].path.key = "good"
          /\ seen' = [seen EXCEPT ![r] = @ \cup {"meta"}]
          /\ \/ refuse(r, 502) /\ UNCHANGED won           \* no readable answer in pollTimeout
             \/ \E reply \in PollReplies :
                    LET a == asyncPollAnswer(reply)
                    IN /\ answer(r, a[1], IF a[2] THEN <<"content">> ELSE <<>>)
                       /\ won' = [won EXCEPT ![r] = reply.sealed /\ reply.completed /\ reply.opens]
    /\ UNCHANGED <<policy, req, cred, mark>>
    /\ return(r)

(* newKeylessPollProxy: the whole answer is read, and a sealed one refused.   *)
KeylessRelay_Unchecked(r) ==
    /\ pc[r] = "keyless"
    /\ \E body \in {"sealed", "clear"} : answer(r, 200, <<body>>)
    /\ UNCHANGED <<policy, req, cred, seen, mark, won>>
    /\ return(r)
KeylessRelay(r) ==
    /\ pc[r] = "keyless"
    /\ \E body \in {"sealed", "clear"} :
          IF body = "sealed" THEN refuse(r, 502) ELSE answer(r, 200, <<body>>)
    /\ UNCHANGED <<policy, req, cred, seen, mark, won>>
    /\ return(r)

(* The router answers a forwarded request, or cannot be reached.              *)
Relay(r) ==
    /\ pc[r] \in {"forward", "keyless"}
    /\ \/ pc[r] = "forward" /\ answer(r, 200, <<"clear">>)
       \/ refuse(r, 502)
    /\ UNCHANGED <<policy, req, cred, seen, mark, won>>
    /\ return(r)

(* Copying the router's body to the caller fails on either side: the reverse  *)
(* proxy panics with http.ErrAbortHandler.  Deferred calls run; the log line, *)
(* which is not deferred, is never written.                                   *)
RelayBreaks(r) ==
    /\ pc[r] \in {"forward", "keyless"}
    /\ answer(r, 200, <<>>)
    /\ pc' = [pc EXCEPT ![r] = "aborted"]
    /\ slots' = slots \ {r} /\ held' = held \ {r}
    /\ UNCHANGED <<policy, req, cred, seen, mark, won, logged>>

Serve(r) ==
    \/ BodyArrives(r) \/ BodyDeadline(r)
    \/ CoreFails(r) \/ CoreAnswers(r) \/ StreamFrame(r) \/ StreamEnds(r) \/ StreamBreaks(r)
    \/ Poll(r) \/ KeylessRelay(r) \/ Relay(r) \/ RelayBreaks(r)

(* With nothing in hand the server may wait for ever.                         *)
AtRest == \A r \in Reqs : pc[r] \in {"idle", "done", "aborted"}

Next == (\E r \in Reqs : Arrive(r) \/ Serve(r)) \/ (AtRest /\ UNCHANGED vars)

(* A body read ends at its deadline, a core call within the walk's ceiling    *)
(* and a stream by its idle timeout (CandidateWalk), a poll at pollTimeout.   *)
(* Nothing bounds the router's answer to a forwarded request but the caller:  *)
(* that it comes, or the caller leaves, is assumed of the environment.        *)
Fairness ==
    \A r \in Reqs :
        /\ WF_vars(BodyDeadline(r))
        /\ WF_vars(CoreFails(r) \/ CoreAnswers(r) \/ StreamEnds(r) \/ StreamBreaks(r))
        /\ WF_vars(Poll(r))
        /\ WF_vars(Relay(r) \/ RelayBreaks(r))

Spec == Init /\ [][Next]_vars
LiveSpec == Spec /\ Fairness
-----------------------------------------------------------------------------
Finished(r) == pc[r] \in {"done", "aborted"}

(* Every variable keeps its type; a request is logged once at most.           *)
TypeOK ==
    /\ policy \in Policies
    /\ pc \in [Reqs -> Steps]
    /\ req \in [Reqs -> Requests]
    /\ cred \in [Reqs -> {"none", "nonbearer", "mgmt", "key", "cookie", "forbidden"}]
    /\ slots \subseteq Reqs /\ held \subseteq Reqs
    /\ seen \in [Reqs -> SUBSET {"prompt", "meta", "key"}]
    /\ mark \in [Reqs -> {"absent", "sealed", "none"}]
    /\ status \in [Reqs -> {0, 200, 202, 204, 400, 401, 403, 404, 408, 413, 429, 500, 501, 502, 503}]
    /\ won \in [Reqs -> BOOLEAN]
    /\ \A r \in Reqs : Len(out[r]) <= MaxFrames + 1 /\ Len(logged[r]) <= 1

(* Only the disclosed cases put a prompt before the router: a deployment that *)
(* seals nothing, a sub-resource of a sealed surface, a model that was read   *)
(* and is not sealed here, and an async submit asking for url format.  No     *)
(* spelling of a sealed path and no unreadable body is among them.            *)
PromptStaysSealed ==
    \A r \in Reqs : "prompt" \in seen[r] =>
        \/ policy.seal = "off"
        \/ req[r].path.form = "sub"
        \/ /\ policy.seal = "list" /\ req[r].path.res \notin Wildcards
           /\ req[r].body.model = "unlisted" /\ req[r].body.shape # "bad"
           /\ req[r].body.size # "over"
        \/ req[r].path.res = "async" /\ req[r].body.url

(* The key segment of a job id reaches neither the router nor the log,        *)
(* whatever the spelling, the method and the credential of the request.       *)
KeyStaysHere ==
    \A r \in Reqs : "key" \notin seen[r] /\ \A i \in 1..Len(logged[r]) : logged[r][i] # "key"

(* The marker says what happened to the prompt: one the router read says      *)
(* "none", whichever handlers the request went through, and an answer opened  *)
(* from an enclave never does.                                                *)
MarkerTruthful ==
    \A r \in Reqs : Finished(r) =>
        /\ "prompt" \in seen[r] => mark[r] = "none"
        /\ won[r] => mark[r] = "sealed"

(* The memory the ceiling prices: every body this process buffers belongs to  *)
(* a request that holds a slot and was served under a credential, and slots   *)
(* never exceed the one published ceiling however many rows share it.         *)
BufferedInsideCap ==
    /\ Cardinality(slots) <= MaxInFlight
    /\ held \subseteq slots
    /\ \A r \in slots : cred[r] \in {"key", "cookie"} /\ ~Finished(r)

(* An ambient credential is honoured only for an origin on a named allowlist. *)
CookieNeedsOrigin ==
    \A r \in Reqs : cred[r] = "cookie" => ~policy.open /\ req[r].origin = "allowed"

(* What a streaming caller reads as the end is the truth: "[DONE]" comes last *)
(* and only if the core succeeded, an error event only if it did not.         *)
StreamEndsHonestly ==
    \A r \in Reqs : \A i \in 1..Len(out[r]) :
        /\ out[r][i] = "[DONE]" => won[r] /\ i = Len(out[r])
        /\ out[r][i] = "error" => ~won[r]

(* A poll hands over only what opened under the job's key; a poll without a   *)
(* key never hands over a sealed frame as if it were the result.              *)
PollNeverDowngrades ==
    \A r \in Reqs : \A i \in 1..Len(out[r]) :
        /\ out[r][i] = "content" => won[r]
        /\ out[r][i] # "sealed"

(* A slot taken is a slot given back: no body, stream or poll keeps it.       *)
SlotsComeBack == \A r \in Reqs : r \in slots ~> r \notin slots

(* What the untrusted router gets to read: no prompt but the disclosed ones,  *)
(* and never a key.                                                           *)
RouterReadsNoSecret == PromptStaysSealed /\ KeyStaysHere

(* Memory and credentials at the gate: nothing is held for a request that was *)
(* not admitted, by a slot and under a credential it was entitled to use.     *)
AdmittedOnly == TypeOK /\ BufferedInsideCap /\ CookieNeedsOrigin

(* What a caller is told is true: the marker, the end of a stream, a result.  *)
AnswerTruthful == MarkerTruthful /\ StreamEndsHonestly /\ PollNeverDowngrades
=============================================================================
