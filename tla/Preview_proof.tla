----------------------------- MODULE Preview_proof -----------------------------
(***************************************************************************)
(* Proofs about Preview, for every set of concurrent calls, every number   *)
(* of attempts, every backoff, deadline, budget, trip count and cooldown,  *)
(* and about Envelope, the exchange a preview begins, for all requests,    *)
(* answers, client configurations and router edits EnvelopeAssumption      *)
(* allows, and every number of edits.                                      *)
(***************************************************************************)
EXTENDS Preview, Envelope, FiniteSetTheorems, TLAPS

-----------------------------------------------------------------------------
(* Attempts are counted: one is left while the loop still turns.              *)
Counted ==
    \A c \in Calls :
        /\ pc[c] = "idle" => attempt[c] = 0
        /\ pc[c] \in {"attempt", "retry", "backoff"} => attempt[c] < Attempts
        /\ pc[c] \in {"retry", "backoff", "giveup"} => attempt[c] >= 1
        /\ suppressed[c] > 0 => pc[c] \in {"giveup", "done"}

(* The ceiling, by where a call is: an attempt's deadline and a backoff's end *)
(* lie within it, and the clock does not pass either.                         *)
Timers ==
    \A c \in Calls :
        /\ pc[c] = "attempt" =>
              now <= timer[c] /\ timer[c] - start[c] <= RetryBudget + AttemptTimeout
        /\ pc[c] = "backoff" => now <= timer[c] /\ timer[c] - start[c] <= RetryBudget
        /\ pc[c] \in {"retry", "giveup"} => now - start[c] <= RetryBudget + AttemptTimeout

(* The gate's count against the run of unanswered calls it stands for.        *)
GateBooks ==
    /\ streak >= consecutive /\ lastNoAnswer <= now
    /\ openUntil > 0 => streak >= TripAfter
    /\ CooldownBounded

(* Until a call ends its outcome is the default, and the loop turns only on   *)
(* retryable failures.                                                        *)
Filing ==
    \A c \in Calls :
        /\ pc[c] # "done" => outcome[c] = "failed"
        /\ pc[c] \in {"retry", "backoff", "giveup"} => last[c] = "retryable"

PreviewInv ==
    TypeOK /\ Counted /\ Timers /\ GateBooks /\ Filing /\ AttributionHonest /\ SuppressionAccounts

-----------------------------------------------------------------------------
(* The type invariant, with the attempts counted.                             *)
LEMMA TypeStep == TypeOK /\ Counted /\ [Next]_vars => TypeOK' /\ Counted'
<1> SUFFICES ASSUME TypeOK, Counted, [Next]_vars PROVE TypeOK' /\ Counted'
  OBVIOUS
<1> USE PreviewAssumption DEF gate
<1>1. CASE Tick
  BY <1>1 DEF Tick, TypeOK, Counted
<1>2. ASSUME NEW c \in Calls, Start(c) PROVE TypeOK' /\ Counted'
  BY <1>2 DEF Start, TypeOK, Counted, Active
<1>3. ASSUME NEW c \in Calls, Leave(c) PROVE TypeOK' /\ Counted'
  BY <1>3 DEF Leave, TypeOK, Counted, Active
<1>4. ASSUME NEW c \in Calls, AttemptOK(c) PROVE TypeOK' /\ Counted'
  BY <1>4 DEF AttemptOK, finish, answered, TypeOK, Counted, Active, Results, Outcomes
<1>5. ASSUME NEW c \in Calls, NEW r \in Results, AttemptErr(c, r) PROVE TypeOK' /\ Counted'
  <2>1. callOutcome(attributed(c, r)) \in Outcomes
    BY DEF callOutcome, attributed, Outcomes
  <2> QED
    BY <1>5, <2>1 DEF AttemptErr, finish, TypeOK, Counted, Active, Results
<1>6. ASSUME NEW c \in Calls, Retry(c) PROVE TypeOK' /\ Counted'
  BY <1>6 DEF Retry, shed, TypeOK, Counted, Active
<1>7. ASSUME NEW c \in Calls, Wake(c) PROVE TypeOK' /\ Counted'
  BY <1>7 DEF Wake, TypeOK, Counted, Active
<1>8. ASSUME NEW c \in Calls, BackoffCanceled(c) PROVE TypeOK' /\ Counted'
  BY <1>8 DEF BackoffCanceled, finish, TypeOK, Counted, Active, Outcomes
<1>9. ASSUME NEW c \in Calls, GiveUp(c) PROVE TypeOK' /\ Counted'
  BY <1>9 DEF GiveUp, finish, noAnswer, TypeOK, Counted, Active
<1>10. CASE UNCHANGED vars
  BY <1>10 DEF vars, TypeOK, Counted
<1> QED
  BY <1>1, <1>2, <1>3, <1>4, <1>5, <1>6, <1>7, <1>8, <1>9, <1>10
  DEF Next, Step, AttemptEnds

(* No action lets a call outlive its timer.                                   *)
LEMMA TimersStep == TypeOK /\ Timers /\ [Next]_vars => Timers'
<1> SUFFICES ASSUME TypeOK, Timers, [Next]_vars PROVE Timers'
  OBVIOUS
<1> USE PreviewAssumption DEF gate
<1>1. CASE Tick
  BY <1>1 DEF Tick, TypeOK, Timers
<1>2. ASSUME NEW c \in Calls, Start(c) PROVE Timers'
  BY <1>2 DEF Start, TypeOK, Timers
<1>3. ASSUME NEW c \in Calls, Leave(c) PROVE Timers'
  BY <1>3 DEF Leave, TypeOK, Timers
<1>4. ASSUME NEW c \in Calls, AttemptOK(c) PROVE Timers'
  BY <1>4 DEF AttemptOK, finish, TypeOK, Timers
<1>5. ASSUME NEW c \in Calls, NEW r \in Results, AttemptErr(c, r) PROVE Timers'
  BY <1>5 DEF AttemptErr, finish, TypeOK, Timers
<1>6. ASSUME NEW c \in Calls, Retry(c) PROVE Timers'
  BY <1>6 DEF Retry, overBudget, TypeOK, Timers
<1>7. ASSUME NEW c \in Calls, Wake(c) PROVE Timers'
  BY <1>7 DEF Wake, TypeOK, Timers
<1>8. ASSUME NEW c \in Calls, BackoffCanceled(c) PROVE Timers'
  BY <1>8 DEF BackoffCanceled, finish, TypeOK, Timers
<1>9. ASSUME NEW c \in Calls, GiveUp(c) PROVE Timers'
  BY <1>9 DEF GiveUp, finish, TypeOK, Timers
<1>10. CASE UNCHANGED vars
  BY <1>10 DEF vars, TypeOK, Timers
<1> QED
  BY <1>1, <1>2, <1>3, <1>4, <1>5, <1>6, <1>7, <1>8, <1>9, <1>10
  DEF Next, Step, AttemptEnds

(* What any step does to the gate: nothing, one success, or one failure.      *)
LEMMA GateStep == TypeOK /\ GateBooks /\ [Next]_vars => GateBooks'
<1> SUFFICES ASSUME TypeOK, GateBooks, [Next]_vars PROVE GateBooks'
  OBVIOUS
<1> USE PreviewAssumption DEF GateBooks, CooldownBounded
<1>1. \/ UNCHANGED gate /\ now' \in {now, now + 1}
      \/ answered /\ now' = now
      \/ noAnswer /\ now' = now
  <2>1. CASE Tick
    BY <2>1 DEF Tick
  <2>2. ASSUME NEW c \in Calls, AttemptOK(c) PROVE answered /\ now' = now
    BY <2>2 DEF AttemptOK
  <2>3. ASSUME NEW c \in Calls, GiveUp(c) PROVE noAnswer /\ now' = now
    BY <2>3 DEF GiveUp
  <2>4. ASSUME NEW c \in Calls, NEW r \in Results, AttemptErr(c, r) PROVE UNCHANGED gate /\ now' = now
    BY <2>4 DEF AttemptErr
  <2>5. ASSUME NEW c \in Calls, Start(c) \/ Leave(c) \/ Retry(c) \/ Wake(c) \/ BackoffCanceled(c)
        PROVE  UNCHANGED gate /\ now' = now
    BY <2>5 DEF Start, Leave, Retry, Wake, BackoffCanceled
  <2>6. CASE UNCHANGED vars
    BY <2>6 DEF vars
  <2> QED
    BY <2>1, <2>2, <2>3, <2>4, <2>5, <2>6 DEF Next, Step, AttemptEnds
<1>2. CASE UNCHANGED gate /\ now' \in {now, now + 1}
  BY <1>2 DEF TypeOK, gate
<1>3. CASE answered /\ now' = now
  BY <1>3 DEF TypeOK, answered
<1>4. CASE noAnswer /\ now' = now
  BY <1>4 DEF TypeOK, noAnswer
<1> QED BY <1>1, <1>2, <1>3, <1>4

(* What a call is filed under, and the retries it shed.                       *)
Files == Filing /\ AttributionHonest /\ SuppressionAccounts

LEMMA FilesStep == TypeOK /\ Counted /\ Files /\ [Next]_vars => Files'
<1> SUFFICES ASSUME TypeOK, Counted, Files, [Next]_vars PROVE Files'
  OBVIOUS
<1> USE PreviewAssumption DEF gate, Files, Filing, AttributionHonest, SuppressionAccounts
<1>1. CASE Tick
  BY <1>1 DEF Tick
<1>2. ASSUME NEW c \in Calls, Start(c) PROVE Files'
  BY <1>2 DEF Start, TypeOK
<1>3. ASSUME NEW c \in Calls, Leave(c) PROVE Files'
  BY <1>3 DEF Leave, TypeOK, Active
<1>4. ASSUME NEW c \in Calls, AttemptOK(c) PROVE Files'
  BY <1>4 DEF AttemptOK, finish, TypeOK, Counted
<1>5. ASSUME NEW c \in Calls, NEW r \in Results, AttemptErr(c, r) PROVE Files'
  <2>1. CASE attributed(c, r) = "retryable"
    BY <1>5, <2>1 DEF AttemptErr, attributed, TypeOK, Counted
  <2>2. CASE attributed(c, r) # "retryable"
    BY <1>5, <2>2 DEF AttemptErr, attributed, callOutcome, finish, TypeOK, Counted
  <2> QED BY <2>1, <2>2
<1>6. ASSUME NEW c \in Calls, Retry(c) PROVE Files'
  BY <1>6 DEF Retry, shed, TypeOK, Counted
<1>7. ASSUME NEW c \in Calls, Wake(c) PROVE Files'
  BY <1>7 DEF Wake, TypeOK
<1>8. ASSUME NEW c \in Calls, BackoffCanceled(c) PROVE Files'
  BY <1>8 DEF BackoffCanceled, finish, TypeOK
<1>9. ASSUME NEW c \in Calls, GiveUp(c) PROVE Files'
  BY <1>9 DEF GiveUp, finish, TypeOK
<1>10. CASE UNCHANGED vars
  BY <1>10 DEF vars
<1> QED
  BY <1>1, <1>2, <1>3, <1>4, <1>5, <1>6, <1>7, <1>8, <1>9, <1>10
  DEF Next, Step, AttemptEnds

(* PreviewInv holds initially and every step preserves it.                    *)
LEMMA PreviewInvariant == Spec => []PreviewInv
<1>1. Init => PreviewInv
  <2> SUFFICES ASSUME Init PROVE PreviewInv
    OBVIOUS
  <2> USE PreviewAssumption
  <2>1. TypeOK
    BY DEF Init, TypeOK, Active, Outcomes, Results
  <2>2. Counted /\ Timers
    BY DEF Init, Counted, Timers
  <2>3. GateBooks
    BY DEF Init, GateBooks, CooldownBounded
  <2>4. Filing /\ AttributionHonest /\ SuppressionAccounts
    BY DEF Init, Filing, AttributionHonest, SuppressionAccounts
  <2> QED BY <2>1, <2>2, <2>3, <2>4 DEF PreviewInv
<1>2. PreviewInv /\ [Next]_vars => PreviewInv'
  BY TypeStep, TimersStep, GateStep, FilesStep DEF PreviewInv, Files
<1> QED
  BY <1>1, <1>2, PTL DEF Spec

-----------------------------------------------------------------------------
(* A preview holds its request's slot for its budget plus one attempt at most,*)
(* however attempts, backoffs and other calls interleave.                     *)
THEOREM CeilingHolds == Spec => []PreviewCeiling
<1>1. PreviewInv => PreviewCeiling
  BY PreviewAssumption DEF PreviewInv, TypeOK, Timers, PreviewCeiling, Active
<1> QED BY <1>1, PreviewInvariant, PTL

(* The shared gate closes only after a run of unanswered calls, and for one   *)
(* cooldown after the last of them at most.                                   *)
THEOREM GateIsFair == Spec => []GateFair
<1>1. PreviewInv => GateFair
  <2> SUFFICES ASSUME PreviewInv PROVE GateFair
    OBVIOUS
  <2>1. ~allow => openUntil > 0
    BY DEF PreviewInv, TypeOK, allow
  <2> QED BY <2>1 DEF PreviewInv, GateBooks, GateFair, TripNeedsRun
<1> QED BY <1>1, PreviewInvariant, PTL

(* Every call is filed under what its last attempt established, and the       *)
(* retries shed complete the attempts made.                                   *)
THEOREM CallsFiledTruly == Spec => []FiledTruly
<1>1. PreviewInv => FiledTruly
  BY DEF PreviewInv, FiledTruly
<1> QED BY <1>1, PreviewInvariant, PTL

-----------------------------------------------------------------------------
(* The sealed exchange.  Its inductive invariant: RequestInv, what is on its  *)
(* way to the enclave, AnswerInv, what is on its way back, and the five       *)
(* properties the run checks.                                                 *)

(* The request, and the answer, on its way or arrived.                        *)
Carried == stage \in {"sealed", "opened", "refused", "unpolled"}
Replied == stage \in {"answered", "delivered", "rejected"}

Shaped(m) == DOMAIN m = {"clear", "sealed", "unbound", "final", "ct"}

(* The ciphertext of m hides the fields s of msg, and was made beside the     *)
(* clear half c with the fields u unbound.                                    *)
Hides(m, msg, c, s, u, fin, key) ==
    m.ct = [pt |-> keep(msg, s), key |-> key,
            aad |-> [clear |-> drop(c, u), sealed |-> s, unbound |-> u, final |-> fin]]

(* m is as it was made.                                                       *)
Intact(m, c, s, u, fin) == m.clear = c /\ m.sealed = s /\ m.unbound = u /\ m.final = fin

(* The binding value of the client's own request is the client's, or one of   *)
(* the caller's that an operator had sealed.                                  *)
Binding(req) ==
    IF bindsResponse \/ requiresBind(prof) THEN fieldBind \in DOMAIN req /\ req[fieldBind] = "bind"
    ELSE fieldBind \in DOMAIN req => req[fieldBind] # "bind" /\ fieldBind \in conf.seal

UsageAsked(req) ==
    ("stream_options" \in DOMAIN req /\ req["stream_options"] = "include_usage")
        <=> (prof = "chat" /\ streams(req))

(* The client's own request, sealed with the fields s hidden.                 *)
SealedAs(s) ==
    /\ Hides(env, sent, drop(sent, s), s, conf.unbound, FALSE, "enclave")
    /\ validateSealInputs(prof, s, conf.unbound) /\ validateSealableRequest(prof, s, sent)
    /\ s \subseteq DOMAIN sent /\ conf.seal \cap DOMAIN sent \subseteq s
    /\ edits = 0 => Intact(env, drop(sent, s), s, conf.unbound, FALSE)

(* Private values lie where the API has them.                                 *)
Placed(msg, fields) == \A f \in DOMAIN msg : msg[f] \in private => f \in fields

(* What an envelope in transit was made from: Bodies, edited by the router in *)
(* the clear half only.                                                       *)
RequestInv ==
    /\ prof \in DOMAIN profiles /\ Shaped(env)
    /\ Placed(env.clear, requestContent[prof])
    /\ own => Binding(sent) /\ UsageAsked(sent) /\ (\E s : SealedAs(s))

(* The enclave and the client agree on whether the answer is bound.           *)
SameKey ==
    /\ fieldBind \in DOMAIN got => got[fieldBind] = "bind" /\ clientKey = "bind"
    /\ clientKey = "bind" => fieldBind \in DOMAIN got

Conforming ==
    IF prof = "asyncimage" THEN frame \in SealAsyncImageResult(back)
    ELSE \E unbound : \E final \in BOOLEAN : \E key \in TakeResponseBind(prof, got) :
            frame \in SealFrame(prof, back, unbound, final, key) /\ (buffered => final)

(* The answer was made of back, whoever made it.                              *)
Answers ==
    \E c, s, u, key : \E fin \in BOOLEAN :
        /\ Hides(frame, back, c, s, u, fin, key)
        /\ drop(c, s) = drop(back, s)

(* What an answer in transit was made from, and that the client holds the key *)
(* a conforming enclave would have sealed it under.                           *)
AnswerInv ==
    /\ prof \in DOMAIN profiles /\ own /\ Shaped(frame)
    /\ Placed(frame.clear, answerContent[prof])
    /\ SameKey /\ Answers
    /\ faithful /\ edits = 0 => Conforming

(* Inductive, and implies the five properties.                                *)
EnvelopeInv ==
    /\ EnvelopeTypeOK
    /\ stage = "previewed" => prof \in DOMAIN Bodies /\ sent \in Bodies[prof]
    /\ IF Carried THEN RequestInv ELSE env = none
    /\ stage = "opened" /\ own => SameKey
    /\ Replied => AnswerInv
    /\ PayloadStaysSealed /\ RebuiltAsMeant /\ AnswerUnreadable /\ ReadAsSealed /\ OwnMessagesOpen
-----------------------------------------------------------------------------
(* The profile table, row by row.                                             *)
LEMMA FieldNames ==
    ASSUME NEW N, NEW o \in BOOLEAN
    PROVE  names(payloadField(N, o)) = N
<1>1. \A x \in N : [name |-> x, optional |-> o] \in payloadField(N, o)
  BY DEF payloadField
<1>2. \A x \in N : [name |-> x, optional |-> o].name = x
  OBVIOUS
<1>3. \A f \in payloadField(N, o) : f.name \in N
  BY DEF payloadField
<1> QED
  BY <1>1, <1>2, <1>3 DEF names

LEMMA FieldOptional ==
    ASSUME NEW N, NEW o \in BOOLEAN
    PROVE  \A f \in payloadField(N, o) : f.optional <=> o
  BY DEF payloadField

LEMMA NamesAlone == ASSUME NEW N PROVE names(payloadField(N, FALSE)) = N
  BY FieldNames

LEMMA NamesJoin ==
    ASSUME NEW N, NEW M
    PROVE  names(payloadField(N, FALSE) \cup payloadField(M, TRUE)) = N \cup M
<1>1. names(payloadField(N, FALSE)) = N /\ names(payloadField(M, TRUE)) = M
  BY FieldNames
<1> QED
  BY <1>1 DEF names

LEMMA MandatoryAlone ==
    ASSUME NEW N PROVE mandatory(payloadField(N, FALSE)) = N
<1>1. {f \in payloadField(N, FALSE) : ~f.optional} = payloadField(N, FALSE)
  BY FieldOptional
<1> QED
  BY <1>1, FieldNames DEF mandatory

LEMMA MandatoryJoin ==
    ASSUME NEW N, NEW M PROVE mandatory(payloadField(N, FALSE) \cup payloadField(M, TRUE)) = N
<1>1. {f \in payloadField(N, FALSE) \cup payloadField(M, TRUE) : ~f.optional} = payloadField(N, FALSE)
  BY FieldOptional
<1> QED
  BY <1>1, FieldNames DEF mandatory

LEMMA ProfileNames ==
    DOMAIN profiles = {"chat", "image", "asyncimage", "anthropic", "speech", "embedding"}
  BY DEF profiles

LEMMA ChatRow ==
    /\ names(spec("chat").payload) = {"messages", "tools", "tool_choice"}
    /\ mandatory(spec("chat").payload) = {"messages"}
    /\ names(spec("chat").responsePayload) = {"choices"}
    /\ mandatory(spec("chat").responsePayload) = {"choices"}
    /\ ~spec("chat").typed /\ spec("chat").bound = {}
    /\ spec("chat").pinned = {}
    /\ spec("chat").protected = {}
    /\ spec("chat").requiredResponseCleartext = {}
<1>1. spec("chat") = ProfileChat
  BY DEF spec, profiles
<1>2. /\ ProfileChat.payload = payloadField({"messages"}, FALSE)
                                   \cup payloadField({"tools", "tool_choice"}, TRUE)
      /\ ProfileChat.responsePayload = payloadField({"choices"}, FALSE)
      /\ ~ProfileChat.typed /\ ProfileChat.bound = {}
  BY DEF ProfileChat, profileSpec
<1>3. /\ ProfileChat.pinned = {}
      /\ ProfileChat.protected = {}
      /\ ProfileChat.requiredResponseCleartext = {}
  BY DEF ProfileChat, profileSpec
<1>4. names(ProfileChat.payload) = {"messages"} \cup {"tools", "tool_choice"}
  BY <1>2, NamesJoin
<1>5. mandatory(ProfileChat.payload) = {"messages"}
  BY <1>2, MandatoryJoin
<1>6. names(ProfileChat.responsePayload) = {"choices"}
  BY <1>2, NamesAlone
<1>7. mandatory(ProfileChat.responsePayload) = {"choices"}
  BY <1>2, MandatoryAlone
<1>8. ~spec("chat").typed
  BY <1>1, <1>2
<1> QED
  BY <1>1, <1>2, <1>3, <1>4, <1>5, <1>6, <1>7, <1>8

LEMMA ImageRow ==
    /\ names(spec("image").payload) = {"prompt"} /\ mandatory(spec("image").payload) = {"prompt"}
    /\ names(spec("image").responsePayload) = {"data"}
    /\ mandatory(spec("image").responsePayload) = {"data"}
    /\ ~spec("image").typed /\ spec("image").bound = {}
    /\ spec("image").pinned = {b64Only}
    /\ spec("image").protected = {}
    /\ spec("image").requiredResponseCleartext = {imagesDelivered}
<1>1. spec("image") = ProfileImage
  BY DEF spec, profiles
<1>2. /\ ProfileImage.payload = payloadField({"prompt"}, FALSE)
      /\ ProfileImage.responsePayload = payloadField({"data"}, FALSE)
      /\ ~ProfileImage.typed /\ ProfileImage.bound = {}
  BY DEF ProfileImage, profileSpec
<1>3. /\ ProfileImage.pinned = {b64Only}
      /\ ProfileImage.protected = {}
      /\ ProfileImage.requiredResponseCleartext = {imagesDelivered}
  BY DEF ProfileImage, profileSpec
<1>4. names(ProfileImage.payload) = {"prompt"}
  BY <1>2, NamesAlone
<1>5. mandatory(ProfileImage.payload) = {"prompt"}
  BY <1>2, MandatoryAlone
<1>6. names(ProfileImage.responsePayload) = {"data"}
  BY <1>2, NamesAlone
<1>7. mandatory(ProfileImage.responsePayload) = {"data"}
  BY <1>2, MandatoryAlone
<1>8. ~spec("image").typed
  BY <1>1, <1>2
<1> QED
  BY <1>1, <1>2, <1>3, <1>4, <1>5, <1>6, <1>7, <1>8

LEMMA AsyncimageRow ==
    /\ names(spec("asyncimage").payload) = {"prompt", "_bind"}
    /\ mandatory(spec("asyncimage").payload) = {"prompt", "_bind"}
    /\ names(spec("asyncimage").responsePayload) = {"data"}
    /\ mandatory(spec("asyncimage").responsePayload) = {"data"}
    /\ ~spec("asyncimage").typed /\ spec("asyncimage").bound = {"jobId", "status"}
    /\ spec("asyncimage").pinned = {b64Only}
    /\ spec("asyncimage").protected = {}
    /\ spec("asyncimage").requiredResponseCleartext = {imagesDelivered}
<1>1. spec("asyncimage") = ProfileAsyncImage
  BY DEF spec, profiles
<1>2. /\ ProfileAsyncImage.payload = payloadField({"prompt", "_bind"}, FALSE)
      /\ ProfileAsyncImage.responsePayload = payloadField({"data"}, FALSE)
      /\ ~ProfileAsyncImage.typed /\ ProfileAsyncImage.bound = {"jobId", "status"}
  BY DEF ProfileAsyncImage, profileSpec, fieldBind
<1>3. /\ ProfileAsyncImage.pinned = {b64Only}
      /\ ProfileAsyncImage.protected = {}
      /\ ProfileAsyncImage.requiredResponseCleartext = {imagesDelivered}
  BY DEF ProfileAsyncImage, profileSpec, fieldBind
<1>4. names(ProfileAsyncImage.payload) = {"prompt", "_bind"}
  BY <1>2, NamesAlone
<1>5. mandatory(ProfileAsyncImage.payload) = {"prompt", "_bind"}
  BY <1>2, MandatoryAlone
<1>6. names(ProfileAsyncImage.responsePayload) = {"data"}
  BY <1>2, NamesAlone
<1>7. mandatory(ProfileAsyncImage.responsePayload) = {"data"}
  BY <1>2, MandatoryAlone
<1>8. ~spec("asyncimage").typed
  BY <1>1, <1>2
<1> QED
  BY <1>1, <1>2, <1>3, <1>4, <1>5, <1>6, <1>7, <1>8

LEMMA AnthropicRow ==
    /\ names(spec("anthropic").payload) = {"messages", "system", "tools", "tool_choice"}
    /\ mandatory(spec("anthropic").payload) = {"messages"}
    /\ names(spec("anthropic").responsePayload) = {}
    /\ mandatory(spec("anthropic").responsePayload) = {}
    /\ spec("anthropic").typed /\ spec("anthropic").bound = {}
    /\ spec("anthropic").pinned = {}
    /\ spec("anthropic").protected = {protectedCleartext("message")}
    /\ spec("anthropic").requiredResponseCleartext = {}
<1>1. spec("anthropic") = ProfileAnthropic
  BY DEF spec, profiles
<1>2. /\ ProfileAnthropic.payload = payloadField({"messages"}, FALSE)
                                        \cup payloadField({"system", "tools", "tool_choice"}, TRUE)
      /\ ProfileAnthropic.responsePayload = {}
      /\ ProfileAnthropic.typed /\ ProfileAnthropic.bound = {}
  BY DEF ProfileAnthropic, profileSpec
<1>3. /\ ProfileAnthropic.pinned = {}
      /\ ProfileAnthropic.protected = {protectedCleartext("message")}
      /\ ProfileAnthropic.requiredResponseCleartext = {}
  BY DEF ProfileAnthropic, profileSpec
<1>4. names(ProfileAnthropic.payload) = {"messages"} \cup {"system", "tools", "tool_choice"}
  BY <1>2, NamesJoin
<1>5. mandatory(ProfileAnthropic.payload) = {"messages"}
  BY <1>2, MandatoryJoin
<1>6. names(ProfileAnthropic.responsePayload) = {}
  BY <1>2 DEF names
<1>7. mandatory(ProfileAnthropic.responsePayload) = {}
  BY <1>2 DEF names, mandatory
<1>8. spec("anthropic").typed
  BY <1>1, <1>2
<1> QED
  BY <1>1, <1>2, <1>3, <1>4, <1>5, <1>6, <1>7, <1>8

LEMMA SpeechRow ==
    /\ names(spec("speech").payload) = {"file_base64", "filename", "language", "prompt"}
    /\ mandatory(spec("speech").payload) = {"file_base64"}
    /\ names(spec("speech").responsePayload) = {"text", "segments", "words", "language"}
    /\ mandatory(spec("speech").responsePayload) = {"text"}
    /\ ~spec("speech").typed /\ spec("speech").bound = {}
    /\ spec("speech").pinned = {pinnedField("response_format", {"json", "verbose_json"}, FALSE),
                                pinnedField("stream", {"false"}, TRUE)}
    /\ spec("speech").protected = {}
    /\ spec("speech").requiredResponseCleartext =
           {cleartextQuantity({cleartextNumber("usage", TRUE), cleartextNumber("duration", FALSE)},
                              "fractional")}
<1>1. spec("speech") = ProfileSpeech
  BY DEF spec, profiles
<1>2. /\ ProfileSpeech.payload = payloadField({"file_base64"}, FALSE)
                                     \cup payloadField({"filename", "language", "prompt"}, TRUE)
      /\ ProfileSpeech.responsePayload = payloadField({"text"}, FALSE)
                                             \cup payloadField({"segments", "words", "language"}, TRUE)
      /\ ~ProfileSpeech.typed /\ ProfileSpeech.bound = {}
  BY DEF ProfileSpeech, profileSpec
<1>3. /\ ProfileSpeech.pinned = {pinnedField("response_format", {"json", "verbose_json"}, FALSE),
                                 pinnedField("stream", {"false"}, TRUE)}
      /\ ProfileSpeech.protected = {}
      /\ ProfileSpeech.requiredResponseCleartext =
             {cleartextQuantity({cleartextNumber("usage", TRUE), cleartextNumber("duration", FALSE)},
                                "fractional")}
  BY DEF ProfileSpeech, profileSpec
<1>4. names(ProfileSpeech.payload) = {"file_base64"} \cup {"filename", "language", "prompt"}
  BY <1>2, NamesJoin
<1>5. mandatory(ProfileSpeech.payload) = {"file_base64"}
  BY <1>2, MandatoryJoin
<1>6. names(ProfileSpeech.responsePayload) = {"text"} \cup {"segments", "words", "language"}
  BY <1>2, NamesJoin
<1>7. mandatory(ProfileSpeech.responsePayload) = {"text"}
  BY <1>2, MandatoryJoin
<1>8. ~spec("speech").typed
  BY <1>1, <1>2
<1> QED
  BY <1>1, <1>2, <1>3, <1>4, <1>5, <1>6, <1>7, <1>8

LEMMA EmbeddingRow ==
    /\ names(spec("embedding").payload) = {"input"} /\ mandatory(spec("embedding").payload) = {"input"}
    /\ names(spec("embedding").responsePayload) = {"data"}
    /\ mandatory(spec("embedding").responsePayload) = {"data"}
    /\ ~spec("embedding").typed /\ spec("embedding").bound = {}
    /\ spec("embedding").pinned = {}
    /\ spec("embedding").protected = {}
    /\ spec("embedding").requiredResponseCleartext =
           {cleartextQuantity({cleartextNumber("usage", TRUE)}, "whole")}
<1>1. spec("embedding") = ProfileEmbedding
  BY DEF spec, profiles
<1>2. /\ ProfileEmbedding.payload = payloadField({"input"}, FALSE)
      /\ ProfileEmbedding.responsePayload = payloadField({"data"}, FALSE)
      /\ ~ProfileEmbedding.typed /\ ProfileEmbedding.bound = {}
  BY DEF ProfileEmbedding, profileSpec
<1>3. /\ ProfileEmbedding.pinned = {}
      /\ ProfileEmbedding.protected = {}
      /\ ProfileEmbedding.requiredResponseCleartext =
             {cleartextQuantity({cleartextNumber("usage", TRUE)}, "whole")}
  BY DEF ProfileEmbedding, profileSpec
<1>4. names(ProfileEmbedding.payload) = {"input"}
  BY <1>2, NamesAlone
<1>5. mandatory(ProfileEmbedding.payload) = {"input"}
  BY <1>2, MandatoryAlone
<1>6. names(ProfileEmbedding.responsePayload) = {"data"}
  BY <1>2, NamesAlone
<1>7. mandatory(ProfileEmbedding.responsePayload) = {"data"}
  BY <1>2, MandatoryAlone
<1>8. ~spec("embedding").typed
  BY <1>1, <1>2
<1> QED
  BY <1>1, <1>2, <1>3, <1>4, <1>5, <1>6, <1>7, <1>8

LEMMA FrameNames ==
    DOMAIN anthropicFrames = {"message", "message_start", "content_block_stop", "ping",
                              "content_block_start", "content_block_delta", "message_delta",
                              "message_stop", "error"}
  BY DEF anthropicFrames

LEMMA FrameShapes ==
    /\ anthropicFrames["message"].content = {"content"}
    /\ anthropicFrames["message"].sealIfPresent = {"stop_sequence"}
    /\ \A k \in {"message_start", "content_block_stop", "ping", "message_stop"} :
           anthropicFrames[k].content = {}
    /\ anthropicFrames["content_block_start"].content = {"content_block"}
    /\ \A k \in {"content_block_delta", "message_delta"} : anthropicFrames[k].content = {"delta"}
    /\ anthropicFrames["error"].content = {"error"}
    /\ \A k \in DOMAIN anthropicFrames \ {"message"} : anthropicFrames[k].sealIfPresent = {}
<1> DEFINE A(k, c, s) == anthropicFrames[k].content = c /\ anthropicFrames[k].sealIfPresent = s
<1>1. A("message", {"content"}, {"stop_sequence"})
  BY DEF anthropicFrames, frameShape
<1>2. A("message_start", {}, {}) /\ A("content_block_stop", {}, {})
  BY DEF anthropicFrames, frameShape
<1>3. A("ping", {}, {}) /\ A("message_stop", {}, {})
  BY DEF anthropicFrames, frameShape
<1>4. A("content_block_start", {"content_block"}, {}) /\ A("error", {"error"}, {})
  BY DEF anthropicFrames, frameShape
<1>5. A("content_block_delta", {"delta"}, {}) /\ A("message_delta", {"delta"}, {})
  BY DEF anthropicFrames, frameShape
<1> QED
  BY <1>1, <1>2, <1>3, <1>4, <1>5, FrameNames

LEMMA AnthropicContent ==
    answerContent["anthropic"] = contentFields \cup {"message"}
<1>1. contentFields = {"content", "stop_sequence", "content_block", "delta", "error"}
  BY FrameNames, FrameShapes DEF contentFields
<1> QED
  BY <1>1 DEF answerContent

(* A shape that seals nothing of its own has nothing to seal if present.      *)
LEMMA NoContentNoSeal ==
    \A k \in DOMAIN anthropicFrames :
        anthropicFrames[k].content = {} => anthropicFrames[k].sealIfPresent = {}
  BY FrameShapes

-----------------------------------------------------------------------------
(* What the rules come to, profile by profile.                                *)
LEMMA PayloadCovers ==
    ASSUME NEW p \in DOMAIN profiles
    PROVE  requestContent[p] \subseteq names(spec(p).payload)
  BY ProfileNames, ChatRow, ImageRow, AsyncimageRow, AnthropicRow, SpeechRow, EmbeddingRow
     DEF requestContent

LEMMA UnknownCovers == requestContent["unknown"] \subseteq everyProfilesPayloadFields
<1>1. \A p \in DOMAIN profiles : names(spec(p).payload) \subseteq everyProfilesPayloadFields
  BY DEF everyProfilesPayloadFields, DefaultSealedFieldsFor
<1> QED
  BY <1>1, ProfileNames, ChatRow, AnthropicRow, SpeechRow, EmbeddingRow DEF requestContent

LEMMA BindRequired ==
    ASSUME NEW p \in DOMAIN profiles
    PROVE  /\ requiresBind(p) <=> p = "asyncimage"
           /\ fieldBind \in names(spec(p).payload) <=> p = "asyncimage"
  BY ProfileNames, ChatRow, ImageRow, AsyncimageRow, AnthropicRow, SpeechRow, EmbeddingRow
     DEF requiresBind, fieldBind

LEMMA Typed == ASSUME NEW p \in DOMAIN profiles PROVE spec(p).typed <=> p = "anthropic"
  BY ProfileNames, ChatRow, ImageRow, AsyncimageRow, AnthropicRow, SpeechRow, EmbeddingRow

LEMMA ContentIsPayload ==
    ASSUME NEW p \in DOMAIN profiles, p # "anthropic"
    PROVE  answerContent[p] = names(spec(p).responsePayload)
<1>1. /\ answerContent["chat"] = {"choices"} /\ answerContent["image"] = {"data"}
      /\ answerContent["asyncimage"] = {"data"} /\ answerContent["embedding"] = {"data"}
      /\ answerContent["speech"] = {"text", "segments", "words", "language"}
  BY DEF answerContent
<1>2. CASE p = "speech"
  BY <1>1, <1>2, SpeechRow
<1>3. CASE p \in {"chat", "embedding"}
  BY <1>1, <1>3, ChatRow, EmbeddingRow
<1>4. CASE p \in {"image", "asyncimage"}
  BY <1>1, <1>4, ImageRow, AsyncimageRow
<1> QED
  BY <1>2, <1>3, <1>4, ProfileNames

(* The fields that decide how content comes back.                             *)
LEMMA PinnedRules ==
    ASSUME NEW p \in DOMAIN profiles, NEW req, validatePinnedValues(p, req)
    PROVE  /\ p \in {"image", "asyncimage"} =>
                 "response_format" \in DOMAIN req /\ req["response_format"] = "b64_json"
           /\ p = "speech" =>
                 /\ "response_format" \in DOMAIN req
                 /\ req["response_format"] \in {"json", "verbose_json"}
                 /\ ~streams(req)
<1>1. \A v, s : cleartextToken(v) \cap s # {} => v \in s
  BY DEF cleartextToken
<1>2. b64Only.field = "response_format" /\ b64Only.permitted = {"b64_json"} /\ ~b64Only.optional
  BY DEF b64Only, pinnedField
<1>3. CASE p \in {"image", "asyncimage"}
  BY <1>1, <1>2, <1>3, ImageRow, AsyncimageRow DEF validatePinnedValues
<1>4. CASE p = "speech"
  <2>1. PICK a, b : a = pinnedField("response_format", {"json", "verbose_json"}, FALSE)
                    /\ b = pinnedField("stream", {"false"}, TRUE)
    OBVIOUS
  <2>2. /\ a.field = "response_format" /\ a.permitted = {"json", "verbose_json"} /\ ~a.optional
        /\ b.field = "stream" /\ b.permitted = {"false"}
    BY <2>1 DEF pinnedField
  <2>3. a \in spec(p).pinned /\ b \in spec(p).pinned
    BY <2>1, <1>4, SpeechRow
  <2>4. "response_format" \in DOMAIN req /\ req["response_format"] \in {"json", "verbose_json"}
    BY <1>1, <2>2, <2>3 DEF validatePinnedValues
  <2>5. ASSUME "stream" \in DOMAIN req PROVE req["stream"] = "false"
    <3>1. cleartextToken(req[b.field]) \cap b.permitted # {}
      BY <2>2, <2>3, <2>5 DEF validatePinnedValues
    <3>2. req[b.field] \in b.permitted
      BY <1>1, <3>1
    <3> QED
      BY <2>2, <3>2
  <2> QED
    BY <1>4, <2>4, <2>5 DEF streams
<1> QED
  BY <1>3, <1>4

LEMMA PinnedFields ==
    ASSUME NEW p \in {"image", "asyncimage", "speech"} PROVE "response_format" \in pins(p)
<1>1. b64Only.field = "response_format"
  BY DEF b64Only, pinnedField
<1>2. pinnedField("response_format", {"json", "verbose_json"}, FALSE).field = "response_format"
  BY DEF pinnedField
<1>3. \E pin \in spec(p).pinned : pin.field = "response_format"
  BY <1>1, <1>2, ImageRow, AsyncimageRow, SpeechRow
<1> QED
  BY <1>3 DEF pins

-----------------------------------------------------------------------------
(* Messages and their parts.                                                  *)
LEMMA KeepParts ==
    ASSUME NEW msg, NEW fields
    PROVE  /\ DOMAIN keep(msg, fields) = DOMAIN msg \cap fields
           /\ \A f \in DOMAIN msg \cap fields : keep(msg, fields)[f] = msg[f]
  BY DEF keep

LEMMA DropParts ==
    ASSUME NEW msg, NEW fields
    PROVE  /\ DOMAIN drop(msg, fields) = DOMAIN msg \ fields
           /\ \A f \in DOMAIN msg \ fields : drop(msg, fields)[f] = msg[f]
  BY DEF drop

LEMMA DropEqual ==
    ASSUME NEW a, NEW b, NEW fields,
           DOMAIN a \ fields = DOMAIN b \ fields,
           \A f \in DOMAIN a \ fields : a[f] = b[f]
    PROVE  drop(a, fields) = drop(b, fields)
  BY DEF drop

LEMMA KeepEqual ==
    ASSUME NEW a, NEW b, NEW fields,
           DOMAIN a \cap fields = DOMAIN b \cap fields,
           \A f \in DOMAIN a \cap fields : a[f] = b[f]
    PROVE  keep(a, fields) = keep(b, fields)
  BY DEF keep

LEMMA WithParts ==
    ASSUME NEW msg, NEW x, NEW v
    PROVE  /\ DOMAIN with(msg, x, v) = DOMAIN msg \cup {x}
           /\ with(msg, x, v)[x] = v
           /\ \A f \in DOMAIN msg \ {x} : with(msg, x, v)[f] = msg[f]
  BY DEF with

LEMMA MergeParts ==
    ASSUME NEW a, NEW b, DOMAIN a \cap DOMAIN b = {}
    PROVE  /\ DOMAIN merge(a, b) = DOMAIN a \cup DOMAIN b
           /\ \A f \in DOMAIN a : merge(a, b)[f] = a[f]
           /\ \A f \in DOMAIN b : merge(a, b)[f] = b[f]
  BY DEF merge

(* encrypt adds the ciphertext and changes nothing else.                      *)
Made(m, c, s, u, fin, pt, key) ==
    /\ Shaped(m) /\ Intact(m, c, s, u, fin)
    /\ m.ct = [pt |-> pt, key |-> key,
               aad |-> [clear |-> drop(c, u), sealed |-> s, unbound |-> u, final |-> fin]]

LEMMA Encrypted ==
    ASSUME NEW c, NEW s, NEW u, NEW fin \in BOOLEAN, NEW pt, NEW key, NEW m, NEW n,
           Shaped(n), Intact(n, c, s, u, fin), m = encrypt(n, pt, key)
    PROVE  Made(m, c, s, u, fin, pt, key)
<1>1. PICK a : a = aadFromEnvelope(n)
  OBVIOUS
<1>2. a = [clear |-> drop(c, u), sealed |-> s, unbound |-> u, final |-> fin]
  BY <1>1 DEF aadFromEnvelope, Intact
<1>3. m = [n EXCEPT !.ct = [pt |-> pt, aad |-> a, key |-> key]]
  BY <1>1 DEF encrypt
<1>4. Shaped(m)
  BY <1>3 DEF Shaped
<1>5. Intact(m, c, s, u, fin)
  BY <1>3 DEF Intact, Shaped
<1> QED
  BY <1>2, <1>3, <1>4, <1>5 DEF Made, Shaped

LEMMA Drafted ==
    ASSUME NEW c, NEW s, NEW u, NEW fin \in BOOLEAN, NEW n,
           n = [none EXCEPT !.clear = c, !.sealed = s, !.unbound = u, !.final = fin]
    PROVE  Shaped(n) /\ Intact(n, c, s, u, fin)
<1>1. Shaped(n)
  BY DEF Shaped, none
<1>2. n.clear = c /\ n.sealed = s /\ n.unbound = u
  BY DEF none
<1>3. n.final = fin
  BY DEF none
<1> QED
  BY <1>1, <1>2, <1>3 DEF Intact

LEMMA Rebuilt ==
    ASSUME NEW m, NEW out, out \in rebuild(m)
    PROVE  /\ DOMAIN m.ct.pt = m.sealed /\ m.sealed \cap DOMAIN m.clear = {}
           /\ DOMAIN out = m.sealed \cup DOMAIN m.clear
           /\ \A f \in m.sealed : out[f] = m.ct.pt[f]
           /\ \A f \in DOMAIN m.clear : out[f] = m.clear[f]
<1>1. PICK pt, clear, s : pt = m.ct.pt /\ clear = m.clear /\ s = m.sealed
  OBVIOUS
<1>2. out = merge(pt, clear) /\ DOMAIN pt = s /\ DOMAIN pt \cap DOMAIN clear = {}
  BY <1>1 DEF rebuild
<1>3. /\ DOMAIN out = DOMAIN pt \cup DOMAIN clear
      /\ \A f \in DOMAIN pt : out[f] = pt[f]
      /\ \A f \in DOMAIN clear : out[f] = clear[f]
  BY <1>2 DEF merge
<1> QED
  BY <1>1, <1>2, <1>3

(* What opens is what was sealed, apart from what was left unbound.           *)
OpensAs(m, msg, c, s, u, fin, out) ==
    /\ m.sealed = s /\ m.unbound = u /\ m.final = fin
    /\ s \subseteq DOMAIN msg /\ s \cap DOMAIN m.clear = {}
    /\ DOMAIN out = s \cup DOMAIN m.clear
    /\ \A f \in s : out[f] = msg[f]
    /\ \A f \in DOMAIN m.clear : out[f] = m.clear[f]
    /\ DOMAIN m.clear \ u = DOMAIN c \ u
    /\ \A f \in DOMAIN c \ u : m.clear[f] = c[f]

LEMMA Opening ==
    ASSUME NEW m, NEW msg, NEW c, NEW s, NEW u, NEW fin \in BOOLEAN, NEW key, NEW k, NEW out,
           Hides(m, msg, c, s, u, fin, key), opens(m, k), out \in rebuild(m)
    PROVE  k = key /\ OpensAs(m, msg, c, s, u, fin, out)
<1>1. PICK a : a = [clear |-> drop(c, u), sealed |-> s, unbound |-> u, final |-> fin]
  OBVIOUS
<1>2. m.ct = [pt |-> keep(msg, s), key |-> key, aad |-> a]
  BY <1>1 DEF Hides
<1>3. m.ct.pt = keep(msg, s) /\ m.ct.key = key /\ m.ct.aad = a
  BY <1>2
<1>4. key = k /\ aadFromEnvelope(m) = a
  BY <1>3 DEF opens
<1>5. PICK b : b = aadFromEnvelope(m)
  OBVIOUS
<1>6. b.clear = drop(m.clear, m.unbound) /\ b.sealed = m.sealed /\ b.unbound = m.unbound
      /\ b.final = m.final
  BY <1>5 DEF aadFromEnvelope
<1>7. a.clear = drop(c, u) /\ a.sealed = s /\ a.unbound = u /\ a.final = fin
  BY <1>1
<1>8. m.sealed = s /\ m.unbound = u /\ m.final = fin /\ drop(m.clear, u) = drop(c, u)
  BY <1>4, <1>5, <1>6, <1>7
<1>9. PICK clear, pt : clear = m.clear /\ pt = m.ct.pt
  OBVIOUS
<1>10. DOMAIN clear \ u = DOMAIN c \ u /\ \A f \in DOMAIN c \ u : clear[f] = c[f]
  <2>1. drop(clear, u) = drop(c, u)
    BY <1>8, <1>9
  <2> QED
    BY <2>1 DEF drop
<1>11. /\ DOMAIN pt = s /\ s \cap DOMAIN clear = {} /\ DOMAIN out = s \cup DOMAIN clear
       /\ \A f \in s : out[f] = pt[f]
       /\ \A f \in DOMAIN clear : out[f] = clear[f]
  <2>1. /\ DOMAIN m.ct.pt = m.sealed /\ m.sealed \cap DOMAIN m.clear = {}
        /\ DOMAIN out = m.sealed \cup DOMAIN m.clear
        /\ \A f \in m.sealed : out[f] = m.ct.pt[f]
        /\ \A f \in DOMAIN m.clear : out[f] = m.clear[f]
    BY Rebuilt
  <2> QED
    BY <1>8, <1>9, <2>1
<1>12. s \subseteq DOMAIN msg /\ \A f \in s : pt[f] = msg[f]
  <2>1. pt = keep(msg, s)
    BY <1>3, <1>9
  <2> QED
    BY <2>1, <1>11 DEF keep
<1> QED
  BY <1>4, <1>8, <1>9, <1>10, <1>11, <1>12 DEF OpensAs

-----------------------------------------------------------------------------
(* The rules on a frame.                                                      *)
LEMMA NothingToRead ==
    ASSUME NEW p \in DOMAIN profiles, NEW clear, NEW sealed,
           validateResponseSealedFieldsForFrame(p, clear, sealed),
           sealed \cap DOMAIN clear = {}, Placed(clear, answerContent[p])
    PROVE  values(clear) \cap private = {}
<1>1. SUFFICES ASSUME NEW f \in DOMAIN clear, clear[f] \in private PROVE FALSE
  BY DEF values
<1>2. f \in answerContent[p]
  BY <1>1 DEF Placed
<1>3. CASE p = "anthropic"
  <2>1. spec(p).typed
    BY Typed, <1>3
  <2>2. validateTypedFrame(clear, sealed) /\ validateProtectedCleartextFor(p, clear, sealed)
    BY <2>1 DEF validateResponseSealedFieldsForFrame
  <2>3. f \in contentFields => f \in sealed
    BY <2>2 DEF validateTypedFrame, validateNoCleartextContent
  <2>4. f = "message"
    BY <1>2, <1>3, <2>3, AnthropicContent
  <2>5. protectedCleartext("message").field = "message"
    BY DEF protectedCleartext
  <2>6. clear["message"] \in emptyObjects \cup {"null"}
    BY <1>3, <2>2, <2>4, <2>5, AnthropicRow DEF validateProtectedCleartextFor
  <2> QED
    BY <1>1, <2>4, <2>6 DEF emptyObjects, private
<1>4. CASE p # "anthropic"
  <2>1. ~spec(p).typed
    BY Typed, <1>4
  <2>2. validateResponseSealedFieldsFor(p, sealed) /\ validateResponseSealedIfPresent(p, clear, sealed)
    BY <2>1 DEF validateResponseSealedFieldsForFrame
  <2>3. f \in names(spec(p).responsePayload)
    BY <1>2, <1>4, ContentIsPayload
  <2> QED
    BY <2>2, <2>3 DEF validateResponseSealedFieldsFor, validateResponseSealedIfPresent
<1> QED
  BY <1>3, <1>4

LEMMA Locators ==
    /\ \A p \in {"image", "asyncimage", "embedding"} : locatorFields(p) = {"usage"}
    /\ locatorFields("speech") = {"usage", "duration"}
<1>1. PICK a, b : a = cleartextNumber("usage", TRUE) /\ b = cleartextNumber("duration", FALSE)
  OBVIOUS
<1>2. a.field = "usage" /\ b.field = "duration"
  BY <1>1 DEF cleartextNumber
<1>3. /\ imagesDelivered.locators = {a}
      /\ cleartextQuantity({a}, "whole").locators = {a}
      /\ cleartextQuantity({a, b}, "fractional").locators = {a, b}
  BY <1>1 DEF imagesDelivered, cleartextQuantity
<1>4. /\ spec("image").requiredResponseCleartext = {imagesDelivered}
      /\ spec("asyncimage").requiredResponseCleartext = {imagesDelivered}
      /\ spec("embedding").requiredResponseCleartext = {cleartextQuantity({a}, "whole")}
      /\ spec("speech").requiredResponseCleartext = {cleartextQuantity({a, b}, "fractional")}
  BY <1>1, ImageRow, AsyncimageRow, EmbeddingRow, SpeechRow
<1> QED
  BY <1>2, <1>3, <1>4 DEF locatorFields

LEMMA SealedNames ==
    ASSUME NEW p \in DOMAIN profiles, NEW msg, NEW sealed,
           validateResponseSealedFieldsForFrame(p, msg, sealed)
    PROVE  /\ "usage" \notin sealed /\ e2eeKey \notin sealed
           /\ sealed \cap locatorFields(p) = {}
<1>1. validateResponseSealedFieldNames(sealed) /\ validateQuantityLocatorsNotSealed(p, sealed)
  BY DEF validateResponseSealedFieldsForFrame, validateTypedFrame, validateResponseSealedFieldsFor,
         validateResponseSealedFields
<1> QED
  BY <1>1 DEF validateResponseSealedFieldNames, validateQuantityLocatorsNotSealed,
              mustStayCleartextInResponse

(* What a decision is keyed off is neither sealed nor unbound.                *)
LEMMA DecisiveKept ==
    ASSUME prof \in DOMAIN profiles, NEW msg, NEW sealed, NEW unbound,
           validateResponseSealedFieldsForFrame(prof, msg, sealed),
           validateResponseUnboundFieldsFor(prof, unbound)
    PROVE  decisive \cap (sealed \cup unbound) = {}
<1>1. "usage" \notin sealed /\ sealed \cap locatorFields(prof) = {}
  BY SealedNames
<1>2. "usage" \notin unbound
  BY DEF validateResponseUnboundFieldsFor, validateResponseUnboundFields, mustStayBoundInResponse
<1>3. CASE prof = "anthropic"
  <2>1. spec(prof).typed
    BY Typed, <1>3
  <2>2. protectedCleartext("message").field = "message"
    BY DEF protectedCleartext
  <2>3. "type" \notin sealed /\ "message" \notin sealed
    BY <1>3, <2>1, <2>2, AnthropicRow
       DEF validateResponseSealedFieldsForFrame, validateTypedFrame, validateProtectedCleartextFor,
           discriminator
  <2>4. "type" \notin unbound /\ "message" \notin unbound
    BY <1>3, <2>1, <2>2, AnthropicRow DEF validateResponseUnboundFieldsFor, discriminator
  <2> QED
    BY <1>1, <1>2, <1>3, <2>3, <2>4 DEF decisive
<1>4. CASE prof = "speech"
  <2>1. "duration" \notin sealed /\ "duration" \notin unbound
    BY <1>1, <1>4, Locators DEF validateResponseUnboundFieldsFor
  <2> QED
    BY <1>1, <1>2, <1>4, <2>1 DEF decisive
<1>5. CASE prof = "asyncimage"
  <2>1. {"jobId", "status"} \cap (sealed \cup unbound) = {}
    BY <1>5, AsyncimageRow DEF validateResponseSealedFieldsForFrame, validateResponseUnboundFieldsFor
  <2> QED
    BY <1>1, <1>2, <1>5, <2>1 DEF decisive
<1>6. CASE prof \notin {"anthropic", "speech", "asyncimage"}
  BY <1>1, <1>2, <1>6 DEF decisive
<1> QED
  BY <1>3, <1>4, <1>5, <1>6

(* The billed quantity, read as the router reads it.                          *)
LEMMA NumberRead ==
    ASSUME NEW inner \in BOOLEAN, NEW t
    PROVE  /\ ~inner => numberAt(inner, t) = t
           /\ inner => numberAt(inner, t) = numberAt(TRUE, t)
  BY DEF numberAt

LEMMA QuantityIs ==
    ASSUME NEW q, NEW msg, NEW F, IsFiniteSet(F), readings(q, msg) \subseteq F,
           validateCleartextQuantity(q, msg)
    PROVE  \E n \in {"3", "4", "0.5"} : readings(q, msg) = {n}
<1>1. PICK r : r = readings(q, msg)
  OBVIOUS
<1>2. IsFiniteSet(r) /\ Cardinality(r) = 1
  BY <1>1, FS_Subset DEF validateCleartextQuantity
<1>3. PICK n : r = {n}
  BY <1>2, FS_Singleton
<1>4. parseCleartextNumber(q.kind, n)
  BY <1>1, <1>3 DEF validateCleartextQuantity
<1>5. n \in {"3", "4", "0.5"}
  BY <1>4 DEF parseCleartextNumber
<1> QED
  BY <1>1, <1>3, <1>5

LEMMA BilledOnce ==
    ASSUME prof \in {"image", "asyncimage", "speech", "embedding"}, NEW msg,
           validateResponseCleartextFor(prof, msg)
    PROVE  \E n \in {"3", "4", "0.5"} : billed(msg) = {n}
<1>1. PICK a, b : a = cleartextNumber("usage", TRUE) /\ b = cleartextNumber("duration", FALSE)
  OBVIOUS
<1>2. a.field = "usage" /\ a.inner /\ b.field = "duration" /\ ~b.inner
  BY <1>1 DEF cleartextNumber
<1>3. PICK x, y : x = numberAt(TRUE, msg["usage"]) /\ y = msg["duration"]
  OBVIOUS
<1>4. PICK q : /\ q \in spec(prof).requiredResponseCleartext
               /\ q.locators = IF prof = "speech" THEN {a, b} ELSE {a}
  <2>1. /\ imagesDelivered.locators = {a}
        /\ cleartextQuantity({a}, "whole").locators = {a}
        /\ cleartextQuantity({a, b}, "fractional").locators = {a, b}
    BY <1>1 DEF imagesDelivered, cleartextQuantity
  <2>2. /\ spec("image").requiredResponseCleartext = {imagesDelivered}
        /\ spec("asyncimage").requiredResponseCleartext = {imagesDelivered}
        /\ spec("embedding").requiredResponseCleartext = {cleartextQuantity({a}, "whole")}
        /\ spec("speech").requiredResponseCleartext = {cleartextQuantity({a, b}, "fractional")}
    BY <1>1, ImageRow, AsyncimageRow, EmbeddingRow, SpeechRow
  <2> QED
    BY <2>1, <2>2
<1>5. numberAt(a.inner, msg["usage"]) = x /\ numberAt(b.inner, msg["duration"]) = y
  BY <1>2, <1>3 DEF numberAt
<1>6. readings(q, msg) =
          ((IF "usage" \in DOMAIN msg THEN {x} ELSE {})
              \cup (IF prof = "speech" /\ "duration" \in DOMAIN msg THEN {y} ELSE {})) \ {"absent"}
  BY <1>2, <1>4, <1>5, ZenonT(40) DEF readings
<1>7. billed(msg) =
          ((IF "usage" \in DOMAIN msg THEN {x} ELSE {})
              \cup (IF prof = "speech" /\ "duration" \in DOMAIN msg THEN {y} ELSE {})) \ {"absent"}
  BY <1>3 DEF billed, numberAt
<1>8. IsFiniteSet({x, y}) /\ readings(q, msg) \subseteq {x, y}
  <2>1. IsFiniteSet({x}) /\ {x, y} = {x} \cup {y}
    BY FS_Singleton
  <2>2. IsFiniteSet({x} \cup {y})
    BY <2>1, FS_AddElement
  <2> QED
    BY <1>6, <2>1, <2>2
<1>9. validateCleartextQuantity(q, msg)
  BY <1>4 DEF validateResponseCleartextFor
<1> QED
  BY <1>6, <1>7, <1>8, <1>9, QuantityIs

(* What a conforming enclave seals passes the client's checks of the clear    *)
(* half that travels.                                                         *)
LEMMA FramePasses ==
    ASSUME NEW p \in DOMAIN profiles, NEW msg, NEW s, NEW clear,
           s = ResponseSealedFieldsForFrame(p, msg), s \subseteq DOMAIN msg,
           validateResponseSealedFieldsForFrame(p, msg, s), clear = drop(msg, s)
    PROVE  validateResponseSealedFieldsForFrame(p, clear, s)
<1>1. DOMAIN clear = DOMAIN msg \ s /\ \A f \in DOMAIN msg \ s : clear[f] = msg[f]
  BY DEF drop
<1>2. validateProtectedCleartextFor(p, clear, s)
  BY <1>1 DEF validateResponseSealedFieldsForFrame, validateProtectedCleartextFor
<1>3. CASE p = "anthropic"
  <2>1. spec(p).typed
    BY Typed, <1>3
  <2>2. validateTypedFrame(msg, s)
    BY <2>1 DEF validateResponseSealedFieldsForFrame
  <2>3. discriminator \in DOMAIN clear /\ clear[discriminator] = msg[discriminator]
    BY <1>1, <2>2 DEF validateTypedFrame, hasShape
  <2>4. PICK k : k = msg[discriminator]
    OBVIOUS
  <2>5. k \in DOMAIN anthropicFrames
    BY <2>2, <2>4 DEF validateTypedFrame, hasShape
  <2>6. hasShape(clear)
    BY <2>3, <2>4, <2>5 DEF hasShape
  <2>7. /\ sealedFieldsFor(msg) =
               anthropicFrames[k].content \cup (anthropicFrames[k].sealIfPresent \cap DOMAIN msg)
        /\ sealedFieldsFor(clear) =
               anthropicFrames[k].content \cup (anthropicFrames[k].sealIfPresent \cap DOMAIN clear)
    BY <2>3, <2>4 DEF sealedFieldsFor, shapeOf
  <2>8. s = sealedFieldsFor(msg)
    BY <2>1 DEF ResponseSealedFieldsForFrame
  <2>9. sealedFieldsFor(clear) \subseteq s /\ (sealedFieldsFor(clear) = {} => s = {})
    BY <1>1, <2>5, <2>7, <2>8, NoContentNoSeal
  <2>10. validateTypedFrame(clear, s)
    BY <1>1, <2>2, <2>6, <2>9 DEF validateTypedFrame, validateNoCleartextContent
  <2> QED
    BY <1>2, <2>1, <2>10 DEF validateResponseSealedFieldsForFrame
<1>4. CASE p # "anthropic"
  <2>1. ~spec(p).typed
    BY Typed, <1>4
  <2>2. validateResponseSealedFieldsFor(p, s) /\ validateResponseSealedIfPresent(p, msg, s)
    BY <2>1 DEF validateResponseSealedFieldsForFrame
  <2>3. validateResponseSealedIfPresent(p, clear, s)
    BY <1>1, <2>2 DEF validateResponseSealedIfPresent
  <2> QED
    BY <1>2, <2>1, <2>2, <2>3 DEF validateResponseSealedFieldsForFrame
<1> QED
  BY <1>3, <1>4

LEMMA QuantityStays ==
    ASSUME NEW p, NEW msg, NEW s, NEW clear, clear = drop(msg, s), s \cap locatorFields(p) = {},
           validateResponseCleartextFor(p, msg)
    PROVE  validateResponseCleartextFor(p, clear)
<1>1. DOMAIN clear = DOMAIN msg \ s /\ \A f \in DOMAIN msg \ s : clear[f] = msg[f]
  BY DEF drop
<1>2. SUFFICES ASSUME NEW q \in spec(p).requiredResponseCleartext
               PROVE  validateCleartextQuantity(q, clear)
  BY DEF validateResponseCleartextFor
<1>3. \A l \in q.locators : l.field \notin s
  BY <1>2 DEF locatorFields
<1>4. {k \in q.locators : k.field \in DOMAIN clear} = {k \in q.locators : k.field \in DOMAIN msg}
  BY <1>1, <1>3
<1>5. \A l \in {k \in q.locators : k.field \in DOMAIN msg} : clear[l.field] = msg[l.field]
  BY <1>1, <1>3
<1>6. readings(q, clear) = readings(q, msg)
  BY <1>4, <1>5 DEF readings
<1>7. validateCleartextQuantity(q, msg)
  BY <1>2 DEF validateResponseCleartextFor
<1> QED
  BY <1>6, <1>7 DEF validateCleartextQuantity

(* The fields of a frame a conforming enclave made.                           *)
LEMMA FrameMade ==
    ASSUME NEW p \in DOMAIN profiles, NEW msg, NEW u, NEW fin \in BOOLEAN, NEW key, NEW m,
           m \in SealFrame(p, msg, u, fin, key)
    PROVE  LET s == ResponseSealedFieldsForFrame(p, msg) IN
           /\ Shaped(m) /\ Intact(m, drop(msg, s), s, u, fin)
           /\ Hides(m, msg, drop(msg, s), s, u, fin, key)
           /\ s \subseteq DOMAIN msg
           /\ validateResponseSealedFieldsForFrame(p, msg, s)
           /\ validateResponseUnboundFieldsFor(p, u)
           /\ fin => validateResponseCleartextFor(p, msg)
           /\ key = "base" => ~requiresBind(p)
<1>1. PICK s : s = ResponseSealedFieldsForFrame(p, msg)
  OBVIOUS
<1>2. /\ newResponseSealer(p, u, key) /\ validateResponseSealedFieldsForFrame(p, msg, s)
      /\ fin => validateResponseCleartextFor(p, msg)
      /\ s \subseteq DOMAIN msg
      /\ m = SealResponse(msg, s, u, fin, key)
  BY <1>1 DEF SealFrame
<1>3. PICK c, pt : c = drop(msg, s) /\ pt = keep(msg, s)
  OBVIOUS
<1>4. PICK n : n = [none EXCEPT !.clear = c, !.sealed = s, !.unbound = u, !.final = fin]
  OBVIOUS
<1>5. Made(m, c, s, u, fin, pt, key)
  <2>1. m = encrypt(n, pt, key)
    BY <1>2, <1>3, <1>4 DEF SealResponse
  <2>2. Shaped(n) /\ Intact(n, c, s, u, fin)
    BY <1>4, Drafted
  <2> QED
    BY <2>1, <2>2, Encrypted
<1>6. Hides(m, msg, drop(msg, s), s, u, fin, key)
  BY <1>3, <1>5 DEF Hides, Made
<1> QED
  BY <1>1, <1>2, <1>3, <1>5, <1>6 DEF newResponseSealer, Made

-----------------------------------------------------------------------------
(* The constants.                                                             *)
LEMMA BodyFacts ==
    ASSUME NEW p \in DOMAIN Bodies, NEW req \in Bodies[p]
    PROVE  /\ p \in DOMAIN profiles \cup {"unknown"}
           /\ Placed(req, requestContent[p])
           /\ \A f \in DOMAIN req : req[f] # "bind" /\ req[f] # "include_usage"
<1>1. p \in DOMAIN profiles \cup {"unknown"}
  <2>1. DOMAIN requestContent =
            {"chat", "image", "asyncimage", "anthropic", "speech", "embedding", "unknown"}
    BY DEF requestContent
  <2> QED
    BY <2>1, EnvelopeAssumption, ProfileNames
<1>2. \A f \in DOMAIN req : /\ req[f] \in private => req[f] = "secret" /\ f \in requestContent[p]
                            /\ req[f] # "include_usage"
  BY EnvelopeAssumption
<1>3. "bind" \in private /\ "secret" # "bind"
  BY DEF private
<1> QED
  BY <1>1, <1>2, <1>3 DEF Placed

LEMMA FrameFacts ==
    ASSUME NEW p \in DOMAIN profiles, NEW msg \in Frames[p]
    PROVE  Placed(msg, answerContent[p])
  BY EnvelopeAssumption DEF Placed

LEMMA ConfFacts ==
    ASSUME NEW c \in Confs
    PROVE  /\ c.extra \subseteq c.seal /\ c.unbound \cap c.seal = {}
           /\ c.model \notin private /\ c.bind \in BOOLEAN
  BY EnvelopeAssumption

LEMMA RewriteFacts == ASSUME NEW w \in Rewrites PROVE w[2] \notin private
  BY EnvelopeAssumption

LEMMA BoundIsNat == MaxEdits \in Nat
  BY EnvelopeAssumption

-----------------------------------------------------------------------------
LEMMA EnvelopeInitOK == EnvelopeInit => EnvelopeInv
<1> SUFFICES ASSUME EnvelopeInit PROVE EnvelopeInv
  OBVIOUS
<1>1. EnvelopeTypeOK
  BY ProfileNames, BoundIsNat DEF EnvelopeInit, EnvelopeTypeOK
<1>2. DOMAIN seen = {}
  BY DEF EnvelopeInit, empty
<1>3. ~Carried /\ ~Replied /\ env = none /\ stage = "idle"
  BY DEF EnvelopeInit, Carried, Replied
<1>4. PayloadStaysSealed
  BY <1>1, <1>2, <1>3 DEF PayloadStaysSealed, values, accepted
<1>5. RebuiltAsMeant /\ AnswerUnreadable /\ ReadAsSealed /\ OwnMessagesOpen
  BY <1>3 DEF RebuiltAsMeant, AnswerUnreadable, ReadAsSealed, OwnMessagesOpen, accepted
<1> QED
  BY <1>1, <1>3, <1>4, <1>5 DEF EnvelopeInv

(* The preview shows nothing private and nothing of an operator's fields.     *)
LEMMA PreviewShows ==
    ASSUME conf \in Confs, NEW p \in DOMAIN Bodies, NEW req \in Bodies[p], NEW out, out = preview(p, req)
    PROVE  /\ values(out) \cap private = {}
           /\ \A f \in conf.extra \cap DOMAIN out : out[f] = "placeholder"
<1>1. PICK w : w = withheldFor(p)
  OBVIOUS
<1>2. requestContent[p] \subseteq sensitiveFieldsFor(p)
  <2>1. CASE p \in DOMAIN profiles
    BY <2>1, PayloadCovers DEF sensitiveFieldsFor, DefaultSealedFieldsFor
  <2>2. CASE p \notin DOMAIN profiles
    BY <2>2, BodyFacts, UnknownCovers DEF sensitiveFieldsFor
  <2> QED
    BY <2>1, <2>2
<1>3. requestContent[p] \subseteq w /\ conf.extra \subseteq w
  BY <1>1, <1>2 DEF withheldFor
<1>4. \A f \in DOMAIN req : req[f] \in private => f \in w
  BY <1>3, BodyFacts DEF Placed
<1>5. /\ DOMAIN out \subseteq DOMAIN req
      /\ \A f \in DOMAIN out : out[f] = IF f \in w THEN "placeholder" ELSE req[f]
  BY <1>1 DEF preview
<1>6. "placeholder" \notin private
  BY DEF private
<1>7. values(out) \cap private = {}
  BY <1>4, <1>5, <1>6 DEF values
<1> QED
  BY <1>3, <1>5, <1>7

LEMMA PreviewKeeps == ASSUME EnvelopeInv, Preview PROVE EnvelopeInv'
<1>1. PICK p \in DOMAIN Bodies : \E req \in Bodies[p] :
          prof' = p /\ sent' = req /\ seen' = preview(p, req)
  BY DEF Preview
<1>2. PICK req \in Bodies[p] : prof' = p /\ sent' = req /\ seen' = preview(p, req)
  BY <1>1
<1>3. /\ stage = "idle" /\ stage' = "previewed" /\ env' = env /\ conf' = conf /\ own' = own
      /\ edits' = edits /\ faithful' = faithful
  BY DEF Preview, answering
<1>4. env = none /\ ~Carried' /\ ~Replied'
  BY <1>3 DEF EnvelopeInv, Carried, Replied
<1>5. EnvelopeTypeOK'
  BY <1>2, <1>3, BodyFacts DEF EnvelopeInv, EnvelopeTypeOK
<1>6. PayloadStaysSealed'
  <2>1. conf \in Confs
    BY DEF EnvelopeInv, EnvelopeTypeOK
  <2>2. /\ values(seen') \cap private = {}
        /\ \A f \in conf.extra \cap DOMAIN seen' : seen'[f] = "placeholder"
    BY <1>2, <2>1, PreviewShows
  <2> QED
    BY <1>3, <1>4, <1>5, <2>2 DEF PayloadStaysSealed, values, accepted
<1>7. (RebuiltAsMeant /\ AnswerUnreadable /\ ReadAsSealed /\ OwnMessagesOpen)'
  BY <1>3 DEF RebuiltAsMeant, AnswerUnreadable, ReadAsSealed, OwnMessagesOpen, accepted
<1> QED
  BY <1>2, <1>3, <1>4, <1>5, <1>6, <1>7 DEF EnvelopeInv

-----------------------------------------------------------------------------
(* Sealing.                                                                   *)
LEMMA Completes ==
    ASSUME conf \in Confs, prof \in DOMAIN profiles, prof \in DOMAIN Bodies, NEW req \in Bodies[prof],
           NEW out, out \in completed(req)
    PROVE  /\ IF bindsResponse \/ requiresBind(prof)
              THEN fieldBind \in DOMAIN out /\ out[fieldBind] = "bind"
              ELSE fieldBind \in DOMAIN out => out[fieldBind] # "bind"
           /\ UsageAsked(out)
           /\ Placed(out, requestContent[prof] \cup {fieldBind})
<1>1. PICK r : /\ out = withStreamUsage(withModel(r))
               /\ IF bindsResponse \/ requiresBind(prof) THEN r \in AttachResponseBind(req) ELSE r = req
  BY DEF completed
<1>2. PICK r1 : r1 = withModel(r)
  OBVIOUS
<1>3. /\ Placed(req, requestContent[prof])
      /\ \A f \in DOMAIN req : req[f] # "bind" /\ req[f] # "include_usage"
  BY BodyFacts
<1>4. "bind" # "include_usage" /\ "include_usage" \notin private /\ conf.model \notin private
  BY ConfFacts DEF private
<1>5. /\ IF bindsResponse \/ requiresBind(prof)
         THEN fieldBind \in DOMAIN r /\ r[fieldBind] = "bind"
         ELSE fieldBind \in DOMAIN r => r[fieldBind] # "bind"
      /\ \A f \in DOMAIN r : f # fieldBind => f \in DOMAIN req /\ r[f] = req[f]
  BY <1>1, <1>3 DEF AttachResponseBind, with
<1>6. /\ DOMAIN r \subseteq DOMAIN r1
      /\ \A f \in DOMAIN r1 : f # "model" => f \in DOMAIN r /\ r1[f] = r[f]
      /\ "model" \in DOMAIN r1 =>
            r1["model"] = conf.model \/ ("model" \in DOMAIN r /\ r1["model"] = r["model"])
  BY <1>2 DEF withModel, with
<1>7. /\ DOMAIN r1 \subseteq DOMAIN out
      /\ \A f \in DOMAIN out : f # "stream_options" => f \in DOMAIN r1 /\ out[f] = r1[f]
      /\ IF prof = "chat" /\ streams(r1)
         THEN "stream_options" \in DOMAIN out /\ out["stream_options"] = "include_usage"
         ELSE out = r1
  BY <1>1, <1>2 DEF withStreamUsage, with
<1>8. fieldBind # "model" /\ fieldBind # "stream_options" /\ fieldBind # "stream"
  BY DEF fieldBind
<1>9. IF bindsResponse \/ requiresBind(prof)
      THEN fieldBind \in DOMAIN out /\ out[fieldBind] = "bind"
      ELSE fieldBind \in DOMAIN out => out[fieldBind] # "bind"
  BY <1>5, <1>6, <1>7, <1>8
<1>10. "stream_options" \in DOMAIN r1 => r1["stream_options"] # "include_usage"
  BY <1>3, <1>5, <1>6, <1>8
<1>11. UsageAsked(out)
  <2>1. streams(out) <=> streams(r1)
    BY <1>7 DEF streams
  <2> QED
    BY <1>7, <1>10, <2>1 DEF UsageAsked
<1>12. Placed(out, requestContent[prof] \cup {fieldBind})
  <2> SUFFICES ASSUME NEW f \in DOMAIN out, out[f] \in private, f # fieldBind
               PROVE  f \in requestContent[prof]
    BY DEF Placed
  <2>1. f \in DOMAIN r1 /\ out[f] = r1[f]
    BY <1>4, <1>7
  <2>2. f \in DOMAIN r /\ r1[f] = r[f]
    BY <1>4, <1>6, <2>1
  <2>3. f \in DOMAIN req /\ r[f] = req[f]
    BY <1>5, <2>2
  <2> QED
    BY <1>3, <2>1, <2>2, <2>3 DEF Placed
<1> QED
  BY <1>9, <1>11, <1>12

(* The request as seal leaves it, with the fields s hidden.                   *)
Sealing(m, req, s) ==
    /\ Shaped(m) /\ Intact(m, drop(req, s), s, conf.unbound, FALSE)
    /\ Hides(m, req, drop(req, s), s, conf.unbound, FALSE, "enclave")
    /\ validateSealInputs(prof, s, conf.unbound) /\ validateSealableRequest(prof, s, req)
    /\ s \subseteq DOMAIN req /\ conf.seal \cap DOMAIN req \subseteq s
    /\ ~bindsResponse /\ ~requiresBind(prof) /\ fieldBind \in DOMAIN req => fieldBind \in conf.seal

LEMMA SealsAs ==
    ASSUME conf \in Confs, prof \in DOMAIN profiles, NEW req, NEW m, m \in seal(req)
    PROVE  \E s : Sealing(m, req, s)
<1>1. PICK s, u : /\ s = clientSealedFields(req) \cup (IF bindsResponse THEN {fieldBind} ELSE {})
                  /\ u = conf.unbound
  OBVIOUS
<1>2. m \in SealRequestFor(prof, req, s, u)
  BY <1>1 DEF seal
<1>3. /\ validateSealInputs(prof, s, u) /\ validateSealableRequest(prof, s, req)
      /\ s \subseteq DOMAIN req /\ m = SealRequest(req, s, u)
  BY <1>2 DEF SealRequestFor
<1>4. PICK c, pt : c = drop(req, s) /\ pt = keep(req, s)
  OBVIOUS
<1>5. PICK no \in BOOLEAN : no = FALSE
  OBVIOUS
<1>6. PICK n : n = [none EXCEPT !.clear = c, !.sealed = s, !.unbound = u]
  OBVIOUS
<1>7. m = encrypt(n, pt, "enclave")
  BY <1>3, <1>4, <1>6 DEF SealRequest
<1>8. Made(m, c, s, u, no, pt, "enclave")
  <2>1. Shaped(n)
    BY <1>6 DEF Shaped, none
  <2>2. n.clear = c /\ n.sealed = s /\ n.unbound = u
    BY <1>6 DEF none
  <2>3. n.final = no
    BY <1>5, <1>6 DEF none
  <2>4. Intact(n, c, s, u, no)
    BY <2>2, <2>3 DEF Intact
  <2> QED
    BY <1>7, <2>1, <2>4, Encrypted
<1>9. /\ Shaped(m) /\ Intact(m, drop(req, s), s, conf.unbound, FALSE)
      /\ Hides(m, req, drop(req, s), s, conf.unbound, FALSE, "enclave")
  BY <1>1, <1>4, <1>5, <1>8 DEF Made, Hides, Intact
<1>10. conf.seal \cap DOMAIN req \subseteq s
  BY <1>1 DEF clientSealedFields, sealFields, presentSubset
<1>11. ASSUME ~bindsResponse, ~requiresBind(prof), fieldBind \in DOMAIN req
       PROVE  fieldBind \in conf.seal
  <2>1. fieldBind \in s
    BY <1>3, <1>11 DEF validateSealableRequest, validatePayloadSealedFor
  <2>2. fieldBind \in sealFields(prof)
    BY <1>1, <1>11, <2>1 DEF clientSealedFields, presentSubset
  <2>3. fieldBind \notin DefaultSealedFieldsFor(prof)
    BY <1>11, BindRequired DEF DefaultSealedFieldsFor
  <2> QED
    BY <2>2, <2>3 DEF sealFields
<1> QED
  BY <1>1, <1>3, <1>9, <1>10, <1>11 DEF Sealing

LEMMA OwnClear ==
    ASSUME conf \in Confs, prof \in DOMAIN profiles, NEW req, NEW m, NEW s, Sealing(m, req, s),
           Placed(req, requestContent[prof] \cup {fieldBind})
    PROVE  /\ values(m.clear) \cap private = {} /\ conf.extra \cap DOMAIN m.clear = {}
<1>1. PICK clear : clear = m.clear
  OBVIOUS
<1>2. clear = drop(req, s)
  BY <1>1 DEF Sealing, Intact
<1>3. DOMAIN clear = DOMAIN req \ s /\ \A f \in DOMAIN req \ s : clear[f] = req[f]
  BY <1>2 DEF drop
<1>4. DOMAIN req \cap (requestContent[prof] \cup {fieldBind}) \subseteq s
  BY PayloadCovers DEF Sealing, validateSealableRequest, validatePayloadSealedFor
<1>5. \A f \in DOMAIN clear : clear[f] \notin private
  BY <1>3, <1>4 DEF Placed
<1>6. conf.extra \cap DOMAIN clear = {}
  BY <1>3, ConfFacts DEF Sealing
<1> QED
  BY <1>1, <1>5, <1>6 DEF values

LEMMA Quiet ==
    ASSUME stage' \in {"idle", "previewed", "sealed", "unsent", "crashed", "answered", "unpolled"}
    PROVE  (RebuiltAsMeant /\ AnswerUnreadable /\ ReadAsSealed /\ OwnMessagesOpen)'
  BY DEF RebuiltAsMeant, AnswerUnreadable, ReadAsSealed, OwnMessagesOpen, accepted

LEMMA SealKeeps == ASSUME EnvelopeInv, Seal PROVE EnvelopeInv'
<1>1. /\ stage = "previewed" /\ prof' = prof /\ conf' = conf /\ own' = own /\ seen' = seen
      /\ edits' = edits /\ faithful' = faithful
  BY DEF Seal, answering
<1>2. /\ prof \in DOMAIN Bodies /\ sent \in Bodies[prof] /\ conf \in Confs /\ env = none
      /\ EnvelopeTypeOK /\ PayloadStaysSealed
  BY <1>1 DEF EnvelopeInv, EnvelopeTypeOK, Carried
<1>3. /\ values(seen') \cap private = {}
      /\ \A f \in conf'.extra \cap DOMAIN seen' : seen'[f] = "placeholder"
  BY <1>1, <1>2 DEF PayloadStaysSealed
<1>4. \/ stage' \in {"crashed", "unsent"} /\ env' = env
      \/ /\ stage' = "sealed" /\ prof \in DOMAIN profiles
         /\ \E req \in completed(sent) : sent' = req /\ env' \in seal(req)
  BY DEF Seal
<1>5. EnvelopeTypeOK'
  BY <1>1, <1>2, <1>4 DEF EnvelopeTypeOK
<1>6. (RebuiltAsMeant /\ AnswerUnreadable /\ ReadAsSealed /\ OwnMessagesOpen)' /\ ~Replied'
      /\ stage' \notin {"previewed", "opened"}
  BY <1>4, Quiet DEF Replied
<1>7. CASE stage' \in {"crashed", "unsent"} /\ env' = env
  <2>1. PayloadStaysSealed'
    BY <1>2, <1>3, <1>5, <1>6, <1>7 DEF PayloadStaysSealed, accepted
  <2>2. ~Carried'
    BY <1>7 DEF Carried
  <2> QED
    BY <1>2, <1>5, <1>6, <1>7, <2>1, <2>2 DEF EnvelopeInv
<1>8. CASE /\ stage' = "sealed" /\ prof \in DOMAIN profiles
           /\ \E req \in completed(sent) : sent' = req /\ env' \in seal(req)
  <2>1. PICK req \in completed(sent) : sent' = req /\ env' \in seal(req)
    BY <1>8
  <2>2. PICK m : m = env'
    OBVIOUS
  <2>3. PICK s : Sealing(m, req, s)
    BY <1>2, <1>8, <2>1, <2>2, SealsAs
  <2>4. /\ IF bindsResponse \/ requiresBind(prof)
           THEN fieldBind \in DOMAIN req /\ req[fieldBind] = "bind"
           ELSE fieldBind \in DOMAIN req => req[fieldBind] # "bind"
        /\ UsageAsked(req)
        /\ Placed(req, requestContent[prof] \cup {fieldBind})
    BY <1>2, <1>8, Completes
  <2>5. values(m.clear) \cap private = {} /\ conf.extra \cap DOMAIN m.clear = {}
    BY <1>2, <1>8, <2>3, <2>4, OwnClear
  <2>6. PayloadStaysSealed'
    BY <1>1, <1>3, <1>5, <1>6, <2>2, <2>5 DEF PayloadStaysSealed, accepted
  <2>7. Binding(sent)' /\ UsageAsked(sent)'
    <3>1. bindsResponse' <=> bindsResponse
      BY <1>1 DEF bindsResponse
    <3>2. Binding(sent)'
      BY <1>1, <2>1, <2>3, <2>4, <3>1 DEF Binding, Sealing
    <3>3. UsageAsked(sent)'
      BY <1>1, <2>1, <2>4 DEF UsageAsked, streams
    <3> QED
      BY <3>2, <3>3
  <2>8. SealedAs(s)'
    BY <1>1, <2>1, <2>2, <2>3 DEF Sealing, SealedAs
  <2>9. RequestInv'
    <3>1. Shaped(env')
      BY <2>2, <2>3 DEF Sealing
    <3>2. Placed(env'.clear, requestContent[prof])
      BY <2>2, <2>5 DEF Placed, values
    <3> QED
      BY <1>1, <1>8, <2>7, <2>8, <3>1, <3>2 DEF RequestInv
  <2> QED
    BY <1>5, <1>6, <1>8, <2>6, <2>9 DEF EnvelopeInv, Carried
<1> QED
  BY <1>4, <1>7, <1>8

LEMMA SealForeignKeeps == ASSUME EnvelopeInv, SealForeign PROVE EnvelopeInv'
<1>1. PICK p \in DOMAIN profiles : \E req \in Bodies[p], listed \in Lists[p], hidden \in Lists[p],
                                      unbound \in Unbounds[p], twice \in BOOLEAN :
          /\ env' = encrypt([none EXCEPT !.clear = IF twice THEN req ELSE drop(req, hidden),
                                         !.sealed = listed \cap DOMAIN req, !.unbound = unbound],
                            keep(req, hidden), "enclave")
          /\ prof' = p /\ sent' = req
  BY DEF SealForeign
<1>2. PICK req \in Bodies[p], listed \in Lists[p], hidden \in Lists[p],
           unbound \in Unbounds[p], twice \in BOOLEAN :
          /\ env' = encrypt([none EXCEPT !.clear = IF twice THEN req ELSE drop(req, hidden),
                                         !.sealed = listed \cap DOMAIN req, !.unbound = unbound],
                            keep(req, hidden), "enclave")
          /\ prof' = p /\ sent' = req
  BY <1>1
<1>3. /\ stage' = "sealed" /\ own' = FALSE /\ conf' = conf /\ seen' = seen /\ edits' = edits
      /\ faithful' = faithful
  BY DEF SealForeign, answering
<1>4. PICK c, s, n : /\ c = IF twice THEN req ELSE drop(req, hidden)
                     /\ s = listed \cap DOMAIN req
                     /\ n = [none EXCEPT !.clear = c, !.sealed = s, !.unbound = unbound]
  OBVIOUS
<1>5. Shaped(n) /\ n.clear = c
  BY <1>4 DEF Shaped, none
<1>6. PICK ct : env' = [n EXCEPT !.ct = ct]
  BY <1>2, <1>4 DEF encrypt
<1>7. Shaped(env') /\ env'.clear = c
  BY <1>5, <1>6 DEF Shaped
<1>8. p \in DOMAIN Bodies
  BY EnvelopeAssumption
<1>9. Placed(c, requestContent[p])
  <2>1. Placed(req, requestContent[p])
    BY <1>8, BodyFacts
  <2> QED
    BY <1>4, <2>1 DEF Placed, drop
<1>10. RequestInv'
  BY <1>2, <1>3, <1>7, <1>9 DEF RequestInv
<1>11. EnvelopeTypeOK'
  BY <1>2, <1>3 DEF EnvelopeInv, EnvelopeTypeOK
<1>12. PayloadStaysSealed'
  <2>1. /\ values(seen) \cap private = {}
        /\ \A f \in conf.extra \cap DOMAIN seen : seen[f] = "placeholder"
    BY DEF EnvelopeInv, PayloadStaysSealed
  <2> QED
    BY <1>3, <1>11, <2>1 DEF PayloadStaysSealed, accepted
<1> QED
  BY <1>3, <1>10, <1>11, <1>12, Quiet DEF EnvelopeInv, Carried, Replied

-----------------------------------------------------------------------------
(* The router.                                                                *)
LEMMA RouterWrites ==
    ASSUME NEW m, NEW m2, Shaped(m), m2 \in rewritten(m)
    PROVE  /\ Shaped(m2) /\ m2.ct = m.ct
           /\ \A f \in DOMAIN m2.clear : m2.clear[f] \in private =>
                 f \in DOMAIN m.clear /\ m2.clear[f] = m.clear[f]
<1>1. PICK clear : clear = m.clear
  OBVIOUS
<1>2. \/ \E w \in Rewrites : m2 = [m EXCEPT !.clear = with(clear, w[1], w[2])]
      \/ \E w \in Rewrites :
            m2 = [m EXCEPT !.clear = with(clear, w[1], w[2]), !.unbound = m.unbound \cup {w[1]}]
      \/ \E f \in DOMAIN clear : m2 = [m EXCEPT !.clear = drop(clear, {f})]
  BY <1>1 DEF rewritten
<1>3. PICK new : /\ Shaped(m2) /\ m2.ct = m.ct /\ m2.clear = new
                 /\ \/ \E w \in Rewrites : new = with(clear, w[1], w[2])
                    \/ \E f \in DOMAIN clear : new = drop(clear, {f})
  BY <1>2 DEF Shaped
<1>4. CASE \E w \in Rewrites : new = with(clear, w[1], w[2])
  <2>1. PICK w \in Rewrites : new = with(clear, w[1], w[2])
    BY <1>4
  <2>2. w[2] \notin private
    BY RewriteFacts
  <2>3. \A f \in DOMAIN new : new[f] \in private => f \in DOMAIN clear /\ new[f] = clear[f]
    BY <2>1, <2>2 DEF with
  <2> QED
    BY <1>1, <1>3, <2>3
<1>5. CASE \E f \in DOMAIN clear : new = drop(clear, {f})
  <2>1. \A f \in DOMAIN new : f \in DOMAIN clear /\ new[f] = clear[f]
    BY <1>5 DEF drop
  <2> QED
    BY <1>1, <1>3, <2>1
<1> QED
  BY <1>3, <1>4, <1>5

LEMMA RewriteRequestKeeps == ASSUME EnvelopeInv, RewriteRequest PROVE EnvelopeInv'
<1>1. /\ stage = "sealed" /\ stage' = stage /\ prof' = prof /\ conf' = conf /\ own' = own
      /\ sent' = sent /\ seen' = seen /\ faithful' = faithful
      /\ edits < MaxEdits /\ edits' = edits + 1 /\ env' \in rewritten(env)
  BY DEF RewriteRequest, answering
<1>2. RequestInv /\ EnvelopeTypeOK /\ PayloadStaysSealed
  BY <1>1 DEF EnvelopeInv, Carried
<1>3. PICK m2 : m2 = env'
  OBVIOUS
<1>4. /\ Shaped(m2) /\ m2.ct = env.ct
      /\ \A f \in DOMAIN m2.clear : m2.clear[f] \in private =>
            f \in DOMAIN env.clear /\ m2.clear[f] = env.clear[f]
  <2>1. m2 \in rewritten(env) /\ Shaped(env)
    BY <1>1, <1>2, <1>3 DEF RequestInv
  <2> QED
    BY <2>1, RouterWrites
<1>5. EnvelopeTypeOK' /\ edits' # 0
  BY <1>1, <1>2, BoundIsNat DEF EnvelopeTypeOK
<1>6. Placed(m2.clear, requestContent[prof])
  BY <1>2, <1>4 DEF RequestInv, Placed
<1>7. ASSUME own PROVE values(m2.clear) \cap private = {}
  <2>1. env # none => values(env.clear) \cap private = {}
    BY <1>2, <1>7 DEF PayloadStaysSealed
  <2>2. env = none => DOMAIN env.clear = {}
    BY DEF none, empty
  <2> QED
    BY <1>4, <2>1, <2>2 DEF values
<1>8. ASSUME own PROVE (Binding(sent) /\ UsageAsked(sent) /\ (\E s : SealedAs(s)))'
  <2>1. Binding(sent) /\ UsageAsked(sent)
    BY <1>2, <1>8 DEF RequestInv
  <2>2. PICK s : SealedAs(s)
    BY <1>2, <1>8 DEF RequestInv
  <2>3. SealedAs(s)'
    BY <1>1, <1>3, <1>4, <1>5, <2>2 DEF SealedAs, Hides
  <2> QED
    BY <1>1, <2>1, <2>3 DEF Binding, UsageAsked, streams, bindsResponse
<1>9. RequestInv'
  BY <1>1, <1>2, <1>3, <1>4, <1>6, <1>8 DEF RequestInv
<1>10. PayloadStaysSealed'
  BY <1>1, <1>2, <1>3, <1>5, <1>7 DEF PayloadStaysSealed, accepted
<1> QED
  BY <1>1, <1>5, <1>9, <1>10, Quiet DEF EnvelopeInv, Carried, Replied

-----------------------------------------------------------------------------
(* Serving.  What the properties say of a request that was rebuilt.           *)
RebuiltAs(req) ==
    /\ own => /\ drop(req, conf.unbound) = drop(sent, conf.unbound)
              /\ prof \in {"image", "asyncimage", "speech"} => "response_format" \notin conf.unbound
              /\ conf.unbound \cap {"stream", "stream_options"} = {} => UsageAsked(req)
    /\ validatePinnedValues(prof, env.clear)
    /\ \A f \in DOMAIN env.clear : req[f] = env.clear[f]

KeyFor(req) ==
    /\ fieldBind \in DOMAIN req => req[fieldBind] = "bind" /\ clientKey = "bind"
    /\ clientKey = "bind" => fieldBind \in DOMAIN req

LEMMA BindClear ==
    ASSUME NEW p \in DOMAIN profiles, NEW m, NEW req, req \in OpenRequestFor(p, m)
    PROVE  /\ req \in rebuild(m) /\ opens(m, "enclave") /\ validatePinnedValues(p, m.clear)
           /\ (requestContent[p] \cup {fieldBind}) \cap DOMAIN m.clear = {}
<1>1. /\ validatePayloadSealedFor(p, m.sealed, m.clear)
      /\ validatePinnedFor(p, m.clear, m.sealed, m.unbound)
      /\ opens(m, "enclave") /\ req \in rebuild(m)
  BY DEF OpenRequestFor, OpenRequest
<1>2. m.sealed \cap DOMAIN m.clear = {}
  BY <1>1, Rebuilt
<1> QED
  BY <1>1, <1>2, PayloadCovers DEF validatePayloadSealedFor, validatePinnedFor

LEMMA ServedOwn ==
    ASSUME EnvelopeInv, stage = "sealed", own, NEW req, req \in OpenRequestFor(prof, env),
           TakeResponseBind(prof, req) # {}
    PROVE  /\ conf.extra \cap DOMAIN env.clear = {}
           /\ KeyFor(req)
           /\ drop(req, conf.unbound) = drop(sent, conf.unbound)
           /\ prof \in {"image", "asyncimage", "speech"} => "response_format" \notin conf.unbound
           /\ conf.unbound \cap {"stream", "stream_options"} = {} => UsageAsked(req)
<1>1. RequestInv /\ conf \in Confs
  BY DEF EnvelopeInv, EnvelopeTypeOK, Carried
<1>2. prof \in DOMAIN profiles /\ Binding(sent) /\ UsageAsked(sent)
  BY <1>1 DEF RequestInv
<1>3. PICK s : SealedAs(s)
  BY <1>1 DEF RequestInv
<1>4. PICK u, m, msg, c : u = conf.unbound /\ m = env /\ msg = sent /\ c = drop(msg, s)
  OBVIOUS
<1>5. PICK no \in BOOLEAN : no = FALSE
  OBVIOUS
<1>6. Hides(m, msg, c, s, u, no, "enclave")
  BY <1>3, <1>4, <1>5 DEF SealedAs
<1>7. /\ req \in rebuild(m) /\ opens(m, "enclave")
      /\ (requestContent[prof] \cup {fieldBind}) \cap DOMAIN m.clear = {}
  BY <1>2, <1>4, BindClear
<1>8. /\ s \subseteq DOMAIN msg /\ s \cap DOMAIN m.clear = {}
      /\ DOMAIN req = s \cup DOMAIN m.clear
      /\ \A f \in s : req[f] = msg[f]
      /\ \A f \in DOMAIN m.clear : req[f] = m.clear[f]
      /\ DOMAIN m.clear \ u = DOMAIN c \ u
      /\ \A f \in DOMAIN c \ u : m.clear[f] = c[f]
  <2>1. OpensAs(m, msg, c, s, u, no, req)
    BY <1>6, <1>7, Opening
  <2> QED
    BY <2>1 DEF OpensAs
<1>9. DOMAIN c = DOMAIN msg \ s /\ \A f \in DOMAIN msg \ s : c[f] = msg[f]
  BY <1>4 DEF drop
<1>10. DOMAIN req \ u = DOMAIN msg \ u /\ \A f \in DOMAIN msg \ u : req[f] = msg[f]
  <2>1. PICK clear : clear = m.clear
    OBVIOUS
  <2> QED
    BY <1>8, <1>9, <2>1
<1>11. drop(req, conf.unbound) = drop(sent, conf.unbound)
  BY <1>4, <1>10 DEF drop
<1>12. conf.extra \cap DOMAIN env.clear = {}
  BY <1>1, <1>3, <1>4, <1>8, <1>9, ConfFacts DEF SealedAs
<1>13. KeyFor(req)
  <2>1. fieldBind \in DOMAIN msg => fieldBind \in s
    BY <1>3, <1>4 DEF SealedAs, validateSealableRequest, validatePayloadSealedFor
  <2>2. fieldBind \in DOMAIN req <=> fieldBind \in DOMAIN msg
    BY <1>7, <1>8, <2>1
  <2>3. fieldBind \in DOMAIN req => req[fieldBind] = "bind" /\ msg[fieldBind] = "bind"
    BY <1>8, <2>1, <2>2 DEF TakeResponseBind, decodeBind
  <2>4. fieldBind \in DOMAIN req <=> bindsResponse \/ requiresBind(prof)
    BY <1>2, <1>4, <2>2, <2>3 DEF Binding
  <2> QED
    BY <2>3, <2>4 DEF KeyFor, clientKey
<1>14. prof \in {"image", "asyncimage", "speech"} => "response_format" \notin conf.unbound
  BY <1>3, PinnedFields DEF SealedAs, validateSealInputs, validatePinnedNotUnbound
<1>15. conf.unbound \cap {"stream", "stream_options"} = {} => UsageAsked(req)
  BY <1>2, <1>4, <1>10 DEF UsageAsked, streams
<1> QED
  BY <1>11, <1>12, <1>13, <1>14, <1>15

LEMMA ServedAs ==
    ASSUME EnvelopeInv, stage = "sealed", NEW req, req \in OpenRequestFor(prof, env),
           TakeResponseBind(prof, req) # {}
    PROVE  /\ values(env.clear) \cap private = {}
           /\ own => conf.extra \cap DOMAIN env.clear = {} /\ KeyFor(req)
           /\ RebuiltAs(req)
<1>1. RequestInv
  BY DEF EnvelopeInv, Carried
<1>2. prof \in DOMAIN profiles /\ Placed(env.clear, requestContent[prof])
  BY <1>1 DEF RequestInv
<1>3. PICK m : m = env
  OBVIOUS
<1>4. /\ req \in rebuild(m) /\ validatePinnedValues(prof, m.clear)
      /\ (requestContent[prof] \cup {fieldBind}) \cap DOMAIN m.clear = {}
  BY <1>2, <1>3, BindClear
<1>5. values(m.clear) \cap private = {}
  BY <1>2, <1>3, <1>4 DEF values, Placed
<1>6. \A f \in DOMAIN m.clear : req[f] = m.clear[f]
  BY <1>4, Rebuilt
<1>7. RebuiltAs(req)
  BY <1>3, <1>4, <1>6, ServedOwn DEF RebuiltAs
<1> QED
  BY <1>3, <1>5, <1>7, ServedOwn

(* The client's own request, untouched, is served.                            *)
LEMMA OwnServed ==
    ASSUME EnvelopeInv, stage = "sealed", own, edits = 0,
           \A req \in OpenRequestFor(prof, env) : TakeResponseBind(prof, req) = {}
    PROVE  fieldBind \in conf.seal /\ ~conf.bind
<1>1. RequestInv
  BY DEF EnvelopeInv, Carried
<1>2. prof \in DOMAIN profiles /\ Binding(sent)
  BY <1>1 DEF RequestInv
<1>3. PICK s : SealedAs(s)
  BY <1>1 DEF RequestInv
<1>4. PICK u, m, msg, c, pt : /\ u = conf.unbound /\ m = env /\ msg = sent
                              /\ c = drop(msg, s) /\ pt = keep(msg, s)
  OBVIOUS
<1>5. /\ m.clear = c /\ m.sealed = s /\ m.unbound = u /\ m.final = FALSE
      /\ m.ct = [pt |-> pt, key |-> "enclave",
                 aad |-> [clear |-> drop(c, u), sealed |-> s, unbound |-> u, final |-> FALSE]]
  BY <1>3, <1>4 DEF SealedAs, Intact, Hides
<1>6. m.ct.pt = pt /\ m.ct.key = "enclave" /\ opens(m, "enclave")
  <2>1. PICK a : a = [clear |-> drop(c, u), sealed |-> s, unbound |-> u, final |-> FALSE]
    OBVIOUS
  <2>2. m.ct.pt = pt /\ m.ct.key = "enclave" /\ m.ct.aad = a
    BY <1>5, <2>1
  <2>3. aadFromEnvelope(m) = a
    BY <1>5, <2>1 DEF aadFromEnvelope
  <2> QED
    BY <2>2, <2>3 DEF opens
<1>7. /\ s \subseteq DOMAIN msg /\ e2eeKey \notin s
      /\ validateSealInputs(prof, s, u) /\ validateSealableRequest(prof, s, msg)
  BY <1>3, <1>4 DEF SealedAs, validateSealInputs, ValidateSealedFieldsFor
<1>8. /\ DOMAIN c = DOMAIN msg \ s /\ \A f \in DOMAIN msg \ s : c[f] = msg[f]
      /\ DOMAIN pt = s /\ \A f \in s : pt[f] = msg[f]
  BY <1>4, <1>7 DEF drop, keep
<1>9. PICK req : req = merge(pt, c)
  OBVIOUS
<1>10. DOMAIN req = DOMAIN msg /\ \A f \in s : req[f] = msg[f]
  BY <1>7, <1>8, <1>9 DEF merge
<1>11. req \in OpenRequest(m)
  BY <1>5, <1>6, <1>7, <1>8, <1>9 DEF OpenRequest, rebuild
<1>12. validatePinnedFor(prof, c, s, u)
  <2>1. /\ validatePinnedNotSealed(prof, s) /\ validatePinnedNotUnbound(prof, u)
        /\ validatePinnedValues(prof, msg)
    BY <1>7 DEF validateSealInputs, ValidateSealedFieldsFor, validateSealableRequest
  <2>2. \A pin \in spec(prof).pinned : pin.field \notin s
    BY <2>1 DEF validatePinnedNotSealed, pins
  <2>3. validatePinnedValues(prof, c)
    BY <1>8, <2>1, <2>2 DEF validatePinnedValues
  <2> QED
    BY <2>1, <2>3 DEF validatePinnedFor
<1>13. ValidateSealedFieldsFor(prof, s) /\ validatePayloadSealedFor(prof, s, c)
  BY <1>7, <1>8 DEF validateSealInputs, validateSealableRequest, validatePayloadSealedFor
<1>14. req \in OpenRequestFor(prof, env)
  BY <1>4, <1>5, <1>11, <1>12, <1>13 DEF OpenRequestFor
<1>15. TakeResponseBind(prof, req) = {}
  BY <1>14
<1>16. fieldBind \in DOMAIN msg => fieldBind \in s
  BY <1>7 DEF validateSealableRequest, validatePayloadSealedFor
<1>17. IF fieldBind \in DOMAIN msg THEN msg[fieldBind] # "bind" ELSE requiresBind(prof)
  BY <1>10, <1>15, <1>16 DEF TakeResponseBind, decodeBind
<1>18. fieldBind \in conf.seal /\ ~bindsResponse /\ ~requiresBind(prof)
  BY <1>2, <1>4, <1>17 DEF Binding
<1> QED
  BY <1>18 DEF bindsResponse, ResponseBindApplies

LEMMA ServeRequestKeeps == ASSUME EnvelopeInv, ServeRequest PROVE EnvelopeInv'
<1>1. /\ stage = "sealed" /\ prof' = prof /\ conf' = conf /\ own' = own /\ sent' = sent
      /\ seen' = seen /\ env' = env /\ edits' = edits /\ faithful' = faithful
  BY DEF ServeRequest, answering
<1>2. RequestInv /\ EnvelopeTypeOK /\ PayloadStaysSealed
  BY <1>1 DEF EnvelopeInv, Carried
<1>3. \/ /\ stage' = "opened"
         /\ \E req \in OpenRequestFor(prof, env) : TakeResponseBind(prof, req) # {} /\ got' = req
      \/ /\ stage' = "refused"
         /\ \A req \in OpenRequestFor(prof, env) : TakeResponseBind(prof, req) = {}
  BY DEF ServeRequest
<1>4. EnvelopeTypeOK' /\ Carried' /\ ~Replied' /\ stage' # "previewed"
  BY <1>1, <1>2, <1>3 DEF EnvelopeTypeOK, Carried, Replied
<1>5. RequestInv'
  <2>1. bindsResponse' <=> bindsResponse
    BY <1>1 DEF bindsResponse
  <2>2. own => (Binding(sent) /\ UsageAsked(sent))'
    BY <1>1, <1>2, <2>1 DEF RequestInv, Binding, UsageAsked, streams
  <2>3. own => (\E s : SealedAs(s))'
    BY <1>1, <1>2 DEF RequestInv, SealedAs
  <2> QED
    BY <1>1, <1>2, <2>2, <2>3 DEF RequestInv
<1>6. (AnswerUnreadable /\ ReadAsSealed)'
  BY <1>3 DEF AnswerUnreadable, ReadAsSealed
<1>7. /\ values(seen') \cap private = {}
      /\ \A f \in conf'.extra \cap DOMAIN seen' : seen'[f] = "placeholder"
      /\ own' /\ env' # none =>
            /\ values(env'.clear) \cap private = {}
            /\ edits' = 0 => conf'.extra \cap DOMAIN env'.clear = {}
  BY <1>1, <1>2 DEF PayloadStaysSealed
<1>8. CASE /\ stage' = "opened"
           /\ \E req \in OpenRequestFor(prof, env) : TakeResponseBind(prof, req) # {} /\ got' = req
  <2>1. PICK req \in OpenRequestFor(prof, env) : TakeResponseBind(prof, req) # {} /\ got' = req
    BY <1>8
  <2>2. /\ values(env.clear) \cap private = {}
        /\ own => conf.extra \cap DOMAIN env.clear = {} /\ KeyFor(req)
        /\ RebuiltAs(req)
    BY <1>1, <2>1, ServedAs
  <2>3. PayloadStaysSealed'
    BY <1>1, <1>4, <1>7, <2>2 DEF PayloadStaysSealed
  <2>4. RebuiltAsMeant'
    <3>1. own => drop(got', conf.unbound) = drop(sent, conf.unbound)
                 /\ (prof \in {"image", "asyncimage", "speech"} => "response_format" \notin conf.unbound)
      BY <2>1, <2>2 DEF RebuiltAs
    <3>2. own /\ conf.unbound \cap {"stream", "stream_options"} = {} =>
              (("stream_options" \in DOMAIN got' /\ got'["stream_options"] = "include_usage")
                  <=> (prof = "chat" /\ "stream" \in DOMAIN got' /\ got'["stream"] = "true"))
      BY <2>1, <2>2 DEF RebuiltAs, UsageAsked, streams
    <3>3. PICK clear : clear = env.clear
      OBVIOUS
    <3>4. /\ prof \in {"image", "asyncimage"} =>
                "response_format" \in DOMAIN clear /\ clear["response_format"] = "b64_json"
          /\ prof = "speech" =>
                /\ "response_format" \in DOMAIN clear
                /\ clear["response_format"] \in {"json", "verbose_json"}
                /\ ~streams(clear)
      <4>1. prof \in DOMAIN profiles /\ validatePinnedValues(prof, clear)
        BY <1>2, <2>2, <3>3 DEF RequestInv, RebuiltAs
      <4> QED
        BY <4>1, PinnedRules
    <3>5. \A f \in DOMAIN clear : got'[f] = clear[f]
      BY <2>1, <2>2, <3>3 DEF RebuiltAs
    <3>6. own => conf.unbound = conf.unbound \ IF prof \in {"image", "asyncimage", "speech"}
                                                THEN {"response_format"} ELSE {}
      BY <3>1
    <3>7. PICK free : free = conf.unbound \ IF prof \in {"image", "asyncimage", "speech"}
                                            THEN {"response_format"} ELSE {}
      OBVIOUS
    <3>8. own => drop(got', free) = drop(sent, free)
      BY <3>1, <3>6, <3>7
    <3> QED
      BY <1>1, <3>2, <3>3, <3>4, <3>5, <3>7, <3>8 DEF RebuiltAsMeant, streams
  <2>5. own' => SameKey'
    <3>1. bindsResponse' <=> bindsResponse
      BY <1>1 DEF bindsResponse
    <3> QED
      BY <1>1, <2>1, <2>2, <3>1 DEF SameKey, KeyFor, clientKey
  <2>6. OwnMessagesOpen'
    BY <1>8 DEF OwnMessagesOpen
  <2> QED
    BY <1>4, <1>5, <1>6, <2>3, <2>4, <2>5, <2>6 DEF EnvelopeInv
<1>9. CASE /\ stage' = "refused"
           /\ \A req \in OpenRequestFor(prof, env) : TakeResponseBind(prof, req) = {}
  <2>1. OwnMessagesOpen'
    BY <1>1, <1>2, <1>9, OwnServed, BoundIsNat DEF OwnMessagesOpen, EnvelopeTypeOK
  <2>2. RebuiltAsMeant' /\ PayloadStaysSealed'
    BY <1>4, <1>7, <1>9 DEF RebuiltAsMeant, PayloadStaysSealed, accepted
  <2> QED
    BY <1>4, <1>5, <1>6, <1>9, <2>1, <2>2 DEF EnvelopeInv
<1> QED
  BY <1>3, <1>8, <1>9

-----------------------------------------------------------------------------
LEMMA SubmitAnswerKeeps == ASSUME EnvelopeInv, SubmitAnswer PROVE EnvelopeInv'
<1>1. /\ stage = "opened" /\ stage' \in {"opened", "unpolled"} /\ prof' = prof /\ conf' = conf
      /\ own' = own /\ sent' = sent /\ seen' = seen /\ env' = env /\ edits' = edits /\ got' = got
      /\ faithful' = faithful
  BY DEF SubmitAnswer
<1>2. RequestInv /\ EnvelopeTypeOK /\ PayloadStaysSealed /\ RebuiltAsMeant /\ (own => SameKey)
  BY <1>1 DEF EnvelopeInv, Carried
<1>3. bindsResponse' <=> bindsResponse
  BY <1>1 DEF bindsResponse
<1>4. EnvelopeTypeOK' /\ Carried' /\ ~Replied' /\ stage' # "previewed"
  BY <1>1, <1>2 DEF EnvelopeTypeOK, Carried, Replied
<1>5. RequestInv'
  <2>1. own => (Binding(sent) /\ UsageAsked(sent))'
    BY <1>1, <1>2, <1>3 DEF RequestInv, Binding, UsageAsked, streams
  <2>2. own => (\E s : SealedAs(s))'
    BY <1>1, <1>2 DEF RequestInv, SealedAs
  <2> QED
    BY <1>1, <1>2, <2>1, <2>2 DEF RequestInv
<1>6. own' => SameKey'
  BY <1>1, <1>2, <1>3 DEF SameKey, clientKey
<1>7. PayloadStaysSealed'
  BY <1>1, <1>2, <1>4 DEF PayloadStaysSealed, accepted
<1>8. RebuiltAsMeant'
  <2>1. accepted' => accepted
    BY <1>1 DEF accepted
  <2> QED
    BY <1>1, <1>2, <2>1 DEF RebuiltAsMeant
<1>9. (AnswerUnreadable /\ ReadAsSealed /\ OwnMessagesOpen)'
  BY <1>1 DEF AnswerUnreadable, ReadAsSealed, OwnMessagesOpen
<1> QED
  BY <1>4, <1>5, <1>6, <1>7, <1>8, <1>9 DEF EnvelopeInv

-----------------------------------------------------------------------------
(* Answering.  What forgetting the request leaves.                            *)
LEMMA Forgotten ==
    ASSUME EnvelopeInv, answerable, forget, stage' = "answered", faithful' \in BOOLEAN
    PROVE  /\ prof \in DOMAIN profiles /\ prof' = prof /\ conf' = conf /\ own /\ own' /\ edits' = 0
           /\ EnvelopeTypeOK' /\ SameKey' /\ PayloadStaysSealed' /\ (buffered' <=> buffered)
           /\ TakeResponseBind(prof, got') = TakeResponseBind(prof, got)
           /\ ~Carried' /\ Replied' /\ env' = none
<1>1. /\ stage = "opened" /\ own /\ prof' = prof /\ conf' = conf /\ own' = own /\ edits' = 0
      /\ seen' = empty /\ env' = none /\ got' = keep(got, {fieldBind, "stream"})
  BY DEF answerable, forget
<1>2. RequestInv /\ EnvelopeTypeOK /\ SameKey
  BY <1>1 DEF EnvelopeInv, Carried
<1>3. PICK old, new : old = got /\ new = got'
  OBVIOUS
<1>4. /\ DOMAIN new = DOMAIN old \cap {fieldBind, "stream"}
      /\ \A f \in DOMAIN old \cap {fieldBind, "stream"} : new[f] = old[f]
  BY <1>1, <1>3 DEF keep
<1>5. bindsResponse' <=> bindsResponse
  BY <1>1 DEF bindsResponse
<1>6. SameKey'
  BY <1>1, <1>2, <1>3, <1>4, <1>5 DEF SameKey, clientKey
<1>7. streams(new) <=> streams(old)
  BY <1>4 DEF streams
<1>8. buffered' <=> buffered
  BY <1>1, <1>3, <1>7 DEF buffered
<1>9. TakeResponseBind(prof, new) = TakeResponseBind(prof, old)
  BY <1>4 DEF TakeResponseBind
<1>10. EnvelopeTypeOK'
  BY <1>1, <1>2, BoundIsNat DEF EnvelopeTypeOK
<1>11. PayloadStaysSealed'
  <2>1. DOMAIN seen' = {}
    BY <1>1 DEF empty
  <2> QED
    BY <1>1, <1>10, <2>1 DEF PayloadStaysSealed, values, accepted
<1>12. prof \in DOMAIN profiles
  BY <1>2 DEF RequestInv
<1> QED
  BY <1>1, <1>3, <1>6, <1>8, <1>9, <1>10, <1>11, <1>12 DEF Carried, Replied

LEMMA ReplyKeeps == ASSUME EnvelopeInv, Reply PROVE EnvelopeInv'
<1>1. answerable /\ forget /\ stage' = "answered" /\ faithful' = TRUE
  BY DEF Reply
<1>2. /\ prof \in DOMAIN profiles /\ prof' = prof /\ conf' = conf /\ own /\ own' /\ edits' = 0
      /\ EnvelopeTypeOK' /\ SameKey' /\ PayloadStaysSealed' /\ (buffered' <=> buffered)
      /\ TakeResponseBind(prof, got') = TakeResponseBind(prof, got)
      /\ ~Carried' /\ Replied' /\ env' = none
  BY <1>1, Forgotten
<1>3. PICK msg \in Frames[prof], unbound \in Unbounds[prof], final \in BOOLEAN,
           key \in TakeResponseBind(prof, got) :
          /\ buffered => final
          /\ frame' \in IF prof = "asyncimage" THEN SealAsyncImageResult(msg)
                       ELSE SealFrame(prof, msg, unbound, final, key)
          /\ back' = msg
  BY DEF Reply
<1>4. PICK u, k, m : \E fin \in BOOLEAN : m = frame' /\ m \in SealFrame(prof, msg, u, fin, k)
  <2>1. CASE prof = "asyncimage"
    <3>1. PICK yes \in BOOLEAN : yes = TRUE
      OBVIOUS
    <3>2. frame' \in SealFrame("asyncimage", msg, asyncImageResultUnbound, yes, "bind")
      BY <1>3, <2>1, <3>1 DEF SealAsyncImageResult
    <3> QED
      BY <2>1, <3>2
  <2>2. CASE prof # "asyncimage"
    BY <1>3, <2>2
  <2> QED
    BY <2>1, <2>2
<1>5. PICK fin \in BOOLEAN : m = frame' /\ m \in SealFrame(prof, msg, u, fin, k)
  BY <1>4
<1>6. PICK s : s = ResponseSealedFieldsForFrame(prof, msg)
  OBVIOUS
<1>7. /\ Shaped(m) /\ Intact(m, drop(msg, s), s, u, fin)
      /\ Hides(m, msg, drop(msg, s), s, u, fin, k)
  BY <1>2, <1>5, <1>6, FrameMade
<1>8. PICK c : c = drop(msg, s)
  OBVIOUS
<1>9. Placed(m.clear, answerContent[prof])
  <2>1. Placed(msg, answerContent[prof])
    BY <1>2, FrameFacts
  <2>2. Placed(c, answerContent[prof])
    BY <1>8, <2>1 DEF Placed, drop
  <2> QED
    BY <1>7, <1>8, <2>2 DEF Intact
<1>10. Answers'
  <2>1. drop(c, s) = drop(msg, s)
    BY <1>8 DEF drop
  <2>2. Hides(frame', back', c, s, u, fin, k)
    BY <1>3, <1>5, <1>7, <1>8
  <2> QED
    BY <1>3, <2>1, <2>2 DEF Answers, Hides
<1>11. Conforming'
  <2>1. CASE prof = "asyncimage"
    BY <1>2, <1>3, <2>1 DEF Conforming
  <2>2. CASE prof # "asyncimage"
    <3>1. frame' \in SealFrame(prof, back', unbound, final, key) /\ (buffered' => final)
      BY <1>2, <1>3, <2>2
    <3>2. key \in TakeResponseBind(prof', got')
      BY <1>2
    <3> QED
      BY <1>2, <2>2, <3>1, <3>2 DEF Conforming
  <2> QED
    BY <2>1, <2>2
<1>12. AnswerInv'
  BY <1>2, <1>5, <1>7, <1>9, <1>10, <1>11 DEF AnswerInv
<1> QED
  BY <1>1, <1>2, <1>12, Quiet DEF EnvelopeInv

LEMMA ReplyFaultyKeeps == ASSUME EnvelopeInv, ReplyFaulty PROVE EnvelopeInv'
<1>1. answerable /\ forget /\ stage' = "answered" /\ faithful' = FALSE
  BY DEF ReplyFaulty
<1>2. /\ prof \in DOMAIN profiles /\ prof' = prof /\ conf' = conf /\ own /\ own' /\ edits' = 0
      /\ EnvelopeTypeOK' /\ SameKey' /\ PayloadStaysSealed' /\ ~Carried' /\ Replied' /\ env' = none
  BY <1>1, Forgotten
<1>3. PICK msg \in Frames[prof], hidden \in FrameLists[prof], unbound \in Unbounds[prof],
           twice \in BOOLEAN, final \in BOOLEAN,
           key \in TakeResponseBind(prof, got) \cup {"base"} :
          /\ frame' = encrypt([none EXCEPT !.clear = IF twice THEN msg ELSE drop(msg, hidden),
                                           !.sealed = hidden \cap DOMAIN msg, !.unbound = unbound,
                                           !.final = final],
                              keep(msg, hidden), key)
          /\ back' = msg
  BY DEF ReplyFaulty
<1>4. PICK c, s, pt, n, m : /\ c = IF twice THEN msg ELSE drop(msg, hidden)
                            /\ s = hidden \cap DOMAIN msg /\ pt = keep(msg, hidden)
                            /\ n = [none EXCEPT !.clear = c, !.sealed = s, !.unbound = unbound,
                                                !.final = final]
                            /\ m = frame'
  OBVIOUS
<1>5. m = encrypt(n, pt, key)
  BY <1>3, <1>4
<1>6. Shaped(n) /\ Intact(n, c, s, unbound, final)
  BY <1>4, Drafted
<1>7. Made(m, c, s, unbound, final, pt, key)
  BY <1>5, <1>6, Encrypted
<1>8. pt = keep(msg, s)
  BY <1>4 DEF keep
<1>9. Hides(m, msg, c, s, unbound, final, key)
  BY <1>7, <1>8 DEF Made, Hides
<1>10. drop(c, s) = drop(msg, s)
  BY <1>4 DEF drop
<1>11. Answers'
  <2>1. Hides(frame', back', c, s, unbound, final, key) /\ drop(c, s) = drop(back', s)
    BY <1>3, <1>4, <1>9, <1>10
  <2>2. PICK fin \in BOOLEAN : fin = final
    OBVIOUS
  <2> QED
    BY <2>1, <2>2 DEF Answers, Hides
<1>12. Placed(m.clear, answerContent[prof])
  <2>1. Placed(msg, answerContent[prof])
    BY <1>2, FrameFacts
  <2>2. Placed(c, answerContent[prof])
    BY <1>4, <2>1 DEF Placed, drop
  <2> QED
    BY <1>7, <2>2 DEF Made, Intact
<1>13. AnswerInv'
  BY <1>1, <1>2, <1>4, <1>7, <1>11, <1>12 DEF AnswerInv, Made
<1> QED
  BY <1>1, <1>2, <1>13, Quiet DEF EnvelopeInv

LEMMA RewriteFrameKeeps == ASSUME EnvelopeInv, RewriteFrame PROVE EnvelopeInv'
<1>1. /\ stage = "answered" /\ stage' = stage /\ prof' = prof /\ conf' = conf /\ own' = own
      /\ seen' = seen /\ env' = env /\ got' = got /\ faithful' = faithful /\ back' = back
      /\ edits < MaxEdits /\ edits' = edits + 1 /\ frame' \in rewritten(frame)
  BY DEF RewriteFrame
<1>2. AnswerInv /\ EnvelopeTypeOK /\ PayloadStaysSealed /\ env = none
  BY <1>1 DEF EnvelopeInv, Carried, Replied
<1>3. PICK m2 : m2 = frame'
  OBVIOUS
<1>4. /\ Shaped(m2) /\ m2.ct = frame.ct
      /\ \A f \in DOMAIN m2.clear : m2.clear[f] \in private =>
            f \in DOMAIN frame.clear /\ m2.clear[f] = frame.clear[f]
  <2>1. m2 \in rewritten(frame) /\ Shaped(frame)
    BY <1>1, <1>2, <1>3 DEF AnswerInv
  <2> QED
    BY <2>1, RouterWrites
<1>5. EnvelopeTypeOK' /\ edits' # 0
  BY <1>1, <1>2, BoundIsNat DEF EnvelopeTypeOK
<1>6. Placed(m2.clear, answerContent[prof])
  BY <1>2, <1>4 DEF AnswerInv, Placed
<1>7. Answers'
  <2>1. frame'.ct = frame.ct
    BY <1>3, <1>4
  <2> QED
    BY <1>1, <1>2, <2>1 DEF AnswerInv, Answers, Hides
<1>8. SameKey'
  <2>1. bindsResponse' <=> bindsResponse
    BY <1>1 DEF bindsResponse
  <2> QED
    BY <1>1, <1>2, <2>1 DEF AnswerInv, SameKey, clientKey
<1>9. AnswerInv'
  BY <1>1, <1>2, <1>3, <1>4, <1>5, <1>6, <1>7, <1>8 DEF AnswerInv
<1>10. PayloadStaysSealed'
  BY <1>1, <1>2, <1>5 DEF PayloadStaysSealed, accepted
<1> QED
  BY <1>1, <1>2, <1>5, <1>9, <1>10, Quiet DEF EnvelopeInv, Carried, Replied

-----------------------------------------------------------------------------
(* Receiving.  What ReadAsSealed says of an answer that opened.               *)
ReadAs(out) ==
    /\ \A f \in decisive : keep(frame.clear, {f}) = keep(back, {f})
    /\ frame.final /\ prof \in {"image", "asyncimage", "speech", "embedding"} =>
           \E n \in {"3", "4", "0.5"} : billed(frame.clear) = {n}
    /\ prof = "asyncimage" => out["status"] = "completed" /\ <<out["jobId"]>> = want
    /\ prof = "anthropic" => ResponseEventName(prof, out) = {back["type"]}
    /\ buffered => frame.final
    /\ fieldBind \in DOMAIN got => frame.ct.key = "bind"

LEMMA OpenedFrame ==
    ASSUME prof \in DOMAIN profiles, NEW out, out \in opened
    PROVE  /\ out \in OpenFrame(prof, frame, clientKey) /\ (buffered => frame.final)
           /\ prof = "asyncimage" =>
                 /\ "status" \in DOMAIN frame.clear /\ frame.clear["status"] = "completed"
                 /\ "jobId" \in DOMAIN frame.clear /\ <<frame.clear["jobId"]>> = want
<1>1. CASE prof = "asyncimage"
  <2>1. requiresBind(prof)
    BY <1>1, BindRequired
  <2>2. clientKey = "bind"
    BY <2>1 DEF clientKey
  <2>3. out \in OpenAsyncImageResult(frame)
    BY <1>1 DEF opened
  <2> QED
    BY <1>1, <2>2, <2>3 DEF OpenAsyncImageResult, OpenResponseFor, cleartextString
<1>2. CASE prof # "asyncimage"
  BY <1>2 DEF opened, OpenResponseFor
<1> QED
  BY <1>1, <1>2

LEMMA DeliveredAs ==
    ASSUME EnvelopeInv, stage = "answered", NEW out, out \in opened
    PROVE  values(frame.clear) \cap private = {} /\ ReadAs(out)
<1>1. AnswerInv
  BY DEF EnvelopeInv, Replied
<1>2. prof \in DOMAIN profiles /\ SameKey /\ Answers /\ Placed(frame.clear, answerContent[prof])
  BY <1>1 DEF AnswerInv
<1>3. /\ out \in OpenFrame(prof, frame, clientKey) /\ (buffered => frame.final)
      /\ prof = "asyncimage" =>
            /\ "status" \in DOMAIN frame.clear /\ frame.clear["status"] = "completed"
            /\ "jobId" \in DOMAIN frame.clear /\ <<frame.clear["jobId"]>> = want
  BY <1>2, OpenedFrame
<1>4. PICK c, s, u, key : \E fin \in BOOLEAN :
          Hides(frame, back, c, s, u, fin, key) /\ drop(c, s) = drop(back, s)
  BY <1>2 DEF Answers
<1>5. PICK fin \in BOOLEAN : Hides(frame, back, c, s, u, fin, key) /\ drop(c, s) = drop(back, s)
  BY <1>4
<1>6. PICK m, clear, msg, sealed, unbound :
          /\ m = frame /\ clear = frame.clear /\ msg = back
          /\ sealed = frame.sealed /\ unbound = frame.unbound
  OBVIOUS
<1>7. /\ validateResponseUnboundFieldsFor(prof, unbound)
      /\ validateResponseSealedFieldsForFrame(prof, clear, sealed)
      /\ frame.final => validateResponseCleartextFor(prof, clear)
      /\ opens(m, clientKey) /\ out \in rebuild(m)
  BY <1>3, <1>6 DEF OpenFrame
<1>8. clientKey = key /\ OpensAs(m, msg, c, s, u, fin, out)
  <2>1. PICK k : k = clientKey
    OBVIOUS
  <2>2. Hides(m, msg, c, s, u, fin, key) /\ opens(m, k)
    BY <1>5, <1>6, <1>7, <2>1
  <2>3. k = key /\ OpensAs(m, msg, c, s, u, fin, out)
    BY <1>7, <2>2, Opening
  <2> QED
    BY <2>1, <2>3
<1>9. /\ sealed = s /\ unbound = u /\ s \cap DOMAIN clear = {}
      /\ \A f \in DOMAIN clear : out[f] = clear[f]
      /\ DOMAIN clear \ u = DOMAIN c \ u
      /\ \A f \in DOMAIN c \ u : clear[f] = c[f]
  BY <1>6, <1>8 DEF OpensAs
<1>10. values(clear) \cap private = {}
  BY <1>2, <1>6, <1>7, <1>9, NothingToRead
<1>11. DOMAIN c \ s = DOMAIN msg \ s /\ \A f \in DOMAIN msg \ s : c[f] = msg[f]
  <2>1. drop(c, s) = drop(msg, s)
    BY <1>5, <1>6
  <2> QED
    BY <2>1 DEF drop
<1>12. decisive \cap (s \cup u) = {}
  BY <1>2, <1>7, <1>9, DecisiveKept
<1>13. \A f \in decisive : /\ f \in DOMAIN clear <=> f \in DOMAIN msg
                           /\ f \in DOMAIN clear => clear[f] = msg[f]
  BY <1>9, <1>11, <1>12
<1>14. \A f \in decisive : keep(clear, {f}) = keep(msg, {f})
  <2>1. SUFFICES ASSUME NEW f \in decisive PROVE keep(clear, {f}) = keep(msg, {f})
    OBVIOUS
  <2>2. DOMAIN clear \cap {f} = DOMAIN msg \cap {f} /\ \A g \in DOMAIN clear \cap {f} : clear[g] = msg[g]
    BY <1>13, <2>1
  <2> QED
    BY <2>2 DEF keep
<1>15. frame.final /\ prof \in {"image", "asyncimage", "speech", "embedding"} =>
           \E n \in {"3", "4", "0.5"} : billed(clear) = {n}
  BY <1>7, BilledOnce
<1>16. prof = "asyncimage" => out["status"] = "completed" /\ <<out["jobId"]>> = want
  BY <1>3, <1>6, <1>9
<1>17. prof = "anthropic" => ResponseEventName(prof, out) = {msg["type"]}
  <2>1. SUFFICES ASSUME prof = "anthropic" PROVE ResponseEventName(prof, out) = {msg["type"]}
    OBVIOUS
  <2>2. spec(prof).typed
    BY <1>2, <2>1, Typed
  <2>3. "type" \in DOMAIN clear
    BY <1>7, <2>2 DEF validateResponseSealedFieldsForFrame, validateTypedFrame, hasShape, discriminator
  <2>4. "type" \in decisive
    BY <2>1 DEF decisive
  <2>5. out["type"] = msg["type"]
    BY <1>9, <1>13, <2>3, <2>4
  <2> QED
    BY <2>2, <2>5 DEF ResponseEventName, discriminator
<1>18. fieldBind \in DOMAIN got => frame.ct.key = "bind"
  BY <1>2, <1>7, <1>6 DEF SameKey, opens
<1> QED
  BY <1>3, <1>6, <1>10, <1>14, <1>15, <1>16, <1>17, <1>18 DEF ReadAs

(* A sealed frame opens for the key it was sealed under.                      *)
LEMMA FrameOpens ==
    ASSUME NEW p \in DOMAIN profiles, NEW msg, NEW u, NEW fin \in BOOLEAN, NEW key, NEW m,
           m \in SealFrame(p, msg, u, fin, key)
    PROVE  OpenFrame(p, m, key) # {} /\ m.final = fin /\ newResponseOpener(p, key)
<1>1. PICK s, c, pt : s = ResponseSealedFieldsForFrame(p, msg) /\ c = drop(msg, s) /\ pt = keep(msg, s)
  OBVIOUS
<1>2. /\ Shaped(m) /\ Intact(m, c, s, u, fin) /\ Hides(m, msg, c, s, u, fin, key)
      /\ s \subseteq DOMAIN msg
      /\ validateResponseSealedFieldsForFrame(p, msg, s)
      /\ validateResponseUnboundFieldsFor(p, u)
      /\ fin => validateResponseCleartextFor(p, msg)
      /\ key = "base" => ~requiresBind(p)
  BY <1>1, FrameMade
<1>3. /\ m.clear = c /\ m.sealed = s /\ m.unbound = u /\ m.final = fin
      /\ m.ct = [pt |-> pt, key |-> key,
                 aad |-> [clear |-> drop(c, u), sealed |-> s, unbound |-> u, final |-> fin]]
  BY <1>1, <1>2 DEF Intact, Hides
<1>4. m.ct.pt = pt /\ opens(m, key)
  <2>1. PICK a : a = [clear |-> drop(c, u), sealed |-> s, unbound |-> u, final |-> fin]
    OBVIOUS
  <2>2. m.ct.pt = pt /\ m.ct.key = key /\ m.ct.aad = a
    BY <1>3, <2>1
  <2>3. aadFromEnvelope(m) = a
    BY <1>3, <2>1 DEF aadFromEnvelope
  <2> QED
    BY <2>2, <2>3 DEF opens
<1>5. DOMAIN c = DOMAIN msg \ s /\ DOMAIN pt = s
  BY <1>1, <1>2 DEF drop, keep
<1>6. e2eeKey \notin s /\ s \cap locatorFields(p) = {}
  BY <1>2, SealedNames
<1>7. rebuild(m) # {}
  <2>1. PICK out : out = merge(pt, c)
    OBVIOUS
  <2>2. out \in rebuild(m)
    BY <1>3, <1>4, <1>5, <1>6, <2>1 DEF rebuild
  <2> QED
    BY <2>2
<1>8. validateResponseSealedFieldsForFrame(p, c, s)
  BY <1>1, <1>2, FramePasses
<1>9. fin => validateResponseCleartextFor(p, c)
  BY <1>1, <1>2, <1>6, QuantityStays
<1>10. OpenFrame(p, m, key) # {}
  BY <1>2, <1>3, <1>4, <1>7, <1>8, <1>9 DEF OpenFrame
<1> QED
  BY <1>2, <1>3, <1>10 DEF newResponseOpener

(* The key a conforming enclave took is the client's.                         *)
LEMMA TakenKey ==
    ASSUME SameKey, NEW key \in TakeResponseBind(prof, got)
    PROVE  key = clientKey
<1>1. CASE fieldBind \in DOMAIN got
  BY <1>1 DEF SameKey, TakeResponseBind
<1>2. CASE fieldBind \notin DOMAIN got
  BY <1>2 DEF SameKey, TakeResponseBind, clientKey
<1> QED
  BY <1>1, <1>2

(* An untouched answer of a conforming enclave opens, for its own job.        *)
LEMMA RejectedNotOurs ==
    ASSUME EnvelopeInv, stage = "answered", faithful, edits = 0, opened = {}
    PROVE  prof = "asyncimage" /\ <<back["jobId"]>> # want
<1>1. prof \in DOMAIN profiles /\ SameKey /\ Conforming
  BY DEF EnvelopeInv, Replied, AnswerInv
<1>2. PICK m : m = frame
  OBVIOUS
<1>3. prof = "asyncimage"
  <2> SUFFICES ASSUME prof # "asyncimage" PROVE FALSE
    OBVIOUS
  <2>1. PICK unbound : \E final \in BOOLEAN : \E key \in TakeResponseBind(prof, got) :
            m \in SealFrame(prof, back, unbound, final, key) /\ (buffered => final)
    BY <1>1, <1>2 DEF Conforming
  <2>2. PICK final \in BOOLEAN : \E key \in TakeResponseBind(prof, got) :
            m \in SealFrame(prof, back, unbound, final, key) /\ (buffered => final)
    BY <2>1
  <2>3. PICK key \in TakeResponseBind(prof, got) :
            m \in SealFrame(prof, back, unbound, final, key) /\ (buffered => final)
    BY <2>2
  <2>4. OpenFrame(prof, m, key) # {} /\ m.final = final /\ newResponseOpener(prof, key)
    BY <1>1, <2>3, FrameOpens
  <2>5. key = clientKey
    BY <1>1, TakenKey
  <2> QED
    BY <1>2, <2>3, <2>4, <2>5 DEF opened, OpenResponseFor
<1>4. PICK msg, p : msg = back /\ p = prof
  OBVIOUS
<1>5. /\ m \in SealFrame(p, msg, asyncImageResultUnbound, TRUE, "bind")
      /\ cleartextString(msg, "jobId") /\ cleartextString(msg, "status") /\ msg["status"] = "completed"
  BY <1>1, <1>2, <1>3, <1>4 DEF Conforming, SealAsyncImageResult
<1>6. PICK yes \in BOOLEAN : yes = TRUE
  OBVIOUS
<1>7. PICK s : s = ResponseSealedFieldsForFrame(p, msg)
  OBVIOUS
<1>8. m \in SealFrame(p, msg, asyncImageResultUnbound, yes, "bind")
  BY <1>5, <1>6
<1>9. OpenFrame(p, m, "bind") # {} /\ m.final = yes
  BY <1>1, <1>4, <1>8, FrameOpens
<1>10. /\ Intact(m, drop(msg, s), s, asyncImageResultUnbound, yes)
       /\ validateResponseSealedFieldsForFrame(p, msg, s)
  BY <1>1, <1>4, <1>7, <1>8, FrameMade
<1>11. "jobId" \notin s /\ "status" \notin s
  BY <1>3, <1>4, <1>10, AsyncimageRow DEF validateResponseSealedFieldsForFrame
<1>12. PICK clear : clear = m.clear
  OBVIOUS
<1>13. /\ "jobId" \in DOMAIN clear /\ clear["jobId"] = msg["jobId"]
       /\ "status" \in DOMAIN clear /\ clear["status"] = msg["status"]
  <2>1. clear = drop(msg, s)
    BY <1>10, <1>12 DEF Intact
  <2> QED
    BY <1>5, <1>11, <2>1 DEF drop, cleartextString
<1>14. /\ cleartextString(clear, "jobId") /\ cleartextString(clear, "status")
       /\ clear["status"] = "completed"
  BY <1>5, <1>13 DEF cleartextString
<1>15. m.unbound \subseteq asyncImageResultUnbound
  BY <1>10 DEF Intact
<1>16. OpenResponseFor("asyncimage", m, "bind") # {}
  BY <1>3, <1>4, <1>6, <1>9 DEF OpenResponseFor, newResponseOpener
<1>17. OpenAsyncImageResult(m) = {}
  BY <1>2, <1>3 DEF opened
<1>18. <<clear["jobId"]>> # want
  BY <1>12, <1>14, <1>15, <1>16, <1>17 DEF OpenAsyncImageResult
<1> QED
  BY <1>3, <1>4, <1>13, <1>18

LEMMA ReceiveKeeps == ASSUME EnvelopeInv, Receive PROVE EnvelopeInv'
<1>1. /\ stage = "answered" /\ stage' \in {"delivered", "rejected"} /\ prof' = prof /\ conf' = conf
      /\ own' = own /\ seen' = seen /\ env' = env /\ edits' = edits /\ got' = got
      /\ faithful' = faithful /\ back' = back /\ frame' = frame /\ want' = want
  BY DEF Receive
<1>2. AnswerInv /\ EnvelopeTypeOK /\ PayloadStaysSealed /\ env = none
  BY <1>1 DEF EnvelopeInv, Carried, Replied
<1>3. (bindsResponse' <=> bindsResponse) /\ (buffered' <=> buffered)
  BY <1>1 DEF bindsResponse, buffered
<1>4. EnvelopeTypeOK' /\ ~Carried' /\ Replied'
  BY <1>1, <1>2 DEF EnvelopeTypeOK, Carried, Replied
<1>5. SameKey'
  BY <1>1, <1>2, <1>3 DEF AnswerInv, SameKey, clientKey
<1>6. Answers'
  BY <1>1, <1>2 DEF AnswerInv, Answers, Hides
<1>7. faithful' /\ edits' = 0 => Conforming'
  BY <1>1, <1>2, <1>3 DEF AnswerInv, Conforming
<1>8. AnswerInv'
  BY <1>1, <1>2, <1>5, <1>6, <1>7 DEF AnswerInv
<1>9. PayloadStaysSealed'
  BY <1>1, <1>2, <1>4 DEF PayloadStaysSealed, accepted
<1>10. RebuiltAsMeant'
  BY <1>1 DEF RebuiltAsMeant, accepted
<1>11. AnswerUnreadable' /\ ReadAsSealed'
  <2>1. CASE stage' = "delivered"
    <3>1. PICK out : out = answer'
      OBVIOUS
    <3>2. out \in opened
      BY <2>1, <3>1 DEF Receive
    <3>3. values(frame.clear) \cap private = {} /\ ReadAs(out)
      BY <1>1, <3>2, DeliveredAs
    <3>4. AnswerUnreadable'
      BY <1>1, <3>3 DEF AnswerUnreadable
    <3>5. ReadAsSealed'
      BY <1>1, <1>3, <3>1, <3>3 DEF ReadAsSealed, ReadAs, decisive, billed
    <3> QED
      BY <3>4, <3>5
  <2>2. CASE stage' = "rejected"
    BY <2>2 DEF AnswerUnreadable, ReadAsSealed
  <2> QED
    BY <1>1, <2>1, <2>2
<1>12. OwnMessagesOpen'
  <2>1. CASE stage' = "delivered"
    BY <2>1 DEF OwnMessagesOpen
  <2>2. CASE stage' = "rejected"
    <3>1. opened = {}
      BY <2>2 DEF Receive
    <3>2. faithful /\ edits = 0 => prof = "asyncimage" /\ <<back["jobId"]>> # want
      BY <1>1, <3>1, RejectedNotOurs
    <3>3. edits = 0 \/ edits > 0
      BY <1>2, BoundIsNat DEF EnvelopeTypeOK
    <3> QED
      BY <1>1, <2>2, <3>2, <3>3 DEF OwnMessagesOpen
  <2> QED
    BY <1>1, <2>1, <2>2
<1> QED
  BY <1>1, <1>2, <1>4, <1>8, <1>9, <1>10, <1>11, <1>12 DEF EnvelopeInv

LEMMA NextCallKeeps == ASSUME EnvelopeInv, NextCall PROVE EnvelopeInv'
<1>1. /\ stage' = "idle" /\ prof' = "chat" /\ conf' = conf /\ own' = TRUE /\ seen' = empty
      /\ env' = none /\ edits' = 0 /\ faithful' = TRUE
  BY DEF NextCall
<1>2. EnvelopeTypeOK'
  BY <1>1, ProfileNames, BoundIsNat DEF EnvelopeInv, EnvelopeTypeOK
<1>3. DOMAIN seen' = {}
  BY <1>1 DEF empty
<1>4. PayloadStaysSealed'
  BY <1>1, <1>2, <1>3 DEF PayloadStaysSealed, values, accepted
<1>5. ~Carried' /\ ~Replied'
  BY <1>1 DEF Carried, Replied
<1> QED
  BY <1>1, <1>2, <1>4, <1>5, Quiet DEF EnvelopeInv

LEMMA EnvelopeIdle == ASSUME EnvelopeInv, UNCHANGED envelopeVars PROVE EnvelopeInv'
<1>1. /\ stage' = stage /\ prof' = prof /\ conf' = conf /\ own' = own /\ sent' = sent /\ seen' = seen
      /\ env' = env /\ edits' = edits /\ got' = got /\ faithful' = faithful /\ back' = back
      /\ frame' = frame /\ want' = want /\ answer' = answer
  BY DEF envelopeVars
<1>2. (bindsResponse' <=> bindsResponse) /\ (buffered' <=> buffered)
  BY <1>1 DEF bindsResponse, buffered
<1>3. SameKey => SameKey'
  BY <1>1, <1>2 DEF SameKey, clientKey
<1>4. RequestInv => RequestInv'
  BY <1>1, <1>2 DEF RequestInv, Binding, UsageAsked, SealedAs, Hides, Intact, streams
<1>5. AnswerInv => AnswerInv'
  BY <1>1, <1>2, <1>3 DEF AnswerInv, Answers, Hides, Conforming
<1>6. (EnvelopeTypeOK /\ PayloadStaysSealed)'
  BY <1>1 DEF EnvelopeInv, EnvelopeTypeOK, PayloadStaysSealed, accepted
<1>7. RebuiltAsMeant'
  BY <1>1 DEF EnvelopeInv, RebuiltAsMeant, accepted
<1>8. AnswerUnreadable' /\ OwnMessagesOpen'
  BY <1>1 DEF EnvelopeInv, AnswerUnreadable, OwnMessagesOpen
<1>9. ReadAsSealed'
  BY <1>1, <1>2 DEF EnvelopeInv, ReadAsSealed, decisive, billed
<1> QED
  BY <1>1, <1>3, <1>4, <1>5, <1>6, <1>7, <1>8, <1>9 DEF EnvelopeInv, Carried, Replied

LEMMA EnvelopeStep == EnvelopeInv /\ [EnvelopeNext]_envelopeVars => EnvelopeInv'
<1> SUFFICES ASSUME EnvelopeInv, [EnvelopeNext]_envelopeVars PROVE EnvelopeInv'
  OBVIOUS
<1>1. CASE Preview
  BY <1>1, PreviewKeeps
<1>2. CASE Seal
  BY <1>2, SealKeeps
<1>3. CASE SealForeign
  BY <1>3, SealForeignKeeps
<1>4. CASE RewriteRequest
  BY <1>4, RewriteRequestKeeps
<1>5. CASE ServeRequest
  BY <1>5, ServeRequestKeeps
<1>6. CASE SubmitAnswer
  BY <1>6, SubmitAnswerKeeps
<1>7. CASE Reply
  BY <1>7, ReplyKeeps
<1>8. CASE ReplyFaulty
  BY <1>8, ReplyFaultyKeeps
<1>9. CASE RewriteFrame
  BY <1>9, RewriteFrameKeeps
<1>10. CASE Receive
  BY <1>10, ReceiveKeeps
<1>11. CASE NextCall
  BY <1>11, NextCallKeeps
<1>12. CASE UNCHANGED envelopeVars
  BY <1>12, EnvelopeIdle
<1> QED
  BY <1>1, <1>2, <1>3, <1>4, <1>5, <1>6, <1>7, <1>8, <1>9, <1>10, <1>11, <1>12 DEF EnvelopeNext

LEMMA EnvelopeInvHolds == EnvelopeSpec => []EnvelopeInv
<1> QED
  BY EnvelopeInitOK, EnvelopeStep, PTL DEF EnvelopeSpec

(* The preview body and the envelope of every profile, body and configuration *)
(* show the router nothing private, and no enclave serves a request of which  *)
(* it could read something private, whoever sealed it and however the router  *)
(* rewrote it (route.go:399 withheldFor, client.go:1012 seal, envelope.go:1562*)
(* OpenRequestFor).                                                           *)
THEOREM PayloadStaysSealedHolds == EnvelopeSpec => []PayloadStaysSealed
<1>1. EnvelopeInv => PayloadStaysSealed
  BY DEF EnvelopeInv
<1> QED
  BY <1>1, EnvelopeInvHolds, PTL

(* An enclave rebuilds the client's request, field by field, whatever the     *)
(* router set or removed, and a field that decides how content comes back has *)
(* a value that keeps it out of the clear (envelope.go:1690 aadFromEnvelope,  *)
(* 881 validatePinnedFor, client.go withStreamUsage).                         *)
THEOREM RebuiltAsMeantHolds == EnvelopeSpec => []RebuiltAsMeant
<1>1. EnvelopeInv => RebuiltAsMeant
  BY DEF EnvelopeInv
<1> QED
  BY <1>1, EnvelopeInvHolds, PTL

(* A delivered answer showed the router nothing generated, though a faulty    *)
(* enclave seals any fields it likes and claims any shape (response.go:543    *)
(* validateResponseSealedFieldsForFrame).                                     *)
THEOREM AnswerUnreadableHolds == EnvelopeSpec => []AnswerUnreadable
<1>1. EnvelopeInv => AnswerUnreadable
  BY DEF EnvelopeInv
<1> QED
  BY <1>1, EnvelopeInvHolds, PTL

(* Shape, billed quantity, job and binding of a delivered answer are those    *)
(* its enclave sealed, and a metered final frame states one quantity          *)
(* (response.go:350, 754, async.go:144).                                      *)
THEOREM ReadAsSealedHolds == EnvelopeSpec => []ReadAsSealed
<1>1. EnvelopeInv => ReadAsSealed
  BY DEF EnvelopeInv
<1> QED
  BY <1>1, EnvelopeInvHolds, PTL

(* What either end seals by its own rules the other end's rules open: no      *)
(* check of OpenRequestFor or OpenFrame refuses a message nobody touched      *)
(* (envelope.go:1447 SealRequestFor and 1562, response.go:960 and 1119).       *)
THEOREM OwnMessagesOpenHolds == EnvelopeSpec => []OwnMessagesOpen
<1>1. EnvelopeInv => OwnMessagesOpen
  BY DEF EnvelopeInv
<1> QED
  BY <1>1, EnvelopeInvHolds, PTL
=============================================================================
