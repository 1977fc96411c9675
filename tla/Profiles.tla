------------------------------- MODULE Profiles -------------------------------
(***************************************************************************)
(* The sealing profiles of protocol/wire/envelope.go and the rules they    *)
(* impose on a request or on a response frame (envelope.go, response.go).  *)
(* A message body is a function from the fields present to string tokens   *)
(* that stand for their JSON values; a field list is a set (a list naming  *)
(* a field twice is refused by both ends and is not represented).  Every   *)
(* operator here is a pure function of its arguments.                      *)
(***************************************************************************)
EXTENDS Integers, FiniteSets, TLC

e2eeKey == "_e2ee"
fieldBind == "_bind"

(* No name at all.                                                          *)
blank == ""

-----------------------------------------------------------------------------
(* The vocabulary the table is written in.                                  *)

payloadField(names, optional) == [name : names, optional : {optional}]

pinnedField(field, permitted, optional) ==
    [field |-> field, permitted |-> permitted, optional |-> optional]

(* A field kept in clear whose named inner array must stay empty.           *)
protectedCleartext(field) == [field |-> field]

(* Where a number is read: a field, or a key of the object it holds.        *)
cleartextNumber(field, inner) == [field |-> field, inner |-> inner]

cleartextQuantity(locators, kind) == [locators |-> locators, kind |-> kind]

frameShape(content, terminal, sealIfPresent) ==
    [content |-> content, terminal |-> terminal, sealIfPresent |-> sealIfPresent]

profileSpec ==
    [payload |-> {}, responsePayload |-> {}, typed |-> FALSE, pinned |-> {},
     requiredResponseCleartext |-> {}, protected |-> {}, bound |-> {}]

-----------------------------------------------------------------------------
(* The table.                                                               *)

imagesDelivered == cleartextQuantity({cleartextNumber("usage", TRUE)}, "whole")

b64Only == pinnedField("response_format", {"b64_json"}, FALSE)

ProfileAsyncImage ==
    [profileSpec EXCEPT !.payload = payloadField({"prompt", fieldBind}, FALSE),
        !.responsePayload = payloadField({"data"}, FALSE), !.pinned = {b64Only},
        !.requiredResponseCleartext = {imagesDelivered}, !.bound = {"jobId", "status"}]

ProfileChat_ToolsOpen ==
    [profileSpec EXCEPT !.payload = payloadField({"messages"}, FALSE) \cup payloadField({"tools"}, TRUE),
        !.responsePayload = payloadField({"choices"}, FALSE)]
ProfileChat ==
    [profileSpec EXCEPT
        !.payload = payloadField({"messages"}, FALSE) \cup payloadField({"tools", "tool_choice"}, TRUE),
        !.responsePayload = payloadField({"choices"}, FALSE)]

ProfileImage ==
    [profileSpec EXCEPT !.payload = payloadField({"prompt"}, FALSE),
        !.responsePayload = payloadField({"data"}, FALSE), !.pinned = {b64Only},
        !.requiredResponseCleartext = {imagesDelivered}]

ProfileAnthropic ==
    [profileSpec EXCEPT
        !.payload = payloadField({"messages"}, FALSE)
                        \cup payloadField({"system", "tools", "tool_choice"}, TRUE),
        !.typed = TRUE, !.protected = {protectedCleartext("message")}]

ProfileSpeech ==
    [profileSpec EXCEPT
        !.payload = payloadField({"file_base64"}, FALSE)
                        \cup payloadField({"filename", "language", "prompt"}, TRUE),
        !.responsePayload = payloadField({"text"}, FALSE)
                        \cup payloadField({"segments", "words", "language"}, TRUE),
        !.pinned = {pinnedField("response_format", {"json", "verbose_json"}, FALSE),
                    pinnedField("stream", {"false"}, TRUE)},
        !.requiredResponseCleartext =
            {cleartextQuantity({cleartextNumber("usage", TRUE), cleartextNumber("duration", FALSE)},
                               "fractional")}]

ProfileEmbedding ==
    [profileSpec EXCEPT !.payload = payloadField({"input"}, FALSE),
        !.responsePayload = payloadField({"data"}, FALSE),
        !.requiredResponseCleartext = {cleartextQuantity({cleartextNumber("usage", TRUE)}, "whole")}]

profiles ==
    [chat |-> ProfileChat, image |-> ProfileImage, asyncimage |-> ProfileAsyncImage,
     anthropic |-> ProfileAnthropic, speech |-> ProfileSpeech, embedding |-> ProfileEmbedding]

(* The Anthropic stream: each shape, what it seals, whether it ends.        *)
anthropicFrames_ErrorOpen ==
    LET shape == frameShape({}, FALSE, {})
    IN [message |-> frameShape({"content"}, FALSE, {"stop_sequence"}),
        message_start |-> shape, content_block_stop |-> shape, ping |-> shape,
        content_block_start |-> frameShape({"content_block"}, FALSE, {}),
        content_block_delta |-> frameShape({"delta"}, FALSE, {}),
        message_delta |-> frameShape({"delta"}, FALSE, {}),
        message_stop |-> frameShape({}, TRUE, {}),
        error |-> frameShape({}, TRUE, {})]
anthropicFrames ==
    LET shape == frameShape({}, FALSE, {})
    IN [message |-> frameShape({"content"}, FALSE, {"stop_sequence"}),
        message_start |-> shape, content_block_stop |-> shape, ping |-> shape,
        content_block_start |-> frameShape({"content_block"}, FALSE, {}),
        content_block_delta |-> frameShape({"delta"}, FALSE, {}),
        message_delta |-> frameShape({"delta"}, FALSE, {}),
        message_stop |-> frameShape({}, TRUE, {}),
        error |-> frameShape({"error"}, TRUE, {})]

discriminator == "type"

contentFields == UNION {anthropicFrames[k].content \cup anthropicFrames[k].sealIfPresent :
                            k \in DOMAIN anthropicFrames}

spec(p) == profiles[p]

names(fields) == {f.name : f \in fields}

mandatory(fields) == names({f \in fields : ~f.optional})

requiresBind(p) == fieldBind \in mandatory(spec(p).payload)

ResponseBindApplies(p) == ~requiresBind(p)

DefaultSealedFieldsFor(p) == names(spec(p).payload)

DefaultUnboundFields == {"model"}

(* The table is well formed: nothing is both payload and pinned, a number   *)
(* the router bills on is not generated content, and only a profile without *)
(* typed frames names response payload.                                     *)
ASSUME ProfilesAssumption ==
    \A p \in DOMAIN profiles :
        /\ names(spec(p).payload) \cap {pin.field : pin \in spec(p).pinned} = {}
        /\ \A q \in spec(p).requiredResponseCleartext :
               {l.field : l \in q.locators} \cap names(spec(p).responsePayload) = {}
        /\ spec(p).typed <=> spec(p).responsePayload = {}

-----------------------------------------------------------------------------
(* Rules on a request.                                                      *)

(* cleartextToken: false and "false" are the same token; a composite value  *)
(* has none.                                                                *)
composites == {"[]", "{}", "junk"}
cleartextToken(v) == IF v \in composites THEN {} ELSE {v}

pins(p) == {pin.field : pin \in spec(p).pinned}

validatePinnedNotSealed(p, sealed) == sealed \cap pins(p) = {}

validatePinnedNotUnbound_Skip(p, unbound) == TRUE
validatePinnedNotUnbound(p, unbound) == unbound \cap pins(p) = {}

validatePinnedValues_PresentOnly(p, req) ==
    \A pin \in spec(p).pinned :
        pin.field \in DOMAIN req => cleartextToken(req[pin.field]) \cap pin.permitted # {}
validatePinnedValues(p, req) ==
    \A pin \in spec(p).pinned :
        IF pin.field \in DOMAIN req
        THEN cleartextToken(req[pin.field]) \cap pin.permitted # {}
        ELSE pin.optional

validatePinnedFor(p, req, sealed, unbound) ==
    /\ validatePinnedNotSealed(p, sealed)
    /\ validatePinnedNotUnbound(p, unbound)
    /\ validatePinnedValues(p, req)

(* Payload, and a binding value on any profile, is sealed whenever present. *)
validatePayloadSealedFor_MandatoryOnly(p, sealed, req) ==
    (DOMAIN req \cap mandatory(spec(p).payload)) \subseteq sealed
validatePayloadSealedFor(p, sealed, req) ==
    (DOMAIN req \cap (names(spec(p).payload) \cup {fieldBind})) \subseteq sealed

ValidateSealedFieldsFor(p, sealed) ==
    /\ sealed # {}
    /\ validatePinnedNotSealed(p, sealed)
    /\ sealed \cap {blank, e2eeKey} = {}
    /\ mandatory(spec(p).payload) \subseteq sealed

ValidateUnboundFields(unbound, sealed) == unbound \cap ({blank, e2eeKey} \cup sealed) = {}

(* Key encodings and the signer address are well formed in this model.      *)
validateSealInputs(p, sealed, unbound) ==
    /\ ValidateSealedFieldsFor(p, sealed)
    /\ validatePinnedNotUnbound(p, unbound)
    /\ ValidateUnboundFields(unbound, sealed)

validateSealableRequest(p, sealed, req) ==
    validatePayloadSealedFor(p, sealed, req) /\ validatePinnedValues(p, req)

presentSubset(fields, req) == fields \cap DOMAIN req
=============================================================================
