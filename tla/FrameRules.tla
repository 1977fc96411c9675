------------------------------ MODULE FrameRules ------------------------------
(***************************************************************************)
(* What protocol/wire/response.go demands of a response frame, at both     *)
(* ends: which fields are sealed, which stay readable to the router, which *)
(* may be rewritten in transit, and the billed quantity of a final frame.  *)
(***************************************************************************)
EXTENDS Profiles

mustStayCleartextInResponse == {"usage", "model"}
mustStayBoundInResponse == {"usage"}

-----------------------------------------------------------------------------
(* What a frame seals.                                                      *)

(* shapeOf: the discriminator names a known shape, or the frame is refused. *)
hasShape(frame) ==
    discriminator \in DOMAIN frame /\ frame[discriminator] \in DOMAIN anthropicFrames
shapeOf(frame) == anthropicFrames[frame[discriminator]]

sealedFieldsFor(frame) ==
    shapeOf(frame).content \cup (shapeOf(frame).sealIfPresent \cap DOMAIN frame)

responseFieldsFor(p, frame) ==
    mandatory(spec(p).responsePayload) \cup (names(spec(p).responsePayload) \cap DOMAIN frame)

ResponseSealedFieldsForFrame(p, frame) ==
    IF spec(p).typed THEN sealedFieldsFor(frame) ELSE responseFieldsFor(p, frame)

(* The SSE event a frame is announced under: its own shape, or none.        *)
ResponseEventName(p, frame) == IF spec(p).typed THEN {frame[discriminator]} ELSE {}

-----------------------------------------------------------------------------
(* What may be unbound.                                                     *)

locatorFields(p) ==
    UNION {{l.field : l \in q.locators} : q \in spec(p).requiredResponseCleartext}

validateResponseUnboundFields(unbound) == unbound \cap mustStayBoundInResponse = {}

validateResponseUnboundFieldsFor_FloorOnly(p, unbound) == validateResponseUnboundFields(unbound)
validateResponseUnboundFieldsFor(p, unbound) ==
    /\ validateResponseUnboundFields(unbound)
    /\ unbound \cap ((IF spec(p).typed THEN {discriminator} ELSE {})
                        \cup {c.field : c \in spec(p).protected}
                        \cup spec(p).bound \cup locatorFields(p)) = {}

-----------------------------------------------------------------------------
(* What must be sealed.                                                     *)

(* A protected object: its content array is absent or empty.  The tokens of *)
(* the field "message" say which kind of value it is.                       *)
emptyObjects == {"obj", "obj[]"}
validateProtectedCleartextFor_NotSealed(p, frame, sealed) ==
    \A c \in spec(p).protected : c.field \notin sealed
validateProtectedCleartextFor(p, frame, sealed) ==
    \A c \in spec(p).protected :
        /\ c.field \notin sealed
        /\ c.field \in DOMAIN frame => frame[c.field] \in emptyObjects \cup {"null"}

validateQuantityLocatorsNotSealed_Skip(p, sealed) == TRUE
validateQuantityLocatorsNotSealed(p, sealed) ==
    sealed \cap (locatorFields(p) \ mustStayCleartextInResponse) = {}

validateResponseSealedFieldNames(sealed) ==
    sealed \cap ({blank, e2eeKey} \cup mustStayCleartextInResponse) = {}

validateResponseSealedFields(sealed) == sealed # {} /\ validateResponseSealedFieldNames(sealed)

validateResponseSealedFieldsFor(p, sealed) ==
    /\ ~spec(p).typed
    /\ validateResponseSealedFields(sealed)
    /\ mandatory(spec(p).responsePayload) \subseteq sealed

validateResponseSealedIfPresent_Skip(p, frame, sealed) == TRUE
validateResponseSealedIfPresent(p, frame, sealed) ==
    (DOMAIN frame \cap names(spec(p).responsePayload))
        \subseteq (sealed \cup mandatory(spec(p).responsePayload))

(* A field that is content under ANY shape may be carried only sealed.      *)
validateNoCleartextContent_ThisShape(frame, sealed) ==
    (sealedFieldsFor(frame) \cap DOMAIN frame) \subseteq sealed
validateNoCleartextContent(frame, sealed) == (contentFields \cap DOMAIN frame) \subseteq sealed

validateTypedFrame(frame, sealed) ==
    /\ discriminator \notin sealed
    /\ validateResponseSealedFieldNames(sealed)
    /\ hasShape(frame)
    /\ sealedFieldsFor(frame) = {} => sealed = {}
    /\ sealedFieldsFor(frame) \subseteq sealed
    /\ validateNoCleartextContent(frame, sealed)

validateResponseSealedFieldsForFrame(p, frame, sealed) ==
    /\ validateProtectedCleartextFor(p, frame, sealed)
    /\ validateQuantityLocatorsNotSealed(p, sealed)
    /\ sealed \cap spec(p).bound = {}
    /\ IF spec(p).typed
       THEN validateTypedFrame(frame, sealed)
       ELSE /\ validateResponseSealedFieldsFor(p, sealed)
            /\ validateResponseSealedIfPresent(p, frame, sealed)

-----------------------------------------------------------------------------
(* The billed quantity.  A "usage" token shows the value under the key the  *)
(* profile reads ("usage:3"), that the key is missing ("usage:"), or that   *)
(* the field holds no object at all.                                        *)

numberAt(inner, token) ==
    IF ~inner THEN token
    ELSE CASE token = "usage:3" -> "3" [] token = "usage:4" -> "4" [] token = "usage:0.5" -> "0.5"
           [] token = "usage:null" -> "null" [] token = "usage:-1" -> "-1" [] token = "usage:x" -> "x"
           [] token = "usage:" -> "absent" [] OTHER -> "not_an_object"

parseCleartextNumber_NullIsZero(kind, number) ==
    number \in {"3", "4", "null"} \/ (kind = "fractional" /\ number = "0.5")
parseCleartextNumber(kind, number) ==
    number \in {"3", "4"} \/ (kind = "fractional" /\ number = "0.5")

readings(q, frame) ==
    {numberAt(l.inner, frame[l.field]) : l \in {k \in q.locators : k.field \in DOMAIN frame}}
        \ {"absent"}

(* Every statement of the quantity is a number, there is at least one, and  *)
(* they agree.                                                              *)
validateCleartextQuantity_AnyStatement(q, frame) ==
    \E n \in readings(q, frame) : parseCleartextNumber(q.kind, n)
validateCleartextQuantity(q, frame) ==
    /\ \A n \in readings(q, frame) : parseCleartextNumber(q.kind, n)
    /\ Cardinality(readings(q, frame)) = 1

validateResponseCleartextFor(p, frame) ==
    \A q \in spec(p).requiredResponseCleartext : validateCleartextQuantity(q, frame)
=============================================================================
