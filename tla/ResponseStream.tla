---------------------------- MODULE ResponseStream ----------------------------
(***************************************************************************)
(* The data plane of one call: the sealed answers that come back through   *)
(* the router and what completeOnce / streamOnce, the wire package's       *)
(* ResponseOpener and the section 8 check let through to the caller.       *)
(*                                                                         *)
(* The router is not trusted: it may forward a sealed request late, answer *)
(* with any status, cut, stall or reorder a stream, answer with frames it  *)
(* sealed itself, or serve one attempt with the answer to another.  It can *)
(* not seal under the response binding, splice into a context another set  *)
(* up, alter a frame (the AEAD refuses it) or sign for a provider.         *)
(*                                                                         *)
(* One ephemeral response key serves every attempt of the call, as in      *)
(* Complete and CompleteStream, so the binding value derived from it is    *)
(* also the same for every attempt.                                        *)
(***************************************************************************)
EXTENDS Naturals, Sequences

CONSTANTS Attempts,  \* bound: candidates of the chain, one attempt each
          Frames     \* bound: frames in one complete streamed answer

ASSUME StreamAssumption == Attempts \in Nat \ {0} /\ Frames \in Nat \ {0}

Router  == 0                       \* frames the router sealed itself
Sources == 0 .. Attempts           \* Router, or the attempt an enclave answers
NoContext == Attempts + 1          \* no opener yet

VARIABLES
    buffered,   \* completeOnce (TRUE) or streamOnce (FALSE)
    verifies,   \* verifyEnabled
    binds,      \* per attempt: bindsResponse of its provider
    leaky,      \* attempts whose enclave ships content outside the seal
    answered,   \* attempts whose enclave has produced its sealed answer
    att,        \* the attempt in flight
    reading,    \* response headers said 200, frames are being read
    opener,     \* whose HPKE context the opener was set up with
    seq,        \* the AEAD sequence number the opener expects
    committed, sawFinal,
    binder,     \* StreamBinder: the sealed frames folded so far
    delivered,  \* frames handed to the caller, with the attempt they came in
    meta,       \* recordMeta: the attempt whose headers the caller is shown
    result      \* "pending", "ok", "err"

conf == <<buffered, verifies, binds, leaky>>
vars == <<buffered, verifies, binds, leaky, answered, att, reading, opener, seq,
          committed, sawFinal, binder, delivered, meta, result>>

-----------------------------------------------------------------------------
(* The frames of the answer to attempt a, and those the router can make.  A   *)
(* buffered answer is one frame and must be marked final.  Only the first     *)
(* frame carries enc.  open: its sealed set leaves content in the clear.      *)
AnswerLength == IF buffered THEN 1 ELSE Frames
enclaveFrame(a, k) ==
    [src |-> a, idx |-> k, final |-> k = AnswerLength,
     open |-> a \in leaky /\ k = AnswerLength]
onTheWire ==
    { enclaveFrame(a, k) : a \in answered, k \in 1 .. AnswerLength }
      \cup [src : {Router}, idx : 1 .. AnswerLength, final : BOOLEAN, open : {FALSE}]

(* NewResponseOpenerFor / NewBoundResponseOpenerFor: only a frame carrying    *)
(* enc sets up a context.                                                     *)
setsUp(f) == f.idx = 1

(* The mode an answer's context was sealed in: mode_psk under the call's      *)
(* binding value for a request that carried it, base mode otherwise.          *)
sealedBound(s) == s # Router /\ binds[s]

(* OpenFrame: the declared sealed set covers the content, the context is the  *)
(* one the opener was set up with, in the mode this attempt's opener uses,    *)
(* and the frame is the next of its sequence.                                 *)
OpenFrame_AnyMode(f, ctx, want)  == ~f.open /\ f.src = ctx /\ f.idx = want
OpenFrame_AnyShape(f, ctx, want) ==
    f.src = ctx /\ sealedBound(ctx) = binds[att] /\ f.idx = want
OpenFrame(f, ctx, want) ==
    /\ ~f.open
    /\ f.src = ctx
    /\ sealedBound(ctx) = binds[att]
    /\ f.idx = want

(* VerifyE2EE / VerifyBoundText: a signature by this attempt's grounded       *)
(* signer over this attempt's request and exactly these response frames       *)
(* exists only for the whole answer of this attempt's enclave.                *)
Verified_AnyRequest(frames) ==
    \E a \in 1 .. att : frames = [k \in 1 .. AnswerLength |-> enclaveFrame(a, k)]
Verified(frames) ==
    frames = [k \in 1 .. AnswerLength |-> enclaveFrame(att, k)]

-----------------------------------------------------------------------------
Init ==
    /\ buffered \in BOOLEAN /\ verifies \in BOOLEAN
    /\ binds \in [1 .. Attempts -> BOOLEAN]
    /\ leaky \in SUBSET (1 .. Attempts)
    /\ answered = {}
    /\ att = 1 /\ reading = FALSE
    /\ opener = NoContext /\ seq = 1
    /\ committed = FALSE /\ sawFinal = FALSE
    /\ binder = <<>> /\ delivered = <<>>
    /\ meta = 0 /\ result = "pending"

(* The enclave of attempt a opens the request sealed to it and answers.       *)
(* Nothing stops the router forwarding it after the client has moved on.      *)
Answer_Unasked(a) ==
    /\ a \notin answered
    /\ answered' = answered \cup {a}
    /\ UNCHANGED <<conf, att, reading, opener, seq, committed, sawFinal, binder,
                   delivered, meta, result>>
Answer(a) ==
    /\ a <= att /\ a \notin answered
    /\ answered' = answered \cup {a}
    /\ UNCHANGED <<conf, att, reading, opener, seq, committed, sawFinal, binder,
                   delivered, meta, result>>

(* The attempt failed.  retry moves the walk to the next candidate, whose     *)
(* attempt starts with an opener, a binder and a frame count of its own.      *)
failAttempt_EvenCommitted(retry) ==
    /\ IF att < Attempts
       THEN /\ att' = att + 1 /\ reading' = FALSE
            /\ opener' = NoContext /\ seq' = 1
            /\ committed' = FALSE /\ sawFinal' = FALSE /\ binder' = <<>>
            /\ UNCHANGED result
       ELSE /\ result' = "err"
            /\ UNCHANGED <<att, reading, opener, seq, committed, sawFinal, binder>>
    /\ UNCHANGED <<conf, answered, delivered, meta>>
failAttempt(retry) ==
    /\ IF retry /\ att < Attempts
       THEN /\ att' = att + 1 /\ reading' = FALSE
            /\ opener' = NoContext /\ seq' = 1
            /\ committed' = FALSE /\ sawFinal' = FALSE /\ binder' = <<>>
            /\ UNCHANGED result
       ELSE /\ result' = "err"
            /\ UNCHANGED <<att, reading, opener, seq, committed, sawFinal, binder>>
    /\ UNCHANGED <<conf, answered, delivered, meta>>

(* doRequest: a transport failure or a non-transient status is terminal, a    *)
(* transient status (or a 200 that is not a stream) is not.                   *)
Refused(retry) ==
    /\ result = "pending" /\ ~reading
    /\ failAttempt(retry)

Begin ==
    /\ result = "pending" /\ ~reading
    /\ reading' = TRUE
    /\ UNCHANGED <<conf, answered, att, opener, seq, committed, sawFinal, binder,
                   delivered, meta, result>>

(* streamOnce reads a frame that sets up, or continues, the opener's context  *)
(* and opens: it is folded into the binder, commits the stream to this        *)
(* provider and is delivered.                                                 *)
contextFor(f) == IF opener = NoContext THEN f.src ELSE opener
StreamFrame(f) ==
    /\ result = "pending" /\ reading /\ ~buffered
    /\ opener = NoContext => setsUp(f)
    /\ OpenFrame(f, contextFor(f), seq)
    /\ opener' = contextFor(f)
    /\ seq' = seq + 1
    /\ binder' = Append(binder, f)
    /\ committed' = TRUE
    /\ meta' = IF committed THEN meta ELSE att
    /\ delivered' = Append(delivered, [att |-> att, src |-> f.src, idx |-> f.idx])
    /\ sawFinal' = (sawFinal \/ f.final)
    /\ UNCHANGED <<conf, answered, att, reading, result>>

(* A frame that does not set up or does not open, a stall, a dropped read:    *)
(* the attempt may be retried elsewhere only if nothing was delivered.        *)
StreamBroken(f) ==
    /\ result = "pending" /\ reading /\ ~buffered
    /\ \/ opener = NoContext /\ ~setsUp(f)
       \/ ~OpenFrame(f, contextFor(f), seq)
    /\ failAttempt(~committed)

StreamStalled ==
    /\ result = "pending" /\ reading /\ ~buffered
    /\ failAttempt(~committed)

(* onFrame refuses a frame, or the caller leaves: terminal either way. *)
CallerAborts ==
    /\ result = "pending" /\ reading /\ ~buffered /\ committed
    /\ failAttempt(FALSE)

(* EOF or [DONE].  Without a final frame the stream was truncated; with one,  *)
(* it is accepted once the signature (fetched or not) verifies.               *)
StreamEnd(fetched) ==
    /\ result = "pending" /\ reading /\ ~buffered
    /\ IF ~sawFinal
       THEN failAttempt(~committed)
       ELSE IF verifies /\ ~(fetched /\ Verified(binder))
            THEN failAttempt(FALSE)
            ELSE /\ result' = "ok"
                 /\ UNCHANGED <<conf, answered, att, reading, opener, seq,
                                committed, sawFinal, binder, delivered, meta>>

(* completeOnce reads the whole body: one final frame, opened, verified, and  *)
(* only then recorded and returned.                                           *)
BufferedBody(f, fetched) ==
    /\ result = "pending" /\ reading /\ buffered
    /\ IF ~(f.final /\ setsUp(f) /\ OpenFrame(f, f.src, 1))
       THEN failAttempt(TRUE)
       ELSE IF verifies /\ ~(fetched /\ Verified(<<f>>))
            THEN failAttempt(FALSE)
            ELSE /\ result' = "ok"
                 /\ meta' = att
                 /\ sawFinal' = TRUE
                 /\ delivered' = <<[att |-> att, src |-> f.src, idx |-> f.idx]>>
                 /\ UNCHANGED <<conf, answered, att, reading, opener, seq,
                                committed, binder>>

BufferedDropped ==
    /\ result = "pending" /\ reading /\ buffered
    /\ failAttempt(TRUE)

Next ==
    \/ \E a \in 1 .. Attempts : Answer(a)
    \/ \E retry \in BOOLEAN : Refused(retry)
    \/ Begin
    \/ \E f \in onTheWire : StreamFrame(f) \/ StreamBroken(f)
    \/ StreamStalled
    \/ CallerAborts
    \/ \E fetched \in BOOLEAN : StreamEnd(fetched)
    \/ \E f \in onTheWire, fetched \in BOOLEAN : BufferedBody(f, fetched)
    \/ BufferedDropped

Spec == Init /\ [][Next]_vars

-----------------------------------------------------------------------------
(* The state keeps its types; nothing is delivered that a source cannot send. *)
TypeOK ==
    /\ binds \in [1 .. Attempts -> BOOLEAN] /\ leaky \subseteq 1 .. Attempts
    /\ answered \subseteq 1 .. att /\ att \in 1 .. Attempts
    /\ opener \in 0 .. NoContext /\ seq \in 1 .. Frames + 1
    /\ {buffered, verifies, reading, committed, sawFinal} \subseteq BOOLEAN
    /\ delivered \in Seq([att : 1 .. Attempts, src : Sources, idx : 1 .. Frames])
    /\ meta \in 0 .. Attempts /\ result \in {"pending", "ok", "err"}

(* SPEC 7.6: on an attempt that binds its response, no frame the router       *)
(* sealed is ever delivered, not even the first, whether or not the section 8 *)
(* check would have caught it at the end.                                     *)
BoundRefusesSubstitute ==
    \A k \in DOMAIN delivered :
        binds[delivered[k].att] => delivered[k].src # Router

(* Section 8: a call that verified and returned success delivered exactly the *)
(* answer of the enclave its last attempt was sealed to: every frame, in      *)
(* order, nothing replayed from another attempt and nothing after the end.    *)
VerifiedIsExact ==
    (result = "ok" /\ verifies) =>
        delivered = [k \in 1 .. AnswerLength |-> [att |-> att, src |-> att, idx |-> k]]

(* A frame whose declared sealed set leaves content in the clear never        *)
(* reaches the caller, even from a genuine enclave that signed it.            *)
NothingSentInClear ==
    \A k \in DOMAIN delivered :
        LET d == delivered[k]
        IN  d.src # Router => ~enclaveFrame(d.src, d.idx).open

(* Nothing the untrusted router wrote, or could read, is delivered as the     *)
(* answer of an attempt that was promised otherwise.                          *)
DeliversOnlySealed == TypeOK /\ BoundRefusesSubstitute /\ NothingSentInClear

(* respbind.go: the binding depends on "a secret only the client and the      *)
(* enclave the request was sealed to can know", so a bound attempt would only *)
(* ever deliver what its own enclave sealed for it.                           *)
BoundNamesItsEnclave ==
    \A k \in DOMAIN delivered :
        binds[delivered[k].att] => delivered[k].src = delivered[k].att

(* The data plane implements the promise to the caller, whatever the router   *)
(* does.  Authors are the sources, shifted so that 0 means "nobody yet".      *)
Promise == INSTANCE DeliveredAnswer WITH
    Authors    <- 1 .. Attempts + 1,
    FrameCount <- Frames,
    author     <- IF delivered = <<>> THEN 0 ELSE delivered[1].src + 1,
    heard      <- Len(delivered),
    complete   <- sawFinal,
    verdict    <- result
KeepsPromise == Promise!Spec
=============================================================================
