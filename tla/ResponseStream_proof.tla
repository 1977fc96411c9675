------------------------- MODULE ResponseStream_proof -------------------------
(***************************************************************************)
(* Proofs about ResponseStream, for every number of attempts and every     *)
(* answer length: what reaches the caller, what a verified success means,  *)
(* and that the data plane implements DeliveredAnswer.                     *)
(***************************************************************************)
EXTENDS ResponseStream, TLAPS

-----------------------------------------------------------------------------
(* A frame that can be on the wire, and an entry of what was delivered.       *)
Frame == [src : Sources, idx : 1 .. Frames, final : BOOLEAN, open : BOOLEAN]
Heard == [att : 1 .. Attempts, src : Sources, idx : 1 .. Frames]

(* The Boolean variables, which the provers treat apart.                      *)
Flags ==
    /\ buffered \in BOOLEAN /\ verifies \in BOOLEAN /\ reading \in BOOLEAN
    /\ committed \in BOOLEAN /\ sawFinal \in BOOLEAN

(* The stream's own books agree: what was folded into the binder is what was  *)
(* delivered, in sequence, from the opener's context, in this attempt.        *)
BooksAgree ==
    /\ binder \in Seq(Frame)
    /\ seq = Len(binder) + 1 /\ Len(binder) <= AnswerLength
    /\ opener \in Sources \cup {NoContext}
    /\ opener = NoContext <=> binder = <<>>
    /\ committed <=> binder # <<>>
    /\ committed => reading
    /\ buffered => binder = <<>> /\ (result # "ok" => delivered = <<>>)
    /\ ~buffered => Len(delivered) = Len(binder)
    /\ ~buffered => \A k \in 1 .. Len(binder) :
          /\ delivered[k] = [att |-> att, src |-> opener, idx |-> k]
          /\ binder[k].src = opener

(* A final frame was seen only by an attempt that cannot be retried any more. *)
FinalIsLast == sawFinal => committed \/ result = "ok"

StreamInv ==
    TypeOK /\ BooksAgree /\ FinalIsLast /\ BoundRefusesSubstitute /\ NothingSentInClear
        /\ VerifiedIsExact

-----------------------------------------------------------------------------
(* Whatever is on the wire is a frame, and one that is not the router's is    *)
(* its enclave's own.                                                         *)
LEMMA WireFrames ==
    ASSUME TypeOK, NEW f, f \in onTheWire
    PROVE  /\ f \in Frame /\ f.idx \in 1 .. AnswerLength
           /\ f.src # Router => f = enclaveFrame(f.src, f.idx)
<1>1. /\ AnswerLength \in Nat \ {0} /\ AnswerLength <= Frames
      /\ answered \subseteq 1 .. Attempts /\ Attempts \in Nat /\ Frames \in Nat
  BY StreamAssumption DEF AnswerLength, TypeOK
<1> DEFINE Made == [src : {Router}, idx : 1 .. AnswerLength, final : BOOLEAN, open : {FALSE}]
           Sent == { enclaveFrame(a, k) : a \in answered, k \in 1 .. AnswerLength }
<1>2. f \in Sent \/ f \in Made
  <2>1. onTheWire = Sent \cup Made
    BY DEF onTheWire
  <2> HIDE DEF Sent, Made
  <2> QED BY <2>1
<1>3. CASE f \in Made
  <2>1. /\ f.src = Router /\ f.idx \in 1 .. AnswerLength
        /\ f = [src |-> f.src, idx |-> f.idx, final |-> f.final, open |-> f.open]
        /\ f.final \in BOOLEAN /\ f.open \in BOOLEAN
    BY <1>3
  <2>2. f.idx \in 1 .. Frames /\ f.src \in Sources
    BY <1>1, <2>1 DEF Sources, Router
  <2> QED BY <2>1, <2>2, Zenon DEF Frame
<1>4. CASE f \in Sent
  <2>1. PICK a \in answered, k \in 1 .. AnswerLength : f = enclaveFrame(a, k)
    BY <1>4
  <2>2. f.src = a /\ f.idx = k
    BY <2>1 DEF enclaveFrame
  <2>3. a \in Sources /\ k \in 1 .. Frames
    BY <1>1 DEF Sources
  <2>4. (k = AnswerLength) \in BOOLEAN /\ (a \in leaky /\ k = AnswerLength) \in BOOLEAN
    OBVIOUS
  <2>5. f \in Frame
    BY <2>1, <2>3, <2>4, Zenon DEF Frame, enclaveFrame
  <2> QED BY <2>1, <2>2, <2>5
<1> HIDE DEF Made, Sent
<1> QED BY <1>2, <1>3, <1>4

(* What appending one element does to a sequence.                             *)
LEMMA AppendFacts ==
    ASSUME NEW S, NEW s \in Seq(S), NEW e \in S
    PROVE  /\ Append(s, e) \in Seq(S) /\ Append(s, e) # <<>>
           /\ DOMAIN Append(s, e) = 1 .. Len(s) + 1 /\ Len(Append(s, e)) = Len(s) + 1
           /\ \A j \in 1 .. Len(s) : Append(s, e)[j] = s[j]
           /\ Append(s, e)[Len(s) + 1] = e
           /\ DOMAIN s = 1 .. Len(s) /\ Len(s) \in Nat
OBVIOUS

(* The Booleans of TypeOK, one by one.                                        *)
LEMMA FlagsOfType == TypeOK <=> TypeOK /\ Flags
BY Zenon DEF TypeOK, Flags

(* A failed attempt: the walk moves on with books of its own, or the call is  *)
(* over.  Nothing delivered is forgotten, because only an attempt that has    *)
(* delivered nothing is retried.                                              *)
LEMMA FailedAttempt ==
    ASSUME StreamInv, NEW retry \in BOOLEAN, failAttempt(retry),
           result = "pending", retry => ~committed
    PROVE  StreamInv'
<1> USE DEF StreamInv
<1>0. Flags /\ binder \in Seq(Frame)
  BY FlagsOfType, Zenon DEF BooksAgree
<1>1. UNCHANGED <<buffered, verifies, binds, leaky, answered, delivered, meta>>
  BY DEF failAttempt, conf
<1>2. CASE retry /\ att < Attempts
  <2>1. /\ att' = att + 1 /\ reading' = FALSE /\ opener' = NoContext /\ seq' = 1
        /\ committed' = FALSE /\ sawFinal' = FALSE /\ binder' = <<>> /\ result' = "pending"
    BY <1>2 DEF failAttempt
  <2>2. binder = <<>> /\ delivered = <<>>
    BY <1>0, <1>2 DEF BooksAgree, Flags, TypeOK
  <2>3. Flags'
    BY <1>0, <1>1, <2>1, Zenon DEF Flags
  <2>4. TypeOK'
    <3>1. /\ att' \in 1 .. Attempts /\ answered' \subseteq 1 .. att'
          /\ seq' \in 1 .. Frames + 1 /\ opener' \in 0 .. NoContext'
      BY <1>1, <1>2, <2>1, StreamAssumption DEF TypeOK, NoContext
    <3> QED BY <1>1, <2>1, <2>3, <3>1, Zenon DEF TypeOK, Flags
  <2>5. BooksAgree'
    <3>1. AnswerLength' \in Nat
      BY StreamAssumption DEF AnswerLength
    <3> QED BY <1>1, <2>1, <2>2, <3>1 DEF BooksAgree, NoContext
  <2> QED
    BY <1>1, <2>1, <2>2, <2>4, <2>5
    DEF FinalIsLast, BoundRefusesSubstitute, NothingSentInClear, VerifiedIsExact
<1>3. CASE ~(retry /\ att < Attempts)
  <2>1. /\ result' = "err"
        /\ UNCHANGED <<att, reading, opener, seq, committed, sawFinal, binder>>
    BY <1>3, Zenon DEF failAttempt
  <2>2. TypeOK'
    BY <1>1, <2>1 DEF TypeOK, NoContext
  <2>3. BooksAgree'
    BY <1>1, <2>1 DEF BooksAgree, AnswerLength, NoContext
  <2>4. FinalIsLast' /\ VerifiedIsExact'
    BY <2>1 DEF FinalIsLast, VerifiedIsExact
  <2>5. BoundRefusesSubstitute' /\ NothingSentInClear'
    BY <1>1 DEF BoundRefusesSubstitute, NothingSentInClear, enclaveFrame, AnswerLength
  <2> QED BY <2>2, <2>3, <2>4, <2>5
<1> QED BY <1>2, <1>3

(* An accepted frame extends the books by one.                                *)
LEMMA FrameAccepted ==
    ASSUME StreamInv, NEW f, f \in onTheWire, StreamFrame(f)
    PROVE  StreamInv'
<1> USE DEF StreamInv
<1>0. Flags /\ binder \in Seq(Frame) /\ delivered \in Seq(Heard)
  BY FlagsOfType, Zenon DEF BooksAgree, TypeOK, Heard
<1>1. /\ f \in Frame /\ f.idx \in 1 .. AnswerLength
      /\ f.src # Router => f = enclaveFrame(f.src, f.idx)
  BY WireFrames
<1>2. /\ result = "pending" /\ ~buffered /\ reading
      /\ ~f.open /\ f.src = opener' /\ sealedBound(f.src) = binds[att] /\ f.idx = seq
      /\ opener' = IF opener = NoContext THEN f.src ELSE opener
      /\ seq' = seq + 1 /\ binder' = Append(binder, f) /\ committed' = TRUE
      /\ meta' \in {meta, att} /\ sawFinal' = (sawFinal \/ f.final)
      /\ delivered' = Append(delivered, [att |-> att, src |-> f.src, idx |-> f.idx])
      /\ UNCHANGED <<buffered, verifies, binds, leaky, answered, att, reading, result>>
  BY DEF StreamFrame, OpenFrame, contextFor, conf
<1>3. /\ AnswerLength \in Nat /\ AnswerLength <= Frames /\ AnswerLength' = AnswerLength
      /\ att \in 1 .. Attempts /\ Frames \in Nat /\ Attempts \in Nat
  BY <1>2, StreamAssumption DEF AnswerLength, TypeOK
<1>4. [att |-> att, src |-> f.src, idx |-> f.idx] \in Heard /\ f.src \in Sources
  BY <1>1, <1>3 DEF Heard, Frame
<1>5. /\ Len(binder') = Len(binder) + 1 /\ Len(delivered') = Len(delivered) + 1
      /\ binder' \in Seq(Frame) /\ delivered' \in Seq(Heard)
      /\ \A k \in 1 .. Len(binder) : binder'[k] = binder[k]
      /\ \A k \in 1 .. Len(delivered) : delivered'[k] = delivered[k]
      /\ binder'[Len(binder) + 1] = f
      /\ delivered'[Len(delivered) + 1] = [att |-> att, src |-> f.src, idx |-> f.idx]
      /\ DOMAIN delivered' = 1 .. Len(delivered) + 1 /\ DOMAIN delivered = 1 .. Len(delivered)
      /\ binder' # <<>> /\ Len(binder) \in Nat /\ Len(delivered) \in Nat
  <2> DEFINE h == [att |-> att, src |-> f.src, idx |-> f.idx]
  <2>1. binder' = Append(binder, f) /\ delivered' = Append(delivered, h) /\ h \in Heard
    BY <1>2, <1>4
  <2> HIDE DEF h
  <2>2. /\ Len(binder') = Len(binder) + 1 /\ binder' \in Seq(Frame) /\ binder' # <<>>
        /\ \A k \in 1 .. Len(binder) : binder'[k] = binder[k]
        /\ binder'[Len(binder) + 1] = f /\ Len(binder) \in Nat
    BY <1>0, <1>1, <2>1, AppendFacts
  <2>3. /\ Len(delivered') = Len(delivered) + 1 /\ delivered' \in Seq(Heard)
        /\ \A k \in 1 .. Len(delivered) : delivered'[k] = delivered[k]
        /\ delivered'[Len(delivered) + 1] = h /\ Len(delivered) \in Nat
        /\ DOMAIN delivered' = 1 .. Len(delivered) + 1 /\ DOMAIN delivered = 1 .. Len(delivered)
    BY <1>0, <2>1, AppendFacts
  <2> QED BY <2>2, <2>3 DEF h
<1>6. BooksAgree'
  <2>1. seq' = Len(binder') + 1 /\ Len(binder') <= AnswerLength' /\ Len(delivered') = Len(binder')
    BY <1>1, <1>2, <1>3, <1>5 DEF BooksAgree
  <2>2. opener' \in Sources /\ opener' # NoContext
    BY <1>2, <1>4, StreamAssumption DEF Sources, NoContext
  <2>3. ASSUME NEW k \in 1 .. Len(binder')
        PROVE  delivered'[k] = [att |-> att, src |-> opener', idx |-> k] /\ binder'[k].src = opener'
    <3>1. CASE k = Len(binder) + 1
      BY <1>2, <1>5, <3>1 DEF BooksAgree
    <3>2. CASE k \in 1 .. Len(binder)
      <4>1. opener # NoContext
        BY <1>0, <3>2 DEF BooksAgree
      <4> QED BY <1>2, <1>5, <3>2, <4>1 DEF BooksAgree
    <3> QED BY <1>5, <2>3, <3>1, <3>2
  <2> QED
    BY <1>2, <1>5, <2>1, <2>2, <2>3 DEF BooksAgree, NoContext, Sources
<1>7. TypeOK'
  <2>1. Flags'
    <3>1. (sawFinal \/ f.final) \in BOOLEAN
      OBVIOUS
    <3> QED BY <1>0, <1>2, <3>1, Zenon DEF Flags
  <2>2. /\ seq' \in 1 .. Frames + 1 /\ opener' \in 0 .. NoContext' /\ meta' \in 0 .. Attempts
    BY <1>1, <1>2, <1>3, <1>4 DEF TypeOK, NoContext, Sources
  <2> QED BY <1>2, <1>5, <2>1, <2>2, Zenon DEF TypeOK, Flags, Heard
<1>8. BoundRefusesSubstitute'
  <2>1. f.src = Router => ~binds[att]
    BY <1>2, <1>3 DEF sealedBound, TypeOK
  <2> QED BY <1>2, <1>5, <2>1 DEF BoundRefusesSubstitute
<1>9. NothingSentInClear'
  <2>1. \A a, k : enclaveFrame(a, k)' = enclaveFrame(a, k)
    BY <1>2, <1>3 DEF enclaveFrame
  <2>2. f.src # Router => ~enclaveFrame(f.src, f.idx).open
    BY <1>1, <1>2
  <2> QED BY <1>5, <2>1, <2>2 DEF NothingSentInClear
<1> QED
  BY <1>2, <1>6, <1>7, <1>8, <1>9 DEF FinalIsLast, VerifiedIsExact

(* A stream that ends well: if its signature was checked, the binder is the   *)
(* whole answer of this attempt's enclave, and so is what was delivered.      *)
LEMMA StreamAccepted ==
    ASSUME StreamInv, NEW fetched \in BOOLEAN, result = "pending", ~buffered, sawFinal,
           ~(verifies /\ ~(fetched /\ Verified(binder))), result' = "ok",
           UNCHANGED <<conf, answered, att, reading, opener, seq, committed, sawFinal,
                       binder, delivered, meta>>
    PROVE  StreamInv'
<1> USE DEF StreamInv
<1>0. UNCHANGED <<buffered, verifies, binds, leaky>> /\ AnswerLength' = AnswerLength
  BY DEF conf, AnswerLength
<1>1. TypeOK' /\ BooksAgree'
  BY <1>0 DEF TypeOK, BooksAgree, NoContext
<1>2. FinalIsLast' /\ BoundRefusesSubstitute' /\ NothingSentInClear'
  BY <1>0 DEF FinalIsLast, BoundRefusesSubstitute, NothingSentInClear, enclaveFrame
<1>3. VerifiedIsExact'
  <2> SUFFICES ASSUME verifies
               PROVE  delivered = [k \in 1 .. AnswerLength |->
                                     [att |-> att, src |-> att, idx |-> k]]
    BY <1>0 DEF VerifiedIsExact
  <2>1. binder = [k \in 1 .. AnswerLength |-> enclaveFrame(att, k)]
    BY DEF Verified
  <2>2. /\ AnswerLength \in Nat \ {0} /\ binder \in Seq(Frame) /\ delivered \in Seq(Heard)
        /\ Len(delivered) = Len(binder)
    BY StreamAssumption DEF AnswerLength, BooksAgree, TypeOK, Heard
  <2>3. Len(binder) = AnswerLength
    BY <2>1, <2>2
  <2>4. binder[1].src = att
    BY <2>1, <2>2 DEF enclaveFrame
  <2>5. opener = att
    BY <2>2, <2>3, <2>4 DEF BooksAgree
  <2>6. \A k \in 1 .. AnswerLength : delivered[k] = [att |-> att, src |-> att, idx |-> k]
    BY <2>3, <2>5 DEF BooksAgree
  <2> QED BY <2>2, <2>3, <2>6
<1> QED BY <1>1, <1>2, <1>3

(* A buffered answer that is accepted is one final frame, opened.             *)
LEMMA BodyAccepted ==
    ASSUME StreamInv, NEW f, f \in onTheWire, NEW fetched \in BOOLEAN,
           result = "pending", buffered, f.final /\ setsUp(f) /\ OpenFrame(f, f.src, 1),
           ~(verifies /\ ~(fetched /\ Verified(<<f>>))),
           result' = "ok", meta' = att, sawFinal' = TRUE,
           delivered' = <<[att |-> att, src |-> f.src, idx |-> f.idx]>>,
           UNCHANGED <<conf, answered, att, reading, opener, seq, committed, binder>>
    PROVE  StreamInv'
<1> USE DEF StreamInv
<1> DEFINE h == [att |-> att, src |-> f.src, idx |-> f.idx]
<1>0. /\ UNCHANGED <<buffered, verifies, binds, leaky>> /\ AnswerLength' = AnswerLength
      /\ AnswerLength = 1 /\ Flags
  BY FlagsOfType, Zenon DEF conf, AnswerLength
<1>1. /\ f \in Frame /\ f.idx = 1 /\ ~f.open /\ sealedBound(f.src) = binds[att]
      /\ f.src # Router => f = enclaveFrame(f.src, f.idx)
  BY WireFrames DEF OpenFrame, setsUp
<1>2. h \in Heard
  BY <1>1 DEF Heard, Frame, TypeOK
<1>3. delivered' \in Seq(Heard) /\ Len(delivered') = 1 /\ delivered'[1] = h /\ DOMAIN delivered' = {1}
  BY <1>2
<1>4. TypeOK'
  <2>1. Flags'
    BY <1>0, Zenon DEF Flags
  <2>2. meta' \in 0 .. Attempts
    BY StreamAssumption DEF TypeOK
  <2> QED BY <1>0, <1>3, <2>1, <2>2, Zenon DEF TypeOK, Flags, Heard, NoContext
<1>5. BooksAgree'
  BY <1>0 DEF BooksAgree, NoContext
<1>6. FinalIsLast'
  BY DEF FinalIsLast
<1>7. BoundRefusesSubstitute'
  <2>1. f.src = Router => ~binds[att]
    BY <1>1 DEF sealedBound, TypeOK
  <2> QED BY <1>0, <1>3, <2>1 DEF BoundRefusesSubstitute
<1>8. NothingSentInClear'
  <2>1. \A a, k : enclaveFrame(a, k)' = enclaveFrame(a, k)
    BY <1>0 DEF enclaveFrame
  <2> QED BY <1>1, <1>3, <2>1 DEF NothingSentInClear
<1>9. VerifiedIsExact'
  <2> SUFFICES ASSUME verifies
               PROVE  delivered' = [k \in 1 .. 1 |-> [att |-> att, src |-> att, idx |-> k]]
    BY <1>0 DEF VerifiedIsExact
  <2>1. <<f>> = [k \in 1 .. 1 |-> enclaveFrame(att, k)]
    BY <1>0 DEF Verified
  <2>2. f = enclaveFrame(att, 1)
    BY <2>1
  <2>3. f.src = att
    BY <2>2 DEF enclaveFrame
  <2> QED BY <1>1, <2>3
<1> QED BY <1>4, <1>5, <1>6, <1>7, <1>8, <1>9

(* StreamInv holds initially and every step preserves it.                     *)
LEMMA StreamInvariant == Spec => []StreamInv
<1>1. Init => StreamInv
  <2> SUFFICES ASSUME Init PROVE StreamInv
    OBVIOUS
  <2>1. Flags
    BY Zenon DEF Init, Flags
  <2>2. TypeOK
    <3>1. /\ 0 .. NoContext # {} /\ opener \in 0 .. NoContext /\ seq \in 1 .. Frames + 1
          /\ answered \subseteq 1 .. att /\ att \in 1 .. Attempts /\ meta \in 0 .. Attempts
          /\ delivered \in Seq(Heard)
      BY StreamAssumption DEF Init, NoContext
    <3>2. leaky \subseteq 1 .. Attempts /\ binds \in [1 .. Attempts -> BOOLEAN] /\ result = "pending"
      BY DEF Init
    <3> QED BY <2>1, <3>1, <3>2, Zenon DEF TypeOK, Flags, Heard
  <2>3. BooksAgree
    <3>1. AnswerLength \in Nat
      BY StreamAssumption DEF AnswerLength
    <3> QED BY <3>1 DEF Init, BooksAgree
  <2> QED
    BY <2>2, <2>3
    DEF Init, StreamInv, FinalIsLast, BoundRefusesSubstitute, NothingSentInClear, VerifiedIsExact
<1>2. StreamInv /\ [Next]_vars => StreamInv'
  <2> SUFFICES ASSUME StreamInv, [Next]_vars PROVE StreamInv'
    OBVIOUS
  <2>0. Flags /\ (buffered => ~committed)
    BY FlagsOfType, Zenon DEF StreamInv, BooksAgree
  <2>1. ASSUME NEW a \in 1 .. Attempts, Answer(a) PROVE StreamInv'
    <3>1. UNCHANGED <<buffered, verifies, binds, leaky, att, reading, opener, seq, committed,
                      sawFinal, binder, delivered, meta, result>>
          /\ answered' = answered \cup {a} /\ a <= att
      BY <2>1 DEF Answer, conf
    <3>2. TypeOK'
      BY <3>1 DEF StreamInv, TypeOK, NoContext
    <3>3. BooksAgree'
      BY <3>1 DEF StreamInv, BooksAgree, AnswerLength, NoContext
    <3>4. VerifiedIsExact'
      BY <3>1 DEF StreamInv, VerifiedIsExact, AnswerLength
    <3>5. FinalIsLast' /\ BoundRefusesSubstitute' /\ NothingSentInClear'
      BY <3>1 DEF StreamInv, FinalIsLast, BoundRefusesSubstitute, NothingSentInClear,
                  enclaveFrame, AnswerLength
    <3> QED BY <3>2, <3>3, <3>4, <3>5 DEF StreamInv
  <2>2. ASSUME NEW retry \in BOOLEAN, Refused(retry) PROVE StreamInv'
    <3>1. ~committed
      BY <2>2, Zenon DEF Refused, StreamInv, BooksAgree
    <3> QED BY <2>2, <3>1, FailedAttempt DEF Refused
  <2>3. CASE Begin
    <3>1. UNCHANGED <<buffered, verifies, binds, leaky, answered, att, opener, seq, committed,
                      sawFinal, binder, delivered, meta, result>> /\ reading' = TRUE
      BY <2>3 DEF Begin, conf
    <3>2. Flags'
      BY <2>0, <3>1, Zenon DEF Flags
    <3>3. TypeOK'
      BY <3>1, <3>2, Zenon DEF StreamInv, TypeOK, NoContext, Flags
    <3>4. BooksAgree'
      BY <3>1 DEF StreamInv, BooksAgree, AnswerLength, NoContext
    <3>5. VerifiedIsExact'
      BY <3>1 DEF StreamInv, VerifiedIsExact, AnswerLength
    <3>6. FinalIsLast' /\ BoundRefusesSubstitute' /\ NothingSentInClear'
      BY <3>1 DEF StreamInv, FinalIsLast, BoundRefusesSubstitute, NothingSentInClear,
                  enclaveFrame, AnswerLength
    <3> QED BY <3>3, <3>4, <3>5, <3>6 DEF StreamInv
  <2>4. ASSUME NEW f, f \in onTheWire, StreamFrame(f) PROVE StreamInv'
    BY <2>4, FrameAccepted
  <2>5. ASSUME NEW f, f \in onTheWire, StreamBroken(f) PROVE StreamInv'
    BY <2>0, <2>5, FailedAttempt DEF StreamBroken, Flags
  <2>6. CASE StreamStalled
    BY <2>0, <2>6, FailedAttempt DEF StreamStalled, Flags
  <2>7. CASE CallerAborts
    BY <2>0, <2>7, FailedAttempt DEF CallerAborts, Flags
  <2>8. ASSUME NEW fetched \in BOOLEAN, StreamEnd(fetched) PROVE StreamInv'
    <3>1. CASE ~sawFinal
      BY <2>0, <2>8, <3>1, FailedAttempt DEF StreamEnd, Flags
    <3>2. CASE sawFinal /\ verifies /\ ~(fetched /\ Verified(binder))
      BY <2>0, <2>8, <3>2, FailedAttempt DEF StreamEnd, Flags
    <3>3. CASE sawFinal /\ ~(verifies /\ ~(fetched /\ Verified(binder)))
      BY <2>0, <2>8, <3>3, StreamAccepted DEF StreamEnd
    <3> QED BY <3>1, <3>2, <3>3
  <2>9. ASSUME NEW f, f \in onTheWire, NEW fetched \in BOOLEAN, BufferedBody(f, fetched)
        PROVE  StreamInv'
    <3> DEFINE opens == f.final /\ setsUp(f) /\ OpenFrame(f, f.src, 1)
    <3>1. CASE ~opens
      BY <2>0, <2>9, <3>1, FailedAttempt DEF BufferedBody
    <3>2. CASE opens /\ verifies /\ ~(fetched /\ Verified(<<f>>))
      BY <2>0, <2>9, <3>2, FailedAttempt DEF BufferedBody
    <3>3. CASE opens /\ ~(verifies /\ ~(fetched /\ Verified(<<f>>)))
      BY <2>0, <2>9, <3>3, BodyAccepted DEF BufferedBody
    <3> QED BY <3>1, <3>2, <3>3
  <2>10. CASE BufferedDropped
    BY <2>0, <2>10, FailedAttempt DEF BufferedDropped, Flags
  <2>11. CASE UNCHANGED vars
    <3>1. UNCHANGED <<buffered, verifies, binds, leaky, answered, att, reading, opener, seq,
                      committed, sawFinal, binder, delivered, meta, result>>
      BY <2>11 DEF vars
    <3>2. AnswerLength' = AnswerLength /\ NoContext' = NoContext
      BY <3>1 DEF AnswerLength, NoContext
    <3> QED
      BY <3>1, <3>2 DEF StreamInv, TypeOK, BooksAgree, FinalIsLast, BoundRefusesSubstitute,
                   NothingSentInClear, VerifiedIsExact, enclaveFrame
  <2> QED
    BY <2>1, <2>2, <2>3, <2>4, <2>5, <2>6, <2>7, <2>8, <2>9, <2>10, <2>11 DEF Next
<1> QED
  BY <1>1, <1>2, PTL DEF Spec
-----------------------------------------------------------------------------
(* Nothing the untrusted router wrote reaches the caller on an attempt that   *)
(* binds its response, and nothing an enclave left in the clear on any.       *)
THEOREM OnlySealedIsDelivered == Spec => []DeliversOnlySealed
<1>1. StreamInv => DeliversOnlySealed
  BY DEF StreamInv, DeliversOnlySealed
<1> QED BY <1>1, StreamInvariant, PTL

(* A verified success is exactly the answer of the enclave that was asked.    *)
THEOREM VerifiedSuccessIsExact == Spec => []VerifiedIsExact
<1>1. StreamInv => VerifiedIsExact
  BY DEF StreamInv
<1> QED BY <1>1, StreamInvariant, PTL

-----------------------------------------------------------------------------
(* The refinement.  Author, the number of frames, the final mark and the      *)
(* result are all a caller sees.                                              *)
Author == IF delivered = <<>> THEN 0 ELSE delivered[1].src + 1

CallerSees == <<Author, Len(delivered), sawFinal, result>>

(* A failed attempt is nothing to the caller, or the end of the call.         *)
LEMMA FailureRefines ==
    ASSUME StreamInv, NEW retry \in BOOLEAN, failAttempt(retry),
           result = "pending", retry => ~committed
    PROVE  Promise!Reject \/ UNCHANGED CallerSees
<1>0. Flags /\ delivered' = delivered
  BY FlagsOfType, Zenon DEF StreamInv, failAttempt
<1>1. CASE retry /\ att < Attempts
  <2>1. sawFinal' = FALSE /\ result' = result
    BY <1>1, Zenon DEF failAttempt
  <2>2. sawFinal = FALSE
    BY <1>0, <1>1, Zenon DEF StreamInv, FinalIsLast, Flags
  <2> QED BY <1>0, <2>1, <2>2 DEF CallerSees, Author
<1>2. CASE ~(retry /\ att < Attempts)
  <2>1. sawFinal' = sawFinal /\ result' = "err"
    BY <1>2, Zenon DEF failAttempt
  <2> QED BY <1>0, <2>1 DEF Promise!Reject
<1> QED BY <1>1, <1>2

(* Every attempt of a call, whatever the router does with it, shows the       *)
(* caller one author's frames in order, and ends once.                        *)
THEOREM StreamKeepsPromise == Spec => KeepsPromise
<1>1. Init => Promise!Init
  BY DEF Init, Promise!Init
<1>2. StreamInv /\ StreamInv' /\ [Next]_vars => [Promise!Next]_CallerSees
  <2> SUFFICES ASSUME StreamInv, StreamInv', [Next]_vars
               PROVE  Promise!Next \/ UNCHANGED CallerSees
    OBVIOUS
  <2>0. Flags /\ (buffered => ~committed)
    BY FlagsOfType, Zenon DEF StreamInv, BooksAgree
  <2> DEFINE Goal == Promise!Next \/ UNCHANGED CallerSees
  <2>a. Promise!Reject => Goal
    BY DEF Promise!Next
  <2>1. ASSUME NEW a \in 1 .. Attempts, Answer(a) PROVE Goal
    BY <2>1 DEF Answer, CallerSees, Author
  <2>2. ASSUME NEW retry \in BOOLEAN, Refused(retry) PROVE Goal
    <3>1. ~committed
      BY <2>2, Zenon DEF Refused, StreamInv, BooksAgree
    <3> QED BY <2>2, <2>a, <3>1, FailureRefines DEF Refused
  <2>3. CASE Begin
    BY <2>3 DEF Begin, CallerSees, Author
  <2>4. ASSUME NEW f, f \in onTheWire, StreamFrame(f) PROVE Goal
    <3>1. /\ result = "pending" /\ result' = "pending" /\ ~buffered
          /\ f.src = opener' /\ f.idx = seq
          /\ opener' = IF opener = NoContext THEN f.src ELSE opener
          /\ sawFinal' = (sawFinal \/ f.final)
          /\ delivered' = Append(delivered, [att |-> att, src |-> f.src, idx |-> f.idx])
      BY <2>4 DEF StreamFrame, OpenFrame, contextFor
    <3>2. /\ f \in Frame /\ f.idx \in 1 .. AnswerLength
          /\ AnswerLength \in Nat /\ AnswerLength <= Frames /\ Frames \in Nat
      BY <2>4, WireFrames, StreamAssumption DEF StreamInv, AnswerLength
    <3>3. delivered \in Seq(Heard) /\ delivered' \in Seq(Heard) /\ binder \in Seq(Frame)
      BY DEF StreamInv, TypeOK, BooksAgree, Heard
    <3>4. /\ Len(delivered') = Len(delivered) + 1 /\ delivered' # <<>> /\ Len(delivered) \in Nat
          /\ Len(delivered) = Len(binder) /\ Len(delivered) < Frames
      <4>1. [att |-> att, src |-> f.src, idx |-> f.idx] \in Heard
        BY <3>2 DEF Heard, Frame, StreamInv, TypeOK
      <4>2. Len(delivered') = Len(delivered) + 1 /\ delivered' # <<>> /\ Len(delivered) \in Nat
        BY <3>1, <3>3, <4>1, AppendFacts
      <4> QED BY <3>1, <3>2, <4>2 DEF StreamInv, BooksAgree
    <3>5. \A k \in 1 .. Len(binder') : delivered'[k].src = opener'
      <4>1. ~buffered'
        BY <3>1, <2>4 DEF StreamFrame, conf
      <4>2. \A k \in 1 .. Len(binder') : delivered'[k] = [att |-> att', src |-> opener', idx |-> k]
        BY <4>1, Zenon DEF StreamInv, BooksAgree
      <4> SUFFICES ASSUME NEW k \in 1 .. Len(binder') PROVE delivered'[k].src = opener'
        OBVIOUS
      <4>3. delivered'[k] = [att |-> att', src |-> opener', idx |-> k]
        BY <4>2
      <4> QED BY ONLY <4>3
    <3>6. Len(binder') = Len(delivered')
      BY <3>1, <2>4 DEF StreamInv, BooksAgree, StreamFrame, conf
    <3>7. Author' = f.src + 1
      BY <3>1, <3>4, <3>5, <3>6 DEF Author
    <3>8. Author \in {0, f.src + 1}
      <4>1. CASE delivered = <<>>
        BY <4>1 DEF Author
      <4>2. CASE delivered # <<>>
        <5>1. Len(binder) > 0 /\ binder # <<>>
          BY <3>3, <3>4, <4>2
        <5>2. opener # NoContext /\ delivered[1].src = opener
          <6>1. opener # NoContext
            BY <5>1, Zenon DEF StreamInv, BooksAgree
          <6>2. \A k \in 1 .. Len(binder) : delivered[k] = [att |-> att, src |-> opener, idx |-> k]
            BY <3>1, Zenon DEF StreamInv, BooksAgree
          <6>3. 1 \in 1 .. Len(binder)
            BY <3>4, <5>1
          <6>4. delivered[1] = [att |-> att, src |-> opener, idx |-> 1]
            BY <6>2, <6>3
          <6>5. delivered[1].src = opener
            BY ONLY <6>4
          <6> QED BY <6>1, <6>5
        <5> QED BY <3>1, <4>2, <5>2 DEF Author
      <4> QED BY <4>1, <4>2
    <3>9. f.src + 1 \in 1 .. Attempts + 1
      BY <3>2, StreamAssumption DEF Frame, Sources
    <3>10. sawFinal' \in {sawFinal, TRUE}
      <4>1. CASE f.final
        BY <3>1, <4>1
      <4>2. CASE ~f.final
        BY <2>0, <3>1, <4>2 DEF Flags
      <4> QED BY <4>1, <4>2
    <3>11. Promise!Hear(f.src + 1)
      BY <3>1, <3>4, <3>7, <3>8, <3>10 DEF Promise!Hear, Author
    <3> QED BY <3>9, <3>11 DEF Promise!Next
  <2>5. ASSUME NEW f, f \in onTheWire, StreamBroken(f) PROVE Goal
    BY <2>0, <2>5, <2>a, FailureRefines DEF StreamBroken, Flags
  <2>6. CASE StreamStalled
    BY <2>0, <2>6, <2>a, FailureRefines DEF StreamStalled, Flags
  <2>7. CASE CallerAborts
    BY <2>0, <2>7, <2>a, FailureRefines DEF CallerAborts, Flags
  <2>8. ASSUME NEW fetched \in BOOLEAN, StreamEnd(fetched) PROVE Goal
    <3>1. CASE ~sawFinal
      BY <2>0, <2>8, <2>a, <3>1, FailureRefines DEF StreamEnd, Flags
    <3>2. CASE sawFinal /\ verifies /\ ~(fetched /\ Verified(binder))
      BY <2>0, <2>8, <2>a, <3>2, FailureRefines DEF StreamEnd, Flags
    <3>3. CASE sawFinal /\ ~(verifies /\ ~(fetched /\ Verified(binder)))
      <4>1. Promise!Accept
        BY <2>8, <3>3 DEF StreamEnd, Promise!Accept
      <4> QED BY <4>1 DEF Promise!Next
    <3> QED BY <3>1, <3>2, <3>3
  <2>9. ASSUME NEW f, f \in onTheWire, NEW fetched \in BOOLEAN, BufferedBody(f, fetched)
        PROVE  Goal
    <3> DEFINE opens == f.final /\ setsUp(f) /\ OpenFrame(f, f.src, 1)
    <3>1. CASE ~opens
      BY <2>0, <2>9, <2>a, <3>1, FailureRefines DEF BufferedBody
    <3>2. CASE opens /\ verifies /\ ~(fetched /\ Verified(<<f>>))
      BY <2>0, <2>9, <2>a, <3>2, FailureRefines DEF BufferedBody
    <3>3. CASE opens /\ ~(verifies /\ ~(fetched /\ Verified(<<f>>)))
      <4>1. /\ result = "pending" /\ result' = "ok" /\ sawFinal' = TRUE
            /\ delivered' = <<[att |-> att, src |-> f.src, idx |-> f.idx]>>
            /\ buffered
        BY <2>9, <3>3 DEF BufferedBody
      <4>2. delivered = <<>>
        BY <4>1 DEF StreamInv, BooksAgree
      <4>3. f.src \in Sources
        BY <2>9, WireFrames DEF StreamInv, Frame
      <4>4. f.src + 1 \in 1 .. Attempts + 1
        BY <4>3, StreamAssumption DEF Sources
      <4>5. Author' = f.src + 1 /\ Len(delivered) = 0 /\ Len(delivered') = 1
        BY <4>1, <4>2 DEF Author
      <4>6. Promise!HearWhole(f.src + 1)
        BY <4>1, <4>5 DEF Promise!HearWhole, Author
      <4> QED BY <4>4, <4>6 DEF Promise!Next
    <3> QED BY <3>1, <3>2, <3>3
  <2>10. CASE BufferedDropped
    BY <2>0, <2>10, <2>a, FailureRefines DEF BufferedDropped, Flags
  <2>11. CASE UNCHANGED vars
    BY <2>11 DEF vars, CallerSees, Author
  <2> QED
    BY <2>1, <2>2, <2>3, <2>4, <2>5, <2>6, <2>7, <2>8, <2>9, <2>10, <2>11 DEF Next
<1> QED
  BY <1>1, <1>2, StreamInvariant, PTL DEF Spec, KeepsPromise, Promise!Spec, CallerSees, Author
=============================================================================
