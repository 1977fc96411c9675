--------------------------- MODULE DeliveredAnswer ---------------------------
(***************************************************************************)
(* What a caller of Complete or CompleteStream is promised about the bytes *)
(* it receives, said without candidates, envelopes or attempts: they come  *)
(* from ONE author, in the author's order, from the beginning; the call    *)
(* ends once, and nothing is heard after it; and it ends well only if a    *)
(* closing frame was among them.                                           *)
(***************************************************************************)
EXTENDS Naturals, Sequences

CONSTANTS Authors,   \* whoever can seal to the caller's response key
          FrameCount \* bound: frames in one complete answer

VARIABLES author,    \* who the caller is hearing from; 0 before the first frame
          heard,     \* how many frames it has received
          complete,  \* it has received a frame marked final
          verdict    \* "pending", "ok" or "err"

Init == author = 0 /\ heard = 0 /\ complete = FALSE /\ verdict = "pending"

(* One more frame.  The first one settles the author for good. *)
Hear(a) ==
    /\ verdict = "pending" /\ heard < FrameCount
    /\ author \in {0, a}
    /\ author' = a /\ heard' = heard + 1
    /\ complete' \in {complete, TRUE}
    /\ verdict' = "pending"

(* A buffered answer is heard and accepted in one step. *)
HearWhole(a) ==
    /\ verdict = "pending" /\ heard = 0
    /\ author' = a /\ heard' = 1 /\ complete' = TRUE /\ verdict' = "ok"

Accept == verdict = "pending" /\ complete /\ verdict' = "ok"
            /\ UNCHANGED <<author, heard, complete>>
Reject == verdict = "pending" /\ verdict' = "err"
            /\ UNCHANGED <<author, heard, complete>>

Next == (\E a \in Authors : Hear(a) \/ HearWhole(a)) \/ Accept \/ Reject

Spec == Init /\ [][Next]_<<author, heard, complete, verdict>>
=============================================================================
