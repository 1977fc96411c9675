--------------------------- MODULE GatewayEntry_proof ---------------------------
(***************************************************************************)
(* Proofs about the gateway: of GatewayEntry, for every traffic, every     *)
(* deployment policy, every number of requests in progress and every       *)
(* capacity; of its CatalogCache, for every number of clients, list of     *)
(* public paths, lifetime and capacity; and of EvidenceCheck, which looks  *)
(* at a gateway from outside, for every set of replicas, deployment,       *)
(* command line and number of certificate renewals.                        *)
(***************************************************************************)
EXTENDS GatewayEntry, CatalogCache, EvidenceCheck, FiniteSetTheorems, TLAPS

-----------------------------------------------------------------------------
Words    == {"frame", "content", "[DONE]", "error", "clear"}
LogLines == {"plain", "key"}
Statuses == {0, 200, 202, 204, 400, 401, 403, 404, 408, 413, 429, 500, 501, 502, 503}
Creds    == {"none", "nonbearer", "mgmt", "key", "cookie", "forbidden"}
Unanswered == {"idle", "body", "core", "poll", "forward", "keyless"}

(* TypeOK, with the bodies and the log lines typed as well.                   *)
TypeInv ==
    /\ policy \in Policies
    /\ pc \in [Reqs -> Steps]
    /\ req \in [Reqs -> Traffic]
    /\ cred \in [Reqs -> Creds]
    /\ slots \subseteq Reqs /\ held \subseteq Reqs
    /\ seen \in [Reqs -> SUBSET {"prompt", "meta", "key"}]
    /\ mark \in [Reqs -> {"absent", "sealed", "none"}]
    /\ status \in [Reqs -> Statuses]
    /\ won \in [Reqs -> BOOLEAN]
    /\ out \in [Reqs -> Seq(Words)]
    /\ logged \in [Reqs -> Seq(LogLines)]

(* Where a request is tells what has happened to it so far.                   *)
Stage(r) ==
    /\ pc[r] = "idle" => cred[r] = "none" /\ seen[r] = {} /\ mark[r] = "absent"
    /\ pc[r] \in Unanswered \cup {"aborted"} => ~won[r] /\ logged[r] = <<>>
    /\ pc[r] \notin {"core", "done"} => out[r] = <<>>
    /\ pc[r] = "core" =>
          /\ Len(out[r]) <= MaxFrames /\ \A i \in 1 .. Len(out[r]) : out[r][i] = "frame"
          /\ req[r].body.stream = "no" => out[r] = <<>>
          /\ status[r] = 0 => out[r] = <<>>
    /\ pc[r] \in {"body", "core", "poll"} => mark[r] = "sealed" /\ seen[r] = {}
    /\ pc[r] = "body" => req[r].path.res # "jobs"
    /\ Len(out[r]) <= MaxFrames + 1 /\ Len(logged[r]) <= 1

(* What a request holds: its slot until it is answered, its body only with it.*)
Holds(r) ==
    /\ r \in slots => pc[r] \in {"body", "core", "poll", "forward"} /\ cred[r] \in {"key", "cookie"}
    /\ r \in held => r \in slots
    /\ cred[r] = "cookie" => ~policy.open /\ req[r].origin = "allowed"

(* When the router may read a prompt.                                         *)
Disclosed(p, q) ==
    \/ p.seal = "off"
    \/ q.path.form = "sub"
    \/ /\ p.seal = "list" /\ q.path.res \notin Wildcards
       /\ q.body.model = "unlisted" /\ q.body.shape # "bad" /\ q.body.size # "over"
    \/ q.path.res = "async" /\ q.body.url

Secrets(r) ==
    /\ "prompt" \in seen[r] => Disclosed(policy, req[r]) /\ mark[r] = "none"
    /\ "key" \notin seen[r] /\ \A i \in 1 .. Len(logged[r]) : logged[r][i] # "key"

(* What the caller is told.                                                   *)
Told(r) ==
    /\ won[r] => mark[r] = "sealed"
    /\ \A i \in 1 .. Len(out[r]) :
          /\ out[r][i] = "[DONE]" => won[r] /\ i = Len(out[r])
          /\ out[r][i] = "error" => ~won[r]
          /\ out[r][i] = "content" => won[r]

ReqInv(r) == Stage(r) /\ Holds(r) /\ Secrets(r) /\ Told(r)

EntryInv ==
    /\ TypeInv
    /\ \A r \in Reqs : ReqInv(r)
    /\ Cardinality(slots) <= MaxInFlight

-----------------------------------------------------------------------------
(* The pure decisions of the front door.                                      *)

(* The fields of a request the decisions turn on.                             *)
LEMMA RequestFields ==
    ASSUME NEW q \in Traffic
    PROVE  /\ q.path.res \in Rows \cup {"jobs", "catalog", "healthz"}
           /\ q.path.form \in {"exact", "slash", "escslash", "case", "sub"}
           /\ q.path.key \in {"none", "good", "malformed"}
           /\ q.path.key # "none" => q.path.res = "jobs"
           /\ q.path = [res |-> q.path.res, form |-> q.path.form, key |-> q.path.key]
           /\ q.auth \in {"none", "nonbearer", "mgmt", "key"}
           /\ q.body.size \in {"sealable", "forwardable", "over"}
           /\ q.body.shape \in {"json", "multipart", "bad"}
           /\ q.body.model \in {"listed", "unlisted", "unnamed"}
           /\ q.body.stream \in {"no", "yes", "bad"}
<1>1. q \in Requests /\ (q.path.key # "none" => q.path.res = "jobs")
  BY EntryAssumption
<1>2. q.path \in Paths /\ q.body \in Bodies /\ q.auth \in {"none", "nonbearer", "mgmt", "key"}
  BY <1>1 DEF Requests
<1>3. /\ q.path.res \in Rows \cup {"jobs", "catalog", "healthz"}
      /\ q.path.form \in {"exact", "slash", "escslash", "case", "sub"}
      /\ q.path.key \in {"none", "good", "malformed"}
      /\ q.path = [res |-> q.path.res, form |-> q.path.form, key |-> q.path.key]
  BY <1>2 DEF Paths
<1>4. /\ q.body.size \in {"sealable", "forwardable", "over"}
      /\ q.body.shape \in {"json", "multipart", "bad"}
      /\ q.body.model \in {"listed", "unlisted", "unnamed"}
      /\ q.body.stream \in {"no", "yes", "bad"}
  BY <1>2 DEF Bodies
<1> QED BY <1>1, <1>2, <1>3, <1>4

(* Whatever the spelling, a guarded path is left as registered or as a        *)
(* sub-resource: no other form of it reaches the mux.                         *)
LEMMA GuardFolds ==
    ASSUME NEW q \in Traffic, q.path.res \in Rows \cup {"jobs"}
    PROVE  LET p == sealedNamespaceGuard(q.path)
           IN  /\ p.res = q.path.res /\ p.key = q.path.key
               /\ p.form \in {"exact", "slash", "sub"}
               /\ p.form = "sub" => q.path.form = "sub"
<1> DEFINE x == q.path
           form == CASE x.form = "case" -> "exact" [] x.form = "escslash" -> "slash" [] OTHER -> x.form
<1>1. sealedNamespaceGuard(x) = [x EXCEPT !.form = form]
  BY DEF sealedNamespaceGuard
<1>2. /\ x = [res |-> x.res, form |-> x.form, key |-> x.key]
      /\ x.form \in {"exact", "slash", "escslash", "case", "sub"}
  BY RequestFields
<1>3. form \in {"exact", "slash", "sub"} /\ (form = "sub" => x.form = "sub")
  BY <1>2
<1> HIDE DEF form, x
<1>4. [x EXCEPT !.form = form] = [res |-> x.res, form |-> form, key |-> x.key]
  BY <1>2
<1> QED BY <1>1, <1>3, <1>4 DEF x

(* No path out of the front door but the disclosed ones shows the router a    *)
(* prompt, and none shows it a key.                                           *)
LEMMA ForwardDiscloses ==
    ASSUME NEW q \in Traffic, policy \in Policies,
           mux(q) \in {"passthrough", "catchall", "keylessPoll"}
    PROVE  /\ "prompt" \in clearView(q) => Disclosed(policy, q)
           /\ "key" \notin clearView(q)
<1> DEFINE p == sealedNamespaceGuard(q.path)
<1>1. "healthz" \notin Rows \cup {"jobs"} /\ "catalog" \notin Rows \cup {"jobs"} /\ "jobs" \notin Rows
  BY DEF Rows
<1>2. ASSUME "prompt" \in clearView(q) PROVE Disclosed(policy, q)
  <2>1. q.method = "POST" /\ q.path.res \in Rows
    BY <1>2 DEF clearView
  <2>2. p.res = q.path.res /\ p.form \in {"exact", "slash", "sub"} /\ (p.form = "sub" => q.path.form = "sub")
    BY <2>1, GuardFolds
  <2>3. CASE p.form = "sub"
    BY <2>2, <2>3 DEF Disclosed
  <2>4. CASE p.form \in {"exact", "slash"}
    <3>1. ASSUME sealingOn PROVE FALSE
      <4>1. p.res # "healthz" /\ p.res # "catalog" /\ p.res \in Rows
        BY <1>1, <2>1, <2>2
      <4> HIDE DEF p
      <4>2. mux(q) \in {"sealedGate", "unserved"}
        BY <2>1, <2>4, <3>1, <4>1 DEF mux, p
      <4> QED BY <4>2
    <3> QED BY <3>1 DEF sealingOn, Disclosed
  <2> QED BY <2>2, <2>3, <2>4
<1>3. ASSUME "key" \in clearView(q) PROVE FALSE
  <2>1. q.path.res = "jobs" /\ q.path.key # "none"
    BY <1>3 DEF clearView
  <2>2. p.res = "jobs" /\ p.key # "none" /\ p.form \in {"exact", "slash", "sub"}
    BY <2>1, GuardFolds
  <2>3. mux(q) \in {"sealedGate", "keyRefused"}
    BY <1>1, <2>2 DEF mux
  <2> QED BY <2>3
<1> QED BY <1>2, <1>3

(* A body forwarded by the dispatch on its model is one of the disclosed.     *)
LEMMA DispatchDiscloses ==
    ASSUME NEW q \in Traffic, q.path.res # "jobs", policy \in Policies,
           dispatch(q) = "cleartext" \/ urlFormat(q)
    PROVE  /\ Disclosed(policy, q)
           /\ "key" \notin clearView(q)
<1>1. "key" \notin clearView(q)
  BY DEF clearView
<1>2. CASE dispatch(q) = "cleartext"
  BY <1>1, <1>2, RequestFields DEF dispatch, modelOf, Disclosed
<1>3. CASE urlFormat(q)
  BY <1>1, <1>3 DEF urlFormat, Disclosed
<1> QED BY <1>1, <1>2, <1>3

(* The log line of a request shows no key.                                    *)
LEMMA LogsPlain ==
    ASSUME NEW q \in Traffic
    PROVE  RedactJobPath(q) = "plain"
BY RequestFields DEF RedactJobPath

(* The credential a request is served under.                                  *)
LEMMA Credentials ==
    ASSUME NEW q \in Traffic
    PROVE  /\ AcceptCookieCredential(q) \in Creds
           /\ AcceptCookieCredential(q) = "cookie" => ~policy.open /\ q.origin = "allowed"
           /\ RequireInferenceCredential(AcceptCookieCredential(q)) \in {0, 401, 403}
           /\ RequireInferenceCredential(AcceptCookieCredential(q)) = 0 =>
                 AcceptCookieCredential(q) \in {"key", "cookie"}
<1>1. /\ AcceptCookieCredential(q) \in Creds
      /\ AcceptCookieCredential(q) = "cookie" => ~policy.open /\ q.origin = "allowed"
  BY RequestFields DEF AcceptCookieCredential, Creds, credentialsAllowed, originAllowed
<1> QED
  BY <1>1 DEF RequireInferenceCredential, Creds

-----------------------------------------------------------------------------
(* The parts every action is made of.                                         *)

(* What a step of one request leaves of another.                              *)
Kept(s) ==
    /\ policy' = policy
    /\ pc'[s] = pc[s] /\ req'[s] = req[s] /\ cred'[s] = cred[s]
    /\ seen'[s] = seen[s] /\ mark'[s] = mark[s] /\ won'[s] = won[s]
    /\ status'[s] = status[s] /\ out'[s] = out[s] /\ logged'[s] = logged[s]
    /\ s \in slots' <=> s \in slots
    /\ s \in held' <=> s \in held

(* The semaphore: a step takes one slot, and only where there is room.        *)
SlotStep(r) ==
    \/ slots' \subseteq slots
    \/ slots' = slots \cup {r} /\ Cardinality(slots) < MaxInFlight

Goal(r) == TypeInv' /\ ReqInv(r)' /\ SlotStep(r)

LEMMA EmptyConcat ==
    ASSUME NEW S, NEW s \in Seq(S)
    PROVE  << >> \o s = s
OBVIOUS

LEMMA AddOne ==
    ASSUME NEW S, NEW s \in Seq(S), NEW e \in S
    PROVE  /\ s \o <<e>> \in Seq(S) /\ Append(s, e) \in Seq(S)
           /\ Len(s) \in Nat /\ Len(s \o <<e>>) = Len(s) + 1 /\ Len(Append(s, e)) = Len(s) + 1
           /\ \A i \in 1 .. Len(s) : (s \o <<e>>)[i] = s[i] /\ Append(s, e)[i] = s[i]
           /\ (s \o <<e>>)[Len(s) + 1] = e /\ Append(s, e)[Len(s) + 1] = e
OBVIOUS

(* The handler's return.                                                      *)
LEMMA Returned ==
    ASSUME TypeInv, NEW r \in Reqs, req' \in [Reqs -> Traffic], return(r), logged[r] = << >>
    PROVE  /\ pc' \in [Reqs -> Steps] /\ pc'[r] = "done"
           /\ slots' = slots \ {r} /\ held' = held \ {r}
           /\ logged' \in [Reqs -> Seq(LogLines)]
           /\ Len(logged'[r]) <= 1 /\ \A i \in 1 .. Len(logged'[r]) : logged'[r][i] # "key"
<1>1. pc' = [pc EXCEPT ![r] = "done"] /\ slots' = slots \ {r} /\ held' = held \ {r}
  BY DEF return
<1>2. pc' \in [Reqs -> Steps] /\ pc'[r] = "done"
  BY <1>1 DEF TypeInv, Steps
<1>3. RedactJobPath(req'[r]) = "plain"
  BY LogsPlain
<1>4. Append(<< >>, "plain") = <<"plain">> /\ <<"plain">> \in Seq(LogLines) /\ << >> \in Seq(LogLines)
  BY DEF LogLines
<1>5. \E l \in {<< >>, <<"plain">>} : logged' = [logged EXCEPT ![r] = l]
  BY <1>3, <1>4 DEF return
<1>6. PICK l \in {<< >>, <<"plain">>} : logged' = [logged EXCEPT ![r] = l]
  BY <1>5
<1>7. logged' \in [Reqs -> Seq(LogLines)] /\ logged'[r] = l
  BY <1>4, <1>6 DEF TypeInv
<1>8. Len(l) <= 1 /\ \A i \in 1 .. Len(l) : l[i] # "key"
  <2>1. CASE l = << >>
    BY <2>1
  <2>2. CASE l = <<"plain">>
    <3>1. Len(<<"plain">>) = 1 /\ <<"plain">>[1] = "plain"
      OBVIOUS
    <3> QED BY <2>2, <3>1
  <2> QED BY <1>6, <2>1, <2>2
<1> QED BY <1>1, <1>2, <1>7, <1>8

(* An answer in one piece, with nothing written before it.                    *)
LEMMA Answered ==
    ASSUME TypeInv, NEW r \in Reqs, out[r] = << >>,
           NEW code \in Statuses, NEW content \in Seq(Words), answer(r, code, content)
    PROVE  /\ status' \in [Reqs -> Statuses]
           /\ out' \in [Reqs -> Seq(Words)] /\ out'[r] = content
<1>1. out' = [out EXCEPT ![r] = << >> \o content]
  BY DEF answer
<1>2. out' = [out EXCEPT ![r] = content]
  BY <1>1, EmptyConcat
<1> QED BY <1>2 DEF answer, TypeInv

LEMMA Contents ==
    /\ 200 \in Statuses
    /\ << >> \in Seq(Words) /\ <<"content">> \in Seq(Words) /\ <<"clear">> \in Seq(Words)
    /\ << >> \in Seq(LogLines)
BY DEF Words, LogLines, Statuses

LEMMA Refused ==
    ASSUME TypeInv, NEW r \in Reqs, out[r] = << >>, NEW code \in Statuses, refuse(r, code)
    PROVE  /\ status' \in [Reqs -> Statuses]
           /\ out' \in [Reqs -> Seq(Words)] /\ out'[r] = << >>
BY Answered, Contents DEF refuse

(* A refusal tells nothing but its status.                                    *)
LEMMA NothingTold ==
    ASSUME NEW r, out'[r] = << >>, ~won'[r]
    PROVE  Told(r)' /\ Len(out'[r]) <= MaxFrames + 1
BY EntryAssumption DEF Told

(* What is told of an answer in one piece.                                    *)
LEMMA OnePiece ==
    ASSUME NEW r, out'[r] \in {<< >>, <<"clear">>, <<"content">>},
           out'[r] = <<"content">> => won'[r], won'[r] => mark'[r] = "sealed"
    PROVE  Told(r)' /\ Len(out'[r]) <= MaxFrames + 1
<1>1. MaxFrames \in Nat
  BY EntryAssumption
<1>2. CASE out'[r] = << >>
  BY <1>1, <1>2 DEF Told
<1>3. ASSUME NEW w \in {"clear", "content"}, out'[r] = <<w>>, w = "content" => won'[r]
      PROVE  Told(r)' /\ Len(out'[r]) <= MaxFrames + 1
  <2>1. Len(<<w>>) = 1 /\ <<w>>[1] = w
    OBVIOUS
  <2>2. Len(out'[r]) = 1 /\ \A i \in 1 .. Len(out'[r]) : out'[r][i] = w
    BY <1>3, <2>1
  <2> QED BY <1>1, <1>3, <2>2 DEF Told
<1> QED BY <1>2, <1>3

(* What makes the invariant of a request that has been answered.              *)
LEMMA Finishing ==
    ASSUME NEW r, pc'[r] = "done", r \notin slots', r \notin held',
           Len(logged'[r]) <= 1, \A i \in 1 .. Len(logged'[r]) : logged'[r][i] # "key",
           cred'[r] = "cookie" => ~policy'.open /\ req'[r].origin = "allowed",
           "prompt" \in seen'[r] => Disclosed(policy, req[r])' /\ mark'[r] = "none",
           "key" \notin seen'[r],
           Told(r)', Len(out'[r]) <= MaxFrames + 1
    PROVE  ReqInv(r)'
BY DEF ReqInv, Stage, Holds, Secrets, Unanswered

-----------------------------------------------------------------------------
(* The front door, one lemma per way of entering it.                          *)

(* A request that is not here yet has nothing written and nothing disclosed.  *)
LEMMA Idle ==
    ASSUME TypeInv, NEW r \in Reqs, ReqInv(r), pc[r] = "idle"
    PROVE  /\ out[r] = << >> /\ logged[r] = << >> /\ won[r] = FALSE
           /\ cred[r] = "none" /\ seen[r] = {} /\ mark[r] = "absent"
           /\ r \notin slots /\ r \notin held
<1>1. out[r] = << >> /\ logged[r] = << >> /\ ~won[r]
  BY DEF ReqInv, Stage, Unanswered
<1>2. cred[r] = "none" /\ seen[r] = {} /\ mark[r] = "absent" /\ r \notin slots /\ r \notin held
  BY DEF ReqInv, Stage, Holds
<1> QED BY <1>1, <1>2 DEF TypeInv

LEMMA AnswerHereKeeps ==
    ASSUME TypeInv, NEW r \in Reqs, ReqInv(r), pc[r] = "idle", NEW q \in Traffic, AnswerHere(r, q)
    PROVE  Goal(r)
<1>1. req' \in [Reqs -> Traffic] /\ policy' = policy /\ won' = won
  BY DEF AnswerHere, arrives, TypeInv
<1>2. PICK code \in Statuses : refuse(r, code)
  BY DEF AnswerHere, CORS, Statuses
<1>3. /\ status' \in [Reqs -> Statuses]
      /\ out' \in [Reqs -> Seq(Words)] /\ out'[r] = << >>
  BY <1>2, Idle, Refused
<1>4. return(r) /\ UNCHANGED <<cred, seen, mark>>
  BY DEF AnswerHere
<1>5. /\ pc' \in [Reqs -> Steps] /\ pc'[r] = "done"
      /\ slots' = slots \ {r} /\ held' = held \ {r}
      /\ logged' \in [Reqs -> Seq(LogLines)]
      /\ Len(logged'[r]) <= 1 /\ \A i \in 1 .. Len(logged'[r]) : logged'[r][i] # "key"
  BY <1>1, <1>4, Idle, Returned
<1>6. TypeInv' /\ SlotStep(r)
  BY <1>1, <1>3, <1>4, <1>5 DEF TypeInv, SlotStep
<1>7. cred'[r] = "none" /\ seen'[r] = {} /\ won'[r] = FALSE
  BY <1>1, <1>4, Idle
<1>8. Told(r)' /\ Len(out'[r]) <= MaxFrames + 1
  BY <1>3, <1>7, NothingTold
<1>9. ReqInv(r)'
  BY <1>5, <1>7, <1>8, Finishing
<1> QED BY <1>6, <1>9 DEF Goal

LEMMA GateKeeps ==
    ASSUME TypeInv, NEW r \in Reqs, ReqInv(r), pc[r] = "idle", NEW q \in Traffic, Gate(r, q)
    PROVE  Goal(r)
<1> DEFINE c == AcceptCookieCredential(q)
<1>1. req' \in [Reqs -> Traffic] /\ req'[r] = q /\ policy' = policy /\ won' = won /\ seen' = seen
  BY DEF Gate, arrives, TypeInv
<1>2. /\ cred' = [cred EXCEPT ![r] = c] /\ mark' = [mark EXCEPT ![r] = "sealed"]
      /\ c \in Creds /\ (c = "cookie" => ~policy.open /\ q.origin = "allowed")
  BY Credentials DEF Gate
<1>3. /\ cred' \in [Reqs -> Creds] /\ cred'[r] = c
      /\ mark' \in [Reqs -> {"absent", "sealed", "none"}] /\ mark'[r] = "sealed"
  BY <1>2 DEF TypeInv
<1>4. /\ RequireInferenceCredential(c) \in Statuses
      /\ RequireInferenceCredential(c) = 0 => c \in {"key", "cookie"}
  BY Credentials DEF Statuses
<1> HIDE DEF c
<1>5. won'[r] = FALSE /\ seen'[r] = {}
  BY <1>1, Idle
<1>6. ASSUME NEW code \in Statuses, refuse(r, code), return(r) PROVE Goal(r)
  <2>1. /\ status' \in [Reqs -> Statuses]
        /\ out' \in [Reqs -> Seq(Words)] /\ out'[r] = << >>
    BY <1>6, Idle, Refused
  <2>2. /\ pc' \in [Reqs -> Steps] /\ pc'[r] = "done"
        /\ slots' = slots \ {r} /\ held' = held \ {r}
        /\ logged' \in [Reqs -> Seq(LogLines)]
        /\ Len(logged'[r]) <= 1 /\ \A i \in 1 .. Len(logged'[r]) : logged'[r][i] # "key"
    BY <1>1, <1>6, Idle, Returned
  <2>3. TypeInv' /\ SlotStep(r)
    BY <1>1, <1>3, <2>1, <2>2 DEF TypeInv, SlotStep
  <2>4. Told(r)' /\ Len(out'[r]) <= MaxFrames + 1
    BY <1>5, <2>1, NothingTold
  <2>5. ReqInv(r)'
    BY <1>1, <1>2, <1>3, <1>5, <2>2, <2>4, Finishing
  <2> QED BY <2>3, <2>5 DEF Goal
<1>7. ASSUME RequireInferenceCredential(c) = 0, hasRoom(q), slots' = slots \cup {r},
             IF q.path.res = "jobs"
             THEN pc' = [pc EXCEPT ![r] = "poll"] /\ UNCHANGED held
             ELSE pc' = [pc EXCEPT ![r] = "body"] /\ held' = held \cup {r},
             UNCHANGED <<status, out, logged>>
      PROVE  Goal(r)
  <2>1. /\ pc' \in [Reqs -> Steps] /\ pc'[r] \in {"poll", "body"}
        /\ pc'[r] = "body" => q.path.res # "jobs"
        /\ held' \subseteq held \cup {r}
    BY <1>7 DEF TypeInv, Steps
  <2>2. out'[r] = << >> /\ logged'[r] = << >>
    BY <1>7, Idle
  <2>3. TypeInv' /\ SlotStep(r)
    BY <1>1, <1>3, <1>7, <2>1 DEF TypeInv, SlotStep, hasRoom
  <2>4. Len(<< >>) = 0 /\ MaxFrames \in Nat
    BY EntryAssumption
  <2>5. Stage(r)'
    BY <1>1, <1>3, <1>5, <2>1, <2>2, <2>4 DEF Stage, Unanswered
  <2>6. Holds(r)'
    BY <1>1, <1>2, <1>3, <1>4, <1>7, <2>1 DEF Holds
  <2>7. Secrets(r)' /\ Told(r)'
    BY <1>5, <2>2, <2>4 DEF Secrets, Told
  <2> QED BY <2>3, <2>5, <2>6, <2>7 DEF Goal, ReqInv
<1> QED
  BY <1>3, <1>4, <1>6, <1>7 DEF Gate, c, Statuses

LEMMA PassThroughKeeps ==
    ASSUME TypeInv, NEW r \in Reqs, ReqInv(r), pc[r] = "idle", NEW q \in Traffic, PassThrough(r, q)
    PROVE  Goal(r)
<1>1. req' \in [Reqs -> Traffic] /\ req'[r] = q /\ policy' = policy /\ won' = won
  BY DEF PassThrough, arrives, TypeInv
<1>2. UNCHANGED <<cred, slots, held, status, out, logged>>
  BY DEF PassThrough
<1>3. pc' \in [Reqs -> Steps] /\ pc'[r] \in {"keyless", "forward"}
  BY DEF PassThrough, TypeInv, Steps
<1>4. clearView(q) \in SUBSET {"prompt", "meta", "key"}
  BY DEF clearView
<1>5. /\ seen' \in [Reqs -> SUBSET {"prompt", "meta", "key"}] /\ seen'[r] = clearView(q)
      /\ mark' \in [Reqs -> {"absent", "sealed", "none"}] /\ mark'[r] = "none"
  <2>1. seen[r] = {}
    BY Idle
  <2>2. seen' = [seen EXCEPT ![r] = seen[r] \cup clearView(q)] /\ mark' = [mark EXCEPT ![r] = "none"]
    BY DEF PassThrough, forward
  <2> QED BY <1>4, <2>1, <2>2 DEF TypeInv
<1>6. ("prompt" \in clearView(q) => Disclosed(policy, q)) /\ "key" \notin clearView(q)
  BY ForwardDiscloses DEF PassThrough, TypeInv
<1>7. /\ out'[r] = << >> /\ logged'[r] = << >> /\ won'[r] = FALSE /\ cred'[r] = "none"
      /\ r \notin slots' /\ r \notin held' /\ Len(<< >>) = 0 /\ MaxFrames \in Nat
  BY <1>1, <1>2, Idle, EntryAssumption
<1>8. TypeInv' /\ SlotStep(r)
  BY <1>1, <1>2, <1>3, <1>5 DEF TypeInv, SlotStep
<1>9. Stage(r)' /\ Holds(r)'
  BY <1>3, <1>7 DEF Stage, Holds, Unanswered
<1>10. Secrets(r)'
  BY <1>1, <1>5, <1>6, <1>7 DEF Secrets, Disclosed
<1>11. Told(r)'
  BY <1>7 DEF Told
<1> QED BY <1>8, <1>9, <1>10, <1>11 DEF Goal, ReqInv

-----------------------------------------------------------------------------
(* A request being served, one lemma per step.                                *)

(* What a request that has not been answered has behind it.                   *)
LEMMA Serving ==
    ASSUME TypeInv, NEW r \in Reqs, ReqInv(r), pc[r] \in Unanswered
    PROVE  /\ won[r] = FALSE /\ logged[r] = << >>
           /\ pc[r] # "core" => out[r] = << >>
           /\ cred[r] = "cookie" => ~policy.open /\ req[r].origin = "allowed"
           /\ "prompt" \in seen[r] => Disclosed(policy, req[r]) /\ mark[r] = "none"
           /\ "key" \notin seen[r]
           /\ pc[r] \in {"body", "core", "poll"} => mark[r] = "sealed" /\ seen[r] = {}
<1>1. ~won[r] /\ logged[r] = << >> /\ (pc[r] # "core" => out[r] = << >>)
  BY DEF ReqInv, Stage, Unanswered
<1>2. won[r] = FALSE
  BY <1>1 DEF TypeInv
<1> QED BY <1>1, <1>2 DEF ReqInv, Stage, Holds, Secrets

(* A request that is answered and returns, with what it was served under and  *)
(* what the router has read left as they were.                                *)
LEMMA Ending ==
    ASSUME TypeInv, NEW r \in Reqs, ReqInv(r), pc[r] \in Unanswered,
           return(r), UNCHANGED <<policy, req, cred, mark>>,
           seen' \in [Reqs -> SUBSET {"prompt", "meta", "key"}],
           seen'[r] = seen[r] \/ seen'[r] = {"meta"},
           status' \in [Reqs -> Statuses], out' \in [Reqs -> Seq(Words)],
           won' \in [Reqs -> BOOLEAN],
           Told(r)', Len(out'[r]) <= MaxFrames + 1
    PROVE  Goal(r)
<1>1. req' \in [Reqs -> Traffic]
  BY DEF TypeInv
<1>2. /\ pc' \in [Reqs -> Steps] /\ pc'[r] = "done"
      /\ slots' = slots \ {r} /\ held' = held \ {r}
      /\ logged' \in [Reqs -> Seq(LogLines)]
      /\ Len(logged'[r]) <= 1 /\ \A i \in 1 .. Len(logged'[r]) : logged'[r][i] # "key"
  BY <1>1, Serving, Returned
<1>3. TypeInv' /\ SlotStep(r)
  BY <1>1, <1>2 DEF TypeInv, SlotStep
<1>4. /\ cred'[r] = "cookie" => ~policy'.open /\ req'[r].origin = "allowed"
      /\ "prompt" \in seen'[r] => Disclosed(policy, req[r])' /\ mark'[r] = "none"
      /\ "key" \notin seen'[r]
  BY Serving DEF Disclosed
<1>5. ReqInv(r)'
  BY <1>2, <1>4, Finishing
<1> QED BY <1>3, <1>5 DEF Goal

(* The same, for a refusal.                                                   *)
LEMMA Refusing ==
    ASSUME TypeInv, NEW r \in Reqs, ReqInv(r), pc[r] \in Unanswered, out[r] = << >>,
           NEW code \in Statuses, refuse(r, code),
           return(r), UNCHANGED <<policy, req, cred, mark, won>>,
           seen' \in [Reqs -> SUBSET {"prompt", "meta", "key"}],
           seen'[r] = seen[r] \/ seen'[r] = {"meta"}
    PROVE  Goal(r)
<1>1. /\ status' \in [Reqs -> Statuses]
      /\ out' \in [Reqs -> Seq(Words)] /\ out'[r] = << >>
  BY Refused
<1>2. won' \in [Reqs -> BOOLEAN] /\ ~won'[r]
  BY Serving DEF TypeInv
<1>3. Told(r)' /\ Len(out'[r]) <= MaxFrames + 1
  BY <1>1, <1>2, NothingTold
<1> QED BY <1>1, <1>2, <1>3, Ending

LEMMA BodyArrivesKeeps ==
    ASSUME TypeInv, NEW r \in Reqs, ReqInv(r), BodyArrives(r)
    PROVE  Goal(r)
<1> DEFINE q == req[r]
<1>1. /\ pc[r] = "body" /\ pc[r] \in Unanswered /\ q \in Traffic /\ q.path.res # "jobs"
      /\ out[r] = << >> /\ logged[r] = << >> /\ won[r] = FALSE /\ seen[r] = {} /\ mark[r] = "sealed"
  BY Serving DEF BodyArrives, Unanswered, TypeInv, ReqInv, Stage
<1>2. UNCHANGED <<policy, cred, won, req>>
  BY DEF BodyArrives
<1>3. CASE dispatch(q) = "cleartext" \/ urlFormat(q)
  <2>1. /\ seen' = [seen EXCEPT ![r] = seen[r] \cup clearView(q)] /\ mark' = [mark EXCEPT ![r] = "none"]
        /\ pc' = [pc EXCEPT ![r] = "forward"] /\ UNCHANGED <<slots, held, status, out, logged>>
    BY <1>3 DEF BodyArrives, forward
  <2>2. Disclosed(policy, q) /\ "key" \notin clearView(q)
    BY <1>1, <1>3, DispatchDiscloses DEF TypeInv
  <2>3. clearView(q) \in SUBSET {"prompt", "meta", "key"}
    BY DEF clearView
  <2>4. /\ seen' \in [Reqs -> SUBSET {"prompt", "meta", "key"}] /\ seen'[r] = clearView(q)
        /\ mark' \in [Reqs -> {"absent", "sealed", "none"}] /\ mark'[r] = "none"
    BY <1>1, <2>1, <2>3 DEF TypeInv
  <2>5. pc' \in [Reqs -> Steps] /\ pc'[r] = "forward"
    BY <2>1 DEF TypeInv, Steps
  <2>6. TypeInv' /\ SlotStep(r)
    BY <1>2, <2>1, <2>4, <2>5 DEF TypeInv, SlotStep
  <2>7. out'[r] = << >> /\ logged'[r] = << >> /\ won'[r] = FALSE /\ Len(<< >>) = 0 /\ MaxFrames \in Nat
    BY <1>1, <1>2, <2>1, EntryAssumption
  <2>8. Stage(r)'
    BY <2>5, <2>7 DEF Stage, Unanswered
  <2>9. Holds(r)'
    BY <1>2, <2>1, <2>5 DEF Holds, ReqInv
  <2>10. Secrets(r)'
    BY <1>2, <2>2, <2>4, <2>7 DEF Secrets, Disclosed
  <2>11. Told(r)'
    BY <2>7 DEF Told
  <2> QED BY <2>6, <2>8, <2>9, <2>10, <2>11 DEF Goal, ReqInv
<1>4. CASE ~(dispatch(q) = "cleartext" \/ urlFormat(q)) /\ Register(q) # 0
  <2>1. refuse(r, Register(q)) /\ return(r) /\ UNCHANGED <<seen, mark>>
    BY <1>4 DEF BodyArrives
  <2>2. Register(q) \in Statuses
    BY DEF Register, Statuses
  <2> HIDE DEF q
  <2> QED BY <1>1, <1>2, <2>1, <2>2, Refusing DEF TypeInv
<1>5. CASE ~(dispatch(q) = "cleartext" \/ urlFormat(q)) /\ Register(q) = 0
  <2>1. pc' = [pc EXCEPT ![r] = "core"] /\ UNCHANGED <<slots, held, status, out, logged, seen, mark>>
    BY <1>5 DEF BodyArrives
  <2>2. pc' \in [Reqs -> Steps] /\ pc'[r] = "core"
    BY <2>1 DEF TypeInv, Steps
  <2>3. TypeInv' /\ SlotStep(r)
    BY <1>2, <2>1, <2>2 DEF TypeInv, SlotStep
  <2>4. /\ out'[r] = << >> /\ logged'[r] = << >> /\ won'[r] = FALSE /\ seen'[r] = {} /\ mark'[r] = "sealed"
        /\ Len(<< >>) = 0 /\ MaxFrames \in Nat
    BY <1>1, <1>2, <2>1, EntryAssumption
  <2>5. Stage(r)'
    BY <2>2, <2>4 DEF Stage, Unanswered
  <2>6. Holds(r)'
    BY <1>1, <1>2, <2>1, <2>2 DEF Holds, ReqInv
  <2>7. Secrets(r)' /\ Told(r)'
    BY <2>4 DEF Secrets, Told
  <2> QED BY <2>3, <2>5, <2>6, <2>7 DEF Goal, ReqInv
<1> QED BY <1>3, <1>4, <1>5

LEMMA BodyDeadlineKeeps ==
    ASSUME TypeInv, NEW r \in Reqs, ReqInv(r), BodyDeadline(r)
    PROVE  Goal(r)
<1>1. PICK code \in Statuses : refuse(r, code)
  BY DEF BodyDeadline, Statuses
<1>2. return(r) /\ UNCHANGED <<policy, req, cred, seen, mark, won>> /\ pc[r] \in Unanswered
  BY DEF BodyDeadline, Unanswered
<1>3. out[r] = << >>
  BY <1>2, Serving, ZenonT(40) DEF BodyDeadline
<1> QED BY <1>1, <1>2, <1>3, Refusing DEF TypeInv

LEMMA CoreFailsKeeps ==
    ASSUME TypeInv, NEW r \in Reqs, ReqInv(r), CoreFails(r)
    PROVE  Goal(r)
<1>1. PICK code \in Statuses : refuse(r, code)
  BY DEF CoreFails, Statuses
<1>2. return(r) /\ UNCHANGED <<policy, req, cred, seen, mark, won>> /\ pc[r] \in Unanswered
  BY DEF CoreFails, Unanswered
<1>3. out[r] = << >>
  BY DEF CoreFails, ReqInv, Stage
<1> QED BY <1>1, <1>2, <1>3, Refusing DEF TypeInv

LEMMA CoreAnswersKeeps ==
    ASSUME TypeInv, NEW r \in Reqs, ReqInv(r), CoreAnswers(r)
    PROVE  Goal(r)
<1>1. PICK code \in Statuses : answer(r, code, <<"content">>)
  BY DEF CoreAnswers, Statuses
<1>2. return(r) /\ UNCHANGED <<policy, req, cred, seen, mark>> /\ pc[r] \in Unanswered
  BY DEF CoreAnswers, Unanswered
<1>3. out[r] = << >> /\ mark[r] = "sealed"
  BY DEF CoreAnswers, ReqInv, Stage
<1>4. won' \in [Reqs -> BOOLEAN] /\ won'[r] /\ mark'[r] = "sealed"
  BY <1>2, <1>3 DEF CoreAnswers, TypeInv
<1>5. /\ status' \in [Reqs -> Statuses]
      /\ out' \in [Reqs -> Seq(Words)] /\ out'[r] = <<"content">>
  BY <1>1, <1>3, Answered, Contents
<1>6. Told(r)' /\ Len(out'[r]) <= MaxFrames + 1
  <2>1. /\ out'[r] \in {<< >>, <<"clear">>, <<"content">>}
        /\ (out'[r] = <<"content">> => won'[r]) /\ (won'[r] => mark'[r] = "sealed")
    BY <1>4, <1>5
  <2> QED BY ONLY <2>1, OnePiece
<1> QED BY <1>2, <1>4, <1>5, <1>6, Ending DEF TypeInv

(* The frames written so far, and one word after them.                        *)
LEMMA Framed ==
    ASSUME TypeInv, NEW r \in Reqs, ReqInv(r), pc[r] = "core", NEW w \in Words
    PROVE  /\ out[r] \in Seq(Words) /\ Len(out[r]) \in Nat /\ Len(out[r]) <= MaxFrames
           /\ \A i \in 1 .. Len(out[r]) : out[r][i] = "frame"
           /\ out[r] \o <<w>> \in Seq(Words) /\ Append(out[r], w) \in Seq(Words)
           /\ Len(out[r] \o <<w>>) = Len(out[r]) + 1 /\ Len(Append(out[r], w)) = Len(out[r]) + 1
           /\ \A i \in 1 .. (Len(out[r]) + 1) :
                 /\ (out[r] \o <<w>>)[i] = IF i <= Len(out[r]) THEN "frame" ELSE w
                 /\ Append(out[r], w)[i] = IF i <= Len(out[r]) THEN "frame" ELSE w
<1> DEFINE s == out[r]
<1>1. s \in Seq(Words) /\ Len(s) <= MaxFrames /\ \A i \in 1 .. Len(s) : s[i] = "frame"
  BY DEF TypeInv, ReqInv, Stage
<1> HIDE DEF s
<1>2. /\ s \o <<w>> \in Seq(Words) /\ Append(s, w) \in Seq(Words)
      /\ Len(s) \in Nat /\ Len(s \o <<w>>) = Len(s) + 1 /\ Len(Append(s, w)) = Len(s) + 1
      /\ \A i \in 1 .. Len(s) : (s \o <<w>>)[i] = s[i] /\ Append(s, w)[i] = s[i]
      /\ (s \o <<w>>)[Len(s) + 1] = w /\ Append(s, w)[Len(s) + 1] = w
  BY <1>1, AddOne
<1>3. ASSUME NEW i \in 1 .. (Len(s) + 1)
      PROVE  /\ (s \o <<w>>)[i] = IF i <= Len(s) THEN "frame" ELSE w
             /\ Append(s, w)[i] = IF i <= Len(s) THEN "frame" ELSE w
  <2>1. CASE i \in 1 .. Len(s)
    BY <1>1, <1>2, <2>1
  <2>2. CASE i = Len(s) + 1
    BY <1>2, <2>2
  <2> QED BY <1>2, <2>1, <2>2
<1> QED BY <1>1, <1>2, <1>3 DEF s

LEMMA StreamFrameKeeps ==
    ASSUME TypeInv, NEW r \in Reqs, ReqInv(r), StreamFrame(r)
    PROVE  Goal(r)
<1>1. /\ pc[r] = "core" /\ req[r].body.stream = "yes" /\ Len(out[r]) < MaxFrames
      /\ status' = [status EXCEPT ![r] = 200] /\ out' = [out EXCEPT ![r] = out[r] \o <<"frame">>]
      /\ UNCHANGED <<policy, pc, req, cred, slots, held, seen, mark, won, logged>>
  BY DEF StreamFrame, answer
<1>2. /\ Len(out[r]) \in Nat /\ out[r] \o <<"frame">> \in Seq(Words)
      /\ Len(out[r] \o <<"frame">>) = Len(out[r]) + 1
      /\ \A i \in 1 .. (Len(out[r]) + 1) : (out[r] \o <<"frame">>)[i] = "frame"
  BY <1>1, Framed DEF Words
<1>3. /\ out' \in [Reqs -> Seq(Words)] /\ out'[r] = out[r] \o <<"frame">>
      /\ status' \in [Reqs -> Statuses] /\ status'[r] = 200
  BY <1>1, <1>2 DEF TypeInv, Statuses
<1>4. /\ Len(out'[r]) = Len(out[r]) + 1
      /\ \A i \in 1 .. Len(out'[r]) : out'[r][i] = "frame"
  BY <1>2, <1>3
<1>5. TypeInv' /\ SlotStep(r)
  BY <1>1, <1>3 DEF TypeInv, SlotStep
<1>6. Stage(r)'
  <2>1. MaxFrames \in Nat
    BY EntryAssumption
  <2>2. Len(out'[r]) <= MaxFrames
    BY <1>1, <1>2, <1>4, <2>1
  <2> QED BY <1>1, <1>3, <1>4, <2>1, <2>2 DEF ReqInv, Stage, Unanswered
<1>7. Holds(r)' /\ Secrets(r)'
  BY <1>1 DEF ReqInv, Holds, Secrets, Disclosed
<1>8. Told(r)'
  BY <1>1, <1>4 DEF ReqInv, Told
<1> QED BY <1>5, <1>6, <1>7, <1>8 DEF Goal, ReqInv

LEMMA StreamEndsKeeps ==
    ASSUME TypeInv, NEW r \in Reqs, ReqInv(r), StreamEnds(r)
    PROVE  Goal(r)
<1>1. /\ pc[r] = "core" /\ pc[r] \in Unanswered /\ return(r)
      /\ won' = [won EXCEPT ![r] = TRUE]
      /\ UNCHANGED <<policy, req, cred, seen, mark, status>>
      /\ out' = [out EXCEPT ![r] = Append(out[r], "[DONE]")] \/ out' = out
  BY DEF StreamEnds, event, Unanswered
<1>2. won' \in [Reqs -> BOOLEAN] /\ won'[r] /\ mark'[r] = "sealed" /\ MaxFrames \in Nat
  BY <1>1, Serving, EntryAssumption DEF TypeInv
<1>3. /\ out[r] \in Seq(Words) /\ Len(out[r]) \in Nat /\ Len(out[r]) <= MaxFrames
      /\ \A i \in 1 .. Len(out[r]) : out[r][i] = "frame"
      /\ Append(out[r], "[DONE]") \in Seq(Words) /\ Len(Append(out[r], "[DONE]")) = Len(out[r]) + 1
      /\ \A i \in 1 .. (Len(out[r]) + 1) :
            Append(out[r], "[DONE]")[i] = IF i <= Len(out[r]) THEN "frame" ELSE "[DONE]"
  BY <1>1, Framed DEF Words
<1>4. out' \in [Reqs -> Seq(Words)] /\ (out'[r] = Append(out[r], "[DONE]") \/ out'[r] = out[r])
  <2>1. CASE out' = out
    BY <2>1 DEF TypeInv
  <2>2. CASE out' = [out EXCEPT ![r] = Append(out[r], "[DONE]")]
    BY <1>3, <2>2 DEF TypeInv
  <2> QED BY <1>1, <2>1, <2>2
<1>5. Len(out'[r]) <= MaxFrames + 1
  BY <1>2, <1>3, <1>4
<1>6. \A i \in 1 .. Len(out'[r]) : out'[r][i] = "frame" \/ (out'[r][i] = "[DONE]" /\ i = Len(out'[r]))
  <2>1. CASE out'[r] = out[r]
    BY <1>3, <2>1
  <2>2. CASE out'[r] = Append(out[r], "[DONE]")
    BY <1>3, <2>2
  <2> QED BY <1>4, <2>1, <2>2
<1>7. Told(r)'
  BY <1>2, <1>6 DEF Told
<1>8. status' \in [Reqs -> Statuses] /\ seen' \in [Reqs -> SUBSET {"prompt", "meta", "key"}]
  BY <1>1 DEF TypeInv
<1> QED BY <1>1, <1>2, <1>4, <1>5, <1>7, <1>8, Ending

LEMMA StreamBreaksKeeps ==
    ASSUME TypeInv, NEW r \in Reqs, ReqInv(r), StreamBreaks(r)
    PROVE  Goal(r)
<1>1. /\ pc[r] = "core" /\ pc[r] \in Unanswered /\ return(r)
      /\ UNCHANGED <<policy, req, cred, seen, mark, status, won>>
      /\ out' = [out EXCEPT ![r] = Append(out[r], "error")]
  BY DEF StreamBreaks, event, Unanswered
<1>2. won' \in [Reqs -> BOOLEAN] /\ ~won'[r] /\ MaxFrames \in Nat
  BY <1>1, Serving, EntryAssumption DEF TypeInv
<1>3. /\ out[r] \in Seq(Words) /\ Len(out[r]) \in Nat /\ Len(out[r]) <= MaxFrames
      /\ Append(out[r], "error") \in Seq(Words) /\ Len(Append(out[r], "error")) = Len(out[r]) + 1
      /\ \A i \in 1 .. (Len(out[r]) + 1) :
            Append(out[r], "error")[i] = IF i <= Len(out[r]) THEN "frame" ELSE "error"
  BY <1>1, Framed DEF Words
<1>4. out' \in [Reqs -> Seq(Words)] /\ out'[r] = Append(out[r], "error")
  BY <1>1, <1>3 DEF TypeInv
<1>5. Len(out'[r]) <= MaxFrames + 1
  BY <1>2, <1>3, <1>4
<1>6. \A i \in 1 .. Len(out'[r]) : out'[r][i] \in {"frame", "error"}
  BY <1>3, <1>4
<1>7. Told(r)'
  BY <1>2, <1>6 DEF Told
<1>8. status' \in [Reqs -> Statuses] /\ seen' \in [Reqs -> SUBSET {"prompt", "meta", "key"}]
  BY <1>1 DEF TypeInv
<1> QED BY <1>1, <1>2, <1>4, <1>5, <1>7, <1>8, Ending

LEMMA PollKeeps ==
    ASSUME TypeInv, NEW r \in Reqs, ReqInv(r), Poll(r)
    PROVE  Goal(r)
<1>1. /\ pc[r] = "poll" /\ pc[r] \in Unanswered /\ return(r) /\ UNCHANGED <<policy, req, cred, mark>>
      /\ UNCHANGED seen \/ seen' = [seen EXCEPT ![r] = @ \cup {"meta"}]
  BY DEF Poll, Unanswered
<1>2. seen[r] = {} /\ mark'[r] = "sealed" /\ out[r] = << >> /\ won[r] = FALSE
  BY <1>1, Serving
<1>3. /\ seen' \in [Reqs -> SUBSET {"prompt", "meta", "key"}]
      /\ seen'[r] = seen[r] \/ seen'[r] = {"meta"}
  <2>1. CASE UNCHANGED seen
    BY <2>1 DEF TypeInv
  <2>2. CASE seen' = [seen EXCEPT ![r] = @ \cup {"meta"}]
    BY <1>2, <2>2 DEF TypeInv
  <2> QED BY <1>1, <2>1, <2>2
<1>4. CASE UNCHANGED won /\ \E code \in {400, 502} : refuse(r, code)
  <2>1. PICK code \in Statuses : refuse(r, code)
    BY <1>4 DEF Statuses
  <2> QED BY <1>1, <1>2, <1>3, <1>4, <2>1, Refusing
<1>5. ASSUME NEW reply \in PollReplies,
             answer(r, asyncPollAnswer(reply)[1], IF asyncPollAnswer(reply)[2] THEN <<"content">> ELSE << >>),
             won' = [won EXCEPT ![r] = reply.sealed /\ reply.completed /\ reply.opens]
      PROVE  Goal(r)
  <2> DEFINE opened == reply.sealed /\ reply.completed /\ reply.opens
             content == IF asyncPollAnswer(reply)[2] THEN <<"content">> ELSE << >>
  <2>1. /\ asyncPollAnswer(reply)[1] \in Statuses
        /\ asyncPollAnswer(reply)[2] => opened
    BY DEF asyncPollAnswer, Statuses
  <2>2. opened \in BOOLEAN
    OBVIOUS
  <2>3. content \in Seq(Words) /\ (content = << >> \/ (content = <<"content">> /\ opened))
    BY <2>1, Contents
  <2>4. answer(r, asyncPollAnswer(reply)[1], content) /\ won' = [won EXCEPT ![r] = opened]
    BY <1>5
  <2> HIDE DEF opened, content
  <2>5. /\ status' \in [Reqs -> Statuses]
        /\ out' \in [Reqs -> Seq(Words)] /\ out'[r] = content
    BY <1>2, <2>1, <2>3, <2>4, Answered
  <2>6. won' \in [Reqs -> BOOLEAN] /\ won'[r] = opened
    BY <2>2, <2>4 DEF TypeInv
  <2>7. Told(r)' /\ Len(out'[r]) <= MaxFrames + 1
    <3>1. CASE content = << >>
      <4>1. Len(<< >>) = 0 /\ MaxFrames \in Nat /\ out'[r] = << >>
        BY <2>5, <3>1, EntryAssumption
      <4> QED BY <1>2, <4>1 DEF Told
    <3>2. CASE content = <<"content">> /\ opened
      <4>1. /\ out'[r] \in {<< >>, <<"clear">>, <<"content">>}
            /\ (out'[r] = <<"content">> => won'[r]) /\ (won'[r] => mark'[r] = "sealed")
        BY <1>2, <2>5, <2>6, <3>2
      <4> QED BY ONLY <4>1, OnePiece
    <3> QED BY <2>3, <3>1, <3>2
  <2> QED BY <1>1, <1>3, <2>5, <2>6, <2>7, Ending
<1> QED BY <1>4, <1>5 DEF Poll

LEMMA KeylessRelayKeeps ==
    ASSUME TypeInv, NEW r \in Reqs, ReqInv(r), KeylessRelay(r) \/ Relay(r)
    PROVE  Goal(r)
<1>1. /\ pc[r] \in Unanswered /\ pc[r] # "core" /\ return(r)
      /\ UNCHANGED <<policy, req, cred, seen, mark, won>>
  BY DEF KeylessRelay, Relay, Unanswered
<1>2. out[r] = << >> /\ won'[r] = FALSE
  BY <1>1, Serving
<1>3. CASE \E code \in {502} : refuse(r, code)
  <2>1. PICK code \in Statuses : refuse(r, code)
    BY <1>3 DEF Statuses
  <2> QED BY <1>1, <1>2, <2>1, Refusing DEF TypeInv
<1>4. CASE answer(r, 200, <<"clear">>)
  <2>1. /\ status' \in [Reqs -> Statuses]
        /\ out' \in [Reqs -> Seq(Words)] /\ out'[r] = <<"clear">>
    <3>1. 200 \in Statuses /\ <<"clear">> \in Seq(Words)
      BY Contents
    <3> QED
      BY ONLY TypeInv, r \in Reqs, <1>2, <1>4, <3>1, Answered, ZenonT(40)
  <2>2. /\ out'[r] \in {<< >>, <<"clear">>, <<"content">>}
        /\ (out'[r] = <<"content">> => won'[r]) /\ (won'[r] => mark'[r] = "sealed")
    BY <1>2, <2>1
  <2>3. Told(r)' /\ Len(out'[r]) <= MaxFrames + 1
    BY ONLY <2>2, OnePiece
  <2> QED BY <1>1, <2>1, <2>3, Ending DEF TypeInv
<1> QED BY <1>3, <1>4 DEF KeylessRelay, Relay

LEMMA RelayBreaksKeeps ==
    ASSUME TypeInv, NEW r \in Reqs, ReqInv(r), RelayBreaks(r)
    PROVE  Goal(r)
<1>1. /\ pc[r] \in Unanswered /\ pc[r] # "core" /\ answer(r, 200, << >>)
      /\ pc' = [pc EXCEPT ![r] = "aborted"] /\ slots' = slots \ {r} /\ held' = held \ {r}
      /\ UNCHANGED <<policy, req, cred, seen, mark, won, logged>>
  BY DEF RelayBreaks, Unanswered
<1>2. /\ out[r] = << >> /\ won'[r] = FALSE /\ logged'[r] = << >> /\ Len(<< >>) = 0 /\ MaxFrames \in Nat
  BY <1>1, Serving, EntryAssumption
<1>3. /\ status' \in [Reqs -> Statuses]
      /\ out' \in [Reqs -> Seq(Words)] /\ out'[r] = << >>
  <2>1. 200 \in Statuses /\ << >> \in Seq(Words)
    BY Contents
  <2> QED
    BY ONLY TypeInv, r \in Reqs, <1>1, <1>2, <2>1, Answered, ZenonT(40)
<1>4. pc' \in [Reqs -> Steps] /\ pc'[r] = "aborted"
  BY <1>1 DEF TypeInv, Steps
<1>5. TypeInv' /\ SlotStep(r)
  BY <1>1, <1>3, <1>4 DEF TypeInv, SlotStep
<1>6. Stage(r)' /\ Told(r)'
  BY <1>2, <1>3, <1>4 DEF Stage, Told, Unanswered
<1>7. Holds(r)' /\ Secrets(r)'
  BY <1>1, <1>2 DEF Holds, Secrets, ReqInv, Disclosed
<1> QED BY <1>5, <1>6, <1>7 DEF Goal, ReqInv

-----------------------------------------------------------------------------
(* Every step.                                                                *)

LEMMA OwnStep ==
    ASSUME TypeInv, NEW r \in Reqs, ReqInv(r), Arrive(r) \/ Serve(r)
    PROVE  Goal(r)
<1>1. CASE Arrive(r)
  <2>1. PICK q \in mayArrive(r) : AnswerHere(r, q) \/ Gate(r, q) \/ PassThrough(r, q)
    BY <1>1 DEF Arrive
  <2>2. q \in Traffic /\ pc[r] = "idle"
    BY <1>1, <2>1, EntryAssumption DEF Arrive, mayArrive
  <2> QED BY <2>1, <2>2, AnswerHereKeeps, GateKeeps, PassThroughKeeps
<1>2. CASE Serve(r)
  BY <1>2, BodyArrivesKeeps, BodyDeadlineKeeps, CoreFailsKeeps, CoreAnswersKeeps, StreamFrameKeeps,
     StreamEndsKeeps, StreamBreaksKeeps, PollKeeps, KeylessRelayKeeps, RelayBreaksKeeps DEF Serve
<1> QED BY <1>1, <1>2

(* Requests share the policy and the semaphore and nothing else.              *)
LEMMA OthersKept ==
    ASSUME TypeInv, NEW r \in Reqs, NEW s \in Reqs, s # r, Arrive(r) \/ Serve(r)
    PROVE  Kept(s)
<1> USE DEF Kept, TypeInv, return, answer, refuse, event
<1>1. ASSUME NEW q, AnswerHere(r, q) PROVE Kept(s)
  BY <1>1 DEF AnswerHere, arrives
<1>2. ASSUME NEW q, Gate(r, q) PROVE Kept(s)
  BY <1>2 DEF Gate, arrives
<1>3. ASSUME NEW q, PassThrough(r, q) PROVE Kept(s)
  BY <1>3 DEF PassThrough, arrives, forward
<1>4. CASE BodyArrives(r)
  BY <1>4 DEF BodyArrives, forward
<1>5. CASE BodyDeadline(r)
  BY <1>5 DEF BodyDeadline
<1>6. CASE CoreFails(r) \/ CoreAnswers(r)
  BY <1>6 DEF CoreFails, CoreAnswers
<1>7. CASE StreamFrame(r) \/ StreamEnds(r) \/ StreamBreaks(r)
  BY <1>7 DEF StreamFrame, StreamEnds, StreamBreaks
<1>8. CASE Poll(r)
  BY <1>8 DEF Poll
<1>9. CASE KeylessRelay(r) \/ Relay(r) \/ RelayBreaks(r)
  BY <1>9 DEF KeylessRelay, Relay, RelayBreaks
<1> HIDE DEF Kept, TypeInv, return, answer, refuse, event
<1> QED
  BY <1>1, <1>2, <1>3, <1>4, <1>5, <1>6, <1>7, <1>8, <1>9 DEF Arrive, Serve

LEMMA KeptInv ==
    ASSUME NEW s, ReqInv(s), Kept(s)
    PROVE  ReqInv(s)'
<1>1. Stage(s)'
  BY DEF ReqInv, Kept, Stage
<1>2. Holds(s)'
  BY DEF ReqInv, Kept, Holds
<1>3. Secrets(s)'
  BY DEF ReqInv, Kept, Secrets, Disclosed
<1>4. Told(s)'
  BY DEF ReqInv, Kept, Told
<1> QED BY <1>1, <1>2, <1>3, <1>4 DEF ReqInv

(* The semaphore's bound, from the one slot a step may take.                  *)
LEMMA SlotsBounded ==
    ASSUME TypeInv, NEW r \in Reqs, Cardinality(slots) <= MaxInFlight, SlotStep(r)
    PROVE  Cardinality(slots') <= MaxInFlight
<1>1. IsFiniteSet(slots) /\ MaxInFlight \in Nat
  BY FS_Subset, EntryAssumption DEF TypeInv
<1>2. Cardinality(slots) \in Nat
  BY <1>1, FS_CardinalityType
<1>3. CASE slots' \subseteq slots
  <2>1. Cardinality(slots') <= Cardinality(slots) /\ Cardinality(slots') \in Nat
    BY <1>1, <1>3, FS_Subset, FS_CardinalityType
  <2> QED BY <1>1, <1>2, <2>1
<1>4. CASE slots' = slots \cup {r} /\ Cardinality(slots) < MaxInFlight
  <2>1. Cardinality(slots \cup {r}) = IF r \in slots THEN Cardinality(slots) ELSE Cardinality(slots) + 1
    BY <1>1, FS_AddElement
  <2> QED BY <1>1, <1>2, <1>4, <2>1
<1> QED BY <1>3, <1>4 DEF SlotStep

LEMMA InitEntry == Init => EntryInv
<1> SUFFICES ASSUME Init PROVE EntryInv
  OBVIOUS
<1>1. NoRequest \in Traffic
  BY EntryAssumption DEF NoRequest
<1>2. << >> \in Seq(Words) /\ << >> \in Seq(LogLines) /\ Len(<< >>) = 0
  BY Contents
<1>3. TypeInv
  BY <1>1, <1>2 DEF Init, TypeInv, Steps, Creds, Statuses
<1>4. ASSUME NEW r \in Reqs PROVE ReqInv(r)
  <2>1. /\ pc[r] = "idle" /\ cred[r] = "none" /\ seen[r] = {} /\ mark[r] = "absent" /\ won[r] = FALSE
        /\ out[r] = << >> /\ logged[r] = << >> /\ slots = {} /\ held = {}
    BY DEF Init
  <2> QED BY <1>2, <2>1, EntryAssumption DEF ReqInv, Stage, Holds, Secrets, Told, Unanswered
<1>5. Cardinality(slots) <= MaxInFlight
  BY FS_EmptySet, EntryAssumption DEF Init
<1> QED BY <1>3, <1>4, <1>5 DEF EntryInv

LEMMA NextEntry == EntryInv /\ [Next]_vars => EntryInv'
<1> SUFFICES ASSUME EntryInv, [Next]_vars PROVE EntryInv'
  OBVIOUS
<1>1. ASSUME NEW r \in Reqs, Arrive(r) \/ Serve(r) PROVE EntryInv'
  <2>1. Goal(r)
    BY <1>1, OwnStep DEF EntryInv
  <2>2. ASSUME NEW s \in Reqs PROVE ReqInv(s)'
    <3>1. CASE s = r
      BY <2>1, <3>1 DEF Goal
    <3>2. CASE s # r
      <4>1. Kept(s)
        BY <1>1, <3>2, OthersKept DEF EntryInv
      <4> QED BY <4>1, KeptInv DEF EntryInv
    <3> QED BY <3>1, <3>2
  <2>3. Cardinality(slots') <= MaxInFlight
    BY <2>1, SlotsBounded DEF EntryInv, Goal
  <2> QED BY <2>1, <2>2, <2>3 DEF EntryInv, Goal
<1>2. CASE UNCHANGED vars
  BY <1>2 DEF vars, EntryInv, TypeInv, ReqInv, Stage, Holds, Secrets, Told, Disclosed
<1> QED BY <1>1, <1>2 DEF Next

(* The front door keeps its invariant.                                        *)
LEMMA EntryInvariant == Spec => []EntryInv
<1>1. Init => EntryInv
  BY InitEntry
<1>2. EntryInv /\ [Next]_vars => EntryInv'
  BY NextEntry
<1> QED BY <1>1, <1>2, PTL DEF Spec

-----------------------------------------------------------------------------
(* Whatever the spelling of a path, the body, the credential and the order of *)
(* the requests, the router reads a prompt only in the cases the deployment   *)
(* discloses (mux, dispatch, urlFormat), and neither the router nor the log   *)
(* ever shows the key of a job (sealedNamespaceGuard, RedactJobPath).         *)
THEOREM NoSecretLeaves == Spec => []RouterReadsNoSecret
<1>1. EntryInv => RouterReadsNoSecret
  BY DEF EntryInv, ReqInv, Secrets, Disclosed, RouterReadsNoSecret, PromptStaysSealed, KeyStaysHere
<1> QED BY <1>1, EntryInvariant, PTL

(* LimitInFlight's ceiling holds however many requests arrive together; a     *)
(* body is buffered only under a slot, a slot is held only under a credential *)
(* and given back by every way out of the handler, and a cookie counts only   *)
(* from an allowed origin.                                                    *)
THEOREM OnlyAdmittedHeld == Spec => []AdmittedOnly
<1>1. EntryInv => TypeOK
  <2> SUFFICES ASSUME EntryInv PROVE TypeOK
    OBVIOUS
  <2>1. TypeInv /\ \A r \in Reqs : Len(out[r]) <= MaxFrames + 1 /\ Len(logged[r]) <= 1
    BY DEF EntryInv, ReqInv, Stage
  <2>2. req \in [Reqs -> Requests]
    BY <2>1, EntryAssumption DEF TypeInv
  <2> QED BY <2>1, <2>2 DEF TypeInv, TypeOK, Creds, Statuses
<1>2. EntryInv => BufferedInsideCap /\ CookieNeedsOrigin
  BY DEF EntryInv, TypeInv, ReqInv, Holds, BufferedInsideCap, CookieNeedsOrigin, Finished
<1> QED BY <1>1, <1>2, EntryInvariant, PTL DEF AdmittedOnly

(* What the caller reads is true: a prompt the router read is marked "none",  *)
(* an answer opened from an enclave "sealed"; "[DONE]" comes last and only of *)
(* a stream the core accepted; content comes only of an answer that opened.   *)
THEOREM CallerIsToldTheTruth == Spec => []AnswerTruthful
<1>1. EntryInv => MarkerTruthful
  BY DEF EntryInv, ReqInv, Secrets, Told, MarkerTruthful, Finished
<1>2. EntryInv => StreamEndsHonestly
  BY DEF EntryInv, ReqInv, Told, StreamEndsHonestly
<1>3. EntryInv => PollNeverDowngrades
  <2> SUFFICES ASSUME EntryInv, NEW r \in Reqs, NEW i \in 1 .. Len(out[r])
               PROVE  (out[r][i] = "content" => won[r]) /\ out[r][i] # "sealed"
    BY DEF PollNeverDowngrades
  <2>1. out[r] \in Seq(Words)
    BY DEF EntryInv, TypeInv
  <2>2. out[r][i] \in Words
    BY <2>1
  <2> QED BY <2>2 DEF EntryInv, ReqInv, Told, Words
<1> QED BY <1>1, <1>2, <1>3, EntryInvariant, PTL DEF AnswerTruthful

-----------------------------------------------------------------------------
(* The catalog cache.  Its inductive invariant: the types of the records,      *)
(* Flights and Held (what the two maps lead to), and what each client's own    *)
(* record says of the flight it leads, the entry it fills, the entry it waits  *)
(* on and the answer it was handed.                                            *)
AnyAnswer == Answer \cup {NoAnswer}
CatalogPaths == Public \cup Private \cup {"none"}
ClientRec ==
    [pc : CatalogSteps, path : CatalogPaths, accept : Accepts \cup {"absent"},
     entry : Clients \cup {NoClient}, joined : BOOLEAN, arrived : Nat, completed : BOOLEAN,
     overflow : BOOLEAN, rec : AnyAnswer, got : AnyAnswer]
EntryRec == [ready : BOOLEAN, bypass : BOOLEAN, answer : AnyAnswer, expires : Nat]
Flying == {"upstream", "flush", "settle"}

CatalogTypes ==
    /\ now \in 0 .. MaxTime
    /\ cl \in [Clients -> ClientRec] /\ ent \in [Clients -> EntryRec]
    /\ \A k \in DOMAIN inflight : inflight[k] \in Clients
    /\ \A k \in DOMAIN entries : entries[k] \in Clients
    /\ IsFiniteSet(DOMAIN entries) /\ Cardinality(DOMAIN entries) <= MaxEntries

(* A client whose round trip is on its way is the one its key's flight names,  *)
(* and what it has recorded is its own.                                        *)
Leads(c) ==
    /\ cl[c].pc # "idle" => cl[c].path \in Public \cup Private
    /\ cl[c].pc \in Flying =>
          /\ cl[c].path \in Public /\ Key(c) \in DOMAIN inflight /\ inflight[Key(c)] = c
    /\ cl[c].pc \in {"flush", "settle"} =>
          /\ cl[c].rec.owner = c /\ cl[c].rec.path = cl[c].path
          /\ cl[c].rec.gzip => acceptsGzip(cl[c].accept)
    /\ ent[c].ready => cl[c].pc = "done"

(* The entry of e is settled: what it holds changes no more.                   *)
Flown(e) == cl[e].pc = "close" \/ ent[e].ready

(* A settled entry that is not to be bypassed holds a whole answer of its key. *)
Fits(e) ==
    (Flown(e) /\ ~ent[e].bypass) =>
        /\ ent[e].answer.owner = e /\ ent[e].answer.path = cl[e].path
        /\ ent[e].answer.whole /\ ent[e].answer.status # 0
        /\ ent[e].answer.gzip => acceptsGzip(cl[e].accept)

(* What the map of settled entries may hold.                                   *)
Stored(e) == Flown(e) /\ ~ent[e].bypass /\ ent[e].answer.status = 200

Flights == \A k \in DOMAIN inflight : cl[inflight[k]].pc \in Flying /\ Key(inflight[k]) = k
Held == \A k \in DOMAIN entries : Stored(entries[k]) /\ Key(entries[k]) = k

(* A waiter's entry is of the waiter's key and being filled or settled; one    *)
(* found in the map was in date.                                               *)
Awaits(c) ==
    cl[c].pc = "wait" =>
        /\ cl[c].path \in Public
        /\ cl[c].entry \in Clients \ {c} /\ Key(cl[c].entry) = Key(c)
        /\ cl[cl[c].entry].pc \in Flying \/ Flown(cl[c].entry)
        /\ ~cl[c].joined =>
              Stored(cl[c].entry) /\ ent[cl[c].entry].expires > cl[c].arrived

(* What a client was handed that it did not fetch.                             *)
Handed(c) ==
    cl[c].got.owner \notin {c, NoClient} =>
        /\ cl[c].pc = "done" /\ cl[c].path \in Public
        /\ cl[c].got.whole /\ cl[c].got.status # 0 /\ cl[c].got.path = cl[c].path
        /\ cl[c].got.gzip => acceptsGzip(cl[c].accept)
        /\ cl[c].got.status # 200 => cl[c].joined
        /\ ~cl[c].joined => /\ cl[c].entry \in Clients /\ Flown(cl[c].entry)
                            /\ ent[cl[c].entry].expires > cl[c].arrived

(* Inductive, and implies SingleFlight and ReplaySound.                        *)
CatalogInv ==
    /\ CatalogTypes /\ Flights /\ Held
    /\ \A c \in Clients : Leads(c) /\ Fits(c) /\ Awaits(c) /\ Handed(c)

-----------------------------------------------------------------------------
LEMMA CatalogInitOK == CatalogInit => CatalogInv
<1> SUFFICES ASSUME CatalogInit PROVE CatalogInv
  OBVIOUS
<1> USE CatalogAssumption
<1>0. DOMAIN <<>> = {}
  OBVIOUS
<1>1. DOMAIN entries = {} /\ DOMAIN inflight = {}
  BY <1>0 DEF CatalogInit
<1>2. IsFiniteSet({}) /\ Cardinality({}) = 0
  BY FS_EmptySet
<1>3. cl \in [Clients -> ClientRec]
  BY DEF CatalogInit, ClientRec, AnyAnswer, CatalogSteps, CatalogPaths
<1>4. ent \in [Clients -> EntryRec]
  BY DEF CatalogInit, EntryRec, AnyAnswer
<1>5. CatalogTypes
  <2>1. now \in 0 .. MaxTime
    BY DEF CatalogInit
  <2>2. IsFiniteSet(DOMAIN entries) /\ Cardinality(DOMAIN entries) <= MaxEntries
    BY <1>1, <1>2
  <2>3. QED
    BY ONLY <2>1, <2>2, <1>1, <1>3, <1>4 DEF CatalogTypes
<1>6. \A c \in Clients : /\ cl[c].pc = "idle" /\ cl[c].got.owner = NoClient
                         /\ ~ent[c].ready
  BY DEF CatalogInit, NoAnswer
<1>7. QED
  BY <1>1, <1>5, <1>6 DEF CatalogInv, Flights, Held, Leads, Fits, Awaits, Handed, Flown, Flying

(* A step that changes the record of one client, who asks for the same as      *)
(* before, and no entry and no map.                                            *)
ClientMoves(c) ==
    /\ cl' \in [Clients -> ClientRec]
    /\ \A d \in Clients \ {c} : cl'[d] = cl[d]
    /\ cl'[c].path = cl[c].path /\ cl'[c].accept = cl[c].accept
    /\ cl'[c].entry = cl[c].entry /\ cl'[c].joined = cl[c].joined
    /\ cl'[c].arrived = cl[c].arrived
    /\ now' = now /\ inflight' = inflight /\ entries' = entries

LEMMA MovesKeepKeys ==
    ASSUME NEW c \in Clients, ClientMoves(c)
    PROVE  \A d \in Clients : Key(d)' = Key(d)
  BY DEF ClientMoves, Key, keyOf

(* What such a step keeps for everybody, and what is left to show of the one   *)
(* client it moves.                                                            *)
LEMMA MovesKeep ==
    ASSUME CatalogInv, NEW c \in Clients, ClientMoves(c), ent' = ent,
           cl[c].pc \notin {"idle", "close", "done"} \cup Flying
              \/ (cl[c].pc \in Flying /\ cl'[c].pc \in Flying),
           cl'[c].pc \notin {"idle", "close", "wait"},
           cl'[c].pc \in Flying => cl[c].pc \in Flying,
           Leads(c)', Handed(c)'
    PROVE  CatalogInv'
<1>1. CatalogTypes'
  BY DEF CatalogInv, CatalogTypes, ClientMoves
<1>2. \A d \in Clients : Key(d)' = Key(d)
  BY MovesKeepKeys
<1>3. ~Flown(c)
  BY DEF CatalogInv, Leads, Flown, Flying
<1>4. \A d \in Clients \ {c} : (Flown(d)' <=> Flown(d)) /\ (Stored(d)' <=> Stored(d))
  BY DEF Flown, Stored, ClientMoves
<1>5. ~Flown(c)'
  BY <1>3 DEF Flown
<1>6. Flights'
  BY <1>2 DEF CatalogInv, CatalogTypes, Flights, ClientMoves, Flying
<1>7. Held'
  BY <1>2, <1>3, <1>4 DEF CatalogInv, CatalogTypes, Held, ClientMoves, Stored
<1>8. ASSUME NEW d \in Clients \ {c} PROVE Leads(d)' /\ Fits(d)'
  BY <1>2, <1>4, <1>8 DEF CatalogInv, Leads, Fits, ClientMoves, Flying
<1>9. Fits(c)'
  BY <1>5 DEF Fits
<1>10. ASSUME NEW d \in Clients \ {c} PROVE Awaits(d)'
  <2>1. Awaits(d) /\ cl'[d] = cl[d]
    BY <1>10 DEF CatalogInv, ClientMoves
  <2>2. QED
    BY <1>2, <1>3, <1>4, <2>1 DEF Awaits, Stored, ClientMoves
<1>11. Awaits(c)'
  BY DEF Awaits, Flying
<1>12. ASSUME NEW d \in Clients \ {c} PROVE Handed(d)'
  <2>1. Handed(d) /\ cl'[d] = cl[d]
    BY <1>12 DEF CatalogInv, ClientMoves
  <2>2. QED
    BY <1>3, <1>4, <2>1 DEF Handed
<1>13. QED
  BY <1>1, <1>6, <1>7, <1>8, <1>9, <1>10, <1>11, <1>12 DEF CatalogInv

LEMMA ReplyTyped ==
    ASSUME NEW c \in Clients, cl[c].path \in Public \cup Private,
           NEW code \in {0, 200, 502}, NEW whole \in BOOLEAN, NEW gzip \in BOOLEAN
    PROVE  /\ replyTo(c, code, whole, gzip) \in Answer
           /\ replyTo(c, code, whole, gzip).owner = c
           /\ replyTo(c, code, whole, gzip).path = cl[c].path
           /\ replyTo(c, code, whole, gzip).gzip => acceptsGzip(cl[c].accept)
  BY DEF replyTo, Answer, acceptsGzip

LEMMA Recorded ==
    ASSUME CatalogTypes, NEW c \in Clients, NEW body, NEW a \in AnyAnswer, NEW to \in CatalogSteps,
           cl' = [cl EXCEPT ![c].rec = a, ![c].overflow = body = "over", ![c].pc = to]
    PROVE  /\ cl' \in [Clients -> ClientRec] /\ \A d \in Clients \ {c} : cl'[d] = cl[d]
           /\ cl'[c].pc = to /\ cl'[c].rec = a /\ cl'[c].got = cl[c].got
           /\ cl'[c].path = cl[c].path /\ cl'[c].accept = cl[c].accept
           /\ cl'[c].entry = cl[c].entry /\ cl'[c].joined = cl[c].joined
           /\ cl'[c].arrived = cl[c].arrived
<1> DEFINE r == [cl[c] EXCEPT !.rec = a, !.overflow = body = "over", !.pc = to]
<1>1. cl \in [Clients -> ClientRec] /\ cl[c] \in ClientRec
  BY DEF CatalogTypes
<1>2. r \in ClientRec
  BY <1>1 DEF ClientRec
<1>3. cl' = [cl EXCEPT ![c] = r]
  BY <1>1
<1>4. /\ r.pc = to /\ r.rec = a /\ r.got = cl[c].got
      /\ r.path = cl[c].path /\ r.accept = cl[c].accept
      /\ r.entry = cl[c].entry /\ r.joined = cl[c].joined /\ r.arrived = cl[c].arrived
  BY <1>1 DEF ClientRec
<1> HIDE DEF r
<1>5. cl' \in [Clients -> ClientRec] /\ cl'[c] = r
  <2>1. cl \in [Clients -> ClientRec]
    BY <1>1
  <2> QED
    BY <1>2, <1>3, <2>1, ZenonT(40)
<1>6. \A d \in Clients \ {c} : cl'[d] = cl[d]
  BY <1>1, <1>3
<1>7. QED
  BY <1>4, <1>5, <1>6

LEMMA UpstreamStep ==
    ASSUME CatalogInv, NEW c \in Clients, NEW code \in {0, 200, 502},
           NEW body \in {"whole", "short", "over"}, NEW panics \in BOOLEAN, NEW gzip \in BOOLEAN,
           Upstream(c, code, body, panics, gzip)
    PROVE  CatalogInv'
<1> DEFINE whole == body # "short" /\ code # 0
           to    == IF panics THEN "settle" ELSE "flush"
           a     == replyTo(c, code, whole, gzip)
<1>1. CatalogTypes /\ Leads(c) /\ Handed(c)
  BY DEF CatalogInv
<1>2. cl[c].pc = "upstream" /\ cl[c].path \in Public
  BY <1>1 DEF Upstream, Leads, Flying
<1>3. whole \in BOOLEAN /\ to \in {"settle", "flush"}
  OBVIOUS
<1>4. /\ cl' = [cl EXCEPT ![c].rec = a, ![c].overflow = body = "over", ![c].pc = to]
      /\ UNCHANGED <<now, inflight, entries, ent>>
  BY DEF Upstream
<1> HIDE DEF whole, to
<1>5. /\ a \in Answer /\ a.owner = c /\ a.path = cl[c].path
      /\ a.gzip => acceptsGzip(cl[c].accept)
  BY <1>2, <1>3, ReplyTyped
<1> HIDE DEF a
<1>6. a \in AnyAnswer /\ to \in CatalogSteps
  BY <1>3, <1>5 DEF AnyAnswer, CatalogSteps
<1>7. /\ cl' \in [Clients -> ClientRec] /\ \A d \in Clients \ {c} : cl'[d] = cl[d]
      /\ cl'[c].pc = to /\ cl'[c].rec = a /\ cl'[c].got = cl[c].got
      /\ cl'[c].path = cl[c].path /\ cl'[c].accept = cl[c].accept
      /\ cl'[c].entry = cl[c].entry /\ cl'[c].joined = cl[c].joined
      /\ cl'[c].arrived = cl[c].arrived
  BY <1>1, <1>4, <1>6, Recorded, ZenonT(40)
<1>8. ClientMoves(c) /\ ent' = ent
  BY <1>4, <1>7 DEF ClientMoves
<1>9. Key(c)' = Key(c)
  BY <1>8, MovesKeepKeys
<1>10. Leads(c)'
  BY <1>1, <1>2, <1>3, <1>4, <1>5, <1>7, <1>9 DEF Leads, Flying
<1>11. Handed(c)'
  BY <1>1, <1>2, <1>7 DEF Handed
<1>12. QED
  BY <1>2, <1>3, <1>7, <1>8, <1>10, <1>11, MovesKeep DEF Flying

LEMMA FlushStep ==
    ASSUME CatalogInv, NEW c \in Clients, Flush(c)
    PROVE  CatalogInv'
<1>1. cl[c] \in ClientRec /\ cl \in [Clients -> ClientRec] /\ Leads(c) /\ Handed(c)
  BY DEF CatalogInv, CatalogTypes
<1>2. /\ cl' = [cl EXCEPT ![c] = [cl[c] EXCEPT !.pc = "settle", !.completed = TRUE]]
      /\ UNCHANGED <<now, inflight, entries, ent>> /\ cl[c].pc = "flush"
  BY <1>1 DEF Flush
<1>3. [cl[c] EXCEPT !.pc = "settle", !.completed = TRUE] \in ClientRec
  BY <1>1 DEF ClientRec, CatalogSteps
<1>4. /\ cl' \in [Clients -> ClientRec] /\ \A d \in Clients \ {c} : cl'[d] = cl[d]
      /\ cl'[c] = [cl[c] EXCEPT !.pc = "settle", !.completed = TRUE]
  BY ONLY <1>1, <1>2, <1>3, c \in Clients
<1>5. /\ cl'[c].pc = "settle" /\ cl'[c].rec = cl[c].rec /\ cl'[c].got = cl[c].got
      /\ cl'[c].path = cl[c].path /\ cl'[c].accept = cl[c].accept
      /\ cl'[c].entry = cl[c].entry /\ cl'[c].joined = cl[c].joined
      /\ cl'[c].arrived = cl[c].arrived
  BY <1>1, <1>4 DEF ClientRec
<1>6. ClientMoves(c) /\ ent' = ent
  BY <1>2, <1>4, <1>5 DEF ClientMoves
<1>7. Key(c)' = Key(c)
  BY <1>6, MovesKeepKeys
<1>8. Leads(c)'
  BY <1>1, <1>2, <1>5, <1>7 DEF Leads, Flying
<1>9. Handed(c)'
  BY <1>1, <1>2, <1>5 DEF Handed
<1>10. QED
  BY <1>2, <1>5, <1>6, <1>8, <1>9, MovesKeep DEF Flying

(* A waiter leaves, or asks the router itself.                                 *)
LEMMA WaiterGoesOn ==
    ASSUME CatalogInv, NEW c \in Clients, cl[c].pc \in {"wait", "direct"},
           NEW to \in {"direct", "left"}, cl' = [cl EXCEPT ![c].pc = to],
           UNCHANGED <<now, inflight, entries, ent>>
    PROVE  CatalogInv'
<1>1. cl[c] \in ClientRec /\ cl \in [Clients -> ClientRec] /\ Leads(c) /\ Handed(c)
  BY DEF CatalogInv, CatalogTypes
<1>2. cl' = [cl EXCEPT ![c] = [cl[c] EXCEPT !.pc = to]]
  BY <1>1
<1>3. [cl[c] EXCEPT !.pc = to] \in ClientRec
  BY <1>1 DEF ClientRec, CatalogSteps
<1>4. /\ cl' \in [Clients -> ClientRec] /\ \A d \in Clients \ {c} : cl'[d] = cl[d]
      /\ cl'[c] = [cl[c] EXCEPT !.pc = to]
  BY ONLY <1>1, <1>2, <1>3, c \in Clients
<1>5. /\ cl'[c].pc = to /\ cl'[c].got = cl[c].got
      /\ cl'[c].path = cl[c].path /\ cl'[c].accept = cl[c].accept
      /\ cl'[c].entry = cl[c].entry /\ cl'[c].joined = cl[c].joined
      /\ cl'[c].arrived = cl[c].arrived
  BY <1>1, <1>4 DEF ClientRec
<1>6. ClientMoves(c) /\ ent' = ent
  BY <1>4, <1>5 DEF ClientMoves
<1>7. Leads(c)'
  BY <1>1, <1>5 DEF Leads, Flying
<1>8. Handed(c)'
  BY <1>1, <1>5 DEF Handed
<1>9. QED
  BY <1>5, <1>6, <1>7, <1>8, MovesKeep DEF Flying

(* A client is answered, by the router or from an entry.                       *)
LEMMA ClientAnswered ==
    ASSUME CatalogInv, NEW c \in Clients, cl[c].pc \in {"wait", "direct"},
           NEW a \in AnyAnswer, cl' = [cl EXCEPT ![c].pc = "done", ![c].got = a],
           UNCHANGED <<now, inflight, entries, ent>>,
           a.owner \notin {c, NoClient} =>
              /\ cl[c].path \in Public
              /\ a.whole /\ a.status # 0 /\ a.path = cl[c].path
              /\ a.gzip => acceptsGzip(cl[c].accept)
              /\ a.status # 200 => cl[c].joined
              /\ ~cl[c].joined => /\ cl[c].entry \in Clients \ {c} /\ Flown(cl[c].entry)
                                  /\ ent[cl[c].entry].expires > cl[c].arrived
    PROVE  CatalogInv'
<1>1. cl[c] \in ClientRec /\ cl \in [Clients -> ClientRec] /\ Leads(c) /\ Handed(c)
  BY DEF CatalogInv, CatalogTypes
<1>2. cl' = [cl EXCEPT ![c] = [cl[c] EXCEPT !.pc = "done", !.got = a]]
  BY <1>1
<1>3. [cl[c] EXCEPT !.pc = "done", !.got = a] \in ClientRec
  BY <1>1 DEF ClientRec, CatalogSteps
<1>4. /\ cl' \in [Clients -> ClientRec] /\ \A d \in Clients \ {c} : cl'[d] = cl[d]
      /\ cl'[c] = [cl[c] EXCEPT !.pc = "done", !.got = a]
  BY ONLY <1>1, <1>2, <1>3, c \in Clients
<1>5. /\ cl'[c].pc = "done" /\ cl'[c].got = a
      /\ cl'[c].path = cl[c].path /\ cl'[c].accept = cl[c].accept
      /\ cl'[c].entry = cl[c].entry /\ cl'[c].joined = cl[c].joined
      /\ cl'[c].arrived = cl[c].arrived
  BY <1>1, <1>4 DEF ClientRec
<1>6. ClientMoves(c) /\ ent' = ent
  BY <1>4, <1>5 DEF ClientMoves
<1>7. Leads(c)'
  BY <1>1, <1>5 DEF Leads, Flying
<1>8. Handed(c)'
  BY <1>4, <1>5 DEF Handed, Flown
<1>9. QED
  BY <1>5, <1>6, <1>7, <1>8, MovesKeep DEF Flying

LEMMA WaiterServedStep ==
    ASSUME CatalogInv, NEW c \in Clients, WaiterServed(c)
    PROVE  CatalogInv'
<1> DEFINE e == cl[c].entry
           a == ent[e].answer
<1>1. /\ CatalogTypes /\ Awaits(c) /\ cl[c].pc = "wait" /\ ent[e].ready
      /\ UNCHANGED <<now, inflight, entries, ent>>
  BY DEF CatalogInv, WaiterServed
<1>2. /\ e \in Clients \ {c} /\ Key(e) = Key(c) /\ Flown(e) /\ cl[c].path \in Public
      /\ ~cl[c].joined => Stored(e) /\ ent[e].expires > cl[c].arrived
  BY <1>1 DEF Awaits, Flown
<1>3. cl[e].path = cl[c].path /\ acceptsGzip(cl[e].accept) = acceptsGzip(cl[c].accept)
  BY <1>2 DEF Key, keyOf
<1>4. cl \in [Clients -> ClientRec] /\ cl[c] \in ClientRec /\ a \in AnyAnswer
  BY <1>1, <1>2 DEF CatalogTypes, EntryRec
<1>5. CASE ent[e].bypass
  <2>1. cl' = [cl EXCEPT ![c].pc = "direct"]
    BY <1>4, <1>5 DEF WaiterServed, ClientRec
  <2>2. QED
    BY <1>1, <2>1, WaiterGoesOn
<1>6. CASE ~ent[e].bypass
  <2>1. cl' = [cl EXCEPT ![c].pc = "done", ![c].got = a]
    BY <1>6 DEF WaiterServed
  <2>2. Fits(e)
    BY <1>2 DEF CatalogInv
  <2>3. /\ a.whole /\ a.status # 0 /\ a.path = cl[c].path
        /\ a.gzip => acceptsGzip(cl[c].accept)
    BY <1>2, <1>3, <1>6, <2>2 DEF Fits
  <2>4. a.status # 200 => cl[c].joined
    BY <1>2, <1>4 DEF Stored, ClientRec
  <2> HIDE DEF a
  <2>5. QED
    BY <1>1, <1>2, <1>4, <2>1, <2>3, <2>4, ClientAnswered
<1>7. QED
  BY <1>5, <1>6

LEMMA DirectStep ==
    ASSUME CatalogInv, NEW c \in Clients, Direct(c)
    PROVE  CatalogInv'
<1> DEFINE a == replyTo(c, 200, TRUE, FALSE)
<1>1. /\ cl[c].pc = "direct" /\ cl' = [cl EXCEPT ![c].pc = "done", ![c].got = a]
      /\ UNCHANGED <<now, inflight, entries, ent>>
  BY DEF Direct
<1>2. cl[c].path \in Public \cup Private
  BY <1>1 DEF CatalogInv, Leads
<1>3. a \in Answer /\ a.owner = c
  BY <1>2 DEF replyTo, Answer
<1> HIDE DEF a
<1>4. a \in AnyAnswer
  BY <1>3 DEF AnyAnswer
<1>5. QED
  BY <1>1, <1>3, <1>4, ClientAnswered

LEMMA LeaveStep ==
    ASSUME CatalogInv, NEW c \in Clients, Leave(c)
    PROVE  CatalogInv'
  BY WaiterGoesOn DEF Leave

LEMMA TickStep ==
    ASSUME CatalogInv, Tick
    PROVE  CatalogInv'
<1>1. now' \in 0 .. MaxTime /\ UNCHANGED <<inflight, entries, ent, cl>>
  BY CatalogAssumption DEF CatalogInv, CatalogTypes, Tick
<1>2. \A c \in Clients : Key(c)' = Key(c)
  BY <1>1 DEF Key, keyOf
<1>3. CatalogTypes' /\ Flights' /\ Held'
  BY <1>1, <1>2 DEF CatalogInv, CatalogTypes, Flights, Held, Stored, Flown
<1>4. \A c \in Clients : Leads(c)' /\ Fits(c)' /\ Awaits(c)' /\ Handed(c)'
  BY <1>1, <1>2 DEF CatalogInv, Leads, Fits, Awaits, Handed, Stored, Flown
<1>5. QED
  BY <1>3, <1>4 DEF CatalogInv

LEMMA CloseStep ==
    ASSUME CatalogInv, NEW c \in Clients, Close(c)
    PROVE  CatalogInv'
<1>1. /\ cl \in [Clients -> ClientRec] /\ cl[c] \in ClientRec /\ ent \in [Clients -> EntryRec]
      /\ ent[c] \in EntryRec /\ Leads(c) /\ Handed(c)
  BY DEF CatalogInv, CatalogTypes
<1>2. /\ cl' = [cl EXCEPT ![c] = [cl[c] EXCEPT !.pc = "done", !.completed = FALSE]]
      /\ ent' = [ent EXCEPT ![c] = [ent[c] EXCEPT !.ready = TRUE]]
      /\ UNCHANGED <<now, inflight, entries>> /\ cl[c].pc = "close"
  BY <1>1 DEF Close
<1>3. [cl[c] EXCEPT !.pc = "done", !.completed = FALSE] \in ClientRec
  BY <1>1 DEF ClientRec, CatalogSteps
<1>4. [ent[c] EXCEPT !.ready = TRUE] \in EntryRec
  BY <1>1 DEF EntryRec
<1>5. /\ cl' \in [Clients -> ClientRec] /\ \A d \in Clients \ {c} : cl'[d] = cl[d]
      /\ cl'[c] = [cl[c] EXCEPT !.pc = "done", !.completed = FALSE]
  BY ONLY <1>1, <1>2, <1>3, c \in Clients
<1>6. /\ ent' \in [Clients -> EntryRec] /\ \A d \in Clients \ {c} : ent'[d] = ent[d]
      /\ ent'[c] = [ent[c] EXCEPT !.ready = TRUE]
  BY ONLY <1>1, <1>2, <1>4, c \in Clients
<1>7. /\ cl'[c].pc = "done" /\ cl'[c].got = cl[c].got
      /\ cl'[c].path = cl[c].path /\ cl'[c].accept = cl[c].accept
      /\ cl'[c].entry = cl[c].entry /\ cl'[c].joined = cl[c].joined
      /\ cl'[c].arrived = cl[c].arrived
  BY <1>1, <1>5 DEF ClientRec
<1>8. /\ ent'[c].ready /\ ent'[c].bypass = ent[c].bypass /\ ent'[c].answer = ent[c].answer
      /\ ent'[c].expires = ent[c].expires
  BY <1>1, <1>6 DEF EntryRec
<1>9. CatalogTypes'
  BY <1>2, <1>5, <1>6 DEF CatalogInv, CatalogTypes
<1>10. ClientMoves(c)
  BY <1>2, <1>5, <1>7 DEF ClientMoves
<1>11. \A d \in Clients : Key(d)' = Key(d)
  BY <1>10, MovesKeepKeys
<1>12. \A d \in Clients : (Flown(d)' <=> Flown(d)) /\ (Stored(d)' <=> Stored(d))
  BY <1>2, <1>5, <1>6, <1>7, <1>8 DEF Flown, Stored
<1>13. \A d \in Clients : ent'[d].expires = ent[d].expires
  BY <1>6, <1>8
<1>14. Flights' /\ Held'
  BY <1>2, <1>5, <1>11, <1>12 DEF CatalogInv, CatalogTypes, Flights, Held, Flying
<1>15. ASSUME NEW d \in Clients PROVE Leads(d)' /\ Fits(d)'
  <2>1. CASE d = c
    BY <1>1, <1>2, <1>7, <1>8, <1>12, <2>1 DEF CatalogInv, Leads, Fits, Flying
  <2>2. CASE d # c
    BY <1>2, <1>5, <1>6, <1>11, <1>12, <2>2 DEF CatalogInv, Leads, Fits, Flying
  <2>3. QED
    BY <2>1, <2>2
<1>16. ASSUME NEW d \in Clients PROVE Awaits(d)'
  <2>1. CASE d = c
    BY <1>7, <2>1 DEF Awaits
  <2>2. CASE d # c
    <3>1. Awaits(d) /\ cl'[d] = cl[d]
      BY <1>5, <2>2 DEF CatalogInv
    <3>2. QED
      BY <1>2, <1>5, <1>11, <1>12, <1>13, <3>1 DEF Awaits, Flying
  <2>3. QED
    BY <2>1, <2>2
<1>17. ASSUME NEW d \in Clients PROVE Handed(d)'
  <2>1. CASE d = c
    BY <1>1, <1>2, <1>7, <2>1 DEF Handed
  <2>2. CASE d # c
    <3>1. Handed(d) /\ cl'[d] = cl[d]
      BY <1>5, <2>2 DEF CatalogInv
    <3>2. QED
      BY <1>12, <1>13, <3>1 DEF Handed
  <2>3. QED
    BY <2>1, <2>2
<1>18. QED
  BY <1>9, <1>14, <1>15, <1>16, <1>17 DEF CatalogInv

(* What settle makes of the leader's entry and of the map of settled entries.  *)
LEMMA SettledMap ==
    ASSUME CatalogTypes, NEW c \in Clients, Settle(c)
    PROVE  /\ IsFiniteSet(DOMAIN entries') /\ Cardinality(DOMAIN entries') <= MaxEntries
           /\ \A k \in DOMAIN entries' :
                 \/ k \in DOMAIN entries /\ entries'[k] = entries[k]
                 \/ k = Key(c) /\ entries'[k] = c /\ keeps(c)
           /\ \A k \in DOMAIN inflight' :
                 k \in DOMAIN inflight \ {Key(c)} /\ inflight'[k] = inflight[k]
           /\ DOMAIN inflight' = DOMAIN inflight \ {Key(c)}
<1> DEFINE key == Key(c)
<1>1. IsFiniteSet(DOMAIN entries) /\ Cardinality(DOMAIN entries) <= MaxEntries
  BY DEF CatalogTypes
<1>2. DOMAIN swept \subseteq DOMAIN entries /\ \A k \in DOMAIN swept : swept[k] = entries[k]
  BY DEF swept, Restrict
<1>3. IsFiniteSet(DOMAIN swept) /\ Cardinality(DOMAIN swept) <= Cardinality(DOMAIN entries)
  BY <1>1, <1>2, FS_Subset
<1>4. Cardinality(DOMAIN swept) \in Nat /\ Cardinality(DOMAIN entries) \in Nat
  BY <1>1, <1>3, FS_CardinalityType
<1>5. /\ IsFiniteSet(DOMAIN swept \cup {key})
      /\ Cardinality(DOMAIN swept \cup {key}) \in {Cardinality(DOMAIN swept), Cardinality(DOMAIN swept) + 1}
  BY <1>3, FS_AddElement
<1>6. /\ DOMAIN inflight' = DOMAIN inflight \ {key}
      /\ \A k \in DOMAIN inflight' : inflight'[k] = inflight[k]
  BY DEF Settle, Restrict
<1>7. CASE ~keeps(c)
  <2>1. entries' = entries
    BY <1>7 DEF Settle
  <2>2. QED
    BY <1>1, <1>6, <2>1
<1>8. CASE keeps(c) /\ roomIn(swept)
  <2>1. entries' = [k \in DOMAIN swept \cup {key} |-> IF k = key THEN c ELSE swept[k]]
    BY <1>8 DEF Settle
  <2>2. Cardinality(DOMAIN swept \cup {key}) <= MaxEntries
    BY <1>4, <1>5, <1>8, CatalogAssumption DEF roomIn
  <2>3. DOMAIN entries' = DOMAIN swept \cup {key}
    BY <2>1
  <2>4. \A k \in DOMAIN entries' : entries'[k] = IF k = key THEN c ELSE swept[k]
    BY <2>1
  <2> HIDE DEF key
  <2>5. \A k \in DOMAIN entries' : \/ k \in DOMAIN entries /\ entries'[k] = entries[k]
                                   \/ k = key /\ entries'[k] = c
    BY <1>2, <2>3, <2>4
  <2>6. IsFiniteSet(DOMAIN entries') /\ Cardinality(DOMAIN entries') <= MaxEntries
    BY <1>5, <2>2, <2>3
  <2>7. QED
    BY <1>6, <1>8, <2>5, <2>6 DEF key
<1>9. CASE keeps(c) /\ ~roomIn(swept)
  <2>1. entries' = swept
    BY <1>9 DEF Settle
  <2>2. QED
    BY <1>1, <1>2, <1>3, <1>4, <1>6, <2>1, CatalogAssumption
<1>10. QED
  BY <1>7, <1>8, <1>9

LEMMA SettledEntry ==
    ASSUME CatalogTypes, NEW c \in Clients, Settle(c)
    PROVE  /\ ent' \in [Clients -> EntryRec] /\ \A d \in Clients \ {c} : ent'[d] = ent[d]
           /\ ent'[c].ready = ent[c].ready /\ ent'[c].bypass = ~replayable(c)
           /\ replayable(c) => ent'[c].answer = cl[c].rec
<1> DEFINE kept == keeps(c) /\ roomIn(swept)
           a == IF replayable(c) THEN cl[c].rec ELSE ent[c].answer
           x == IF kept THEN now + TTL ELSE ent[c].expires
           r == [ent[c] EXCEPT !.bypass = ~replayable(c), !.answer = a, !.expires = x]
<1>1. /\ ent \in [Clients -> EntryRec] /\ ent[c] \in EntryRec /\ cl[c] \in ClientRec
      /\ now \in Nat
  BY CatalogAssumption DEF CatalogTypes
<1>2. cl[c].rec \in AnyAnswer /\ ent[c].answer \in AnyAnswer /\ ent[c].expires \in Nat
  BY <1>1 DEF ClientRec, EntryRec
<1>3. a \in AnyAnswer /\ x \in Nat
  BY <1>1, <1>2, CatalogAssumption
<1>4. ent' = [ent EXCEPT ![c] = r]
  BY <1>1 DEF Settle
<1>5. replayable(c) => a = cl[c].rec
  OBVIOUS
<1> HIDE DEF a, x
<1>6. r \in EntryRec
  BY <1>1, <1>3 DEF EntryRec
<1>7. r.ready = ent[c].ready /\ r.bypass = ~replayable(c) /\ r.answer = a
  BY <1>1 DEF EntryRec
<1> HIDE DEF r
<1>8. QED
  BY <1>1, <1>4, <1>5, <1>6, <1>7

LEMMA SettleStep ==
    ASSUME CatalogInv, NEW c \in Clients, Settle(c)
    PROVE  CatalogInv'
<1>1. /\ CatalogTypes /\ Leads(c) /\ Handed(c) /\ cl[c].pc = "settle" /\ now' = now
      /\ cl \in [Clients -> ClientRec] /\ cl[c] \in ClientRec
  BY DEF CatalogInv, CatalogTypes, Settle
<1>2. cl' = [cl EXCEPT ![c] = [cl[c] EXCEPT !.pc = "close", !.rec = NoAnswer, !.overflow = FALSE]]
  BY <1>1 DEF Settle
<1>3. [cl[c] EXCEPT !.pc = "close", !.rec = NoAnswer, !.overflow = FALSE] \in ClientRec
  BY <1>1 DEF ClientRec, CatalogSteps, AnyAnswer
<1>4. /\ cl' \in [Clients -> ClientRec] /\ \A d \in Clients \ {c} : cl'[d] = cl[d]
      /\ cl'[c] = [cl[c] EXCEPT !.pc = "close", !.rec = NoAnswer, !.overflow = FALSE]
  BY ONLY <1>1, <1>2, <1>3, c \in Clients
<1>5. /\ cl'[c].pc = "close" /\ cl'[c].got = cl[c].got
      /\ cl'[c].path = cl[c].path /\ cl'[c].accept = cl[c].accept
      /\ cl'[c].entry = cl[c].entry /\ cl'[c].joined = cl[c].joined
      /\ cl'[c].arrived = cl[c].arrived
  BY <1>1, <1>4 DEF ClientRec
<1>6. \A d \in Clients : Key(d)' = Key(d)
  BY <1>4, <1>5 DEF Key, keyOf
<1>7. /\ ent' \in [Clients -> EntryRec] /\ \A d \in Clients \ {c} : ent'[d] = ent[d]
      /\ ent'[c].ready = ent[c].ready /\ ent'[c].bypass = ~replayable(c)
      /\ replayable(c) => ent'[c].answer = cl[c].rec
  BY <1>1, SettledEntry
<1>8. /\ IsFiniteSet(DOMAIN entries') /\ Cardinality(DOMAIN entries') <= MaxEntries
      /\ \A k \in DOMAIN entries' :
            \/ k \in DOMAIN entries /\ entries'[k] = entries[k]
            \/ k = Key(c) /\ entries'[k] = c /\ keeps(c)
      /\ \A k \in DOMAIN inflight' :
            k \in DOMAIN inflight \ {Key(c)} /\ inflight'[k] = inflight[k]
      /\ DOMAIN inflight' = DOMAIN inflight \ {Key(c)}
  BY <1>1, SettledMap
<1>9. CatalogTypes'
  BY <1>1, <1>4, <1>7, <1>8 DEF CatalogTypes
<1>10. ~Flown(c) /\ ~ent[c].ready
  BY <1>1 DEF Leads, Flown
<1>11. \A d \in Clients \ {c} : (Flown(d)' <=> Flown(d)) /\ (Stored(d)' <=> Stored(d))
  BY <1>4, <1>7 DEF Flown, Stored
<1>12. keeps(c) => Stored(c)'
  BY <1>5, <1>7 DEF keeps, Stored, Flown
<1>13. inflight[Key(c)] = c
  BY <1>1 DEF Leads, Flying
<1>14. Flights'
  BY <1>4, <1>6, <1>8, <1>13 DEF CatalogInv, CatalogTypes, Flights
<1>15. Held'
  <2>1. ASSUME NEW k \in DOMAIN entries', NEW e, e = entries'[k] PROVE Stored(e)' /\ Key(e)' = k
    <3>1. CASE k \in DOMAIN entries /\ entries'[k] = entries[k]
      <4>1. Stored(e) /\ Key(e) = k /\ e \in Clients
        BY <2>1, <3>1 DEF CatalogInv, CatalogTypes, Held
      <4>2. e # c
        BY <1>10, <4>1 DEF Stored
      <4>3. QED
        BY <1>6, <1>11, <4>1, <4>2
    <3>2. CASE k = Key(c) /\ entries'[k] = c /\ keeps(c)
      BY <1>6, <1>12, <2>1, <3>2
    <3>3. QED
      BY <1>8, <3>1, <3>2
  <2>2. QED
    BY <2>1 DEF Held, Stored, Flown, Key
<1>16. ASSUME NEW d \in Clients PROVE Leads(d)'
  <2>1. CASE d = c
    BY <1>1, <1>5, <1>7, <1>10, <2>1 DEF Leads, Flying
  <2>2. CASE d # c
    <3>1. Leads(d) /\ cl'[d] = cl[d] /\ ent'[d] = ent[d] /\ Key(d)' = Key(d)
      BY <1>4, <1>6, <1>7, <2>2 DEF CatalogInv
    <3>2. cl[d].pc \in Flying => Key(d) # Key(c)
      BY <1>13, <2>2, <3>1 DEF Leads
    <3>3. QED
      BY <1>8, <3>1, <3>2 DEF Leads
  <2>3. QED
    BY <2>1, <2>2
<1>17. ASSUME NEW d \in Clients PROVE Fits(d)'
  <2>1. CASE d = c
    <3>1. CASE replayable(c)
      BY <1>1, <1>5, <1>7, <2>1, <3>1 DEF Leads, Fits, replayable, Flying
    <3>2. CASE ~replayable(c)
      BY <1>7, <2>1, <3>2 DEF Fits
    <3>3. QED
      BY <3>1, <3>2
  <2>2. CASE d # c
    BY <1>4, <1>7, <1>11, <2>2 DEF CatalogInv, Fits
  <2>3. QED
    BY <2>1, <2>2
<1>18. ASSUME NEW d \in Clients PROVE Awaits(d)'
  <2>1. CASE d = c
    BY <1>5, <2>1 DEF Awaits
  <2>2. CASE d # c
    <3>1. Awaits(d) /\ cl'[d] = cl[d]
      BY <1>4, <2>2 DEF CatalogInv
    <3>2. Flown(c)'
      BY <1>5 DEF Flown
    <3>3. QED
      BY <1>4, <1>6, <1>7, <1>10, <1>11, <3>1, <3>2 DEF Awaits, Stored
  <2>3. QED
    BY <2>1, <2>2
<1>19. ASSUME NEW d \in Clients PROVE Handed(d)'
  <2>1. CASE d = c
    BY <1>1, <1>5, <2>1 DEF Handed
  <2>2. CASE d # c
    <3>1. Handed(d) /\ cl'[d] = cl[d]
      BY <1>4, <2>2 DEF CatalogInv
    <3>2. QED
      BY <1>7, <1>10, <1>11, <3>1 DEF Handed
  <2>3. QED
    BY <2>1, <2>2
<1>20. QED
  BY <1>9, <1>14, <1>15, <1>16, <1>17, <1>18, <1>19 DEF CatalogInv

(* A request arrives.  Nothing refers to a client that has not asked yet, so    *)
(* only its own record and what it adds to the flights are left to show.       *)
LEMMA ArrivalKeeps ==
    ASSUME CatalogInv, NEW c \in Clients, cl[c].pc = "idle", ent' = ent, CatalogTypes',
           \A d \in Clients \ {c} : cl'[d] = cl[d],
           cl'[c].pc \in {"direct", "upstream", "wait"}, cl'[c].got = cl[c].got,
           \A k \in DOMAIN entries' : k \in DOMAIN entries /\ entries'[k] = entries[k],
           \A k \in DOMAIN inflight : k \in DOMAIN inflight' /\ inflight'[k] = inflight[k],
           \A k \in DOMAIN inflight' :
              \/ k \in DOMAIN inflight
              \/ inflight'[k] = c /\ k = Key(c)' /\ cl'[c].pc = "upstream",
           Leads(c)', Awaits(c)'
    PROVE  CatalogInv'
<1>1. /\ Leads(c) /\ Handed(c) /\ ~Flown(c) /\ ~ent[c].ready /\ ~Stored(c)
  BY DEF CatalogInv, Leads, Flown, Stored
<1>2. \A d \in Clients \ {c} : /\ Key(d)' = Key(d) /\ (Flown(d)' <=> Flown(d))
                               /\ (Stored(d)' <=> Stored(d))
  BY DEF Key, Flown, Stored
<1>3. ~Flown(c)'
  BY <1>1 DEF Flown
<1>4. Flights'
  <2>1. ASSUME NEW k \in DOMAIN inflight', NEW e, e = inflight'[k]
        PROVE  cl'[e].pc \in Flying /\ Key(e)' = k
    <3>1. CASE k \in DOMAIN inflight
      <4>1. cl[e].pc \in Flying /\ Key(e) = k /\ e \in Clients
        BY <2>1, <3>1 DEF CatalogInv, CatalogTypes, Flights
      <4>2. QED
        BY <1>2, <4>1 DEF Flying
    <3>2. CASE inflight'[k] = c /\ k = Key(c)' /\ cl'[c].pc = "upstream"
      BY <2>1, <3>2 DEF Flying
    <3>3. QED
      BY <3>1, <3>2
  <2>2. QED
    BY <2>1 DEF Flights, Key
<1>5. Held'
  <2>1. ASSUME NEW k \in DOMAIN entries', NEW e, e = entries'[k] PROVE Stored(e)' /\ Key(e)' = k
    <3>1. Stored(e) /\ Key(e) = k /\ e \in Clients
      BY <2>1 DEF CatalogInv, CatalogTypes, Held
    <3>2. QED
      BY <1>1, <1>2, <3>1
  <2>2. QED
    BY <2>1 DEF Held, Stored, Flown, Key
<1>6. ASSUME NEW d \in Clients \ {c} PROVE Leads(d)' /\ Fits(d)'
  BY <1>2, <1>6 DEF CatalogInv, Leads, Fits
<1>7. Fits(c)'
  BY <1>3 DEF Fits
<1>8. ASSUME NEW d \in Clients \ {c} PROVE Awaits(d)'
  <2>1. Awaits(d) /\ cl'[d] = cl[d]
    BY <1>8 DEF CatalogInv
  <2>2. QED
    BY <1>1, <1>2, <2>1 DEF Awaits, Flying
<1>9. ASSUME NEW d \in Clients PROVE Handed(d)'
  <2>1. CASE d = c
    BY <1>1, <2>1 DEF Handed
  <2>2. CASE d # c
    <3>1. Handed(d) /\ cl'[d] = cl[d]
      BY <2>2 DEF CatalogInv
    <3>2. QED
      BY <1>1, <1>2, <3>1 DEF Handed
  <2>3. QED
    BY <2>1, <2>2
<1>10. QED
  BY <1>4, <1>5, <1>6, <1>7, <1>8, <1>9 DEF CatalogInv

LEMMA WrapStep ==
    ASSUME CatalogInv, NEW c \in Clients, NEW path \in Public \cup Private,
           NEW accept \in Accepts, wrap(c, path, accept)
    PROVE  CatalogInv'
<1> DEFINE key == keyOf(path, accept)
<1>1. /\ CatalogTypes /\ cl[c].pc = "idle" /\ now' = now /\ ent' = ent /\ ~Flown(c)
      /\ cl \in [Clients -> ClientRec] /\ cl[c] \in ClientRec /\ now \in Nat
  BY CatalogAssumption DEF CatalogInv, CatalogTypes, wrap, Leads, Flown
<1>2. CASE ~cacheable(path)
  <2>1. /\ cl' = [cl EXCEPT ![c] = [cl[c] EXCEPT !.path = path, !.accept = accept, !.pc = "direct"]]
        /\ inflight' = inflight /\ entries' = entries
    BY <1>2 DEF wrap
  <2>2. [cl[c] EXCEPT !.path = path, !.accept = accept, !.pc = "direct"] \in ClientRec
    BY <1>1 DEF ClientRec, CatalogPaths, CatalogSteps
  <2>3. /\ cl' \in [Clients -> ClientRec] /\ \A d \in Clients \ {c} : cl'[d] = cl[d]
        /\ cl'[c] = [cl[c] EXCEPT !.path = path, !.accept = accept, !.pc = "direct"]
    BY ONLY <1>1, <2>1, <2>2, c \in Clients
  <2>4. cl'[c].pc = "direct" /\ cl'[c].got = cl[c].got /\ cl'[c].path = path
    BY <1>1, <2>3 DEF ClientRec
  <2>5. CatalogTypes'
    BY <1>1, <2>1, <2>3 DEF CatalogTypes
  <2>6. Leads(c)' /\ Awaits(c)'
    BY <1>1, <2>4 DEF Leads, Awaits, Flying, Flown
  <2>7. QED
    BY <1>1, <2>1, <2>3, <2>4, <2>5, <2>6, ArrivalKeeps
<1>3. CASE cacheable(path) /\ key \in DOMAIN inflight
  <2>0. PICK e \in Clients : e = inflight[key]
    BY <1>1, <1>3 DEF CatalogTypes
  <2>1. cl[e].pc \in Flying /\ Key(e) = key
    BY <1>3, <2>0 DEF CatalogInv, Flights
  <2>2. e # c
    BY <1>1, <2>1 DEF Flying
  <2>3. /\ cl' = [cl EXCEPT ![c] = [cl[c] EXCEPT !.path = path, !.accept = accept, !.pc = "wait",
                                                 !.entry = e, !.joined = TRUE, !.arrived = 0]]
        /\ inflight' = inflight /\ entries' = entries
    BY <1>3, <2>0, <2>2 DEF wrap, acquire
  <2>4. /\ cl' \in [Clients -> ClientRec] /\ \A d \in Clients \ {c} : cl'[d] = cl[d]
        /\ cl'[c].pc = "wait" /\ cl'[c].got = cl[c].got /\ cl'[c].path = path
        /\ cl'[c].accept = accept /\ cl'[c].entry = e /\ cl'[c].joined = TRUE
    <3>1. cl'[c] = [cl[c] EXCEPT !.path = path, !.accept = accept, !.pc = "wait",
                           !.entry = e, !.joined = TRUE, !.arrived = 0]
      BY <1>1, <2>3
    <3>2. [cl[c] EXCEPT !.path = path, !.accept = accept, !.pc = "wait",
                           !.entry = e, !.joined = TRUE, !.arrived = 0] \in ClientRec
      BY <1>1 DEF ClientRec, CatalogPaths, CatalogSteps
    <3>3. cl' \in [Clients -> ClientRec] /\ \A d \in Clients \ {c} : cl'[d] = cl[d]
      BY <1>1, <2>3, <3>1, <3>2
    <3>4. QED
      BY <1>1, <3>1, <3>3 DEF ClientRec
  <2>5. CatalogTypes'
    BY <1>1, <2>3, <2>4 DEF CatalogTypes
  <2>6. Key(c)' = key /\ Key(e)' = Key(e)
    BY <2>1, <2>2, <2>4 DEF Key
  <2>7. path \in Public
    BY <1>3 DEF cacheable
  <2>8. Leads(c)' /\ Awaits(c)'
    BY <1>1, <2>1, <2>2, <2>4, <2>6, <2>7 DEF Leads, Awaits, Flying, Flown
  <2>9. QED
    BY <1>1, <2>3, <2>4, <2>5, <2>8, ArrivalKeeps
<1>4. CASE /\ cacheable(path) /\ key \notin DOMAIN inflight
           /\ key \in DOMAIN entries /\ fresh(entries[key])
  <2>0. PICK e \in Clients : e = entries[key]
    BY <1>1, <1>4 DEF CatalogTypes
  <2>1. Stored(e) /\ Key(e) = key /\ ent[e].expires > now
    BY <1>1, <1>4, <2>0 DEF CatalogInv, CatalogTypes, Held, fresh, EntryRec
  <2>2. e # c
    BY <1>1, <2>1 DEF Stored
  <2>3. /\ cl' = [cl EXCEPT ![c] = [cl[c] EXCEPT !.path = path, !.accept = accept, !.pc = "wait",
                                                 !.entry = e, !.joined = FALSE, !.arrived = now]]
        /\ inflight' = inflight /\ entries' = entries
    BY <1>4, <2>0, <2>2 DEF wrap, acquire
  <2>4. /\ cl' \in [Clients -> ClientRec] /\ \A d \in Clients \ {c} : cl'[d] = cl[d]
        /\ cl'[c].pc = "wait" /\ cl'[c].got = cl[c].got /\ cl'[c].path = path
        /\ cl'[c].accept = accept /\ cl'[c].entry = e /\ cl'[c].joined = FALSE
        /\ cl'[c].arrived = now
    <3>1. cl'[c] = [cl[c] EXCEPT !.path = path, !.accept = accept, !.pc = "wait",
                           !.entry = e, !.joined = FALSE, !.arrived = now]
      BY <1>1, <2>3
    <3>2. [cl[c] EXCEPT !.path = path, !.accept = accept, !.pc = "wait",
                           !.entry = e, !.joined = FALSE, !.arrived = now] \in ClientRec
      BY <1>1 DEF ClientRec, CatalogPaths, CatalogSteps
    <3>3. cl' \in [Clients -> ClientRec] /\ \A d \in Clients \ {c} : cl'[d] = cl[d]
      BY <1>1, <2>3, <3>1, <3>2
    <3>4. QED
      BY <1>1, <3>1, <3>3 DEF ClientRec
  <2>5. CatalogTypes'
    BY <1>1, <2>3, <2>4 DEF CatalogTypes
  <2>6. Key(c)' = key /\ Key(e)' = Key(e) /\ Stored(e)' /\ Flown(e)'
    BY <1>1, <2>1, <2>2, <2>4 DEF Key, Stored, Flown
  <2>7. path \in Public
    BY <1>4 DEF cacheable
  <2>8. Leads(c)' /\ Awaits(c)'
    BY <1>1, <2>1, <2>2, <2>4, <2>6, <2>7 DEF Leads, Awaits, Flying, Flown
  <2>9. QED
    BY <1>1, <2>3, <2>4, <2>5, <2>8, ArrivalKeeps
<1>5. CASE /\ cacheable(path) /\ key \notin DOMAIN inflight
           /\ ~(key \in DOMAIN entries /\ fresh(entries[key]))
  <2>1. acquire(key, c) = [e  |-> c,
                           fl |-> [k \in DOMAIN inflight \cup {key} |->
                                      IF k = key THEN c ELSE inflight[k]],
                           en |-> Restrict(entries, DOMAIN entries \ {key})]
    BY <1>5 DEF acquire
  <2>2. /\ cl' = [cl EXCEPT ![c] = [cl[c] EXCEPT !.path = path, !.accept = accept, !.pc = "upstream",
                                                 !.entry = c, !.joined = FALSE, !.arrived = 0]]
        /\ inflight' = [k \in DOMAIN inflight \cup {key} |-> IF k = key THEN c ELSE inflight[k]]
        /\ entries' = Restrict(entries, DOMAIN entries \ {key})
    <3> DEFINE a == acquire(key, c)
    <3>1. /\ a.e = c /\ a.en = Restrict(entries, DOMAIN entries \ {key})
          /\ a.fl = [k \in DOMAIN inflight \cup {key} |-> IF k = key THEN c ELSE inflight[k]]
      BY <2>1
    <3>2. /\ cl' = [cl EXCEPT ![c] =
                      [[cl[c] EXCEPT !.path = path, !.accept = accept]
                          EXCEPT !.pc = IF a.e = c THEN "upstream" ELSE "wait",
                                 !.entry = a.e, !.joined = ~(a.e = c) /\ ~(~(a.e = c) /\ key \notin DOMAIN inflight),
                                 !.arrived = IF ~(a.e = c) /\ key \notin DOMAIN inflight THEN now ELSE 0]]
          /\ inflight' = a.fl /\ entries' = a.en
      BY <1>5 DEF wrap
    <3> HIDE DEF a, key
    <3>3. QED
      BY <3>1, <3>2
  <2>3. /\ cl' \in [Clients -> ClientRec] /\ \A d \in Clients \ {c} : cl'[d] = cl[d]
        /\ cl'[c].pc = "upstream" /\ cl'[c].got = cl[c].got /\ cl'[c].path = path
        /\ cl'[c].accept = accept
    <3>1. cl'[c] = [cl[c] EXCEPT !.path = path, !.accept = accept, !.pc = "upstream",
                           !.entry = c, !.joined = FALSE, !.arrived = 0]
      BY <1>1, <2>2
    <3>2. [cl[c] EXCEPT !.path = path, !.accept = accept, !.pc = "upstream",
                           !.entry = c, !.joined = FALSE, !.arrived = 0] \in ClientRec
      BY <1>1 DEF ClientRec, CatalogPaths, CatalogSteps
    <3>3. cl' \in [Clients -> ClientRec] /\ \A d \in Clients \ {c} : cl'[d] = cl[d]
      BY <1>1, <2>2, <3>1, <3>2
    <3>4. QED
      BY <1>1, <3>1, <3>3 DEF ClientRec
  <2>4. Key(c)' = key
    BY <2>3 DEF Key
  <2> HIDE DEF key
  <2>5. /\ DOMAIN inflight' = DOMAIN inflight \cup {key} /\ inflight'[key] = c
        /\ \A k \in DOMAIN inflight : inflight'[k] = inflight[k]
    BY <1>5, <2>2
  <2>6. /\ DOMAIN entries' = DOMAIN entries \ {key}
        /\ \A k \in DOMAIN entries' : entries'[k] = entries[k]
    BY <2>2 DEF Restrict
  <2>7. IsFiniteSet(DOMAIN entries) /\ Cardinality(DOMAIN entries) <= MaxEntries
    BY <1>1 DEF CatalogTypes
  <2>8. /\ IsFiniteSet(DOMAIN entries')
        /\ Cardinality(DOMAIN entries') <= Cardinality(DOMAIN entries)
    BY <2>6, <2>7, FS_Subset
  <2>9. Cardinality(DOMAIN entries') \in Nat /\ Cardinality(DOMAIN entries) \in Nat
    BY <2>7, <2>8, FS_CardinalityType
  <2>10. Cardinality(DOMAIN entries') <= MaxEntries
    BY <2>7, <2>8, <2>9, CatalogAssumption
  <2>11. CatalogTypes'
    BY <1>1, <2>3, <2>5, <2>6, <2>8, <2>10 DEF CatalogTypes
  <2>12. path \in Public
    BY <1>5 DEF cacheable
  <2>13. Leads(c)' /\ Awaits(c)'
    BY <1>1, <2>3, <2>4, <2>5, <2>12 DEF Leads, Awaits, Flying, Flown
  <2>14. QED
    BY <1>1, <2>3, <2>4, <2>5, <2>6, <2>11, <2>13, ArrivalKeeps
<1>6. QED
  BY <1>2, <1>3, <1>4, <1>5

LEMMA CatalogStep == CatalogInv /\ [CatalogNext]_catalogVars => CatalogInv'
<1> SUFFICES ASSUME CatalogInv, [CatalogNext]_catalogVars PROVE CatalogInv'
  OBVIOUS
<1>1. CASE Tick
  BY <1>1, TickStep
<1>2. ASSUME NEW c \in Clients,
             \E path \in Public \cup Private, accept \in Accepts : wrap(c, path, accept)
      PROVE  CatalogInv'
  BY <1>2, WrapStep
<1>3. ASSUME NEW c \in Clients,
             \E code \in {0, 200, 502}, body \in {"whole", "short", "over"},
                panics, gzip \in BOOLEAN : Upstream(c, code, body, panics, gzip)
      PROVE  CatalogInv'
  BY <1>3, UpstreamStep
<1>4. ASSUME NEW c \in Clients,
             Settle(c) \/ Close(c) \/ Flush(c) \/ ReaderStep(c) \/ Leave(c)
      PROVE  CatalogInv'
  BY <1>4, SettleStep, CloseStep, FlushStep, WaiterServedStep, DirectStep, LeaveStep DEF ReaderStep
<1>5. CASE UNCHANGED catalogVars
  <2>1. now' = now /\ inflight' = inflight /\ entries' = entries /\ ent' = ent /\ cl' = cl
    BY <1>5 DEF catalogVars
  <2>2. \A c \in Clients : Key(c)' = Key(c)
    BY <2>1 DEF Key, keyOf
  <2>3. CatalogTypes' /\ Flights' /\ Held'
    BY <2>1, <2>2 DEF CatalogInv, CatalogTypes, Flights, Held, Stored, Flown
  <2>4. \A c \in Clients : Leads(c)' /\ Fits(c)' /\ Awaits(c)' /\ Handed(c)'
    BY <2>1, <2>2 DEF CatalogInv, Leads, Fits, Awaits, Handed, Stored, Flown
  <2>5. QED
    BY <2>3, <2>4 DEF CatalogInv
<1>6. QED
  BY <1>1, <1>2, <1>3, <1>4, <1>5 DEF CatalogNext, LeaderStep

LEMMA CatalogInvHolds == CatalogSpec => []CatalogInv
  BY CatalogInitOK, CatalogStep, PTL DEF CatalogSpec

(* Whatever the requests, their interleaving and what the router answers, each *)
(* key has one request upstream at a time: acquire joins the flight a key has, *)
(* and only settle, which ends the flight's round trip, removes it.  The map   *)
(* of settled entries never outgrows catalogCacheMaxEntries, while the flights *)
(* are not capped by it.                                                       *)
THEOREM SingleFlightHolds == CatalogSpec => []SingleFlight
<1>1. CatalogInv => SingleFlight
  <2> SUFFICES ASSUME CatalogInv PROVE SingleFlight
    OBVIOUS
  <2>1. CatalogTypeOK
    <3>1. Range(inflight) \subseteq Clients /\ Range(entries) \subseteq Clients
      BY DEF CatalogInv, CatalogTypes, Range
    <3>2. ASSUME NEW c \in Clients
          PROVE  /\ cl[c].pc \in CatalogSteps /\ cl[c].got \in AnyAnswer
                 /\ cl[c].pc = "wait" => cl[c].entry \in Clients
                 /\ ent[c].answer \in AnyAnswer
      BY <3>2 DEF CatalogInv, CatalogTypes, Awaits, ClientRec, EntryRec
    <3>3. now \in 0 .. MaxTime /\ Cardinality(DOMAIN entries) <= MaxEntries
      BY DEF CatalogInv, CatalogTypes
    <3>4. QED
      BY <3>1, <3>2, <3>3 DEF CatalogTypeOK, AnyAnswer
  <2>2. ASSUME NEW c \in Clients, NEW d \in Clients, c # d, cl[c].pc \in Flying, cl[d].pc \in Flying
        PROVE  Key(c) # Key(d)
    BY <2>2 DEF CatalogInv, Leads
  <2>3. QED
    BY <2>1, <2>2 DEF SingleFlight, Flying
<1>2. QED
  BY <1>1, CatalogInvHolds, PTL

(* A client is handed an answer it did not fetch only when that answer is      *)
(* whole, of its own path and in a coding it takes, public, in date when it    *)
(* arrived, and an error only if it was waiting while the error was fetched.   *)
THEOREM ReplaySoundHolds == CatalogSpec => []ReplaySound
<1>1. CatalogInv => ReplaySound
  <2> SUFFICES ASSUME CatalogInv PROVE ReplaySound
    OBVIOUS
  <2>1. \A c \in Clients : Handed(c) /\ cl[c] \in ClientRec
    BY DEF CatalogInv, CatalogTypes
  <2>2. ReplayFits
    BY <2>1 DEF ReplayFits, Replayed, Handed, acceptsGzip
  <2>3. ReplayIsFresh
    BY <2>1 DEF ReplayIsFresh, Replayed, Handed
  <2>4. ErrorsNotPinned
    BY <2>1 DEF ErrorsNotPinned, Replayed, Handed
  <2>5. PrivateNeverShared
    BY <2>1, CatalogAssumption DEF PrivateNeverShared, Handed
  <2>6. QED
    BY <2>2, <2>3, <2>4, <2>5 DEF ReplaySound
<1>2. QED
  BY <1>1, CatalogInvHolds, PTL

-----------------------------------------------------------------------------
(* The release appraisal of a gateway (pcverify -gateway).  Its inductive      *)
(* invariant: World, what the sites serve and what a renewal under way has      *)
(* written of it, and RunInv, what the run in progress holds of what it         *)
(* fetched, has found and reported.                                             *)
Certs == [site : Sites, key : 0 .. 1, n : Nat]
Manifests == [wellFormed : {TRUE}, entries : [acct : Sites, cert : Certs]]
Quotes == [genuine : {TRUE}, site : Sites, binds : Manifests]
Bundles == [acct : Sites, cert : Certs, manifest : Manifests, quote : Quotes]

(* What a site's files say of whose they are.  The interceptor may have had   *)
(* its own CVM quote a certificate that is a replica's.                       *)
Signed(s) ==
    /\ served[s].site = s /\ files[s].acct = s /\ files[s].quote.site = s
    /\ s \in Replicas =>
          /\ files[s].cert.site = s /\ files[s].manifest.entries.cert.site = s
          /\ files[s].quote.binds.entries.cert.site = s

(* The files of a replica under renewal, by the step the renewal is at.       *)
Renewing ==
    LET s == renewal.site IN
    /\ renewal \in [site : Replicas, step : {"manifest", "quote", "reload"}, cert : Certs]
    /\ renewal.cert.site = s /\ files[s].cert = renewal.cert
    /\ renewal.step \in {"quote", "reload"} => files[s].manifest = manifestOf(s, renewal.cert)
    /\ renewal.step = "reload" => files[s].quote = quote(s, manifestOf(s, renewal.cert))

(* Outside a renewal a replica publishes the bundle of what it serves.        *)
World ==
    /\ dep \in Deployments /\ renewed \in 0 .. MaxRenewals
    /\ served \in [Sites -> Certs] /\ files \in [Sites -> Bundles]
    /\ \A s \in Sites : Signed(s)
    /\ renewal = NoRenewal \/ Renewing
    /\ \A s \in Replicas : s # renewal.site => files[s] = bundle(s, served[s])

FetchRec ==
    [pc : {"manifest", "acct", "cert", "quote"}, exit : {9}, conn : Sites \cup {empty},
     chains : Seq(Certs), manifest : Manifests \cup {None}, filesOK : BOOLEAN,
     cert : Certs \cup {NotFetched, None}, undisturbed : BOOLEAN]

(* A run that fetches: the last connection showed the certificate of the site  *)
(* it leads to, and a run nothing disturbed has one replica's bundle.          *)
Fetching ==
    /\ run \in FetchRec
    /\ run.conn # empty => run.chains # <<>> /\ run.chains[Len(run.chains)].site = run.conn
    /\ run.pc # "manifest" => run.conn # empty /\ run.manifest \in Manifests
    /\ run.pc = "quote" /\ run.filesOK =>
          run.cert # NotFetched /\ run.manifest.entries.cert = run.cert
    /\ run.undisturbed => run.filesOK
    /\ run.undisturbed /\ run.pc # "manifest" =>
          /\ run.conn \in Replicas /\ Len(run.chains) = 1
          /\ run.manifest = manifestOf(run.conn, run.chains[1])
          /\ run.pc = "quote" => run.cert = run.chains[1]

(* What the first five steps may have found.                                   *)
Judged(rep) ==
    /\ rep.filesOK /\ rep.quoteOK /\ rep.bound /\ rep.certMatch = "exact" =>
          /\ rep.leaf \in Certs /\ rep.site = rep.leaf.site /\ rep.seen = {rep.leaf}
          /\ rep.trustErr \/ trusted(rep.leaf)
Calm(rep) ==
    /\ rep.filesOK /\ rep.quoteOK /\ rep.bound /\ rep.certMatch = "exact"
    /\ rep.leaf \in Certs /\ rep.leaf.site \in Replicas /\ rep.site = rep.leaf.site
    /\ rep.trustErr => ~trusted(rep.leaf)

Reporting ==
    /\ run = [pc |-> "report", exit |-> 9, undisturbed |-> run.undisturbed, rep |-> run.rep]
    /\ Judged(run.rep) /\ (run.undisturbed => Calm(run.rep))

(* The verdict.                                                                *)
Verdict == run.exit \in {0, 1, 2, 3} /\ PassIsEarned /\ NoFalseAlarm

RunInv ==
    \/ run = NotRun
    \/ Fetching
    \/ run.pc = "report" /\ Reporting
    \/ run.pc = "done" /\ Verdict

(* Inductive, and implies PassIsEarned and NoFalseAlarm.                       *)
EvidenceInv == World /\ RunInv

-----------------------------------------------------------------------------
LEMMA EvidenceConstants ==
    Interceptor \notin Replicas /\ empty \notin Sites /\ MaxRenewals \in Nat
  BY EvidenceAssumption

(* What the constructors of certificates, manifests and bundles make.          *)
LEMMA CertMade ==
    ASSUME NEW s \in Sites, NEW key \in 0 .. 1, NEW n \in Nat
    PROVE  cert(s, key, n) \in Certs /\ cert(s, key, n).site = s
  BY DEF cert, Certs

LEMMA ManifestMade ==
    ASSUME NEW s \in Sites, NEW c \in Certs
    PROVE  /\ manifestOf(s, c) \in Manifests /\ manifestOf(s, c).entries.cert = c
           /\ manifestOf(s, c).entries.acct = s
  BY DEF manifestOf, Manifests

LEMMA QuoteMade ==
    ASSUME NEW s \in Sites, NEW m \in Manifests
    PROVE  /\ quote(s, m) \in Quotes /\ quote(s, m).site = s /\ quote(s, m).binds = m
           /\ quote(s, m).genuine
  BY DEF quote, Quotes

LEMMA BundleMade ==
    ASSUME NEW s \in Sites, NEW c \in Certs
    PROVE  /\ bundle(s, c) \in Bundles /\ bundle(s, c).acct = s /\ bundle(s, c).cert = c
           /\ bundle(s, c).manifest = manifestOf(s, c)
           /\ bundle(s, c).quote = quote(s, manifestOf(s, c))
<1>1. manifestOf(s, c) \in Manifests
  BY ManifestMade
<1>2. quote(s, manifestOf(s, c)) \in Quotes
  BY <1>1, QuoteMade
<1>3. QED
  BY <1>1, <1>2 DEF bundle, Bundles

LEMMA EvidenceInitOK == EvidenceInit => EvidenceInv
<1> SUFFICES ASSUME EvidenceInit PROVE EvidenceInv
  OBVIOUS
<1> USE EvidenceConstants
<1>1. \A s \in Sites : served[s] \in Certs /\ served[s].site = s
  BY CertMade DEF EvidenceInit
<1>2. served \in [Sites -> Certs]
  BY <1>1 DEF EvidenceInit
<1>3. PICK c \in Certs :
        files = [s \in Sites |-> bundle(s, IF s = Interceptor THEN c ELSE served[s])]
  BY <1>1 DEF EvidenceInit
<1>4. \A s \in Replicas : s \in Sites /\ s # Interceptor /\ files[s] = bundle(s, served[s])
  BY <1>3 DEF Sites
<1>5. ASSUME NEW s \in Sites PROVE files[s] \in Bundles /\ Signed(s)
  <2>1. PICK d \in Certs : files[s] = bundle(s, d) /\ (s \in Replicas => d = served[s])
    BY <1>1, <1>3, <1>4
  <2>2. /\ files[s] \in Bundles /\ files[s].acct = s /\ files[s].cert = d
        /\ files[s].manifest = manifestOf(s, d) /\ files[s].quote = quote(s, manifestOf(s, d))
    BY <2>1, BundleMade
  <2>3. /\ manifestOf(s, d) \in Manifests /\ manifestOf(s, d).entries.cert = d
        /\ quote(s, manifestOf(s, d)).site = s
        /\ quote(s, manifestOf(s, d)).binds = manifestOf(s, d)
    BY ManifestMade, QuoteMade
  <2>4. QED
    BY <1>1, <2>1, <2>2, <2>3 DEF Signed
<1>6. files \in [Sites -> Bundles]
  BY <1>3, <1>5
<1>7. dep \in Deployments /\ renewal = NoRenewal /\ renewed \in 0 .. MaxRenewals /\ run = NotRun
  BY DEF EvidenceInit
<1>8. QED
  BY <1>2, <1>4, <1>5, <1>6, <1>7 DEF EvidenceInv, World, RunInv

LEMMA RenewKeeps ==
    ASSUME World, NEW s \in Replicas, NEW key \in 0 .. 1, Renew(s, key)
    PROVE  World'
<1> USE EvidenceConstants
<1> DEFINE c == cert(s, key, renewed + 1)
           b == [files[s] EXCEPT !.cert = c]
<1>1. s \in Sites /\ files[s] \in Bundles /\ files \in [Sites -> Bundles] /\ Signed(s)
  BY DEF World, Sites
<1>2. /\ renewal = NoRenewal /\ dep' = dep /\ served' = served
      /\ renewal' = [site |-> s, step |-> "manifest", cert |-> c]
      /\ renewed' = renewed + 1 /\ renewed' \in 0 .. MaxRenewals
  BY DEF World, Renew
<1>3. c \in Certs /\ c.site = s
  BY <1>1, CertMade DEF World
<1>4. files' = [files EXCEPT ![s] = b]
  BY <1>1, <1>2 DEF Renew
<1> HIDE DEF c
<1>5. /\ b \in Bundles /\ b.cert = c /\ b.acct = files[s].acct /\ b.manifest = files[s].manifest
      /\ b.quote = files[s].quote
  BY <1>1, <1>3 DEF Bundles
<1> HIDE DEF b
<1>6. /\ files' \in [Sites -> Bundles] /\ files'[s] = b
      /\ \A x \in Sites \ {s} : files'[x] = files[x]
  BY <1>1, <1>4, <1>5
<1>7. Signed(s)'
  BY <1>1, <1>2, <1>3, <1>5, <1>6 DEF Signed
<1>8. \A x \in Sites \ {s} : Signed(x)'
  BY <1>2, <1>6 DEF World, Signed
<1>9. Renewing'
  BY <1>2, <1>3, <1>5, <1>6 DEF Renewing
<1>10. \A x \in Replicas : x # renewal'.site => files'[x] = bundle(x, served'[x])
  BY <1>2, <1>6 DEF World, NoRenewal, Sites
<1>11. QED
  BY <1>2, <1>6, <1>7, <1>8, <1>9, <1>10 DEF World, bundle

LEMMA RenewalKeeps ==
    ASSUME World, RenewalStep
    PROVE  World'
<1> USE EvidenceConstants
<1>0. PICK s \in Replicas : s = renewal.site
  BY DEF World, RenewalStep, Renewing
<1> DEFINE c == renewal.cert
           m == manifestOf(s, c)
<1>1. /\ s \in Sites /\ files[s] \in Bundles /\ files \in [Sites -> Bundles] /\ Signed(s)
      /\ served \in [Sites -> Certs]
      /\ renewal \in [site : Replicas, step : {"manifest", "quote", "reload"}, cert : Certs]
      /\ c \in Certs /\ c.site = s /\ files[s].cert = c /\ dep' = dep /\ renewed' = renewed
      /\ Renewing
  BY <1>0 DEF World, Sites, RenewalStep, Renewing
<1>2. m \in Manifests /\ m.entries.cert = c
  BY <1>1, ManifestMade
<1>3. CASE renewal.step = "manifest"
  <2> DEFINE b == [files[s] EXCEPT !.manifest = m]
  <2>1. /\ files' = [files EXCEPT ![s] = b] /\ served' = served
        /\ renewal' = [renewal EXCEPT !.step = "quote"]
    BY <1>0, <1>1, <1>3 DEF RenewalStep, Signed
  <2> HIDE DEF m
  <2>2. /\ b \in Bundles /\ b.cert = c /\ b.acct = files[s].acct /\ b.manifest = m
        /\ b.quote = files[s].quote
    BY <1>1, <1>2 DEF Bundles
  <2> HIDE DEF b
  <2>3. /\ files' \in [Sites -> Bundles] /\ files'[s] = b
        /\ \A x \in Sites \ {s} : files'[x] = files[x]
    BY <1>1, <2>1, <2>2
  <2>4. /\ renewal' \in [site : Replicas, step : {"manifest", "quote", "reload"}, cert : Certs]
        /\ renewal'.site = s /\ renewal'.step = "quote" /\ renewal'.cert = c
    BY <1>0, <1>1, <2>1
  <2>5. \A x \in Sites : Signed(x)'
    BY <1>1, <1>2, <2>1, <2>2, <2>3 DEF World, Signed
  <2>6. Renewing'
    BY <1>1, <2>2, <2>3, <2>4 DEF Renewing, m, manifestOf
  <2>7. \A x \in Replicas : x # renewal'.site => files'[x] = bundle(x, served'[x])
    BY <1>0, <2>1, <2>3, <2>4 DEF World, Sites
  <2>8. QED
    BY <1>1, <2>1, <2>3, <2>5, <2>6, <2>7 DEF World, bundle
<1>4. CASE renewal.step = "quote"
  <2> DEFINE b == [files[s] EXCEPT !.quote = quote(s, m)]
  <2>0. files[s].manifest = m
    BY <1>0, <1>1, <1>4 DEF Renewing
  <2>1. /\ files' = [files EXCEPT ![s] = b] /\ served' = served
        /\ renewal' = [renewal EXCEPT !.step = "reload"]
    BY <1>0, <1>1, <1>4, <2>0 DEF RenewalStep
  <2>a. /\ quote(s, m) \in Quotes /\ quote(s, m).site = s /\ quote(s, m).binds = m
    BY <1>1, <1>2, QuoteMade
  <2> HIDE DEF m
  <2>2. /\ b \in Bundles /\ b.cert = c /\ b.acct = files[s].acct /\ b.manifest = m
        /\ b.quote = quote(s, m)
    BY <1>1, <1>2, <2>0, <2>a DEF Bundles
  <2> HIDE DEF b
  <2>3. /\ files' \in [Sites -> Bundles] /\ files'[s] = b
        /\ \A x \in Sites \ {s} : files'[x] = files[x]
    BY <1>1, <2>1, <2>2
  <2>4. /\ renewal' \in [site : Replicas, step : {"manifest", "quote", "reload"}, cert : Certs]
        /\ renewal'.site = s /\ renewal'.step = "reload" /\ renewal'.cert = c
    BY <1>0, <1>1, <2>1
  <2>5. \A x \in Sites : Signed(x)'
    BY <1>1, <1>2, <2>1, <2>a, <2>2, <2>3 DEF World, Signed
  <2>6. Renewing'
    BY <1>1, <2>2, <2>3, <2>4 DEF Renewing, m, manifestOf, quote
  <2>7. \A x \in Replicas : x # renewal'.site => files'[x] = bundle(x, served'[x])
    BY <1>0, <2>1, <2>3, <2>4 DEF World, Sites
  <2>8. QED
    BY <1>1, <2>1, <2>3, <2>5, <2>6, <2>7 DEF World, bundle
<1>5. CASE renewal.step = "reload"
  <2>1. served' = [served EXCEPT ![s] = c] /\ renewal' = NoRenewal /\ files' = files
    BY <1>0, <1>5 DEF RenewalStep
  <2>2. /\ served' \in [Sites -> Certs] /\ served'[s] = c
        /\ \A x \in Sites \ {s} : served'[x] = served[x]
    BY <1>1, <2>1
  <2>3. files[s].acct = s /\ files[s].manifest = m /\ files[s].quote = quote(s, m)
    BY <1>0, <1>1, <1>5 DEF Renewing, Signed
  <2>4. files[s] = bundle(s, c)
    <3> HIDE DEF c
    <3>1. files[s] = [acct |-> s, cert |-> c, manifest |-> m, quote |-> quote(s, m)]
      BY <1>1, <2>3 DEF Bundles
    <3>2. QED
      BY <3>1 DEF bundle
  <2>5. \A x \in Sites : Signed(x)'
    BY <1>1, <2>1, <2>2 DEF World, Signed
  <2>6. \A x \in Replicas : files'[x] = bundle(x, served'[x])
    BY <1>0, <2>1, <2>2, <2>4 DEF World, Sites
  <2>7. QED
    BY <1>1, <2>1, <2>2, <2>5, <2>6 DEF World, bundle
<1>6. QED
  BY <1>1, <1>3, <1>4, <1>5

(* A run that ends before it has anything to report.                           *)
LEMMA EndsEarly ==
    ASSUME World', NEW x \in {1, 2}, run' = [pc |-> "done", exit |-> x]
    PROVE  RunInv'
<1>1. run'.pc = "done" /\ run'.exit = x /\ "rep" \notin DOMAIN run'
  OBVIOUS
<1>2. (renewal.step \in {"idle", "manifest", "quote", "reload"})'
  BY DEF World, NoRenewal, Renewing
<1>3. EvidenceTypeOK'
  BY <1>1, <1>2 DEF World, EvidenceTypeOK
<1>4. ~reported'
  BY <1>1 DEF reported
<1>5. PassIsEarned' /\ NoFalseAlarm'
  BY <1>3, <1>4 DEF PassIsEarned, NoFalseAlarm
<1>6. QED
  BY <1>1, <1>5 DEF RunInv, Verdict

LEMMA SetupKeeps ==
    ASSUME EvidenceInv, NEW g \in Commands, NEW github \in BOOLEAN, Setup(g, github), World'
    PROVE  RunInv'
<1> DEFINE exit == newEvidenceChecker(g, github).exit
           still == renewal = NoRenewal
<1>0. still \in BOOLEAN
  OBVIOUS
<1>1. exit \in {1, 2, 9}
  BY DEF newEvidenceChecker
<1>2. /\ exit # 9 => run' = [pc |-> "done", exit |-> exit]
      /\ exit = 9 => run' = [pc |-> "manifest", exit |-> 9, conn |-> empty, chains |-> <<>>,
                             manifest |-> None, filesOK |-> TRUE, cert |-> None,
                             undisturbed |-> still]
  BY DEF Setup
<1> HIDE DEF exit, still
<1>3. CASE exit # 9
  BY <1>1, <1>2, <1>3, EndsEarly
<1>4. CASE exit = 9
  <2>1. <<>> \in Seq(Certs)
    OBVIOUS
  <2>2. run' \in FetchRec
    <3> DEFINE r == [pc |-> "manifest", exit |-> 9, conn |-> empty, chains |-> <<>>,
                     manifest |-> None, filesOK |-> TRUE, cert |-> None, undisturbed |-> still]
    <3>1. r \in FetchRec
      BY <1>0, <2>1 DEF FetchRec
    <3>2. QED
      BY <1>2, <1>4, <3>1
  <2>3. run'.pc = "manifest" /\ run'.conn = empty /\ run'.filesOK
    BY <1>2, <1>4
  <2>4. Fetching'
    BY <2>2, <2>3 DEF Fetching
  <2>5. QED
    BY <2>4 DEF RunInv
<1>5. QED
  BY <1>3, <1>4

-----------------------------------------------------------------------------
(* newSession: the connection a fetch goes over showed the certificate of the  *)
(* site it leads to.                                                           *)
Session(t, chains) ==
    \/ chains = Append(run.chains, served[t])
    \/ chains = run.chains /\ run.conn = t

LEMMA SessionShows ==
    ASSUME World, Fetching, NEW t \in Sites, NEW chains, Session(t, chains)
    PROVE  /\ chains \in Seq(Certs) /\ chains # <<>> /\ chains[Len(chains)].site = t
           /\ (run.undisturbed /\ run.pc # "manifest" /\ chains = <<served[t]>>) =>
                 t = run.conn /\ chains = run.chains
<1>1. /\ run.chains \in Seq(Certs) /\ served[t] \in Certs /\ served[t].site = t
      /\ t # empty
  BY EvidenceConstants DEF World, Signed, Fetching, FetchRec
<1>2. CASE chains = Append(run.chains, served[t])
  <2>1. /\ chains \in Seq(Certs) /\ Len(chains) = Len(run.chains) + 1
        /\ chains[Len(chains)] = served[t]
    BY <1>1, <1>2
  <2>2. chains # <<>>
    BY <1>1, <2>1
  <2>3. (run.undisturbed /\ run.pc # "manifest") => Len(chains) = 2
    BY <2>1 DEF Fetching
  <2>4. Len(<<served[t]>>) = 1
    OBVIOUS
  <2>5. QED
    BY <1>1, <2>1, <2>2, <2>3, <2>4
<1>3. CASE chains = run.chains /\ run.conn = t
  BY <1>1, <1>3 DEF Fetching
<1>4. QED
  BY <1>2, <1>3 DEF Session

(* What a site may answer.                                                     *)
LEMMA ManifestAnswered ==
    ASSUME World, NEW t \in Sites, NEW a \in answers(t, "manifest"), ~manifestErr(a)
    PROVE  a \in Manifests /\ (t \in Replicas => a = files[t].manifest)
<1>1. \A s \in Sites : files[s].manifest \in Manifests /\ files[s]["manifest"] = files[s].manifest
  BY DEF World, Bundles
<1>2. a # NotFetched /\ a.wellFormed /\ requireEntries(a.entries)
  BY DEF manifestErr
<1>3. CASE t \in Replicas
  BY <1>1, <1>2, <1>3 DEF answers
<1>4. CASE t \notin Replicas
  <2>1. \/ \E s \in Sites : a = files[s]["manifest"]
        \/ a = [wellFormed |-> FALSE, entries |-> <<>>]
        \/ a = [wellFormed |-> TRUE, entries |-> [acct |-> Interceptor]]
    BY <1>2, <1>4 DEF answers
  <2>2. ~requireEntries([acct |-> Interceptor])
    BY DEF requireEntries
  <2>3. QED
    BY <1>1, <1>2, <1>4, <2>1, <2>2
<1>5. QED
  BY <1>3, <1>4

LEMMA CertAnswered ==
    ASSUME World, NEW t \in Sites, NEW a \in answers(t, "cert")
    PROVE  /\ a \in Certs \cup {NotFetched}
           /\ (t \in Replicas /\ a # NotFetched) => a = files[t].cert
  BY DEF World, Bundles, answers

LEMMA AcctAnswered ==
    ASSUME World, NEW t \in Replicas, NEW a \in answers(t, "acct"), a # NotFetched
    PROVE  a = t
  BY DEF World, Bundles, answers, Signed, Sites

LEMMA QuoteAnswered ==
    ASSUME World, NEW t \in Sites, NEW a \in answers(t, "quote"), a # NotFetched
    PROVE  \/ ~a.genuine /\ t \notin Replicas
           \/ \E s \in Sites : a = files[s].quote /\ (t \in Replicas => s = t)
<1>1. CASE t \in Replicas
  BY <1>1 DEF World, Bundles, answers
<1>2. CASE t \notin Replicas
  <2>1. \/ \E s \in Sites : a = files[s]["quote"]
        \/ \E s \in Replicas : a = forged(files[s].manifest)
    BY <1>2 DEF answers
  <2>2. QED
    BY <1>2, <2>1 DEF World, Bundles, forged
<1>3. QED
  BY <1>1, <1>2

(* An undisturbed fetch reads the bundle of a replica that is not renewing.    *)
LEMMA StillBundle ==
    ASSUME World, NEW t \in Replicas, renewal = NoRenewal
    PROVE  /\ t \in Sites /\ served[t] \in Certs /\ served[t].site = t /\ files[t].cert = served[t]
           /\ files[t].manifest = manifestOf(t, served[t])
           /\ files[t].quote = quote(t, manifestOf(t, served[t]))
<1>1. t \in Sites /\ t # renewal.site
  BY EvidenceConstants DEF Sites, NoRenewal
<1>2. served[t] \in Certs /\ served[t].site = t /\ files[t] = bundle(t, served[t])
  BY <1>1 DEF World, Signed
<1>3. QED
  BY <1>1, <1>2, BundleMade

(* A fetch that leaves more to fetch: what is to show of the record it leaves. *)
LEMMA ManifestFetched ==
    ASSUME World, Fetching, run.pc = "manifest", NEW t \in Sites, NEW chains, Session(t, chains),
           NEW a \in answers(t, "manifest"), ~manifestErr(a), NEW still \in BOOLEAN,
           still => /\ run.undisturbed /\ t \in Replicas /\ renewal = NoRenewal
                    /\ chains = <<served[t]>>,
           run' = [[run EXCEPT !.conn = t, !.chains = chains, !.undisturbed = still]
                      EXCEPT !.pc = "acct", !.manifest = a]
    PROVE  RunInv'
<1>1. run \in FetchRec
  BY DEF Fetching
<1>2. chains \in Seq(Certs) /\ chains # <<>> /\ chains[Len(chains)].site = t
  BY SessionShows
<1>3. a \in Manifests /\ (t \in Replicas => a = files[t].manifest)
  BY ManifestAnswered
<1>4. run' \in FetchRec
  BY <1>1, <1>2, <1>3 DEF FetchRec
<1>5. /\ run'.pc = "acct" /\ run'.conn = t /\ run'.chains = chains /\ run'.manifest = a
      /\ run'.filesOK = run.filesOK /\ run'.undisturbed = still
  BY <1>1 DEF FetchRec
<1>6. still => a = manifestOf(t, chains[1]) /\ Len(chains) = 1
  BY <1>3, StillBundle
<1>7. still => run.filesOK
  BY DEF Fetching
<1>8. t # empty
  BY EvidenceConstants
<1>9. (run.manifest = manifestOf(run.conn, run.chains[1]))' <=> run'.manifest = manifestOf(run'.conn, run'.chains[1])
  BY DEF manifestOf
<1>10. Fetching'
  BY <1>2, <1>3, <1>4, <1>5, <1>6, <1>7, <1>8, <1>9 DEF Fetching
<1>11. QED
  BY <1>10 DEF RunInv

(* What an undisturbed run has once the manifest is in.                        *)
LEMMA StillSame ==
    ASSUME World, Fetching, run.pc # "manifest", NEW t \in Replicas, NEW chains,
           Session(t, chains), run.undisturbed, renewal = NoRenewal, chains = <<served[t]>>
    PROVE  /\ t = run.conn /\ chains = run.chains /\ run.filesOK /\ Len(chains) = 1
           /\ chains[1] = served[t] /\ run.manifest = manifestOf(t, served[t])
           /\ run.manifest.entries.acct = t /\ run.manifest.entries.cert = served[t]
           /\ run.pc = "quote" => run.cert = served[t]
<1>1. t \in Sites /\ served[t] \in Certs
  BY StillBundle
<1>2. t = run.conn /\ chains = run.chains
  BY <1>1, SessionShows
<1>3. Len(chains) = 1 /\ chains[1] = served[t]
  OBVIOUS
<1>4. /\ run.filesOK /\ run.manifest = manifestOf(t, served[t])
      /\ run.pc = "quote" => run.cert = served[t]
  BY <1>2, <1>3 DEF Fetching
<1>5. QED
  BY <1>1, <1>2, <1>3, <1>4, ManifestMade

LEMMA AcctFetched ==
    ASSUME World, Fetching, run.pc = "acct", NEW t \in Sites, NEW chains, Session(t, chains),
           NEW a \in answers(t, "acct"), NEW still \in BOOLEAN, NEW ok \in BOOLEAN,
           still => /\ run.undisturbed /\ t \in Replicas /\ renewal = NoRenewal
                    /\ chains = <<served[t]>> /\ a # NotFetched,
           (run.filesOK /\ a # NotFetched /\ run.manifest.entries["acct"] = a) => ok,
           run' = [[run EXCEPT !.conn = t, !.chains = chains, !.undisturbed = still]
                      EXCEPT !.pc = "cert", !.filesOK = ok]
    PROVE  RunInv'
<1>1. run \in FetchRec /\ run.manifest \in Manifests
  BY DEF Fetching
<1>2. chains \in Seq(Certs) /\ chains # <<>> /\ chains[Len(chains)].site = t
  BY SessionShows
<1>3. run' \in FetchRec
  BY <1>1, <1>2 DEF FetchRec
<1>4. /\ run'.pc = "cert" /\ run'.conn = t /\ run'.chains = chains /\ run'.filesOK = ok
      /\ run'.manifest = run.manifest /\ run'.undisturbed = still
  BY <1>1 DEF FetchRec
<1>5. still => /\ run.filesOK /\ Len(chains) = 1 /\ run.manifest = manifestOf(t, chains[1])
               /\ run.manifest.entries.acct = t
  BY StillSame
<1>6. still => a = t
  BY AcctAnswered
<1>7. still => ok
  BY <1>5, <1>6
<1>8. t # empty
  BY EvidenceConstants
<1>9. (run.manifest = manifestOf(run.conn, run.chains[1]))' <=> run'.manifest = manifestOf(run'.conn, run'.chains[1])
  BY DEF manifestOf
<1>10. Fetching'
  BY <1>1, <1>2, <1>3, <1>4, <1>5, <1>7, <1>8, <1>9 DEF Fetching
<1>11. QED
  BY <1>10 DEF RunInv

LEMMA CertFetched ==
    ASSUME World, Fetching, run.pc = "cert", NEW t \in Sites, NEW chains, Session(t, chains),
           NEW a \in answers(t, "cert"), NEW still \in BOOLEAN, NEW ok \in BOOLEAN,
           still => /\ run.undisturbed /\ t \in Replicas /\ renewal = NoRenewal
                    /\ chains = <<served[t]>> /\ a # NotFetched,
           ok => (a # NotFetched /\ run.manifest.entries["cert"] = a),
           (run.filesOK /\ a # NotFetched /\ run.manifest.entries["cert"] = a) => ok,
           run' = [[run EXCEPT !.conn = t, !.chains = chains, !.undisturbed = still]
                      EXCEPT !.pc = "quote", !.filesOK = ok, !.cert = a]
    PROVE  RunInv'
<1>1. run \in FetchRec /\ run.manifest \in Manifests
  BY DEF Fetching
<1>2. chains \in Seq(Certs) /\ chains # <<>> /\ chains[Len(chains)].site = t
  BY SessionShows
<1>3. /\ a \in Certs \cup {NotFetched}
      /\ (t \in Replicas /\ a # NotFetched) => a = files[t].cert
  BY CertAnswered
<1>4. run' \in FetchRec
  BY <1>1, <1>2, <1>3 DEF FetchRec
<1>5. /\ run'.pc = "quote" /\ run'.conn = t /\ run'.chains = chains /\ run'.filesOK = ok
      /\ run'.manifest = run.manifest /\ run'.undisturbed = still /\ run'.cert = a
  BY <1>1 DEF FetchRec
<1>6. still => /\ run.filesOK /\ Len(chains) = 1 /\ run.manifest = manifestOf(t, chains[1])
               /\ chains[1] = served[t] /\ run.manifest.entries.cert = served[t]
  BY StillSame
<1>7. still => a = served[t]
  BY <1>3, StillBundle
<1>8. still => ok
  BY <1>6, <1>7
<1>9. t # empty
  BY EvidenceConstants
<1>10. (run.manifest = manifestOf(run.conn, run.chains[1]))' <=> run'.manifest = manifestOf(run'.conn, run'.chains[1])
  BY DEF manifestOf
<1>11. ok => run'.cert # NotFetched /\ run'.manifest.entries.cert = run'.cert
  BY <1>5
<1>12. Fetching'
  BY <1>1, <1>2, <1>4, <1>5, <1>6, <1>7, <1>8, <1>9, <1>10, <1>11 DEF Fetching
<1>13. QED
  BY <1>12 DEF RunInv

(* servedChain: one certificate on every connection, or none.                  *)
LEMMA OneLeaf ==
    ASSUME NEW chains \in Seq(Certs), chains # <<>>, ~servedChain(chains).changed
    PROVE  /\ servedChain(chains).leaf = chains[Len(chains)]
           /\ servedChain(chains).leaf \in Certs
           /\ Range(chains) = {servedChain(chains).leaf}
<1>1. \A i \in DOMAIN chains : chains[i] = Head(chains)
  BY DEF servedChain
<1>2. servedChain(chains).leaf = Head(chains)
  BY <1>1 DEF servedChain
<1>3. Len(chains) \in Nat \ {0} /\ DOMAIN chains = 1 .. Len(chains)
  OBVIOUS
<1>4. Len(chains) \in DOMAIN chains /\ chains[Len(chains)] \in Certs
  BY <1>3
<1>5. Range(chains) = {Head(chains)}
  BY <1>1, <1>4 DEF Range
<1>6. QED
  BY <1>1, <1>2, <1>4, <1>5

(* The appraisal: a quote that verifies, binds the manifest of files that all  *)
(* match, and came with the very certificate on the connection, is of the CVM  *)
(* that holds the key of that certificate.                                     *)
LEMMA AppraisedJudged ==
    ASSUME World, Fetching, run.pc = "quote", NEW t \in Sites, NEW chains, Session(t, chains),
           NEW a \in answers(t, "quote")
    PROVE  Judged(appraisal(a, chains))
<1> DEFINE rep == appraisal(a, chains)
           leaf == servedChain(chains).leaf
<1>1. SUFFICES ASSUME rep.filesOK /\ rep.quoteOK /\ rep.bound /\ rep.certMatch = "exact"
      PROVE  /\ rep.leaf \in Certs /\ rep.site = rep.leaf.site /\ rep.seen = {rep.leaf}
             /\ rep.trustErr \/ trusted(rep.leaf)
  BY DEF Judged
<1>2. /\ run.filesOK /\ a # NotFetched /\ a.genuine /\ a.binds = run.manifest
      /\ run.cert # NotFetched /\ ~servedChain(chains).changed
      /\ compareCert(leaf, run.cert) = "exact"
  BY <1>1 DEF appraisal, VerifyEvidenceReportData
<1>3. rep.leaf = leaf /\ rep.site = a.site /\ rep.seen = Range(chains)
  BY <1>2 DEF appraisal
<1>4. rep.trustErr \/ trusted(leaf)
  BY <1>2 DEF appraisal
<1>5. chains \in Seq(Certs) /\ chains # <<>> /\ chains[Len(chains)].site = t
  BY SessionShows
<1>6. leaf \in Certs /\ leaf.site = t /\ Range(chains) = {leaf}
  BY <1>2, <1>5, OneLeaf
<1>7. leaf = run.cert
  BY <1>2 DEF compareCert
<1>8. a.site = t
  <2>1. PICK s \in Sites : a = files[s].quote /\ (t \in Replicas => s = t)
    BY <1>2, QuoteAnswered
  <2>2. a.site = s /\ (s \in Replicas => a.binds.entries.cert.site = s)
    BY <2>1 DEF World, Signed
  <2>3. a.binds.entries.cert = leaf
    BY <1>2, <1>7 DEF Fetching
  <2>4. QED
    BY <1>6, <2>1, <2>2, <2>3 DEF Sites
<1>9. QED
  BY <1>3, <1>4, <1>6, <1>8

LEMMA AppraisedCalm ==
    ASSUME World, Fetching, run.pc = "quote", NEW t \in Replicas, NEW chains, Session(t, chains),
           NEW a \in answers(t, "quote"), a # NotFetched, run.undisturbed,
           renewal = NoRenewal, chains = <<served[t]>>
    PROVE  Calm(appraisal(a, chains))
<1> DEFINE rep == appraisal(a, chains)
           m == manifestOf(t, served[t])
<1>1. /\ run.filesOK /\ run.manifest = m /\ run.cert = served[t]
  BY StillSame
<1>2. t \in Sites /\ served[t] \in Certs /\ served[t].site = t /\ files[t].quote = quote(t, m)
  BY StillBundle
<1>3. a = quote(t, m)
  BY <1>2 DEF answers, World, Bundles
<1>4. a.genuine /\ a.site = t /\ a.binds = m
  BY <1>2, <1>3, ManifestMade, QuoteMade
<1>5. servedChain(chains).leaf = served[t] /\ ~servedChain(chains).changed
  <2>1. Head(chains) = served[t] /\ \A i \in DOMAIN chains : chains[i] = served[t]
    OBVIOUS
  <2>2. QED
    BY <2>1 DEF servedChain
<1>6. compareCert(served[t], served[t]) = "exact"
  BY DEF compareCert
<1>7. run.cert # NotFetched
  BY <1>1 DEF Fetching
<1>8. /\ rep.filesOK /\ rep.quoteOK /\ rep.bound /\ rep.certMatch = "exact"
      /\ rep.leaf = served[t] /\ rep.site = t
  <2> HIDE DEF m
  <2>1. rep = [filesOK |-> run.filesOK, quoteOK |-> TRUE, bound |-> TRUE, certMatch |-> "exact",
               leaf |-> served[t], trustErr |-> ~trusted(served[t]), site |-> t,
               seen |-> Range(chains)]
    BY <1>1, <1>4, <1>5, <1>6, <1>7 DEF appraisal, VerifyEvidenceReportData
  <2>2. QED
    BY <1>1, <2>1
<1>9. rep.trustErr => ~trusted(served[t])
  BY <1>5, <1>7 DEF appraisal
<1>10. QED
  BY <1>2, <1>8, <1>9 DEF Calm

LEMMA FetchKeeps ==
    ASSUME EvidenceInv, NEW t \in Sites, NEW dial \in BOOLEAN, Fetch(t, dial), World',
           dep' = dep
    PROVE  RunInv'
<1> DEFINE chains == newSession(t, dial)
<1>1. PICK a \in answers(t, run.pc) : fetch(t, dial, a)
  BY DEF Fetch
<1> DEFINE still == run.undisturbed /\ t \in Replicas /\ a # NotFetched /\ renewal = NoRenewal
                    /\ chains = <<served[t]>>
           listed == a # NotFetched /\ run.manifest.entries[run.pc] = a
           base == [run EXCEPT !.conn = t, !.chains = chains, !.undisturbed = still]
<1>2. World /\ Fetching /\ run.pc \in {"manifest", "acct", "cert", "quote"}
  BY DEF EvidenceInv, RunInv, Fetch, NotRun
<1>3. PICK x : x = chains /\ Session(t, x)
  BY DEF Session, newSession, Fetch
<1>4. PICK u \in BOOLEAN : u <=> still
  OBVIOUS
<1>5. CASE run.pc = "manifest"
  <2>1. CASE manifestErr(a)
    <3>1. run' = [pc |-> "done", exit |-> 1]
      BY <1>1, <1>5, <2>1 DEF fetch
    <3>2. QED
      BY <3>1, EndsEarly
  <2>2. CASE ~manifestErr(a)
    <3>1. run' = [base EXCEPT !.pc = "acct", !.manifest = a]
      BY <1>1, <1>5, <2>2 DEF fetch
    <3>2. run' = [[run EXCEPT !.conn = t, !.chains = x, !.undisturbed = u]
                      EXCEPT !.pc = "acct", !.manifest = a]
      BY <3>1, <1>3, <1>4
    <3> HIDE DEF chains
    <3>3. QED
      BY <1>1, <1>2, <1>3, <1>4, <1>5, <2>2, <3>2, ManifestFetched
  <2>3. QED
    BY <2>1, <2>2
<1>6. CASE run.pc = "acct"
  <2>1. PICK ok \in BOOLEAN : ok <=> (run.filesOK /\ listed)
    OBVIOUS
  <2>2. run' = [base EXCEPT !.pc = "cert", !.filesOK = run.filesOK /\ listed]
    BY <1>1, <1>2, <1>6 DEF fetch, Fetching, FetchRec
  <2>3. run' = [[run EXCEPT !.conn = t, !.chains = x, !.undisturbed = u]
                    EXCEPT !.pc = "cert", !.filesOK = ok]
    BY <2>1, <2>2, <1>3, <1>4
  <2> HIDE DEF chains
  <2>4. /\ (run.filesOK /\ a # NotFetched /\ run.manifest.entries["acct"] = a) => ok
        /\ u => /\ run.undisturbed /\ t \in Replicas /\ renewal = NoRenewal
                /\ x = <<served[t]>> /\ a # NotFetched
    BY <1>3, <1>4, <1>6, <2>1
  <2> HIDE DEF still, listed, base
  <2>5. a \in answers(t, "acct")
    BY <1>6
  <2>6. QED
    BY <1>2, <1>3, <1>6, <2>3, <2>4, <2>5, AcctFetched
<1>7. CASE run.pc = "cert"
  <2>1. PICK ok \in BOOLEAN : ok <=> (run.filesOK /\ listed)
    OBVIOUS
  <2>2. run' = [base EXCEPT !.pc = "quote", !.filesOK = run.filesOK /\ listed, !.cert = a]
    BY <1>1, <1>2, <1>7 DEF fetch, Fetching, FetchRec
  <2>3. run' = [[run EXCEPT !.conn = t, !.chains = x, !.undisturbed = u]
                    EXCEPT !.pc = "quote", !.filesOK = ok, !.cert = a]
    BY <2>1, <2>2, <1>3, <1>4
  <2> HIDE DEF chains
  <2>4. /\ ok => (a # NotFetched /\ run.manifest.entries["cert"] = a)
        /\ (run.filesOK /\ a # NotFetched /\ run.manifest.entries["cert"] = a) => ok
        /\ u => /\ run.undisturbed /\ t \in Replicas /\ renewal = NoRenewal
                /\ x = <<served[t]>> /\ a # NotFetched
    BY <1>3, <1>4, <1>7, <2>1
  <2> HIDE DEF still, listed, base
  <2>5. a \in answers(t, "cert")
    BY <1>7
  <2>6. QED
    BY <1>2, <1>3, <1>7, <2>3, <2>4, <2>5, CertFetched
<1>8. CASE run.pc = "quote"
  <2>1. run' = [pc |-> "report", exit |-> 9, undisturbed |-> still, rep |-> appraisal(a, chains)]
    BY <1>1, <1>8 DEF fetch
  <2>2. PICK rep : rep = appraisal(a, x)
    OBVIOUS
  <2>3. run' = [pc |-> "report", exit |-> 9, undisturbed |-> u, rep |-> rep]
    BY <1>3, <1>4, <2>1, <2>2
  <2> HIDE DEF chains
  <2>4. Judged(rep)
    BY <1>1, <1>2, <1>3, <1>8, <2>2, AppraisedJudged
  <2>5. u => Calm(rep)
    BY <1>1, <1>2, <1>3, <1>4, <1>8, <2>2, AppraisedCalm
  <2>6. run'.pc = "report" /\ run'.rep = rep /\ run'.undisturbed = u
    BY <2>3
  <2>7. (trusted(rep.leaf))' <=> trusted(rep.leaf)
    BY DEF trusted
  <2>8. Judged(rep)' /\ (u => Calm(rep)')
    BY <2>4, <2>5, <2>7 DEF Judged, Calm
  <2>9. Judged(run.rep)' /\ (run'.undisturbed => Calm(run.rep)')
    BY <2>6, <2>8 DEF Judged, Calm, trusted
  <2>10. run' = [pc |-> "report", exit |-> 9, undisturbed |-> run'.undisturbed, rep |-> run'.rep]
    BY <2>3, <2>6
  <2>11. QED
    BY <2>6, <2>9, <2>10 DEF RunInv, Reporting
<1>9. QED
  BY <1>2, <1>5, <1>6, <1>7, <1>8

-----------------------------------------------------------------------------
(* ComposeHashOf names the compose the CVM runs, or nothing: a version 3       *)
(* launch document is rebuilt with the logged hash and must be the very one.   *)
LEMMA HashIsCompose ==
    ASSUME NEW s, NEW said, NEW rtmr3
    PROVE  ComposeHashOf(mrConfigID(s), said, rtmr3) \in {empty, cvm(s).compose}
<1> DEFINE r == replayRTMR3(said, rtmr3)
           b == bootEvents(r.log)
<1>1. CASE cvm(s).v = 1
  BY <1>1 DEF mrConfigID, ComposeHashOf, ComposeHashFromMRConfigID
<1>2. CASE cvm(s).v # 1
  <2>1. mrConfigID(s).hash = cvm(s).compose /\ mrConfigID(s).v = 3
    BY <1>2 DEF mrConfigID
  <2>2. mrConfigID(s) \in v3Candidates(b) => mrConfigID(s).hash = b.composeHash
    <3> HIDE DEF b
    <3>1. QED
      BY DEF v3Candidates
  <2>3. QED
    BY <2>1, <2>2 DEF ComposeHashOf
<1>3. QED
  BY <1>1, <1>2

(* What the code check may have found: nothing failed and something matched    *)
(* only for the compose the CVM runs; and a failure that is no lookup's is of   *)
(* a text somebody else supplied.                                              *)
LEMMA CodeFound ==
    ASSUME NEW rep, NEW c, NEW look, NEW code, code = checkCodeIdentity(rep, c, look),
           NEW compose, compose = cvm(rep.site).compose
    PROVE  /\ code.ExpectRequested <=> c.ExpectComposeFiles # {}
           /\ code.ExpectExplicit = c.ExpectComposeExplicit
           /\ code.Requested <=> (c.g.supplied # empty \/ c.g.base \/ c.g.appID)
           /\ code.Discovered <=> (c.g.supplied = empty /\ ~code.Requested)
           /\ code.MatchedExpect # empty => compose \in c.ExpectComposeFiles
           /\ code.FetchErr => c.g.supplied = empty
           /\ (code.BoundErr /\ c.g.supplied \in {empty, compose}) => look.guest = "other_document"
           /\ (~code.HashErr /\ ~code.NoSource /\ ~code.FetchErr /\ ~code.BoundErr
                 /\ compose \in c.ExpectComposeFiles) => code.MatchedExpect # empty
<1> DEFINE rtmr3 == bootLog(cvm(rep.site).compose)
           hash == ComposeHashOf(mrConfigID(rep.site), quoteReply(rep.site), rtmr3)
           raw == appCompose(c.g, hash, LoggedAppID(quoteReply(rep.site), rtmr3), look)
           files0 == c.ExpectComposeFiles
<1>1. hash \in {empty, compose}
  BY HashIsCompose
<1>2. PICK q \in BOOLEAN : q <=> (c.g.supplied # empty \/ c.g.base \/ c.g.appID)
  OBVIOUS
<1>3. PICK e \in BOOLEAN : e <=> files0 # {}
  OBVIOUS
<1>4. PICK d \in BOOLEAN : d <=> (c.g.supplied = empty /\ ~q)
  OBVIOUS
<1> DEFINE found == [Requested |-> q, ExpectRequested |-> e,
                     ExpectExplicit |-> c.ExpectComposeExplicit, Discovered |-> d,
                     HashErr |-> FALSE, NoSource |-> FALSE, FetchErr |-> FALSE,
                     BoundErr |-> FALSE, MatchedExpect |-> empty]
<1>5. CodeIdentity0(c) = found
  BY <1>2, <1>3, <1>4 DEF CodeIdentity0
<1>6. /\ c.g.supplied # empty => raw = c.g.supplied
      /\ (c.g.supplied = empty /\ look.guest # "other_document") => raw \in {empty, hash}
  BY DEF appCompose, FetchAppComposeFromCloud, FetchAppCompose
<1>7. code = IF ~rep.quoteOK \/ hash = empty THEN [found EXCEPT !.HashErr = TRUE]
             ELSE IF c.g.supplied = empty /\ ~cloudUsable(c.g) /\ ~c.g.base /\ c.g.noDNS
             THEN [found EXCEPT !.NoSource = TRUE]
             ELSE IF raw = empty THEN [found EXCEPT !.FetchErr = TRUE]
             ELSE IF ~VerifyAppCompose(raw, hash) THEN [found EXCEPT !.BoundErr = TRUE]
             ELSE [found EXCEPT !.MatchedExpect = MatchCompose(raw, c.ExpectComposeFiles)]
  BY <1>5 DEF checkCodeIdentity
<1> HIDE DEF hash, raw, rtmr3
<1>8. /\ code.Requested = q /\ code.ExpectRequested = e /\ code.Discovered = d
      /\ code.ExpectExplicit = c.ExpectComposeExplicit
  BY <1>7
<1>9. CASE code = [found EXCEPT !.HashErr = TRUE]
  <2>1. /\ code.HashErr /\ ~code.FetchErr /\ ~code.BoundErr /\ code.MatchedExpect = empty
    BY <1>9
  <2>2. QED
    BY <1>2, <1>3, <1>4, <1>8, <2>1
<1>10. CASE code = [found EXCEPT !.NoSource = TRUE]
  <2>1. /\ code.NoSource /\ ~code.FetchErr /\ ~code.BoundErr /\ code.MatchedExpect = empty
    BY <1>10
  <2>2. QED
    BY <1>2, <1>3, <1>4, <1>8, <2>1
<1>11. CASE raw = empty /\ code = [found EXCEPT !.FetchErr = TRUE]
  <2>1. /\ code.FetchErr /\ ~code.BoundErr /\ code.MatchedExpect = empty
    BY <1>11
  <2>2. QED
    BY <1>2, <1>3, <1>4, <1>6, <1>8, <1>11, <2>1
<1>12. CASE raw # empty /\ hash # empty /\ raw # hash /\ code = [found EXCEPT !.BoundErr = TRUE]
  <2>1. /\ code.BoundErr /\ ~code.FetchErr /\ code.MatchedExpect = empty
    BY <1>12
  <2>2. c.g.supplied \in {empty, compose} => look.guest = "other_document"
    BY <1>1, <1>6, <1>12
  <2>3. QED
    BY <1>2, <1>3, <1>4, <1>8, <2>1, <2>2
<1>13. CASE /\ raw # empty /\ hash # empty /\ raw = hash
            /\ code = [found EXCEPT !.MatchedExpect = MatchCompose(raw, c.ExpectComposeFiles)]
  <2>1. /\ ~code.BoundErr /\ ~code.FetchErr
        /\ code.MatchedExpect = MatchCompose(compose, c.ExpectComposeFiles)
    BY <1>1, <1>13
  <2>2. compose # empty
    BY <1>1, <1>13
  <2>3. QED
    BY <1>2, <1>3, <1>4, <1>8, <2>1, <2>2 DEF MatchCompose
<1>14. QED
  BY <1>7, <1>9, <1>10, <1>11, <1>12, <1>13 DEF VerifyAppCompose

(* The checker of a command line that is not refused.                          *)
LEMMA CheckerBuilt ==
    ASSUME NEW g \in Commands, NEW github \in BOOLEAN, NEW c,
           c = newEvidenceChecker(g, github), c.exit = 9
    PROVE  /\ c.g = g
           /\ g.expect = "pinned" => c.ExpectComposeFiles = {g.pinned}
           /\ g.expect # "pinned" => c.ExpectComposeFiles \in {{}, Releases}
           /\ (g.expect \notin {"off", "pinned"} /\ ~c.lookupErr) => c.ExpectComposeFiles = Releases
<1>1. g.expect \in {"default", "releases", "pinned", "off", "both"} /\ g.strict \in BOOLEAN
  BY EvidenceAssumption DEF CommandLines
<1>2. PICK l \in BOOLEAN : l <=> (g.expect = "default" /\ ~github)
  OBVIOUS
<1>3. PICK e \in BOOLEAN : e <=> (g.expect = "pinned" \/ (g.expect # "off" /\ demands(g)))
  OBVIOUS
<1>4. PICK f : f = IF g.expect = "off" \/ (g.expect # "pinned" /\ ~github) THEN {}
                   ELSE IF g.expect = "pinned" THEN {g.pinned}
                   ELSE Releases
  OBVIOUS
<1>5. /\ g.expect # "both" /\ ~(g.expect = "releases" /\ ~github)
      /\ c = [exit |-> 9, g |-> g, ExpectComposeFiles |-> f, ExpectComposeExplicit |-> e,
              lookupErr |-> l]
  BY <1>1, <1>2, <1>3, <1>4 DEF newEvidenceChecker, demands
<1>6. c.g = g /\ c.lookupErr = l /\ c.ExpectComposeFiles = f
  BY <1>5
<1>7. QED
  BY <1>1, <1>2, <1>4, <1>5, <1>6

(* Step 8 speaks of the CVM whose certificate the quote binds.                 *)
LEMMA ChainRead ==
    ASSUME World, NEW t, NEW leaf \in Certs, NEW net, net = ReadChain(t, leaf), leaf.site \in Replicas
    PROVE  /\ net \in {"err", dep.cvm.net}
           /\ (t \in Sites /\ served[t] = leaf) => net = dep.cvm.net
<1>1. CASE t \in Sites /\ served[t] = leaf
  <2>1. t \in Replicas
    BY <1>1 DEF World, Signed
  <2>2. QED
    BY <1>1, <2>1 DEF ReadChain, cvm
<1>2. CASE ~(t \in Sites /\ served[t] = leaf)
  BY <1>2 DEF ReadChain
<1>3. QED
  BY <1>1, <1>2

LEMMA ChainReported ==
    ASSUME NEW rep, NEW want, NEW net, NEW chain, chain = reportChain(want, rep, net)
    PROVE  /\ ~chain.skipped => /\ want # empty /\ net # "err"
                                /\ chain.failed \/ want = IF net = "unreported" THEN "mainnet" ELSE net
           /\ (want = net /\ net # "unreported") => ~chain.failed
           /\ want = empty => ~chain.failed
           /\ (rep.certMatch = "exact" /\ want # empty /\ net # "err") => ~chain.skipped
  BY DEF reportChain

(* reportGateway: exit 1, 3 or 0.                                              *)
LEMMA Exits ==
    ASSUME NEW rep, NEW c, NEW code, NEW net, NEW x, x = reportGateway(rep, c, code, net),
           NEW os, os = CheckOSImage(c.g, rep), NEW chain, chain = reportChain(c.g.want, rep, net)
    PROVE  /\ x \in {0, 1, 3}
           /\ x = 1 <=> \/ ~Pass(rep, code, os) \/ (rep.trustErr /\ ~c.g.waive) \/ chain.failed
                        \/ c.g.strict /\ (incompleteReason(c, code, os) \/ chain.skipped \/ rep.trustErr)
           /\ x = 0 => ~(incompleteReason(c, code, os) \/ chain.skipped \/ rep.trustErr)
           /\ x = 3 => incompleteReason(c, code, os) \/ chain.skipped \/ rep.trustErr
  BY DEF reportGateway

(* What each exit status says of what was reported.                           *)
EarnedExit(x, rep, c) ==
    /\ x \in {0, 1, 3}
    /\ x \in {0, 3} => rep.seen = {rep.leaf} /\ rep.site = rep.leaf.site
    /\ x = 0 => /\ trusted(rep.leaf)
                /\ dep.cvm.compose \in c.ExpectComposeFiles
                /\ dep.cvm.os \in OSImages
                /\ c.g.want = IF dep.cvm.net = "unreported" THEN "mainnet" ELSE dep.cvm.net

LEMMA VerdictEarned ==
    ASSUME World, NEW g \in Commands, NEW github \in BOOLEAN, NEW look, NEW t, NEW rep, Judged(rep),
           NEW c, c = newEvidenceChecker(g, github), c.exit = 9,
           NEW code, code = checkCodeIdentity(rep, c, look),
           NEW x, x = reportGateway(rep, c, code, ReadChain(t, rep.leaf))
    PROVE  EarnedExit(x, rep, c)
<1> DEFINE net0 == ReadChain(t, rep.leaf)
           os0 == CheckOSImage(c.g, rep)
           chain0 == reportChain(c.g.want, rep, net0)
<1>1. PICK net : net = net0
  OBVIOUS
<1>2. PICK os : os = os0
  OBVIOUS
<1>3. PICK chain : chain = chain0
  OBVIOUS
<1>4. c.g = g /\ g.osImages \in BOOLEAN
  BY CheckerBuilt, EvidenceAssumption DEF CommandLines
<1>5. /\ os.Configured = g.osImages
      /\ os.OK <=> (~g.osImages \/ (rep.quoteOK /\ cvm(rep.site).os \in OSImages))
  BY <1>2, <1>4 DEF CheckOSImage
<1> HIDE DEF net0, os0, chain0
<1>6. /\ x \in {0, 1, 3}
      /\ x = 1 <=> \/ ~Pass(rep, code, os) \/ (rep.trustErr /\ ~c.g.waive) \/ chain.failed
                   \/ c.g.strict /\ (incompleteReason(c, code, os) \/ chain.skipped \/ rep.trustErr)
      /\ x = 0 => ~(incompleteReason(c, code, os) \/ chain.skipped \/ rep.trustErr)
  BY <1>1, <1>2, <1>3, Exits DEF net0, os0, chain0
<1>7. x \in {0, 3} => Pass(rep, code, os) /\ ~chain.failed
  BY <1>6
<1>8. Pass(rep, code, os) =>
         /\ rep.leaf \in Certs /\ rep.site = rep.leaf.site /\ rep.seen = {rep.leaf}
         /\ rep.trustErr \/ trusted(rep.leaf)
         /\ CodeOK(code) /\ os.OK
  BY DEF Pass, Judged
<1>9. ASSUME x = 0
      PROVE  /\ trusted(rep.leaf)
             /\ dep.cvm.compose \in c.ExpectComposeFiles
             /\ dep.cvm.os \in OSImages
             /\ c.g.want = IF dep.cvm.net = "unreported" THEN "mainnet" ELSE dep.cvm.net
  <2>1. /\ rep.leaf \in Certs /\ rep.site = rep.leaf.site /\ trusted(rep.leaf)
        /\ CodeOK(code) /\ os.OK /\ ~chain.failed /\ ~chain.skipped /\ ~incompleteReason(c, code, os)
    BY <1>6, <1>7, <1>8, <1>9
  <2>2. rep.leaf.site \in Replicas /\ cvm(rep.site) = dep.cvm
    BY <2>1 DEF trusted, cvm
  <2>3. /\ os.Configured /\ ~code.HashErr /\ ~code.NoSource /\ ~code.FetchErr
        /\ code.ExpectRequested
    BY <2>1 DEF incompleteReason
  <2>4. code.MatchedExpect # empty
    BY <2>1, <2>3 DEF CodeOK
  <2>5. dep.cvm.compose \in c.ExpectComposeFiles
    <3>1. PICK compose : compose = cvm(rep.site).compose
      OBVIOUS
    <3>2. compose \in c.ExpectComposeFiles
      BY <2>4, <3>1, CodeFound
    <3>3. QED
      BY <2>2, <3>1, <3>2
  <2>6. dep.cvm.os \in OSImages
    BY <1>5, <2>1, <2>2, <2>3
  <2>7. net \in {"err", dep.cvm.net}
    BY <1>1, <2>1, <2>2, ChainRead DEF net0
  <2>8. net # "err" /\ c.g.want = IF net = "unreported" THEN "mainnet" ELSE net
    BY <1>1, <1>3, <2>1, ChainReported DEF chain0
  <2>9. QED
    BY <2>1, <2>5, <2>6, <2>7, <2>8
<1>10. QED
  BY <1>6, <1>7, <1>8, <1>9 DEF EarnedExit

(* A run nothing disturbed, of a deployment as the command line describes it,  *)
(* fails only what was demanded and could not be done; with every answer in,   *)
(* it passes.                                                                  *)
FairExit(x, c, code) ==
    /\ x = 1 => \/ c.g.strict
                \/ code.FetchErr /\ (code.Requested \/ code.ExpectExplicit)
                \/ code.NoSource /\ code.ExpectExplicit
                \/ code.HashErr /\ (code.Requested \/ code.ExpectRequested)
    /\ (c.g.osImages /\ c.g.want # empty /\ c.g.expect # "off" /\ ~c.lookupErr
          /\ ~code.HashErr /\ ~code.NoSource /\ ~code.FetchErr) => x = 0

LEMMA VerdictFair ==
    ASSUME World, NEW g \in Commands, NEW github \in BOOLEAN, NEW look, NEW t \in Sites, NEW rep,
           Calm(rep), served[t] = rep.leaf, matches(g), look.guest # "other_document",
           NEW c, c = newEvidenceChecker(g, github), c.exit = 9,
           NEW code, code = checkCodeIdentity(rep, c, look),
           NEW x, x = reportGateway(rep, c, code, ReadChain(t, rep.leaf))
    PROVE  FairExit(x, c, code)
<1> DEFINE net0 == ReadChain(t, rep.leaf)
           os0 == CheckOSImage(c.g, rep)
           chain0 == reportChain(c.g.want, rep, net0)
<1>1. PICK net : net = net0
  OBVIOUS
<1>2. PICK os : os = os0
  OBVIOUS
<1>3. PICK chain : chain = chain0
  OBVIOUS
<1>4. /\ c.g = g
      /\ g.expect = "pinned" => c.ExpectComposeFiles = {g.pinned}
      /\ g.expect # "pinned" => c.ExpectComposeFiles \in {{}, Releases}
      /\ (g.expect \notin {"off", "pinned"} /\ ~c.lookupErr) => c.ExpectComposeFiles = Releases
  BY CheckerBuilt
<1>5. g.osImages \in BOOLEAN /\ g.want # "unreported"
  BY EvidenceAssumption DEF CommandLines
<1>6. dep.cvm.net # "err"
  <2>1. dep \in [cvm : CVMs, publicCA : BOOLEAN]
    BY EvidenceAssumption DEF World
  <2>2. QED
    BY <2>1 DEF CVMs
<1>7. /\ rep.filesOK /\ rep.quoteOK /\ rep.bound /\ rep.certMatch = "exact" /\ ~rep.trustErr
      /\ rep.leaf \in Certs /\ rep.leaf.site \in Replicas /\ cvm(rep.site) = dep.cvm
  BY DEF Calm, trusted, cvm, matches
<1>8. os.OK /\ os.Configured = g.osImages
  BY <1>2, <1>4, <1>5, <1>7 DEF CheckOSImage, matches
<1>9. net = dep.cvm.net
  BY <1>1, <1>7, ChainRead
<1> HIDE DEF net0, os0, chain0
<1>10. ~chain.failed /\ (g.want # empty => ~chain.skipped)
  <2>1. g.want \in {empty, net}
    BY <1>9 DEF matches
  <2>2. QED
    BY <1>1, <1>3, <1>4, <1>5, <1>6, <1>7, <1>9, <2>1, ChainReported DEF chain0
<1>11. /\ x \in {0, 1, 3}
       /\ x = 1 <=> \/ ~Pass(rep, code, os) \/ (rep.trustErr /\ ~c.g.waive) \/ chain.failed
                    \/ c.g.strict /\ (incompleteReason(c, code, os) \/ chain.skipped \/ rep.trustErr)
       /\ x = 3 => incompleteReason(c, code, os) \/ chain.skipped \/ rep.trustErr
  BY <1>1, <1>2, <1>3, Exits DEF net0, os0, chain0
<1>12. PICK compose : compose = cvm(rep.site).compose
  OBVIOUS
<1>13. /\ code.ExpectRequested <=> c.ExpectComposeFiles # {}
       /\ code.ExpectExplicit = c.ExpectComposeExplicit
       /\ code.Requested <=> (c.g.supplied # empty \/ c.g.base \/ c.g.appID)
       /\ code.Discovered <=> (c.g.supplied = empty /\ ~code.Requested)
       /\ code.FetchErr => c.g.supplied = empty
       /\ (code.BoundErr /\ c.g.supplied \in {empty, compose}) => look.guest = "other_document"
       /\ (~code.HashErr /\ ~code.NoSource /\ ~code.FetchErr /\ ~code.BoundErr
             /\ compose \in c.ExpectComposeFiles) => code.MatchedExpect # empty
  BY <1>12, CodeFound
<1>14. ~code.BoundErr
  BY <1>4, <1>7, <1>12, <1>13 DEF matches
<1>15. c.ExpectComposeFiles # {} => compose \in c.ExpectComposeFiles
  BY <1>4, <1>7, <1>12 DEF matches
<1>16. (~code.HashErr /\ ~code.NoSource /\ ~code.FetchErr) => CodeOK(code)
  BY <1>13, <1>14, <1>15 DEF CodeOK
<1>17. \/ CodeOK(code)
       \/ code.FetchErr /\ (code.Requested \/ code.ExpectExplicit)
       \/ code.NoSource /\ code.ExpectExplicit
       \/ code.HashErr /\ (code.Requested \/ code.ExpectRequested)
  BY <1>13, <1>14, <1>16 DEF CodeOK
<1>18. CodeOK(code) => Pass(rep, code, os)
  BY <1>7, <1>8 DEF Pass
<1>19. ASSUME g.osImages, g.want # empty, g.expect # "off", ~c.lookupErr,
              ~code.HashErr, ~code.NoSource, ~code.FetchErr
       PROVE  x = 0
  <2>1. c.ExpectComposeFiles # {}
    BY <1>4, <1>19 DEF matches
  <2>2. ~incompleteReason(c, code, os)
    BY <1>8, <1>13, <1>19, <2>1 DEF incompleteReason
  <2>3. QED
    BY <1>7, <1>10, <1>11, <1>16, <1>18, <1>19, <2>2
<1>20. QED
  BY <1>4, <1>7, <1>10, <1>11, <1>17, <1>18, <1>19 DEF FairExit

LEMMA ReportKeeps ==
    ASSUME EvidenceInv, World', NEW g \in Commands, NEW github \in BOOLEAN, NEW look, NEW t,
           Report(g, github, look, t)
    PROVE  RunInv'
<1>1. /\ World /\ Reporting /\ run.pc = "report"
      /\ UNCHANGED <<dep, served, files, renewal, renewed>>
  BY DEF EvidenceInv, RunInv, Report, NotRun, Fetching, FetchRec
<1>2. PICK c : c = newEvidenceChecker(g, github)
  OBVIOUS
<1>3. PICK rep : rep = run.rep
  OBVIOUS
<1>4. PICK code : code = checkCodeIdentity(rep, c, look)
  OBVIOUS
<1>5. PICK x : x = reportGateway(rep, c, code, ReadChain(t, rep.leaf))
  OBVIOUS
<1>6. PICK u \in BOOLEAN : u <=> (run.undisturbed /\ t \in {s \in Sites : served[s] = rep.leaf})
  OBVIOUS
<1>7. /\ c.exit = 9
      /\ run' = [pc |-> "done", cfg |-> c, rep |-> rep, code |-> code, look |-> look,
                 undisturbed |-> u, exit |-> x]
  BY <1>2, <1>3, <1>4, <1>5, <1>6 DEF Report
<1>8. /\ run'.pc = "done" /\ run'.cfg = c /\ run'.rep = rep /\ run'.code = code
      /\ run'.look = look /\ run'.undisturbed = u /\ run'.exit = x
  BY <1>7
<1>9. Judged(rep) /\ (u => Calm(rep) /\ t \in Sites /\ served[t] = rep.leaf)
  BY <1>1, <1>3, <1>6 DEF Reporting
<1>10. /\ x \in {0, 1, 3}
       /\ x \in {0, 3} => rep.seen = {rep.leaf} /\ rep.site = rep.leaf.site
       /\ x = 0 => /\ trusted(rep.leaf)
                   /\ dep.cvm.compose \in c.ExpectComposeFiles
                   /\ dep.cvm.os \in OSImages
                   /\ c.g.want = IF dep.cvm.net = "unreported" THEN "mainnet" ELSE dep.cvm.net
  <2>1. World /\ Judged(rep) /\ c.exit = 9
    BY <1>1, <1>7, <1>9
  <2>2. EarnedExit(x, rep, c)
    BY <1>2, <1>4, <1>5, <2>1, VerdictEarned, Zenon
  <2>3. QED
    BY <2>2 DEF EarnedExit
<1>11. EvidenceTypeOK'
  <2>1. (renewal.step \in {"idle", "manifest", "quote", "reload"})'
    BY DEF World, NoRenewal, Renewing
  <2>2. QED
    BY <1>8, <1>10, <2>1 DEF World, EvidenceTypeOK
<1>12. PassIsEarned'
  BY <1>1, <1>8, <1>10, <1>11 DEF PassIsEarned, reported, trusted
<1>13. c.g = g
  BY <1>2, <1>7, CheckerBuilt
<1>14. matches(c.g)' <=> matches(g)
  BY <1>1, <1>13 DEF matches
<1>15. ASSUME u, look.guest # "other_document", matches(g) PROVE FairExit(x, c, code)
  <2>1. Calm(rep) /\ t \in Sites /\ served[t] = rep.leaf /\ c.exit = 9
    BY <1>7, <1>9, <1>15
  <2>2. QED
    BY <1>1, <1>2, <1>4, <1>5, <1>15, <2>1, VerdictFair
<1>16. NoFalseAlarm'
  BY <1>1, <1>8, <1>13, <1>15 DEF FairExit, NoFalseAlarm, reported, demandUnmet, matches
<1>17. QED
  BY <1>8, <1>10, <1>12, <1>16 DEF RunInv, Verdict

-----------------------------------------------------------------------------
(* A step of dstack-ingress leaves a run that is still on its way as it was.   *)
LEMMA RunUndone ==
    ASSUME RunInv, run' = run, dep' = dep, run.pc # "done"
    PROVE  RunInv'
<1>1. CASE run = NotRun
  BY <1>1 DEF RunInv, NotRun
<1>2. CASE Fetching
  BY <1>2 DEF RunInv, Fetching, manifestOf
<1>3. CASE run.pc = "report" /\ Reporting
  BY <1>3 DEF RunInv, Reporting, Judged, Calm, trusted
<1>4. QED
  BY <1>1, <1>2, <1>3 DEF RunInv

LEMMA EvidenceStep == EvidenceInv /\ [EvidenceNext]_evidenceVars => EvidenceInv'
<1> SUFFICES ASSUME EvidenceInv, [EvidenceNext]_evidenceVars PROVE EvidenceInv'
  OBVIOUS
<1>1. World /\ RunInv
  BY DEF EvidenceInv
<1>2. UNCHANGED <<dep, served, files, renewal, renewed>> => World'
  BY <1>1 DEF World, Signed, Renewing, bundle, manifestOf, quote
<1>3. ASSUME NEW g \in Commands, NEW github \in BOOLEAN, Setup(g, github) PROVE EvidenceInv'
  <2>1. World'
    BY <1>2, <1>3 DEF Setup
  <2>2. QED
    BY <1>3, <2>1, SetupKeeps DEF EvidenceInv
<1>4. ASSUME NEW t \in Sites, NEW dial \in BOOLEAN, Fetch(t, dial) PROVE EvidenceInv'
  <2>1. World' /\ dep' = dep
    BY <1>2, <1>4 DEF Fetch
  <2>2. QED
    BY <1>4, <2>1, FetchKeeps DEF EvidenceInv
<1>5. ASSUME NEW g \in Commands, NEW github \in BOOLEAN, NEW look, NEW t, Report(g, github, look, t)
      PROVE  EvidenceInv'
  <2>1. World'
    BY <1>2, <1>5 DEF Report
  <2>2. QED
    BY <1>5, <2>1, ReportKeeps DEF EvidenceInv
<1>6. ASSUME run.pc # "done", UNCHANGED run,
             (\E s \in Replicas, key \in 0 .. 1 : Renew(s, key)) \/ RenewalStep
      PROVE  EvidenceInv'
  <2>1. World' /\ dep' = dep
    BY <1>1, <1>6, RenewKeeps, RenewalKeeps DEF Renew, RenewalStep
  <2>2. QED
    BY <1>1, <1>6, <2>1, RunUndone DEF EvidenceInv
<1>7. CASE UNCHANGED evidenceVars
  <2>1. World' /\ run' = run /\ dep' = dep
    BY <1>2, <1>7 DEF evidenceVars
  <2>2. CASE run.pc # "done"
    BY <1>1, <2>1, <2>2, RunUndone DEF EvidenceInv
  <2>3. CASE run.pc = "done"
    <3>1. Verdict
      BY <1>1, <2>3 DEF RunInv, NotRun, Fetching, FetchRec
    <3>2. Verdict'
      BY <1>7, <3>1 DEF evidenceVars, Verdict, PassIsEarned, NoFalseAlarm, EvidenceTypeOK, reported,
                        trusted, matches, demandUnmet
    <3>3. QED
      BY <2>1, <2>3, <3>2 DEF EvidenceInv, RunInv
  <2>4. QED
    BY <2>2, <2>3
<1>8. QED
  BY <1>3, <1>4, <1>5, <1>6, <1>7 DEF EvidenceNext

LEMMA EvidenceInvHolds == EvidenceSpec => []EvidenceInv
  BY EvidenceInitOK, EvidenceStep, PTL DEF EvidenceSpec

(* Where a run is, its properties hold.                                        *)
LEMMA EvidenceShown == EvidenceInv => PassIsEarned /\ NoFalseAlarm
<1> SUFFICES ASSUME EvidenceInv PROVE PassIsEarned /\ NoFalseAlarm
  OBVIOUS
<1>1. CASE run.pc = "done"
  BY <1>1 DEF EvidenceInv, RunInv, NotRun, Fetching, FetchRec, Verdict
<1>2. CASE run.pc # "done"
  <2>1. ~reported
    BY <1>2 DEF reported
  <2>2. /\ run.pc \in {"setup", "manifest", "acct", "cert", "quote", "report"}
        /\ run.exit = 9
    BY <1>2 DEF EvidenceInv, RunInv, NotRun, Fetching, FetchRec, Reporting
  <2>3. renewal.step \in {"idle", "manifest", "quote", "reload"}
    BY DEF EvidenceInv, World, NoRenewal, Renewing
  <2>4. EvidenceTypeOK
    BY <2>2, <2>3 DEF EvidenceInv, World, EvidenceTypeOK
  <2>5. QED
    BY <2>1, <2>4 DEF PassIsEarned, NoFalseAlarm
<1>3. QED
  BY <1>1, <1>2

(* Whoever answers a run's fetches, whatever is relayed, renewed or dialed     *)
(* again between them: a gateway pcverify does not fail is one CVM from end to *)
(* end, and one it passes is the domain's own, on an expected compose, a       *)
(* listed OS image and the wanted chain.                                       *)
THEOREM PassIsEarnedHolds == EvidenceSpec => []PassIsEarned
  BY EvidenceInvHolds, EvidenceShown, PTL

(* A gateway that is as the command line describes it, and that nothing        *)
(* disturbed, fails only for a demand that could not be met, and passes when   *)
(* every lookup answers.                                                       *)
THEOREM NoFalseAlarmHolds == EvidenceSpec => []NoFalseAlarm
  BY EvidenceInvHolds, EvidenceShown, PTL
=============================================================================
