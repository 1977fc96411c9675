---------------------------- MODULE MCGatewayEntry ----------------------------
(* GatewayEntry with every shape of one request, and a few of them contending  *)
(* for one slot.                                                               *)
EXTENDS GatewayEntry, TLC

Body(size, shape, model, stream, url) ==
    [size |-> size, shape |-> shape, model |-> model, stream |-> stream, url |-> url]
Plain == Body("sealable", "json", "listed", "no", FALSE)
Path(res, form, key) == [res |-> res, form |-> form, key |-> key]
Ask(path, method, body) ==
    [path |-> path, method |-> method, auth |-> "key", cookie |-> FALSE, origin |-> "none", body |-> body]

AllPaths == {p \in Paths : p.key # "none" => p.res = "jobs"}

(* Every body on every row, spelled as registered or otherwise; every caller   *)
(* on every path and method.                                                   *)
EveryBody == {Ask(p, "POST", b) : p \in {x \in AllPaths : x.res \in Rows /\ x.form \in {"exact", "case", "sub"}},
                                  b \in Bodies}
EveryCaller ==
    {[path |-> p, method |-> m, auth |-> a, cookie |-> c, origin |-> o, body |-> Plain] :
        p \in AllPaths, m \in {"GET", "POST", "preflight"}, a \in {"none", "nonbearer", "mgmt", "key"},
        c \in BOOLEAN, o \in {"none", "allowed", "foreign"}}
Everything == EveryBody \cup EveryCaller

AllPolicies ==
    {[seal |-> "off", open |-> FALSE, served |-> Rows], [seal |-> "all", open |-> TRUE, served |-> {"chat"}],
     [seal |-> "list", open |-> FALSE, served |-> Rows], [seal |-> "list", open |-> TRUE, served |-> Rows]}

(* Contention: streams, buffered calls, polls and forwarded bodies.            *)
Mixed ==
    {Ask(Path("chat", "exact", "none"), "POST", [Plain EXCEPT !.stream = "yes"]),
     Ask(Path("messages", "exact", "none"), "POST", [Plain EXCEPT !.stream = "yes"]),
     Ask(Path("image", "slash", "none"), "POST", Plain),
     Ask(Path("chat", "case", "none"), "POST", [Plain EXCEPT !.model = "unlisted", !.size = "forwardable"]),
     Ask(Path("jobs", "exact", "good"), "GET", Plain)}
=============================================================================
