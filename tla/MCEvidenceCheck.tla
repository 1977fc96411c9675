--------------------------- MODULE MCEvidenceCheck ---------------------------
(* One good deployment of each launch-document version, and ways to be wrong. *)
EXTENDS EvidenceCheck

good == [compose |-> "v1", os |-> "os1", v |-> 1, log |-> TRUE, net |-> "mainnet"]
deploy(c) == [cvm |-> c, publicCA |-> TRUE]
mcDeployments ==
    {deploy(good),
     deploy([good EXCEPT !.v = 3]),
     deploy([good EXCEPT !.v = 3, !.log = FALSE]),
     deploy([good EXCEPT !.compose = "wip", !.log = FALSE]),
     deploy([good EXCEPT !.os = "os2"]),
     deploy([good EXCEPT !.net = "testnet", !.log = FALSE]),
     [cvm |-> [good EXCEPT !.net = "unreported"], publicCA |-> FALSE]}

default == [supplied |-> "", base |-> FALSE, appID |-> FALSE, noCloud |-> FALSE, noDNS |-> FALSE,
            expect |-> "default", pinned |-> "", strict |-> FALSE, waive |-> FALSE,
            osImages |-> TRUE, want |-> "mainnet"]
mcCommands ==
    {default,
     [default EXCEPT !.strict = TRUE],
     [default EXCEPT !.expect = "releases", !.want = "testnet"],
     [default EXCEPT !.expect = "pinned", !.pinned = "v1", !.supplied = "v1"],
     [default EXCEPT !.expect = "pinned", !.pinned = "wip", !.base = TRUE, !.noCloud = TRUE],
     [default EXCEPT !.expect = "off", !.noDNS = TRUE],
     [default EXCEPT !.expect = "both"],
     [default EXCEPT !.appID = TRUE, !.noDNS = TRUE, !.waive = TRUE],
     [default EXCEPT !.osImages = FALSE, !.want = "", !.waive = TRUE],
     [default EXCEPT !.expect = "pinned", !.pinned = "v1", !.noDNS = TRUE, !.noCloud = TRUE]}
=============================================================================
