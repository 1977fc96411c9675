---------------------------- MODULE MCEnforcement ----------------------------
(* A release published while the gateway runs, a build that is no release  *)
(* and one of another repository.                                          *)
EXTENDS Enforcement

svc(block, repo, digest) == [block |-> block, repo |-> repo, digest |-> digest, pinnable |-> TRUE]
want(block, rule, repo, digest) == [block |-> block, repository |-> rule, repo |-> repo, digest |-> digest]

mcBaseline == [services |-> [broker |-> want("broker", "zg", empty, empty),
                             controller |-> want("controller", empty, "zg-controller", "c1")],
               top |-> "volumes"]

controller == svc("controller", "zg-controller", "c1")
manifest(services) == [load |-> "ok", services |-> services, top |-> "volumes"]
recorded(repo, digest) == manifest([broker |-> svc("broker", repo, digest), controller |-> controller])

mcManifests ==
    [m \in {"pinned", "branch", "extra", "foreign", "tag", "top", "not_read", "refused"} |->
        CASE m = "pinned" -> recorded("zg", "v1")
          [] m = "branch" -> recorded("zg", "wip")
          [] m = "extra" -> manifest([broker |-> svc("broker", "zg", "v1"), controller |-> controller,
                                      spy |-> svc("spy", "x", "x1")])
          [] m = "foreign" -> recorded("x", "fork")
          [] m = "tag" -> recorded("zg", empty)
          [] m = "top" -> [recorded("zg", "v1") EXCEPT !.top = "bind_mounts"]
          [] OTHER -> [recorded("zg", "v1") EXCEPT !.load = m]]

mcUploads == [v1 |-> {"signature", "provenance"}, wip |-> {"branch", "garbled"}, fork |-> {}]

mcReports(m) ==
    {[v |-> 1, hash |-> m, kp |-> empty, inst |-> empty, opts |-> {}],
     [v |-> 3, hash |-> m, kp |-> "kms", inst |-> "i", opts |-> {<<"app-id", "app">>}],
     [v |-> 3, hash |-> m, kp |-> "kms", inst |-> "i", opts |-> {<<"custom", "x">>}]}
=============================================================================
