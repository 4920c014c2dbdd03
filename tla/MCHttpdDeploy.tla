--------------------------- MODULE MCHttpdDeploy ---------------------------
(* Four files that every tool accepts, and files that differ from one of   *)
(* them in one respect.  Somebody edits a file into its neighbour, or back.*)
EXTENDS HttpdDeploy

Route(method, path, kind, pool, requires) ==
  [key |-> TRUE, method |-> method, path |-> path, kind |-> kind, host |-> None,
   pool |-> pool, requires |-> requires]

Health == Route("GET", <<"health">>, "exact", None, {})
Chat   == Route("POST", <<"v1", "chat">>, "exact", "api", {"traceparent"})
Chats  == Route("POST", <<"v1">>, "prefix", "api", {"traceparent"})
Socket(pool) == Route("GET", <<"ws">>, "exact", pool, {"websocket"})
Acme   == Route("GET", <<".well-known", "acme-challenge">>, "prefix", None, {})

Peer == [scheme |-> "http", host |-> "loopback", port |-> TRUE]
Pool(peers) == "api" :> [balance |-> None, peers |-> peers]

Static ==
  [snake |-> TRUE, junk |-> FALSE, listen |-> "loopback", port |-> TRUE, http |-> None, root |-> TRUE,
   sizes |-> TRUE, sites |-> 0, routes |-> <<Health>>, pools |-> <<>>, host |-> None, tls |-> None,
   idle |-> None, maxdur |-> None, conc |-> None, match |-> <<>>, queue |-> None, cb |-> None,
   hooks |-> None, h2 |-> None, l4 |-> None, tb |-> None, leak |-> None, rng |-> None,
   profile |-> "production"]

Censor(all) ==
  [enabled |-> TRUE, detect |-> None, paths |-> TRUE, patterns |-> TRUE, names |-> TRUE,
   deny |-> {"password"}, generated |-> all]
Rng(mode) == [mode |-> mode, seed |-> TRUE, schedule |-> FALSE, allowed |-> FALSE]

Gateway ==
  [Static EXCEPT !.routes = <<Health, Chat, Chats>>, !.pools = Pool(<<Peer>>),
                 !.idle = 120, !.maxdur = 600, !.conc = 100,
                 !.match = <<[model |-> "m1", pool |-> "api"]>>, !.leak = Censor(TRUE)]

Tls(mode) ==
  [form |-> "table", mode |-> mode, minp |-> "1.3", dh |-> None, files |-> TRUE, dev |-> TRUE,
   days |-> 90, key |-> "rsa2048", renew |-> 30, email |-> TRUE, domains |-> <<>>,
   env |-> "staging", terminate |-> FALSE]

Authority == [Static EXCEPT !.listen = "public", !.host = "a.org",
                            !.routes = <<[Health EXCEPT !.host = "b.org"]>>,
                            !.tls = [Tls("lets_encrypt") EXCEPT !.domains = <<"a.org", "b.org">>]]

Edge == [Static EXCEPT !.listen = "public", !.h2 = 256,
                       !.tls = [Tls("self_signed") EXCEPT !.terminate = TRUE]]

Queue(depth) == [depth |-> depth, wait |-> 10]
Breaker(probes) == [errors |-> 5, window |-> 10, open |-> 10, probes |-> probes]
L4(listen, upstream) ==
  [listen |-> listen, upstream |-> upstream, allowed |-> FALSE, port |-> 5432, conns |-> 256]
Hooks(kind) == <<[url |-> 1, kind |-> kind]>>

NearStatic ==
  <<[Static EXCEPT !.snake = FALSE], [Static EXCEPT !.junk = TRUE], [Static EXCEPT !.listen = None],
   [Static EXCEPT !.port = FALSE], [Static EXCEPT !.http = Bad], [Static EXCEPT !.root = FALSE], [Static EXCEPT !.sizes = FALSE],
   [Static EXCEPT !.sites = 1], [Static EXCEPT !.sites = 2], [Static EXCEPT !.listen = "public"],
   [Static EXCEPT !.routes = <<Health, [Chat EXCEPT !.key = FALSE]>>],
   [Static EXCEPT !.routes = <<Health, Health>>],
   [Static EXCEPT !.routes = <<Socket(None)>>],
   [Static EXCEPT !.tls = [Tls("self_signed") EXCEPT !.form = "short", !.dev = FALSE]],
   [Static EXCEPT !.tls = [Tls("manual") EXCEPT !.files = FALSE]],
   [Static EXCEPT !.tls = Tls("manual")], [Static EXCEPT !.tls = Tls("off")],
   [Authority EXCEPT !.tls.email = FALSE], [Authority EXCEPT !.tls.domains = <<"c.org">>],
   [Authority EXCEPT !.routes = <<Acme>>],
   [Static EXCEPT !.rng = Rng("sim")], [Static EXCEPT !.rng = Rng("prng")],
   [Static EXCEPT !.conc = Bad], [Static EXCEPT !.queue = Queue(10)],
   [Static EXCEPT !.tb = [header |-> TRUE, cap |-> 0]],
   [Static EXCEPT !.l4 = L4("public", "host")], [Static EXCEPT !.l4 = L4("loopback", "private")],
   [Static EXCEPT !.hooks = Hooks("https")], [Static EXCEPT !.hooks = Hooks("private")]>>

NearGateway ==
  <<[Gateway EXCEPT !.routes[2].requires = {}], [Gateway EXCEPT !.idle = None],
   [Gateway EXCEPT !.maxdur = 60], [Gateway EXCEPT !.conc = Bad], [Gateway EXCEPT !.idle = 4000],
   [Gateway EXCEPT !.pools = Pool(<<>>)], [Gateway EXCEPT !.pools = <<>>],
   [Gateway EXCEPT !.pools = Pool(<<[Peer EXCEPT !.port = FALSE]>>)],
   [Gateway EXCEPT !.pools = Pool(<<[Peer EXCEPT !.host = "remote"]>>)],
   [Gateway EXCEPT !.pools["api"].balance = Bad],
   [Gateway EXCEPT !.match = @ \o @], [Gateway EXCEPT !.match = <<[model |-> Bad, pool |-> "api"]>>],
   [Gateway EXCEPT !.match = <<[model |-> "m1", pool |-> "other"]>>],
   [Gateway EXCEPT !.queue = Queue(10)], [Gateway EXCEPT !.queue = Queue(20000)],
   [Gateway EXCEPT !.cb = Breaker(1)], [Gateway EXCEPT !.cb = Breaker(9)],
   [Gateway EXCEPT !.routes = @ \o <<Socket("api")>>], [Gateway EXCEPT !.sites = 1],
   [Gateway EXCEPT !.leak = Censor(FALSE)], [Gateway EXCEPT !.leak = [@ EXCEPT !.patterns = FALSE]]>>

NearAuthority ==
  <<[Authority EXCEPT !.host = "b.org", !.tls.domains = <<>>], [Authority EXCEPT !.tls.env = "production"],
   [Authority EXCEPT !.http = "port"],
   [Authority EXCEPT !.tls = Tls("self_signed")], [Authority EXCEPT !.tls.dh = "out"]>>

NearEdge ==
  <<[Edge EXCEPT !.tls.terminate = FALSE], [Edge EXCEPT !.tls.minp = "1.2"], [Edge EXCEPT !.tls.dev = FALSE],
   [Edge EXCEPT !.tls.minp = "1.2", !.tls.dh = "in"], [Edge EXCEPT !.h2 = None, !.tls.minp = "1.2"],
   [Edge EXCEPT !.h2 = None, !.tls.minp = "1.2", !.tls.dh = "in"], [Edge EXCEPT !.h2 = 5000]>>

Groups ==
  <<<<Static>> \o NearStatic, <<Gateway>> \o NearGateway, <<Authority>> \o NearAuthority, <<Edge>> \o NearEdge>>

MCFiles == [v \in UNION {{g} \X DOMAIN Groups[g] : g \in 1..4} |-> Groups[v[1]][v[2]]]
MCEdits ==
  {e \in (DOMAIN MCFiles) \X (DOMAIN MCFiles) : e[1][1] = e[2][1] /\ e[1] # e[2] /\ 1 \in {e[1][2], e[2][2]}}

Column(name) == [name |-> name, secret |-> name = "token", marked |-> name = "note"]
MCMigrations ==
  ("m1" :> [table |-> [rows |-> <<<<Column("id")>>, <<Column("token"), Column("note")>>>>, closed |-> TRUE],
            added |-> {}])
  @@ ("m2" :> [table |-> [rows |-> <<<<Column("token")>>>>, closed |-> FALSE], added |-> {Column("note")}])

MCManifests == {None, {"m2"}}
===========================================================================
