---------------------------- MODULE HttpdOracle ----------------------------
(***************************************************************************)
(* What the tools of the HTTP server accept of li-httpd.toml, and the      *)
(* runtime.conf flatten-httpd-config makes of it, as pure operators.       *)
(*                                                                         *)
(* A configuration is a record.  A table or key that is missing is None; a *)
(* string is replaced by what the tools look at: an address is "public",   *)
(* "loopback" or None, the path of a route a sequence of segments, a URL   *)
(* its kind, a number with a unit its seconds; Bad is one that does not    *)
(* parse.  Fields:                                                         *)
(*   snake, junk       keys are snake_case; a number that nobody validates *)
(*                     is malformed (workers, rate limits, health)         *)
(*   listen, port      server.listen, and whether it names a port          *)
(*   http              server.listen_http: "port", or Bad without one      *)
(*   root, sizes       document_root; max_body and max_header are there    *)
(*                     and no forbidden text is                            *)
(*   sites, routes     number of [[site]] tables; the routes, in [routes]  *)
(*                     or else in every site                               *)
(*   pools             upstreams: [peers, balance] by name                 *)
(*   host, tls         server.host and server.tls                          *)
(*   idle, maxdur, conc, match, queue, cb, hooks, h2, l4, tb, leak, rng,   *)
(*   profile           as their tables                                     *)
(***************************************************************************)
EXTENDS Naturals, Sequences, FiniteSets, SequencesExt

CONSTANTS
  None,  \* a table or a key that is missing
  Bad    \* a value that does not parse

InRange(n, hi) == n \notin {None, Bad} /\ n \in 1..hi

(* Tables of [routes]; the routes of a [[site]] are not among them. *)
TopRoutes(c) == IF c.sites = 0 THEN ToSet(c.routes) ELSE {}
HasProxyRoutes(c) == \E r \in TopRoutes(c) : r.pool # None

-----------------------------------------------------------------------------
(* Key style, limits of streams, and routing by model. *)

StyleOk(c) == c.snake

M15Active(c) ==
  \/ c.idle # None
  \/ c.conc # None
  \/ c.match # <<>>
  \/ \E r \in TopRoutes(c) : "traceparent" \in r.requires

(* A plausible bug: a stream may idle for longer than it may last. *)
LimitsUnordered(c) ==
  (M15Active(c) /\ HasProxyRoutes(c)) =>
    InRange(c.idle, 3600) /\ InRange(c.maxdur, 86400) /\ InRange(c.conc, 10000)

M15LimitsOk(c) ==
  (M15Active(c) /\ HasProxyRoutes(c)) =>
    /\ InRange(c.idle, 3600)
    /\ InRange(c.maxdur, 86400)
    /\ c.maxdur >= c.idle
    /\ InRange(c.conc, 10000)

RouteMatchOk(c) ==
  /\ \A x \in ToSet(c.match) : x.model # Bad /\ x.pool \in DOMAIN c.pools
  /\ \A i, j \in DOMAIN c.match : c.match[i].model = c.match[j].model => i = j

(* A proxy route for inference, on /v1, has to require traceparent. *)
Inference(r) ==
  /\ r.pool # None
  /\ \E i \in DOMAIN r.path : r.path[i] = "v1" /\ (i = 1 \/ i < Len(r.path) \/ r.kind # "exact")

InferenceOk(c) ==
  M15Active(c) => \A r \in TopRoutes(c) : Inference(r) => "traceparent" \in r.requires

-----------------------------------------------------------------------------
(* The censor of leaks, and random numbers. *)

(* g is leak_censor.generated.toml: None, Bad when it does not parse, or   *)
(* its contents.  A configuration that includes it has it parsed.          *)
PathsOf(g) == IF g = None THEN {} ELSE g.paths
Generated(include, g) == IF include THEN PathsOf(g) ELSE {}

(* A plausible bug: the generated file is left out of the check. *)
LeakUngenerated(c, g) ==
  c.leak # None => c.leak.detect \in {None, "redact", "block_502", "abort_stream"}
                   /\ c.leak.paths /\ c.leak.patterns /\ c.leak.names

LeakOk(c, g) ==
  c.leak # None =>
    /\ c.leak.detect \in {None, "redact", "block_502", "abort_stream"}
    /\ c.leak.paths /\ c.leak.patterns /\ c.leak.names
    /\ c.leak.generated => g # Bad
    /\ Cardinality(c.leak.deny \cup Generated(c.leak.generated, g)) <= 256

LeakEnabled(c) == c.leak # None /\ c.leak.enabled

(* The mode "bad" is for a test harness with a variable of its own.  A     *)
(* shorthand server.tls = "..." does not count as TLS here. *)
TlsTable(c) == c.tls # None /\ c.tls.form = "table" /\ c.tls.mode # None

RngOk(c) ==
  c.rng # None =>
    /\ c.rng.mode \in {"os", "prng", "sim"}
    /\ c.rng.mode = "sim" => c.rng.schedule
    /\ c.rng.mode = "prng" =>
         /\ c.rng.seed
         /\ (TlsTable(c) /\ c.profile = "production") => c.rng.allowed

-----------------------------------------------------------------------------
(* TLS. *)

Public(c) == c.listen = "public"
RouteHosts(c) == ({c.host} \cup {r.host : r \in TopRoutes(c)}) \ {None}

(* The certificate authority asks below this path; a route whose key has   *)
(* the path with a slash behind it is refused.                             *)
AcmeReserved(r) ==
  /\ Len(r.path) >= 2 /\ SubSeq(r.path, 1, 2) = <<".well-known", "acme-challenge">>
  /\ Len(r.path) > 2 \/ r.kind # "exact"

TlsOn(c) == c.listen # None /\ c.tls # None

(* The names the certificate is for; without any, the host of the server. *)
Domains(c) ==
  IF c.tls.mode = "lets_encrypt" /\ c.tls.domains = <<>> /\ c.host # None
  THEN <<c.host>> ELSE c.tls.domains

ProfileOk(c) ==
  /\ c.tls.mode \in {"manual", "self_signed", "lets_encrypt"}
  /\ c.tls.minp \in {"1.2", "1.3"}
  /\ c.tls.days \in 1..365 /\ c.tls.key # Bad
  /\ c.tls.env \in {"staging", "production"}
  /\ c.tls.renew # Bad

TlsOk(c) ==
  /\ Public(c) => c.tls # None
  /\ TlsOn(c) =>
       /\ ProfileOk(c)
       /\ c.tls.mode = "manual" => c.tls.files
       /\ (c.tls.mode = "self_signed" /\ Public(c)) => c.tls.dev
       /\ c.tls.mode = "lets_encrypt" =>
            /\ c.tls.email
            /\ Domains(c) # <<>> /\ ToSet(Domains(c)) \subseteq RouteHosts(c)
       /\ \A r \in TopRoutes(c) : ~AcmeReserved(r)

-----------------------------------------------------------------------------
(* Scale: TLS terminated here, HTTP/2, queue, circuit breaker, webhooks. *)

H2On(c) == c.h2 # None
Terminate(c) == c.tls # None /\ c.tls.form = "table" /\ c.tls.terminate

M2Active(c) ==
  \/ H2On(c) \/ Terminate(c)
  \/ c.queue # None \/ c.cb # None \/ c.hooks # None
  \/ \E r \in TopRoutes(c) : "websocket" \in r.requires

M2TlsOk(c) ==
  M2Active(c) =>
    /\ H2On(c) => Terminate(c)
    /\ (H2On(c) \/ Terminate(c)) =>
         /\ TlsOn(c) /\ TlsOk(c)
         /\ c.tls.minp # "1.3" => ~H2On(c) /\ c.tls.dh # None /\ c.tls.minp = "1.2"
         /\ (Terminate(c) /\ Public(c) /\ c.tls.mode = "self_signed") => c.tls.dev

Http2Ok(c) == H2On(c) => InRange(c.h2, 4096)

QueueOk(c) ==
  c.queue # None =>
    HasProxyRoutes(c) /\ InRange(c.queue.depth, 10000) /\ InRange(c.queue.wait, 3600)

BreakerOk(c) ==
  c.cb # None =>
    /\ HasProxyRoutes(c)
    /\ InRange(c.cb.errors, 1000) /\ InRange(c.cb.window, 600)
    /\ InRange(c.cb.open, 600) /\ InRange(c.cb.probes, 8)

WebhooksOk(c) ==
  c.hooks # None =>
    /\ Len(c.hooks) \in 1..32
    /\ \A h \in ToSet(c.hooks) : h.kind = "https"
    /\ \A i, j \in DOMAIN c.hooks : c.hooks[i] = c.hooks[j] => i = j

WebsocketOk(c) == \A r \in TopRoutes(c) : "websocket" \in r.requires => r.pool # None

M2Ok(c) == M2TlsOk(c) /\ Http2Ok(c) /\ QueueOk(c) /\ BreakerOk(c) /\ WebhooksOk(c) /\ WebsocketOk(c)

-----------------------------------------------------------------------------
(* Streams passed on below HTTP, and budgets of tokens. *)

L4Ok(c) ==
  c.l4 # None =>
    /\ c.l4.listen # None
    /\ c.l4.listen # "loopback" => TlsTable(c)
    /\ c.l4.upstream = "host" \/ (c.l4.upstream = "private" /\ c.l4.allowed)
    /\ InRange(c.l4.port, 65535) /\ InRange(c.l4.conns, 10000)

TokensOk(c) == c.tb # None => c.tb.header /\ InRange(c.tb.cap, 10000000)

M3Ok(c) == L4Ok(c) /\ TokensOk(c)

-----------------------------------------------------------------------------
(* load_httpd_full and load_httpd_sites. *)

OracleOk(c, g) ==
  /\ StyleOk(c)
  /\ M15LimitsOk(c) /\ RouteMatchOk(c) /\ InferenceOk(c)
  /\ LeakOk(c, g) /\ TlsOk(c) /\ M2Ok(c) /\ M3Ok(c) /\ RngOk(c)

RouteKeyOk(r) == r.key /\ r.requires \subseteq {"traceparent", "websocket"}

Below(p, q) == Len(q) <= Len(p) /\ SubSeq(p, 1, Len(q)) = q

Overlap(a, b) ==
  /\ a.method = b.method
  /\ CASE a.kind = "exact" /\ b.kind = "exact" -> a.path = b.path
       [] a.kind # "exact" /\ b.kind # "exact" -> Below(a.path, b.path) \/ Below(b.path, a.path)
       [] OTHER -> a.path = b.path

(* The priority of a route is its place in the file, so that no two are    *)
(* the same and the check for overlaps refuses nothing.                    *)
Priority(c, i) == i

RoutesOk(c) ==
  /\ \A r \in ToSet(c.routes) : RouteKeyOk(r)
  /\ \A i, j \in DOMAIN c.routes :
       (i < j /\ Overlap(c.routes[i], c.routes[j])) => Priority(c, i) # Priority(c, j)

UpstreamsOk(c) ==
  \A p \in DOMAIN c.pools : c.pools[p].balance # Bad /\ c.pools[p].peers # <<>>

PoolsKnown(c) == \A r \in ToSet(c.routes) : r.pool = None \/ r.pool \in DOMAIN c.pools

SitesOk(c) == RoutesOk(c) /\ UpstreamsOk(c) /\ PoolsKnown(c)

(* One site at most; the routes of a site were not seen by the oracle. *)
FullOk(c, g) == OracleOk(c, g) /\ c.sites <= 1 /\ SitesOk(c)

-----------------------------------------------------------------------------
(* validate-httpd-config: its own checks, then a load by another reader. *)

PeerOk(p, allowed) ==
  p.scheme = "http" /\ (p.host = "loopback" \/ p.host \in allowed) /\ p.port

ValidateOk(c, allowed) ==
  /\ StyleOk(c)
  /\ c.listen # None \/ c.sites > 0
  /\ c.root /\ c.sizes
  /\ \A p \in DOMAIN c.pools :
       /\ c.pools[p].balance # Bad /\ c.pools[p].peers # <<>>
       /\ \A x \in ToSet(c.pools[p].peers) : PeerOk(x, allowed)
  /\ PoolsKnown(c) /\ RngOk(c)

-----------------------------------------------------------------------------
(* Columns of the database whose paths the censor denies.  A table is its  *)
(* lines, each a sequence of columns, and whether its closing parenthesis  *)
(* has a line of its own; only the first column of a line that ends before *)
(* the parenthesis is seen.                                                *)

Sensitive(col) == col.secret \/ col.marked

TableColumns(t) ==
  LET last == IF t.closed THEN Len(t.rows) ELSE Len(t.rows) - 1
  IN  {Head(t.rows[i]) : i \in 1..last}

Discovered(migration) ==
  {col.name : col \in {x \in TableColumns(migration.table) \cup migration.added : Sensitive(x)}}

DefaultPaths == {"raw_stderr"}

(* The manifest of applied migrations, when there is one, limits them. *)
Catalog(migrations, manifest) ==
  DefaultPaths \cup
  UNION {Discovered(migrations[n]) : n \in
           {n \in DOMAIN migrations : manifest = None \/ n \in manifest}}

-----------------------------------------------------------------------------
(* flatten-httpd-config.  d is the file as it was read first, r the routes *)
(* of the file as it was read and checked after that, g the generated file *)
(* of the censor.                                                          *)

Peers(d) == UNION {{<<p, i>> : i \in DOMAIN d.pools[p].peers} : p \in DOMAIN d.pools}
PeersParse(d) ==
  \A p \in DOMAIN d.pools : \A x \in ToSet(d.pools[p].peers) : x.scheme = "http" /\ x.port
ModelsOk(d) == RouteMatchOk(d) /\ \A x \in ToSet(d.match) : d.pools[x.pool].peers # <<>>

(* Numbers and durations that are turned into lines as they are. *)
Parses(d) ==
  /\ ~d.junk
  /\ (d.listen # None => d.port) /\ d.http # Bad
  /\ Bad \notin {d.idle, d.maxdur, d.conc} /\ 0 \notin {d.idle, d.maxdur}

(* A plausible bug: TLS is left to the check of the second read. *)
FlattenUnchecked(d) ==
  /\ StyleOk(d) /\ Parses(d) /\ PeersParse(d) /\ ModelsOk(d)
  /\ d.listen # None /\ d.root
  /\ d.queue # None => {d.queue.depth, d.queue.wait} \cap {None, Bad} = {}

FlattenOk(d) ==
  /\ StyleOk(d) /\ Parses(d) /\ PeersParse(d) /\ ModelsOk(d) /\ TlsOk(d)
  /\ d.listen # None /\ d.root
  /\ d.queue # None => {d.queue.depth, d.queue.wait} \cap {None, Bad} = {}
  /\ d.cb # None => {d.cb.errors, d.cb.window, d.cb.open, d.cb.probes} \cap {None, Bad} = {}
  /\ d.h2 # Bad
  /\ d.l4 # None => d.l4.listen # None /\ d.l4.port \notin {None, Bad} /\ d.l4.conns # Bad
  /\ d.tb # None => d.tb.cap \notin {None, Bad}

(* The lines of TLS, without --cert-dir. *)
TlsLines(d) ==
  IF ~TlsOn(d) THEN [on |-> FALSE]
  ELSE [on |-> TRUE, mode |-> d.tls.mode, minp |-> d.tls.minp, dev |-> d.tls.dev,
        dh |-> d.tls.dh,
        domains |-> IF d.tls.mode = "lets_encrypt" THEN Domains(d) ELSE <<>>,
        env |-> d.tls.env]

M2Lines(d) ==
  [terminate |-> Terminate(d), h2 |-> d.h2, queue |-> d.queue, cb |-> d.cb,
   hooks |-> IF d.hooks = None THEN <<>> ELSE d.hooks,
   websockets |-> {r \in TopRoutes(d) : "websocket" \in r.requires}]

M3Lines(d) == [l4 |-> d.l4, tb |-> d.tb]

RouteLine(r) == [method |-> r.method, path |-> r.path, kind |-> r.kind, pool |-> r.pool]

(* The generated file is parsed once more, if the censor is on. *)
Includes(d) == LeakEnabled(d) /\ d.leak.generated

CensorLines(d, g) ==
  IF ~LeakEnabled(d) THEN [on |-> FALSE, deny |-> {}]
  ELSE [on |-> TRUE, deny |-> d.leak.deny \cup Generated(d.leak.generated, g)]

(* Of the addresses only the ports are left. *)
Flat(d, r, g) ==
  [port |-> d.listen # None, http |-> d.http # None,
   limits |-> [idle |-> d.idle, maxdur |-> d.maxdur, conc |-> d.conc],
   routes |-> [i \in DOMAIN r |-> RouteLine(r[i])],
   traced |-> {RouteLine(x) : x \in {x \in ToSet(r) : "traceparent" \in x.requires}},
   peers |-> Peers(d),
   models |-> ToSet(d.match),
   proxyAll |-> (\E x \in ToSet(r) : x.pool # None) /\ Peers(d) = {},
   censor |-> CensorLines(d, g),
   tls |-> TlsLines(d), m2 |-> M2Lines(d), m3 |-> M3Lines(d)]

(* Where the server listens, whatever lines it loads: tcp_listen takes no  *)
(* address and binds every one the machine has.                            *)
ListenAddress == "public"

=============================================================================
