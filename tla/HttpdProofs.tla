---------------------------- MODULE HttpdProofs ----------------------------
(***************************************************************************)
(* The tools of the HTTP server, for every set of configurations, edits    *)
(* and migrations and any number of runs.                                  *)
(*                                                                         *)
(* The invariant has two parts that share no variable.  Shell is what the  *)
(* checks of a tool say of the file they saw, and what runtime.conf and    *)
(* the generated paths were made from.  Keys is how far a run of           *)
(* setup-tls-httpd has come, as long as no other wrote since it began.     *)
(***************************************************************************)
EXTENDS HttpdDeploy, TLAPS

-----------------------------------------------------------------------------
(* What the checks say of a file.                                          *)

LEMMA NoneNotBad == None # Bad
BY MissingAssumption

LEMMA InRangeParses ==
  ASSUME NEW n, NEW hi, InRange(n, hi) PROVE n # None /\ n # Bad
BY Zenon DEF InRange

\* A file that both readers of validate-httpd-config accept, flatten-httpd-config takes.
LEMMA ValidFlattens ==
  ASSUME NEW c, NEW allowed, ValidateOk(c, allowed), NEW g, FullOk(c, g), c.sites = 0, c.port, Parses(c)
  PROVE  FlattenOk(c)
<1>1. OracleOk(c, g) /\ StyleOk(c) /\ TlsOk(c) /\ RouteMatchOk(c) /\ M2Ok(c) /\ M3Ok(c)
  BY DEF FullOk, OracleOk
<1>2. PeersParse(c)
  BY DEF ValidateOk, PeerOk, PeersParse
<1>3. ModelsOk(c)
  BY <1>1 DEF ModelsOk, RouteMatchOk, ValidateOk
<1>4. c.listen # None /\ c.root
  BY DEF ValidateOk
<1>5. c.queue # None => {c.queue.depth, c.queue.wait} \cap {None, Bad} = {}
  BY <1>1, InRangeParses DEF M2Ok, QueueOk
<1>6. c.cb # None => {c.cb.errors, c.cb.window, c.cb.open, c.cb.probes} \cap {None, Bad} = {}
  BY <1>1, InRangeParses DEF M2Ok, BreakerOk
<1>7. c.h2 # Bad
  BY <1>1, NoneNotBad, InRangeParses DEF M2Ok, Http2Ok, H2On
<1>8. c.l4 # None => c.l4.listen # None /\ c.l4.port \notin {None, Bad} /\ c.l4.conns # Bad
  BY <1>1, InRangeParses DEF M3Ok, L4Ok
<1>9. c.tb # None => c.tb.cap \notin {None, Bad}
  BY <1>1, InRangeParses, SMT DEF M3Ok, TokensOk
<1> QED BY <1>1, <1>2, <1>3, <1>4, <1>5, <1>6, <1>7, <1>8, <1>9 DEF FlattenOk

\* A file that asks for a public address has TLS, whose certificate is signed or for development.
LEMMA FlattenPublic ==
  ASSUME NEW c, FlattenOk(c), NEW r, NEW g
  PROVE  LET l == Flat(c, r, g)
         IN  /\ l.port
             /\ c.listen = "public" => l.tls.on /\ (l.tls.mode = "self_signed" => l.tls.dev)
<1> DEFINE l == Flat(c, r, g)
<1>1. l.port = (c.listen # None) /\ l.tls = TlsLines(c)
  BY DEF Flat
<1>2. c.listen # None /\ TlsOk(c)
  BY DEF FlattenOk
<1> HIDE DEF l
<1>3. ASSUME c.listen = "public"
      PROVE  l.tls.on /\ (l.tls.mode = "self_signed" => l.tls.dev)
  <2>1. TlsOn(c)
    BY <1>2, <1>3 DEF TlsOk, TlsOn, Public
  <2>2. l.tls.on /\ l.tls.mode = c.tls.mode /\ l.tls.dev = c.tls.dev
    BY <1>1, <2>1 DEF TlsLines
  <2>3. c.tls.mode = "self_signed" => c.tls.dev
    BY <1>2, <1>3, <2>1 DEF TlsOk, Public
  <2> QED BY <2>2, <2>3
<1>4. l.port
  BY <1>1, <1>2
<1> QED BY <1>3, <1>4 DEF l

\* l are the lines of c, with the routes r and the generated file g.
LinesOf(l, c, r, g) ==
  /\ l.limits.idle = c.idle /\ l.limits.maxdur = c.maxdur /\ l.limits.conc = c.conc
  /\ l.routes = [i \in DOMAIN r |-> RouteLine(r[i])]
  /\ l.traced = {RouteLine(x) : x \in {x \in ToSet(r) : "traceparent" \in x.requires}}
  /\ l.peers = Peers(c) /\ l.models = ToSet(c.match)
  /\ l.censor = CensorLines(c, g) /\ l.tls = TlsLines(c)
  /\ l.m2 = M2Lines(c) /\ l.m3 = M3Lines(c)

LEMMA FlatLines == ASSUME NEW c, NEW r, NEW g PROVE LinesOf(Flat(c, r, g), c, r, g)
BY DEF Flat, LinesOf

\* The lines of routes are those of the routes that the oracle saw.
RoutesSeen(l, c) ==
  /\ \A x \in Proxied(l) : \E r \in TopRoutes(c) : r.pool # None /\ x = RouteLine(r)
  /\ Proxied(l) # {} <=> HasProxyRoutes(c)
  /\ l.traced = {RouteLine(r) : r \in {r \in TopRoutes(c) : "traceparent" \in r.requires}}

LEMMA FlatRoutes ==
  ASSUME NEW c, c.sites = 0, NEW g, NEW l, LinesOf(l, c, c.routes, g)
  PROVE  RoutesSeen(l, c)
<1>1. TopRoutes(c) = ToSet(c.routes)
  BY DEF TopRoutes
<1>2. l.routes = [i \in DOMAIN c.routes |-> RouteLine(c.routes[i])]
  BY DEF LinesOf
<1>3. l.traced = {RouteLine(r) : r \in {r \in TopRoutes(c) : "traceparent" \in r.requires}}
  BY <1>1 DEF LinesOf
<1>4. ASSUME NEW x \in Proxied(l)
      PROVE  \E r \in TopRoutes(c) : r.pool # None /\ x = RouteLine(r)
  <2>1. PICK i \in DOMAIN l.routes : x = l.routes[i]
    BY DEF Proxied, ToSet
  <2>2. x = RouteLine(c.routes[i]) /\ i \in DOMAIN c.routes
    BY <1>2, <2>1
  <2>3. c.routes[i].pool = x.pool /\ x.pool # None
    BY <2>2 DEF RouteLine, Proxied
  <2> QED BY <1>1, <2>2, <2>3 DEF ToSet
<1>5. ASSUME HasProxyRoutes(c) PROVE Proxied(l) # {}
  <2>1. PICK r \in TopRoutes(c) : r.pool # None
    BY <1>5 DEF HasProxyRoutes
  <2>2. PICK i \in DOMAIN c.routes : r = c.routes[i]
    BY <1>1, <2>1 DEF ToSet
  <2>3. i \in DOMAIN l.routes /\ l.routes[i] = RouteLine(r) /\ RouteLine(r).pool # None
    BY <1>2, <2>1, <2>2 DEF RouteLine
  <2> QED BY <2>3 DEF Proxied, ToSet
<1>6. Proxied(l) # {} => HasProxyRoutes(c)
  BY <1>4 DEF HasProxyRoutes
<1> QED BY <1>3, <1>4, <1>5, <1>6 DEF RoutesSeen

\* The limits of streams are there, and in order.
LimitsSet(idle, maxdur, conc) ==
  /\ {idle, maxdur, conc} \cap {None, Bad} = {}
  /\ idle <= maxdur /\ InRange(conc, 10000)

LEMMA InRangeNumber ==
  ASSUME NEW n, NEW hi, InRange(n, hi) PROVE n \in Int
BY SMT DEF InRange

LEMMA LimitsOrdered ==
  ASSUME NEW idle, NEW maxdur, NEW conc,
         InRange(idle, 3600), InRange(maxdur, 86400), InRange(conc, 10000)
  PROVE  maxdur >= idle => LimitsSet(idle, maxdur, conc)
<1>1. {idle, maxdur, conc} \cap {None, Bad} = {}
  BY InRangeParses
<1>2. idle \in Int /\ maxdur \in Int
  BY InRangeNumber
<1>3. maxdur >= idle => idle <= maxdur
  BY <1>2, SMT
<1> QED BY <1>1, <1>3 DEF LimitsSet

\* Streams to a pool that are limited, traced or routed by model have all limits.
LEMMA FlatBounded ==
  ASSUME NEW c, NEW h, FullOk(c, h), c.sites = 0, NEW g, NEW l, LinesOf(l, c, c.routes, g)
  PROVE  StreamsBounded(l) /\ InferenceTraced(l)
<1>1. l.limits.idle = c.idle /\ l.limits.maxdur = c.maxdur /\ l.limits.conc = c.conc
  BY DEF LinesOf
<1>2. l.models = ToSet(c.match)
  BY DEF LinesOf
<1>3. RoutesSeen(l, c)
  BY FlatRoutes
<1>4. M15LimitsOk(c) /\ InferenceOk(c)
  BY DEF FullOk, OracleOk
<1>5. l.models # {} => c.match # <<>>
  BY <1>2 DEF ToSet
<1>6. StreamsLimited(l) => M15Active(c)
  BY <1>1 DEF StreamsLimited, M15Active
<1>7. l.traced # {} \/ l.models # {} => M15Active(c)
  BY <1>3, <1>5 DEF RoutesSeen, M15Active
<1>8. ASSUME Proxied(l) # {}, StreamsLimited(l) \/ l.traced # {} \/ l.models # {}
      PROVE  LimitsSet(l.limits.idle, l.limits.maxdur, l.limits.conc)
  <2> DEFINE idle == l.limits.idle  maxdur == l.limits.maxdur  conc == l.limits.conc
  <2>1. /\ InRange(idle, 3600) /\ InRange(maxdur, 86400) /\ InRange(conc, 10000)
        /\ maxdur >= idle
    BY <1>1, <1>3, <1>4, <1>6, <1>7, <1>8 DEF RoutesSeen, M15LimitsOk
  <2> HIDE DEF idle, maxdur, conc
  <2>2. LimitsSet(idle, maxdur, conc)
    BY <2>1, LimitsOrdered
  <2> QED BY <2>2 DEF idle, maxdur, conc
<1>9. ASSUME StreamsLimited(l), NEW x \in Proxied(l), Inference(x) PROVE x \in l.traced
  <2>1. PICK r \in TopRoutes(c) : r.pool # None /\ x = RouteLine(r)
    BY <1>3 DEF RoutesSeen
  <2>2. x.pool = r.pool /\ x.path = r.path /\ x.kind = r.kind
    BY <2>1 DEF RouteLine
  <2>3. Inference(r)
    BY <1>9, <2>2 DEF Inference
  <2>4. "traceparent" \in r.requires
    BY <1>4, <1>6, <1>9, <2>3 DEF InferenceOk
  <2> QED BY <1>3, <2>1, <2>4 DEF RoutesSeen
<1>10. InferenceTraced(l)
  BY <1>9 DEF InferenceTraced
<1>11. StreamsBounded(l)
  BY <1>8 DEF StreamsBounded, LimitsSet
<1> QED BY <1>10, <1>11

\* What is proxied has a pool, and the pool peers.
PeersListed(c) == \A p \in DOMAIN c.pools : List(c.pools[p].peers)

LEMMA FlatPools ==
  ASSUME NEW c, NEW h, FullOk(c, h), c.sites = 0, PeersListed(c),
         NEW g, NEW l, LinesOf(l, c, c.routes, g)
  PROVE  PoolsHavePeers(l)
<1>1. l.peers = Peers(c) /\ l.models = ToSet(c.match)
  BY DEF LinesOf
<1>2. RoutesSeen(l, c)
  BY FlatRoutes
<1>3. UpstreamsOk(c) /\ PoolsKnown(c) /\ RouteMatchOk(c)
  BY DEF FullOk, SitesOk, OracleOk
<1>4. ASSUME NEW p \in DOMAIN c.pools PROVE \E x \in Peers(c) : x[1] = p
  <2>1. c.pools[p].peers # <<>> /\ c.pools[p].peers \in Seq(ToSet(c.pools[p].peers))
    BY <1>3, <1>4 DEF UpstreamsOk, PeersListed, List
  <2>2. 1 \in DOMAIN c.pools[p].peers
    BY <2>1
  <2>3. <<p, 1>> \in Peers(c)
    BY <1>4, <2>2 DEF Peers
  <2> QED BY <2>3
<1>5. ASSUME NEW x \in Proxied(l) PROVE x.pool \in DOMAIN c.pools
  <2>1. PICK r \in TopRoutes(c) : r.pool # None /\ x = RouteLine(r)
    BY <1>2 DEF RoutesSeen
  <2>2. x.pool = r.pool /\ r \in ToSet(c.routes)
    BY <2>1 DEF RouteLine, TopRoutes
  <2> QED BY <1>3, <2>1, <2>2 DEF PoolsKnown
<1>6. \A x \in l.models : x.pool \in DOMAIN c.pools
  BY <1>1, <1>3 DEF RouteMatchOk
<1>7. \A p \in DOMAIN c.pools : p \in {x[1] : x \in l.peers}
  BY <1>1, <1>4
<1> QED BY <1>5, <1>6, <1>7 DEF PoolsHavePeers

\* TLS, HTTP/2, queues, breakers, websockets, webhooks and streams below HTTP.
LEMMA FlatTermination ==
  ASSUME NEW c, NEW h, FullOk(c, h), NEW r, NEW g, NEW l, LinesOf(l, c, r, g)
  PROVE  TerminationStrong(l)
<1>1. l.tls = TlsLines(c) /\ l.m2 = M2Lines(c)
  BY DEF LinesOf
<1>2. l.m2.h2 = c.h2 /\ l.m2.terminate = Terminate(c)
  BY <1>1 DEF M2Lines
<1>3. M2TlsOk(c)
  BY DEF FullOk, OracleOk, M2Ok
<1>4. TlsOn(c) => l.tls.on /\ l.tls.minp = c.tls.minp /\ l.tls.dh = c.tls.dh
  BY <1>1 DEF TlsLines
<1>5. ASSUME H2On(c) PROVE Terminate(c) /\ TlsOn(c) /\ c.tls.minp = "1.3"
  BY <1>3, <1>5 DEF M2TlsOk, M2Active
<1>6. ASSUME Terminate(c) PROVE TlsOn(c) /\ (c.tls.minp = "1.3" \/ c.tls.dh # None)
  BY <1>3, <1>6 DEF M2TlsOk, M2Active
<1> QED BY <1>2, <1>4, <1>5, <1>6 DEF TerminationStrong, H2On

LEMMA FlatProxyFeatures ==
  ASSUME NEW c, NEW h, FullOk(c, h), c.sites = 0, NEW g, NEW l, LinesOf(l, c, c.routes, g)
  PROVE  ProxyFeatures(l)
<1>1. l.m2 = M2Lines(c)
  BY DEF LinesOf
<1>2. RoutesSeen(l, c)
  BY FlatRoutes
<1>3. /\ l.m2.queue = c.queue /\ l.m2.cb = c.cb
      /\ l.m2.websockets = {x \in TopRoutes(c) : "websocket" \in x.requires}
  BY <1>1 DEF M2Lines
<1>4. QueueOk(c) /\ BreakerOk(c) /\ WebsocketOk(c)
  BY DEF FullOk, OracleOk, M2Ok
<1>5. c.queue # None \/ c.cb # None => HasProxyRoutes(c)
  BY <1>4 DEF QueueOk, BreakerOk
<1>6. \A x \in l.m2.websockets : x.pool # None
  BY <1>3, <1>4 DEF WebsocketOk
<1> QED BY <1>2, <1>3, <1>5, <1>6 DEF RoutesSeen, ProxyFeatures

LEMMA FlatEgress ==
  ASSUME NEW c, FlattenOk(c), NEW h, FullOk(c, h), NEW r, NEW g, NEW l, LinesOf(l, c, r, g)
  PROVE  EgressPublic(l)
<1>1. l.m2 = M2Lines(c) /\ l.m3 = M3Lines(c) /\ l.tls = TlsLines(c)
  BY DEF LinesOf
<1>2. l.m2.hooks = (IF c.hooks = None THEN <<>> ELSE c.hooks) /\ l.m3.l4 = c.l4
  BY <1>1 DEF M2Lines, M3Lines
<1>3. WebhooksOk(c) /\ L4Ok(c) /\ c.listen # None
  BY DEF FullOk, OracleOk, M2Ok, M3Ok, FlattenOk
<1>4. ASSUME NEW hook \in ToSet(l.m2.hooks) PROVE hook.kind = "https"
  <2>1. CASE c.hooks = None
    BY <1>2, <1>4, <2>1 DEF ToSet
  <2>2. CASE c.hooks # None
    BY <1>2, <1>3, <1>4, <2>2 DEF WebhooksOk
  <2> QED BY <2>1, <2>2
<1>5. ASSUME c.l4 # None, c.l4.listen = "public" PROVE l.tls.on
  <2>1. TlsTable(c)
    BY <1>3, <1>5 DEF L4Ok
  <2> QED BY <1>1, <1>3, <2>1 DEF TlsTable, TlsLines, TlsOn
<1> QED BY <1>2, <1>4, <1>5 DEF EgressPublic

-----------------------------------------------------------------------------
(* The tools that read the file, and what they write.                      *)

Passed(tool, v) ==
  IF tool = "flatten" THEN FlattenOk(Files[v]) ELSE ValidateOk(Files[v], AllowedPeers)

\* What the tool has found when all its reads saw the version v, and the generated file was g.
Ended(tool, v, g, ok) ==
  /\ ok => (Files[v].sites = 0 => FullOk(Files[v], g))
  /\ ~ok /\ tool = "flatten" =>
       ~(FlattenOk(Files[v]) /\ FullOk(Files[v], g) /\ Files[v].sites = 0)

Checking(s) ==
  /\ DOMAIN s = {"at", "tool", "data", "same", "ok", "one", "routes"}
  /\ s.at \in ShellAt /\ s.tool \in Tools /\ s.data \in Versions
  /\ s.same \in BOOLEAN /\ s.ok \in BOOLEAN /\ s.one \in BOOLEAN
  /\ s.same => s.routes = s.data
  /\ s.ok => Passed(s.tool, s.data)
  /\ s.tool = "flatten" /\ s.at # "end" => s.ok
  /\ s.at = "end" /\ s.same => Ended(s.tool, s.data, generated, s.ok)

\* The paths are those of every migration that they were made from.
Covering(g) ==
  /\ g.sources \subseteq DOMAIN Migrations
  /\ \A n \in g.sources : Discovered(Migrations[n]) \subseteq g.paths

\* A runtime.conf that was made of c.
MadeOf(c) ==
  /\ c.data \in Versions /\ FlattenOk(Files[c.data]) /\ c.generated # Bad
  /\ c.same => c.routes = c.data
               /\ (Files[c.data].sites = 0 => \E g : FullOk(Files[c.data], g))
  /\ Whole(c.generated) => Covering(c.generated)

Shell ==
  \/ shell = Idle
  \/ Checking(shell)
  \/ shell.at = "write" /\ MadeOf(shell.conf)
  \/ shell.at = "generate" /\ Covering(shell.file) /\ shell.file.sources \subseteq migrated

Found ==
  /\ toml \in Versions /\ edits \in 0 .. MaxEdits
  /\ accepted # None => /\ accepted.data \in Versions /\ Passed("validate", accepted.data)
                        /\ Ended("validate", accepted.data, accepted.generated, TRUE)
  /\ refused # None => /\ refused.data \in Versions
                       /\ Ended("flatten", refused.data, refused.generated, FALSE)
  /\ Whole(conf) => MadeOf(conf)
  /\ migrated \subseteq DOMAIN Migrations
  /\ Whole(generated) => Covering(generated) /\ generated.sources \subseteq migrated

LEMMA AcceptedSound ==
  ASSUME Found PROVE AcceptedFlattens
<1> SUFFICES ASSUME accepted # None, accepted = refused PROVE Unvalidated(Files[accepted.data])
  BY DEF AcceptedFlattens
<1> DEFINE c == Files[accepted.data]
           g == accepted.generated
<1>1. /\ accepted.data \in Versions /\ ValidateOk(c, AllowedPeers)
      /\ c.sites = 0 => FullOk(c, g)
      /\ ~(FlattenOk(c) /\ FullOk(c, g) /\ c.sites = 0)
  BY DEF Found, Passed, Ended
<1>2. c.sites \in Nat
  BY <1>1, FilesAssumption
<1> HIDE DEF c, g
<1>3. ASSUME ~Unvalidated(c) PROVE FALSE
  <2>1. c.sites = 0
    BY <1>2, <1>3 DEF Unvalidated
  <2>2. c.port /\ Parses(c)
    BY <1>3 DEF Unvalidated
  <2> QED BY <1>1, <2>1, <2>2, ValidFlattens
<1> QED BY <1>3 DEF c

LEMMA PublicSound ==
  ASSUME Found, Whole(conf) PROVE Lines.port /\ PublicHasTls
<1>1. FlattenOk(Files[conf.data])
  BY DEF Found, MadeOf
<1> QED BY <1>1, FlattenPublic DEF Lines, PublicHasTls

\* The first column of a line is found, unless it shares the line with the parenthesis.
LEMMA ColumnsDiscovered ==
  ASSUME NEW n \in DOMAIN Migrations, Migrations[n].table.closed,
         NEW row \in ToSet(Migrations[n].table.rows), Head(row).secret \/ Head(row).marked
  PROVE  Head(row).name \in Discovered(Migrations[n])
<1> DEFINE t == Migrations[n].table
<1>1. t.rows \in Seq(ToSet(t.rows))
  BY MigrationsAssumption DEF List
<1>2. PICK i \in DOMAIN t.rows : row = t.rows[i]
  BY DEF ToSet
<1>3. i \in 1 .. Len(t.rows)
  BY <1>1, <1>2
<1>4. Head(row) \in TableColumns(t)
  BY <1>2, <1>3 DEF TableColumns
<1> HIDE DEF t
<1>5. Sensitive(Head(row))
  BY DEF Sensitive
<1> QED BY <1>4, <1>5 DEF Discovered, t

LEMMA CensorSound ==
  ASSUME Found, Whole(conf) PROVE CensorCovers(Lines)
<1> DEFINE g == conf.generated
           c == Files[conf.data]
           l == Lines
           r == Files[conf.routes].routes
<1>1. l.censor = CensorLines(c, g)
  <2>1. LinesOf(l, c, r, g)
    BY FlatLines DEF Lines
  <2> HIDE DEF l, c, r, g
  <2> QED BY <2>1 DEF LinesOf
<1> HIDE DEF l
<1>2. SUFFICES ASSUME l.censor.on, c.leak.generated, Whole(g), NEW n \in g.sources,
                      Migrations[n].table.closed, NEW row \in ToSet(Migrations[n].table.rows),
                      Head(row).secret \/ Head(row).marked
               PROVE  Head(row).name \in l.censor.deny
  BY DEF CensorCovers, l
<1>3. Covering(g)
  BY <1>2 DEF Found, MadeOf
<1>4. Head(row).name \in Generated(TRUE, g)
  BY <1>2, <1>3, ColumnsDiscovered DEF Covering, PathsOf, Generated, Whole
<1>5. LeakEnabled(c)
  BY <1>1, <1>2 DEF CensorLines
<1>6. l.censor.deny = c.leak.deny \cup Generated(TRUE, g)
  BY <1>1, <1>2, <1>5 DEF CensorLines, Generated
<1> QED BY <1>4, <1>6

LEMMA ConfImplied ==
  ASSUME Found PROVE ConfSound
<1> SUFFICES ASSUME Whole(conf), conf.same, Files[conf.data].sites = 0
             PROVE  /\ StreamsBounded(Lines) /\ InferenceTraced(Lines) /\ PoolsHavePeers(Lines)
                    /\ TerminationStrong(Lines) /\ ProxyFeatures(Lines) /\ EgressPublic(Lines)
                    /\ CensorCovers(Lines)
  BY DEF ConfSound
<1> DEFINE c == Files[conf.data]
           g == conf.generated
<1>1. /\ conf.data \in Versions /\ FlattenOk(c) /\ conf.routes = conf.data /\ c.sites = 0
      /\ \E h : FullOk(c, h)
  BY DEF Found, MadeOf
<1> PICK h : FullOk(c, h)
  BY <1>1
<1>2. LinesOf(Lines, c, c.routes, g)
  BY <1>1, FlatLines DEF Lines
<1>3. PeersListed(c)
  BY <1>1, FilesAssumption DEF PeersListed
<1>4. CensorCovers(Lines)
  BY CensorSound
<1> HIDE DEF c, g
<1>5. StreamsBounded(Lines) /\ InferenceTraced(Lines)
  BY <1>1, <1>2, FlatBounded
<1>6. PoolsHavePeers(Lines)
  BY <1>1, <1>2, <1>3, FlatPools
<1>7. TerminationStrong(Lines)
  BY <1>1, <1>2, FlatTermination
<1>8. ProxyFeatures(Lines)
  BY <1>1, <1>2, FlatProxyFeatures
<1>9. EgressPublic(Lines)
  BY <1>1, <1>2, FlatEgress
<1> QED BY <1>4, <1>5, <1>6, <1>7, <1>8, <1>9

Reading == Shell /\ Found

\* Steps that leave what was found.
LEMMA FoundSame ==
  ASSUME Found, UNCHANGED <<file, accepted, refused, conf, migrated, generated>> PROVE Found'
BY DEF Found, file

LEMMA VerdictsBoolean ==
  ASSUME NEW c
  PROVE  /\ ValidateOk(c, AllowedPeers) \in BOOLEAN /\ FlattenOk(c) \in BOOLEAN
         /\ FullOk(c, generated) \in BOOLEAN /\ SitesOk(c) \in BOOLEAN
BY DEF ValidateOk, FlattenOk, FullOk, SitesOk

LEMMA FirstReadChecking ==
  ASSUME Found, NEW tool \in Tools, NEW at \in ShellAt, NEW ok \in BOOLEAN,
         ok => Passed(tool, toml), tool = "flatten" /\ at # "end" => ok,
         at = "end" => Ended(tool, toml, generated, ok)
  PROVE  Checking(FirstRead(tool, at, ok))
BY DEF Found, FirstRead, Checking

LEMMA StartValidateReading == ASSUME Reading, StartValidate PROVE Reading'
<1> DEFINE ok == ValidateOk(Now, AllowedPeers)
<1>1. shell' = FirstRead("validate", "desugar", ok)
  BY DEF StartValidate
<1>2. UNCHANGED <<file, accepted, refused, conf, migrated, generated>>
  BY DEF StartValidate, Starts, censor
<1>3. ok \in BOOLEAN /\ (ok => Passed("validate", toml))
  BY VerdictsBoolean DEF Passed, Now
<1>4. "validate" \in Tools /\ "desugar" \in ShellAt
  BY DEF Tools, ShellAt
<1> HIDE DEF ok
<1>5. Checking(shell')
  BY <1>1, <1>3, <1>4, FirstReadChecking DEF Reading
<1>6. Shell'
  BY <1>2, <1>5 DEF Shell, Checking, Passed, Ended
<1> QED BY <1>2, <1>6, FoundSame DEF Reading

LEMMA StartFlattenReading == ASSUME Reading, StartFlatten PROVE Reading'
<1> DEFINE ok == FlattenOk(Now)
           at == IF ok THEN "full" ELSE "end"
<1>1. shell' = FirstRead("flatten", at, ok)
  BY DEF StartFlatten
<1>2. UNCHANGED <<file, accepted, refused, conf, migrated, generated>>
  BY DEF StartFlatten, Starts, censor
<1>3. ok \in BOOLEAN /\ (ok => Passed("flatten", toml))
  BY VerdictsBoolean DEF Passed, Now
<1>4. "flatten" \in Tools /\ at \in ShellAt /\ (at # "end" <=> ok)
  BY DEF Tools, ShellAt
<1>5. ~ok => Ended("flatten", toml, generated, ok)
  BY DEF Ended, Now
<1> HIDE DEF ok, at
<1>6. Checking(shell')
  BY <1>1, <1>3, <1>4, <1>5, FirstReadChecking DEF Reading
<1>7. Shell'
  BY <1>2, <1>6 DEF Shell, Checking, Passed, Ended
<1> QED BY <1>2, <1>7, FoundSame DEF Reading

\* A read goes on, or ends with what it has found of the file as it is now.
LEMMA GotoChecking ==
  ASSUME Checking(shell), toml \in Versions, NEW at \in ShellAt, NEW ok \in BOOLEAN,
         Goto(at, ok), shell.tool = "flatten" /\ at # "end" => shell.ok /\ ok,
         at = "end" => Ended(shell.tool, toml, generated, shell.ok /\ ok)
  PROVE  Checking(shell')
<1> DEFINE all == shell.ok /\ ok
           same == shell.same /\ shell.data = toml
<1>1. shell' = [shell EXCEPT !.at = at, !.ok = all, !.same = same, !.routes = toml]
  BY DEF Goto
<1>2. all \in BOOLEAN /\ same \in BOOLEAN /\ (all => shell.ok) /\ (same => shell.data = toml)
  OBVIOUS
<1>3. shell.tool = "flatten" /\ at # "end" => all
  OBVIOUS
<1>4. at = "end" => Ended(shell.tool, toml, generated, all)
  OBVIOUS
<1> HIDE DEF all, same
<1>5. /\ DOMAIN shell' = DOMAIN shell /\ shell'.at = at /\ shell'.ok = all /\ shell'.same = same
      /\ shell'.routes = toml /\ shell'.tool = shell.tool /\ shell'.data = shell.data
      /\ shell'.one = shell.one
  BY <1>1 DEF Checking
<1>6. /\ DOMAIN shell' = {"at", "tool", "data", "same", "ok", "one", "routes"}
      /\ shell'.at \in ShellAt /\ shell'.tool \in Tools /\ shell'.data \in Versions
      /\ shell'.same \in BOOLEAN /\ shell'.ok \in BOOLEAN /\ shell'.one \in BOOLEAN
  BY <1>2, <1>5 DEF Checking
<1>7. shell'.same => shell'.routes = shell'.data
  BY <1>2, <1>5
<1>8. shell'.ok => Passed(shell'.tool, shell'.data)
  BY <1>2, <1>5 DEF Checking
<1>9. shell'.tool = "flatten" /\ shell'.at # "end" => shell'.ok
  BY <1>3, <1>5
<1>10. shell'.at = "end" /\ shell'.same => Ended(shell'.tool, shell'.data, generated, shell'.ok)
  BY <1>2, <1>4, <1>5
<1> QED BY <1>6, <1>7, <1>8, <1>9, <1>10 DEF Checking

\* The step of a tool that is at work on the file.
LEMMA CheckingFrom ==
  ASSUME Reading, NEW at \in ShellAt, shell.at = at
  PROVE  Checking(shell) /\ toml \in Versions
BY DEF Reading, Shell, Found, ShellAt, Idle

LEMMA CheckingReading ==
  ASSUME Reading, Checking(shell'),
         UNCHANGED <<file, accepted, refused, conf, migrated, generated>>
  PROVE  Reading'
<1>1. Shell'
  BY DEF Shell, Checking, Passed, Ended
<1> QED BY <1>1, FoundSame DEF Reading

LEMMA ReadsSame ==
  ASSUME NEW at, Reads(at)
  PROVE  shell.at = at /\ UNCHANGED <<file, accepted, refused, conf, migrated, generated>>
BY DEF Reads, censor

LEMMA DesugarReading == ASSUME Reading, Desugar PROVE Reading'
<1>1. Checking(shell) /\ toml \in Versions /\ shell.at = "desugar"
  BY CheckingFrom, ReadsSame DEF Desugar, ShellAt
<1>2. UNCHANGED <<file, accepted, refused, conf, migrated, generated>>
  BY ReadsSame DEF Desugar
<1> DEFINE at == IF Now.sites > 0 THEN "sites" ELSE "full"
<1>3. at \in ShellAt /\ at # "end" /\ Goto(at, TRUE)
  BY DEF Desugar, ShellAt
<1>4. shell.tool = "flatten" => shell.ok
  BY <1>1 DEF Checking
<1> HIDE DEF at
<1>5. Checking(shell')
  BY <1>1, <1>3, <1>4, GotoChecking
<1> QED BY <1>2, <1>5, CheckingReading

LEMMA FullReading == ASSUME Reading, Full PROVE Reading'
<1>1. Checking(shell) /\ toml \in Versions /\ shell.at = "full"
  BY CheckingFrom, ReadsSame DEF Full, ShellAt
<1>2. UNCHANGED <<file, accepted, refused, conf, migrated, generated>>
  BY ReadsSame DEF Full
<1>3. CASE OracleOk(Now, generated) /\ Now.sites > 0
  <2> DEFINE same == shell.same /\ shell.data = toml
  <2>1. shell' = [shell EXCEPT !.at = "sites", !.one = TRUE, !.same = same]
    BY <1>3 DEF Full
  <2>2. same \in BOOLEAN /\ (same => shell.same)
    BY <1>1 DEF Checking
  <2> HIDE DEF same
  <2>3. /\ DOMAIN shell' = DOMAIN shell /\ shell'.at = "sites" /\ shell'.ok = shell.ok
        /\ shell'.same = same /\ shell'.routes = shell.routes /\ shell'.tool = shell.tool
        /\ shell'.data = shell.data /\ shell'.one = TRUE
    BY <1>1, <2>1 DEF Checking
  <2>4. Checking(shell')
    BY <1>1, <2>2, <2>3 DEF Checking, ShellAt
  <2> QED BY <1>2, <2>4, CheckingReading
<1>4. CASE ~(OracleOk(Now, generated) /\ Now.sites > 0)
  <2> DEFINE ok == FullOk(Now, generated)
  <2>1. Goto("end", ok)
    BY <1>4 DEF Full
  <2>2. ok \in BOOLEAN
    BY VerdictsBoolean
  <2>3. shell.tool = "flatten" => shell.ok
    BY <1>1 DEF Checking
  <2>4. Ended(shell.tool, toml, generated, shell.ok /\ ok)
    BY <2>3 DEF Ended, Now
  <2> HIDE DEF ok
  <2>5. Checking(shell')
    BY <1>1, <2>1, <2>2, <2>4, GotoChecking DEF ShellAt
  <2> QED BY <1>2, <2>5, CheckingReading
<1> QED BY <1>3, <1>4

LEMMA SitesReading == ASSUME Reading, Sites PROVE Reading'
<1>1. Checking(shell) /\ toml \in Versions /\ shell.at = "sites"
  BY CheckingFrom, ReadsSame DEF Sites, ShellAt
<1>2. UNCHANGED <<file, accepted, refused, conf, migrated, generated>>
  BY ReadsSame DEF Sites
<1>3. shell.tool = "flatten" => shell.ok
  BY <1>1 DEF Checking
<1>4. CASE Now.sites = 0
  <2>1. Goto("full", TRUE)
    BY <1>4 DEF Sites
  <2>2. Checking(shell')
    BY <1>1, <1>3, <2>1, GotoChecking DEF ShellAt
  <2> QED BY <1>2, <2>2, CheckingReading
<1>5. CASE Now.sites # 0
  <2> DEFINE ok == SitesOk(Now) /\ (shell.one => Now.sites = 1)
  <2>1. Goto("end", ok)
    BY <1>5 DEF Sites
  <2>2. ok \in BOOLEAN
    OBVIOUS
  <2>3. Ended(shell.tool, toml, generated, shell.ok /\ ok)
    BY <1>5 DEF Ended, Now
  <2> HIDE DEF ok
  <2>4. Checking(shell')
    BY <1>1, <2>1, <2>2, <2>3, GotoChecking DEF ShellAt
  <2> QED BY <1>2, <2>4, CheckingReading
<1> QED BY <1>4, <1>5

LEMMA EndValidateReading == ASSUME Reading, EndValidate PROVE Reading'
<1>1. /\ shell.at = "end" /\ shell.tool = "validate" /\ accepted' = Seen(shell.ok) /\ shell' = Idle
      /\ UNCHANGED <<file, refused, conf, migrated, generated>>
  BY DEF EndValidate, censor
<1>2. Checking(shell)
  BY <1>1, CheckingFrom DEF ShellAt
<1>3. ASSUME accepted' # None
      PROVE  /\ accepted'.data \in Versions /\ Passed("validate", accepted'.data)
             /\ Ended("validate", accepted'.data, accepted'.generated, TRUE)
  <2>1. accepted' = [data |-> shell.data, generated |-> generated] /\ shell.same /\ shell.ok
    BY <1>1, <1>3 DEF Seen
  <2>2. accepted'.data = shell.data /\ accepted'.generated = generated
    BY <2>1
  <2> QED BY <1>1, <1>2, <2>1, <2>2 DEF Checking, Ended
<1>4. Found'
  BY <1>1, <1>3 DEF Reading, Found, file, Passed, Ended
<1> QED BY <1>1, <1>4 DEF Reading, Shell

LEMMA RefuseFlattenReading == ASSUME Reading, RefuseFlatten PROVE Reading'
<1>1. /\ shell.at = "end" /\ shell.tool = "flatten" /\ ~shell.ok
      /\ refused' = Seen(TRUE) /\ shell' = Idle
      /\ UNCHANGED <<file, accepted, conf, migrated, generated>>
  BY DEF RefuseFlatten, censor
<1>2. Checking(shell)
  BY <1>1, CheckingFrom DEF ShellAt
<1>3. ASSUME refused' # None
      PROVE  refused'.data \in Versions /\ Ended("flatten", refused'.data, refused'.generated, FALSE)
  <2>1. refused' = [data |-> shell.data, generated |-> generated] /\ shell.same
    BY <1>1, <1>3 DEF Seen
  <2>2. refused'.data = shell.data /\ refused'.generated = generated
    BY <2>1
  <2> QED BY <1>1, <1>2, <2>1, <2>2 DEF Checking, Ended
<1>4. Found'
  BY <1>1, <1>3 DEF Reading, Found, file, Passed, Ended
<1> QED BY <1>1, <1>4 DEF Reading, Shell

\* A generated file that does not parse, the oracle has refused when it saw the same file.
LEMMA IncludedParses ==
  ASSUME NEW c, NEW g, FullOk(c, g), Includes(c) PROVE g # Bad
BY DEF FullOk, OracleOk, LeakOk, Includes, LeakEnabled

LEMMA ReadGeneratedReading == ASSUME Reading, ReadGenerated PROVE Reading'
<1> DEFINE d == Files[shell.data]
           g == IF Includes(d) THEN generated ELSE None
           c == [data |-> shell.data, routes |-> shell.routes, same |-> shell.same, generated |-> g]
<1>1. /\ shell.at = "end" /\ shell.tool = "flatten" /\ shell.ok
      /\ UNCHANGED <<file, accepted, refused, conf, migrated, generated>>
  BY DEF ReadGenerated, censor
<1>2. Checking(shell)
  BY <1>1, CheckingFrom DEF ShellAt
<1>3. FlattenOk(d) /\ shell.data \in Versions
  BY <1>1, <1>2 DEF Checking, Passed
<1>4. shell.same => shell.routes = shell.data /\ (d.sites = 0 => FullOk(d, generated))
  BY <1>1, <1>2 DEF Checking, Ended
<1>5. CASE Includes(d) /\ generated = Bad
  <2>1. shell' = [shell EXCEPT !.ok = FALSE]
    BY <1>5 DEF ReadGenerated
  <2>2. /\ DOMAIN shell' = DOMAIN shell /\ shell'.ok = FALSE /\ shell'.at = shell.at
        /\ shell'.tool = shell.tool /\ shell'.data = shell.data /\ shell'.same = shell.same
        /\ shell'.one = shell.one /\ shell'.routes = shell.routes
    BY <1>2, <2>1 DEF Checking
  <2>3. ~FullOk(d, generated)
    BY <1>5, IncludedParses
  <2>4. Ended("flatten", shell.data, generated, FALSE)
    BY <2>3 DEF Ended
  <2>5. Checking(shell')
    BY <1>1, <1>2, <2>2, <2>4 DEF Checking
  <2> QED BY <1>1, <2>5, CheckingReading
<1>6. CASE ~(Includes(d) /\ generated = Bad)
  <2>1. shell' = [at |-> "write", conf |-> c]
    BY <1>6 DEF ReadGenerated
  <2>2. c.data = shell.data /\ c.routes = shell.routes /\ c.same = shell.same /\ c.generated = g
    OBVIOUS
  <2>3. g # Bad /\ (Whole(g) => g = generated)
    BY <1>6, NoneNotBad DEF Whole
  <2>4. Whole(generated) => Covering(generated)
    BY DEF Reading, Found
  <2> HIDE DEF c, g
  <2>5. Whole(g) => Covering(g)
    BY <2>3, <2>4
  <2>6. MadeOf(c)
    BY <1>3, <1>4, <2>2, <2>3, <2>5 DEF MadeOf
  <2>7. shell'.at = "write" /\ MadeOf(shell'.conf)
    BY <2>1, <2>6
  <2>8. Shell'
    BY <2>7 DEF Shell, MadeOf, Whole, Covering
  <2> QED BY <1>1, <2>8, FoundSame DEF Reading
<1> QED BY <1>5, <1>6

LEMMA WriteConfReading == ASSUME Reading, WriteConf PROVE Reading'
<1>1. /\ shell.at = "write" /\ conf' = shell.conf /\ shell' = Idle
      /\ UNCHANGED <<file, accepted, refused, migrated, generated>>
  BY DEF WriteConf, censor
<1>2. MadeOf(shell.conf)
  BY <1>1 DEF Reading, Shell, Idle, Checking, ShellAt
<1>3. Found'
  BY <1>1, <1>2 DEF Reading, Found, file
<1> QED BY <1>1, <1>3 DEF Reading, Shell

\* The paths of the catalog are those of every migration that it is made from.
LEMMA CatalogCovers ==
  ASSUME NEW here, NEW manifest, NEW n \in DOMAIN here, manifest = None \/ n \in manifest
  PROVE  Discovered(here[n]) \subseteq Catalog(here, manifest)
<1> DEFINE chosen == {m \in DOMAIN here : manifest = None \/ m \in manifest}
<1>1. n \in chosen
  OBVIOUS
<1>2. Catalog(here, manifest) = DefaultPaths \cup UNION {Discovered(here[m]) : m \in chosen}
  BY DEF Catalog
<1> HIDE DEF chosen
<1> QED BY <1>1, <1>2

LEMMA StartCensorReading == ASSUME Reading, StartCensor PROVE Reading'
<1> DEFINE here == [n \in migrated |-> Migrations[n]]
           sources(m) == {n \in migrated : (m = None \/ n \in m) /\ Discovered(here[n]) # {}}
<1>1. PICK manifest \in Manifests \ {{}} :
        shell' = [at |-> "generate",
                  file |-> [paths |-> Catalog(here, manifest), sources |-> sources(manifest)]]
  BY DEF StartCensor
<1>2. UNCHANGED <<file, accepted, refused, conf, migrated, generated>>
  BY DEF StartCensor, Starts, censor
<1>3. /\ shell'.at = "generate" /\ shell'.file.paths = Catalog(here, manifest)
      /\ shell'.file.sources = sources(manifest)
  BY <1>1
<1>4. migrated \subseteq DOMAIN Migrations /\ sources(manifest) \subseteq migrated
  BY DEF Reading, Found
<1>5. ASSUME NEW n \in sources(manifest)
      PROVE  Discovered(Migrations[n]) \subseteq Catalog(here, manifest)
  <2>1. n \in DOMAIN here /\ here[n] = Migrations[n] /\ (manifest = None \/ n \in manifest)
    OBVIOUS
  <2> HIDE DEF here
  <2>2. Discovered(here[n]) \subseteq Catalog(here, manifest)
    BY <2>1, CatalogCovers
  <2> QED BY <2>1, <2>2
<1> HIDE DEF here, sources
<1>6. Covering(shell'.file)
  BY <1>3, <1>4, <1>5 DEF Covering
<1>7. Shell'
  BY <1>2, <1>3, <1>4, <1>6 DEF Shell, Covering
<1> QED BY <1>2, <1>7, FoundSame DEF Reading

LEMMA WriteGeneratedReading == ASSUME Reading, WriteGenerated PROVE Reading'
<1>1. /\ shell.at = "generate" /\ generated' = shell.file /\ shell' = Idle
      /\ UNCHANGED <<file, accepted, refused, conf, migrated>>
  BY DEF WriteGenerated
<1>2. Covering(shell.file) /\ shell.file.sources \subseteq migrated
  BY <1>1 DEF Reading, Shell, Idle, Checking, ShellAt
<1>3. Found'
  BY <1>1, <1>2 DEF Reading, Found, file
<1> QED BY <1>1, <1>3 DEF Reading, Shell

LEMMA KillShellReading == ASSUME Reading, KillShell PROVE Reading'
<1>1. /\ shell' = Idle /\ conf' \in {conf, Bad}
      /\ generated' \in {generated} \cup (IF shell.at = "generate" THEN {Bad, NoPaths, shell.file} ELSE {})
      /\ UNCHANGED <<file, accepted, refused, migrated>>
  BY DEF KillShell
<1>2. Whole(conf') => conf' = conf
  BY <1>1 DEF Whole
<1>3. Whole(generated') => Covering(generated') /\ generated'.sources \subseteq migrated
  <2>1. Covering(NoPaths) /\ NoPaths.sources \subseteq migrated
    BY DEF NoPaths, Covering
  <2>2. shell.at = "generate" => Covering(shell.file) /\ shell.file.sources \subseteq migrated
    BY DEF Reading, Shell, Idle, Checking, ShellAt
  <2>3. Whole(generated) => Covering(generated) /\ generated.sources \subseteq migrated
    BY DEF Reading, Found
  <2>4. Whole(generated') => generated' # Bad
    BY DEF Whole
  <2> QED BY <1>1, <2>1, <2>2, <2>3, <2>4
<1>4. Found'
  BY <1>1, <1>2, <1>3 DEF Reading, Found, file, MadeOf, Whole, Covering, Passed, Ended
<1> QED BY <1>1, <1>4 DEF Reading, Shell

LEMMA EditReading == ASSUME Reading, Edit PROVE Reading'
<1>1. /\ toml' \in Versions /\ edits < MaxEdits /\ edits' = edits + 1
      /\ UNCHANGED <<shell, accepted, refused, conf, migrated, generated>>
  BY DEF Edit, tools, censor
<1>2. edits' \in 0 .. MaxEdits
  BY <1>1, BoundsAssumption DEF Reading, Found
<1>3. Shell'
  BY <1>1 DEF Reading, Shell, Checking, Passed, Ended, MadeOf, Whole, Covering
<1>4. Found'
  BY <1>1, <1>2 DEF Reading, Found, Passed, Ended, MadeOf, Whole, Covering
<1> QED BY <1>3, <1>4 DEF Reading

LEMMA MigrateReading == ASSUME Reading, Migrate PROVE Reading'
<1>1. PICK n \in Followed : migrated' = migrated \cup {n}
  BY DEF Migrate
<1>2. UNCHANGED <<file, shell, accepted, refused, conf, generated>>
  BY DEF Migrate, tools
<1>3. migrated \subseteq migrated' /\ migrated' \subseteq DOMAIN Migrations
  BY <1>1 DEF Reading, Found, Followed
<1>4. Shell'
  BY <1>2, <1>3 DEF Reading, Shell, Checking, Passed, Ended, MadeOf, Whole, Covering
<1>5. Found'
  BY <1>2, <1>3 DEF Reading, Found, file, Passed, Ended, MadeOf, Whole, Covering
<1> QED BY <1>4, <1>5 DEF Reading

\* What setup-tls-httpd does concerns none of these.
LEMMA ReadingSame ==
  ASSUME Reading, UNCHANGED <<file, tools, censor>> PROVE Reading'
<1>1. UNCHANGED <<file, shell, accepted, refused, conf, migrated, generated>>
  BY DEF tools, censor
<1>2. Shell'
  BY <1>1 DEF Reading, Shell, Checking, Passed, Ended, MadeOf, Whole, Covering
<1> QED BY <1>1, <1>2, FoundSame DEF Reading

LEMMA InitReading == ASSUME Init PROVE Reading
<1>1. /\ toml \in Versions /\ edits = 0 /\ shell = Idle /\ accepted = None /\ refused = None
      /\ conf = None /\ generated = None /\ migrated \subseteq DOMAIN Migrations
  BY DEF Init, Followed
<1>2. edits \in 0 .. MaxEdits
  BY <1>1, BoundsAssumption
<1>3. ~Whole(conf) /\ ~Whole(generated)
  BY <1>1 DEF Whole
<1>4. Found
  BY <1>1, <1>2, <1>3 DEF Found
<1> QED BY <1>1, <1>4 DEF Reading, Shell

-----------------------------------------------------------------------------
(* setup-tls-httpd.                                                        *)

Mode(s) == Files[s.data].tls.mode
Envs == {Files[v].tls.env : v \in WithTls}
TakesTls(v) == v \in Versions /\ TlsOn(Files[v]) /\ TlsOk(Files[v])

\* A run that began when at most n tools were started.
Running(s, n) ==
  /\ DOMAIN s = {"at", "data", "renew", "gen", "dry", "gendh", "names", "env", "alone", "name"}
  /\ s.at \in SetupAt /\ s.gen \in 1 .. n /\ TakesTls(s.data)
  /\ s.renew \in BOOLEAN /\ s.gendh \in BOOLEAN /\ s.alone \in BOOLEAN
  /\ s.names \in Seq(Named) /\ s.env \in Envs
  /\ Mode(s) = "lets_encrypt" => s.names \in Names /\ s.names # <<>>
  /\ ~s.renew => s.names = Domains(Files[s.data])
  /\ s.renew /\ s.at # "state" => Mode(s) = "lets_encrypt"
  /\ s.at = "state" => s.renew
  /\ s.at \in {"account", "renewal"} => Mode(s) = "lets_encrypt"

\* What a run finds in the directory c that nobody else has written to since it began.
KeyKept(s, c) ==
  s.at \in {"cert", "meta", "account", "renewal", "dh", "done"} => c.key = s.gen
CertKept(s, c) ==
  s.at \in {"meta", "account", "renewal", "dh", "done"} =>
    c.cert = [key |-> s.gen, cn |-> CommonName(s)]
AccountKept(s, c) == s.at \in {"renewal", "dh", "done"} => c.account
StateKept(s, c) == s.at \in {"dh", "done"} => c.renewal = RenewalState(s)
NameKept(s, c) ==
  s.renew /\ s.name # None =>
    IF s.at = "state" THEN Whole(c.renewal) /\ Head(c.renewal.names) = s.name
    ELSE Head(s.names) = s.name

Alone(s, c) ==
  /\ Mode(s) # "manual" => KeyKept(s, c) /\ CertKept(s, c)
  /\ Mode(s) = "lets_encrypt" => AccountKept(s, c) /\ StateKept(s, c)
  /\ NameKept(s, c)

\* A state of a renewal, and the directory, when at most n tools were started.
StateOk(r) == r.names \in Names /\ r.names \in Seq(Named) /\ r.names # <<>> /\ r.env \in Envs
Stored(c, n) ==
  /\ DOMAIN c = {"key", "cert", "meta", "account", "renewal", "dh"}
  /\ c.key \in 0 .. n /\ c.meta \in BOOLEAN /\ c.account \in BOOLEAN /\ c.dh \in BOOLEAN
  /\ Whole(c.cert) => c.cert.key \in 1 .. n
  /\ Whole(c.renewal) => StateOk(c.renewal)

\* What a setup l that completed left in the directory c.
LeftBy(l, c) ==
  /\ l.mode # "manual" =>
       Whole(c.cert) /\ c.cert.key = c.key /\ (l.renew /\ l.name # None => c.cert.cn = l.name)
  /\ l.mode = "lets_encrypt" =>
       /\ c.account /\ Whole(c.renewal) /\ c.cert.cn = Head(c.renewal.names)
       /\ ~l.renew => /\ TlsOn(Files[l.data]) /\ Files[l.data].tls.mode = "lets_encrypt"
                      /\ c.cert.cn = Head(Domains(Files[l.data]))

RunOk(s, c, n) == s = Idle \/ (Running(s, n) /\ (s.alone => Alone(s, c)))

Keys ==
  /\ runs \in 0 .. MaxRuns /\ Stored(certs, runs)
  /\ DOMAIN setup = Setups /\ \A p \in Setups : RunOk(setup[p], certs, runs)
  /\ last # None => LeftBy(last, certs)

\* The names that a certificate of a configuration is for.
LEMMA DomainsNamed ==
  ASSUME NEW v, TakesTls(v)
  PROVE  /\ Domains(Files[v]) \in Seq(Named) /\ Files[v].tls.env \in Envs
         /\ Files[v].tls.mode = "lets_encrypt" =>
              Domains(Files[v]) \in Names /\ Domains(Files[v]) # <<>>
<1> DEFINE c == Files[v]
           d == Domains(c)
<1>1. v \in Versions /\ c.listen # None /\ c.tls # None /\ v \in WithTls
  BY DEF TakesTls, TlsOn, WithTls
<1>2. d \in Seq(ToSet(d))
  <2>1. c.tls.domains \in Seq(ToSet(c.tls.domains))
    BY <1>1, FilesAssumption DEF List
  <2>2. CASE d = <<c.host>>
    <3>1. d[1] = c.host /\ DOMAIN d = {1}
      BY <2>2
    <3>2. c.host \in ToSet(d)
      BY <3>1 DEF ToSet
    <3> QED BY <2>2, <3>2
  <2>3. CASE d = c.tls.domains
    BY <2>1, <2>3
  <2> QED BY <2>2, <2>3 DEF Domains
<1>3. ToSet(d) \subseteq Named
  BY <1>1 DEF Named
<1>4. c.tls.mode = "lets_encrypt" => d # <<>> /\ ToSet(d) \subseteq RouteHosts(c)
  BY <1>1 DEF TakesTls, TlsOk, TlsOn
<1>5. RouteHosts(c) \subseteq UNION {RouteHosts(Files[w]) : w \in Versions}
  BY <1>1
<1>6. c.tls.env \in Envs
  BY <1>1 DEF Envs
<1> HIDE DEF d, c
<1>7. d \in Seq(Named)
  BY <1>2, <1>3
<1>8. c.tls.mode = "lets_encrypt" => d \in Names /\ d # <<>>
  BY <1>2, <1>4, <1>5 DEF Names
<1> QED BY <1>6, <1>7, <1>8 DEF c, d

\* What is written is whole.
LEMMA WrittenWhole ==
  /\ \A k \in Nat, n \in Named \cup {"localhost"} : Whole([key |-> k, cn |-> n])
  /\ \A n \in Seq(Named), e \in Envs : Whole([names |-> n, env |-> e])
<1>1. \A k \in Nat, n \in Named \cup {"localhost"} : [key |-> k, cn |-> n] \in Certificates
  BY DEF Certificates
<1>2. \A n \in Seq(Named), e \in Envs : [names |-> n, env |-> e] \in Renewals
  BY DEF Renewals, Envs
<1> QED BY <1>1, <1>2, MissingAssumption DEF Whole

LEMMA NamesKept ==
  ASSUME NEW s, NEW n, Running(s, n)
  PROVE  /\ CommonName(s) \in Named \cup {"localhost"}
         /\ s.names # <<>> => CommonName(s) = Head(s.names)
<1>1. s.names \in Seq(Named)
  BY DEF Running
<1>2. s.names # <<>> => Head(s.names) \in Named
  BY <1>1
<1> QED BY <1>2 DEF CommonName

LEMMA LaterRunning ==
  ASSUME NEW s, NEW n \in Nat, NEW m \in Nat, n <= m, Running(s, n)
  PROVE  Running(s, m)
<1>1. s.gen \in 1 .. m
  BY DEF Running
<1> QED BY <1>1 DEF Running

LEMMA LaterStored ==
  ASSUME NEW c, NEW n \in Nat, NEW m \in Nat, n <= m, Stored(c, n)
  PROVE  Stored(c, m)
<1>1. c.key \in 0 .. m /\ (Whole(c.cert) => c.cert.key \in 1 .. m)
  BY DEF Stored
<1> QED BY <1>1 DEF Stored

\* A run that another one disturbs is still a run.
LEMMA DisturbedRunning ==
  ASSUME NEW s, NEW n, Running(s, n)
  PROVE  LET d == [s EXCEPT !.alone = FALSE] IN Running(d, n) /\ d.alone = FALSE
<1> DEFINE d == [s EXCEPT !.alone = FALSE]
<1>1. /\ DOMAIN d = DOMAIN s /\ d.alone = FALSE
      /\ d.at = s.at /\ d.data = s.data /\ d.renew = s.renew /\ d.gen = s.gen
      /\ d.gendh = s.gendh /\ d.names = s.names /\ d.env = s.env
  BY DEF Running
<1> HIDE DEF d
<1>2. Running(d, n)
  BY <1>1, Zenon DEF Running, Mode
<1> QED BY <1>1, <1>2 DEF d

LEMMA SpoilsKeys ==
  ASSUME Keys, NEW p \in Setups, NEW then, Spoils(p, then),
         Stored(certs', runs), RunOk(then, certs', runs)
  PROVE  Keys'
<1>1. /\ setup' = [q \in Setups |-> IF q = p THEN then
                                   ELSE IF Working(q) THEN [setup[q] EXCEPT !.alone = FALSE]
                                   ELSE Idle]
      /\ last' = None /\ runs' = runs
  BY DEF Spoils
<1>2. ASSUME NEW q \in Setups PROVE RunOk(setup'[q], certs', runs)
  <2>1. CASE q = p
    BY <1>1, <2>1
  <2>2. CASE q # p /\ ~Working(q)
    BY <1>1, <2>2 DEF RunOk
  <2>3. CASE q # p /\ Working(q)
    <3>1. setup'[q] = [setup[q] EXCEPT !.alone = FALSE]
      BY <1>1, <2>3
    <3>2. Running(setup[q], runs)
      BY <2>3 DEF Keys, RunOk, Working
    <3>3. Running(setup'[q], runs) /\ setup'[q].alone = FALSE
      BY <3>1, <3>2, DisturbedRunning
    <3> QED BY <3>3 DEF RunOk
  <2> QED BY <2>1, <2>2, <2>3
<1>3. DOMAIN setup' = Setups /\ runs \in 0 .. MaxRuns
  BY <1>1 DEF Keys
<1> QED BY <1>1, <1>2, <1>3 DEF Keys

\* A run that goes on, and what it has kept.
LEMMA StepRunning ==
  ASSUME NEW s, NEW n, Running(s, n), NEW at \in SetupAt \ {"state"}, s.at # "state",
         at \in {"account", "renewal"} => Mode(s) = "lets_encrypt"
  PROVE  LET t == [s EXCEPT !.at = at]
         IN  /\ Running(t, n) /\ t.at = at /\ t.data = s.data /\ t.gen = s.gen /\ t.names = s.names
             /\ t.env = s.env /\ t.renew = s.renew /\ t.name = s.name /\ t.alone = s.alone
             /\ t.gendh = s.gendh
<1> DEFINE t == [s EXCEPT !.at = at]
<1>1. /\ DOMAIN t = DOMAIN s /\ t.alone = s.alone /\ t.name = s.name
      /\ t.at = at /\ t.data = s.data /\ t.renew = s.renew /\ t.gen = s.gen
      /\ t.gendh = s.gendh /\ t.names = s.names /\ t.env = s.env
  BY DEF Running
<1> HIDE DEF t
<1>2. Running(t, n)
  BY <1>1, Zenon DEF Running, Mode
<1> QED BY <1>1, <1>2 DEF t

LEMMA WorkingRunning ==
  ASSUME Keys, NEW p \in Setups, NEW at, setup[p].at = at, at # "idle"
  PROVE  /\ Running(setup[p], runs)
         /\ setup[p].alone => Alone(setup[p], certs)
BY DEF Keys, RunOk, Idle

LEMMA StoredParts ==
  ASSUME Keys
  PROVE  /\ runs \in Nat /\ Stored(certs, runs)
         /\ DOMAIN certs = {"key", "cert", "meta", "account", "renewal", "dh"}
BY BoundsAssumption DEF Keys, Stored

LEMMA WriteKeyKeys == ASSUME Keys, NEW p \in Setups, WriteKey(p) PROVE Keys'
<1> DEFINE s == setup[p]
           t == [s EXCEPT !.at = "cert"]
<1>1. s.at = "key" /\ Spoils(p, t) /\ certs' = [certs EXCEPT !.key = s.gen]
  BY DEF WriteKey, Writes
<1>2. Running(s, runs) /\ (s.alone => Alone(s, certs))
  BY <1>1, WorkingRunning
<1>3. /\ Running(t, runs) /\ t.at = "cert" /\ t.gen = s.gen /\ t.alone = s.alone
      /\ t.renew = s.renew /\ t.name = s.name /\ t.names = s.names
  BY <1>1, <1>2, StepRunning DEF SetupAt
<1>4. /\ certs'.key = s.gen /\ DOMAIN certs' = DOMAIN certs
      /\ certs'.cert = certs.cert /\ certs'.meta = certs.meta /\ certs'.account = certs.account
      /\ certs'.renewal = certs.renewal /\ certs'.dh = certs.dh
  BY <1>1, StoredParts
<1>5. s.gen \in 0 .. runs
  BY <1>2, StoredParts DEF Running
<1> HIDE DEF s, t
<1>6. Stored(certs', runs)
  BY <1>4, <1>5, StoredParts DEF Stored
<1>7. t.alone => Alone(t, certs')
  <2>1. KeyKept(t, certs') /\ CertKept(t, certs') /\ AccountKept(t, certs') /\ StateKept(t, certs')
    BY <1>3, <1>4 DEF KeyKept, CertKept, AccountKept, StateKept
  <2>2. t.alone => NameKept(t, certs')
    BY <1>1, <1>2, <1>3 DEF Alone, NameKept
  <2> QED BY <2>1, <2>2 DEF Alone
<1> QED BY <1>1, <1>3, <1>6, <1>7, SpoilsKeys DEF RunOk

LEMMA WriteCertKeys == ASSUME Keys, NEW p \in Setups, WriteCert(p) PROVE Keys'
<1> DEFINE s == setup[p]
           t == [s EXCEPT !.at = "meta"]
           k == [key |-> s.gen, cn |-> CommonName(s)]
<1>1. s.at = "cert" /\ Spoils(p, t) /\ certs' = [certs EXCEPT !.cert = k]
  BY DEF WriteCert, Writes
<1>2. Running(s, runs) /\ (s.alone => Alone(s, certs))
  BY <1>1, WorkingRunning
<1>3. /\ Running(t, runs) /\ t.at = "meta" /\ t.gen = s.gen /\ t.alone = s.alone
      /\ t.renew = s.renew /\ t.name = s.name /\ t.names = s.names /\ t.data = s.data
  BY <1>1, <1>2, StepRunning DEF SetupAt
<1>4. k.key \in 1 .. runs
  BY <1>2 DEF Running
<1>5. CommonName(t) = CommonName(s)
  BY <1>3 DEF CommonName
<1> HIDE DEF k
<1>6. /\ certs'.cert = k /\ DOMAIN certs' = DOMAIN certs
      /\ certs'.key = certs.key /\ certs'.meta = certs.meta /\ certs'.account = certs.account
      /\ certs'.renewal = certs.renewal /\ certs'.dh = certs.dh
  BY <1>1, StoredParts
<1> HIDE DEF s, t
<1>7. Stored(certs', runs)
  BY <1>4, <1>6, StoredParts DEF Stored
<1>8. t.alone => Alone(t, certs')
  <2>1. CertKept(t, certs') /\ AccountKept(t, certs') /\ StateKept(t, certs')
    BY <1>3, <1>5, <1>6 DEF CertKept, AccountKept, StateKept, k
  <2>2. t.alone => NameKept(t, certs') /\ (Mode(t) # "manual" => KeyKept(t, certs'))
    BY <1>1, <1>2, <1>3, <1>6 DEF Alone, NameKept, KeyKept, Mode
  <2> QED BY <2>1, <2>2 DEF Alone
<1> QED BY <1>1, <1>3, <1>7, <1>8, SpoilsKeys DEF RunOk

LEMMA WriteMetaKeys == ASSUME Keys, NEW p \in Setups, WriteMeta(p) PROVE Keys'
<1> DEFINE s == setup[p]
           at == IF Mode(s) = "lets_encrypt" THEN "account" ELSE AfterAll(s)
           t == [s EXCEPT !.at = at]
<1>1. s.at = "meta" /\ Spoils(p, t) /\ certs' = [certs EXCEPT !.meta = TRUE]
  BY DEF WriteMeta, Writes, Mode
<1>2. Running(s, runs) /\ (s.alone => Alone(s, certs))
  BY <1>1, WorkingRunning
<1>3. /\ at \in {"account", "dh", "done"}
      /\ at = "account" <=> Mode(s) = "lets_encrypt"
  BY DEF AfterAll
<1> HIDE DEF at
<1>4. /\ Running(t, runs) /\ t.at = at /\ t.gen = s.gen /\ t.alone = s.alone
      /\ t.renew = s.renew /\ t.name = s.name /\ t.names = s.names /\ t.data = s.data
  BY <1>1, <1>2, <1>3, StepRunning DEF SetupAt
<1>5. CommonName(t) = CommonName(s) /\ Mode(t) = Mode(s)
  BY <1>4 DEF CommonName, Mode
<1>6. /\ certs'.cert = certs.cert /\ DOMAIN certs' = DOMAIN certs
      /\ certs'.key = certs.key /\ certs'.meta = TRUE /\ certs'.account = certs.account
      /\ certs'.renewal = certs.renewal /\ certs'.dh = certs.dh
  BY <1>1, StoredParts
<1> HIDE DEF s, t
<1>7. Stored(certs', runs)
  BY <1>6, StoredParts DEF Stored
<1>8. t.alone => Alone(t, certs')
  <2>1. Mode(t) = "lets_encrypt" => AccountKept(t, certs') /\ StateKept(t, certs')
    BY <1>3, <1>4, <1>5 DEF AccountKept, StateKept
  <2>2. t.alone => NameKept(t, certs')
    BY <1>1, <1>2, <1>3, <1>4, <1>6 DEF Alone, NameKept
  <2>3. t.alone /\ Mode(t) # "manual" => KeyKept(t, certs') /\ CertKept(t, certs')
    BY <1>1, <1>2, <1>3, <1>4, <1>5, <1>6 DEF Alone, KeyKept, CertKept
  <2> QED BY <2>1, <2>2, <2>3 DEF Alone
<1> QED BY <1>1, <1>4, <1>7, <1>8, SpoilsKeys DEF RunOk

LEMMA WriteAccountKeys == ASSUME Keys, NEW p \in Setups, WriteAccount(p) PROVE Keys'
<1> DEFINE s == setup[p]
           t == [s EXCEPT !.at = "renewal"]
<1>1. s.at = "account" /\ Spoils(p, t) /\ certs' = [certs EXCEPT !.account = TRUE]
  BY DEF WriteAccount, Writes
<1>2. Running(s, runs) /\ (s.alone => Alone(s, certs)) /\ Mode(s) = "lets_encrypt"
  BY <1>1, WorkingRunning DEF Running
<1>3. /\ Running(t, runs) /\ t.at = "renewal" /\ t.gen = s.gen /\ t.alone = s.alone
      /\ t.renew = s.renew /\ t.name = s.name /\ t.names = s.names /\ t.data = s.data
  BY <1>1, <1>2, StepRunning DEF SetupAt
<1>4. CommonName(t) = CommonName(s) /\ Mode(t) = Mode(s)
  BY <1>3 DEF CommonName, Mode
<1>5. /\ certs'.cert = certs.cert /\ DOMAIN certs' = DOMAIN certs
      /\ certs'.key = certs.key /\ certs'.meta = certs.meta /\ certs'.account = TRUE
      /\ certs'.renewal = certs.renewal /\ certs'.dh = certs.dh
  BY <1>1, StoredParts
<1> HIDE DEF s, t
<1>6. Stored(certs', runs)
  BY <1>5, StoredParts DEF Stored
<1>7. t.alone => Alone(t, certs')
  <2>1. AccountKept(t, certs') /\ StateKept(t, certs')
    BY <1>3, <1>5 DEF AccountKept, StateKept
  <2>2. t.alone => NameKept(t, certs')
    BY <1>1, <1>2, <1>3, <1>5 DEF Alone, NameKept
  <2>3. t.alone /\ Mode(t) # "manual" => KeyKept(t, certs') /\ CertKept(t, certs')
    BY <1>1, <1>2, <1>3, <1>4, <1>5 DEF Alone, KeyKept, CertKept
  <2> QED BY <2>1, <2>2, <2>3 DEF Alone
<1> QED BY <1>1, <1>3, <1>6, <1>7, SpoilsKeys DEF RunOk

LEMMA WriteRenewalKeys == ASSUME Keys, NEW p \in Setups, WriteRenewal(p) PROVE Keys'
<1> DEFINE s == setup[p]
           at == IF s.renew THEN "done" ELSE AfterAll(s)
           t == [s EXCEPT !.at = at]
           r == RenewalState(s)
<1>1. s.at = "renewal" /\ Spoils(p, t) /\ certs' = [certs EXCEPT !.renewal = r]
  BY DEF WriteRenewal, Writes
<1>2. Running(s, runs) /\ (s.alone => Alone(s, certs)) /\ Mode(s) = "lets_encrypt"
  BY <1>1, WorkingRunning DEF Running
<1>3. at \in {"dh", "done"}
  BY DEF AfterAll
<1>4. StateOk(r)
  BY <1>2 DEF RenewalState, StateOk, Running
<1> HIDE DEF at
<1>5. /\ Running(t, runs) /\ t.at = at /\ t.gen = s.gen /\ t.alone = s.alone /\ t.env = s.env
      /\ t.renew = s.renew /\ t.name = s.name /\ t.names = s.names /\ t.data = s.data
  BY <1>1, <1>2, <1>3, StepRunning DEF SetupAt
<1>6. CommonName(t) = CommonName(s) /\ Mode(t) = Mode(s) /\ RenewalState(t) = r
  BY <1>5 DEF CommonName, Mode, RenewalState
<1> HIDE DEF r
<1>7. /\ certs'.cert = certs.cert /\ DOMAIN certs' = DOMAIN certs
      /\ certs'.key = certs.key /\ certs'.meta = certs.meta /\ certs'.account = certs.account
      /\ certs'.renewal = r /\ certs'.dh = certs.dh
  BY <1>1, StoredParts
<1> HIDE DEF s, t
<1>8. Stored(certs', runs)
  BY <1>4, <1>7, StoredParts DEF Stored
<1>9. t.alone => Alone(t, certs')
  <2>1. StateKept(t, certs')
    BY <1>6, <1>7 DEF StateKept
  <2>2. t.alone => NameKept(t, certs')
    BY <1>1, <1>2, <1>3, <1>5 DEF Alone, NameKept
  <2>3. t.alone => KeyKept(t, certs') /\ CertKept(t, certs') /\ AccountKept(t, certs')
    BY <1>1, <1>2, <1>3, <1>5, <1>6, <1>7 DEF Alone, KeyKept, CertKept, AccountKept
  <2> QED BY <2>1, <2>2, <2>3 DEF Alone
<1> QED BY <1>1, <1>5, <1>8, <1>9, SpoilsKeys DEF RunOk

LEMMA WriteDhKeys == ASSUME Keys, NEW p \in Setups, WriteDh(p) PROVE Keys'
<1> DEFINE s == setup[p]
           t == [s EXCEPT !.at = "done"]
<1>1. s.at = "dh" /\ Spoils(p, t) /\ certs' = [certs EXCEPT !.dh = TRUE]
  BY DEF WriteDh, Writes
<1>2. Running(s, runs) /\ (s.alone => Alone(s, certs))
  BY <1>1, WorkingRunning
<1>3. /\ Running(t, runs) /\ t.at = "done" /\ t.gen = s.gen /\ t.alone = s.alone /\ t.env = s.env
      /\ t.renew = s.renew /\ t.name = s.name /\ t.names = s.names /\ t.data = s.data
  BY <1>1, <1>2, StepRunning DEF SetupAt
<1>4. CommonName(t) = CommonName(s) /\ Mode(t) = Mode(s) /\ RenewalState(t) = RenewalState(s)
  BY <1>3 DEF CommonName, Mode, RenewalState
<1>5. /\ certs'.cert = certs.cert /\ DOMAIN certs' = DOMAIN certs
      /\ certs'.key = certs.key /\ certs'.meta = certs.meta /\ certs'.account = certs.account
      /\ certs'.renewal = certs.renewal /\ certs'.dh = TRUE
  BY <1>1, StoredParts
<1> HIDE DEF s, t
<1>6. Stored(certs', runs)
  BY <1>5, StoredParts DEF Stored
<1>7. t.alone => Alone(t, certs')
  <2>1. t.alone => NameKept(t, certs')
    BY <1>1, <1>2, <1>3 DEF Alone, NameKept
  <2>2. t.alone /\ Mode(t) # "manual" => KeyKept(t, certs') /\ CertKept(t, certs')
    BY <1>1, <1>2, <1>3, <1>4, <1>5 DEF Alone, KeyKept, CertKept
  <2>3. t.alone /\ Mode(t) = "lets_encrypt" => AccountKept(t, certs') /\ StateKept(t, certs')
    BY <1>1, <1>2, <1>3, <1>4, <1>5 DEF Alone, AccountKept, StateKept
  <2> QED BY <2>1, <2>2, <2>3 DEF Alone
<1> QED BY <1>1, <1>3, <1>6, <1>7, SpoilsKeys DEF RunOk

\* Somebody begins, goes on without a write, or ends.
LEMMA OneRunKeys ==
  ASSUME Keys, NEW p \in Setups, NEW then, setup' = [setup EXCEPT ![p] = then], certs' = certs,
         runs' \in 0 .. MaxRuns, runs <= runs', RunOk(then, certs, runs'),
         last' # None => LeftBy(last', certs)
  PROVE  Keys'
<1>1. runs \in Nat /\ runs' \in Nat
  BY BoundsAssumption DEF Keys
<1>2. Stored(certs, runs')
  BY <1>1, LaterStored DEF Keys
<1>3. ASSUME NEW q \in Setups PROVE RunOk(setup'[q], certs, runs')
  <2>1. CASE q = p
    BY <2>1 DEF Keys
  <2>2. CASE q # p
    <3>1. setup'[q] = setup[q] /\ RunOk(setup[q], certs, runs)
      BY <2>2 DEF Keys
    <3> QED BY <1>1, <3>1, LaterRunning DEF RunOk
  <2> QED BY <2>1, <2>2
<1>4. DOMAIN setup' = Setups
  BY DEF Keys
<1> QED BY <1>2, <1>3, <1>4 DEF Keys

LEMMA KeysBounds == ASSUME Keys PROVE runs \in 0 .. MaxRuns /\ runs <= runs
BY BoundsAssumption DEF Keys

LEMMA CompletedLeft ==
  ASSUME NEW s, NEW c, NEW n, Running(s, n), Alone(s, c), Stored(c, n), n \in Nat, Completes(s)
  PROVE  LeftBy([mode |-> Mode(s), data |-> s.data, renew |-> s.renew, name |-> s.name], c)
<1> DEFINE l == [mode |-> Mode(s), data |-> s.data, renew |-> s.renew, name |-> s.name]
<1>1. l.mode = Mode(s) /\ l.data = s.data /\ l.renew = s.renew /\ l.name = s.name
  OBVIOUS
<1> HIDE DEF l
<1>2. s.at \in {"dh", "done"}
  BY DEF Completes
<1>3. /\ s.gen \in Nat /\ s.names \in Seq(Named) /\ s.env \in Envs
      /\ CommonName(s) \in Named \cup {"localhost"}
  BY NamesKept DEF Running
<1>4. Mode(s) # "manual" => c.key = s.gen /\ c.cert = [key |-> s.gen, cn |-> CommonName(s)]
  BY <1>2 DEF Alone, KeyKept, CertKept
<1>5. Mode(s) # "manual" => Whole(c.cert) /\ c.cert.key = c.key /\ c.cert.cn = CommonName(s)
  BY <1>3, <1>4, WrittenWhole
<1>6. Mode(s) = "lets_encrypt" =>
        c.account /\ Whole(c.renewal) /\ c.renewal.names = s.names /\ CommonName(s) = Head(s.names)
  <2>1. Mode(s) = "lets_encrypt" => c.account /\ c.renewal = [names |-> s.names, env |-> s.env]
    BY <1>2 DEF Alone, AccountKept, StateKept, RenewalState
  <2>2. Mode(s) = "lets_encrypt" => s.names # <<>>
    BY DEF Running
  <2> QED BY <1>3, <2>1, <2>2, WrittenWhole, NamesKept
<1>7. s.renew => Mode(s) = "lets_encrypt"
  BY <1>2 DEF Running
<1>8. s.renew /\ s.name # None => Head(s.names) = s.name
  BY <1>2 DEF Alone, NameKept
<1>9. ~s.renew => s.names = Domains(Files[s.data])
  BY DEF Running
<1>10. TlsOn(Files[s.data])
  BY DEF Running, TakesTls
<1> QED BY <1>1, <1>5, <1>6, <1>7, <1>8, <1>9, <1>10 DEF LeftBy, Mode

LEMMA FinishKeys == ASSUME Keys, NEW p \in Setups, Finish(p) PROVE Keys'
<1> DEFINE s == setup[p]
           l == [mode |-> Mode(s), data |-> s.data, renew |-> s.renew, name |-> s.name]
<1>1. /\ setup' = [setup EXCEPT ![p] = Idle] /\ certs' = certs /\ runs' = runs
      /\ last' = IF ~Completes(s) THEN last ELSE IF s.alone THEN l ELSE None
      /\ Working(p)
  BY DEF Finish, Mode
<1>2. Running(s, runs) /\ (s.alone => Alone(s, certs))
  BY <1>1 DEF Keys, RunOk, Working
<1>3. ASSUME Completes(s), s.alone PROVE LeftBy(l, certs)
  BY <1>2, <1>3, StoredParts, CompletedLeft
<1> HIDE DEF s, l
<1>4. last' # None => LeftBy(last', certs)
  BY <1>1, <1>3 DEF Keys
<1> QED BY <1>1, <1>4, KeysBounds, OneRunKeys DEF RunOk

LEMMA KillSetupKeys == ASSUME Keys, NEW p \in Setups, KillSetup(p) PROVE Keys'
<1>1. CASE setup' = [setup EXCEPT ![p] = Idle] /\ UNCHANGED <<runs, certs, last>>
  <2>1. last' # None => LeftBy(last', certs)
    BY <1>1 DEF Keys
  <2> QED BY <1>1, <2>1, KeysBounds, OneRunKeys DEF RunOk
<1>2. CASE certs' = [certs EXCEPT !.renewal = Bad] /\ Spoils(p, Idle)
  <2>1. /\ certs'.cert = certs.cert /\ DOMAIN certs' = DOMAIN certs
        /\ certs'.key = certs.key /\ certs'.meta = certs.meta /\ certs'.account = certs.account
        /\ certs'.renewal = Bad /\ certs'.dh = certs.dh
    BY <1>2, StoredParts
  <2>2. Stored(certs', runs)
    BY <2>1, StoredParts DEF Stored, Whole
  <2> QED BY <1>2, <2>2, SpoilsKeys DEF RunOk
<1> QED BY <1>1, <1>2 DEF KillSetup

LEMMA Obtains ==
  ASSUME NEW v, TakesTls(v), NEW env, NEW dry
  PROVE  LET m == Files[v].tls.mode
         IN  /\ Obtain(m, env, dry) \in {"key", "fail", "dh"}
             /\ Obtain(m, env, dry) = "dh" => m = "manual"
<1>1. Files[v].tls.mode \in {"manual", "self_signed", "lets_encrypt"}
  BY DEF TakesTls, TlsOk, ProfileOk
<1> QED BY <1>1 DEF Obtain

LEMMA BeginKeys == ASSUME Found, Keys, NEW p \in Setups, Begin(p) PROVE Keys'
<1>1. PICK dry \in BOOLEAN, gendh \in BOOLEAN :
        setup' = [setup EXCEPT ![p] =
         [at |-> IF p = "renew" THEN "state" ELSE Obtain(Now.tls.mode, Now.tls.env, dry),
          data |-> toml, renew |-> p = "renew", gen |-> runs + 1,
          dry |-> dry /\ Now.tls.mode = "lets_encrypt", gendh |-> gendh /\ p = "setup",
          names |-> Domains(Now), env |-> Now.tls.env, alone |-> TRUE,
          name |-> IF last # None /\ last.mode = "lets_encrypt" THEN certs.cert.cn ELSE None]]
  BY DEF Begin
<1>2. /\ TlsOn(Now) /\ TlsOk(Now) /\ runs < MaxRuns /\ runs' = runs + 1
      /\ certs' = certs /\ last' = last
  BY DEF Begin
<1> DEFINE at == IF p = "renew" THEN "state" ELSE Obtain(Now.tls.mode, Now.tls.env, dry)
           renew == p = "renew"
           rehearse == dry /\ Now.tls.mode = "lets_encrypt"
           group == gendh /\ p = "setup"
           names == Domains(Now)
           env == Now.tls.env
           name == IF last # None /\ last.mode = "lets_encrypt" THEN certs.cert.cn ELSE None
<1>3. TakesTls(toml) /\ Now = Files[toml]
  BY <1>2 DEF Found, TakesTls, Now
<1>4. renew \in BOOLEAN /\ group \in BOOLEAN /\ (renew <=> at = "state")
  <2>1. Obtain(Now.tls.mode, Now.tls.env, dry) # "state"
    BY <1>3, Obtains
  <2> QED BY <2>1
<1>5. /\ at \in {"state", "key", "fail", "dh"}
      /\ at = "dh" => Files[toml].tls.mode = "manual"
  BY <1>3, Obtains
<1>6. /\ names = Domains(Files[toml]) /\ names \in Seq(Named) /\ env \in Envs
      /\ Files[toml].tls.mode = "lets_encrypt" => names \in Names /\ names # <<>>
  BY <1>3, DomainsNamed
<1>7. name # None => Whole(certs.renewal) /\ Head(certs.renewal.names) = name
  BY DEF Keys, LeftBy
<1>8. runs + 1 \in 1 .. (runs + 1) /\ runs' \in 0 .. MaxRuns /\ runs <= runs'
  BY <1>2, BoundsAssumption DEF Keys
<1> DEFINE s == [at |-> at, data |-> toml, renew |-> renew, gen |-> runs + 1, dry |-> rehearse,
                 gendh |-> group, names |-> names, env |-> env, alone |-> TRUE, name |-> name]
<1>9. setup' = [setup EXCEPT ![p] = s]
  BY <1>1, Zenon
<1> HIDE DEF at, renew, rehearse, group, names, env, name
<1>10. /\ DOMAIN s = {"at", "data", "renew", "gen", "dry", "gendh", "names", "env", "alone", "name"}
       /\ s.at = at /\ s.data = toml /\ s.renew = renew /\ s.gen = runs + 1 /\ s.gendh = group
       /\ s.names = names /\ s.env = env /\ s.alone = TRUE /\ s.name = name
  OBVIOUS
<1> HIDE DEF s
<1>11. Running(s, runs')
  <2>1. s.gen \in 1 .. runs'
    BY <1>2, <1>8, <1>10
  <2>2. s.at \in SetupAt /\ s.at \notin {"account", "renewal"}
    BY <1>5, <1>10 DEF SetupAt
  <2>3. /\ s.renew \in BOOLEAN /\ s.gendh \in BOOLEAN /\ s.alone \in BOOLEAN
        /\ s.renew <=> s.at = "state"
    BY <1>4, <1>10, Zenon
  <2>4. Mode(s) = Files[toml].tls.mode
    BY <1>10 DEF Mode
  <2> QED BY <1>3, <1>6, <1>10, <2>1, <2>2, <2>3, <2>4, Zenon DEF Running
<1>12. Alone(s, certs)
  <2>1. Mode(s) = Files[toml].tls.mode
    BY <1>10 DEF Mode
  <2>2. Mode(s) # "manual" => KeyKept(s, certs) /\ CertKept(s, certs)
    BY <1>5, <1>10, <2>1 DEF KeyKept, CertKept
  <2>3. Mode(s) = "lets_encrypt" => AccountKept(s, certs) /\ StateKept(s, certs)
    BY <1>5, <1>10, <2>1 DEF AccountKept, StateKept
  <2>4. NameKept(s, certs)
    <3>1. renew => s.at = "state"
      BY <1>4, <1>10, Zenon
    <3> QED BY <1>7, <1>10, <3>1, Zenon DEF NameKept
  <2> QED BY <2>2, <2>3, <2>4 DEF Alone
<1>13. last' # None => LeftBy(last', certs)
  BY <1>2 DEF Keys
<1> QED BY <1>2, <1>8, <1>9, <1>11, <1>12, <1>13, OneRunKeys DEF RunOk

LEMMA ReadStateKeys == ASSUME Keys, NEW p \in Setups, ReadState(p) PROVE Keys'
<1> DEFINE s == setup[p]
           r == certs.renewal
           at == Obtain("lets_encrypt", r.env, s.dry)
           t == [s EXCEPT !.names = r.names, !.env = r.env, !.at = at]
<1>1. s.at = "state" /\ certs' = certs /\ runs' = runs /\ last' = last
  BY DEF ReadState
<1>2. Running(s, runs) /\ (s.alone => Alone(s, certs))
  BY <1>1, WorkingRunning
<1>3. last' # None => LeftBy(last', certs)
  BY <1>1 DEF Keys
<1>4. CASE ~Whole(r) \/ Mode(s) # "lets_encrypt"
  <2>1. setup' = [setup EXCEPT ![p] = Idle]
    BY <1>4 DEF ReadState, Mode
  <2> QED BY <1>1, <1>3, <2>1, KeysBounds, OneRunKeys DEF RunOk
<1>5. CASE Whole(r) /\ Mode(s) = "lets_encrypt"
  <2>1. StateOk(r)
    BY <1>5 DEF Keys, Stored
  <2>2. setup' = [setup EXCEPT ![p] = t]
    BY <1>5, <2>1 DEF ReadState, RenewNames, StateOk, Mode
  <2>3. at \in {"key", "fail"}
    BY DEF Obtain
  <2>4. s.renew
    BY <1>1, <1>2 DEF Running
  <2> HIDE DEF at
  <2>5. /\ DOMAIN t = DOMAIN s /\ t.at = at /\ t.data = s.data /\ t.renew = s.renew
        /\ t.gen = s.gen /\ t.gendh = s.gendh /\ t.alone = s.alone /\ t.name = s.name
        /\ t.names = r.names /\ t.env = r.env
    BY <1>2 DEF Running
  <2> HIDE DEF s, t, r
  <2>6. Mode(t) = "lets_encrypt" /\ t.renew
    BY <1>5, <2>4, <2>5 DEF Mode
  <2>7. Running(t, runs)
    <3>1. t.at \in SetupAt /\ t.at \notin {"state", "account", "renewal"}
      BY <2>3, <2>5 DEF SetupAt
    <3>2. /\ t.gen \in 1 .. runs /\ TakesTls(t.data) /\ t.renew \in BOOLEAN
          /\ t.gendh \in BOOLEAN /\ t.alone \in BOOLEAN
          /\ DOMAIN t = {"at", "data", "renew", "gen", "dry", "gendh", "names", "env", "alone", "name"}
      BY <1>2, <2>5, Zenon DEF Running
    <3>3. t.names \in Names /\ t.names \in Seq(Named) /\ t.names # <<>> /\ t.env \in Envs
      BY <2>1, <2>5 DEF StateOk
    <3> QED BY <2>6, <3>1, <3>2, <3>3 DEF Running
  <2>8. t.alone => Alone(t, certs)
    <3>1. /\ KeyKept(t, certs) /\ CertKept(t, certs) /\ AccountKept(t, certs)
          /\ StateKept(t, certs)
      BY <2>3, <2>5 DEF KeyKept, CertKept, AccountKept, StateKept
    <3>2. t.alone /\ t.name # None => Head(r.names) = t.name
      BY <1>1, <1>2, <2>4, <2>5 DEF Alone, NameKept, r
    <3>3. t.at # "state"
      BY <2>3, <2>5
    <3>4. t.alone => NameKept(t, certs)
      BY <2>5, <3>2, <3>3 DEF NameKept
    <3> QED BY <3>1, <3>4 DEF Alone
  <2> QED BY <1>1, <1>3, <2>2, <2>7, <2>8, KeysBounds, OneRunKeys DEF RunOk
<1> QED BY <1>4, <1>5

\* The other tools leave the directory.
LEMMA KeysSame ==
  ASSUME Keys, UNCHANGED keys, runs' \in {runs, runs + 1}, runs' <= MaxRuns PROVE Keys'
<1>1. certs' = certs /\ setup' = setup /\ last' = last
  BY DEF keys
<1>2. runs \in Nat /\ runs' \in Nat /\ runs <= runs' /\ runs' \in 0 .. MaxRuns
  BY BoundsAssumption DEF Keys
<1>3. Stored(certs', runs')
  BY <1>1, <1>2, LaterStored DEF Keys
<1>4. ASSUME NEW p \in Setups PROVE RunOk(setup'[p], certs', runs')
  <2>1. RunOk(setup[p], certs, runs)
    BY DEF Keys
  <2> QED BY <1>1, <1>2, <2>1, LaterRunning DEF RunOk
<1> QED BY <1>1, <1>2, <1>3, <1>4 DEF Keys

LEMMA InitKeys == ASSUME Init PROVE Keys
<1>1. /\ runs = 0 /\ certs = NoCerts /\ setup = [p \in Setups |-> Idle] /\ last = None
  BY DEF Init
<1>2. Stored(certs, runs)
  <2>1. /\ DOMAIN certs = {"key", "cert", "meta", "account", "renewal", "dh"}
        /\ certs.key = 0 /\ certs.cert = None /\ certs.meta = FALSE /\ certs.account = FALSE
        /\ certs.renewal = None /\ certs.dh = FALSE
    BY <1>1 DEF NoCerts
  <2>2. ~Whole(certs.cert) /\ ~Whole(certs.renewal)
    BY <2>1 DEF Whole
  <2>3. certs.key \in 0 .. runs
    BY <1>1, <2>1
  <2>4. certs.meta \in BOOLEAN /\ certs.account \in BOOLEAN /\ certs.dh \in BOOLEAN
    BY <2>1, Zenon
  <2> QED BY <2>1, <2>2, <2>3, <2>4 DEF Stored
<1>3. runs \in 0 .. MaxRuns
  BY <1>1, BoundsAssumption
<1> QED BY <1>1, <1>2, <1>3 DEF Keys, RunOk

-----------------------------------------------------------------------------
(* The invariant, and what it says.                                        *)

Sound == Reading /\ Keys

LEMMA ToolsSound ==
  ASSUME Sound,
         \/ Edit \/ Migrate
         \/ StartValidate \/ StartFlatten \/ Desugar \/ Full \/ Sites \/ EndValidate
         \/ RefuseFlatten \/ ReadGenerated \/ WriteConf
         \/ StartCensor \/ WriteGenerated \/ KillShell
  PROVE  Sound'
<1>1. Reading'
  BY EditReading, MigrateReading, StartValidateReading, StartFlattenReading, DesugarReading,
     FullReading, SitesReading, EndValidateReading, RefuseFlattenReading, ReadGeneratedReading,
     WriteConfReading, StartCensorReading, WriteGeneratedReading, KillShellReading DEF Sound
<1>2. UNCHANGED keys
  BY DEF Edit, Migrate, StartValidate, StartFlatten, Starts, Desugar, Full, Sites, Reads,
         EndValidate, RefuseFlatten, ReadGenerated, WriteConf, StartCensor, WriteGenerated, KillShell
<1>3. runs' = runs \/ (runs < MaxRuns /\ runs' = runs + 1)
  BY DEF Edit, Migrate, StartValidate, StartFlatten, Starts, Desugar, Full, Sites, Reads,
         EndValidate, RefuseFlatten, ReadGenerated, WriteConf, StartCensor, WriteGenerated, KillShell
<1>4. runs' \in {runs, runs + 1} /\ runs' <= MaxRuns
  BY <1>3, BoundsAssumption DEF Sound, Keys
<1> QED BY <1>1, <1>2, <1>4, KeysSame DEF Sound

LEMMA SetupsSound ==
  ASSUME Sound, NEW p \in Setups,
         \/ Begin(p) \/ ReadState(p) \/ WriteKey(p) \/ WriteCert(p) \/ WriteMeta(p)
         \/ WriteAccount(p) \/ WriteRenewal(p) \/ WriteDh(p) \/ Finish(p) \/ KillSetup(p)
  PROVE  Sound'
<1>1. Keys'
  BY BeginKeys, ReadStateKeys, WriteKeyKeys, WriteCertKeys, WriteMetaKeys, WriteAccountKeys,
     WriteRenewalKeys, WriteDhKeys, FinishKeys, KillSetupKeys DEF Sound, Reading
<1>2. UNCHANGED <<file, tools, censor>>
  BY DEF Begin, ReadState, WriteKey, WriteCert, WriteMeta, WriteAccount, WriteRenewal, WriteDh,
         Writes, Spoils, Finish, KillSetup
<1> QED BY <1>1, <1>2, ReadingSame DEF Sound

LEMMA SoundHolds == Spec => []Sound
<1>1. Init => Sound
  BY InitReading, InitKeys DEF Sound
<1>2. Sound /\ [Next]_vars => Sound'
  <2>1. ASSUME Sound, Next PROVE Sound'
    BY <2>1, ToolsSound, SetupsSound DEF Next
  <2>2. ASSUME Sound, UNCHANGED vars PROVE Sound'
    <3>1. UNCHANGED <<file, tools, censor>> /\ UNCHANGED keys /\ runs' = runs
      BY <2>2 DEF vars
    <3>2. runs' \in {runs, runs + 1} /\ runs' <= MaxRuns
      BY <2>2, <3>1, BoundsAssumption DEF Sound, Keys
    <3> QED BY <2>2, <3>1, <3>2, ReadingSame, KeysSame DEF Sound
  <2> QED BY <2>1, <2>2
<1> QED BY <1>1, <1>2, PTL DEF Spec

LEMMA TypesSound == ASSUME Sound PROVE TypeOK
<1>1. toml \in Versions /\ edits \in 0 .. MaxEdits
  BY DEF Sound, Reading, Found
<1>2. \/ shell = Idle
      \/ shell.at \in ShellAt /\ shell.tool \in Tools /\ shell.data \in Versions
         /\ {shell.same, shell.ok, shell.one} \subseteq BOOLEAN
      \/ shell.at \in {"write", "generate"}
  BY DEF Sound, Reading, Shell, Checking
<1>3. runs \in 0 .. MaxRuns /\ \A v \in {accepted, refused} \ {None} : v.data \in Versions
  BY DEF Sound, Reading, Found, Keys
<1>4. Whole(conf) => conf.data \in Versions /\ conf.generated # Bad /\ Lines.port
  BY PublicSound DEF Sound, Reading, Found, MadeOf
<1>5. /\ migrated \subseteq DOMAIN Migrations
      /\ Whole(generated) => generated.sources \subseteq migrated
  BY DEF Sound, Reading, Found
<1>6. /\ certs.key \in 0 .. MaxRuns /\ {certs.meta, certs.account, certs.dh} \subseteq BOOLEAN
      /\ Whole(certs.cert) => certs.cert.key \in 1 .. MaxRuns
  <2>1. Stored(certs, runs)
    BY DEF Sound, Keys
  <2>2. Stored(certs, MaxRuns)
    BY <1>3, <2>1, LaterStored, BoundsAssumption
  <2> QED BY <2>2 DEF Stored
<1>7. Whole(certs.renewal) => certs.renewal.names \in Names /\ certs.renewal.names # <<>>
  BY DEF Sound, Keys, Stored, StateOk
<1>8. ASSUME NEW p \in Setups, Working(p)
      PROVE  setup[p].at \in SetupAt /\ setup[p].gen \in 1 .. runs /\ setup[p].data \in Versions
  BY <1>8 DEF Sound, Keys, RunOk, Working, Running, TakesTls
<1> QED BY <1>1, <1>2, <1>3, <1>4, <1>5, <1>6, <1>7, <1>8 DEF TypeOK

\* The lines of a configuration with TLS.
LEMMA TlsLinesOf ==
  ASSUME Whole(conf), TlsOn(Files[conf.data]), Files[conf.data].tls.mode = "lets_encrypt"
  PROVE  Lines.tls.domains = Domains(Files[conf.data])
<1> DEFINE c == Files[conf.data]
<1>1. Lines.tls = TlsLines(c)
  BY DEF Lines, Flat
<1>2. TlsLines(c).domains = Domains(c)
  BY DEF TlsLines
<1> QED BY <1>1, <1>2

LEMMA KeysImply == ASSUME Keys PROVE CertWhole
<1> SUFFICES ASSUME last # None, last.mode # "manual"
             PROVE  /\ Whole(certs.cert) /\ certs.cert.key = certs.key
                    /\ last.mode = "lets_encrypt" =>
                         /\ certs.account /\ Whole(certs.renewal)
                         /\ certs.cert.cn = Head(certs.renewal.names)
                    /\ last.renew /\ last.name # None => certs.cert.cn = last.name
                    /\ (~last.renew /\ last.mode = "lets_encrypt" /\ Whole(conf)
                        /\ conf.data = last.data) =>
                         certs.cert.cn = Head(Lines.tls.domains)
  BY DEF CertWhole
<1>1. LeftBy(last, certs)
  BY DEF Keys
<1>2. ASSUME ~last.renew, last.mode = "lets_encrypt", Whole(conf), conf.data = last.data
      PROVE  certs.cert.cn = Head(Lines.tls.domains)
  <2>1. /\ TlsOn(Files[conf.data]) /\ Files[conf.data].tls.mode = "lets_encrypt"
        /\ certs.cert.cn = Head(Domains(Files[conf.data]))
    BY <1>1, <1>2 DEF LeftBy
  <2> QED BY <1>2, <2>1, TlsLinesOf
<1> QED BY <1>1, <1>2 DEF LeftBy

(* However the file is edited between the reads of the tools, wherever     *)
(* they are killed, and whoever else writes the keys, the types hold and a *)
(* runtime.conf of a file that asks for a public address has TLS:          *)
(* setup-tls-httpd, validate-httpd-config and flatten-httpd-config side by *)
(* side.  It says nothing of where the server really listens.              *)
THEOREM FilesAreSound == Spec => []FilesSound
<1>1. Sound => FilesSound
  <2>1. ASSUME Sound PROVE FilesSound
    <3>1. PublicHasTls
      BY <2>1, PublicSound DEF Sound, Reading, PublicHasTls
    <3> QED BY <2>1, <3>1, TypesSound DEF FilesSound
  <2> QED BY <2>1
<1> QED BY <1>1, SoundHolds, PTL

(* A runtime.conf that flatten-httpd-config made from a file without sites *)
(* that was the same at each of its reads passes everything the validator  *)
(* asks, and denies each sensitive column that setup-censor-httpd saw.     *)
THEOREM ConfIsSound == Spec => []ConfSound
<1>1. Sound => ConfSound
  BY ConfImplied DEF Sound, Reading
<1> QED BY <1>1, SoundHolds, PTL

(* A file that validate-httpd-config accepted and flatten-httpd-config     *)
(* refused, with the same leak_censor.generated.toml beside it, whole, cut *)
(* off or missing, is one whose sites, port or numbers nobody validates.   *)
THEOREM OnlyUnvalidatedRefused == Spec => []AcceptedFlattens
<1>1. Sound => AcceptedFlattens
  BY AcceptedSound DEF Sound, Reading
<1> QED BY <1>1, SoundHolds, PTL

(* A run of setup-tls-httpd during which no other wrote leaves a whole     *)
(* certificate for its key, the state for the next renewal and the         *)
(* account, and a renewal keeps the name.                                  *)
THEOREM CertIsWhole == Spec => []CertWhole
<1>1. Sound => CertWhole
  BY KeysImply DEF Sound
<1> QED BY <1>1, SoundHolds, PTL
=============================================================================
