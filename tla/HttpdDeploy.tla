---------------------------- MODULE HttpdDeploy ----------------------------
(***************************************************************************)
(* Bringing up the HTTP server: somebody edits li-httpd.toml while the     *)
(* tools run on it.  validate-httpd-config and flatten-httpd-config read   *)
(* the file several times, setup-censor-httpd reads the migrations of a    *)
(* database, and setup-tls-httpd writes a directory of keys file by file,  *)
(* where a renewal may run at the same time.  Each may be killed.          *)
(*                                                                         *)
(* The tools run without --cert-dir, so that all mean the same directory,  *)
(* and no environment variable of the exploit harness is set.              *)
(***************************************************************************)
EXTENDS HttpdOracle

CONSTANTS
  Files,         \* configurations, by version: a function
  Edits,         \* the edits somebody makes: pairs of versions
  Migrations,    \* the migrations there can be, by name
  Manifests,     \* what --migrations-applied is given: None or a set of names
  AllowedPeers,  \* what --allow-peer-host is given
  MaxEdits, MaxRuns  \* bounds: edits, and tools that are started

ASSUME EditsAssumption == Edits \subseteq (DOMAIN Files) \X (DOMAIN Files)
ASSUME BoundsAssumption == MaxEdits \in Nat /\ MaxRuns \in Nat

Versions == DOMAIN Files

(* What is a list in a file is a sequence.                                 *)
List(s) == s \in Seq(ToSet(s))
ASSUME FilesAssumption ==
  \A c \in {Files[v] : v \in Versions} :
    /\ c.sites \in Nat
    /\ \A p \in DOMAIN c.pools : List(c.pools[p].peers)
    /\ c.tls # None => List(c.tls.domains)
ASSUME MigrationsAssumption == \A n \in DOMAIN Migrations : List(Migrations[n].table.rows)

(* What is missing or cut off is no certificate and no state of a renewal. *)
WithTls == {v \in Versions : Files[v].tls # None}
Named == UNION {ToSet(Domains(Files[v])) : v \in WithTls}
Certificates == [key : Nat, cn : Named \cup {"localhost"}]
Renewals == [names : Seq(Named), env : {Files[v].tls.env : v \in WithTls}]
ASSUME MissingAssumption ==
  None # Bad /\ \A x \in {None, Bad} : x \notin Certificates /\ x \notin Renewals

(* Somebody runs setup-tls-httpd, and a timer runs it with --renew.        *)
Setups == {"setup", "renew"}

VARIABLES
  toml,       \* the version that li-httpd.toml is
  edits,      \* how often it was edited
  shell,      \* the validate, flatten or setup-censor that runs
  accepted,   \* what validate-httpd-config accepted last, if all its reads saw the same:
              \* the file, and the generated file beside it
  refused,    \* what flatten-httpd-config refused last, likewise
  conf,       \* runtime.conf: None, Bad when it was cut off, or what it was made from
  migrated,   \* the migrations in the directory
  generated,  \* leak_censor.generated.toml: None, Bad when it was cut off, or its contents
  certs,      \* the directory of keys
  setup,      \* [Setups -> the setup-tls-httpd that runs in the process]
  runs,       \* how many tools were started
  last        \* the last setup that completed, if no other wrote since it began

file   == <<toml, edits>>
tools  == <<shell, accepted, refused, conf>>
censor == <<migrated, generated>>
keys   == <<certs, setup, last>>
Now == Files[toml]
vars   == <<file, tools, censor, keys, runs>>

Idle == [at |-> "idle"]
NoCerts == [key |-> 0, cert |-> None, meta |-> FALSE, account |-> FALSE, renewal |-> None, dh |-> FALSE]

(* Bound: migrations are followed while the file has a censor. *)
Followed == IF Now.leak # None THEN DOMAIN Migrations ELSE {}

Init ==
  /\ toml \in Versions /\ edits = 0
  /\ runs = 0 /\ shell = Idle /\ accepted = None /\ refused = None /\ conf = None
  /\ migrated \in SUBSET Followed /\ generated = None
  /\ certs = NoCerts /\ setup = [p \in Setups |-> Idle] /\ last = None

-----------------------------------------------------------------------------
(* The people at work on the files. *)

Edit ==
  /\ edits < MaxEdits
  /\ \E v \in Versions : <<toml, v>> \in Edits /\ toml' = v
  /\ edits' = edits + 1
  /\ UNCHANGED <<tools, censor, keys, runs>>

Migrate ==
  /\ \E n \in Followed \ migrated : migrated' = migrated \cup {n}
  /\ UNCHANGED <<file, tools, generated, keys, runs>>

-----------------------------------------------------------------------------
(* validate-httpd-config and flatten-httpd-config.  shell.data is the file *)
(* at the first read, shell.same whether all reads saw that, shell.ok that *)
(* none failed, and shell.one that only one site is wanted.                *)

Starts(tool) ==
  /\ shell = Idle /\ runs < MaxRuns /\ runs' = runs + 1
  /\ UNCHANGED <<file, accepted, refused, conf, censor, keys>>

FirstRead(tool, at, ok) ==
  [at |-> at, tool |-> tool, data |-> toml, same |-> TRUE, ok |-> ok, one |-> FALSE, routes |-> toml]

StartValidate ==
  Starts("validate") /\ shell' = FirstRead("validate", "desugar", ValidateOk(Now, AllowedPeers))

StartFlatten ==
  Starts("flatten") /\ LET ok == FlattenOk(Now)
                       IN  shell' = FirstRead("flatten", IF ok THEN "full" ELSE "end", ok)

(* A read of the file, as it is now, that passes or fails. *)
Reads(at) == shell.at = at /\ UNCHANGED <<file, runs, accepted, refused, conf, censor, keys>>

Goto(at, ok) ==
  shell' = [shell EXCEPT !.at = at, !.ok = @ /\ ok, !.same = @ /\ shell.data = toml,
                         !.routes = toml]

Desugar == Reads("desugar") /\ Goto(IF Now.sites > 0 THEN "sites" ELSE "full", TRUE)

(* load_httpd_full leaves the sites to load_httpd_sites, which reads the   *)
(* file again, and takes only one.                                         *)
Full ==
  /\ Reads("full")
  /\ IF OracleOk(Now, generated) /\ Now.sites > 0
     THEN shell' = [shell EXCEPT !.at = "sites", !.one = TRUE, !.same = @ /\ shell.data = toml]
     ELSE Goto("end", FullOk(Now, generated))

Sites ==
  /\ Reads("sites")
  /\ IF Now.sites = 0 THEN Goto("full", TRUE)
     ELSE Goto("end", SitesOk(Now) /\ (shell.one => Now.sites = 1))

Seen(ok) == IF shell.same /\ ok THEN [data |-> shell.data, generated |-> generated] ELSE None

EndValidate ==
  /\ shell.at = "end" /\ shell.tool = "validate"
  /\ accepted' = Seen(shell.ok) /\ shell' = Idle
  /\ UNCHANGED <<file, runs, refused, conf, censor, keys>>

(* A refusal leaves the runtime.conf there is. *)
RefuseFlatten ==
  /\ shell.at = "end" /\ shell.tool = "flatten" /\ ~shell.ok
  /\ refused' = Seen(TRUE) /\ shell' = Idle
  /\ UNCHANGED <<file, runs, accepted, conf, censor, keys>>

Whole(g) == g \notin {None, Bad}

(* The lines are Flat of these: the first read, the read whose routes were *)
(* checked, and the generated file of the censor if it is included, which  *)
(* is an error when it does not parse.                                     *)
ReadGenerated ==
  /\ shell.at = "end" /\ shell.tool = "flatten" /\ shell.ok
  /\ LET includes == Includes(Files[shell.data])
     IN  shell' = IF includes /\ generated = Bad THEN [shell EXCEPT !.ok = FALSE]
                  ELSE [at |-> "write",
                        conf |-> [data |-> shell.data, routes |-> shell.routes, same |-> shell.same,
                                  generated |-> IF includes THEN generated ELSE None]]
  /\ UNCHANGED <<file, runs, accepted, refused, conf, censor, keys>>

WriteConf ==
  /\ shell.at = "write"
  /\ conf' = shell.conf /\ shell' = Idle
  /\ UNCHANGED <<file, runs, accepted, refused, censor, keys>>

-----------------------------------------------------------------------------
(* setup-censor-httpd.  The file it writes names the migrations in which   *)
(* it found something.                                                     *)

StartCensor ==
  /\ Now.leak # None /\ Starts("censor")
  /\ \E manifest \in Manifests \ {{}} :
       LET here == [n \in migrated |-> Migrations[n]]
       IN  shell' = [at |-> "generate",
                     file |-> [paths |-> Catalog(here, manifest),
                               sources |-> {n \in migrated : (manifest = None \/ n \in manifest)
                                                             /\ Discovered(here[n]) # {}}]]

WriteGenerated ==
  /\ shell.at = "generate"
  /\ generated' = shell.file /\ shell' = Idle
  /\ UNCHANGED <<file, runs, accepted, refused, conf, migrated, keys>>

(* A tool is killed.  A write truncates the file before it fills it.  Of   *)
(* the generated file there is then nothing that parses, no path yet, or   *)
(* every path and not every header.                                        *)
NoPaths == [paths |-> {}, sources |-> {}]
KillShell ==
  /\ shell # Idle /\ shell' = Idle
  /\ conf' \in {conf} \cup (IF shell.at = "write" THEN {Bad} ELSE {})
  /\ generated' \in {generated} \cup (IF shell.at = "generate" THEN {Bad, NoPaths, shell.file} ELSE {})
  /\ UNCHANGED <<file, runs, accepted, refused, migrated, keys>>

-----------------------------------------------------------------------------
(* setup-tls-httpd.  A configuration that is refused, or has no TLS, ends  *)
(* the run before anything is written.                                     *)

Working(p) == setup[p] # Idle

(* Without a live authority a certificate is obtained only for staging or  *)
(* as a rehearsal.                                                         *)
Obtain(mode, env, dry) ==
  CASE mode = "self_signed" -> "key"
    [] mode = "lets_encrypt" -> IF dry \/ env = "staging" THEN "key" ELSE "fail"
    [] OTHER -> "dh"

AfterAll(s) == IF s.gendh THEN "dh" ELSE "done"

Begin(p) ==
  /\ ~Working(p) /\ TlsOn(Now) /\ TlsOk(Now)
  /\ runs < MaxRuns /\ runs' = runs + 1
  /\ \E dry, gendh \in BOOLEAN :
       setup' = [setup EXCEPT ![p] =
         [at |-> IF p = "renew" THEN "state" ELSE Obtain(Now.tls.mode, Now.tls.env, dry),
          data |-> toml, renew |-> p = "renew", gen |-> runs + 1,
          dry |-> dry /\ Now.tls.mode = "lets_encrypt", gendh |-> gendh /\ p = "setup",
          names |-> Domains(Now), env |-> Now.tls.env, alone |-> TRUE,
          name |-> IF last # None /\ last.mode = "lets_encrypt" THEN certs.cert.cn ELSE None]]
  /\ UNCHANGED <<file, tools, censor, certs, last>>

(* A renewal takes names and environment from the state the last run left. *)
RenewNames(state, names) == IF state.names # <<>> THEN state.names ELSE names

ReadState(p) ==
  /\ setup[p].at = "state"
  /\ LET s == setup[p]
         state == certs.renewal
     IN  setup' = [setup EXCEPT ![p] =
           IF ~Whole(state) \/ Files[s.data].tls.mode # "lets_encrypt" THEN Idle
           ELSE [s EXCEPT !.names = RenewNames(state, s.names), !.env = state.env,
                          !.at = Obtain("lets_encrypt", state.env, s.dry)]]
  /\ UNCHANGED <<file, tools, censor, certs, runs, last>>

(* p writes to the directory, which spoils it for the others, and goes on. *)
Spoils(p, then) ==
  /\ setup' = [q \in Setups |-> IF q = p THEN then
                                ELSE IF Working(q) THEN [setup[q] EXCEPT !.alone = FALSE]
                                ELSE Idle]
  /\ last' = None
  /\ UNCHANGED <<file, tools, censor, runs>>

Writes(p, at, next) == setup[p].at = at /\ Spoils(p, [setup[p] EXCEPT !.at = next])

(* openssl writes the key, then a certificate for it. *)
WriteKey(p) == Writes(p, "key", "cert") /\ certs' = [certs EXCEPT !.key = setup[p].gen]

CommonNameLast(s) == IF s.names # <<>> THEN Last(s.names) ELSE "localhost" \* a plausible bug
CommonName(s) == IF s.names # <<>> THEN Head(s.names) ELSE "localhost"

WriteCert(p) ==
  /\ Writes(p, "cert", "meta")
  /\ certs' = [certs EXCEPT !.cert = [key |-> setup[p].gen, cn |-> CommonName(setup[p])]]

WriteMeta(p) ==
  /\ Writes(p, "meta", IF Files[setup[p].data].tls.mode = "lets_encrypt" THEN "account" ELSE AfterAll(setup[p]))
  /\ certs' = [certs EXCEPT !.meta = TRUE]

WriteAccount(p) == Writes(p, "account", "renewal") /\ certs' = [certs EXCEPT !.account = TRUE]

RenewalState(s) == [names |-> s.names, env |-> s.env]

WriteRenewal(p) ==
  /\ Writes(p, "renewal", IF setup[p].renew THEN "done" ELSE AfterAll(setup[p]))
  /\ certs' = [certs EXCEPT !.renewal = RenewalState(setup[p])]

WriteDh(p) ==
  /\ setup[p].at = "dh" /\ setup[p].gendh /\ Files[setup[p].data].tls.dh # None
  /\ Writes(p, "dh", "done") /\ certs' = [certs EXCEPT !.dh = TRUE]

(* With --gen-dhparam but no file for it in the configuration, a run fails *)
(* when all the rest is written.                                           *)
Ends(s) == s.at \in {"done", "fail"} \/ (s.at = "dh" /\ (s.gendh => Files[s.data].tls.dh = None))
Completes(s) == s.at = "done" \/ (s.at = "dh" /\ ~s.gendh)

Finish(p) ==
  /\ Working(p) /\ Ends(setup[p])
  /\ LET s == setup[p]
     IN  last' = IF ~Completes(s) THEN last
                 ELSE IF s.alone
                 THEN [mode |-> Files[s.data].tls.mode, data |-> s.data, renew |-> s.renew, name |-> s.name]
                 ELSE None
  /\ setup' = [setup EXCEPT ![p] = Idle]
  /\ UNCHANGED <<file, tools, censor, certs, runs>>

(* Killed, or openssl failed.  A state that is cut off is no JSON. *)
KillSetup(p) ==
  /\ Working(p)
  /\ \/ /\ setup' = [setup EXCEPT ![p] = Idle]
        /\ UNCHANGED <<file, tools, censor, runs, certs, last>>
     \/ /\ setup[p].at = "renewal" /\ certs' = [certs EXCEPT !.renewal = Bad]
        /\ Spoils(p, Idle)

-----------------------------------------------------------------------------

Next ==
  \/ Edit \/ Migrate
  \/ StartValidate \/ StartFlatten \/ Desugar \/ Full \/ Sites \/ EndValidate
  \/ RefuseFlatten \/ ReadGenerated \/ WriteConf
  \/ StartCensor \/ WriteGenerated \/ KillShell
  \/ \E p \in Setups :
       \/ Begin(p) \/ ReadState(p) \/ WriteKey(p) \/ WriteCert(p) \/ WriteMeta(p)
       \/ WriteAccount(p) \/ WriteRenewal(p) \/ WriteDh(p) \/ Finish(p) \/ KillSetup(p)

Spec == Init /\ [][Next]_vars

-----------------------------------------------------------------------------
(* Properties. *)

Lines == Flat(Files[conf.data], Files[conf.routes].routes, conf.generated)

Tools == {"validate", "flatten"}
ShellAt == {"desugar", "full", "sites", "end"}
SetupAt == {"state", "key", "cert", "meta", "account", "renewal", "dh", "done", "fail"}
Names == Seq(UNION {RouteHosts(Files[v]) : v \in Versions})

(* The types of the variables: files that were cut off, runs that ended,   *)
(* and names of certificates that all come from configurations.            *)
TypeOK ==
  /\ toml \in Versions /\ edits \in 0..MaxEdits
  /\ \/ shell = Idle
     \/ shell.at \in ShellAt /\ shell.tool \in Tools /\ shell.data \in Versions
        /\ {shell.same, shell.ok, shell.one} \subseteq BOOLEAN
     \/ shell.at \in {"write", "generate"}
  /\ runs \in 0..MaxRuns
  /\ \A v \in {accepted, refused} \ {None} : v.data \in Versions
  /\ Whole(conf) => conf.data \in Versions /\ conf.generated # Bad /\ Lines.port
  /\ migrated \subseteq DOMAIN Migrations
  /\ Whole(generated) => generated.sources \subseteq migrated
  /\ certs.key \in 0..MaxRuns /\ {certs.meta, certs.account, certs.dh} \subseteq BOOLEAN
  /\ Whole(certs.cert) => certs.cert.key \in 1..MaxRuns
  /\ Whole(certs.renewal) => certs.renewal.names \in Names /\ certs.renewal.names # <<>>
  /\ \A p \in Setups : Working(p) =>
       setup[p].at \in SetupAt /\ setup[p].gen \in 1..runs /\ setup[p].data \in Versions

(* However the file is edited between the reads of the tools, and wherever *)
(* they are killed: a runtime.conf of a file that asks for an address the  *)
(* world reaches has TLS, and a certificate nobody signed only for         *)
(* development.                                                            *)
PublicHasTls ==
  Whole(conf) /\ Files[conf.data].listen = "public" =>
    Lines.tls.on /\ (Lines.tls.mode = "self_signed" => Lines.tls.dev)
FilesSound == TypeOK /\ PublicHasTls

(* What docs/testing/webserver-security.md promises: TLS is required off   *)
(* loopback.  The server of a runtime.conf listens on every address,       *)
(* whichever one the file asked for.                                       *)
OffLoopbackHasTls == Whole(conf) => (ListenAddress = "public" => Lines.tls.on)

Proxied(l) == {r \in ToSet(l.routes) : r.pool # None}
StreamsLimited(l) == l.limits.idle # None \/ l.limits.conc # None

(* Streams to a pool that are limited at all are limited in every way. *)
StreamsBounded(l) ==
  (Proxied(l) # {} /\ (StreamsLimited(l) \/ l.traced # {} \/ l.models # {})) =>
    /\ {l.limits.idle, l.limits.maxdur, l.limits.conc} \cap {None, Bad} = {}
    /\ l.limits.idle <= l.limits.maxdur /\ InRange(l.limits.conc, 10000)

(* Then every route for inference asks for a trace. *)
InferenceTraced(l) == StreamsLimited(l) => \A r \in Proxied(l) : Inference(r) => r \in l.traced

(* What is proxied, by route or by model, has somewhere to go. *)
PoolsHavePeers(l) ==
  {r.pool : r \in Proxied(l)} \cup {x.pool : x \in l.models} \subseteq {x[1] : x \in l.peers}

(* HTTP/2 comes with TLS 1.3 that ends here; TLS that ends here is 1.3, or *)
(* has parameters for Diffie-Hellman.                                      *)
TerminationStrong(l) ==
  /\ l.m2.h2 # None => l.m2.terminate /\ l.tls.minp = "1.3"
  /\ l.m2.terminate => l.tls.on /\ (l.tls.minp = "1.3" \/ l.tls.dh # None)

(* Queue, breaker and websockets stand before something that is proxied.   *)
ProxyFeatures(l) ==
  /\ l.m2.queue # None \/ l.m2.cb # None => Proxied(l) # {}
  /\ \A r \in l.m2.websockets : r.pool # None

(* Nothing goes out to private hosts; what comes in below HTTP from the    *)
(* world comes to a server with TLS.                                       *)
EgressPublic(l) ==
  /\ \A h \in ToSet(l.m2.hooks) : h.kind = "https"
  /\ l.m3.l4 # None /\ l.m3.l4.listen = "public" => l.tls.on

(* A censor that takes the generated paths denies each sensitive column    *)
(* that has a line of its own in a migration the paths were made from; a   *)
(* generated file that was cut off before its paths is made from none.     *)
CensorCovers(l) ==
  LET g == conf.generated
      rows(n) == IF Migrations[n].table.closed THEN ToSet(Migrations[n].table.rows) ELSE {}
  IN  l.censor.on /\ Files[conf.data].leak.generated /\ Whole(g) =>
        \A n \in g.sources : \A row \in rows(n) :
          Head(row).secret \/ Head(row).marked => Head(row).name \in l.censor.deny

(* A runtime.conf made from a file without sites, that was the same at     *)
(* every read, is sound, though the lines come from the first read and the *)
(* checks from the later ones.                                             *)
ConfSound ==
  (Whole(conf) /\ conf.same /\ Files[conf.data].sites = 0) =>
    LET l == Lines IN
    /\ StreamsBounded(l) /\ InferenceTraced(l) /\ PoolsHavePeers(l) /\ TerminationStrong(l)
    /\ ProxyFeatures(l) /\ EgressPublic(l) /\ CensorCovers(l)

(* What validate-httpd-config accepts flatten-httpd-config can take, with  *)
(* the same generated file beside it, if it has no sites, an address with  *)
(* a port, and numbers that are numbers also where nobody validates them.  *)
Unvalidated(c) == c.sites > 0 \/ ~c.port \/ ~Parses(c)
AcceptedFlattens ==
  (accepted # None /\ accepted = refused) => Unvalidated(Files[accepted.data])

(* A setup during which no other wrote leaves a certificate for the key,   *)
(* the state for its renewal and the account; a renewal keeps the name of  *)
(* the certificate it renews, and without one the name is what the         *)
(* runtime.conf of the same file says.                                     *)
CertWhole ==
  last # None /\ last.mode # "manual" =>
    /\ Whole(certs.cert) /\ certs.cert.key = certs.key
    /\ last.mode = "lets_encrypt" =>
         /\ certs.account /\ Whole(certs.renewal)
         /\ certs.cert.cn = Head(certs.renewal.names)
    /\ last.renew /\ last.name # None => certs.cert.cn = last.name
    /\ (~last.renew /\ last.mode = "lets_encrypt" /\ Whole(conf) /\ conf.data = last.data) =>
         certs.cert.cn = Head(Lines.tls.domains)

=============================================================================
