------------------------------ MODULE Verdicts ------------------------------
(***************************************************************************)
(* The verdict on a target, as its three executors reach it: the worker of *)
(* the server (performCheck of every monitor type), the Go agent that runs *)
(* a proxied monitor (proxy_check.go) and the TypeScript proxy that does   *)
(* the same in a container (src/proxy).                                    *)
(*                                                                         *)
(* A target is reduced to what the verdicts tell apart: whether it answers *)
(* in time, the class of its status code, whether the keyword is in its    *)
(* body, the value at the JSON path, its certificate, its records.         *)
(***************************************************************************)
EXTENDS Integers

Executors == {"server", "agent", "proxy"}

(***************************************************************************)
(* HTTP and JSON API.                                                      *)
(*   cfg: [type, https, ignoreSsl, headers, codes, keyword, path, expected]*)
(*   ans: [reach, code, found, json], cert: [trusted, days, broken]        *)
(* headers: false when the column is null, as it is for a monitor made in  *)
(* the form.  path is "rooted" for one that begins with "$.", expected is  *)
(* "null" when it is not set; json is "text" for a body that is no JSON,   *)
(* and otherwise what the path leads to.  days are whole days until the    *)
(* certificate expires, broken a handshake that fails or times out.        *)
(***************************************************************************)
WarnDays    == 30
ListedCodes == {200, 201, 204, 301, 302}
CustomCodes == {206, 404}

Accepts(executor, codes, code) ==
  IF codes = "custom" THEN code \in CustomCodes
  ELSE IF executor = "agent" THEN code >= 200 /\ code < 400
  ELSE code \in ListedCodes /\ ~(codes = "empty" /\ executor = "server")

\* Mutant: a keyword that must be absent is looked for no more.
KeywordPresent(executor, keyword, found) == keyword = "present" => found

\* keywordIsPresent left unset means "present" to the server, "absent" to the others.
KeywordHolds(executor, keyword, found) ==
  CASE keyword = "none"    -> TRUE
    [] keyword = "present" -> found
    [] keyword = "absent"  -> ~found
    [] keyword = "unset"   -> IF executor = "server" THEN found ELSE ~found

\* extractJSONPath: the empty string ("empty") for all that cannot be followed.
ProxiedValue(path, json) ==
  IF path = "rooted" \/ json \in {"text", "null", "missing"} THEN "empty" ELSE json

\* resolvePath: only the server knows the prefix "$.".  With no value to expect, what
\* the path leads to has to be there.
ServerJsonHolds(path, expected, json) ==
  /\ json # "text"
  /\ path # "none" =>
       IF expected = "null" THEN json \notin {"missing", "null", "false", "empty"}
                            ELSE json = expected

ProxiedJsonHolds(path, expected, json) ==
  path = "none" \/ expected \in {"null", "empty"} \/ ProxiedValue(path, json) = expected

Valid(cert)   == cert.trusted /\ cert.days >= 0 /\ ~cert.broken
Secured(cfg)  == cfg.https /\ ~cfg.ignoreSsl

\* The request itself: the TLS stack refuses a certificate it cannot verify.
Answers(cfg, ans, cert) ==
  ans.reach /\ (cfg.https => ~cert.broken) /\ (Secured(cfg) => Valid(cert))

\* checkSslCertificate opens a connection of its own and verifies nothing.
ServerCertificate(cert) ==
  IF cert.broken \/ cert.days < 0 THEN "ssl_expired"
  ELSE IF cert.days < WarnDays THEN "ssl_warning" ELSE "up"

\* The status code, the keyword, the value at the path.
ServerBody(cfg, ans) ==
  IF cfg.type = "http"
    THEN Accepts("server", cfg.codes, ans.code) /\ KeywordHolds("server", cfg.keyword, ans.found)
    ELSE /\ ans.code >= 200 /\ ans.code < 300
         /\ ServerJsonHolds(cfg.path, cfg.expected, ans.json)

\* Mutant: the certificate is judged on its own.
ServerHttpCertificateFirst(cfg, ans, cert, later) ==
  IF ~Answers(cfg, ans, cert) THEN "down"
  ELSE IF Secured(cfg) /\ ServerCertificate(later) = "ssl_warning" THEN "ssl_warning"
  ELSE IF ~ServerBody(cfg, ans) THEN "down"
  ELSE IF Secured(cfg) THEN ServerCertificate(later) ELSE "up"

\* HttpMonitorWorker and JsonApiMonitorWorker: cert is what the request met,
\* later what the second connection meets.
ServerHttp(cfg, ans, cert, later) ==
  IF ~Answers(cfg, ans, cert) \/ ~ServerBody(cfg, ans) THEN "down"
  ELSE IF Secured(cfg) THEN ServerCertificate(later) ELSE "up"

\* doHTTPCheck and httpCheck, for both types: the codes, then the keyword and the
\* JSON path, each of which sets the status, and then the certificate, which
\* sets it again.
ProxiedBody(executor, cfg, ans) ==
  IF /\ KeywordHolds(executor, cfg.keyword, ans.found)
     /\ ProxiedJsonHolds(cfg.path, cfg.expected, ans.json)
  THEN "up" ELSE "down"

Overridden(cert, status) ==
  IF cert.days <= 0 THEN "down" ELSE IF cert.days <= WarnDays THEN "up" ELSE status

AgentHttp(cfg, ans, cert) ==
  IF ~Answers(cfg, ans, cert) \/ ~Accepts("agent", cfg.codes, ans.code) THEN "down"
  ELSE IF Secured(cfg) THEN Overridden(cert, ProxiedBody("agent", cfg, ans))
  ELSE ProxiedBody("agent", cfg, ans)

\* The proxy's fetch rejects headers of null, and the https.Agent that ignoreSsl gives it
\* for a dispatcher, before anything is sent.
Unsendable(cfg) == ~cfg.headers \/ cfg.ignoreSsl

\* checkSslCert is a second, verified connection; its failure changes nothing.
ProxyHttp(cfg, ans, cert, later) ==
  IF \/ Unsendable(cfg)
     \/ ~Answers(cfg, ans, cert)
     \/ ~Accepts("proxy", cfg.codes, ans.code)
  THEN "down"
  ELSE IF Secured(cfg) /\ Valid(later) THEN Overridden(later, ProxiedBody("proxy", cfg, ans))
  ELSE ProxiedBody("proxy", cfg, ans)

(***************************************************************************)
(* The certificate itself (type ssl).                                      *)
(***************************************************************************)
SslVerdict(executor, ans, cert) ==
  IF ~ans.reach \/ cert.broken \/ cert.days < 0 THEN "down"
  ELSE IF executor = "server" THEN (IF cert.days < WarnDays THEN "ssl_warning" ELSE "up")
  ELSE (IF cert.trusted /\ cert.days # 0 THEN "up" ELSE "down")

(***************************************************************************)
(* DNS.  cfg: [type, record, expected], ans: [reach, records], the record  *)
(* types the name has; SOA stands for the types only the server knows.     *)
(* expected is "whole" for the text of a record of the type, "part" for a  *)
(* piece of it, "other" for what no record shows.                          *)
(***************************************************************************)
Resolved(executor, record, records) ==
  CASE executor = "agent" /\ record \in {"A", "AAAA", "CNAME", "SOA"} ->
         records \cap {"A", "AAAA"} # {}
    [] executor = "proxy" /\ record = "SOA" -> "A" \in records
    [] OTHER -> record \in records

\* The server looks for the expected text inside a record, the others for a record
\* equal to it: which is an address when SOA was asked for, and for MX has the
\* priority written behind the host.
Shows(executor, record, expected, records) ==
  \/ expected = "none"
  \/ IF executor = "server" THEN expected \in {"whole", "part"}
     ELSE expected = "whole" /\ record \in records \ {"MX", "SOA"}

DnsVerdict(executor, cfg, ans) ==
  IF /\ ans.reach
     /\ Resolved(executor, cfg.record, ans.records)
     /\ Shows(executor, cfg.record, cfg.expected, ans.records)
  THEN "up" ELSE "down"

(***************************************************************************)
(* The others.  SMTP: cfg.port is "smtp", or "general" for a monitor whose *)
(* port is in the field `port`, which only the server falls back to.       *)
(***************************************************************************)
SmtpVerdict(executor, cfg, ans) ==
  IF /\ ans.reach
     /\ executor # "server" => cfg.port = "smtp"
     /\ ans.banner
     /\ executor = "server" => ans.ehlo
  THEN "up" ELSE "down"

\* ping, TCP and game servers: an answer in time.
ReachVerdict(ans) == IF ans.reach THEN "up" ELSE "down"

\* A container that runs, a script that ends with the expected code, a page that shows
\* the selector and the keyword.
DockerVerdict(ans)  == IF ans.reach /\ ans.running THEN "up" ELSE "down"
ScriptVerdict(cfg, ans) == IF ans.reach /\ ans.exit = cfg.exit THEN "up" ELSE "down"
BrowserVerdict(cfg, ans) ==
  IF /\ ans.reach
     /\ cfg.selector => ans.selector
     /\ KeywordHolds("server", cfg.keyword, ans.found)
  THEN "up" ELSE "down"

(***************************************************************************)
(* Dispatch: which worker the manager makes of a type, which types the     *)
(* executors know, and for which of them syncProxyMonitors sends the       *)
(* fields: without its command, host or URL the proxy says 'down'.         *)
(***************************************************************************)
Understood(executor) ==
  CASE executor = "agent"  -> {"http", "json_api", "ping", "tcp", "dns", "ssl", "smtp"}
    [] executor = "proxy"  -> {"http", "json_api", "ping", "tcp", "dns", "ssl", "smtp", "game_server"}
    [] executor = "server" -> {"http", "json_api", "ping", "tcp", "dns", "ssl", "smtp", "game_server",
                               "docker", "script", "browser"}

WebVerdict(executor, cfg, ans, cert, later) ==
  CASE executor = "server" -> ServerHttp(cfg, ans, cert, later)
    [] executor = "agent"  -> AgentHttp(cfg, ans, cert)
    [] executor = "proxy"  -> ProxyHttp(cfg, ans, cert, later)

Verdict(executor, cfg, ans, cert, later) ==
  IF cfg.type \notin Understood(executor) THEN "down"
  ELSE CASE cfg.type \in {"http", "json_api"} -> WebVerdict(executor, cfg, ans, cert, later)
         [] cfg.type = "ssl"     -> SslVerdict(executor, ans, cert)
         [] cfg.type = "dns"     -> DnsVerdict(executor, cfg, ans)
         [] cfg.type = "smtp"    -> SmtpVerdict(executor, cfg, ans)
         [] cfg.type = "docker"  -> DockerVerdict(ans)
         [] cfg.type = "script"  -> ScriptVerdict(cfg, ans)
         [] cfg.type = "browser" -> BrowserVerdict(cfg, ans)
         [] OTHER                -> ReachVerdict(ans)
=============================================================================
