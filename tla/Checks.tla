------------------------------- MODULE Checks -------------------------------
(***************************************************************************)
(* The checks of the monitors: what the three executors make of one target *)
(* (Verdicts), and the three kinds of monitor whose check has a memory of  *)
(* its own: the value watcher, the push monitor and the proxied monitor.   *)
(* They share nothing, so a behaviour is that of one monitor.              *)
(***************************************************************************)
EXTENDS Verdicts, ValueWatcher, PushMonitor, ProxiedResult

CONSTANTS
  Kinds,         \* of {"target", "watcher", "push", "proxied"}
  Cases,         \* [cfg, ans, certs]: a configuration, an answer, the certificates it may have
  None           \* no certificate was met, no verdict reached

(***************************************************************************)
(* What a monitor can ask and be answered, whatever the codes, the days,   *)
(* the texts and the records: the fields that Verdicts reads.  "text" and  *)
(* "missing" stand for no text that can be expected.  An HTTP monitor has  *)
(* no JSON path, a JSON monitor no codes of its own and no keyword.        *)
(***************************************************************************)
Certificates == [trusted : BOOLEAN, days : Int, broken : BOOLEAN]

Keywords == {"none", "present", "absent", "unset"}
Records  == {"A", "AAAA", "MX", "CNAME", "SOA"}

Exchange(cfg, ans) ==
  \/ /\ cfg \in [type : {"http", "json_api"}, https : BOOLEAN, ignoreSsl : BOOLEAN,
                  headers : BOOLEAN, codes : {"default", "custom", "empty"}, keyword : Keywords,
                  path : {"none", "plain", "rooted"}, expected : STRING \ {"text", "missing"}]
     /\ ans \in [reach : BOOLEAN, code : Nat, found : BOOLEAN, json : STRING]
     /\ cfg.type = "http" => cfg.path = "none"
     /\ cfg.type = "json_api" => cfg.codes = "default" /\ cfg.keyword = "none"
  \/ cfg \in [type : {"ssl", "ping", "tcp", "game_server"}] /\ ans \in [reach : BOOLEAN]
  \/ /\ cfg \in [type : {"dns"}, record : Records, expected : {"none", "whole", "part", "other"}]
     /\ ans \in [reach : BOOLEAN, records : SUBSET Records]
  \/ /\ cfg \in [type : {"smtp"}, port : {"smtp", "general"}]
     /\ ans \in [reach : BOOLEAN, banner : BOOLEAN, ehlo : BOOLEAN]
  \/ cfg \in [type : {"docker"}] /\ ans \in [reach : BOOLEAN, running : BOOLEAN]
  \/ cfg \in [type : {"script"}, exit : Int] /\ ans \in [reach : BOOLEAN, exit : Int]
  \/ /\ cfg \in [type : {"browser"}, selector : BOOLEAN, keyword : Keywords]
     /\ ans \in [reach : BOOLEAN, selector : BOOLEAN, found : BOOLEAN]

Outcomes == {"up", "down", "ssl_warning", "ssl_expired"}

ASSUME CasesAssumption ==
  /\ Cases # {}
  /\ \A c \in Cases : Exchange(c.cfg, c.ans) /\ c.certs # {} /\ c.certs \subseteq Certificates
  /\ None \notin Certificates
  /\ None \notin [Executors -> Outcomes]

VARIABLES
  kind,          \* the kind of the monitor
  case,          \* its configuration and how its target answers
  cert,          \* the certificate the target presents
  met,           \* the one the request met
  verdict        \* what each executor concluded

targetVars == <<case, cert, met, verdict>>
checksVars == <<kind, targetVars, watcherVars, pushVars, resultVars>>

ChecksTypeOK ==
  /\ kind \in Kinds
  /\ case \in Cases
  /\ cert \in case.certs
  /\ met \in case.certs \cup {None}
  /\ verdict \in [Executors -> Outcomes] \cup {None}
  /\ WatcherTypeOK /\ PushTypeOK /\ ResultTypeOK

ChecksInit ==
  /\ kind \in Kinds
  /\ IF kind = "target" THEN case \in Cases ELSE case = CHOOSE c \in Cases : TRUE
  /\ IF kind = "target" THEN cert \in case.certs ELSE cert = CHOOSE c \in case.certs : TRUE
  /\ met = None
  /\ verdict = None
  /\ WatcherInit /\ PushInit /\ ResultInit
  /\ kind # "watcher" => value = Empty
  /\ kind # "proxied" => ~upsideDown

\* The request; each executor's meets the same.
Request ==
  /\ met = None
  /\ met' = cert
  /\ UNCHANGED <<case, cert, verdict>>

\* The certificate is replaced before the server and the proxy look at it on a second
\* connection.
ReplaceCertificate ==
  /\ met # None /\ verdict = None
  /\ cert' \in case.certs \ {cert}
  /\ UNCHANGED <<case, met, verdict>>

Conclude ==
  /\ met # None /\ verdict = None
  /\ verdict' = [e \in Executors |-> Verdict(e, case.cfg, case.ans, met, cert)]
  /\ UNCHANGED <<case, cert, met>>

CheckAgain ==
  /\ verdict # None
  /\ met' = None
  /\ verdict' = None
  /\ UNCHANGED <<case, cert>>

TargetNext == Request \/ ReplaceCertificate \/ Conclude \/ CheckAgain

ChecksNext ==
  /\ UNCHANGED kind
  /\ \/ /\ kind = "target" /\ TargetNext
        /\ UNCHANGED <<watcherVars, pushVars, resultVars>>
     \/ /\ kind = "watcher" /\ WatcherNext
        /\ UNCHANGED <<targetVars, pushVars, resultVars>>
     \/ /\ kind = "push" /\ PushNext
        /\ UNCHANGED <<targetVars, watcherVars, resultVars>>
     \/ /\ kind = "proxied" /\ ResultNext
        /\ UNCHANGED <<targetVars, watcherVars, pushVars>>

ChecksSpec == ChecksInit /\ [][ChecksNext]_checksVars

-----------------------------------------------------------------------------
\* What the executors concluded is the verdict on what the request met.
ConcludedInv ==
  verdict # None =>
    /\ met # None
    /\ verdict = [e \in Executors |-> Verdict(e, case.cfg, case.ans, met, cert)]

Web(cfg) == cfg.type \in {"http", "json_api"}

\* What the server's worker and the executors of a proxied monitor are known to judge
\* differently.
Diverges(cfg, ans) ==
  \/ /\ Web(cfg)
     /\ \/ cfg.codes = "empty"
        \/ cfg.type = "http" /\ cfg.codes = "default" /\ ans.code \in (200 .. 399) \ ListedCodes
        \/ cfg.keyword = "unset"
        \/ /\ cfg.type = "json_api"
           /\ \/ ans.code \notin 200 .. 299 \/ ans.code \notin ListedCodes
              \/ cfg.path = "rooted"
              \/ cfg.path = "none" /\ ans.json = "text"
              \/ cfg.path = "plain" /\ cfg.expected \in {"null", "empty"}
        \/ Secured(cfg) /\ \/ met.days = 0
                           \/ met.days <= WarnDays /\ ProxiedBody("agent", cfg, ans) = "down"
  \/ cfg.type = "ssl" /\ ~(met.trusted /\ met.days # 0)
  \/ /\ cfg.type = "dns"
     /\ \/ cfg.record = "SOA"
        \/ cfg.record \in {"A", "AAAA", "CNAME"} /\ cfg.record \notin ans.records
        \/ cfg.record = "CNAME" /\ ans.records \cap {"A", "AAAA"} = {}
        \/ cfg.expected = "part"
        \/ cfg.expected = "whole" /\ cfg.record = "MX"
  \/ cfg.type = "smtp" /\ (cfg.port = "general" \/ ~ans.ehlo)

Coarse(status) ==
  CASE status = "ssl_warning" -> "up"
    [] status = "ssl_expired" -> "down"
    [] OTHER                  -> status

\* A monitor moved to an agent or to a proxy says what it said on the server, for
\* every type they know: unless the certificate was replaced during the check, apart
\* from what Diverges lists, and but for the requests the TypeScript proxy cannot send.
ExecutorsAgree ==
  verdict # None /\ met = cert /\ ~Diverges(case.cfg, case.ans) =>
    \A e \in Executors :
      /\ case.cfg.type \in Understood(e)
      /\ ~(e = "proxy" /\ Web(case.cfg) /\ Unsendable(case.cfg))
      => Coarse(verdict[e]) = Coarse(verdict["server"])

\* What the configuration asks of the target, whoever checks it.
Asked(cfg, ans) ==
  CASE cfg.type = "http" ->
         /\ IF cfg.codes = "custom" THEN ans.code \in CustomCodes ELSE ans.code \in 200 .. 399
         /\ cfg.keyword = "present" => ans.found
         /\ cfg.keyword = "absent" => ~ans.found
    [] cfg.type = "json_api" ->
         /\ ans.code \in 200 .. 399
         /\ cfg.path # "none" /\ cfg.expected \notin {"null", "empty"} => ans.json = cfg.expected
    [] cfg.type = "dns"     -> cfg.expected # "other"
    [] cfg.type = "smtp"    -> ans.banner
    [] cfg.type = "docker"  -> ans.running
    [] cfg.type = "script"  -> ans.exit = cfg.exit
    [] cfg.type = "browser" -> /\ cfg.selector => ans.selector
                               /\ cfg.keyword = "present" => ans.found
    [] OTHER                -> TRUE

\* No executor says 'up' of a target that does not answer or does not show what the
\* monitor asks for: unless an agent or a proxy looked at a certificate about to expire,
\* which sets the status to 'up' whatever the body said.  Nor does the beat of a proxied
\* monitor without such a verdict.
UpIsEarned ==
  /\ verdict # None =>
       \A e \in Executors :
         Coarse(verdict[e]) = "up" =>
           /\ case.ans.reach
           /\ Web(case.cfg) /\ Secured(case.cfg) => Valid(met)
           /\ \/ Asked(case.cfg, case.ans)
              \/ /\ e # "server" /\ Web(case.cfg) /\ Secured(case.cfg)
                 /\ met.days <= WarnDays \/ cert.days <= WarnDays
  /\ ProxiedUpIsReported

\* Neither a check, nor a result, nor a push that never came makes a monitor 'up'.
StatusIsEarned == UpIsEarned /\ SilenceIsDown
=============================================================================
