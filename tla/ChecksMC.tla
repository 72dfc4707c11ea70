------------------------------ MODULE ChecksMC ------------------------------
(***************************************************************************)
(* The instance of Checks: for every type the configurations the executors *)
(* treat differently, and the answers and certificates that tell the       *)
(* branches of the checks apart.                                           *)
(***************************************************************************)
EXTENDS Checks, TLC

Certificate(trusted, days) == [trusted |-> trusted, days |-> days, broken |-> FALSE]
Plain == Certificate(TRUE, 99)
MCCertificates ==
  {Certificate(t, d) : t \in BOOLEAN, d \in {-1, 0, 29, 30, 31}}
    \cup {[Plain EXCEPT !.broken = TRUE]}

CertificatesOf(https) == IF https THEN MCCertificates ELSE {Plain}

\* What the TypeScript proxy can send, and what it cannot.
Usual == [ignoreSsl |-> FALSE, headers |-> TRUE]
Ways == {Usual, [Usual EXCEPT !.ignoreSsl = TRUE], [Usual EXCEPT !.headers = FALSE]}

HttpCases ==
  { [cfg   |-> [type |-> "http", https |-> h, ignoreSsl |-> w.ignoreSsl,
                headers |-> w.headers, codes |-> o, keyword |-> k, path |-> "none", expected |-> "null"],
     ans   |-> [reach |-> r, code |-> n, found |-> f, json |-> "text"],
     certs |-> CertificatesOf(h)] :
    h \in BOOLEAN, w \in Ways, o \in {"default", "custom", "empty"},
    k \in {"none", "present", "absent", "unset"},
    r \in BOOLEAN, n \in {200, 206, 302, 404}, f \in BOOLEAN }

JsonCases ==
  { [cfg   |-> [type |-> "json_api", https |-> h, ignoreSsl |-> w.ignoreSsl,
                headers |-> w.headers, codes |-> "default", keyword |-> "none", path |-> p, expected |-> e],
     ans   |-> [reach |-> TRUE, code |-> n, found |-> FALSE, json |-> j],
     certs |-> IF h THEN {Certificate(TRUE, d) : d \in {0, 30, 31}} ELSE {Plain}] :
    h \in BOOLEAN, w \in Ways, p \in {"none", "plain", "rooted"}, e \in {"null", "empty", "v"},
    n \in {200, 206, 302, 500}, j \in {"text", "missing", "null", "false", "empty", "v", "w"} }

SslCases ==
  { [cfg |-> [type |-> "ssl"], ans |-> [reach |-> r], certs |-> MCCertificates] : r \in BOOLEAN }

DnsCases ==
  { [cfg   |-> [type |-> "dns", record |-> t, expected |-> e],
     ans   |-> [reach |-> r, records |-> s], certs |-> {Plain}] :
    t \in {"A", "AAAA", "MX", "CNAME", "SOA"}, e \in {"none", "whole", "part", "other"},
    r \in BOOLEAN, s \in SUBSET {"A", "AAAA", "MX", "CNAME", "SOA"} }

SmtpCases ==
  { [cfg   |-> [type |-> "smtp", port |-> p],
     ans   |-> [reach |-> r, banner |-> b, ehlo |-> e], certs |-> {Plain}] :
    p \in {"smtp", "general"}, r \in BOOLEAN, b \in BOOLEAN, e \in BOOLEAN }

OtherCases ==
  { [cfg |-> [type |-> t], ans |-> [reach |-> r], certs |-> {Plain}] :
    t \in {"ping", "tcp", "game_server"}, r \in BOOLEAN }
  \cup
  { [cfg |-> [type |-> "docker"], ans |-> [reach |-> r, running |-> x], certs |-> {Plain}] :
    r \in BOOLEAN, x \in BOOLEAN }
  \cup
  { [cfg |-> [type |-> "script", exit |-> 0], ans |-> [reach |-> r, exit |-> x], certs |-> {Plain}] :
    r \in BOOLEAN, x \in {0, 1} }
  \cup
  { [cfg   |-> [type |-> "browser", selector |-> s, keyword |-> k],
     ans   |-> [reach |-> r, selector |-> x, found |-> f], certs |-> {Plain}] :
    s \in BOOLEAN, k \in {"none", "present", "absent"}, r \in BOOLEAN, x \in BOOLEAN, f \in BOOLEAN }

\* The texts a watched path leads to are alike, but for the empty one.
MCSymmetry == Permutations(Values \ {Empty})

MCCases == HttpCases \cup JsonCases \cup SslCases \cup DnsCases \cup SmtpCases \cup OtherCases
=============================================================================
