--------------------------- MODULE ResponseChecks ---------------------------
(***************************************************************************)
(* What the native engines report of one answer of the target (headers.py, *)
(* fingerprint.py, tls.py), and what re-verification says of such a report *)
(* when it fetches the same URL again (scan/validation.py).                *)
(*                                                                         *)
(* An answer is a record of what the checks can tell apart:                *)
(*   ok          it came: nothing failed and nothing was out of scope      *)
(*   scheme      of its URL                                                *)
(*   headers     the names of its headers                                  *)
(*   cookies     the flags of each Set-Cookie line; the lines are joined   *)
(*               into one text before any check reads them                 *)
(*   origin      Access-Control-Allow-Origin: "none", "*" or "site"        *)
(*   credentials Access-Control-Allow-Credentials is true                  *)
(*   versions    the banner headers whose value has a version number       *)
(*   secrets     the secret patterns its body or headers match             *)
(*   signs       where each technology shows                               *)
(*   listing     its body is that of a directory listing                   *)
(* A report is the class of the weakness, the detector that names what was *)
(* found, its severity and the words matched.                              *)
(***************************************************************************)
EXTENDS Integers

Reported(class, detector, severity, matched) ==
  [class |-> class, detector |-> detector, severity |-> severity, matched |-> matched]

-----------------------------------------------------------------------------
(* headers.py *)

HeaderSeverity ==   \* _REQUIRED_HEADERS
  [h \in {"strict-transport-security", "content-security-policy",
          "x-content-type-options", "referrer-policy"} |->
     IF h \in {"strict-transport-security", "content-security-policy"}
     THEN "medium" ELSE "low"]

HeaderFindings(res) ==
  {Reported("missing_security_header", h, HeaderSeverity[h], {h}) :
     h \in {x \in DOMAIN HeaderSeverity \ res.headers :
              x = "strict-transport-security" => res.scheme = "https"}}

CookieFlags == {"secure", "httponly", "samesite"}

CookieFindings(res) ==
  LET missing == CookieFlags \ UNION res.cookies
  IN  IF res.cookies = {} \/ missing = {} THEN {}
      ELSE {Reported("insecure_cookie", "cookie-flags", "low", missing)}

CorsFindings(res) ==
  IF res.origin = "*" /\ res.credentials
  THEN {Reported("cors_misconfiguration", "cors-wildcard-credentials", "medium",
               {"access-control-allow-origin"})}
  ELSE {}

BannerFindings(res) ==
  {Reported("information_disclosure", h, "info", {h}) :
     h \in res.versions \cap {"server", "x-powered-by", "x-aspnet-version"}}

SecretFindings(res) ==
  {Reported("secret_exposure", s, "high", {s}) : s \in res.secrets}

-----------------------------------------------------------------------------
(* fingerprint.py: the signatures, by where they look. *)
Signatures ==
  [server |-> {"nginx", "Apache httpd", "Microsoft IIS", "Cloudflare"},
   powered_by |-> {"PHP", "ASP.NET", "Express"},
   generator |-> {"Drupal"},
   cookie |-> {"Django", "Laravel"},
   body |-> {"WordPress", "React", "Vue.js", "Angular", "Next.js"}]

Fingerprints(res) ==
  {Reported("information_disclosure", sign.technology, "info", {sign.at}) :
     sign \in {s \in res.signs : s.technology \in Signatures[s.at]}}

(* What the passive native engines report of an answer. *)
Analyze(res) ==
  IF ~res.ok THEN {}
  ELSE UNION {HeaderFindings(res), CookieFindings(res), CorsFindings(res),
              BannerFindings(res), SecretFindings(res), Fingerprints(res)}

-----------------------------------------------------------------------------
(* scan/validation.py: ConfigReverifyStrategy.  An answer that did not     *)
(* come has no headers and no body; the check does not ask whether it came.*)
Reverified == {"missing_security_header", "insecure_cookie",
               "cors_misconfiguration", "directory_listing", "clickjacking"}

(* Mutant: the check asks for both flags to be missing. *)
CookieBare(cookies) == {"secure", "httponly"} \cap UNION cookies = {}

(* No cookie at all is a cookie without its flags; SameSite is not asked for. *)
CookieWeak(cookies) == ~({"secure", "httponly"} \subseteq UNION cookies)

ConditionHolds(o, res) ==
  LET headers == IF res.ok THEN res.headers ELSE {}
      cookies == IF res.ok THEN res.cookies ELSE {}
  IN  CASE o.class = "missing_security_header" -> o.detector \notin headers
        [] o.class = "clickjacking" ->
             headers \cap {"x-frame-options", "content-security-policy"} = {}
        [] o.class = "insecure_cookie" -> CookieWeak(cookies)
        [] o.class = "directory_listing" -> res.ok /\ res.listing
        [] o.class = "cors_misconfiguration" -> res.ok /\ res.origin # "none"

Recheck(o, res) ==
  IF o.class \notin Reverified THEN "unchanged"
  ELSE IF ConditionHolds(o, res) THEN "confirmed" ELSE "refuted"

-----------------------------------------------------------------------------
(* tls.py.  What a handshake with the host of a seed shows is a record of  *)
(* the scheme of the seed, the protocol, the hours the certificate has     *)
(* left (NoCertificate when it could not be read), whether it is           *)
(* self-signed, and whether the handshake failed.                          *)
CONSTANT NoCertificate

WeakProtocols == {"SSLv2", "SSLv3", "TLSv1", "TLSv1.1"}

(* Mutant: the days are rounded towards zero. *)
DaysLeftTruncated(info) ==
  IF info.left < 0 THEN -((-info.left) \div 24) ELSE info.left \div 24

(* The whole days that are left: those of a timedelta, rounded down. *)
DaysLeft(info) == info.left \div 24

Evaluate(info) ==
  IF info.error THEN {}
  ELSE
    {Reported("tls_weakness", "weak-protocol", "medium", {}) :
       x \in {info.protocol} \cap WeakProtocols}
    \cup
    (IF info.left = NoCertificate THEN {}
     ELSE IF DaysLeft(info) < 0
          THEN {Reported("tls_weakness", "cert-expired", "high", {})}
     ELSE IF DaysLeft(info) < 15
          THEN {Reported("tls_weakness", "cert-expiring", "low", {})}
     ELSE {})
    \cup
    {Reported("tls_weakness", "cert-self-signed", "medium", {}) :
       x \in {info.self_signed} \cap {TRUE}}

(* Only the hosts of seeds that speak TLS are inspected. *)
TlsFindings(info) == IF info.scheme \in {"https", "wss"} THEN Evaluate(info) ELSE {}
=============================================================================
