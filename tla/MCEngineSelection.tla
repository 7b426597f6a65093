-------------------------- MODULE MCEngineSelection -------------------------
(***************************************************************************)
(* EngineSelection for TLC, with manifests of the repository: two native   *)
(* engines, two permissive ones in containers, one strong copyleft, one    *)
(* weak copyleft, one hosted by the customer, and one with a lock entry    *)
(* that does not match its manifest.                                       *)
(***************************************************************************)
EXTENDS EngineSelection

CONSTANTS crawler, headers, nuclei, katana, sslyze, semgrep, burp, stray

Order == <<burp, katana, crawler, headers, nuclei, semgrep, sslyze, stray>>

Integrations ==
  [e \in Engines |->
    IF e \in {crawler, headers} THEN "native"
    ELSE IF e = burp THEN "external_service" ELSE "container_cli"]
Licenses ==
  [e \in Engines |->
    CASE e \in {crawler, headers, burp} -> "proprietary"
      [] e \in {nuclei, katana, stray}  -> "MIT"
      [] e = sslyze                     -> "AGPL-3.0-only"
      [] e = semgrep                    -> "LGPL-2.1-or-later"]
LockLicenses ==
  [e \in Engines |-> IF e = stray THEN "AGPL-3.0-only" ELSE Licenses[e]]
Classes ==
  [l \in {"proprietary", "MIT", "AGPL-3.0-only", "LGPL-2.1-or-later"} |->
    CASE l = "MIT" -> "GREEN" [] l = "LGPL-2.1-or-later" -> "YELLOW"
      [] l \in {"AGPL-3.0-only", "proprietary"} -> "RED"]
Images ==
  [e \in Engines |-> IF e \in {crawler, headers, burp} THEN "none" ELSE "digest"]
Capabilities ==
  [e \in Engines |->
    CASE e = crawler -> {"crawl.http", "discovery.js"}
      [] e = headers -> {"analysis.headers", "analysis.secrets", "audit.passive"}
      [] e = nuclei  -> {"audit.templates", "fingerprint.tech"}
      [] e = katana  -> {"crawl.http", "crawl.browser", "discovery.js"}
      [] e = sslyze  -> {"analysis.tls"}
      [] e = semgrep -> {"discovery.js"}
      [] e = burp    -> {"audit.active", "audit.passive", "crawl.http"}
      [] e = stray   -> {"analysis.secrets"}]

AllRequests ==
  [profile : ScanProfile, kind : {"unknown", "websocket"},
   caps : {<<>>}, disabled : {{}, {crawler}}, redundant : BOOLEAN]
  \cup [profile : {"standard"}, kind : {"unknown", "traditional_web"},
        caps : {<<"audit.active", "crawl.http">>}, disabled : {{}}, redundant : {FALSE}]
=============================================================================
