SPECIFICATION Spec
CONSTANTS
  crawler = crawler  headers = headers  nuclei = nuclei  katana = katana
  sslyze = sslyze  semgrep = semgrep  burp = burp  stray = stray
  Engines = {crawler, headers, nuclei, katana, sslyze, semgrep, burp, stray}
  LoadOrder <- Order
  Integration <- Integrations
  License <- Licenses
  Image <- Images
  EnabledFirst = {crawler, headers, nuclei, stray}
  Provides <- Capabilities
  Locked = {crawler, headers, nuclei, katana, sslyze, semgrep, burp, stray}
  LockLicense <- LockLicenses
  LockDigest = {nuclei, katana, sslyze, semgrep}
  ClassOf <- Classes
  ArmsLength = {"container_cli", "container_api"}
  NativeAdapters = {crawler, headers}
  OssAdapters = {nuclei, katana, sslyze}
  Requests <- AllRequests
  MaxChanges = 2
INVARIANT
  ApprovalUnlocks
