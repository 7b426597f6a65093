SPECIFICATION Spec
CONSTANTS
  a1 = a1  a2 = a2  a3 = a3  a4 = a4
  Unanswered = Unanswered  Absent = Absent  Altered = Altered  Mangled = Mangled
  NoCertificate = NoCertificate
  DetailLimit = 1
  Table <- LicenseIds
  TableClass <- ClassTable
  Isolated = {"container"}
  Names <- HostNames
  Addresses <- AllAddresses
  PyPrivate = {a2, a3, a4}
  GoPrivate = {a2, a4}
  Licenses <- AllLicenses
  MaxDepth = 2
  Inventories <- AllInventories
  Rules <- SomeRules
  RuleLists <- AllRuleLists
  Urls <- SomeUrls
  Methods <- SomeMethods
  BaseLists <- AllBaseLists
  Findings <- SomeFindings
  AnswerPairs <- SameUrl
  Handshakes <- SomeHandshakes
  Correlations <- SomeCorrelations
  Transfers <- SomeTransfers
  Consultations <- SomeConsultations
  Outcomes <- SomeOutcomes
INVARIANTS
  LicencesAreExact
  
  OrderIsIrrelevant
  
  DefaultScopeIsExact
  RankingIsCoherent
  RecheckAgrees
  CertificatesAreDated
  BundlesVerify
  AiOnlyAnnotates
  ReportsAgree
