CONSTANTS
  party = party
  amount = amount
  contract = contract
  home = home
  blog = blog
  entry = entry
  site = site
  registry = registry
  words = words
  otherWords = otherWords
  forged = forged
  None = None
  ClaimIds = {party, amount}
  SourceIds = {contract, home, blog, entry}
  PublicSources = {home, blog, entry}
  Hosts = {site, registry}
  TrustedHosts = {registry}
  Quotes = {words, otherWords, forged}
  Text <- MCText
  QueryWords <- MCQueryWords
  HostOf <- MCHostOf
  OwnAuthority <- MCOwnAuthority
  SearchResults <- MCSearchResults
  MaxResults = 3
  Citations <- MCCitations
  CategoryOf <- MCCategoryOf
  Pdfs = {original, altered}
  OwnSources = {contract}
  ResultSets <- MCResultSets
  Profiles <- MCProfiles
SPECIFICATION Spec
INVARIANTS
  PipelineInv
  ReadyIsGrounded
  ReadyMeetsProfile
  VerdictsMatchGraph
  PublicVotesAreLimited
PROPERTIES
  EnrichmentIsLocal
  DerivesRunDecisions
CHECK_DEADLOCK FALSE
