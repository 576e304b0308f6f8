--------------------------- MODULE PublicEvidence ---------------------------
(***************************************************************************)
(* The sources a run can rest on and what the program makes of the results *)
(* of a public search (public_evidence/service.py, serpapi.py, models.py): *)
(* which results it considers, which pages it accepts, and with which      *)
(* authority.                                                              *)
(*                                                                         *)
(* A page is its canonical address: two addresses that differ in their     *)
(* case, a trailing slash, a fragment or tracking parameters are one page, *)
(* and its source identifier is a hash of that address.  The quotations of *)
(* a source are those that occur in its content (Text); the document made  *)
(* of a page holds its snippet behind an envelope of provenance, and the   *)
(* envelope holds the query, which is the claim's own value.               *)
(***************************************************************************)
EXTENDS Naturals, Sequences, FiniteSets

CONSTANTS
  ClaimIds,      \* identifiers of claims, extracted and invented
  SourceIds,     \* identifiers of evidence sources, known and invented
  PublicSources, \* the pages a search can find
  Quotes,        \* quotations an answer can contain
  Text,          \* source -> the quotations that occur in its content
  QueryWords,    \* claim -> the words a search for it asks for
  Hosts,         \* hosts of pages
  HostOf,        \* page -> its host
  TrustedHosts,  \* government, certification registries, established press
  OwnAuthority,  \* source -> the authority it was added with, if not found
  SearchResults, \* the lists of results a search may return
  MaxResults     \* most results that are considered (5 in the code)

Authorities ==
  {"AUTHORITATIVE_INTERNAL", "INTERNAL", "VERIFIED_EXTERNAL", "UNVERIFIED_EXTERNAL"}
Internal == {"AUTHORITATIVE_INTERNAL", "INTERNAL"}

(* A result names a page; it may lack a title, an address or a snippet, or  *)
(* be no result at all.                                                     *)
Hits == [page : PublicSources, state : {"USABLE", "BLANK", "MALFORMED"}]

ASSUME PagesAreSources == PublicSources \subseteq SourceIds
ASSUME TextIsQuotes == Text \in [SourceIds -> SUBSET Quotes]
ASSUME QueriesAreQuotes == QueryWords \in [ClaimIds -> Quotes]
ASSUME PagesHaveHosts == HostOf \in [PublicSources -> Hosts] /\ TrustedHosts \subseteq Hosts
ASSUME OwnSourcesHaveAuthorities == OwnAuthority \in [SourceIds -> Authorities]
ASSUME ResultsAreHits == SearchResults \subseteq Seq(Hits) /\ MaxResults \in Nat

-----------------------------------------------------------------------------
(* classify_source; the program passes no official domains of its own.      *)
ClassifiedAuthority(host) ==
  IF host \in TrustedHosts THEN "VERIFIED_EXTERNAL" ELSE "UNVERIFIED_EXTERNAL"

AuthorityOf(source) ==
  IF source \in PublicSources THEN ClassifiedAuthority(HostOf[source])
                              ELSE OwnAuthority[source]

(* The content of a document in which a claim is looked up.                 *)
Content(source, claim) ==
  Text[source] \cup (IF source \in PublicSources THEN {QueryWords[claim]} ELSE {})

(* SerpApiPublicEvidenceProvider.search looks at the first results, refuses *)
(* the answer for one that is malformed and skips those that lack a part.   *)
Considered(results) == {i \in DOMAIN results : i <= MaxResults}

ResponseIsValid(results) ==
  \A i \in Considered(results) : results[i].state # "MALFORMED"

Candidates(results) == {i \in Considered(results) : results[i].state = "USABLE"}

FaultyClash(page, other) == page = other

(* Two pages of one host count as one: so do two results for one page.      *)
Clash(page, other) == HostOf[page] = HostOf[other]

(* _accept_sources: of the candidates that clash the first is accepted.     *)
Accepted(results) ==
  {results[i].page : i \in
     {k \in Candidates(results) :
        \A j \in Candidates(results) : j < k => ~Clash(results[j].page, results[k].page)}}

(* discover: what the valid answers of the provider leave to compare.       *)
Discoveries ==
  {Accepted(results) : results \in {r \in SearchResults : ResponseIsValid(r)}} \ {{}}

(* _eligible, for the fact types the program asks for (_public_fact_type).  *)
Eligible(category) == category \in {"party_identity", "other"}
=============================================================================
