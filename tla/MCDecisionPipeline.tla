------------------------- MODULE MCDecisionPipeline -------------------------
(***************************************************************************)
(* A small instance of DecisionPipeline: a party and an amount, a contract *)
(* the run starts with, and searches that find two pages of one site and   *)
(* one of a registry, whose snippet says nothing.  Answers quote, misquote,*)
(* half cite, cite nothing or quote the query back.                        *)
(***************************************************************************)
EXTENDS DecisionPipeline

CONSTANTS party, amount, contract, home, blog, entry, words, otherWords, forged,
          site, registry

MCText ==
  [s \in SourceIds |-> CASE s = contract -> {words, otherWords}
                         [] s = entry -> {}
                         [] OTHER -> {words}]

MCQueryWords == [c \in ClaimIds |-> IF c = party THEN otherWords ELSE forged]

MCHostOf == [p \in PublicSources |-> IF p = entry THEN registry ELSE site]

MCOwnAuthority == [s \in SourceIds |-> "AUTHORITATIVE_INTERNAL"]

Hit(page) == [page |-> page, state |-> "USABLE"]

(* Two pages of one site, in front of another or behind the last considered *)
(* place; a result without a snippet; and a malformed one, considered or    *)
(* not.                                                                     *)
MCSearchResults ==
  {<<Hit(home)>>, <<Hit(home), Hit(blog), Hit(entry)>>,
   <<[page |-> home, state |-> "BLANK"], Hit(blog), Hit(entry)>>,
   <<Hit(entry), Hit(blog), [page |-> home, state |-> "MALFORMED"]>>,
   <<Hit(entry), Hit(blog), Hit(home), [page |-> home, state |-> "MALFORMED"]>>}

Cite(s, q) == [source |-> s, quote |-> q]

MCCitations ==
  {Cite(contract, words), Cite(contract, otherWords), Cite(contract, forged),
   Cite(home, words), Cite(blog, words), Cite(entry, otherWords),
   Cite(contract, None), Cite(None, None)}

MCCategoryOf ==
  [c \in ClaimIds |-> IF c = party THEN "party_identity" ELSE "money"]

(* At most two results: two for one claim, or one for each.                 *)
MCResultSets == {{a, b} : a, b \in Comparisons}

Rule(critical, minimum, authoritative, qualifying) ==
  [critical |-> critical, minimum |-> minimum, authoritative |-> authoritative,
   qualifying |-> qualifying, conflicts |-> FALSE,
   authoritativeConflicts |-> FALSE, uncertain |-> FALSE]

(* Only the party is ruled on, so that a blocked amount does not block the  *)
(* profile; one internal source, two sources of which one is trusted; and a *)
(* profile that requires an amount.                                         *)
MCProfiles ==
  {[k \in {"party_identity"} |-> Rule(TRUE, 1, 1, Internal)],
   [k \in {"party_identity"} |-> Rule(FALSE, 2, 1, {"VERIFIED_EXTERNAL"})],
   [k \in {"money"} |-> Rule(TRUE, 1, 1, Internal)]}
=============================================================================
