---------------------------- MODULE ClaimIntake ----------------------------
(***************************************************************************)
(* From a PDF to its claims: text extraction with the OCR fallback         *)
(* (integrations/foxit_pdf.py), the quality gate and the chunks            *)
(* (extraction.py), the claims asked for chunk by chunk and merged         *)
(* (semantic/engine.py), up to the graph that needs their identifiers      *)
(* unique (evidence_graph/models.py).                                      *)
(*                                                                         *)
(* A text is a sequence of pages, a page a sequence of units (paragraphs,  *)
(* or lines where a page is one paragraph); a unit has a length and the    *)
(* source lines it contains.  Blanks are left out, so that a length counts *)
(* the characters of the density as well as those of the chunk limits.     *)
(* The provider is untrusted: it may answer with any claims.               *)
(***************************************************************************)
EXTENDS Naturals, Sequences, SequencesExt

CONSTANTS
  Texts,      \* the texts the document service may return
  Estimates,  \* page counts estimate_pdf_page_count may find in the PDF
  Lines,      \* lines a claim may quote
  Joint,      \* the line that only exists where two pages are joined
  Facts,      \* what claims say: a category and a normalized value
  Names,      \* what the provider makes identifiers of
  AnswerIds,  \* identifiers the provider may choose, sequences like ids below
  MaxClaims,  \* bound on the claims of one answer
  MaxPages, MaxCharacters,   \* limits of a chunk (3 and 12000)
  OcrDensity, LowDensity,    \* characters per page (20 and 40)
  None

ASSUME LimitsArePositive ==
  /\ MaxPages \in Nat \ {0} /\ MaxCharacters \in Nat \ {0}
  /\ OcrDensity \in Nat /\ LowDensity \in Nat
ASSUME JointIsALine == Joint \in Lines
ASSUME MaxClaimsIsNumber == MaxClaims \in Nat

Units == [length : Nat \ {0}, lines : SUBSET Lines]
Splits == {"NONE", "MARKERS", "FORM_FEED"}

(* _split_pages returns a page at least, and one when nothing splits the    *)
(* text; estimate_pdf_page_count returns 1 at least.                        *)
ASSUME TextsAreSplit ==
  /\ Texts \subseteq [pages : Seq(Seq(Units)) \ {<<>>}, split : Splits,
                     garbled : BOOLEAN, preamble : SUBSET Lines, outside : Nat]
  /\ \A t \in Texts :
       /\ t.split = "NONE" => Len(t.pages) = 1
       /\ t.outside > 0 <=> t.split = "MARKERS"
       /\ t.preamble # {} => t.split = "MARKERS"
ASSUME EstimatesArePositive == Estimates \subseteq Nat \ {0}
ASSUME NoneIsNoText == None \notin Texts

(* An identifier of the provider is a name, or looks like one renamed for a *)
(* chunk.                                                                   *)
ASSUME IdsAreSequences == AnswerIds \subseteq Seq(Nat \cup Names) \ {<<>>}

VARIABLES
  stage,     \* where Phase3Workflow._finish is
  estimate,  \* page count found in the PDF
  text,      \* the extracted text, None before
  chunks,    \* chunk_document's result, each chunk a sequence of pages
  asked,     \* number of chunks answered
  reported,  \* what the answers reported: chunk, fact and quoted line
  prefixed,  \* some answer used an identifier that looks renamed
  merged     \* the claims merged so far, with their provenance

vars == <<stage, estimate, text, chunks, asked, reported, prefixed, merged>>

-----------------------------------------------------------------------------
(* Texts and pages.                                                         *)

Separator == 2  \* the blank line between joined units or pages

TotalOf(sizes) ==
  LET sum[n \in 0..Len(sizes)] == IF n = 0 THEN 0 ELSE sum[n - 1] + sizes[n]
  IN  sum[Len(sizes)]

JoinedLength(sizes) ==
  IF sizes = <<>> THEN 0 ELSE TotalOf(sizes) + Separator * (Len(sizes) - 1)

PageLength(page) ==
  JoinedLength([i \in DOMAIN page.units |-> page.units[i].length])

PageLines(page) == UNION {page.units[i].lines : i \in DOMAIN page.units}

(* The characters of the text that are no blanks: those of its pages, and   *)
(* those outside them, which are the page markers and what precedes them.   *)
Ink(t) ==
  t.outside + TotalOf([i \in DOMAIN t.pages |->
                TotalOf([j \in DOMAIN t.pages[i] |-> t.pages[i][j].length])])

(* _split_pages: form feeds or page markers make pages; a text without them *)
(* has page numbers only when the PDF has one page.                         *)
HasPageNumbers(t, count) == t.split # "NONE" \/ count = 1

PageCount(t, count) == IF Len(t.pages) > count THEN Len(t.pages) ELSE count

(* build_extracted_document: the pages found, and empty ones for the pages  *)
(* the PDF has beyond them.                                                 *)
PagesOf(t, count) ==
  [n \in 1..(IF HasPageNumbers(t, count) THEN PageCount(t, count) ELSE Len(t.pages))
     |-> [number |-> n, units |-> IF n <= Len(t.pages) THEN t.pages[n] ELSE <<>>]]

PagesWithText(t, count) ==
  IF HasPageNumbers(t, count)
  THEN Len(SelectSeq(t.pages, LAMBDA units : units # <<>>))
  ELSE IF Ink(t) = 0 THEN 0 ELSE PageCount(t, count)

(* The checks of the quality gate that make it INSUFFICIENT; those that     *)
(* only degrade it change nothing but warnings.                             *)
QualityBlockers(t, count) ==
  LET low == Ink(t) < LowDensity * PageCount(t, count)
  IN (IF Ink(t) = 0 THEN {"EXTRACTION_EMPTY", "OCR_REQUIRED"} ELSE {})
     \cup (IF Ink(t) > 0 /\ low
           THEN {"EXTRACTION_LOW_TEXT_DENSITY", "OCR_REQUIRED"} ELSE {})
     \cup (IF t.garbled THEN {"EXTRACTION_GARBLED"} ELSE {})
     \cup (IF 2 * PagesWithText(t, count) < PageCount(t, count)
           THEN {"EXTRACTION_INCOMPLETE"} ELSE {})

-----------------------------------------------------------------------------
(* Chunks.                                                                  *)

UnitFits(pending, unit) ==
  JoinedLength([i \in DOMAIN pending |-> pending[i].length])
    + Separator + unit.length <= MaxCharacters

FaultyPageFits(pending, page) ==
  /\ Len(pending) <= MaxPages
  /\ TotalOf([i \in DOMAIN pending |-> PageLength(pending[i])]) + PageLength(page)
       <= MaxCharacters

PageFits(pending, page) ==
  /\ Len(pending) < MaxPages
  /\ TotalOf([i \in DOMAIN pending |-> PageLength(pending[i])]) + PageLength(page)
       <= MaxCharacters

Fits(pending, item, kind) ==
  IF kind = "UNITS" THEN UnitFits(pending, item) ELSE PageFits(pending, item)

(* One step of a greedy pass: an item stays with what is pending while it   *)
(* fits, and otherwise begins the next group.                               *)
Placed(acc, item, kind) ==
  IF acc.pending = <<>> \/ Fits(acc.pending, item, kind)
  THEN [acc EXCEPT !.pending = Append(@, item)]
  ELSE [done |-> Append(acc.done, acc.pending), pending |-> <<item>>]

(* What the pass makes of units, or of pages.                               *)
Grouped(items, kind) ==
  LET state[n \in 0..Len(items)] ==
        IF n = 0 THEN [done |-> <<>>, pending |-> <<>>]
        ELSE Placed(state[n - 1], items[n], kind)
      end == state[Len(items)]
  IN IF end.pending = <<>> THEN end.done ELSE Append(end.done, end.pending)

(* A long text without page numbers is cut into sections, which keep the    *)
(* number of the one page it was taken for.                                 *)
IsLongFlat(t, count) ==
  ~HasPageNumbers(t, count) /\ PageLength(PagesOf(t, count)[1]) > MaxCharacters

Sections(page) ==
  LET groups == Grouped(page.units, "UNITS")
  IN [i \in DOMAIN groups |-> [number |-> page.number, units |-> groups[i]]]

(* chunk_document raises ValueError when a unit alone is too long.          *)
CannotChunk(t, count) ==
  /\ IsLongFlat(t, count)
  /\ \E i \in DOMAIN t.pages[1] : t.pages[1][i].length > MaxCharacters

FaultyChunks(t, count) ==
  LET pages == SelectSeq(PagesOf(t, count), LAMBDA page : page.units # <<>>)
  IN Grouped(IF IsLongFlat(t, count) THEN Sections(pages[1]) ELSE pages, "PAGES")

Chunks(t, count) ==
  LET pages == PagesOf(t, count)
  IN Grouped(IF IsLongFlat(t, count) THEN Sections(pages[1]) ELSE pages, "PAGES")

-----------------------------------------------------------------------------
(* Claims.                                                                  *)

(* An identifier is the provider's name, behind the chunk it was renamed    *)
(* for, if it was.                                                          *)
Answered == [id : AnswerIds, fact : Facts, source : Lines]

Answers == BoundedSeq(Answered, MaxClaims)

(* What a chunk's quotations are checked against: the text of its pages,    *)
(* or the whole text when it is the only one.                               *)
ShownLines(k) ==
  UNION {PageLines(chunks[k][i]) : i \in DOMAIN chunks[k]}
    \cup (IF Len(chunks[k]) > 1 THEN {Joint} ELSE {})
    \cup (IF Len(chunks) = 1 THEN text.preamble ELSE {})

(* _extract_claims_payload: an answer that fails is no answer.  Only a lone *)
(* chunk must yield a claim.                                                *)
AnswerIsValid(k, answer) ==
  /\ Len(chunks) = 1 => answer # <<>>
  /\ \A i, j \in DOMAIN answer : answer[i].id = answer[j].id => i = j
  /\ \A i \in DOMAIN answer : answer[i].source \in ShownLines(k)

FaultyPagesQuoting(k, source) ==
  {i \in DOMAIN chunks[k] : source \in PageLines(chunks[k][i])}

PagesQuoting(k, source) ==
  {chunks[k][i].number : i \in {j \in DOMAIN chunks[k] :
                                  source \in PageLines(chunks[k][j])}}

(* Page numbers are only told when the text has them.                       *)
Provenance(k, source) ==
  IF HasPageNumbers(text, estimate) THEN PagesQuoting(k, source) ELSE {}

UsedIds(claims) == {claims[i].id : i \in DOMAIN claims}

FaultySameClaim(m, claim, pages) == m.id = claim.id

(* The deduplication key: what is said, on which pages, in which words.     *)
SameClaim(m, claim, pages) ==
  m.fact = claim.fact /\ m.pages = pages /\ m.source = claim.source

FaultyMergedId(k, id, used) == id

(* An identifier that is taken gets the chunk in front; whether the result  *)
(* is taken too is not looked at.                                           *)
MergedId(k, id, used) == IF id \in used THEN <<k>> \o id ELSE id

(* A claim of chunk k is added, unless one that says the same is there.     *)
WithClaim(k, claims, claim) ==
  LET pages == Provenance(k, claim.source)
  IN IF \E i \in DOMAIN claims : SameClaim(claims[i], claim, pages)
     THEN claims
     ELSE Append(claims,
            [id |-> MergedId(k, claim.id, UsedIds(claims)), fact |-> claim.fact,
             source |-> claim.source, pages |-> pages, chunk |-> k])

(* extract_claims_page_aware, for the claims of one chunk.                  *)
Merge(k, claims, answer) ==
  LET acc[n \in 0..Len(answer)] ==
        IF n = 0 THEN claims ELSE WithClaim(k, acc[n - 1], answer[n])
  IN  acc[Len(answer)]

FaultyAfterAnswer(k, claims) ==
  IF k + 1 < Len(chunks) THEN "ASK" ELSE IF claims = <<>> THEN "STOPPED" ELSE "COMPARE"

(* Every chunk is asked, then there must be a claim.                        *)
AfterAnswer(k, claims) ==
  IF k < Len(chunks) THEN "ASK" ELSE IF claims = <<>> THEN "STOPPED" ELSE "COMPARE"

-----------------------------------------------------------------------------
Init ==
  /\ stage = "CONVERT"
  /\ estimate \in Estimates
  /\ text = None
  /\ chunks = <<>>
  /\ asked = 0
  /\ reported = {}
  /\ prefixed = FALSE
  /\ merged = <<>>

(* Text has arrived: the gate, and the chunks.  An insufficient text or one *)
(* that cannot be cut is a semantic failure, and the run will be BLOCKED.   *)
TakeText(t) ==
  /\ text' = t
  /\ IF QualityBlockers(t, estimate) # {} \/ CannotChunk(t, estimate)
     THEN stage' = "STOPPED" /\ UNCHANGED chunks
     ELSE stage' = "ASK" /\ chunks' = Chunks(t, estimate)
  /\ UNCHANGED <<estimate, asked, reported, prefixed, merged>>

(* Upload, pdf_to_text, download: too faint a text goes to OCR.             *)
ConvertToText ==
  /\ stage = "CONVERT"
  /\ \E t \in Texts :
       IF Ink(t) < OcrDensity * estimate
       THEN /\ stage' = "OCR"
            /\ UNCHANGED <<estimate, text, chunks, asked, reported, prefixed, merged>>
       ELSE TakeText(t)

(* pdf_ocr, pdf_to_text and download again; there is no second fallback.    *)
RecognizeText ==
  /\ stage = "OCR"
  /\ \E t \in Texts : TakeText(t)

(* Any call of the document service fails: the exception leaves _finish and *)
(* the run is FAILED.                                                       *)
ServiceFails ==
  /\ stage \in {"CONVERT", "OCR"}
  /\ stage' = "FAILED"
  /\ UNCHANGED <<estimate, text, chunks, asked, reported, prefixed, merged>>

(* The provider answers for the next chunk.  An invalid answer, or a        *)
(* quotation on no single page, stops the extraction, whatever was merged.  *)
AnswerChunk ==
  /\ stage = "ASK"
  /\ \E answer \in Answers :
       LET k == asked + 1
           accepted == /\ AnswerIsValid(k, answer)
                       /\ \A i \in DOMAIN answer : PagesQuoting(k, answer[i].source) # {}
           claims == Merge(k, merged, answer)
       IN IF ~accepted
          THEN /\ stage' = "STOPPED"
               /\ UNCHANGED <<asked, reported, prefixed, merged>>
          ELSE /\ asked' = k
               /\ merged' = claims
               /\ reported' = reported \cup
                    {[chunk |-> k, fact |-> answer[i].fact, source |-> answer[i].source] :
                       i \in DOMAIN answer}
               /\ prefixed' = (prefixed \/ \E i \in DOMAIN answer : Len(answer[i].id) > 1)
               /\ stage' = AfterAnswer(k, claims)
  /\ UNCHANGED <<estimate, text, chunks>>

(* A malformed or incomplete answer, or none.                               *)
ProviderFails ==
  /\ stage \in {"ASK", "COMPARE"}
  /\ stage' = "STOPPED"
  /\ UNCHANGED <<estimate, text, chunks, asked, reported, prefixed, merged>>

FaultyGraphAccepts(claims) == TRUE

(* EvidenceGraph: claim identifiers must be unique.                         *)
GraphAccepts(claims) ==
  \A i, j \in DOMAIN claims : claims[i].id = claims[j].id => i = j

(* The comparison was valid, and the graph is built from it.                *)
Compare ==
  /\ stage = "COMPARE"
  /\ stage' = IF GraphAccepts(merged) THEN "COMPARED" ELSE "STOPPED"
  /\ UNCHANGED <<estimate, text, chunks, asked, reported, prefixed, merged>>

Next ==
  \/ ConvertToText \/ RecognizeText \/ ServiceFails
  \/ AnswerChunk \/ ProviderFails \/ Compare

Spec == Init /\ [][Next]_vars

-----------------------------------------------------------------------------
(* Properties.                                                              *)

(* Every variable keeps to its shape; claims are asked for while a chunk is *)
(* unanswered, and compared when none is.                                   *)
TypeOK ==
  /\ stage \in {"CONVERT", "OCR", "ASK", "COMPARE", "COMPARED", "STOPPED", "FAILED"}
  /\ estimate \in Estimates
  /\ text \in Texts \cup {None}
  /\ asked \in 0..Len(chunks)
  /\ stage = "ASK" => asked < Len(chunks)
  /\ stage \in {"COMPARE", "COMPARED"} => asked = Len(chunks) /\ merged # <<>>
  /\ prefixed \in BOOLEAN
  /\ \A i \in DOMAIN merged :
       merged[i].fact \in Facts /\ merged[i].source \in Lines
         /\ merged[i].chunk \in 1..asked

(* The units of the text, in order, as the chunks show them.                *)
UnitsOf(pages) == FlattenSeq([i \in DOMAIN pages |-> pages[i].units])

(* Chunking loses, repeats and reorders nothing: the chunks together show   *)
(* the pages of the text, or the units of a text without pages, and no      *)
(* chunk is empty.                                                          *)
ChunksShowTheText ==
  chunks # <<>> =>
    /\ UnitsOf(FlattenSeq(chunks)) = FlattenSeq(text.pages)
    /\ ~IsLongFlat(text, estimate) => FlattenSeq(chunks) = PagesOf(text, estimate)
    /\ \A k \in DOMAIN chunks : chunks[k] # <<>>

(* Chunks keep the limits and are no smaller than they must be: the pages   *)
(* of a chunk fit in it, unless it is one page too long to fit anywhere,    *)
(* and the first page of the next chunk would not have fitted.  Sections    *)
(* cut from a long text always fit.                                         *)
ChunksKeepLimits ==
  \A k \in DOMAIN chunks :
    LET lengths(c) == [i \in DOMAIN c |-> PageLength(c[i])]
        total == TotalOf(lengths(chunks[k]))
    IN /\ Len(chunks[k]) <= MaxPages
       /\ total > MaxCharacters =>
            Len(chunks[k]) = 1 /\ ~IsLongFlat(text, estimate)
       /\ k < Len(chunks) =>
            \/ Len(chunks[k]) = MaxPages
            \/ total + PageLength(chunks[k + 1][1]) > MaxCharacters

(* No claim an accepted answer reported is lost in the merge: conflicting   *)
(* values and repeated identifiers are all kept, and only a claim that says *)
(* the same in the same words on the same pages stands for another.         *)
NoFindingIsLost ==
  stage # "STOPPED" =>
    \A f \in reported : \E i \in DOMAIN merged :
      /\ merged[i].fact = f.fact /\ merged[i].source = f.source
      /\ merged[i].pages = Provenance(f.chunk, f.source)

(* A claim's page numbers are pages of the text that show its words, the    *)
(* number of the page in the PDF and not in the chunk; every claim has one  *)
(* when the text has page numbers, and none is made up when it has not.     *)
PageNumbersAreTrue ==
  \A i \in DOMAIN merged :
    LET claim == merged[i]
    IN IF HasPageNumbers(text, estimate)
       THEN /\ claim.pages # {}
            /\ \A n \in claim.pages :
                 n \in DOMAIN text.pages
                   /\ \E u \in DOMAIN text.pages[n] : claim.source \in text.pages[n][u].lines
       ELSE claim.pages = {}

(* Claims reach the policy only with unique identifiers, so that provenance *)
(* and verdicts, looked up by identifier, belong to their claim; and unless *)
(* the provider itself chose an identifier that looks renamed, merging      *)
(* never stops a run for an identifier that is taken.                       *)
IdentifiersStayApart ==
  /\ stage = "COMPARED" => GraphAccepts(merged) /\ \A i, j \in DOMAIN merged :
       i # j => merged[i].id # merged[j].id
  /\ ~prefixed => \A i, j \in DOMAIN merged : i # j => merged[i].id # merged[j].id

-----------------------------------------------------------------------------
(* What a test says, and the code does not keep (see README).               *)

(* "all(len(chunk.text) <= 900 for chunk in chunks)": the text of a chunk,  *)
(* pages joined by a blank line, keeps the limit for text without pages.    *)
FlatChunksAreBounded ==
  chunks # <<>> /\ ~HasPageNumbers(text, estimate) =>
    \A k \in DOMAIN chunks :
      JoinedLength([i \in DOMAIN chunks[k] |-> PageLength(chunks[k][i])])
        <= MaxCharacters
=============================================================================
