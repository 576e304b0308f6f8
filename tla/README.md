# ClaimGate in TLA+

ClaimGate verifies the claims of a PDF against evidence, decides by a
deterministic policy whether the document may be sent for signature, lets a
human approve exactly that decision, sends it once, and records every decision
in a chain of receipts. This directory holds TLA+ modules that model the
program, TLC configurations that check them on small instances, and TLAPS
proofs of the results that matter most for every instance.

Paths below are relative to `src/src/claimgate/` unless they start with `src/`.

## The system

| Component | State | Operations | Interacts with |
|---|---|---|---|
| Workflow state machine (`domain/state_machine.py`) | state, verified binding, decision, approval of one run | `start_generation` ... `mark_send_failed` | owned by a `Phase3Result`; driven by the pipeline, the enrichment and the approval service |
| Verification pipeline (`application/phase3_workflow.py`) | none between runs; a result per run | `run`, `run_from_document`, `_finish` | document service, semantic engine, graph, policy (calls, four awaits) |
| Semantic engine (`semantic/engine.py`) | none | extract claims, compare with evidence, project to verdicts | untrusted model answers |
| Evidence graph (`evidence_graph/`) | none | `build_evidence_graph` | input of the profiles |
| Baseline policy (`domain/policy.py`), profiles (`policy_profiles/`) | none | `evaluate` | last word on READY or BLOCKED |
| Public evidence (`public_evidence/`) | none; replaces a run's result | `discover`, `enrich_result` | search provider, engine, policy (two awaits) |
| Approval and send service (`application/approval.py`) | none; moves the workflow | `approve_and_send` | file on disk, eSign sender |
| Web run lifecycle (`web/app.py`) | `DemoRun` per run: status, result, attempt flag, approval, send state, searched claims, three locks | start, execute, review, approve and send, search, receipts, replay | everything above; one asyncio loop |
| Receipt ledger (`web/app.py` `RunRegistry`, `audit/`) | history per run, one chain over all runs, receipt PDF per run | issue, verify, generate PDF | after every decision and send |
| Actions (`actions/`) | none; records held by the caller | propose, authorize, approve, execute by one of two executors | approval record of a send, attack lab, eSign client |
| Extraction (`extraction.py`, `integrations/foxit_pdf.py`) | none | text with OCR fallback, quality gate, chunks, ambiguities | first stage of the pipeline |
| Replay (`replay/`) | none | capture the present, preset drift, verify, timeline | receipts, current result of the run |
| Integrations (`integrations/`, `public_evidence/serpapi.py`, `semantic/provider.py`) | HTTP or MCP sessions | send, generate, extract, search, complete | outside services |
| Authentication and uploads (`web/auth.py`, `web/uploads.py`) | users, sessions, records and files of uploads | sign up, log in, log out, save, delete | handlers that need a session; the background task of a document run, which reads the files and has their text extracted beside them |

Hard behaviours: handlers interleave at every await and three locks protect
different things; files change under the program, and runs share the text files of uploads; every outside call can fail,
hang or answer late; a send cannot be undone; answers of language models are
untrusted; two projections of the same findings must agree; receipts of all
runs share one chain. `PROJECT.json` lists each hazard at its line with the
properties that cover it.

## Modules

| Module | Models | State and actions |
|---|---|---|
| `WorkflowRun` | `domain/state_machine.py` | each method is a guard `CanX` and a result `X`; no state of its own |
| `WorkflowCalls` | one `WorkflowRun` object under arbitrary calls | `wf`; one action per method; its proofs are in the module |
| `ReceiptLedger` | receipts, chain, validation, receipt PDF | `history`, `lastReceipt`, `receiptCount`, `receiptJob`, `receiptPdf` |
| `RunControl` | `web/app.py` handlers with the approval and enrichment services | one variable per field of `DemoRun`, the file on disk, the searches in flight, the handler that occupies the loop, and the outbox of the eSign service |
| `AuthorizedSend` | nothing: the promise of the approval boundary | `decision`, `closed`, `sent` |
| `RunDecisions` | nothing: how one run comes to a decision and to the next, without saying where verdicts come from | `verified`, `decision`; read, give up, verify, settle one claim |
| `PublicEvidence` | the sources of a run: which results of a search are considered and accepted, with which authority and content (`public_evidence/`) | operators only |
| `SemanticEngine` | answer validation, projection, evidence graph | operators only |
| `Policy` | baseline policy and profiles | operators only; a decision is a set of blocker codes |
| `DecisionPipeline` | `Phase3Workflow._finish`, `enrich_result` | one stage per await; the answers of the models are any members of their types |
| `RunAudit` | `replay/`: replay of any receipt under every drift preset, audit timeline | operators over the states of `RunControl`, since both are read-only |
| `ClaimIntake` | text extraction and OCR (`integrations/foxit_pdf.py`), quality gate and chunks (`extraction.py`), claims per chunk, merge and renaming (`semantic/engine.py`), uniqueness of identifiers (`evidence_graph/models.py`) | `stage`, `estimate`, `text`, `chunks`, `asked`, `merged`; `reported` and `prefixed` only remember what was answered |
| `DocumentIntake` | `web/auth.py`, `web/uploads.py`, and the document runs of `web/app.py` up to the pipeline, with the passes of the document service (`integrations/foxit_pdf.py`) | accounts, sessions, uploads (what was sent, by whom, what is on disk, the record), the text file beside each upload, and one `intake` per run; one action per request and per step between awaits |
| `ActionDispatch` | `actions/` and the requests of the live executor (`integrations/foxit_esign.py`); the caller is the one of `redteam/runner.py` | the caller's `action` and `approval`, the running `step`, the file, the `folders` the service holds, and what was called and reported |
| `SenderPromise` | nothing: what a call of an executor promises its caller | `sending`, `dispatched`, `outcome` |
| `MCRunControl`, `MCDecisionPipeline`, `MCClaimIntake`, `MCDocumentIntake`, `MCActionDispatch` | instances for TLC | |
| `SequenceLemmas` | nothing: facts about sequences, their concatenation and recursive functions, for the proofs | |
| `RunControl_proofs`, `RunReceipts_proofs`, `DecisionPipeline_proofs`, `DocumentIntake_proofs`, `ActionDispatch_proofs`, `ClaimIntake_proofs` | TLAPS proofs | |

`RunAudit` extends `RunControl`, which extends `ReceiptLedger`, which extends
`WorkflowRun`; `DecisionPipeline` extends `Policy`, which extends
`SemanticEngine`, which extends `PublicEvidence`. The modules meet at four seams, so that each can be read
apart:

* `RunControl` takes the decision of the pipeline as a choice. Both implement
  `RunDecisions`, one run at a time: `RunControl` for each of its runs, under
  every interleaving (`ImplementsRunDecisions`), and `DecisionPipeline` with the
  verdicts its stages derive (`DerivesRunDecisions`). A first decision is READY
  only with every critical claim SUPPORTED and for the bytes that were read, and
  leaves ambiguous claims UNCERTAIN; each search then settles one open claim in
  the decision in force.
* `DecisionPipeline` takes extracted claims as a choice among claims with unique
  identifiers, which is what `ClaimIntake` shows of those that reach the graph.
* `DecisionPipeline` takes its own sources as constants, whole and of the user;
  `DocumentIntake` shows when the documents of a run are, and `RunControl` starts
  a document run where `DocumentIntake` hands it over (`HandOver`).
* `RunControl` sends in one step that dispatches and succeeds, or fails with or
  without having dispatched: `SenderPromise`, which `ActionDispatch` refines with
  the token, draft and send requests.

**Atomicity.** Everything runs in one asyncio event loop: a handler is atomic
between awaits. `approve_and_send` has no await after it has its lock, so no
other handler runs from its first check to its receipt (`LoopIsFree`), but its
three reads of the PDF are three moments at which another process may have
changed the file; it is therefore three actions (`ApproveBegin`,
`ApproveRecheck`, `ApproveSend`) between which only `ArtifactChanges` is
enabled. A search is three actions, split at its two awaits. The background run
is split where it hashes the file and where it decides. `ActionDispatch` splits
a live execution at each request, because the file can change between them and
each request can fail before or after it took effect; `ClaimIntake` splits the
intake at each answer of the document service and of the provider.
`DocumentIntake` splits an extraction where the service's own process empties
the text file, writes it, and the program reads it, since two runs may share the
file; it takes for granted that the service writes a text in one piece. A request
that is refused changes nothing and is no step.

**Data.** A PDF is its content, and stands for its hash. In `RunControl` an
evidence bundle is the set of claims public sources were accepted for. Receipt
hashes are numbers, since the hash covers the chain, the run and the time.
Policy version and profile never change during a run and are left out of the
bindings. Quotations are members of a small set and `Text` says in which source
each occurs; what is made of a page holds, besides its snippet, the query, so an
answer may also quote the words of the query (`QueryWords`). A page is its
canonical address and has a host; a search returns one of a set of lists of
results, each usable, lacking a part, or malformed. In `DocumentIntake` a text is
whose upload it comes from and how much of it there is: nothing, a little (below
20 characters a page, 40 or more in all) or all. In `ClaimIntake` a text is a sequence of pages, a page a sequence
of units, each with a length and the lines it contains; blanks inside units are
left out, the blank lines that join units and pages are kept. The characters of
page markers and of a preamble before the first of them belong to no page and
are only counted (`outside`), as the density check of the quality gate counts
them. In `ActionDispatch` the canonical JSON
of an action, which stands for its hash, is a record whose artifacts are a bag,
as the code sorts them.

Definitions named `Faulty...` are seeded faults: a plausible bug in the
definition that follows, used by no action. They exist to show that a property
fails when the code has the bug.

## Runs

| Run | Checks | Bounds |
|---|---|---|
| `workflow_calls` | `SendIsEarned`, `CallsNeverRewrite` | 4 contents, 4 evidence sets |
| `run_core` | `AtMostOneDispatch`, `DispatchIsRecorded`, `LatestReceiptIsTrue`, `SentReceiptsAreEarned`, `ServedReceiptPdfIsCurrent`, the refinements `ImplementsAuthorizedSend` and `ImplementsRunDecisions`, `TypeOK`; on every receipt `ReplayAgreesWithVerify`, `VerifiedReplayIsCurrent`, and on every run's history `TimelineTellsLifecycle` | 1 run, 2 contents (symmetric), 2 claims, both searchable, one of them critical; the eSign service names every folder |
| `run_progress` | `SearchesEnd`, `ApprovalIsSettled` under fairness; `ChainIsLinear` | 1 run, 1 content that may vanish, 2 searchable claims whose searches wait for each other; the eSign service may answer with an empty folder identifier, so that a receipt fails to be built |
| `decision_pipeline` | `ReadyIsGrounded`, `ReadyMeetsProfile`, `VerdictsMatchGraph`, `PublicVotesAreLimited`, `EnrichmentIsLocal`, the refinement `DerivesRunDecisions`, `PipelineInv` | 2 claims, 1 own source, 3 pages of which two are on one host, 5 lists of up to 4 results of which 3 are considered, answers of at most two results with true, false, half and no citations, 3 profiles |
| `claim_intake` | `ChunksShowTheText`, `ChunksKeepLimits`, `NoFindingIsLost`, `PageNumbersAreTrue`, `IdentifiersStayApart`, `TypeOK` | chunks of 2 pages or 10 characters, page estimates 1 to 3, texts of up to 3 pages (one of 5) or 4 paragraphs, 2 claims an answer, identifiers plain or already prefixed |
| `document_intake` | `EvidenceIsOwn`, `NothingIsLeftOut`, `RecordsHaveFiles`, `UploadsAreTheirOwners`, `TypeOK` | 2 users, 2 uploads, 2 runs (all symmetric), one session a user, evidence lists of two items, PDFs with a whole or a faint text layer and text files |
| `action_dispatch` | `ApprovalBindsTheAction`, `HarmlessEditsKeepTheApproval`, `OnlySignaturesLeaveATrace`, `ReportsAreTrue`, the refinement `ImplementsSenderPromise`, `TypeOK` | 3 proposals, 4 of the 6 types, 2 edits, 2 calls, 3 file contents of which one is no PDF |
| `frozen_run`, `reviewed_run`, `ambiguous_run`, `rebind_run` | one documented claim each, violated by the code | 1 run, 1 claim |
| `flat_chunks` | `FlatChunksAreBounded`, violated by the code | as `claim_intake` |

One run is enough in `RunControl` because runs share nothing else than the loop
and the ledger, and `ReceiptsAreChained` proves the chain for any number of
runs. Two searches in flight need two searchable claims;
a decision that changes needs two contents or one search; a second send needs a
second request, which is always possible. There one pipeline, one send and one
search per claim bound every counter by the code itself.

The texts of `claim_intake` are chosen for the chunker: empty, short, half a
chunk and longer than a chunk in every order, paragraphs that fill a chunk
exactly with and without their separators, pages the PDF has and the text lacks,
and two chunks that answer with the same claim or the same identifier. The
limits of the code (3 pages, 12000 characters) only matter relative to the
texts. Two edits suffice to change an approved action and to change it back;
two calls to see one call disturb the folder of another. Two runs with the same
two items meet in one text file in every order, and either user may delete while
both read. `MaxEdits`, `MaxCalls` and `MaxSessions` are the only bounds in a
guard, and the proofs hold for all values of them; `MaxClaims` bounds the answers enumerated in `ClaimIntake`.

`CHECK_DEADLOCK FALSE` is set where the modelled object really ends: a workflow
that was sent, a pipeline that aborted, an intake that was compared or stopped.

**Fairness** (`FairSpec`): weak fairness of the approval handler, which never
leaves the loop, and of the steps of a search, whose two awaited calls have
timeouts (`public_evidence/serpapi.py:23`, `semantic/provider.py:66`). None is
assumed of the document service, whose calls have no timeout
(`integrations/foxit_pdf.py:238`), nor of humans.

### What the code does not keep

Five runs end in a counterexample. Each is a sentence of the documentation, of
a test or of the program's own messages that the code contradicts, the first
four under an interleaving or a sequence of calls, the last on its own.

1. `frozen_run`. A search tests `send_attempted` and the approval before its
   awaits and assigns the result after them, under a lock the send does not
   take. "Public evidence cannot change an approved or sent run"
   (`web/app.py:982`). The at-most-once send itself is not affected
   (`AtMostOneDispatch` holds), but the run's page, its newest receipt and its
   workflow forget the approval. `LatestReceiptIsTrue` and
   `ServedReceiptPdfIsCurrent` therefore except such runs (`Overtaken`).
2. `reviewed_run`. The approval request names no binding, so a re-evaluation
   that lands between the review and the click is approved unseen. "the button
   authorizes the exact hashes currently under review" (`src/docs/devpost.md:90`).
3. `ambiguous_run`. A public search for an ambiguous claim replaces its
   UNCERTAIN verdict although the document is still ambiguous. "ambiguous or
   insufficient extraction remains fail-closed" (`src/README.md:299`).
4. `rebind_run`. A search hashes the PDF again and passes the new hash both as
   verified and as current, so a changed PDF is no blocker. "The current PDF
   differs from the PDF that was verified" (`domain/policy.py:52`).
5. `flat_chunks`. The sections of a long text without page numbers are cut
   counting the blank lines between their paragraphs, but put together in chunks
   (`extraction.py:313`) without counting those between the sections, so a chunk
   can exceed its limit by a separator for each of them: two sections of 450
   make a chunk of 902. "assert all(len(chunk.text) <= 900 for chunk in chunks)"
   (`src/tests/test_pdf_robustness.py:73`, whose text does not hit the case).

Other places where a comment and the code part, met while modelling and not
the subject of a run:

* `web/uploads.py:13` says that uploaded evidence "is NOT wired into the
  deterministic verification engine"; `start_document_run` (`web/app.py:767`)
  verifies a document against it.
* `evidence_graph/models.py:26` calls the authority of a source "display metadata
  and never a policy input"; the profiles count sources by it
  (`policy_profiles/evaluator.py:99`).
* A quotation "must exist verbatim in the cited source" (`src/README.md:98`); the
  content of a public page begins with an envelope that holds the query, so the
  value of the claim is always found in it. `ReadyIsGrounded` says which words
  that concerns.
* An upload deleted while a run extracts it counts as one page
  (`extraction.py:135`), so a stamp of 40 characters passes for the text of a long
  scan; `NothingIsLeftOut` excepts exactly that case. The text extracted from an
  upload stays on disk when the upload is deleted.

## Proofs

All proofs are checked by TLAPS with Z3, Zenon and LS4, and assume nothing but
the `ASSUME`s of the modules (`None` is no other value; critical and searchable
claims are claims; evidence bundles are sets of claims; pages are sources with a
host; the pipeline's constants have their types and its source sets are finite), each of which TLC evaluates.

* `WorkflowCalls`: `CallsInv` says what each state implies about the other
  fields. It is inductive, and gives `OnlyEarnedSends` and `NothingIsRewritten`.
* `RunControl_proofs`: `SendInv` = `TypeOK` and `SendSafety`.
  `AtMostOneDispatch` alone is not inductive: one must know that the handler in
  progress owns a run that is READY, attempted and has sent nothing
  (`HandlerOwnsRun`), that before the attempt nothing is sent or recorded
  (`NothingBeforeAttempt`), and that a READY workflow holds a READY decision
  (`ReadyIsDecided`). From it follow type correctness, at most one dispatch,
  recorded dispatches, `DispatchIsAuthorized` as an action property, and that
  every step of `Spec` is a step or a stutter of `AuthorizedSend`.
* `RunReceipts_proofs`: `ChainInv` says that the hash of a receipt is its number
  and that every number is used by one receipt of one run; `BooksInv` says what
  the receipts of a run, its decision, its approval and its dispatches know of
  each other: a search in flight works on the bundle in force and for a claim the
  bundle lacks (`SearchesAreFresh`), every receipt is true of the time it was
  issued (`ReceiptsAreHonest`), and the newest is about the decision in force
  unless a search overtook the run (`NewestReceiptIsCurrent`). With `SendInv`
  both are inductive, and give what `run_core` and `run_progress` check of receipts and replays. For the audit
  timeline, `StoryInv` says what the receipts of a run look like in their order:
  those of decisions carry neither an approval nor a send, each but the first has
  evidence the one before lacks, and a receipt with both comes last, if a send was
  recorded (`Story`). `StoryTold` computes the timeline from it.
  `SupersededReceiptsNeverVerifyAgain` uses that receipts stay and evidence only
  grows: what a search superseded never replays VERIFIED again.
  `LatestReceiptsAreTrue` and `TimelinesTellLifecycle` assume that the service
  never answers with an empty folder identifier; without that, the receipt of a
  send can be missing.
* `DecisionPipeline_proofs`: `PipelineInv` says that findings cite the bundle
  correctly, that each verdict is the worst finding about its claim, that the
  graph is built from the same findings, and that the decision is derived from
  both. Every property of the `decision_pipeline` run follows from it, for any
  claims, sources, texts, answers and profiles. `ReadyRunsMeetTheirProfile`
  needs that sets of sources are finite, to count them. `PublicVotesLimited` adds
  `VotesInv`: the comparisons about a claim that cite pages come from one search,
  whose accepted pages have different hosts. That the stages implement
  `RunDecisions` needs in addition that the bytes read at the start are those of
  the snapshot until the decision (`ReadingInv`); a search fits
  `Settle` because `CanProject` refuses to go on while another claim lacks
  comparisons.
* The same for `RunControl`, in `RunReceipts_proofs`: `SearchesInv` adds that the
  result a search in flight started from and the one in force agree on all that it
  replaces, which the search lock ensures and neither a send nor another run
  disturbs. `UnsearchedAmbiguityIsBlocked` is then obtained from the abstraction:
  `DecisionIsFounded` is an invariant of `RunDecisions`, and what it says of
  the run is that no critical ambiguous claim is READY before its own search. It
  is the part of the sentence contradicted by `ambiguous_run` that does hold.
* `DocumentIntake_proofs`: `IntakeInv` is `TypeOK`, `StoreInv` (a record has its
  whole file and its sender; a text file holds a text of its own upload) and
  `RunsInv`: what a running task holds at each step (`RunOK`), written about the
  upload's content and sender, which never change, and about files, which can only
  vanish (`Lasting`), so that the steps of others keep it.

* `ActionDispatch_proofs`: `DispatchInv` adds to `TypeOK`,
  `OnlySignaturesLeaveATrace` and `ReportsAreTrue` what the running call has done
  so far (`Running`): only a signature through the live executor runs, it has no
  folder before its draft, and the last folder, unsent, after it. Without that a
  send could dispatch the folder of another call. `ApprovalsBind`, that a
  valid approval is of the same documents (as a bag), evidence, profile, type,
  target and parameters, reads these off the hash, and needs that two
  equal bags of artifacts are empty together (`EmptyTogether`), since a missing
  artifact is a requirement; `HarmlessEditsKeep` that the bag of a sequence
  without repetitions is decided by its set of elements (`DistinctBag`). Every
  step refines `SenderPromise`.
* `ClaimIntake_proofs`: `IntakeInv` is `TypeOK` with what the state says of the
  computation: the chunks are those of the text (`ChunksAreOfText`), every reported claim is
  among the merged ones (`ReportedIsMerged`), the pages of a merged claim are
  those of its chunk that quote it (`ClaimsAreQuoted`), and the identifiers tell the chunks apart
  (`IdsTellChunks`): a name as the provider gave it is used by one claim, a
  renamed one carries the number of its chunk. The last is what makes
  `IdentifiersStayApart` inductive: the code does not look up the renamed
  identifier, and need not, unless the provider itself chose one that looks
  renamed. What the passes compute for every text and answer is shown by
  invariants of the recursive functions (`Grouped`, `Merge`, `TotalOf`): of the
  groups made so far and the pending one, the concatenation is what was read
  and each group keeps the limits.
* `SequenceLemmas` has the induction these need. The library's induction theorems
  take an operator as a parameter and cannot be cited; but a claim about one
  sequence, named as a set of lengths for which it holds, follows from the least
  length outside that set, which the well-founded order of numbers gives
  (`Induction`, `SequenceInduction`). `RecursionExists` shows that the recursive
  definitions do define a function; on it rest the lemmas about `FlattenSeq`
  that the chunks and the timeline need.

The assumptions of `ClaimIntake` say that limits are positive, that every text
is split into one page at least and into one only when nothing splits it, that
the estimated page count is positive (`extraction.py:127`), and that identifiers
are not empty. Those of `ActionDispatch` say that proposals are actions with the risk
of their type, that artifacts are sequences of hashes, that a PDF is a file, and
that the e-signature service does not answer a request without effect by an HTTP
success (`RefusalsAreTold`). The last is an assumption about the service and not
about the code: `_send_draft` looks at the HTTP status only
(`integrations/foxit_esign.py:118-125`), so a 200 whose body says that nothing was
sent would be reported as EXECUTED. `ReportsStayTrue` and `ExecutorsKeepPromise`
rest on it, and so does `RunControl`, whose sender succeeds only if it dispatched.

Only model-checked: `SearchesEnd` and `ApprovalIsSettled`, since liveness is out
of the prover's reach, and the counterexamples of the last section. Every other
property of a passing run is a theorem for all values of the constants. Proved
and not run are some that follow from a property that is run: `EvidenceOnlyGrows`
and `UnsearchedAmbiguityBlocks` from `ImplementsRunDecisions`,
`AmbiguityBlocksUntilSearched` from `DerivesRunDecisions`, `DispatchIsAuthorized`,
`ProfileOnlyRestricts` and `QuotationChecksStayIdle`.

## Not modelled

The components of `PROJECT.json` with status `not_modelled` or `partly` say what
is left out and why. In short:

* The attack lab, the command line, the phase 2 demo and the browser client add
  no behaviour to the server. `RunRegistry.reset` is called by no handler.
* Hashing and canonical JSON are abstracted to identity of content.
* The patterns that find ambiguous values: the ambiguous categories are a choice
  in `DecisionPipeline`.
* The conversion of a run into a proposed action (`application/actions_bridge.py`): it
  copies the hashes `RunControl` approves.
* The HTTP requests of the search and model providers, and the loading of policy
  profiles. Passwords, names and sizes of uploads only refuse a request;
  `UploadStore.reset` is called by no handler.

Some hazards have no property because the code cannot exclude them: the sender
reads the PDF again after both hash checks (`integrations/foxit_esign.py:87`), so
the bytes uploaded need not be the approved ones; the models record the bytes
read at each point. The list of hazards names each with its reason.

## Plan

1. Done: workflow, receipts, run control and the abstract send; engine, policy
   and pipeline; claim intake; actions and the requests of a send; replay and
   timeline; with the proofs above.
2. Done: public evidence; authentication, uploads and document runs; the proofs
   about receipts, replays, public votes and the intake of documents.
3. Loading of policy profiles and their digest.
4. Done: the proofs about `ClaimIntake`, the audit timeline and harmless edits;
   `RunDecisions`, implemented by `RunControl` and by `DecisionPipeline`.
5. The abstract specification of a document run from upload to hand-over, to
   join `DocumentIntake` and `RunControl` as `RunDecisions` joins the other two.
