# Verification of the three-statement DCF review application

TLA+ models of `src/`, model-checked with TLC on small instances and proved with
TLAPS for every value of their constants. The repository turns the PDF of an annual
report into facts, lets a reviewer confirm what the document says, decide each fact
and map it to a canonical chart of accounts, and computes statements, schedules, a
forecast and a valuation from the figures that were verified. What has to be right is
less the arithmetic than the state behind it: that a verified figure is one somebody
saw in its present form, that nothing counts twice, and that a decision once recorded
stays recorded.

Paths below are relative to `src/apps/api/app/` unless they start with `src/`.

## 1. The system

### Components, their state and operations

| component | code | state it keeps | operations | what makes it correct |
|---|---|---|---|---|
| Metadata confirmation and re-parse | `extraction/records.py`, `extraction/metadata.py` | per field a detected value and unconfirmed / confirmed / corrected; per fact the parsed value, its reason codes | confirm one field, correct one field, confirm every detection; each re-parses every fact under the confirmed number locale | an acceptance does not survive the value it was given for; a correction is never overwritten |
| Fact review | `review/actions.py`, `review/progress.py` | per fact the decision, the corrected value, the resolved codes | accept, correct, reject | an accepted figure has confirmed units; only a decision clears a code, and never a document-level one |
| Mapping | `mapping/actions.py`, `mapping/sets.py` | a versioned mapping set: per fact its mappings with type, sign, amount, approval | propose all, map, split, combine, reject, approve, approve all | approved mappings do not double-count; approval is a separate act; every version is addressable |
| Findings and ledger | `mapping/checks.py`, `mapping/normalized.py` | the mapping-stage codes on the facts | recomputed at the end of each mapping step | findings are current; a verified figure is reconciled or was accepted against its mismatch |
| Chart and proposals | `mapping/chart.py`, `mapping/proposals.py`, `src/model/accounts.py` | constant data | lookup, sign inference | the sum relation is transitive; the flip follows the chart's convention |
| Stores | `persistence/json_store.py`, `extraction/storage.py`, `api/rendering.py`, `security/retention.py` | `records/*.json`, `index.json`, the PDF by hash, cached page images, tombstones | load, save, store, read, render, delete | records are never lost or resurrected; bytes are never overwritten; deletion is always traceable |
| Ingestion | `extraction/pipeline.py`, `extraction/hashing.py`, `src/ingest_pdf.py` | the job's state; files through the stores | signature, duplicate check, scan, store, classify, extract, save | a duplicate is refused; a record has its bytes; a refusal leaves no record |
| Extraction | `extraction/text_native.py`, `parsing.py`, `pages.py`, `geometry.py` | none (pure) | tables and facts from a page | a figure read ambiguously carries a code |
| Assumptions and scenarios | `assumptions/*` | `assumptions/<id>.json`: scenarios with inheritance, assumptions with a status and evidence | put, override, accept a measured driver, move a status, add a scenario, preview | nothing unreviewed is calculated with; overrides keep their lineage; an answer moves only its branch |
| Scenario store and backup | `assumptions/store.py`, `security/backup.py` | the scenario file and its temporary name; archives with a manifest | load, change, write, rename; walk, digest, archive, verify, restore | the file always parses; a snapshot that verifies is one moment of the store |
| Formula graph | `formula/*` | a calculated model with the environment it was calculated over | calculate, recalculate a change, preview | exactly the loops are refused; a partial recalculation equals a full one |
| Historical statements and schedules | `statements/*`, `schedules/*` | none (pure) | strict build, checks, roll-forwards | a build is of verified figures; the checks compare what was printed with what was derived |
| Forecast | `forecast/*`, `src/model/forecast.py` | the projected years | project a year, refuse, check | every projected flow has a balance that moves with it |
| Valuation | `valuation/*`, `src/model/dcf.py`, `timing.py`, `sensitivity.py` | none (pure) | free cash flow, cost of capital, discounting, bridge, grid | one timing throughout; the grid is centred on the answer |
| Diagnostics and release, dashboard, exports | `diagnostics/*`, `dashboard/*`, `exports/*` | none kept; read from record and scenarios at each request | panel of thirty clauses, gate, ladder of statuses, gather, model version | a release is refused while a blocking check fails; a version tells exports apart |
| Access | `security/sessions.py`, `guard.py`, `ratelimit.py`, `csrf.py` | attempt timestamps in memory; stateless session cookies; form tokens | sign in, check, expire, sign out, post a form | attempt windows are honoured; a stale form does nothing |
| Isolation | `security/sandbox.py` | a child process and a pipe | run with a time limit | one answer per call, whatever the child does; no child stays behind |

### How they interact

A synchronous route of `api/routes.py` runs in its own thread: it loads the whole
record of a document (`_load`), computes a changed copy, and saves the whole record
(`JsonDocumentRepository.save`). Nothing locks and nothing compares versions. An ingestion is
a process of its own (`src/ingest_pdf.py`) over the same directories. The server renders
a page in a child process, and waits for it for a limited time. A snapshot is a process too, which walks the same
directories while requests write. The review
components share the record only; mapping steps write their findings to the facts,
the facts' gates read them, and the ledger reads mappings and values but not the
facts' status. Deletion touches the bytes, the record, the tombstone and the cached
pages, and leaves the index and the assumptions of the document. The scenarios are a
file of their own, and neither the panel nor an export is stored: each request
climbs the stages (review, statements, schedules, forecast, valuation) again from the record and
the scenarios as they are at that moment.

### What is hard

* orders of legal requests nobody wrote a test for: re-parse after acceptance,
  correction after split, rejection after mapping, remapping after approval;
* derived state that is stored: findings, resolutions and signs computed at one moment and used
  at another;
* two requests under way on one document, a deletion among them, and a process that
  stops between the truncation and the write of a file;
* bytes shared by hash between documents;
* two saves of a document's scenarios that meet on one temporary name, and a snapshot
  that digests a file, and archives it later;
* a child that answers, raises, dies in the middle of its message or never returns,
  against a parent that waits for a limited time;
* sign-ins that overlap, are refused and come back when told to; a form that outlives
  its session; clocks that are set back;
* the same stages climbed by two pieces of code (dashboard and panel) on other
  conditions, and a version that digests some of what an export shows.

The code has no scheduler, queue or retry loop of its own. Requests come from a person
and nothing makes a person act, so no fairness is assumed of any request. Three things
do go on by themselves, and only they are fair:

* time (`Access`: `WF(Tick)`);
* a process that has begun (`Ingest`: `WF(RunStep(r))`), since no step of an ingestion
  waits for anyone;
* the parent of an isolated call, whose `poll` has a time limit, and, in the child, what the kernel
  does: a child that writes goes on, SIGTERM is delivered, a process that has sent its
  answer exits (`Isolation`: `WF` of `ParentStep`, `Send`, `Terminated`, `Exit`).
  Nothing makes the isolated function itself return: `Finish` is not fair.

`PROJECT.json` lists every hazard at its line with the properties aimed at it.

## 2. Modules

| module | models | kind |
|---|---|---|
| `Chart` | the chart of accounts as a parameter: components, ancestors, sum relation, sign inference | operators |
| `Ledger` | `normalize` and the checks of `mapping/checks.py` as functions of a mapping and the values | operators, extends `Chart` |
| `Review` | the review of one document: each POST route an action | state machine, extends `Ledger` |
| `ReviewHistory` | `Review` with history variables, and the promises stated over them | extends `Review` |
| `ReviewProofs` | theorems of `Review`, `ReviewHistory` and `Release` | proofs |
| `DecisionLog` | what the store promises: a log per document that only grows until it is deleted, and of which nothing is promised once it is disturbed | abstract specification |
| `RecordStore` | every file operation of every request, interleaved, with crashes | state machine |
| `RecordStoreLog` | which requests met and where one was cut off (history), the refinement mapping to `DecisionLog`, and what is lost to that and to nothing else | extends `RecordStore` |
| `RecordStoreProofs` | theorems of `RecordStore` and `RecordStoreLog`, and that the store refines `DecisionLog`, whatever overlaps or crashes | proofs |
| `Register` | a scenario set: inheritance, overrides, periods, statuses, evidence, the gate | operators |
| `Assumptions` | a base scenario and a variant, a choice between two methodologies, two years, two values, one person, register version 6; 221,601 states | what a forecast may read was reviewed as it stands, and a change moves the answers of its own branch only |
| `AssumptionsProofs` | theorems of `Register` and `Assumptions` | proofs |
| `Snapshots` | the scenario file, the record and the bytes under saves, deletions, crashes, and a backup of them | state machine |
| `SnapshotsProofs` | theorems of `Snapshots` | proofs |
| `Access` | the attempt limiter, sessions, form tokens, clocks and restarts | state machine |
| `AccessProofs` | theorems of `Access` | proofs |
| `Ingest` | `src/ingest_pdf.py` and the pipeline: scanner, quarantine, checks, job | state machine |
| `Isolation` | parent and child of `run_isolated` over a pipe | state machine |
| `Formulas` | graph, order, cycles and evaluation of formulas; the statements' own derivations | operators |
| `Calculation` | a model is what a full calculation gives | abstract specification |
| `Recalculation` | 18 charts of five subtotals, circular ones among them, EBITDA with terms on two statements, cash from operations from the net income the cash flow carries over; a driver of two values, two changes between calculations; 39,388 states | recalculating implements calculating in full (refinement), exactly the loops are refused, what the formulas compute from one statement's lines that statement derives too, a preview is what saving does |
| `RecalculationProofs` | theorems of `Formulas` and `Recalculation`, and that it refines `Calculation` | proofs |
| `Forecast` | 7 histories, 17 plans, two projected years, the second of them a leap year, 18 markets in three timings with costs of capital down to minus one and below, a grid of two axes; 13,874 states | a sheet is out by what was bought and by nothing else; readiness means balance; the discounted sum is the value rolled back over the time there really is between two flows; the grid is centred |
| `Valuation` | the valuation of a forecast, in exact fractions | extends `Forecast` |
| `ForecastProofs` | theorems of `Forecast` and `Valuation` | proofs |
| `Historical` | the strict build, its checks and roll-forwards | operators, extends `Ledger` |
| `Release` | panel, gate, ladder of statuses and exports over a review still under way | composes `Review`, `Historical` and `Register` |
| `MCReview`, `MCReviewHistory`, `MCRecordStore`, `MCAssumptions`, `MCSnapshots`, `MCAccess`, `MCRecalculation`, `MCForecast`, `MCRelease` | instances for TLC | model |
| `MCIntake` | `Ingest` and `Isolation` interleaved, and their instance | model, composes both |
| `IntakeProofs` | theorems of `MCIntake`, hence of `Ingest` and `Isolation` | proofs |

`Review` takes a request as one step; `RecordStore` takes that step apart into its
file operations and forgets what the record says. A record's content there is the set
of requests whose result it holds, which is what lost, stale and resurrected saves
have to be told apart by. `Assumptions` and `Snapshots` divide the scenarios in the
same way.

In several modules a definition is preceded by one marked *Faulty*: the form a
plausible bug would give it. These are not part of the specification; the `mutants`
list of `PROJECT.json` says which property notices each.

### State and actions of `Review`

| variable | code |
|---|---|
| `meta` | `DetectedMetadata`: per field `[state, value]` |
| `parsed` | `ReportedFact.parsed`: value, parse codes, evidence points of the score |
| `reasons` | the blocking codes of extraction: cell, table and page, document, confidence |
| `mappingCodes` | the mapping-stage codes of the same tuple; `apply_findings` replaces exactly these |
| `status`, `corrected`, `resolved` | `verification_status`, `corrected_value`, the codes of `resolutions` |
| `mapping`, `version` | the current `MappingSet` |

`"unverified"` stands for `unverified` and `needs_review` alike, which the code tells
apart for display only. Metadata requests are `ConfirmField`, `CorrectField` and
`ConfirmDetected` (the form without a field, and the `--confirm-metadata` option of
the command line on a fresh document), all three through `Revalidate`. The rest are
the functions of the same name in `review/actions.py` and `mapping/actions.py`; the
route's save and the trailing `apply_findings` are part of each mapping action. A
refused request saves nothing and is no step. `CombineFacts` makes one version for
each fact the request lists and `ApproveMapping` one for each mapping, as the code
does, and only the last is saved.

The number parser and the label matcher are parameters: `Reading` gives, for a fact and
a locale, the value, codes and evidence the parser returns, and `Proposal` the code of
the best candidate. The instances choose readings the parser really produces
(`1.234` is a thousand or a fraction depending on the locale and `SEPARATOR_AMBIGUOUS` without
one). Confidence is counted in eighths. The tolerance is relative, `ToleranceScale`
being the reciprocal; the code's absolute tolerance is below one unit and compares
integers for equality just as the relative one does at the sizes used.

### State and actions of `RecordStore`

`record`, `index`, `bytes`, `renders` and `tombstone` are the files; `pc`, `doc`,
`seen`, `lookup` and `twin` the local variables of a request; `orphaned` the requests whose open file
was unlinked, so that their write reaches nobody. `write_text` is two steps, the
open that truncates and the write. A write that lands on a file another request wrote in between
either replaces its text or, where that text is the longer, leaves an unreadable
mixture (`Torn`): both are explored. The exclusive create of
`SourceStore.store` and its write are two steps as well. `Stop` ends every request of
the server at once, or one run of the command line, with the files as they are, and
`FillFails` is a write that raises.

Granularity: one call of the file system is atomic, so a write is not split further,
and `exists` followed by `unlink` is one step. Renders of one page write the same image.
`Load` admits at most `MaxActive` requests and `MaxFailures` bounds crashes and failed
writes; both are bounds of the exploration, and the theorems hold for all of their
values. Documents held at the start have whole bytes and an index entry, as a finished
ingestion leaves them.

`RecordStoreLog` adds two history variables, which no step reads. `met` is, for a request, the
requests it met: two requests between their load and their last write or unlink of one record at once, or
a deletion about to look for pages while a page of the same bytes is about to be written. `cut` is the
step a request died or failed at, where that was halfway through its writes. A document is `IsDisturbed` once two
requests met on it or a save of it was cut off. The promises are stated over these, of every
behaviour: each says what a meeting or a crash may cost, so that a decision, a record or a deletion lost
in any other way is a violation. What the documents promise without those words is false, and stated as such in section 3.

### State and actions of `Assumptions`

`register` is `assumptions/<id>.json`: the scenarios with their parents, the set of
assumptions, a version. An assumption is a record with scenario, code, periods (none
being every year), value, source, evidence, status, owner and reviewer. `impact` is the
preview the server keeps per document. `AddScenario` and `PutAssumption` are what a program
using the package does (no route adds a scenario); `Override`, `AcceptProposal`,
`ChangeStatus`, `PreviewAssumption` and `ShowAssumptions` are routes of `api/routes.py`.
A lineage is what no set closed under parents is without (`Closed`), the chain the code walks
written without recursion.
`Resolve` is the code's two-stage lookup, specific periods before general ones, nearest
scenario first within each; `ForecastReads` is the narrowing of `forecast/build.py`, which
looks a driver up in an order of its own.

### State and actions of `Snapshots`

`scenarios` and `tmp` are names for files in `inode`, so that a rename moves a name
and a file still open for writing goes on being written under its new name. A
change of the scenarios is load, open of the temporary file (which truncates), write,
rename; a review truncates and writes the record; a deletion unlinks the bytes, then the record.
Where the bytes sort among the files of a snapshot depends on their hash, so
`BytesFirst` is a constant. A snapshot walks the names, digests each, completes the manifest, archives each file
as it then is, and adds the manifest; `Verifies` compares the archive with the digests.
Contents are numbers in the order they were written, below which stand absent, mixed
and empty.

### State and actions of `Access`

Time is in half seconds, so that what `int()` cuts off is seen. `events` is the limiter's log
of an address, by the ticks each entry still counts, and `PopLeft` its loop that pops the expired; a sign-in is `Check` (which
records the attempt or refuses it) and then, after the delay of a wrong password,
`Reject` or `SignIn`, and sign-ins of one address overlap. `cookie` is the browser's
session with its age by the wall clock and by real time; `form` is what each tab was served.
`SetBack` corrects the wall clock by a second, `Restart` empties the limiter and, where no
key is configured, draws a new one.

### State and actions of `Ingest` and `Isolation`

A run of `src/ingest_pdf.py` is `Scan`, then for a refused file `ChooseTarget` and `Move`
(two steps: the name is looked for, then the file is moved), otherwise `Read`,
`Validate`, `StoreBytes`, `Classify`, `Extract`, `Save`, with the job's states advanced
along `LegalTransitions`; `Fault` is an exception at any of the steps of the pipeline. A
filing is a record of what each check sees. `Drop` puts another filing at the path, at
any moment, so what is read need not be what was scanned. A process that is killed between two
steps is `RecordStore`'s matter, not modelled here.

`Isolation` is one call at a time: the parent polls with a limit, receives, stops the child and
joins it; the child finishes with an answer or an exception, sends it in two parts, and
exits, or is killed anywhere. `MCIntake` interleaves the two machines: a page is rendered
in isolation once the store has bytes.

### State and actions of `Recalculation`

`reported` are the printed lines of one year, statement by statement: a line that two
statements print (net income) may be printed twice, and differ. `rate` is a driver; `model` is the last
calculated model and `basis` what it was calculated over. `MapLine` and `SetRate`
change the inputs, `CalculateAll` and `RecalculateAfter` calculate (the second from the changed names
and any more the caller declares), `PreviewRate` previews. The formulas are those of `formula/catalog.py` over
a chart that `Init` picks, with ratios over them. A quotient of decimals is what the constant
`Quotient` makes of two values. The loops of `formula/graph.py` are written as what one turn of
them does to their local variables (`WalkStep`, `OrderStep`, `ReadersStep`), repeated as often
as any run of them needs: the depth-first search for loops keeps its path as a stack, as the
code's recursion does, and no operator is recursive.

The two ways to a figure are kept apart as they are in the code. The formulas read one environment, into which
`formula/catalog.py` puts each account from the one statement it is read from (`SheetOf`), with nil
lines supplied where a sibling is there. A statement derives from its own ledger and
nothing else (`FillDerivable(chart, reported[s])`; `model/statements.py`), so EBITDA, which adds a line of the cash flow to one of the
income statement, is computed by its formula and derived by no ledger. `Discrepancies` is
`cross_check`: it compares a ledger as it stands, filled or not, and allows no tolerance, which is narrower than the code
(a discrepancy within the tolerance counts here as one).

### State and actions of `Forecast` and `Valuation`

`years` grows by one projected year with each `Project`, whose drivers are one
plan; `Refuse` is a plan or a history the engine rejects. Income, working capital, flows
and balance sheet are the functions of `src/model/forecast.py`. `Value` and
`RefuseToValue` value the years there are, under one market: its rates, bridge, timing
convention and valuation date. Amounts are integers with rates in parts of `Unit`; the
valuation is in exact fractions, kept in lowest terms. A sum or a power is a loop over its terms
(`Folded`).

When a flow arrives (`Arrivals`) is counted in parts of a year of which there are `YearLength` to the year that days are
divided by: 730 half-days to the 365 days of `model/timing.py`. The year-end and mid-year conventions give years that are
all alike; the exact one gives the days there really are between the valuation date and each forecast year's end, leap days
included, so that two flows need not be one year apart. A whole number of years is discounted by multiplication and anything
else by a power of a root, one plus the cost of capital over a part of a year. `Roots` gives the roots there are, and `Rooted` bounds the exploration to markets that need no
other, in the valuation or in a cell of its grid. A cost of capital of minus one or less has no power to
discount by: the valuation is refused, and a grid with such a cell is none (`Griddable`).

### State and actions of `Release`

`Release` keeps the variables of `Review` and a `register` for the base scenario. `ReviewOpen` is any
review request on the facts still open, `AnswerOpen` a request on the answers still open,
`TakeExport` remembers the first export taken. Panel, gate, ladder, statements and
version are operators of the state, as in the code, which stores none of them. What
the engines' own checks answer (five clauses) is a constant: those engines are
`Forecast` and `Valuation`.

## 3. What is checked

Between them the passing runs fire every action of every specification. `Reject` and
`Tick` are always possible and so are calculations, so `ReviewReparse`, `ReviewMapping`,
`Access` and `Recalculation` check for deadlock too. The other runs stop when every request has
ended or a bound is reached, and disable that check.

### Passing runs

| run | instance | shows |
|---|---|---|
| `ReviewReparse` | two facts whose cell reads differently in each locale, a scale and a locale to confirm, one correction value, one split amount, 3 versions; 117,880 states | accepted figures have confirmed units through every re-confirmation; a re-parse keeps corrections and withdraws acceptances exactly when it should; a verified figure moves only by its own correction |
| `ReviewMapping` | a subtotal and its part that disagree, one split amount, 5 versions, with history; 205,184 states | approvals never double-count, whatever is remapped, split, combined or rejected afterwards; findings are those of the current mapping until a figure moves; a verified fact's findings were each in front of a reviewer |
| `StoreReviews` | a filing ingested, two reviews, a deletion and a page of it, three under way at once, a crash or a failed write at any step; 793,303 states | the store implements `DecisionLog` but for documents on which requests met or a save was cut off (refinement); an acknowledged decision is lost to another review under way and to nothing else; a deletion is final but for a review under way; a record is unreadable only where a save was cut off or two met; a page outlives its bytes only where a deletion met it or did not get to it |
| `StoreIngestions` | two ingestions of one filing nobody holds yet, one of them as a linked duplicate, a review, a deletion, a page; three under way; a failure anywhere; 1,995,212 states | a record has its bytes unless a deletion took them; bytes are never overwritten |
| `Assumptions` | a base scenario and a variant, a choice between two methodologies, two years, two values, one person, register version 6; 221,601 states | what a forecast may read was reviewed as it stands, overrides keep a lineage that can be followed, and a change moves the answers of its own branch only |
| `Snapshots` | two changes of the scenarios, a review, a deletion, two under way, one crash, one snapshot, the bytes sorted behind the scenarios; 1,039,359 states | a snapshot that verifies is the storage root at one moment; unless two changes overlap, the scenario file parses and loses nothing acknowledged |
| `Access` | one client with two overlapping sign-ins, two attempts in two seconds, a session of two seconds, one tab, two sessions, a restart, a second set back; 458,434 states | the window holds and says truly when it refills, a refused client gets its budget back (liveness), a stale form does nothing |
| `Intake` | a good filing, an image-only, a cut and a scripted one and a virus, dropped twice; two processes, one exception, one isolated call; 172,648 states | the store holds checked filings; no refused file is lost; every run ends its job, every call is answered and every child ends (liveness) |
| `Recalculation` | 24 charts of up to three subtotals, circular ones among them, a driver of two values, two changes between calculations; 46,024 states | recalculating implements calculating in full (refinement), exactly the loops are refused, formulas agree with the statements, a preview is what saving does |
| `Forecast` | 7 histories, 17 plans, two projected years, 17 markets in three timings with costs of capital down to minus one and below, a grid of two axes with steps either way; 13,148 states | a sheet is out by what was bought and by nothing else; readiness means balance; the discounted sum is the value rolled back year by year; the grid is centred |
| `Release` | a filing of twenty figures over two years at the end of its review: one fact and two answers open, two more mapping versions, one export; 12,840 states | what is released is Valuation Ready, with nothing unresolved, and reconciles computed afresh; a version tells mappings apart |

### Bounds, and why they are enough

Two facts are enough for the re-parse because no step of it relates facts, and for a
subtotal and its part; `ThreeFacts.cfg` has a subtotal with two parts. Versions are
bounded where one more adds a repetition of the same requests. In the store an ingestion, two
reviews, a deletion and a page of one document give every pair of operations that can
meet on its files (the two reviews meet on its record, `StoreReviews`; two ingestions on the bytes, `StoreIngestions`), and the
third request under way gives the chains (a save lost to a save lost to
a deletion). One failure at any step covers each half-finished operation, and the
theorems below remove all of these bounds. A variant of a base has every
relation of override and inheritance there is, except of siblings; two years are what
a specific period differs from a general one in. Six register versions allow put, review and override in two
scenarios. Two overlapping sign-ins against a window of two are one more than can be admitted once one was; the
window and the session are as short as lets an attempt expire between two others. Two processes and
two drops let a file be replaced between scan, read and move. The three subtotals that vary from chart to chart give chains,
diamonds and loops of one, two and three; the two that do not are the ones between statements. Two projected years
give each year of the projection a year before it of either kind, an actual and a projected one. A year of two units makes the
leap year's day half a year long (`YearLength` is 2 and `year_ends` are 2 and 5), which is out of proportion and shows a
difference that a 365th would need large numbers for; the theorem is for every `YearLength`. In `Release` one open fact and
two open answers are the fewest that close the gate at each of its stages: the
statements, the forecast and the valuation.

### What the code promises and does not keep

The run `ClaimOneDigit` checks the sentence of `exports/version.py:13` on the instance of
`Release`: a figure is corrected between two exports, and both carry the same model version. The
`findings` of `PROJECT.json` quote it.

The following sentences are stated as definitions too, and each ends in a
counterexample when run by hand (`tlc -config X.cfg MCModule`). Where no `.cfg` is
named, replace the properties of the given one by the definition, with the changes in
brackets.

| definition | instance | sentence | what happens |
|---|---|---|---|
| `EveryDecisionIsKept` | `StoreReviews.cfg` | review/actions.py (10.33) | of two decisions under way at once one is lost, after both were acknowledged |
| `EveryDeletionIsFinal` | `StoreReviews.cfg` | security/retention.py (2.6.c) | a save that loaded before a deletion writes the record back |
| `EachRecordHasItsBytes` | `StoreIngestions.cfg` | docs/source-policy.md | deleting a document takes the bytes of its linked duplicate |
| `EveryRecordLoads` | `StoreReviews.cfg` | persistence/json_store.py:167 | a crash between truncation and write loses the review |
| `DuplicateLookupIsOfHeldDocuments` | `StoreIngestions.cfg` | extraction/hashing.py:75 | an upload is refused as the duplicate of a deleted document |
| `NoRenderOutlivesItsBytes` | `StoreReviews.cfg` | security/retention.py:163 | a page rendered during a deletion stays cached |
| `DuplicatesRefusedByDefault` | `StoreIngestions.cfg` [Linked {}] | extraction/hashing.py:79 | two uploads of a filing that overlap both become documents |
| `IdenticalBytesStoreIsNoOp` | `StoreIngestions.cfg` | extraction/storage.py:134 | an unfinished file of another run makes an upload an "overwrite attempt" |
| `ServedPagesAreWhole` | `StoreReviews.cfg` [Reviews {p1}, Renders {p2, p4}] | api/rendering.py:50 | a partly written page is served from then on |
| `TombstonesCanBeRead` | `TwoReviews.cfg` [Reviews {p1}, Deletions {p2, p3}] | security/retention.py:145 | a retried deletion that crashes destroys the tombstone it replaces |
| `ApprovedLinesCountOnce` | `ClaimCountOnce.cfg` | mapping/actions.py:23 | two approved figures of one cash-flow line are added, because a third is printed on the income statement |
| `SplitAccountsForValue` | `ClaimSplit.cfg` | mapping/actions.py:17 | a split fact is corrected; the split keeps the old amounts |
| `VerifiedFiguresReconcile` | `ReviewMapping.cfg` [Reading <- AgreeingReading, CorrectedValues {7}] | docs/source-policy.md:355 | a correction after the last mapping step leaves verified figures that fail a reconciliation: only mapping steps recompute findings |
| `MismatchesWereAcceptedAgainst` | `ReviewMapping.cfg` [SplitAmounts {1}] | review/progress.py:106 | a mismatch accepted once stays accepted for other figures |
| `WithdrawnOnlyWhenTheFigureMoved` | `ClaimWithdrawn.cfg` | extraction/records.py:463 | an acceptance of a corrected value is withdrawn although the value stands |
| `RejectedFactsLeaveLedger` | `ReviewMapping.cfg` | review/actions.py:23 | a fact rejected after it was mapped still contributes to the ledger |
| `AcceptedIsAsPrinted` | `ClaimSplit.cfg` | review/actions.py:10 | accepting a corrected fact keeps the correction, not what is printed |
| `SignFollowsChart` | `ClaimWithdrawn.cfg` | mapping/actions.py:71 | a fact mapped before its locale was confirmed keeps the sign inferred for no value |
| `SupersededVersionWasHeld` | `ReviewMapping.cfg` | mapping/sets.py:137 | combining makes several versions and saves the last |
| `LowConfidenceFollowsConfiguration` | `ClaimSplit.cfg` [Reading <- WeakReading, ConfiguredThreshold 8] | extraction/text_native.py:479 | the configured review threshold is not used |
| `NearerScenarioWins` | `Assumptions.cfg` | assumptions/scenarios.py:263 | a base record for one year is read past a variant's override for every year |
| `SatisfiedRowsAreSupplied` | `Assumptions.cfg` | assumptions/views.py:70 | a row shows as satisfied by a record for another year; the gate calls the driver missing |
| `PreviewIsOfThisScenario` | `Assumptions.cfg` | api/routes.py:1085 | the preview kept by document is shown on another scenario's page |
| `ScenariosParseUnderOverlap` | `Snapshots.cfg` | assumptions/store.py:154 | two saves share the temporary name; the mixture is renamed into place |
| `RestoredRecordLoads` | `Snapshots.cfg` | security/backup.py:184 | a snapshot of a record between truncation and write verifies, and restores nothing that loads |
| `DeletionTakesTheScenarios` | `Snapshots.cfg` | security/retention.py:25 | a deletion leaves the scenarios |
| `StoredWasScanned` | `Intake.cfg` | security/scanning.py:3 | a file dropped between scan and read is stored unscanned |
| `QuarantineKeepsEveryFileOfTwo` | `Intake.cfg` | security/scanning.py:8 | two processes choose one name, and one refused file replaces the other |
| `OnlySandboxErrors` | `Intake.cfg` | security/sandbox.py:13 | a child that dies in the middle of its message is an `OSError` in the parent, and no refusal |
| `EveryCycleIsNamed` | `Recalculation.cfg` | formula/graph.py:112 | a loop that shares a target with another is not listed |
| `PrintedStandsWhereUnderivable` | `Recalculation.cfg` | formula/catalog.py:189 | a printed subtotal one of whose terms is printed too is left to its formula, which lacks another |
| `FingerprintsTellApart` | `Recalculation.cfg` | formula/registry.py:23 | a printed subtotal that stands in for its formula is a target, and no input the fingerprint knows |
| `ForecastBalances` | `Forecast.cfg` | src/model/forecast.py:17 | an acquisition is paid for and appears on no line of the sheet |
| `RefusalsAreNamed` | `Forecast.cfg` | valuation/build.py:58 | inputs that are all there and impossible end in an exception |
| `FreeCashIsTheStatements` | `Forecast.cfg` | src/model/dcf.py:3 | a capital expenditure that brings cash in is subtracted as if it were spent |
| `VersionTellsAnswersApart` | `Release.cfg` [Entries <- YearEntries] | exports/version.py:13 | an answer for one year is read by the forecast and not by the digest |
| `AllThirtyReported` | `Release.cfg` | diagnostics/run.py:125 | a panel over a build that was refused has 29: 17.12 is left out |
| `ReleasedLinkagesTie` | `Release.cfg` [Filing <- Linked, Open the income of the cash flow] | statements/checks.py:149 | no clause asks whether one figure printed on two statements agrees |
| `ValuationReadyIsValued` | `Release.cfg` | dashboard/status.py | the inputs are there and the valuation refuses them |
| `IntangiblesDoNotBlock` | `Release.cfg` [Filing <- Printed] | diagnostics/release.py:26 | a filing without intangibles can never be released: 17.12 is skipped and still blocks |

Noticed while modelling, and not stated as a definition: `with_assumption` drops the
record it replaces, which `assumptions/schema.py` says the register preserves; accepting
a measured driver replaces a reviewed record by a draft; `forecast/build.py:180` passes
over drafts of optional drivers that no gate reported; clause 17.5 wants every fact
verified, so that a rejected fact blocks a release for good; and the limiter's "fixed
window" (`security/ratelimit.py`) is a sliding log.

Four further properties hold, and are left out of the regular runs for their time; each is
proved, and can be checked on the instance named: `ApprovedWasReviewed` (`Assumptions.cfg`;
`ApprovedWasEverReviewed`), `OverridesKeepLineage` (`Assumptions.cfg`; `LineageCanBeFollowed`), `OnlyDecisionsResolve`
(`ReviewReparse.cfg`; `DecisionsResolve`) and
`SessionLastsItsLifetime` (`Access.cfg`; `SessionsExpireInTime`). So are three of
`ThreeFacts.cfg`, below: `ApprovalIsOfAStandingMapping`, `ApprovedFactNotNested` and
`RejectedGainsNoFigure`.
`PassedOverWasReported` holds on this instance, where every driver is required. Larger
instances for an unhurried check: `ThreeFacts.cfg` (`MCReview`), `TwoStatements.cfg` (`MCReviewHistory`: net income on two
statements that disagree), `TwoReviews.cfg` (`MCRecordStore`: two reviews, a deletion and a linked
ingestion, three under way).

## 4. What is proved

Every safety invariant, action property and refinement that a passing run checks is proved for
all values of the constants, in eight modules, and so are further ones that no regular run has
the time for. What is left to TLC is liveness (see the end of this section). Where a proof needs
an inductive invariant, TLC checked it on the run's instance first. The assumptions are the named `ASSUME`s of the modules, and nothing else unless it is stated.

### `ReviewProofs`: review and mapping, for every chart, set of facts, filing and bound

* `TypeCorrect`: `TypeOK`. Lemmas reduce every metadata request to `Revalidate` of
  some well-typed metadata and every mapping request to `Commit` of some well-typed
  mapping; one lemma then treats each of the two.
* `AcceptedUnits` and `DecisionsResolve`, from the inductive invariant
  `UnitsInv`: `TypeOK`, the document's codes are on a fact exactly while its fields
  are unconfirmed (`DocumentCodesTrackMetadata`), a corrected fact has a corrected
  value (`CorrectionsHaveValues`), and the two properties. The first is needed because
  `accept` does not look at the metadata: it looks for the codes, and only their
  agreement with the metadata, which each re-parse restores and confirmation never
  undoes, makes an accepted figure one in confirmed units. The second is what lets an accepted figure keep
  a value through a re-parse that reads none.
* `NoOverlap`: approved mappings of a line that appears on one statement never add two
  figures unless declared an aggregate. It is inductive with `TypeOK` alone: what is
  approved was not found double-counted in the set it is approved in, and approving
  does not change what is found.
* `VerifiedFiguresPinned`, an action property: while a fact stays verified its contribution to
  the ledger changes only by its own correction. A re-parse either reads the same
  value or withdraws the acceptance, and a mapping step either leaves the mapping,
  replaces it by an unapproved one, or approves what was approved already.
* `ApprovalsAreOfStandingMappings`, `ApprovedIsNotNested` and `RejectedStaysOut`: what a mapping
  request may do to the mappings of one fact is one of three things (`MappingSteps`): leave them, put
  unapproved ones in their place, or approve those that stand and were not found double-counted;
  of a fact rejected in source review it puts only mappings that contribute nothing. So no
  request maps and approves at once, no approved fact is split over a line and a total that
  contains it, and a rejected fact gains no figure.
* `DecisionsStand`, an action property: a re-parse keeps every correction and changes a
  decision only by withdrawing an acceptance whose figure it read differently.
* `FindingsAreCurrent` and `FindingsWereJudged`, of `ReviewHistory`, from `HistoryInv`: the
  codes on the facts are the findings of the mapping in force over the values the last
  mapping step weighed, and each resolved code of that stage was in front of somebody in
  some decision. The second holds of resolved codes before it can hold of verified facts:
  a decision resolves whatever findings stand, verified or not.

The assumptions are those on the constants in `Chart`, `Ledger` and `Review`: the
chart is well formed, readings are values of the parser's result type, amounts are
integers.

### `ReviewProofs`: the release gate, for every chart, filing, mapping and register

* `ReleasedIsValuationReady`: the gate asks thirty clauses and the portfolio climbs a ladder, in
  two pieces of code with conditions of their own. `GateNeeds` collects what the clauses of an open gate
  imply: confirmed metadata, every fact verified, a build that was not refused, a valuation that
  builds; each rung follows from these. It holds in every state, so it needs no invariant.
* `ReleasedFiguresDoReconcile`: the checks of the statements stage, over the statements, imply
  those of the mapping stage, over the ledger, computed afresh. The lemmas are that a cell
  of a statement is the line of the ledger it was built from (`CellIsLine`), that the
  column before a year is the year before (`PriorIsYearBefore`), and, with them, that the two roll cash
  forward alike (`CashRollsForward`) and add the same terms up to the same subtotals (`SubtotalsAddUp`).
* `VersionsTellMappingsApart`: an export keeps the figures its mapping rows make of the values it
  read (`ExportsKept`), and the rows are part of the version.

### `RecordStoreProofs`, for any number of documents and requests, overlapping and crashing

No theorem of this module limits how many requests are under way or how often one fails. Six follow
from an inductive invariant `StoreInv` in three parts. `RecordHoldsItsBasis` is checked by `StoreReviews`, `RecordHasItsBytes` and
`BytesNeverOverwritten` by `StoreIngestions`, and `TypeOK`, `DeletionIsRecorded`
and `IndexNamesSavedDocuments` with `TwoReviews.cfg`:

* `KeepInv` joins `RecordHasItsBytes` and `DeletionIsRecorded` to what a request under way relies on. A deletion past
  its first step has its tombstone (`DeletingHasTombstone`). An unfinished file is
  filled by one run only, unless a deletion intervened (`FillingIsAlone`): without it
  the handler of a failed write, which unlinks the path, could be taking a file
  another run has finished and a record depends on. A save under way is of a document
  whose bytes are stored or deleted (`SavingHasBytes`).
* `IndexInv`: what holds of the index also holds of every stale copy of it, because
  records go only where tombstones are.
* `BasisInv`: what holds of a record also holds of what every request loaded from it,
  and requests in a record have begun, so that what they loaded is fixed.

The theorems are `StoreTypeCorrect`, `RecordsRestOnTheirBasis`,
`DeletionsAreRecorded`, `RecordsHaveTheirBytes`, `IndexIsOfSavedDocuments` and
`EvidenceIsNeverOverwritten`.

Five more, which `StoreReviews` checks, say what requests that meet and saves that are cut off
may cost. They follow from `LogInv`, which joins to `StoreInv` that a request is at a step of its kind (`StepsAreTheirs`),
what the history records (`HistoryInv`: requests that are both between load and last write of a record have met), `RecordInv` and
`PageInv`:

* `DecisionsAreKept`: a decision that was acknowledged and met no other review is in the record, or the record was
  deleted, or cannot be read and says so. `DecisionsStay` carries it for each request from the write on, together with
  what makes it last: whoever may save the record next has the decision in what it loaded. That a decision reaches the record in the
  first place is `WritersWrite`.
* `DeletionsStay`: a deletion that was reported and met no review leaves no record (`DeletionsAreFinal`).
* `ReviewsSurviveRestarts`: a record is empty only while a save of it is between truncation and write or was cut
  off there, and a mixture only where two reviews met on it. A review that met none finds the file it truncated still empty (`WritersWrite`), and an
  ingestion is the first to write its record and meets nobody on it (`RunsAreFirst`).
* `RendersGoWithTheirBytes`: a page without its bytes has an excuse (`PagesAreExcused`), which is one of three: a deletion that has
  yet to look for pages or was cut off before, one that met the page's request, or a failed run that unlinked the bytes of a later one.
  The page that is open is part of it (`PageIsOpen`), since it is written after the excuse has to be there.
* `StoreImplementsLog`: the file operations implement `DecisionLog` under the mapping
  `SavedOn`. On a document that is not disturbed the step that writes the record's text is the abstract decision
  (`WriteRecordSaves`), the unlink of the record the abstract deletion (`UnlinkRecordDeletes`), and every other step a
  stutter (`OpenRecordSaves`, `UntouchedIsSaved`); while a record is truncated it stands for what
  its writer loaded, which on an undisturbed document is what it found (`FoundStays`) and does not hold the writer's own decision
  yet (`Unwritten`). A step by which two requests meet or a save is cut off disturbs the documents it
  is on, which stay disturbed (`DisturbedStays`), and moves no other (`OthersStay`).

The promises without those conditions are false; section 3 names the runs that show it. The assumptions are `StoreAssumption`: an upload draws a
fresh document id, the documents held at the start are no duplicates of each other, a request is of one
kind, and file contents are distinguishable from absent and broken files; and `LogAssumption`, that the three values of
the log that are no set of decisions are no such set and differ. That a request is of one kind was found by the proof: an
earlier assumption was satisfied by equal sets of reviews and deletions, with which the
refinement does not hold.

### `AssumptionsProofs`, for every tree of scenarios, every set of drivers, people and years

The inductive invariant is `RegisterInv`: the scenarios are a finite tree with the base at its root (`Tree`),
every record is one of a scenario held and stamped with its own change (`Records`), what
is reviewed or approved was stored as reviewed as it stands, by somebody, with evidence (`Reviewing`),
and `OverridesKeepLineage`.

* `ForecastReadsTheReviewed` is the gate's theorem: a forecast that may calculate reads for each
  required driver and year the one record that `Resolve` yields, and it was reviewed at its
  present value and source. Two lookups with different orders have to agree. `FirstMet` takes a
  unique record because stamps differ, and because a lineage meets each scenario once, which
  is where the tree comes in; the register of the forecast takes the same record because the gate found neither
  a missing nor an ambiguous choice.
* `LineageCanBeFollowed`: the scenario an override names is strictly above its own and holds a
  record of the driver, since a scenario never moves and a record is replaced by records of its driver only.
* `VariantsDoNotDisturb`, an action property: what a scenario resolves moves only
  with a record put into its own lineage. Lineages do not change when a scenario is added, as no
  scenario varies the new one.
* `ApprovedWasEverReviewed` and `RegisterTypeCorrect`.

The facts on lineages (`LineageIs`, that a lineage is the scenario and its parent's lineage, that
lineages of lineages are included) need no induction: a lineage is an intersection of closed sets.

### `SnapshotsProofs`, for any number of changes, reviews, deletions, crashes and snapshots

`SnapshotsInv` has three parts. `FilesInv`: no two files ever hold the same whole text, and
the name of the set and the temporary name are never of one file. `SnapInv`: what was
digested is on disk still or is gone for good (`Gone`), up to the manifest; from then on, what was digested was on disk when
the manifest was complete or had gone before. `ScenarioInv`: unless two changes overlapped, the one request at work loaded
what the file still holds, and the temporary name is of the file it has open.

* `BackupIsOneMoment`: an archived file with the digest it had is that of the moment the
  manifest was complete, because a text that is gone does not come back. That is a property of how the store writes (each
  save is a new text, and a rename carries a file that was written under another name) rather than of
  the backup, and the reason why `Gone` speaks of the temporary file as well.
* `ScenariosSurviveCrashes`, `AcknowledgedScenariosStay` and `SnapshotsTypeCorrect`.

### `AccessProofs`, for any number of addresses, sign-ins under way, tabs and restarts, and every window and allowance

`AccessInv` is `LimiterInv /\ GuardInv /\ ClockInv /\ StaleFormsDoNothing`.

* `GuessingIsBounded`: the recorded attempts of an address are those that expired
  and then those admitted, oldest first, each counting for what its age leaves of the window
  (`Matches`). The limiter drops the expired when it is next asked only; `CountedAreAdmitted` shows
  that popping from the left is then the same as dropping the expired.
* `ToldToComeBackInTime`: while an address waits for what it was told, its oldest attempt
  is over by then or it has not used up its attempts; the rounding up makes the first hold when it is told.
* `StaleTabsDoNothing`: a form carries the token of the session it was served under, and
  sessions are numbered as they are made, so that no later session gives an old token.
* `SessionsExpireInTime`: a session is honoured for its lifetime, but for what the truncation to seconds
  costs, and for no longer than the corrections of the clock add. `ClockInv` bounds the difference
  between the session's age by the wall clock and by real time from both sides; the
  half second that truncation hides has to be kept in it, because a correction can come between two ticks.
* `AccessTypeCorrect`.

### `IntakeProofs`, for every set of filings, files and runs, `Ingest` and `Isolation` interleaved

`IntakeInv` is `IngestInv /\ QuarantineInv /\ RenderInv`.

* `StoreIsChecked`: a run at a step has passed the checks before it on the bytes it has read
  (`RunOK`), whatever is dropped at the path it read them from.
* `NothingRefusedIsLost`: unless two processes overlap, the name that was looked for is still
  the next free one when the file is moved.
* `NoJobIsLeftOpen`: the job's state follows the step, and a run that is over is in a terminal
  one. That every run is over in the end is liveness, and stays with TLC.
* `RendersAreWhole`: a value is returned of a whole message only.

### `RecalculationProofs`, for every set of formulas, filing and sequence of changes

The loops of `formula/graph.py` are first shown to be what they are meant to be. `RepeatedIs` gives
a step repeated its first and its next value; a loop's invariant is then carried along by the set of the
numbers of turns after which it holds (`Induction`, from the least number outside it).

* `DescendantsClosed` and `DescendantsLeast`: the readers found are the least set closed under reading,
  since a round that adds nothing is the last one, and there are no more rounds than targets.
* `OrderIs`: where nothing loops, the order has each target once, after what it reads.
* `CyclesAre`: the depth-first search finds no loop exactly where no target reads itself.
  The invariant of the walk (`Walked`, kept by `WalkDown` and `WalkUp`) is that, until a loop is found, what was
  visited and left reads only what was visited and left, and has no loop of its own; that is why going down to each
  target once misses no set of formulas that has one.

The theorems rest on these:

* `LoopsRefused`: exactly the sets of formulas with a target that reads itself are refused.
* `PartialIsFull`: the refinement of `Calculation`. The inductive invariant is `ModelInv`: there is no model of
  formulas with a loop, and its cells are `Right` over what they were calculated from. A cell that is
  not affected reads nothing that changed (`RecalculateIs`), so it stays right over the new
  environment; the affected ones are computed in an order in which what they read is computed first (`RunRight`).
  Values are compared by what depends on them only, so the proof holds of every arithmetic, and every `Quotient`.
* `PreviewsAreWhatSavingDoes`: right cells are unique (`OneRight`), so the recalculated copy and the full
  calculation agree, and what lies outside the readers of the driver moves in neither.
* `StatementsAgree`: what is computed rests on printed lines (`ReportRests`). And for each statement
  whose printed subtotals agree with their terms, and on which what it carries over from another is what was computed, a figure computed from
  its own lines is a line of its ledger at the same value (`ReportAgrees`, along the order). What rests on
  another statement, EBITDA among it, is computed and derived on neither, and the theorem says nothing of it but that it rests on printed lines. The
  proof uses that a line which may be left out is a term of one subtotal (`OneSubtotal`) and that what a ledger could derive is an account of its
  statement; both are true of `model/accounts.py` and named in `RecalculationAssumption`. `StatementIsOneOf` says that what
  is read from a statement is what that statement prints.

The assumptions are `FormulasAssumption` (the references are finitely many, sorted, and the lines
that may be left out are no subtotals) and `RecalculationAssumption` (a derivation adds and subtracts at least one term, an account is read
from a statement it is on, and the two facts about the chart above).

### `ForecastProofs`, for every filing, plan, market and number of years

* `OutByWhatWasBought`: each projected sheet is out by what the one before it is out
  by and by what was spent on acquisitions. `OutByStep` is the balance identity of one
  year: it follows each flow to the balance that moves with it, and finds none for an
  acquisition.
* `ReadyIsBalanced`: a forecast that may be called ready starts from a history that balances
  and balances in every year.

Both follow from the inductive invariant `Holding`: the history and the years are
typed, the lines carried forward are those of the last actual year (`HeldAs`), and each sheet is out as
above. The typing is part of it because `Absent` contributes nothing to a sum and
`Part` is an integer only of integers. The assumption is `ForecastAssumption`: histories and plans are
records of integers or `Absent`, and `Unit` is a positive number.

The valuation's two invariants are equalities of fractions, so the fractions come first. `GcdIs` shows
that the recursive function `gcd` is Euclid's algorithm and yields a common divisor with its two coefficients; hence
`FractionLowest`, that what `Fraction` returns is in lowest terms, and `EqualIsSame`, that fractions in lowest terms
which are equal in value are the same record. The laws of a field that the proofs
need (`PlusAssociates`, `TimesPlus`, `TimesCancels`, ...) are then equalities, although every
operation divides by a common divisor of its own.

* `ValueRolledBack`: the sum of discounted flows is the terminal value and the flows rolled back from each flow to the one
  before it, by the time there really is between the two (`WorthIsRolledBack`, with `RollBack` by induction over the years). Gaps may differ, by
  a leap day for one, so what is used of a discount is that a sum of two times discounts like one after the other
  (`DiscountsMultiply`), whether either of them is a whole number of years or not, and that arrivals grow and none is before the
  valuation date (`ArrivalsAre`). Flows in the middle of years are worth half a year more than at their ends (`MidYearIsEarlier`): there
  every flow and the terminal value move alike.
* `GridCentred`: each cell is the valuation at exactly the rates it is labelled with, because the premium solved for
  the shifted cost of capital gives back that cost of capital without a remainder (`ShiftedExactly`); the cell in the
  middle is the valuation itself.
* `ValuingForecasts`: a valuation leaves the forecast as it is, so that the two theorems above hold of it.

The inductive invariant `Valued` joins to `Holding` that the incomes and flows of projected years are integers and that
what is built has a year at least (`Counted`), and the two properties. The assumptions are `ValuationAssumption`, that a market is
a record of integers or `Absent` with the ends of its forecast years in order and that a year is an even number of units, and
`RootsAssumption`, that what `Roots` gives is a root.

### Only model-checked

* Liveness under fairness: `RefusedClientGetsBudgetBack`, `RunsEndTheirJob`, `CallsAreAnswered`, `ChildrenEnd`.
  The prover has no rule for `ENABLED`.
* What fails: the run `ClaimOneDigit` and the definitions of the table in section 3 are refuted by
  counterexamples, and there is nothing to prove.
* `PassedOverWasReported`, which holds only of instances where every driver is required.

Not proved either: that the review inside `Release` keeps the invariants of `Review`. `Release` begins with a review almost
finished (`Begun`), so its specification does not imply that of `Review`, and a theorem about it would
assume of `Begun` what it says. `ReleasedMeansValuationReady` and its neighbours hold in every state whatever came before.

## 5. Not modelled, and the plan

Not modelled, with the reason:

* the extraction of tables from page geometry, and the chart's rows and label rules: data and pure
  functions of layout; facts, readings, charts and proposals are parameters;
* the text of formulas and the algebra of units: pure functions of text;
* the schedules of working capital days and interest averages, and the roll-forward of common equity: nothing decides on them;
* decimal arithmetic with powers and rounding: integers and exact fractions stand for
  it, and the roots a part of a year is discounted by are given (`Roots`);
* the non-strict build of the work screens, which drops what the strict one refuses;
* presentation: pages, cards, charts, file formats, the layout of statements;
* credentials and their hashing, response headers, the audit log's format, and the cap on
  requests in flight;
* loading a model from YAML and printing it on the command line;
* reports about the repository itself, which keep no state;
* a process killed between two steps of an ingestion, other than at its files (`RecordStore`).

Left out of modules that model the rest, with what that means for their properties:

* `Ingest` has no `--linked-duplicate`: a duplicate is always refused there. The option is modelled where it matters, in
  `RecordStore` (`Linked`), whose runs record a linked duplicate and delete one of the two.
* `Snapshots` has no tombstones and no index under the storage root. A snapshot takes them as it takes the other files; `BackupIsOneMoment` is proved
  of one record, one set of scenarios and one document's bytes, and says nothing of a tombstone that is rewritten in the meantime.
* `Release.ValuationBuilds` does not refuse an input declared in another unit, or a last year without debt or cash (`balance.require`); what
  `run_dcf` refuses is the constant `EngineSays`. The code's gate is the stricter for each, so a release refused here is refused there too, and
  what is shown of released models is shown of more than the code releases.
* `Ledger` heads every column by a year. The code's mapping-stage roll-forward passes over columns headed otherwise
  (`mapping/checks.py:289`), and the panel's (`statements/checks.py:78`) rolls from whatever column is sorted before. On a filing with such a
  column between two years the two can differ, and `ReleasedFiguresDoReconcile` does not speak of it.
* `Formulas.Discrepancies` allows no tolerance; `Ledger.cross_check` does.

`Release` takes the answers of the forecast's and the valuation's own checks as a constant, as
composing it with `Forecast` and `Valuation` would multiply their states; what those
answers are worth is shown there.

What could follow:

1. Larger instances: a third scenario as a sibling, two clients, two documents in `Snapshots`.
2. `Release` started from a review and not from a given `Begun`, if its instance can be made small enough; the theorems
   of `Review` would then hold of it.
3. A process killed between two steps of an ingestion as a step of `Ingest`, with its job's state on disk.
