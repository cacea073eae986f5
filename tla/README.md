# A verification development for mloda-plugin-govdata

`mloda-plugin-govdata` is a set of mloda feature groups over German public data: tables
of the Statistisches Bundesamt (GENESIS), files of the GovData catalogue, air quality of the
Umweltbundesamt, election results, and harmonization onto common regions and years. The
parts of it that are hard to get right are not the data formats: they are two caches that
several processes share, a client that must not send two requests at once, a generator that
pages through a catalogue that changes under it, the re-basing of numbers onto borders
that moved, readers that resolve, download and parse at three different moments, and files
that are written by one process and loaded by another. This directory holds TLA+ models of those parts, configurations that check them
with TLC, and proofs of their safety properties with TLAPS.

* [Parts of the system](#parts-of-the-system)
* [Modules](#modules)
* [Runs and bounds](#runs-and-bounds)
* [Fairness](#fairness)
* [Proofs](#proofs)
* [Disagreements found](#disagreements-found)
* [What is not modelled](#what-is-not-modelled)
* [Plan](#plan)
* [How to run it](#how-to-run-it)

Paths below are relative to `src/mloda_plugin_govdata/` unless they start with `src/`.

## Parts of the system

For every part: the state it keeps, what it does, what it talks to, what is hard about it,
and what makes it correct.

**Download cache** (`feature_groups/govdata/core/cache.py`). State on disk: one blob per
body, named by its SHA-256, and one metadata file per URL that names the blob and the
validators (ETag, Last-Modified) it was sent with. One operation, `get_or_download`: offline,
revalidating, pinned to a digest (`sha256=`), or offline-first through
`harmonization/base.py`. It calls the HTTP client. Hard: several threads and processes share
the directory with no lock at all; a process can die between blob and metadata; a `304`
answers a question asked earlier about a file that may have changed since; files may be
damaged. Correct: nothing is returned that the publisher did not serve, a revalidating call
returns a body that was current during the call, a pin is honoured or refused, a half-made
entry never shows.

**HTTP client** (`govdata/core/client.py`). No state. `send_with_retry` makes up to five
attempts, retries transport errors and the statuses 429, 500, 502, 503, 504, waits an
exponentially growing time or what `Retry-After` says, capped at 60 s. Used by every reader. Hard: bounds. Correct: never more than five attempts,
and giving up only after five.

**GENESIS client** (`destatis/core/api.py`). GENESIS blocks accounts that send requests
concurrently, so `request` holds two locks around an attempt: a process-wide lock per host,
then a file lock per host name in a directory that processes share, waited for at most 300 s.
Backoff happens outside both. Hard: a lock leaked by an error path, waiting for ever, a
holder that hangs or dies. Correct: mutual exclusion, no leaked lock, every request ends.

**GENESIS parameter cache** (`destatis/core/cache.py`). State on disk: blobs by digest, one
metadata file per key, the key being a hash of endpoint and canonical parameters. `lookup`,
`store`, `get_or_fetch`. A hit wins without a request and without credentials; there is no
expiry, only a warning after 30 days; `refresh=True` always asks the host. The reader parses
the blob later, by path. Correct: hits stay offline, a refresh is current, what is parsed is
what is reported, a failed fetch changes nothing.

**GENESIS reply envelope** (`destatis/core/envelope.py`, `errors.py`). Pure. A reply is a ZIP
(the table), HTML (maintenance), or JSON in several layouts; status codes and texts are
inspected in a fixed order, the text of a system error first, then credentials, jobs,
size, unknown table, empty, pass, and size again by its text. Hard: an error served with status 200, or with a
success code. Correct: no error reply is ever taken for a table, and a table never for an
error.

**GENESIS credentials, hosts, redaction** (`auth.py`, `hosts.py`, `redact.py`). Pure but for
the environment. Explicit credentials must be of the host asked; a half-set pair is an error;
a token goes in a header. Correct: no credential of one host goes to another, none is logged.

**GENESIS reader, locator, parser, period** (`destatis/reader.py`, `locator.py`,
`core/parse.py`, `core/period.py`). A feature's option is parsed to a locator, the cache is
asked, the one CSV of the zip is read, and time labels become years. Hard: a selection has many
spellings, and they are keyed; values, signs and times of a row are read by separate paths.
Correct: two callers share an entry exactly if they mean the same; a value keeps its sign and
its year; a date that is not the end of a year is refused.

**CKAN discovery** (`govdata/core/discovery.py`). `search_datasets` is a lazy generator over
`package_search` pages; `resolve_distribution` picks the resource to read, an indexed CSV
first. Hard: the catalogue changes between pages, the server caps pages, counts are stale.
Correct: over what stayed put, nothing is skipped and nothing comes twice; the walk ends.

**GovData locator, reader, parser, provenance** (`govdata/core/locator.py`, `parse.py`,
`provenance.py`, `govdata/reader.py`). Resolve through CKAN, refuse a licence other than the one
the reader declares before anything is downloaded, download through the cache, parse German CSV,
refuse a missing column. Hard: the resource read is not always the one at the index; records
are edited and files revised between two steps; labels of merged headers are missing, repeated,
or look like each other's suffix; rows are longer or shorter than their header. Correct: the
licence reported is that of the bytes parsed; every cell stays in its column.

**UBA air quality reader** (`govdata/uba.py`). Options to a URL, JSON measures to rows. Hard:
fields are told apart by position. Correct: a measure stands under the name its reply gives it.

**Bundeswahlleiterin reader** (`govdata/bundeswahlleiterin.py`). Three header rows to unique names.

**Territorial rebase** (`harmonization/core/rebase.py`, `harmonization/rebase.py`). Pure.
Values of Kreise observed on the borders of one year are moved onto those of a later one with
the population or area shares of a key sheet. Hard: borders that changed in years no sheet
covers, sources without a value, shares that do not add up, `-` that means 0 or "does not
exist". Correct: a value nobody casts doubt on is what the Kreis really has on the target
borders; totals are conserved; no partial sum; what was not used is reported.

**NUTS mapping and region keys** (`harmonization/core/nuts.py`, `keys.py`,
`harmonization/nuts.py`). Pure. A Kreis key is looked up in the NUTS table, after at most one
redirect through the change files of the municipal register; ambiguous means unmatched. Hard: a key says
nothing about the year it is of; a Kreis that was split has no one successor; between a reform and the next
NUTS version a Kreis spans two regions; only some years' change files are read. Correct: the region of a key is the one its territory is in; no
file more or less turns it into another; every row is answered.

**Reference tables** (`harmonization/core/reference/`). Pinned downloads, fetched once and
then read offline: `calculate_feature` never fetches.

**Harmonization feature groups** (`harmonization/base.py`, `period.py`). Feature names,
options, offline-first.

**Land codes and population per voter** (`harmonization/core/land_codes.py`,
`land_population_per_voter.py`). A look-up and a division per row; mloda does the join.

**Recipes** (`recipes/`). Features, links and a compliance block are validated, written as JSON
with a plain `write_text`, and loaded by other processes that have other classes and another
environment. Hard: the write is in place, so a reader can meet nothing, half a file, or a file
under another's; options become JSON and are read back as another reader's option. Correct: what
is loaded was written to its end, and says what its writer said. `frames_by_column` indexes
what a run returns; correct: a column leads to its frame exactly if it has one.

**Credential scan** (`recipes/credential_scan.py`): keeps values of the environment out of a
recipe. **Scripts, tutorials, demos** (`src/scripts`, `src/tutorials`, `src/demos`): uses of the
above.

How they interact: readers call discovery, then a cache; a cache calls the client; the GENESIS
client wraps the client in locks; harmonization calls the caches offline-first for its
reference tables and is otherwise pure; a recipe holds the options of readers. Only the two cache
directories, the lock files and recipe files are shared between processes. There are no callbacks and no threads of its own: concurrency is
that of the processes and threads of whoever uses the package.

## Modules

| module | models | role |
|---|---|---|
| `Fetching` | the promise of a cache, without files | abstract specification |
| `DownloadCache` | `govdata/core/cache.py`, with `client.py` and `offline_first` | implements `Fetching` |
| `ParameterCache` | `destatis/core/cache.py`, with the reader and credentials around it | implements `Fetching` |
| `GenesisClient` | `GenesisClient.request` of `destatis/core/api.py` | locks, retries, time |
| `Envelope` | `destatis/core/envelope.py` | operators over replies |
| `GenesisCall` | `destatis/core/auth.py`, and `api.py` around `Envelope` | credentials and diagnoses |
| `CatalogueSearch` | `search_datasets` of `govdata/core/discovery.py` | paging |
| `Rebase` | `harmonization/core/rebase.py` | algorithm, against a ground truth |
| `RebaseFeature` | `harmonization/rebase.py`, `harmonization/base.py` | composes `Rebase`: outputs stacked in a frame |
| `NutsMapping` | `harmonization/core/nuts.py`, `harmonization/nuts.py` | algorithm, against a ground truth |
| `Locators` | `destatis/locator.py`, `govdata/core/locator.py` | operators: an option to a locator |
| `Selections` | key and canonical form of `destatis/core/cache.py` | from an option to an entry |
| `GermanCsv` | `govdata/core/parse.py` | operators: rows of cells to a typed table |
| `UbaMeasures` | `govdata/uba.py` | operators: a query to a URL, a reply to rows |
| `DestatisTable` | `destatis/core/parse.py`, `period.py` | operators, over `GermanCsv`: a zip to a table |
| `DistributionReader` | `govdata/reader.py`, `bundeswahlleiterin.py`, `resolve_distribution` | composes the four: a read |
| `Recipes` | `recipes/` | a file written in place, loaded elsewhere |
| `*Proofs` | | theorems about the module they are named after |
| `MC*` | | instances for TLC |

**DownloadCache.** `blob` and `metaFile` are the two kinds of file, `content` and `served`
the publisher. `call[c]` holds the locals of one `get_or_download`, `at` its next step:
`ReadMeta`, `Exists` (`blob_path.exists()`), `Verify` (hash the blob), the exchange with the
publisher (`Answer304`, `Answer200`, `AnswerOtherBody` for a refused pin, `AnswerRetryable`,
`AnswerError`), `StoreBlob`, `StoreMeta`. Each of these is one access to the file system or
one exchange, which is where another process can come in between. `write_atomic` is a rename,
so a write happens whole or (`WriteFails`, `Crash`) not at all. `Decide` is the branch after the
local lookup, for the three modes. Validators are strong and are represented by the body they
came with. `Tamper` changes a file from outside. `seen` is history for the properties:
which bodies were current during the call, whether an entry existed at its beginning.

**ParameterCache.** The same division into steps, for `lookup`, the fetch and `store`, then
`Parse`, which opens the returned path. `NoCredentials` is `resolve_credentials` failing at
the first request, which is the only place that asks for credentials. `AnswerError` stands
for transport errors and every envelope that is not a table, `AnswerEmpty` for a table
without a byte; nothing is stored for them.

**Fetching.** Callers ask and are handed a digest or an error; a revalidating caller's digest
is of a body that was current between call and return. Both caches implement it, by the
mappings at their ends: `seen[c].window` is the window, the outcome is the answer; a refresh
of the parameter cache is a revalidation, and any other reader an offline-first one.

**GenesisClient.** One `at` per thread; `procHeld` and `fileHeld` are the two kinds of lock,
keyed by process and host, and by directory and host name, as the code keys them. `Respond`
ends an attempt and drops the file lock, `Leave` drops the process lock and does what
`send_with_retry` does with the result, `GiveUpLock` is filelock's timeout. `Tick` is time: a
tick may not pass while a healthy attempt is at its limit, or a waiter could have taken its
lock. `Hang` and `Crash` are what the lock timeout and the operating system are for.

**Envelope** and **GenesisCall.** `Envelope` has one operator per function of the code: `Inspect` is
`inspect_response`, `StatusBlock` and `LoginCheck` are the two `raise_for_` functions, with their tests in the
code's order. A reply is what the code looks at; a text is the set of the phrases searched for in it, so that one
text may hold two of them. `GenesisCall` is one client: `Call` resolves credentials as the lazy property does (once, then
kept, while the guest test reads the environment again each time; `OwnCredentials` says that what is sent is what is kept, and so what is redacted), `Answered` inspects the reply, `Redirected` and `NoAnswer` are the other ends. The host is modelled by what it
*means*: `Replies` lists, for every meaning, the replies that say so in the recorded fixtures and in the package's table of errors,
nested and flat, with their odd texts; `SomethingNew` is what nobody has seen. The locks and retries
of the same request are `GenesisClient`'s; there a reply has no contents, here an attempt has no duration.

**CatalogueSearch.** `walk` holds the generator's locals. A step is one `next()`, cut where it
sends a request (`Start`, `Resume` up to the request, `Answer` or `AnswerFails` after it).
`Add`, `Withdraw` and `Edit` change the catalogue between any two steps; the server sorts
newest first, caps pages, and may count wrongly.

**Rebase.** The code sees observations and key sheets; the model also has what they were
derived from: `borders`, the Kreis of each piece of territory in each year. Sheets and tables
are computed from it, a result is held against it. A call is one step, as the code is
sequential and pure; the order of its checks is in `Refusal`, one disjunct per way it can be
called (`CallOnTrueSheet`, `CallOnFaultyInput`, `CallWithoutSheet`). Numbers are integers
scaled so that every division is exact: a value that is off is wrong, not rounded.

**NutsMapping.** As in `Rebase` the model has the truth, `borders` and the `region` of each Gemeinde, and derives the
crosswalk (`LauRows`) and the change files from it. `Resolve` is `_resolve_one`, as a set of at most one region;
`Refusal` is the order of the checks of `map_ags_to_nuts`. `MapAgsToNuts` is a direct call, with any change files;
`CalculateFeature` is the feature group's, with the files of `history_years` that `FetchReference` may have
put into the cache, all of them or only the first ones. A Gemeinde's key names its Kreis, so it is gone when its Kreis changes.

**RebaseFeature.** `CalculateFeature` is `calculate_feature` whole: which of an output and its parts decides
the options (`ByBase`), one `Result` per output by the operators of `Rebase`, `Aligned`, and the `Columns`: rows
in order, the issues shown with each, and in the provenance of every row the issues no row shows. `FetchReference`
caches the key file; without it a frame is a cache miss.

**Locators** and **Selections.** One operator per function. An option is a tagged value (a locator, a dict, a string, or
what no reader takes); a text is a code, a code in blanks, or blank; an element of a list is the codes between its commas, so that
"a, b" in one string and two strings of a list are different to write and the same to send. `Ask` is a reader's call: unclaimed,
refused, a hit, or an entry made. `Meant` and `Selected` say independently what a caller means and what a server reads.

**GermanCsv, UbaMeasures, DestatisTable.** A cell is what its text means (a word, a number, a fraction, a date, one of the two
kinds of sign, nothing), and a header's label is the sequence of its words, which is what makes joined labels collide. pandas is
modelled by what it does to rows: blank lines skipped, the width of the first data row deciding,
repeated labels marked; so is the ladder of encodings, by which letters it garbles.

**DistributionReader.** One read at a time, as load_data is: `Call` (which reader claims the option, what is refused before
anything is asked, the geometry of the Bundeswahlleiterin by `READER_OPTIONS` among it: `tests/test_reader.py:296-332`), `Resolve`, `Download`, `Parse`, in four steps because a publisher may `Republish` the record or `Revise` a file between them.
A download returns what its URL serves at that moment: the promise of `Fetching`, which both caches are shown to keep.

**Recipes.** `Build` is everything `write_recipe` does before it opens the file: items, links, validators, scan and a trial realization,
each refusal an operator. An option that is a list or a dict is the texts in it, keys and strings, at whatever depth; the scan goes through them,
the classes of links and features and the pushed keys, and `NoCredentialAtRest` counts a draft's words by operators of its own. `Open` empties the file, `Write` fills it, `WriteShort` is a full disk, `Die` a crash between any two
of them. `file` is whose text stands there and up to where, and what total length is behind it: a shorter text written over a
longer one at the same time leaves the longer one's end. `Load` validates and realizes again, with the environment and the classes of its own process.

## Runs and bounds

| run | distinct states | asks |
|---|---|---|
| `download_cache` | 839,153 | two callers in every mode race on one URL whose body changes |
| `tampered_cache` | 1,866,192 | one caller, two URLs, damaged files, a crash, retries |
| `parameter_cache` | 354,247 | two readers race on one selection whose table is revised, with a crash or a damaged file; one reader of two selections, with both |
| `genesis_client` | 77,924 | three threads, two processes, both locks, a hang and a crash |
| `genesis_call` | 117,760 | one client, every credential, environment and kind of reply |
| `discovery_to_recipe` | 323,446 | every search, one change; then a read, recipes or selections of what was found |
| `rebase` | 1,175,244 | every small history of borders, every span, table, defect and policy; frames of one and two outputs |
| `nuts_mapping` | 4,382,142 | every small history of borders, every choice of change files, columns and policies |
| `unreadable_meta` | violated | see [Disagreements found](#disagreements-found) |
| `lock_queue` | violated | see [Disagreements found](#disagreements-found) |
| `partial_redirect` | violated | see [Disagreements found](#disagreements-found) |
| `frame_without_rows` | violated | see [Disagreements found](#disagreements-found) |

*Caches.* A race needs two callers, one URL and two bodies: the caller's question, a
change, and the other's store. There the files are only written by the cache, and a failed
write leaves the same disk as a crash, so crashes are left to the second run, with one
caller, two URLs that may hold the same body (a blob is shared), one change from outside and
two attempts. The parameter cache does both in one run: while both readers call, nothing is damaged
and one key is touched; otherwise one file is damaged and both keys are used (`Bound`). What holds for more of everything is what the proofs are for: each of the
safety properties of both caches is also a theorem, the two repairs of a sole caller. `PromiseKept` says that the caches answer as the publisher
asked directly would, and that a pin is honoured; `EntriesAreWhole`, `ReturnedPathHoldsBody`, `ParsedIsReported` and
`FailedCallWroteNothing` are about what stays on disk;
`StoredEntryServesOffline` and `HitWins` say that what was stored is used;
`OnlyServedBodies`, `OnlySentTables`, `No304WithoutBody` and the two repairs are about
damaged files.

*GENESIS client.* Two threads of one process with different lock directories exercise the
process lock alone, the third, of another process, shares a directory with the first, so that the file
lock matters. Three attempts are enough for a first, a middle and a last one.

*Calls.* Both hosts the code knows, every combination of explicit credentials, environment variables and guest
permission, and an environment that changes between any two steps: the state space is finite
without a bound, and any sequence of calls is in it. `Diagnosed` compares what the caller is told with what the host
meant, over every reply and operation.

*Discovery.* Four datasets, one of which cannot be parsed; pages of zero (refused), one and three; no
limit, zero, and two that fall inside and at the end of pages; a server that lists two at a
time; counts too low and too high; a change anywhere. Pages, cap and limit then fall apart
and together in every way. What follows starts where one of these searches has found a dataset, so that
the state spaces of the parts add up instead of multiplying; the parts share constants and no variable.

*Reads.* One read, and around its steps one edit of the record and one revision of a file (where both happen, of few files). Seven records: no resource, the CSV
first or second, two licences, none, or one the reader does not declare. Sixteen small files for the two CSV parsers (labels repeated, missing,
merged, looking like a suffix; rows short, long, blank; four encodings, and one nothing decodes), seventeen replies of measures, twenty-five archives
of tables (every layout the guard tells apart, every kind of time and of sign). Calendars have four days a year.

*Recipes.* One writer with any draft (every option of every kind in either group, every way to name inputs, links alone, twice, hoisted or
backwards, each text of the compliance block), a second with a text shorter, as long, or longer, who meets the first in some of these
cases; three environments, three sets of classes. The two writers are
what it takes for one text to stand behind another.

*Selections.* Two calls, so that the second may hit what the first stored; every list shape on every host, every pair of years, and misspelling.

*Rebase.* Three pieces of territory are enough to merge two Kreise, to split one, to move a part
of one, and to have Kreise that disappear and come back under the same key; three years are enough for
a change before, in, and after the years of the key sheet. Of the histories that differ in more than names, the 534
that do not begin with one Kreis holding everything are taken. Tables hold the second year, or the first and the third, of any set of Kreise, with a withheld
cell; sheets are true, defective in one Kreis in one of five ways, or missing. Frames are asked for on 60 of the histories, in
which every year's borders are new, with a key file that is cached, fetched or missing: one output with every policy,
two outputs or an output and its part with spans and policies of their own.

*NUTS.* Three Gemeinden, Kreise and years, for the same reasons; two regions, so that a Kreis may span them. Three
columns, one per question: a key alone, under every refusal; several keys, one twice; nulls and the levels that are not Kreise. A
call ends a behaviour, which is why deadlock is not checked in this and in other runs of calls that answer once.

## Fairness

Two runs check liveness, `genesis_client` and `discovery_to_recipe`. `GenesisClient!FairSpec` is weak fairness of time and of each thread's
own steps: a thread that can go on does. Nothing is assumed of how a contended lock is passed on,
since neither `threading.Lock` nor `filelock` queues; requests are finite, so a loser gets its turn.
The run shows that every request ends unless an attempt hangs for good, and that waiting for the
file lock ends even then. `MCDiscovery!MCSpec` has the weak fairness of the generator that
`CatalogueSearch!FairSpec` states: a request is answered or fails, because the client has timeouts and bounded retries, and
the consumer goes on asking, as a `for` loop does. Changes of the catalogue are not fair, only bounded.

## Proofs

TLAPS proves, for every value of the constants that satisfies the modules' named assumptions:

* `DownloadCacheProofs`: type correctness, `FreshWhenRevalidated`, `OnlyServedBodies`,
  `PinHonoured`, `No304WithoutBody`, `EntriesAreWhole`, `ReturnedPathHoldsBody`,
  `FailedCallWroteNothing`, `StoredEntryServesOffline`, `OnlineCallRepairs` of a sole caller, and
  `Implements`: the cache implements `Fetching`.
* `ParameterCacheProofs`: type correctness, `RefreshIsCurrent`, `OnlySentTables`,
  `FailedFetchKeepsEntry`, `EntriesAreWhole`, `ParsedIsReported`, `HitWins`, `CallRepairsEntry` of
  a sole caller, and `Implements`.
* `GenesisClientProofs`: type correctness, `OneAtATime`, `NoLockLeaks`, `PoliteTraffic`; and towards liveness that
  the locks never deadlock (`NobodyIsStuck`), that a request has a bounded number of steps left, which only goes down
  (`RequestsGoForward`), and that a waiter's time is counted and bounded (`WaitersAreTimed`).
* `GenesisCallProofs`: type correctness, `OwnCredentials`, `HalfPairIsNoSource`, `Diagnosed`.
* `DiscoveryProofs`: of a search, type correctness, `WithinLimit`, `NothingSkipped`, `NothingTwice`,
  `PagesJoin`, and towards liveness `SearchIsBounded`; of a read, `LicenceOfTheResourceRead`, `MeasuresUnderTheirNames`, `CellsKeepTheirPlace`,
  `SignsStayWithTheirValues`.
* `RebaseProofs`: `TrueOnTargetBorders`, `NothingLost`, `TotalConserved`, `NoPartialSum`, and the other
  direction, `FlawlessComesThrough`; of a frame, `OutputsShareTheirRows`, `NullsExplainedOnTheirRow`.
* `NutsMappingProofs`: type correctness, `RegionIsTrue`, `FilesAgree`, `RowsAnswered`, and that what is settled is
  found (`SettledIsFound`).
* `RecipesProofs`: type correctness of `Recipes`, `LoadedWasWritten`, `NothingLostInWriting`,
  `NoCredentialAtRest`, `FrameIsTheOnlyOne`; of `Selections`, that a reader is given the reply to
  its own request (`OwnRequestAnswered`), and `KeysTellSelectionsApart`.

So every safety property that a passing run checks is also a theorem. None of the proofs uses a bound of the runs: any number of callers, URLs, bodies, tampers,
crashes, threads, datasets, attempts, Kreise, years, writers, texts, lists and frames of any length.

*Assumptions.* Each is about what the constants stand for, and TLC evaluates it on every run.

* Absence: `None`, `Null` and `Absent` are none of the values they stand beside, and a word in
  blanks is not the word (`NoneIsNothing`, `NullIsNothing`, `NullIsNoKreis`, `BlanksAreApart`). In the
  code they are `None`, and texts of different length.
* Hashing: SHA-256 is injective over the contents considered (`CollisionFree`).
* Finiteness and order: there are finitely many datasets, pieces of territory, Kreise and years, a Kreis
  is a key of a fixed order in which rows are sorted (`NamesInOrder`), bounds are natural numbers, a span goes
  forward in years. The scale of the shares is a natural number that they all divide (`SharesDivide`):
  the code computes with floats, and rounding is out of the model.
* Shapes: records, replies, results, tables and drafts are what the code gets from `json.loads` or from its own
  types, a list where it iterates and a dict where it looks up (`RecordsAreLists`, `RepliesAreLists`, `ResultsAreFrames`,
  `TablesAreTables`, `DraftsAreDrafts`, `FieldsAreFields`); what may be served has contents (`BodiesAreKnown`).
* Files: a file is a list of rows of cells, decodable in the encoding it was written in, and UTF-8 does not happen to
  decode a cp1252 file with an umlaut or a Euro sign (`FilesAreFiles`); the numbers that pandas and `_flatten_header` add to
  a name that repeats differ (`MarksAreApart`) and are no words of the ffcsv layout, as a label `.1` or `0` is not `value` (`NumbersAreNoNames`); a schema has known types (`SchemaIsTyped`), and the geometry options are
  integers, as `int()` makes them (`GeometriesAreInts`).
* Hosts: no two hosts have one address (`HostsAreApart`).

*The argument for the caches.* None of the properties is inductive. The invariant says, for each place where a body or
a validator can be (the publisher, a metadata file, a caller's snapshot of it, a request in flight, the
metadata about to be written, a returned digest), that validators go with the digest they were sent with, that this digest is of a body the URL
has served, and, for a revalidating call, of a body that was current since the call began. A `304`
is sound because the validators sent are the ones that came with the very digest the caller holds
verified: this is the part of the invariant on the snapshot. Files that nobody damaged stay whole
because the blob is renamed into place before the metadata that names it and is never removed. That part is conditional on no
tampering, the rest is not. The repairs need one more invariant (`RepairOK`): once a sole caller has gone past its look at an
entry without a word from outside, the blob it has verified or stored is still there whole, step by step up to its return.

*The client.* Who holds which lock is determined by where each thread is (`LocksOK`), and `sent` by where
it is in its attempts (`CountOK`); mutual exclusion is then immediate. Both kinds of lock are taken in one order, process before file, so the
chain from any waiter ends, after at most two holders, at a thread that sends, leaves or sleeps, or at an attempt that hangs, and then time
passes until the waiter gives up: nobody waits in a circle. `StepsLeft` is the measure by which a request ends: five for each attempt not yet begun and
those ahead in this one. The conditions under which a thread or time can go on are written out (`CanAdvance`,
`TimeCanPass`), because the prover does not know ENABLED; over all states of MCGenesisClient TLC found them equal to ENABLED of `Advance` and of `Tick`.

*The calls.* A client keeps credentials only of its own host, explicit ones only if it was given some
(`ResolvedOK`), and sends to its own host only (`OriginOK`), with what it has kept by then (`OwnCredentials` itself); that half a pair is no source is then a property of
`FromEnv` at the step that resolves. `Diagnosed` is a case for every meaning and every layout of a reply that says so: the tests of
`Inspect` are gone through in their order, each of them decided by the phrases in the reply (`ToldOK`).

*The search.* `PlaceOK` relates the generator's counters to what was handed out. `CoverOK` is the heart of
`NothingSkipped`: each dataset that stayed put is handed out, pending in the page, or at a position
of the catalogue at or after the next `start`; insertions only push datasets back. `OnceOK` is its mirror image for
removals, `JoinOK` says that over a catalogue at rest the handed-out sequence is the catalogue's prefix. That a
search comes to its end needs something else: the server's count may be wrong for ever, so what bounds the pages is that a catalogue lists no dataset twice
(`RoomOK`). A page therefore never reaches beyond the number of datasets there can be, every page received moves `start` forward, and
`NextsLeft` goes down with each step of the generator, while no change of the catalogue moves it.

*The read.* A distribution that was taken is of a record CKAN has answered with, its licence is not refused by the
reader, and the bytes in hand were served at its URL (`RInv`); a table is what its bytes are parsed to
(`ParsedOK`). `MeasuresUnderTheirNames` then compares two flattenings, of the rows and of the hours: they go
together station by station, so they do row by row (`FlatteningPairs`). `CellsKeepTheirPlace` needs one more invariant, that a table was
parsed with a geometry the reader had accepted (`GeometryOK`). The rest is about the parsers: there are more marks than names
taken, so that a new name is always found and no two are one (`AMarkIsLeft`, `NamesAreUnique`); so `CellsByName` finds one
cell of each row under a name, the one of its column (`CellsUnderAName`); dropping blank rows from padded rows and padding what is left
of the rows is the same (`KeptPairs`); and the words of a label that was carried over merged cells are in every name it stands over
(`WordsAreOfALabel`, `JoinedHasAll`). For `SignsStayWithTheirValues` the layout check is turned into what the parser relies on: every name
in the header is a word of the layout, alone or after a number (`NamesThatFit`). A name that pandas made up or marked ends in a number, so it is none of
these, and the names of the frame are the labels of the file (`CalledAsLabelled`). The three paths by which a row's values, its year and its sign are
read then meet at the cell that stands under the same label (`CellOfASheet`), and a date that is accepted is the last day of the year it is turned
into (`LastDayOfAYear`).

*The rebase.* The state invariant is small: the borders are a history, and the answer is `Rows` and `Issues` of its
call (`IInv`, `FInv` for frames). The work is in what the operators return. A value is computed only where no feeder is missing
and none is null, over all rows that move anything into the target; the pieces of territory of a target are the disjoint
union of what each feeder gives it, so the sum of the feeders' shares is the target's value, and summing over all targets or over all sources is summing
over all pieces. A frame stacks one result per output, and `Aligned` ones have the same keys in the same order.
These properties would hold of a re-basing that refused everything; `FlawlessComesThrough` says it does not. A call with nothing wrong (`Flawless`: the true
key sheet of its span, borders that change nowhere outside it and the sheets that show so, a value for every Kreis of its years) goes through all of `Refusal`, gets no
issue, and has one row with a true value for each Kreis of the target borders. MCRebase reaches such calls with and without a reform between
the two borders.

*Sums, folds and flattening.* The library defines them as recursive functions, which for the prover are choices. Each
is shown to exist and to be computed step by step, by induction on its length or on the size of its set. That induction is over a set of numbers, not over
a predicate (`FromZeroOn`, from a least element, `LeastElement`): the library's induction theorems cannot be instantiated here, and the
well-foundedness of the naturals can.

*The mapping.* An answer holds what its keys resolve to, and only over a crosswalk in which no Kreis spans two regions
(`AnswerOK`); then a key resolves to one region at most (`OneRegion`), and more files only add candidates (`MoreFiles`). `RegionIsTrue` needs
induction over the years: who is in a Kreis that gives nothing away is in it to the end (`StaysPut`).
`SettledIsFound` is its converse: a Kreis that gave all of its territory to one that still stands has one candidate, found with the file of its last
year, and neither a later nor an earlier file adds another.

*The recipes.* A file shows one writer's text up to some point, and that writer has ended; well, if the point is the end
of its text (`UptoOK`). So whatever order writers open and write in, a file that parses is a whole text of one that is done. Whoever
is past the scan has a draft that `Build` did not refuse in that environment (`Passed`), which is what `NoCredentialAtRest` and
`NothingLostInWriting` follow from, text by text and option by option. An index is one of a result (`IndexedIt`).

*The selections.* An entry stands under the key of its request (`UnderOwnKey`), the key holds all of the request but the host, and the
address of the host tells the host. What is sent is what the caller meant because cleaning a list drops just what is blank (`AsTupleNames`), and
two requests for the same thing agree field by field once sorted (`FieldByField`, `SortedNames`).

*Only model-checked.* Liveness (`RequestsEnd`, `FileWaitersMoveOn`, `SearchEnds`): the step from fairness to "eventually" is out of
this prover's reach. What that step rests on is proved: a natural number that every own step lowers and no other step
raises, and somebody who can take a step.

*Only proved.* `FlawlessComesThrough` and `SettledIsFound` stand with the other properties of `Rebase` and
`NutsMapping`; TLC found them true of every state of MCRebase and MCNutsMapping, with states on both sides of their premises, and no run repeats it. The
measures and `SomebodyCanGoOn` are defined with their proofs, and were found true in the same way on MCGenesisClient and MCDiscovery.

## Disagreements found

* `unreadable_meta`: `_read_meta` (`govdata/core/cache.py:82`) catches `JSONDecodeError` and
  `OSError`, with the comment "unreadable metadata: treat as a cache miss and re-download". Metadata
  that is not UTF-8 raises `UnicodeDecodeError` from `read_text`, which is neither: the call fails in
  every mode until someone deletes the file. The parameter cache catches `ValueError` for this
  reason.
* `lock_queue`: the comment at `destatis/core/api.py:48` says that anything longer than connect plus
  read timeout is a stuck holder, and the error blames one process that has held the lock. The timeout runs from
  the start of the wait, and the lock does not queue: a waiter can time out behind other processes' healthy attempts. The
  run uses a timeout of five attempts; the code's is a little over four (300 s against 70 s).
* `partial_redirect`: `_kreis_redirect_candidates` (`harmonization/core/nuts.py:74`) takes every Kreis row whose origin
  is the key. A Kreis that gave a part away in the one pinned year, and was retired in a year whose file is not read, is mapped to the
  region of the part's taker. `harmonization/nuts.py:47` and `core/crosswalk.py:41` say that the files redirect a retired
  Kreis to its successor. With the files of all years the two successors make the key ambiguous, and it is not mapped (`RegionIsTrue`).

* `frame_without_rows`: `_columns` (`harmonization/rebase.py:201`) puts the issues that touch no row into the provenance
  of every row. A table that holds only the dashes of a Kreis outside its validity has issues and no row, so under the default policies
  its frame is empty and says nothing. `harmonization/tests/test_rebase_feature.py:212` says that such issues are kept, never dropped. With one
  row in the frame they are.

## What is not modelled

Of the modelled parts: failures to remove a temporary file, `fsync`, creation of directories (the
cache's and the lock's), the polling of `filelock`, weak validators, the length of waits, checks of argument types, warnings and other logging. A slow
fetch may replace a newer entry with an older one: nothing in the code promises otherwise, and
neither does `Fetching`. A dataset that does not parse ends a search; one that is edited may be missed; a removal may
hide others: no promise either. Of the rebase: duplicate observations, a share the sheet
does not carry, non-finite numbers, census notes, rounding. A sheet that is missing is reported
under the year of that sheet. Of the mapping: the check of the NUTS version (there is one), the combination of results, renamed Kreise, Gemeinden that
merge within a Kreis, and a warning.

Of the readers and parsers: XLSX and JSON syntax, CSV quoting, numbers in English notation, labels that differ only in blanks. pandas takes the
leading columns of a first row that is wider than its header for an index, which shifts the names, even if that row is blank and dropped later;
the model has the shift, and `CellsKeepTheirPlace` and `SignsStayWithTheirValues` are claimed for files without a row wider than the header.
`guard_ffcsv_layout` sees the names only, so it would not notice. A same-width reordering of measures is by the code's own comment not detected, and
`MeasuresUnderTheirNames` claims nothing of it. Locators whose URL does not begin with a lower-case `http`, or whose dataset id does, are left out:
a recipe would write them as their label and read them back as the other. Of recipes: features that are bare names, discriminators
of links, and how a text is recognised as a token. Of the feature groups: parsing of names and forwarding of options, which mloda does.

`harmonization/period.py` maps a column cell by cell with the period model of `DestatisTable`; Land codes and population per voter are
look-ups in constant tables. Neither has a state or an order of steps. Wording of messages is left to the package's tests, as are scripts, tutorials and
demos, which use the package and add nothing to it.

## Plan

1. Done: caches, client, search, rebase, envelope and calls, mapping, `Selections`, `DistributionReader` with the parsers, `Recipes`,
   `RebaseFeature`, and the theorems about all of them.
2. Done: a theorem for every safety property that a run checks. So is the other direction for the
   two algorithms, that what is right comes through, and what the liveness properties rest on. Left to prove: that a read through a cache
   implements one without. A cached body was current at some moment between call and return, and which moment is known only at the
   end, so the mapping needs a prophecy variable.
3. `FailedFetchKeepsEntry`, `NothingTwice` and `NoPartialSum` are theorems that no run checks any more; the runs' time went to the composition.
4. Waits and `Retry-After` of the client, the combination of mapping results.

`RefreshIsCurrent`, `FreshWhenRevalidated` and `PinHonoured` follow from `PromiseKept`, and `WithinLimit` and `PoliteTraffic` are simple
consequences of the invariants: they are theorems, and no run spends time on them.

## How to run it

    tlc -workers 2 -config MCRebase.cfg MCRebase        # any module and configuration of PROJECT.json
    tlapm RebaseProofs.tla                              # any *Proofs module

`PROJECT.json` lists every run with its properties, for each property a fault in the code's model that
makes TLC find it violated (the definitions marked "Fault" in the modules), the source lines each
definition stands for, the hazards, and the theorems.
