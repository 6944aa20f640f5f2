# AdMatch in TLA+

A verification project for AdMatch, a search-ads matching server in Rust: TLA+
modules translated from `src/crates/`, TLC runs on small instances, and TLAPS
proofs for every value of the constants. Paths below are relative to
`src/crates/admatch-core/src` (core) and `src/crates/admatch-server/src`
(server).

## The system

A request `POST /v1/match` carries a query. The handler loads the current
snapshot and the UTC date, and runs one auction on them: the keyword index
finds the best keyword of every matching campaign, the eligibility checks
exclude some, the rest is ranked by bid × relevance, and the ranking is walked
from the top, asking each candidate to pay its second price out of its daily
budget, until one can. A background task rereads the campaign file on every
tick, publishes a new snapshot, and drops budget counters of old days. The file
comes from a second program, the seed binary, which draws campaigns at random,
keeps the valid ones, and writes them in place.

| component | source | state | operations | hard about it | correct when |
|---|---|---|---|---|---|
| daily budgets | core `budget.rs` | a sharded map from (campaign, day) to an atomic counter | `try_spend`, `spent`, `drop_days_before` | called by every request at once, swept meanwhile; relaxed atomics, shard locks, first charge of a day | no overspend, no lost charge, truthful refusals, no call stuck |
| ranking, pricing, selection | core `auction.rs` | none | `rank_order`, `gsp_price`, `select_winner` | rounding, ties, the cap, a closure that charges as a side effect | prices within bounds and minimal, order unique, only the winner pays |
| keyword index | core `index.rs` | vocabulary, keywords, exact and broad tables, negatives | `build`, `prepare`, `best_matches`, `negative_matches` | unknown words, empty texts, hash-map order, a full vocabulary | agrees with the matching rules read off the texts |
| engine | core `engine.rs` | campaigns, index, configuration, immutable | `Snapshot::build`, `run`, `debug_ranking` | indices into three differently ordered lists, privacy checks, a truncated report | only eligible campaigns charged, report consistent with the outcome |
| data model, normalisation, privacy | core `model.rs`, `normalize.rs`, `privacy.rs` | none | parsing, `tokenize`, `check_targeting`, `audience_size` | boundaries | strict threshold, no double counting |
| application state, refresh | server `state.rs` | snapshot pointer, budget store | `publish`, `keep_index_fresh`, `prune_budget_days` | failed loads, midnight, reloads under load | stays ready, forgets no day still charged, forgets the others |
| handlers, metrics | server `routes.rs`, `metrics.rs`, `error.rs` | counters and gauges | `match_ad`, `healthz`, `record_*` | early answers, the timeout, two-step publication | metrics match answers and index |
| process | server `main.rs` | – | start, signal, drain | requests in flight at shutdown | every accepted request answered |
| configuration | server `config.rs` | – | `from_lookup` | seven variables, each unset, blank, wrong or out of range | accepted means as asked and in range; errors name the culprit |
| seed file | server `seed_file.rs`, `bin/seed.rs` | two files | write, read | written in place while it is read; partial writes | a reported success is whole; a settled file is served |
| validation | server `validate.rs`, core `privacy.rs` | none | `validate_campaign`, `audience_size` | lists with repeats, missing cells, saturation | small audiences refused, accepted campaigns can serve |
| seed generator | server `seedgen.rs` | lists of campaigns, counters | `generate`, `random_requests` | id allocation around rejections, words that must not meet | ids contiguous, stored sizes true, requests mean their kind |

Within the server components share state in two places only: the snapshot pointer (written by the
refresh task, read once per request) and the budget store (outside the
snapshot, so a reload does not reset it). The two programs share the seed file.
`PROJECT.json` lists the hazards, each
at its line.

## The modules

```
BudgetCalls ── AtomicBudgets             what the budgets promise
     └──────── MemoryBudgets             how they do it  ── MemoryBudgetsProofs
GspAuction ─── SelectWinner              ranking, prices, the walk ── SelectWinnerProofs
     └──────── Engine ── EngineSelection one auction; implements SelectWinner ── EngineProofs
CampaignTexts ─ KeywordIndex             matching, by definition and by index ── KeywordIndexProofs
     └──────── CampaignValidation ── SeedGenerator   validation, privacy, generator ── SeedGeneratorProofs
Settings ───── SeedReload                settings, seed file, loader ── SeedReloadProofs
AdServer                                 requests, refresh task, metrics, process ── AdServerProofs
DataLemmas                               sums, lists, folds: facts the last proofs cite
```

**MemoryBudgets** models `try_spend` with one action for every point where
another thread can interfere: `Reject` (amount ≤ 0), `GetHit`/`GetMiss` (the
lookup under the shard's read lock), `Entry` (create or find, under the write
lock), `Load` and `CasOk`/`CasFail` (`fetch_update`'s loop), `Return` (the guard
is dropped). The counters are the variable `spent`; `written` keeps each
counter's modification order, because a relaxed load, and the load of a failed
weak exchange, may return any value in it that the thread has not seen
superseded. A thread that holds the write lock reads the latest value, which
the lock's synchronisation guarantees. Shard locks are not variables: they
follow from the guards the threads hold. `drop_days_before` is `SweepStart` and
one `SweepShard` per shard, since `retain` locks shards one at a time.
`horizon`, `charged` and `ceiling` are history read by properties only.

**AtomicBudgets** states the promise: between invocation and return a call
decides in one step against what is spent at that moment; forgotten counters are
those of days before the horizon. `ImplementsAtomic` maps `MemoryBudgets` to it.

**GspAuction** holds the pure rules (score, `rank_order`, `gsp_price`), and
**SelectWinner** the walk, in which `try_pay` may answer anything: the budget is
shared with concurrent auctions, so nothing can be assumed of it there.

**KeywordIndex** builds the index item by item, then answers queries; a text is
the sequence of words `tokenize` returns, possibly empty or with repeats. Broad
hits are offered in any order (`HashMap` iteration). **CampaignTexts** holds the
rules without an index, as in the brute-force matcher of the tests, and what
`Snapshot::build` asks of ids; the generator is judged by the same rules.
`CheckIds` is that check as the code makes it.

**Engine** is `Snapshot::run`: `Filter` takes one match through the
eligibility checks, `Rank` sorts, `TryPay` asks one candidate, `Answer` builds
the debug ranking. `paid` and `refused` keep who was charged what and who could
not pay; only properties read them, so `RankingExplainsTheOutcome` compares
the rows and their prices with what happened in the walk, and their order with
`rank_order` itself. A match carries what the checks read of its campaign; whether
a negative keyword hits is a field, since `KeywordIndex` models it.
**EngineSelection** states that this implements `SelectWinner`.

**CampaignValidation** is `validate_campaign`, pure: every rule in the code's
order, `audience_size` over the distinct cells with its saturation at `I64Max`,
the threshold, and the limits of `normalize` on a text. **SeedGenerator** is
`generate` around it: the audience table cell by cell, campaigns drawn keyword
by keyword and kept (`Accept`) or counted (`Reject`), then request lines. Every
random draw is a choice, so the checks hold for all seeds of the random
generator at once.

**Settings** is `Config::from_lookup`, pure: an environment is a function from
variables to values, `Checks` the ten checks in the code's order, and `ErrorOf`
the first that fails.
**SeedReload** composes it with the seed binary, which creates a file, writes
it buffer by buffer and flushes it (or stops anywhere), and with the loader,
which opens and reads it buffer by buffer at the same time. `SeedReload` is
what `EditSource` and `LoadOk`/`LoadFails` of `AdServer` abstract: there a load
reads at one moment, and a torn load that fails, or that parses as a mixture, is a
moment at which the file was unreadable or held another table.

**AdServer** is the process. Each request has a program counter over the steps
of `match_ad` (body, snapshot, date, the walk one candidate at a time, the two counters
of `record_auction`, the reply) and of `track_metrics` around it.
`try_spend` is one step here, which is what `MemoryBudgets` is proved to
implement. A table stands for a built snapshot: its ranking per query with
prices, its budgets, its size. A request to `GET /metrics` may read the counters between any two of these steps, so
`MetricsMatchAnswers` says for every one of them what they hold: `RecordOutcome` counts
the auction, `RecordSkipped` the candidates passed over, and only after `Reply` does
`CountRequest` count the response in `http`. A client may
go away (`Disconnect`), which drops a handler still reading its body before
anything counts it. The refresh task is `Tick`, `LoadOk`/`LoadFails`,
`RecordIndexSize`, `Publish`, `PruneBound`, `Prune`. Around them: midnight,
edits of the file, crashes, and the graceful shutdown.

Definitions introduced by a comment `Mutant:` are plausible bugs. No
specification uses them; each shows, put in the place of the definition after
it, that a property can fail.

## The runs

| run | instance | shows |
|---|---|---|
| `budgets` | 2 threads, 1 campaign, 2 days in 2 shards, amounts -1, 0 and 2, budgets 2 and 4, `I64Max` 4, fair | `NoOverspend`, `NothingLost`, `RefusalsAreTruthful`, `IInv` (the invariant of the proofs), `ImplementsAtomic`, `CallsReturn`; `GrantsFitTheirBudget` with callers that disagree on the budget and totals that overflow |
| `budget_guards` | 3 threads on one counter, amounts 1 and 2, budgets 2 and 3 | violated: `LockHeldOnlyToFind`, see below |
| `auction` | lists of up to 3 of the bidders in `MCSelectWinner`, reserve 2, increment 1 | price bounds, ranking kept by prices, second prices, who is charged, ties broken one way only |
| `keyword_index` | 2 campaigns, 3 keywords, 1 negative, 3 words, token ids 0..2 | the index equals the rules; ids stay faithful |
| `engine` | 3 matches, two of them in 7 variations and several bids, 12 requests, 2 debug rows | eligibility, privacy, best payer, the rows, order and prices of the report, `ImplementsSelectWinner` |
| `engine_limit` | 11 equal candidates, 10 debug rows | violated: `WinnerIsVisible`, see below |
| `server_safety` | 2 requests, 2 queries that rank the campaigns in opposite orders (one asks a price above the daily budget), 2 tables, 3 days, 1 crash | counters equal the ads shown, skipped candidates stay unaffordable, metrics match answers, gauges match the index, once ready always ready, the daily budget holds across reloads and midnights |
| `server_liveness` | 1 request, 2 tables, 3 days, 1 shutdown, fair | a settled file is served; old counters go; an accepted request is answered, a shutdown included |
| `server_days` | 3 requests, 3 days | violated: `TwoDaysPerCampaign`, see below |
| `seed_generator` | 2 campaigns of 1 or 2 keywords, 3 words, 2 phrases, 2 countries by 2 buckets, thresholds 0 and 3, 1 request; validation on 110 proposals | ids contiguous, stored audiences true, own keywords open, requests mean their kind; small audiences refused, accepted campaigns can serve |
| `seed_requests` | the same | violated: `NegativeRequestsAreBlocked`, see below |
| `file_reload` | 2 runs of the seed binary among 3 generations with files of 1 to 3 parts; every environment with at most two variables set | a reported success is whole, loads nobody disturbed are faithful, a settled file is served; settings as above |

**Bounds.** Two threads suffice for a lost update and for a sweep between two
steps of a charge; what a third adds, a value stale twice over, is left to the
proofs, which hold for any number. With amounts of 2, budgets of 2 and 4 and
`I64Max` 4, a second grant fits the larger budget only, so it matters whose
budget a charge is judged by, and a third goes beyond `I64Max`, where an addition that wraps
would fit any budget. Negative amounts are refused like zero. Two shards let a sweep be half
done. Prices of pairs depend on two neighbours, so lists of three have every
kind of position. In `AdServer` two requests are enough for one to hold a date
or a table while the other spends, with a reload, a midnight or a prune between
any two of their steps; three days let a prune drop a day. The generator
needs two campaigns and a rejection between them to get ids wrong. Its cells
hold 9, 3, 3 and 1 people: one cell equals the threshold 3, and all four
together exceed `I64Max` = 14, so the sum saturates. A second run of the seed
binary finds what the first left, and files of one, two and three parts have
a load start, go on and end before, within and after a write. Settings
are checked one after the other, so two variables at a time show each pair's order.
All bounded counters (`LastDay`, `MaxCrashes`, `MaxStops`, `MaxCandidates`,
`MaxTokenId`, `MaxRuns`, `CampaignDraws`, `RequestDraws`, `MaxNegatives`,
`MaxTargets`) are constants. Symmetry is used for threads and requests in
safety runs only. The index run, the generator's and `file_reload` have no
deadlock check: a rejected snapshot, the last request line and a server that
refuses to start are ends.

**Fairness.** `MemoryBudgets` assumes that a thread's next step is eventually
run if it stays possible (OS threads, fair shard locks), that a weak exchange
does not fail spuriously for ever, and that a store becomes visible to a thread
that keeps reading, as the C++/Rust memory model asks of implementations.
`CallsReturn` is conditional on new calls ceasing: the exchange loop is
lock-free, not wait-free, and readers may starve a writer, so nothing more is
claimed. `AdServer` assumes that tokio keeps polling the handlers and the refresh
task and that its interval keeps ticking; nothing is assumed of the clock, of the file, of
clients or of signals. `SeedReload` assumes the same of the loader, and nothing
of the seed binary: it may stop for ever in the middle of a file.

**Environment assumptions.** The UTC date does not go back, and no request holds
a date across two midnights (`prune_budget_days`: "One day of slack is far
longer than any request"). The timeout can only drop a handler where it awaits,
while the body is read; `match_ad` has no later await. A panic of the load task
is a load of an unreadable source. One seed binary runs at a time, and nobody
else writes the files; a mixture of two generations may or may not parse, and one
that does is served until a later load. Request bodies are the only thing a
client can stop sending.

## Where code and comments disagree

* `budget.rs:54-56` says the map's lock is held only to find or create the counter
  and the spend is lock-free. `try_spend` keeps the guard through the whole
  exchange loop (`budget_guards`). `NothingLost` depends on that guard: it keeps
  a sweep from removing a counter that a thread is about to exchange.
* `state.rs:148-149` says the map holds at most two days per campaign. Pruning
  happens once per tick, so between a midnight and the next tick there may be
  three (`server_days`); that they go eventually is `OldCountersGo`.
* `engine.rs:262-263` says the winner is always visible in the debug ranking. With
  ten unaffordable candidates above it, it is cut (`engine_limit`).
* `seedgen.rs:351-352` says a tenth of the requests hit a negative keyword. The query
  holds the words of one of the campaign's keywords too, so an exact negative
  keyword is not hit (`seed_requests`).

## The proofs

Every safety invariant and every action property that a passing run checks is also
a theorem. The assumptions are those named in the modules, and each says what the
Rust types or another component ensure:

| assumption | says | because |
|---|---|---|
| `BudgetAssumption`, `ShardAssumption` | amounts and budgets are integers no larger than `I64Max`, days are integers, a key has one shard | `i64`, `NaiveDate`, the map's hash |
| `PricingAssumption` | the reserve is at least 1, the increment at least 0 | `Config` checks both (`AcceptedIsSane`) |
| `BidderAssumption`, `EngineAssumption`, `LongestAssumption` | bids at least the reserve, relevance at least 1, one match per campaign | `eligibility`, `broad_relevance`, `BestIsFound` |
| `SettingsAssumption`, `ReloadAssumption` | defaults are in range, kinds of texts are distinct, an environment gives each variable a text or none, a file has a part at least | `EngineConfig::default`, `env::var` |
| `ServerAssumption` | requests are finitely many, ranked campaigns ask at least 1, budgets and sizes are integers | a run of the process serves finitely many so far; the reserve; the types |
| `KeywordIndexAssumption`, `ValidationAssumption`, `ProposalAssumption` | lists are lists, texts are sequences of words, ids, limits and bids are integers; queries are not empty | the types; `normalize` refuses an empty query |
| `GeneratorAssumption`, `PopulationAssumption` | phrases are made of the vocabulary, nonsense words are not; no audience that may be drawn reaches `I64Max` | the word lists of `seedgen.rs`; `POPULATION` is 2,000,000 (`seedgen.rs:94`) |

Everything else is arbitrary: how many threads, campaigns, days, requests, keywords,
words, cells and draws there are, and their values.

**Induction.** The library's induction theorems take an operator as a parameter, which
the provers cannot instantiate. `DataLemmas` proves first-order forms of them,
over a *set* instead of a predicate, from least elements: a set of naturals has a
least one (`LeastNatural`), so one that holds 0 and successors holds all (`SetInduction`),
and likewise for the subsets of a finite set (`SubsetInduction`).
From these it derives what the folds of the models
yield: `SumFacts` (a sum is unchanged by what comes in another order,
and changes by one element as it should), proved by counting units, and what
flattening and folding over lists give, proved along the chain of partial results.

`MemoryBudgetsProofs` proves `IInv` inductive, one lemma per action, and from it
`TypeCorrect`, `ZeroOverspend`, `EveryChargeIsKept`, `TruthfulRefusals`,
`GrantsFit` and `Refinement`. The chain of the argument:

1. `GuardsExclude` and `HoldersHaveCounters`: a write guard is alone on its shard, and
   whoever holds a guard has its counter in the map. Hence no sweep and no
   second creation can disturb a charge between load and exchange.
2. `LatestIsLargest`: counters only grow, so every stale value is too small.
   Hence a refusal judged on a stale value is still right (`RefusalsAreTruthful`).
3. `SeenFits`: the value about to be exchanged was judged to fit. The exchange
   succeeds only if it is the latest, so the latest fits too.
4. `CeilingCoversCalls` and `NothingLost` (the counter equals what was granted)
   turn 3 into `NoOverspend`.
5. `SweepBehindHorizon`: a sweep drops only days before the horizon, which is
   what `NothingLost` and the abstract `Forget` need.

None of these is inductive alone: `NoOverspend` needs `NothingLost`, which needs 1.
For the refinement, `CasOk` maps to `Grant`, an observation that gives up to
`Refuse`, `Reject` to itself, `SweepStart` to `RaiseHorizon`, `SweepShard` to
`Forget`, and the rest to stuttering.

`SelectWinnerProofs` proves that `rank_order` is a strict total order, that a
price lies between reserve and bid, that at its price a candidate still ranks with or
above the next one, that no lower price would (up to the increment), and that the
walk charges the winner once and nobody else. They rest on `DivCeilFacts`:
rounding up reaches the dividend by less than one divisor. `OneRanking` says
that the order leaves nothing open. Two rankings of the same candidates are
equally long, so neither has one twice (`NoneTwice`, by
cardinality); at the least place where they differ, each one's
candidate stands further down in the other, so each would rank before the other.

`SeedReloadProofs` proves, for any generations, file lengths, environments and
number of runs, that accepted settings are sane (`AcceptedIsSane`, by cases on
the ten checks; `OnlySaneSettingsStart`), and about the files
`ReloadInv`, the conjunction of three parts:

1. `TypeOK`, which no run checks because it is proved (`ReloadTypes`).
2. `FilesInv`: a file is missing or the beginning of one generation; while the
   writer is at a file, it is a beginning of what it writes, short of the last
   part at least, and the file before it is whole. Hence a success is whole (`SuccessMeansComplete`): `Flush` adds the one part missing.
3. `ReadInv`: if nobody touched the file since it was opened, what was read is a
   beginning of what it holds. Hence at the end of the file, where the lengths
   agree, the load has all of it (`QuietLoadsAreFaithful`).

`TheNamedIsAtFault` is about the settings again: a check looks at one
variable only and every default passes (`DefaultsPass`), so a variable on its own
fails its own checks and nothing else (`OnlyItsOwnChecks`), and blanked it fails none.

`EngineProofs` proves, for any lists of matches with distinct campaigns, any
requests, reserve, threshold and report length, what one auction promises. Its
base is `SortedFacts`: `Sorted` puts an element at the position given by how many rank
before it, so two elements with different ids get different positions, and by
cardinality all positions are taken. `EngineInv` is `TypeOK` with

1. `FilterInv`: what was checked so far is split exactly into the ranked, the
   reported and the paused. Hence only eligible campaigns are charged
   (`ChargedAdsMayBeShown`), and, as no verdict reads the age bucket of a private
   request (`PrivateEligibility`), nothing of it shows (`PrivateRequestsStayPrivate`).
2. `WalkInv`: after the sort the list is in rank order, and the first `asked`
   of it are the refused; `paid` is the winner at its price and nothing else. Hence the
   best payer wins (`TheBestPayerWins`).

With `RankingInv` (the report is made from the final lists) they give
`TheRankingExplains`: the rows are the candidates in rank order, then the excluded sorted
the same way, and what would stand above a row comes earlier in its list (`OrderTells`),
hence within the cut; and `WalkStarts` and `WalkSteps` map the initial
states and steps to those of `SelectWinner` (`EngineRunsTheWalk`).

`AdServerProofs` proves, for any requests, campaigns, tables, days, crashes and
shutdowns, the inductive `ServerInv`: `TypeOK` with

1. `RequestInv` and `WalkInv`: a request in an auction holds a query, a table and a date,
   and has asked no more candidates than its ranking has.
2. `RefreshInv`: what is about to be published was built and is what the
   gauges say, and the bound of a prune lies before today. It implies
   `GaugesDescribeTheIndex`, and `ServerStaysReady` follows from it.
3. `SkippedInv`: whoever was passed over still cannot pay. A charge only raises
   a counter (`SkippedByPay`); a prune spares today and yesterday by 2, and nothing else
   lowers a counter except the end of the process, which ends its auctions
   (`CountersStand`, `AuctionsGoOn`).

On top of it `AdsInv` relates sums over the requests to the counters:

4. `WinnerInv`: a request has a winner only once it has paid, and its
   date is today's or yesterday's while it can still pay.
5. `CountersMatchAds` and `MetricsMatchAnswers` themselves. A step that asks nobody shows no ad
   and hides none (`AdsStand`), so both sides stand; `TryPay` adds one request to the set of
   those that paid, and its price to both sides; `RecordOutcome`, `RecordSkipped` and
   `CountRequest` each move one request into the set one counter counts
   (`OutcomeIsCounted`, `SkippedAreCounted`, `AnswerIsCounted`), and every other step leaves these sets
   alone (`NothingCounted`); a crash empties everything.

Then `DailyBudgetHolds` (`AdsFitDailyBudgets`) follows, because the counter that a
charge is judged against *is* the sum of the ads shown. It is not inductive by itself:
budgets differ from table to table, so a day may already be beyond the budget of
the table now in use.

`KeywordIndexProofs` proves the index right for every list of campaigns and every
query. `IndexInv` has three parts:

1. `BuildInv`: up to where `build` has come, what is indexed is exactly what the
   campaigns say. Every entry is a keyword of its campaign, and every keyword that has a word is
   entered (`KeywordsSound`, `KeywordsComplete`, and the same of negatives); the ids of an
   entry spell its words and no word has two ids (`Faithful`), which
   interning keeps because ids are never reused; the
   exact table and the posting lists point at the entries, each once.
   This gives `InterningIsFaithful`, and at the end `NegativesBlockExactly`:
   ids included in ids are words included in words.
2. `QueryInv`: what is known of a query are the ids of its words that have one.
3. `BestInv`: a campaign's best is the best among the positions offered so far.
   Counting hits in posting lists finds the entries all of whose
   ids are known, because a list has a position once per id. `Beats` is a strict order and keyword ids
   are unique (`Buildable`), so the order of the hash map does not matter. When all are
   offered the positions are those the rules match: `IndexFindsTheBest`.

`SeedGeneratorProofs` proves `GeneratorInv`, for any draws:

1. `CountsInv`: the table holds counts of people, and no audience that may be drawn saturates.
2. `DrawsInv` and the ids in `DraftInv` and `CampaignsInv`: every draw is in the list,
   rejected or in progress; a draft's keyword ids run on from the last
   accepted ones, so that throwing it away leaves no gap. `IdsAreContiguous` needs both.
3. `IsOpen`: a campaign's negatives share no word with its keywords. Sharing no
   word implies that none blocks the words of a keyword, since a negative has a word;
   `OwnKeywordsStayOpen` alone would not survive the next negative.
4. What requests and stored sizes mean holds of the accepted list, which only grows.

`ValidationKeepsPrivacy` and `AcceptedCanServe` are about `validate_campaign` on any
proposal and any table, partly filled ones included: the sum over
distinct cells is the number of people in them (`SumIsCount`), and saturation can
hide a large audience but never raise a small one.

Only model-checked: liveness (`CallsReturn`, the three of `AdServer`,
`WrittenFileIsServed`), which is out of this prover's reach, and the four violated
properties, which are false.

## Not modelled

Texts are words and never characters: Unicode lowercasing is left out, and a
text too long is one of a set (`LongTexts`). So are JSON (whether a read
parses depends on which parts were read), the parsing of countries, age buckets,
addresses and integers (which values are accepted is modelled), status codes and
error texts, latency histograms, the load-failure counter, and logging. Of the
generator, the distributions, names, statuses and bids and the user part of a
request are left out; no property depends on them. `healthz`, `metrics` and
`Snapshot::matches` only read. Both index gauges are one variable. Benches,
tests, build and deployment files have no behaviour of the program.

One hazard has no property: `engine.rs:242` checks the reserve after the best
keyword was chosen, so a cheap and very relevant keyword can keep the
campaign's dearer one out. No comment, doc or test says which is meant.

## Plan

1. What one component assumes of another, as theorems instead of the table above: that the
   index's matches satisfy `EngineAssumption` (one match per campaign, relevance at least
   one), and that an accepted configuration satisfies `PricingAssumption`.
2. That `AdServer` uses the budgets as `AtomicBudgets` promises them: its `TryPay` is a call
   and its answer in one step, so a refinement needs a stuttering step per call.
3. Proofs shortened where two lemmas say the same of keywords and of negatives.
