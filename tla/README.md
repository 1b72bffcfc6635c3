# Shuten: specifications of the run server

Shuten proofreads Japanese manuscripts with a local language model. A server
(`src/packages/server`) splits a manuscript into targets, asks LM Studio about
each target under each perspective, stores findings, asks again about each
finding ("recheck"), and lets a web client start, stop, resume and judge. LM
Studio takes one request at a time, cannot always be told to stop, and may go
on generating after the connection is lost. Most of what is hard in this code
follows from that sentence.

Paths below are relative to `src/packages/server/src/` unless they say otherwise.

## Inventory

| component | state | operations | where it is hard |
|---|---|---|---|
| orchestrator `run/orchestrator.ts`, status tables `run/state.ts`, `run/transitions.ts` | registry of live runs; rows `runs` | start, stop, resume, retry failed units, confirm recovery, delete, settle an internal error, reconcile at startup | the registry is in memory and the rows are not; every guard is a read of rows another run's loop may change |
| run loop `run/loop.ts`, `run/units.ts` | position, settled targets, rows `check_units`, `recheck_units` | claim, execute, save, settle a target, issue and reopen rechecks, finalize | several commits per unit with awaits between; a process may die at each |
| executor `run/executor.ts` | `halt` of one loop | `execute`, one retry, mapping of errors to halts | a request that fails, one that is cancelled and one that is lost need different endings |
| stop gate `run/recovery.ts` | stop requested, request in flight, grace timer | requestStop, beginRequest, endRequest | stop races the answer and the retry |
| recovery gate `run/recovery-gate.ts`, `api/recovery.ts` | set of blocked runs | block, confirm | in memory; rebuilt from rows at startup |
| request queue `run/queue.ts` | chain of promises, size | enqueue, cancel | cancelled and failed jobs must keep their place in the chain; a signal that races the turn must not cancel a call whose job runs |
| process life `index.ts` | down, starting, serving | reconcile, listen, shutdown (waits for nobody) | kill anywhere |
| saving and merging `run/save.ts`, `run/merge-store.ts`, `packages/shared/src/merge` | rows `findings`, `candidates`, `judgments`, `recheck_units` | one transaction per unit; claim, issue, reopen, finish rechecks | incremental merge must not depend on the order of retries; an answer is saved whole or not at all |
| event hub and API `run/event-hub.ts`, `api/events.ts` | subscribers per run | publish, subscribe, end | subscription against read; lost terminal event |
| HTTP API `api/*.ts` | none | guards, DTOs | retried requests |
| results page `packages/web/src/features/results` | stream, refreshes, controls, selection and details of findings, autosave of judgments | connect, refresh, control, select, filter, judge | late, lost and reordered answers; effects run after renders |
| start page `features/manuscript`, `features/settings`, `api/runs.ts`, `db/repositories/delete-run.ts` | start operation, confirmed and restored manuscript, local storage | confirm, reset, start, retry, leave, reload | a start whose answer is lost; answers to a page that was left |
| connection `connection.ts`, `features/connection` | settings row, client; generation of checks, selected model, form | update; check, save, select | a failure half way; answers of checks and saves out of order |
| pipeline `run/pipeline.ts`, `run/result.ts` | results of one pass, first reason to stop | check and recheck one after another, mark the rest unsent | a stop half way must lose nothing located and send nothing more |
| export and evaluation `api/run-export.ts`, `packages/cli/src/eval` | none | export, adapt, resolve the truth file, match, score, aggregate | stopped and retried runs; every finding counted once |
| shared text algorithms `packages/shared/src` | none | cut into targets, add context, locate and diagnose quotes, merge | graphemes, short rests, overlapping matches |
| run list, CLI commands, prompts, configuration, rendering | | | not modelled, see the end |

What makes them correct: one request at a time; none while a lost generation is
unconfirmed; a stop is obeyed; rows, loops and gates agree, across restarts;
finished runs are finished; runs come to rest; a cancelled job never runs and
every caller of the queue is told; what is stored does not depend on the way a
run went; the page is behind only where it says so; a score counts every finding
once.

## Modules

| module | models |
|---|---|
| `RunControl` | orchestrator, loop, executor, both gates, queue order, rows, restarts: the whole server side of a run |
| `RunLifecycle` | abstract: statuses, one request, suspects; `RunControl` implements it |
| `MCRunControl` | symmetry for TLC |
| `RequestQueue` | `queue.ts` promise by promise |
| `SerialQueue` | abstract: a line, one holder; `RequestQueue` implements it |
| `Selections` | elements picked out of sequences, counted and summed, written so that the prover can unfold them |
| `Merging` | candidates, and the findings one merge makes of them |
| `FindingStore` | the tables of one run: saving one candidate at a time, suppression, rechecks, judgments, crashes, retries |
| `TextPlan` | pure text algorithms: graphemes, paragraphs, targets, contexts, locating and diagnosing quotes, with what each promises |
| `Pipeline` | `runPipeline`: the same check in one pass of the CLI |
| `RunExport` | export of `FindingStore`'s tables, and its adaptation to the form of a pass |
| `Proofreading` | composes the four: one manuscript planned, checked either way, exported |
| `Evaluation` | truth file, matching, scores, aggregate |
| `Scores` | `Proofreading`'s results, scored |
| `MCProofreading` | texts and what a model may answer, for TLC |
| `ResultsPage` | the results page of the web client, with the event hub and stream of the shown run |
| `FindingDetails` | the part of it that groups findings and fetches their details |
| `MCResultsPage` | findings, filters and budgets for TLC |
| `JudgmentAutosave` | the judgment of one finding, saved as the user makes it: control, page, row |
| `MCJudgmentAutosave` | the judgment a finding is created with, for TLC |
| `StartPage` | the start page: manuscript, start operation and its retry, POST /runs, deletion of runs that share a manuscript |
| `Connections` | `ConnectionManager` with its failures, checks of the web client, form and selected model |
| `RunControlProofs`, `RequestQueueProofs`, `FindingStoreProofs`, `ProofreadingProofs`, `JudgmentAutosaveProofs`, `StartPageProofs`, `ConnectionsProofs`, `ResultsPageProofs` | theorems and proofs |

Definitions named `Mutant…` are deliberate mistakes, each a plausible bug. No
specification uses them; putting one in the place of the definition below it
must break the property `PROJECT.json` names, which shows that the property
depends on that piece of code.

### RunControl and the code

JavaScript runs a segment until its next await. A step of the module is such a
segment, cut once more at each database commit because the process can be
killed there. `MayStep` keeps other loops and the user out of the cut places
(`settle`, `recheck`, `finish`), where the code runs on without an await.
Everything that awaits may be interleaved with everything else, which allows
more orders than the microtask queue does, never fewer.

| state | code |
|---|---|
| `row` | `runs`: status, `stop_reason = settings`, `stop_requested_at`, `recovery_confirmed_at`, and what a run pins. `generation_unconfirmed` is always written as "status becomes recovery-waiting" and has no field |
| `check`, `recheck`, `finding` | the three unit tables; a failed unit whose input was too long is `tooLong`; findings are open, suppressed or unlocated |
| `loop[r]` | the activation of `runLoop` with its stop gate and its executor: `pc`, position, `stopReq`, the outcome to be saved and the halt. `pc = "off"` is "not in the registry" |
| `queue` | seats in order, the head has the turn; `RequestQueue` shows that the promise chain is such a queue |
| `gate`, `phase`, `version`, `endpoint` | recovery gate, process, build, connection |
| `orphans`, `forgotten` | history: requests LM Studio may still be working on, and those of them the rows lost trace of |

`pc` goes `start`, `scan` (before a unit), `queued`, `ensure` (ensureLoaded),
`chat` (request in flight), `resolved` (outcome known, not saved), `settle`,
`recheck`, `finish`. The user's handlers are `StartRun`, `StopRun`,
`ResumeRun`, `RetryFailedUnits`, `ConfirmRecovery`, `DeleteRun` and
`ChangeConnection`; `InternalError` is the database throwing anywhere in a
loop, with `settleInternalError` succeeding or failing in turn.

Abstractions, all on the side of more behaviour or of data no property tells apart:

- A second POST with the same start operation id changes nothing and is a stutter.
- The grace timer of a stop is not a clock: `ChatLost` may happen at any time a
  request is in flight. The signal is aborted when a stop is requested and no
  request is in flight.
- `StartRun` may store a run as stopped for its settings with no units, which is
  the orchestrator's contract although the HTTP schema rejects such input first.
- Errors of the LM Studio client are its own error classes; any other exception
  would go the way of `InternalError`.
- A graceful shutdown waits for no run and is the same as `Crash`.
- Ids of deleted runs are not used again.
- A finding's slot number is its order of creation and carries no meaning.

### FindingStore and the code

`RunControl` takes findings as given and has the run's control in full;
`FindingStore` is the other way about. One run's tables are kept as the code
writes them, and requests end in one of the ways the loop tells apart.

| state | code |
|---|---|
| `disk`, `db` | `check_units`, `candidates`, `findings`, `judgments`, `recheck_units` as committed, and as the process reads them within an open transaction |
| `run`, `loop` | the row of `runs`; the activation of `runLoop`, whose steps within `saveCheckUnitOutcome` are single candidates |
| `given` | history: the answer last received for each check unit |

A finding's id is the index of the candidate that created it. Saving appends the
candidate, joins it to the finding with its key or creates one with its judgment,
and widens aggregates (`merge-store.ts`); then rechecks are issued and reopened
when a target is settled (`loop.ts`). An exception at any candidate rolls back; a
kill does the same. Left out: reasons, prefixes, timings, tokens, counts of
attempts and the assertions of `persist.ts` on what it is given.

### Pipeline, RunExport, Evaluation and the code

`Pipeline` is one variable, the record of `runPipeline`'s locals and of the
executor it uses: targets in order, perspectives in order, merge, rechecks, one
retry, the first reason to stop, and the tail of what was not sent. The CLI gives
no abort signal, so that nothing is interrupted. `RunExport` and `Evaluation` have no
state: the first maps tables to the export of `api/run-export.ts` and an export to
the form of `run/result.ts` (`export-adapter.ts`), the second findings and truth entries to a maximum
matching and counts (`matching.ts`, `score.ts`), and several scores to an
aggregate (`aggregate.ts`). Left out: progress, times, tokens and the conditions
shown with a result, schemas and their messages, hashes, the aggregate of
requests, times and unlocated counts, and counts by transform.

### TextPlan and the code

A text is a sequence of code units. What `Intl.Segmenter` and NFC do is shown by
one cluster of each kind: CR LF is one grapheme, a combining voicing mark joins
the unit before it and composes with one letter. Everything on top of that is the
code's own: `buildGraphemeIndex`, paragraphs, `planTargets` with tolerance and
short rest, context windows and their limits, `locateQuote` with its hints, the
position map back from normalized text and `diagnoseQuote`. The promises (`Tiles`,
`Nests`, `Finds`, `Traced`) are stated without the algorithms. One of them is
weaker than one might expect: a diagnosis may name a place without a range, since
of two transforms that find the same cover the first is kept, and its trace need
not end at a boundary of the source. Empty texts have no targets.

### Proofreading

A behaviour takes one way: `OnServer` (the steps of `FindingStore`) or
`OnCommandLine` (those of `Pipeline`), each from a state planned by `TextPlan`.
What the model answers is the same for both, so that `ExportIsPipelineResult` can
say that the adapted export of a run, whatever stops, retries and restarts it went
through, is what one merge of the same answers gives. It has one exception, which
`ScoresAddUp` shares: when a retry lifts a suppression and the run is stopped
before the unit is reopened, the row still says `suppressed` for a finding that is
not, the adapter passes that on, and the score counts it in none of done, failed,
pending and disabled. The next resumption reopens the unit. `Accepted` leaves out what
the adapter refuses of fields the tables here do not have and the server always writes
together: a missing `finishedAt` or stop message, `generationUnconfirmed`, and missing
or doubled diagnostics.

### ResultsPage and the code

A step is one task of the browser (a message of the stream, an answer, a click,
a render) or one handler of the server. `db` is the server's rows, reduced to
what the page must not get wrong: a run's status, how often it changed (`ver`)
and how often its findings changed (`found`), so that "behind" is a comparison.

| state | code |
|---|---|
| `db` | `runs` and `findings`, as the GET handlers return them |
| `stream` | the browser's `EventSource`, the hub's subscription, events written and not yet delivered (`run/event-hub.ts`, `api/events.ts`, `web/src/api/events.ts`) |
| `page` | states and refs of `results-page.tsx`: what is shown, `dirty`, `loud`, `pending`, `ended`, `conn`, freshness of the list, the two failure lines; `passes` and `ctls` are its calls of `fetchInitial`, `performRefresh` and `runControlAction` that have not returned |
| `live`, `here` of a pass | its generation is `requestGenerationRef.current`; its scope is `runScopeRef.current` |
| `page.sel`, `page.hidden` | selected finding; the filter, as the findings it hides |
| `details` | `useFindingDetails`: the ids it follows, the keys of `latestRef`, the entries, its requests; a request is live when its token is the latest of its finding |
| `rendered` | `streamSupported`, `streamEnabled` and `memberIds` at the last render |
| `budget` | what may still happen to the page; not code |

React collects the states a task sets and renders later, so that `Render` is a
step of its own, and an effect sees what was rendered. `Rendered` in a guard
says that clicks and whole round trips to the server take longer than a render;
an answer that is already on its way may come before it. A refresh reads the
run and the list by separate requests, in either order.

Of the details of a finding the model keeps the version they were read at.

Left out: the list of units (a request like the list of findings), scrolling and
navigation, slow-generation notices, failure texts of controls and which of them
`run-control.ts` offers, other browsers, deleted runs and 404. The page opens on a running run
at its first version, or on a run at rest that no longer changes; that a run comes to
rest before the page has read it arises by a change before the first read.

### JudgmentAutosave and the code

`judgment-control.tsx` sends one save at a time and keeps of those that wait
only the last; `handleSaveJudgment` of the page puts the answer into the list;
the list may be read again meanwhile, and the control follows it.

| state | code |
|---|---|
| `saved` | the row of `judgments`: status, memo, `updatedAt` |
| `shown` | the judgment in the page's list of findings |
| `failed` | `judgmentErrors` has an entry for the finding |
| `fetch` | the `getFindings` of a heavy refresh |
| `ctl` | the mounted control: inputs, `dirty`, `updatedElsewhere`, `saveState`; `value`, `confirmed`, `processed`, `queued` are `lastSentRef`, `lastConfirmedRef`, `processedUpdatedAtRef`, `queuedRef`; `put` and `row` are the save under way |
| `gone` | promise chains of controls that were unmounted with a save under way |
| `past` | history for the properties: the last choice, what each control that was left had last been asked (`left`), whether another writer was about, whether every answer was drawn |

`Render` is the render with its effects. The user acts on what is drawn, and the
memo loses the focus before anything else is clicked. `updatedAt` grows with
every write, which leaves out two writes within a millisecond. A save that
fails was either not committed or its answer was lost. Left out: the texts of
errors, the memo lost when a filter removes the finding that is being edited,
and leaving the page.

### StartPage and the code

A start is sent with an operation number (`startOperationId`) and is kept as a
snapshot until the server's answer is known; when the answer was lost, `retry`
sends the same request again, and POST /runs answers with the run the
operation already has. Requests and answers are separate steps, and an answer
may be lost while the request is still going to be handled.

| state | code |
|---|---|
| `manuscripts`, `runs` | rows; `given` keeps deleted ids from being given again |
| `posts`, `confirms` | POST /runs and POST /manuscripts under way; `mine` says that a mounted page waits |
| `stored` | `localStorage` |
| `man`, `restore` | `useManuscript`: what is confirmed, the GET of the stored version |
| `home` | `useStartRun`: outcome, where `start()` is, snapshot, `canRetry`; `last`, `fate` are history |
| `strays` | calls of `start()` whose page was left while they waited for the check |

The check a start waits for is only how it ends (`CheckEnds`): passed, stopped,
or superseded. `confirmPaste` and `confirmFile` are one action, since they
differ in the request's body. Left out: the settings sent, texts, and the run's
life after POST, which is `RunControl`. Since
a stored run may have come to rest at any later step, `DeleteRun` needs no guard
on its status here; the guard itself is in `RunControl`.

### Connections and the code

| state | code |
|---|---|
| `row`, `manager` | the settings row; `endpointUrl`, `apiKey` and the client of `createConnectionManager` |
| `calls`, `ctx` | `POST /settings/connection/check` under way; `ConnectionProvider`: generation, last check, error, selected model |
| `form`, `puts` | `ConnectionSection`; `PUT /settings/connection` under way, with who is told (`form`, the `app` after the form was left, or `nobody`) |
| `behind`, `other` | history: a save succeeded whose answer was lost, and no check was begun since; the last change came from a form that was left |

`update()` ends in one of `Ends`: the client cannot be made, the row cannot be
written, or everything is replaced. The refusal while a run is active is the
`error` reply; that a run pins its endpoint is in `RunControl`. A check asks
the endpoint when it is handled. Left out: display of the key, another tab, the
closing of the old client, which the code does not wait for.

## Runs

| run | instance | shows |
|---|---|---|
| `two_runs` | 2 symmetric runs, 1 target, 1 perspective, 1 finding, both recheck settings | `OneRequestAtATime`, `NoSendWhileUnconfirmed`, `GateMatchesRows`, `StopIsHonoured`, and `RunControl` implements `RunLifecycle` |
| `two_runs_live` | 2 runs, no symmetry, no findings | `RunsComeToRest` while two runs compete |
| `one_run` | 1 run, 2 targets, 2 perspectives, 1 finding, 2 endpoints, 2 builds | `UnitsInHand`, `FinishedMeansFinished`, `SettledStaysSettled`, `WorksAsPinned` |
| `proofreading` | 176 texts with settings to plan; one of them checked: 2 targets, 2 perspectives, 2 launches, 1 judgeable finding; in the CLI 3 modes, 3 limits, 2 failed attempts | text: `PlanTilesText`, `RecheckSeesCheck`, `QuotesAreFound`, `MisquotesAreTraced`; tables: `FindingsAreGroups`, `AnswersSavedOnce`, `FindingsOnlyGrow`; pass: `PipelineAccounts`; together: `ExportIsPipelineResult`, `DetectionIsMaximum`, `ScoresAddUp` |
| `results_page` | 2 runs, 6 budgets of changes, faults, clicks, picks and moves | `QuietPageIsCurrent`, `ShowsItsRun`, `DetailsFollowList`, `PendingCoversControl`, `PageCatchesUp`, `StreamEnds`, `LoadingEnds` |
| `list_behind` | 1 run, 2 changes, nothing else | violates `CurrentListHasCaughtUp`, see below |
| `judgment_autosave` | 2 statuses, 2 memos, 3 choices or edits, 2 reads, 1 failure, 1 write of another browser, 1 new control | `LastChoiceWins`, `FallBackIsShown` |
| `confirmed_behind` | 1 choice, 1 read | violates `ConfirmedIsNewest`, see below |
| `lost_generation` | 2 runs | violates `NoSendAfterLostGeneration`, see below |
| `start_page` | 2 manuscripts, 2 operations, 2 faults, 1 leaving or reload | `RunsAreAsAsked`, `RunsHaveManuscripts`, `ShownIsStored`, `SendingEnds` |
| `connections` | 2 endpoints, 1 model, 1 save, 3 checks, 1 fault, 2 visits or reloads | `ServerAgrees`, `SavedUrlShown`, `QuietCheckIsCurrent` |
| `request_queue` | 3 jobs | implements `SerialQueue` (`ImplementsSerial`), `ToldAsItWent` (what a caller is told is what became of its job), `EveryCallerIsTold` |

Further properties of the modules are proved for all constants and not repeated in
a run: the type invariants, `StopShownIsStopKnown`, `InputShowsJudgment`,
`UnknownCanBeRetried`, `SelectionFromList`, `OneJobAtATime`.

Bounds. The state of `RunControl` is finite without any counter being cut: retries, restarts,
stops and resumptions are unbounded. Two runs are enough for what one run may do
to another, since runs meet only in the queue, the gate, the connection check
and the process. Two perspectives are what lifting a suppression needs (one
creates the finding, one widens it), two targets what settling in order and
`settledTargets` need. Three jobs are what a cancelled middle needs. The proofs
below remove the bounds for most of the properties.

Deadlock is checked in the `RunControl` runs, though a process can always crash
or start there, so it says little; progress is what `RunsComeToRest` is for.
`RequestQueue` stops when its jobs are done, a pass of `Pipeline` and a run of
`FindingStore` when they are finished and launches are used up, and the models of
the web client when the changes, clicks, starts and checks of their bounds are.

`ResultsPage` bounds what others do to the page (changes, faults, clicks, picks,
moves), never what the page does in answer: refreshes are unbounded. Each budget is
a case of its own. Two changes with a click and a fault: one arrives during the
refresh the other called for, and the fault is a lost stream, a failed answer or a
restart at any moment. A move, with changes of the run left, of the run entered, or
of both, and a click: answers and controls of the old run are still under way, the
case `scope` exists for. Selections and filters, once while the findings change and
an answer fails, and three of them with a fault and a move in runs at rest: two
findings share a range, a third has its own, and one comes with the first change, so
that a group grows, loses its head and is left for another.

`Proofreading` plans every text of up to three of four blocks (a letter, a stop, CR
LF, a letter with a combining mark) and three longer ones with closing brackets,
blank lines and decomposed letters, under two settings: with a tolerance and a larger
recheck context, and without and smaller. The text that is checked has two targets;
its answers hold candidates with the same key from both perspectives, with different
categories and verdicts, one that is an allowed word under one category only, and
one of each way of not being located. `MainAsPlanned` checks that these constants are
what planning and locating give. Two launches are a start and one resumption or
retry; kills and rollbacks are not bounded. Limits 9, 4 and 3 make no input, the
rechecks' or all inputs too long; two failed attempts use up a retry and fail again.
`JudgmentAutosave` needs three choices for one that is sent, one that waits and
one that replaces it or takes it back; its proofs hold without these bounds.
`StartPage` needs two operations and two manuscripts for a retry that could send
the wrong one and for two runs that share a manuscript; two faults let the first
attempt and its retry both be lost. `Connections` needs two endpoints to tell an
old answer from a new one, and three checks (the first of a page, one that is
overtaken, one that follows the save).

Fairness. `LoopStep` and `RequestStep` of each run are strongly fair: a callback
that became ready stays in the event loop's queue while another run's segment
holds the thread, and each request has a hard time limit (`timeouts.ts`, the
client's abort signal), so it is answered, refused or lost. Which of these, and
everything the user, the database's failures and restarts do, is not assumed.
`ReconcileRun` and `Listen` are weakly fair: startup is synchronous. In
`RequestQueue` reactions of promises are weakly fair and so is the end of a
running job, for the same time limit. In `ResultsPage` one weak fairness,
`WF_vars(Advance)`, says that server and browser go on while something is under
way; nothing is assumed of the user, the run loop, or faults. In `StartPage` the
check ends, the server handles what it was sent and the browser is told
(`CheckEnds`, `HandleStart`, `StartAnswered`): `fetch` ends in an answer or an
error, and the check has a time limit on the server.

### Three disagreements

`docs/reference/invariants.md` line 54 and `docs/spec/mvp-spec.md` line 238 say
that nothing is sent while the end of an earlier generation is unknown.
`lost_generation` finds the exception: a request is lost, its unit is committed
back to `pending`, and the process is killed before `finalizeRun` commits
`recovery-waiting`. The next start sees a running row without a running unit
and makes it `stopped` with the gate open. `NoSendWhileUnconfirmed` is the
property with exactly this exception (`forgotten`), and it holds and is proved.

`results-page.tsx` lines 211 to 217 say that the list of findings is shown as
current only when it has caught up with the shown state. `list_behind` finds
that it need not have: `fetchInitial` asks for the findings before it asks for
the run and sets no freshness, so that a run which adds its last findings and
finishes between the two is shown as finished over the older list, said to be
current, and for a finished run no stream corrects it. A heavy refresh sends its
requests in the same order. `QuietPageIsCurrent` is what does hold, and is proved:
while the page is watched, row and list are current when nothing is under way.

`judgment-control.tsx` line 125 says of `lastConfirmedRef` that it is the newest
value settled on the server. `confirmed_behind` finds otherwise: a heavy refresh
reads the list, a save is committed and answered, then the list arrives. It
replaces the newer judgment, and the control takes the old one into its inputs
and as its fallback, while it says "saved". The row is right. What holds is that
inputs and fallback agree with the list (`InputShowsJudgment`,
`FallBackIsShown`) and that the row has the last choice (`LastChoiceWins`). The
last has one exception, named in it (`past.rival`): a choice made in a new
control while the one before it is still saving may be overtaken. Then the row
holds the last of what the control that was left was asked (`past.left`), never a
choice it had replaced or taken back.

## Proofs

The theorems hold for every value of the constants allowed by
`ConstantsAssumption`, for `JudgmentAutosave`, `StartPage` and `Connections` any
data and any bounds (`FirstAssumption`, `NoneAssumption`, `EnvAssumption`,
`BoundsAssumption`), for `FindingStore` any manuscript and any answers
(`MergingAssumption`, `PlacesAssumption`, `StoreAssumption`), for a pass any modes, limits and troubles
(`PipelineAssumption`), for texts any with settings the code accepts
(`ProofreadingAssumption`), for `ResultsPage` any runs, findings,
filters and budgets (`RunsAssumption`, that there is a run, `FindingsAssumption`,
`FiltersAssumption`, `BudgetsAssumption`), and for `RequestQueue` any number of calls
(`CallsAssumption` there is that it is a natural number).

`RunControlProofs`. None of the safety properties is inductive. The invariant
`IInv` joins them with what they rest on:

- `SeatsHeld`: a loop holds a seat exactly while `queued`, `ensure` or `chat`,
  one seat, and the head of the queue is the only one past `queued`. Gives
  `OneRequestAtATime`.
- `QuietWhenNotUp`: no loops, seats or gate entries before the server listens.
- `LiveRows`, `SeatedUnitRuns`: a registered run is running; the unit of a loop
  with a seat is running in the database. This is what makes a killed request
  recognisable at restart, hence not `forgotten`.
- `GateOfLoops`, `GateMatchesRows`, `OrphansShown`: whose orphan closes the
  gate, at each point between losing the request and finalizing the run.
- `TooLongIsACheck`, `WorksAsPinned`, `StopShownIsStopKnown`.

Each action has its lemma for each group of conjuncts it can disturb. From
`Invariance` follow the invariants, the action property `StopHonoured`, and
`LifecycleKept`, the refinement: each step of `RunControl` is a step of
`RunLifecycle` or a stutter. `SuspectsQuietAndShown` is proved of the abstract
module's promises and carried over.

`WorkInvariance` extends it to what becomes of a run's units: `UnitsInHand`,
`FinishedMeansFinished` and `SettledStaysSettled`. `View(r)` is a run's rows with its
loop, and `Work` says of every view that it is `Good`:

- `RunsOnlyWhileRunning`, `HandGood`: the running unit of a registered run is the one
  its loop has in hand, and nothing runs in a run that does not.
- `BehindGood`, `PlaceGood`: behind the loop's position no check unit is open, the
  targets before it are `Tidy`, a settled one has had its rechecks issued, and a loop
  that finishes of itself stands after the last unit of a tidy last target. This is
  what lets `finalizeRun`, which only looks for failures, say `completed`.
- `PlanGood`, `ClosedGood`: a run has all its check units or was rejected; a closed
  recheck unit still has the reason it was closed for. This is why reopening only the
  suppressed ones is enough.
- `SaysGood`: a finished run is tidy throughout and says whether something failed.

The steps are named by what they do to a view (`Claimed`, `Saved`, `Reset`, ...):
`NextMoves` shows that every step is, for every run, one of these moves, `MovedGood`
that each keeps `Good`, and `MovedKeeps` that none undoes settled work.

`RequestQueueProofs` proves mutual exclusion, `ToldAsItWent` and the refinement of
`SerialQueue` from `SeatsAsIssued` (nothing is known of a seat not yet issued; a job
was called exactly if its closure says `running`), `ChainInOrder` (a seat's turn settles
only after the one before it) and `ToldForGood` (a call that was told of a cancellation
has a seat that its turn will pass over). The type of `size` needs one part more,
`CountsOpen`: it is the number of turns that have not settled.

`FindingStoreProofs` proves that saving one candidate at a time is merging at once.
The invariant `Grouped` has four parts: `RowsHaveFindings` and `FindingsHaveMakers`
(a located candidate belongs to a finding, made by the first of its key),
`KeysDiffer` (no two findings of a target have one key) and `AggregatesOf` (a
finding has the category, verdict and sources of its candidates). `LoopInv` relates
`db` to `disk` at each point of the loop. Each table operation has a lemma saying
what it leaves in each table; saving a candidate is one of `Made`, `Joined` and
`Outside`, all other writes are `Kept`. From it follow `FindingsAreGroups` at every
commit, and, through `Grown(disk, db)`, `FindingsOnlyGrow` across crashes and
rollbacks. `AnswersOnce` needs an invariant of its own: what is committed of an answer
is all of it, in its order and next to each other, and what the open transaction has
added is the part of the answer before the loop's place; a unit is made `done` in the
transaction that added the last candidate, and reset only when it has none.
`RestsClosed` needs a third, `ClosedInv`, of four parts. `RestInv`: a run at rest is not
`running`, a stopped one tells why. `RowsInv` (`UnlocatedApart`, `RowsAnswered`): a
candidate that was not located is a finding of its own, or of none if it lay outside
its target, and each is of an answer the model may give. `RechecksInv` (`RecheckFits`,
`UnderWay`): a recheck's status fits its finding and the run's setting, and what is
under way is the loop's own. `TidyInv`: what lies behind the loop is finished, so a
completed run has nothing left.

`ProofreadingProofs` proves what a manuscript goes through in order.

- Merging: `MergedAccounts` says that the groups of overlapping candidates part the
  candidates, so that the sizes of the findings add up to their number.
- The pass: `PipeInv` is the inductive invariant. `Place` says which units are settled
  at each place of the loops, `Counts` that the requests made and the candidates
  located are those of the settled units, of the findings, and of what is under way,
  `Statuses` that only a stop leaves something pending, `NothingAfter` that nothing
  was sent behind the first thing left pending. One lemma per place of `runPipeline`
  keeps it; `PassAccounts` reads `PipelineAccounts` off the last state.
- Planning: the recursion of `planTargets` has a solution (`PlansExist`: a target ends
  after it begins, by induction on what is left of the text, over the set of numbers
  for which there is one), and `PlanTargets` is one (`PlanIs`). `TargetEndIs` says
  where a target may end; `TilesHolds` follows by the same induction. `Graphemes` says
  that offsets of boundaries and numbers of graphemes are each other's inverse.
- Contexts: `NestsHolds`, from how limits of context and rounding compare.
- Locating: `NarrowedFits` says that narrowing leaves exactly the occurrences that fit
  all hints whenever one does, as the quoted passage itself does with true hints
  (`HintsFit`). `FindsHolds` follows.

- The export: `ExportAgrees` compares two sequences that differ in their order and in
  the number of merges that made them. Both are shown to *list* the same function on
  the rows of the tables (`Lists`: there is a bijection between positions and rows), so
  each value stands in both equally often (`SameTimes`); what is picked, concatenated
  or flattened of lists lists the union of what they list (`ListsPicked`,
  `ListsConcat`, `FlattenedLists`). `AllSaved` lists the rows (`AllSavedList`, from
  `AnswersSavedOnce`), `AtOnce` the located findings (`AtOnceList`: a group of one merge
  is a finding of the tables, `GroupIsFinding`), and so do the export, whose order is
  total (`ExportsOrdered`), and its located and unlocated parts (`ShownList`,
  `UnlocatedList`, `CandidatesList`). `WhatIsAccepted` goes through the adapter's checks
  one by one, `StatusesTold` through what it tells of a recheck. The theorem then
  follows from `IInv`, `AnswersInv` and `ClosedInv` at rest. That answers about
  different targets are never located at one range (`PlacesAssumption`) is needed
  here: the server merges within the run, the CLI within a target.
- Misquotes: `TracedHolds` goes through the diagnosis of a quote that is not found.
  Nothing a transform joins lies on two sides of a grapheme boundary, so a transform of
  two stretches is the two transforms (`PickedConcat`, `UnifySplit`, `NfcSplit`,
  `TransformSplit`), and it is idempotent (`TransformIs`). Hence the comparison text is
  what its source reads as, with one chunk for each grapheme that reads otherwise than
  it stands (`ComparisonIs`), and boundaries keep their order in it (`OutIs`). `MapIs`
  is the position map: the offset of a boundary is mapped to it and lies inside no
  chunk, and an offset mapped to a boundary is its own; between two chunks nothing is
  changed, so the distances agree (`PlainStretch`). From it `TraceExists` finds the
  passage where it stands, overlapping a chunk, and `TracesRead` says that a range a
  trace names reads as the quote. `CollectedIs` keeps, of each place, the first trace
  of the first transform that has one.

`TilesHolds`, `NestsHolds`, `FindsHolds` and `TracedHolds` are about any text and any
valid settings; `TextPlanned`, `TextNested`, `TextQuoted` and `TextTraced` carry them
over to `ProofreadingSpec`.
`ServerWay` and `CommandLineWay` show that this specification, in which a manuscript
takes either way, implements `FindingStore`'s and `Pipeline`'s, and `WholeWay` that
what was proved of each alone therefore holds of the whole.

For these proofs some definitions are written with sets of positions and their
cardinalities rather than with `SelectSeq` and folds, which the prover cannot unfold:
`Picked` and `Number` (also the rows and findings of an export), `SumOf`, `UnifyNewline`
and `Nfc` (what is picked of the units once those that change have changed), and
`Narrowed` (the first hint after which one occurrence is left, or none would be).

`JudgmentAutosaveProofs` proves the safety properties of the run from an
invariant of five parts: `StampsTell` (rows with one `updatedAt` hold one
value), `RowIsSent`, `InputIsTarget` (an idle control has nothing waiting and
shows what it last sent, a busy one what it is going to send), and `ChoiceKept`,
which says where the last choice is: with the control, with the only abandoned
chain, or in the row. `LeftKept` is its counterpart with rivals: every abandoned
chain ends in `past.left`, and once all that is left is to be answered, the row is
the last choice or one of these.

`StartPageProofs` proves the five safety properties of its run. `AsAsked`: whatever
carries an operation's number (run, request, snapshot) carries its manuscript.
`PageKnows` and `Waits`: at each point of `start()` and `send()`, what the snapshot
is, and that the page waits for one answer, that of the operation sent last; this
is why an answer cannot be taken for another operation's. `ManuscriptShown`: a
restore and a confirmation are never both under way, and what a restore asked for
is what the storage still holds.

`ConnectionsProofs` proves the five of its run. `ChecksCurrent`: unless the success
of a save is still on its way to the page, or never will be told, every answer that
would count was asked of the endpoint in use. `FormPuts`: the form waits for one
save at most. `UpdateLemma` says that every end of `update()` leaves row, endpoint,
key and client in agreement.

`ResultsPageProofs` proves the four safety properties of its run. For `ShowsItsRun` and
`DetailsFollowList`: `PassesGood`: of
the requests under way at most one has the latest generation, that one asks for the
run of the URL, and if it is a first load the page is loading and has nothing in
detail once a part of it is read (`RenderedGood` and the order of render and round
trip). `ViewGood`: what is loaded is of the run of the URL and no newer than its
rows. `HookGood`, `Reads`, `Tells`: a call whose token is the latest is for a finding
that is followed, what it read is no older than the list, and what is neither awaited
nor failed is there and no older. Each function of the page and of the hook has a
lemma saying which parts it keeps; the lemmas of the actions combine them.

`DueInv`, on top of it, says where everything is that the page does not show yet.
`RowDue` and `ListDue`: a state is shown, or a request under way has read it or has
still to read it, or a refresh is folded into `dirty`, or there is a notice.
`Watched`: while the stream is open, what is not due is in an event on its way.
`Wired`: a stream without a subscription ends in `settled`. `GateGood`: every refresh
of this visit has the latest generation, and what is folded waits for one.
`CtlsGood`: one control of this visit at most holds the buttons, and once answered its
version is due. From it follow `QuietPageIsCurrent`, and `PendingCoversControl`, since
the last control is freed only when nothing is under way or folded. Both are stated
of a watched page or of the page's own control. A run shown at rest has no stream, so
a resume that another visit or another tab asked for is not seen until the next
refresh; `PageCatchesUp` therefore assumes `NoLateResume`, which in the budgets of
the run, with one move, is always so.

Only model-checked: liveness (`RunsComeToRest`, `EveryCallerIsTold`,
`PageCatchesUp`, `LoadingEnds`, `StreamEnds`, `SendingEnds`), which the prover
cannot do, and `DetectionIsMaximum` and `ScoresAddUp`, which rest on a recursive
operator (the search for augmenting paths).

## Not modelled, and the plan

What the plan has left:

1. The run list page of the web client, which reads a list and deletes from it, and
   `run-control.ts`, a table of which controls a status offers.
2. `ResultsPage` with a second tab, to say when a page without a stream is overtaken.

Not modelled, because they keep no state the properties above depend on or have no
decision a model could get wrong: wording of prompts and parsing of answers (valid or
not reaches the run loop), the HTTP layer of the LM Studio client, shaping and
validation of DTOs, JSON columns and migrations, configuration and assembly of the
server, rendering, local storage of settings, the arguments and files of the CLI
commands (`main.ts`, `full-chat.ts`), and the report layout (`report.ts`).
