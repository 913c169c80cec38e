# Hramatka: a TLA+ model of the lesson service

Hramatka turns an anchor text into a Ukrainian lesson. A teacher asks for a
lesson, a pool of threads in the one API process bakes it with a language-model
provider, and the teacher reviews, edits and accepts the result. Everything
durable is in SQLite; the process may die at any time and is started again.

The code this project looks at is the part that is hard to get right by testing:
the durable job protocol (`src/hramatka/api/store.py`), the worker pool
(`src/hramatka/api/runner.py`), the routes that use both
(`src/hramatka/api/app.py`), the review of a ready lesson
(`store.py` with `src/hramatka/api/lesson.py`), the doors through which staff enter
(`store.py` with `app.py`), what one bake does with the provider (`engine_adapter_v3.py`
in `api/baking`, `density_evaluator_v3.py` and `provider_transports.py` in `engine`), the
teacher's browser tab (`app/src/App.tsx`), and the paid review of pull requests that the same
service answers for the project's workflows
(`src/hramatka/api/review_attestation.py`).

## Inventory

| Component | State it keeps | Operations | What is hard | What makes it correct |
|---|---|---|---|---|
| Job lifecycle store (`store.py` 2026-2834) | `lesson_jobs`: status, revision, attempt, attempt token, lease, quiescence mark, history, retry source | create_or_get, cancel, retry, delete, claim, lease, set_step, complete, fail, acknowledge, sweep, recover, fail queued | tabs with old revisions, workers with old attempts, lost answers of retries, restarts | attempts never overlap; only the owner writes; a closed attempt is never published; history and retries are exact |
| Bake runner (`runner.py`) | worker threads, watchdog, stop event, admission flag, claim lock, turn flag | start, submit, hold_admission, close_admission, stop, quarantine, `_run_job`, `_run_activity_regeneration` | a worker's reads and writes are separate transactions, minutes apart; any of them may be refused | leases are truthful; every bake ends; no class of work starves |
| Lesson routes and lifespan (`app.py`) | none of their own | one or two store calls per request, submission to the pool, startup and shutdown | a pool that closes between an insertion and its submission | a refused request leaves nothing running |
| Activity regeneration (`store.py` 2836-3350) | `activity_regenerations` rows | create, retry, claim, complete, fail, sweep, recover | the document changes while the provider works; jobs carry no token | a replacement hits the block it was asked for, or nothing |
| Review and acceptance (`store.py` 3352-3616, `lesson.py`) | lesson document, acknowledgements, acceptance columns | move, remove, include, replace, restore, acknowledge, accept, return to draft | edits interact: warnings, phases, the rejected tray, reserve blocks | what is accepted was reviewed as it stands; nothing is lost |
| Activity feedback (`store.py` 3620-3751) | one row per slot and content hash | upsert, read | survives deletion of its lesson | |
| Invites and sessions (`store.py` 929-1290) | invites, sessions, idle and absolute limits, the tab's nonce and cookie | redeem, reissue, touch, log out, revoke, deactivate | a redemption whose answer is lost; revocation against use | one session per invite; the tab that redeemed can always get in; nothing revoked is used |
| Google sign-in, grants (`store.py` 662-870, 1294-1665; `app.py` 987-1132) | nonces, identities, grants, reservations | nonce, complete, link, authenticate, admit, bind, grant, revoke, preauthorize | a sequence of transactions with revocation in between | no session outlives its grant; a session is that of the posted account |
| Passkeys, recovery codes (`store.py` 1669-1998; `app.py` 1134-1279) | credentials with a signature counter, challenges, codes | enroll, assert, regenerate, redeem | the counter is read twice; sets of codes supersede each other | a challenge or a code opens one session |
| Review attestation (`review_attestation.py`) | result rows by key, recoveries, spent tokens, sealed records, the lifecycle lock | attest, finish, seal, recover, inspect | a paid call whose outcome is unknown after a crash; recovery chains; rows under an older key | no unauthorised charge; receipts rest on reviews of what they report |
| Providers (`engine/provider_*.py`, `engine/transport.py`) | process-wide call budget, retry counters, progress | call, retry, leave JSON mode, fail over, report progress | loops inside loops; which errors the outer loop may repeat | a call ends; its posts are bounded |
| Bake adapter (`engine_adapter_v3.py` 2283-3570) | per bake: phases, accepted slots | bake, repair, replace, judge, review, assemble | an error means something else in each stage | a lesson is whole or not shipped; nothing is paid for twice |
| Engine evaluator (`density_evaluator_v3.py` 386-1078) | per phase: verdicts, rounds, replacements | evaluate, repair, merge, replace, drop | partial answers, patches of single questions, exhausted rounds | a phase is left with every slot settled |
| The rest of the engine | per bake only | plan, allocate, prompt, gate | data-heavy text processing | |
| V4 execution boundary (`v4_integration.py`) | accepting flag, count of active calls | start, invoke, stop | draining while calls arrive | stop returns, nothing runs after it |
| Preferences, catalog, migrations, configuration, validation | little or none shared | | | |
| Browser application (`App.tsx` 276-427, 931-1431) | the page, the current lesson, its document, a status card, the poll (active lesson, timer), the loading and mutation flags | open, create, cancel, retry, poll, accept, edit, return to draft, go to a page, history | answers come after anything may have happened; flags and the card are shared by lessons; effects run after commits; answers overtake each other | a tab that says it polls does; buttons come back; a page never stays empty |
| Qualification, CI, tools, vendored code | not part of the service | | | |

How they interact. Routes run in request threads and call the store, one
`BEGIN IMMEDIATE` transaction per method. A route that queues work holds the claim
lock, inserts the row and asks the pool whether it accepts work. Worker threads
poll, claim a row under the same lock and go through the bake with a store access
before and after every slow step. The watchdog sweeps rows that are older than
the hard timeout, without stopping the thread that works on them. At startup the
lifespan closes what the dead process left. Nothing calls back into a browser: a
tab learns of changes when it polls, and proves what it has seen by sending
`expected_revision`. Every route but the doors looks its cookie's session and the
teacher's grant up first. The attestation has a database of its own; its service
processes and the operator's recovery command meet in that database and in a lock
file next to it, and nowhere else.

`PROJECT.json` lists every component with its status, and under `hazards` the
places in this code where something can go wrong that a test would hardly reach,
with the properties that watch each of them.

## Modules

| Module | Models | Proofs |
|---|---|---|
| `LessonLifecycle` | what the store promises about one lesson: numbered attempts, published or closed but not both, no provider call of an old attempt when the next begins | |
| `BakeJobs` | lesson_jobs, the pool, the watchdog, the teacher's requests, crash and restart; implements `LessonLifecycle` | `BakeJobsProofs` |
| `LessonReview` | the review of one ready lesson from several tabs | `LessonReviewProofs` |
| `Regeneration` | replacing a block while the teacher reviews; extends `LessonReview` with the jobs, workers, sweep, crash and restart | `RegenerationProofs` |
| `WorkPool` | the claim lock, `hold_admission`, `submit` and its refusal, the stop event and the turn flag | `WorkPoolProofs` |
| `LessonBake` | one worker's bake: the runner's second bake, phases, repair rounds, replacements, judgement, semantic review, and every post of every provider call | `LessonBakeProofs` |
| `StaffAccess` | teachers, grants, reservations, invites, sessions, and the requests that end in a session, one step per transaction | `StaffAccessProofs` |
| `TeacherTab` | one browser tab: the functions of `App.tsx` between their awaits, its effects, its poll timers, and requests under way to the server's rows | `TeacherTabProofs` |
| `ReviewAttestation` | service processes, the attestation's tables, the lifecycle lock, the provider's charges, the operator's commands | `ReviewAttestationProofs` |
| `MC...` | instances and symmetry for TLC | |

### Correspondence with the code

*One transaction, one step.* Every store method opens one `BEGIN IMMEDIATE`
transaction, so it is one action, with its guards in the code's order where the
order shows. A worker is not atomic: `pc[w]` has a label for each access that
`_run_job` and `_run_activity_regeneration` make, and anything may happen
between two labels. In `BakeJobs` the labels are, in order, `check`, `lease`,
`provider`, `confirm`, `step`, `validate`, `publish`; `back` and `quit`
acknowledge a lost attempt from the body and from a handler; `handler` and
`failing` are the exception handlers; `final` is the finally clause. A store
access that SQLite refuses (`StoreFails`) continues where the code's `except`
and `finally` clauses take it (`Landing`).

*A row* is the record of the columns that decide something. `leased` and
`quiesced` stand for the timestamps `provider_started_at` and
`attempt_quiesced_at` being set. Tokens are numbers that are never issued twice,
as uuid4 values are in practice.

*A tab* is its last answer (`view`). A request carries the revision of that
answer, so old requests, requests from a second tab and repeated retries are all
requests of a tab whose view is out of date.

That is enough for what the store must withstand. What a tab itself does with its
answers is `TeacherTab`.

*A tab's event loop* in `TeacherTab` runs a function up to its next `await` in one
step; the request is then an element of `net` with its kind, lesson and revision, the
server answers it in a step of its own, and the rest of the function is the step that takes it out. React
commits after each step, and the two effects (`App.tsx` 936-970) run before the next
one: `dirty` says which are due. `setLoading`, the mutation flag, the card and the
document belong to the tab and not to a lesson, as in the code, where the card does not say whose it is. The closure that opens a
lesson after a poll may be older than the current lesson, so it has captured either
the lesson or none (`TickReturns`). A poll is given up after 260 ticks, which `GivesUp` lets happen at any tick.
A timer whose handle was overwritten is a stray (`Schedule`). Answers come in any order.
Any request may fail before or after the server has acted: its promise is rejected, or the
answer is an error (`Fail`). The two differ for a tick, which makes a card without a status of the error's body (`Blank`), and for
the list inside `mutateBake`, which goes on whatever its status. The server's part is what `BakeJobs` and `LessonReview` do to one row,
seen from outside: its status, its revision, the revision of the last retry, and whether it was deleted. The teacher's
other tabs edit, cancel, retry and delete (`OtherTab`).

*Time* is a set of rows whose claim is older than the hard timeout; rows enter it
at any moment. The queue's order `(created_at, id)` is a relation: `created_at`
has whole seconds and ties are broken by the browser's UUID, so a new row may be
placed before older ones.

*The process* is `up` or not. Its `admission` is open, closed for good (stop, a
refused request, quarantine), or paused (started with generation disabled: then
create and retry are refused by the routes and no draft is claimed).

*The document* in `LessonReview` is a sequence of blocks, each with an id, a
phase, a content and the flags that decide whether it needs a review, plus the
rejected tray. Two equal content numbers mean equal content. `Regeneration`
compares whole blocks where the code compares canonical hashes.

*A door* in `StaffAccess` is the code path of one kind of session. A Google or a
passkey request is a process: `req[r]` says after which of its transactions it
stands and what it has read (`app.py` 1063-1121 for Google, 1161-1203 for an
enrollment, 1221-1258 for an assertion). A redemption and a recovery code are one
transaction each. The answer of a redemption arrives or is lost (`Answered`): the
browser drops its nonce only when it has read the answer (`App.tsx` 586-648). A
session has the state its columns amount to: `live`, `idle` (past the idle limit,
which only a second redemption looks past), `over` (revoked, or past the absolute
limit). The model is that of production, where a staff grant is required.

*A review run* in `ReviewAttestation` is a process from the verified request to the
signed receipt. `consume_and_reserve` is one transaction with four ends: a fresh
reservation, a granted one, a row to answer from, a refusal. Its loop over the
recoveries is the relation `Chain`: a path of hops from the source row, each of
which the loop would take, to the key where it stops. The lock is taken at once or
not at all, and every way out gives it back, a crash included, because the kernel
closes the file. `calls` and `charged` count what the provider bills; no code holds
them. An input stands for all that the key hashes besides the head; the legacy key
of lines 1082-1096 is the same hash as the key, so the only older row that can
differ is one under the narrow key, which is the head.

*A bake* in `LessonBake` is one thread's, so an interleaving is the provider's: what every
post, answer and evaluation may turn out to be. `call` is the transport in
progress: its host, the fallback that is left, the attempts made, and whether the payload
still asks for JSON. The route is chosen per call, as `_call_generator` does. A slot is
its verdict: ready, replaced (`spare`), dropped, or one of three faults that the
evaluator treats differently (`Faults`). A round repairs the slots that failed one by one and evaluates
them together; nothing relates two slots of a round, so the model evaluates each at once.
`BakeJobs` takes all of this for the steps between `lease` and `confirm`.

Definitions with a name `X_<fault>` are seeded faults: `X` with one plausible
mistake. `PROJECT.json` pairs each with a property; with the fault in place TLC
finds the property violated, which shows that the property looks at the code.

## Runs

| Run | Instance | Asks |
|---|---|---|
| `lesson` | 1 lesson, 2 workers, 1 tab, 3 attempts, 1 crash, 1 refused access; 442 thousand states | the job store implements `LessonLifecycle`; attempts never overlap; history and retries are exact |
| `live` | 1 lesson, created twice, 2 workers, 2 crashes, 1 refused access; 126 thousand states | every draft is served; every bake ends although a worker may fail to write; every closed attempt goes quiet |
| `lost_ack` | 1 lesson, 1 worker, no crash, 1 refused access | a finding, see below |
| `edits` | 3 blocks in two phases with a warning, a flag and a reserve block, a tray of two, 6 revisions; 481 thousand states | what is accepted was acknowledged as it stands; ids, the tray and the phase order survive every edit; no activity is lost |
| `regeneration_live` | 2 blocks, 2 jobs, 1 worker, 2 attempts, 1 crash, 1 refused access; 510 thousand states | one active job; no request acts on a document its sender has not seen; the teacher's edits survive; every regeneration ends |
| `swept`, `deleted` | small | findings, see below |
| `turns` | 2 bakes, 2 replacements, 2 workers, 2 request threads, 1 refused claim; 119 thousand states | refused work never runs; a class is passed over at most once per turn and never starves |
| `paid` | 2 processes, 2 tokens, 3 inputs of 2 heads, 1 old row, 3 fresh keys, 1 comment; 961 thousand states | no key or token is charged twice; the lock is never left behind; recoveries are final; receipts rest on a review of what they report |
| `doors` | 2 teachers, 2 accounts, 1 invite, 2 tabs, 2 nonces or challenges, 1 request, 2 sessions; 1.46 million states | nothing outlives a revocation; one session per proof; sessions match their account; lost answers are recoverable |
| `bake` | 4 slots in 2 phases, 2 hosts in for each other, 3 repair rounds, up to 2 replacements, 2 bakes; 54 thousand states | the posts of one attempt are bounded; the attempt ends; only whole lessons are reviewed and shipped |
| `tab` | 2 lessons, 3 things done here or in another tab, 1 failed request, answers in any order, ticks sent when nothing else is under way, a poll that may be given up; 4.7 million states | a tab that says it polls does; buttons come back; no page of a lesson stays empty |

The types of each module are proved and no run lists them.

### Bounds, and why they are enough

`MaxAttempt`, `MaxBorn`, `MaxCrashes`, `MaxFaults`, `MaxRevision` and `MaxFresh`
bound counters that the code leaves open; each is a guard of the action that
counts. Two workers are enough for an overlap of attempts, three attempts for an
old worker to meet a row that has moved on twice and for a replayed retry to be
two requests old, two creations for a key that comes back. In `lesson`
the workers are interchangeable and their permutations
are used as symmetry; one lesson is enough there, because a row's fate depends on another
only in the order of claims, which `turns` and the proofs leave open; the runs with liveness use none. In `live` the second incarnation
of the lesson waits while a worker of the first may still be busy; two crashes let a
process that is closed or paused exit and be followed by another that is, too. In `edits` the phases hold one block, two
blocks (one of them in reserve) and none, and six revisions allow every sequence
of five requests. In `regeneration_live` a second job makes the conflict of two active jobs
possible; what the workers may do to the properties of `edits` is proved, not run. In `turns` two rows per class keep a class waiting while it also runs.
In `paid` two inputs share a head with an old row and a third has none; three fresh keys
and a chain of at most two hops (`MaxHops`) let a grant strand, be recovered, and strand
again until the chain is too long; the proofs do without these bounds. In `bake`
a text-questions slot, a slot with a built and an asked replacement, one with none and one in the
later phase meet every kind of drop; three rounds let an answer lose and regain the slot's shape, and one
host has two attempts and JSON mode. The code has three phases and four rounds. In `doors`
two sessions are what two uses of one proof, or two teachers, need; one request at a
time interleaves with the operator, the clock and the doors that are one transaction,
which is where a revocation falls between two of its steps. One teacher is new and one
may have enrolled, so that the long way to a passkey need not be searched from nothing.

In `TeacherTab` `MaxClicks` bounds what the teacher does, in this tab and in others together; with the two bakes' own
steps and the tab's timers that is what moves anything. Three clicks are two overlapping openings and a
button, or a creation, a page left and one come back to. `MaxFailures` is the requests that fail, and
`MaxNet` those that may be under way when a tick sends its own, or when an opening goes on to ask
for the status; requests of clicks are bounded by the clicks alone. Without it two openings of unfinished lessons
can chase each other without end (see "Seen while modelling"). With two lessons each hazard
of switching appears, since whatever belongs to neither of them is treated alike; they are declared symmetric.
The proofs do without all of this.

Deadlock is not checked: the teacher may stop asking, and every run's bounds end in
states where nothing is left to do.

### Fairness

The safety runs assume none. The liveness runs assume what the deployment gives:

- worker threads run on, and a provider call returns because every transport has
  a timeout (weak fairness of a worker's steps, not of its faults);
- the clock and the watchdog go on (weak fairness of becoming overdue and of the
  sweep);
- a process with a closed pool is stopping, and a paused one is replaced by the
  operator; then a process is started again (weak fairness of the exit and of
  startup). A crash in any other state has none;
- a worker that asks for the claim lock again and again gets it (strong fairness
  of `Enter` in `WorkPool`): Python's lock is not a queue, but a route holds it for
  two short transactions and requests come at the pace of people;
- the worker of `LessonBake` runs on and every post returns or times out (weak fairness of
  its steps); nothing is assumed of what comes back;
- nothing is assumed of the teacher, and nothing makes a refused request arrive
  that would fail the queue.

## What is proved

`BakeJobsProofs` proves nine theorems of `Spec` for all sets of lessons, workers
and tabs and all values of the bounds. The assumptions are those `BakeJobs`
names: the value "no lesson" is no lesson, and the bounds are natural numbers.

- `TypeCorrect`: every variable keeps its type. The lemmas before it say what
  each row operator (`Archive`, `Ended`, `Requeued`, `Claimed`, `Recovered`)
  returns.
- `OwnershipHolds`: between its claim and its last write a worker owns its row.
- `LeaseHolds`: a worker past the lease works on a row that says so.
- `NoOverlap`: two workers never hold attempts of the same lesson.

The argument. That attempts do not overlap is not inductive: the step that could
break it is a claim, and it is safe only because the row of a draft has no older
worker. That in turn is ownership: an older worker's row would be baking, or
closed and not yet quiescent, with the worker's token, and neither retry nor
delete touches such a row. Ownership needs the other half: the acknowledgement
that makes a row quiescent comes from the worker itself, because the tokens of
workers are issued, positive, and different from each other. So the inductive
invariant `Safe` is

    TypeOK /\ ClaimsAreReal /\ ClaimsDiffer /\ BakingHasToken
           /\ NobodyWorksWhenDown /\ HoldersOwnTheirRow /\ LeaseIsTruthful

and `NoOverlap` follows from ownership and `ClaimsDiffer`: two owners of one row
would have its one token. `BakingHasToken` is what lets a cancelled baking row
wait for its worker, `NobodyWorksWhenDown` what lets startup mark every closed row
quiescent. The theorem holds with refused store accesses and crashes at any point.

The fifth, `BlockedUnlessRefused`, goes with the finding `lost_ack`: as long as no store access of a
worker was refused, `BlockedMeansWorking` holds, with crashes, cancels and sweeps at any point, so the refused
access is the finding's only cause. Its inductive invariant is `Attended`: while
the process is up and `faults = 0`, every unfinished row has a worker that holds the row's claim, and
if the row is still baking that worker has not given up. The second half is what a cancel or a sweep needs, which turn a baking
row into one that waits. TLC checked `Attended` on the 442 thousand states of `lesson` first.

The other four say what a row remembers and what a tab may conclude from it.

- `HistoryHolds`, `RequestsHold`: the history and the retry requests of a row are exact.
- `RevisionsIdentify`: a tab whose revision is accepted looks at the row as it stands.
- `PromiseKept`: `BakeJobs` implements `LessonLifecycle`.

The argument. `RowsStep` says that a step does one of nine things to a row, `RowStep`, and
what holds of rows (`RecordsAreSound`: the history, the requests and the counters fit each other)
is inductive over these nine. For the revision, `ViewsAreOfThePast` relates every tab to every
incarnation it may have read. The refinement maps initial states to initial states and each step
to a step of the promise or a stutter, with one lemma for the teacher, one for the workers
and one for the rest. Two facts of `Safe` carry it: a worker in a call owns its row, so
no call is under way when a lesson is reopened or removed; and attempts do not overlap, so a
worker's answer ends the only call.

`LessonReviewProofs` and `RegenerationProofs` prove every safety property of `edits` and
`regeneration_live`, for all blocks, phases, tabs, workers, jobs and bounds; those of `edits` once
for the review alone (`ReviewSpec`) and once more for the review with workers (`Spec` of `Regeneration`).
They assume what the modules assume of the published lesson: its ids and activities differ, its blocks stand in
phase order, and its ids and contents are older than the first fresh one.

- `AcceptedWasReviewed`, `AcceptanceStaysCurrent`, `PlanStaysInOrder`, `SlotsStayDistinct`,
  `NothingIsLost` (of `ReviewSpec`): the properties of `edits`, in the order of the run.
- `TypeCorrect`, `ReviewedBeforeAccepted`, `AcceptanceAgrees`, `PlanStaysInOrderWithWorkers`,
  `SlotsStayDistinctWithWorkers`, `NothingIsLostToWorkers`: the same with workers that put
  generated blocks back while the teacher edits.
- `RequestsSeeTheLesson`, `OneAtATime`, `EditsSurvive`: the safety properties of `regeneration_live`.

The argument. The five edits and a finished replacement are all a `Rewritten` step: every block is
an old one with its content, a restored one under a fresh id, or one under an old id whose
acknowledgement is gone if it needs one. Such a step preserves `ReviewSafe`, which
adds to the properties that an acknowledged block was acknowledged with its present content
(`AcksWereSeen`), that an accepted lesson has all acknowledgements it needs
(`AcceptedIsCovered`), and that a tab at the row's revision has seen the row
(`ViewsAreOfThePast`). With the workers, `Safe` adds that a worker's claim names the slot of its
job (`ClaimsMatch`): jobs carry no token, so this, and the comparison of the block at completion, is
all that ties an answer to what was asked. The phase order needs the sequences: where a
block is taken out and put in, and that the plan before the point of insertion has earlier or the
same phases, and the plan after it later ones (`PhaseStartSeparates`). A worker's block keeps the order
because the completion compares the phase of the block it replaces.

That no id and no activity is doubled is stated with cardinalities, as many values as places. `CountedOnce` turns
this into "no two places hold the same", which each edit is then checked against: a move, an inclusion,
a rejection and a restoration leave what the lesson holds as it was, in as many places (`Unmoved` and its
relatives), and a replacement or an edit exchanges one thing for one that is new (`Exchanged`). New means
that no content of the lesson is as new as `fresh` (`HeldIsOld`), the strengthening that makes the pair
inductive. With workers the invariant is `Whole`: the two, and the order of the phases. `NothingIsLost`
follows from the same case distinction, since an exchange of one loses at most one and gains as many.

`ReviewAttestationProofs` proves every property of `paid` for all sets of processes,
tokens, inputs and keys and any `MaxHops`. The assumptions are those of
`ReviewAttestation`: inputs, heads and fresh keys are different values (they are SHA-256
values of differently built texts), and `None` is none of them.

- `TypeCorrect`, `LockHolds`: types, and the lock is held exactly from the reservation
  to the outcome.
- `RecoveriesHold`, `SpendHolds`: a disposition is final, and a key is charged once,
  with a grant if it is a recovery's.
- `ReceiptsHold`, `AnswersHold`: what a receipt rests on, and that it answers its run.
- `TokensHold`: one call and one receipt per token.

The argument. `SpendIsAuthorized` counts calls, and a call follows its reservation by
some steps: it needs that a request between the two is alone (`LockCoversTheCall`),
that its key has not been charged (`CallsAreReserved`), that a key without a row never
was (`RowsComeFirst`), and that a grant's key is used by this grant only
(`RecoveriesAreLinked`). `RecoveriesAreSound` needs the lock once more: a disposition
is made only when nobody can still close the row. Receipts are handed out after the
lock is gone, so what a request that is about to sign rests on must last
(`VerdictsRest`): successes and sealed records are never taken back. Tokens are owned
by one request from the moment they are spent (`TokensAreOwned`). Together with the
properties these are the inductive invariant `Safe`.

`ReceiptsAnswerTheirRun` needs history: a row found at the end of a chain was reserved
for the input at its start, perhaps many recoveries ago. Instead of a history variable
the invariant `AnswersFit` says that there is a function from keys to the input or head
they descend from, which every grant preserves; a step that draws a fresh key extends
it. That all the keys of a chain descend from its source (`ChainDescends`) is an
induction over the hops, made with the least hop that would not.

`StaffAccessProofs` proves every property of `doors` for all sets of teachers, accounts,
invites, tabs, proofs and requests and all bounds; the one assumption it uses besides the
bounds is that `None` is no teacher and no account.

- `TypeCorrect`, `RevocationsHold`, `OneSessionHolds`, `AccountsMatch`,
  `AnswersAreRecoverable`: the five invariants of the run, in its order.

The argument. First, one lemma per table says which actions write it, and two lemmas say
what a step does to sessions: an old one keeps its teacher, door and proof and is never
opened again once it is over (`OldSessions`); a new one comes through one of five doors
(`NewSessions`). `RevocationsHold` is then inductive with the types: a grant goes away only
in the two transactions that end the teacher's sessions, and every mint asks for the grant
again in its own transaction. `OneSessionHolds` needs to know where a spent proof is
between the transaction that spends it and the one that mints: at one request at most,
and at none once a session came of it (`ProofsAreOwned`); a redeemed invite and a spent
code stay so (`InvitesAreSpent`, `CodesAreSpent`). `AccountsMatch` rests on a link being
for good and on what a request about to mint has read (`AboutToMatch`).
`AnswersAreRecoverable` rests on `AnswersReach`: a secret changes only at the request of a
tab that still has its nonce.

`WorkPoolProofs` proves the safety properties of `turns` for all sets of rows, workers and
routes and any number of refused claims. It assumes that bakes and replacements,
workers and routes are different things, and that `NoRow` and `Nobody` are none of them.

- `TypeCorrect`: types. `RefusalHolds`, `OvertakingIsBounded`: the invariants of the run.

The argument. Whoever stands between the two ends of a locked region holds the lock
(`LockIsHeld`), so no claim comes between an insertion and the answer of its request
(`SubmittedWaits`). A replayed retry of a replacement asks the pool about a row that it did not queue, and when it is refused it
ends that row under its worker; but then the pool is closed, and no two
threads run one row before that (`RunnersDiffer`). `BoundedOvertaking` is not inductive: it holds because the
class whose turn comes next may have been passed over once, the other class only as often as
claims were refused (`TurnsCount`, in two forms, for the attempt that is under way and
for the next one), and because a class with an empty queue counts from zero (`WaitingCounts`).

`LessonBakeProofs` proves every safety property of `bake` for all finite sets of slots, all phases, hosts,
fallbacks, attempts, rounds, replacements and bakes.

- `TypeCorrect`: types.
- `OnlyWholeLessons`: what is reviewed or shipped is whole.
- `SpendHolds`: every post, and every end of a call, is paid from a budget fixed when the attempt begins.

The argument. The judgement looks at the slots' verdicts, but that every phase had its turn is
not visible there: `PhasesInOrder` says that earlier phases are closed and later ones
untouched, and rests on the least later phase being the next (`LeastExists`, an instance of the library's
well-foundedness of the numbers). Within a phase `RoundInOrder` says which slots may still be
open: those this round, or the replacements, have to treat. `Orderly` is their
conjunction with the types, `JudgedIsWhole` and `ResultIsLast`.

The budget is counted in calls: `BakeCalls` is the finite set of what one bake may ask for (a phase's records,
a slot's repair in a round, a replacement, the review), and `CallsLeft` those that are still ahead
(`Ahead`). The proof shows call by call that none that is behind comes back (`Dwindles`), and that the
call that ends was ahead (`AtHandIsAhead`) and is so no longer; the library's facts on cardinalities turn this into
numbers. Within a call `CallStepSpends` counts the posts: another attempt, leaving JSON mode and the one
fallback each use up some of `MostPosts`, which exists because a finite set of numbers has a greatest one
(`GreatestExists`). `Budgeted` adds to `Orderly` what this needs: an open call belongs to a stage that
asks the provider and to a host with an attempt left (`CallInOrder`), and rounds count from one
(`TurnsInOrder`).

`TeacherTabProofs` proves every property of `tab`, for all sets of lessons and all bounds. It assumes that `NoLesson` is no
lesson and that the bounds are numbers, and nothing of the teacher, the order of answers or what fails.

- `TypeCorrect`: types, with `Typed`, which adds which requests and answers there can be.
- `PollsStayAlive`, `ButtonsReturn`, `PagesHaveContent`: the three properties of the run.

`PollingIsAlive` is inductive with the types because each place that clears the timer either sets it again, leaves a request, or
stops the poll. For the buttons it does not suffice that a request is under way, since another function's
end clears the shared flag; what is invariant is that a flag is never set without one (`Buttons`). An empty page is safe
for one of two reasons (`Content`): the step that emptied it changed what the effect of the page depends on, so that effect has still to
run; or the effect has run and asked, and what it asked for, or the status that follows, or an answer to a
creation, will fill the page whichever answer comes first. The effect compares the document and the card, not only the current
lesson, and the seeded fault shows that it must. Taking a request out of the middle of the queue is what
the sequence lemmas (`WithoutOne` and the like) are for.

Only model-checked: the liveness properties of `live`, `regeneration_live`, `turns` and `bake`, since the proof
system does not handle fairness and ENABLED, and the violated properties of the three findings, of which
`BlockedUnlessRefused` proves `BlockedMeansWorking` for behaviours without a refused access.
Every invariant and every action property of a passing run is proved.

## What the runs found

- `lost_ack`: a refused acknowledgement in the worker's finally clause is never
  repeated. Until the process restarts, retry and DELETE answer that the previous
  attempt is still finishing, although nothing is running.
- `swept`: regeneration jobs have no attempt token. When the sweep fails a job
  whose worker is still busy and the teacher retries it, the worker of the swept attempt
  completes or fails the new attempt.
- `deleted`: a ready lesson is deleted while a replacement for it is being
  generated, although the contract says that a row is never removed while provider
  work may be in flight.
Seen while modelling, and not stated as properties: a retry keeps `created_at`,
so a lesson retried again and again overtakes younger drafts; a replayed
regeneration retry that meets a pool that has just closed fails a job it did not queue and that a worker
may be running (`app.py` 1796-1805, `store.py` 3172-3180), which is why `RefusedWorkNeverRuns` speaks of requests
that queued their row; revisions restart at 1 when a key is deleted and created again,
so `RevisionIdentifiesState` is promised for one incarnation of a lesson; a seeded
lesson has no quiescence mark and cannot be deleted. A grant given for a row under the
old, narrow key serves the first run about any input of that head, and the verdict is
then replayed to runs about its other inputs: `ReceiptsAnswerTheirRun` says exactly
where the receipt is bound to the head only. A tab whose first redemption
lost its answer may enter by another invite: it drops its nonce with that answer, and the
first session stays open where nobody can reach it, which is why
`LostAnswersAreRecoverable` leaves this tab out. A redemption that is delayed past
the answer of an earlier one rotates the secret under a tab that has dropped its
nonce. Revoking a session between the two transactions of an enrollment does not stop
the passkey from being stored; the passkey opens nothing without a grant.

Of the tab. Comments in `App.tsx` and the end-to-end test promise more than the code keeps once requests overlap, answers
overtake each other or a request fails. TLC finds each of these runs in `TeacherTab` when the sentence is stated as an invariant or,
where it says that something ends, as a leads-to; no configuration of the project lists them.

- "Never orphan poll loops" (`App.tsx` 958): `openLesson` looks at nothing after its awaits. When two rows of the list are
  opened in a row, the first one's late status answer fills the second one's page and starts
  a poll that no effect ends, since the current lesson does not change again.
- "Catalog row switches don't kill polls" (1192): a cancel's list answer that comes after another lesson was opened calls
  `clearPoll`, which ends the other one's poll.
- "No stale" steps (1188): a tick that the server answered before a cancel or a retry is applied after it and puts the card back to an
  older revision.
- "Converge on ready/failed" (1189), and "the poll always converges" (`app/e2e/teacher-flow.spec.ts` 371): after 260 ticks the
  poll is given up, and the card says "baking" until the teacher clicks. When the list fails inside
  `mutateBake`, a retry that was accepted is never polled. A retry replayed after another tab has retried the
  same failure, or after its answer was lost, may be answered with "ready"; `mutateBake` polls only
  for draft and baking, so the page rests on a card without a button. A creation whose answer is lost leaves such a
  card, too.
- A button may combine the lesson of the page with the revision of another's card or document (1288): a lesson is created while another is
  being opened, the page goes to the other with the new one's card, and cancel sends that card's revision. The server refuses it unless the
  two revisions happen to be equal. The document of one lesson may also stand on the page of another whose poll goes on.
- A lesson that becomes ready while another is being opened takes the page over, since `openLesson` navigates
  wherever the teacher is by then. Two unfinished lessons opened in a row can chase each other: each answer moves the page, the
  effect of the page asks again, and requests are sent as long as answers keep crossing.
- "Check now" while a poll tick waits for its answer starts a second loop for the same lesson. The
  tick overwrites the handle of the new timer, and `clearPoll` can then cancel only one of two.

Of the bake: `RoundRobinGeneratorSelector` (`provider_factories.py` 364) is documented as a
selection per bake, but `_call_generator` asks it for every call, so one lesson mixes
primaries; the older adapter asked once. A question patch that the fallback wrote is merged into a copy of
the earlier record (`density_evaluator_v3.py` 870), which keeps the name of the first model as the block's
provenance. A 200 answer whose body is not JSON raises ValueError out of the transport,
although its docstring calls every malformed envelope GeneratorUnavailable: in a
phase's first call it fails the lesson as an engine error (`EngineBreaks`). An outage in
the middle of a repair is taken for a bad record; when both hosts stay out, the lesson ends as
below its floor and not as an unavailable provider, and is not baked again.

## Not modelled, and why

- The text of lessons, activity types, notes, answer keys, schemas, error codes and
  wording: no property tells them apart.
- The engine's certification, allocation, prompts and gates: sequential functions of text.
  `LessonBake` takes their verdicts as they come. The older `engine_adapter.py`, with the
  repair planner of `repair.py`, is not the production baker.
- `progress_json`: one thread writes it per attempt, it changes no column that
  decides anything, and its writes carry the attempt's token as the modelled ones do.
- The process-wide call budget: a semaphore around every post, given back by a `with`.
- The prompts, gates and calls of a replacement under `Regeneration`, which takes them for one step.
- The V4 boundary: start, invoke and stop with a count of active calls are 60 lines; the
  operations behind them are in a vendored wheel.
- In `StaffAccess`: the two roles, the local static teacher, several passkeys per
  teacher, the ten codes of a set. In `ReviewAttestation`: the checks that decide
  whether a request starts (OIDC claims, GitHub's answers, comment text) and the
  signature.
- In `TeacherTab`: sign-in and log-out, the filter by owner, the poll of a replacement
  (`App.tsx` 1690-1789, which does compare the lesson it was for), feedback, export, the
  content of the list, and the list request that follows an
  opening by a tick, whose answer only redraws the list and whose failure the tick takes for its own.
- Activity feedback: one upsert that nothing else reads.
- Request validation, migrations, preferences, the catalogue, configuration:
  no state shared between actors. The migrations' constraints and backfills were used
  to fix the types and the initial rows.
- Offline tools, packaging, vendored code: not part of the service.

## Plan

Done, in this order: `LessonLifecycle` and `BakeJobs` with its proofs, the promise and
the protocol that keeps it; `LessonReview` and `Regeneration`; `WorkPool`,
`StaffAccess`, `ReviewAttestation` and `LessonBake`, each with its proofs; `TeacherTab` and its proofs.

Left:

1. `V4Boundary` (start, invoke, stop): stop returns, and nothing runs after it.
2. `ActivityBake`: the calls behind one regeneration, on the model of `LessonBake`.
