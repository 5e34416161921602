# A TLA+ model of the IoT-Bench harness

IoT-Bench asks a language model for firmware, builds the answer, runs it in a
simulator and judges what the simulated board did. What a published score rests
on is not one function but the order of many steps: rows appended to files that
outlive a crash, builds in directories several processes share, evidence that
must have been produced by the firmware it is filed under. This directory models
those steps in TLA+, checks them with TLC and proves some of them with TLAPS. It also
models the bench itself: from a task file through its wiring, its stimulus and the
firmware that is supposed to solve it to the verdict of the validators, on all three
boards, because a score means nothing on a task that its own reference would fail.

## 1. The system

| Part | State it keeps | Operations |
|---|---|---|
| Leaderboard run (`bench/leaderboard/run.py`, `evaluate.py`) | `attempts.jsonl`, `experiment.json` in a run directory; the rows, counters and retry count of the session in memory | start fresh, resume, force; requeue inconclusive rows; attempt a key; count; finalize |
| Selection (`leaderboard/manifest.py`) | the manifest, the evidence index | expand levels, tasks, skill modes and repetitions into attempts; gate on publishable evidence |
| Provider calls (`leaderboard/providers.py`) | retry count, latency | call, classify HTTP errors, back off, give up |
| Extraction, prompts, skills (`leaderboard/extraction.py`, `prompts.py`, `skills.py`) | the submission's files | parse fenced blocks, compose prompts, hash skill packs |
| Reports (`leaderboard/reports.py`, `charts.py`) | none; read from a run directory | pass@1, pass@k, coverage, publishability, aggregation |
| Case pipeline (`bench/cli.py`, `runner.py`) | a case directory: sketch, firmware, VCD, serial log, `verification.json` | generate, build, simulate, validate, write provenance, archive, re-validate |
| Build lock (`runner.py`, `build_lock`) | a lock file, its age | acquire, steal, fall through, release |
| Staged builds (`runner.py`, `build_espidf_case`, `build_zephyr_case`) | one staging directory per case id and host | remove, copy, configure, compile, copy back |
| Simulator front ends (`runner.py` for Wokwi, `renode.py`) | scripts, process, captured logs | generate the script, run with a time limit, convert the logs |
| Evidence (`evidence.py`, `docs/*-evidence.json`) | the evidence index | recompute hashes, judge freshness |
| Validators (`validators/`, `vcd.py`, `serial.py`, `lcd1602.py`, `scenarios.py`, `static.py`) | none | decode pins, serial lines, I2C and the LCD bus; compare with the scenario |
| Configuration (`config.py`, `diagrams.py`, `tasks/`) | task and board descriptions | load, merge, wire |
| Simulated chips (`bench/chips`) | the registers of a sensor | answer bus transactions, pin edges and time |
| Reference firmware (generated by `runner.py`, kept in `cases/`) | the state machine of a sketch | poll inputs, debounce, drive outputs |
| `doctor`, `evaluate`, `repeatability` (`runner.py`, `cli.py`) | none | probe tools; run the pipeline for one task after the other |

How they interact: `run_experiment` calls the provider, extraction and
`evaluate_source` for one attempt key after the other; `evaluate_source` runs the
case pipeline in a new workspace until its verdict is not `IF`; the pipeline builds
(under the lock, in the stage), simulates, validates, and turns every exception
into one of four verdicts (`BC`, `BF`, `CF`, `IF`). Harness processes share nothing
but the file system: the lock file, the stages, and the run directory across
restarts. The reports read a run directory at any time.

Inside one run of a case, `config.py` has checked the task file, `scenarios.py` turns its
stimulus into timed steps, `diagrams.py` or `renode.py` makes the bench (parts, wires or
routes, initial values), the firmware runs on it until the time limit, and the validators
read what the serial port, the logic analyzer and the display's bus left behind. Each of
these parts knows a pin, a part id, a polarity or a delay a second time, in words of its
own, and nothing but a run in the simulator compares them.

What is hard here: a session may be killed between any two writes and is resumed
from files alone; inconclusive rows are deleted and attempted again; the lock has
a timeout, may be stolen and is only advisory; stages are shared by processes that
know nothing of each other; a verdict that blames the submission must not be
caused by the environment. On the bench: stimulus and firmware run at the same time and
neither waits for the other; the board starts late, waits end late, contacts bounce, pins
move while they are set up; several changes share one instant; the last level of a trace
has no event after it.

What makes each part correct:

| Part | Properties |
|---|---|
| Leaderboard run | one row per key; conclusive rows are kept; the record never claims more than the rows show; a user who resumes gets a complete directory |
| Provider calls | bounded waiting; nothing is asked that the directory answers; no attempt is given up too early |
| Reports | coverage is at most one and exact; pass@k is at least pass@1 |
| Build lock, stages | exclusion, no starvation; a build gets its own firmware and is charged only for compiling its own submission |
| Case pipeline, evidence | what is judged was produced by the run it is filed under, with the inputs it is filed with |
| Scenarios, wiring, simulators | both simulators replay one stimulus; it ends within the time limit; it arrives at the pins the firmware reads, with their polarity |
| Decoders and validators | a trace is the history of its pin; the display shows what the program holds; the reference passes |
| Variants | no fixed output passes all variants of a task |
| Simulated chips and the firmware that talks to them | what is read is what the sensor was set to, however late polls and waits are; no exchange spoils the next |

## 2. The modules

### `LeaderboardRun`, `AttemptLog`, `MCLeaderboardRun`, `LeaderboardRunProofs`

`LeaderboardRun` is one run directory and the sessions that work on it. `attempts`,
`torn`, `experiment` and `used` are what is on disk: the complete rows, whether the
file ends in half a row, the readable record, and whether the directory is empty.
Everything else is the memory of `run_experiment`. `pc` names its program points,
one action leads from each to the next: `Begin` decides between fresh, resume and
force, `ClearAttempts`/`ClearExperiment` delete the owned files in either order,
`Load` or `LoadRefused` read the rows, `Truncate`, `RewriteRow` and `Rewritten` are
`_rewrite_attempts` row by row, `Describe` writes the first record, `Open` opens the
file with "w" or "a", `Skip` and `Attempt` are the loop, the generation, format and
evaluation actions are `_run_one` and `evaluate_source`, `AppendRow` and `Count` are
the two writes after an attempt, `Finish` the last record. `Interrupt` and `Fail` are
the two except clauses. `Kill` ends the process anywhere in `KillPoints` and may leave
the file being written incomplete.

A row keeps its key, model, stage of failure, retries and verdict; prompts,
responses, token counts and costs are left out. The provider's own retries are one
step here; `GenerationCalls` has them in detail.

`AttemptLog` is what the directory promises: a set of rows with one row per key,
from which only inconclusive rows may disappear unless the user wipes it, and the
status "complete" only when every planned key is answered. `LeaderboardRun`
implements it under a mapping in which a rewrite in progress stands for its result.

### `GenerationCalls`, `Reports`, `MCSession`

`GenerationCalls` extends `LeaderboardRun` with the requests behind one generation, the
two copies of the retry loop in `providers.py`. `call` says whether a request is out or
the loop sleeps, `attempt` is the loop's counter and later the `num_model_calls` of the
row, `waited` a history of the sleeps. A response is one of eight kinds, the ones that
the two loops treat differently: `Retryable`, `Final` and `Aborting` say which lead to
another request, to a row for an inconclusive attempt, or to an exception that ends the
session. `Answered`, `GiveUp` and `Abort` take the step of `LeaderboardRun` they stand for
with their own, so a detailed session is a session of `LeaderboardRun` by the way the module is
written, and what holds of every run directory holds here. Response texts and token usage
are left out; `fixture:` and `file:` models answer at the first request or end the session.

`Reports` has the operators of `reports.py` on the rows and the record of a run directory:
`Cells` and `RowsOf` group, `Tally` counts, `PassedGroups` and `RepGroups` make pass@k,
`EligibleIn`, `ScoredEligible` and `CoverageDenominator` the coverage. Since a report may
be made at any time of any directory, its properties are invariants of the sessions,
not of invented rows. All tasks of a plan have the same platform here.

### `BuildLock`, `MCBuildLock`

`build_lock`, one action per file system call: `OpenExcl`, `Stat`, `Steal` (the unlink
after the stat), `CheckDeadline`, `Wake`, `Leave` and `Release` (the unlink in the
finally clause). `file` holds the age of the lock file; `Tick` ages it and the waiters.
Ages saturate where the code stops telling them apart, so time needs no bound.
`Timely` says that a live builder is done before its file looks stale, `Mortal` which
processes may be killed (`Die`); a dead one comes back only in `StagedBuild`
(`Restart`).

### `StagedBuild`, `MCStagedBuild`, `BuildProofs`

`StagedBuild` extends `BuildLock` with what happens while a process builds: `Remove`,
`CopySketch`, `Configure` (Zephyr only), the three ways a compile command may end
(charged failure, success, silence without firmware), `CopyBack` with the check that
firmware exists, and `InfraFails` for timeouts, missing tools and file errors. `app`
and `built` are the stage of each case id, which killed builds leave behind. A compile
command may fail on any submission: `CompileFails` does not ask why, as the code does
not, and the history variable `tried` says what the command was given. So
`ChargedForOwnBuild` is about whose build was charged, not about whose fault it was.

### `CasePipeline`, `MCCasePipeline`, `CasePipelineProofs`

One case directory and every command that works on it. `current` holds the content
of its inputs (task with prompt, reference sketch, harness, installed tools), `loadable`
whether `case.yaml` or `case.json` can be read and names the sketch;
`caseFiles`, `firmware`, `output`, `manifest` and `index` are the generated files, the
firmware with the sketch it was built from, the output of each variant with the
firmware and task it was simulated with, `verification.json` and the evidence index.
A content stands for its hash. `pc` follows `run_case`: `Clean`, then `Build` or its
failures, then `Archive` and a simulation for each variant in order, then `Judge` and
`Record`. `Edit` changes an input and `EditCase` the case files at any time, `Kill` ends a
run anywhere. `Generate` writes the case files and, with whatever source the harness has for
it, the reference sketch. The commands
that only read (`Revalidate` for validate-artifacts, `WriteIndex`, `Plan`) are one step
each and happen between runs. Two history variables serve the properties: `mine`, the
variants the run in progress has simulated itself, and `steady`, that nothing was
edited since it began.

A `build` command is a run that is over after `Build`, the same step as a kill there.
The judgement of an output is its content: good, bad, or not decodable; static checks
and the comparison between variants are part of that content.

### `Scenarios`, `Wiring`, `RenodePlatform`, `SignalProofs`: the bench of a task

These three have no variables; they are what the harness computes from a task file. A task,
a fixture and a scenario are records with the fields of the file, no others.

`Scenarios` turns each of the six families into steps (`ButtonPresses`, `BouncedButton`,
`PirStates`, `AnalogPositions`, `ControlSequence`, `Timeline`, under `GenerateScenario`),
has the checks of `config.py` on them (`ScenarioValid`, `VariantsValid`) and the end that
`config.py` computes for the time budget (`ScenarioEnd`, `BudgetValid`), and says when each
control is set under either simulator: `WokwiDrives` replays the steps, `GenerateResc` adds
delays up and flushes them before the next control, and `RenodeDrives` reads that script.

`Wiring` is `diagrams.py`: the board profiles, the parts and wires of each fixture family
and of each component of a composite one, the renaming for a board (`ApplyBoardProfile`),
and the lint of the result (`DiagramAccepted`). `NetLevel` says what a pin reads when
some switches of a diagram are closed: the rail behind a closed switch, else the one
behind a resistor. That, and what keypad and encoder do, is Wokwi's part and external.

`RenodePlatform` is `renode.py`: the parts a fixture provides, pins in their spellings, the
GPIO routes and the inversion of active-low parts, the matrix of the keypad, the initial
and later monitor commands with the conversion of a position or a voltage into an ADC
count, and what it refuses (`RenodeCaseAccepted`).

### `Traces`, `Lcd`, `Validators`, `SignalProofs`: from signals to a verdict

`Traces` has the hook that logs probed pins under Renode (`HookTrace`), the reader of VCD
events (`Normalize`), and the arithmetic on segments; `Lcd` the bytes that the drivers
send, the bus they are sent on (`BusTrace`), and the decoder that finds nibbles at the
falling edges of the enable line and keeps cursor and frames; `Validators` thirteen
families of checks (`ValidateCheck`) and their combination (`ValidateTask`). A line of
the serial log is its words and its numbers; a word is one glyph.

### `Chips`, `ChipSketches`, `ChipProofs`: sensors that Renode loads

`Chips` translates the C# models of `bench/chips` that the Nano 33 BLE tasks with
HC-SR04, DHT11, DS18B20 and MPU6050 load. A chip is what its class keeps; the operators
named after its handlers (`SonarDrive`, `DhtDrive`, `WireDrive` for `OnGPIO`, `MpuWrite` and
`MpuRead`) take it at a time in microseconds to the chip afterwards. What a chip drives on
its pin is a wave, the level changes it has scheduled: the queue of levels and its timer
become the times of those changes, so an edge in the middle of an answer finds the
part that is still to come. `WireDrive` tells a reset, a 0 and a 1 by the length of a low,
`WriteSlot` collects a command, `ReadSlot` gives the next bit of the scratchpad with its
sum; `ReadRegister` has the counts with their rounding, saturation and full scales.

`ChipSketches` is the other end: `Measure` and `DhtBytes` time pulses with the 32768 Hz clock
of the kernel (`WaitLevel`), `ReadCx16` resets, commands and samples bit by bit, `MpuReading`
puts words together. One round of a sketch holds a whole exchange; `RoundWith` in `Board`
is a round that also leaves `chip` changed. How late a poll sees a rise or a fall, and how
much longer than asked a busy wait takes, is one of `Delays`, chosen when the board starts.

### `Board`, the sketches, `Bench`, `MCBench`, `BenchProofs`, `ReadingProofs`

`Board` declares the state of a run. `bench` is what `Hardware` makes of a task: the
levels of each input pin, the keys held, sensor values and counts as functions of time,
computed from the drives of its simulator and the wires or routes. `mem` are the
variables of the sketch, `pins` its outputs; `vcd`, `serial` and `panel` are the
evidence as it grows. `Round` is one round of the sketch's loop: it writes pins, prints
and shows at `clock` and then waits, perhaps a millisecond longer than asked.
`PowerUp` is what happens before the loop, pulses on the pins included. `DeepMerge` and
`RunsOf` make one job of a task for each of its variants.

With `ChipSketches`, `TimedSketches`, `ButtonSketches`, `KeypadSketches` and `SensorSketches` are
the reference firmware of 32 tasks of the Nano 33 BLE, 24 of the ESP32-S3 and 21 of the Mega.
Each operator is the loop body of one sketch on one board, named after the function of
`runner.py` that prints it; where one function prints the sketches of several
tasks (`digital_follow`, say), so does the operator.

`Bench` puts them together. `Lint` accepts or refuses a task as `config.py`,
`diagrams.py` and `renode.py` do; `Prepare` makes the bench of the next variant; `Boot` and
then the rounds of `ZephyrLoop`, `EspLoop` or `ArduinoLoop` run the firmware; `Timeout`
stops it at the time limit and goes on to the next variant or to `Judge`, which is
`ValidateCase` with the comparison between variants. `MCBench` has the tasks: the 77 that
sketches are modelled for, with the fixtures, stimuli, variants and validators of their
files, and 45 probes whose stimulus ends at, before or after the time limit or whose
stimulus or wiring is faulty.

## 3. The runs

| Run | Result | What it shows |
|---|---|---|
| `LeaderboardRun` | passes | two overlapping plans of two keys, all modes, one retry, verdicts BC, CF and IF, kills at every point from `open` on: `NoDuplicateRows`, `CompleteMeansAnswered`, `MissingNeverUnderstated`, `ConclusiveKept`, `ImplementsAttemptLog` and, with fairness, `EventuallyComplete` |
| `LeaderboardRun_repeated` | violated | `--skill-modes none,none` records an attempt twice |
| `LeaderboardRun_rewrite` | violated | a kill during the rewrite of a resume loses conclusive rows |
| `Session` | passes | an OpenAI-compatible and an Anthropic model, up to three requests, a task twice or two tasks of which one is out of the score, resumed and forced: `BoundedWait`, `NoAnswerAskedAgain`, `CoverageAtMostOne`, `CoverageIsExact`, `PassAtKIsAtLeastPassAt1` |
| `Session_anthropic` | violated | the Anthropic path gives up where the OpenAI path asks again (`GivesUpLast`) |
| `BuildLock` | passes | two timely processes, one of which may die: exclusion, and nobody waits forever |
| `BuildLock_steal` | violated | two waiters steal the same stale file and both hold the lock |
| `StagedBuild` | passes | one ESP-IDF and one Zephyr case, lock on but unreliable, processes killed and restarted: `OwnFirmware`, `ChargedForOwnBuild` |
| `StagedBuild_shared` | violated | two processes on one case exchange firmware |
| `CasePipeline` | passes | two variants, two versions of every input, a reference and a submission, one edit of an input or of the case files at any time, any number of runs, failures and kills: `JudgedOwnOutput`, `AcceptedIsSound`, `PublishableIsEarned` |
| `CasePipeline_drift` | violated | the leaderboard plans a case as publishable after its harness or reference sketch changed (`PlannedIsFresh`) |
| `Bench` | passes | the 77 tasks and 45 probes of `MCBench`, from the lint to the verdict; its eleven properties are below |

What the properties of `Bench` say:

* `ReferencePasses`: the reference firmware passes its own task, every variant of it,
  whenever the board starts, whatever its pins do before, and however late its waits end.
* `SimulatorsAgree`, `StimulusFits`, `InputsFollowStimulus`: the two replays set the same
  controls at the same times; the end that `config.py` computes is that of the steps
  that `scenarios.py` makes, and lies before the time limit; a pin leaves its resting level
  exactly while its button is pressed.
* `ReportsFollowPresses`, `SafeOpensOnCode`: along the run, the log has one line per
  press, in order and within the reaction time, bounces not counted; the safe is open if
  and only if some group of four keys was the code.
* `TraceIsHistory`, `ScreenIsIntended`: what the decoders make of the signals is the
  history of the pins and the text the sketch holds.
* `VariantsRefuteConstants`: what was recorded of one variant fails the validator of
  another. The water-level tasks are excepted: a fall starts with the words that the rise
  asks for and its bars are those the rise ends with.
* `ReadingsAreValues`: the firmware never fails to read a chip, and what it has read is the
  value that the scenario had set when the reading began: to a centimetre over or two short
  for the echo, exact for the DHT11, within half a count for the accelerometer, with polls a
  tick late and waits too long. A reading of the DS18B20 takes 200 ms; what it gives is exact
  for some time within it.
* `BenchTypeOK`: the shape of the state.

The violated runs besides `LeaderboardRun_repeated` show what a document or a
docstring of the repository says and the code does not do; `PROJECT.json` quotes the
lines. In `LeaderboardRun_repeated` the program writes a file that it refuses itself.

Bounds. The state of `LeaderboardRun` is finite without a bound on sessions, kills or
retries of the user: rows are bounded by the keys. Two keys per plan let one be kept,
one requeued and one be missing at the same time; two plans let a resume use another
selection. Two or three processes and a timeout of two or three ticks let every order
of a stat, an unlink and a create happen. In `CasePipeline` runs are unbounded and only
edits are counted: one edit already lets every generated file be stale against every
other, in every order with failures and kills, because the files outlive the runs. Two
variants let outputs of two runs lie side by side.

Three requests per generation have a first, a middle and a last one. The values of
`Retry-After` lie below, inside and above what `_retry_delay` lets pass, besides no header
or one that is no number of seconds. Evaluations end in BC at once in `Session`: the other
rows of its reports, CF and IF, come from the generation. Changes of the model and of
the plan between sessions leave directories of both models and of more rows than the
record plans; `CoverageAtMostOne` excludes the latter by `Planned`, since coverage does
exceed one after a resume with a smaller selection.

`Bench` needs no bound of its own: every run ends at the time limit of its task file, so
all rounds of all sketches are explored. Boot times are 0 on the Mega, 3 ms on the
Nano and 50 or 120 ms on the ESP32-S3, 60 ms more with a display; stimuli start at 200 ms
at the earliest, so the latest boot with a display leaves the firmware 20 ms. Loops
that do not wait are polled every 10 ms, finer
than any press. In the tasks that report presses, keys and motion a wait ends up to a
millisecond late, chosen anew in each round. The probes put a stimulus one
millisecond on either side of the time limit and break rules of the lint one at a time.

In the tasks with a chip, a poll sees a rise or a fall up to one tick of the clock (31 us) late
and a busy wait takes up to 10 us longer than asked. A run has one of `Delays` throughout:
delays chosen anew for each of the 72 bits of an exchange would be 5^72 runs, and those of
one kind add up, which is the worst for a deadline. `MCDelays` has none, each kind alone (one
may undo another) and all at once; `ReadingsAlways` is for every delay up to a tick. The waits
stop at 10 us because of `ReferencePasses`: the heat alarm stays in the windows of its task
file with waits 14 us longer, but not with 20. It still reads right then, but
reads take longer, and the LED that toggles between them is lit for 803 thousandths of a
window of which 800 are allowed. The code says of `k_busy_wait` only how long was asked, so
this is a margin and no finding.

`KillPoints` leaves the opening steps of a session out of the passing run: a kill inside
a rewrite is the subject of `LeaderboardRun_rewrite`, and one between the rewrite and
the first record leaves an old "complete" in `experiment.json` until the next resume.

Fairness. `EventuallyComplete` assumes that a running session goes on (`WF` on its
steps, it is sequential code whose calls all have time limits) and that the user
resumes (`WF` on `Resume`); it claims completion only when interruptions, failures and
kills cease and no half row was left, since such a row makes every resume refuse.
`NoStarvation` assumes that time passes and that each live process goes on: the lock
loop polls with a sleep, and the compile command has a time limit. `Bench` claims no
liveness: a run is cut at its time limit whatever the firmware does, and what has to
happen by then is part of `ReferencePasses`. It is the only run without the check for
deadlock, since its phases done and refused are final.

## 4. The proofs

`LeaderboardRunProofs` proves, for all keys, plans, models, retries and kill points,
`TypeCorrect` (`Spec => []TypeOK`; the strengthening is that an attempt in progress has
a position in the plan) and `RowsAreDistinct` (`[]NoDuplicateRows`, assuming no plan
repeats a key, which is what the violated run `LeaderboardRun_repeated` lacks). Its
invariant `DupInv` says where rows can come from at each program point: from the
conclusive loaded rows behind the position while rewriting, from kept keys or plan
positions behind in the loop.

It also proves what a reader of the directory relies on, when no plan repeats a
key and no kill hits the opening steps of a session (`DistinctPlans`,
`KillsInLoop`; without them the violated runs show how it fails):

* `ConclusiveRowsAreKept`, by `KeptInv`: from the end of the rewrite on, every conclusive
  row that was loaded is among the rows on disk.
* `MissingIsHonest` and `CompleteIsAnswered`, by `RecordInv` and `ProgressInv`: at each
  program point the counters of the session, the rows on disk and the last record stand
  in a fixed relation, such as that rows may be one ahead of the counters
  between `AppendRow` and `Count`, and a record counts no key as answered that has no row.
  Neither property is inductive, since a record outlives the session that wrote it.
* `DirectoryIsAttemptLog`: `LeaderboardRun` implements `AttemptLog`. Every step is matched
  to a step of the abstract log or a stutter; the opening steps all stutter, because a
  rewrite in progress stands for its result.

It proves of the provider calls `CallsAreTyped` and `WaitsAreBounded` for any limit on the requests and
any header values, the latter by an invariant that ties the time waited to the number of the
request. `AnswersAreAskedOnce` says that no request goes out for a key that the directory
answers, if no plan repeats a key: `DupInv` is kept by the detailed sessions too, and from it
the key in progress has no row from the moment it is chosen until its own is appended.
It also proves the three properties of the reports for any tasks, levels, skill modes,
repetitions and models, when a key is a triple and, for the last two, plans are products
of tasks, modes and repetitions: `CoverageIsBounded` because the rows of a cell have
distinct keys that the record plans, `CoverageCountsAll` because a complete record has a
row for each of them, `PassAtKDominates` by counting: the passed groups times the
repetitions are at least the passed rows.

`BuildProofs` proves `LockExcludes`, mutual exclusion for any number of processes and
any timeout when builders live and are timely, by the invariant that the file exists
exactly while someone holds the lock and is never stale, which also gives
`LockFileStays`; and `BuildsAreIsolated` and `ChargesAreOwn`, that processes on
different cases never see each other's firmware and are charged only when the compile
command failed on their own submission, with or without the lock and whatever killed builds
left behind. `LockTypeCorrect` and `StageTypeCorrect` are
the type invariants.

`CasePipelineProofs` proves the type invariant and all three properties of the run
`CasePipeline`, for any number of variants, versions, edits and broken sketches. None of
them is inductive. `RunInv` adds what a run relies on at each point: the firmware is
its own from `Build` on, the output of every variant behind `pos` is its own, that of
the variant at `pos` is gone before its simulation starts. `RecordInv` carries what was
true when the record was written: there is one record, its verdict is the judgement
of its outputs, and, unless something was edited during the run, all its hashes
belong together. TLC checked both as invariants of the run before they were proved.

`Folding` is what the proofs about readers, decoders and scripts rest on. `FoldLeft` of the
community modules is a recursion over index sets that no prover unfolds by itself; and an
induction theorem that takes an operator as a parameter cannot be used. So the step of a fold
is a CONSTANT operator of this module, and `W == INSTANCE Folding WITH Op <- Step` gives its
theorems for a named step: `FoldSteps` (a fold is the last of a run of states, one per
element), `FoldKeeps` (a set that holds the base and is closed under the step holds the
result), `FoldConcat`, `FoldAppend`, `FoldEmpty`, `FoldOne`, `FoldTwo`, `RunsAgree`. Induction itself is `NatSet`: a set of
naturals with 0 that is closed under successor is all of them.

`SignalProofs` has what is computed from a task file and from signals, without state:

* Scenarios. `ScriptTellsTheSame`: for any list of steps, the monitor script with its collected
  and flushed delays sets the same controls at the same times as the steps themselves, and
  lasts as long. `ScenarioEndIsTheEnd`: for all six families, the end that `config.py` computes
  is the sum of the delays in the steps that `scenarios.py` makes, defaults included.
* Traces. `NormalizeKeepsHistory` for one event, `ReaderKeepsHistory` for a list of them: a
  trace whose times increase and whose levels alternate stays one and ends in the last
  level. `HookKeepsHistory` and `TracesOfLogs` say so for the hook of Renode and for what
  the reader makes of its log.
* Chips, where a run has a few values: `SonarErrorIsSmall`, that an echo of any length, seen
  with any lateness at either end and at any phase of the clock, is measured to -2..1 cm;
  `BurstReadsAllWords`, that a burst of 14 bytes gives back all seven counts for any
  quantities and full scales, by `WordsAreCounts` (bytes to signed words) and the
  saturation of each count; and `RoundsToNearest`, that a count is off by half a unit at most.

The rest of `SignalProofs` follows a text from the driver to the frame, for messages of any length:

* Levels. `ReaderTellsEveryLevel`: whatever the VCD reader drops because it repeats a level or
  shares an instant, the reader of a line (`ValueAt`) gives at every moment the last level
  written by then. It goes by `Shows`, what a trace tells at one time, kept by each event.
* Pulses. `EnableFalls` counts one falling edge per pulse and dates it, `PulseIsLatched` says
  that the lines then have the levels of that pulse, and `DecoderLatchesPulses` puts this
  together: decoding a bus is a fold of `DecodeNibble` over the pulses, in order.
* Bytes. `ByteIsDecoded` takes two nibbles to a byte if the decoder waits for a first one,
  and `SlipEndsWithData` says why the ESP driver writes a blank before it clears: after a
  stray pulse the decoder is half a byte out of phase, and the first byte with the other level
  of the select line brings it back, at the price of whatever it read until then.
* Text. `CharacterAppears`, `TextAppears` and `LinesAppear` say what a cursor and a text leave in
  a row that ends in blanks, `HistoryKeepsUp` that the last frame of the history is the screen,
  `StrippedIsText` and `FrameTells` what a reader of the frame makes of it.

`BenchProofs` proves four invariants of `Bench` for any list of tasks that satisfies
`TasksAssumption`, any boot times that satisfy `BootsAssumption` and any delays of the
firmware that satisfy `DelaysAssumption`. `AlwaysPlaced` is the invariant `Placed`: whatever is simulated is one of
the runs of the present job, its task was accepted, and `bench` is its hardware.
`AgreeAlways` (`SimulatorsAgree`) and `FitsAlways` (`StimulusFits`) follow from it with the
theorems on scenarios. `TracesAlways` (`TraceIsHistory`) needs more than the traces
themselves: an event may only be added if the clock has not gone back, and how long a
round takes depends on the variables of the sketch: the segment of a Morse word, the keys
typed into the safe, how late waits are, how long an exchange on the wire lasts. The
invariant `Traced` says of each probed pin that its trace is a history up to the clock that
ends in the pin's level (`Follows`), and of the variables what the waits depend on
(`Remembers`); `ZephyrMoves`, `EspMoves` and `ArduinoMoves` have one step per sketch.

`ScreenAlways` (`ScreenIsIntended`) is about the boards with a display. The property speaks of a frame,
but what the next message does depends on where the cursor stands, whether half a byte is pending
and what is left of earlier texts, and what it should say depends on the entry, whose length
decides whether old characters are covered. The invariant `Screened` has all of it: in phase
`run` the decoder is ready for a byte, its history ends in its screen, and the screen is the one of the
sketch's variables (`ShowsSafe`, `Greets`). `BootScreens` establishes it from the first messages
of each board, stray pulse included; `ZephyrSafeRound`, `KeySafeRound`, `EspSafeRound` and
`ArduinoSafeRound` keep it. They need that an entry has keys of the keypad only (`KeyCodes`, so
that no key reads as a blank or as the verdict), at most four of them and fewer on the Nano, which
judges at the fourth at once; this is the part `Typing` of `Remembers`.

`ChipProofs` and `ReadingProofs` prove `ReadingsAlways` (`ReadingsAreValues`) for any tasks, any
values of the sensors over time, any boot times, and polls and waits that are late by any
0 to 31 us. TLC takes the values of the task files and the five `MCDelays`; `ChipProofs`
follows a reading of each chip from its first edge:

* Waves. `Resting` says that a line keeps a level from some time on. `PollSees`: a poll that waits
  for a level returns the first time at which the line has it, late by at most `Delays`; so a
  pulse is seen to within the lateness of two polls (`RiseSeen`, `FallSeen`, `WithinCycles`).
* DHT11. `BitRead`: of the 500 or 1500 us that a bit is high, so much is seen that it falls on the
  right side of 1000. `ByteRead` and `BytesRead` put 40 bits together and `ShiftedIn` says what
  shifting in the first m of a byte leaves; that the checksum agrees follows.
* DS18B20. `Waiting` is a chip for which a reset is the next thing to happen, whatever half a
  command is left in it; `Listens` and `Gives` are the chip with some bits of a command taken
  and some of the scratchpad given. `ByteWritten` and `NineGiven` go through the slots of the
  wire, each with its fall, its sample and its rise at their times; `CrcOfEight` and `BitsMakeByte`
  say that nine bytes whose sum is right are the ones that were sent. `HeatReads` is the exchange:
  its value is the temperature at a time within it, and it leaves the chip `Waiting` again, for
  all that the last slot writes a bit into it.
* HC-SR04. `SonarReads`: both edges of an echo are seen before the deadline, so `SonarErrorIsSmall`
  applies. MPU6050 (`ImuReads`, in `ReadingProofs`): an awake chip at its power-on scales gives
  counts within half of one, and is awake after it.

`ReadingsAreValues` is not inductive: that the next reading succeeds depends on what the last one left
on the wire. The invariant `Measured` has that: between two rounds the trigger and the echo are low, the
line of the DHT11 has been high, the DS18B20 waits for a reset, the MPU6050 is awake
(`SonarKept`, `DhtKept`, `HeatKept`, `ImuKept`), the last reading, if any, is what the sensor
had then, and a firmware that has no such sensor has no reading. `Prepared` says that the bench that the task describes is the one that
was set up before the firmware starts.

Assumptions: the named assumptions in the modules (finite sequences without
repetition, naturals as limits, `TasksAssumption`: times in task files are integers, lists
are lists and no two channels of the analyzer give one signal two pins;
each task names itself and a board that has a profile; `BootsAssumption`: an ESP does not start
in the first two milliseconds, in which its pins are reset; `DelaysAssumption`: polls and
waits are late by at most a tick of the 32768 Hz clock; `SensorsAssumption`: a task that
measures has the sensor it is named for, set to what that sensor can send, which is 2 to
512 cm for the echo, a byte for the DHT11, a word for the others; `DisplayAssumption`: the greeting is
for a board with a display), and the hypotheses that the theorems state (timely
builders, distinct cases, plans without repeated keys, kills in the loop).

Only model-checked: what holds of the tasks as they are and not of any task.
`ReferencePasses`, `InputsFollowStimulus`, `ReportsFollowPresses`, `SafeOpensOnCode`
and `VariantsRefuteConstants` fail for a task with presses shorter than
a scan or variants that ask for the same thing; a theorem would have to say what a task
file must be like, which the repository nowhere does but by these tasks. `BenchTypeOK`
needs the range of every number that a sketch prints or waits for. Liveness (`EventuallyComplete`,
`NoStarvation`) and `ENABLED` are out of the prover's reach.

## 5. Limits of the models

* `steady`: `write_verification` hashes the inputs after the simulation, so an edit during
  a run is recorded as what was run. `AcceptedIsSound` and `PublishableIsEarned` speak of
  the other runs.
* `LintPasses` is the check of a Renode case, which regenerates the platform file. A
  Wokwi case whose `scenario.yaml` is older than its task passes the lint unless
  `--regenerate` is given; the record then hashes that scenario.
* One process works on a case directory. Two at once are possible and not modelled.
* A tool that is killed by a timeout is taken to be gone. Processes it started may
  live on and write into the stage.
* Whose fault a failed compile command was is not checked, because the code does not know:
  `results.py:33` reserves CF for failures attributable to the submission's own source, and
  `build_zephyr_case` separates the configure step for that reason, but any other failure of
  `idf.py build` (which configures as well) or `west build` is charged, a full disk or a killed
  compiler included. `CompileFails` does the same.
* `evidence_entry` leaves the sketch out of the comparison when the case files cannot be
  loaded (`evidence.py:114-119`). The record of a `--sketch` submission, or of an older reference
  sketch, is publishable then, although `evidence.py:7-10` wants the reference sources to
  match. `Publishable` does the same, so `PublishableIsEarned` claims the reference
  sketch only while `loadable`; the rest of it holds in any case.
* A kill leaves a whole row or half a row. A row cut just before its newline would be read as
  a whole one, and the next session would append to the same line and make both unreadable;
  `MissingNeverUnderstated` and `CompleteMeansAnswered` do not speak of such a directory.
* `--archived-vcd` and `--allow-unverified-artifacts`, which exist to skip the provenance
  check, are left out.

On the bench:

* A word on the display is one glyph, so two texts that differ within a word are the same.
* A buzzer that sounds changes its pin once per round; the pitch of a tone and `pwm` are
  not modelled. The outputs of a round are recorded at its start.
* Serial log, traces and display are decoded as they grow. The decoders are folds over
  their logs, so this comes to the same as decoding them at the end.
* Not modelled of the validators: static checks, which read program text; the pwm and
  BME280 checks; regular expressions; numeric ranges over whole logs; the time
  windows of display frames. The validators in `MCBench` are without those checks, so
  `ReferencePasses` says nothing of them.
* Not checked of a task file: ids of cases and variants, validator parameters, sidecar files.
* `NetLevel`, the keypad, the encoder and Renode's parts behave as the harness and the
  sketches take them to; they belong to the simulators.
* The pulse on an ESP32-S3 pin before it is set up is the one that
  `docs/esp32s3-task-status.md:47` reports of that simulator.

* An exchange with a chip is one step of the sketch: nothing else happens on the board
  meanwhile, which holds for these sketches (the button of the displays only sets a flag).
  A read of a DHT11 that fails is taken to fail at its first wait; `ReadingsAreValues` shows
  that none fails.

Not modelled at all: of the simulated chips the DS1307, the BME280, the SAADC and the matrix keypad
in their own registers (the keypad and the converter are taken as their effect on a pin or
a reading), with the sketches that talk to the first two; the chips of Wokwi, which belong
to that simulator, and with them the ESP32-S3 and Mega sketches for a DHT11, DS18B20,
HC-SR04, MPU6050 or the parking sensors. Generation of scripts and sketches as text,
`doctor` (it probes tools), the batch commands (the pipeline for one task after the other),
charts, and the data in `tasks/`, `cases/` and `results/`, apart from the task files that
`MCBench` transcribes.

## 6. Plan

Done so far, in this order: the leaderboard run with its abstract log, lock and
stages, the case pipeline, calls and reports, then the bench with scenarios,
wiring, decoders, validators, reference firmware and chips, and the proofs of section 4. What
is left:

1. The rest of the chips: `DS1307` and `BME280` as register machines, the parking sensors
   with their bands and hysteresis; delays chosen anew at each bit.
2. Extensions of what is here: two processes on one case directory, orphaned tools in
   `StagedBuild`, the request that produced a row in `LeaderboardRun`, the aggregation of
   several directories in `Reports`.
3. Proofs: `BenchTypeOK`; the properties of the bench that are only model-checked, from a statement of what a task file
   must be like.
