------------------------------- MODULE BenchProofs -------------------------------
(* What holds of the bench at all times, for every list of task files: a run  *)
(* is of an accepted task; the two simulators are told the same stimulus,     *)
(* which ends before the time limit; and whatever a firmware does with its    *)
(* pins, every trace is the history of one.                                   *)
EXTENDS Bench, SignalProofs

\* What a variant overrides is its scenario, attributes and validator; the rest is
\* the task's.
LEMMA VariantOfTask ==
    ASSUME NEW task, TypedTask(task), NEW v
    PROVE  LET run == TaskForVariant(task, v) IN
           /\ run.timeout = task.timeout /\ run.jitter = task.jitter /\ run.poll = task.poll
           /\ run.platform = task.platform /\ run.fixture = task.fixture /\ run.task_id = task.task_id
           /\ Has(run, "scenario") <=> Has(task, "scenario") \/ Has(v, "scenario")
           /\ Has(run, "scenario") => run.scenario = IF Has(v, "scenario") THEN v.scenario ELSE task.scenario
<1> DEFINE merged == [attrs |-> Get(v, "attrs", NoAttrs),
                      validator |-> DeepMerge(task.validator, Get(v, "validator", [unused |-> 0]))]
           told == IF Has(v, "scenario") THEN Overlay([scenario |-> v.scenario], task) ELSE task
           run == TaskForVariant(task, v)
<1>1. DOMAIN merged = {"attrs", "validator"}
    OBVIOUS
<1>2. run = Overlay(merged, told)
    BY DEF TaskForVariant
<1> HIDE DEF merged
<1>3. {"task_id", "platform", "fixture", "timeout", "poll", "jitter"} \subseteq DOMAIN task
    BY DEF TypedTask
<1>4. CASE Has(v, "scenario")
    <2>1. told = [x \in {"scenario"} \cup DOMAIN task |-> IF x = "scenario" THEN v.scenario ELSE task[x]]
        BY <1>4 DEF Overlay
    <2> HIDE DEF told
    <2> QED BY <1>1, <1>2, <1>3, <1>4, <2>1 DEF Overlay, Has
<1>5. CASE ~Has(v, "scenario")
    BY <1>1, <1>2, <1>3, <1>5 DEF Overlay, Has
<1> QED BY <1>4, <1>5

\* Every run of an accepted task has a stimulus that the configuration check has
\* seen and found to end before the time limit.
Checked(run) ==
    /\ run.timeout \in Nat /\ run.jitter \in Nat /\ run.poll \in Nat
    /\ Has(run, "scenario") => /\ TypedScenario(run.scenario) /\ run.scenario.family \in Families
                               /\ ScenarioValid(run.scenario) /\ BudgetValid(run.scenario, run.timeout)

\* That is what the lint makes sure of (VariantScenarioValid and BudgetValid).
LEMMA RunsAreChecked ==
    ASSUME NEW task, TypedTask(task), Accepted(task), NEW i \in DOMAIN RunsOf(task)
    PROVE  Checked(RunsOf(task)[i])
<1>1. CASE task.variants = <<>>
    <2>1. i = 1 /\ RunsOf(task)[i] = task
        BY <1>1 DEF RunsOf
    <2> QED BY <2>1 DEF Checked, TypedTask, Accepted
<1>2. CASE task.variants # <<>>
    <2> DEFINE v == task.variants[i]
               run == TaskForVariant(task, v)
    <2>1. i \in DOMAIN task.variants /\ RunsOf(task)[i] = run
        BY <1>2 DEF RunsOf
    <2>2. /\ run.timeout = task.timeout /\ run.jitter = task.jitter /\ run.poll = task.poll
          /\ Has(run, "scenario") <=> Has(task, "scenario") \/ Has(v, "scenario")
          /\ Has(run, "scenario") => run.scenario = IF Has(v, "scenario") THEN v.scenario ELSE task.scenario
        BY VariantOfTask
    <2>3. v \in ToSet(task.variants)
        BY <2>1 DEF ToSet
    <2>4. Has(v, "scenario") => /\ TypedScenario(v.scenario) /\ v.scenario.family \in Families
                                /\ ScenarioValid(v.scenario) /\ BudgetValid(v.scenario, task.timeout)
        BY <2>1, <2>3 DEF TypedTask, Accepted, VariantsValid, VariantScenarioValid
    <2>5. Has(task, "scenario") => /\ TypedScenario(task.scenario) /\ task.scenario.family \in Families
                                   /\ ScenarioValid(task.scenario) /\ BudgetValid(task.scenario, task.timeout)
        BY DEF TypedTask, Accepted
    <2> HIDE DEF run, v
    <2> QED BY <2>1, <2>2, <2>4, <2>5 DEF Checked, TypedTask
<1> QED BY <1>1, <1>2

\* Its steps are a list that lasts no longer than the time limit.
LEMMA StepsFit ==
    ASSUME NEW run, Checked(run)
    PROVE  /\ StepList(Steps(run)) /\ Time(Steps(run)) <= run.timeout
           /\ Has(run, "scenario") => /\ Time(Steps(run)) = ScenarioEnd(run.scenario)
                                      /\ ScenarioEnd(run.scenario) < run.timeout
<1>1. CASE Has(run, "scenario")
    <2>1. StepList(GenerateScenario(run.scenario)) /\ Time(GenerateScenario(run.scenario)) = ScenarioEnd(run.scenario)
        BY <1>1, ScenarioEndIsTheEnd DEF Checked
    <2>2. Steps(run) = GenerateScenario(run.scenario)
        BY <1>1 DEF Steps
    <2>3. run.timeout \in Nat /\ run.timeout > ScenarioEnd(run.scenario)
        BY <1>1 DEF Checked, BudgetValid
    <2>4. Time(Steps(run)) \in Nat
        BY <2>1, <2>2, PausesAreSeq
    <2> QED BY <2>1, <2>2, <2>3, <2>4
<1>2. CASE ~Has(run, "scenario")
    <2>1. Steps(run) = <<>>
        BY <1>2 DEF Steps
    <2>2. StepList(<<>>)
        BY DEF StepList, ToSet
    <2>3. Pauses(<<>>) = <<>>
        BY DEF Pauses
    <2>4. Time(<<>>) = 0
        BY <2>3, SumFold!FoldEmpty DEF Time
    <2> QED BY <1>2, <2>1, <2>2, <2>4 DEF Checked
<1> QED BY <1>1, <1>2

-----------------------------------------------------------------------------
(* The bench *)

\* A job that is being worked on was accepted, and its bench is that of the variant
\* whose turn it is.
Placed ==
    /\ job \in DOMAIN Tasks /\ stage \in DOMAIN Jobs[job]
    /\ phase \notin {"lint", "refused"} => Accepted(Tasks[job])
    /\ phase \in {"boot", "run"} => Task = Jobs[job][stage]

\* A round of any firmware is one of the board only.
LEMMA RoundsLeaveJob ==
    ASSUME ZephyrLoop \/ EspLoop \/ ArduinoLoop
    PROVE  /\ phase = "run" /\ clock < Task.timeout
           /\ UNCHANGED <<job, stage, bench, phase, evidence, verdict>>
<1>1. CASE ZephyrLoop
    BY <1>1, Zenon DEF ZephyrLoop, Runs
<1>2. CASE EspLoop
    BY <1>2, Zenon DEF EspLoop, Runs
<1>3. CASE ArduinoLoop
    BY <1>3, Zenon DEF ArduinoLoop, Runs
<1> QED BY <1>1, <1>2, <1>3

\* A job has a run, or one for each variant.
LEMMA StagesOfJob ==
    ASSUME NEW j \in DOMAIN Tasks
    PROVE  /\ Len(Jobs[j]) \in Nat \ {0} /\ DOMAIN Jobs[j] = 1..Len(Jobs[j])
<1>1. Jobs[j] = RunsOf(Tasks[j]) /\ TypedTask(Tasks[j])
    BY TasksAssumption DEF Jobs
<1> DEFINE vs == Tasks[j].variants
<1>2. vs \in Seq(ToSet(vs))
    BY <1>1 DEF TypedTask
<1>3. CASE vs = <<>>
    BY <1>1, <1>3 DEF RunsOf
<1>4. CASE vs # <<>>
    <2>1. Len(vs) \in Nat \ {0} /\ DOMAIN vs = 1..Len(vs)
        BY <1>2, <1>4
    <2>2. Jobs[j] = [i \in 1..Len(vs) |-> TaskForVariant(Tasks[j], vs[i])]
        BY <1>1, <1>4, <2>1 DEF RunsOf
    <2> HIDE DEF vs
    <2> QED BY <2>1, <2>2
<1> QED BY <1>3, <1>4

\* What is simulated is the task that was prepared.
LEMMA BenchOfTask == \A task : Hardware(task).task = task
BY DEF Hardware

\* It holds before the lint,
LEMMA PlacedInit == Init => Placed
<1> SUFFICES ASSUME Init PROVE Placed
    OBVIOUS
<1>1. job \in DOMAIN Tasks /\ stage = 1 /\ phase = "lint"
    BY DEF Init
<1>2. 1 \in DOMAIN Jobs[job]
    BY <1>1, StagesOfJob
<1> QED BY <1>1, <1>2 DEF Placed

\* and every step keeps it: only the lint accepts a job, only Prepare sets a bench up,
\* and the time limit goes on to the next variant or to the verdict.
LEMMA PlacedNext == Placed /\ [Next]_vars => Placed'
<1> SUFFICES ASSUME Placed, [Next]_vars PROVE Placed'
    OBVIOUS
<1>j. job' = job
    <2>1. CASE ZephyrLoop \/ EspLoop \/ ArduinoLoop
        BY <2>1, RoundsLeaveJob
    <2> QED BY <2>1 DEF Next, vars, Lint, Prepare, Boot, Timeout, Judge
<1>1. CASE Lint
    BY <1>1 DEF Lint, Placed, Task
<1>2. CASE Prepare
    <2>1. bench' = Hardware(Jobs[job][stage]) /\ phase = "prepare" /\ phase' = "boot" /\ stage' = stage /\ job' = job
        BY <1>2 DEF Prepare
    <2>2. bench'.task = Jobs[job][stage]
        BY <2>1, BenchOfTask
    <2> QED BY <2>1, <2>2 DEF Placed, Task, Jobs
<1>3. CASE Boot
    BY <1>3 DEF Boot, Placed, Task, Jobs
<1>4. CASE ZephyrLoop \/ EspLoop \/ ArduinoLoop
    BY <1>4, RoundsLeaveJob DEF Placed, Task, Jobs
<1>5. CASE Timeout
    <2>1. phase = "run" /\ phase' \in {"prepare", "judge"} /\ job' = job
        BY <1>5 DEF Timeout
    <2>2. stage' = stage \/ (stage < Len(Jobs[job]) /\ stage' = stage + 1)
        BY <1>5 DEF Timeout
    <2>3. DOMAIN Jobs[job] = 1..Len(Jobs[job]) /\ Len(Jobs[job]) \in Nat
        BY StagesOfJob DEF Placed
    <2>4. stage' \in DOMAIN Jobs[job]
        BY <2>2, <2>3 DEF Placed
    <2> QED BY <2>1, <2>4 DEF Placed, Jobs
<1>6. CASE Judge
    BY <1>6 DEF Judge, Placed, Jobs, Task
<1>7. CASE UNCHANGED vars
    BY <1>7 DEF vars, Placed, Jobs, Task
<1> QED BY <1>1, <1>2, <1>3, <1>4, <1>5, <1>6, <1>7 DEF Next

\* A bench that runs is that of the variant whose turn it is, of a task that the lint
\* accepted (simulate in bench/runner.py).
THEOREM AlwaysPlaced == Spec => []Placed
BY PlacedInit, PlacedNext, PTL DEF Spec

\* So whatever is simulated has passed the configuration check.
LEMMA BenchIsChecked ==
    ASSUME Placed, phase \in {"boot", "run"}
    PROVE  Checked(Task)
<1>1. /\ job \in DOMAIN Tasks /\ stage \in DOMAIN Jobs[job] /\ Accepted(Tasks[job])
      /\ Task = Jobs[job][stage] /\ Jobs[job] = RunsOf(Tasks[job])
    BY DEF Placed, Jobs
<1>2. TypedTask(Tasks[job])
    BY <1>1, TasksAssumption
<1> QED BY <1>1, <1>2, RunsAreChecked

\* Both simulators are told the same story, for every scenario of every family and
\* all times: StepsToResc adds delays up and flushes them where Wokwi replays each.
THEOREM AgreeAlways == Spec => []SimulatorsAgree
<1>1. Placed => SimulatorsAgree
    <2> SUFFICES ASSUME Placed, phase = "boot"
                 PROVE  LET wokwi == WokwiDrives(Steps(Task))
                            script == GenerateResc(Steps(Task), Task.timeout)
                            renode == RenodeDrives(script)
                        IN /\ wokwi = [i \in DOMAIN renode |-> [f \in {"at", "part", "control", "value"} |-> renode[i][f]]]
                           /\ Total(LAMBDA c : IF c.kind = "run" THEN c.ms ELSE 0, script) = Task.timeout
        BY DEF SimulatorsAgree
    <2>1. StepList(Steps(Task)) /\ Task.timeout \in Nat /\ Time(Steps(Task)) <= Task.timeout
        BY BenchIsChecked, StepsFit DEF Checked
    <2> DEFINE script == GenerateResc(Steps(Task), Task.timeout)
               renode == RenodeDrives(script)
    <2>2. /\ WokwiDrives(Steps(Task)) = [i \in DOMAIN renode |-> Seen(renode[i])]
          /\ SumFold!Folded(0, Runtimes(script)) = Task.timeout
        BY <2>1, ScriptTellsTheSame DEF Time
    <2>3. Total(LAMBDA c : IF c.kind = "run" THEN c.ms ELSE 0, script) = Task.timeout
        BY <2>2, RuntimesTotal
    <2> QED BY <2>2, <2>3 DEF Seen
<1> QED BY <1>1, AlwaysPlaced, PTL

\* No accepted stimulus is cut off, of a task or of a variant: the end that
\* config.py computes is that of the steps the runner generates.
THEOREM FitsAlways == Spec => []StimulusFits
<1>1. Placed => StimulusFits
    <2> SUFFICES ASSUME Placed, phase = "boot", Has(Task, "scenario")
                 PROVE  LET end == Total(LAMBDA s : IF s.kind = "delay" THEN s.ms ELSE 0, Steps(Task)) IN
                        end = ScenarioEnd(Task.scenario) /\ end < Task.timeout
        BY DEF StimulusFits
    <2>1. Time(Steps(Task)) = ScenarioEnd(Task.scenario) /\ ScenarioEnd(Task.scenario) < Task.timeout
        BY BenchIsChecked, StepsFit
    <2>2. Total(LAMBDA s : IF s.kind = "delay" THEN s.ms ELSE 0, Steps(Task)) = Time(Steps(Task))
        BY PausesTotal DEF Time
    <2> QED BY <2>1, <2>2
<1> QED BY <1>1, AlwaysPlaced, PTL

-----------------------------------------------------------------------------
(* A round of any firmware *)

\* A round moves the pins of the firmware and the clock goes on; the analyzer
\* records the change at the time before.
Advances ==
    \E levels, ms, late :
        /\ ms \in Nat /\ late \in 0..Task.jitter
        /\ pins' = Overlay(levels, pins) /\ vcd' = Recorded(levels) /\ clock' = clock + ms + late
\* A round leaves the pins alone.
Rests == pins' = Overlay(Nothing, pins) /\ vcd' = Recorded(Nothing)

\* The tasks whose firmware writes a pin in its loop.
Writers == {"blink_led_1hz", "blink_led_no_delay", "blink_two_leds", "blink_led_morse_code",
            "buzzer_button", "buzzer_doorbell", "hcsr501_motion_alarm", "tilt_detection_alarm",
            "clap_switch", "buzzer_toggle_led_freq", "safebox", "safebox_display",
            "photoresistor_nightlight", "ds18b20_heat_alarm"}
Moves == IF Task.task_id \in Writers THEN Advances ELSE Rests

\* What can be typed on a keypad: anything but a blank and the word for an open safe.
KeyCodes == Char \ {Blank, Glyph.Success, NoKey}

\* What the wait of a round depends on: the segment of the Morse code, the keys that
\* were typed, how late a busy wait ends.
Segment(m) == "state" \in DOMAIN m /\ m.state \in 0..17
Typing(m) ==
    /\ {"entry", "open"} \subseteq DOMAIN m /\ m.entry \in Seq(KeyCodes) /\ m.open \in BOOLEAN
    /\ Len(m.entry) <= 4
    /\ Len(m.entry) = 4 => m.open /\ Task.platform # "zephyr_nano33ble"
Lateness(m) == "late" \in DOMAIN m /\ m.late.wait \in Nat
Remembers ==
    /\ Task.task_id = "blink_led_morse_code" => Segment(mem)
    /\ Task.task_id = "safebox_display" => Typing(mem)
    /\ Is("zephyr_nano33ble", {"ds18b20_heat_alarm"}) => Lateness(mem)

\* A round is one of the two, whatever it keeps, prints or shows; the same for a
\* round with a chip.
LEMMA RoundAdvances ==
    \A variables, levels, lines, bytes, ms :
        ms \in Nat /\ Round(variables, levels, lines, bytes, ms) => Advances
BY DEF Round, RoundWith, Advances

\* The same with a chip.
LEMMA RoundWithAdvances ==
    \A exchanged, variables, levels, lines, bytes, ms :
        ms \in Nat /\ RoundWith(exchanged, variables, levels, lines, bytes, ms) => Advances
BY DEF Round, RoundWith, Advances

\* A round that names no level leaves the pins alone.
LEMMA RoundRests ==
    \A exchanged, variables, lines, bytes, ms :
        /\ Round(variables, Nothing, lines, bytes, ms) => Rests
        /\ RoundWith(exchanged, variables, Nothing, lines, bytes, ms) => Rests
BY DEF Round, RoundWith, Rests

\* So do the rounds that read a DHT11,
LEMMA DhtRests ==
    \A sensor, read, variables, lines, bytes, ms :
        DhtRound(sensor, read, variables, lines, bytes, ms) => Rests
BY SMTT(20) DEF DhtRound, RoundWith, Rests

\* and those of the water level.
LEMMA WaterRests == ZephyrWaterLevelDisplay => Rests
BY Zenon DEF ZephyrWaterLevelDisplay, Round, RoundWith, Rests

\* A firmware runs on its own task.
LEMMA TaskOfRun == \A platform, ids : Runs(platform, ids) => Task.platform = platform /\ Task.task_id \in ids
BY DEF Runs, Is

\* A safe without a display takes no time for one.
LEMMA NoBytes == 7 + Len(Nothing) \div 2 \in Nat
BY DEF Nothing

\* Two LEDs, whatever their pins.
LEMMA LedsAdvance ==
    ASSUME Task.poll \in Nat
    PROVE  \A led1, led2 : BlinkTwoLeds(led1, led2) => Advances
BY RoundAdvances DEF BlinkTwoLeds, Poll

\* The segment of the Morse code stays one of eighteen, so its wait is known.
LEMMA MorseAdvances ==
    ASSUME Task.task_id = "blink_led_morse_code", Remembers
    PROVE  \A led : MorseSos(led) => Advances /\ Segment(mem')
<1> TAKE led
<1>0. mem.state \in 0..17 /\ "state" \in DOMAIN mem
    BY DEF Remembers, Segment
<1>1. 200 * SegmentUnits(mem.state) \in Nat
    <2>1. mem.state \div 2 + 1 \in 1..9
        BY <1>0
    <2>2. \A i \in 1..9 : Pattern[i] \in Nat
        BY DEF Pattern
    <2>3. SegmentUnits(mem.state) \in Nat
        BY <2>1, <2>2 DEF SegmentUnits
    <2> QED BY <2>3
<1>2. (mem.state + 1) % 18 \in 0..17
    BY <1>0
<1>3. MorseSos(led) => Advances
    BY <1>1, RoundAdvances DEF MorseSos
<1>4. MorseSos(led) => mem' = [mem EXCEPT !.state = (@ + 1) % 18]
    BY DEF MorseSos, Round, RoundWith
<1>5. mem' = [mem EXCEPT !.state = (@ + 1) % 18] => Segment(mem')
    BY <1>0, <1>2 DEF Segment
<1> QED BY <1>3, <1>4, <1>5

\* The keypad of the safe with a display, and the step of its scan as a definition.
SafeRows == <<<<1, 11>>, <<1, 2>>>>
SafeCols == <<<<1, 1>>, <<1, 8>>, <<0, 23>>>>
SafeKey(keys, k) == IF k \in DownKeys(SafeRows, SafeCols) \ mem.held THEN Append(keys, LegendOf(k)) ELSE keys
SafeFold == INSTANCE Folding WITH Op <- SafeKey

\* What is printed on the keys is no blank and not the word for an open safe.
LEMMA LegendIsCodes == \A r, c \in 1..4 : Legend[r][c] \in KeyCodes
<1>1. \A r \in 1..4, c \in 1..4 : Legend[r][c] \in {49, 50, 51, 65, 52, 53, 54, 66, 55, 56, 57, 67, 42, 48, 35, 68}
    BY DEF Legend, Digit
<1>2. {49, 50, 51, 65, 52, 53, 54, 66, 55, 56, 57, 67, 42, 48, 35, 68} \subseteq KeyCodes
    BY DEF KeyCodes, Char, Blank, Glyph, NoKey
<1> QED BY <1>1, <1>2

\* The keys of a scan are keys of the keypad, in the order of the scan.
LEMMA KeysAreCodes == NewKeys(SafeRows, SafeCols) \in Seq(KeyCodes)
<1> DEFINE scan == RowMajor(2, 3)
           J == [i \in 0..6 |-> Seq(KeyCodes)]
<1>1. scan = [i \in 1..6 |-> <<((i - 1) \div 3) + 1, ((i - 1) % 3) + 1>>]
    BY DEF RowMajor
<1>2. \A i \in 1..6 : LegendOf(scan[i]) \in KeyCodes
    <2> TAKE i \in 1..6
    <2>1. ((i - 1) \div 3) + 1 \in 1..4 /\ ((i - 1) % 3) + 1 \in 1..4
        OBVIOUS
    <2> QED BY <1>1, <2>1, LegendIsCodes DEF LegendOf
<1>3. 6 \in Nat /\ DOMAIN scan = 1..6 /\ <<>> \in J[0] /\ J[6] = Seq(KeyCodes)
    BY <1>1
<1> HIDE DEF scan
<1>4. \A i \in 1..6 : \A a \in J[i - 1] : SafeKey(a, scan[i]) \in J[i]
    <2> TAKE i \in 1..6
    <2>1. J[i - 1] = Seq(KeyCodes) /\ J[i] = Seq(KeyCodes)
        OBVIOUS
    <2> DEFINE k == scan[i]
    <2>2. LegendOf(k) \in KeyCodes
        BY <1>2
    <2> HIDE DEF J, k
    <2>3. ASSUME NEW a \in Seq(KeyCodes) PROVE SafeKey(a, k) \in Seq(KeyCodes)
        <3>1. Append(a, LegendOf(k)) \in Seq(KeyCodes)
            BY <2>2
        <3> QED BY <3>1, Zenon DEF SafeKey
    <2> QED BY <2>1, <2>3 DEF k
<1> HIDE DEF J
<1>5. SafeFold!Folded(<<>>, scan) \in J[6]
    BY ONLY <1>3, <1>4, SafeFold!FoldKeeps
<1>6. Len(SafeRows) = 2 /\ Len(SafeCols) = 3
    BY DEF SafeRows, SafeCols
<1>7. NewKeys(SafeRows, SafeCols) = SafeFold!Folded(<<>>, scan)
    BY <1>6 DEF NewKeys, SafeFold!Folded, SafeKey, scan, FoldLeft, MapThenFoldSet, SafeFold!FoldLeft,
                SafeFold!MapThenFoldSet, Max, SafeFold!Max
<1> QED BY <1>3, <1>5, <1>7

\* A scan that returns a key returns one of the keypad, the first it finds or the last.
LEMMA ScansAreCodes ==
    ASSUME NEW rows, NEW cols, NEW order \in {RowMajor(4, 4), ColumnMajor(4, 4)}
    PROVE  /\ FirstKey(order, rows, cols) \in KeyCodes \cup {NoKey}
           /\ LastKey(order, rows, cols) \in KeyCodes \cup {NoKey}
<1>1. DOMAIN order = 1..16 /\ \A i \in 1..16 : LegendOf(order[i]) \in KeyCodes
    <2>1. \A i \in 1..16 : ((i - 1) \div 4) + 1 \in 1..4 /\ ((i - 1) % 4) + 1 \in 1..4
        OBVIOUS
    <2>2. CASE order = RowMajor(4, 4)
        BY <2>1, <2>2, LegendIsCodes DEF RowMajor, LegendOf
    <2>3. CASE order = ColumnMajor(4, 4)
        BY <2>1, <2>3, LegendIsCodes DEF ColumnMajor, LegendOf
    <2> QED BY <2>2, <2>3
<1> DEFINE found == Found(order, rows, cols)
<1>2. found \in SUBSET (1..16)
    BY <1>1 DEF Found
<1> HIDE DEF found
<1>3. CASE found = {}
    BY <1>3, Zenon DEF FirstKey, LastKey, found
<1>4. CASE found # {}
    <2>1. Max(found) \in found /\ Min(found) \in found
        BY <1>2, <1>4, GreatestIndex, LeastIndex
    <2>2. FirstKey(order, rows, cols) = LegendOf(order[Min(found)])
        BY <1>4, Zenon DEF FirstKey, found
    <2>3. LastKey(order, rows, cols) = LegendOf(order[Max(found)])
        BY <1>4, Zenon DEF LastKey, found
    <2> QED BY <1>1, <1>2, <2>1, <2>2, <2>3
<1> QED BY <1>3, <1>4

\* The words on the second line of a safe, and a screen that says one of them below
\* what was typed.
SafeWords == {Glyph.Success, Glyph.Fail, Glyph.Denied, Glyph.Enter}
Showing(p, entry, word) ==
    /\ p \in Ready /\ Told(p)
    /\ p.screen.frame[1] = RowOf(<<Glyph.Input, Blank>> \o entry)
    /\ p.screen.frame[2] = RowOf(<<Glyph.Status, Blank, word>>)

\* Two and one make three.
LEMMA JoinTwoOne == \A a, b, c : <<a, b>> \o <<c>> = <<a, b, c>>
<1> TAKE a, b, c
<1> DEFINE S == {a, b, c}
           u == <<a, b>>
           v == <<c>>
           x == u \o v
<1>1. u \in Seq(S) /\ v \in Seq(S) /\ Len(u) = 2 /\ Len(v) = 1 /\ u[1] = a /\ u[2] = b /\ v[1] = c
    OBVIOUS
<1> HIDE DEF u, v, S
<1>2. x \in Seq(S) /\ Len(x) = Len(u) + Len(v) /\ (\A i \in 1..Len(u) : x[i] = u[i])
      /\ \A i \in 1..Len(v) : x[Len(u) + i] = v[i]
    <2>1. u \in Seq(S) /\ v \in Seq(S)
        BY <1>1
    <2> QED BY ONLY <2>1, JoinAny
<1> HIDE DEF x
<1>3. Len(x) = 3 /\ x[1] = a /\ x[2] = b /\ x[3] = c /\ x \in Seq(S)
    BY <1>1, <1>2
<1>4. x = <<a, b, c>>
    <2> DEFINE y == <<a, b, c>>
    <2>1. DOMAIN x = 1..3 /\ DOMAIN y = 1..3 /\ y[1] = a /\ y[2] = b /\ y[3] = c
        BY <1>3
    <2>2. x = [i \in 1..3 |-> x[i]] /\ y = [i \in 1..3 |-> y[i]]
        BY <1>3, <2>1
    <2> HIDE DEF y
    <2>3. \A i \in 1..3 : x[i] = y[i]
        BY <1>3, <2>1
    <2> QED BY <2>2, <2>3 DEF y
<1> QED BY <1>4 DEF x, u, v

\* That is what a display shows that is sent the two lines.
LEMMA StatusAppears ==
    ASSUME NEW p \in Ready, NEW entry \in Seq(KeyCodes), Len(entry) <= 4, NEW word \in SafeWords
    PROVE  /\ StatusLines(entry, <<word>>) \in Seq(BusPulse)
           /\ Showing(NibbleFold!Folded(p, StatusLines(entry, <<word>>)), entry, word)
<1> DEFINE a == <<Glyph.Input, Blank>> \o entry
           b == <<Glyph.Status, Blank, word>>
<1>1. Glyph.Input \in Char /\ Glyph.Status \in Char /\ Blank \in Char /\ SafeWords \subseteq Char
    BY DEF Glyph, Blank, Char, SafeWords
<1>2. a \in Seq(Char) /\ Len(a) <= Columns
    <2>1. entry \in Seq(Char)
        BY DEF KeyCodes
    <2> QED BY <1>1, <2>1 DEF Columns
<1>3. b \in Seq(Char) /\ Len(b) <= Columns /\ <<Glyph.Status, Blank>> \o <<word>> = b
    <2>1. b \in Seq(Char) /\ Len(b) = 3 /\ 3 <= Columns
        BY <1>1 DEF Columns
    <2> QED BY <2>1, JoinTwoOne
<1>4. StatusLines(entry, <<word>>)
        = Clear \o SetCursor(0, 0) \o Write(a) \o SetCursor(0, 1) \o Write(b)
    BY <1>3, Zenon DEF StatusLines
<1> DEFINE m == StatusLines(entry, <<word>>)
           q == NibbleFold!Folded(p, m)
<1>5. b \in Seq(Char) /\ Len(b) <= Columns
    BY <1>3
<1> HIDE DEF a, b, m
<1>6. m = Clear \o SetCursor(0, 0) \o Write(a) \o SetCursor(0, 1) \o Write(b)
    BY <1>4 DEF m
<1>7. /\ m \in Seq(BusPulse) /\ q \in Ready /\ Told(q)
      /\ q.screen.frame[1] = RowOf(a) /\ q.screen.frame[2] = RowOf(b)
    BY <1>2, <1>5, <1>6, LinesAppear
<1> HIDE DEF q
<1>8. /\ q.screen.frame[1] = RowOf(<<Glyph.Input, Blank>> \o entry)
      /\ q.screen.frame[2] = RowOf(<<Glyph.Status, Blank, word>>)
    BY <1>7 DEF a, b
<1>9. Showing(q, entry, word)
    BY <1>7, <1>8 DEF Showing
<1> QED BY <1>7, <1>9 DEF q, m

\* The display of a safe: empty before its first message, else what was typed and a
\* word, which is that for an open safe if the safe is open.  The entry is that of the
\* sketch or was dropped from it; the sketch of the Nano writes only full entries.
ShowsSafe(m, p) ==
    LET nano == Task.platform = "zephyr_nano33ble" IN
    /\ p \in Ready /\ Told(p)
    /\ \/ ~m.open /\ p.screen.frame = EmptyFrame /\ (m.entry = <<>> \/ nano)
       \/ \E entry \in Seq(KeyCodes), word \in SafeWords :
             /\ Len(entry) <= 4 /\ Showing(p, entry, word)
             /\ m.open <=> word = Glyph.Success
             /\ m.entry \in {entry, <<>>} \/ nano

\* The password is four keys.
LEMMA PasswordIsFull == Len(Password) = 4
BY DEF Password

\* A message of no bytes changes nothing.
LEMMA NoMessage == \A p : DecodePulses(p, Nothing) = p
BY DEF DecodePulses, Nothing

\* So the round of the safe with a display on the Nano takes a known time, what was
\* typed stays fewer than four keys, and the display shows whether it is open.
LEMMA ZephyrSafeRound ==
    ASSUME Is("zephyr_nano33ble", {"safebox_display"}), Remembers
    PROVE  ZephyrSafeboxDisplay =>
              Advances /\ Typing(mem') /\ (ShowsSafe(mem, panel) => ShowsSafe(mem', panel'))
<1> SUFFICES ASSUME ZephyrSafeboxDisplay
             PROVE  Advances /\ Typing(mem') /\ (ShowsSafe(mem, panel) => ShowsSafe(mem', panel'))
    OBVIOUS
<1>0. Typing(mem) /\ Task.platform = "zephyr_nano33ble"
    BY DEF Remembers, Is
<1> DEFINE entry == IF mem.open THEN mem.entry ELSE FirstFour(mem.entry \o NewKeys(SafeRows, SafeCols))
           full == Len(entry) = 4
           match == entry = Password
           word == IF match THEN Glyph.Success ELSE Glyph.Fail
           bytes == IF full THEN StatusLines(entry, <<word>>) ELSE Nothing
           mem1 == [mem EXCEPT !.held = DownKeys(SafeRows, SafeCols), !.entry = IF full THEN <<>> ELSE entry,
                               !.open = @ \/ match]
<1>1. /\ {"entry", "open"} \subseteq DOMAIN mem /\ mem.entry \in Seq(KeyCodes) /\ mem.open \in BOOLEAN
      /\ Len(mem.entry) < 4
    <2>1. /\ {"entry", "open"} \subseteq DOMAIN mem /\ mem.entry \in Seq(KeyCodes) /\ mem.open \in BOOLEAN
          /\ Len(mem.entry) <= 4 /\ Len(mem.entry) # 4
        BY <1>0, Zenon DEF Typing
    <2> DEFINE n == Len(mem.entry)
    <2>2. n \in Nat /\ n <= 4 /\ n # 4
        BY <2>1
    <2> HIDE DEF n
    <2>3. n < 4
        BY <2>2
    <2> QED BY <2>1, <2>3 DEF n
<1>2. entry \in Seq(KeyCodes) /\ Len(entry) <= 4
    <2>1. ASSUME NEW s \in Seq(KeyCodes) PROVE FirstFour(s) \in Seq(KeyCodes) /\ Len(FirstFour(s)) <= 4
        <3>1. CASE Len(s) > 4
            <4>1. SubSeq(s, 1, 4) \in Seq(KeyCodes) /\ Len(SubSeq(s, 1, 4)) = 4
                BY <3>1
            <4> QED BY <3>1, <4>1 DEF FirstFour
        <3>2. CASE ~(Len(s) > 4)
            BY <3>2 DEF FirstFour
        <3> QED BY <3>1, <3>2
    <2>2. mem.entry \o NewKeys(SafeRows, SafeCols) \in Seq(KeyCodes)
        BY <1>1, KeysAreCodes
    <2>3. CASE mem.open
        <3>1. entry = mem.entry
            BY <2>3, Zenon
        <3> QED BY <1>1, <3>1
    <2>4. CASE ~mem.open
        <3>1. entry = FirstFour(mem.entry \o NewKeys(SafeRows, SafeCols))
            BY <2>4, Zenon
        <3> QED BY <2>1, <2>2, <3>1
    <2> QED BY <2>3, <2>4
<1>3. Round(mem1, IF match THEN "P0.13" :> 1 ELSE Nothing, Nothing, bytes, 7 + Len(bytes) \div 2)
    BY DEF ZephyrSafeboxDisplay, ZephyrEnter, SafeRows, SafeCols
<1>4. mem.open => ~full
    <2> SUFFICES ASSUME mem.open, full PROVE FALSE
        OBVIOUS
    <2>1. Len(mem.entry) = 4
        BY Zenon
    <2> QED BY <1>1, <2>1
<1>5. match => full
    BY PasswordIsFull
<1>6. word \in SafeWords /\ (word = Glyph.Success <=> match)
    BY DEF SafeWords, Glyph
<1>7. /\ {"entry", "open"} \subseteq DOMAIN mem1 /\ mem1.entry = (IF full THEN <<>> ELSE entry)
      /\ mem1.open = (mem.open \/ match)
    BY <1>1
<1>8. mem' = mem1 /\ panel' = DecodePulses(panel, bytes)
    BY <1>3 DEF Round, RoundWith
<1> HIDE DEF mem1, entry, word
<1>9. bytes \in Seq(BusPulse)
    <2>1. Nothing \in Seq(BusPulse)
        BY DEF Nothing
    <2> QED BY <1>2, <1>6, <2>1, StatusAppears, PowerOnReady
<1>10. Advances
    <2> HIDE DEF bytes
    <2>1. 7 + Len(bytes) \div 2 \in Nat
        BY <1>9
    <2> QED BY <1>3, <2>1, RoundAdvances
<1>11. Typing(mem')
    <2>1. CASE full
        <3>1. mem'.entry = <<>>
            BY <1>7, <1>8, <2>1
        <3>2. mem'.entry \in Seq(KeyCodes) /\ Len(mem'.entry) = 0
            BY <3>1
        <3>3. Len(mem'.entry) <= 4 /\ Len(mem'.entry) # 4
            BY <3>2
        <3>4. mem'.open \in BOOLEAN /\ {"entry", "open"} \subseteq DOMAIN mem'
            BY <1>1, <1>7, <1>8, Zenon
        <3> QED BY <3>2, <3>3, <3>4, Zenon DEF Typing
    <2>2. CASE ~full
        <3>1. mem'.entry = entry /\ Len(mem'.entry) # 4
            BY <1>7, <1>8, <2>2
        <3> QED BY <1>1, <1>2, <1>7, <1>8, <3>1, Zenon DEF Typing
    <2> QED BY <2>1, <2>2
<1>12. ASSUME ShowsSafe(mem, panel) PROVE ShowsSafe(mem', panel')
    <2>1. CASE ~full
        <3>1. panel' = panel /\ mem'.open = mem.open
            BY <1>1, <1>5, <1>7, <1>8, <2>1, NoMessage
        <3> QED BY <1>0, <1>12, <3>1 DEF ShowsSafe
    <2>2. CASE full
        <3>1. panel \in Ready
            BY <1>12 DEF ShowsSafe
        <3>2. panel' = NibbleFold!Folded(panel, StatusLines(entry, <<word>>))
            BY <1>8, <1>9, <2>2, DecoderLatchesPulses
        <3>3. Showing(panel', entry, word)
            BY <1>2, <1>6, <3>1, <3>2, StatusAppears
        <3>4. mem'.open <=> word = Glyph.Success
            BY <1>4, <1>6, <1>7, <1>8, <2>2
        <3> QED BY <1>0, <1>2, <1>6, <3>3, <3>4 DEF ShowsSafe, Showing
    <2> QED BY <2>1, <2>2
<1> QED BY <1>10, <1>11, <1>12

\* On the other boards a scan is a key or none.  A key that is taken is shown, with the
\* word for an open safe if and only if it completes the password.
LEMMA KeySafeRound ==
    ASSUME Task.platform # "zephyr_nano33ble", Typing(mem), NEW key \in KeyCodes \cup {NoKey}, NEW relay,
           NEW screen, EnterKey(key, relay, screen),
           \A p \in Ready, entry \in Seq(KeyCodes) : entry = Typed(key) /\ Len(entry) <= 4 =>
              \E word \in SafeWords : /\ Showing(DecodePulses(p, screen), entry, word)
                                      /\ entry = Password <=> word = Glyph.Success
    PROVE  Advances /\ Typing(mem') /\ (ShowsSafe(mem, panel) => ShowsSafe(mem', panel'))
<1> DEFINE entry == Typed(key)
           match == Taken(key) /\ entry = Password
           bytes == IF Taken(key) THEN screen ELSE Nothing
           kept == IF Taken(key) /\ Len(entry) = 4 /\ ~match THEN <<>> ELSE entry
           mem1 == [mem EXCEPT !.last = key, !.open = @ \/ match, !.entry = kept]
<1>1. Round(mem1, IF match THEN relay :> 1 ELSE Nothing, Nothing, bytes, 5)
    BY DEF EnterKey
<1>2. mem' = mem1 /\ panel' = DecodePulses(panel, bytes)
    BY <1>1 DEF Round, RoundWith
<1>3. Advances
    BY <1>1, RoundAdvances
<1>4. /\ {"entry", "open"} \subseteq DOMAIN mem /\ mem.entry \in Seq(KeyCodes) /\ mem.open \in BOOLEAN
      /\ Len(mem.entry) <= 4
      /\ Len(mem.entry) = 4 => mem.open
    BY DEF Typing
<1>5. mem1.entry = kept /\ mem1.open = (mem.open \/ match) /\ {"entry", "open"} \subseteq DOMAIN mem1
    BY <1>4
<1> HIDE DEF mem1
<1>6. CASE ~Taken(key)
    <2>1. entry = mem.entry /\ kept = mem.entry /\ bytes = Nothing /\ ~match
        BY <1>6, Zenon DEF Typed
    <2>2. panel' = panel /\ mem'.entry = mem.entry /\ mem'.open = mem.open
        BY <1>2, <1>4, <1>5, <2>1, NoMessage
    <2>3. {"entry", "open"} \subseteq DOMAIN mem'
        BY <1>2, <1>5
    <2>4. Typing(mem')
        BY <2>2, <2>3, Zenon DEF Typing
    <2> QED BY <1>3, <2>2, <2>4, Zenon DEF ShowsSafe
<1>7. CASE Taken(key)
    <2>1. key \in KeyCodes /\ ~mem.open /\ entry = Append(mem.entry, key) /\ bytes = screen
        BY <1>7, Zenon DEF Taken, Typed
    <2>2. entry \in Seq(KeyCodes) /\ Len(entry) <= 4
        <3> DEFINE n == Len(mem.entry)
        <3>1. n \in Nat /\ n <= 4 /\ n # 4
            BY <1>4, <2>1
        <3>2. entry \in Seq(KeyCodes) /\ Len(entry) = n + 1
            BY <1>4, <2>1
        <3> HIDE DEF n, entry
        <3>3. n + 1 <= 4
            BY <3>1
        <3> QED BY <3>2, <3>3
    <2> HIDE DEF entry
    <2>3. mem'.open = match /\ mem'.entry = kept /\ {"entry", "open"} \subseteq DOMAIN mem'
        BY <1>2, <1>5, <2>1
    <2>4. match <=> entry = Password
        BY <1>7
    <2>5. Typing(mem')
        <3>1. CASE match
            <4>1. kept = entry /\ mem'.open = TRUE
                BY <2>3, <3>1, Zenon
            <4> QED BY <2>2, <2>3, <4>1, Zenon DEF Typing
        <3>2. CASE ~match /\ Len(entry) = 4
            <4>1. kept = <<>> /\ mem'.open = FALSE
                BY <1>7, <2>3, <3>2, Zenon
            <4>2. <<>> \in Seq(KeyCodes) /\ Len(<<>>) <= 4 /\ Len(<<>>) # 4
                OBVIOUS
            <4> QED BY <2>3, <4>1, <4>2, Zenon DEF Typing
        <3>3. CASE ~match /\ Len(entry) # 4
            <4>1. kept = entry /\ mem'.open = FALSE
                BY <2>3, <3>3, Zenon
            <4> QED BY <2>2, <2>3, <3>3, <4>1, Zenon DEF Typing
        <3> QED BY <3>1, <3>2, <3>3
    <2>6. ASSUME ShowsSafe(mem, panel) PROVE ShowsSafe(mem', panel')
        <3>1. panel \in Ready
            BY <2>6 DEF ShowsSafe
        <3>2. PICK word \in SafeWords : /\ Showing(panel', entry, word)
                                        /\ entry = Password <=> word = Glyph.Success
            BY <1>2, <2>1, <2>2, <3>1 DEF entry
        <3>3. mem'.open <=> word = Glyph.Success
            BY <2>3, <2>4, <3>2
        <3>4. mem'.entry \in {entry, <<>>}
            BY <2>3
        <3>5. panel' \in Ready /\ Told(panel')
            BY <3>2 DEF Showing
        <3> QED BY <2>2, <3>2, <3>3, <3>4, <3>5 DEF ShowsSafe
    <2> QED BY <1>3, <2>5, <2>6
<1> QED BY <1>6, <1>7

\* The sketch of the ESP shows the entry, and then the verdict on four keys.
LEMMA EspSafeRound ==
    ASSUME Is("esp32s3_espidf", {"safebox_display"}), Remembers
    PROVE  EspSafeboxDisplay =>
              Advances /\ Typing(mem') /\ (ShowsSafe(mem, panel) => ShowsSafe(mem', panel'))
<1> SUFFICES ASSUME EspSafeboxDisplay
             PROVE  Advances /\ Typing(mem') /\ (ShowsSafe(mem, panel) => ShowsSafe(mem', panel'))
    OBVIOUS
<1> DEFINE key == EspSafeboxScan
           screen == Entering(Typed(key)) \o IF Len(Typed(key)) = 4 THEN Verdict(Typed(key), Glyph.Fail)
                                             ELSE Nothing
<1>1. Typing(mem) /\ Task.platform # "zephyr_nano33ble"
    BY DEF Remembers, Is
<1>2. key \in KeyCodes \cup {NoKey}
    BY ScansAreCodes DEF EspSafeboxScan
<1>3. EnterKey(key, "12", screen)
    BY DEF EspSafeboxDisplay
<1> HIDE DEF key
<1>4. ASSUME NEW p \in Ready, NEW entry \in Seq(KeyCodes), entry = Typed(key), Len(entry) <= 4
      PROVE  \E word \in SafeWords : /\ Showing(DecodePulses(p, screen), entry, word)
                                     /\ entry = Password <=> word = Glyph.Success
    <2> DEFINE first == Entering(entry)
               q == NibbleFold!Folded(p, first)
               word == IF entry = Password THEN Glyph.Success ELSE Glyph.Fail
    <2>1. Glyph.Enter \in SafeWords /\ Glyph.Success \in SafeWords /\ Glyph.Fail \in SafeWords
          /\ Glyph.Enter # Glyph.Success /\ Glyph.Fail # Glyph.Success
        BY DEF SafeWords, Glyph
    <2>2. first \in Seq(BusPulse) /\ Showing(q, entry, Glyph.Enter)
        BY <1>4, <2>1, StatusAppears DEF Entering
    <2>3. CASE Len(entry) # 4
        <3>1. screen = first \o <<>>
            BY <1>4, <2>3 DEF Nothing
        <3>2. screen = first
            BY <2>2, <3>1
        <3>3. DecodePulses(p, screen) = q
            BY <2>2, <3>2, DecoderLatchesPulses
        <3>4. entry # Password
            BY <2>3, PasswordIsFull
        <3> QED BY <2>1, <2>2, <3>3, <3>4
    <2>4. CASE Len(entry) = 4
        <3> DEFINE second == Verdict(entry, Glyph.Fail)
        <3>1. screen = first \o second
            BY <1>4, <2>4
        <3>2. q \in Ready /\ word \in SafeWords /\ (entry = Password <=> word = Glyph.Success)
            BY <2>1, <2>2 DEF Showing
        <3>3. second = StatusLines(entry, <<word>>)
            BY DEF Verdict
        <3> HIDE DEF word
        <3>4. second \in Seq(BusPulse) /\ Showing(NibbleFold!Folded(q, second), entry, word)
            BY <1>4, <3>2, <3>3, StatusAppears
        <3> HIDE DEF first, second, screen
        <3>5. screen \in Seq(BusPulse) /\ NibbleFold!Folded(p, screen) = NibbleFold!Folded(q, second)
            BY <2>2, <3>1, <3>4, MessagesJoin
        <3>6. DecodePulses(p, screen) = NibbleFold!Folded(q, second)
            BY <3>5, DecoderLatchesPulses
        <3> QED BY <3>2, <3>4, <3>6 DEF screen
    <2> QED BY <2>3, <2>4
<1> HIDE DEF screen
<1> QED BY <1>1, <1>2, <1>3, <1>4, KeySafeRound

\* That of the Mega shows the entry or the verdict.
LEMMA ArduinoSafeRound ==
    ASSUME Is("arduino_mega", {"safebox_display"}), Remembers
    PROVE  ArduinoSafeboxDisplay =>
              Advances /\ Typing(mem') /\ (ShowsSafe(mem, panel) => ShowsSafe(mem', panel'))
<1> SUFFICES ASSUME ArduinoSafeboxDisplay
             PROVE  Advances /\ Typing(mem') /\ (ShowsSafe(mem, panel) => ShowsSafe(mem', panel'))
    OBVIOUS
<1> DEFINE key == ArduinoScan(<<"22", "24", "26", "28">>, <<"30", "32", "34", "36">>)
           screen == IF Len(Typed(key)) = 4 THEN Verdict(Typed(key), Glyph.Denied) ELSE Entering(Typed(key))
<1>1. Typing(mem) /\ Task.platform # "zephyr_nano33ble"
    BY DEF Remembers, Is
<1>2. key \in KeyCodes \cup {NoKey}
    BY ScansAreCodes DEF ArduinoScan
<1>3. EnterKey(key, "13", screen)
    BY DEF ArduinoSafeboxDisplay
<1> HIDE DEF key
<1>4. ASSUME NEW p \in Ready, NEW entry \in Seq(KeyCodes), entry = Typed(key), Len(entry) <= 4
      PROVE  \E word \in SafeWords : /\ Showing(DecodePulses(p, screen), entry, word)
                                     /\ entry = Password <=> word = Glyph.Success
    <2> DEFINE answer == IF entry = Password THEN Glyph.Success ELSE Glyph.Denied
               word == IF Len(entry) = 4 THEN answer ELSE Glyph.Enter
    <2>1. word \in SafeWords /\ (entry = Password <=> word = Glyph.Success)
        BY PasswordIsFull DEF SafeWords, Glyph
    <2>2. screen = StatusLines(entry, <<word>>)
        BY <1>4 DEF Verdict, Entering
    <2> HIDE DEF word, screen
    <2>3. screen \in Seq(BusPulse) /\ Showing(NibbleFold!Folded(p, screen), entry, word)
        BY <1>4, <2>1, <2>2, StatusAppears
    <2>4. DecodePulses(p, screen) = NibbleFold!Folded(p, screen)
        BY <2>3, DecoderLatchesPulses
    <2> QED BY <2>1, <2>3, <2>4
<1> HIDE DEF screen
<1> QED BY <1>1, <1>2, <1>3, <1>4, KeySafeRound

\* On any board the round of the safe is one of the three.
LEMMA SafeRound ==
    ASSUME Task.task_id = "safebox_display", Remembers, ZephyrLoop \/ EspLoop \/ ArduinoLoop
    PROVE  Typing(mem') /\ (ShowsSafe(mem, panel) => ShowsSafe(mem', panel'))
<1>1. \/ Is("zephyr_nano33ble", {"safebox_display"}) /\ ZephyrSafeboxDisplay
      \/ Is("esp32s3_espidf", {"safebox_display"}) /\ EspSafeboxDisplay
      \/ Is("arduino_mega", {"safebox_display"}) /\ ArduinoSafeboxDisplay
    BY DEF ZephyrLoop, EspLoop, ArduinoLoop, Runs, Is
<1> QED BY <1>1, ZephyrSafeRound, EspSafeRound, ArduinoSafeRound

\* A state of the wire that is no earlier than t0.
Later(m, t0) == "t" \in DOMAIN m /\ m.t \in Int /\ m.t >= t0
\* What never goes back in a step is not before its start after any number of them.
LEMMA LaterToTheEnd ==
    \A h, n, t0 : n \in Nat /\ Later(h[0], t0) /\ (\A i \in 1..n : Later(h[i - 1], t0) => Later(h[i], t0))
                  => Later(h[n], t0)
<1> SUFFICES ASSUME NEW h, NEW n, NEW t0, n \in Nat, Later(h[0], t0),
                    \A i \in 1..n : Later(h[i - 1], t0) => Later(h[i], t0)
             PROVE  Later(h[n], t0)
    OBVIOUS
<1> DEFINE A == {k \in Nat : k <= n => Later(h[k], t0)}
<1>1. 0 \in A
    OBVIOUS
<1>2. \A k \in Nat : k \in A => k + 1 \in A
    <2> SUFFICES ASSUME NEW k \in Nat, k \in A, k + 1 <= n PROVE Later(h[k + 1], t0)
        OBVIOUS
    <2>1. k + 1 \in 1..n /\ (k + 1) - 1 = k /\ k <= n
        OBVIOUS
    <2> QED BY <2>1
<1> HIDE DEF A
<1>3. n \in A
    BY <1>1, <1>2, SumFold!NatSet
<1> QED BY <1>3 DEF A

\* On the wire of the DS18B20 time only goes on,
LEMMA WireTakesTime ==
    ASSUME Lateness(mem), NEW t0 \in Int
    PROVE  /\ \A m, us : Later(m, t0) /\ us \in Nat => Later(OwWait(m, us), t0)
           /\ \A m, level, us : Later(m, t0) /\ us \in Nat => Later(OwDrive(m, level, us), t0)
           /\ \A m : Later(m, t0) => Later(OwSampled(m), t0)
<1>1. mem.late.wait \in Nat
    BY DEF Lateness
<1>2. \A m, us : Later(m, t0) /\ us \in Nat => Later(OwWait(m, us), t0)
    BY <1>1 DEF Later, OwWait
<1>3. \A m, c : Later(m, t0) => Later([m EXCEPT !.chip = c], t0)
    BY DEF Later
<1>4. \A m, c : Later(m, t0) => Later([m EXCEPT !.in = c], t0)
    BY DEF Later
<1>5. \A m, level, us : Later(m, t0) /\ us \in Nat => Later(OwDrive(m, level, us), t0)
    BY <1>2, <1>3 DEF OwDrive
<1>6. \A m : Later(m, t0) => Later(OwSampled(m), t0)
    BY <1>4 DEF OwSampled
<1> QED BY <1>2, <1>5, <1>6

\* through a reset, a byte written and a byte read,
LEMMA ExchangesTakeTime ==
    ASSUME Lateness(mem), NEW t0 \in Int
    PROVE  /\ \A m : Later(m, t0) => Later(OwReset(m), t0)
           /\ \A m, byte : Later(m, t0) => Later(OwWriteByte(m, byte), t0)
           /\ \A m, i : Later(m, t0) => Later(OwReadByte(m, i), t0)
<1>1. \A m : Later(m, t0) => Later(OwReset(m), t0)
    BY WireTakesTime DEF OwReset
<1>2. \A m, bit : Later(m, t0) => Later(OwWriteBit(m, bit), t0)
    BY WireTakesTime DEF OwWriteBit
<1>3. \A m, i : Later(m, t0) => Later(OwReadBit(m, i), t0)
    BY WireTakesTime DEF OwReadBit
<1>4. ASSUME NEW m, NEW byte, Later(m, t0) PROVE Later(OwWriteByte(m, byte), t0)
    <2> DEFINE s == ByteBits(byte)
               n == 8
    <2>1. n \in Nat /\ DOMAIN s = 1..n
        BY DEF ByteBits
    <2>2. OwWriteByte(m, byte) = WriteBits!Folded(m, s)
        BY DEF OwWriteByte, WriteBits!Folded, FoldLeft, MapThenFoldSet, WriteBits!FoldLeft,
               WriteBits!MapThenFoldSet, Max, WriteBits!Max
    <2> HIDE DEF s, n
    <2>3. PICK h : WriteBits!Runs(h, m, s, n) /\ WriteBits!Folded(m, s) = h[n]
        BY ONLY <2>1, WriteBits!FoldSteps, Zenon
    <2>4. Later(h[0], t0) /\ \A i \in 1..n : Later(h[i - 1], t0) => Later(h[i], t0)
        BY <1>2, <1>4, <2>3 DEF WriteBits!Runs
    <2> QED BY <2>1, <2>2, <2>3, <2>4, LaterToTheEnd
<1>5. ASSUME NEW m, NEW i, Later(m, t0) PROVE Later(OwReadByte(m, i), t0)
    <2> DEFINE s == <<0, 1, 2, 3, 4, 5, 6, 7>>
               n == 8
               m0 == [m EXCEPT !.in = <<>>]
               read == ReadBits!Folded(m0, s)
    <2>1. n \in Nat /\ DOMAIN s = 1..n
        OBVIOUS
    <2>2. OwReadByte(m, i) = [m EXCEPT !.chip = read.chip, !.t = read.t, !.in = Append(@, ValueOfBits(read.in))]
        BY DEF OwReadByte, ReadBits!Folded, FoldLeft, MapThenFoldSet, ReadBits!FoldLeft,
               ReadBits!MapThenFoldSet, Max, ReadBits!Max
    <2>5. Later(m0, t0)
        BY <1>5 DEF Later
    <2> HIDE DEF s, m0, n
    <2>3. PICK h : ReadBits!Runs(h, m0, s, n) /\ ReadBits!Folded(m0, s) = h[n]
        BY ONLY <2>1, ReadBits!FoldSteps, Zenon
    <2>4. Later(h[0], t0) /\ \A k \in 1..n : Later(h[k - 1], t0) => Later(h[k], t0)
        BY <1>3, <2>5, <2>3 DEF ReadBits!Runs
    <2>7. Later(h[n], t0)
        BY <2>1, <2>4, LaterToTheEnd
    <2>6. Later(read, t0)
        BY <2>3, <2>7
    <2> HIDE DEF read
    <2> QED BY <1>5, <2>2, <2>6 DEF Later
<1> QED BY <1>1, <1>4, <1>5

\* so a whole reading ends no earlier than it began.
LEMMA ReadTakesTime ==
    ASSUME Lateness(mem), NEW start, NEW t0 \in Int, Later(start, t0)
    PROVE  Later(ReadCx16(start).end, t0)
<1> DEFINE first == OwReset(start)
           command == OwWait(OwCommand(first, 68), 100000)
           second == OwReset(command)
           base == [OwCommand(second, ReadScratchpad) EXCEPT !.in = <<>>]
           s == [i \in 1..9 |-> i]
           read == ReadBytes!Folded(base, s)
<1>1. Later(first, t0)
    BY ExchangesTakeTime
<1>2. \A m, byte : Later(m, t0) => Later(OwCommand(m, byte), t0)
    BY ExchangesTakeTime DEF OwCommand
<1>3. Later(command, t0)
    BY <1>1, <1>2, WireTakesTime
<1>4. Later(second, t0)
    BY <1>3, ExchangesTakeTime
<1>5. Later(base, t0)
    <2>1. Later(OwCommand(second, ReadScratchpad), t0)
        BY <1>2, <1>4
    <2> QED BY <2>1 DEF Later
<1> DEFINE n == 9
<1>6. n \in Nat /\ DOMAIN s = 1..n
    OBVIOUS
<1>10. ReadCx16(start).end \in {first, second, FoldLeft(OwReadByte, base, s)}
    <2> DEFINE last == FoldLeft(OwReadByte, base, s)
               sum == Crc8(FlattenSeq([i \in 1..8 |-> ByteBits(last.in[i])]))
               value == IF sum # ByteBits(last.in[9]) THEN <<>> ELSE <<Word(last.in[2], last.in[1])>>
    <2>1. ReadCx16(start) = CASE ~OwPresent(first) -> [end |-> first, value |-> <<>>]
                              [] OwPresent(first) /\ ~OwPresent(second) -> [end |-> second, value |-> <<>>]
                              [] OTHER -> [end |-> last, value |-> value]
        BY DEF ReadCx16
    <2> HIDE DEF first, second, last, value
    <2>2. CASE ~OwPresent(first) /\ OwPresent(second)
        BY <2>1, <2>2
    <2>3. CASE ~OwPresent(second) /\ OwPresent(first)
        BY <2>1, <2>3
    <2>4. CASE OwPresent(first) /\ OwPresent(second)
        BY <2>1, <2>4 DEF last
    <2>5. CASE ~OwPresent(first) /\ ~OwPresent(second)
        BY <2>1, <2>5
    <2> QED BY <2>2, <2>3, <2>4, <2>5 DEF last
<1>7. read = FoldLeft(OwReadByte, base, s)
    BY DEF ReadBytes!Folded, FoldLeft, MapThenFoldSet, ReadBytes!FoldLeft, ReadBytes!MapThenFoldSet, Max, ReadBytes!Max
<1> HIDE DEF base, s, n
<1>8. PICK h : ReadBytes!Runs(h, base, s, n) /\ ReadBytes!Folded(base, s) = h[n]
    BY ONLY <1>6, ReadBytes!FoldSteps, Zenon
<1>9. Later(h[0], t0) /\ \A k \in 1..n : Later(h[k - 1], t0) => Later(h[k], t0)
    BY <1>5, <1>8, ExchangesTakeTime DEF ReadBytes!Runs
<1>12. Later(h[n], t0)
    BY <1>6, <1>9, LaterToTheEnd
<1>11. Later(read, t0)
    BY <1>8, <1>12
<1> HIDE DEF read, first, second
<1> QED BY <1>1, <1>4, <1>7, <1>10, <1>11 DEF base, s

\* Therefore the heat alarm waits for no negative time after its reading.
LEMMA HeatAdvances ==
    ASSUME Is("zephyr_nano33ble", {"ds18b20_heat_alarm"}), Remembers, clock \in Nat
    PROVE  ZephyrDs18b20HeatAlarm => Advances /\ Lateness(mem')
<1>0. Lateness(mem)
    BY DEF Remembers
<1> DEFINE read == ReadCx16([chip |-> chip, t |-> Now, in |-> <<>>])
           mem1 == [mem EXCEPT !.entry = read.value, !.state = 1, !.since = clock,
                               !.count = IF read.value = <<>> THEN @ + 1 ELSE @]
<1>1. ASSUME mem.state = 0, RoundWith(read.end.chip, mem1, Nothing, Nothing, Nothing, Millis(read.end.t - Now))
      PROVE  Advances /\ Lateness(mem')
    <2>1. Later(read.end, Now) /\ Now \in Int
        <3>1. Now \in Int
            BY DEF Now
        <3>2. Later([chip |-> chip, t |-> Now, in |-> <<>>], Now)
            BY <3>1 DEF Later
        <3> QED BY <1>0, <3>1, <3>2, ReadTakesTime
    <2>2. mem1.late = mem.late /\ DOMAIN mem1 = DOMAIN mem
        BY <1>0 DEF Lateness
    <2> HIDE DEF read, mem1
    <2>3. Millis(read.end.t - Now) \in Nat
        BY <2>1 DEF Later, Millis
    <2>4. Advances
        BY <1>1, <2>3, RoundWithAdvances
    <2>5. mem' = mem1
        BY <1>1 DEF RoundWith
    <2> QED BY <1>0, <2>2, <2>4, <2>5 DEF Lateness
<1>2. ASSUME mem.state = 1,
             NEW hot, NEW led, NEW levels, Round([mem EXCEPT !.state = 0, !.out = led], levels, Nothing, Nothing, 80)
      PROVE  Advances /\ Lateness(mem')
    <2>1. Advances
        BY <1>2, RoundAdvances
    <2>2. mem' = [mem EXCEPT !.state = 0, !.out = led]
        BY <1>2 DEF Round, RoundWith
    <2> QED BY <1>0, <2>1, <2>2 DEF Lateness
<1> QED BY <1>1, <1>2, Zenon DEF ZephyrDs18b20HeatAlarm, HeatRound
\* Every firmware of the Nano 33 BLE rests or moves pins, as its task says;
LEMMA ZephyrMoves ==
    ASSUME Remembers, Task.poll \in Nat, Task.task_id \in Writers => clock \in Nat, ZephyrLoop
    PROVE  Moves
<1>1. CASE Runs("zephyr_nano33ble", {"blink_led_1hz"}) /\ ZephyrBlink1Hz
    BY <1>1, RoundAdvances, TaskOfRun DEF Moves, Writers, ZephyrBlink1Hz, ToggleThenSleep
<1>2. CASE Runs("zephyr_nano33ble", {"blink_led_no_delay"}) /\ ZephyrBlinkNoDelay
    BY <1>2, RoundAdvances, TaskOfRun DEF Moves, Writers, ZephyrBlinkNoDelay, ToggleWhenDue, Poll
<1>3. CASE Runs("zephyr_nano33ble", {"blink_two_leds"}) /\ ZephyrBlinkTwoLeds
    BY <1>3, LedsAdvance, TaskOfRun DEF Moves, Writers, ZephyrBlinkTwoLeds
<1>4. CASE Runs("zephyr_nano33ble", {"blink_led_morse_code"}) /\ ZephyrMorseSos
    BY <1>4, MorseAdvances, TaskOfRun DEF Moves, Writers, ZephyrMorseSos
<1>5. CASE Runs("zephyr_nano33ble", {"button_status_display"}) /\ ZephyrButtonStatusDisplay
    BY <1>5, RoundRests, TaskOfRun DEF Moves, Writers, ZephyrButtonStatusDisplay, ReportPress
<1>6. CASE Runs("zephyr_nano33ble", {"button_status_count"}) /\ ZephyrButtonStatusCount
    BY <1>6, RoundRests, TaskOfRun DEF Moves, Writers, ZephyrButtonStatusCount, CountPress
<1>7. CASE Runs("zephyr_nano33ble", {"button_press_debounce"}) /\ ZephyrButtonPressDebounce
    BY <1>7, RoundRests, TaskOfRun DEF Moves, Writers, ZephyrButtonPressDebounce, Debounce
<1>8. CASE Runs("zephyr_nano33ble", {"buzzer_button"}) /\ ZephyrBuzzerButton
    BY <1>8, RoundAdvances, TaskOfRun DEF Moves, Writers, ZephyrBuzzerButton, BuzzWhenPressed
<1>9. CASE Runs("zephyr_nano33ble", {"buzzer_doorbell"}) /\ ZephyrBuzzerDoorbell
    BY <1>9, RoundAdvances, TaskOfRun DEF Moves, Writers, ZephyrBuzzerDoorbell, Follow
<1>10. CASE Runs("zephyr_nano33ble", {"hcsr501_motion_alarm", "tilt_detection_alarm"}) /\ ZephyrDigitalFollow
    BY <1>10, RoundAdvances, TaskOfRun DEF Moves, Writers, ZephyrDigitalFollow, Follow
<1>11. CASE Runs("zephyr_nano33ble", {"clap_switch"}) /\ ZephyrClapSwitch
    BY <1>11, RoundAdvances, TaskOfRun DEF Moves, Writers, ZephyrClapSwitch, ToggleOnSound
<1>12. CASE Runs("zephyr_nano33ble", {"sensor_pir_human_motion"}) /\ ZephyrPirSerial
    BY <1>12, RoundRests, TaskOfRun DEF Moves, Writers, ZephyrPirSerial, ReportMotion
<1>13. CASE Runs("zephyr_nano33ble", {"buzzer_toggle_led_freq"}) /\ ZephyrBuzzerToggleLedFreq
    BY <1>13, RoundAdvances, TaskOfRun DEF Moves, Writers, ZephyrBuzzerToggleLedFreq
<1>14. CASE Runs("zephyr_nano33ble", {"16key_keypad"}) /\ Zephyr16KeyKeypad
    BY <1>14, RoundRests, TaskOfRun DEF Moves, Writers, Zephyr16KeyKeypad
<1>15. CASE Runs("zephyr_nano33ble", {"safebox"}) /\ ZephyrSafebox
    BY <1>15, RoundAdvances, NoBytes, TaskOfRun DEF Moves, Writers, ZephyrSafebox, ZephyrEnter
<1>16. CASE Runs("zephyr_nano33ble", {"safebox_display"}) /\ ZephyrSafeboxDisplay
    BY <1>16, ZephyrSafeRound, TaskOfRun DEF Moves, Writers, Is
<1>17. CASE Runs("zephyr_nano33ble", {"rotary_encoder"}) /\ ZephyrRotaryEncoder
    BY <1>17, RoundRests, TaskOfRun DEF Moves, Writers, ZephyrRotaryEncoder, DecodeStep
<1>18. CASE Runs("zephyr_nano33ble", {"step_counter_print"}) /\ ZephyrStepCounterPrint
    BY <1>18, RoundRests, TaskOfRun DEF Moves, Writers, ZephyrStepCounterPrint, CountStep
<1>19. CASE Runs("zephyr_nano33ble", {"photoresistor_nightlight"}) /\ ZephyrAdcThresholdOutput
    BY <1>19, RoundAdvances, TaskOfRun DEF Moves, Writers, ZephyrAdcThresholdOutput
<1>20. CASE Runs("zephyr_nano33ble", {"tmp36_read"}) /\ ZephyrTmp36Read
    BY <1>20, RoundRests, TaskOfRun DEF Moves, Writers, ZephyrTmp36Read, PrintCelsius
<1>21. CASE Runs("zephyr_nano33ble", {"sensor_water_level_display"}) /\ ZephyrWaterLevelDisplay
    BY <1>21, WaterRests, TaskOfRun DEF Moves, Writers
<1>22. CASE Runs("zephyr_nano33ble", {"tmp36_read_button_display"}) /\ ZephyrTmp36ButtonDisplay
    <2>1. Rests
        BY ONLY <1>22, Zenon DEF ZephyrTmp36ButtonDisplay, Round, RoundWith, Rests
    <2> QED BY <1>22, <2>1, TaskOfRun DEF Moves, Writers
<1>23. CASE Runs("zephyr_nano33ble", {"reaction_timer_display"}) /\ ZephyrReactionTimer
    <2>1. Rests
        BY ONLY <1>23, Zenon DEF ZephyrReactionTimer, Round, RoundWith, Rests
    <2> QED BY <1>23, <2>1, TaskOfRun DEF Moves, Writers
<1>24. CASE Runs("zephyr_nano33ble", {"lcd1602_display_hello_world"}) /\ ZephyrLcdHello
    BY <1>24, RoundRests, TaskOfRun DEF Moves, Writers, ZephyrLcdHello, IdleLoop
<1>25. CASE Runs("zephyr_nano33ble", {"hcsr04_find_distance"}) /\ ZephyrHcsr04FindDistance
    BY <1>25, RoundRests, TaskOfRun DEF Moves, Writers, ZephyrHcsr04FindDistance
<1>26. CASE Runs("zephyr_nano33ble", {"dht11_read"}) /\ ZephyrDht11Read
    BY <1>26, DhtRests, TaskOfRun DEF Moves, Writers, ZephyrDht11Read
<1>27. CASE Runs("zephyr_nano33ble", {"dht11_read_button_display"}) /\ ZephyrDht11ButtonDisplay
    BY <1>27, RoundRests, DhtRests, TaskOfRun DEF Moves, Writers, ZephyrDht11ButtonDisplay
<1>28. CASE Runs("zephyr_nano33ble", {"ds18b20_heat_alarm"}) /\ ZephyrDs18b20HeatAlarm
    BY <1>28, HeatAdvances, TaskOfRun DEF Moves, Writers, Is
<1>29. CASE Runs("zephyr_nano33ble", {"mpu6050_read_i2c"}) /\ ZephyrMpu6050ReadI2c
    BY <1>29, RoundRests, TaskOfRun DEF Moves, Writers, ZephyrMpu6050ReadI2c
<1>30. CASE Runs("zephyr_nano33ble", {"mpu6050_read_button_display"}) /\ ZephyrMpu6050ButtonDisplay
    BY <1>30, RoundRests, TaskOfRun DEF Moves, Writers, ZephyrMpu6050ButtonDisplay
<1>31. CASE Runs("zephyr_nano33ble", {"mpu6050_read_periodic_display"}) /\ ZephyrMpu6050PeriodicDisplay
    <2>1. Rests
        BY ONLY <1>31, Zenon DEF ZephyrMpu6050PeriodicDisplay, Round, RoundWith, Rests
    <2> QED BY <1>31, <2>1, TaskOfRun DEF Moves, Writers
<1> QED BY <1>1, <1>2, <1>3, <1>4, <1>5, <1>6, <1>7, <1>8, <1>9, <1>10, <1>11, <1>12, <1>13,
       <1>14, <1>15, <1>16, <1>17, <1>18, <1>19, <1>20, <1>21, <1>22, <1>23, <1>24, <1>25,
       <1>26, <1>27, <1>28, <1>29, <1>30, <1>31, Zenon DEF ZephyrLoop

\* so does every firmware of the ESP32-S3,
LEMMA EspMoves ==
    ASSUME Remembers, Task.poll \in Nat, Task.task_id \in Writers => clock \in Nat, EspLoop
    PROVE  Moves
<1>1. CASE Runs("esp32s3_espidf", {"blink_led_1hz"}) /\ EspBlink1Hz
    BY <1>1, RoundAdvances, TaskOfRun DEF Moves, Writers, EspBlink1Hz, ToggleThenSleep
<1>2. CASE Runs("esp32s3_espidf", {"blink_led_no_delay"}) /\ EspBlinkNoDelay
    BY <1>2, RoundAdvances, TaskOfRun DEF Moves, Writers, EspBlinkNoDelay, ToggleThenSleep
<1>3. CASE Runs("esp32s3_espidf", {"blink_two_leds"}) /\ EspBlinkTwoLeds
    BY <1>3, LedsAdvance, TaskOfRun DEF Moves, Writers, EspBlinkTwoLeds
<1>4. CASE Runs("esp32s3_espidf", {"blink_led_morse_code"}) /\ EspMorseSos
    BY <1>4, MorseAdvances, TaskOfRun DEF Moves, Writers, EspMorseSos
<1>5. CASE Runs("esp32s3_espidf", {"button_status_display"}) /\ EspButtonStatusDisplay
    BY <1>5, RoundRests, TaskOfRun DEF Moves, Writers, EspButtonStatusDisplay, ReportPress
<1>6. CASE Runs("esp32s3_espidf", {"button_status_count"}) /\ EspButtonStatusCount
    BY <1>6, RoundRests, TaskOfRun DEF Moves, Writers, EspButtonStatusCount, CountPress
<1>7. CASE Runs("esp32s3_espidf", {"button_press_debounce"}) /\ EspButtonPressDebounce
    BY <1>7, RoundRests, TaskOfRun DEF Moves, Writers, EspButtonPressDebounce, Debounce
<1>8. CASE Runs("esp32s3_espidf", {"buzzer_button"}) /\ EspBuzzerButton
    BY <1>8, RoundAdvances, TaskOfRun DEF Moves, Writers, EspBuzzerButton, BuzzWhenPressed
<1>9. CASE Runs("esp32s3_espidf", {"buzzer_doorbell"}) /\ EspBuzzerDoorbell
    BY <1>9, RoundAdvances, TaskOfRun DEF Moves, Writers, EspBuzzerDoorbell, Follow
<1>10. CASE Runs("esp32s3_espidf", {"hcsr501_motion_alarm", "tilt_detection_alarm"}) /\ EspDigitalFollow
    BY <1>10, RoundAdvances, TaskOfRun DEF Moves, Writers, EspDigitalFollow, Follow
<1>11. CASE Runs("esp32s3_espidf", {"clap_switch"}) /\ EspClapSwitch
    BY <1>11, RoundAdvances, TaskOfRun DEF Moves, Writers, EspClapSwitch, ToggleOnSound
<1>12. CASE Runs("esp32s3_espidf", {"sensor_pir_human_motion"}) /\ EspPirSerial
    BY <1>12, RoundRests, TaskOfRun DEF Moves, Writers, EspPirSerial, ReportMotion
<1>13. CASE Runs("esp32s3_espidf", {"buzzer_toggle_led_freq"}) /\ EspBuzzerToggleLedFreq
    BY <1>13, RoundAdvances, TaskOfRun DEF Moves, Writers, EspBuzzerToggleLedFreq
<1>14. CASE Runs("esp32s3_espidf", {"16key_keypad"}) /\ EspKeypadScan
    BY <1>14, RoundRests, TaskOfRun DEF Moves, Writers, EspKeypadScan, ReportKey
<1>15. CASE Runs("esp32s3_espidf", {"safebox"}) /\ EspSafebox
    BY <1>15, RoundAdvances, TaskOfRun DEF Moves, Writers, EspSafebox, EnterKey
<1>16. CASE Runs("esp32s3_espidf", {"safebox_display"}) /\ EspSafeboxDisplay
    BY <1>16, RoundAdvances, TaskOfRun DEF Moves, Writers, EspSafeboxDisplay, EnterKey
<1>17. CASE Runs("esp32s3_espidf", {"rotary_encoder"}) /\ EspRotaryEncoder
    BY <1>17, RoundRests, TaskOfRun DEF Moves, Writers, EspRotaryEncoder, DecodeStep
<1>18. CASE Runs("esp32s3_espidf", {"step_counter_print"}) /\ EspStepCounter
    BY <1>18, RoundRests, TaskOfRun DEF Moves, Writers, EspStepCounter, CountStep
<1>19. CASE Runs("esp32s3_espidf", {"tmp36_read"}) /\ EspTmp36Read
    BY <1>19, RoundRests, TaskOfRun DEF Moves, Writers, EspTmp36Read, PrintCelsius
<1>20. CASE Runs("esp32s3_espidf", {"sensor_water_level_display"}) /\ EspWaterLevel
    BY <1>20, RoundRests, TaskOfRun DEF Moves, Writers, EspWaterLevel, WaterScreen
<1>21. CASE Runs("esp32s3_espidf", {"tmp36_read_button_display"}) /\ EspTmp36Button
    BY <1>21, RoundRests, TaskOfRun DEF Moves, Writers, EspTmp36Button
<1>22. CASE Runs("esp32s3_espidf", {"reaction_timer_display"}) /\ EspReactionTimer
    BY <1>22, RoundRests, TaskOfRun DEF Moves, Writers, EspReactionTimer, TimeReaction
<1>23. CASE Runs("esp32s3_espidf", {"lcd1602_display_hello_world"}) /\ EspLcdHello
    BY <1>23, RoundRests, TaskOfRun DEF Moves, Writers, EspLcdHello, IdleLoop
<1> QED BY <1>1, <1>2, <1>3, <1>4, <1>5, <1>6, <1>7, <1>8, <1>9, <1>10, <1>11, <1>12, <1>13,
       <1>14, <1>15, <1>16, <1>17, <1>18, <1>19, <1>20, <1>21, <1>22, <1>23, Zenon DEF EspLoop

\* and every firmware of the Mega.
LEMMA ArduinoMoves ==
    ASSUME Remembers, Task.poll \in Nat, Task.task_id \in Writers => clock \in Nat, ArduinoLoop
    PROVE  Moves
<1>1. CASE Runs("arduino_mega", {"blink_led_1hz"}) /\ ArduinoBlink1Hz
    BY <1>1, RoundAdvances, TaskOfRun DEF Moves, Writers, ArduinoBlink1Hz, ToggleWhenDue, Poll
<1>2. CASE Runs("arduino_mega", {"blink_two_leds"}) /\ ArduinoBlinkTwoLeds
    BY <1>2, RoundAdvances, TaskOfRun DEF Moves, Writers, ArduinoBlinkTwoLeds, BlinkTwoLeds, Poll
<1>3. CASE Runs("arduino_mega", {"button_status_display"}) /\ ArduinoButtonStatusDisplay
    BY <1>3, RoundRests, TaskOfRun DEF Moves, Writers, ArduinoButtonStatusDisplay, ReportPress
<1>4. CASE Runs("arduino_mega", {"button_status_count"}) /\ ArduinoButtonStatusCount
    BY <1>4, RoundRests, TaskOfRun DEF Moves, Writers, ArduinoButtonStatusCount, CountPress
<1>5. CASE Runs("arduino_mega", {"button_press_debounce"}) /\ ArduinoButtonPressDebounce
    BY <1>5, RoundRests, TaskOfRun DEF Moves, Writers, ArduinoButtonPressDebounce, Debounce, Poll
<1>6. CASE Runs("arduino_mega", {"buzzer_doorbell"}) /\ ArduinoBuzzerDoorbell
    BY <1>6, RoundAdvances, TaskOfRun DEF Moves, Writers, ArduinoBuzzerDoorbell, Follow, Poll
<1>7. CASE Runs("arduino_mega", {"hcsr501_motion_alarm", "tilt_detection_alarm"}) /\ ArduinoDigitalFollow
    BY <1>7, RoundAdvances, TaskOfRun DEF Moves, Writers, ArduinoDigitalFollow, Follow, Poll
<1>8. CASE Runs("arduino_mega", {"clap_switch"}) /\ ArduinoClapSwitch
    BY <1>8, RoundAdvances, TaskOfRun DEF Moves, Writers, ArduinoClapSwitch, ToggleOnSound
<1>9. CASE Runs("arduino_mega", {"sensor_pir_human_motion"}) /\ ArduinoPirSerial
    BY <1>9, RoundRests, TaskOfRun DEF Moves, Writers, ArduinoPirSerial, ReportMotion
<1>10. CASE Runs("arduino_mega", {"buzzer_toggle_led_freq"}) /\ ArduinoButtonLedFrequency
    BY <1>10, RoundAdvances, TaskOfRun DEF Moves, Writers, ArduinoButtonLedFrequency, Poll
<1>11. CASE Runs("arduino_mega", {"16key_keypad"}) /\ ArduinoKeypadScan
    BY <1>11, RoundRests, TaskOfRun DEF Moves, Writers, ArduinoKeypadScan, ReportKey
<1>12. CASE Runs("arduino_mega", {"safebox"}) /\ ArduinoSafebox
    BY <1>12, RoundAdvances, TaskOfRun DEF Moves, Writers, ArduinoSafebox, EnterKey
<1>13. CASE Runs("arduino_mega", {"safebox_display"}) /\ ArduinoSafeboxDisplay
    BY <1>13, RoundAdvances, TaskOfRun DEF Moves, Writers, ArduinoSafeboxDisplay, EnterKey
<1>14. CASE Runs("arduino_mega", {"rotary_encoder"}) /\ ArduinoRotaryEncoder
    BY <1>14, RoundRests, TaskOfRun DEF Moves, Writers, ArduinoRotaryEncoder, DecodeStep, Poll
<1>15. CASE Runs("arduino_mega", {"step_counter_print"}) /\ ArduinoStepCounter
    BY <1>15, RoundRests, TaskOfRun DEF Moves, Writers, ArduinoStepCounter, CountStep
<1>16. CASE Runs("arduino_mega", {"tmp36_read"}) /\ ArduinoTmp36Read
    BY <1>16, RoundRests, TaskOfRun DEF Moves, Writers, ArduinoTmp36Read, PrintCelsius
<1>17. CASE Runs("arduino_mega", {"sensor_water_level_display"}) /\ ArduinoWaterLevel
    BY <1>17, RoundRests, TaskOfRun DEF Moves, Writers, ArduinoWaterLevel, WaterScreen
<1>18. CASE Runs("arduino_mega", {"tmp36_read_button_display"}) /\ ArduinoTmp36Button
    BY <1>18, RoundRests, TaskOfRun DEF Moves, Writers, ArduinoTmp36Button, Poll
<1>19. CASE Runs("arduino_mega", {"reaction_timer_display"}) /\ ArduinoReactionTimer
    BY <1>19, RoundRests, TaskOfRun DEF Moves, Writers, ArduinoReactionTimer, TimeReaction
<1>20. CASE Runs("arduino_mega", {"lcd1602_display_hello_world"}) /\ ArduinoLcdHello
    BY <1>20, RoundRests, TaskOfRun DEF Moves, Writers, ArduinoLcdHello
<1> QED BY <1>1, <1>2, <1>3, <1>4, <1>5, <1>6, <1>7, <1>8, <1>9, <1>10, <1>11, <1>12, <1>13,
       <1>14, <1>15, <1>16, <1>17, <1>18, <1>19, <1>20, Zenon DEF ArduinoLoop

\* On any platform a round moves the pins of a writer and rests otherwise.
LEMMA LoopsMove ==
    ASSUME Remembers, Task.poll \in Nat, Task.task_id \in Writers => clock \in Nat,
           ZephyrLoop \/ EspLoop \/ ArduinoLoop
    PROVE  Moves
BY ZephyrMoves, EspMoves, ArduinoMoves

\* What the waits depend on is kept.
LEMMA RemembersNext ==
    ASSUME Remembers, Task.task_id \in Writers => clock \in Nat, ZephyrLoop \/ EspLoop \/ ArduinoLoop
    PROVE  Remembers'
<1>1. Task' = Task
    BY RoundsLeaveJob DEF Task
<1>2. ASSUME Task.task_id = "blink_led_morse_code" PROVE Segment(mem')
    <2>1. ZephyrMorseSos \/ EspMorseSos
        BY <1>2 DEF ZephyrLoop, EspLoop, ArduinoLoop, Runs, Is
    <2> QED BY <1>2, <2>1, MorseAdvances DEF ZephyrMorseSos, EspMorseSos
<1>3. ASSUME Task.task_id = "safebox_display" PROVE Typing(mem')
    BY <1>3, SafeRound
<1>4. ASSUME Is("zephyr_nano33ble", {"ds18b20_heat_alarm"}) PROVE Lateness(mem')
    <2>1. ZephyrDs18b20HeatAlarm /\ clock \in Nat
        BY <1>4 DEF ZephyrLoop, EspLoop, ArduinoLoop, Runs, Is, Writers
    <2> QED BY <1>4, <2>1, HeatAdvances
<1>5. Segment(mem)' = Segment(mem') /\ Typing(mem)' = Typing(mem') /\ Lateness(mem)' = Lateness(mem')
    BY <1>1 DEF Segment, Typing, Lateness
<1> QED BY <1>1, <1>2, <1>3, <1>4, <1>5 DEF Remembers, Is

-----------------------------------------------------------------------------
(* Traces *)

\* A signal of the analyzer is at one pin.
OneProbe == \A c, d \in ToSet(Channels(Task)) : c.signal = d.signal => c.pin = d.pin

\* A variant is wired like its task.
LEMMA RunsKeepWires ==
    ASSUME NEW task, TypedTask(task), NEW i \in DOMAIN RunsOf(task)
    PROVE  RunsOf(task)[i].platform = task.platform /\ Channels(RunsOf(task)[i]) = Channels(task)
<1>1. CASE task.variants = <<>>
    BY <1>1 DEF RunsOf
<1>2. CASE task.variants # <<>>
    <2>1. RunsOf(task)[i] = TaskForVariant(task, task.variants[i])
        BY <1>2 DEF RunsOf
    <2> QED BY <2>1, VariantOfTask DEF Channels
<1> QED BY <1>1, <1>2

\* So on a bench each signal is at one pin, and the board has times to start.
LEMMA BenchIsWired ==
    ASSUME Placed, phase \in {"boot", "run"}
    PROVE  OneProbe /\ Task.platform \in DOMAIN Boots
<1>1. /\ job \in DOMAIN Tasks /\ stage \in DOMAIN RunsOf(Tasks[job])
      /\ Task = RunsOf(Tasks[job])[stage]
    BY DEF Placed, Jobs
<1>2. TypedTask(Tasks[job]) /\ Tasks[job].platform \in DOMAIN Boots
    BY <1>1, TasksAssumption, BootsAssumption
<1>3. Task.platform = Tasks[job].platform /\ Channels(Task) = Channels(Tasks[job])
    BY <1>1, <1>2, RunsKeepWires
<1> QED BY <1>2, <1>3 DEF OneProbe, TypedTask

\* The trace of a signal is a history of the pin it probes, up to the time.
Follows(ch, time) ==
    /\ ch.signal \in DOMAIN vcd /\ ch.pin \in DOMAIN pins
    /\ \E V, t : /\ t \in Int /\ vcd[ch.signal] \in Tells(V, [at |-> t, v |-> pins[ch.pin]])
                 /\ Task.task_id \in Writers => t <= time
\* While a firmware runs, every trace follows its pin, and where pins are written the
\* time is known.
Traced ==
    phase = "run" =>
        /\ Remembers
        /\ Task.task_id \in Writers => clock \in Nat
        /\ \A ch \in ToSet(Channels(Task)) : Follows(ch, clock)

\* What is recorded of a round for a signal is a change of the pin it probes.
LEMMA RecordedSignal ==
    ASSUME OneProbe, NEW ch \in ToSet(Channels(Task)), ch.signal \in DOMAIN vcd, NEW levels
    PROVE  /\ ch.signal \in DOMAIN Recorded(levels)
           /\ Recorded(levels)[ch.signal] =
                 IF ch.pin \in DOMAIN levels /\ levels[ch.pin] # pins[ch.pin]
                 THEN Normalize(vcd[ch.signal], [at |-> clock, v |-> levels[ch.pin]]) ELSE vcd[ch.signal]
<1> DEFINE chosen == CHOOSE c \in ToSet(Channels(Task)) : c.signal = ch.signal
<1>1. chosen \in ToSet(Channels(Task)) /\ chosen.signal = ch.signal
    OBVIOUS
<1>2. chosen.pin = ch.pin
    BY <1>1 DEF OneProbe
<1> HIDE DEF chosen
<1>3. Recorded(levels) = [signal \in DOMAIN vcd |->
        LET pin == (CHOOSE c \in ToSet(Channels(Task)) : c.signal = signal).pin IN
        IF pin \in DOMAIN levels /\ levels[pin] # pins[pin]
        THEN Normalize(vcd[signal], [at |-> clock, v |-> levels[pin]]) ELSE vcd[signal]]
    BY DEF Recorded
<1> QED BY <1>2, <1>3 DEF chosen

\* A trace may be read with more levels than it has.
LEMMA MoreLevels == \A V, W, e : Tells(V, e) \subseteq Tells(V \cup W, e)
<1> SUFFICES ASSUME NEW V, NEW W, NEW e, NEW t \in Tells(V, e) PROVE t \in Tells(V \cup W, e)
    OBVIOUS
<1> DEFINE S == Event(V)
           T == Event(V \cup W)
<1>1. t \in Seq(S) /\ S \subseteq T
    BY DEF Tells, Event
<1> HIDE DEF S, T
<1>2. t \in Seq(T)
    <2>1. \A i \in 1..Len(t) : t[i] \in T
        BY <1>1
    <2> QED BY <1>1, <2>1
<1> QED BY <1>2 DEF Tells, T

\* A trace that follows its pin still does after a round that writes,
LEMMA AdvanceFollows ==
    ASSUME OneProbe, Task' = Task, Task.task_id \in Writers, clock \in Nat, Task.jitter \in Nat, Advances,
           NEW ch \in ToSet(Channels(Task)), Follows(ch, clock)
    PROVE  clock' \in Nat /\ Follows(ch, clock)'
<1>1. PICK levels, ms, late :
        /\ ms \in Nat /\ late \in 0..Task.jitter
        /\ pins' = Overlay(levels, pins) /\ vcd' = Recorded(levels) /\ clock' = clock + ms + late
    BY DEF Advances
<1>2. clock' \in Nat /\ clock <= clock'
    BY <1>1
<1>3. PICK V, t : /\ ch.signal \in DOMAIN vcd /\ ch.pin \in DOMAIN pins
                  /\ t \in Int /\ vcd[ch.signal] \in Tells(V, [at |-> t, v |-> pins[ch.pin]]) /\ t <= clock
    BY DEF Follows
<1> DEFINE trace == vcd[ch.signal]
           level == levels[ch.pin]
           e == [at |-> clock, v |-> level]
<1>4. ch.signal \in DOMAIN vcd' /\ ch.pin \in DOMAIN pins'
    BY <1>1, <1>3, RecordedSignal DEF Overlay
<1>5. pins'[ch.pin] = IF ch.pin \in DOMAIN levels THEN level ELSE pins[ch.pin]
    BY <1>1, <1>3 DEF Overlay
<1>6. vcd'[ch.signal] = IF ch.pin \in DOMAIN levels /\ level # pins[ch.pin] THEN Normalize(trace, e) ELSE trace
    BY <1>1, <1>3, RecordedSignal
<1>7. CASE ch.pin \in DOMAIN levels /\ level # pins[ch.pin]
    <2> DEFINE W == V \cup {level}
               new == Normalize(trace, e)
    <2>1. trace \in Tells(W, [at |-> t, v |-> pins[ch.pin]])
        BY <1>3, MoreLevels
    <2>2. e \in Event(W) /\ e.v = level /\ e.at = clock
        BY DEF Event
    <2>3. trace \in Seq(Event(W)) /\ trace # <<>> /\ History(trace) /\ Last(trace).at <= t
        BY <2>1 DEF Tells
    <2> HIDE DEF trace, e, W, level
    <2>4. Last(trace).at \in Int
        BY <2>3, FrontAndLast, EventsOfLog
    <2>5. Last(trace).at <= e.at
        BY <1>3, <2>2, <2>3, <2>4
    <2>6. new \in Tells(W, e)
        BY <2>2, <2>3, <2>5, NormalizeKeepsHistory DEF Tells
    <2>7. new \in Tells(W, [at |-> clock, v |-> level])
        BY <2>6 DEF e
    <2> QED BY <1>2, <1>4, <1>5, <1>6, <1>7, <2>7 DEF Follows
<1>8. CASE ~(ch.pin \in DOMAIN levels /\ level # pins[ch.pin])
    <2>1. vcd'[ch.signal] = trace /\ pins'[ch.pin] = pins[ch.pin] /\ t <= clock'
        BY <1>2, <1>3, <1>5, <1>6, <1>8
    <2> QED BY <1>2, <1>3, <1>4, <2>1 DEF Follows
<1> QED BY <1>7, <1>8

\* and after one that does not.
LEMMA RestFollows ==
    ASSUME OneProbe, Task' = Task, Task.task_id \notin Writers, Rests,
           NEW ch \in ToSet(Channels(Task)), Follows(ch, clock)
    PROVE  Follows(ch, clock)'
<1>1. DOMAIN Nothing = {}
    BY DEF Nothing
<1>2. ch.signal \in DOMAIN vcd' /\ vcd'[ch.signal] = vcd[ch.signal]
    BY <1>1, RecordedSignal DEF Rests, Follows
<1>3. ch.pin \in DOMAIN pins' /\ pins'[ch.pin] = pins[ch.pin]
    BY <1>1 DEF Rests, Follows, Overlay
<1> QED BY <1>2, <1>3 DEF Follows

\* The log of a pin before the loop: low at the start, with a pulse or without.
LEMMA LogOfPulse ==
    ASSUME NEW boot \in Nat, NEW pulse,
           pulse = <<>> \/ pulse = <<boot, boot>> \/ (boot >= 2 /\ pulse = <<boot - 2, boot - 1>>)
    PROVE  LET log == <<[at |-> 0, v |-> 0]>> \o [i \in DOMAIN pulse |-> [at |-> pulse[i], v |-> i % 2]] IN
           \E n, t : Log({0, 1}, log, n) /\ t \in 0..boot /\ log[n] = [at |-> t, v |-> 0]
<1> DEFINE log == <<[at |-> 0, v |-> 0]>> \o [i \in DOMAIN pulse |-> [at |-> pulse[i], v |-> i % 2]]
<1>1. CASE pulse = <<>>
    <2>1. [i \in DOMAIN pulse |-> [at |-> pulse[i], v |-> i % 2]] = <<>>
        BY <1>1
    <2>2. log = <<[at |-> 0, v |-> 0]>>
        BY <2>1
    <2> HIDE DEF log
    <2>3. Log({0, 1}, log, 1) /\ log[1] = [at |-> 0, v |-> 0]
        BY <2>2 DEF Log, Event
    <2> QED BY <2>3 DEF log
<1>2. ASSUME NEW a \in Nat, NEW b \in Nat, pulse = <<a, b>>, a <= b, b <= boot
      PROVE  \E n, t : Log({0, 1}, log, n) /\ t \in 0..boot /\ log[n] = [at |-> t, v |-> 0]
    <2>1. [i \in DOMAIN pulse |-> [at |-> pulse[i], v |-> i % 2]] = <<[at |-> a, v |-> 1], [at |-> b, v |-> 0]>>
        <3>1. DOMAIN pulse = 1..2 /\ pulse[1] = a /\ pulse[2] = b /\ 1 % 2 = 1 /\ 2 % 2 = 0
            BY <1>2
        <3> QED BY <3>1
    <2>2. \A v \in {0, 1}, t \in Int : [at |-> t, v |-> v] \in Event({0, 1})
        BY DEF Event
    <2> DEFINE u == <<[at |-> 0, v |-> 0]>>
               w == <<[at |-> a, v |-> 1], [at |-> b, v |-> 0]>>
    <2>3. /\ u \in Seq(Event({0, 1})) /\ Len(u) = 1 /\ u[1].at = 0
          /\ w \in Seq(Event({0, 1})) /\ Len(w) = 2 /\ w[1].at = a /\ w[2] = [at |-> b, v |-> 0]
        BY <2>2
    <2>7. log = u \o w
        BY <2>1
    <2> HIDE DEF log, u, w
    <2>4. /\ log \in Seq(Event({0, 1})) /\ Len(log) = 3
          /\ log[1] = u[1] /\ log[1 + 1] = w[1] /\ log[1 + 2] = w[2]
        <3>1. /\ log \in Seq(Event({0, 1})) /\ Len(log) = Len(u) + Len(w)
              /\ \A i \in 1..Len(u) : log[i] = u[i]
              /\ \A i \in 1..Len(w) : log[Len(u) + i] = w[i]
            <4> DEFINE E == Event({0, 1})
            <4>1. u \in Seq(E) /\ w \in Seq(E)
                BY <2>3
            <4> HIDE DEF E
            <4>2. /\ u \o w \in Seq(E) /\ Len(u \o w) = Len(u) + Len(w)
                  /\ \A i \in 1..Len(u) : (u \o w)[i] = u[i]
                  /\ \A i \in 1..Len(w) : (u \o w)[Len(u) + i] = w[i]
                BY ONLY <4>1, JoinAny
            <4> QED BY <2>7, <4>2 DEF E
        <3> QED BY <2>3, <3>1
    <2>5. log[1].at = 0 /\ log[2].at = a /\ log[3].at = b /\ log[3] = [at |-> b, v |-> 0]
        BY <2>3, <2>4
    <2>6. Log({0, 1}, log, 3)
        BY <1>2, <2>4, <2>5 DEF Log
    <2> QED BY <1>2, <2>5, <2>6
<1> QED
    <2>1. CASE pulse = <<boot, boot>>
        <3>1. boot <= boot
            OBVIOUS
        <3> QED BY <1>2, <2>1, <3>1
    <2>2. CASE boot >= 2 /\ pulse = <<boot - 2, boot - 1>>
        <3>1. boot - 2 \in Nat /\ boot - 1 \in Nat /\ boot - 2 <= boot - 1 /\ boot - 1 <= boot
            BY <2>2
        <3> QED BY <1>2, <2>2, <3>1
    <2> QED BY <1>1, <2>1, <2>2

\* When the board starts, every trace follows its pin, whichever simulator wrote it.
LEMMA PowerUpFollows ==
    ASSUME Task' = Task, NEW boot \in Nat, Task.platform = "esp32s3_espidf" => boot >= 2,
           NEW variables, NEW bytes, PowerUp(boot, variables, bytes),
           NEW ch \in ToSet(Channels(Task))
    PROVE  Follows(ch, clock)'
<1>1. PICK pulse \in IF Task.platform = "esp32s3_espidf" THEN {<<boot - 2, boot - 1>>} ELSE {<<>>, <<boot, boot>>} :
          LET log == <<[at |-> 0, v |-> 0]>> \o [i \in DOMAIN pulse |-> [at |-> pulse[i], v |-> i % 2]]
          IN vcd' = [signal \in {c.signal : c \in ToSet(Channels(Task))} |->
                       NormalizeEvents(IF Profile(Task).backend = "renode" THEN HookTrace(log) ELSE log)]
    BY DEF PowerUp
<1> DEFINE log == <<[at |-> 0, v |-> 0]>> \o [i \in DOMAIN pulse |-> [at |-> pulse[i], v |-> i % 2]]
<1>2. PICK n, t : Log({0, 1}, log, n) /\ t \in 0..boot /\ log[n] = [at |-> t, v |-> 0]
    BY <1>1, LogOfPulse
<1>3. ch.signal \in DOMAIN vcd'
      /\ vcd'[ch.signal] = NormalizeEvents(IF Profile(Task).backend = "renode" THEN HookTrace(log) ELSE log)
    BY <1>1
<1>4. clock' = boot /\ ch.pin \in DOMAIN pins' /\ pins'[ch.pin] = 0
    BY DEF PowerUp
<1> HIDE DEF log
<1>5. vcd'[ch.signal] \in Tells({0, 1}, [at |-> t, v |-> 0])
    BY <1>2, <1>3, TracesOfLogs
<1>6. t \in Int /\ t <= boot
    BY <1>2
<1> QED BY <1>3, <1>4, <1>5, <1>6 DEF Follows

\* So the boot sets up what the rounds keep,
LEMMA BootTraces == ASSUME Placed, Boot PROVE Traced'
<1>0. phase = "boot" /\ phase' = "run" /\ Task' = Task
    BY DEF Boot, Task
<1>1. PICK boot \in Boots[Task.platform], bytes \in FirstBytes,
           late \in IF ChipsAtBoot = {<<>>} THEN {OnTime} ELSE Delays :
           PowerUp(boot + DisplayDelay, [FirstVariables(boot) EXCEPT !.late = late], bytes)
    BY DEF Boot
<1> DEFINE time == boot + DisplayDelay
           first == [FirstVariables(boot) EXCEPT !.late = late]
<1>2. Task.platform \in DOMAIN Boots
    BY <1>0, BenchIsWired
<1>3. boot \in Nat /\ (Task.platform = "esp32s3_espidf" => boot >= 2)
    BY <1>2, BootsAssumption
<1>4. time \in Nat /\ (Task.platform = "esp32s3_espidf" => time >= 2)
    BY <1>3 DEF DisplayDelay
<1>5. /\ DOMAIN first = DOMAIN Registers
      /\ first.state = 0 /\ first.entry = <<>> /\ first.late = late /\ first.open = FALSE
    BY DEF FirstVariables, Registers
<1>6. late.wait \in Nat
    <2>1. late \in Delays
        BY DelaysAssumption
    <2> QED BY <2>1, DelaysAssumption
<1>7. {"state", "entry", "late", "open"} \subseteq DOMAIN Registers
    BY DEF Registers
<1> HIDE DEF time, first
<1>8. /\ clock' = time
      /\ mem' = [first EXCEPT !.since = IF Task.platform = "arduino_mega" THEN 0 ELSE time, !.mark = time]
    BY <1>1 DEF PowerUp, time, first
<1>9. /\ DOMAIN mem' = DOMAIN first /\ mem'.state = first.state /\ mem'.entry = first.entry
      /\ mem'.late = first.late /\ mem'.open = first.open
    BY <1>5, <1>7, <1>8
<1>10. Segment(mem)' /\ Typing(mem)' /\ Lateness(mem)'
    <2>1. <<>> \in Seq(KeyCodes) /\ Len(<<>>) <= 4 /\ Len(<<>>) # 4
        OBVIOUS
    <2>2. Typing(mem)'
        BY <1>5, <1>7, <1>9, <2>1 DEF Typing
    <2> QED BY <1>5, <1>6, <1>7, <1>9, <2>2 DEF Segment, Lateness
<1>11. \A ch \in ToSet(Channels(Task)) : Follows(ch, clock)'
    BY <1>0, <1>1, <1>4, PowerUpFollows DEF time
<1> QED BY <1>0, <1>4, <1>8, <1>10, <1>11 DEF Traced, Remembers

\* and every step keeps it.
LEMMA TracedNext == Placed /\ Traced /\ [Next]_vars => Traced'
<1> SUFFICES ASSUME Placed, Traced, [Next]_vars PROVE Traced'
    OBVIOUS
<1>1. CASE Boot
    BY <1>1, BootTraces
<1>2. CASE ZephyrLoop \/ EspLoop \/ ArduinoLoop
    <2>1. phase = "run" /\ phase' = "run" /\ Task' = Task
        BY <1>2, RoundsLeaveJob DEF Task
    <2>2. OneProbe /\ Task.poll \in Nat /\ Task.jitter \in Nat
        BY <2>1, BenchIsWired, BenchIsChecked DEF Checked
    <2>3. Remembers /\ (Task.task_id \in Writers => clock \in Nat)
          /\ \A ch \in ToSet(Channels(Task)) : Follows(ch, clock)
        BY <2>1 DEF Traced
    <2>4. Moves /\ Remembers'
        BY <1>2, <2>2, <2>3, LoopsMove, RemembersNext
    <2>5. CASE Task.task_id \in Writers
        <3>1. Advances
            BY <2>4, <2>5 DEF Moves
        <3>2. \A ch \in ToSet(Channels(Task)) : Follows(ch, clock)'
            BY <2>1, <2>2, <2>3, <2>5, <3>1, AdvanceFollows
        <3>3. clock' \in Nat
            BY <2>2, <2>3, <2>5, <3>1 DEF Advances
        <3> QED BY <2>1, <2>4, <3>2, <3>3 DEF Traced
    <2>6. CASE Task.task_id \notin Writers
        <3>1. Rests
            BY <2>4, <2>6 DEF Moves
        <3>2. \A ch \in ToSet(Channels(Task)) : Follows(ch, clock)'
            BY <2>1, <2>2, <2>3, <2>6, <3>1, RestFollows
        <3> QED BY <2>1, <2>4, <2>6, <3>2 DEF Traced
    <2> QED BY <2>5, <2>6
<1>3. CASE Lint \/ Prepare \/ Timeout \/ Judge
    <2>1. phase' # "run"
        BY <1>3 DEF Lint, Prepare, Timeout, Judge
    <2> QED BY <2>1 DEF Traced
<1>4. CASE UNCHANGED vars
    <2>1. phase' = phase /\ Task' = Task /\ clock' = clock /\ mem' = mem /\ vcd' = vcd /\ pins' = pins
        BY <1>4 DEF vars, board, Task
    <2> QED BY <2>1 DEF Traced, Follows, Remembers, Is, Segment, Typing, Lateness
<1> QED BY <1>1, <1>2, <1>3, <1>4 DEF Next

\* Every trace is a history that ends with the level of its pin, at all times of every
\* run: what the segments, ratios and edges of bench/vcd.py are computed from.
THEOREM TracesAlways == Spec => []TraceIsHistory
<1>1. Init => Traced
    BY DEF Init, Traced
<1>2. Traced => TraceIsHistory
    <2> SUFFICES ASSUME Traced, phase = "run", NEW ch \in ToSet(Channels(Task))
                 PROVE  LET trace == vcd[ch.signal] IN
                        /\ \A i \in 2..Len(trace) : trace[i - 1].at < trace[i].at /\ trace[i - 1].v # trace[i].v
                        /\ Last(trace).v = pins[ch.pin]
        BY DEF TraceIsHistory
    <2>1. Follows(ch, clock)
        BY DEF Traced
    <2> QED BY <2>1 DEF Follows, Tells, History
<1> QED BY <1>1, <1>2, AlwaysPlaced, TracedNext, PTL DEF Spec
-----------------------------------------------------------------------------
(* The screen *)

\* The cells of a line: its text, then blanks.
LEMMA CellsOfRow ==
    ASSUME NEW text \in Seq(Char), NEW i \in 1..Columns
    PROVE  RowOf(text)[i] = IF i <= Len(text) THEN text[i] ELSE Blank
<1>1. EmptyRow[i] = Blank
    BY DEF EmptyRow
<1>2. RowOf(text) = [c \in 1..Columns |-> IF 0 < c /\ c <= 0 + Len(text) THEN text[c - 0] ELSE EmptyRow[c]]
    BY DEF RowOf, Written
<1>3. 0 < i /\ i - 0 = i /\ 0 + Len(text) = Len(text)
    BY DEF Columns
<1> QED BY <1>1, <1>2, <1>3

\* What is read from the lines of a safe: the entry, and whether the word is that for
\* an open safe.
LEMMA ShowingTells ==
    ASSUME NEW p, NEW entry \in Seq(KeyCodes), Len(entry) <= 4, NEW word \in SafeWords, Showing(p, entry, word)
    PROVE  /\ entry # <<>> => Stripped(p.screen.frame[1]) = <<Glyph.Input, Blank>> \o entry
           /\ word = Glyph.Success <=> FrameContains(p.screen.frame, <<Glyph.Status, Blank, Glyph.Success>>)
<1> DEFINE frame == p.screen.frame
           u == <<Glyph.Input, Blank>>
           a == u \o entry
           b == <<Glyph.Status, Blank, word>>
<1>1. /\ Glyph.Input \in Char \ {Glyph.Success, Blank} /\ Glyph.Status \in Char \ {Glyph.Success, Blank}
      /\ Blank \in Char \ {Glyph.Success} /\ Glyph.Success \in Char \ {Blank} /\ SafeWords \subseteq Char \ {Blank}
    BY DEF Glyph, Blank, Char, SafeWords
<1>2. frame \in Frame /\ frame[1] = RowOf(a) /\ frame[2] = RowOf(b)
    BY DEF Showing, Ready, Screens
<1>3. /\ a \in Seq(Char) /\ Len(a) = 2 + Len(entry) /\ Len(entry) \in Nat
      /\ a[1] = Glyph.Input /\ a[2] = Blank /\ \A i \in 1..Len(entry) : a[2 + i] = entry[i]
    <2>1. u \in Seq(Char) /\ Len(u) = 2 /\ u[1] = Glyph.Input /\ u[2] = Blank
        BY <1>1
    <2>2. entry \in Seq(Char) /\ Len(entry) \in Nat
        BY DEF KeyCodes
    <2> HIDE DEF u
    <2>3. /\ u \o entry \in Seq(Char) /\ Len(u \o entry) = Len(u) + Len(entry)
          /\ \A i \in 1..Len(u) : (u \o entry)[i] = u[i]
          /\ \A i \in 1..Len(entry) : (u \o entry)[Len(u) + i] = entry[i]
        <3>1. u \in Seq(Char) /\ entry \in Seq(Char)
            BY <2>1, <2>2
        <3> QED BY ONLY <3>1, JoinAny
    <2> QED BY <2>1, <2>2, <2>3
<1>4. b \in Seq(Char) /\ Len(b) = 3 /\ b[1] = Glyph.Status /\ b[2] = Blank /\ b[3] = word
    BY <1>1
<1> HIDE DEF a, b, frame
<1>5. ASSUME entry # <<>> PROVE Stripped(frame[1]) = a
    <2>1. Len(entry) \in 1..4 /\ Len(entry) \in 1..Len(entry)
        <3> DEFINE n == Len(entry)
        <3>1. n \in Nat /\ n # 0 /\ n <= 4
            BY <1>5
        <3> HIDE DEF n
        <3>2. n \in 1..4 /\ n \in 1..n
            BY <3>1
        <3> QED BY <3>2 DEF n
    <2>2. entry[Len(entry)] \in KeyCodes
        <3> DEFINE n == Len(entry)
        <3>1. n \in 1..Len(entry)
            BY <2>1
        <3> HIDE DEF n
        <3> QED BY <3>1 DEF n
    <2>3. a[Len(a)] = entry[Len(entry)]
        BY <1>3, <2>1
    <2>4. Len(a) \in 1..Columns /\ a[Len(a)] # Blank
        BY <1>3, <2>1, <2>2, <2>3 DEF KeyCodes, Columns
    <2> QED BY <1>2, <1>3, <2>4, StrippedIsText
<1>6. ASSUME word = Glyph.Success PROVE FrameContains(frame, b)
    <2>1. Len(b) \in 1..Columns /\ b[Len(b)] # Blank
        BY <1>1, <1>4 DEF Columns
    <2> QED BY <1>2, <1>4, <2>1, FrameTells
<1>7. ASSUME word # Glyph.Success PROVE ~FrameContains(frame, <<Glyph.Status, Blank, Glyph.Success>>)
    <2>1. \A i \in 1..Columns : frame[1][i] # Glyph.Success
        <3> TAKE i \in 1..Columns
        <3>0. i \in 1..16
            BY DEF Columns
        <3>1. RowOf(a)[i] = IF i <= Len(a) THEN a[i] ELSE Blank
            BY <1>3, CellsOfRow
        <3>2. CASE i \in 1..2
            BY <1>1, <1>2, <1>3, <3>1, <3>2
        <3>3. CASE i \in 3..(2 + Len(entry))
            <4> DEFINE k == i - 2
            <4>1. k \in 1..Len(entry) /\ i = 2 + k
                BY <1>3, <3>3
            <4> HIDE DEF k
            <4>2. a[i] = entry[k] /\ entry[k] \in KeyCodes
                BY <1>3, <4>1
            <4> QED BY <1>2, <1>3, <3>1, <3>3, <4>2, <1>1 DEF KeyCodes
        <3>4. CASE i > 2 + Len(entry)
            BY <1>1, <1>2, <1>3, <3>0, <3>1, <3>4
        <3> QED BY <1>3, <3>0, <3>2, <3>3, <3>4
    <2>2. \A i \in 1..Columns : frame[2][i] # Glyph.Success
        <3> TAKE i \in 1..Columns
        <3>0. i \in 1..16
            BY DEF Columns
        <3>1. RowOf(b)[i] = IF i <= Len(b) THEN b[i] ELSE Blank
            BY <1>4, CellsOfRow
        <3>2. CASE i \in 1..3
            <4>1. RowOf(b)[i] = b[i] /\ i \in {1, 2, 3}
                BY <1>4, <3>1, <3>2
            <4> QED BY <1>1, <1>2, <1>4, <1>7, <4>1
        <3>3. CASE i > 3
            BY <1>1, <1>2, <1>4, <3>0, <3>1, <3>3
        <3> QED BY <3>0, <3>2, <3>3
    <2> QED BY <1>1, <1>2, <2>1, <2>2, FrameTells
<1> QED BY <1>5, <1>6, <1>7 DEF a, b, frame

\* A blank screen says nothing.
LEMMA BlankTells == ~FrameContains(EmptyFrame, <<Glyph.Status, Blank, Glyph.Success>>)
<1>1. EmptyFrame \in Frame /\ EmptyFrame[1] = EmptyRow /\ EmptyFrame[2] = EmptyRow
    BY ScreensAfter
<1>2. Glyph.Status \in Char /\ Blank \in Char /\ Glyph.Success \in Char /\ Glyph.Success # Blank
    BY DEF Glyph, Blank, Char
<1>3. \A i \in 1..Columns : EmptyRow[i] = Blank
    BY DEF EmptyRow
<1> QED BY <1>1, <1>2, <1>3, FrameTells

\* The greeting is on the first row, two cells from the left.
Greets(p) == p \in Ready /\ Told(p) /\ Stripped(p.screen.frame[1]) = <<Blank, Blank>> \o Greeting

\* While a firmware runs, its display shows the safe or the greeting.
Screened ==
    phase = "run" =>
        /\ Task.task_id = "safebox_display" => ShowsSafe(mem, panel)
        /\ Task.task_id = "lcd1602_display_hello_world" /\ Task.platform # "arduino_mega" => Greets(panel)

\* That is what is wanted of it: the last frame of the history is the screen.
LEMMA ScreenedIsIntended == Screened => ScreenIsIntended
<1> SUFFICES ASSUME Screened, phase = "run"
             PROVE  LET frame == Last(panel.frames) IN
                    /\ Task.task_id = "safebox_display" =>
                          /\ Task.platform # "zephyr_nano33ble" /\ mem.entry # <<>> =>
                                Stripped(frame[1]) = <<Glyph.Input, Blank>> \o mem.entry
                          /\ mem.open <=> FrameContains(frame, <<Glyph.Status, Blank, Glyph.Success>>)
                    /\ Task.task_id = "lcd1602_display_hello_world" /\ Task.platform # "arduino_mega" =>
                          Stripped(frame[1]) = <<Blank, Blank>> \o Greeting
    BY DEF ScreenIsIntended
<1> DEFINE frame == Last(panel.frames)
           shown == panel.screen.frame
           sign == <<Glyph.Status, Blank, Glyph.Success>>
<1>1. Told(panel) => frame = shown
    BY DEF Told, Last
<1> HIDE DEF frame, shown
<1>2. ASSUME Task.task_id = "safebox_display"
      PROVE  /\ Task.platform # "zephyr_nano33ble" /\ mem.entry # <<>> =>
                   Stripped(frame[1]) = <<Glyph.Input, Blank>> \o mem.entry
             /\ mem.open <=> FrameContains(frame, sign)
    <2>1. ShowsSafe(mem, panel) /\ frame = shown
        BY <1>1, <1>2 DEF Screened, ShowsSafe
    <2>2. CASE ~mem.open /\ shown = EmptyFrame /\ (mem.entry = <<>> \/ Task.platform = "zephyr_nano33ble")
        <3>1. ~FrameContains(frame, sign)
            BY <2>1, <2>2, BlankTells
        <3> HIDE DEF sign
        <3> QED BY <2>2, <3>1
    <2>3. ASSUME NEW entry \in Seq(KeyCodes), NEW word \in SafeWords,
                 Len(entry) <= 4, Showing(panel, entry, word), mem.open <=> word = Glyph.Success,
                 mem.entry \in {entry, <<>>} \/ Task.platform = "zephyr_nano33ble"
          PROVE  /\ Task.platform # "zephyr_nano33ble" /\ mem.entry # <<>> =>
                       Stripped(frame[1]) = <<Glyph.Input, Blank>> \o mem.entry
                 /\ mem.open <=> FrameContains(frame, sign)
        <3>1. /\ entry # <<>> => Stripped(frame[1]) = <<Glyph.Input, Blank>> \o entry
              /\ word = Glyph.Success <=> FrameContains(frame, sign)
            BY <2>1, <2>3, ShowingTells DEF shown
        <3> HIDE DEF sign
        <3> QED BY <2>3, <3>1
    <2> HIDE DEF sign
    <2> QED BY <2>1, <2>2, <2>3 DEF ShowsSafe, shown
<1>3. ASSUME Task.task_id = "lcd1602_display_hello_world", Task.platform # "arduino_mega"
      PROVE  Stripped(frame[1]) = <<Blank, Blank>> \o Greeting
    BY <1>1, <1>3 DEF Screened, Greets, shown
<1> QED BY <1>2, <1>3 DEF frame

\* A cleared display that is sent the entry shows it; one that is sent the greeting at
\* its place, with blanks or without, greets.
LEMMA FirstMessages ==
    ASSUME NEW p, Cleared(p)
    PROVE  LET read(m) == NibbleFold!Folded(p, m)
               padded == SetCursor(0, 0) \o Write(<<Blank, Blank>> \o Greeting)
               placed == SetCursor(2, 0) \o Write(Greeting)
           IN /\ Entering(<<>>) \in Seq(BusPulse) /\ Showing(read(Entering(<<>>)), <<>>, Glyph.Enter)
              /\ padded \in Seq(BusPulse) /\ Greets(read(padded))
              /\ placed \in Seq(BusPulse) /\ Greets(read(placed))
<1> DEFINE read(x, m) == NibbleFold!Folded(x, m)
           text == <<Blank, Blank>> \o Greeting
<1>1. p \in Ready /\ Told(p) /\ p.screen.frame = EmptyFrame
    BY DEF Cleared
<1>2. Entering(<<>>) \in Seq(BusPulse) /\ Showing(read(p, Entering(<<>>)), <<>>, Glyph.Enter)
    <2>1. <<>> \in Seq(KeyCodes) /\ Len(<<>>) <= 4 /\ Glyph.Enter \in SafeWords
        BY DEF SafeWords
    <2> QED BY <1>1, <2>1, StatusAppears DEF Entering
<1>3. /\ Greeting \in Seq(Char) /\ Len(Greeting) = 3
      /\ Greeting[1] = Glyph.Hello /\ Greeting[2] = Blank /\ Greeting[3] = Glyph.World
    BY DEF Greeting, Glyph, Blank, Char
<1>4. /\ text \in Seq(Char) /\ Len(text) = 5 /\ text[1] = Blank /\ text[2] = Blank
      /\ \A i \in 1..3 : text[2 + i] = Greeting[i]
    <2> DEFINE u == <<Blank, Blank>>
    <2>1. u \in Seq(Char) /\ Len(u) = 2 /\ u[1] = Blank /\ u[2] = Blank
        BY DEF Blank, Char
    <2> HIDE DEF u
    <2>2. /\ u \o Greeting \in Seq(Char) /\ Len(u \o Greeting) = Len(u) + Len(Greeting)
          /\ \A i \in 1..Len(u) : (u \o Greeting)[i] = u[i]
          /\ \A i \in 1..Len(Greeting) : (u \o Greeting)[Len(u) + i] = Greeting[i]
        <3>1. u \in Seq(Char) /\ Greeting \in Seq(Char)
            BY <1>3, <2>1
        <3> QED BY ONLY <3>1, JoinAny
    <2> QED BY <1>3, <2>1, <2>2 DEF u
<1> HIDE DEF text
<1>5. text[Len(text)] # Blank /\ Len(text) \in 1..Columns
    <2>1. Len(text) = 2 + 3
        BY <1>4
    <2>2. text[Len(text)] = Greeting[3]
        BY <1>4, <2>1
    <2> QED BY <1>3, <1>4, <2>2 DEF Columns, Glyph, Blank
<1>6. Stripped(RowOf(text)) = text
    BY <1>4, <1>5, StrippedIsText
<1>7. ASSUME NEW col \in {0, 2}, NEW t \in Seq(Char), Len(t) <= 5, Written(EmptyRow, col, t) = RowOf(text)
      PROVE  /\ SetCursor(col, 0) \o Write(t) \in Seq(BusPulse)
             /\ Greets(read(p, SetCursor(col, 0) \o Write(t)))
    <2> DEFINE at == SetCursor(col, 0)
               q == read(p, at)
               r == read(q, Write(t))
    <2>0. col \in 0..15 /\ 0 \in {0, 1}
        BY <1>7
    <2>1. at \in Seq(BusPulse) /\ Write(t) \in Seq(BusPulse)
        BY <1>7, <2>0, CommandsAreRead, WriteAppends
    <2>2. q \in Ready /\ Told(q) /\ q.screen.frame = EmptyFrame /\ q.screen.cursor = Address(1, col)
        <3>1. PutAt(p, q, 0 + 1, col)
            BY <1>1, <2>0, CommandsAreRead
        <3>2. 0 + 1 = 1
            OBVIOUS
        <3> QED BY <1>1, <3>1, <3>2 DEF PutAt
    <2> HIDE DEF q, at
    <2>3. Appeared(q, r, 1, col, t)
        <3>1. 1 \in 1..2 /\ col \in Nat /\ col + Len(t) <= Columns
            BY <1>7 DEF Columns
        <3> QED BY <1>7, <2>2, <3>1, TextAppears
    <2>4. r \in Ready /\ Told(r) /\ r.screen.frame[1] = RowOf(text)
        <3>1. EmptyFrame \in Frame /\ EmptyFrame[1] = EmptyRow /\ DOMAIN EmptyFrame = 1..2
            BY ScreensAfter DEF Frame
        <3> QED BY <1>7, <2>2, <2>3, <3>1 DEF Appeared
    <2> HIDE DEF r
    <2>5. Greets(r)
        BY <1>6, <2>4 DEF Greets, text
    <2>6. at \o Write(t) \in Seq(BusPulse) /\ read(p, at \o Write(t)) = r
        BY <2>1, MessagesJoin DEF q, r
    <2> QED BY <2>5, <2>6 DEF at
<1>8. Written(EmptyRow, 0, text) = RowOf(text)
    BY DEF RowOf
<1>9. Written(EmptyRow, 2, Greeting) = RowOf(text)
    <2>1. Written(EmptyRow, 2, Greeting)
            = [c \in 1..16 |-> IF 2 < c /\ c <= 5 THEN Greeting[c - 2] ELSE Blank]
        BY <1>3 DEF Written, Columns, EmptyRow
    <2>2. RowOf(text) = [c \in 1..16 |-> IF 0 < c /\ c <= 5 THEN text[c - 0] ELSE Blank]
        BY <1>4 DEF RowOf, Written, Columns, EmptyRow
    <2>3. ASSUME NEW c \in 1..16
          PROVE  (IF 2 < c /\ c <= 5 THEN Greeting[c - 2] ELSE Blank)
                   = IF 0 < c /\ c <= 5 THEN text[c - 0] ELSE Blank
        <3>1. CASE c \in {1, 2}
            BY <1>4, <3>1
        <3>2. CASE c \in 3..5
            <4> DEFINE k == c - 2
            <4>1. k \in 1..3 /\ c = 2 + k /\ c - 0 = c
                BY <3>2
            <4> HIDE DEF k
            <4>2. text[c] = Greeting[k]
                BY <1>4, <4>1
            <4> QED BY <3>2, <4>1, <4>2 DEF k
        <3>3. CASE c > 5
            BY <3>3
        <3> QED BY <3>1, <3>2, <3>3
    <2> QED BY <2>1, <2>2, <2>3
<1>10. /\ SetCursor(0, 0) \o Write(text) \in Seq(BusPulse) /\ Greets(read(p, SetCursor(0, 0) \o Write(text)))
       /\ SetCursor(2, 0) \o Write(Greeting) \in Seq(BusPulse)
       /\ Greets(read(p, SetCursor(2, 0) \o Write(Greeting)))
    <2>1. Len(text) <= 5 /\ Len(Greeting) <= 5 /\ 0 \in {0, 2} /\ 2 \in {0, 2}
        BY <1>3, <1>4
    <2> HIDE DEF read
    <2>2. /\ SetCursor(0, 0) \o Write(text) \in Seq(BusPulse)
          /\ Greets(read(p, SetCursor(0, 0) \o Write(text)))
        BY <1>4, <1>7, <1>8, <2>1
    <2>3. /\ SetCursor(2, 0) \o Write(Greeting) \in Seq(BusPulse)
          /\ Greets(read(p, SetCursor(2, 0) \o Write(Greeting)))
        BY <1>3, <1>7, <1>9, <2>1
    <2> QED BY <2>2, <2>3
<1> QED BY <1>2, <1>10 DEF text

\* A bench is of a platform that is known, and one for the greeting has a display.
LEMMA BenchHasDisplay ==
    ASSUME Placed, phase \in {"boot", "run"}
    PROVE  /\ Task.platform \in {"arduino_mega", "esp32s3_espidf", "zephyr_nano33ble"}
           /\ Task.task_id = "lcd1602_display_hello_world" => HasDisplay
<1>1. /\ job \in DOMAIN Tasks /\ stage \in DOMAIN RunsOf(Tasks[job])
      /\ Task = RunsOf(Tasks[job])[stage]
    BY DEF Placed, Jobs
<1> DEFINE task == Tasks[job]
           run == RunsOf(task)[stage]
<1>2. TypedTask(task)
    BY <1>1, TasksAssumption
<1>3. run.platform = task.platform /\ run.task_id = task.task_id /\ run.fixture = task.fixture
    <2>1. CASE task.variants = <<>>
        BY <1>1, <2>1 DEF RunsOf
    <2>2. CASE task.variants # <<>>
        <3>1. run = TaskForVariant(task, task.variants[stage])
            BY <1>1, <2>2 DEF RunsOf
        <3> QED BY <1>2, <3>1, VariantOfTask
    <2> QED BY <2>1, <2>2
<1>4. task.platform \in {"arduino_mega", "esp32s3_espidf", "zephyr_nano33ble"}
    BY <1>2 DEF TypedTask, Profiles
<1>5. task.task_id = "lcd1602_display_hello_world" => \E c \in ToSet(Components(task)) : c.type = "lcd1602"
    BY <1>1, DisplayAssumption
<1>6. Components(run) = Components(task)
    BY <1>3 DEF Components
<1> HIDE DEF run, task
<1>7. Task = run
    BY <1>1 DEF run, task
<1> QED BY <1>3, <1>4, <1>5, <1>6, <1>7 DEF HasDisplay

\* The first bytes of a board without a display, of each driver with one.
LEMMA FirstMessage ==
    /\ ~HasDisplay => FirstBytes = {Nothing}
    /\ HasDisplay /\ Task.platform = "zephyr_nano33ble" =>
          /\ Task.task_id = "safebox_display" => FirstBytes = {ZephyrInit \o Nothing}
          /\ Task.task_id = "lcd1602_display_hello_world" =>
                FirstBytes = {ZephyrInit \o (SetCursor(0, 0) \o Write(<<Blank, Blank>> \o Greeting))}
    /\ HasDisplay /\ Task.platform = "esp32s3_espidf" =>
          /\ Task.task_id = "safebox_display" =>
                FirstBytes = {spurious \o EspInit \o Entering(<<>>) :
                                 spurious \in {<<>>, <<Pulse(0, 0)>>, <<Pulse(0, 15)>>}}
          /\ Task.task_id = "lcd1602_display_hello_world" =>
                FirstBytes = {spurious \o EspInit \o (SetCursor(2, 0) \o Write(Greeting)) :
                                 spurious \in {<<>>, <<Pulse(0, 0)>>, <<Pulse(0, 15)>>}}
    /\ HasDisplay /\ Task.platform = "arduino_mega" /\ Task.task_id = "safebox_display" =>
          FirstBytes = {ArduinoInit \o Entering(<<>>)}
<1>1. ASSUME ~HasDisplay PROVE FirstBytes = {Nothing}
    BY <1>1, Zenon DEF FirstBytes
<1>2. ASSUME HasDisplay, Task.platform = "zephyr_nano33ble"
      PROVE  /\ Task.task_id = "safebox_display" => FirstBytes = {ZephyrInit \o Nothing}
             /\ Task.task_id = "lcd1602_display_hello_world" =>
                   FirstBytes = {ZephyrInit \o (SetCursor(0, 0) \o Write(<<Blank, Blank>> \o Greeting))}
    BY <1>2 DEF FirstBytes
<1>3. ASSUME HasDisplay, Task.platform = "esp32s3_espidf"
      PROVE  /\ Task.task_id = "safebox_display" =>
                   FirstBytes = {spurious \o EspInit \o Entering(<<>>) :
                                    spurious \in {<<>>, <<Pulse(0, 0)>>, <<Pulse(0, 15)>>}}
             /\ Task.task_id = "lcd1602_display_hello_world" =>
                   FirstBytes = {spurious \o EspInit \o (SetCursor(2, 0) \o Write(Greeting)) :
                                    spurious \in {<<>>, <<Pulse(0, 0)>>, <<Pulse(0, 15)>>}}
    BY <1>3 DEF FirstBytes
<1>4. ASSUME HasDisplay, Task.platform = "arduino_mega", Task.task_id = "safebox_display"
      PROVE  FirstBytes = {ArduinoInit \o Entering(<<>>)}
    BY <1>4 DEF FirstBytes
<1> QED BY <1>1, <1>2, <1>3, <1>4

\* What the decoder has read when a loop begins: a blank screen or the status of a safe
\* that is being entered; the greeting.  Half a byte from the reset of the ESP is gone by
\* then.
LEMMA FirstScreens ==
    ASSUME Task.platform \in {"arduino_mega", "esp32s3_espidf", "zephyr_nano33ble"},
           NEW bytes \in FirstBytes
    PROVE  LET q == DecodePulses(PowerOnPanel, bytes) IN
           /\ Task.task_id = "safebox_display" =>
                 Cleared(q) \/ Showing(q, <<>>, Glyph.Enter)
           /\ Task.task_id = "lcd1602_display_hello_world" /\ Task.platform # "arduino_mega" /\ HasDisplay =>
                 Greets(q)
<1> DEFINE q == DecodePulses(PowerOnPanel, bytes)
           padded == SetCursor(0, 0) \o Write(<<Blank, Blank>> \o Greeting)
           placed == SetCursor(2, 0) \o Write(Greeting)
           entering == Entering(<<>>)
           read(p, m) == NibbleFold!Folded(p, m)
<1>1. PowerOnPanel \in Ready /\ Cleared(PowerOnPanel)
    BY PowerOnReady
<1>2. /\ entering \in Seq(BusPulse) /\ padded \in Seq(BusPulse) /\ placed \in Seq(BusPulse)
      /\ \A p : Cleared(p) => /\ Showing(read(p, entering), <<>>, Glyph.Enter)
                              /\ Greets(read(p, padded)) /\ Greets(read(p, placed))
    BY <1>1, FirstMessages
<1> HIDE DEF padded, placed, entering
<1>3. ASSUME NEW driver \in Seq(BusPulse), Cleared(read(PowerOnPanel, driver)), NEW m \in Seq(BusPulse)
      PROVE  /\ DecodePulses(PowerOnPanel, driver \o m) = read(read(PowerOnPanel, driver), m)
             /\ driver \o m \in Seq(BusPulse)
    <2>1. driver \o m \in Seq(BusPulse) /\ read(PowerOnPanel, driver \o m) = read(read(PowerOnPanel, driver), m)
        BY <1>3, MessagesJoin
    <2> QED BY <2>1, DecoderLatchesPulses
<1>4. CASE ~HasDisplay
    <2>1. bytes = Nothing
        BY <1>4, FirstMessage
    <2>2. q = PowerOnPanel
        BY <2>1, NoMessage
    <2> QED BY <1>1, <1>4, <2>2
<1>5. CASE HasDisplay /\ Task.platform = "zephyr_nano33ble"
    <2>1. ZephyrInit \in Seq(BusPulse) /\ Cleared(read(PowerOnPanel, ZephyrInit))
        BY <1>1, DriversClear
    <2>2. ASSUME Task.task_id = "safebox_display" PROVE Cleared(q)
        <3>1. bytes = ZephyrInit \o <<>>
            BY <1>5, <2>2, FirstMessage DEF Nothing
        <3>2. bytes = ZephyrInit
            BY <2>1, <3>1
        <3> QED BY <2>1, <3>2, DecoderLatchesPulses
    <2>3. ASSUME Task.task_id = "lcd1602_display_hello_world" PROVE Greets(q)
        <3>1. bytes = ZephyrInit \o padded
            <4>1. FirstBytes = {ZephyrInit \o padded}
                BY <1>5, <2>3, FirstMessage, Zenon DEF padded
            <4> QED BY <4>1
        <3> QED BY <1>2, <1>3, <2>1, <3>1
    <2> QED BY <2>2, <2>3
<1>6. CASE HasDisplay /\ Task.platform = "esp32s3_espidf"
    <2>1. ASSUME NEW spurious \in {<<>>, <<Pulse(0, 0)>>, <<Pulse(0, 15)>>}
          PROVE  spurious \o EspInit \in Seq(BusPulse) /\ Cleared(read(PowerOnPanel, spurious \o EspInit))
        <3>0. EspInit \in Seq(BusPulse) /\ \A p \in Ready \cup Slipped : Cleared(read(p, EspInit))
            BY DriversClear
        <3>1. CASE spurious = <<>>
            <4>1. spurious \o EspInit = EspInit
                BY <3>0, <3>1
            <4> QED BY <1>1, <3>0, <4>1
        <3>2. ASSUME NEW nibble \in {0, 15}, spurious = <<Pulse(0, nibble)>>
              PROVE  spurious \o EspInit \in Seq(BusPulse) /\ Cleared(read(PowerOnPanel, spurious \o EspInit))
            <4>1. nibble \in 0..15
                BY <3>2
            <4>2. spurious \in Seq(BusPulse) /\ read(PowerOnPanel, spurious) \in Slipped
                BY <3>2, <4>1, PowerOnReady
            <4>3. /\ spurious \o EspInit \in Seq(BusPulse)
                  /\ read(PowerOnPanel, spurious \o EspInit) = read(read(PowerOnPanel, spurious), EspInit)
                BY <3>0, <4>2, MessagesJoin
            <4> QED BY <3>0, <4>2, <4>3
        <3> QED BY <3>1, <3>2
    <2>2. ASSUME Task.task_id = "safebox_display" PROVE Showing(q, <<>>, Glyph.Enter)
        <3>1. PICK spurious \in {<<>>, <<Pulse(0, 0)>>, <<Pulse(0, 15)>>} : bytes = (spurious \o EspInit) \o entering
            BY <1>6, <2>2, FirstMessage DEF entering
        <3> DEFINE driver == spurious \o EspInit
        <3>2. driver \in Seq(BusPulse) /\ Cleared(read(PowerOnPanel, driver)) /\ bytes = driver \o entering
            BY <2>1, <3>1
        <3> HIDE DEF driver
        <3> QED BY <1>2, <1>3, <3>2
    <2>3. ASSUME Task.task_id = "lcd1602_display_hello_world" PROVE Greets(q)
        <3>1. PICK spurious \in {<<>>, <<Pulse(0, 0)>>, <<Pulse(0, 15)>>} : bytes = (spurious \o EspInit) \o placed
            BY <1>6, <2>3, FirstMessage DEF placed
        <3> DEFINE driver == spurious \o EspInit
        <3>2. driver \in Seq(BusPulse) /\ Cleared(read(PowerOnPanel, driver)) /\ bytes = driver \o placed
            BY <2>1, <3>1
        <3> HIDE DEF driver
        <3> QED BY <1>2, <1>3, <3>2
    <2> QED BY <2>2, <2>3
<1>7. CASE HasDisplay /\ Task.platform = "arduino_mega"
    <2>1. ArduinoInit \in Seq(BusPulse) /\ Cleared(read(PowerOnPanel, ArduinoInit))
        BY <1>1, DriversClear
    <2>2. ASSUME Task.task_id = "safebox_display" PROVE Showing(q, <<>>, Glyph.Enter)
        <3>1. bytes = ArduinoInit \o entering
            BY <1>7, <2>2, FirstMessage DEF entering
        <3> QED BY <1>2, <1>3, <2>1, <3>1
    <2> QED BY <1>7, <2>2
<1> QED BY <1>4, <1>5, <1>6, <1>7

\* So the display is right when the loop begins,
LEMMA BootScreens == ASSUME Placed, Boot PROVE Screened'
<1>0. phase = "boot" /\ phase' = "run" /\ Task' = Task
    BY DEF Boot, Task
<1>1. PICK boot \in Boots[Task.platform], bytes \in FirstBytes,
           late \in IF ChipsAtBoot = {<<>>} THEN {OnTime} ELSE Delays :
           PowerUp(boot + DisplayDelay, [FirstVariables(boot) EXCEPT !.late = late], bytes)
    BY DEF Boot
<1>2. panel' = DecodePulses(PowerOnPanel, bytes)
    BY <1>1 DEF PowerUp
<1>3. mem'.entry = <<>> /\ mem'.open = FALSE
    <2> DEFINE first == [FirstVariables(boot) EXCEPT !.late = late]
               time == boot + DisplayDelay
    <2>1. DOMAIN first = DOMAIN Registers /\ first.entry = <<>> /\ first.open = FALSE
        BY DEF FirstVariables, Registers
    <2>2. {"entry", "open"} \subseteq DOMAIN Registers
        BY DEF Registers
    <2> HIDE DEF first, time
    <2>3. mem' = [first EXCEPT !.since = IF Task.platform = "arduino_mega" THEN 0 ELSE time, !.mark = time]
        BY <1>1 DEF PowerUp, time, first
    <2> QED BY <2>1, <2>2, <2>3
<1>4. /\ Task.platform \in {"arduino_mega", "esp32s3_espidf", "zephyr_nano33ble"}
      /\ Task.task_id = "lcd1602_display_hello_world" => HasDisplay
    BY <1>0, BenchHasDisplay
<1>5. /\ Task.task_id = "safebox_display" => Cleared(panel') \/ Showing(panel', <<>>, Glyph.Enter)
      /\ Task.task_id = "lcd1602_display_hello_world" /\ Task.platform # "arduino_mega" => Greets(panel')
    BY <1>2, <1>4, FirstScreens
<1>6. ASSUME Task.task_id = "safebox_display" PROVE ShowsSafe(mem', panel')
    <2>1. CASE Cleared(panel')
        <3>1. panel' \in Ready /\ Told(panel') /\ panel'.screen.frame = EmptyFrame
            BY <2>1 DEF Cleared
        <3> QED BY <1>3, <3>1 DEF ShowsSafe
    <2>2. CASE Showing(panel', <<>>, Glyph.Enter)
        <3>1. panel' \in Ready /\ Told(panel')
            BY <2>2 DEF Showing
        <3>2. <<>> \in Seq(KeyCodes) /\ Len(<<>>) <= 4 /\ Glyph.Enter \in SafeWords
            BY DEF SafeWords
        <3>3. ~(mem'.open <=> TRUE) /\ Glyph.Enter # Glyph.Success
            BY <1>3 DEF Glyph
        <3>4. mem'.open <=> Glyph.Enter = Glyph.Success
            BY <3>3
        <3> QED BY <1>3, <2>2, <3>1, <3>2, <3>4 DEF ShowsSafe
    <2> QED BY <1>5, <1>6, <2>1, <2>2
<1>7. ShowsSafe(mem, panel)' = ShowsSafe(mem', panel') /\ Greets(panel)' = Greets(panel')
    BY <1>0 DEF ShowsSafe, Showing, Greets, Told
<1> QED BY <1>0, <1>5, <1>6, <1>7 DEF Screened

\* and every step keeps it so.
LEMMA ScreenedNext == Placed /\ Traced /\ Screened /\ [Next]_vars => Screened'
<1> SUFFICES ASSUME Placed, Traced, Screened, [Next]_vars PROVE Screened'
    OBVIOUS
<1>1. CASE Boot
    BY <1>1, BootScreens
<1>2. CASE ZephyrLoop \/ EspLoop \/ ArduinoLoop
    <2>1. phase = "run" /\ phase' = "run" /\ Task' = Task
        BY <1>2, RoundsLeaveJob DEF Task
    <2>2. Remembers
        BY <2>1 DEF Traced
    <2>3. ASSUME Task.task_id = "safebox_display" PROVE ShowsSafe(mem', panel')
        BY <1>2, <2>1, <2>2, <2>3, SafeRound DEF Screened
    <2>4. ASSUME Task.task_id = "lcd1602_display_hello_world", Task.platform # "arduino_mega"
          PROVE  Greets(panel')
        <3>1. ZephyrLcdHello \/ EspLcdHello
            BY <1>2, <2>4 DEF ZephyrLoop, EspLoop, ArduinoLoop, Runs, Is
        <3>2. panel' = DecodePulses(panel, Nothing)
            BY <3>1, Zenon DEF ZephyrLcdHello, EspLcdHello, IdleLoop, Round, RoundWith
        <3> QED BY <2>1, <2>4, <3>2, NoMessage DEF Screened
    <2>5. ShowsSafe(mem, panel)' = ShowsSafe(mem', panel') /\ Greets(panel)' = Greets(panel')
        BY <2>1 DEF ShowsSafe, Showing, Greets, Told
    <2> QED BY <2>1, <2>3, <2>4, <2>5 DEF Screened
<1>3. CASE Lint \/ Prepare \/ Timeout \/ Judge
    <2>1. phase' # "run"
        BY <1>3 DEF Lint, Prepare, Timeout, Judge
    <2> QED BY <2>1 DEF Screened
<1>4. CASE UNCHANGED vars
    <2>1. phase' = phase /\ Task' = Task /\ mem' = mem /\ panel' = panel
        BY <1>4 DEF vars, board, Task
    <2> QED BY <2>1 DEF Screened, ShowsSafe, Showing, Greets, Told
<1> QED BY <1>1, <1>2, <1>3, <1>4 DEF Next

\* What the decoder reads from the bus is what the sketch means, on every board and
\* with every stimulus: the entry of the safe, whether it is open, and the greeting,
\* through the six lines of the bus, their traces and the latch of each nibble.
THEOREM ScreenAlways == Spec => []ScreenIsIntended
<1>1. Init => Traced /\ Screened
    BY DEF Init, Traced, Screened
<1> QED BY <1>1, AlwaysPlaced, TracedNext, ScreenedNext, ScreenedIsIntended, PTL DEF Spec
=============================================================================
