--------------------------------- MODULE Board ---------------------------------
(* A board on the bench of one job: the firmware reads its inputs at a time,  *)
(* and each round of its loop writes pins, prints lines and shows bytes on    *)
(* the display before it waits.  The inputs follow from the scenario and the  *)
(* wiring of the platform; the analyzer logs every change of a probed pin.    *)
EXTENDS RenodePlatform, Lcd

CONSTANT Tasks         (* the task files, as far as the bench reads them      *)

(* A task file as it is read: its board is a known one, times are whole       *)
(* milliseconds, lists are lists, and each signal of the analyzer is at one   *)
(* pin, of which nothing in the lint makes sure but which the reader of a     *)
(* trace relies on.                                                           *)
TypedTask(task) ==
    /\ {"task_id", "platform", "fixture", "timeout", "poll", "jitter", "variants"} \subseteq DOMAIN task
    /\ task.platform \in DOMAIN Profiles
    /\ task.timeout \in Nat /\ task.poll \in Nat /\ task.jitter \in Nat
    /\ Has(task, "scenario") => TypedScenario(task.scenario)
    /\ task.variants \in Seq(ToSet(task.variants))
    /\ \A i \in DOMAIN task.variants :
          Has(task.variants[i], "scenario") => TypedScenario(task.variants[i].scenario)
    /\ \A c, d \in ToSet(Channels(task)) : c.signal = d.signal => c.pin = d.pin
ASSUME TasksAssumption == \A j \in DOMAIN Tasks : TypedTask(Tasks[j])

VARIABLES job, stage,  (* which task; which of its simulation variants        *)
          bench,       (* what is simulated, and the inputs of the board      *)
          clock,       (* virtual time of the run in milliseconds             *)
          mem,         (* the variables of the sketch                         *)
          pins,        (* levels of the output pins                           *)
          chip,        (* the sensor chip, if there is one that Renode loads  *)
          vcd,         (* the trace of each probed signal                     *)
          serial,      (* the lines of the serial log                         *)
          panel        (* what the decoder has made of the LCD's bus so far   *)
board == <<clock, mem, pins, chip, vcd, serial, panel>>

-----------------------------------------------------------------------------
(* Variants: a scenario replaces the task's, attributes go over those of the  *)
(* parts, and a validator is merged into the task's, lists index by index.    *)

LOCAL Replace(base, over) == over
LOCAL MergeLists(Merge(_, _), base, over) ==
    [i \in DOMAIN base \cup DOMAIN over |->
        CASE i \notin DOMAIN over -> base[i]
          [] i \notin DOMAIN base -> over[i]
          [] OTHER                -> Merge(base[i], over[i])]
LOCAL MergeRecords(Merge(_, _, _), base, over) ==
    [f \in DOMAIN base \cup DOMAIN over |->
        CASE f \notin DOMAIN over -> base[f]
          [] f \notin DOMAIN base -> over[f]
          [] OTHER                -> Merge(f, base[f], over[f])]
ItemLists == {"frames", "windows", "observations", "active", "inactive"}
ValueLists == {"texts", "patterns", "expected", "expected_texts", "ratio", "ranges", "words"}
LOCAL MergeItem(base, over) ==
    MergeRecords(LAMBDA f, b, o : IF f \in ValueLists THEN MergeLists(Replace, b, o) ELSE o, base, over)
LOCAL MergeCheck(base, over) ==
    MergeRecords(LAMBDA f, b, o : CASE f \in ItemLists  -> MergeLists(MergeItem, b, o)
                                    [] f \in ValueLists -> MergeLists(Replace, b, o)
                                    [] OTHER            -> o, base, over)
DeepMerge(base, over) ==
    IF Has(base, "checks") /\ Has(over, "checks")
    THEN [base EXCEPT !.checks = MergeLists(MergeCheck, @, over.checks)]
    ELSE MergeCheck(base, over)

TaskForVariant(task, v) ==
    LET merged == [attrs |-> Get(v, "attrs", NoAttrs),
                   validator |-> DeepMerge(task.validator, Get(v, "validator", [unused |-> 0]))]
    IN Overlay(merged, IF Has(v, "scenario") THEN Overlay([scenario |-> v.scenario], task) ELSE task)

(* What is simulated of a task: itself, or each of its variants.              *)
RunsOf(task) ==
    IF task.variants = <<>> THEN <<task>>
    ELSE [i \in DOMAIN task.variants |-> TaskForVariant(task, task.variants[i])]
Jobs == [j \in DOMAIN Tasks |-> RunsOf(Tasks[j])]
Task == bench.task

(* The lint: the checks of the task file, then those of the bench it asks for.*)
Accepted(task) ==
    /\ Has(task, "scenario") => /\ task.scenario.family \in Families
                               /\ ScenarioValid(task.scenario)
                               /\ BudgetValid(task.scenario, task.timeout)
    /\ VariantsValid(task.variants, task.timeout)
    /\ IF Profile(task).backend = "wokwi" THEN DiagramAccepted(GenerateDiagram(task), task)
       ELSE RenodeCaseAccepted(task)

-----------------------------------------------------------------------------
(* Inputs.  A wave is a sequence of [at, v]; the last one at or before t      *)
(* holds at t.  The waves of a run are worked out before it starts.           *)

SwitchPins(task) ==
    LET family == task.fixture.family IN
    CASE family \in {"button_serial", "button_to_buzzer"} -> {FixturePin(task, "button", "")}
      [] family = "pir_serial" -> {FixturePin(task, "pir", "")}
      [] OTHER -> {PinOf(c, "signal", "2") :
                     c \in {x \in ToSet(Components(task)) : x.type \in ButtonKinds \cup SwitchTypes}}
AnalogParts(task) ==
    IF task.fixture.family = "analog_temperature_serial" THEN {"pot1"}
    ELSE {c.id : c \in {x \in ToSet(Components(task)) : x.type \in AnalogTypes \cup AnalogKinds}}

Steps(task) == IF Has(task, "scenario") THEN GenerateScenario(task.scenario) ELSE <<>>
Drives(task) ==
    IF Profile(task).backend = "wokwi" THEN WokwiDrives(Steps(task))
    ELSE RenodeDrives(RenodeScript(task, Steps(task)))
LOCAL Closed(drives, t) ==
    {p \in {d.part : d \in ToSet(drives)} : ControlAt(drives, p, "pressed", 0, t) # 0}
Wave(times, F(_)) == [i \in DOMAIN times |-> [at |-> times[i], v |-> F(times[i])]]

(* The count a converter gives: of the position of a potentiometer, before it *)
(* is turned of the value of its attribute, which is out of 1023.             *)
LOCAL WokwiCount(task, drives, part, t) ==
    LET turned == \E d \in ToSet(drives) : d.part = part /\ d.control = "position" /\ d.at <= t
        own == IF task.fixture.family = "analog_temperature_serial"
               THEN Get(task.fixture, "initial_value", 153)
               ELSE Get(CHOOSE x \in ToSet(Components(task)) : x.id = part, "initial_value", 512)
        value == Get(Get(Get(task, "attrs", NoAttrs), part, NoAttrs), "value", own)
    IN IF turned THEN AnalogRawCount(task, "position", ControlAt(drives, part, "position", 0, t))
       ELSE (value * Profile(task).adc_max) \div 1023
LOCAL RenodeCount(task, drives, part, t) ==
    RenodeValue(task, drives, InitialCommands(task, Get(task, "attrs", NoAttrs)), "saadc0",
                "ChannelValue", <<PartOf(RenodeParts(task), part).channel>>, t)

(* What can be measured: under Wokwi what a scenario sets, under Renode all   *)
(* that the chips have.                                                       *)
Quantities(task) ==
    IF Profile(task).backend = "wokwi"
    THEN {p \in ControlPairs(task) : p[2] \notin {"pressed", "position"}}
    ELSE UNION {{<<p.id, c>> : c \in DOMAIN PowerOn[p.type]} :
                   p \in {x \in ToSet(RenodeParts(task)) : x.type \in ChipTypes}}

Hardware(task) ==
    LET wokwi == Profile(task).backend = "wokwi"
        diagram == GenerateDiagram(task)
        drives == Drives(task)
        times == <<0>> \o [i \in DOMAIN drives |-> drives[i].at]
        keypad == KeypadLayout(RenodeParts(task))
        initial == ChipCommands(task, Get(task, "attrs", NoAttrs))
        level(pin, t) == IF wokwi THEN NetLevel(diagram, pin, Closed(drives, t), Profile(task))
                         ELSE RenodePinLevel(task, pin, drives, t)
        crossings(t) == IF wokwi THEN CrossPoints(diagram, Closed(drives, t))
                        ELSE {<<keypad.rows[k[1]], keypad.cols[k[2]]>> : k \in KeysHeld(drives, t)}
        sensor(pair, t) == IF wokwi THEN ControlAt(drives, pair[1], pair[2], 0, t)
                           ELSE RenodeValue(task, drives, initial, pair[1], pair[2], <<>>, t)
        count(part, t) == IF wokwi THEN WokwiCount(task, drives, part, t)
                          ELSE RenodeCount(task, drives, part, t)
    IN [task |-> task,
        level |-> [pin \in SwitchPins(task) |-> Wave(times, LAMBDA t : level(pin, t))],
        keys  |-> Wave(times, crossings),
        sensor |-> [pair \in Quantities(task) |->
                      Wave(times, LAMBDA t : sensor(pair, t))],
        count |-> [part \in AnalogParts(task) |-> Wave(times, LAMBDA t : count(part, t))]]

InAt(pin, t) == At(bench.level[pin], t)
In(pin) == InAt(pin, clock)
KeysAt(t) == At(bench.keys, t)
Quantity(part, control) == bench.sensor[<<part, control>>]
SensorReading(part, control) == At(Quantity(part, control), clock)
Sample == At(bench.count[CHOOSE p \in DOMAIN bench.count : TRUE], clock)

FixturePinOf(name) == FixturePin(Task, name, Profile(Task).default_pins[name])
ComponentPin(id, default) ==
    LET named == {c \in ToSet(Components(Task)) : c.id = id} IN
    IF \E c \in named : SignalPin(c) # "" THEN SignalPin(CHOOSE c \in named : SignalPin(c) # "")
    ELSE FixturePinOf(default)

-----------------------------------------------------------------------------
(* One round of a loop.  A wait takes its milliseconds and, in a job that has *)
(* jitter, one more; rounds that do not wait are Poll apart.                  *)

Nothing == <<>>                       (* no levels, no lines, no bytes        *)
Poll == Task.poll

(* A line of the serial log: its words and, apart from them, its numbers. *)
Text(words) == [text |-> words, numbers |-> <<>>]
Number(n) == [text |-> <<>>, numbers |-> <<n>>]
Labelled(words, n) == [text |-> words, numbers |-> <<n>>]

(* The analyzer adds a change to the trace of the signal on that pin; the     *)
(* decoder takes the bytes from where it was.  Both readers go through the    *)
(* whole log in order, so reading it as it grows comes to the same.           *)
Recorded(levels) ==
    [signal \in DOMAIN vcd |->
        LET pin == (CHOOSE ch \in ToSet(Channels(Task)) : ch.signal = signal).pin IN
        IF pin \in DOMAIN levels /\ levels[pin] # pins[pin]
        THEN Normalize(vcd[signal], [at |-> clock, v |-> levels[pin]]) ELSE vcd[signal]]
RoundWith(exchanged, variables, levels, lines, bytes, ms) ==
    /\ chip' = exchanged
    /\ mem' = variables
    /\ pins' = Overlay(levels, pins)
    /\ vcd' = Recorded(levels)
    /\ serial' = serial \o lines
    /\ panel' = DecodePulses(panel, bytes)
    /\ \E late \in 0..Task.jitter : clock' = clock + ms + late

Round(variables, levels, lines, bytes, ms) == RoundWith(chip, variables, levels, lines, bytes, ms)

(* The variables of all the sketches; each uses the few it has.  Late is how  *)
(* far off its polls and busy waits are, in microseconds.                     *)
OnTime == [rise |-> 0, fall |-> 0, wait |-> 0]
Registers == [last |-> 0, stable |-> 0, since |-> 0, mark |-> 0, until |-> 0, count |-> 0,
              out |-> 0, state |-> 0, entry |-> <<>>, key |-> <<>>, held |-> {}, open |-> FALSE, late |-> OnTime]

(* A chip that is wired to a pin may or may not be told of its level at boot, *)
(* which is low; the MPU6050 is woken by a write.                             *)
ChipsAtBoot ==
    LET types == IF Profile(Task).backend = "wokwi" THEN {}
                 ELSE {p.type : p \in ToSet(RenodeParts(Task))} \cap ChipTypes
        told(reset) == {reset, [reset EXCEPT !.last = 0]}
    IN CASE "hcsr04" \in types  -> {SonarReset}
         [] "dht11" \in types   -> told(DhtReset)
         [] "ds18b20" \in types -> told(WireReset)
         [] "mpu6050" \in types -> {MpuWrite(MpuReset, <<PowerManagement, 0>>)}
         [] OTHER               -> {<<>>}

(* Before the loop, at time boot: the variables, the pins as outputs at LOW,  *)
(* which may show as a pulse of no length, and the first bytes of the display.*)
(* On ESP the reset of a pin pulls it up for a moment before that.            *)
(* Millisecond counts start with the board on Arduino, else after the boot.   *)
PowerUp(boot, variables, bytes) ==
    /\ clock' = boot
    /\ chip' \in ChipsAtBoot
    /\ mem' = [variables EXCEPT !.since = IF Task.platform = "arduino_mega" THEN 0 ELSE boot,
                                !.mark = boot]
    /\ pins' = [pin \in {ch.pin : ch \in ToSet(Channels(Task))} |-> 0]
    /\ \E pulse \in IF Task.platform = "esp32s3_espidf" THEN {<<boot - 2, boot - 1>>}
                    ELSE {<<>>, <<boot, boot>>} :
          LET log == <<[at |-> 0, v |-> 0]>> \o [i \in DOMAIN pulse |-> [at |-> pulse[i], v |-> i % 2]]
          IN vcd' = [signal \in {ch.signal : ch \in ToSet(Channels(Task))} |->
                       NormalizeEvents(IF Profile(Task).backend = "renode" THEN HookTrace(log) ELSE log)]
    /\ serial' = <<>>
    /\ panel' = DecodePulses(PowerOnPanel, bytes)
=============================================================================
