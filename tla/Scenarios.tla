------------------------------ MODULE Scenarios ------------------------------
(* The stimulus of a task: how a scenario of the task file becomes timed      *)
(* steps (bench/scenarios.py), what the configuration check demands of it and *)
(* how long it takes it to be (bench/config.py), and when each step happens   *)
(* under the two simulators: Wokwi replays the steps, Renode gets monitor     *)
(* commands between stretches of virtual time (bench/renode.py).              *)
(* A scenario is a record with the fields the task file has, no others; times *)
(* are whole milliseconds, a position is in thousandths of full scale.        *)
EXTENDS Integers, Sequences, SequencesExt, FiniteSets, TLC

Has(r, field) == field \in DOMAIN r
Get(r, field, default) == IF Has(r, field) THEN r[field] ELSE default
(* The fields of f, and those of g that f does not have. *)
Overlay(f, g) == [x \in DOMAIN f \cup DOMAIN g |-> IF x \in DOMAIN f THEN f[x] ELSE g[x]]
Flat(Op(_), s) == FlattenSeq([i \in DOMAIN s |-> Op(s[i])])
Add(a, b) == a + b
Total(Op(_), s) == FoldLeft(Add, 0, [i \in DOMAIN s |-> Op(s[i])])

Families == {"timeline", "button_press_sequence", "bounced_button_sequence",
             "pir_state_sequence", "analog_position_sequence", "control_sequence"}

-----------------------------------------------------------------------------
(* Steps *)

Delay(ms) == [kind |-> "delay", ms |-> ms]
SetControl(part, control, value) ==
    [kind |-> "set", part |-> part, control |-> control, value |-> value]

InitialDelay(s) == Delay(Get(s, "initial_delay_ms", 200))

(* Mutant: no pause after a press by default. *)
ButtonPresses_NoPause(s) ==
    LET part == Get(s, "part_id", "btn1") IN
    <<InitialDelay(s)>> \o
    Flat(LAMBDA p: <<SetControl(part, "pressed", 1), Delay(Get(p, "duration_ms", 200)),
                     SetControl(part, "pressed", 0), Delay(Get(p, "after_ms", 0))>>,
         Get(s, "presses", <<>>))
ButtonPresses(s) ==
    LET part == Get(s, "part_id", "btn1") IN
    <<InitialDelay(s)>> \o
    Flat(LAMBDA p: <<SetControl(part, "pressed", 1), Delay(Get(p, "duration_ms", 200)),
                     SetControl(part, "pressed", 0), Delay(Get(p, "after_ms", 200))>>,
         Get(s, "presses", <<>>))

BouncedButton(s) ==
    LET part == Get(s, "part_id", "btn1") IN
    <<InitialDelay(s)>> \o
    Flat(LAMBDA i: <<SetControl(part, "pressed", i.value), Delay(Get(i, "duration_ms", 1))>>,
         Get(s, "sequence", <<>>))
    \o <<SetControl(part, "pressed", 0), Delay(Get(s, "final_delay_ms", 250))>>

PirStates(s) ==
    LET part == Get(s, "part_id", "pir1") IN
    <<InitialDelay(s)>> \o
    Flat(LAMBDA i: <<SetControl(part, "pressed", i.value), Delay(Get(i, "duration_ms", 300))>>,
         Get(s, "states", <<>>))
    \o <<SetControl(part, "pressed", 0)>>

AnalogPositions(s) ==
    LET part == Get(s, "part_id", "pot1") IN
    <<InitialDelay(s)>> \o
    Flat(LAMBDA i: <<SetControl(part, "position", i.value), Delay(Get(i, "duration_ms", 300))>>,
         Get(s, "positions", <<>>))

ControlSequence(s) ==
    <<InitialDelay(s)>> \o
    Flat(LAMBDA i: <<SetControl(i.part_id, i.control, i.value), Delay(Get(i, "duration_ms", 300))>>,
         Get(s, "controls", <<>>))

Timeline(s) ==
    Flat(LAMBDA i: IF Has(i, "delay_ms") THEN <<Delay(i.delay_ms)>>
                   ELSE <<SetControl(i.set_control.part_id, i.set_control.control,
                                     i.set_control.value)>>,
         Get(s, "steps", <<>>))

GenerateScenario(s) ==
    CASE s.family = "timeline"                 -> Timeline(s)
      [] s.family = "button_press_sequence"    -> ButtonPresses(s)
      [] s.family = "bounced_button_sequence"  -> BouncedButton(s)
      [] s.family = "pir_state_sequence"       -> PirStates(s)
      [] s.family = "analog_position_sequence" -> AnalogPositions(s)
      [] s.family = "control_sequence"         -> ControlSequence(s)

-----------------------------------------------------------------------------
(* The configuration check *)

(* A list is read as a list and a time as a number, here of whole milliseconds*)
Lists == {"steps", "presses", "sequence", "states", "positions", "controls"}
TypedScenario(s) ==
    /\ \A f \in {"initial_delay_ms", "final_delay_ms"} : Has(s, f) => s[f] \in Int
    /\ \A f \in Lists : Has(s, f) =>
          /\ s[f] \in Seq(ToSet(s[f]))
          /\ \A i \in DOMAIN s[f], d \in {"delay_ms", "duration_ms", "after_ms"} :
                Has(s[f][i], d) => s[f][i][d] \in Int

BinaryValue(item)       == Has(item, "value") /\ item.value \in {0, 1}
BinaryIfGiven(item)     == Has(item, "value") => BinaryValue(item)
RequiredDuration(r, f)  == Has(r, f) /\ r[f] > 0
OptionalDuration(r, f)  == Has(r, f) => r[f] >= 0
ListGiven(s, f)         == Has(s, f) /\ Len(s[f]) > 0
ControlFields(c)        == {"part_id", "control", "value"} \subseteq DOMAIN c

TimelineValid(s) ==
    /\ ListGiven(s, "steps")
    /\ \A step \in ToSet(s.steps) :
          IF Has(step, "delay_ms") THEN RequiredDuration(step, "delay_ms")
          ELSE Has(step, "set_control") /\ ControlFields(step.set_control)

ControlSequenceValid(s) ==
    /\ ListGiven(s, "controls")
    /\ OptionalDuration(s, "initial_delay_ms")
    /\ \A c \in ToSet(s.controls) : ControlFields(c) /\ RequiredDuration(c, "duration_ms")

ExpectedPart == [button_press_sequence |-> "btn1", bounced_button_sequence |-> "btn1",
                 pir_state_sequence |-> "pir1", analog_position_sequence |-> "pot1"]

ButtonPressesValid(s) ==
    /\ ListGiven(s, "presses")
    /\ \A p \in ToSet(s.presses) : /\ BinaryIfGiven(p)
                                   /\ RequiredDuration(p, "duration_ms")
                                   /\ OptionalDuration(p, "after_ms")

BouncedButtonValid(s) ==
    /\ ListGiven(s, "sequence")
    /\ {Get(i, "value", "none") : i \in ToSet(s.sequence)} = {0, 1}
    /\ \A i \in ToSet(s.sequence) : BinaryValue(i) /\ RequiredDuration(i, "duration_ms")

PirStatesValid(s) ==
    /\ ListGiven(s, "states")
    /\ \A i \in ToSet(s.states) : BinaryValue(i) /\ RequiredDuration(i, "duration_ms")

AnalogPositionsValid(s) ==
    /\ ListGiven(s, "positions")
    /\ \A i \in ToSet(s.positions) : /\ Has(i, "value") /\ i.value \in 0..1000
                                     /\ RequiredDuration(i, "duration_ms")

ScenarioValid(s) ==
    CASE s.family = "timeline"         -> TimelineValid(s)
      [] s.family = "control_sequence" -> ControlSequenceValid(s)
      [] OTHER ->
            /\ Get(s, "part_id", "none") = ExpectedPart[s.family]
            /\ OptionalDuration(s, "initial_delay_ms")
            /\ OptionalDuration(s, "final_delay_ms")
            /\ CASE s.family = "button_press_sequence"    -> ButtonPressesValid(s)
                 [] s.family = "bounced_button_sequence"  -> BouncedButtonValid(s)
                 [] s.family = "pir_state_sequence"       -> PirStatesValid(s)
                 [] s.family = "analog_position_sequence" -> AnalogPositionsValid(s)

(* config.scenario_end_ms: computed from the task file, not from the steps.   *)
ScenarioEnd(s) ==
    LET initial == Get(s, "initial_delay_ms", 200)
        Held(i) == Get(i, "duration_ms", 300)
    IN CASE s.family = "timeline" ->
              Total(LAMBDA i: Get(i, "delay_ms", 0), Get(s, "steps", <<>>))
         [] s.family = "button_press_sequence" ->
              initial + Total(LAMBDA p: Get(p, "duration_ms", 200) + Get(p, "after_ms", 200),
                              Get(s, "presses", <<>>))
         [] s.family = "bounced_button_sequence" ->
              initial + Total(LAMBDA i: Get(i, "duration_ms", 1), Get(s, "sequence", <<>>))
                      + Get(s, "final_delay_ms", 250)
         [] s.family = "pir_state_sequence" -> initial + Total(Held, Get(s, "states", <<>>))
         [] s.family = "analog_position_sequence" -> initial + Total(Held, Get(s, "positions", <<>>))
         [] s.family = "control_sequence" -> initial + Total(Held, Get(s, "controls", <<>>))

BudgetValid(s, timeout) == timeout > ScenarioEnd(s)

(* A variant's scenario replaces the task's and passes the same checks.       *)
VariantScenarioValid(s, timeout) ==
    s.family \in Families /\ ScenarioValid(s) /\ BudgetValid(s, timeout)

VariantsValid(variants, timeout) ==
    \A v \in ToSet(variants) :
        Has(v, "scenario") => VariantScenarioValid(v.scenario, timeout)

-----------------------------------------------------------------------------
(* What the simulators do with the steps.  A drive is a control set at a time *)

DriveOf(at, step) == [at |-> at, part |-> step.part, control |-> step.control, value |-> step.value]

(* Wokwi's own replay: delays pass, controls are set in between. *)
WokwiDrives(steps) ==
    LET step(acc, s) == IF s.kind = "delay" THEN [acc EXCEPT !.at = @ + s.ms]
                        ELSE [acc EXCEPT !.drives = Append(@, DriveOf(acc.at, s))]
    IN FoldLeft(step, [at |-> 0, drives |-> <<>>], steps).drives

(* The text of a delay has six significant digits and the reader of that text *)
(* takes digits and a point, no exponent.                                     *)
ReadableDelay(ms) == ms < 1000000

(* Renode: delays add up and become one RunFor before the next control.       *)
RunFor(ms) == [kind |-> "run", ms |-> ms]
Flushed(acc) ==
    IF acc.pending > 0
    THEN [commands |-> Append(acc.commands, RunFor(acc.pending)), pending |-> 0,
          elapsed |-> acc.elapsed + acc.pending]
    ELSE acc

(* Mutant: a control is set before the time that should pass first. *)
StepsToResc_SetsFirst(steps) ==
    LET step(acc, s) ==
            IF s.kind = "delay" THEN [acc EXCEPT !.pending = @ + s.ms]
            ELSE Flushed([acc EXCEPT !.commands = Append(@, s)])
    IN Flushed(FoldLeft(step, [commands |-> <<>>, pending |-> 0, elapsed |-> 0], steps))
StepsToResc(steps) ==
    LET step(acc, s) ==
            IF s.kind = "delay" THEN [acc EXCEPT !.pending = @ + s.ms]
            ELSE [Flushed(acc) EXCEPT !.commands = Append(@, s)]
    IN Flushed(FoldLeft(step, [commands |-> <<>>, pending |-> 0, elapsed |-> 0], steps))

RescRefused(steps, parts, timeout) ==
    \/ \E s \in ToSet(steps) : IF s.kind = "delay" THEN ~ReadableDelay(s.ms)
                               ELSE s.part \notin parts
    \/ StepsToResc(steps).elapsed > timeout

(* The whole monitor script: the commands, the time that is left, then quit.  *)
GenerateResc(steps, timeout) ==
    LET resc == StepsToResc(steps) IN
    IF timeout > resc.elapsed THEN Append(resc.commands, RunFor(timeout - resc.elapsed))
    ELSE resc.commands

RenodeDrives(script) ==
    LET step(acc, c) == IF c.kind = "run" THEN [acc EXCEPT !.at = @ + c.ms]
                        ELSE [acc EXCEPT !.drives = Append(@, Overlay([at |-> acc.at], c))]
    IN FoldLeft(step, [at |-> 0, drives |-> <<>>], script).drives

(* The last value a control was set to at or before time t.                   *)
ControlAt(drives, part, control, default, t) ==
    LET set == {i \in DOMAIN drives : /\ drives[i].part = part /\ drives[i].control = control
                                      /\ drives[i].at <= t}
    IN IF set = {} THEN default
       ELSE drives[CHOOSE i \in set : \A j \in set : j <= i].value
=============================================================================
