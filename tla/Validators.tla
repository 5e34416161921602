------------------------------- MODULE Validators -------------------------------
(* The verdict on a run, from its evidence (bench/validators, bench/serial.py):*)
(* the serial log, the traces of the probed pins and the frames of the LCD.   *)
(* A check is a record of the task file; an operator says whether it passes.  *)
(* Static checks read the text of the program and are not modelled.           *)
EXTENDS Scenarios, Lcd

LOCAL Count(s, Test(_)) == Len(SelectSeq(s, Test))
LOCAL Far(a, b) == IF a > b THEN a - b ELSE b - a

(* Ordered search: each wanted item is matched by the next item that fits.    *)
LOCAL NextFit(items, Fits(_), cursor) ==
    LET fits == {i \in cursor..Len(items) : Fits(items[i])} IN
    IF fits = {} THEN 0 ELSE CHOOSE i \in fits : \A j \in fits : i <= j
LOCAL InOrder(items, wanted, Fits(_, _)) ==
    LET step(cursor, w) ==
            LET i == IF cursor = 0 THEN 0 ELSE NextFit(items, LAMBDA x : Fits(x, w), cursor)
            IN IF i = 0 THEN 0 ELSE i + 1
    IN FoldLeft(step, 1, wanted) # 0

-----------------------------------------------------------------------------
(* The serial log: lines of words and numbers. *)

LineContains(line, words) == Within(words, line.text)
CountLines(lines, words) == Count(lines, LAMBDA l : LineContains(l, words))
NumbersOf(lines) == FlattenSeq([i \in DOMAIN lines |-> lines[i].numbers])

NumericRangesMatch(numbers, ranges) == InOrder(numbers, ranges, InRange)
SerialObservationSequence(check, run) ==
    InOrder(run.serial, check.observations,
            LAMBDA line, o : LineContains(line, o.words) /\ NumericRangesMatch(line.numbers, o.ranges))

(* Only lines of the pattern count, when there is one. *)
SerialCountValues(lines, check) ==
    IF ~Has(check, "line_words") THEN NumbersOf(lines)
    ELSE NumbersOf(SelectSeq(lines, LAMBDA l : l.text = check.line_words /\ Len(l.numbers) = 1))
(* Mutant: counts beyond the expected one are no fault. *)
ExactCountSequence_AtLeast(values, expected) ==
    Len(values) >= expected /\ \A i \in 1..expected : values[i] = i
ExactCountSequence(values, expected) == values = [i \in 1..expected |-> i]
SerialCountSequence(check, run) ==
    ExactCountSequence(SerialCountValues(run.serial, check), check.expected_count)

DebounceSerial(check, run) == CountLines(run.serial, check.expected_text) = check.expected_triggers

(* Of two texts of which one contains the other the longer is tried first.    *)
ObservedTextSequence(lines, texts) ==
    LET longest(l) == {t \in texts : LineContains(l, t) /\ \A u \in texts :
                                        LineContains(l, u) => Len(u) <= Len(t)}
        told == SelectSeq(lines, LAMBDA l : longest(l) # {})
    IN [i \in DOMAIN told |-> CHOOSE t \in longest(told[i]) : TRUE]

(* Presses are counted and states compared one by one; other scenarios only   *)
(* need each text often enough.                                               *)
SerialContainsOnStimulus(check, run) ==
    LET s == run.scenario
        texts == check.expected_texts
    IN CASE s.family = "button_press_sequence" /\ Len(texts) = 1 ->
              CountLines(run.serial, texts[1]) = Len(Get(s, "presses", <<>>))
         [] s.family = "pir_state_sequence" /\ Has(check, "state_texts") ->
              ObservedTextSequence(run.serial, ToSet(check.state_texts))
                  = [i \in DOMAIN s.states |-> check.state_texts[s.states[i].value + 1]]
         [] OTHER -> \A t \in ToSet(texts) : CountLines(run.serial, t) >= Get(check, "min_count", 1)

(* A line with one number is an observation. *)
AnalogTemperatureSerial(check, run) ==
    InOrder(SelectSeq(run.serial, LAMBDA l : Len(l.numbers) = 1), check.expected,
            LAMBDA line, wanted : Far(line.numbers[1], wanted) <= check.tolerance)

-----------------------------------------------------------------------------
(* Traces *)

FrequencyEvents(events, p) ==
    LET cycles == Get(p, "cycles", 4)
        skip == Get(p, "skip", 1)
        half == Get(p, "half", <<450, 550>>)
        period == Get(p, "full", <<900, 1100>>)
        duty == Get(p, "duty", <<400, 600>>)
        segments == BuildSegments(events)
    IN /\ Len(events) >= 2
       /\ Len(segments) >= 2 * cycles + skip
       /\ \A i \in 1..cycles :
             LET first == segments[skip + 2 * i - 1]
                 second == segments[skip + 2 * i]
                 both == Duration(first) + Duration(second)
                 high == IF first.v = 1 THEN Duration(first) ELSE Duration(second)
             IN /\ first.v # second.v
                /\ InRange(Duration(first), half) /\ InRange(Duration(second), half)
                /\ InRange(both, period)
                /\ duty[1] * both <= 1000 * high /\ 1000 * high <= duty[2] * both
FrequencyChannels(check, run) ==
    \A signal \in DOMAIN check.channels : FrequencyEvents(run.traces[signal], check.channels[signal])

FrequencyWindows(check, run) ==
    \A w \in ToSet(check.windows) :
        LET subset == SelectSeq(run.traces[check.channel], LAMBDA e : w.start <= e.at /\ e.at <= w.end) IN
        IF Get(w, "inactive", FALSE) THEN Len(subset) - 1 <= Get(w, "max_transitions", 1)
        ELSE Len(subset) >= 4 /\ FrequencyEvents(subset, w)

BusActivity(check, run) ==
    \A pin \in check.pins : Len(run.traces[pin]) - 1 >= Get(check, "min_transitions", 2)

(* Mutant: the trace ends with its last change. *)
HeldUntil_LastChange(events, windows) == events
(* The last level holds until the end of the latest window. *)
LOCAL Later(a, b) == IF a > b THEN a ELSE b
HeldUntil(events, windows) ==
    LET end == FoldLeft(Later, 0, [i \in DOMAIN windows |-> windows[i].end]) IN
    IF events # <<>> /\ windows # <<>> /\ Last(events).at < end
    THEN Append(events, [at |-> end, v |-> Last(events).v]) ELSE events
Ratio(check, run, windows, w) ==
    ValueRatio(BuildSegments(HeldUntil(run.traces[check.channel], windows)), w.start, w.end)
WindowRatios(check, run) ==
    \A w \in ToSet(check.windows) :
        InRange(Ratio(check, run, check.windows, w), Get(w, "ratio", <<0, 1000>>))
StimulusToOutput(check, run) ==
    LET windows == check.active \o check.inactive IN
    /\ \A w \in ToSet(check.active) : Ratio(check, run, windows, w) >= Get(check, "active_min", 800)
    /\ \A w \in ToSet(check.inactive) : Ratio(check, run, windows, w) <= Get(check, "inactive_max", 200)

(* Nine highs and the eight gaps between them, from some high segment on.     *)
MatchesUnits(durations, units, unit, tolerance) ==
    \A i \in DOMAIN units : 100 * Far(durations[i], units[i] * unit) <= units[i] * unit * tolerance
MorseSosPass(check, run) ==
    LET events == run.traces[check.channel]
        segments == BuildSegments(events)
    IN /\ Len(events) >= 18
       /\ \E start \in 0..(Len(segments) - 17) :
             /\ \A i \in 1..17 : segments[start + i].v = i % 2
             /\ MatchesUnits([i \in 1..9 |-> Duration(segments[start + 2 * i - 1])],
                             <<1, 1, 1, 3, 3, 3, 1, 1, 1>>, 200, 5)
             /\ MatchesUnits([i \in 1..8 |-> Duration(segments[start + 2 * i])],
                             <<1, 1, 3, 1, 1, 3, 1, 1>>, 200, 5)

-----------------------------------------------------------------------------
(* Display: the last frame, or a sequence among all of them. *)

LOCAL FrameFits(frame, wanted) ==
    /\ \A text \in ToSet(Get(wanted, "texts", <<>>)) : FrameContains(frame, text)
    /\ \A pattern \in ToSet(Get(wanted, "patterns", <<>>)) : FrameMatches(frame, pattern)
    /\ Has(wanted, "bars") => BarsShown(frame, wanted.bars[1], wanted.bars[2])
LcdText(check, run) == FrameFits(Last(run.frames), check)
LcdTextSequence(check, run) ==
    InOrder(run.frames, check.frames, FrameFits)

-----------------------------------------------------------------------------
(* A serial log is only recorded for a task with a check that reads it.       *)

LOCAL SerialFamilies == {"serial_contains_on_stimulus", "serial_count_sequence", "debounce_serial",
                         "analog_temperature_serial", "serial_observation_sequence"}
RequiresSerial(validator) ==
    IF validator.family = "composite" THEN \E c \in ToSet(validator.checks) : c.family \in SerialFamilies
    ELSE validator.family \in SerialFamilies

ValidateCheck(check, run) ==
    CASE check.family = "serial_observation_sequence" -> SerialObservationSequence(check, run)
      [] check.family = "serial_count_sequence"       -> SerialCountSequence(check, run)
      [] check.family = "debounce_serial"             -> DebounceSerial(check, run)
      [] check.family = "serial_contains_on_stimulus" -> SerialContainsOnStimulus(check, run)
      [] check.family = "analog_temperature_serial"   -> AnalogTemperatureSerial(check, run)
      [] check.family \in {"waveform_frequency", "no_delay_static_plus_waveform"} ->
                                                         FrequencyChannels(check, run)
      [] check.family = "frequency_windows"           -> FrequencyWindows(check, run)
      [] check.family = "bus_activity"                -> BusActivity(check, run)
      [] check.family = "window_ratios"               -> WindowRatios(check, run)
      [] check.family = "stimulus_to_output"          -> StimulusToOutput(check, run)
      [] check.family = "morse_sos"                   -> MorseSosPass(check, run)
      [] check.family = "lcd_text"                    -> LcdText(check, run)
      [] check.family = "lcd_text_sequence"           -> LcdTextSequence(check, run)
ValidateTask(validator, run) ==
    IF validator.family = "composite" THEN \A c \in ToSet(validator.checks) : ValidateCheck(c, run)
    ELSE ValidateCheck(validator, run)
=============================================================================
