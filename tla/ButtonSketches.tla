----------------------------- MODULE ButtonSketches -----------------------------
(* The reference firmware of the tasks with buttons, motion and sound inputs: *)
(* the C programs in bench/runner.py, one round of the main loop per step.    *)
(* The three platforms share an idea and differ in polarity, pins, waits and  *)
(* in which comparisons are strict.                                           *)
EXTENDS Board

LOCAL Bit(b) == IF b THEN 1 ELSE 0
PressedLine == Text(<<"Button", "Pressed!">>)

(* Report a press when the level first reads pressed. *)
ReportPress(level, line, ms) ==
    Round([mem EXCEPT !.last = level], Nothing,
          IF level = 1 /\ mem.last = 0 THEN <<line>> ELSE <<>>, <<>>, ms)
CountPress(level, ms) ==
    LET new == level = 1 /\ mem.last = 0 IN
    Round([mem EXCEPT !.last = level, !.count = IF new THEN @ + 1 ELSE @], Nothing,
          IF new THEN <<Number(mem.count + 1)>> ELSE <<>>, <<>>, ms)

ZephyrButtonStatusDisplay  == ReportPress(In(FixturePinOf("button")), PressedLine, 5)
EspButtonStatusDisplay     == ReportPress(Bit(In(FixturePinOf("button")) = 0), PressedLine, 5)
ArduinoButtonStatusDisplay == ReportPress(In("2"), PressedLine, 5)
ZephyrButtonStatusCount    == CountPress(In(FixturePinOf("button")), 5)
EspButtonStatusCount       == CountPress(Bit(In(FixturePinOf("button")) = 0), 5)
ArduinoButtonStatusCount   == CountPress(In(FixturePinOf("button")), 5)

(* A reading is believed when it has not changed for the debounce time, which *)
(* the Arduino program wants exceeded.                                        *)
Noticed(reading) == IF reading # mem.last THEN [mem EXCEPT !.last = reading, !.since = clock] ELSE mem
Debounced(reading, settle) ==
    LET m == Noticed(reading) IN
    IF clock - m.since >= settle /\ m.stable # reading THEN [m EXCEPT !.stable = reading] ELSE m
Debounce(reading, settle, line, ms) ==
    LET m == Debounced(reading, settle)
        press == m.stable = 1 /\ mem.stable = 0
    IN Round([m EXCEPT !.count = IF press THEN @ + 1 ELSE @], Nothing,
             IF press THEN <<line>> ELSE <<>>, <<>>, ms)

ZephyrButtonPressDebounce  == Debounce(In(FixturePinOf("button")), 30, PressedLine, 1)
EspButtonPressDebounce     == Debounce(Bit(In(FixturePinOf("button")) = 0), 30, PressedLine, 1)
ArduinoButtonPressDebounce == Debounce(In("2"), 31, PressedLine, Poll)

BuzzWhenPressed(reading, buzzer) ==
    LET m == Debounced(reading, 30) IN Round(m, buzzer :> m.stable, <<>>, <<>>, 1)
ZephyrBuzzerButton == BuzzWhenPressed(In(FixturePinOf("button")), FixturePinOf("buzzer"))
EspBuzzerButton    == BuzzWhenPressed(Bit(In(FixturePinOf("button")) = 0), FixturePinOf("buzzer"))

(* The output is the input. *)
Follow(level, output, ms) == Round(mem, output :> level, <<>>, <<>>, ms)
ZephyrBuzzerDoorbell  == Follow(In(FixturePinOf("button")), FixturePinOf("buzzer"), 1)
EspBuzzerDoorbell     == Follow(Bit(In(FixturePinOf("button")) = 0), FixturePinOf("buzzer"), 1)
ArduinoBuzzerDoorbell == Follow(In("2"), "13", Poll)
ZephyrDigitalFollow ==
    LET input == IF Task.task_id = "tilt_detection_alarm" THEN ComponentPin("tilt1", "button")
                 ELSE ComponentPin("pir1", "pir")
    IN Follow(In(input), ComponentPin("buzzer1", "buzzer"), 5)
EspDigitalFollow ==
    Follow(In("14"), IF Task.task_id = "tilt_detection_alarm" THEN "13" ELSE "11", 2)
ArduinoDigitalFollow ==
    IF Task.task_id = "tilt_detection_alarm" THEN Follow(In("14"), "13", Poll)
    ELSE Follow(In("18"), "3", Poll)

(* Every clap switches the relay over. *)
ToggleOnSound(sound, relay, ms) ==
    LET clap == sound = 1 /\ mem.last = 0
        out == IF clap THEN 1 - mem.out ELSE mem.out
    IN Round([mem EXCEPT !.last = sound, !.out = out], IF clap THEN relay :> out ELSE Nothing,
             <<>>, <<>>, ms)
ZephyrClapSwitch  == ToggleOnSound(In(ComponentPin("sound1", "button")), ComponentPin("relay1", "led"), 5)
EspClapSwitch     == ToggleOnSound(In("14"), "21", 5)
ArduinoClapSwitch == ToggleOnSound(In("7"), "2", 5)

(* The motion sketches print a state when it is not the last one, from -1.    *)
ReportMotion(level, ms) ==
    Round([mem EXCEPT !.last = level], Nothing,
          IF level = mem.last THEN <<>>
          ELSE <<Text((IF level = 1 THEN <<>> ELSE <<"No">>) \o <<"Motion", "Detected!">>)>>, <<>>, ms)
ZephyrPirSerial  == ReportMotion(In(FixturePinOf("pir")), 10)
EspPirSerial     == ReportMotion(In(FixturePinOf("pir")), 10)
ArduinoPirSerial == ReportMotion(In("4"), 10)

-----------------------------------------------------------------------------
(* A button steps the blink rate of the LED and beeps.  While a tone sounds   *)
(* the pin changes with every round; the pitch is left out.                   *)

Tone(pin) == 1 - pins[pin]
HalfPeriod(mode) == CASE mode = 1 -> 500 [] mode = 2 -> 250 [] mode = 3 -> 125 [] OTHER -> 0

ZephyrBuzzerToggleLedFreq ==
    LET press == In(ComponentPin("btn1", "button")) = 1 /\ mem.last = 0
        led == ComponentPin("led1", "led")
        buzzer == ComponentPin("buzzer1", "buzzer")
        m == IF press THEN [mem EXCEPT !.state = (@ + 1) % 4, !.out = 0, !.since = clock,
                                       !.until = clock + 80]
             ELSE mem
        half == HalfPeriod(m.state)
        due == half # 0 /\ clock - m.since >= half
        out == IF half = 0 THEN 0 ELSE IF due THEN 1 - m.out ELSE m.out
        sound == IF clock < m.until THEN Tone(buzzer) ELSE 0
    IN Round([m EXCEPT !.last = In(ComponentPin("btn1", "button")), !.out = out,
                       !.since = IF due THEN @ + half ELSE @],
             (led :> out) @@ (buzzer :> sound), <<>>, <<>>, 1)

EspBuzzerToggleLedFreq ==
    LET press == In("12") = 1 /\ mem.last = 0
        m == IF press THEN [mem EXCEPT !.state = (@ + 1) % 4, !.until = clock + 80] ELSE mem
        over == m.until # 0 /\ clock > m.until
        half == HalfPeriod(m.state)
        due == half # 0 /\ clock - m.since >= half
        sound == IF over THEN "10" :> 0 ELSE IF m.until # 0 THEN "10" :> Tone("10") ELSE Nothing
        light == IF half = 0 THEN "11" :> 0 ELSE IF due THEN "11" :> 1 - m.out ELSE Nothing
    IN Round([m EXCEPT !.last = In("12"), !.until = IF over THEN 0 ELSE @,
                       !.since = IF due THEN clock ELSE @, !.out = IF due THEN 1 - @ ELSE @],
             sound @@ light, <<>>, <<>>, 1)

(* tone() stops by itself after 80 ms; a loop with the LED off returns early. *)
ArduinoButtonLedFrequency ==
    LET press == In("2") = 1 /\ mem.last = 0
        m == IF press THEN [mem EXCEPT !.state = (@ + 1) % 4, !.until = clock + 80] ELSE mem
        half == HalfPeriod(m.state)
        due == half # 0 /\ clock - m.since >= half
        light == IF half = 0 THEN "4" :> 0 ELSE IF due THEN "4" :> 1 - m.out ELSE Nothing
    IN Round([m EXCEPT !.last = In("2"), !.since = IF due THEN clock ELSE @,
                       !.out = IF due THEN 1 - @ ELSE @],
             ("3" :> IF clock < m.until THEN Tone("3") ELSE 0) @@ light, <<>>, <<>>, Poll)
=============================================================================
