--------------------------------- MODULE Bench ---------------------------------
(* The whole bench, from a task file to a verdict: the lint of the task and   *)
(* its wiring, the simulation of the reference firmware once for the task or  *)
(* once for each of its variants, and the validators on what was recorded.    *)
EXTENDS TimedSketches, ButtonSketches, KeypadSketches, ChipSketches, Validators

CONSTANT Boots         (* for each platform, when its firmware may start      *)
(* The pins of an ESP are reset two milliseconds before its firmware starts.  *)
ASSUME BootsAssumption ==
    /\ \A j \in DOMAIN Tasks : Tasks[j].platform \in DOMAIN Boots
    /\ \A p \in DOMAIN Boots : /\ Boots[p] \subseteq Nat
                               /\ p = "esp32s3_espidf" => \A boot \in Boots[p] : boot >= 2

(* The greeting is for a board with a display, as its task files have it.     *)
ASSUME DisplayAssumption ==
    \A j \in DOMAIN Tasks : Tasks[j].task_id = "lcd1602_display_hello_world" =>
        \E c \in ToSet(Components(Tasks[j])) : c.type = "lcd1602"

(* The chip that a task measures with, on the board whose simulator has chips,*)
(* and what can be read of it: an echo ends within the 30 ms that are waited  *)
(* for it, and the other quantities fit the bytes and words they are sent in. *)
(* Nothing in the lint makes sure of it; the task files have it so.           *)
SensorOf == [hcsr04_find_distance           |-> [type |-> "hcsr04", id |-> "sonar1"],
             dht11_read                     |-> [type |-> "dht11", id |-> "dht1"],
             dht11_read_button_display      |-> [type |-> "dht11", id |-> "dht1"],
             ds18b20_heat_alarm             |-> [type |-> "ds18b20", id |-> "temp1"],
             mpu6050_read_i2c               |-> [type |-> "mpu6050", id |-> "imu1"],
             mpu6050_read_button_display    |-> [type |-> "mpu6050", id |-> "imu1"],
             mpu6050_read_periodic_display  |-> [type |-> "mpu6050", id |-> "imu1"]]
MilliG == -2000..1999
DegreesPerSecond == -250..250
DegreesCelsius == -2048..2047
Measurable ==
    [hcsr04  |-> [distance |-> 2..512],
     dht11   |-> [temperature |-> 0..255, humidity |-> 0..255],
     ds18b20 |-> [temperature |-> DegreesCelsius],
     mpu6050 |-> [accelX |-> MilliG, accelY |-> MilliG, accelZ |-> MilliG,
                  rotationX |-> DegreesPerSecond, rotationY |-> DegreesPerSecond,
                  rotationZ |-> DegreesPerSecond, temperature |-> Int]]
Equipped(run) ==
    LET sensor == SensorOf[run.task_id] IN
    /\ {p.type : p \in ToSet(RenodeParts(run))} \cap ChipTypes = {sensor.type}
    /\ \A control \in DOMAIN Measurable[sensor.type] :
          /\ <<sensor.id, control>> \in Quantities(run)
          /\ \A x \in ToSet(Hardware(run).sensor[<<sensor.id, control>>]) :
                x.v \in Measurable[sensor.type][control]
ASSUME SensorsAssumption ==
    \A j \in DOMAIN Tasks :
        Tasks[j].task_id \in DOMAIN SensorOf /\ Tasks[j].platform = "zephyr_nano33ble" =>
            \A i \in DOMAIN Jobs[j] : Equipped(Jobs[j][i])

VARIABLES phase,       (* lint, prepare, boot, run, judge, then refused or done *)
          evidence,    (* of the runs so far: serial log, traces, frames      *)
          verdict
vars == <<job, stage, bench, phase, board, evidence, verdict>>

-----------------------------------------------------------------------------
(* What the sketches do before their loop *)

Is(platform, ids) == Task.platform = platform /\ Task.task_id \in ids
HasDisplay == \E c \in ToSet(Components(Task)) : c.type = "lcd1602"

FirstVariables(boot) ==
    [Registers EXCEPT
        !.last = CASE Task.task_id = "sensor_pir_human_motion" -> -1
                   [] Is("zephyr_nano33ble", {"rotary_encoder"}) -> EncoderStateAt("P1.11", "P1.12", boot)
                   [] Is("esp32s3_espidf", {"rotary_encoder"})   -> EncoderStateAt("5", "6", boot)
                   [] Is("arduino_mega", {"rotary_encoder"})     -> EncoderStateAt("2", "3", boot)
                   [] OTHER -> 0,
        !.count = IF Is("zephyr_nano33ble", {"sensor_water_level_display"}) THEN -1 ELSE 0]

FirstBytes ==
    IF ~HasDisplay THEN {Nothing} ELSE
    CASE Task.platform = "zephyr_nano33ble" ->
            {ZephyrInit \o
             CASE Task.task_id = "sensor_water_level_display" ->
                     SetCursor(0, 0) \o Write(<<Glyph.Water, Blank, Glyph.Level>>)
               [] Task.task_id = "reaction_timer_display" -> Write(<<Glyph.Ready>>)
               [] Task.task_id = "lcd1602_display_hello_world" ->
                     SetCursor(0, 0) \o Write(<<Blank, Blank>> \o Greeting)
               [] OTHER -> Nothing}
      [] Task.platform = "esp32s3_espidf" ->
            {spurious \o EspInit \o
             CASE Task.task_id = "lcd1602_display_hello_world" -> SetCursor(2, 0) \o Write(Greeting)
               [] Task.task_id = "safebox_display" -> Entering(<<>>)
               [] OTHER -> Nothing :
                spurious \in {<<>>, <<Pulse(0, 0)>>, <<Pulse(0, 15)>>}}
      [] Task.platform = "arduino_mega" ->
            {ArduinoInit \o IF Task.task_id = "safebox_display" THEN Entering(<<>>) ELSE Nothing}

-----------------------------------------------------------------------------
(* One round of the reference firmware of the task *)

Runs(platform, ids) ==
    /\ phase = "run" /\ clock < Task.timeout /\ Is(platform, ids)
    /\ UNCHANGED <<job, stage, bench, phase, evidence, verdict>>

ZephyrLoop ==
    \/ Runs("zephyr_nano33ble", {"blink_led_1hz"}) /\ ZephyrBlink1Hz
    \/ Runs("zephyr_nano33ble", {"blink_led_no_delay"}) /\ ZephyrBlinkNoDelay
    \/ Runs("zephyr_nano33ble", {"blink_two_leds"}) /\ ZephyrBlinkTwoLeds
    \/ Runs("zephyr_nano33ble", {"blink_led_morse_code"}) /\ ZephyrMorseSos
    \/ Runs("zephyr_nano33ble", {"button_status_display"}) /\ ZephyrButtonStatusDisplay
    \/ Runs("zephyr_nano33ble", {"button_status_count"}) /\ ZephyrButtonStatusCount
    \/ Runs("zephyr_nano33ble", {"button_press_debounce"}) /\ ZephyrButtonPressDebounce
    \/ Runs("zephyr_nano33ble", {"buzzer_button"}) /\ ZephyrBuzzerButton
    \/ Runs("zephyr_nano33ble", {"buzzer_doorbell"}) /\ ZephyrBuzzerDoorbell
    \/ Runs("zephyr_nano33ble", {"hcsr501_motion_alarm", "tilt_detection_alarm"}) /\ ZephyrDigitalFollow
    \/ Runs("zephyr_nano33ble", {"clap_switch"}) /\ ZephyrClapSwitch
    \/ Runs("zephyr_nano33ble", {"sensor_pir_human_motion"}) /\ ZephyrPirSerial
    \/ Runs("zephyr_nano33ble", {"buzzer_toggle_led_freq"}) /\ ZephyrBuzzerToggleLedFreq
    \/ Runs("zephyr_nano33ble", {"16key_keypad"}) /\ Zephyr16KeyKeypad
    \/ Runs("zephyr_nano33ble", {"safebox"}) /\ ZephyrSafebox
    \/ Runs("zephyr_nano33ble", {"safebox_display"}) /\ ZephyrSafeboxDisplay
    \/ Runs("zephyr_nano33ble", {"rotary_encoder"}) /\ ZephyrRotaryEncoder
    \/ Runs("zephyr_nano33ble", {"step_counter_print"}) /\ ZephyrStepCounterPrint
    \/ Runs("zephyr_nano33ble", {"photoresistor_nightlight"}) /\ ZephyrAdcThresholdOutput
    \/ Runs("zephyr_nano33ble", {"tmp36_read"}) /\ ZephyrTmp36Read
    \/ Runs("zephyr_nano33ble", {"sensor_water_level_display"}) /\ ZephyrWaterLevelDisplay
    \/ Runs("zephyr_nano33ble", {"tmp36_read_button_display"}) /\ ZephyrTmp36ButtonDisplay
    \/ Runs("zephyr_nano33ble", {"reaction_timer_display"}) /\ ZephyrReactionTimer
    \/ Runs("zephyr_nano33ble", {"lcd1602_display_hello_world"}) /\ ZephyrLcdHello
    \/ Runs("zephyr_nano33ble", {"hcsr04_find_distance"}) /\ ZephyrHcsr04FindDistance
    \/ Runs("zephyr_nano33ble", {"dht11_read"}) /\ ZephyrDht11Read
    \/ Runs("zephyr_nano33ble", {"dht11_read_button_display"}) /\ ZephyrDht11ButtonDisplay
    \/ Runs("zephyr_nano33ble", {"ds18b20_heat_alarm"}) /\ ZephyrDs18b20HeatAlarm
    \/ Runs("zephyr_nano33ble", {"mpu6050_read_i2c"}) /\ ZephyrMpu6050ReadI2c
    \/ Runs("zephyr_nano33ble", {"mpu6050_read_button_display"}) /\ ZephyrMpu6050ButtonDisplay
    \/ Runs("zephyr_nano33ble", {"mpu6050_read_periodic_display"}) /\ ZephyrMpu6050PeriodicDisplay

EspLoop ==
    \/ Runs("esp32s3_espidf", {"blink_led_1hz"}) /\ EspBlink1Hz
    \/ Runs("esp32s3_espidf", {"blink_led_no_delay"}) /\ EspBlinkNoDelay
    \/ Runs("esp32s3_espidf", {"blink_two_leds"}) /\ EspBlinkTwoLeds
    \/ Runs("esp32s3_espidf", {"blink_led_morse_code"}) /\ EspMorseSos
    \/ Runs("esp32s3_espidf", {"button_status_display"}) /\ EspButtonStatusDisplay
    \/ Runs("esp32s3_espidf", {"button_status_count"}) /\ EspButtonStatusCount
    \/ Runs("esp32s3_espidf", {"button_press_debounce"}) /\ EspButtonPressDebounce
    \/ Runs("esp32s3_espidf", {"buzzer_button"}) /\ EspBuzzerButton
    \/ Runs("esp32s3_espidf", {"buzzer_doorbell"}) /\ EspBuzzerDoorbell
    \/ Runs("esp32s3_espidf", {"hcsr501_motion_alarm", "tilt_detection_alarm"}) /\ EspDigitalFollow
    \/ Runs("esp32s3_espidf", {"clap_switch"}) /\ EspClapSwitch
    \/ Runs("esp32s3_espidf", {"sensor_pir_human_motion"}) /\ EspPirSerial
    \/ Runs("esp32s3_espidf", {"buzzer_toggle_led_freq"}) /\ EspBuzzerToggleLedFreq
    \/ Runs("esp32s3_espidf", {"16key_keypad"}) /\ EspKeypadScan
    \/ Runs("esp32s3_espidf", {"safebox"}) /\ EspSafebox
    \/ Runs("esp32s3_espidf", {"safebox_display"}) /\ EspSafeboxDisplay
    \/ Runs("esp32s3_espidf", {"rotary_encoder"}) /\ EspRotaryEncoder
    \/ Runs("esp32s3_espidf", {"step_counter_print"}) /\ EspStepCounter
    \/ Runs("esp32s3_espidf", {"tmp36_read"}) /\ EspTmp36Read
    \/ Runs("esp32s3_espidf", {"sensor_water_level_display"}) /\ EspWaterLevel
    \/ Runs("esp32s3_espidf", {"tmp36_read_button_display"}) /\ EspTmp36Button
    \/ Runs("esp32s3_espidf", {"reaction_timer_display"}) /\ EspReactionTimer
    \/ Runs("esp32s3_espidf", {"lcd1602_display_hello_world"}) /\ EspLcdHello

ArduinoLoop ==
    \/ Runs("arduino_mega", {"blink_led_1hz"}) /\ ArduinoBlink1Hz
    \/ Runs("arduino_mega", {"blink_two_leds"}) /\ ArduinoBlinkTwoLeds
    \/ Runs("arduino_mega", {"button_status_display"}) /\ ArduinoButtonStatusDisplay
    \/ Runs("arduino_mega", {"button_status_count"}) /\ ArduinoButtonStatusCount
    \/ Runs("arduino_mega", {"button_press_debounce"}) /\ ArduinoButtonPressDebounce
    \/ Runs("arduino_mega", {"buzzer_doorbell"}) /\ ArduinoBuzzerDoorbell
    \/ Runs("arduino_mega", {"hcsr501_motion_alarm", "tilt_detection_alarm"}) /\ ArduinoDigitalFollow
    \/ Runs("arduino_mega", {"clap_switch"}) /\ ArduinoClapSwitch
    \/ Runs("arduino_mega", {"sensor_pir_human_motion"}) /\ ArduinoPirSerial
    \/ Runs("arduino_mega", {"buzzer_toggle_led_freq"}) /\ ArduinoButtonLedFrequency
    \/ Runs("arduino_mega", {"16key_keypad"}) /\ ArduinoKeypadScan
    \/ Runs("arduino_mega", {"safebox"}) /\ ArduinoSafebox
    \/ Runs("arduino_mega", {"safebox_display"}) /\ ArduinoSafeboxDisplay
    \/ Runs("arduino_mega", {"rotary_encoder"}) /\ ArduinoRotaryEncoder
    \/ Runs("arduino_mega", {"step_counter_print"}) /\ ArduinoStepCounter
    \/ Runs("arduino_mega", {"tmp36_read"}) /\ ArduinoTmp36Read
    \/ Runs("arduino_mega", {"sensor_water_level_display"}) /\ ArduinoWaterLevel
    \/ Runs("arduino_mega", {"tmp36_read_button_display"}) /\ ArduinoTmp36Button
    \/ Runs("arduino_mega", {"reaction_timer_display"}) /\ ArduinoReactionTimer
    \/ Runs("arduino_mega", {"lcd1602_display_hello_world"}) /\ ArduinoLcdHello

-----------------------------------------------------------------------------
(* The verdict.  Variants are validated in order and all have to pass; if the *)
(* task asks for it, the logs that were recorded must differ, in their        *)
(* numbers if they have any.                                                  *)

RunPasses(task, e) == ValidateTask(task.validator, e @@ [scenario |-> Get(task, "scenario", NoAttrs)])
Indistinct(es) ==
    LET texts == {e.serial : e \in ToSet(es)}
        numbers == {NumbersOf(e.serial) : e \in ToSet(es)}
    IN Len(es) > 1 /\ \/ Cardinality(texts) = 1
                      \/ numbers # {<<>>} /\ Cardinality(numbers) = 1
ValidateCase(runs, es) ==
    IF \E i \in DOMAIN runs : ~RunPasses(runs[i], es[i]) THEN "FAIL"
    ELSE IF runs[1].distinct /\ RequiresSerial(runs[1].validator) /\ Indistinct(es) THEN "FAIL" ELSE "PASS"

-----------------------------------------------------------------------------

Init ==
    /\ job \in DOMAIN Tasks /\ stage = 1 /\ bench = <<>>
    /\ phase = "lint" /\ evidence = <<>> /\ verdict = "none"
    /\ clock = 0 /\ mem = Registers /\ pins = <<>> /\ chip = <<>> /\ vcd = <<>> /\ serial = <<>>
    /\ panel = PowerOnPanel

Lint ==
    /\ phase = "lint"
    /\ phase' = IF Accepted(Tasks[job]) THEN "prepare" ELSE "refused"
    /\ UNCHANGED <<job, stage, bench, board, evidence, verdict>>

(* Diagram or platform and stimulus are made anew for every variant. *)
Prepare ==
    /\ phase = "prepare" /\ phase' = "boot"
    /\ bench' = Hardware(Jobs[job][stage])
    /\ UNCHANGED <<job, stage, board, evidence, verdict>>

(* The bus of a display is quiet for the first 60 ms. *)
DisplayDelay == IF HasDisplay THEN 60 ELSE 0
Boot ==
    /\ phase = "boot" /\ phase' = "run"
    /\ \E boot \in Boots[Task.platform], bytes \in FirstBytes,
          late \in IF ChipsAtBoot = {<<>>} THEN {OnTime} ELSE Delays :
          PowerUp(boot + DisplayDelay, [FirstVariables(boot) EXCEPT !.late = late], bytes)
    /\ UNCHANGED <<job, stage, bench, evidence, verdict>>

(* Mutant: every variant writes the same files. *)
Timeout_Overwrites ==
    /\ phase = "run" /\ clock >= Task.timeout
    /\ evidence' = <<[serial |-> serial, traces |-> vcd, frames |-> panel.frames]>>
    /\ IF stage < Len(Jobs[job]) THEN stage' = stage + 1 /\ phase' = "prepare"
       ELSE stage' = stage /\ phase' = "judge"
    /\ UNCHANGED <<job, bench, board, verdict>>
(* The simulator stops at the time limit; the next variant starts from power. *)
Timeout ==
    /\ phase = "run" /\ clock >= Task.timeout
    /\ evidence' = Append(evidence, [serial |-> serial, traces |-> vcd, frames |-> panel.frames])
    /\ IF stage < Len(Jobs[job]) THEN stage' = stage + 1 /\ phase' = "prepare"
       ELSE stage' = stage /\ phase' = "judge"
    /\ UNCHANGED <<job, bench, board, verdict>>

Judge ==
    /\ phase = "judge" /\ phase' = "done"
    /\ verdict' = ValidateCase(Jobs[job], evidence)
    /\ UNCHANGED <<job, stage, bench, board, evidence>>

Next == Lint \/ Prepare \/ Boot \/ ZephyrLoop \/ EspLoop \/ ArduinoLoop \/ Timeout \/ Judge
Spec == Init /\ [][Next]_vars

-----------------------------------------------------------------------------
(* Type: as many logs are kept as variants have run. *)
BenchTypeOK ==
    /\ job \in DOMAIN Tasks /\ stage \in DOMAIN Jobs[job]
    /\ phase \in {"lint", "prepare", "boot", "run", "judge", "refused", "done"}
    /\ verdict \in IF phase = "done" THEN {"PASS", "FAIL"} ELSE {"none"}
    /\ clock \in Nat /\ pins \in [DOMAIN pins -> 0..1]
    /\ Len(evidence) = IF phase \in {"judge", "done"} THEN Len(Jobs[job]) ELSE stage - 1

(* The reference firmware passes its own task, on every platform, with every  *)
(* variant, whenever the board starts and however the pins come up.  What the *)
(* repository calls a behavioural pass of a case rests on this.               *)
ReferencePasses == phase = "done" => verdict = "PASS"

(* The two simulators are told the same story: the monitor script of Renode,  *)
(* where delays are added up and flushed, sets the same controls at the same  *)
(* times as the steps that Wokwi replays, and lasts to the time limit.        *)
SimulatorsAgree ==
    phase = "boot" =>
        LET wokwi == WokwiDrives(Steps(Task))
            script == GenerateResc(Steps(Task), Task.timeout)
            renode == RenodeDrives(script)
        IN /\ wokwi = [i \in DOMAIN renode |-> [f \in {"at", "part", "control", "value"} |-> renode[i][f]]]
           /\ Total(LAMBDA c : IF c.kind = "run" THEN c.ms ELSE 0, script) = Task.timeout

(* No accepted task is cut off in its stimulus: the end the configuration     *)
(* check computes from the task file is that of the generated steps, so that  *)
(* their last delay passes before the time limit.                             *)
StimulusFits ==
    phase = "boot" /\ Has(Task, "scenario") =>
        LET end == Total(LAMBDA s : IF s.kind = "delay" THEN s.ms ELSE 0, Steps(Task)) IN
        end = ScenarioEnd(Task.scenario) /\ end < Task.timeout

(* The generated wires, pull resistors, attributes and monitor commands carry *)
(* the stimulus to the pins the firmware reads: every button has a pin that   *)
(* leaves its resting level exactly while the button is pressed, and no pin   *)
(* moves for another reason.                                                  *)
InputsFollowStimulus ==
    LET drives == WokwiDrives(Steps(Task))
        Follows(wave, part) ==
            \A i \in DOMAIN wave :
                wave[i].v # wave[1].v <=> ControlAt(drives, part, "pressed", 0, wave[i].at) = 1
        pressed == {d.part : d \in {x \in ToSet(drives) : x.control = "pressed"}}
        inputs == DOMAIN bench.level
    IN phase = "boot" /\ inputs # {} =>
          /\ \A part \in pressed : \E pin \in inputs : Follows(bench.level[pin], part)
          /\ \A pin \in inputs : \E part \in pressed \cup {"none"} : Follows(bench.level[pin], part)

LOCAL PressesUntil(t, held) ==
    LET drives == WokwiDrives(Steps(Task))
        press(i) == /\ drives[i].value = 1 /\ drives[i].at <= t
                    /\ i < Len(drives) => drives[i + 1].at >= drives[i].at + held
        presses == SelectSeq([i \in DOMAIN drives |-> [part |-> drives[i].part, counts |-> press(i)]],
                             LAMBDA p : p.counts)
    IN [i \in DOMAIN presses |-> presses[i].part]

(* The log of a press is neither early, late, lost nor doubled: it has a line *)
(* for each press that began, but for one still within the reaction time, and *)
(* the lines tell the counts or the keys in their order.  Contact bounce is   *)
(* no press.  Waits may be late at every round.                               *)
ReportsFollowPresses ==
    LET bounced == Task.task_id = "button_press_debounce"
        held == IF bounced THEN 30 ELSE 1
        begun == PressesUntil(clock, held)
        due == PressesUntil(clock - (IF bounced THEN 40 ELSE 20), held)
        Told(i) == CASE Task.task_id = "16key_keypad" -> begun[i] = "k" \o ToString(serial[i].numbers[1])
                     [] Task.task_id = "button_status_count" -> serial[i].numbers = <<i>>
                     [] OTHER -> TRUE
    IN phase = "run" /\ Task.task_id \in {"button_status_display", "button_status_count",
                                          "button_press_debounce", "16key_keypad"} =>
          /\ Len(due) <= Len(serial) /\ Len(serial) <= Len(begun)
          /\ \A i \in DOMAIN serial : Told(i)

(* The safe is open if and only if one group of four keys was the code, up to *)
(* the reaction time, and stays so: neither the keys of a wrong group nor     *)
(* those pressed later change it.                                             *)
LOCAL CodeIn(keys) ==
    \E n \in 1..(Len(keys) \div 4) : SubSeq(keys, 4 * n - 3, 4 * n) = <<"k1", "k2", "k3", "k4">>
SafeOpensOnCode ==
    phase = "run" /\ Task.task_id \in {"safebox", "safebox_display"} =>
        /\ CodeIn(PressesUntil(clock - 60, 1)) => Last(vcd.D0).v = 1
        /\ Last(vcd.D0).v = 1 => CodeIn(PressesUntil(clock, 1))

(* What the decoder reads from the bus is what the sketch holds: the entry of *)
(* the safe, its verdict, the greeting, also when the reset of the pins gave  *)
(* the decoder half a byte too many.                                          *)
ScreenIsIntended ==
    LET frame == Last(panel.frames) IN
    phase = "run" =>
        /\ Task.task_id = "safebox_display" =>
              /\ Task.platform # "zephyr_nano33ble" /\ mem.entry # <<>> =>
                    Stripped(frame[1]) = <<Glyph.Input, Blank>> \o mem.entry
              /\ mem.open <=> FrameContains(frame, <<Glyph.Status, Blank, Glyph.Success>>)
        /\ Task.task_id = "lcd1602_display_hello_world" /\ Task.platform # "arduino_mega" =>
              Stripped(frame[1]) = <<Blank, Blank>> \o Greeting

(* What the firmware reads from a chip is what the sensor was set to, to a    *)
(* centimetre over or two short or a count, however late polls and waits are, *)
(* and no read fails.  The DS18B20 is read for 200 ms: the temperature may    *)
(* be that of any time since the reading began.                               *)
ReadingsAreValues ==
    LET near(a, b, error) == a - b <= error /\ b - a <= error
        reading == mem.entry
    IN phase = "run" =>
        CASE Task.task_id = "hcsr04_find_distance" ->
                /\ mem.count = 0
                /\ reading # <<>> => reading[1] - At(Distance, mem.since) \in -2..1
          [] Task.task_id \in {"dht11_read", "dht11_read_button_display"} ->
                /\ mem.count = 0
                /\ reading # <<>> => reading = <<At(Quantity("dht1", "humidity"), mem.since),
                                                At(Quantity("dht1", "temperature"), mem.since)>>
          [] Task.task_id = "ds18b20_heat_alarm" ->
                /\ mem.count = 0
                /\ reading # <<>> => \E t \in mem.since..clock : reading = <<16 * At(Degrees, t)>>
          [] Task.task_id \in {"mpu6050_read_i2c", "mpu6050_read_button_display", "mpu6050_read_periodic_display"} ->
                reading # <<>> => \A i \in 1..3 :
                    LET accel == <<"accelX", "accelY", "accelZ">>[i]
                        rotation == <<"rotationX", "rotationY", "rotationZ">>[i]
                    IN /\ near(1000 * reading[i], 16384 * At(Quantity("imu1", accel), mem.since), 500)
                       /\ reading[i + 3] = 131 * At(Quantity("imu1", rotation), mem.since)
          [] OTHER -> TRUE

(* A trace is the history of its pin, as the arithmetic on segments needs it: *)
(* times increase, levels alternate and the last one is the level of the pin, *)
(* whatever happened at one instant.                                          *)
TraceIsHistory ==
    phase = "run" =>
        \A ch \in ToSet(Channels(Task)) : LET trace == vcd[ch.signal] IN
            /\ \A i \in 2..Len(trace) : trace[i - 1].at < trace[i].at /\ trace[i - 1].v # trace[i].v
            /\ Last(trace).v = pins[ch.pin]

(* Variants are there so that no fixed output passes: what was recorded of    *)
(* one variant fails the validator of another.  The exception is the water    *)
(* level: a fall starts with the words the rise asks for, and its bars are    *)
(* those the rise ends with, so a program that always shows a fall passes.    *)
VariantsRefuteConstants ==
    phase = "done" /\ Len(evidence) > 1 /\ Task.task_id # "sensor_water_level_display" =>
        \A e \in ToSet(evidence) : \E i \in DOMAIN Jobs[job] : ~RunPasses(Jobs[job][i], e)
=============================================================================
