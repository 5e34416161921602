-------------------------------- MODULE MCBench --------------------------------
(* The tasks of the benchmark whose firmware is modelled, as their files under*)
(* tasks/ give them, on the three boards; and tasks with a faulty stimulus or *)
(* wiring, which the lint should refuse, or whose time is just enough.        *)
EXTENDS Bench

A == "arduino_mega"
E == "esp32s3_espidf"
Z == "zephyr_nano33ble"
(* Each kind of lateness alone, as one may undo another, and all at once.     *)
MCDelays == {OnTime, [OnTime EXCEPT !.rise = 31], [OnTime EXCEPT !.fall = 31], [OnTime EXCEPT !.wait = 10],
             [rise |-> 31, fall |-> 31, wait |-> 10]}
MCBoots == (A :> {0}) @@ (E :> {50, 120}) @@ (Z :> {3})
On(p, a, e, z) == CASE p = A -> a [] p = E -> e [] p = Z -> z

(* Poll is the time between rounds that do not wait; in a task with jitter a  *)
(* wait may take a millisecond more.                                          *)
Case(id, p, fixture, timeout, validator) ==
    [task_id |-> id, platform |-> p, fixture |-> fixture, timeout |-> timeout,
     validator |-> validator, variants |-> <<>>, distinct |-> FALSE, poll |-> 10, jitter |-> 0]
Stimulus(s) == [scenario |-> s]
Variants(vs, distinct) == [variants |-> vs, distinct |-> distinct]

(* Stimuli *)
Presses(initial, ps) ==
    [family |-> "button_press_sequence", part_id |-> "btn1", initial_delay_ms |-> initial,
     presses |-> [i \in DOMAIN ps |-> [duration_ms |-> ps[i][1], after_ms |-> ps[i][2]]]]
Values(vs) == [i \in DOMAIN vs |-> [value |-> vs[i][1], duration_ms |-> vs[i][2]]]
Bounces(initial, vs) ==
    [family |-> "bounced_button_sequence", part_id |-> "btn1", initial_delay_ms |-> initial,
     final_delay_ms |-> 250, sequence |-> Values(vs)]
Motion(initial, vs) ==
    [family |-> "pir_state_sequence", part_id |-> "pir1", initial_delay_ms |-> initial,
     states |-> Values(vs)]
Positions(initial, vs) ==
    [family |-> "analog_position_sequence", part_id |-> "pot1", initial_delay_ms |-> initial,
     positions |-> Values(vs)]
Controls(cs) ==
    [family |-> "control_sequence", initial_delay_ms |-> 200,
     controls |-> [i \in DOMAIN cs |-> [part_id |-> cs[i][1], control |-> cs[i][2],
                                        value |-> cs[i][3], duration_ms |-> cs[i][4]]]]
Wait(ms) == [delay_ms |-> ms]
Set(part, v) == [set_control |-> [part_id |-> part, control |-> "pressed", value |-> v]]
Moments(steps) == [family |-> "timeline", steps |-> steps]
KeyPresses(keys) ==
    Controls(FlattenSeq([i \in DOMAIN keys |-> <<<<keys[i], "pressed", 1, 120>>,
                                                 <<keys[i], "pressed", 0, 80>>>>]))

(* Fixtures *)
Probe(ps) == [i \in DOMAIN ps |-> [signal |-> "D" \o ToString(i - 1), pin |-> ps[i]]]
Composed(probed, components) ==
    [family |-> "composite", components |-> components]
    @@ IF probed = <<>> THEN <<>> ELSE [channels |-> Probe(probed)]
Comp(type, id, pin) == [type |-> type, id |-> id, pin |-> pin]
LcdPins(p) == On(p, <<"12", "11", "4", "5", "6", "7">>, <<"38", "39", "40", "41", "42", "21">>,
                 <<"P1.12", "P1.14", "P1.15", "P1.13", "P0.21", "P0.27">>)
LcdPart(p) ==
    LET l == LcdPins(p) IN
    [type |-> "lcd1602", id |-> "lcd1",
     pins |-> [rs |-> l[1], e |-> l[2], d4 |-> l[3], d5 |-> l[4], d6 |-> l[5], d7 |-> l[6]]]
Key(id, row, col) == [type |-> "matrix_key", id |-> id, pins |-> [row |-> row, col |-> col]]
Matrix(names, rows, cols) ==
    FlattenSeq([r \in DOMAIN rows |-> [c \in DOMAIN names[r] |-> Key(names[r][c], rows[r], cols[c])]])
Check(family, r) == [family |-> family] @@ r
Both(a, b) == [family |-> "composite", checks |-> <<a, b>>]
Span(a, b) == [start |-> a, end |-> b]
Spans(ws) == [i \in DOMAIN ws |-> Span(ws[i][1], ws[i][2])]

-----------------------------------------------------------------------------
(* Lights *)

D0Wave(r) == Check("waveform_frequency", [channels |-> [D0 |-> r]])
Skip(p, n) == On(p, [skip |-> 1], [skip |-> n], [skip |-> 1])
OneLed(p) ==
    LET pin == On(p, "3", "10", "P0.24") IN
    [family |-> "single_led_output", pins |-> [led |-> pin], channels |-> Probe(<<pin>>)]
TwoLeds(p) ==
    LET pin == On(p, <<"2", "3">>, <<"10", "11">>, <<"P0.24", "P0.16">>) IN
    [family |-> "dual_led_output", pins |-> [led1 |-> pin[1], led2 |-> pin[2]], channels |-> Probe(pin)]
HalfSecond == [half |-> <<475, 525>>, full |-> <<950, 1050>>, duty |-> <<450, 550>>]
QuarterSecond == [half |-> <<238, 262>>, full |-> <<475, 525>>, duty |-> <<450, 550>>]

Blink(p) == Case("blink_led_1hz", p, OneLed(p), 6000, D0Wave(Skip(p, 3)))
NoDelay(p) == Case("blink_led_no_delay", p, OneLed(p), 6000, D0Wave(HalfSecond @@ Skip(p, 2)))
TwoBlinks(p) ==
    Case("blink_two_leds", p, TwoLeds(p), 5000,
         Check("waveform_frequency", [channels |-> [D0 |-> HalfSecond @@ Skip(p, 2),
                                                    D1 |-> QuarterSecond @@ Skip(p, 2)]]))
Morse(p) == Case("blink_led_morse_code", p, OneLed(p), 8000, Check("morse_sos", [channel |-> "D0"]))
Lights == <<Blink(A), Blink(E), Blink(Z), NoDelay(E), NoDelay(Z), TwoBlinks(A), TwoBlinks(E),
            TwoBlinks(Z), Morse(E), Morse(Z)>>

-----------------------------------------------------------------------------
(* Buttons and motion *)

Early(p, a, e) == IF p = E THEN e ELSE a
ButtonPin(p) == On(p, "2", "12", "P1.11")
SerialButton(p) == [family |-> "button_serial", pins |-> [button |-> ButtonPin(p)]]
BuzzerPins(p) == On(p, <<"2", "13">>, <<"12", "13">>, <<"P1.11", "P1.12">>)
ButtonBuzzer(p) ==
    LET b == BuzzerPins(p) IN
    [family |-> "button_to_buzzer", pins |-> [button |-> b[1], buzzer |-> b[2]], channels |-> Probe(<<b[2]>>)]

StatusDisplay(p) ==
    [jitter |-> 1] @@
    Stimulus(Presses(Early(p, 200, 700), <<<<200, 250>>, <<200, 250>>>>)) @@
    Case("button_status_display", p, SerialButton(p), Early(p, 1200, 1800),
         Check("serial_contains_on_stimulus",
               [expected_texts |-> <<<<"Button", "Pressed!">>>>, min_count |-> 2]))

CountVariants ==
    Variants(<<[id |-> "three"],
               [id |-> "four",
                scenario |-> Presses(200, <<<<160, 220>>, <<160, 220>>, <<160, 220>>, <<160, 220>>>>),
                validator |-> [expected_count |-> 4]]>>, TRUE)
StatusCount(p) ==
    [jitter |-> 1] @@ (IF p = Z THEN CountVariants ELSE <<>>) @@
    Stimulus(Presses(Early(p, 200, 700), <<<<160, 220>>, <<160, 220>>, <<160, 220>>>>)) @@
    Case("button_status_count", p, SerialButton(p), On(p, 1500, 2200, 2400),
         Check("serial_count_sequence",
               IF p = E THEN [expected_count |-> 3, line_words |-> <<>>] ELSE [expected_count |-> 3]))

TwoBounced == <<<<1, 1>>, <<0, 1>>, <<1, 2>>, <<0, 1>>, <<1, 80>>, <<0, 300>>, <<1, 80>>, <<0, 250>>>>
ThreeBounced == TwoBounced \o <<<<1, 80>>, <<0, 300>>>>
PressDebounce(p) ==
    [poll |-> 1] @@
    Variants(<<[id |-> "two"],
               [id |-> "three", scenario |-> Bounces(Early(p, 200, 700), ThreeBounced),
                validator |-> [checks |-> <<[expected_triggers |-> 3]>>]]>>, TRUE) @@
    Stimulus(Bounces(Early(p, 200, 700), TwoBounced)) @@
    Case("button_press_debounce", p, SerialButton(p), Early(p, 2100, 2600),
         [family |-> "composite",
          checks |-> <<Check("debounce_serial", [expected_text |-> <<"Button", "Pressed!">>,
                                                 expected_triggers |-> 2])>>])

Sounds(active, inactive) ==
    Check("stimulus_to_output", [channel |-> "D0", active |-> Spans(active), inactive |-> Spans(inactive)])
BuzzerButton(p) ==
    Stimulus(Bounces(Early(p, 200, 700), TwoBounced)) @@
    Case("buzzer_button", p, ButtonBuzzer(p), Early(p, 1400, 1900),
         IF p = E THEN Sounds(<<<<745, 780>>, <<1125, 1160>>>>,
                              <<<<250, 650>>, <<820, 1050>>, <<1200, 1300>>>>)
         ELSE Sounds(<<<<245, 280>>, <<625, 660>>>>, <<<<50, 150>>, <<300, 550>>, <<700, 800>>>>))
Doorbell(p) ==
    Stimulus(Presses(Early(p, 200, 700), <<<<300, 300>>, <<300, 300>>>>)) @@
    Case("buzzer_doorbell", p, ButtonBuzzer(p), Early(p, 1600, 2200),
         IF p = E THEN Sounds(<<<<750, 950>>, <<1350, 1550>>>>,
                              <<<<250, 650>>, <<1050, 1250>>, <<1650, 1850>>>>)
         ELSE Sounds(<<<<250, 450>>, <<850, 1050>>>>, <<<<50, 150>>, <<550, 750>>, <<1150, 1350>>>>))
Alarm(id, p, input, output, stimulus, timeout, active, inactive) ==
    Stimulus(stimulus) @@ Case(id, p, Composed(<<output.pin>>, <<input, output>>), timeout,
                               Sounds(active, inactive))
MotionAlarm(p) ==
    Alarm("hcsr501_motion_alarm", p,
          On(p, Comp("pir_surrogate", "pir1", "18"), Comp("pir_surrogate", "pir1", "14"),
             Comp("pir", "pir1", "P1.15")),
          On(p, Comp("active_buzzer", "buzzer1", "3"), Comp("active_buzzer", "buzzer1", "11"),
             Comp("buzzer", "buzzer1", "P1.12")),
          Motion(200, <<<<0, 250>>, <<1, 350>>, <<0, 250>>>>), 1200,
          <<<<520, 750>>>>, <<<<250, 400>>, <<900, 1000>>>>)
TiltAlarm(p) ==
    Alarm("tilt_detection_alarm", p,
          On(p, Comp("tilt_switch", "tilt1", "14"), Comp("tilt_switch", "tilt1", "14"),
             Comp("button", "tilt1", "P1.15")),
          On(p, Comp("active_buzzer", "buzzer1", "13"), Comp("active_buzzer", "buzzer1", "13"),
             Comp("buzzer", "buzzer1", "P1.12")),
          Moments(<<Wait(200), Set("tilt1", 1), Wait(500), Set("tilt1", 0), Wait(300)>>), 1200,
          <<<<300, 600>>>>, <<<<800, 950>>>>)
ClapSwitch(p) ==
    Alarm("clap_switch", p,
          On(p, Comp("sound_sensor", "sound1", "7"), Comp("sound_sensor", "sound1", "14"),
             Comp("button", "sound1", "P1.15")),
          On(p, Comp("relay", "relay1", "2"), Comp("relay", "relay1", "21"),
             Comp("led", "relay1", "P0.16")),
          Moments(<<Wait(200), Set("sound1", 1), Wait(120), Set("sound1", 0), Wait(350),
                    Set("sound1", 1), Wait(120), Set("sound1", 0), Wait(300)>>), 1300,
          <<<<380, 550>>>>, <<<<850, 1000>>>>)
HumanMotion(p) ==
    LET initial == Early(p, 200, 700) IN
    [jitter |-> 1] @@
    Variants(<<[id |-> "single"],
               [id |-> "double", scenario |-> Motion(initial, <<<<0, 250>>, <<1, 350>>, <<0, 300>>,
                                                                 <<1, 350>>, <<0, 300>>>>)]>>, TRUE) @@
    Stimulus(Motion(initial, <<<<0, 250>>, <<1, 350>>, <<0, 350>>>>)) @@
    Case("sensor_pir_human_motion", p,
         [family |-> "pir_serial", pins |-> [pir |-> On(p, "4", "14", "P1.15")]], Early(p, 2100, 2600),
         Check("serial_contains_on_stimulus",
               [expected_texts |-> <<<<"Motion", "Detected!">>, <<"No", "Motion", "Detected!">>>>,
                state_texts |-> <<<<"No", "Motion", "Detected!">>, <<"Motion", "Detected!">>>>]))
ToggleFreq(p) ==
    LET pin == On(p, <<"4", "3">>, <<"11", "10">>, <<"P0.16", "P1.12">>)
        rate(from, to, half, full) ==
            [start |-> from, end |-> to, half |-> half, full |-> full, cycles |-> 1, skip |-> 0]
    IN [poll |-> 1] @@
       Stimulus(Presses(200, <<<<100, 2500>>, <<100, 1600>>, <<100, 1000>>, <<100, 500>>>>)) @@
       Case("buzzer_toggle_led_freq", p,
            Composed(pin, <<Comp("button", "btn1", ButtonPin(p)),
                            Comp(IF p = Z THEN "buzzer" ELSE "active_buzzer", "buzzer1", pin[2]),
                            Comp("led", "led1", pin[1])>>), 6800,
            Both(Check("bus_activity", [pins |-> {"D1"}, min_transitions |-> 8]),
                 Check("frequency_windows",
                       [channel |-> "D0",
                        windows |-> <<rate(450, 2450, <<400, 650>>, <<800, 1300>>),
                                      rate(3050, 4250, <<180, 320>>, <<360, 640>>),
                                      rate(4750, 5350, <<90, 170>>, <<180, 340>>),
                                      Span(5900, 6300) @@ [inactive |-> TRUE]>>])))
Buttons ==
    FlattenSeq([i \in 1..3 |->
        LET p == <<A, E, Z>>[i] IN
        <<StatusDisplay(p), StatusCount(p), PressDebounce(p), Doorbell(p), MotionAlarm(p), TiltAlarm(p),
          ClapSwitch(p), HumanMotion(p), ToggleFreq(p)>>]) \o <<BuzzerButton(E), BuzzerButton(Z)>>

-----------------------------------------------------------------------------
(* Keys *)

Observe(words, ns) == [i \in DOMAIN ns |-> [words |-> words, ranges |-> <<<<ns[i], ns[i]>>>>]]
AllKeys == <<<<"k1", "k2", "k3", "kA">>, <<"k4", "k5", "k6", "kB">>, <<"k7", "k8", "k9", "kC">>,
             <<"kS", "k0", "kH", "kD">>>>
Keypad(p) ==
    [jitter |-> 1] @@
    (IF p = Z
     THEN Variants(<<[id |-> "first"],
                     [id |-> "second", scenario |-> KeyPresses(<<"k7", "k5", "k9", "k0">>),
                      validator |-> [observations |-> Observe(<<"Key">>, <<7, 5, 9, 0>>)]]>>, TRUE)
     ELSE <<>>) @@
    Stimulus(KeyPresses(<<"k1", "k2", "k3", "k4">>)) @@
    Case("16key_keypad", p,
         Composed(<<>>, Matrix(AllKeys,
             On(p, <<"9", "8", "7", "6">>, <<"38", "39", "21", "14">>, <<"P1.11", "P1.12", "P1.15", "P1.13">>),
             On(p, <<"5", "4", "3", "2">>, <<"10", "9", "41", "40">>, <<"P1.14", "P0.23", "P0.21", "P0.27">>))),
         1500, Check("serial_observation_sequence", [observations |-> Observe(<<"Key">>, <<1, 2, 3, 4>>)]))

SafeKeys == <<<<"k1", "k2", "k3">>, <<"k4", "k5">>>>
RelayPin(p) == On(p, "13", "12", "P0.13")
Opens(first, second) ==
    Check("window_ratios", [channel |-> "D0", windows |-> <<Span(300, 1450) @@ [ratio |-> first],
                                                            Span(1950, 2450) @@ [ratio |-> second]>>])
Code(s) == [i \in DOMAIN s |-> "k" \o ToString(s[i])]
Safe(p) ==
    (IF p = Z
     THEN Variants(<<[id |-> "opens"],
                     [id |-> "never", scenario |-> KeyPresses(Code(<<1, 2, 3, 5, 1, 2, 3, 5>>)),
                      validator |-> [windows |-> <<[ratio |-> <<0, 100>>], [ratio |-> <<0, 100>>]>>]]>>,
                   FALSE)
     ELSE <<>>) @@
    Stimulus(KeyPresses(Code(<<1, 2, 3, 5, 1, 2, 3, 4>>))) @@
    Case("safebox", p,
         Composed(<<RelayPin(p)>>,
                  Matrix(SafeKeys, On(p, <<"9", "8">>, <<"9", "10">>, <<"P1.11", "P1.12">>),
                         On(p, <<"5", "4", "3">>, <<"14", "8", "45">>, <<"P1.14", "P0.23", "P0.21">>))
                  \o <<Comp("relay", "relay1", RelayPin(p))>>), 2600,
         Opens(<<0, 150>>, <<850, 1000>>))
Entry(s) == <<Glyph.Input, Blank>> \o [i \in DOMAIN s |-> Digit(s[i])]
Sequence(first) ==
    <<[texts |-> <<Entry(first)>>],
      [texts |-> <<Entry(<<1, 2, 3, 4>>), <<Glyph.Status, Blank, Glyph.Success>>>>]>>
SafeDisplay(p) ==
    Variants(<<[id |-> "wrong_1235"],
               [id |-> "wrong_1325", scenario |-> KeyPresses(Code(<<1, 3, 2, 5, 1, 2, 3, 4>>)),
                validator |-> [checks |-> <<[frames |-> Sequence(<<1, 3, 2, 5>>)]>>]]>>, p = E) @@
    Stimulus(KeyPresses(Code(<<1, 2, 3, 5, 1, 2, 3, 4>>))) @@
    Case("safebox_display", p,
         Composed(<<RelayPin(p)>> \o LcdPins(p),
                  Matrix(SafeKeys, On(p, <<"22", "24">>, <<"9", "10">>, <<"P1.11", "P1.02">>),
                         On(p, <<"30", "32", "34">>, <<"14", "8", "45">>, <<"P1.01", "P1.08", "P0.23">>))
                  \o <<Comp("relay", "relay1", RelayPin(p)), LcdPart(p)>>), 2600,
         Both(Check("lcd_text_sequence", [frames |-> Sequence(<<1, 2, 3, 5>>)]),
              Opens(<<0, 150>>, <<850, 1000>>)))
Keys == FlattenSeq([i \in 1..3 |->
            LET p == <<A, E, Z>>[i] IN <<Keypad(p), Safe(p), SafeDisplay(p)>>])

-----------------------------------------------------------------------------
(* Sensors *)

Detent(a, b, rest) ==
    <<<<a, "pressed", 1, 20>>, <<b, "pressed", 1, 20>>, <<a, "pressed", 0, 20>>, <<b, "pressed", 0, rest>>>>
Cw == Detent("enc_clk", "enc_dt", 20)
Ccw == Detent("enc_dt", "enc_clk", 20)
CwLast == Detent("enc_clk", "enc_dt", 40)
CcwLast == Detent("enc_dt", "enc_clk", 40)
Turned(way, ns) == Observe(<<"Direction", way>>, ns)
Encoder(p) ==
    LET pin == On(p, <<"2", "3">>, <<"5", "6">>, <<"P1.11", "P1.12">>)
        switch == IF p = Z THEN <<>> ELSE <<Comp("digital_pullup", "enc_sw", "4")>>
    IN [poll |-> 2] @@
       (IF p = Z
        THEN Variants(<<[id |-> "first"],
                        [id |-> "second", scenario |-> Controls(CwLast \o Ccw \o Ccw \o Ccw \o CcwLast),
                         validator |-> [observations |->
                             Turned("CW", <<1>>) \o Turned("CCW", <<0, -1, -2, -3>>)]]>>, TRUE)
        ELSE <<>>) @@
       Stimulus(Controls(Cw \o Cw \o CwLast \o Ccw \o CcwLast)) @@
       Case("rotary_encoder", p,
            Composed(<<>>, <<Comp("digital_pullup", "enc_clk", pin[1]),
                             Comp("digital_pullup", "enc_dt", pin[2])>> \o switch), On(p, 1200, 1200, 1400),
            Check("serial_observation_sequence",
                  [observations |-> Turned("CW", <<1, 2, 3>>) \o Turned("CCW", <<2, 1>>)]))

Walk(n) ==
    Controls(<<<<"imu1", "accelX", 0, 50>>, <<"imu1", "accelY", 0, 50>>, <<"imu1", "accelZ", 1000, 300>>>> \o
             FlattenSeq([i \in 1..n |-> <<<<"imu1", "accelZ", 1900, 200>>,
                                          <<"imu1", "accelZ", 1000, IF i = n THEN 300 ELSE 250>>>>]))
StepCounter(p) ==
    LET more(id, n) == Variants(<<[id |-> "three"],
                                  [id |-> id, scenario |-> Walk(n), validator |-> [expected_count |-> n]]>>, TRUE)
    IN On(p, <<>>, more("five", 5), more("four", 4)) @@
       Stimulus(Walk(3)) @@
       Case("step_counter_print", p,
            Composed(<<>>, <<On(p, [type |-> "mpu6050", id |-> "imu1", pins |-> [sda |-> "20", scl |-> "21"]],
                                [type |-> "mpu6050", id |-> "imu1", pins |-> [sda |-> "38", scl |-> "39"]],
                                [type |-> "mpu6050", id |-> "imu1"])>>), On(p, 2500, 4000, 2600),
            Check("serial_count_sequence", [expected_count |-> 3] @@
                  IF p = E THEN [line_words |-> <<"Steps">>] ELSE <<>>))
Nightlight ==
    LET light(a, b) == Controls(<<<<"photo1", "position", a, 400>>, <<"photo1", "position", b, 400>>>>) IN
    Variants(<<[id |-> "darker"],
               [id |-> "brighter", scenario |-> light(900, 50),
                validator |-> [active |-> Spans(<<<<300, 550>>>>), inactive |-> Spans(<<<<700, 950>>>>)]]>>,
             FALSE) @@
    Stimulus(light(50, 900)) @@
    Case("photoresistor_nightlight", Z,
         Composed(<<"P0.24">>, <<[type |-> "photoresistor", id |-> "photo1", channel |-> 0,
                                  attrs |-> [position |-> 50]], Comp("led", "led1", "P0.24")>>), 1200,
         Sounds(<<<<700, 950>>>>, <<<<300, 550>>>>))
Thermometer(p) ==
    LET fixture == [family |-> "analog_temperature_serial"] @@
                   On(p, [pins |-> [analog |-> "A0"], initial_value |-> 153],
                      [pins |-> [analog |-> "9"], initial_value |-> 153], [initial_value |-> 620])
        twice(a, b) == Positions(Early(p, 200, 700), <<<<a, 350>>, <<b, 350>>>>)
    IN (IF p = Z THEN Variants(<<[id |-> "rising"],
                                 [id |-> "falling", scenario |-> twice(300, 200),
                                  validator |-> [expected |-> <<490, 160>>]]>>, TRUE) ELSE <<>>) @@
       Stimulus(IF p = Z THEN twice(250, 400) ELSE twice(100, 150)) @@
       Case("tmp36_read", p, fixture, Early(p, 1200, 1700),
            Check("analog_temperature_serial",
                  [expected |-> On(p, <<0, 250>>, <<-170, -5>>, <<325, 820>>), tolerance |-> 60]))

OnDisplay(p, components) == Composed(LcdPins(p), Append(components, LcdPart(p)))
Reads(units) == Check("lcd_text", units)
Reaction(p) ==
    LET react(ms) == Moments(<<Wait(200), Set("btn1", 1), Wait(100), Set("btn1", 0), Wait(ms),
                               Set("shock1", 1), Wait(150)>>)
        between(low, high) == <<[low |-> low, high |-> high, unit |-> Glyph.ms, decimal |-> FALSE]>>
    IN Variants(<<[id |-> "quick"], [id |-> "slow", scenario |-> react(600),
                                     validator |-> [checks |-> <<[patterns |-> between(640, 849)]>>]]>>, FALSE) @@
       Stimulus(react(250)) @@
       Case("reaction_timer_display", p,
            OnDisplay(p, <<Comp("button", "btn1", ButtonPin(p)),
                           Comp("shock_sensor", "shock1", On(p, "3", "14", "P1.10"))>>), 1500,
            [family |-> "composite",
             checks |-> <<Reads([texts |-> <<<<Glyph.ms>>>>, patterns |-> between(Early(p, 300, 250), 449)])>>])
Bars(n) == [i \in 1..n |-> Bar]
WaterWords == <<Glyph.Water, Blank, Glyph.Level>>
WaterLevel(p) ==
    (IF p = Z
     THEN Variants(<<[id |-> "rising"],
                     [id |-> "falling", scenario |-> Positions(200, <<<<900, 450>>, <<150, 650>>>>),
                      validator |-> [frames |-> <<[texts |-> <<WaterWords, Bars(12)>>],
                                                  [texts |-> <<Bars(1)>>, bars |-> <<1, 4>>]>>]]>>, FALSE)
     ELSE <<>>) @@
    Stimulus(Positions(200, <<<<150, 450>>, <<900, 650>>>>)) @@
    Case("sensor_water_level_display", p,
         OnDisplay(p, <<On(p, Comp("water_level_surrogate", "pot1", "A2"), Comp("water_level_surrogate", "pot1", "9"),
                           [type |-> "water_level", id |-> "pot1", channel |-> 0, attrs |-> [position |-> 150]])>>),
         1800, Check("lcd_text_sequence", [frames |-> <<[texts |-> <<WaterWords>>],
                                                        [texts |-> <<Bars(IF p = Z THEN 12 ELSE 4)>>]>>]))
AskTemperature(p) ==
    LET degrees(low, high) == <<[low |-> low, high |-> high, unit |-> Glyph.F, decimal |-> p # E]>>
        attrs(n) == [pot1 |-> [value |-> n]]
    IN Variants(<<[id |-> "warm", attrs |-> attrs(IF p = Z THEN 928 ELSE 153)],
                  [id |-> "hot", attrs |-> attrs(IF p = Z THEN 1117 ELSE 184),
                   validator |-> [checks |-> <<[patterns |-> IF p = E THEN degrees(730, 739)
                                                             ELSE degrees(103, 105)]>>]]>>, FALSE) @@
       Stimulus(Presses(200, <<<<150, 800>>>>)) @@
       Case("tmp36_read_button_display", p,
            OnDisplay(p, <<Comp("button", "btn1", ButtonPin(p)),
                           On(p, [type |-> "tmp36_surrogate", id |-> "pot1", pin |-> "A0", initial_value |-> 153],
                              [type |-> "tmp36_surrogate", id |-> "pot1", pin |-> "9", initial_value |-> 614],
                              [type |-> "analog_source", id |-> "pot1", channel |-> 0, attrs |-> [value |-> 928]])>>),
            1800, [family |-> "composite",
                   checks |-> <<Reads([texts |-> <<<<Glyph.Temp>>>>,
                                       patterns |-> IF p = E THEN degrees(610, 619) ELSE degrees(76, 78)])>>])
HelloWorld(p) == Case("lcd1602_display_hello_world", p, OnDisplay(p, <<>>), 1600, Reads([texts |-> <<Greeting>>]))

-----------------------------------------------------------------------------
(* Chips, which Renode loads; accelerations are in thousandths of g.          *)

Chip(type, id, wires, attrs) == [type |-> type, id |-> id, pins |-> wires, attrs |-> attrs]
Ask(part, control, v) == [set_control |-> [part_id |-> part, control |-> control, value |-> v]]
PressFor100 == <<Set("btn1", 1), Wait(100), Set("btn1", 0)>>
Told(words, ranges) == [words |-> words, ranges |-> ranges]

Sonar ==
    LET at(d) == [sonar1 |-> [distance |-> d]]
        within(low, high) == [observations |-> <<Told(<<"Distance">>, <<<<low, high>>>>)>>]
    IN Variants(<<[id |-> "far", attrs |-> at(100), validator |-> within(95, 105)],
                  [id |-> "near", attrs |-> at(40), validator |-> within(35, 45)]>>, TRUE) @@
       Case("hcsr04_find_distance", Z,
            Composed(<<>>, <<Chip("hcsr04", "sonar1", [trig |-> "P1.11", echo |-> "P1.10"], [distance |-> 100])>>),
            1200, Check("serial_observation_sequence", within(95, 105)))

Climate(pin) == Chip("dht11", "dht1", [data |-> pin], [temperature |-> 24, humidity |-> 40])
Hygrometer ==
    LET told(t, h) == [observations |-> <<Told(<<"Temperature">>, <<<<t - 2, t + 2>>, <<h - 2, h + 2>>>>)>>] IN
    Variants(<<[id |-> "cool_dry"],
               [id |-> "warm_humid", attrs |-> [dht1 |-> [temperature |-> 30, humidity |-> 60]],
                validator |-> told(30, 60)]>>, TRUE) @@
    Case("dht11_read", Z, Composed(<<>>, <<Climate("P1.11")>>), 2200,
         Check("serial_observation_sequence", told(24, 40)))
HygrometerDisplay ==
    LET set(t, h) == <<Ask("dht1", "temperature", t), Ask("dht1", "humidity", h)>>
        story(t, h) == Moments(<<Wait(200)>> \o set(24, 40) \o <<Wait(300)>> \o PressFor100 \o <<Wait(700)>>
                               \o set(t, h) \o <<Wait(200)>> \o PressFor100 \o <<Wait(700)>>)
        shown(t, h) == [texts |-> <<<<Glyph.Temp>>, <<Glyph.RH>>>>,
                        patterns |-> <<[low |-> t, high |-> t, after |-> Glyph.Temp, unit |-> Glyph.C, decimal |-> TRUE],
                                       [low |-> h, high |-> h, after |-> Glyph.RH, unit |-> Glyph.percent,
                                        decimal |-> TRUE]>>]
        frames(t, h) == [frames |-> <<shown(24, 40), shown(t, h)>>]
    IN Variants(<<[id |-> "cool_dry_then_warm_humid"],
                  [id |-> "cool_dry_then_hot_sticky", scenario |-> story(35, 70), validator |-> frames(35, 70)]>>, FALSE) @@
       Stimulus(story(30, 60)) @@
       Case("dht11_read_button_display", Z,
            OnDisplay(Z, <<Comp("button", "btn1", "P1.11"), Climate("P1.10")>>), 3200,
            Check("lcd_text_sequence", frames(30, 60)))

HeatAlarm ==
    LET story(t) == Controls(<<<<"temp1", "temperature", 22, 450>>, <<"temp1", "temperature", t, 650>>>>)
        ratios(channel, later) ==
            Check("window_ratios", [channel |-> channel,
                                    windows |-> <<[start |-> 300, end |-> 550, ratio |-> <<0, 200>>],
                                                  [start |-> 850, end |-> 1150, ratio |-> later]>>])
    IN Variants(<<[id |-> "cold_then_hot"],
                  [id |-> "stays_cold", scenario |-> story(24),
                   validator |-> Both(ratios("D0", <<0, 200>>), ratios("D1", <<0, 200>>))]>>, FALSE) @@
       Stimulus(story(35)) @@
       Case("ds18b20_heat_alarm", Z,
            Composed(<<"P1.12", "P0.24">>,
                     <<Chip("ds18b20", "temp1", [data |-> "P1.11"], [temperature |-> 22]),
                       Comp("active_buzzer", "buzzer1", "P1.12"), Comp("led", "led1", "P0.24")>>), 1500,
            Both(ratios("D0", <<500, 1000>>), ratios("D1", <<200, 800>>)))

Imu == [type |-> "mpu6050", id |-> "imu1"]
Gravity(ms) == <<<<"imu1", "accelX", 0, 50>>, <<"imu1", "accelZ", 1000, ms>>>>
Jerk(x, r, ms) == Controls(Gravity(ms[1]) \o <<<<"imu1", "accelX", x, 50>>, <<"imu1", "rotationX", r, ms[2]>>>>)
Accelerometer ==
    LET told(x, r) == [observations |-> <<Told(<<"Accel", "Gyro">>, <<<<-800, 800>>, <<15500, 17300>>>>),
                                          Told(<<"Accel", "Gyro">>, <<x, r>>)>>]
        half == told(<<7300, 9100>>, <<3300, 4700>>)
    IN Variants(<<[id |-> "half_g", scenario |-> Jerk(500, 30, <<300, 500>>), validator |-> half],
                  [id |-> "one_and_half_g", scenario |-> Jerk(1500, 60, <<300, 500>>),
                   validator |-> told(<<23300, 25900>>, <<7000, 8700>>)]>>, TRUE) @@
       Case("mpu6050_read_i2c", Z, Composed(<<>>, <<Imu>>), 1600, Check("serial_observation_sequence", half))
ImuWords == [texts |-> <<<<Glyph.Accel>>, <<Glyph.Gyro>>>>]
Follows(word, low, high) == [low |-> low, high |-> high, after |-> word, decimal |-> FALSE]
ImuShown(x, r) ==
    [patterns |-> <<Follows(Glyph.Accel, x[1], x[2]), Follows(Glyph.Gyro, r[1], r[2])>>] @@ ImuWords
HalfG == ImuShown(<<8000, 8399>>, <<3800, 4099>>)
OneAndHalfG == ImuShown(<<24000, 25999>>, <<7500, 8199>>)
AccelerometerButton ==
    LET story(x, r) == Moments(<<Wait(200), Ask("imu1", "accelX", 0), Ask("imu1", "accelZ", 1000), Wait(300)>>
                               \o PressFor100 \o <<Wait(600), Ask("imu1", "accelX", x), Ask("imu1", "rotationX", r),
                                                    Wait(200)>> \o PressFor100 \o <<Wait(600)>>)
        rest == [patterns |-> <<Follows(Glyph.Accel, 0, 999)>>] @@ ImuWords
    IN Variants(<<[id |-> "half_g"], [id |-> "one_and_half_g", scenario |-> story(1500, 60),
                                      validator |-> [frames |-> <<rest, OneAndHalfG>>]]>>, FALSE) @@
       Stimulus(story(500, 30)) @@
       Case("mpu6050_read_button_display", Z, OnDisplay(Z, <<Comp("button", "btn1", "P1.11"), Imu>>), 2700,
            Check("lcd_text_sequence", [frames |-> <<rest, HalfG>>]))
AccelerometerPeriodic ==
    LET story(x, r) == Jerk(x, r, <<650, 1500>>) IN
    Variants(<<[id |-> "half_g"], [id |-> "one_and_half_g", scenario |-> story(1500, 60),
                                   validator |-> [frames |-> <<ImuWords, OneAndHalfG>>]]>>, FALSE) @@
    Stimulus(story(500, 30)) @@
    Case("mpu6050_read_periodic_display", Z, OnDisplay(Z, <<Imu>>), 2900,
         Check("lcd_text_sequence", [frames |-> <<ImuWords, HalfG>>]))
ChipTasks == <<Sonar, Hygrometer, HygrometerDisplay, HeatAlarm, Accelerometer, AccelerometerButton,
               AccelerometerPeriodic>>

Sensors == FlattenSeq([i \in 1..3 |->
               LET p == <<A, E, Z>>[i] IN
               <<Encoder(p), StepCounter(p), Thermometer(p), Reaction(p), WaterLevel(p), AskTemperature(p),
                 HelloWorld(p)>>]) \o <<Nightlight>>

-----------------------------------------------------------------------------
(* Tasks no file has: one press, at the edges of what the lint lets through.  *)

OnePress(p, timeout, s) ==
    Stimulus(s) @@ Case("button_status_count", p, SerialButton(p), timeout,
                        Check("serial_count_sequence", [expected_count |-> 1]))
Button(family, r) == [family |-> family, part_id |-> "btn1"] @@ r
Pressed(r) == Button("button_press_sequence", [presses |-> <<r>>])
Turn(v) == [part_id |-> "pot1"] @@ Button("analog_position_sequence", [positions |-> Values(<<<<v, 300>>>>)])
JustEnough(p) ==
    LET s == Presses(200, <<<<100, 300>>>>) IN
    <<OnePress(p, 599, s), OnePress(p, 600, s), OnePress(p, 601, s),
      OnePress(p, 500, Pressed([duration_ms |-> 100])),           \* initial_delay_ms and after_ms by default
      OnePress(p, 501, Pressed([duration_ms |-> 100])),
      OnePress(p, 551, Button("bounced_button_sequence",          \* final_delay_ms by default
                              [sequence |-> Values(<<<<1, 100>>, <<0, 1>>>>)])),
      Variants(<<[id |-> "long", scenario |-> Presses(200, <<<<100, 301>>>>)]>>, FALSE) @@ OnePress(p, 601, s)>>
Faulty(p) ==
    LET wrong(s) == OnePress(p, 2000, s)
        moved(part, control) == wrong(Controls(<<<<part, control, 1, 100>>>>))
        press == Pressed([duration_ms |-> 100])
    IN <<wrong(Pressed([after_ms |-> 100])), wrong(Pressed([duration_ms |-> 0])),
         wrong(Pressed([duration_ms |-> 100, value |-> 2])), wrong([press EXCEPT !.part_id = "btn2"]),
         wrong([press EXCEPT !.presses = <<>>]), wrong(Moments(<<Wait(0)>>)),
         wrong(Moments(<<Wait(10), [set_control |-> [part_id |-> "btn1", value |-> 1]]>>)),
         wrong(Button("bounced_button_sequence", [sequence |-> Values(<<<<1, 100>>>>)])),
         wrong([part_id |-> "pir1"] @@ Button("pir_state_sequence", [states |-> Values(<<<<1, 100>>>>)])),
         wrong(Turn(500)), wrong(Turn(1001)), moved("btn2", "pressed"), moved("btn1", "lux"),
         Variants(<<[id |-> "other", attrs |-> [pot1 |-> [value |-> 1]]]>>, FALSE) @@ wrong(press)>>
Probes == JustEnough(A) \o JustEnough(Z) \o Faulty(A) \o Faulty(Z) \o
          <<OnePress(Z, 1000301, Moments(<<Wait(200), Set("btn1", 1), Wait(100), Set("btn1", 0), Wait(1000000)>>)),
            [fixture |-> Composed(<<"P1.11">>, <<Comp("button", "btn1", "P1.11")>>)]
                @@ OnePress(Z, 2000, Pressed([duration_ms |-> 100])),
            [fixture |-> Composed(<<>>, <<Comp("button", "btn1", "2"), Comp("button", "btn1", "3")>>)]
                @@ OnePress(A, 2000, Pressed([duration_ms |-> 100]))>>

MCTasks == Lights \o Buttons \o Keys \o Sensors \o ChipTasks \o Probes
=============================================================================
