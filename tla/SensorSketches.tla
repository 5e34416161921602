----------------------------- MODULE SensorSketches -----------------------------
(* The reference firmware of the tasks with an encoder, an accelerometer, an  *)
(* analog sensor or two switches to time, with and without a display          *)
(* (bench/runner.py).  Accelerations are in thousandths of g, temperatures    *)
(* in tenths of a degree, samples in counts of the converter.                 *)
EXTENDS Board

LOCAL Bit(b) == IF b THEN 1 ELSE 0

(* Gray code: the quarter step from one state of the two lines to another.    *)
Quarter == <<<<0, -1, 1, 0>>, <<1, 0, 0, -1>>, <<-1, 0, 0, 1>>, <<0, 1, -1, 0>>>>
EncoderStateAt(clk, dt, t) == 2 * InAt(clk, t) + InAt(dt, t)
EncoderState(clk, dt) == EncoderStateAt(clk, dt, clock)
PositionLine(position, way) == Labelled(<<"Position", "Direction", way>>, position)

(* A detent is committed at the states of rest; the sum then starts again, always*)
(* at a resting state on Zephyr, only after a full detent elsewhere.          *)
DecodeStep(state, rests, forgets, ms) ==
    LET moved == state # mem.last
        sum == mem.state + IF moved THEN Quarter[mem.last + 1][state + 1] ELSE 0
        step == IF ~moved \/ state \notin rests THEN 0 ELSE IF sum >= 4 THEN 1 ELSE IF sum <= -4 THEN -1 ELSE 0
        position == mem.count + step
    IN Round([mem EXCEPT !.last = state, !.count = position,
                         !.state = IF step # 0 \/ (forgets /\ moved /\ state \in rests) THEN 0 ELSE sum],
             Nothing,
             CASE step = 1  -> <<PositionLine(position, "CW")>>
               [] step = -1 -> <<PositionLine(position, "CCW")>>
               [] OTHER     -> Nothing,
             Nothing, ms)
ZephyrRotaryEncoder  == DecodeStep(EncoderState("P1.11", "P1.12"), {3}, TRUE, 1)
EspRotaryEncoder     == DecodeStep(EncoderState("5", "6"), 0..3, FALSE, 2)
ArduinoRotaryEncoder == DecodeStep(EncoderState("2", "3"), 0..3, FALSE, Poll)

-----------------------------------------------------------------------------
(* Steps: a spike counts once, until the reading has settled again.           *)

CountStep(exchanged, spike, settled, words, ms) ==
    LET new == spike /\ mem.out = 0 IN
    RoundWith(exchanged,
              [mem EXCEPT !.out = IF new THEN 1 ELSE IF settled THEN 0 ELSE @,
                          !.count = IF new THEN @ + 1 ELSE @, !.since = IF new THEN clock ELSE @],
              Nothing, IF new THEN <<Labelled(words, mem.count + 1)>> ELSE Nothing, Nothing, ms)
LOCAL Az == SensorReading("imu1", "accelZ")
LOCAL Magnitude == IF Az < 0 THEN -Az ELSE Az       (* the other axes read 0  *)
EspStepCounter ==
    LET counts == (Magnitude * 16384) \div 1000 IN
    CountStep(chip, counts > 24000, counts < 20000, <<"Steps">>, 20)
ArduinoStepCounter ==
    CountStep(chip, Magnitude >= 1500 /\ clock - mem.since > 120, Magnitude <= 1200, <<"Steps">>, 20)

-----------------------------------------------------------------------------
(* Analog *)

ZephyrAdcThresholdOutput ==
    Round(mem, "P0.24" :> Bit(Sample > 2048), Nothing, Nothing, 20)

(* (volts - 0.5) * 100 with one decimal, as printf rounds it. *)
LOCAL Rounded(n, d) == (2 * n + d) \div (2 * d)
Celsius10(sample, tenthVolts, full) == Rounded(sample * tenthVolts * 100, full) - 500
PrintCelsius(tenthVolts, full) ==
    Round(mem, Nothing, <<Number(Celsius10(Sample, tenthVolts, full))>>, Nothing, 100)
ZephyrTmp36Read  == PrintCelsius(33, 4095)
EspTmp36Read     == PrintCelsius(33, 4095)
ArduinoTmp36Read == PrintCelsius(50, 1023)

LOCAL Screen(text) == Clear \o SetCursor(0, 0) \o Write(text)
LOCAL Repeat(c, n) == [i \in 1..n |-> c]

(* The bar is rewritten when its length changes; a trace of water is one bar. *)
ZephyrWaterLevelDisplay ==
    LET scaled == (Sample * 16) \div 4096
        bar == IF Sample > 0 /\ scaled = 0 THEN 1 ELSE scaled
        bytes == IF bar = mem.count THEN Nothing
                 ELSE SetCursor(0, 1) \o Write(Repeat(Bar, bar) \o Repeat(Blank, 16 - bar))
    IN Round([mem EXCEPT !.count = bar], Nothing, Nothing, bytes, 50 + Len(bytes) \div 2)
WaterScreen(bars) ==
    Round(mem, Nothing, Nothing,
          Screen(<<Glyph.Water, Blank, Glyph.Level>>) \o SetCursor(0, 1) \o Write(Repeat(Bar, bars)), 252)
EspWaterLevel     == WaterScreen((Sample * 8) \div 4095)
ArduinoWaterLevel == WaterScreen((Sample * 8) \div 1023)

-----------------------------------------------------------------------------
(* A button asks for the temperature.  The boards with an interrupt see an    *)
(* edge whenever it comes: the level has risen since the last round.          *)

RisenSince(pin, t) ==
    LET wave == bench.level[pin] IN
    \E i \in 2..Len(wave) : /\ t < wave[i].at /\ wave[i].at <= clock
                            /\ wave[i].v = 1 /\ wave[i - 1].v = 0
TempScreen(value, decimal) ==
    Screen(<<Glyph.Temp, Blank>> \o Numeral(value) \o decimal \o <<Blank, Glyph.F>>)
ZephyrTmp36ButtonDisplay ==
    LET asked == RisenSince("P1.11", mem.since)
        mv == (Sample * 3300) \div 4095
        f10 == ((mv - 500) * 9) \div 5 + 320
        bytes == IF asked THEN TempScreen(f10 \div 10, <<Glyph.dot, Digit(f10 % 10)>>) ELSE Nothing
    IN Round([mem EXCEPT !.since = clock], Nothing, Nothing, bytes, 5 + Len(bytes) \div 2)
EspTmp36Button ==
    Round(mem, Nothing, Nothing, IF In("12") = 1 THEN TempScreen(Sample, <<>>) ELSE Nothing, 20)
ArduinoTmp36Button ==
    LET asked == RisenSince("2", mem.since)
        fahrenheit == (Sample * 1800 - 115 * 1023) \div 2046
    IN Round([mem EXCEPT !.since = clock], Nothing, Nothing,
             IF asked THEN TempScreen(fahrenheit, <<>>) ELSE Nothing, IF asked THEN 252 ELSE Poll)

-----------------------------------------------------------------------------
(* From the start button to the shock.  Zephyr times one reaction and sleeps; *)
(* the others start over.                                                     *)

TimeScreen(words, ms) == Screen(words \o Numeral(ms) \o <<Blank, Glyph.ms>>)
ZephyrReactionTimer ==
    CASE mem.state = 0 /\ In("P1.11") = 1 -> Round([mem EXCEPT !.state = 1, !.since = clock],
                                                   Nothing, Nothing, Nothing, 0)
      [] mem.state = 1 /\ In("P1.10") = 1 -> LET bytes == TimeScreen(<<>>, clock - mem.since) IN
                                             Round([mem EXCEPT !.state = 2], Nothing, Nothing, bytes,
                                                   Len(bytes) \div 2)
      [] mem.state = 2 -> Round(mem, Nothing, Nothing, Nothing, 1000)
      [] OTHER -> Round(mem, Nothing, Nothing, Nothing, 1)
TimeReaction(start, shock, ms) ==
    LET begins == In(start) = 1 /\ mem.state = 0
        since == IF begins THEN clock ELSE mem.since
        ends == (begins \/ mem.state = 1) /\ In(shock) = 1
    IN Round([mem EXCEPT !.since = since, !.state = IF ends THEN 0 ELSE IF begins THEN 1 ELSE @],
             Nothing, Nothing,
             IF ends THEN TimeScreen(<<Glyph.Time, Blank>>, clock - since) ELSE Nothing, ms)
EspReactionTimer     == TimeReaction("12", "14", 5)
ArduinoReactionTimer == TimeReaction("2", "3", 10)

(* Hello World: once before the loop, or again every quarter of a second.     *)
Greeting == <<Glyph.Hello, Blank, Glyph.World>>
IdleLoop == Round(mem, Nothing, Nothing, Nothing, 1000)
ZephyrLcdHello == IdleLoop
EspLcdHello == IdleLoop
ArduinoLcdHello == Round(mem, Nothing, Nothing, Screen(Greeting) \o SetCursor(0, 1), 250)
=============================================================================
