----------------------------- MODULE TimedSketches -----------------------------
(* The reference firmware of the tasks without inputs: blinking and Morse     *)
(* code, with blocking waits, with timestamps, and with a timer callback.     *)
EXTENDS Board

ToggleThenSleep(led, ms) ==
    Round([mem EXCEPT !.out = 1 - @], led :> 1 - mem.out, Nothing, Nothing, ms)
ZephyrBlink1Hz == ToggleThenSleep(FixturePinOf("led"), 500)
EspBlink1Hz    == ToggleThenSleep(FixturePinOf("led"), 500)

(* A timestamp moves by the period, not to the present, so lateness does not  *)
(* accumulate.                                                                *)
ToggleWhenDue(led, half) ==
    IF clock - mem.since >= half
    THEN Round([mem EXCEPT !.out = 1 - @, !.since = @ + half], led :> 1 - mem.out,
               Nothing, Nothing, Poll)
    ELSE Round(mem, Nothing, Nothing, Nothing, Poll)
ArduinoBlink1Hz   == ToggleWhenDue(FixturePinOf("led"), 500)
ZephyrBlinkNoDelay == ToggleWhenDue(FixturePinOf("led"), 500)

(* An esp_timer calls back after each half period. *)
EspBlinkNoDelay ==
    IF mem.state = 0 THEN Round([mem EXCEPT !.state = 1], Nothing, Nothing, Nothing, 500)
    ELSE ToggleThenSleep(FixturePinOf("led"), 500)

BlinkTwoLeds(led1, led2) ==
    LET first == clock - mem.since >= 500
        second == clock - mem.mark >= 250
    IN Round([mem EXCEPT !.out = IF first THEN 1 - @ ELSE @, !.since = IF first THEN @ + 500 ELSE @,
                         !.state = IF second THEN 1 - @ ELSE @,
                         !.mark = IF second THEN @ + 250 ELSE @],
             (IF first THEN led1 :> 1 - mem.out ELSE Nothing)
             @@ (IF second THEN led2 :> 1 - mem.state ELSE Nothing), Nothing, Nothing, Poll)
LOCAL LedPin(name) == FixturePin(Task, name, "")
ZephyrBlinkTwoLeds  == BlinkTwoLeds(LedPin("led1"), LedPin("led2"))
EspBlinkTwoLeds     == BlinkTwoLeds(LedPin("led1"), LedPin("led2"))
ArduinoBlinkTwoLeds == BlinkTwoLeds("2", "3")

(* SOS: nine marks, eight gaps, and a pause; one segment per round.           *)
Pattern == <<1, 1, 1, 3, 3, 3, 1, 1, 1>>
SegmentUnits(k) == IF k % 2 = 0 THEN Pattern[k \div 2 + 1]
                   ELSE IF k = 17 THEN 7
                   ELSE IF k \div 2 \in {2, 5} THEN 3 ELSE 1
MorseSos(led) ==
    Round([mem EXCEPT !.state = (@ + 1) % 18], led :> 1 - (mem.state % 2), Nothing, Nothing,
          200 * SegmentUnits(mem.state))
ZephyrMorseSos == MorseSos(FixturePinOf("led"))
EspMorseSos    == MorseSos(FixturePinOf("led"))
=============================================================================
