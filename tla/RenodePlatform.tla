---------------------------- MODULE RenodePlatform ----------------------------
(* The bench under Renode (bench/renode.py): the parts a fixture provides,    *)
(* the GPIO routes of the platform description, the monitor command that a    *)
(* control becomes, and what a pin then reads.                                *)
EXTENDS Wiring, Chips

ReservedPartIds ==
    {"cpu", "nvic", "clock", "flash", "ram", "ppi", "gpiote", "gpio0", "gpio1", "uart0", "uart1",
     "twi0", "twi1", "spi2", "rtc0", "rtc1", "rtc2", "timer0", "timer1", "timer2", "timer3", "timer4",
     "wdt", "rng", "radio", "ficr", "temperature", "ecb", "sysbus", "i2s", "saadc0", "keypad0"}

(* A GPIO pin is written P<port>.<index>, in either case, or as a bare index  *)
(* of port 0; <<port, index>> is what all spellings of a pin come to.         *)
Spellings(port, index) ==
    LET digits == {ToString(index)} \cup (IF index < 10 THEN {"0" \o ToString(index)} ELSE {}) IN
    UNION {{"P" \o ToString(port) \o "." \o n, "p" \o ToString(port) \o "." \o n} : n \in digits}
    \cup (IF port = 0 THEN digits ELSE {})
IsGpioPin(text) == \E port \in 0..1, index \in 0..99 : text \in Spellings(port, index)
ParseGpioPin(text) == CHOOSE p \in (0..1) \X (0..99) : text \in Spellings(p[1], p[2])

PeripheralControls ==
    LET imu == {"accelX", "accelY", "accelZ", "rotationX", "rotationY", "rotationZ", "temperature"} IN
    [button |-> {"pressed"}, digital_pullup |-> {"pressed"}, matrix_key |-> {"pressed"},
     hcsr04 |-> {"distance"}, dht11 |-> {"temperature", "humidity"}, ds18b20 |-> {"temperature"},
     lsm9ds1 |-> imu, ds1307 |-> {"initTime"}, bme280 |-> {"temperatureC", "humidityRH"},
     bme280_spi |-> {"temperatureC", "humidityRH"}, mpu6050 |-> imu,
     analog_source |-> {"position", "value"}]

SensorTypes == {"lsm9ds1", "ds1307", "bme280", "bme280_spi", "mpu6050"}
AnalogTypes == {"analog_source", "photoresistor", "potentiometer", "water_level", "joystick_axis"}
OutputTypes == {"led", "buzzer", "active_buzzer", "lcd1602", "relay"}
SwitchTypes == {"button", "wokwi-pushbutton", "digital_pullup", "pir", "shock_sensor"}

NoAttrs == [unused |-> 0]
LOCAL Attrs(c) == IF Has(c, "attrs") THEN c.attrs ELSE NoAttrs
LOCAL AttrNames(c) == DOMAIN Attrs(c) \ {"unused"}
RenodeButton(id, pin, type) == [type |-> type, id |-> id, pins |-> <<ParseGpioPin(pin)>>]
SignalPin(c) == PinOf(c, "signal", "")

(* One part per component; outputs are watched by probes and have no part.    *)
(* An analog source without a channel gets the one after the highest so far.  *)
RenodePart(c, used) ==
    CASE c.type \in SwitchTypes ->
            RenodeButton(c.id, SignalPin(c),
                         IF c.type = "digital_pullup" THEN "digital_pullup" ELSE "button")
      [] c.type = "matrix_key" ->
            [type |-> "matrix_key", id |-> c.id,
             pins |-> <<ParseGpioPin(c.pins.row), ParseGpioPin(c.pins.col)>>]
      [] c.type \in {"dht11", "ds18b20"} ->
            [type |-> c.type, id |-> c.id, pins |-> <<ParseGpioPin(c.pins.data)>>]
      [] c.type \in SensorTypes -> [type |-> c.type, id |-> c.id, pins |-> <<>>]
      [] c.type = "hcsr04" ->
            [type |-> "hcsr04", id |-> c.id,
             pins |-> <<ParseGpioPin(c.pins.trig), ParseGpioPin(c.pins.echo)>>]
      [] c.type \in AnalogTypes ->
            [type |-> "analog_source", id |-> c.id, pins |-> <<>>, channel |-> Get(c, "channel", used)]

RenodeParts(task) ==
    LET family == task.fixture.family
        default == Profile(task).default_pins
        larger(a, b) == IF a > b THEN a ELSE b
        add(acc, c) ==
            IF c.type \in OutputTypes THEN acc
            ELSE LET p == RenodePart(c, acc.used) IN
                 [parts |-> Append(acc.parts, p),
                  used |-> IF p.type = "analog_source" THEN larger(acc.used, p.channel + 1)
                           ELSE acc.used]
    IN CASE family \in {"button_serial", "button_to_buzzer"} ->
              <<RenodeButton("btn1", FixturePin(task, "button", default.button), "button")>>
         [] family = "pir_serial" ->
              <<RenodeButton("pir1", FixturePin(task, "pir", FixturePin(task, "button", default.pir)),
                             "button")>>
         [] family = "composite" ->
              FoldLeft(add, [parts |-> <<>>, used |-> 0], Components(task)).parts
         [] family = "analog_temperature_serial" ->
              <<[type |-> "analog_source", id |-> "pot1", pins |-> <<>>, channel |-> 0]>>
         [] family \in {"single_led_output", "dual_led_output"} -> <<>>

(* Why a component is refused before any of this: no model, no pin, an id of  *)
(* the platform's own, a control or a channel the model does not have.        *)
ComponentAccepted(c) ==
    \/ c.type \in OutputTypes
    \/ /\ c.id \notin ReservedPartIds
       /\ \/ c.type \in SwitchTypes /\ SignalPin(c) # "" /\ IsGpioPin(SignalPin(c))
          \/ c.type = "matrix_key" /\ {"row", "col"} \subseteq DOMAIN Pins(c)
          \/ /\ c.type \in {"dht11", "ds18b20"} /\ "data" \in DOMAIN Pins(c)
             /\ AttrNames(c) \subseteq PeripheralControls[c.type]
          \/ c.type \in SensorTypes /\ AttrNames(c) \subseteq PeripheralControls[c.type]
          \/ /\ c.type = "hcsr04" /\ {"trig", "echo"} \subseteq DOMAIN Pins(c)
             /\ AttrNames(c) \subseteq PeripheralControls.hcsr04
          \/ c.type \in AnalogTypes /\ AttrNames(c) \subseteq PeripheralControls.analog_source

(* Rows and columns are numbered in the order the fixture first names them.   *)
LOCAL Include(s, x) == IF x \in ToSet(s) THEN s ELSE Append(s, x)
KeypadLayout(parts) ==
    LET keys == SelectSeq(parts, LAMBDA p : p.type = "matrix_key")
        add(acc, p) == [rows |-> Include(acc.rows, p.pins[1]), cols |-> Include(acc.cols, p.pins[2])]
    IN FoldLeft(add, [rows |-> <<>>, cols |-> <<>>], keys)

PartOf(parts, id) == CHOOSE p \in ToSet(parts) : p.id = id
RenodePartsAccepted(task) ==
    /\ task.fixture.family = "composite" => \A c \in ToSet(Components(task)) : ComponentAccepted(c)
    /\ LET parts == RenodeParts(task)
           keypad == KeypadLayout(parts)
       IN /\ Len(keypad.rows) <= 4 /\ Len(keypad.cols) <= 4
          /\ \A p \in ToSet(parts) : p.type = "analog_source" => p.channel \in 0..7

-----------------------------------------------------------------------------
(* Controls as monitor commands *)

AnalogRawCount(task, control, value) ==
    IF control = "position" THEN HalfEven(value * Profile(task).adc_max, 1000) ELSE value
TruthyControl(value) == value # 0

Command(to, op, args) == [kind |-> "command", to |-> to, op |-> op, args |-> args]
LOCAL IndexIn(s, x) == CHOOSE i \in DOMAIN s : s[i] = x

ControlSetCommand(task, p, control, value) ==
    CASE p.type \in {"button", "digital_pullup"} ->
            Command(p.id, IF TruthyControl(value) THEN "Press" ELSE "Release", <<>>)
      [] p.type = "matrix_key" ->
            LET keypad == KeypadLayout(RenodeParts(task)) IN
            Command("keypad0", IF TruthyControl(value) THEN "PressKey" ELSE "ReleaseKey",
                    <<IndexIn(keypad.rows, p.pins[1]), IndexIn(keypad.cols, p.pins[2])>>)
      [] p.type = "analog_source" ->
            Command("saadc0", "ChannelValue", <<p.channel, AnalogRawCount(task, control, value)>>)
      [] OTHER -> Command(p.id, control, <<value>>)

ControlAccepted(task, p, control, value) ==
    /\ control \in PeripheralControls[p.type]
    /\ p.type = "analog_source" => AnalogRawCount(task, control, value) \in 0..Profile(task).adc_max

(* The attributes of a component, those of the variant over them, are set     *)
(* before the simulation starts.                                              *)
PartAttrs(task, variantAttrs) ==
    LET own(p) ==
            IF task.fixture.family = "analog_temperature_serial"
            THEN [value |-> Get(task.fixture, "initial_value", 153)]
            ELSE IF task.fixture.family # "composite" THEN NoAttrs
            ELSE Attrs(CHOOSE c \in ToSet(Components(task)) : c.id = p.id)
        merged(p) == Get(variantAttrs, p.id, NoAttrs) @@ own(p)
    IN UNION {{<<p, control, merged(p)[control]>> : control \in DOMAIN merged(p) \ {"unused"}} :
                 p \in ToSet(RenodeParts(task))}

(* The monitor script with every control as its command.                      *)
RenodeScript(task, steps) ==
    LET parts == RenodeParts(task)
        script == GenerateResc(steps, task.timeout)
    IN [i \in DOMAIN script |->
          IF script[i].kind = "run" THEN script[i]
          ELSE ControlSetCommand(task, PartOf(parts, script[i].part), script[i].control,
                                 script[i].value)]

-----------------------------------------------------------------------------
(* The platform description *)

ProbePins(task) == [i \in DOMAIN Channels(task) |-> ParseGpioPin(Channels(task)[i].pin)]

ReplAccepted(task) ==
    LET probes == ProbePins(task) IN
    /\ \A i, j \in DOMAIN probes : probes[i] = probes[j] => i = j
    /\ \A p \in ToSet(RenodeParts(task)) : ToSet(p.pins) \cap ToSet(probes) = {}

(* Which pin a part drives; the probes, the rows and columns of the keypad and*)
(* the pins that lead to a chip are found by their own tables.                *)
Routes(task) ==
    LET of(types) == {p \in ToSet(RenodeParts(task)) : p.type \in types} IN
    {<<p.id, p.pins[1]>> : p \in of({"button", "digital_pullup", "dht11", "ds18b20"})}
    \cup {<<p.id, p.pins[2]>> : p \in of({"hcsr04"})}

RescAccepted(task, s) ==
    LET parts == RenodeParts(task)
        steps == GenerateScenario(s)
        sets == {x \in ToSet(steps) : x.kind = "set"}
    IN /\ ~RescRefused(steps, {p.id : p \in ToSet(parts)}, task.timeout)
       /\ \A x \in sets : ControlAccepted(task, PartOf(parts, x.part), x.control, x.value)

(* validate_renode_case: platform, then the scenario, then every variant.     *)
RenodeCaseAccepted(task) ==
    /\ RenodePartsAccepted(task)
    /\ ReplAccepted(task)
    /\ \A s \in AllScenarios(task) : RescAccepted(task, s)
    /\ \A v \in ToSet(task.variants) : Has(v, "attrs") =>
          /\ DOMAIN v.attrs \subseteq {p.id : p \in ToSet(RenodeParts(task))}
          /\ \A a \in PartAttrs(task, v.attrs) :
                ControlAccepted(task, a[1], a[2], a[3])

-----------------------------------------------------------------------------
(* What Renode makes of the script: a Button drives its pin when pressed, LOW *)
(* if it is inverted, and the opposite when released; the keypad joins a row  *)
(* and a column; a channel of the converter keeps the count it was given.     *)

InitialCommands(task, variantAttrs) ==
    {[at |-> 0, to |-> c.to, op |-> c.op, args |-> c.args] :
        c \in {ControlSetCommand(task, a[1], a[2], a[3]) : a \in PartAttrs(task, variantAttrs)}}

(* A chip starts with its own values, where the task gives none.              *)
ChipCommands(task, variantAttrs) ==
    LET given == InitialCommands(task, variantAttrs)
        own == UNION {{[at |-> 0, to |-> p.id, op |-> c, args |-> <<PowerOn[p.type][c]>>] :
                          c \in DOMAIN PowerOn[p.type]} :
                      p \in {x \in ToSet(RenodeParts(task)) : x.type \in ChipTypes}}
    IN given \cup {o \in own : ~\E g \in given : g.to = o.to /\ g.op = o.op}

LOCAL Before(drives, to, t) == {d \in ToSet(drives) : d.to = to /\ d.at <= t}
LOCAL LastOf(drives, to, ops, args, t) ==
    LET ds == {i \in DOMAIN drives : /\ drives[i].to = to /\ drives[i].at <= t
                                     /\ drives[i].op \in ops /\ drives[i].args = args}
    IN IF ds = {} THEN "none" ELSE drives[CHOOSE i \in ds : \A j \in ds : j <= i].op
ButtonHeld(drives, id, t) == LastOf(drives, id, {"Press", "Release"}, <<>>, t) = "Press"
KeysHeld(drives, t) ==
    {k \in {d.args : d \in Before(drives, "keypad0", t)} :
        LastOf(drives, "keypad0", {"PressKey", "ReleaseKey"}, k, t) = "PressKey"}

RenodePinLevel(task, pin, drives, t) ==
    LET p == CHOOSE x \in ToSet(RenodeParts(task)) : <<x.id, ParseGpioPin(pin)>> \in Routes(task) IN
    IF ButtonHeld(drives, p.id, t) = (p.type = "digital_pullup") THEN 0 ELSE 1

(* The last value given to a property, or to a channel, before or at t.       *)
RenodeValue(task, drives, initial, to, op, key, t) ==
    LET seen == {i \in DOMAIN drives : /\ drives[i].to = to /\ drives[i].op = op
                                       /\ drives[i].at <= t
                                       /\ SubSeq(drives[i].args, 1, Len(key)) = key}
        first == {d \in initial : d.to = to /\ d.op = op /\ SubSeq(d.args, 1, Len(key)) = key}
    IN IF seen # {} THEN Last(drives[CHOOSE i \in seen : \A j \in seen : j <= i].args)
       ELSE IF first # {} THEN Last((CHOOSE d \in first : TRUE).args) ELSE 0
=============================================================================
