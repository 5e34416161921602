-------------------------------- MODULE Wiring --------------------------------
(* The bench of a task.  From the fixture of the task file bench/diagrams.py  *)
(* draws a Wokwi diagram (parts, and wires between endpoints) and checks it;  *)
(* bench/renode.py makes the Renode platform: parts, GPIO routes and monitor  *)
(* commands.  Layout, colours and other cosmetic attributes are left out.     *)
(* A fixture has the fields of the task file; a pin is named as written there.*)
EXTENDS Scenarios

Profiles ==
    [arduino_mega     |-> [board_type |-> "wokwi-arduino-mega", part_id |-> "mega",
                           power_pin |-> "5V", ground_pin |-> "GND.1",
                           serial_interface |-> "", backend |-> "wokwi", adc_max |-> 1023,
                           default_pins |-> [led |-> "3", button |-> "2", analog |-> "A0"]],
     esp32s3_espidf   |-> [board_type |-> "board-esp32-s3-devkitc-1", part_id |-> "esp",
                           power_pin |-> "3V3.1", ground_pin |-> "GND.1",
                           serial_interface |-> "USB_SERIAL_JTAG", backend |-> "wokwi",
                           adc_max |-> 4095,
                           default_pins |-> [led |-> "10", button |-> "12", pir |-> "14",
                                             buzzer |-> "13", analog |-> "9"]],
     zephyr_nano33ble |-> [board_type |-> "renode-arduino-nano-33-ble", part_id |-> "nano33",
                           power_pin |-> "3V3", ground_pin |-> "GND.1",
                           serial_interface |-> "", backend |-> "renode", adc_max |-> 4095,
                           default_pins |-> [led |-> "P0.24", button |-> "P1.11", pir |-> "P1.15",
                                             buzzer |-> "P1.12", analog |-> "P0.04"]]]
Profile(task) == Profiles[task.platform]

Part(type, id) == [type |-> type, id |-> id, attrs |-> {}]
Wire(a, pin_a, b, pin_b) == <<<<a, pin_a>>, <<b, pin_b>>>>
ToGround(id, pin) == Wire(id, pin, "mega", "GND.1")
ToPower(id, pin) == Wire(id, pin, "mega", "5V")
Supply(id) == {ToPower(id, "VCC"), ToGround(id, "GND")}
Piece(parts, wires) == [parts |-> parts, wires |-> wires]
Joined(pieces) == Piece(FlattenSeq([i \in DOMAIN pieces |-> pieces[i].parts]),
                        UNION {pieces[i].wires : i \in DOMAIN pieces})

Pins(c) == IF Has(c, "pins") THEN c.pins ELSE [unused |-> ""]
PinOf(c, name, default) == IF Has(c, "pin") THEN c.pin ELSE Get(Pins(c), name, default)
Numbered(prefix, i) == prefix \o ToString(i)
IdOf(c, i) == Get(c, "id", Numbered(c.type, i))
(* The wires of the pins the component names; pins it does not name stay open *)
NamedWires(id, c, table) ==
    {Wire(id, table[n], "mega", c.pins[n]) : n \in DOMAIN table \cap DOMAIN Pins(c)}

-----------------------------------------------------------------------------
(* Components of a composite fixture *)

ActiveHighButton(id, resistor, pin) ==
    {ToPower(id, "1.r"), Wire(id, "2.r", "mega", pin),
     Wire(resistor, "1", "mega", pin), ToGround(resistor, "2")}
(* Mutant: the resistor of a button to ground pulls to ground as well. *)
ActiveLowButton_PullsDown(id, resistor, pin) ==
    {ToGround(id, "1.r"), Wire(id, "2.r", "mega", pin),
     Wire(resistor, "1", "mega", pin), ToGround(resistor, "2")}
ActiveLowButton(id, resistor, pin) ==
    {ToGround(id, "1.r"), Wire(id, "2.r", "mega", pin),
     Wire(resistor, "1", "mega", pin), ToPower(resistor, "2")}

Led(id, resistor, pin) ==
    Piece(<<Part("wokwi-resistor", resistor), Part("wokwi-led", id)>>,
          {ToGround(id, "C"), Wire(resistor, "1", id, "A"), Wire("mega", pin, resistor, "2")})
LedComponent(c, i) ==
    Led(IdOf(c, i), Get(c, "resistor_id", Numbered("r_led_", i)), PinOf(c, "signal", "3"))

Buzzer(id, pin) ==
    Piece(<<Part("wokwi-buzzer", id)>>, {ToGround(id, "1"), Wire(id, "2", "mega", pin)})
BuzzerComponent(c, i) == Buzzer(IdOf(c, i), PinOf(c, "signal", "3"))

RelayComponent(c, i) ==
    LET id == IdOf(c, i) IN
    Piece(<<Part("wokwi-relay-module", id)>>,
          Supply(id) \cup {Wire(id, "IN", "mega", PinOf(c, "in", "2"))})

ButtonKinds == {"button", "digital_input", "tilt_switch", "sound_sensor", "shock_sensor",
                "pir_surrogate"}
ButtonComponent(c, i) ==
    LET id == IdOf(c, i)
        resistor == Get(c, "resistor_id", Numbered("r_btn_", i))
        pin == PinOf(c, "signal", "2")
    IN Piece(<<Part("wokwi-pushbutton", id), Part("wokwi-resistor", resistor)>>,
             IF Get(c, "active_low", FALSE) THEN ActiveLowButton(id, resistor, pin)
             ELSE ActiveHighButton(id, resistor, pin))

PullupComponent(c, i) ==
    LET id == IdOf(c, i)
        resistor == Get(c, "resistor_id", Numbered("r_src_", i))
    IN Piece(<<Part("wokwi-pushbutton", id), Part("wokwi-resistor", resistor)>>,
             ActiveLowButton(id, resistor, PinOf(c, "signal", "2")))

MatrixKeyComponent(c, i) ==
    LET id == IdOf(c, i) IN
    Piece(<<Part("wokwi-pushbutton", id)>>,
          {Wire(id, "1.r", "mega", Get(c, "row", c.pins.row)),
           Wire(id, "2.r", "mega", Get(c, "col", c.pins.col))})

AnalogKinds == {"analog_source", "tmp36_surrogate", "photoresistor_surrogate",
                "water_level_surrogate", "joystick_surrogate"}
Potentiometer(id, pin) ==
    Piece(<<Part("wokwi-potentiometer", id)>>, Supply(id) \cup {Wire(id, "SIG", "mega", pin)})
AnalogComponent(c, i) == Potentiometer(IdOf(c, i), PinOf(c, "signal", "A0"))

PhotoresistorComponent(c, i) ==
    LET id == IdOf(c, i) IN
    Piece(<<Part("wokwi-photoresistor-sensor", id)>>,
          Supply(id) \cup {Wire(id, "AO", "mega", PinOf(c, "ao", "A0"))})

JoystickComponent(c, i) ==
    LET id == IdOf(c, i)
        vert == PinOf(c, "vert", Get(Pins(c), "y", "A0"))
        first(a, b) == IF Has(Pins(c), a) THEN {Pins(c)[a]}
                       ELSE IF Has(Pins(c), b) THEN {Pins(c)[b]} ELSE {}
    IN Piece(<<Part("wokwi-analog-joystick", id)>>,
             Supply(id) \cup {Wire(id, "VERT", "mega", vert)}
             \cup {Wire(id, "HORZ", "mega", p) : p \in first("horz", "x")}
             \cup {Wire(id, "SEL", "mega", p) : p \in first("sel", "button")})

EncoderComponent(c, i) ==
    LET id == IdOf(c, i) IN
    Piece(<<Part("wokwi-ky-040", id)>>,
          Supply(id) \cup NamedWires(id, c, [clk |-> "CLK", dt |-> "DT", sw |-> "SW"]))

KeypadComponent(c, i) ==
    LET id == IdOf(c, i) IN
    Piece(<<Part("wokwi-membrane-keypad", id)>>,
          NamedWires(id, c, [r1 |-> "R1", r2 |-> "R2", r3 |-> "R3", r4 |-> "R4",
                             c1 |-> "C1", c2 |-> "C2", c3 |-> "C3", c4 |-> "C4"]))

LcdComponent(c, i) ==
    LET id == IdOf(c, i) IN
    Piece(<<Part("wokwi-lcd1602", id)>>,
          {ToGround(id, "VSS"), ToPower(id, "VDD"), ToGround(id, "RW"), ToGround(id, "K")}
          \cup NamedWires(id, c, [rs |-> "RS", e |-> "E", d4 |-> "D4", d5 |-> "D5", d6 |-> "D6",
                                  d7 |-> "D7", a |-> "A"])
          \cup IF Has(Pins(c), "a") THEN {} ELSE {ToPower(id, "A")})

DhtComponent(c, i) ==
    LET id == IdOf(c, i) IN
    Piece(<<Part("wokwi-dht22", id)>>,
          Supply(id) \cup {Wire(id, "SDA", "mega", PinOf(c, "data", "14"))})

I2cComponent(c, i) ==
    LET id == IdOf(c, i)
        type == [ds1307 |-> "wokwi-ds1307", mpu6050 |-> "wokwi-mpu6050",
                 bme280_i2c |-> "chip-bme280"][c.type]
    IN Piece(<<Part(type, id)>>,
             Supply(id) \cup {Wire(id, "SDA", "mega", Get(Pins(c), "sda", "20")),
                              Wire(id, "SCL", "mega", Get(Pins(c), "scl", "21"))})

SpiComponent(c, i, type) ==
    LET id == IdOf(c, i) IN
    Piece(<<Part(type, id)>>,
          Supply(id) \cup NamedWires(id, c, [sck |-> "SCK", miso |-> "SDO", mosi |-> "SDI",
                                             cs |-> "CS"]))

SonarComponent(c, i) ==
    LET id == IdOf(c, i) IN
    Piece(<<Part("wokwi-hc-sr04", id)>>,
          Supply(id) \cup {Wire(id, "TRIG", "mega", Get(Pins(c), "trig", "9")),
                           Wire(id, "ECHO", "mega", Get(Pins(c), "echo", "10"))})

ThermometerComponent(c, i) ==
    LET id == IdOf(c, i) IN
    Piece(<<Part("wokwi-ds18b20", id)>>,
          Supply(id) \cup {Wire(id, "DQ", "mega", Get(Pins(c), "data", "4"))})

LaserComponent(c, i) ==
    LET id == IdOf(c, i) IN
    Piece(<<Part("wokwi-led", id)>>,
          {ToGround(id, "C"), Wire(id, "A", "mega", PinOf(c, "signal", "8"))})

KnownKinds == {"led", "active_buzzer", "passive_buzzer", "buzzer", "relay", "digital_pullup",
               "matrix_key", "photoresistor", "joystick", "rotary_encoder", "keypad4x4", "lcd1602",
               "dht11", "dht22", "ds1307", "mpu6050", "bme280_i2c", "bme280_spi", "mpu6050_spi",
               "hcsr04", "ds18b20", "laser"} \cup ButtonKinds \cup AnalogKinds

AddComponent(c, i) ==
    CASE c.type = "led"            -> LedComponent(c, i)
      [] c.type \in {"active_buzzer", "passive_buzzer", "buzzer"} -> BuzzerComponent(c, i)
      [] c.type = "relay"          -> RelayComponent(c, i)
      [] c.type \in ButtonKinds    -> ButtonComponent(c, i)
      [] c.type = "digital_pullup" -> PullupComponent(c, i)
      [] c.type = "matrix_key"     -> MatrixKeyComponent(c, i)
      [] c.type \in AnalogKinds    -> AnalogComponent(c, i)
      [] c.type = "photoresistor"  -> PhotoresistorComponent(c, i)
      [] c.type = "joystick"       -> JoystickComponent(c, i)
      [] c.type = "rotary_encoder" -> EncoderComponent(c, i)
      [] c.type = "keypad4x4"      -> KeypadComponent(c, i)
      [] c.type = "lcd1602"        -> LcdComponent(c, i)
      [] c.type \in {"dht11", "dht22"} -> DhtComponent(c, i)
      [] c.type \in {"ds1307", "mpu6050", "bme280_i2c"} -> I2cComponent(c, i)
      [] c.type = "bme280_spi"     -> SpiComponent(c, i, "chip-bme280")
      [] c.type = "mpu6050_spi"    -> SpiComponent(c, i, "chip-mpu6050")
      [] c.type = "hcsr04"         -> SonarComponent(c, i)
      [] c.type = "ds18b20"        -> ThermometerComponent(c, i)
      [] c.type = "laser"          -> LaserComponent(c, i)

-----------------------------------------------------------------------------
(* Fixture families *)

Channels(task) == Get(task.fixture, "channels", <<>>)
FixturePin(task, name, default) == Get(Get(task.fixture, "pins", [unused |-> ""]), name, default)

UsesActiveLowButton(task) ==
    Get(task.fixture, "active_low", FALSE) \/ task.platform = "esp32s3_espidf"
PushButton(task, resistor, pin) ==
    Piece(<<Part("wokwi-pushbutton", "btn1"), Part("wokwi-resistor", resistor)>>,
          IF UsesActiveLowButton(task) THEN ActiveLowButton("btn1", resistor, pin)
          ELSE ActiveHighButton("btn1", resistor, pin))

Base == Piece(<<Part("wokwi-arduino-mega", "mega")>>, {})
LogicAnalyzer == Piece(<<Part("wokwi-logic-analyzer", "logic1")>>, {ToGround("logic1", "GND")})
AnalyzerWires(task) ==
    Piece(<<>>, {Wire("logic1", ch.signal, "mega", ch.pin) : ch \in ToSet(Channels(task))})

SingleLed(task) ==
    <<Led("led1", "r1", FixturePin(task, "led", "3")), LogicAnalyzer, AnalyzerWires(task)>>
DualLed(task) ==
    <<Led("led1", "r1", FixturePin(task, "led1", "2")), Led("led2", "r2", FixturePin(task, "led2", "3")),
      LogicAnalyzer, AnalyzerWires(task)>>
ButtonToBuzzer(task) ==
    <<PushButton(task, "r1", FixturePin(task, "button", "2")),
      Buzzer("buzzer1", FixturePin(task, "buzzer", "13")), LogicAnalyzer, AnalyzerWires(task)>>
ButtonSerial(task) == <<PushButton(task, "r1", FixturePin(task, "button", "2"))>>
PirSerial(task) ==
    <<Piece(<<Part("wokwi-pushbutton", "pir1"), Part("wokwi-resistor", "r1")>>,
            ActiveHighButton("pir1", "r1", FixturePin(task, "pir", "4")))>>
AnalogTemperature(task) == <<Potentiometer("pot1", FixturePin(task, "analog", "A0"))>>
Components(task) == Get(task.fixture, "components", <<>>)
Composite(task) ==
    (IF Channels(task) = <<>> THEN <<>> ELSE <<LogicAnalyzer>>)
    \o [i \in DOMAIN Components(task) |-> AddComponent(Components(task)[i], i)]
    \o <<AnalyzerWires(task)>>

(* The generators draw an Arduino Mega; the profile of the platform replaces  *)
(* the board and the names of its supply pins.                                *)
ProfileEndpoint(e, profile) ==
    IF e[1] # "mega" THEN e
    ELSE <<profile.part_id, CASE e[2] = "5V"    -> profile.power_pin
                              [] e[2] = "GND.1" -> profile.ground_pin
                              [] OTHER          -> e[2]>>

ApplyBoardProfile(d, profile) ==
    [parts |-> [i \in DOMAIN d.parts |->
                  IF d.parts[i].id = "mega"
                  THEN [type |-> profile.board_type, id |-> profile.part_id,
                        attrs |-> {profile.serial_interface} \ {""}]
                  ELSE d.parts[i]],
     wires |-> {<<ProfileEndpoint(w[1], profile), ProfileEndpoint(w[2], profile)>> : w \in d.wires}]

GenerateDiagram(task) ==
    LET f == task.fixture.family
        pieces == CASE f = "single_led_output"         -> SingleLed(task)
                    [] f = "dual_led_output"           -> DualLed(task)
                    [] f = "button_to_buzzer"          -> ButtonToBuzzer(task)
                    [] f = "button_serial"             -> ButtonSerial(task)
                    [] f = "pir_serial"                -> PirSerial(task)
                    [] f = "analog_temperature_serial" -> AnalogTemperature(task)
                    [] f = "composite"                 -> Composite(task)
    IN ApplyBoardProfile(Joined(<<Base>> \o pieces), Profile(task))

-----------------------------------------------------------------------------
(* What the lint demands of a diagram *)

PartControls ==
    LET motion == {"accelX", "accelY", "accelZ", "rotationX", "rotationY", "rotationZ"} IN
    ("wokwi-pushbutton" :> {"pressed"}) @@ ("wokwi-dht22" :> {"temperature", "humidity"}) @@
    ("wokwi-ds18b20" :> {"temperature"}) @@ ("wokwi-photoresistor-sensor" :> {"lux"}) @@
    ("wokwi-analog-joystick" :> {"x", "y", "pressed"}) @@ ("wokwi-mpu6050" :> motion) @@
    ("wokwi-potentiometer" :> {"position"}) @@ ("wokwi-hc-sr04" :> {"distance"}) @@
    ("wokwi-ntc-temperature-sensor" :> {"temperature"}) @@
    ("chip-bme280" :> {"temperatureC", "humidityRH", "pressurePa"}) @@
    ("chip-mpu6050" :> motion \cup {"temperatureC"})

FixedFamilyControls ==
    [button_press_sequence    |-> <<"btn1", "pressed">>,
     bounced_button_sequence  |-> <<"btn1", "pressed">>,
     pir_state_sequence       |-> <<"pir1", "pressed">>,
     analog_position_sequence |-> <<"pot1", "position">>]

ScenarioControlPairs(s) ==
    IF s.family \in DOMAIN FixedFamilyControls
    THEN {<<Get(s, "part_id", FixedFamilyControls[s.family][1]), FixedFamilyControls[s.family][2]>>}
    ELSE IF s.family = "control_sequence"
    THEN {<<c.part_id, c.control>> : c \in ToSet(Get(s, "controls", <<>>))}
    ELSE {<<step.set_control.part_id, step.set_control.control>> :
             step \in {x \in ToSet(Get(s, "steps", <<>>)) : Has(x, "set_control")}}

AllScenarios(task) ==
    (IF Has(task, "scenario") THEN {task.scenario} ELSE {})
    \cup {v.scenario : v \in {x \in ToSet(task.variants) : Has(x, "scenario")}}
ControlPairs(task) == UNION {ScenarioControlPairs(s) : s \in AllScenarios(task)}

PartTypes(d, id) == {p.type : p \in {q \in ToSet(d.parts) : q.id = id}}

VariantAttrsValid(d, task) ==
    \A v \in ToSet(task.variants) : Has(v, "attrs") =>
        \A id \in DOMAIN v.attrs :
            /\ PartTypes(d, id) # {}
            /\ \A type \in PartTypes(d, id) \cap {"chip-bme280", "chip-mpu6050"} :
                  DOMAIN v.attrs[id] \subseteq PartControls[type]

ScenarioControlsValid(d, task) ==
    /\ VariantAttrsValid(d, task)
    /\ \A pair \in ControlPairs(task) :
          /\ PartTypes(d, pair[1]) # {}
          /\ \A type \in PartTypes(d, pair[1]) :
                type \in DOMAIN PartControls /\ pair[2] \in PartControls[type]

DiagramShapeValid(d, task) ==
    LET profile == Profile(task)
        boards == {i \in DOMAIN d.parts : d.parts[i].id = profile.part_id}
    IN /\ boards # {}
       /\ \A i \in boards : (\A j \in boards : i <= j) =>
             /\ d.parts[i].type = profile.board_type
             /\ {profile.serial_interface} \ {""} \subseteq d.parts[i].attrs
       /\ \A i, j \in DOMAIN d.parts : d.parts[i].id = d.parts[j].id => i = j

NativePartTypes ==
    {"wokwi-arduino-mega", "board-esp32-s3-devkitc-1", "wokwi-buzzer", "wokwi-dht22", "wokwi-ds1307",
     "wokwi-ds18b20", "wokwi-hc-sr04", "wokwi-ky-040", "wokwi-lcd1602", "wokwi-led",
     "wokwi-logic-analyzer", "wokwi-membrane-keypad", "wokwi-mpu6050", "wokwi-photoresistor-sensor",
     "wokwi-potentiometer", "wokwi-pushbutton", "wokwi-relay-module", "wokwi-resistor",
     "wokwi-analog-joystick"}
PartTypesValid(d, task) ==
    \A p \in ToSet(d.parts) :
        \/ p.type \in NativePartTypes
        \/ p.type \in Get(task, "custom_chips", {})

(* The wire of the analyzer's ground satisfies the check wherever it leads:   *)
(* its own end has a name that ends in GND.                                   *)
AnalyzerWiringValid(d, task) ==
    Channels(task) # <<>> =>
        /\ \A ch \in ToSet(Channels(task)) :
              \E w \in d.wires : /\ \E e \in ToSet(w) : e[2] = ch.signal
                                 /\ \E e \in ToSet(w) : e[2] = ch.pin
        /\ \E w \in d.wires : <<"logic1", "GND">> \in ToSet(w)

DiagramAccepted(d, task) ==
    /\ DiagramShapeValid(d, task)
    /\ PartTypesValid(d, task)
    /\ AnalyzerWiringValid(d, task)
    /\ ScenarioControlsValid(d, task)

-----------------------------------------------------------------------------
(* What Wokwi makes of the wires: a closed push-button joins its contacts, a  *)
(* resistor pulls its free end to the other.                                  *)

LOCAL Neighbours(d, e) == {w[2] : w \in {x \in d.wires : x[1] = e}}
                          \cup {w[1] : w \in {x \in d.wires : x[2] = e}}
LOCAL Rails(d, ends, profile) ==
    LET reach == UNION {Neighbours(d, e) : e \in ends} IN
    (IF <<profile.part_id, profile.power_pin>> \in reach THEN {1} ELSE {})
    \cup (IF <<profile.part_id, profile.ground_pin>> \in reach THEN {0} ELSE {})

NetLevel(d, pin, closed, profile) ==
    LET near == Neighbours(d, <<profile.part_id, pin>>)
        driven == Rails(d, {<<b, "1.r">> : b \in {x \in closed : <<x, "2.r">> \in near}}, profile)
        resistors == {p.id : p \in {q \in ToSet(d.parts) : q.type = "wokwi-resistor"}}
        pulled == Rails(d, {<<r, "2">> : r \in {x \in resistors : <<x, "1">> \in near}}, profile)
    IN CHOOSE level \in 0..1 : level \in (IF driven # {} THEN driven ELSE pulled)

(* The keys of a matrix are buttons between a row pin and a column pin.       *)
CrossPoints(d, closed) ==
    {<<w[2][2], v[2][2]>> : w \in {x \in d.wires : x[1][2] = "1.r" /\ x[1][1] \in closed},
                             v \in {x \in d.wires : x[1][2] = "2.r" /\ x[1][1] \in closed}}
=============================================================================
