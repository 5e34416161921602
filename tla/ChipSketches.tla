------------------------------ MODULE ChipSketches ------------------------------
(* The reference firmware of the Nano 33 BLE for the tasks with a chip        *)
(* (bench/runner.py): the exchange on the wire, in microseconds, and what is  *)
(* made of the reading.  A poll of a pin may see a rise or a fall late, a     *)
(* busy wait may take longer; how much is settled when the board starts.      *)
EXTENDS SensorSketches

CONSTANT Delays        (* how late polls and waits of a run may be            *)
(* Microseconds: each is late by a tick of the clock at most. *)
ASSUME DelaysAssumption == OnTime \in Delays /\ Delays \subseteq [rise : 0..31, fall : 0..31, wait : 0..31]
Millis(us) == (us + 999) \div 1000
Now == 1000 * clock

(* The clock of the kernel ticks 32768 times a second. *)
Cycle(us) == (us * 512) \div 15625
MicrosBetween(from, to) == ((Cycle(to) - Cycle(from)) * 15625) \div 512
CyclesOf(us) == (us * 512 + 15624) \div 15625

(* Poll until the line has the level: the time at which that is seen, unless  *)
(* a cycle has passed by then.                                                *)
Never == -1
WaitLevel(line, level, from, deadline) ==
    LET changes == {i \in DOMAIN line : line[i].at > from /\ line[i].v = level}
        seen == IF At(line, from) = level THEN from
                ELSE IF changes = {} THEN Never
                ELSE line[CHOOSE i \in changes : \A j \in changes : i <= j].at
                     + IF level = 1 THEN mem.late.rise ELSE mem.late.fall
    IN IF from = Never \/ seen = Never \/ Cycle(seen) > deadline THEN Never ELSE seen

-----------------------------------------------------------------------------
(* Distance: trigger, then time the echo.  One deadline covers both waits.    *)

Distance == Quantity("sonar1", "distance")
Triggered == SonarDrive(SonarDrive(chip, Now, 1, Distance), Now + 12, 0, Distance)
Measure(line) ==
    LET from == Now + 12
        deadline == Cycle(from) + CyclesOf(30000)
        start == WaitLevel(line, 1, from, deadline)
        end == WaitLevel(line, 0, start, deadline)
    IN IF start = Never \/ end = Never THEN Never ELSE MicrosBetween(start, end) \div 58
ZephyrHcsr04FindDistance ==
    LET sonar == Triggered
        cm == Measure(sonar.line)
        took == IF cm = Never THEN 30012 ELSE Last(sonar.line).at + mem.late.fall - Now
    IN RoundWith(sonar, [mem EXCEPT !.entry = IF cm = Never THEN <<>> ELSE <<cm>>, !.since = clock,
                                    !.count = IF cm = Never THEN @ + 1 ELSE @],
                 Nothing, IF cm = Never THEN Nothing ELSE <<Labelled(<<"Distance", "cm">>, cm)>>,
                 Nothing, Millis(took) + 100)

-----------------------------------------------------------------------------
(* Temperature and humidity: a start of 20 ms, then 40 high pulses to time.   *)
(* A read that fails is taken to fail at its first wait.                      *)

DhtStarted ==
    LET drive(c, us, level) == DhtDrive(c, us, level, Quantity("dht1", "temperature"), Quantity("dht1", "humidity"))
    IN drive(drive(chip, Now, 1), Now + 50, 0)
DhtWait(read, level) ==
    [read EXCEPT !.t = WaitLevel(read.line, level, read.t, Cycle(read.t) + CyclesOf(3000))]
DhtBit(read, i) ==
    LET high == DhtWait(read, 1)
        low == DhtWait(high, 0)
    IN [low EXCEPT !.byte = 2 * read.byte + IF MicrosBetween(high.t, low.t) > 1000 THEN 1 ELSE 0]
DhtByte(read, i) ==
    LET bits == FoldLeft(DhtBit, [read EXCEPT !.byte = 0], <<7, 6, 5, 4, 3, 2, 1, 0>>)
    IN IF read.t = Never THEN read ELSE [bits EXCEPT !.data = Append(read.data, bits.byte)]
DhtBytes(line, from) ==
    LET start == [line |-> line, t |-> from, byte |-> 0, data |-> <<>>]
    IN FoldLeft(DhtByte, DhtWait(DhtWait(DhtWait(start, 0), 1), 0), <<0, 1, 2, 3, 4>>)
(* Humidity and temperature, or nothing if a level or the checksum is wrong. *)
DhtReading(read) ==
    IF read.t = Never \/ (read.data[1] + read.data[2] + read.data[3] + read.data[4]) % 256 # read.data[5] THEN <<>>
    ELSE <<read.data[1], read.data[3]>>
DhtRound(sensor, read, variables, lines, bytes, ms) ==
    LET reading == DhtReading(read)
        took == IF read.t = Never THEN 3000 + 20050 ELSE read.t - Now
    IN RoundWith(sensor, [variables EXCEPT !.entry = reading, !.since = clock,
                                           !.count = IF reading = <<>> THEN @ + 1 ELSE @],
                 Nothing, lines, bytes, Millis(took) + ms)

(* The sleep of the start ends after a tick. *)
DhtRead == DhtBytes(DhtStarted.line, Now + 20050 + mem.late.rise)
ZephyrDht11Read ==
    LET reading == DhtReading(DhtRead)
    IN DhtRound(DhtStarted, DhtRead, mem,
                IF reading = <<>> THEN <<Text(<<"DHT11", "error">>)>>
                ELSE <<[text |-> <<"Temperature", "C", "Humidity">>, numbers |-> <<reading[2], reading[1]>>]>>,
                Nothing, 800)

Tenths(n) == Numeral(n) \o <<Glyph.dot, Digit(0)>>
DhtScreen(reading) ==
    IF reading = <<>> THEN Clear \o Write(<<Glyph.Error>>)
    ELSE Clear \o SetCursor(0, 0) \o Write(<<Glyph.Temp, Blank>> \o Tenths(reading[2]) \o <<Blank, Glyph.C>>)
               \o SetCursor(0, 1) \o Write(<<Glyph.RH, Blank>> \o Tenths(reading[1]) \o <<Blank, Glyph.percent>>)
(* One reading is shown at the start, then one for each press. *)
ZephyrDht11ButtonDisplay ==
    IF mem.state = 1 /\ ~RisenSince("P1.11", mem.mark)
    THEN Round([mem EXCEPT !.mark = clock], Nothing, Nothing, Nothing, 20)
    ELSE LET bytes == DhtScreen(DhtReading(DhtRead)) IN
         DhtRound(DhtStarted, DhtRead, [mem EXCEPT !.state = 1, !.mark = clock], Nothing, bytes,
                  20 + Len(bytes) \div 2)

-----------------------------------------------------------------------------
(* Heat alarm: reset and commands on the wire, then 72 bits to read.          *)

Degrees == Quantity("temp1", "temperature")
(* A level for so long, or the level the line has. *)
OwWait(m, us) == [m EXCEPT !.t = @ + us + mem.late.wait]
OwDrive(m, level, us) == OwWait([m EXCEPT !.chip = WireDrive(@, m.t, level, Degrees)], us)
OwSampled(m) == [m EXCEPT !.in = Append(@, LineLevel(m.chip, m.t))]
OwReset(m) == OwDrive(OwWait(OwSampled(OwDrive(OwDrive(m, 0, 2000), 1, 90)), 600), 1, 0)
OwWriteBit(m, bit) ==
    IF bit = 1 THEN OwDrive(OwDrive(m, 0, 30), 1, 400) ELSE OwDrive(OwDrive(m, 0, 400), 1, 30)
OwReadBit(m, i) == OwDrive(OwWait(OwSampled(OwWait(OwDrive(m, 0, 60), 120)), 300), 1, 0)
OwReadByte(m, i) ==
    LET read == FoldLeft(OwReadBit, [m EXCEPT !.in = <<>>], <<0, 1, 2, 3, 4, 5, 6, 7>>)
    IN [m EXCEPT !.chip = read.chip, !.t = read.t, !.in = Append(@, ValueOfBits(read.in))]
OwWriteByte(m, byte) == FoldLeft(OwWriteBit, m, ByteBits(byte))
OwCommand(m, byte) == OwWriteByte(OwWriteByte(m, 204), byte)
OwPresent(m) == Last(m.in) = 0
Word(high, low) == LET n == 256 * high + low IN IF n >= 32768 THEN n - 65536 ELSE n

(* Convert, then read; nothing without a presence pulse or with a wrong sum.  *)
ReadCx16(start) ==
    LET first == OwReset(start)
        second == OwReset(OwWait(OwCommand(first, 68), 100000))
        read == FoldLeft(OwReadByte, [OwCommand(second, ReadScratchpad) EXCEPT !.in = <<>>], [i \in 1..9 |-> i])
        sum == Crc8(FlattenSeq([i \in 1..8 |-> ByteBits(read.in[i])]))
    IN CASE ~OwPresent(first) -> [end |-> first, value |-> <<>>]
         [] OwPresent(first) /\ ~OwPresent(second) -> [end |-> second, value |-> <<>>]
         [] OTHER -> [end |-> read,
                      value |-> IF sum # ByteBits(read.in[9]) THEN <<>> ELSE <<Word(read.in[2], read.in[1])>>]
HeatRound(read) ==
    RoundWith(read.end.chip,
              [mem EXCEPT !.entry = read.value, !.state = 1, !.since = clock,
                          !.count = IF read.value = <<>> THEN @ + 1 ELSE @],
              Nothing, Nothing, Nothing, Millis(read.end.t - Now))
ZephyrDs18b20HeatAlarm ==
    \/ /\ mem.state = 0
       /\ HeatRound(ReadCx16([chip |-> chip, t |-> Now, in |-> <<>>]))
    \/ /\ mem.state = 1
       /\ LET hot == mem.entry # <<>> /\ mem.entry[1] > 30 * 16
              led == IF hot THEN 1 - mem.out ELSE 0
          IN Round([mem EXCEPT !.state = 0, !.out = led],
                   ("P1.12" :> IF hot THEN 1 ELSE 0) @@ ("P0.24" :> led), Nothing, Nothing, 80)

-----------------------------------------------------------------------------
(* Accelerometer: seven words from register 59; the fourth is a temperature.  *)

ImuQuantities == [q \in DOMAIN PowerOn.mpu6050 |-> SensorReading("imu1", q)]
BurstRead(register, count) == MpuRead(MpuWrite(chip, <<register>>), count, ImuQuantities)
MpuReading == LET bytes == BurstRead(59, 14).bytes IN
              [i \in 1..6 |-> LET at == IF i <= 3 THEN 2 * i - 1 ELSE 2 * i + 1 IN Word(bytes[at], bytes[at + 1])]
Afterwards == BurstRead(59, 14).chip

ZephyrStepCounterPrint ==
    LET az == Word(BurstRead(63, 2).bytes[1], BurstRead(63, 2).bytes[2])
    IN CountStep(BurstRead(63, 2).chip, az > 23700, az <= 23700, <<>>, 40)
ZephyrMpu6050ReadI2c ==
    RoundWith(Afterwards, [mem EXCEPT !.entry = MpuReading, !.since = clock], Nothing,
              <<[text |-> <<"Accel", "Gyro">>, numbers |-> MpuReading]>>, Nothing, 150)

(* A line is cut to 16 characters, of which the label takes some. *)
Signed(n) == IF n < 0 THEN <<Glyph.minus>> \o Numeral(-n) ELSE Numeral(n)
Three(reading, i) ==
    Signed(reading[i]) \o <<Blank>> \o Signed(reading[i + 1]) \o <<Blank>> \o Signed(reading[i + 2])
Cut(text, room) == SubSeq(text, 1, IF Len(text) < room THEN Len(text) ELSE room)
LcdShowImu(reading) ==
    Clear \o SetCursor(0, 0) \o Write(<<Glyph.Accel, Blank>> \o Cut(Three(reading, 1), 9))
          \o SetCursor(0, 1) \o Write(<<Glyph.Gyro, Blank>> \o Cut(Three(reading, 4), 10))
ZephyrMpu6050ButtonDisplay ==
    IF ~RisenSince("P1.11", mem.mark) THEN Round([mem EXCEPT !.mark = clock], Nothing, Nothing, Nothing, 5)
    ELSE LET bytes == LcdShowImu(MpuReading) IN
         RoundWith(Afterwards, [mem EXCEPT !.entry = MpuReading, !.since = clock, !.mark = clock],
                   Nothing, Nothing, bytes, 5 + Len(bytes) \div 2)

(* The mean of ten readings; C division drops the fraction. *)
Tenth(n) == IF n < 0 THEN -((-n) \div 10) ELSE n \div 10
ZephyrMpu6050PeriodicDisplay ==
    LET sums == [i \in 1..6 |-> MpuReading[i] + IF mem.state = 0 THEN 0 ELSE mem.key[i]]
        full == mem.state = 9
        bytes == IF full THEN LcdShowImu([i \in 1..6 |-> Tenth(sums[i])]) ELSE Nothing
    IN RoundWith(Afterwards, [mem EXCEPT !.entry = MpuReading, !.since = clock, !.key = sums,
                                         !.state = (mem.state + 1) % 10],
                 Nothing, Nothing, bytes, 100 + Len(bytes) \div 2)
=============================================================================
