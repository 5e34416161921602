--------------------------------- MODULE Chips ---------------------------------
(* The sensors that Renode loads (bench/chips): a distance meter, two chips on*)
(* a single wire and one on I2C.  What a chip drives is a wave, a sequence of *)
(* [at, v], of which the last at or before a time holds; so is the quantity   *)
(* it measures.  The time of a chip is in microseconds, that of a quantity in *)
(* milliseconds.                                                              *)
EXTENDS Traces

(* Where a quantity stands until something sets it. *)
PowerOn ==
    [hcsr04  |-> [distance |-> 100],
     dht11   |-> [temperature |-> 24, humidity |-> 40],
     ds18b20 |-> [temperature |-> 22],
     mpu6050 |-> [accelX |-> 0, accelY |-> 0, accelZ |-> 1000, rotationX |-> 0, rotationY |-> 0,
                  rotationZ |-> 0, temperature |-> 25]]
ChipTypes == DOMAIN PowerOn

At(wave, t) == wave[Cardinality({i \in DOMAIN wave : wave[i].at <= t})].v
ValueOf(wave, us) == At(wave, us \div 1000)
LineLevel(chip, us) == At(chip.line, us)

(* Each entry is a wait and the level after it. *)
Scheduled(from, entries) ==
    LET add(acc, e) == [t |-> acc.t + e[1], line |-> Append(acc.line, [at |-> acc.t + e[1], v |-> e[2]])]
    IN FoldLeft(add, [t |-> from, line |-> <<>>], entries).line

(* To the nearest, from halfway to the even one. *)
HalfEven(n, d) ==
    LET q == n \div d
        r == 2 * (n % d)
    IN IF r > d \/ (r = d /\ q % 2 = 1) THEN q + 1 ELSE q
(* The bits of a byte, the low one first. *)
Weight == <<1, 2, 4, 8, 16, 32, 64, 128>>
ByteBits(byte) == [i \in 1..8 |-> (byte \div Weight[i]) % 2]
ValueOfBits(bits) == bits[1] + 2 * bits[2] + 4 * bits[3] + 8 * bits[4]
                     + 16 * bits[5] + 32 * bits[6] + 64 * bits[7] + 128 * bits[8]
ClampByte(value) == IF value < 0 THEN 0 ELSE IF value > 255 THEN 255 ELSE value
Saturate(value) == IF value > 32767 THEN 32767 ELSE IF value < -32768 THEN -32768 ELSE value

-----------------------------------------------------------------------------
(* HC-SR04: the echo starts 200 us after the end of the trigger and lasts     *)
(* 58 us a centimetre.                                                        *)

SonarReset == [last |-> 0, line |-> <<[at |-> 0, v |-> 0]>>]
SonarDrive(chip, us, level, distance) ==
    LET width == 58 * ValueOf(distance, us) IN
    [last |-> level,
     line |-> IF chip.last = 1 /\ level = 0
              THEN <<[at |-> 0, v |-> LineLevel(chip, us)]>>
                   \o Scheduled(us, <<<<200, 1>>, <<IF width < 1 THEN 1 ELSE width, 0>>>>)
              ELSE chip.line]

-----------------------------------------------------------------------------
(* DHT11: a low after a high starts an answer of 40 bits, the high one first, *)
(* unless one is being given; the low of a line never driven starts none.     *)

DhtReset == [last |-> 1, armed |-> FALSE, line |-> <<[at |-> 0, v |-> 1]>>]
FrameBits(temperature, humidity) ==
    LET t == ClampByte(temperature)
        h == ClampByte(humidity)
    IN FlattenSeq([i \in 1..5 |-> Reverse(ByteBits(<<h, 0, t, 0, (h + t) % 256>>[i]))])
(* Each bit is a low of 500 us and a high that is longer for a 1. *)
BitStart(from, bits, i) == from + 21500 + 1000 * (i - 1 + Cardinality({j \in 1..(i - 1) : bits[j] = 1}))
DhtAnswer(from, bits) ==
    <<[at |-> from + 20500, v |-> 0], [at |-> from + 21000, v |-> 1]>>
    \o FlattenSeq([i \in 1..(Len(bits) + 1) |-> <<[at |-> BitStart(from, bits, i), v |-> 0],
                                                 [at |-> BitStart(from, bits, i) + 500, v |-> 1]>>])
DhtDrive(chip, us, level, temperature, humidity) ==
    [last |-> level, armed |-> chip.armed \/ level = 1,
     line |-> IF chip.armed /\ chip.last = 1 /\ level = 0 /\ Last(chip.line).at <= us
              THEN <<[at |-> 0, v |-> LineLevel(chip, us)]>>
                   \o DhtAnswer(us, FrameBits(ValueOf(temperature, us), ValueOf(humidity, us)))
              ELSE chip.line]

-----------------------------------------------------------------------------
(* DS18B20: the length of a low tells a reset, a 0 and a 1; after the command *)
(* to read, each falling edge asks for the next bit of the scratchpad.        *)

ReadScratchpad == 190
SumBit(a, b) == (a + b) % 2
CrcStep(crc, bit) ==
    LET mix == SumBit(crc[1], bit) IN
    <<crc[2], crc[3], SumBit(crc[4], mix), SumBit(crc[5], mix), crc[6], crc[7], crc[8], mix>>
Crc8(bits) == FoldLeft(CrcStep, ByteBits(0), bits)
BuildScratchpad(temperature) ==
    LET raw == (16 * temperature) % 65536
        bytes == <<raw % 256, raw \div 256, 75, 70, 127, 255, 12, 16>>
        bits == FlattenSeq([i \in DOMAIN bytes |-> ByteBits(bytes[i])])
    IN bits \o Crc8(bits)

WireReset == [last |-> 1, lowStartedAt |-> 0, command |-> <<>>, sending |-> FALSE, sent |-> 0,
              scratchpad |-> <<>>, line |-> <<[at |-> 0, v |-> 1]>>]
(* Mutant: a reset leaves the bits of an unfinished command. *)
ResetPulse_KeepsBits(chip, us) ==
    [chip EXCEPT !.sending = FALSE, !.sent = 0,
                 !.line = <<[at |-> 0, v |-> LineLevel(chip, us)]>> \o Scheduled(us, <<<<10, 0>>, <<300, 1>>>>)]
ResetPulse(chip, us) ==
    [chip EXCEPT !.command = <<>>, !.sending = FALSE, !.sent = 0,
                 !.line = <<[at |-> 0, v |-> LineLevel(chip, us)]>> \o Scheduled(us, <<<<10, 0>>, <<300, 1>>>>)]
WriteSlot(chip, us, bit, temperature) ==
    LET bits == Append(chip.command, bit) IN
    IF Len(bits) < 8 THEN [chip EXCEPT !.command = bits]
    ELSE IF ValueOfBits(bits) # ReadScratchpad THEN [chip EXCEPT !.command = <<>>]
    ELSE [chip EXCEPT !.command = <<>>, !.sending = TRUE, !.sent = 0,
                      !.scratchpad = BuildScratchpad(ValueOf(temperature, us))]
ReadSlot(chip, us) ==
    [chip EXCEPT !.sent = @ + 1, !.sending = chip.sent + 1 < Len(chip.scratchpad),
                 !.line = <<[at |-> us, v |-> chip.scratchpad[chip.sent + 1]]>>]
WireDrive(chip, us, level, temperature) ==
    LET low == us - chip.lowStartedAt
        fell == [chip EXCEPT !.last = level, !.lowStartedAt = us]
        rose == [chip EXCEPT !.last = level]
    IN CASE chip.last = 1 /\ level = 0 /\ chip.sending  -> ReadSlot(fell, us)
         [] chip.last = 1 /\ level = 0 /\ ~chip.sending -> fell
         [] chip.last = 0 /\ level = 1 /\ ~chip.sending ->
               IF low >= 1000 THEN ResetPulse(rose, us)
               ELSE WriteSlot(rose, us, IF low >= 200 THEN 0 ELSE 1, temperature)
         [] OTHER -> rose

-----------------------------------------------------------------------------
(* MPU6050: registers behind a pointer.  Accelerations are in thousandths of  *)
(* g, rotations in degrees a second, the temperature in degrees.              *)

PowerManagement == 107
MpuReset == [registers |-> [r \in 0..255 |-> IF r = PowerManagement THEN 64 ELSE 0], pointer |-> 0]
FullScale(chip, register) == <<1, 2, 4, 8>>[((chip.registers[register] \div 8) % 4) + 1]
AccelRaw(chip, milli) == Saturate(HalfEven(milli * 16384, 1000 * FullScale(chip, 28)))
GyroRaw(chip, rate) == Saturate(HalfEven(rate * 131, FullScale(chip, 27)))
TempRaw(celsius) == Saturate(HalfEven((100 * celsius - 3653) * 34, 10))
Words(chip, quantity) ==
    <<AccelRaw(chip, quantity.accelX), AccelRaw(chip, quantity.accelY), AccelRaw(chip, quantity.accelZ),
      TempRaw(quantity.temperature), GyroRaw(chip, quantity.rotationX), GyroRaw(chip, quantity.rotationY),
      GyroRaw(chip, quantity.rotationZ)>>
(* The seven words from register 59 on, and who the chip is at 117. *)
ReadRegister(chip, register, quantity) ==
    LET word == Words(chip, quantity)[(register - 59) \div 2 + 1] % 65536
    IN CASE register \in 59..72 -> IF register % 2 = 1 THEN word \div 256 ELSE word % 256
         [] register = 117      -> 104
         [] OTHER               -> chip.registers[register]
WriteRegister(chip, write) ==
    LET register == write[1]
        value == write[2]
    IN IF register = PowerManagement /\ value >= 128 THEN MpuReset
       ELSE [chip EXCEPT !.registers[register] = value]
MpuWrite(chip, data) ==
    IF data = <<>> THEN chip
    ELSE FoldLeft(WriteRegister, [chip EXCEPT !.pointer = data[1]],
                  [i \in 1..(Len(data) - 1) |-> <<(data[1] + i - 1) % 256, data[i + 1]>>])
MpuRead(chip, count, quantity) ==
    [bytes |-> [i \in 1..count |-> ReadRegister(chip, (chip.pointer + i - 1) % 256, quantity)],
     chip |-> [chip EXCEPT !.pointer = (@ + count) % 256]]
=============================================================================
