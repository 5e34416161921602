------------------------------ MODULE ReadingProofs ------------------------------
(* What the firmware reads from a chip is what the sensor was set to, for all *)
(* tasks: the invariant of the bench that leaves each chip ready for the next *)
(* reading.                                                                   *)
EXTENDS BenchProofs, ChipProofs

-----------------------------------------------------------------------------
(* MPU6050 *)

\* A write is a fold of the bytes after the first over the registers from there on.
WriteFold == INSTANCE Folding WITH Op <- WriteRegister

\* An accelerometer that is awake, with the finest scales.
Awake(c) == /\ c \in [registers : [Byte -> Byte], pointer : Int]
            /\ c.registers[27] = 0 /\ c.registers[28] = 0

\* A write is this fold.
LEMMA WriteIsFold ==
    \A c, data : data # <<>> =>
        MpuWrite(c, data) = WriteFold!Folded([c EXCEPT !.pointer = data[1]],
                                             [i \in 1..(Len(data) - 1) |-> <<(data[1] + i - 1) % 256, data[i + 1]>>])
BY DEF MpuWrite, WriteFold!Folded, FoldLeft, MapThenFoldSet, WriteFold!FoldLeft, WriteFold!MapThenFoldSet,
       Max, WriteFold!Max

\* A write of one byte moves the pointer and nothing else.
LEMMA WriteOne == \A c, register : MpuWrite(c, <<register>>) = [c EXCEPT !.pointer = register]
<1> TAKE c, register
<1> DEFINE s == [i \in 1..0 |-> <<(register + i - 1) % 256, <<register>>[i + 1]>>]
           base == [c EXCEPT !.pointer = register]
<1>1. MpuWrite(c, <<register>>) = WriteFold!Folded(base, s)
    <2> DEFINE data == <<register>>
    <2>1. data # <<>> /\ data[1] = register /\ Len(data) - 1 = 0
        OBVIOUS
    <2> HIDE DEF data
    <2>2. MpuWrite(c, data) = WriteFold!Folded([c EXCEPT !.pointer = data[1]],
                                   [i \in 1..(Len(data) - 1) |-> <<(data[1] + i - 1) % 256, data[i + 1]>>])
        BY <2>1, WriteIsFold
    <2>3. MpuWrite(c, data) = WriteFold!Folded([c EXCEPT !.pointer = register],
                                   [i \in 1..0 |-> <<(register + i - 1) % 256, data[i + 1]>>])
        BY ONLY <2>1, <2>2, Zenon
    <2> QED BY <2>3 DEF data
<1>2. 0 \in Nat /\ DOMAIN s = 1..0
    OBVIOUS
<1> HIDE DEF s, base
<1>3. PICK h : WriteFold!Runs(h, base, s, 0) /\ WriteFold!Folded(base, s) = h[0]
    BY ONLY <1>2, WriteFold!FoldSteps, Zenon
<1>4. WriteFold!Folded(base, s) = base
    BY ONLY <1>3, Zenon DEF WriteFold!Runs
<1> QED BY <1>1, <1>4 DEF base

\* The write at the start wakes the chip.
LEMMA WokenChip == Awake(MpuWrite(MpuReset, <<PowerManagement, 0>>))
<1> DEFINE data == <<PowerManagement, 0>>
           base == [MpuReset EXCEPT !.pointer = PowerManagement]
           s == [i \in 1..(Len(data) - 1) |-> <<(data[1] + i - 1) % 256, data[i + 1]>>]
<1>1. data # <<>> /\ data[1] = PowerManagement /\ data[2] = 0 /\ Len(data) - 1 = 1
    OBVIOUS
<1>2. DOMAIN s = 1..1 /\ s[1] = <<PowerManagement, 0>>
    <2> HIDE DEF data
    <2>1. DOMAIN s = 1..(Len(data) - 1)
        OBVIOUS
    <2>2. 1 \in 1..(Len(data) - 1) /\ 1 + 1 = 2 /\ (PowerManagement + 1 - 1) % 256 = PowerManagement
        BY <1>1 DEF PowerManagement
    <2>3. s[1] = <<(data[1] + 1 - 1) % 256, data[1 + 1]>>
        BY <2>2
    <2> QED BY <1>1, <2>1, <2>2, <2>3
<1>3. MpuWrite(MpuReset, data) = WriteFold!Folded(base, s)
    <2> HIDE DEF data
    <2>1. MpuWrite(MpuReset, data) = WriteFold!Folded([MpuReset EXCEPT !.pointer = data[1]], s)
        BY <1>1, WriteIsFold
    <2> QED BY ONLY <1>1, <2>1, Zenon
<1> HIDE DEF s
<1>4. WriteFold!Folded(base, s) = WriteRegister(base, s[1])
    BY ONLY <1>2, WriteFold!FoldOne, Zenon
<1> DEFINE R == [r \in 0..255 |-> IF r = PowerManagement THEN 64 ELSE 0]
           woken == [R EXCEPT ![PowerManagement] = 0]
<1>5. base = [registers |-> R, pointer |-> PowerManagement]
    <2>1. MpuReset = [registers |-> R, pointer |-> 0]
        BY DEF MpuReset
    <2> HIDE DEF R
    <2> QED BY <2>1
<1>6. WriteRegister(base, <<PowerManagement, 0>>) = [base EXCEPT !.registers = woken]
    <2>1. ~(0 >= 128)
        OBVIOUS
    <2> HIDE DEF R, base
    <2>2. WriteRegister(base, <<PowerManagement, 0>>) = [base EXCEPT !.registers[PowerManagement] = 0]
        BY <2>1, Zenon DEF WriteRegister
    <2> QED BY <1>5, <2>2
<1>7. Awake([base EXCEPT !.registers = woken])
    <2>1. woken \in [Byte -> Byte] /\ woken[27] = 0 /\ woken[28] = 0
        BY DEF Byte, PowerManagement
    <2>2. PowerManagement \in Int
        BY DEF PowerManagement
    <2> HIDE DEF woken, R, base
    <2>3. [base EXCEPT !.registers = woken] = [registers |-> woken, pointer |-> PowerManagement]
        BY <1>5
    <2> QED BY <2>1, <2>2, <2>3 DEF Awake
<1> QED BY <1>2, <1>3, <1>4, <1>6, <1>7

\* The quantities that a word holds, and the count of an acceleration: 16384 to a g.
CountOf(raw, milli) ==
    raw \in Int /\ 1000 * raw - 16384 * milli <= 500 /\ 16384 * milli - 1000 * raw <= 500

\* With the finest scales an acceleration is its count in 16384ths of g, to the nearest,
LEMMA AccelIsNear ==
    ASSUME NEW c, Awake(c), NEW milli \in MilliG
    PROVE  CountOf(AccelRaw(c, milli), milli)
<1> DEFINE n == milli * 16384
           h == HalfEven(n, 1000)
<1>1. FullScale(c, 28) = 1
    <2>1. (0 \div 8) % 4 = 0 /\ <<1, 2, 4, 8>>[0 + 1] = 1
        OBVIOUS
    <2> QED BY <2>1 DEF Awake, FullScale
<1>2. AccelRaw(c, milli) = Saturate(h)
    <2>1. 1000 * 1 = 1000
        OBVIOUS
    <2> QED BY <1>1, <2>1 DEF AccelRaw
<1>3. n \in Int /\ n >= -32768000 /\ n <= 32751616 /\ n = 16384 * milli
    BY DEF MilliG
<1> HIDE DEF n
<1>4. h \in Int /\ 2 * (1000 * h - n) <= 1000 /\ 2 * (n - 1000 * h) <= 1000
    <2> DEFINE d == 1000
    <2>1. n \in Int /\ d \in Nat /\ d > 0
        BY <1>3
    <2> HIDE DEF d
    <2>2. /\ HalfEven(n, d) \in Int
          /\ 2 * (d * HalfEven(n, d) - n) <= d
          /\ 2 * (n - d * HalfEven(n, d)) <= d
        BY ONLY <2>1, RoundsToNearest
    <2> QED BY ONLY <2>2 DEF d, h
<1> HIDE DEF h
<1>5. h <= 32767 /\ h >= -32768 /\ 1000 * h - n <= 500 /\ n - 1000 * h <= 500
    BY <1>3, <1>4
<1>6. Saturate(h) = h
    BY <1>4, <1>5 DEF Saturate
<1> QED BY <1>2, <1>3, <1>4, <1>5, <1>6 DEF CountOf

\* and a rotation is its count in 131sts of a degree a second.
LEMMA GyroIsCount ==
    ASSUME NEW c, Awake(c), NEW rate \in DegreesPerSecond
    PROVE  GyroRaw(c, rate) = 131 * rate
<1> DEFINE n == rate * 131
           h == HalfEven(n, 1)
<1>1. FullScale(c, 27) = 1
    <2>1. (0 \div 8) % 4 = 0 /\ <<1, 2, 4, 8>>[0 + 1] = 1
        OBVIOUS
    <2> QED BY <2>1 DEF Awake, FullScale
<1>2. GyroRaw(c, rate) = Saturate(h)
    BY <1>1 DEF GyroRaw
<1>3. n \in Int /\ n >= -32750 /\ n <= 32750 /\ n = 131 * rate
    BY DEF DegreesPerSecond
<1> HIDE DEF n
<1>4. h \in Int /\ 2 * (1 * h - n) <= 1 /\ 2 * (n - 1 * h) <= 1
    <2> DEFINE d == 1
    <2>1. n \in Int /\ d \in Nat /\ d > 0
        BY <1>3
    <2> HIDE DEF d
    <2>2. /\ HalfEven(n, d) \in Int
          /\ 2 * (d * HalfEven(n, d) - n) <= d
          /\ 2 * (n - d * HalfEven(n, d)) <= d
        BY ONLY <2>1, RoundsToNearest
    <2> QED BY ONLY <2>2 DEF d, h
<1> HIDE DEF h
<1>5. h = n
    BY <1>3, <1>4
<1>6. Saturate(h) = h
    BY <1>3, <1>5 DEF Saturate
<1> QED BY <1>2, <1>3, <1>5, <1>6

\* The axes of the accelerometer, in the order of the registers.
Accels == <<"accelX", "accelY", "accelZ">>
Rotations == <<"rotationX", "rotationY", "rotationZ">>

\* A reading has a count for each axis of the accelerations, then one for each of the
\* rotations (mpu6050_read), and leaves the scales as they are.
LEMMA ImuReads ==
    ASSUME Awake(chip), \A q \in DOMAIN PowerOn.mpu6050 : SensorReading("imu1", q) \in Int,
           \A i \in 1..3 : /\ SensorReading("imu1", Accels[i]) \in MilliG
                           /\ SensorReading("imu1", Rotations[i]) \in DegreesPerSecond
    PROVE  /\ \A i \in 1..3 :
                 /\ CountOf(MpuReading[i], SensorReading("imu1", Accels[i]))
                 /\ MpuReading[i + 3] = 131 * SensorReading("imu1", Rotations[i])
           /\ Awake(BurstRead(59, 14).chip)
<1> DEFINE c == MpuWrite(chip, <<59>>)
           bytes == MpuRead(c, 14, ImuQuantities).bytes
           words == Words(c, ImuQuantities)
<1>0. \A i \in 1..3 : /\ SensorReading("imu1", Accels[i]) \in MilliG
                       /\ SensorReading("imu1", Rotations[i]) \in DegreesPerSecond
    OBVIOUS
<1>1. c = [chip EXCEPT !.pointer = 59]
    BY WriteOne
<1> HIDE DEF c
<1>2. Awake(c) /\ c.pointer = 59 /\ c.registers \in [Byte -> Byte]
    BY <1>1 DEF Awake
<1>3. ImuQuantities \in [DOMAIN PowerOn.mpu6050 -> Int]
    BY DEF ImuQuantities
<1>4. \A i \in 1..7 : Word(bytes[2 * i - 1], bytes[2 * i]) = words[i]
    <2> TAKE i \in 1..7
    <2> HIDE DEF words, bytes
    <2>1. Word(MpuRead(c, 14, ImuQuantities).bytes[2 * i - 1], MpuRead(c, 14, ImuQuantities).bytes[2 * i]) = Words(c, ImuQuantities)[i]
        BY ONLY <1>2, <1>3, BurstReadsAllWords, i \in 1..7
    <2> QED BY <2>1 DEF words, bytes
<1>5. MpuReading = [i \in 1..6 |-> LET at == IF i <= 3 THEN 2 * i - 1 ELSE 2 * i + 1 IN Word(bytes[at], bytes[at + 1])]
    BY DEF MpuReading, BurstRead, c
<1> HIDE DEF bytes
<1>6. ASSUME NEW i \in 1..3 PROVE MpuReading[i] = words[i] /\ MpuReading[i + 3] = words[i + 4]
    <2>1. i \in 1..6 /\ i <= 3 /\ (2 * i - 1) + 1 = 2 * i
        OBVIOUS
    <2>2. /\ i + 3 \in 1..6 /\ ~(i + 3 <= 3) /\ i + 4 \in 1..7
          /\ 2 * (i + 3) + 1 = 2 * (i + 4) - 1 /\ (2 * (i + 3) + 1) + 1 = 2 * (i + 4)
        OBVIOUS
    <2>3. MpuReading[i] = Word(bytes[2 * i - 1], bytes[(2 * i - 1) + 1])
        <3> DEFINE k == i
            at == IF k <= 3 THEN 2 * k - 1 ELSE 2 * k + 1
        <3>1. MpuReading[k] = Word(bytes[at], bytes[at + 1])
            BY <1>5, <2>1, Zenon
        <3>2. at = 2 * i - 1
            BY <2>1
        <3> HIDE DEF at
        <3> QED BY ONLY <3>1, <3>2 DEF k
    <2>4. MpuReading[i + 3] = Word(bytes[2 * (i + 3) + 1], bytes[(2 * (i + 3) + 1) + 1])
        <3> DEFINE k == i + 3
                   at == IF k <= 3 THEN 2 * k - 1 ELSE 2 * k + 1
        <3>2. at = 2 * (i + 3) + 1 /\ k \in 1..6
            BY <2>2
        <3> HIDE DEF k
        <3>1. MpuReading[k] = Word(bytes[at], bytes[at + 1])
            BY <1>5, <3>2, Zenon
        <3> HIDE DEF at
        <3> QED BY ONLY <3>1, <3>2 DEF k
    <2>5. i \in 1..7
        OBVIOUS
    <2> QED BY <1>4, <2>1, <2>2, <2>3, <2>4, <2>5
<1>7. ASSUME NEW i \in 1..3
      PROVE  /\ words[i] = AccelRaw(c, SensorReading("imu1", Accels[i]))
             /\ words[i + 4] = GyroRaw(c, SensorReading("imu1", Rotations[i]))
    <2>1. \A q \in {"accelX", "accelY", "accelZ", "rotationX", "rotationY", "rotationZ"} :
             ImuQuantities[q] = SensorReading("imu1", q)
        BY DEF ImuQuantities, PowerOn
    <2>2. CASE i = 1
        BY <2>1, <2>2 DEF Words, Accels, Rotations
    <2>3. CASE i = 2
        BY <2>1, <2>3 DEF Words, Accels, Rotations
    <2>4. CASE i = 3
        BY <2>1, <2>4 DEF Words, Accels, Rotations
    <2> QED BY <2>2, <2>3, <2>4
<1> HIDE DEF words
<1>8. Awake(BurstRead(59, 14).chip)
    <2>1. BurstRead(59, 14).chip = [c EXCEPT !.pointer = (@ + 14) % 256]
        BY DEF BurstRead, MpuRead, c
    <2> QED BY <1>2, <2>1 DEF Awake
<1>9. ASSUME NEW i \in 1..3
      PROVE  /\ CountOf(MpuReading[i], SensorReading("imu1", Accels[i]))
             /\ MpuReading[i + 3] = 131 * SensorReading("imu1", Rotations[i])
    <2> DEFINE milli == SensorReading("imu1", Accels[i])
               rate == SensorReading("imu1", Rotations[i])
    <2>1. milli \in MilliG /\ rate \in DegreesPerSecond
        BY ONLY <1>0, i \in 1..3, Zenon
    <2>2. MpuReading[i] = AccelRaw(c, milli) /\ MpuReading[i + 3] = GyroRaw(c, rate)
        BY <1>6, <1>7
    <2> HIDE DEF milli, rate
    <2>3. CountOf(AccelRaw(c, milli), milli)
        BY ONLY <1>2, <2>1, AccelIsNear
    <2>4. GyroRaw(c, rate) = 131 * rate
        BY ONLY <1>2, <2>1, GyroIsCount
    <2>5. CountOf(MpuReading[i], milli) /\ MpuReading[i + 3] = 131 * rate
        BY <2>2, <2>3, <2>4
    <2> QED BY <2>5 DEF milli, rate
<1> QED BY <1>8, <1>9

-----------------------------------------------------------------------------
(* Rounds of the firmware *)

\* The firmware remembers a reading and when it was taken, and none that failed.
Recalls(m) ==
    /\ {"entry", "since", "count", "late"} \subseteq DOMAIN m
    /\ m.since \in Nat /\ m.count = 0 /\ m.late \in Delays

\* A wait in whole milliseconds takes at least its microseconds.
LEMMA MillisCover ==
    ASSUME NEW us \in Nat
    PROVE  Millis(us) \in Nat /\ 1000 * Millis(us) >= us
BY DEF Millis

\* The end of a round is no earlier than what the round waited for.
LEMMA RoundEnds ==
    ASSUME clock \in Nat, NEW ms \in Nat, NEW late \in 0..Task.jitter, clock' = clock + ms + late
    PROVE  clock' \in Nat /\ clock' >= clock /\ 1000 * clock' >= Now + 1000 * ms
<1>1. late \in Nat
    OBVIOUS
<1> QED BY <1>1 DEF Now

\* So what is over by then is over at its end.
LEMMA RoundPasses ==
    ASSUME NEW now \in Nat, NEW ms \in Nat, NEW to \in Nat, NEW end \in Nat,
           now + 1000 * ms >= end, 1000 * to >= now + 1000 * ms
    PROVE  1000 * to \in Int /\ 1000 * to >= end
OBVIOUS

\* Between two rounds the distance meter is idle, and the last reading fits.
SonarKept(m, c, t) ==
    /\ Recalls(m) /\ t \in Nat /\ c.last = 0 /\ Resting(c.line, 0, 1000 * t)
    /\ m.entry # <<>> => m.entry[1] - At(Distance, m.since) \in -2..1
\* A round of the distance meter keeps this: the pulse it times is that of the distance
\* at its start, to within a centimetre or two.
LEMMA SonarRound ==
    ASSUME SonarKept(mem, chip, clock), \A t \in Nat : At(Distance, t) \in 2..512, ZephyrHcsr04FindDistance
    PROVE  SonarKept(mem', chip', clock')
<1> DEFINE d == At(Distance, clock)
           cm == Measure(Triggered.line)
           end == Now + 212 + 58 * d
           ms == Millis(end + mem.late.fall - Now) + 100
           first == [mem EXCEPT !.entry = IF cm = Never THEN <<>> ELSE <<cm>>, !.since = clock,
                                !.count = IF cm = Never THEN @ + 1 ELSE @]
<1>1. /\ Recalls(mem) /\ clock \in Nat /\ mem.late \in Delays /\ chip.last = 0 /\ Resting(chip.line, 0, Now)
    BY DEF SonarKept, Recalls, Now
<1>2. d \in 2..512
    BY <1>1
<1>3. /\ cm \in (d - 2)..(d + 1) /\ Triggered.last = 0 /\ Last(Triggered.line).at = end
      /\ Resting(Triggered.line, 0, end)
    BY <1>1, <1>2, SonarReads
<1>4. mem.late.fall \in Nat /\ Now \in Nat /\ end \in Nat /\ end >= Now /\ end + mem.late.fall - Now \in Nat
    <2>1. mem.late.fall \in Nat
        <3>1. mem.late.fall \in 0..31
            BY ONLY <1>1, DelaysAreSmall
        <3> QED BY <3>1
    <2>2. d \in Nat
        BY <1>2
    <2>3. Now \in Nat
        BY <1>1 DEF Now
    <2> HIDE DEF d
    <2> QED BY ONLY <2>1, <2>2, <2>3 DEF end
<1>5. cm # Never /\ cm \in Int
    BY <1>2, <1>3 DEF Never
<1> HIDE DEF d, cm, end
<1>6. /\ chip' = Triggered /\ mem' = first
      /\ \E late \in 0..Task.jitter : clock' = clock + ms + late
    BY <1>3, <1>5 DEF ZephyrHcsr04FindDistance, RoundWith, cm
<1>7. ms \in Nat /\ Now + 1000 * ms >= end
    <2> DEFINE us == end + mem.late.fall - Now
    <2>1. us \in Nat /\ end <= Now + us
        BY <1>4
    <2> HIDE DEF us
    <2>2. Millis(us) \in Nat /\ 1000 * Millis(us) >= us
        BY ONLY <2>1, MillisCover
    <2>3. ms = Millis(us) + 100
        BY DEF us
    <2> HIDE DEF ms
    <2> QED BY ONLY <1>4, <2>1, <2>2, <2>3
<1> HIDE DEF ms
<1>8. clock' \in Nat /\ 1000 * clock' >= Now + 1000 * ms
    BY <1>1, <1>6, <1>7, RoundEnds
<1>9. Resting(chip'.line, 0, 1000 * clock') /\ chip'.last = 0
    <2> DEFINE now == Now
               to == clock'
               last == 1000 * to
    <2>4. now \in Nat /\ end \in Nat
        BY <1>4
    <2>5. ms \in Nat /\ now + 1000 * ms >= end
        BY <1>7
    <2>6. to \in Nat /\ 1000 * to >= now + 1000 * ms
        BY <1>8
    <2> HIDE DEF now, to
    <2>2. end \in Int /\ last \in Int /\ last >= end
        BY ONLY <2>4, <2>5, <2>6, RoundPasses
    <2> HIDE DEF last
    <2>3. Resting(chip'.line, 0, last) /\ chip'.last = 0
        BY ONLY <1>3, <1>6, <2>2, RestingShows
    <2> QED BY <2>3 DEF last, to
<1>10. first = [mem EXCEPT !.entry = <<cm>>, !.since = clock, !.count = mem.count]
    BY <1>5
<1>11. Recalls(mem') /\ mem'.entry = <<cm>> /\ mem'.since = clock
    <2>1. mem' = [mem EXCEPT !.entry = <<cm>>, !.since = clock, !.count = mem.count]
        BY <1>6, <1>10
    <2> QED BY ONLY <1>1, <2>1 DEF Recalls
<1>12. mem'.entry[1] - At(Distance, mem'.since) \in -2..1
    <2>1. mem'.entry[1] = cm /\ At(Distance, mem'.since) = d
        BY <1>11 DEF d
    <2> QED BY ONLY <1>2, <1>3, <2>1
<1> QED BY ONLY <1>8, <1>9, <1>11, <1>12 DEF SonarKept

\* The same of the DHT11: its line is high,
DhtKept(m, c, t) ==
    /\ Recalls(m) /\ t \in Nat /\ Resting(c.line, 1, 1000 * t)
    /\ m.entry # <<>> => m.entry = <<At(Quantity("dht1", "humidity"), m.since),
                                    At(Quantity("dht1", "temperature"), m.since)>>
\* and a reading is the humidity and the temperature of its start.  A round that reads
\* keeps this, whatever else it remembers,
LEMMA DhtKeeps ==
    ASSUME DhtKept(mem, chip, clock),
           \A t \in Nat : At(Quantity("dht1", "humidity"), t) \in Byte /\ At(Quantity("dht1", "temperature"), t) \in Byte,
           NEW m, Recalls(m), NEW lines, NEW bytes, NEW ms \in Nat, ms >= 1, DhtRound(DhtStarted, DhtRead, m, lines, bytes, ms)
    PROVE  DhtKept(mem', chip', clock')
<1> DEFINE T == At(Quantity("dht1", "temperature"), clock)
           H == At(Quantity("dht1", "humidity"), clock)
           end == DhtRead.t
           took == end - Now
           whole == Millis(took) + ms
           reading == DhtReading(DhtRead)
<1>1. Recalls(mem) /\ clock \in Nat /\ mem.late \in Delays /\ Resting(chip.line, 1, Now)
    BY DEF DhtKept, Recalls, Now
<1>2. T \in Byte /\ H \in Byte
    BY <1>1
<1>3. reading = <<H, T>> /\ end \in Nat /\ end >= Now /\ Resting(DhtStarted.line, 1, end + 500)
    <2> HIDE DEF T, H
    <2> QED BY <1>1, <1>2, DhtReads DEF DhtRead, T, H
<1>4. Now \in Nat /\ took \in Nat /\ end # Never /\ reading # <<>>
    BY <1>1, <1>3 DEF Now, Never
<1> HIDE DEF reading, end, T, H
<1>5. /\ chip' = DhtStarted
      /\ mem' = [m EXCEPT !.entry = reading, !.since = clock, !.count = m.count]
      /\ \E late \in 0..Task.jitter : clock' = clock + whole + late
    BY <1>4 DEF DhtRound, RoundWith, reading, end
<1>6. whole \in Nat /\ Now + 1000 * whole >= end + 500
    <2> HIDE DEF took
    <2>1. Millis(took) \in Nat /\ 1000 * Millis(took) >= took
        <3>1. took \in Nat
            BY <1>4
        <3> QED BY ONLY <3>1, MillisCover
    <2> QED BY <1>3, <1>4, <2>1 DEF took
<1> HIDE DEF whole
<1>7. clock' \in Nat /\ 1000 * clock' >= Now + 1000 * whole
    BY <1>1, <1>5, <1>6, RoundEnds
<1>8. Resting(chip'.line, 1, 1000 * clock')
    <2> DEFINE rest == end + 500
               now == Now
               to == clock'
               last == 1000 * to
    <2>1. rest \in Nat /\ Now + 1000 * whole >= rest /\ Resting(DhtStarted.line, 1, rest)
        BY ONLY <1>3, <1>6
    <2> HIDE DEF rest
    <2>2. now \in Nat /\ whole \in Nat
        BY <1>4, <1>6
    <2>5. now + 1000 * whole >= rest
        BY <2>1
    <2>6. to \in Nat /\ 1000 * to >= now + 1000 * whole
        BY <1>7
    <2> HIDE DEF now, to
    <2>3. rest \in Int /\ last \in Int /\ last >= rest
        BY ONLY <2>1, <2>2, <2>5, <2>6, RoundPasses
    <2> HIDE DEF last
    <2>4. Resting(chip'.line, 1, last)
        BY ONLY <1>5, <2>1, <2>3, RestingShows
    <2> QED BY <2>4 DEF last, to
<1>9. Recalls(mem') /\ mem'.entry = <<H, T>> /\ mem'.since = clock
    BY ONLY <1>1, <1>3, <1>5, Recalls(m) DEF Recalls
<1>10. mem'.entry = <<At(Quantity("dht1", "humidity"), mem'.since), At(Quantity("dht1", "temperature"), mem'.since)>>
    BY ONLY <1>9 DEF H, T
<1> QED BY ONLY <1>7, <1>8, <1>9, <1>10 DEF DhtKept

\* such as that of the firmware which prints,
LEMMA DhtSerialRound ==
    ASSUME DhtKept(mem, chip, clock),
           \A t \in Nat : At(Quantity("dht1", "humidity"), t) \in Byte /\ At(Quantity("dht1", "temperature"), t) \in Byte,
           ZephyrDht11Read
    PROVE  DhtKept(mem', chip', clock')
<1>1. PICK lines : DhtRound(DhtStarted, DhtRead, mem, lines, Nothing, 800)
    BY Zenon DEF ZephyrDht11Read
<1>2. Recalls(mem)
    BY DEF DhtKept
<1> DEFINE ms == 800
<1>3. ms \in Nat /\ ms >= 1 /\ DhtRound(DhtStarted, DhtRead, mem, lines, Nothing, ms)
    BY <1>1
<1> HIDE DEF ms
<1> QED BY <1>2, <1>3, DhtKeeps

\* Sixteenths of a degree fit a word.
Measures == {n \in Int : -2048 <= n /\ n <= 2047}

\* The DS18B20 waits for the master.  Its reading takes a while, which passes.
HeatKept(m, c, t) ==
    /\ Recalls(m) /\ t \in Nat /\ Waiting(c, 1000 * t)
    /\ m.entry # <<>> => \E at \in m.since..t : m.entry = <<16 * At(Degrees, at)>>
\* A round of the heat alarm reads a temperature of some time within it.
LEMMA HeatRounds ==
    ASSUME HeatKept(mem, chip, clock), \A t \in Nat : At(Degrees, t) \in Measures, ZephyrDs18b20HeatAlarm
    PROVE  HeatKept(mem', chip', clock')
<1>1. Recalls(mem) /\ clock \in Nat /\ mem.late \in Delays /\ Waiting(chip, Now) /\ Now \in Nat
    BY DEF HeatKept, Recalls, Now
<1> DEFINE read == ReadCx16([chip |-> chip, t |-> Now, in |-> <<>>])
<1>2. Exchanged(read, Now)
    <2>1. \A us \in Nat : ValueOf(Degrees, us) \in Int /\ 16 * ValueOf(Degrees, us) \in SignedWord
        <3> TAKE us \in Nat
        <3> DEFINE ms == us \div 1000
        <3>1. ms \in Nat
            OBVIOUS
        <3>2. ValueOf(Degrees, us) = At(Degrees, ms)
            BY DEF ValueOf
        <3> HIDE DEF ms
        <3>3. At(Degrees, ms) \in Measures
            BY ONLY <3>1, \A t \in Nat : At(Degrees, t) \in Measures
        <3>4. \A v : v \in Measures => v \in Int /\ 16 * v \in SignedWord
            BY DEF Measures, SignedWord
        <3> QED BY ONLY <3>2, <3>3, <3>4
    <2> HIDE DEF read
    <2> QED BY ONLY <1>1, <2>1, HeatReads DEF read
<1>0. \A u \in Int, v \in Int : u <= v /\ Waiting(chip', u) => Waiting(chip', v)
    <2> TAKE u \in Int, v \in Int
    <2> HAVE u <= v /\ Waiting(chip', u)
    <2>1. PICK last \in {0, 1}, low \in Nat : \E command, sent, pad, line :
              low <= u /\ chip' = OwChip(last, low, command, Quiet, sent, pad, line)
        BY DEF Waiting
    <2>2. PICK command, sent, pad, line : low <= u /\ chip' = OwChip(last, low, command, Quiet, sent, pad, line)
        BY <2>1
    <2>3. low <= v
        BY <2>2
    <2> QED BY ONLY <2>2, <2>3, last \in {0, 1}, low \in Nat, Zenon DEF Waiting
<1>3. ASSUME HeatRound(read)
      PROVE  HeatKept(mem', chip', clock')
    <2>1. PICK us \in Nat : us >= Now /\ us <= read.end.t /\ read.end.t \in Nat
                            /\ read.value = <<16 * ValueOf(Degrees, us)>> /\ Waiting(read.end.chip, read.end.t)
        BY ONLY <1>2 DEF Exchanged
    <2> DEFINE value == read.value
               end == read.end.t
               took == end - Now
               ms == Millis(took)
               at == us \div 1000
    <2> HIDE DEF read
    <2>2. took \in Nat
        BY <1>1, <2>1
    <2>3. value # <<>> /\ value = <<16 * At(Degrees, at)>>
        BY <2>1 DEF ValueOf
    <2> HIDE DEF value
    <2>4. /\ chip' = read.end.chip
          /\ mem' = [mem EXCEPT !.entry = value, !.state = 1, !.since = clock, !.count = mem.count]
          /\ \E late \in 0..Task.jitter : clock' = clock + ms + late
        BY <1>3, <2>3 DEF HeatRound, RoundWith, value
    <2>5. ms \in Nat /\ Now + 1000 * ms >= end
        <3> HIDE DEF took
        <3>1. Millis(took) \in Nat /\ 1000 * Millis(took) >= took
            BY <2>2, MillisCover
        <3> QED BY <1>1, <2>1, <2>2, <3>1 DEF took
    <2> HIDE DEF ms, took
    <2>6. clock' \in Nat /\ 1000 * clock' >= Now + 1000 * ms
        BY <1>1, <2>4, <2>5, RoundEnds
    <2>7. Recalls(mem') /\ mem'.entry = value /\ mem'.since = clock
        BY ONLY <1>1, <2>4 DEF Recalls
    <2>8. at \in clock..clock'
        <3> DEFINE from == clock
                   to == clock'
                   now == Now
        <3>1. now \in Nat /\ us \in Nat /\ from \in Nat /\ to \in Nat /\ end \in Nat
            BY ONLY <1>1, <2>1, <2>6
        <3>2. us <= end /\ now + 1000 * ms >= end /\ 1000 * to >= now + 1000 * ms
            BY ONLY <2>1, <2>5, <2>6
        <3>3. us >= 1000 * from
            BY ONLY <2>1 DEF Now
        <3> HIDE DEF end, from, to, now
        <3>4. 1000 * to \in Int /\ 1000 * to >= end
            BY ONLY <2>5, <3>1, <3>2, RoundPasses
        <3>5. us <= 1000 * to
            BY ONLY <3>1, <3>2, <3>4
        <3>6. us \div 1000 \in from..to
            BY ONLY <3>1, <3>3, <3>5
        <3> QED BY <3>6 DEF from, to
    <2>9. end \in Int /\ 1000 * clock' \in Int /\ end <= 1000 * clock' /\ Waiting(chip', end)
        BY <1>1, <2>1, <2>4, <2>5, <2>6
    <2>10. Waiting(chip', 1000 * clock')
        <3> HIDE DEF end
        <3> QED BY ONLY <1>0, <2>9
    <2> HIDE DEF at
    <2> QED BY ONLY <2>3, <2>6, <2>7, <2>8, <2>10 DEF HeatKept
<1>4. ASSUME NEW led, NEW levels, Round([mem EXCEPT !.state = 0, !.out = led], levels, Nothing, Nothing, 80)
      PROVE  HeatKept(mem', chip', clock')
    <2>2. /\ chip' = chip /\ mem' = [mem EXCEPT !.state = 0, !.out = led]
          /\ \E late \in 0..Task.jitter : clock' = clock + 80 + late
        BY <1>4 DEF Round, RoundWith
    <2>3. clock' \in Nat /\ clock' >= clock
        <3> DEFINE ms == 80
        <3>1. ms \in Nat /\ \E late \in 0..Task.jitter : clock' = clock + ms + late
            BY <2>2
        <3> HIDE DEF ms
        <3> QED BY <1>1, <3>1, RoundEnds
    <2>4. Recalls(mem') /\ mem'.entry = mem.entry /\ mem'.since = mem.since
        BY ONLY <1>1, <2>2 DEF Recalls
    <2>5. Now \in Int /\ 1000 * clock' \in Int /\ Now <= 1000 * clock' /\ Waiting(chip', Now)
        BY <1>1, <2>2, <2>3 DEF Now
    <2>6. Waiting(chip', 1000 * clock')
        BY ONLY <1>0, <2>5
    <2>7. \A at : at \in mem.since..clock => at \in mem.since..clock'
        BY <1>1, <2>3
    <2>8. mem'.entry # <<>> => \E at \in mem'.since..clock' : mem'.entry = <<16 * At(Degrees, at)>>
        BY <2>4, <2>7 DEF HeatKept
    <2> QED BY ONLY <2>3, <2>4, <2>6, <2>8 DEF HeatKept
<1> QED BY <1>3, <1>4, Zenon DEF ZephyrDs18b20HeatAlarm

\* One reading is shown at the start, then one for each press,
LEMMA DhtButtonRound ==
    ASSUME DhtKept(mem, chip, clock),
           \A t \in Nat : At(Quantity("dht1", "humidity"), t) \in Byte /\ At(Quantity("dht1", "temperature"), t) \in Byte,
           ZephyrDht11ButtonDisplay
    PROVE  DhtKept(mem', chip', clock')
<1>1. Recalls(mem) /\ clock \in Nat /\ Resting(chip.line, 1, Now)
    BY DEF DhtKept, Now
<1>2. ASSUME Round([mem EXCEPT !.mark = clock], Nothing, Nothing, Nothing, 20)
      PROVE  DhtKept(mem', chip', clock')
    <2> DEFINE ms == 20
    <2>1. ms \in Nat
        OBVIOUS
    <2>2. /\ chip' = chip /\ mem' = [mem EXCEPT !.mark = clock]
          /\ \E late \in 0..Task.jitter : clock' = clock + ms + late
        BY <1>2 DEF Round, RoundWith
    <2> HIDE DEF ms
    <2>3. clock' \in Nat /\ clock' >= clock
        BY <1>1, <2>1, <2>2, RoundEnds
    <2>4. Recalls(mem') /\ mem'.entry = mem.entry /\ mem'.since = mem.since
        BY ONLY <1>1, <2>2 DEF Recalls
    <2> DEFINE last == 1000 * clock'
               now == Now
    <2>5. now \in Int /\ last \in Int /\ now <= last
        <3> DEFINE from == clock
                   to == clock'
        <3>1. from \in Nat /\ to \in Nat /\ to >= from
            BY <1>1, <2>3
        <3> HIDE DEF from, to
        <3>2. 1000 * from \in Int /\ 1000 * to \in Int /\ 1000 * from <= 1000 * to
            BY ONLY <3>1
        <3> QED BY ONLY <3>2 DEF from, to, Now
    <2> HIDE DEF last, now
    <2>6. Resting(chip.line, 1, now)
        BY <1>1 DEF now
    <2>7. Resting(chip.line, 1, last)
        BY ONLY <2>5, <2>6, RestingShows
    <2>8. Resting(chip'.line, 1, 1000 * clock')
        BY <2>2, <2>7 DEF last
    <2>9. mem'.entry # <<>> => mem'.entry = <<At(Quantity("dht1", "humidity"), mem'.since),
                                             At(Quantity("dht1", "temperature"), mem'.since)>>
        BY ONLY <2>4, DhtKept(mem, chip, clock) DEF DhtKept
    <2> QED BY ONLY <2>3, <2>4, <2>8, <2>9 DEF DhtKept
<1>3. ASSUME NEW bytes, bytes = DhtScreen(DhtReading(DhtRead)),
             DhtRound(DhtStarted, DhtRead, [mem EXCEPT !.state = 1, !.mark = clock], Nothing, bytes,
                      20 + Len(bytes) \div 2)
      PROVE  DhtKept(mem', chip', clock')
    <2> DEFINE m == [mem EXCEPT !.state = 1, !.mark = clock]
               ms == 20 + Len(bytes) \div 2
    <2>1. Recalls(m)
        BY ONLY <1>1 DEF Recalls, m
    <2>2. ms \in Nat /\ ms >= 1
        BY <1>3, DhtScreenIsList
    <2>3. DhtRound(DhtStarted, DhtRead, m, Nothing, bytes, ms)
        BY <1>3
    <2> HIDE DEF m, ms
    <2> QED BY <2>1, <2>2, <2>3, DhtKeeps
<1> QED BY <1>2, <1>3, Zenon DEF ZephyrDht11ButtonDisplay

-----------------------------------------------------------------------------

\* The accelerometer stays awake, and a reading is a count for each of its axes.
Counted(entry, since) ==
    \A i \in 1..3 : /\ CountOf(entry[i], At(Quantity("imu1", Accels[i]), since))
                    /\ entry[i + 3] = 131 * At(Quantity("imu1", Rotations[i]), since)
\* What is kept between two rounds.
ImuKept(m, c, t) ==
    /\ Recalls(m) /\ t \in Nat /\ Awake(c)
    /\ m.entry # <<>> => Counted(m.entry, m.since)

\* What moves is within its range.
ImuMeasures ==
    /\ \A q \in DOMAIN PowerOn.mpu6050, t \in Nat : At(Quantity("imu1", q), t) \in Int
    /\ \A i \in 1..3, t \in Nat : /\ At(Quantity("imu1", Accels[i]), t) \in MilliG
                                  /\ At(Quantity("imu1", Rotations[i]), t) \in DegreesPerSecond

\* A round that reads the accelerometer keeps this, whatever else it remembers,
LEMMA ImuKeeps ==
    ASSUME ImuKept(mem, chip, clock), ImuMeasures,
           NEW m, Recalls(m), m.entry = MpuReading, m.since = clock,
           NEW lines, NEW bytes, NEW ms \in Nat, RoundWith(Afterwards, m, Nothing, lines, bytes, ms)
    PROVE  ImuKept(mem', chip', clock')
<1>1. clock \in Nat /\ Awake(chip)
    BY DEF ImuKept
<1>2. \A q \in DOMAIN PowerOn.mpu6050 : SensorReading("imu1", q) \in Int
    BY <1>1 DEF ImuMeasures, SensorReading
<1>3. \A i \in 1..3 : /\ SensorReading("imu1", Accels[i]) \in MilliG
                      /\ SensorReading("imu1", Rotations[i]) \in DegreesPerSecond
    BY <1>1, Zenon DEF ImuMeasures, SensorReading
<1>4. /\ \A i \in 1..3 :
            /\ CountOf(MpuReading[i], SensorReading("imu1", Accels[i]))
            /\ MpuReading[i + 3] = 131 * SensorReading("imu1", Rotations[i])
      /\ Awake(Afterwards)
    BY ONLY <1>1, <1>2, <1>3, ImuReads DEF Afterwards
<1>5. Counted(MpuReading, clock)
    BY ONLY <1>4 DEF Counted, SensorReading
<1>6. /\ chip' = Afterwards /\ mem' = m
      /\ \E late \in 0..Task.jitter : clock' = clock + ms + late
    BY Zenon DEF RoundWith
<1>7. clock' \in Nat
    BY <1>1, <1>6, RoundEnds
<1>8. Counted(mem'.entry, mem'.since)
    BY ONLY <1>5, <1>6, m.entry = MpuReading, m.since = clock
<1> QED BY ONLY <1>4, <1>6, <1>7, <1>8, Recalls(m) DEF ImuKept

\* so do the rounds that print it,
LEMMA ImuSerialRound ==
    ASSUME ImuKept(mem, chip, clock), ImuMeasures, ZephyrMpu6050ReadI2c
    PROVE  ImuKept(mem', chip', clock')
<1> DEFINE m == [mem EXCEPT !.entry = MpuReading, !.since = clock]
           ms == 150
<1>1. Recalls(mem) /\ clock \in Nat
    BY DEF ImuKept
<1>2. Recalls(m) /\ m.entry = MpuReading /\ m.since = clock
    BY ONLY <1>1 DEF Recalls, m
<1>3. ms \in Nat
    OBVIOUS
<1>4. PICK lines : RoundWith(Afterwards, m, Nothing, lines, Nothing, ms)
    BY Zenon DEF ZephyrMpu6050ReadI2c
<1> HIDE DEF m, ms
<1> QED BY <1>2, <1>3, <1>4, ImuKeeps

\* show it when the button was pressed,
LEMMA ImuButtonRound ==
    ASSUME ImuKept(mem, chip, clock), ImuMeasures, ZephyrMpu6050ButtonDisplay
    PROVE  ImuKept(mem', chip', clock')
<1>1. Recalls(mem) /\ clock \in Nat /\ Awake(chip)
    BY DEF ImuKept
<1>2. ASSUME Round([mem EXCEPT !.mark = clock], Nothing, Nothing, Nothing, 5)
      PROVE  ImuKept(mem', chip', clock')
    <2> DEFINE ms == 5
    <2>1. ms \in Nat
        OBVIOUS
    <2>2. /\ chip' = chip /\ mem' = [mem EXCEPT !.mark = clock]
          /\ \E late \in 0..Task.jitter : clock' = clock + ms + late
        BY <1>2 DEF Round, RoundWith
    <2> HIDE DEF ms
    <2>3. clock' \in Nat
        BY <1>1, <2>1, <2>2, RoundEnds
    <2>4. Recalls(mem') /\ mem'.entry = mem.entry /\ mem'.since = mem.since
        BY ONLY <1>1, <2>2 DEF Recalls
    <2>5. mem'.entry # <<>> => Counted(mem'.entry, mem'.since)
        BY ONLY <2>4, ImuKept(mem, chip, clock) DEF ImuKept
    <2> QED BY ONLY <1>1, <2>2, <2>3, <2>4, <2>5 DEF ImuKept
<1>3. ASSUME NEW bytes, bytes = LcdShowImu(MpuReading),
             RoundWith(Afterwards, [mem EXCEPT !.entry = MpuReading, !.since = clock, !.mark = clock],
                       Nothing, Nothing, bytes, 5 + Len(bytes) \div 2)
      PROVE  ImuKept(mem', chip', clock')
    <2> DEFINE m == [mem EXCEPT !.entry = MpuReading, !.since = clock, !.mark = clock]
               ms == 5 + Len(bytes) \div 2
    <2>1. Recalls(m) /\ m.entry = MpuReading /\ m.since = clock
        BY ONLY <1>1 DEF Recalls, m
    <2>2. ms \in Nat
        BY <1>3, ImuScreenIsList
    <2>3. RoundWith(Afterwards, m, Nothing, Nothing, bytes, ms)
        BY <1>3
    <2> HIDE DEF m, ms
    <2> QED BY <2>1, <2>2, <2>3, ImuKeeps
<1> QED BY <1>2, <1>3, Zenon DEF ZephyrMpu6050ButtonDisplay

\* and show the mean of ten.
LEMMA ImuPeriodicRound ==
    ASSUME ImuKept(mem, chip, clock), ImuMeasures, ZephyrMpu6050PeriodicDisplay
    PROVE  ImuKept(mem', chip', clock')
<1>1. Recalls(mem) /\ clock \in Nat
    BY DEF ImuKept
<1>2. ASSUME NEW bytes, bytes = Nothing \/ \E mean : bytes = LcdShowImu(mean), NEW sums, NEW state,
             RoundWith(Afterwards, [mem EXCEPT !.entry = MpuReading, !.since = clock, !.key = sums, !.state = state],
                       Nothing, Nothing, bytes, 100 + Len(bytes) \div 2)
      PROVE  ImuKept(mem', chip', clock')
    <2> DEFINE m == [mem EXCEPT !.entry = MpuReading, !.since = clock, !.key = sums, !.state = state]
               ms == 100 + Len(bytes) \div 2
    <2>1. Recalls(m) /\ m.entry = MpuReading /\ m.since = clock
        BY ONLY <1>1 DEF Recalls, m
    <2>2. Len(bytes) \in Nat
        BY <1>2, ImuScreenIsList DEF Nothing
    <2>3. ms \in Nat
        BY <2>2
    <2>4. RoundWith(Afterwards, m, Nothing, Nothing, bytes, ms)
        BY <1>2
    <2> HIDE DEF m, ms
    <2> QED BY <2>1, <2>3, <2>4, ImuKeeps
<1> QED
    <2> DEFINE sums == [i \in 1..6 |-> MpuReading[i] + IF mem.state = 0 THEN 0 ELSE mem.key[i]]
               bytes == IF mem.state = 9 THEN LcdShowImu([i \in 1..6 |-> Tenth(sums[i])]) ELSE Nothing
               state == (mem.state + 1) % 10
    <2>1. RoundWith(Afterwards, [mem EXCEPT !.entry = MpuReading, !.since = clock, !.key = sums, !.state = state],
                    Nothing, Nothing, bytes, 100 + Len(bytes) \div 2)
        BY Zenon DEF ZephyrMpu6050PeriodicDisplay
    <2>2. bytes = Nothing \/ \E mean : bytes = LcdShowImu(mean)
        BY Zenon
    <2> HIDE DEF sums, bytes, state
    <2> QED BY <1>2, <2>1, <2>2, Zenon

-----------------------------------------------------------------------------
(* The quantities that a sensor is set to *)

\* A monitor script is a list, so its drives are one.
LEMMA DrivesAreList ==
    ASSUME NEW script, NEW n \in Nat, DOMAIN script = 1..n
    PROVE  \E m \in Nat : DOMAIN RenodeDrives(script) = 1..m
<1>1. PICK h : MonitorFold!Runs(h, Start, script, n) /\ MonitorFold!Folded(Start, script) = h[n]
    BY MonitorFold!FoldSteps
<1> DEFINE U == {Overlay([at |-> h[p[1]].at], script[p[2]]) : p \in (0..n) \X (1..n)}
           A == {k \in Nat : k <= n => "drives" \in DOMAIN h[k] /\ h[k].drives \in Seq(U)}
<1>2. 0 \in A
    <2>1. h[0] = Start
        BY <1>1 DEF MonitorFold!Runs
    <2>2. "drives" \in DOMAIN Start /\ Start.drives = <<>>
        BY DEF Start
    <2>3. <<>> \in Seq(U)
        OBVIOUS
    <2> HIDE DEF U
    <2> QED BY <2>1, <2>2, <2>3
<1>3. ASSUME NEW k \in Nat, k \in A PROVE k + 1 \in A
    <2> SUFFICES ASSUME k + 1 <= n PROVE "drives" \in DOMAIN h[k + 1] /\ h[k + 1].drives \in Seq(U)
        OBVIOUS
    <2>1. k + 1 \in 1..n /\ (k + 1) - 1 = k /\ k \in 0..n
        OBVIOUS
    <2>2. h[k + 1] = MonitorStep(h[k], script[k + 1])
        BY <1>1, <2>1 DEF MonitorFold!Runs
    <2>3. "drives" \in DOMAIN h[k] /\ h[k].drives \in Seq(U)
        BY <1>3, <2>1
    <2>4. Overlay([at |-> h[k].at], script[k + 1]) \in U
        <3>1. <<k, k + 1>> \in (0..n) \X (1..n)
            BY <2>1
        <3> QED BY <3>1
    <2> HIDE DEF U
    <2>5. CASE script[k + 1].kind = "run"
        BY <2>2, <2>3, <2>5 DEF MonitorStep
    <2>6. CASE script[k + 1].kind # "run"
        <3>1. h[k + 1] = [h[k] EXCEPT !.drives = Append(@, Overlay([at |-> h[k].at], script[k + 1]))]
            BY <2>2, <2>6 DEF MonitorStep
        <3> QED BY <2>3, <2>4, <3>1
    <2> QED BY <2>5, <2>6
<1> HIDE DEF A, U
<1>4. n \in A
    BY <1>2, <1>3, SumFold!NatSet
<1>5. h[n].drives \in Seq(U)
    BY <1>4 DEF A
<1>6. RenodeDrives(script) = h[n].drives
    BY <1>1, MonitorIsFold DEF Monitor
<1> QED BY <1>5, <1>6

\* The script that the steps of a run become is a list.
LEMMA ScriptIsList ==
    ASSUME NEW run, Checked(run)
    PROVE  \E n \in Nat : DOMAIN RenodeScript(run, Steps(run)) = 1..n
<1> DEFINE steps == Steps(run)
           f == StepsToResc(steps)
           script == GenerateResc(steps, run.timeout)
           T == ToSet(steps)
<1>1. StepList(steps) /\ run.timeout \in Nat
    BY StepsFit DEF Checked
<1>2. f.commands \in Seq(Commands(T))
    BY <1>1, StepsFollow, FlushFollows, RescIsFold DEF ScriptFollows
<1>3. f.elapsed \in Nat
    BY <1>1, StepsFollow, FlushFollows, RescIsFold DEF ScriptFollows
<1>4. script \in Seq(Commands(T))
    <2>1. CASE run.timeout > f.elapsed
        <3>1. RunFor(run.timeout - f.elapsed) \in Commands(T)
            BY <1>1, <1>3, <2>1 DEF RunFor, Commands
        <3>2. script = Append(f.commands, RunFor(run.timeout - f.elapsed))
            BY <2>1 DEF GenerateResc
        <3> HIDE DEF f, T, script
        <3> QED BY <1>2, <3>1, <3>2
    <2>2. CASE ~(run.timeout > f.elapsed)
        BY <1>2, <2>2 DEF GenerateResc
    <2> QED BY <2>1, <2>2
<1>5. DOMAIN RenodeScript(run, steps) = DOMAIN script
    BY DEF RenodeScript
<1> HIDE DEF script, T
<1> QED BY <1>4, <1>5

\* So a quantity of a run has a value from the start on, and always one of those
\* that it is set to.
LEMMA QuantityHasValue ==
    ASSUME NEW run, Checked(run), Profile(run).backend = "renode",
           NEW pair \in Quantities(run), NEW t \in Nat
    PROVE  \E x \in ToSet(Hardware(run).sensor[pair]) : At(Hardware(run).sensor[pair], t) = x.v
<1> DEFINE drives == Drives(run)
           times == <<0>> \o [i \in DOMAIN drives |-> drives[i].at]
           wave == Hardware(run).sensor[pair]
<1>1. PICK m \in Nat : DOMAIN drives = 1..m
    BY ScriptIsList, DrivesAreList DEF Drives
<1>2. DOMAIN times = 1..(m + 1) /\ times[1] = 0
    <2> DEFINE ats == [i \in DOMAIN drives |-> drives[i].at]
    <2>1. ats \in Seq({drives[i].at : i \in 1..m}) /\ Len(ats) = m
        BY <1>1
    <2> HIDE DEF ats
    <2>2. DOMAIN (<<0>> \o ats) = 1..(m + 1) /\ (<<0>> \o ats)[1] = 0
        BY <2>1
    <2> QED BY <2>2 DEF ats
<1>3. DOMAIN wave = DOMAIN times /\ \A i \in DOMAIN times : wave[i].at = times[i]
    BY DEF Hardware, Wave
<1> HIDE DEF drives, times, wave
<1>4. m + 1 \in Nat /\ DOMAIN wave = 1..(m + 1) /\ 1 <= m + 1 /\ wave[1].at <= t
    BY <1>1, <1>2, <1>3
<1>5. PICK i \in 1..(m + 1) : At(wave, t) = wave[i].v
    BY ONLY <1>4, ShowsSome, t \in Nat
<1>6. wave[i] \in ToSet(wave)
    BY <1>4 DEF ToSet
<1> QED BY <1>5, <1>6 DEF wave

-----------------------------------------------------------------------------
(* The bench of a task with a sensor *)

\* What runs is the hardware that was prepared for the variant.
Prepared == phase \in {"boot", "run"} => bench = Hardware(Jobs[job][stage])

\* It holds, since only Prepare changes it and only between two runs.
LEMMA PreparedNext == Placed /\ Prepared /\ [Next]_vars => Prepared'
<1> SUFFICES ASSUME Placed, Prepared, [Next]_vars PROVE Prepared'
    OBVIOUS
<1>1. CASE Prepare
    BY <1>1 DEF Prepare, Prepared, Jobs
<1>2. CASE Boot
    BY <1>2 DEF Boot, Prepared, Jobs
<1>3. CASE ZephyrLoop \/ EspLoop \/ ArduinoLoop
    BY <1>3, RoundsLeaveJob DEF Prepared, Jobs
<1>4. CASE Lint \/ Timeout \/ Judge
    <2>1. phase' \notin {"boot", "run"}
        BY <1>4 DEF Lint, Timeout, Judge
    <2> QED BY <2>1 DEF Prepared
<1>5. CASE UNCHANGED vars
    BY <1>5 DEF vars, Prepared, Jobs
<1> QED BY <1>1, <1>2, <1>3, <1>4, <1>5 DEF Next

\* The sensor of the task, if its firmware is the one that reads sensors.
Sensor == SensorOf[Task.task_id]
Senses == Is("zephyr_nano33ble", DOMAIN SensorOf)

\* The chip of such a bench is the one of its task, and what it is to measure can be
\* measured at all times.
LEMMA SensorIsThere ==
    ASSUME Placed, Prepared, phase \in {"boot", "run"}, Senses
    PROVE  /\ {p.type : p \in ToSet(RenodeParts(Task))} \cap ChipTypes = {Sensor.type}
           /\ \A control \in DOMAIN Measurable[Sensor.type], t \in Nat :
                 At(Quantity(Sensor.id, control), t) \in Measurable[Sensor.type][control]
<1>1. /\ job \in DOMAIN Tasks /\ stage \in DOMAIN RunsOf(Tasks[job]) /\ Task = RunsOf(Tasks[job])[stage]
      /\ stage \in DOMAIN Jobs[job] /\ Task = Jobs[job][stage]
    BY DEF Placed, Jobs
<1>2. TypedTask(Tasks[job])
    BY <1>1, TasksAssumption
<1>3. Task.platform = Tasks[job].platform /\ Task.task_id = Tasks[job].task_id
    <2>1. CASE Tasks[job].variants = <<>>
        BY <1>1, <2>1 DEF RunsOf
    <2>2. CASE Tasks[job].variants # <<>>
        <3>1. Task = TaskForVariant(Tasks[job], Tasks[job].variants[stage])
            BY <1>1, <2>2 DEF RunsOf
        <3> QED BY <1>2, <3>1, VariantOfTask
    <2> QED BY <2>1, <2>2
<1>4. Equipped(Task)
    BY <1>1, <1>3, SensorsAssumption DEF Senses, Is
<1>5. Checked(Task)
    BY BenchIsChecked
<1>6. Profile(Task).backend = "renode"
    <2>1. Task.platform = "zephyr_nano33ble"
        BY DEF Senses, Is
    <2>2. Profiles["zephyr_nano33ble"].backend = "renode"
        BY DEF Profiles
    <2> QED BY <2>1, <2>2 DEF Profile
<1>7. bench = Hardware(Task)
    BY <1>1 DEF Prepared
<1>8. ASSUME NEW control \in DOMAIN Measurable[Sensor.type], NEW t \in Nat
      PROVE  At(Quantity(Sensor.id, control), t) \in Measurable[Sensor.type][control]
    <2> DEFINE pair == <<Sensor.id, control>>
               wave == Hardware(Task).sensor[pair]
    <2>1. /\ pair \in Quantities(Task)
          /\ \A x \in ToSet(wave) : x.v \in Measurable[Sensor.type][control]
        BY <1>4, <1>8 DEF Equipped, Sensor
    <2>2. \E x \in ToSet(wave) : At(wave, t) = x.v
        BY ONLY <1>5, <1>6, <2>1, t \in Nat, QuantityHasValue
    <2>3. Quantity(Sensor.id, control) = wave
        BY <1>7 DEF Quantity
    <2> HIDE DEF wave
    <2> QED BY <2>1, <2>2, <2>3
<1> QED BY <1>4, <1>8 DEF Equipped, Sensor

-----------------------------------------------------------------------------
(* The invariant *)

\* What the firmware of a task with a sensor keeps between two rounds.  Only that of
\* the Nano 33 BLE has one for such a task; no other ever reads.
SonarTasks == {"hcsr04_find_distance"}
DhtTasks == {"dht11_read", "dht11_read_button_display"}
HeatTasks == {"ds18b20_heat_alarm"}
ImuTasks == {"mpu6050_read_i2c", "mpu6050_read_button_display", "mpu6050_read_periodic_display"}
Senseless == Task.task_id \in DOMAIN SensorOf /\ ~Senses
Kept(m, c, t) ==
    /\ Is("zephyr_nano33ble", SonarTasks) => SonarKept(m, c, t)
    /\ Is("zephyr_nano33ble", DhtTasks) => DhtKept(m, c, t)
    /\ Is("zephyr_nano33ble", HeatTasks) => HeatKept(m, c, t)
    /\ Is("zephyr_nano33ble", ImuTasks) => ImuKept(m, c, t)
    /\ Senseless => m.entry = <<>> /\ m.count = 0
\* While the firmware runs, this holds of what it remembers, the chip and the time.
Measured == phase = "run" => Kept(mem, chip, clock)

\* It says that readings are values.
LEMMA MeasuredIsRight == Measured => ReadingsAreValues
<1> SUFFICES ASSUME Measured, phase = "run" PROVE ReadingsAreValues
    BY DEF ReadingsAreValues
<1>1. Kept(mem, chip, clock)
    BY DEF Measured
<1>2. Task.task_id \in DOMAIN SensorOf /\ ~Senses => mem.entry = <<>> /\ mem.count = 0
    BY <1>1 DEF Kept, Senseless
<1>3. DOMAIN SensorOf = SonarTasks \cup DhtTasks \cup HeatTasks \cup ImuTasks
    BY DEF SensorOf, SonarTasks, DhtTasks, HeatTasks, ImuTasks
<1>4. Senses <=> Task.platform = "zephyr_nano33ble" /\ Task.task_id \in DOMAIN SensorOf
    BY DEF Senses, Is
<1>5. ASSUME Task.task_id \in SonarTasks
      PROVE  mem.count = 0 /\ (mem.entry # <<>> => mem.entry[1] - At(Distance, mem.since) \in -2..1)
    BY <1>1, <1>2, <1>3, <1>4, <1>5 DEF Kept, SonarKept, Recalls, Is
<1>6. ASSUME Task.task_id \in DhtTasks
      PROVE  mem.count = 0 /\ (mem.entry # <<>> => mem.entry = <<At(Quantity("dht1", "humidity"), mem.since),
                                                              At(Quantity("dht1", "temperature"), mem.since)>>)
    BY <1>1, <1>2, <1>3, <1>4, <1>6 DEF Kept, DhtKept, Recalls, Is
<1>7. ASSUME Task.task_id \in HeatTasks
      PROVE  mem.count = 0 /\ (mem.entry # <<>> => \E t \in mem.since..clock : mem.entry = <<16 * At(Degrees, t)>>)
    BY <1>1, <1>2, <1>3, <1>4, <1>7 DEF Kept, HeatKept, Recalls, Is
<1>8. ASSUME Task.task_id \in ImuTasks
      PROVE  mem.entry # <<>> => Counted(mem.entry, mem.since)
    BY <1>1, <1>2, <1>3, <1>4, <1>8 DEF Kept, ImuKept, Is
<1>9. ASSUME Counted(mem.entry, mem.since), NEW i \in 1..3
      PROVE  LET accel == <<"accelX", "accelY", "accelZ">>[i]
                 rotation == <<"rotationX", "rotationY", "rotationZ">>[i]
                 a == 1000 * mem.entry[i]
                 b == 16384 * At(Quantity("imu1", accel), mem.since)
             IN /\ a - b <= 500 /\ b - a <= 500
                /\ mem.entry[i + 3] = 131 * At(Quantity("imu1", rotation), mem.since)
    <2>1. /\ CountOf(mem.entry[i], At(Quantity("imu1", Accels[i]), mem.since))
          /\ mem.entry[i + 3] = 131 * At(Quantity("imu1", Rotations[i]), mem.since)
        BY <1>9 DEF Counted
    <2> QED BY ONLY <2>1 DEF CountOf, Accels, Rotations
<1> DEFINE id == Task.task_id
<1>10. CASE id \in SonarTasks
    BY <1>5, <1>10 DEF ReadingsAreValues, SonarTasks
<1>11. CASE id \in DhtTasks
    BY <1>6, <1>11 DEF ReadingsAreValues, DhtTasks
<1>12. CASE id \in HeatTasks
    BY <1>7, <1>12 DEF ReadingsAreValues, HeatTasks
<1>13. CASE id \in ImuTasks
    BY <1>8, <1>9, <1>13 DEF ReadingsAreValues, ImuTasks
<1>14. CASE id \notin SonarTasks \cup DhtTasks \cup HeatTasks \cup ImuTasks
    BY <1>14 DEF ReadingsAreValues, SonarTasks, DhtTasks, HeatTasks, ImuTasks
<1> QED BY <1>10, <1>11, <1>12, <1>13, <1>14

\* What the sensor of a task is set to.
LEMMA SensorFits ==
    ASSUME Placed, Prepared, phase \in {"boot", "run"}
    PROVE  /\ Is("zephyr_nano33ble", SonarTasks) => \A t \in Nat : At(Distance, t) \in 2..512
           /\ Is("zephyr_nano33ble", DhtTasks) => \A t \in Nat : /\ At(Quantity("dht1", "humidity"), t) \in Byte
                                                                /\ At(Quantity("dht1", "temperature"), t) \in Byte
           /\ Is("zephyr_nano33ble", HeatTasks) => \A t \in Nat : At(Degrees, t) \in Measures
           /\ Is("zephyr_nano33ble", ImuTasks) => ImuMeasures
<1>1. ASSUME NEW type, NEW id, NEW names, Is("zephyr_nano33ble", names), names \subseteq DOMAIN SensorOf,
             \A name \in names : SensorOf[name] = [type |-> type, id |-> id]
      PROVE  \A control \in DOMAIN Measurable[type], t \in Nat : At(Quantity(id, control), t) \in Measurable[type][control]
    <2>1. Senses
        BY <1>1 DEF Senses, Is
    <2>2. Sensor = [type |-> type, id |-> id]
        BY <1>1 DEF Sensor, Is
    <2>3. Sensor.type = type /\ Sensor.id = id
        BY <2>2
    <2> QED BY <2>1, <2>3, SensorIsThere
<1>2. ASSUME Is("zephyr_nano33ble", SonarTasks) PROVE \A t \in Nat : At(Distance, t) \in 2..512
    <2>1. SonarTasks \subseteq DOMAIN SensorOf /\ \A name \in SonarTasks : SensorOf[name] = [type |-> "hcsr04", id |-> "sonar1"]
        BY DEF SonarTasks, SensorOf
    <2>2. \A control \in DOMAIN Measurable["hcsr04"], t \in Nat :
             At(Quantity("sonar1", control), t) \in Measurable["hcsr04"][control]
        BY ONLY <1>1, <1>2, <2>1
    <2>3. "distance" \in DOMAIN Measurable["hcsr04"] /\ Measurable["hcsr04"]["distance"] = 2..512
        BY DEF Measurable
    <2> QED BY <2>2, <2>3, Zenon DEF Distance
<1>3. ASSUME Is("zephyr_nano33ble", DhtTasks)
      PROVE  \A t \in Nat : /\ At(Quantity("dht1", "humidity"), t) \in Byte
                            /\ At(Quantity("dht1", "temperature"), t) \in Byte
    <2>1. DhtTasks \subseteq DOMAIN SensorOf /\ \A name \in DhtTasks : SensorOf[name] = [type |-> "dht11", id |-> "dht1"]
        BY DEF DhtTasks, SensorOf
    <2>2. \A control \in DOMAIN Measurable["dht11"], t \in Nat :
             At(Quantity("dht1", control), t) \in Measurable["dht11"][control]
        BY ONLY <1>1, <1>3, <2>1
    <2>3. /\ {"humidity", "temperature"} \subseteq DOMAIN Measurable["dht11"]
          /\ \A q \in {"humidity", "temperature"} : Measurable["dht11"][q] = Byte
        BY DEF Measurable, Byte
    <2> QED BY ONLY <2>2, <2>3
<1>4. ASSUME Is("zephyr_nano33ble", HeatTasks) PROVE \A t \in Nat : At(Degrees, t) \in Measures
    <2>1. HeatTasks \subseteq DOMAIN SensorOf /\ \A name \in HeatTasks : SensorOf[name] = [type |-> "ds18b20", id |-> "temp1"]
        BY DEF HeatTasks, SensorOf
    <2>2. \A control \in DOMAIN Measurable["ds18b20"], t \in Nat :
             At(Quantity("temp1", control), t) \in Measurable["ds18b20"][control]
        BY ONLY <1>1, <1>4, <2>1
    <2>3. "temperature" \in DOMAIN Measurable["ds18b20"] /\ Measurable["ds18b20"]["temperature"] = DegreesCelsius
        BY DEF Measurable
    <2>4. DegreesCelsius = Measures
        <3> DEFINE a == -2048
                   b == 2047
        <3>1. a \in Int /\ b \in Int
            OBVIOUS
        <3>2. DegreesCelsius = a..b /\ Measures = {n \in Int : a <= n /\ n <= b}
            BY DEF DegreesCelsius, Measures
        <3> HIDE DEF a, b
        <3>3. a..b = {n \in Int : a <= n /\ n <= b}
            BY <3>1
        <3> QED BY <3>2, <3>3
    <2> QED BY ONLY <2>2, <2>3, <2>4, Zenon DEF Degrees
<1>5. ASSUME Is("zephyr_nano33ble", ImuTasks) PROVE ImuMeasures
    <2>1. ImuTasks \subseteq DOMAIN SensorOf /\ \A name \in ImuTasks : SensorOf[name] = [type |-> "mpu6050", id |-> "imu1"]
        BY DEF ImuTasks, SensorOf
    <2> DEFINE M == Measurable["mpu6050"]
    <2>2. \A control \in DOMAIN M, t \in Nat : At(Quantity("imu1", control), t) \in M[control]
        BY ONLY <1>1, <1>5, <2>1
    <2>7. MilliG \subseteq Int /\ DegreesPerSecond \subseteq Int
        <3>1. \A a, b \in Int : a..b \subseteq Int
            OBVIOUS
        <3> QED BY <3>1 DEF MilliG, DegreesPerSecond
    <2>3. DOMAIN M = DOMAIN PowerOn.mpu6050 /\ \A q \in DOMAIN M : M[q] \subseteq Int
        BY <2>7 DEF Measurable, PowerOn
    <2>4. \A i \in 1..3 : /\ Accels[i] \in DOMAIN M /\ M[Accels[i]] = MilliG
                          /\ Rotations[i] \in DOMAIN M /\ M[Rotations[i]] = DegreesPerSecond
        BY DEF Measurable, Accels, Rotations
    <2> HIDE DEF M
    <2>5. ASSUME NEW q \in DOMAIN PowerOn.mpu6050, NEW t \in Nat PROVE At(Quantity("imu1", q), t) \in Int
        <3>1. q \in DOMAIN M /\ M[q] \subseteq Int
            BY <2>3
        <3> QED BY ONLY <2>2, <3>1, t \in Nat
    <2>6. ASSUME NEW i \in 1..3, NEW t \in Nat
          PROVE  At(Quantity("imu1", Accels[i]), t) \in MilliG /\ At(Quantity("imu1", Rotations[i]), t) \in DegreesPerSecond
        BY ONLY <2>2, <2>4, i \in 1..3, t \in Nat, Zenon
    <2> QED BY <2>5, <2>6 DEF ImuMeasures
<1> QED BY <1>2, <1>3, <1>4, <1>5

\* A chip at rest when the board starts.
LEMMA RestAtBoot ==
    ASSUME NEW level, NEW t \in Nat
    PROVE  Resting(<<[at |-> 0, v |-> level]>>, level, 1000 * t)
<1> DEFINE line == <<[at |-> 0, v |-> level]>>
           us == 1000 * t
<1>1. us \in Nat
    OBVIOUS
<1>2. DOMAIN line = 1..1 /\ line[1].at = 0 /\ line[1].v = level
    OBVIOUS
<1> HIDE DEF line, us
<1>3. Resting(line, level, us)
    BY <1>1, <1>2 DEF Resting
<1> QED BY <1>3 DEF line, us

\* The variables of a sketch when it starts: nothing was read yet.
Starting(m, boot, late, time) ==
    m = [[FirstVariables(boot) EXCEPT !.late = late]
            EXCEPT !.since = IF Task.platform = "arduino_mega" THEN 0 ELSE time, !.mark = time]
\* It recalls nothing, then.
Unread(m) == Recalls(m) /\ m.entry = <<>> /\ m.count = 0
\* So the sketch of a task with a sensor starts.
LEMMA FirstRecalls ==
    ASSUME NEW boot, NEW late \in Delays, NEW time \in Nat,
           Task.task_id \in DOMAIN SensorOf,
           NEW m, Starting(m, boot, late, time)
    PROVE  Unread(m)
<1> DEFINE first == FirstVariables(boot)
           second == [first EXCEPT !.late = late]
<1>1. Task.task_id # "sensor_water_level_display"
    BY DEF SensorOf
<1>2. /\ {"entry", "since", "count", "late", "mark"} \subseteq DOMAIN first
      /\ first.entry = <<>> /\ first.count = 0
    <2>1. PICK last : first = [Registers EXCEPT !.last = last, !.count = IF Is("zephyr_nano33ble", {"sensor_water_level_display"}) THEN -1 ELSE 0]
        BY Zenon DEF FirstVariables
    <2> HIDE DEF first
    <2>2. first = [Registers EXCEPT !.last = last, !.count = 0]
        BY <1>1, <2>1 DEF Is
    <2>3. {"entry", "since", "count", "late", "mark", "last"} \subseteq DOMAIN Registers /\ Registers.entry = <<>>
        BY DEF Registers
    <2> QED BY ONLY <2>2, <2>3
<1> HIDE DEF first
<1>3. /\ {"entry", "since", "count", "late", "mark"} \subseteq DOMAIN second
      /\ second.entry = <<>> /\ second.count = 0 /\ second.late \in Delays
    BY ONLY <1>2, late \in Delays DEF second
<1>4. m = [second EXCEPT !.since = IF Task.platform = "arduino_mega" THEN 0 ELSE time, !.mark = time]
    BY DEF first, Starting
<1> HIDE DEF second
<1> DEFINE since == IF Task.platform = "arduino_mega" THEN 0 ELSE time
<1>5. since \in Nat
    OBVIOUS
<1> HIDE DEF since
<1>6. m = [second EXCEPT !.since = since, !.mark = time]
    BY <1>4 DEF since
<1> QED BY ONLY <1>3, <1>5, <1>6 DEF Recalls, Unread

\* The boot of the board begins with a chip at rest and no reading.
LEMMA BootKeeps ==
    ASSUME Placed, Prepared, Boot
    PROVE  Kept(mem', chip', clock')
<1>0. phase = "boot"
    BY DEF Boot
<1>1. PICK boot \in Boots[Task.platform], bytes \in FirstBytes,
           late \in IF ChipsAtBoot = {<<>>} THEN {OnTime} ELSE Delays :
           PowerUp(boot + DisplayDelay, [FirstVariables(boot) EXCEPT !.late = late], bytes)
    BY DEF Boot
<1> DEFINE time == boot + DisplayDelay
<1>2. time \in Nat
    <2>1. boot \in Nat
        BY <1>0, BenchIsWired, BootsAssumption
    <2> QED BY <2>1 DEF DisplayDelay
<1> HIDE DEF time
<1>3. /\ clock' = time /\ chip' \in ChipsAtBoot
      /\ mem' = [[FirstVariables(boot) EXCEPT !.late = late]
                    EXCEPT !.since = IF Task.platform = "arduino_mega" THEN 0 ELSE time, !.mark = time]
    BY <1>1, Zenon DEF PowerUp, time
<1>4. late \in Delays
    BY DelaysAssumption
<1>5. Task.task_id \in DOMAIN SensorOf => Recalls(mem') /\ mem'.entry = <<>> /\ mem'.count = 0
    <2> SUFFICES ASSUME Task.task_id \in DOMAIN SensorOf PROVE Recalls(mem') /\ mem'.entry = <<>> /\ mem'.count = 0
        OBVIOUS
    <2>1. Starting(mem', boot, late, time)
        BY ONLY <1>3 DEF Starting
    <2>2. Unread(mem')
        BY ONLY <1>2, <1>4, <2>1, Task.task_id \in DOMAIN SensorOf, FirstRecalls
    <2> QED BY <2>2 DEF Unread
<1>6. ASSUME NEW type, NEW names, Is("zephyr_nano33ble", names), names \subseteq DOMAIN SensorOf,
             \A name \in names : SensorOf[name].type = type
      PROVE  /\ Task.task_id \in DOMAIN SensorOf
             /\ (IF Profile(Task).backend = "wokwi" THEN {}
                 ELSE {p.type : p \in ToSet(RenodeParts(Task))} \cap ChipTypes) = {type}
    <2>1. Senses /\ Sensor.type = type
        BY <1>6 DEF Senses, Sensor, Is
    <2>2. Profile(Task).backend = "renode"
        <3>1. Task.platform = "zephyr_nano33ble"
            BY <1>6 DEF Is
        <3>2. Profiles["zephyr_nano33ble"].backend = "renode"
            BY DEF Profiles
        <3> QED BY <3>1, <3>2 DEF Profile
    <2>3. {p.type : p \in ToSet(RenodeParts(Task))} \cap ChipTypes = {type}
        BY <1>0, <2>1, SensorIsThere
    <2>4. Task.task_id \in DOMAIN SensorOf
        BY <2>1 DEF Senses, Is
    <2> QED BY ONLY <2>2, <2>3, <2>4
<1>7. ASSUME Is("zephyr_nano33ble", SonarTasks) PROVE SonarKept(mem', chip', clock')
    <2>1. SonarTasks \subseteq DOMAIN SensorOf /\ \A name \in SonarTasks : SensorOf[name].type = "hcsr04"
        BY DEF SonarTasks, SensorOf
    <2>2. /\ Task.task_id \in DOMAIN SensorOf
          /\ (IF Profile(Task).backend = "wokwi" THEN {}
              ELSE {p.type : p \in ToSet(RenodeParts(Task))} \cap ChipTypes) = {"hcsr04"}
        BY ONLY <1>6, <1>7, <2>1
    <2>3. chip' = SonarReset
        BY ONLY <1>3, <2>2 DEF ChipsAtBoot
    <2>4. chip'.last = 0 /\ chip'.line = <<[at |-> 0, v |-> 0]>>
        BY <2>3 DEF SonarReset
    <2>5. Resting(chip'.line, 0, 1000 * clock')
        BY ONLY <1>2, <1>3, <2>4, RestAtBoot
    <2> QED BY ONLY <1>2, <1>3, <1>5, <2>2, <2>4, <2>5 DEF SonarKept
<1>8. ASSUME Is("zephyr_nano33ble", DhtTasks) PROVE DhtKept(mem', chip', clock')
    <2>1. DhtTasks \subseteq DOMAIN SensorOf /\ \A name \in DhtTasks : SensorOf[name].type = "dht11"
        BY DEF DhtTasks, SensorOf
    <2>2. /\ Task.task_id \in DOMAIN SensorOf
          /\ (IF Profile(Task).backend = "wokwi" THEN {}
              ELSE {p.type : p \in ToSet(RenodeParts(Task))} \cap ChipTypes) = {"dht11"}
        BY ONLY <1>6, <1>8, <2>1
    <2>3. chip' = DhtReset \/ chip' = [DhtReset EXCEPT !.last = 0]
        BY ONLY <1>3, <2>2 DEF ChipsAtBoot
    <2>4. chip'.line = <<[at |-> 0, v |-> 1]>>
        BY <2>3 DEF DhtReset
    <2>5. Resting(chip'.line, 1, 1000 * clock')
        BY ONLY <1>2, <1>3, <2>4, RestAtBoot
    <2> QED BY ONLY <1>2, <1>3, <1>5, <2>2, <2>4, <2>5 DEF DhtKept
<1>9. ASSUME Is("zephyr_nano33ble", HeatTasks) PROVE HeatKept(mem', chip', clock')
    <2>1. HeatTasks \subseteq DOMAIN SensorOf /\ \A name \in HeatTasks : SensorOf[name].type = "ds18b20"
        BY DEF HeatTasks, SensorOf
    <2>2. /\ Task.task_id \in DOMAIN SensorOf
          /\ (IF Profile(Task).backend = "wokwi" THEN {}
              ELSE {p.type : p \in ToSet(RenodeParts(Task))} \cap ChipTypes) = {"ds18b20"}
        BY ONLY <1>6, <1>9, <2>1
    <2>3. chip' = WireReset \/ chip' = [WireReset EXCEPT !.last = 0]
        BY ONLY <1>3, <2>2 DEF ChipsAtBoot
    <2>4. PICK last \in {0, 1} : chip' = OwChip(last, 0, <<>>, Quiet, 0, <<>>, <<[at |-> 0, v |-> 1]>>)
        <3>1. WireReset = OwChip(1, 0, <<>>, Quiet, 0, <<>>, <<[at |-> 0, v |-> 1]>>)
            BY Zenon DEF WireReset, OwChip, Quiet
        <3>2. [WireReset EXCEPT !.last = 0] = OwChip(0, 0, <<>>, Quiet, 0, <<>>, <<[at |-> 0, v |-> 1]>>)
            BY ONLY <3>1, WireField
        <3> QED BY ONLY <2>3, <3>1, <3>2
    <2>5. Waiting(chip', 1000 * clock')
        <3> DEFINE us == 1000 * time
        <3>1. 0 \in Nat /\ 0 <= us
            BY <1>2
        <3> HIDE DEF us
        <3>2. Waiting(chip', us)
            BY ONLY <2>4, <3>1, last \in {0, 1} DEF Waiting
        <3> QED BY ONLY <1>3, <3>2 DEF us
    <2> QED BY ONLY <1>2, <1>3, <1>5, <2>2, <2>5 DEF HeatKept
<1>10. ASSUME Is("zephyr_nano33ble", ImuTasks) PROVE ImuKept(mem', chip', clock')
    <2>1. ImuTasks \subseteq DOMAIN SensorOf /\ \A name \in ImuTasks : SensorOf[name].type = "mpu6050"
        BY DEF ImuTasks, SensorOf
    <2>2. /\ Task.task_id \in DOMAIN SensorOf
          /\ (IF Profile(Task).backend = "wokwi" THEN {}
              ELSE {p.type : p \in ToSet(RenodeParts(Task))} \cap ChipTypes) = {"mpu6050"}
        BY ONLY <1>6, <1>10, <2>1
    <2>3. chip' = MpuWrite(MpuReset, <<PowerManagement, 0>>)
        BY ONLY <1>3, <2>2 DEF ChipsAtBoot
    <2>4. Awake(chip')
        BY <2>3, WokenChip
    <2> QED BY ONLY <1>2, <1>3, <1>5, <2>2, <2>4 DEF ImuKept
<1>11. Senseless => mem'.entry = <<>> /\ mem'.count = 0
    BY <1>5 DEF Senseless
<1> QED BY ONLY <1>7, <1>8, <1>9, <1>10, <1>11 DEF Kept

-----------------------------------------------------------------------------

\* Which round it is that such a task runs.
LEMMA RoundOfSensor ==
    ASSUME ZephyrLoop \/ EspLoop \/ ArduinoLoop
    PROVE  /\ Is("zephyr_nano33ble", SonarTasks) => ZephyrHcsr04FindDistance
           /\ Is("zephyr_nano33ble", DhtTasks) => ZephyrDht11Read \/ ZephyrDht11ButtonDisplay
           /\ Is("zephyr_nano33ble", HeatTasks) => ZephyrDs18b20HeatAlarm
           /\ Is("zephyr_nano33ble", ImuTasks) => \/ ZephyrMpu6050ReadI2c \/ ZephyrMpu6050ButtonDisplay
                                                  \/ ZephyrMpu6050PeriodicDisplay
           /\ ~Senseless
<1>1. CASE ZephyrLoop
    BY <1>1 DEF ZephyrLoop, Runs, Is, SonarTasks, DhtTasks, HeatTasks, ImuTasks, Senseless, Senses
<1>2. CASE EspLoop
    BY <1>2 DEF EspLoop, Runs, Is, SonarTasks, DhtTasks, HeatTasks, ImuTasks, Senseless, Senses, SensorOf
<1>3. CASE ArduinoLoop
    BY <1>3 DEF ArduinoLoop, Runs, Is, SonarTasks, DhtTasks, HeatTasks, ImuTasks, Senseless, Senses, SensorOf
<1> QED BY <1>1, <1>2, <1>3

\* A round keeps what it should.
LEMMA RoundKeeps ==
    ASSUME Placed, Prepared, phase = "run", Kept(mem, chip, clock), ZephyrLoop \/ EspLoop \/ ArduinoLoop
    PROVE  Kept(mem', chip', clock')
<1>1. phase \in {"boot", "run"}
    OBVIOUS
<1>2. ASSUME Is("zephyr_nano33ble", SonarTasks) PROVE SonarKept(mem', chip', clock')
    BY <1>1, <1>2, RoundOfSensor, SensorFits, SonarRound DEF Kept
<1>3. ASSUME Is("zephyr_nano33ble", DhtTasks) PROVE DhtKept(mem', chip', clock')
    BY <1>1, <1>3, RoundOfSensor, SensorFits, DhtSerialRound, DhtButtonRound DEF Kept
<1>4. ASSUME Is("zephyr_nano33ble", HeatTasks) PROVE HeatKept(mem', chip', clock')
    BY <1>1, <1>4, RoundOfSensor, SensorFits, HeatRounds DEF Kept
<1>5. ASSUME Is("zephyr_nano33ble", ImuTasks) PROVE ImuKept(mem', chip', clock')
    BY <1>1, <1>5, RoundOfSensor, SensorFits, ImuSerialRound, ImuButtonRound, ImuPeriodicRound DEF Kept
<1> QED BY <1>2, <1>3, <1>4, <1>5, RoundOfSensor DEF Kept

\* What is kept is of the next state, since the bench stays.
LEMMA KeptIsNext ==
    ASSUME Kept(mem', chip', clock'), Task' = Task, bench' = bench
    PROVE  Kept(mem, chip, clock)'
<1>1. \A part, control : Quantity(part, control)' = Quantity(part, control)
    BY DEF Quantity
<1>2. Distance' = Distance /\ Degrees' = Degrees
    BY <1>1 DEF Distance, Degrees
<1>3. SonarKept(mem', chip', clock') => SonarKept(mem, chip, clock)'
    BY ONLY <1>2 DEF SonarKept
<1>4. DhtKept(mem', chip', clock') => DhtKept(mem, chip, clock)'
    BY ONLY bench' = bench DEF DhtKept, Quantity
<1>5. HeatKept(mem', chip', clock') => HeatKept(mem, chip, clock)'
    BY ONLY <1>2 DEF HeatKept
<1>6. ImuKept(mem', chip', clock') => ImuKept(mem, chip, clock)'
    BY ONLY bench' = bench DEF ImuKept, Counted, Quantity
<1>7. /\ \A platform, ids : Is(platform, ids)' <=> Is(platform, ids)
      /\ Senseless' <=> Senseless
    BY DEF Is, Senseless, Senses
<1> QED BY <1>3, <1>4, <1>5, <1>6, <1>7, Zenon DEF Kept

\* So every step keeps it.
LEMMA MeasuredNext == Placed /\ Prepared /\ Measured /\ [Next]_vars => Measured'
<1> SUFFICES ASSUME Placed, Prepared, Measured, [Next]_vars PROVE Measured'
    OBVIOUS
<1>1. CASE Boot
    <2>1. Task' = Task /\ bench' = bench
        BY <1>1 DEF Boot, Task
    <2> QED BY <1>1, <2>1, BootKeeps, KeptIsNext DEF Measured
<1>2. CASE ZephyrLoop \/ EspLoop \/ ArduinoLoop
    <2>1. phase = "run" /\ Task' = Task /\ bench' = bench
        BY <1>2, RoundsLeaveJob DEF Task
    <2> QED BY <1>2, <2>1, RoundKeeps, KeptIsNext DEF Measured
<1>3. CASE Lint \/ Prepare \/ Timeout \/ Judge
    <2>1. phase' # "run"
        BY <1>3 DEF Lint, Prepare, Timeout, Judge
    <2> QED BY <2>1 DEF Measured
<1>4. CASE UNCHANGED vars
    <2>1. phase' = phase /\ Task' = Task /\ bench' = bench /\ mem' = mem /\ chip' = chip /\ clock' = clock
        BY <1>4 DEF vars, board, Task
    <2>2. phase = "run" => Kept(mem', chip', clock')
        BY <2>1 DEF Measured
    <2> QED BY <2>1, <2>2, KeptIsNext DEF Measured
<1> QED BY <1>1, <1>2, <1>3, <1>4 DEF Next

\* What the firmware reads from a chip is a value that its sensor had, to what the
\* measurement loses, at all times of every run with these sensors and however late
\* its polls and waits are; no read fails.
THEOREM ReadingsAlways == Spec => []ReadingsAreValues
<1>1. Init => Prepared /\ Measured
    BY DEF Init, Prepared, Measured
<1> QED BY <1>1, AlwaysPlaced, PreparedNext, MeasuredNext, MeasuredIsRight, PTL DEF Spec
=============================================================================
