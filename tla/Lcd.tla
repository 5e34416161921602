--------------------------------- MODULE Lcd ----------------------------------
(* A 16x2 character display on a 4-bit bus: the drivers of the reference      *)
(* firmware (bench/runner.py) and the decoder that reads the text back from   *)
(* the logic analyzer (bench/lcd1602.py).  A word is one character, its first *)
(* letter; digits, blanks and bars are themselves.                            *)
EXTENDS Traces

Blank == 32
Digit(n) == 48 + n
Bar == 35
Glyph == [Input |-> 73, Status |-> 83, Success |-> 117, Fail |-> 70, Denied |-> 68, Enter |-> 69,
          Ready |-> 82, Temp |-> 84, F |-> 102, Hello |-> 72, World |-> 87, Water |-> 119,
          Level |-> 76, Time |-> 116, ms |-> 109, dot |-> 46, Accel |-> 65, Gyro |-> 71, RH |-> 104,
          C |-> 67, percent |-> 37, minus |-> 45, Error |-> 101]
(* At most ten digits: the numbers are ints. *)
Numeral(n) ==
    LET digits == 1 + Cardinality({e \in 1..9 : 10^e <= n})
    IN [i \in 1..digits |-> Digit((n \div 10^(digits - i)) % 10)]

-----------------------------------------------------------------------------
(* Drivers: a byte is two pulses of the enable line, high nibble first.       *)

Pulse(rs, nibble) == [rs |-> rs, nibble |-> nibble]
WriteByte(rs, byte) == <<Pulse(rs, byte \div 16), Pulse(rs, byte % 16)>>
Instruct(byte) == WriteByte(0, byte)
Clear == Instruct(1)
SetCursor(col, row) == Instruct((IF row = 1 THEN 192 ELSE 128) + col)
Write(text) == [p \in 1..(2 * Len(text)) |-> WriteByte(1, text[(p + 1) \div 2])[2 - (p % 2)]]

(* What lcd_init, lcd_begin and lcdBegin send.  Zephyr starts with single     *)
(* nibbles; the ESP driver writes one blank before it clears.                 *)
ZephyrInit == <<Pulse(0, 3), Pulse(0, 3), Pulse(0, 3), Pulse(0, 2)>>
              \o Instruct(40) \o Instruct(12) \o Clear \o Instruct(6)
EspInit_NoBlank == Instruct(40) \o Instruct(12) \o Instruct(6) \o Clear     \* mutant
EspInit == Instruct(40) \o Instruct(12) \o Instruct(6) \o Write(<<Blank>>) \o Clear
ArduinoInit == Instruct(40) \o Instruct(12) \o Instruct(6) \o Clear

-----------------------------------------------------------------------------
(* The bus as the analyzer logs it: one tick per write of a pin.              *)

LineLog(tick, levels) == [p \in DOMAIN levels |-> [at |-> 7 * p + tick, v |-> levels[p]]]
EnableLog(n) == [i \in 1..(2 * n) |-> IF i % 2 = 1 THEN [at |-> 7 * ((i + 1) \div 2) + 5, v |-> 1]
                                      ELSE [at |-> 7 * (i \div 2) + 6, v |-> 0]]
BusLog(pulses) ==
    LET data(weight) == [p \in DOMAIN pulses |-> (pulses[p].nibble \div weight) % 2]
    IN [rs |-> LineLog(0, [p \in DOMAIN pulses |-> pulses[p].rs]),
        d4 |-> LineLog(1, data(1)), d5 |-> LineLog(2, data(2)),
        d6 |-> LineLog(3, data(4)), d7 |-> LineLog(4, data(8)), e |-> EnableLog(Len(pulses))]
BusTrace(pulses) ==
    LET log == BusLog(pulses) IN
    [line \in DOMAIN log |-> NormalizeEvents(<<[at |-> 0, v |-> 0]>> \o log[line])]

(* The decoder: a byte is two nibbles latched with the same rs; a nibble with *)
(* another rs starts a new byte.                                              *)
AddFall(falls, pair) == IF pair[1].v = 1 /\ pair[2].v = 0 THEN Append(falls, pair[2].at) ELSE falls
FallingEdges(events) ==
    FoldLeft(AddFall, <<>>, [i \in 1..(Len(events) - 1) |-> <<events[i], events[i + 1]>>])

(* The level at a time: of the last event, or of the first if all are later.  *)
ValueAt(events, t) ==
    LET seen == Cardinality({i \in DOMAIN events : events[i].at <= t}) IN
    IF events = <<>> THEN 0 ELSE IF seen = 0 THEN events[1].v ELSE events[seen].v

Columns == 16
EmptyRow == [i \in 1..Columns |-> Blank]
EmptyFrame == <<EmptyRow, EmptyRow>>
AddressToPosition(address) ==
    IF address \in 64..(64 + Columns - 1) THEN <<2, address - 64>> ELSE <<1, address>>
WriteData(screen, byte) ==
    LET at == AddressToPosition(screen.cursor) IN
    [cursor |-> screen.cursor + 1,
     frame |-> IF at[2] < Columns THEN [screen.frame EXCEPT ![at[1]][at[2] + 1] = byte]
               ELSE screen.frame]
ApplyCommand(screen, byte) ==
    CASE byte = 1   -> [cursor |-> 0, frame |-> EmptyFrame]
      [] byte = 2   -> [screen EXCEPT !.cursor = 0]
      [] byte > 127 -> [screen EXCEPT !.cursor = byte - 128]
      [] OTHER      -> screen

NoNibble == [rs |-> -1, nibble |-> 0]
Latched(bus, t) ==
    [rs |-> ValueAt(bus.rs, t),
     nibble |-> ValueAt(bus.d4, t) + 2 * ValueAt(bus.d5, t) + 4 * ValueAt(bus.d6, t)
                + 8 * ValueAt(bus.d7, t)]
PowerOnPanel == [pending |-> NoNibble, screen |-> [cursor |-> 0, frame |-> EmptyFrame],
                 frames |-> <<EmptyFrame>>]
DecodeNibble(panel, n) ==
    LET byte == 16 * panel.pending.nibble + n.nibble
        screen == IF n.rs = 1 THEN WriteData(panel.screen, byte) ELSE ApplyCommand(panel.screen, byte)
    IN IF panel.pending.rs # n.rs THEN [panel EXCEPT !.pending = n]
       ELSE [pending |-> NoNibble, screen |-> screen,
             frames |-> IF n.rs = 1 \/ byte = 1 THEN Append(panel.frames, screen.frame)
                        ELSE panel.frames]
DecodePulses(panel, pulses) ==
    LET bus == BusTrace(pulses)
        times == FallingEdges(bus.e)
    IN IF pulses = <<>> THEN panel
       ELSE FoldLeft(DecodeNibble, panel, [i \in DOMAIN times |-> Latched(bus, times[i])])

-----------------------------------------------------------------------------
(* Text on a frame: rows lose the blanks at their end and are joined.         *)

Stripped(row) == SubSeq(row, 1, SelectLastInSeq(row, LAMBDA c : c # Blank))
Shown(frame) == Stripped(frame[1]) \o <<Blank>> \o Stripped(frame[2])
Within(part, s) == \E i \in 0..(Len(s) - Len(part)) : SubSeq(s, i + 1, i + Len(part)) = part
FrameContains(frame, text) == Within(text, Shown(frame))
IsDigit(c) == c \in Digit(0)..Digit(9)

(* A pattern of the tasks: a number of low..high, after a word or before a    *)
(* unit, with blanks between; a decimal digit may follow the number.          *)
FrameMatches(frame, pattern) ==
    LET s == <<Blank>> \o Shown(frame) \o <<Blank>>
        given(field) == IF field \in DOMAIN pattern THEN <<pattern[field]>> ELSE <<>>
        found(n, tail) ==
            Within(given("after") \o <<Blank>> \o Numeral(n) \o tail \o <<Blank>> \o given("unit"), s)
    IN \E n \in pattern.low..pattern.high :
          \/ found(n, <<>>)
          \/ pattern.decimal /\ \E d \in 0..9 : found(n, <<Glyph.dot, Digit(d)>>)

(* The bars at the left of the second row, and no bar after them. *)
BarsShown(frame, low, high) ==
    \E n \in low..high : /\ \A i \in 1..n : frame[2][i] = Bar
                          /\ frame[2][n + 1] # Bar
=============================================================================
