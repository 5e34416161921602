----------------------------- MODULE KeypadSketches -----------------------------
(* The reference firmware of the keypad and the safe (bench/runner.py).  The  *)
(* Zephyr programs remember every key that is down; the ESP and Arduino ones  *)
(* reduce a scan to one key and remember the last.                            *)
EXTENDS Board

Legend == <<<<Digit(1), Digit(2), Digit(3), 65>>, <<Digit(4), Digit(5), Digit(6), 66>>,
            <<Digit(7), Digit(8), Digit(9), 67>>, <<42, Digit(0), 35, 68>>>>
NoKey == 0
KeyLine(key) == IF IsDigit(key) THEN Labelled(<<"Key">>, key - Digit(0)) ELSE Text(<<"Key", "letter">>)
Password == <<Digit(1), Digit(2), Digit(3), Digit(4)>>

(* Crossings in the order a scan visits them. *)
RowMajor(rows, cols) == [i \in 1..(rows * cols) |-> <<((i - 1) \div cols) + 1, ((i - 1) % cols) + 1>>]
ColumnMajor(rows, cols) == [i \in 1..(rows * cols) |-> <<((i - 1) % rows) + 1, ((i - 1) \div rows) + 1>>]
LegendOf(k) == Legend[k[1]][k[2]]

-----------------------------------------------------------------------------
(* Zephyr: a row is low for a millisecond before its columns are read.        *)

DownKeys(rows, cols) ==
    {k \in (DOMAIN rows) \X (DOMAIN cols) : <<rows[k[1]], cols[k[2]]>> \in KeysAt(clock + k[1])}
NewKeys(rows, cols) ==
    LET new == DownKeys(rows, cols) \ mem.held
        add(keys, k) == IF k \in new THEN Append(keys, LegendOf(k)) ELSE keys
    IN FoldLeft(add, <<>>, RowMajor(Len(rows), Len(cols)))

Zephyr16KeyKeypad ==
    LET rows == <<<<1, 11>>, <<1, 12>>, <<1, 15>>, <<1, 13>>>>
        cols == <<<<1, 14>>, <<0, 23>>, <<0, 21>>, <<0, 27>>>>
        new == NewKeys(rows, cols)
    IN Round([mem EXCEPT !.held = DownKeys(rows, cols)], Nothing,
             [i \in DOMAIN new |-> KeyLine(new[i])], Nothing, 9)

StatusLines(entry, status) ==
    Clear \o SetCursor(0, 0) \o Write(<<Glyph.Input, Blank>> \o entry)
          \o SetCursor(0, 1) \o Write(<<Glyph.Status, Blank>> \o status)
(* Four keys are compared and dropped, right or wrong; an open safe is deaf.  *)
FirstFour(s) == IF Len(s) > 4 THEN SubSeq(s, 1, 4) ELSE s
ZephyrEnter(rows, cols, displays) ==
    LET entry == IF mem.open THEN mem.entry ELSE FirstFour(mem.entry \o NewKeys(rows, cols))
        full == Len(entry) = 4
        match == entry = Password
        bytes == IF full /\ displays
                 THEN StatusLines(entry, <<IF match THEN Glyph.Success ELSE Glyph.Fail>>) ELSE Nothing
    IN Round([mem EXCEPT !.held = DownKeys(rows, cols), !.entry = IF full THEN <<>> ELSE entry,
                         !.open = @ \/ match],
             IF match THEN "P0.13" :> 1 ELSE Nothing, Nothing, bytes, 7 + Len(bytes) \div 2)
ZephyrSafebox ==
    ZephyrEnter(<<<<1, 11>>, <<1, 12>>>>, <<<<1, 14>>, <<0, 23>>, <<0, 21>>>>, FALSE)

ZephyrSafeboxDisplay ==
    ZephyrEnter(<<<<1, 11>>, <<1, 2>>>>, <<<<1, 1>>, <<1, 8>>, <<0, 23>>>>, TRUE)

-----------------------------------------------------------------------------
(* ESP and Arduino: the scan returns a key, the first or the last it finds.   *)

Found(order, rows, cols) ==
    {i \in DOMAIN order : <<rows[order[i][1]], cols[order[i][2]]>> \in KeysAt(clock)}
FirstKey(order, rows, cols) ==
    LET found == Found(order, rows, cols) IN IF found = {} THEN NoKey ELSE LegendOf(order[Min(found)])
LastKey(order, rows, cols) ==
    LET found == Found(order, rows, cols) IN IF found = {} THEN NoKey ELSE LegendOf(order[Max(found)])

(* Mutant: a key that is held is reported again and again. *)
ReportKey_Repeats(key, ms) ==
    Round([mem EXCEPT !.last = key], Nothing, IF key # NoKey THEN <<KeyLine(key)>> ELSE Nothing,
          Nothing, ms)
ReportKey(key, ms) ==
    Round([mem EXCEPT !.last = key], Nothing,
          IF key \notin {NoKey, mem.last} THEN <<KeyLine(key)>> ELSE Nothing, Nothing, ms)
EspKeypadScan ==
    ReportKey(FirstKey(ColumnMajor(4, 4), <<"38", "39", "21", "14">>, <<"10", "9", "41", "40">>), 10)
ArduinoScan(rows, cols) == LastKey(ColumnMajor(4, 4), rows, cols)
ArduinoKeypadScan == ReportKey(ArduinoScan(<<"9", "8", "7", "6">>, <<"5", "4", "3", "2">>), 5)

Taken(key) == key \notin {NoKey, mem.last} /\ ~mem.open
Typed(key) == IF Taken(key) THEN Append(mem.entry, key) ELSE mem.entry

(* Mutant: a wrong code stays in the entry. *)
EnterKey_KeepsWrong(key, relay, screen) ==
    LET match == Taken(key) /\ Typed(key) = Password
    IN Round([mem EXCEPT !.last = key, !.open = @ \/ match, !.entry = Typed(key)],
             IF match THEN relay :> 1 ELSE Nothing, Nothing,
             IF Taken(key) THEN screen ELSE Nothing, 5)
(* A wrong code empties the entry, the right one stays in it. *)
EnterKey(key, relay, screen) ==
    LET entry == Typed(key)
        match == Taken(key) /\ entry = Password
    IN Round([mem EXCEPT !.last = key, !.open = @ \/ match,
                         !.entry = IF Taken(key) /\ Len(entry) = 4 /\ ~match THEN <<>> ELSE entry],
             IF match THEN relay :> 1 ELSE Nothing, Nothing,
             IF Taken(key) THEN screen ELSE Nothing, 5)
EspSafeboxScan ==
    FirstKey(RowMajor(4, 4), <<"9", "10", "11", "13">>, <<"14", "8", "45", "46">>)
EspSafebox == EnterKey(EspSafeboxScan, "12", Nothing)
ArduinoSafebox ==
    EnterKey(ArduinoScan(<<"9", "8", "7", "6">>, <<"5", "4", "3", "2">>), "13", Nothing)

Entering(entry) == StatusLines(entry, <<Glyph.Enter>>)
Verdict(entry, refusal) == StatusLines(entry, <<IF entry = Password THEN Glyph.Success ELSE refusal>>)
EspSafeboxDisplay ==
    LET entry == Typed(EspSafeboxScan) IN
    EnterKey(EspSafeboxScan, "12",
             Entering(entry) \o IF Len(entry) = 4 THEN Verdict(entry, Glyph.Fail) ELSE Nothing)
ArduinoSafeboxDisplay ==
    LET key == ArduinoScan(<<"22", "24", "26", "28">>, <<"30", "32", "34", "36">>)
        entry == Typed(key)
    IN EnterKey(key, "13", IF Len(entry) = 4 THEN Verdict(entry, Glyph.Denied) ELSE Entering(entry))
=============================================================================
