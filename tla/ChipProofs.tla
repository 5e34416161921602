------------------------------- MODULE ChipProofs -------------------------------
(* A reading of each chip that Renode loads (bench/chips), from its first     *)
(* edge to its value, for every quantity, time and delay: the wave a chip     *)
(* drives, the polls of the firmware on it, and the frames of the two chips   *)
(* on a single wire.                                                          *)
EXTENDS SignalProofs

-----------------------------------------------------------------------------
(* Waves *)

\* What a wave shows at a time is its last entry by then.
LEMMA ShowsEntry ==
    ASSUME NEW wave, NEW n \in Nat, DOMAIN wave = 1..n, NEW k \in 1..n, NEW t,
           \A i \in 1..n : wave[i].at <= t <=> i <= k
    PROVE  At(wave, t) = wave[k].v
<1>1. {i \in DOMAIN wave : wave[i].at <= t} = 1..k
    OBVIOUS
<1>2. Cardinality(1..k) = k
    BY FS_Interval
<1> QED BY <1>1, <1>2 DEF At

\* A wave that has begun shows one of its entries.
LEMMA ShowsSome ==
    ASSUME NEW wave, NEW n \in Nat, DOMAIN wave = 1..n, 1 <= n, NEW t, wave[1].at <= t
    PROVE  \E i \in 1..n : At(wave, t) = wave[i].v
<1> DEFINE past == {i \in DOMAIN wave : wave[i].at <= t}
           all == 1..n
<1>1. IsFiniteSet(all) /\ Cardinality(all) = n
    BY FS_Interval
<1>2. past \in SUBSET all /\ 1 \in past
    OBVIOUS
<1> HIDE DEF past, all
<1>3. IsFiniteSet(past) /\ Cardinality(past) <= n
    <2>1. IsFiniteSet(past) /\ Cardinality(past) <= Cardinality(all)
        BY ONLY <1>1, <1>2, FS_Subset, Zenon
    <2> QED BY ONLY <1>1, <2>1
<1>4. Cardinality(past) \in Nat /\ Cardinality(past) # 0
    BY <1>2, <1>3, FS_CardinalityType, FS_EmptySet
<1>5. Cardinality(past) \in 1..n
    BY <1>3, <1>4
<1> QED BY <1>5 DEF At, past

\* A line at rest: all its changes lie before a time, the last one to that level.
Resting(line, level, t) ==
    \E n \in Nat : /\ DOMAIN line = 1..n /\ n >= 1
                   /\ \A i \in 1..n : line[i].at \in Int /\ line[i].at <= t
                   /\ line[n].v = level

\* It shows that level from then on,
LEMMA RestingShows ==
    ASSUME NEW line, NEW level, NEW t \in Int, Resting(line, level, t), NEW u \in Int, u >= t
    PROVE  At(line, u) = level /\ Resting(line, level, u)
<1>1. PICK n \in Nat : /\ DOMAIN line = 1..n /\ n >= 1
                       /\ \A i \in 1..n : line[i].at \in Int /\ line[i].at <= t
                       /\ line[n].v = level
    BY DEF Resting
<1>2. \A i \in 1..n : line[i].at \in Int /\ line[i].at <= u
    BY <1>1
<1>3. n \in 1..n /\ \A i \in 1..n : line[i].at <= u <=> i <= n
    BY <1>1, <1>2
<1>4. At(line, u) = line[n].v
    BY ONLY <1>1, <1>3, ShowsEntry
<1> QED BY <1>1, <1>2, <1>4 DEF Resting

-----------------------------------------------------------------------------
(* What a chip schedules and what a poll sees of it *)

\* One element more.
LEMMA AppendOne == \A a, b : Append(<<a>>, b) = <<a, b>>
<1> TAKE a, b
<1>1. <<a>> \in Seq({a})
    OBVIOUS
<1>2. \A s : s \in Seq({a}) => Append(s, b) = s \o <<b>>
    OBVIOUS
<1> QED BY <1>1, <1>2, JoinOnes

\* A step of the fold that makes a wave of waits and levels.
ScheduleStep(acc, e) == [t |-> acc.t + e[1], line |-> Append(acc.line, [at |-> acc.t + e[1], v |-> e[2]])]
\* The fold of it.
ScheduleFold == INSTANCE Folding WITH Op <- ScheduleStep

\* Two waits and the levels after them.
LEMMA ScheduledTwo ==
    ASSUME NEW from, NEW a, NEW b, NEW x, NEW y
    PROVE  Scheduled(from, <<<<a, x>>, <<b, y>>>>)
               = <<[at |-> from + a, v |-> x], [at |-> from + a + b, v |-> y]>>
<1> DEFINE base == [t |-> from, line |-> <<>>]
           s == <<<<a, x>>, <<b, y>>>>
           one == ScheduleStep(base, <<a, x>>)
           two == ScheduleStep(one, <<b, y>>)
<1>1. Scheduled(from, s) = ScheduleFold!Folded(base, s).line
    BY DEF Scheduled, ScheduleStep, ScheduleFold!Folded, FoldLeft, MapThenFoldSet,
           ScheduleFold!FoldLeft, ScheduleFold!MapThenFoldSet, Max, ScheduleFold!Max
<1>2. DOMAIN s = 1..2 /\ s[1] = <<a, x>> /\ s[2] = <<b, y>>
    OBVIOUS
<1> HIDE DEF s, base
<1>3. ScheduleFold!Folded(base, s) = ScheduleStep(ScheduleStep(base, s[1]), s[2])
    BY ONLY <1>2, ScheduleFold!FoldTwo, Zenon
<1>4. one = [t |-> from + a, line |-> <<[at |-> from + a, v |-> x]>>]
    BY DEF ScheduleStep, base
<1>5. two = [t |-> from + a + b, line |-> Append(one.line, [at |-> from + a + b, v |-> y])]
    BY <1>4 DEF ScheduleStep
<1> HIDE DEF one, two
<1>7. one.line = <<[at |-> from + a, v |-> x]>> /\ two.line = Append(one.line, [at |-> from + a + b, v |-> y])
    BY <1>4, <1>5
<1>6. two.line = <<[at |-> from + a, v |-> x], [at |-> from + a + b, v |-> y]>>
    BY <1>7, AppendOne
<1> QED BY <1>1, <1>2, <1>3, <1>6 DEF one, two, s

\* One entry before two.
LEMMA JoinOneTwo == \A a, b, c : <<a>> \o <<b, c>> = <<a, b, c>>
<1> TAKE a, b, c
<1> DEFINE S == {a, b, c}
           u == <<a>>
           v == <<b, c>>
           x == u \o v
<1>1. u \in Seq(S) /\ v \in Seq(S) /\ Len(u) = 1 /\ Len(v) = 2 /\ u[1] = a /\ v[1] = b /\ v[2] = c
    OBVIOUS
<1> HIDE DEF u, v, S
<1>2. x \in Seq(S) /\ Len(x) = Len(u) + Len(v) /\ (\A i \in 1..Len(u) : x[i] = u[i])
      /\ \A i \in 1..Len(v) : x[Len(u) + i] = v[i]
    <2>1. u \in Seq(S) /\ v \in Seq(S)
        BY <1>1
    <2> QED BY ONLY <2>1, JoinAny
<1> HIDE DEF x
<1>3. Len(x) = 3 /\ x[1] = a /\ x[2] = b /\ x[3] = c /\ x \in Seq(S)
    BY <1>1, <1>2
<1>4. x = <<a, b, c>>
    <2> DEFINE y == <<a, b, c>>
    <2>1. DOMAIN x = 1..3 /\ DOMAIN y = 1..3 /\ y[1] = a /\ y[2] = b /\ y[3] = c
        BY <1>3
    <2>2. x = [i \in 1..3 |-> x[i]] /\ y = [i \in 1..3 |-> y[i]]
        BY <1>3, <2>1
    <2> HIDE DEF y
    <2>3. \A i \in 1..3 : x[i] = y[i]
        BY <1>3, <2>1
    <2> QED BY <2>2, <2>3 DEF y
<1> QED BY <1>4 DEF x, u, v

\* The next change of a line, after a time at which it has not the level yet.
Edge(line, from, level, at) ==
    \E n \in Nat, k \in Nat :
        /\ k >= 1 /\ k + 1 <= n /\ DOMAIN line = 1..n
        /\ \A i \in 1..n : line[i].at \in Int /\ (line[i].at <= from <=> i <= k)
        /\ line[k].v # level /\ line[k + 1].v = level /\ line[k + 1].at = at

\* A poll of a line whose next change leads to the level sees that change, as late as
\* polls are, unless the deadline is over (wait_level in the generated firmware).
LEMMA PollSees ==
    ASSUME NEW line, NEW from \in Nat, NEW level, NEW at, Edge(line, from, level, at), NEW deadline \in Int,
           NEW seen \in Nat, seen = at + IF level = 1 THEN mem.late.rise ELSE mem.late.fall,
           Cycle(seen) <= deadline
    PROVE  WaitLevel(line, level, from, deadline) = seen
<1>0. PICK n \in Nat, k \in Nat :
           /\ k >= 1 /\ k + 1 <= n /\ DOMAIN line = 1..n
           /\ \A i \in 1..n : line[i].at \in Int /\ (line[i].at <= from <=> i <= k)
           /\ line[k].v # level /\ line[k + 1].v = level /\ line[k + 1].at = at
    BY DEF Edge
<1> DEFINE changes == {i \in DOMAIN line : line[i].at > from /\ line[i].v = level}
           first == CHOOSE i \in changes : \A j \in changes : i <= j
<1>1. At(line, from) # level
    <2>1. k \in 1..n /\ \A i \in 1..n : line[i].at <= from <=> i <= k
        BY <1>0
    <2>2. At(line, from) = line[k].v
        BY ONLY <1>0, <2>1, ShowsEntry, n \in Nat
    <2> QED BY <1>0, <2>2
<1>2. k + 1 \in changes /\ \A j \in changes : j \in 1..n /\ k + 1 <= j
    BY <1>0
<1>3. first = k + 1
    <2> HIDE DEF changes
    <2>1. first \in changes /\ \A j \in changes : first <= j
        BY <1>2
    <2> HIDE DEF first
    <2>2. k + 1 \in Int /\ first \in 1..n /\ first <= k + 1 /\ k + 1 <= first
        BY <1>2, <2>1
    <2>3. \A p, q : p \in Int /\ q \in Int /\ p <= q /\ q <= p => p = q
        OBVIOUS
    <2>4. first \in Int
        <3>1. \A p \in 1..n : p \in Int
            OBVIOUS
        <3> QED BY <2>2, <3>1
    <2> QED BY <2>2, <2>3, <2>4
<1>4. changes # {}
    BY <1>2
<1>5. from # Never /\ seen # Never /\ ~(Cycle(seen) > deadline)
    <2>1. Never \notin Nat
        BY DEF Never
    <2>2. Cycle(seen) \in Int
        BY DEF Cycle
    <2> HIDE DEF changes, first
    <2>3. from # Never /\ seen # Never
        BY <2>1
    <2>4. ~(Cycle(seen) > deadline)
        BY <2>2
    <2> QED BY <2>3, <2>4
<1> HIDE DEF changes, first
<1> QED BY <1>0, <1>1, <1>3, <1>4, <1>5 DEF WaitLevel, changes, first

\* A poll for a rise
LEMMA RiseSeen ==
    ASSUME NEW line, NEW from \in Nat, NEW at, Edge(line, from, 1, at), NEW deadline \in Int,
           NEW seen \in Nat, seen = at + mem.late.rise, Cycle(seen) <= deadline
    PROVE  WaitLevel(line, 1, from, deadline) = seen
<1> DEFINE level == 1
<1>1. seen = at + (IF level = 1 THEN mem.late.rise ELSE mem.late.fall) /\ Edge(line, from, level, at)
    OBVIOUS
<1> HIDE DEF level
<1>2. WaitLevel(line, level, from, deadline) = seen
    BY <1>1, PollSees
<1> QED BY <1>2 DEF level

\* and one for a fall.
LEMMA FallSeen ==
    ASSUME NEW line, NEW from \in Nat, NEW at, Edge(line, from, 0, at), NEW deadline \in Int,
           NEW seen \in Nat, seen = at + mem.late.fall, Cycle(seen) <= deadline
    PROVE  WaitLevel(line, 0, from, deadline) = seen
<1> DEFINE level == 0
<1>1. seen = at + (IF level = 1 THEN mem.late.rise ELSE mem.late.fall) /\ Edge(line, from, level, at)
    OBVIOUS
<1> HIDE DEF level
<1>2. WaitLevel(line, level, from, deadline) = seen
    BY <1>1, PollSees
<1> QED BY <1>2 DEF level

\* A wait that ends a tick of the clock before its time is within its cycles.
LEMMA WithinCycles ==
    ASSUME NEW a \in Nat, NEW b \in Nat, NEW us \in Nat, b + 31 <= a + us
    PROVE  /\ Cycle(b) <= Cycle(a) + CyclesOf(us)
           /\ Cycle(a) \in Int /\ Cycle(b) \in Int /\ CyclesOf(us) \in Int
<1> DEFINE x == Cycle(a)
           y == Cycle(b)
           z == CyclesOf(us)
<1>1. x \in Int /\ 512 * a < 15625 * x + 15625
    BY DEF Cycle
<1>2. y \in Int /\ 15625 * y <= 512 * b
    BY DEF Cycle
<1>3. z \in Int /\ 512 * us <= 15625 * z
    BY DEF CyclesOf
<1> HIDE DEF x, y, z
<1>4. y <= x + z
    BY <1>1, <1>2, <1>3
<1> QED BY <1>1, <1>2, <1>3, <1>4 DEF x, y, z

\* How late polls and waits may be.
LEMMA DelaysAreSmall ==
    \A late \in Delays : late.rise \in 0..31 /\ late.fall \in 0..31 /\ late.wait \in 0..31
BY DelaysAssumption

-----------------------------------------------------------------------------
(* HC-SR04 *)

\* The echo of an object: it starts 212 us after the trigger began and lasts 58 us a
\* centimetre, since the line rested before (Drive in HCSR04.cs).
LEMMA EchoOfObject ==
    ASSUME clock \in Nat, chip.last = 0, Resting(chip.line, 0, Now),
           At(Distance, clock) \in 2..512
    PROVE  Triggered = [last |-> 0,
                        line |-> <<[at |-> 0, v |-> 0], [at |-> Now + 212, v |-> 1],
                                   [at |-> Now + 212 + 58 * At(Distance, clock), v |-> 0]>>]
<1> DEFINE width == 58 * At(Distance, clock)
           from == Now + 12
           high == SonarDrive(chip, Now, 1, Distance)
<1>1. Now \in Nat /\ from \in Nat /\ from >= Now /\ from \div 1000 = clock
    BY DEF Now
<1>2. high = [last |-> 1, line |-> chip.line]
    BY DEF SonarDrive
<1>3. ValueOf(Distance, from) = At(Distance, clock)
    BY <1>1 DEF ValueOf
<1>4. width \in Int /\ ~(width < 1)
    OBVIOUS
<1>5. LineLevel(high, from) = 0
    BY <1>1, <1>2, RestingShows DEF LineLevel
<1> HIDE DEF high, from, width
<1>6. Triggered = SonarDrive(high, from, 0, Distance)
    BY DEF Triggered, high, from
<1>7. high.last = 1 /\ 58 * ValueOf(Distance, from) = width
    BY <1>2, <1>3 DEF width
<1>8. SonarDrive(high, from, 0, Distance)
        = [last |-> 0, line |-> <<[at |-> 0, v |-> 0]>> \o Scheduled(from, <<<<200, 1>>, <<width, 0>>>>)]
    BY <1>4, <1>5, <1>7, Zenon DEF SonarDrive
<1>9. Scheduled(from, <<<<200, 1>>, <<width, 0>>>>)
        = <<[at |-> from + 200, v |-> 1], [at |-> from + 200 + width, v |-> 0]>>
    BY ONLY ScheduledTwo
<1>10. from + 200 = Now + 212
    BY <1>1 DEF from
<1>11. <<[at |-> 0, v |-> 0]>> \o <<[at |-> Now + 212, v |-> 1], [at |-> Now + 212 + width, v |-> 0]>>
        = <<[at |-> 0, v |-> 0], [at |-> Now + 212, v |-> 1], [at |-> Now + 212 + width, v |-> 0]>>
    BY JoinOneTwo
<1>12. Triggered = [last |-> 0, line |-> <<[at |-> 0, v |-> 0], [at |-> Now + 212, v |-> 1],
                                           [at |-> Now + 212 + width, v |-> 0]>>]
    BY ONLY <1>6, <1>8, <1>9, <1>10, <1>11, Zenon
<1> QED BY <1>12 DEF width

\* The firmware sees both edges of it before its deadline, a centimetre over or two
\* short (hcsr04_measure), and the line rests when the echo is over.
THEOREM SonarReads ==
    ASSUME clock \in Nat, mem.late \in Delays, chip.last = 0, Resting(chip.line, 0, Now),
           At(Distance, clock) \in 2..512
    PROVE  /\ Measure(Triggered.line) \in (At(Distance, clock) - 2)..(At(Distance, clock) + 1)
           /\ Triggered.last = 0
           /\ Last(Triggered.line).at = Now + 212 + 58 * At(Distance, clock)
           /\ Resting(Triggered.line, 0, Now + 212 + 58 * At(Distance, clock))
<1> DEFINE cm == At(Distance, clock)
           up == Now + 212
           down == up + 58 * cm
           line == <<[at |-> 0, v |-> 0], [at |-> up, v |-> 1], [at |-> down, v |-> 0]>>
           from == Now + 12
           deadline == Cycle(from) + CyclesOf(30000)
           start == up + mem.late.rise
           end == down + mem.late.fall
<1>1. Triggered = [last |-> 0, line |-> line]
    BY EchoOfObject
<1>2. mem.late.rise \in 0..31 /\ mem.late.fall \in 0..31
    BY DelaysAreSmall
<1>3. cm \in 2..512 /\ Now \in Nat
    BY DEF Now
<1>4. /\ DOMAIN line = 1..3 /\ Last(line) = line[3]
      /\ line[1].at = 0 /\ line[2].at = up /\ line[3].at = down
      /\ line[1].v = 0 /\ line[2].v = 1 /\ line[3].v = 0
    BY DEF Last
<1> HIDE DEF cm, line
<1>5. /\ up \in Nat /\ down \in Nat /\ from \in Nat /\ start \in Nat /\ end \in Nat
      /\ from < up /\ start < down /\ up <= start /\ up < down /\ up > 0
      /\ start + 31 <= from + 30000 /\ end + 31 <= from + 30000
    BY <1>2, <1>3
<1> HIDE DEF up, down, from, start, end
<1>6. deadline \in Int /\ Cycle(start) <= deadline /\ Cycle(end) <= deadline
    BY <1>5, WithinCycles
<1> HIDE DEF deadline
<1>7. WaitLevel(line, 1, from, deadline) = start
    <2>1. Edge(line, from, 1, up)
        <3>1. 3 \in Nat /\ 1 \in Nat /\ 1 >= 1 /\ 1 + 1 <= 3 /\ \A i \in 1..3 : line[i].at \in Int /\ (line[i].at <= from <=> i <= 1)
            BY <1>4, <1>5
        <3>2. line[1].v # 1 /\ line[1 + 1].v = 1 /\ line[1 + 1].at = up
            BY <1>4, <1>5
        <3> QED BY ONLY <1>4, <3>1, <3>2 DEF Edge
    <2> QED BY <1>5, <1>6, <2>1, RiseSeen DEF start
<1>8. WaitLevel(line, 0, start, deadline) = end
    <2>1. Edge(line, start, 0, down)
        <3>1. 3 \in Nat /\ 2 \in Nat /\ 2 >= 1 /\ 2 + 1 <= 3 /\ \A i \in 1..3 : line[i].at \in Int /\ (line[i].at <= start <=> i <= 2)
            BY <1>4, <1>5
        <3>2. line[2].v # 0 /\ line[2 + 1].v = 0 /\ line[2 + 1].at = down
            BY <1>4, <1>5
        <3> QED BY ONLY <1>4, <3>1, <3>2 DEF Edge
    <2> QED BY <1>5, <1>6, <2>1, FallSeen DEF end
<1>9. start # Never /\ end # Never
    BY <1>5 DEF Never
<1>10. Measure(line) = MicrosBetween(start, end) \div 58
    BY <1>7, <1>8, <1>9 DEF Measure, from, deadline
<1>11. MicrosBetween(start, end) \div 58 \in (cm - 2)..(cm + 1)
    <2>1. cm \in Nat /\ cm >= 2 /\ up \in Nat
        BY <1>3, <1>5
    <2>2. MicrosBetween(up + mem.late.rise, up + 58 * cm + mem.late.fall) \div 58 \in (cm - 2)..(cm + 1)
        BY ONLY <1>2, <2>1, SonarErrorIsSmall, Zenon
    <2> QED BY <2>2 DEF start, end, down
<1>12. Resting(line, 0, down)
    <2>1. 3 \in Nat /\ DOMAIN line = 1..3 /\ 3 >= 1 /\ line[3].v = 0
        BY <1>4
    <2>2. \A i \in 1..3 : line[i].at \in Int /\ line[i].at <= down
        BY <1>4, <1>5
    <2> QED BY <2>1, <2>2 DEF Resting
<1>13. /\ Measure(Triggered.line) \in (cm - 2)..(cm + 1) /\ Triggered.last = 0
       /\ Last(Triggered.line).at = down /\ Resting(Triggered.line, 0, down)
    BY <1>1, <1>4, <1>10, <1>11, <1>12
<1> QED BY <1>13 DEF cm, down, up

-----------------------------------------------------------------------------
(* What is written to a display is a list *)

\* A list of something.
IsList(s) == \E S : s \in Seq(S)

\* A function on the first numbers is one,
LEMMA ListOf ==
    ASSUME NEW n \in Nat, NEW f, f = [i \in 1..n |-> f[i]]
    PROVE  IsList(f)
<1> DEFINE S == {f[i] : i \in 1..n}
<1>1. f \in [1..n -> S]
    <2>1. \A i \in 1..n : f[i] \in S
        OBVIOUS
    <2> HIDE DEF S
    <2> QED BY <2>1, Zenon
<1> HIDE DEF S
<1>2. f \in Seq(S)
    BY <1>1
<1> QED BY <1>2 DEF IsList

\* it has a length, and two of them join to one.
LEMMA ListsJoin ==
    ASSUME NEW s, NEW t, IsList(s), IsList(t)
    PROVE  Len(s) \in Nat /\ IsList(s \o t)
<1>1. PICK S : s \in Seq(S)
    BY DEF IsList
<1>2. PICK T : t \in Seq(T)
    BY DEF IsList
<1>3. s \in Seq(S \cup T) /\ t \in Seq(S \cup T)
    <2>1. \A A, B : A \subseteq B => Seq(A) \subseteq Seq(B)
        OBVIOUS
    <2>2. Seq(S) \subseteq Seq(S \cup T) /\ Seq(T) \subseteq Seq(S \cup T)
        BY <2>1
    <2> QED BY <1>1, <1>2, <2>2
<1>4. s \o t \in Seq(S \cup T) /\ Len(s) \in Nat
    BY <1>3
<1> QED BY <1>4 DEF IsList

\* The digits of a number,
LEMMA NumeralIsList ==
    ASSUME NEW n
    PROVE  IsList(Numeral(n))
<1> DEFINE big == {e \in 1..9 : 10^e <= n}
           digits == 1 + Cardinality(big)
           f == [i \in 1..digits |-> Digit((n \div 10^(digits - i)) % 10)]
<1>1. IsFiniteSet(big)
    <2>1. \A a, b \in Int : IsFiniteSet(a..b)
        BY FS_Interval
    <2>3. IsFiniteSet(1..9)
        <3>1. 1 \in Int /\ 9 \in Int
            OBVIOUS
        <3> QED BY ONLY <2>1, <3>1, Zenon
    <2>2. big \subseteq 1..9
        OBVIOUS
    <2> HIDE DEF big
    <2> QED BY <2>3, <2>2, FS_Subset
<1> HIDE DEF big
<1>2. digits \in Nat
    BY <1>1, FS_CardinalityType
<1>3. Numeral(n) = f
    BY Zenon DEF Numeral, big
<1> HIDE DEF digits
<1>4. f = [i \in 1..digits |-> f[i]]
    BY Zenon
<1> HIDE DEF f
<1> QED BY ONLY <1>2, <1>3, <1>4, ListOf

\* the first characters of a text,
LEMMA CutIsList ==
    ASSUME NEW text, IsList(text), NEW room \in Nat
    PROVE  IsList(Cut(text, room))
<1>1. PICK S : text \in Seq(S)
    BY DEF IsList
<1> DEFINE n == IF Len(text) < room THEN Len(text) ELSE room
<1>2. n \in Nat /\ n <= Len(text)
    BY <1>1
<1> HIDE DEF n
<1>3. SubSeq(text, 1, n) \in Seq(S)
    BY <1>1, <1>2
<1> QED BY <1>3 DEF IsList, Cut, n

\* and the bytes of a text.
LEMMA WriteIsList ==
    ASSUME NEW text, IsList(text)
    PROVE  IsList(Write(text))
<1> DEFINE n == 2 * Len(text)
           f == [p \in 1..n |-> WriteByte(1, text[(p + 1) \div 2])[2 - (p % 2)]]
<1>1. n \in Nat
    <2>1. Len(text) \in Nat
        BY ListsJoin
    <2> QED BY <2>1
<1>2. Write(text) = f
    BY Zenon DEF Write
<1> HIDE DEF n
<1>3. f = [i \in 1..n |-> f[i]]
    BY Zenon
<1> HIDE DEF f
<1> QED BY ONLY <1>1, <1>2, <1>3, ListOf

\* One instruction is two pulses,
LEMMA ByteIsList == \A byte : IsList(Instruct(byte))
<1> TAKE byte
<1> DEFINE S == {Pulse(0, byte \div 16), Pulse(0, byte % 16)}
<1>1. Instruct(byte) \in Seq(S)
    BY DEF Instruct, WriteByte
<1> HIDE DEF S
<1> QED BY <1>1 DEF IsList

\* and a few characters are themselves.
LEMMA FewAreList ==
    ASSUME NEW a, NEW b
    PROVE  IsList(<<a>>) /\ IsList(<<a, b>>) /\ IsList(<<>>)
<1>1. <<a>> \in Seq({a, b}) /\ <<a, b>> \in Seq({a, b}) /\ <<>> \in Seq({a, b})
    OBVIOUS
<1> QED BY <1>1 DEF IsList

\* The display of a temperature and a humidity, or of an error,
LEMMA DhtScreenIsList ==
    ASSUME NEW reading
    PROVE  Len(DhtScreen(reading)) \in Nat
<1>1. \A n : IsList(Tenths(n))
    <2> TAKE n
    <2>1. IsList(Numeral(n)) /\ IsList(<<Glyph.dot, Digit(0)>>)
        BY NumeralIsList, FewAreList
    <2> QED BY <2>1, ListsJoin DEF Tenths
<1>2. IsList(Clear) /\ IsList(SetCursor(0, 0)) /\ IsList(SetCursor(0, 1))
    BY ByteIsList DEF Clear, SetCursor
<1>3. \A a, b, c, d, n : IsList(Write(<<a, b>> \o Tenths(n) \o <<c, d>>))
    <2> TAKE a, b, c, d, n
    <2>1. IsList(<<a, b>>) /\ IsList(<<c, d>>) /\ IsList(Tenths(n))
        BY <1>1, FewAreList
    <2>2. IsList(<<a, b>> \o Tenths(n))
        BY ONLY <2>1, ListsJoin
    <2>3. IsList(<<a, b>> \o Tenths(n) \o <<c, d>>)
        BY ONLY <2>1, <2>2, ListsJoin
    <2> QED BY ONLY <2>3, WriteIsList
<1>4. CASE reading = <<>>
    <2>1. IsList(Write(<<Glyph.Error>>))
        BY FewAreList, WriteIsList
    <2>2. IsList(Clear \o Write(<<Glyph.Error>>))
        BY ONLY <1>2, <2>1, ListsJoin
    <2>3. DhtScreen(reading) = Clear \o Write(<<Glyph.Error>>)
        BY <1>4, Zenon DEF DhtScreen
    <2> QED BY ONLY <2>2, <2>3, ListsJoin
<1>5. CASE reading # <<>>
    <2> DEFINE u == Write(<<Glyph.Temp, Blank>> \o Tenths(reading[2]) \o <<Blank, Glyph.C>>)
               v == Write(<<Glyph.RH, Blank>> \o Tenths(reading[1]) \o <<Blank, Glyph.percent>>)
               c == SetCursor(0, 0)
               d == SetCursor(0, 1)
    <2>1. IsList(u) /\ IsList(v) /\ IsList(c) /\ IsList(d)
        BY <1>2, <1>3
    <2>2. DhtScreen(reading) = Clear \o c \o u \o d \o v
        BY <1>5, Zenon DEF DhtScreen
    <2> HIDE DEF u, v, c, d
    <2>3. IsList(Clear \o c)
        BY ONLY <1>2, <2>1, ListsJoin
    <2>4. IsList(Clear \o c \o u)
        BY ONLY <2>1, <2>3, ListsJoin
    <2>5. IsList(Clear \o c \o u \o d)
        BY ONLY <2>1, <2>4, ListsJoin
    <2>6. IsList(Clear \o c \o u \o d \o v)
        BY ONLY <2>1, <2>5, ListsJoin
    <2> QED BY ONLY <2>2, <2>6, ListsJoin
<1> QED BY <1>4, <1>5

\* and the one of accelerations and rotations.
LEMMA ImuScreenIsList ==
    ASSUME NEW reading
    PROVE  Len(LcdShowImu(reading)) \in Nat
<1>1. \A n : IsList(Signed(n))
    <2> TAKE n
    <2>1. IsList(<<Glyph.minus>>) /\ IsList(Numeral(-n)) /\ IsList(Numeral(n))
        BY NumeralIsList, FewAreList
    <2>2. IsList(<<Glyph.minus>> \o Numeral(-n))
        BY ONLY <2>1, ListsJoin
    <2>3. Signed(n) = <<Glyph.minus>> \o Numeral(-n) \/ Signed(n) = Numeral(n)
        BY Zenon DEF Signed
    <2> QED BY ONLY <2>1, <2>2, <2>3
<1>2. \A i : IsList(Three(reading, i))
    <2> TAKE i
    <2> DEFINE a == Signed(reading[i])
               b == Signed(reading[i + 1])
               c == Signed(reading[i + 2])
    <2>1. IsList(a) /\ IsList(b) /\ IsList(c) /\ IsList(<<Blank>>)
        BY <1>1, FewAreList
    <2>2. Three(reading, i) = a \o <<Blank>> \o b \o <<Blank>> \o c
        BY Zenon DEF Three
    <2> HIDE DEF a, b, c
    <2>3. IsList(a \o <<Blank>>)
        BY ONLY <2>1, ListsJoin
    <2>4. IsList(a \o <<Blank>> \o b)
        BY ONLY <2>1, <2>3, ListsJoin
    <2>5. IsList(a \o <<Blank>> \o b \o <<Blank>>)
        BY ONLY <2>1, <2>4, ListsJoin
    <2>6. IsList(a \o <<Blank>> \o b \o <<Blank>> \o c)
        BY ONLY <2>1, <2>5, ListsJoin
    <2> QED BY ONLY <2>2, <2>6
<1>3. \A a, b, i, room : room \in Nat => IsList(Write(<<a, b>> \o Cut(Three(reading, i), room)))
    <2> TAKE a, b, i, room
    <2> HAVE room \in Nat
    <2>1. IsList(<<a, b>>) /\ IsList(Cut(Three(reading, i), room))
        BY <1>2, FewAreList, CutIsList
    <2>2. IsList(<<a, b>> \o Cut(Three(reading, i), room))
        BY ONLY <2>1, ListsJoin
    <2> QED BY ONLY <2>2, WriteIsList
<1> DEFINE u == Write(<<Glyph.Accel, Blank>> \o Cut(Three(reading, 1), 9))
           v == Write(<<Glyph.Gyro, Blank>> \o Cut(Three(reading, 4), 10))
           c == SetCursor(0, 0)
           d == SetCursor(0, 1)
<1>4. IsList(u) /\ IsList(v) /\ IsList(c) /\ IsList(d) /\ IsList(Clear)
    BY <1>3, ByteIsList DEF Clear, SetCursor
<1>5. LcdShowImu(reading) = Clear \o c \o u \o d \o v
    BY Zenon DEF LcdShowImu
<1> HIDE DEF u, v, c, d
<1>6. IsList(Clear \o c)
    BY ONLY <1>4, ListsJoin
<1>7. IsList(Clear \o c \o u)
    BY ONLY <1>4, <1>6, ListsJoin
<1>8. IsList(Clear \o c \o u \o d)
    BY ONLY <1>4, <1>7, ListsJoin
<1>9. IsList(Clear \o c \o u \o d \o v)
    BY ONLY <1>4, <1>8, ListsJoin
<1> QED BY ONLY <1>5, <1>9, ListsJoin

-----------------------------------------------------------------------------
(* Bits and bytes *)

\* A flattened list of blocks of the same length has the blocks at their offsets.
Blocks(seqs, S, n, w, o) ==
    /\ n \in Nat \ {0} /\ w \in Nat /\ DOMAIN seqs = 1..n
    /\ \A i \in 1..n : seqs[i] \in Seq(S) /\ Len(seqs[i]) = w
    /\ o[0] = 0 /\ \A i \in 1..n : o[i] = o[i - 1] + w
\* So they are laid one after the other:
Laid(s, seqs, S, n, w, o) ==
    /\ s \in Seq(S) /\ Len(s) = o[n]
    /\ \A i \in 1..n, m \in 1..w : s[o[i - 1] + m] = seqs[i][m]
\* flattening keeps the blocks, the first at offset zero.
LEMMA FlattenBlocks ==
    ASSUME NEW S, NEW seqs, NEW n, NEW w, NEW o, Blocks(seqs, S, n, w, o)
    PROVE  Laid(FlattenSeq(seqs), seqs, S, n, w, o)
<1>0. /\ n \in Nat \ {0} /\ w \in Nat /\ DOMAIN seqs = 1..n
      /\ \A i \in 1..n : seqs[i] \in Seq(S) /\ Len(seqs[i]) = w
      /\ o[0] = 0 /\ \A i \in 1..n : o[i] = o[i - 1] + w
    BY DEF Blocks
<1>1. 1 \in 1..n /\ seqs[1] \in Seq(ToSet(seqs[1]))
    <2>1. 1 \in 1..n /\ seqs[1] \in Seq(S)
        BY <1>0
    <2>2. seqs[1] \in Seq(ToSet(seqs[1]))
        BY <2>1 DEF ToSet
    <2> QED BY <2>1, <2>2
<1>2. PICK f : Joins(f, seqs, n) /\ FlattenSeq(seqs) = f[n]
    BY <1>0, <1>1, FlattenJoins
<1> DEFINE Good(k) == /\ f[k] \in Seq(S) /\ o[k] \in Nat /\ Len(f[k]) = o[k]
                      /\ \A i \in 1..k : o[i - 1] \in Nat /\ o[i - 1] + w <= o[k]
                      /\ \A i \in 1..k, m \in 1..w : f[k][o[i - 1] + m] = seqs[i][m]
           A == {k \in Nat : k <= n => Good(k)}
<1>3. 1 \in A
    <2>1. f[1] = seqs[1] /\ f[1] \in Seq(S) /\ Len(f[1]) = w
        BY <1>0, <1>1, <1>2 DEF Joins
    <2>2. o[1] = w /\ o[1 - 1] = 0
        <3>1. o[1] = o[1 - 1] + w /\ 1 - 1 = 0
            BY <1>0, <1>1
        <3> QED BY <1>0, <3>1
    <2>3. \A i \in 1..1 : i = 1
        OBVIOUS
    <2>4. \A m \in 1..w : f[1][o[1 - 1] + m] = seqs[1][m]
        <3> TAKE m \in 1..w
        <3>1. o[1 - 1] + m = m
            BY <2>2
        <3> QED BY <2>1, <3>1
    <2> QED BY <1>0, <2>1, <2>2, <2>3, <2>4
<1>4. ASSUME NEW k \in Nat, k >= 1, k \in A PROVE k + 1 \in A
    <2> SUFFICES ASSUME k + 1 <= n PROVE Good(k + 1)
        OBVIOUS
    <2>1. k + 1 \in 2..n /\ k + 1 \in 1..n /\ (k + 1) - 1 = k
        BY <1>0, <1>4
    <2>2. Good(k)
        BY <1>0, <1>4, <2>1
    <2>0. w \in Nat
        BY <1>0
    <2> DEFINE u == f[k]
               v == seqs[k + 1]
    <2>3. f[k + 1] = u \o v
        BY <1>2, <2>1 DEF Joins
    <2>4. u \in Seq(S) /\ v \in Seq(S) /\ Len(u) = o[k] /\ Len(v) = w /\ o[k] \in Nat /\ o[k + 1] = o[k] + w
        BY <1>0, <2>1, <2>2
    <2> HIDE DEF Good
    <2> HIDE DEF u, v
    <2>5. /\ u \o v \in Seq(S) /\ Len(u \o v) = Len(u) + Len(v)
          /\ \A i \in 1..Len(u) : (u \o v)[i] = u[i]
          /\ \A i \in 1..Len(v) : (u \o v)[Len(u) + i] = v[i]
        <3>1. u \in Seq(S) /\ v \in Seq(S)
            BY <2>4
        <3> QED BY ONLY <3>1, JoinAny
    <2>6. f[k + 1] \in Seq(S) /\ o[k + 1] \in Nat /\ Len(f[k + 1]) = o[k + 1]
        BY <2>3, <2>4, <2>5
    <2>7. \A i \in 1..(k + 1) : i \in 1..k \/ i = k + 1
        OBVIOUS
    <2>8. \A i \in 1..(k + 1) : o[i - 1] \in Nat /\ o[i - 1] + w <= o[k + 1]
        <3> TAKE i \in 1..(k + 1)
        <3>1. CASE i \in 1..k
            <4>1. o[i - 1] \in Nat /\ o[i - 1] + w <= o[k]
                BY <2>2, <3>1 DEF Good
            <4> QED BY <2>4, <4>1
        <3>2. CASE i = k + 1
            BY <1>0, <2>1, <2>4, <3>2
        <3> QED BY <2>7, <3>1, <3>2
    <2>9. ASSUME NEW i \in 1..(k + 1), NEW m \in 1..w PROVE f[k + 1][o[i - 1] + m] = seqs[i][m]
        <3>1. CASE i \in 1..k
            <4>1. o[i - 1] \in Nat /\ o[i - 1] + w <= o[k] /\ u[o[i - 1] + m] = seqs[i][m]
                BY <2>2, <3>1 DEF Good, u
            <4>2. o[i - 1] + m \in 1..Len(u)
                BY ONLY <2>4, <4>1, m \in 1..w, <2>0
            <4> QED BY <2>3, <2>5, <4>1, <4>2
        <3>2. CASE i = k + 1
            <4>1. o[i - 1] = Len(u) /\ seqs[i] = v /\ m \in 1..Len(v)
                BY <2>1, <2>4, <3>2 DEF v
            <4> QED BY <2>3, <2>5, <4>1
        <3> QED BY <2>7, <3>1, <3>2
    <2> QED BY <2>6, <2>8, <2>9 DEF Good
<1> HIDE DEF A
<1>5. n \in A
    <2>1. 1 \in Nat /\ \A k \in Nat : k >= 1 /\ k \in A => k + 1 \in A
        BY <1>4
    <2>2. \A k \in Nat : k >= 1 => k \in A
        BY ONLY <1>3, <2>1, SumFold!NatSetFrom
    <2> QED BY <1>0, <2>2
<1>6. n <= n => Good(n)
    BY <1>5 DEF A
<1> HIDE DEF Good
<1>7. Good(n)
    BY <1>0, <1>6
<1> QED BY <1>2, <1>7 DEF Good, Laid

\* What a wire carries.
Bit == {0, 1}

\* The weights of the bits of a byte,
LEMMA Weights ==
    /\ Weight[1] = 1 /\ Weight[2] = 2 /\ Weight[3] = 4 /\ Weight[4] = 8
    /\ Weight[5] = 16 /\ Weight[6] = 32 /\ Weight[7] = 64 /\ Weight[8] = 128
BY DEF Weight

\* of which it has eight,
LEMMA BitsOfByte ==
    ASSUME NEW byte \in Byte
    PROVE  /\ ByteBits(byte) \in Seq(Bit) /\ Len(ByteBits(byte)) = 8 /\ DOMAIN ByteBits(byte) = 1..8
           /\ \A i \in 1..8 : ByteBits(byte)[i] = (byte \div Weight[i]) % 2 /\ ByteBits(byte)[i] \in Bit
<1>1. \A i \in 1..8 : Weight[i] \in Nat \ {0}
    <2>1. \A i \in 1..8 : i \in {1, 2, 3, 4, 5, 6, 7, 8}
        OBVIOUS
    <2> QED BY <2>1, Weights
<1>2. \A d \in Nat \ {0} : (byte \div d) % 2 \in Bit
    BY DEF Byte, Bit
<1>3. \A i \in 1..8 : (byte \div Weight[i]) % 2 \in Bit
    BY <1>1, <1>2
<1>4. ByteBits(byte) = [i \in 1..8 |-> (byte \div Weight[i]) % 2]
    BY DEF ByteBits
<1> QED BY <1>3, <1>4

\* each of them what halving the byte so often leaves:
LEMMA Halvings ==
    ASSUME NEW byte \in Byte
    PROVE  /\ byte \div 1 = byte /\ byte \div 128 = (byte \div 128) % 2
           /\ byte = 2 * (byte \div 2) + (byte % 2)
           /\ byte \div 2 = 2 * (byte \div 4) + ((byte \div 2) % 2)
           /\ byte \div 4 = 2 * (byte \div 8) + ((byte \div 4) % 2)
           /\ byte \div 8 = 2 * (byte \div 16) + ((byte \div 8) % 2)
           /\ byte \div 16 = 2 * (byte \div 32) + ((byte \div 16) % 2)
           /\ byte \div 32 = 2 * (byte \div 64) + ((byte \div 32) % 2)
           /\ byte \div 64 = 2 * (byte \div 128) + ((byte \div 64) % 2)
<1>1. byte \in Nat /\ byte <= 255 /\ byte \div 1 = byte
    BY DEF Byte
<1>2. /\ byte = 2 * (byte \div 2) + (byte % 2)
      /\ byte \div 2 = 2 * (byte \div 4) + ((byte \div 2) % 2)
      /\ byte \div 4 = 2 * (byte \div 8) + ((byte \div 4) % 2)
      /\ byte \div 8 = 2 * (byte \div 16) + ((byte \div 8) % 2)
    BY <1>1
<1>3. /\ byte \div 16 = 2 * (byte \div 32) + ((byte \div 16) % 2)
      /\ byte \div 32 = 2 * (byte \div 64) + ((byte \div 32) % 2)
      /\ byte \div 64 = 2 * (byte \div 128) + ((byte \div 64) % 2)
      /\ byte \div 128 = (byte \div 128) % 2
    BY <1>1
<1> QED BY <1>1, <1>2, <1>3

\* and which make it up again, as the firmware of the DS18B20 adds them up
LEMMA ValueIsByte ==
    ASSUME NEW byte \in Byte
    PROVE  ValueOfBits(ByteBits(byte)) = byte
<1> DEFINE q1 == byte \div 2
           q2 == byte \div 4
           q3 == byte \div 8
           q4 == byte \div 16
           q5 == byte \div 32
           q6 == byte \div 64
           q7 == byte \div 128
<1>1. byte \in Nat /\ byte <= 255 /\ byte \div 1 = byte
    BY DEF Byte
<1>2. /\ byte = 2 * q1 + (byte % 2) /\ q1 = 2 * q2 + (q1 % 2) /\ q2 = 2 * q3 + (q2 % 2)
      /\ q3 = 2 * q4 + (q3 % 2) /\ q4 = 2 * q5 + (q4 % 2) /\ q5 = 2 * q6 + (q5 % 2)
      /\ q6 = 2 * q7 + (q6 % 2) /\ q7 = q7 % 2
    BY ONLY byte \in Byte, Halvings
<1>4. /\ ByteBits(byte)[1] = byte % 2 /\ ByteBits(byte)[2] = q1 % 2 /\ ByteBits(byte)[3] = q2 % 2
      /\ ByteBits(byte)[4] = q3 % 2 /\ ByteBits(byte)[5] = q4 % 2 /\ ByteBits(byte)[6] = q5 % 2
      /\ ByteBits(byte)[7] = q6 % 2 /\ ByteBits(byte)[8] = q7 % 2
    <2> DEFINE bits == ByteBits(byte)
    <2>1. \A i \in 1..8 : bits[i] = (byte \div Weight[i]) % 2
        BY BitsOfByte
    <2> HIDE DEF bits
    <2>2. /\ bits[1] = (byte \div Weight[1]) % 2 /\ bits[2] = (byte \div Weight[2]) % 2
          /\ bits[3] = (byte \div Weight[3]) % 2 /\ bits[4] = (byte \div Weight[4]) % 2
          /\ bits[5] = (byte \div Weight[5]) % 2 /\ bits[6] = (byte \div Weight[6]) % 2
          /\ bits[7] = (byte \div Weight[7]) % 2 /\ bits[8] = (byte \div Weight[8]) % 2
        BY ONLY <2>1
    <2>3. (byte \div 1) % 2 = byte % 2
        BY <1>1
    <2>4. /\ bits[1] = byte % 2 /\ bits[2] = (byte \div 2) % 2 /\ bits[3] = (byte \div 4) % 2
          /\ bits[4] = (byte \div 8) % 2 /\ bits[5] = (byte \div 16) % 2 /\ bits[6] = (byte \div 32) % 2
          /\ bits[7] = (byte \div 64) % 2 /\ bits[8] = (byte \div 128) % 2
        BY ONLY <2>2, <2>3, Weights
    <2> QED BY ONLY <2>4 DEF bits, q1, q2, q3, q4, q5, q6, q7
<1>5. /\ byte % 2 \in Int /\ q1 % 2 \in Int /\ q2 % 2 \in Int /\ q3 % 2 \in Int
      /\ q4 % 2 \in Int /\ q5 % 2 \in Int /\ q6 % 2 \in Int /\ q7 % 2 \in Int
      /\ q1 \in Int /\ q2 \in Int /\ q3 \in Int /\ q4 \in Int /\ q5 \in Int /\ q6 \in Int /\ q7 \in Int
    BY <1>1
<1> HIDE DEF q1, q2, q3, q4, q5, q6, q7
<1> QED BY <1>1, <1>2, <1>4, <1>5 DEF ValueOfBits

\* and as that of the DHT11 shifts them in, the high one first.
ShiftedIn(byte, m) == IF m = 0 THEN 0 ELSE byte \div Weight[9 - m]
\* The bits shifted in are the byte after eight of them, and each doubles what is there.
LEMMA ShiftingIn ==
    ASSUME NEW byte \in Byte
    PROVE  /\ ShiftedIn(byte, 0) = 0 /\ ShiftedIn(byte, 8) = byte
           /\ \A m \in 1..8 : ShiftedIn(byte, m) = 2 * ShiftedIn(byte, m - 1) + ByteBits(byte)[9 - m]
           /\ \A m \in 0..8 : ShiftedIn(byte, m) \in Nat
<1> DEFINE bits == ByteBits(byte)
<1>1. \A i \in 1..8 : bits[i] = (byte \div Weight[i]) % 2
    BY BitsOfByte
<1> HIDE DEF bits
<1>2. /\ bits[1] = (byte \div 1) % 2 /\ bits[2] = (byte \div 2) % 2
      /\ bits[3] = (byte \div 4) % 2 /\ bits[4] = (byte \div 8) % 2
      /\ bits[5] = (byte \div 16) % 2 /\ bits[6] = (byte \div 32) % 2
      /\ bits[7] = (byte \div 64) % 2 /\ bits[8] = (byte \div 128) % 2
    <2>1. /\ bits[1] = (byte \div Weight[1]) % 2 /\ bits[2] = (byte \div Weight[2]) % 2
          /\ bits[3] = (byte \div Weight[3]) % 2 /\ bits[4] = (byte \div Weight[4]) % 2
          /\ bits[5] = (byte \div Weight[5]) % 2 /\ bits[6] = (byte \div Weight[6]) % 2
          /\ bits[7] = (byte \div Weight[7]) % 2 /\ bits[8] = (byte \div Weight[8]) % 2
        BY ONLY <1>1
    <2> QED BY ONLY <2>1, Weights
<1>3. /\ ShiftedIn(byte, 0) = 0 /\ ShiftedIn(byte, 1) = byte \div 128 /\ ShiftedIn(byte, 2) = byte \div 64
      /\ ShiftedIn(byte, 3) = byte \div 32 /\ ShiftedIn(byte, 4) = byte \div 16
      /\ ShiftedIn(byte, 5) = byte \div 8 /\ ShiftedIn(byte, 6) = byte \div 4
      /\ ShiftedIn(byte, 7) = byte \div 2 /\ ShiftedIn(byte, 8) = byte \div 1
    <2>1. /\ ShiftedIn(byte, 1) = byte \div Weight[8] /\ ShiftedIn(byte, 2) = byte \div Weight[7]
          /\ ShiftedIn(byte, 3) = byte \div Weight[6] /\ ShiftedIn(byte, 4) = byte \div Weight[5]
          /\ ShiftedIn(byte, 5) = byte \div Weight[4] /\ ShiftedIn(byte, 6) = byte \div Weight[3]
          /\ ShiftedIn(byte, 7) = byte \div Weight[2] /\ ShiftedIn(byte, 8) = byte \div Weight[1]
        BY DEF ShiftedIn
    <2>2. ShiftedIn(byte, 0) = 0
        BY DEF ShiftedIn
    <2> QED BY ONLY <2>1, <2>2, Weights
<1>4. /\ byte \div 1 = byte /\ byte \div 128 = (byte \div 128) % 2
      /\ byte \div 1 = 2 * (byte \div 2) + ((byte \div 1) % 2)
      /\ byte \div 2 = 2 * (byte \div 4) + ((byte \div 2) % 2)
      /\ byte \div 4 = 2 * (byte \div 8) + ((byte \div 4) % 2)
      /\ byte \div 8 = 2 * (byte \div 16) + ((byte \div 8) % 2)
      /\ byte \div 16 = 2 * (byte \div 32) + ((byte \div 16) % 2)
      /\ byte \div 32 = 2 * (byte \div 64) + ((byte \div 32) % 2)
      /\ byte \div 64 = 2 * (byte \div 128) + ((byte \div 64) % 2)
    BY ONLY byte \in Byte, Halvings
<1>5. ASSUME NEW m \in 1..8 PROVE ShiftedIn(byte, m) = 2 * ShiftedIn(byte, m - 1) + bits[9 - m]
    <2>0. 2 * 0 + ((byte \div 128) % 2) = (byte \div 128) % 2
        BY DEF Byte
    <2>1. CASE m = 1
        <3>1. m - 1 = 0 /\ 9 - m = 8
            BY <2>1
        <3>2. ShiftedIn(byte, 1) = byte \div 128 /\ ShiftedIn(byte, 0) = 0 /\ bits[8] = byte \div 128
            BY ONLY <1>2, <1>3, <1>4
        <3>3. byte \div 128 \in Int
            BY DEF Byte
        <3> QED BY ONLY <2>1, <3>1, <3>2, <3>3
    <2>2. CASE m = 2
        BY <1>2, <1>3, <1>4, <2>2
    <2>3. CASE m = 3
        BY <1>2, <1>3, <1>4, <2>3
    <2>4. CASE m = 4
        BY <1>2, <1>3, <1>4, <2>4
    <2>5. CASE m = 5
        BY <1>2, <1>3, <1>4, <2>5
    <2>6. CASE m = 6
        BY <1>2, <1>3, <1>4, <2>6
    <2>7. CASE m = 7
        BY <1>2, <1>3, <1>4, <2>7
    <2>8. CASE m = 8
        BY <1>2, <1>3, <1>4, <2>8
    <2> QED BY <2>1, <2>2, <2>3, <2>4, <2>5, <2>6, <2>7, <2>8
<1>6. ASSUME NEW m \in 0..8 PROVE ShiftedIn(byte, m) \in Nat
    <2>1. \A i \in 1..8 : Weight[i] \in Nat \ {0}
        <3>1. \A i \in 1..8 : i \in {1, 2, 3, 4, 5, 6, 7, 8}
            OBVIOUS
        <3> QED BY <3>1, Weights
    <2>2. \A d \in Nat \ {0} : byte \div d \in Nat
        BY DEF Byte
    <2>3. m # 0 => 9 - m \in 1..8
        OBVIOUS
    <2> QED BY <2>1, <2>2, <2>3 DEF ShiftedIn
<1> QED BY <1>3, <1>4, <1>5, <1>6 DEF bits

-----------------------------------------------------------------------------
(* DHT11 *)

\* The five bytes of an answer, the last of them the sum of the others,
FrameBytes(temperature, humidity) == <<humidity, 0, temperature, 0, (humidity + temperature) % 256>>
\* and its forty bits.
LEMMA FrameOfBytes ==
    ASSUME NEW temperature \in Byte, NEW humidity \in Byte
    PROVE  LET bits == FrameBits(temperature, humidity)
               bytes == FrameBytes(temperature, humidity)
           IN /\ bits \in Seq(Bit) /\ Len(bits) = 40 /\ bytes \in Seq(Byte) /\ DOMAIN bytes = 1..5
              /\ \A i \in 1..5 : bytes[i] \in Byte
              /\ \A i \in 1..5, m \in 1..8 : bits[8 * (i - 1) + m] = ByteBits(bytes[i])[9 - m]
<1> DEFINE bytes == FrameBytes(temperature, humidity)
           seqs == [i \in 1..5 |-> Reverse(ByteBits(bytes[i]))]
           o == [i \in 0..5 |-> 8 * i]
<1>1. bytes \in Seq(Byte) /\ DOMAIN bytes = 1..5 /\ \A i \in 1..5 : bytes[i] \in Byte
    <2>1. (humidity + temperature) % 256 \in Byte /\ 0 \in Byte
        BY DEF Byte
    <2> HIDE DEF Byte
    <2>2. bytes \in Seq(Byte) /\ Len(bytes) = 5
        BY <2>1 DEF FrameBytes
    <2> HIDE DEF bytes
    <2>3. DOMAIN bytes = 1..Len(bytes) /\ \A i \in DOMAIN bytes : bytes[i] \in Byte
        <3>1. \A s : s \in Seq(Byte) => DOMAIN s = 1..Len(s) /\ \A i \in DOMAIN s : s[i] \in Byte
            OBVIOUS
        <3> QED BY ONLY <2>2, <3>1, Zenon
    <2>4. DOMAIN bytes = 1..5
        BY ONLY <2>2, <2>3, Zenon
    <2> QED BY ONLY <2>2, <2>3, <2>4, Zenon
<1>2. FrameBits(temperature, humidity) = FlattenSeq(seqs)
    <2>1. ClampByte(temperature) = temperature /\ ClampByte(humidity) = humidity
        BY DEF Byte, ClampByte
    <2> QED BY <2>1 DEF FrameBits, FrameBytes
<1> HIDE DEF bytes
<1>3. ASSUME NEW i \in 1..5
      PROVE  /\ Reverse(ByteBits(bytes[i])) \in Seq(Bit) /\ Len(Reverse(ByteBits(bytes[i]))) = 8
             /\ \A m \in 1..8 : Reverse(ByteBits(bytes[i]))[m] = ByteBits(bytes[i])[9 - m]
    <2> DEFINE b == ByteBits(bytes[i])
               r == Reverse(b)
    <2>1. Len(b) = 8 /\ \A m \in 1..8 : b[m] \in Bit
        BY <1>1, BitsOfByte
    <2> HIDE DEF b
    <2>2. r = [m \in 1..8 |-> b[(8 - m) + 1]]
        BY <2>1 DEF Reverse
    <2>3. \A m \in 1..8 : (8 - m) + 1 = 9 - m /\ 9 - m \in 1..8
        OBVIOUS
    <2> HIDE DEF r
    <2>4. \A m \in 1..8 : r[m] = b[9 - m] /\ r[m] \in Bit
        BY <2>1, <2>2, <2>3
    <2>5. r \in Seq(Bit) /\ Len(r) = 8
        BY <2>2, <2>4
    <2> QED BY <2>4, <2>5 DEF r, b
<1>4. /\ 5 \in Nat \ {0} /\ 8 \in Nat /\ DOMAIN seqs = 1..5
      /\ \A i \in 1..5 : seqs[i] \in Seq(Bit) /\ Len(seqs[i]) = 8
    BY <1>3
<1>5. o[0] = 0 /\ \A i \in 1..5 : o[i] = o[i - 1] + 8 /\ o[i - 1] = 8 * (i - 1)
    OBVIOUS
<1>6. o[5] = 40
    OBVIOUS
<1>7. \A i \in 1..5, m \in 1..8 : seqs[i][m] = ByteBits(bytes[i])[9 - m]
    BY <1>3
<1> HIDE DEF seqs, o
<1>8. /\ FlattenSeq(seqs) \in Seq(Bit) /\ Len(FlattenSeq(seqs)) = o[5]
      /\ \A i \in 1..5, m \in 1..8 : FlattenSeq(seqs)[o[i - 1] + m] = seqs[i][m]
    <2> DEFINE n == 5
               w == 8
    <2>1. Blocks(seqs, Bit, n, w, o)
        BY ONLY <1>4, <1>5 DEF Blocks
    <2> HIDE DEF n, w
    <2>2. Laid(FlattenSeq(seqs), seqs, Bit, n, w, o)
        BY ONLY <2>1, FlattenBlocks
    <2> QED BY ONLY <2>2 DEF Laid, n, w
<1>9. \A i \in 1..5, m \in 1..8 : FlattenSeq(seqs)[8 * (i - 1) + m] = ByteBits(bytes[i])[9 - m]
    BY ONLY <1>5, <1>7, <1>8
<1> QED BY <1>1, <1>2, <1>6, <1>8, <1>9 DEF bytes

\* A line whose changes come one after the other:
Rising(line, n) ==
    /\ n \in Nat /\ DOMAIN line = 1..n
    /\ \A i \in 1..n : line[i].at \in Int
    /\ \A i \in 1..n : i + 1 <= n => line[i].at < line[i + 1].at
\* an earlier one is not later,
LEMMA EarlierIsEarlier ==
    ASSUME NEW line, NEW n, Rising(line, n), NEW k \in 1..n, NEW i \in 1..n, i <= k
    PROVE  line[i].at <= line[k].at
<1>0. /\ n \in Nat /\ \A j \in 1..n : line[j].at \in Int
      /\ \A j \in 1..n : j + 1 <= n => line[j].at < line[j + 1].at
    BY DEF Rising
<1> DEFINE A == {m \in Nat : m <= n => line[i].at <= line[m].at}
<1>1. i \in Nat /\ i \in A
    BY <1>0
<1>2. ASSUME NEW m \in Nat, m >= i, m \in A PROVE m + 1 \in A
    <2> SUFFICES ASSUME m + 1 <= n PROVE line[i].at <= line[m + 1].at
        OBVIOUS
    <2>1. m \in 1..n /\ m + 1 \in 1..n /\ line[i].at <= line[m].at
        BY <1>0, <1>2
    <2>2. line[m].at < line[m + 1].at /\ line[i].at \in Int /\ line[m].at \in Int /\ line[m + 1].at \in Int
        BY <1>0, <2>1
    <2> QED BY <2>1, <2>2
<1> HIDE DEF A
<1>3. k \in Nat /\ k >= i /\ k <= n
    BY <1>0
<1>4. k \in A
    <2>1. \A m \in Nat : m >= i => m \in A
        BY ONLY <1>1, <1>2, SumFold!NatSetFrom
    <2> QED BY <1>3, <2>1
<1> QED BY <1>3, <1>4 DEF A

\* and between two of them the later one is the next.
LEMMA NextEdge ==
    ASSUME NEW line, NEW n, Rising(line, n), NEW k \in 1..n, k + 1 <= n,
           NEW from \in Int, line[k].at <= from, from < line[k + 1].at,
           NEW level, line[k].v # level, line[k + 1].v = level
    PROVE  Edge(line, from, level, line[k + 1].at)
<1>0. n \in Nat /\ DOMAIN line = 1..n /\ (\A i \in 1..n : line[i].at \in Int) /\ k \in Nat /\ k >= 1 /\ k + 1 \in 1..n
    BY DEF Rising
<1>1. ASSUME NEW i \in 1..n PROVE line[i].at <= from <=> i <= k
    <2>1. CASE i <= k
        <3>1. line[i].at <= line[k].at
            BY <2>1, EarlierIsEarlier
        <3> QED BY <1>0, <2>1, <3>1
    <2>2. CASE ~(i <= k)
        <3>1. k + 1 <= i
            BY <2>2
        <3>2. line[k + 1].at <= line[i].at
            BY <1>0, <3>1, EarlierIsEarlier
        <3> QED BY <1>0, <2>2, <3>2
    <2> QED BY <2>1, <2>2
<1> QED BY <1>0, <1>1 DEF Edge

\* The time of the bits of an answer, after so many milliseconds of them.
Tick(from, ms) == from + 21500 + 1000 * ms
\* Each bit starts with a fall; a 1 takes 2 ms, a 0 takes 1 ms.
Falling(f, from, bits, n) ==
    /\ n \in Nat /\ f[1] = from + 21500
    /\ \A i \in 1..(n + 1) : f[i] \in Int /\ f[i] >= from + 21500
    /\ \A i \in 1..n : bits[i] \in Bit /\ f[i + 1] = f[i] + 1000 * (1 + bits[i])
\* The changes of an answer that starts at a time: what answers the start, then for each
\* bit and for the end a fall and, 500 us later, a rise.
Answering(line, from, bits, f, n) ==
    /\ line[1].at = 0 /\ line[1].v = 1
    /\ line[2].at = from + 20500 /\ line[2].v = 0
    /\ line[3].at = from + 21000 /\ line[3].v = 1
    /\ Falling(f, from, bits, n)
    /\ \A i \in 1..(n + 1) : /\ line[2 * i + 2].at = f[i] /\ line[2 * i + 2].v = 0
                             /\ line[2 * i + 3].at = f[i] + 500 /\ line[2 * i + 3].v = 1
\* An answer of a chip.
Answer(line, from, bits, f, n) ==
    from \in Nat /\ n \in Nat /\ DOMAIN line = 1..(2 * n + 5) /\ Answering(line, from, bits, f, n)
\* How many bits are set before one of them.
Ones(bits, i) == Cardinality({j \in 1..(i - 1) : bits[j] = 1})
\* Their number starts at zero and grows by the bits that are set.
LEMMA OnesCount ==
    ASSUME NEW bits, NEW n \in Nat, \A i \in 1..n : bits[i] \in Bit
    PROVE  /\ Ones(bits, 1) = 0
           /\ \A i \in 1..(n + 1) : Ones(bits, i) \in Nat
           /\ \A i \in 1..n : Ones(bits, i + 1) = Ones(bits, i) + bits[i]
<1>1. Ones(bits, 1) = 0
    <2>1. {j \in 1..(1 - 1) : bits[j] = 1} = {}
        OBVIOUS
    <2> QED BY <2>1, FS_EmptySet DEF Ones
<1>2. ASSUME NEW i \in Nat
      PROVE  IsFiniteSet({j \in 1..(i - 1) : bits[j] = 1}) /\ Ones(bits, i) \in Nat
    <2>1. IsFiniteSet(1..(i - 1)) /\ {j \in 1..(i - 1) : bits[j] = 1} \in SUBSET (1..(i - 1))
        BY FS_Interval
    <2>2. IsFiniteSet({j \in 1..(i - 1) : bits[j] = 1})
        BY <2>1, FS_Subset
    <2> QED BY <2>2, FS_CardinalityType DEF Ones
<1>3. ASSUME NEW i \in 1..n PROVE Ones(bits, i + 1) = Ones(bits, i) + bits[i]
    <2> DEFINE before == {j \in 1..(i - 1) : bits[j] = 1}
               upto == {j \in 1..((i + 1) - 1) : bits[j] = 1}
    <2>1. IsFiniteSet(before) /\ Cardinality(before) \in Nat /\ i \notin before
        <3>1. i \in Nat
            OBVIOUS
        <3>2. i \notin 1..(i - 1)
            BY <3>1
        <3> QED BY <1>2, <3>1, <3>2 DEF Ones
    <2>2. CASE bits[i] = 1
        <3>1. upto = before \cup {i}
            BY <2>2
        <3> HIDE DEF before, upto
        <3>2. Cardinality(upto) = Cardinality(before) + 1
            BY <2>1, <3>1, FS_AddElement
        <3> QED BY <2>2, <3>2 DEF Ones, before, upto
    <2>3. CASE bits[i] # 1
        <3>1. upto = before /\ bits[i] = 0
            BY <2>3 DEF Bit
        <3> HIDE DEF before, upto
        <3>2. Cardinality(upto) = Cardinality(before) + 0
            BY <2>1, <3>1
        <3> QED BY <3>1, <3>2 DEF Ones, before, upto
    <2> QED BY <2>2, <2>3
<1>4. \A i \in 1..(n + 1) : i \in Nat
    OBVIOUS
<1> QED BY <1>1, <1>2, <1>3, <1>4

\* The fall of a bit comes 1 ms after that of a 0 before it and 2 ms after that of a 1.
LEMMA FallsCome ==
    ASSUME NEW from \in Nat, NEW bits \in Seq(Bit), NEW n \in Nat, Len(bits) = n
    PROVE  Falling([i \in 1..(n + 1) |-> BitStart(from, bits, i)], from, bits, n)
<1> DEFINE f == [i \in 1..(n + 1) |-> BitStart(from, bits, i)]
           k(i) == i - 1 + Ones(bits, i)
<1>1. \A i \in 1..n : bits[i] \in Bit
    <2>1. \A s : s \in Seq(Bit) => \A i \in 1..Len(s) : s[i] \in Bit
        OBVIOUS
    <2>2. \A i \in 1..Len(bits) : bits[i] \in Bit
        BY ONLY <2>1, bits \in Seq(Bit), Zenon
    <2> QED BY ONLY <2>2, Len(bits) = n
<1>2. Ones(bits, 1) = 0 /\ (\A i \in 1..(n + 1) : Ones(bits, i) \in Nat)
      /\ \A i \in 1..n : Ones(bits, i + 1) = Ones(bits, i) + bits[i]
    BY ONLY <1>1, n \in Nat, OnesCount
<1>3. \A i \in 1..(n + 1) : f[i] = Tick(from, k(i))
    <2> SUFFICES ASSUME NEW i \in 1..(n + 1) PROVE f[i] = Tick(from, k(i))
        OBVIOUS
    <2>1. f[i] = BitStart(from, bits, i)
        OBVIOUS
    <2> QED BY ONLY <2>1 DEF BitStart, Ones, Tick
<1>4. k(1) = 0 /\ \A i \in 1..(n + 1) : k(i) \in Nat
    BY ONLY <1>2, n \in Nat
<1>5. \A i \in 1..n : k(i + 1) = k(i) + 1 + bits[i] /\ bits[i] \in Nat
    <2> TAKE i \in 1..n
    <2>1. i \in 1..(n + 1) /\ i + 1 \in 1..(n + 1)
        OBVIOUS
    <2>2. Ones(bits, i) \in Nat /\ Ones(bits, i + 1) = Ones(bits, i) + bits[i] /\ bits[i] \in Bit
        BY ONLY <1>1, <1>2, <2>1, i \in 1..n, Zenon
    <2>3. \A b \in Bit : b \in Nat
        BY DEF Bit
    <2>4. bits[i] \in Nat
        BY <2>2, <2>3
    <2>5. (i + 1) - 1 + (Ones(bits, i) + bits[i]) = (i - 1 + Ones(bits, i)) + 1 + bits[i]
        BY ONLY <2>2, <2>4, i \in 1..n, n \in Nat
    <2> QED BY ONLY <2>2, <2>4, <2>5
<1> HIDE DEF f, k
<1>6. \A m \in Nat : Tick(from, m) \in Int /\ Tick(from, m) >= from + 21500
    BY ONLY from \in Nat DEF Tick
<1>7. \A m, b \in Nat : Tick(from, m + 1 + b) = Tick(from, m) + 1000 * (1 + b)
    BY ONLY from \in Nat DEF Tick
<1>8. Tick(from, 0) = from + 21500
    BY ONLY from \in Nat DEF Tick
<1>9. 1 \in 1..(n + 1) /\ \A i \in 1..n : i \in 1..(n + 1) /\ i + 1 \in 1..(n + 1)
    BY ONLY n \in Nat
<1>10. f[1] = from + 21500
    BY ONLY <1>3, <1>4, <1>8, <1>9
<1>11. \A i \in 1..(n + 1) : f[i] \in Int /\ f[i] >= from + 21500
    <2> TAKE i \in 1..(n + 1)
    <2>1. f[i] = Tick(from, k(i)) /\ k(i) \in Nat
        BY ONLY <1>3, <1>4, i \in 1..(n + 1)
    <2> QED BY ONLY <1>6, <2>1
<1>12. \A i \in 1..n : f[i + 1] = f[i] + 1000 * (1 + bits[i])
    BY ONLY <1>3, <1>4, <1>5, <1>7, <1>9
<1> QED BY ONLY <1>1, <1>10, <1>11, <1>12, n \in Nat DEF Falling, f

\* The line of the chip is such a one.
LEMMA AnswerLine ==
    ASSUME NEW from \in Nat, NEW n \in Nat, NEW bits \in Seq(Bit), Len(bits) = n
    PROVE  \E f : Answer(<<[at |-> 0, v |-> 1]>> \o DhtAnswer(from, bits), from, bits, f, n)
<1> DEFINE f == [i \in 1..(n + 1) |-> BitStart(from, bits, i)]
           S == [at : Int, v : Bit]
           fall(at) == [at |-> at, v |-> 0]
           rise(at) == [at |-> at, v |-> 1]
           seqs == [i \in 1..(Len(bits) + 1) |-> <<fall(BitStart(from, bits, i)), rise(BitStart(from, bits, i) + 500)>>]
           head == <<fall(from + 20500), rise(from + 21000)>>
           rest == FlattenSeq(seqs)
           top == <<rise(0)>>
           o == [i \in 0..(n + 1) |-> 2 * i]
<1>1. DhtAnswer(from, bits) = head \o rest
    BY DEF DhtAnswer
<1>2. Falling(f, from, bits, n)
    BY FallsCome
<1>3. \A at \in Int : fall(at) \in S /\ rise(at) \in S
    BY DEF Bit
<1>4. \A at : fall(at).at = at /\ fall(at).v = 0 /\ rise(at).at = at /\ rise(at).v = 1
    OBVIOUS
<1> HIDE DEF fall, rise, S
<1>5. DOMAIN seqs = 1..(n + 1) /\ \A i \in 1..(n + 1) : seqs[i] = <<fall(f[i]), rise(f[i] + 500)>>
    OBVIOUS
<1> HIDE DEF f, seqs
<1>6. \A i \in 1..(n + 1) : /\ seqs[i] \in Seq(S) /\ Len(seqs[i]) = 2
                            /\ seqs[i][1] = fall(f[i]) /\ seqs[i][2] = rise(f[i] + 500)
    <2> TAKE i \in 1..(n + 1)
    <2>1. \A j \in 1..(n + 1) : f[j] \in Int
        BY ONLY <1>2 DEF Falling
    <2>2. f[i] \in Int /\ f[i] + 500 \in Int
        BY ONLY <2>1, i \in 1..(n + 1)
    <2>3. fall(f[i]) \in S /\ rise(f[i] + 500) \in S
        BY ONLY <1>3, <2>2
    <2>4. seqs[i] = <<fall(f[i]), rise(f[i] + 500)>>
        BY ONLY <1>5, i \in 1..(n + 1)
    <2> DEFINE a == fall(f[i])
               b == rise(f[i] + 500)
    <2>5. a \in S /\ b \in S /\ seqs[i] = <<a, b>>
        BY ONLY <2>3, <2>4 DEF a, b
    <2> HIDE DEF a, b
    <2>6. seqs[i] \in Seq(S) /\ Len(seqs[i]) = 2 /\ seqs[i][1] = a /\ seqs[i][2] = b
        BY ONLY <2>5
    <2> QED BY ONLY <2>6 DEF a, b
<1>7. Laid(rest, seqs, S, n + 1, 2, o)
    <2> DEFINE m == n + 1
               w == 2
    <2>1. m \in Nat \ {0} /\ o[0] = 0 /\ \A i \in 1..m : o[i] = o[i - 1] + w
        OBVIOUS
    <2>2. DOMAIN seqs = 1..m /\ w \in Nat /\ \A i \in 1..m : seqs[i] \in Seq(S) /\ Len(seqs[i]) = w
        BY <1>5, <1>6
    <2> HIDE DEF o, m, w
    <2>3. Blocks(seqs, S, m, w, o)
        BY ONLY <2>1, <2>2 DEF Blocks
    <2>4. Laid(FlattenSeq(seqs), seqs, S, m, w, o)
        BY ONLY <2>3, FlattenBlocks
    <2> QED BY <2>4 DEF m, w
<1>8. rest \in Seq(S) /\ Len(rest) = 2 * n + 2
      /\ \A i \in 1..(n + 1) : rest[2 * i - 1] = seqs[i][1] /\ rest[2 * i] = seqs[i][2]
    <2>1. o[n + 1] = 2 * n + 2 /\ \A i \in 1..(n + 1) : o[i - 1] + 1 = 2 * i - 1 /\ o[i - 1] + 2 = 2 * i
        OBVIOUS
    <2> HIDE DEF o, rest
    <2>2. rest \in Seq(S) /\ Len(rest) = o[n + 1] /\ \A i \in 1..(n + 1), m \in 1..2 : rest[o[i - 1] + m] = seqs[i][m]
        BY ONLY <1>7 DEF Laid
    <2>3. \A i \in 1..(n + 1) : rest[o[i - 1] + 1] = seqs[i][1] /\ rest[o[i - 1] + 2] = seqs[i][2]
        <3>1. 1 \in 1..2 /\ 2 \in 1..2
            OBVIOUS
        <3> QED BY ONLY <2>2, <3>1
    <2> QED BY ONLY <2>1, <2>2, <2>3
<1>9. /\ head \in Seq(S) /\ Len(head) = 2 /\ top \in Seq(S) /\ Len(top) = 1
      /\ head[1] = fall(from + 20500) /\ head[2] = rise(from + 21000) /\ top[1] = rise(0)
    <2>1. from + 20500 \in Int /\ from + 21000 \in Int /\ 0 \in Int
        OBVIOUS
    <2>2. fall(from + 20500) \in S /\ rise(from + 21000) \in S /\ rise(0) \in S
        BY ONLY <1>3, <2>1
    <2> QED BY <2>2
<1> DEFINE answer == head \o rest
           line == top \o answer
<1> HIDE DEF head, rest, top, o
<1>11. answer \in Seq(S) /\ Len(answer) = 2 * n + 4 /\ answer[1] = head[1] /\ answer[2] = head[2]
       /\ \A i \in 1..(2 * n + 2) : answer[2 + i] = rest[i]
    <2>1. /\ answer \in Seq(S) /\ Len(answer) = Len(head) + Len(rest)
          /\ (\A i \in 1..Len(head) : answer[i] = head[i])
          /\ \A i \in 1..Len(rest) : answer[Len(head) + i] = rest[i]
        <3>1. head \in Seq(S) /\ rest \in Seq(S)
            BY <1>8, <1>9
        <3> QED BY ONLY <3>1, JoinAny
    <2> HIDE DEF answer
    <2> QED BY <1>8, <1>9, <2>1
<1> HIDE DEF answer
<1>12. line \in Seq(S) /\ Len(line) = 2 * n + 5 /\ line[1] = top[1] /\ \A i \in 1..(2 * n + 4) : line[1 + i] = answer[i]
    <2>1. /\ line \in Seq(S) /\ Len(line) = Len(top) + Len(answer)
          /\ (\A i \in 1..Len(top) : line[i] = top[i])
          /\ \A i \in 1..Len(answer) : line[Len(top) + i] = answer[i]
        <3>1. top \in Seq(S) /\ answer \in Seq(S)
            BY <1>9, <1>11
        <3> QED BY ONLY <3>1, JoinAny
    <2> HIDE DEF line
    <2> QED BY <1>9, <1>11, <2>1
<1> HIDE DEF line
<1>13. DOMAIN line = 1..(2 * n + 5)
    <2>1. \A s : s \in Seq(S) => DOMAIN s = 1..Len(s)
        OBVIOUS
    <2>2. DOMAIN line = 1..Len(line)
        BY ONLY <1>12, <2>1, Zenon
    <2> QED BY ONLY <1>12, <2>2, Zenon
<1>14. line[2] = head[1] /\ line[3] = head[2]
    <2>1. 1 \in 1..(2 * n + 4) /\ 2 \in 1..(2 * n + 4) /\ 1 + 1 = 2 /\ 1 + 2 = 3
        OBVIOUS
    <2>2. line[1 + 1] = answer[1] /\ line[1 + 2] = answer[2]
        BY ONLY <1>12, <2>1
    <2> QED BY ONLY <1>11, <2>1, <2>2
<1>15. \A i \in 1..(n + 1) : line[2 * i + 2] = seqs[i][1] /\ line[2 * i + 3] = seqs[i][2]
    <2> TAKE i \in 1..(n + 1)
    <2> DEFINE p == 2 * i - 1
               q == 2 * i
    <2>1. /\ p \in 1..(2 * n + 2) /\ q \in 1..(2 * n + 2) /\ 2 + p \in 1..(2 * n + 4) /\ 2 + q \in 1..(2 * n + 4)
          /\ 1 + (2 + p) = 2 * i + 2 /\ 1 + (2 + q) = 2 * i + 3
        OBVIOUS
    <2>4. rest[p] = seqs[i][1] /\ rest[q] = seqs[i][2]
        BY ONLY <1>8, i \in 1..(n + 1)
    <2> HIDE DEF p, q
    <2>2. answer[2 + p] = rest[p] /\ answer[2 + q] = rest[q]
        BY ONLY <1>11, <2>1
    <2>3. line[1 + (2 + p)] = answer[2 + p] /\ line[1 + (2 + q)] = answer[2 + q]
        BY ONLY <1>12, <2>1
    <2> QED BY ONLY <2>1, <2>2, <2>3, <2>4
<1>16. Answering(line, from, bits, f, n)
    <2>1. /\ line[1].at = 0 /\ line[1].v = 1
          /\ line[2].at = from + 20500 /\ line[2].v = 0
          /\ line[3].at = from + 21000 /\ line[3].v = 1
        <3>1. line[1] = rise(0) /\ line[2] = fall(from + 20500) /\ line[3] = rise(from + 21000)
            BY ONLY <1>9, <1>12, <1>14
        <3> QED BY ONLY <1>4, <3>1
    <2>2. ASSUME NEW i \in 1..(n + 1)
          PROVE  /\ line[2 * i + 2].at = f[i] /\ line[2 * i + 2].v = 0
                 /\ line[2 * i + 3].at = f[i] + 500 /\ line[2 * i + 3].v = 1
        <3>1. line[2 * i + 2] = fall(f[i]) /\ line[2 * i + 3] = rise(f[i] + 500)
            BY ONLY <1>6, <1>15, i \in 1..(n + 1)
        <3> QED BY ONLY <1>4, <3>1
    <2> QED BY ONLY <1>2, <2>1, <2>2 DEF Answering
<1>17. Answer(line, from, bits, f, n)
    BY <1>13, <1>16 DEF Answer
<1>18. line = <<[at |-> 0, v |-> 1]>> \o DhtAnswer(from, bits)
    BY <1>1 DEF line, answer, top, rise
<1> QED BY <1>17, <1>18

\* The changes of an answer come one after the other.
LEMMA AnswerRises ==
    ASSUME NEW from \in Nat, NEW n \in Nat, NEW line, DOMAIN line = 1..(2 * n + 5), NEW bits, NEW f,
           Answering(line, from, bits, f, n)
    PROVE  Rising(line, 2 * n + 5)
<1>1. /\ line[1].at = 0 /\ line[2].at = from + 20500 /\ line[3].at = from + 21000
      /\ \A i \in 1..(n + 1) : line[2 * i + 2].at = f[i] /\ line[2 * i + 3].at = f[i] + 500
    BY DEF Answering
<1>2. /\ f[1] = from + 21500
      /\ \A i \in 1..(n + 1) : f[i] \in Int
      /\ \A i \in 1..n : f[i] + 500 < f[i + 1]
    <2>1. /\ f[1] = from + 21500
          /\ \A i \in 1..(n + 1) : f[i] \in Int
          /\ \A i \in 1..n : bits[i] \in Bit /\ f[i + 1] = f[i] + 1000 * (1 + bits[i])
        BY DEF Answering, Falling
    <2>2. ASSUME NEW i \in 1..n PROVE f[i] + 500 < f[i + 1]
        <3>1. i \in 1..(n + 1)
            OBVIOUS
        <3>2. f[i] \in Int /\ bits[i] \in Bit /\ f[i + 1] = f[i] + 1000 * (1 + bits[i])
            BY <2>1, <3>1
        <3>3. bits[i] \in Nat
            BY <3>2 DEF Bit
        <3> QED BY ONLY <3>2, <3>3
    <2> QED BY ONLY <2>1, <2>2
<1>3. \A j \in Int : j >= 4 /\ j <= 2 * n + 5 =>
          \E i \in 1..(n + 1) : j = 2 * i + 2 \/ j = 2 * i + 3
    <2> SUFFICES ASSUME NEW j \in Int, j >= 4, j <= 2 * n + 5
                 PROVE  \E i \in 1..(n + 1) : j = 2 * i + 2 \/ j = 2 * i + 3
        OBVIOUS
    <2> DEFINE i == (j - 2) \div 2
    <2>1. i \in Int /\ (j = 2 * i + 2 \/ j = 2 * i + 3)
        OBVIOUS
    <2> HIDE DEF i
    <2>2. i \in 1..(n + 1)
        BY <2>1
    <2> QED BY <2>1, <2>2
<1>4. ASSUME NEW j \in 1..(2 * n + 5)
      PROVE  line[j].at \in Int /\ (j + 1 <= 2 * n + 5 => line[j].at < line[j + 1].at)
    <2>1. CASE j = 1
        BY ONLY <1>1, <2>1, from \in Nat
    <2>2. CASE j = 2
        BY ONLY <1>1, <2>2, from \in Nat
    <2>3. CASE j = 3
        <3>1. 1 \in 1..(n + 1) /\ 2 * 1 + 2 = 4
            OBVIOUS
        <3>2. line[4].at = f[1]
            BY ONLY <1>1, <3>1
        <3> QED BY ONLY <1>1, <1>2, <2>3, <3>2, from \in Nat
    <2>4. CASE j >= 4
        <3>1. PICK i \in 1..(n + 1) : j = 2 * i + 2 \/ j = 2 * i + 3
            <4>1. j \in Int /\ j <= 2 * n + 5
                BY ONLY j \in 1..(2 * n + 5), n \in Nat
            <4> QED BY ONLY <1>3, <2>4, <4>1, Zenon
        <3>2. f[i] \in Int /\ line[2 * i + 2].at = f[i] /\ line[2 * i + 3].at = f[i] + 500
            BY ONLY <1>1, <1>2, i \in 1..(n + 1)
        <3>3. CASE j = 2 * i + 2
            <4>1. j + 1 = 2 * i + 3
                BY ONLY <3>3, i \in 1..(n + 1), n \in Nat
            <4> QED BY ONLY <3>2, <3>3, <4>1
        <3>4. CASE j = 2 * i + 3
            <4>0. line[j].at \in Int
                BY ONLY <3>2, <3>4
            <4> SUFFICES ASSUME j + 1 <= 2 * n + 5 PROVE line[j].at < line[j + 1].at
                BY <4>0
            <4>1. i \in 1..n /\ i + 1 \in 1..(n + 1) /\ j + 1 = 2 * (i + 1) + 2
                BY ONLY <3>4, j + 1 <= 2 * n + 5, i \in 1..(n + 1), n \in Nat
            <4>2. line[2 * (i + 1) + 2].at = f[i + 1] /\ f[i] + 500 < f[i + 1]
                BY ONLY <1>1, <1>2, <4>1
            <4> QED BY ONLY <3>2, <3>4, <4>1, <4>2
        <3> QED BY ONLY <3>1, <3>3, <3>4
    <2> QED BY ONLY <2>1, <2>2, <2>3, <2>4, j \in 1..(2 * n + 5)
<1> QED BY <1>4 DEF Rising

\* What the firmware holds while it reads.
Held(line, t, byte, data) == [line |-> line, t |-> t, byte |-> byte, data |-> data]

\* Its wait for an edge that is not far sees it, a rise (wait_level with 3000 us)
LEMMA DhtRise ==
    ASSUME mem.late \in Delays, NEW line, NEW t \in Nat, NEW at \in Nat, Edge(line, t, 1, at),
           at + 62 <= t + 3000, NEW byte, NEW data
    PROVE  DhtWait(Held(line, t, byte, data), 1) = Held(line, at + mem.late.rise, byte, data)
<1> DEFINE deadline == Cycle(t) + CyclesOf(3000)
           seen == at + mem.late.rise
<1>1. mem.late.rise \in 0..31 /\ seen \in Nat /\ seen <= at + 31
    BY DelaysAreSmall
<1>2. DhtWait(Held(line, t, byte, data), 1) = Held(line, WaitLevel(line, 1, t, deadline), byte, data)
    BY DEF DhtWait, Held
<1> HIDE DEF seen
<1>3. deadline \in Int /\ Cycle(seen) <= deadline
    <2>1. seen + 31 <= t + 3000
        BY <1>1
    <2> QED BY <1>1, <2>1, WithinCycles
<1> HIDE DEF deadline
<1>4. WaitLevel(line, 1, t, deadline) = seen
    BY <1>1, <1>3, RiseSeen DEF seen
<1> QED BY <1>2, <1>4 DEF seen

\* or a fall.
LEMMA DhtFall ==
    ASSUME mem.late \in Delays, NEW line, NEW t \in Nat, NEW at \in Nat, Edge(line, t, 0, at),
           at + 62 <= t + 3000, NEW byte, NEW data
    PROVE  DhtWait(Held(line, t, byte, data), 0) = Held(line, at + mem.late.fall, byte, data)
<1> DEFINE deadline == Cycle(t) + CyclesOf(3000)
           seen == at + mem.late.fall
<1>1. mem.late.fall \in 0..31 /\ seen \in Nat /\ seen <= at + 31
    BY DelaysAreSmall
<1>2. DhtWait(Held(line, t, byte, data), 0) = Held(line, WaitLevel(line, 0, t, deadline), byte, data)
    BY DEF DhtWait, Held
<1> HIDE DEF seen
<1>3. deadline \in Int /\ Cycle(seen) <= deadline
    <2>1. seen + 31 <= t + 3000
        BY <1>1
    <2> QED BY <1>1, <2>1, WithinCycles
<1> HIDE DEF deadline
<1>4. WaitLevel(line, 0, t, deadline) = seen
    BY <1>1, <1>3, FallSeen DEF seen
<1> QED BY <1>2, <1>4 DEF seen

\* A high of 500 us is told from one of 1500 us.
LEMMA PulsesDiffer ==
    ASSUME mem.late \in Delays, NEW at \in Nat, NEW bit \in Bit
    PROVE  (IF MicrosBetween(at + 500 + mem.late.rise, at + 1000 * (1 + bit) + mem.late.fall) > 1000 THEN 1 ELSE 0) = bit
<1> DEFINE a == at + 500 + mem.late.rise
           b == at + 1000 * (1 + bit) + mem.late.fall
           m == MicrosBetween(a, b)
<1>1. mem.late.rise \in 0..31 /\ mem.late.fall \in 0..31 /\ (bit = 0 \/ bit = 1)
    BY DelaysAreSmall DEF Bit
<1>2. a \in Nat /\ b \in Nat /\ b - a = 500 + 1000 * bit + mem.late.fall - mem.late.rise
    BY <1>1
<1> HIDE DEF a, b
<1>3. m \in Int /\ m <= b - a + 31 /\ m >= b - a - 31
    <2>1. a \in Nat /\ b \in Nat
        BY <1>2
    <2> QED BY ONLY <2>1, TicksOfSpan, Zenon
<1> HIDE DEF m
<1>4. (IF m > 1000 THEN 1 ELSE 0) = bit
    BY <1>1, <1>2, <1>3
<1> QED BY <1>4 DEF m, a, b

\* So a bit is read from where the last one ended: its time is over and it is shifted in.
ReadsBit(line, bits, f, i) ==
    \A byte, data, x : DhtBit(Held(line, f[i] + mem.late.fall, byte, data), x)
                           = Held(line, f[i + 1] + mem.late.fall, 2 * byte + bits[i], data)
\* A bit of an answer is read so.
LEMMA BitRead ==
    ASSUME mem.late \in Delays, NEW line, NEW from, NEW bits, NEW f, NEW n, Answer(line, from, bits, f, n),
           NEW i, i \in 1..n
    PROVE  ReadsBit(line, bits, f, i)
<1> SUFFICES ASSUME NEW byte, NEW data, NEW x
             PROVE  DhtBit(Held(line, f[i] + mem.late.fall, byte, data), x)
                        = Held(line, f[i + 1] + mem.late.fall, 2 * byte + bits[i], data)
    BY DEF ReadsBit
<1>0. from \in Nat /\ n \in Nat /\ DOMAIN line = 1..(2 * n + 5) /\ Answering(line, from, bits, f, n)
    BY DEF Answer
<1> USE <1>0
<1> DEFINE at == f[i]
           next == f[i + 1]
           t == at + mem.late.fall
           high == at + 500 + mem.late.rise
           low == next + mem.late.fall
           bit == bits[i]
<1>1. mem.late.rise \in 0..31 /\ mem.late.fall \in 0..31
    BY DelaysAreSmall
<1>2. at \in Nat /\ bit \in Bit /\ next = at + 1000 * (1 + bit)
    <2>1. i \in 1..(n + 1)
        OBVIOUS
    <2>2. /\ \A j \in 1..(n + 1) : f[j] \in Int /\ f[j] >= from + 21500
          /\ \A j \in 1..n : bits[j] \in Bit /\ f[j + 1] = f[j] + 1000 * (1 + bits[j])
        <3>1. Falling(f, from, bits, n)
            BY ONLY Answering(line, from, bits, f, n) DEF Answering
        <3> QED BY ONLY <3>1 DEF Falling
    <2>3. f[i] \in Int /\ f[i] >= from + 21500
        BY ONLY <2>1, <2>2
    <2>4. bits[i] \in Bit /\ f[i + 1] = f[i] + 1000 * (1 + bits[i])
        BY ONLY <2>2, i \in 1..n
    <2> QED BY ONLY <2>3, <2>4, from \in Nat
<1>3. Rising(line, 2 * n + 5)
    BY AnswerRises
<1>4. /\ 2 * i + 2 \in 1..(2 * n + 5) /\ (2 * i + 2) + 1 = 2 * i + 3 /\ (2 * i + 2) + 1 <= 2 * n + 5
      /\ 2 * i + 3 \in 1..(2 * n + 5) /\ (2 * i + 3) + 1 = 2 * (i + 1) + 2 /\ (2 * i + 3) + 1 <= 2 * n + 5
    OBVIOUS
<1>5. /\ line[2 * i + 2].at = at /\ line[2 * i + 2].v = 0
      /\ line[2 * i + 3].at = at + 500 /\ line[2 * i + 3].v = 1
      /\ line[2 * (i + 1) + 2].at = next /\ line[2 * (i + 1) + 2].v = 0
    <2>1. i \in 1..(n + 1) /\ i + 1 \in 1..(n + 1)
        OBVIOUS
    <2> QED BY ONLY <2>1, Answering(line, from, bits, f, n) DEF Answering
<1> HIDE DEF at, next, bit
<1>6. /\ bit \in Nat /\ bit <= 1 /\ next \in Nat /\ t \in Nat /\ high \in Nat /\ at + 500 \in Nat
      /\ at <= t /\ t < at + 500 /\ at + 500 <= high /\ high < next
      /\ (at + 500) + 62 <= t + 3000 /\ next + 62 <= high + 3000
    <2>1. bit \in Nat /\ bit <= 1
        BY ONLY <1>2 DEF Bit
    <2>2. next \in Nat /\ t \in Nat /\ high \in Nat /\ at + 500 \in Nat
        BY ONLY <1>1, <1>2, <2>1
    <2>3. at <= t /\ t < at + 500 /\ at + 500 <= high /\ high < next
        BY ONLY <1>1, <1>2, <2>1
    <2>4. (at + 500) + 62 <= t + 3000 /\ next + 62 <= high + 3000
        BY ONLY <1>1, <1>2, <2>1
    <2> QED BY ONLY <2>1, <2>2, <2>3, <2>4
<1> HIDE DEF t, high, low
<1>7. Edge(line, t, 1, at + 500)
    <2> DEFINE k == 2 * i + 2
               size == 2 * n + 5
    <2>1. /\ k \in 1..size /\ k + 1 <= size /\ line[k].at <= t /\ t < line[k + 1].at
          /\ line[k].v # 1 /\ line[k + 1].v = 1 /\ line[k + 1].at = at + 500 /\ t \in Int /\ Rising(line, size)
        BY ONLY <1>3, <1>4, <1>5, <1>6 DEF k, size
    <2> HIDE DEF k, size
    <2>2. Edge(line, t, 1, line[k + 1].at)
        BY ONLY <2>1, NextEdge
    <2> QED BY ONLY <2>1, <2>2
<1>8. Edge(line, high, 0, next)
    <2> DEFINE k == 2 * i + 3
               size == 2 * n + 5
    <2>1. /\ k \in 1..size /\ k + 1 <= size /\ line[k].at <= high /\ high < line[k + 1].at
          /\ line[k].v # 0 /\ line[k + 1].v = 0 /\ line[k + 1].at = next /\ high \in Int /\ Rising(line, size)
        BY ONLY <1>3, <1>4, <1>5, <1>6 DEF k, size
    <2> HIDE DEF k, size
    <2>2. Edge(line, high, 0, line[k + 1].at)
        BY ONLY <2>1, NextEdge
    <2> QED BY ONLY <2>1, <2>2
<1>9. DhtWait(Held(line, t, byte, data), 1) = Held(line, high, byte, data)
    <2> DEFINE up == at + 500
    <2>1. up \in Nat /\ Edge(line, t, 1, up) /\ up + 62 <= t + 3000 /\ high = up + mem.late.rise
        BY ONLY <1>6, <1>7 DEF high
    <2> HIDE DEF up
    <2> QED BY <1>6, <2>1, DhtRise
<1>10. DhtWait(Held(line, high, byte, data), 0) = Held(line, low, byte, data)
    <2>1. DhtWait(Held(line, high, byte, data), 0) = Held(line, next + mem.late.fall, byte, data)
        <3>1. high \in Nat /\ next \in Nat /\ next + 62 <= high + 3000
            BY ONLY <1>6
        <3> QED BY ONLY <1>8, <3>1, mem.late \in Delays, DhtFall
    <2> QED BY ONLY <2>1 DEF low
<1>11. (IF MicrosBetween(high, low) > 1000 THEN 1 ELSE 0) = bit
    <2>1. (IF MicrosBetween(at + 500 + mem.late.rise, at + 1000 * (1 + bit) + mem.late.fall) > 1000 THEN 1 ELSE 0) = bit
        BY ONLY <1>2, mem.late \in Delays, PulsesDiffer
    <2> QED BY ONLY <1>2, <2>1 DEF high, low
<1> DEFINE first == Held(line, t, byte, data)
           h == Held(line, high, byte, data)
           l == Held(line, low, byte, data)
           d == 1000
<1>12. /\ h.t = high /\ l.t = low /\ first.byte = byte
       /\ \A b : [l EXCEPT !.byte = b] = Held(line, low, b, data)
    BY DEF Held
<1>13. DhtBit(first, x) = [l EXCEPT !.byte = 2 * byte + bit]
    <2>1. DhtWait(first, 1) = h /\ DhtWait(h, 0) = l
        BY ONLY <1>9, <1>10
    <2>2. (IF MicrosBetween(high, low) > d THEN 1 ELSE 0) = bit
        BY ONLY <1>11
    <2>3. DhtBit(first, x) = [DhtWait(DhtWait(first, 1), 0) EXCEPT !.byte = 2 * first.byte + (IF MicrosBetween(DhtWait(first, 1).t, DhtWait(DhtWait(first, 1), 0).t) > d THEN 1 ELSE 0)]
        BY ONLY DEF DhtBit, d
    <2> HIDE DEF first, h, l, d
    <2> QED BY ONLY <1>12, <2>1, <2>2, <2>3, Zenon
<1> QED BY ONLY <1>12, <1>13 DEF first, t, at, low, next, bit

\* The firmware reads eight bits to a byte and five bytes.
BitFold == INSTANCE Folding WITH Op <- DhtBit
\* The fold over the bytes.
ByteFold == INSTANCE Folding WITH Op <- DhtByte
\* What FoldLeft makes of the bits,
LEMMA BitsAreFold == \A base, s : FoldLeft(DhtBit, base, s) = BitFold!Folded(base, s)
BY DEF BitFold!Folded, FoldLeft, MapThenFoldSet, BitFold!FoldLeft, BitFold!MapThenFoldSet, Max, BitFold!Max
\* and of the bytes.
LEMMA BytesAreFold == \A base, s : FoldLeft(DhtByte, base, s) = ByteFold!Folded(base, s)
BY DEF ByteFold!Folded, FoldLeft, MapThenFoldSet, ByteFold!FoldLeft, ByteFold!MapThenFoldSet, Max, ByteFold!Max

\* The bits of a byte are sent from some place of an answer on, the high one first.
Sent(bits, k, byte) == \A m \in 1..8 : bits[8 * k + m] = ByteBits(byte)[9 - m]

\* One field of it after the other.
LEMMA HeldFields ==
    \A line, t, byte, data : LET held == Held(line, t, byte, data) IN
        /\ held.line = line /\ held.t = t /\ held.byte = byte /\ held.data = data
        /\ \A b : [held EXCEPT !.byte = b] = Held(line, t, b, data)
        /\ \A d : [held EXCEPT !.data = d] = Held(line, t, byte, d)
BY DEF Held

\* A byte that is sent is read.
ReadsByte(line, f, k, sent) ==
    \A byte, data, x : DhtByte(Held(line, f[8 * k + 1] + mem.late.fall, byte, data), x)
                           = Held(line, f[8 * (k + 1) + 1] + mem.late.fall, sent, Append(data, sent))
\* The eight bits of it, in their places of the answer, make it up.
LEMMA ByteRead ==
    ASSUME mem.late \in Delays, NEW line, NEW from, NEW bits, NEW f, NEW n, Answer(line, from, bits, f, n),
           NEW k, k \in Nat, 8 * k + 8 <= n, NEW sent, sent \in Byte, Sent(bits, k, sent)
    PROVE  ReadsByte(line, f, k, sent)
<1> SUFFICES ASSUME NEW byte, NEW data, NEW x
             PROVE  DhtByte(Held(line, f[8 * k + 1] + mem.late.fall, byte, data), x)
                        = Held(line, f[8 * (k + 1) + 1] + mem.late.fall, sent, Append(data, sent))
    BY DEF ReadsByte
<1>0. from \in Nat /\ n \in Nat /\ DOMAIN line = 1..(2 * n + 5) /\ Answering(line, from, bits, f, n)
    BY DEF Answer
<1> USE <1>0
<1> DEFINE s == <<7, 6, 5, 4, 3, 2, 1, 0>>
           At8(m) == f[8 * k + m + 1] + mem.late.fall
           base == Held(line, At8(0), 0, data)
           read == Held(line, At8(0), byte, data)
           eight == 8
<1>1. eight \in Nat /\ DOMAIN s = 1..eight
    OBVIOUS
<1>2. At8(0) = f[8 * k + 1] + mem.late.fall /\ At8(8) = f[8 * (k + 1) + 1] + mem.late.fall
    <2>1. 8 * k + 0 + 1 = 8 * k + 1 /\ 8 * k + 8 + 1 = 8 * (k + 1) + 1
        OBVIOUS
    <2> QED BY <2>1
<1> HIDE DEF s, base, eight
<1>3. PICK h : BitFold!Runs(h, base, s, eight) /\ BitFold!Folded(base, s) = h[eight]
    BY ONLY <1>1, BitFold!FoldSteps, Zenon
<1> DEFINE A == {m \in Nat : m <= 8 => h[m] = Held(line, At8(m), ShiftedIn(sent, m), data)}
<1>4. 0 \in A
    <2>1. h[0] = base /\ ShiftedIn(sent, 0) = 0
        BY ONLY <1>3 DEF BitFold!Runs, ShiftedIn
    <2>2. h[0] = Held(line, At8(0), ShiftedIn(sent, 0), data)
        BY ONLY <2>1 DEF base
    <2> HIDE DEF At8
    <2> QED BY ONLY <2>2
<1>5. ASSUME NEW m \in Nat, m \in A PROVE m + 1 \in A
    <2> SUFFICES ASSUME m + 1 <= 8 PROVE h[m + 1] = Held(line, At8(m + 1), ShiftedIn(sent, m + 1), data)
        OBVIOUS
    <2> DEFINE i == 8 * k + m + 1
               b == ShiftedIn(sent, m)
    <2>1. h[m] = Held(line, f[i] + mem.late.fall, b, data)
        BY <1>5
    <2>2. m + 1 \in 1..8 /\ m + 1 \in 1..eight /\ (m + 1) - 1 = m /\ i \in 1..n /\ i = 8 * k + (m + 1) /\ i + 1 = 8 * k + (m + 1) + 1
        BY DEF eight
    <2>3. h[m + 1] = DhtBit(h[m], s[m + 1])
        BY ONLY <1>3, <2>2 DEF BitFold!Runs
    <2>4. ShiftedIn(sent, m + 1) = 2 * b + bits[i]
        <3>1. \A j \in 1..8 : ShiftedIn(sent, j) = 2 * ShiftedIn(sent, j - 1) + ByteBits(sent)[9 - j]
            BY ONLY sent \in Byte, ShiftingIn
        <3>2. bits[8 * k + (m + 1)] = ByteBits(sent)[9 - (m + 1)]
            BY ONLY <2>2, Sent(bits, k, sent) DEF Sent
        <3>3. ShiftedIn(sent, m + 1) = 2 * ShiftedIn(sent, (m + 1) - 1) + ByteBits(sent)[9 - (m + 1)]
            BY ONLY <2>2, <3>1
        <3> QED BY ONLY <2>2, <3>2, <3>3
    <2> HIDE DEF i, b
    <2>5. DhtBit(Held(line, f[i] + mem.late.fall, b, data), s[m + 1])
              = Held(line, f[i + 1] + mem.late.fall, 2 * b + bits[i], data)
        <3>1. ReadsBit(line, bits, f, i)
            BY ONLY <2>2, mem.late \in Delays, Answer(line, from, bits, f, n), BitRead
        <3> QED BY ONLY <3>1, Zenon DEF ReadsBit
    <2>6. f[i + 1] + mem.late.fall = At8(m + 1)
        BY ONLY <2>2
    <2> HIDE DEF At8
    <2> QED BY ONLY <2>1, <2>3, <2>4, <2>5, <2>6
<1> HIDE DEF A
<1>6. 8 \in A
    <2>1. Nat \subseteq A
        BY ONLY <1>4, <1>5, SumFold!NatSet
    <2> QED BY <2>1
<1>7. h[8] = Held(line, At8(8), sent, data)
    <2>1. 8 <= 8 => h[8] = Held(line, At8(8), ShiftedIn(sent, 8), data)
        BY <1>6 DEF A
    <2>2. ShiftedIn(sent, 8) = sent
        BY ShiftingIn
    <2> QED BY <2>1, <2>2
<1>8. read.t # Never
    <2>1. 8 * k + 1 \in 1..(n + 1)
        OBVIOUS
    <2>2. \A j \in 1..(n + 1) : f[j] \in Int /\ f[j] >= from + 21500
        <3>1. Falling(f, from, bits, n)
            BY ONLY Answering(line, from, bits, f, n) DEF Answering
        <3> QED BY ONLY <3>1 DEF Falling
    <2>3. f[8 * k + 1] \in Nat
        <3>1. f[8 * k + 1] \in Int /\ f[8 * k + 1] >= from + 21500
            BY ONLY <2>1, <2>2
        <3> QED BY ONLY <3>1, from \in Nat
    <2>4. At8(0) \in Nat
        <3>1. mem.late.fall \in 0..31
            BY DelaysAreSmall
        <3> HIDE DEF At8
        <3> QED BY ONLY <1>2, <2>3, <3>1
    <2>5. read.t = At8(0)
        BY DEF Held
    <2> HIDE DEF At8, read
    <2> QED BY ONLY <2>4, <2>5 DEF Never
<1>9. [read EXCEPT !.byte = 0] = base /\ read.data = data
    BY ONLY HeldFields DEF read, base
<1> DEFINE done == Held(line, At8(8), sent, data)
<1>10. FoldLeft(DhtBit, base, s) = done
    BY <1>3, <1>7, BitsAreFold DEF eight
<1>11. done.byte = sent /\ [done EXCEPT !.data = Append(data, sent)] = Held(line, At8(8), sent, Append(data, sent))
    <2> DEFINE t == At8(8)
    <2>1. done = Held(line, t, sent, data)
        OBVIOUS
    <2> HIDE DEF t, done
    <2>2. done.byte = sent /\ [done EXCEPT !.data = Append(data, sent)] = Held(line, t, sent, Append(data, sent))
        BY ONLY <2>1 DEF Held
    <2> QED BY ONLY <2>2 DEF t
<1>12. DhtByte(read, x) = IF read.t = Never THEN read
                          ELSE [FoldLeft(DhtBit, [read EXCEPT !.byte = 0], s)
                                   EXCEPT !.data = Append(read.data, FoldLeft(DhtBit, [read EXCEPT !.byte = 0], s).byte)]
    BY DEF DhtByte, s
<1> HIDE DEF read, done, At8
<1>13. DhtByte(read, x) = [done EXCEPT !.data = Append(data, sent)]
    BY ONLY <1>8, <1>9, <1>10, <1>11, <1>12, Zenon
<1> QED BY ONLY <1>2, <1>11, <1>13 DEF read

\* So are the five of an answer.
FiveSent(bits, bytes) == \A i \in 1..5 : bytes[i] \in Byte /\ Sent(bits, i - 1, bytes[i])
\* They are read when the data is theirs.
FiveRead(line, f, bytes) ==
    \E byte, data : /\ FoldLeft(DhtByte, Held(line, f[1] + mem.late.fall, 0, <<>>), <<0, 1, 2, 3, 4>>)
                           = Held(line, f[41] + mem.late.fall, byte, data)
                    /\ \A i \in 1..5 : data[i] = bytes[i]
\* The firmware reads the five bytes that are sent (dht_read).
LEMMA BytesRead ==
    ASSUME mem.late \in Delays, NEW line, NEW from, NEW bits, NEW f, Answer(line, from, bits, f, 40),
           NEW bytes, FiveSent(bits, bytes)
    PROVE  FiveRead(line, f, bytes)
<1> DEFINE n == 40
<1>0. n = 40 /\ n + 1 = 41 /\ Answer(line, from, bits, f, n) /\ \A i \in 1..5 : bytes[i] \in Byte /\ Sent(bits, i - 1, bytes[i])
    BY DEF FiveSent
<1> HIDE DEF n
<1> USE <1>0
<1> DEFINE s == <<0, 1, 2, 3, 4>>
           ByteAt(k) == f[8 * k + 1] + mem.late.fall
           base == Held(line, ByteAt(0), 0, <<>>)
           five == 5
           Data(data, k) == data \in Seq(Byte) /\ Len(data) = k /\ \A i \in 1..k : data[i] = bytes[i]
<1>1. five \in Nat /\ DOMAIN s = 1..five
    OBVIOUS
<1>2. ByteAt(0) = f[1] + mem.late.fall /\ ByteAt(5) = f[n + 1] + mem.late.fall
    <2>1. 8 * 0 + 1 = 1 /\ 8 * 5 + 1 = n + 1
        OBVIOUS
    <2> QED BY <2>1
<1> HIDE DEF s, base, five
<1>3. PICK h : ByteFold!Runs(h, base, s, five) /\ ByteFold!Folded(base, s) = h[five]
    BY ONLY <1>1, ByteFold!FoldSteps, Zenon
<1> DEFINE A == {k \in Nat : k <= 5 => \E byte, data : h[k] = Held(line, ByteAt(k), byte, data) /\ Data(data, k)}
<1>4. 0 \in A
    <2>1. h[0] = Held(line, ByteAt(0), 0, <<>>)
        BY ONLY <1>3 DEF ByteFold!Runs, base
    <2>2. Data(<<>>, 0)
        <3>1. <<>> \in Seq(Byte) /\ Len(<<>>) = 0 /\ 1..0 = {}
            BY ONLY TRUE
        <3> QED BY ONLY <3>1
    <2> HIDE DEF ByteAt, Data
    <2> QED BY ONLY <2>1, <2>2
<1>5. ASSUME NEW k \in Nat, k \in A PROVE k + 1 \in A
    <2> SUFFICES ASSUME k + 1 <= 5
                 PROVE  \E byte, data : h[k + 1] = Held(line, ByteAt(k + 1), byte, data) /\ Data(data, k + 1)
        OBVIOUS
    <2>1. PICK byte, data : h[k] = Held(line, ByteAt(k), byte, data) /\ Data(data, k)
        BY <1>5
    <2>2. /\ k + 1 \in 1..5 /\ k + 1 \in 1..five /\ (k + 1) - 1 = k /\ 8 * k + 8 <= n
        BY DEF five
    <2>3. h[k + 1] = DhtByte(h[k], s[k + 1])
        BY ONLY <1>3, <2>2 DEF ByteFold!Runs
    <2> DEFINE b == bytes[k + 1]
    <2>4. b \in Byte /\ Sent(bits, k, b)
        <3>1. bytes[k + 1] \in Byte /\ Sent(bits, (k + 1) - 1, bytes[k + 1])
            BY ONLY <1>0, <2>2
        <3> QED BY ONLY <2>2, <3>1
    <2>5. ByteAt(k) = f[8 * k + 1] + mem.late.fall /\ ByteAt(k + 1) = f[8 * (k + 1) + 1] + mem.late.fall
        OBVIOUS
    <2> HIDE DEF b
    <2>6. DhtByte(Held(line, f[8 * k + 1] + mem.late.fall, byte, data), s[k + 1])
              = Held(line, f[8 * (k + 1) + 1] + mem.late.fall, b, Append(data, b))
        <3>1. ReadsByte(line, f, k, b)
            BY ONLY <2>2, <2>4, k \in Nat, mem.late \in Delays, Answer(line, from, bits, f, n), ByteRead
        <3> QED BY ONLY <3>1, Zenon DEF ReadsByte
    <2>7. Data(Append(data, b), k + 1)
        <3>1. data \in Seq(Byte) /\ Len(data) = k /\ \A i \in 1..k : data[i] = bytes[i]
            BY ONLY <2>1
        <3>2. /\ Append(data, b) \in Seq(Byte) /\ Len(Append(data, b)) = Len(data) + 1
              /\ Append(data, b)[Len(data) + 1] = b /\ \A i \in 1..Len(data) : Append(data, b)[i] = data[i]
            BY ONLY <2>4, <3>1
        <3>3. \A i \in 1..(k + 1) : i \in 1..k \/ i = k + 1
            OBVIOUS
        <3>4. Append(data, b) \in Seq(Byte) /\ Len(Append(data, b)) = k + 1
            BY ONLY <3>1, <3>2
        <3>5. \A i \in 1..k : Append(data, b)[i] = bytes[i]
            BY ONLY <3>1, <3>2
        <3>6. Append(data, b)[k + 1] = bytes[k + 1]
            BY ONLY <3>1, <3>2 DEF b
        <3>7. \A i \in 1..(k + 1) : Append(data, b)[i] = bytes[i]
            BY ONLY <3>3, <3>5, <3>6
        <3> QED BY ONLY <3>4, <3>7
    <2> HIDE DEF ByteAt, Data
    <2> QED BY ONLY <2>1, <2>3, <2>5, <2>6, <2>7
<1> HIDE DEF A
<1>6. 5 \in A
    <2>1. Nat \subseteq A
        BY ONLY <1>4, <1>5, SumFold!NatSet
    <2> QED BY <2>1
<1>7. PICK byte, data : h[5] = Held(line, ByteAt(5), byte, data) /\ Data(data, 5)
    BY <1>6 DEF A
<1>8. FoldLeft(DhtByte, base, s) = h[5]
    BY <1>3, BytesAreFold DEF five
<1> HIDE DEF ByteAt
<1>9. FoldLeft(DhtByte, base, s) = Held(line, f[n + 1] + mem.late.fall, byte, data)
    BY ONLY <1>2, <1>7, <1>8
<1> QED BY ONLY <1>0, <1>2, <1>7, <1>9 DEF base, s, FiveRead

\* The answer to the start is awaited in three polls.
LEMMA StartSeen ==
    ASSUME mem.late \in Delays, NEW line, NEW from, NEW bits, NEW f, NEW n, Answer(line, from, bits, f, n)
    PROVE  DhtWait(DhtWait(DhtWait(Held(line, from + 20000 + mem.late.rise, 0, <<>>), 0), 1), 0)
               = Held(line, f[1] + mem.late.fall, 0, <<>>)
<1> DEFINE a == from + 20500
           b == from + 21000
           c == from + 21500
           p == from + 20000 + mem.late.rise
           q == a + mem.late.fall
           r == b + mem.late.rise
           size == 2 * n + 5
<1>0. from \in Nat /\ n \in Nat /\ DOMAIN line = 1..(2 * n + 5) /\ Answering(line, from, bits, f, n)
    BY DEF Answer
<1>1. mem.late.rise \in 0..31 /\ mem.late.fall \in 0..31
    BY DelaysAreSmall
<1>2. Rising(line, size) /\ 1 \in 1..size /\ 2 \in 1..size /\ 3 \in 1..size /\ 1 + 1 <= size /\ 2 + 1 <= size /\ 3 + 1 <= size
    BY <1>0, AnswerRises
<1>3. /\ line[1].at = 0 /\ line[1].v = 1 /\ line[2].at = a /\ line[2].v = 0
      /\ line[3].at = b /\ line[3].v = 1 /\ line[4].at = c /\ line[4].v = 0 /\ f[1] = c
    <2>1. 1 \in 1..(n + 1) /\ 2 * 1 + 2 = 4
        BY <1>0
    <2>2. /\ line[1].at = 0 /\ line[1].v = 1
          /\ line[2].at = a /\ line[2].v = 0
          /\ line[3].at = b /\ line[3].v = 1
          /\ Falling(f, from, bits, n)
          /\ \A i \in 1..(n + 1) : line[2 * i + 2].at = f[i] /\ line[2 * i + 2].v = 0
        BY ONLY <1>0 DEF Answering
    <2>3. f[1] = c
        BY ONLY <2>2 DEF Falling
    <2>4. line[2 * 1 + 2].at = f[1] /\ line[2 * 1 + 2].v = 0
        BY ONLY <2>1, <2>2
    <2> QED BY ONLY <2>1, <2>2, <2>3, <2>4
<1>4. /\ a \in Nat /\ b \in Nat /\ c \in Nat /\ p \in Nat /\ q \in Nat /\ r \in Nat
      /\ 0 <= p /\ p < a /\ a <= q /\ q < b /\ b <= r /\ r < c
      /\ a + 62 <= p + 3000 /\ b + 62 <= q + 3000 /\ c + 62 <= r + 3000
    <2>0. from \in Nat
        BY <1>0
    <2>1. a \in Nat /\ b \in Nat /\ c \in Nat /\ p \in Nat /\ q \in Nat /\ r \in Nat
        BY ONLY <2>0, <1>1
    <2>2. 0 <= p /\ p < a /\ a <= q /\ q < b /\ b <= r /\ r < c
        BY ONLY <2>0, <1>1
    <2>3. a + 62 <= p + 3000 /\ b + 62 <= q + 3000 /\ c + 62 <= r + 3000
        BY ONLY <2>0, <1>1
    <2> QED BY ONLY <2>1, <2>2, <2>3
<1>5. 1 + 1 = 2 /\ 2 + 1 = 3 /\ 3 + 1 = 4
    OBVIOUS
<1>12. c + mem.late.fall = f[1] + mem.late.fall
    BY <1>3
<1> HIDE DEF a, b, c, p, q, r, size
<1>6. Edge(line, p, 0, a)
    <2>1. line[1].at <= p /\ p < line[1 + 1].at /\ line[1].v # 0 /\ line[1 + 1].v = 0 /\ p \in Int /\ line[1 + 1].at = a
        BY ONLY <1>3, <1>4, <1>5
    <2>2. Edge(line, p, 0, line[1 + 1].at)
        BY ONLY <1>2, <2>1, NextEdge
    <2> QED BY ONLY <2>1, <2>2
<1>7. Edge(line, q, 1, b)
    <2>1. line[2].at <= q /\ q < line[2 + 1].at /\ line[2].v # 1 /\ line[2 + 1].v = 1 /\ q \in Int /\ line[2 + 1].at = b
        BY ONLY <1>3, <1>4, <1>5
    <2>2. Edge(line, q, 1, line[2 + 1].at)
        BY ONLY <1>2, <2>1, NextEdge
    <2> QED BY ONLY <2>1, <2>2
<1>8. Edge(line, r, 0, c)
    <2>1. line[3].at <= r /\ r < line[3 + 1].at /\ line[3].v # 0 /\ line[3 + 1].v = 0 /\ r \in Int /\ line[3 + 1].at = c
        BY ONLY <1>3, <1>4, <1>5
    <2>2. Edge(line, r, 0, line[3 + 1].at)
        BY ONLY <1>2, <2>1, NextEdge
    <2> QED BY ONLY <2>1, <2>2
<1>9. DhtWait(Held(line, p, 0, <<>>), 0) = Held(line, a + mem.late.fall, 0, <<>>)
    BY ONLY <1>4, <1>6, mem.late \in Delays, DhtFall
<1>10. DhtWait(Held(line, q, 0, <<>>), 1) = Held(line, b + mem.late.rise, 0, <<>>)
    BY ONLY <1>4, <1>7, mem.late \in Delays, DhtRise
<1>11. DhtWait(Held(line, r, 0, <<>>), 0) = Held(line, c + mem.late.fall, 0, <<>>)
    BY ONLY <1>4, <1>8, mem.late \in Delays, DhtFall
<1> QED BY ONLY <1>9, <1>10, <1>11, <1>12 DEF p, q, r

\* The chip that is started while its line rests high gives such an answer.
LEMMA StartAnswered ==
    ASSUME clock \in Nat, Resting(chip.line, 1, Now),
           NEW temperature, temperature = At(Quantity("dht1", "temperature"), clock),
           NEW humidity, humidity = At(Quantity("dht1", "humidity"), clock)
    PROVE  DhtStarted = [last |-> 0, armed |-> TRUE,
                         line |-> <<[at |-> 0, v |-> 1]>> \o DhtAnswer(Now + 50, FrameBits(temperature, humidity))]
<1> DEFINE us == Now + 50
           T == Quantity("dht1", "temperature")
           H == Quantity("dht1", "humidity")
           high == DhtDrive(chip, Now, 1, T, H)
<1>1. Now \in Nat /\ us \in Nat /\ us >= Now /\ us \div 1000 = clock
    BY DEF Now
<1>2. high = [last |-> 1, armed |-> TRUE, line |-> chip.line]
    <2>1. (chip.armed \/ 1 = 1) = TRUE
        OBVIOUS
    <2>2. ~(chip.armed /\ chip.last = 1 /\ 1 = 0 /\ Last(chip.line).at <= Now)
        OBVIOUS
    <2> QED BY ONLY <2>1, <2>2, Zenon DEF DhtDrive, high
<1>3. ValueOf(T, us) = temperature /\ ValueOf(H, us) = humidity
    BY <1>1 DEF ValueOf
<1>4. LineLevel(high, us) = 1
    BY <1>1, <1>2, RestingShows DEF LineLevel
<1>5. Last(chip.line).at <= us
    <2>1. PICK n \in Nat : /\ DOMAIN chip.line = 1..n /\ n >= 1
                           /\ \A i \in 1..n : chip.line[i].at \in Int /\ chip.line[i].at <= Now
        BY DEF Resting
    <2>2. Len(chip.line) = n /\ n \in 1..n
        BY <2>1
    <2> QED BY <1>1, <2>1, <2>2 DEF Last
<1>6. DhtStarted = DhtDrive(high, us, 0, T, H)
    BY DEF DhtStarted
<1> HIDE DEF us, T, H, high
<1>7. high.armed = TRUE /\ high.last = 1 /\ high.line = chip.line
    BY <1>2
<1>8. DhtDrive(high, us, 0, T, H)
        = [last |-> 0, armed |-> TRUE, line |-> <<[at |-> 0, v |-> 1]>> \o DhtAnswer(us, FrameBits(temperature, humidity))]
    BY <1>3, <1>4, <1>5, <1>7 DEF DhtDrive
<1> QED BY <1>6, <1>8 DEF us

\* What is read then is what the sensor was set to; the line rests soon after.
THEOREM DhtReads ==
    ASSUME clock \in Nat, mem.late \in Delays, Resting(chip.line, 1, Now),
           NEW temperature, temperature = At(Quantity("dht1", "temperature"), clock), temperature \in Byte,
           NEW humidity, humidity = At(Quantity("dht1", "humidity"), clock), humidity \in Byte
    PROVE  LET read == DhtBytes(DhtStarted.line, Now + 20050 + mem.late.rise)
           IN /\ DhtReading(read) = <<humidity, temperature>>
              /\ read.t \in Nat /\ read.t >= Now
              /\ Resting(DhtStarted.line, 1, read.t + 500)
<1> DEFINE from == Now + 50
           bits == FrameBits(temperature, humidity)
           bytes == FrameBytes(temperature, humidity)
           line == DhtStarted.line
           n == 40
           start == Held(line, from + 20000 + mem.late.rise, 0, <<>>)
           read == DhtBytes(line, Now + 20050 + mem.late.rise)
<1>1. from \in Nat /\ Now \in Nat /\ Now + 20050 + mem.late.rise = from + 20000 + mem.late.rise
    BY DelaysAreSmall DEF Now
<1>2. line = <<[at |-> 0, v |-> 1]>> \o DhtAnswer(from, bits)
    <2>1. DhtStarted = [last |-> 0, armed |-> TRUE, line |-> <<[at |-> 0, v |-> 1]>> \o DhtAnswer(Now + 50, FrameBits(temperature, humidity))]
        BY StartAnswered
    <2> QED BY <2>1
<1>3. /\ bits \in Seq(Bit) /\ Len(bits) = 40
      /\ \A i \in 1..5 : bytes[i] \in Byte
      /\ \A i \in 1..5, m \in 1..8 : bits[8 * (i - 1) + m] = ByteBits(bytes[i])[9 - m]
    BY FrameOfBytes
<1> HIDE DEF from, bits, bytes, line
<1>4. n \in Nat /\ n = 40 /\ Len(bits) = n
    BY <1>3
<1> HIDE DEF n
<1>5. PICK f : Answer(line, from, bits, f, n)
    <2>1. \E g : Answer(<<[at |-> 0, v |-> 1]>> \o DhtAnswer(from, bits), from, bits, g, n)
        <3>1. from \in Nat /\ n \in Nat /\ bits \in Seq(Bit) /\ Len(bits) = n
            BY ONLY <1>1, <1>3, <1>4
        <3> QED BY ONLY <3>1, AnswerLine, Zenon
    <2> QED BY ONLY <1>2, <2>1, Zenon
<1>6. FiveSent(bits, bytes)
    BY <1>3 DEF FiveSent, Sent
<1>7. PICK byte, data :
          /\ FoldLeft(DhtByte, Held(line, f[1] + mem.late.fall, 0, <<>>), <<0, 1, 2, 3, 4>>)
                 = Held(line, f[n + 1] + mem.late.fall, byte, data)
          /\ \A i \in 1..5 : data[i] = bytes[i]
    <2>1. Answer(line, from, bits, f, 40) /\ n + 1 = 41
        BY ONLY <1>4, <1>5
    <2>2. FiveRead(line, f, bytes)
        BY ONLY <1>6, <2>1, mem.late \in Delays, BytesRead
    <2> QED BY ONLY <2>1, <2>2 DEF FiveRead
<1>8. read = Held(line, f[n + 1] + mem.late.fall, byte, data)
    <2>1. DhtBytes(line, Now + 20050 + mem.late.rise) = FoldLeft(DhtByte, DhtWait(DhtWait(DhtWait(start, 0), 1), 0), <<0, 1, 2, 3, 4>>)
        BY <1>1 DEF DhtBytes, Held
    <2>2. DhtWait(DhtWait(DhtWait(start, 0), 1), 0) = Held(line, f[1] + mem.late.fall, 0, <<>>)
        BY ONLY <1>5, mem.late \in Delays, StartSeen DEF start
    <2> QED BY ONLY <1>7, <2>1, <2>2 DEF read
<1>9. read.t = f[n + 1] + mem.late.fall /\ read.data = data
    BY <1>8 DEF Held
<1>10. f[n + 1] \in Int /\ f[n + 1] >= from + 21500 /\ line[2 * (n + 1) + 3].at = f[n + 1] + 500 /\ line[2 * (n + 1) + 3].v = 1
    <2>1. n + 1 \in 1..(n + 1)
        BY <1>4
    <2>2. Answering(line, from, bits, f, n)
        BY <1>5 DEF Answer
    <2>3. Falling(f, from, bits, n) /\ line[2 * (n + 1) + 3].at = f[n + 1] + 500 /\ line[2 * (n + 1) + 3].v = 1
        BY ONLY <2>1, <2>2 DEF Answering
    <2>4. \A i \in 1..(n + 1) : f[i] \in Int /\ f[i] >= from + 21500
        BY ONLY <2>3 DEF Falling
    <2> QED BY ONLY <2>1, <2>3, <2>4
<1> HIDE DEF read
<1>11. read.t \in Nat /\ read.t >= Now
    <2>1. mem.late.fall \in 0..31 /\ from >= Now
        BY <1>1, DelaysAreSmall DEF from
    <2> QED BY ONLY <1>1, <1>9, <1>10, <2>1
<1>12. DhtReading(read) = <<humidity, temperature>>
    <2>1. /\ data[1] = humidity /\ data[2] = 0 /\ data[3] = temperature /\ data[4] = 0
          /\ data[5] = (humidity + temperature) % 256
        <3>1. 1 \in 1..5 /\ 2 \in 1..5 /\ 3 \in 1..5 /\ 4 \in 1..5 /\ 5 \in 1..5
            OBVIOUS
        <3>2. /\ bytes[1] = humidity /\ bytes[2] = 0 /\ bytes[3] = temperature /\ bytes[4] = 0
              /\ bytes[5] = (humidity + temperature) % 256
            BY DEF bytes, FrameBytes
        <3> QED BY ONLY <1>7, <3>1, <3>2
    <2>2. read.t # Never
        BY ONLY <1>11 DEF Never
    <2>3. (humidity + 0 + temperature + 0) % 256 = (humidity + temperature) % 256
        <3>1. humidity + 0 + temperature + 0 = humidity + temperature
            BY DEF Byte
        <3> QED BY <3>1
    <2> QED BY ONLY <1>9, <2>1, <2>2, <2>3 DEF DhtReading
<1>13. Resting(line, 1, read.t + 500)
    <2>1. Rising(line, 2 * n + 5)
        BY <1>5, AnswerRises DEF Answer
    <2>2. 2 * n + 5 \in 1..(2 * n + 5) /\ 2 * n + 5 = 2 * (n + 1) + 3 /\ 2 * n + 5 \in Nat
        BY <1>4
    <2>3. line[2 * n + 5].at <= read.t + 500 /\ line[2 * n + 5].v = 1 /\ read.t + 500 \in Int
        BY <1>9, <1>10, <1>11, <2>2, DelaysAreSmall
    <2> DEFINE k == 2 * n + 5
    <2>4. Rising(line, k) /\ k \in 1..k /\ k \in Nat /\ k >= 1 /\ line[k].at <= read.t + 500 /\ line[k].v = 1
        BY <2>1, <2>2, <2>3
    <2> HIDE DEF k
    <2>5. DOMAIN line = 1..k /\ \A i \in 1..k : line[i].at \in Int
        BY ONLY <2>4 DEF Rising
    <2>6. ASSUME NEW i \in 1..k PROVE line[i].at \in Int /\ line[i].at <= read.t + 500
        <3>1. i <= k
            BY <2>4
        <3>2. line[i].at <= line[k].at
            BY ONLY <2>4, <3>1, i \in 1..k, EarlierIsEarlier
        <3>3. line[i].at \in Int /\ line[k].at \in Int
            BY ONLY <2>4, <2>5, i \in 1..k
        <3> QED BY ONLY <2>3, <2>4, <3>2, <3>3
    <2> QED BY ONLY <2>4, <2>5, <2>6 DEF Resting
<1> QED BY <1>11, <1>12, <1>13 DEF read, line

-----------------------------------------------------------------------------
(* DS18B20 *)

\* A chip on the wire sends or does not.
Quiet == FALSE
\* The other one.
Sends == TRUE
\* All its fields.
OwChip(last, low, command, sending, sent, pad, line) ==
    [last |-> last, lowStartedAt |-> low, command |-> command, sending |-> sending, sent |-> sent,
     scratchpad |-> pad, line |-> line]
\* The firmware with what it has read.
On(c, t, in) == [chip |-> c, t |-> t, in |-> in]

\* One field of the chip after the other.
LEMMA WireFields ==
    \A last, low, command, sending, sent, pad, line :
        /\ OwChip(last, low, command, sending, sent, pad, line).last = last
        /\ OwChip(last, low, command, sending, sent, pad, line).lowStartedAt = low
        /\ OwChip(last, low, command, sending, sent, pad, line).command = command
        /\ OwChip(last, low, command, sending, sent, pad, line).sending = sending
        /\ OwChip(last, low, command, sending, sent, pad, line).sent = sent
        /\ OwChip(last, low, command, sending, sent, pad, line).scratchpad = pad
        /\ OwChip(last, low, command, sending, sent, pad, line).line = line
BY DEF OwChip
\* The same for a change of one;
LEMMA WireField ==
    \A last, low, command, sending, sent, pad, line, x : LET c == OwChip(last, low, command, sending, sent, pad, line) IN
        /\ [c EXCEPT !.last = x] = OwChip(x, low, command, sending, sent, pad, line)
        /\ [c EXCEPT !.lowStartedAt = x] = OwChip(last, x, command, sending, sent, pad, line)
        /\ [c EXCEPT !.command = x] = OwChip(last, low, x, sending, sent, pad, line)
        /\ [c EXCEPT !.sending = x] = OwChip(last, low, command, x, sent, pad, line)
        /\ [c EXCEPT !.sent = x] = OwChip(last, low, command, sending, x, pad, line)
        /\ [c EXCEPT !.scratchpad = x] = OwChip(last, low, command, sending, sent, x, line)
        /\ [c EXCEPT !.line = x] = OwChip(last, low, command, sending, sent, pad, x)
BY DEF OwChip

\* a change of several is one of each.
LEMMA ManyFields ==
    \A c, u, x, y, z, p :
        /\ [c EXCEPT !.last = x, !.lowStartedAt = u] = [[c EXCEPT !.last = x] EXCEPT !.lowStartedAt = u]
        /\ [c EXCEPT !.command = x, !.sending = y, !.sent = z, !.scratchpad = p]
              = [[[[c EXCEPT !.command = x] EXCEPT !.sending = y] EXCEPT !.sent = z] EXCEPT !.scratchpad = p]
        /\ [c EXCEPT !.command = x, !.sending = y, !.sent = z, !.line = p]
              = [[[[c EXCEPT !.command = x] EXCEPT !.sending = y] EXCEPT !.sent = z] EXCEPT !.line = p]
        /\ [c EXCEPT !.sent = x, !.sending = y, !.line = p]
              = [[[c EXCEPT !.sent = x] EXCEPT !.sending = y] EXCEPT !.line = p]
OBVIOUS

\* Those of a fall, a reset, a command to read and a sent bit,
Fell(c, x, u) == [c EXCEPT !.last = x, !.lowStartedAt = u]
Ordered(c, x, y, z, p) == [c EXCEPT !.command = x, !.sending = y, !.sent = z, !.scratchpad = p]
Pulsed(c, x, y, z, p) == [c EXCEPT !.command = x, !.sending = y, !.sent = z, !.line = p]
Handed(c, x, y, z) == [c EXCEPT !.sent = x, !.sending = y, !.line = z]
\* on the fields.
LEMMA FallFields ==
    ASSUME NEW last, NEW low, NEW command, NEW sending, NEW sent, NEW pad, NEW line, NEW x, NEW u
    PROVE  Fell(OwChip(last, low, command, sending, sent, pad, line), x, u) = OwChip(x, u, command, sending, sent, pad, line)
<1> DEFINE c == OwChip(last, low, command, sending, sent, pad, line)
           c1 == OwChip(x, low, command, sending, sent, pad, line)
<1>1. [c EXCEPT !.last = x] = c1 /\ [c1 EXCEPT !.lowStartedAt = u] = OwChip(x, u, command, sending, sent, pad, line)
    BY WireField
<1> HIDE DEF c1
<1> QED BY <1>1, ManyFields DEF Fell

\* a reset and a command to read four,
LEMMA CommandFields ==
    ASSUME NEW last, NEW low, NEW command, NEW sending, NEW sent, NEW pad, NEW line, NEW x, NEW y, NEW z, NEW p
    PROVE  /\ Ordered(OwChip(last, low, command, sending, sent, pad, line), x, y, z, p) = OwChip(last, low, x, y, z, p, line)
           /\ Pulsed(OwChip(last, low, command, sending, sent, pad, line), x, y, z, p) = OwChip(last, low, x, y, z, pad, p)
<1> DEFINE c == OwChip(last, low, command, sending, sent, pad, line)
           c1 == OwChip(last, low, x, sending, sent, pad, line)
           c2 == OwChip(last, low, x, y, sent, pad, line)
           c3 == OwChip(last, low, x, y, z, pad, line)
<1>1. [c EXCEPT !.command = x] = c1
    BY WireField
<1>2. [c1 EXCEPT !.sending = y] = c2
    BY WireField
<1>3. [c2 EXCEPT !.sent = z] = c3
    BY WireField
<1>4. [c3 EXCEPT !.scratchpad = p] = OwChip(last, low, x, y, z, p, line)
    BY WireField
<1>5. [c3 EXCEPT !.line = p] = OwChip(last, low, x, y, z, pad, p)
    BY WireField
<1> HIDE DEF c1, c2, c3
<1> QED BY <1>1, <1>2, <1>3, <1>4, <1>5, ManyFields DEF Ordered, Pulsed

\* and a bit that is sent three.
LEMMA SentFields ==
    ASSUME NEW last, NEW low, NEW command, NEW sending, NEW sent, NEW pad, NEW line, NEW x, NEW y, NEW z
    PROVE  Handed(OwChip(last, low, command, sending, sent, pad, line), x, y, z) = OwChip(last, low, command, y, x, pad, z)
<1> DEFINE c == OwChip(last, low, command, sending, sent, pad, line)
           c1 == OwChip(last, low, command, sending, x, pad, line)
           c2 == OwChip(last, low, command, y, x, pad, line)
<1>1. [c EXCEPT !.sent = x] = c1
    BY WireField
<1>2. [c1 EXCEPT !.sending = y] = c2
    BY WireField
<1>3. [c2 EXCEPT !.line = z] = OwChip(last, low, command, y, x, pad, z)
    BY WireField
<1> HIDE DEF c1, c2
<1> QED BY <1>1, <1>2, <1>3, ManyFields DEF Handed

\* A master that lets the level as it is says nothing.
LEMMA Stays ==
    ASSUME NEW level, NEW low, NEW command, NEW sending, NEW sent, NEW pad, NEW line, NEW us, NEW wave
    PROVE  WireDrive(OwChip(level, low, command, sending, sent, pad, line), us, level, wave)
                      = OwChip(level, low, command, sending, sent, pad, line)
<1> DEFINE c == OwChip(level, low, command, sending, sent, pad, line)
<1>1. c.last = level /\ [c EXCEPT !.last = level] = c
    BY WireFields, WireField
<1> HIDE DEF c
<1>2. 1 # 0
    OBVIOUS
<1> QED BY <1>1, <1>2, Zenon DEF WireDrive, c

\* A fall starts a slot,
LEMMA Falls ==
    ASSUME NEW low, NEW command, NEW sent, NEW pad, NEW line, NEW us, NEW wave
    PROVE  WireDrive(OwChip(1, low, command, Quiet, sent, pad, line), us, 0, wave)
               = OwChip(0, us, command, Quiet, sent, pad, line)
<1> DEFINE c == OwChip(1, low, command, Quiet, sent, pad, line)
           fell == OwChip(0, us, command, Quiet, sent, pad, line)
<1>1. c.last = 1 /\ c.sending = Quiet
    BY WireFields
<1>2. Fell(c, 0, us) = fell
    BY FallFields
<1> HIDE DEF c, fell
<1>3. 1 # 0
    OBVIOUS
<1>4. WireDrive(c, us, 0, wave) = fell
    BY ONLY <1>1, <1>2, <1>3, Zenon DEF WireDrive, Quiet, Fell
<1> QED BY ONLY <1>4 DEF c, fell

\* a rise ends it: after a long low it was a reset,
LEMMA LongLow ==
    ASSUME NEW low, NEW command, NEW sent, NEW pad, NEW line, NEW us, NEW wave,
           us \in Int, low \in Int, us - low >= 1000
    PROVE  WireDrive(OwChip(0, low, command, Quiet, sent, pad, line), us, 1, wave)
               = OwChip(1, low, <<>>, Quiet, 0, pad, <<[at |-> 0, v |-> At(line, us)]>>
                                                 \o Scheduled(us, <<<<10, 0>>, <<300, 1>>>>))
<1> DEFINE c == OwChip(0, low, command, Quiet, sent, pad, line)
           rose == OwChip(1, low, command, Quiet, sent, pad, line)
           pulse == <<[at |-> 0, v |-> At(line, us)]>> \o Scheduled(us, <<<<10, 0>>, <<300, 1>>>>)
           done == OwChip(1, low, <<>>, Quiet, 0, pad, pulse)
           d == 1000
<1>1. c.last = 0 /\ c.sending = Quiet /\ c.lowStartedAt = low
    BY WireFields
<1>2. [c EXCEPT !.last = 1] = rose /\ rose.line = line
    BY WireFields, WireField
<1>3. Pulsed(rose, <<>>, Quiet, 0, pulse) = done
    BY CommandFields
<1>4. 1 # 0 /\ us - low >= d
    OBVIOUS
<1>5. WireDrive(c, us, 1, wave) = ResetPulse([c EXCEPT !.last = 1], us)
    <2> HIDE DEF c, d
    <2>1. WireDrive(c, us, 1, wave)
            = IF us - c.lowStartedAt >= 1000 THEN ResetPulse([c EXCEPT !.last = 1], us)
              ELSE WriteSlot([c EXCEPT !.last = 1], us, IF us - c.lowStartedAt >= 200 THEN 0 ELSE 1, wave)
        BY ONLY <1>1, <1>4, Zenon DEF WireDrive, Quiet
    <2> QED BY ONLY <1>1, <1>4, <2>1 DEF d
<1>6. ResetPulse(rose, us) = Pulsed(rose, <<>>, Quiet, 0, pulse)
    <2> HIDE DEF rose
    <2> QED BY ONLY <1>2 DEF ResetPulse, LineLevel, Quiet, Pulsed
<1> HIDE DEF c, rose, done
<1>7. WireDrive(c, us, 1, wave) = done
    BY ONLY <1>2, <1>3, <1>5, <1>6
<1> QED BY ONLY <1>7 DEF c, done

\* and after a shorter low a bit, a 0 if the low was not short.
LEMMA ShortLow ==
    ASSUME NEW low, NEW command, NEW sent, NEW pad, NEW line, NEW us, NEW wave,
           us \in Int, low \in Int, us - low < 1000
    PROVE  WireDrive(OwChip(0, low, command, Quiet, sent, pad, line), us, 1, wave)
               = WriteSlot(OwChip(1, low, command, Quiet, sent, pad, line), us, IF us - low >= 200 THEN 0 ELSE 1, wave)
<1> DEFINE c == OwChip(0, low, command, Quiet, sent, pad, line)
           rose == OwChip(1, low, command, Quiet, sent, pad, line)
<1>1. c.last = 0 /\ c.sending = Quiet /\ c.lowStartedAt = low
    BY WireFields
<1>2. [c EXCEPT !.last = 1] = rose
    BY WireField
<1>3. 1 # 0 /\ ~(us - low >= 1000)
    OBVIOUS
<1> HIDE DEF c, rose
<1>4. WireDrive(c, us, 1, wave)
        = IF us - c.lowStartedAt >= 1000 THEN ResetPulse([c EXCEPT !.last = 1], us)
          ELSE WriteSlot([c EXCEPT !.last = 1], us, IF us - c.lowStartedAt >= 200 THEN 0 ELSE 1, wave)
    BY ONLY <1>1, 1 # 0, Zenon DEF WireDrive, Quiet
<1>5. WireDrive(c, us, 1, wave) = WriteSlot(rose, us, IF us - low >= 200 THEN 0 ELSE 1, wave)
    BY ONLY <1>1, <1>2, <1>3, <1>4
<1> QED BY ONLY <1>5 DEF c, rose

\* There are more bits to send.
More(more, sent, pad) == more = (sent + 1 < Len(pad))

\* While it sends, a fall makes the chip hold the next bit,
LEMMA HoldsBit ==
    ASSUME NEW low, NEW command, NEW sent, NEW pad, NEW line, NEW us, NEW wave, NEW more, More(more, sent, pad)
    PROVE  WireDrive(OwChip(1, low, command, Sends, sent, pad, line), us, 0, wave)
             = OwChip(0, us, command, more, sent + 1, pad, <<[at |-> us, v |-> pad[sent + 1]]>>)
<1> DEFINE c == OwChip(1, low, command, Sends, sent, pad, line)
           fell == OwChip(0, us, command, Sends, sent, pad, line)
           bit == <<[at |-> us, v |-> pad[sent + 1]]>>
           held == OwChip(0, us, command, more, sent + 1, pad, bit)
<1>1. c.last = 1 /\ c.sending = Sends
    BY WireFields
<1>2. Fell(c, 0, us) = fell
    BY FallFields
<1>3. fell.sent = sent /\ fell.scratchpad = pad
    BY WireFields
<1>4. Handed(fell, sent + 1, more, bit) = held
    BY SentFields
<1>5. 1 # 0
    OBVIOUS
<1> HIDE DEF c, fell, held
<1>6. WireDrive(c, us, 0, wave) = ReadSlot(fell, us)
    BY ONLY <1>1, <1>2, <1>5, Zenon DEF WireDrive, Sends, Fell
<1>7. ReadSlot(fell, us) = Handed(fell, sent + 1, more, bit)
    <2>1. ReadSlot(fell, us) = [fell EXCEPT !.sent = fell.sent + 1, !.sending = fell.sent + 1 < Len(fell.scratchpad),
                                            !.line = <<[at |-> us, v |-> fell.scratchpad[fell.sent + 1]]>>]
        BY ONLY Zenon DEF ReadSlot
    <2> QED BY ONLY <1>3, <2>1, More(more, sent, pad), Zenon DEF Handed, More
<1>8. WireDrive(c, us, 0, wave) = held
    BY ONLY <1>4, <1>6, <1>7
<1> QED BY ONLY <1>8 DEF c, held

\* and a rise means nothing.
LEMMA RisesSending ==
    ASSUME NEW low, NEW command, NEW sent, NEW pad, NEW line, NEW us, NEW wave
    PROVE  WireDrive(OwChip(0, low, command, Sends, sent, pad, line), us, 1, wave)
             = OwChip(1, low, command, Sends, sent, pad, line)
<1> DEFINE c == OwChip(0, low, command, Sends, sent, pad, line)
           rose == OwChip(1, low, command, Sends, sent, pad, line)
<1>1. c.last = 0 /\ c.sending = Sends
    BY WireFields
<1>2. [c EXCEPT !.last = 1] = rose
    BY WireField
<1>3. 1 # 0
    OBVIOUS
<1> HIDE DEF c, rose
<1>4. WireDrive(c, us, 1, wave) = rose
    BY ONLY <1>1, <1>2, <1>3, Zenon DEF WireDrive, Sends
<1> QED BY ONLY <1>4 DEF c, rose

\* What the firmware does on the wire: it drives a level, waits
LEMMA WireDriven ==
    ASSUME NEW c, NEW t, NEW in, NEW level, NEW us
    PROVE  OwDrive(On(c, t, in), level, us) = On(WireDrive(c, t, level, Degrees), t + us + mem.late.wait, in)
<1>1. \A d : OwWait(On(d, t, in), us) = On(d, t + us + mem.late.wait, in)
    BY DEF OwWait, On
<1>2. [On(c, t, in) EXCEPT !.chip = WireDrive(@, On(c, t, in).t, level, Degrees)] = On(WireDrive(c, t, level, Degrees), t, in)
    BY DEF On
<1> QED BY <1>1, <1>2 DEF OwDrive
\* It waits,
LEMMA WireWaited ==
    ASSUME NEW c, NEW t, NEW in, NEW us
    PROVE  OwWait(On(c, t, in), us) = On(c, t + us + mem.late.wait, in)
BY DEF OwWait, On
\* or looks.
LEMMA WireSampled ==
    ASSUME NEW c, NEW t, NEW in
    PROVE  OwSampled(On(c, t, in)) = On(c, t, Append(in, At(c.line, t)))
BY DEF OwSampled, On, LineLevel

\* The chip waits for the master, whose last low began by now;
Waiting(c, t) ==
    \E last \in {0, 1}, low \in Nat : \E command, sent, pad, line :
        low <= t /\ c = OwChip(last, low, command, Quiet, sent, pad, line)
\* it has seen these bits of a command by the time t or later.
Listens(m, command, t, in) ==
    \E low \in Nat, u \in Nat : \E sent, pad, line :
        u >= t /\ low <= u /\ m = On(OwChip(1, low, command, Quiet, sent, pad, line), u, in)

\* The presence pulse is there when the master looks.
LEMMA PulseSeen ==
    ASSUME NEW us \in Nat, NEW z, NEW t \in Nat, us + 10 <= t, t < us + 310
    PROVE  At(<<[at |-> 0, v |-> z]>> \o Scheduled(us, <<<<10, 0>>, <<300, 1>>>>), t) = 0
<1> DEFINE a == [at |-> 0, v |-> z]
           b == [at |-> us + 10, v |-> 0]
           c == [at |-> us + 10 + 300, v |-> 1]
           wave == <<a, b, c>>
           n == 3
<1>1. <<a>> \o Scheduled(us, <<<<10, 0>>, <<300, 1>>>>) = wave
    <2>1. Scheduled(us, <<<<10, 0>>, <<300, 1>>>>) = <<b, c>>
        <3> DEFINE p == 10
                   q == 300
        <3> HIDE DEF p, q
        <3>1. Scheduled(us, <<<<p, 0>>, <<q, 1>>>>) = <<[at |-> us + p, v |-> 0], [at |-> us + p + q, v |-> 1]>>
            BY ONLY ScheduledTwo, SMT
        <3> QED BY <3>1 DEF p, q
    <2> HIDE DEF a, b, c
    <2> QED BY <2>1, JoinOneTwo
<1>2. DOMAIN wave = 1..n /\ wave[1] = a /\ wave[2] = b /\ wave[3] = c
    OBVIOUS
<1> HIDE DEF wave
<1>3. a.at = 0 /\ b.at = us + 10 /\ c.at = us + 10 + 300 /\ b.v = 0
    OBVIOUS
<1> HIDE DEF a, b, c
<1>4. \A i \in 1..n : i = 1 \/ i = 2 \/ i = 3
    OBVIOUS
<1>5. \A i \in 1..n : wave[i].at <= t <=> i <= 2
    BY <1>2, <1>3, <1>4
<1>6. n \in Nat /\ 2 \in 1..n
    OBVIOUS
<1> HIDE DEF n
<1>7. At(wave, t) = wave[2].v
    BY ONLY <1>2, <1>5, <1>6, ShowsEntry
<1> QED BY <1>1, <1>2, <1>3, <1>7 DEF a

\* After a reset the master has sampled it, and the chip waits for a command
\* (OnReset in DS18B20.cs).
LEMMA ResetAnswers ==
    ASSUME mem.late \in Delays, NEW c, NEW t \in Nat, NEW in, Waiting(c, t)
    PROVE  Listens(OwReset(On(c, t, in)), <<>>, t, Append(in, 0))
<1> DEFINE w == mem.late.wait
           t1 == t + 2000 + w
           t2 == t1 + 90 + w
           t3 == t2 + 600 + w
           t4 == t3 + 0 + w
<1>1. w \in Nat /\ w <= 31
    BY DelaysAreSmall
<1>2. PICK last \in {0, 1}, low \in Nat : \E command, sent, pad, line :
          low <= t /\ c = OwChip(last, low, command, Quiet, sent, pad, line)
    BY DEF Waiting
<1>3. PICK command, sent, pad, line : low <= t /\ c = OwChip(last, low, command, Quiet, sent, pad, line)
    BY <1>2
<1> HIDE DEF w
<1>4. PICK l \in Nat : l <= t /\ WireDrive(c, t, 0, Degrees) = OwChip(0, l, command, Quiet, sent, pad, line)
    <2>1. CASE last = 0
        BY <1>3, <2>1, Stays
    <2>2. CASE last = 1
        BY <1>3, <2>2, Falls
    <2> QED BY <2>1, <2>2
<1> DEFINE c1 == OwChip(0, l, command, Quiet, sent, pad, line)
           pulse == <<[at |-> 0, v |-> At(line, t1)]>> \o Scheduled(t1, <<<<10, 0>>, <<300, 1>>>>)
           c2 == OwChip(1, l, <<>>, Quiet, 0, pad, pulse)
<1>5. OwDrive(On(c, t, in), 0, 2000) = On(c1, t1, in)
    BY <1>4, WireDriven DEF w
<1>6. OwDrive(On(c1, t1, in), 1, 90) = On(c2, t2, in)
    <2>1. t1 \in Int /\ l \in Int /\ t1 - l >= 1000
        BY <1>1, <1>4
    <2> HIDE DEF t1
    <2>2. WireDrive(c1, t1, 1, Degrees) = c2
        BY <2>1, LongLow
    <2> HIDE DEF c1, c2
    <2> QED BY <2>2, WireDriven DEF w
<1>7. OwSampled(On(c2, t2, in)) = On(c2, t2, Append(in, 0))
    <2>1. t1 \in Nat /\ t2 \in Nat /\ t1 + 10 <= t2 /\ t2 < t1 + 310
        BY <1>1
    <2> HIDE DEF t1, t2
    <2> DEFINE x == At(line, t1)
    <2>2. At(<<[at |-> 0, v |-> x]>> \o Scheduled(t1, <<<<10, 0>>, <<300, 1>>>>), t2) = 0
        <3> HIDE DEF x
        <3> QED BY ONLY <2>1, PulseSeen
    <2>3. c2.line = pulse
        <3> HIDE DEF pulse
        <3> QED BY WireFields
    <2>4. At(c2.line, t2) = 0
        <3> HIDE DEF c2
        <3> QED BY ONLY <2>2, <2>3
    <2> HIDE DEF c2
    <2> QED BY ONLY <2>4, WireSampled
<1>8. OwWait(On(c2, t2, Append(in, 0)), 600) = On(c2, t3, Append(in, 0))
    BY WireWaited DEF w
<1>9. OwDrive(On(c2, t3, Append(in, 0)), 1, 0) = On(c2, t4, Append(in, 0))
    <2>1. WireDrive(c2, t3, 1, Degrees) = c2
        BY Stays
    <2> HIDE DEF c2
    <2> QED BY <2>1, WireDriven DEF w
<1>10. t4 \in Nat /\ t4 >= t /\ l <= t4
    BY <1>1, <1>4
<1> HIDE DEF t1, t2, t3, t4, c1, pulse
<1>11. OwReset(On(c, t, in)) = On(c2, t4, Append(in, 0))
    BY <1>5, <1>6, <1>7, <1>8, <1>9 DEF OwReset
<1>12. Listens(On(c2, t4, Append(in, 0)), <<>>, t, Append(in, 0))
    BY <1>4, <1>10, Zenon DEF Listens
<1> QED BY <1>11, <1>12

\* A bit that the master writes is the one the chip sees.
LEMMA BitWritten ==
    ASSUME mem.late \in Delays, NEW command, NEW m, NEW t \in Nat, NEW in, Listens(m, command, t, in), NEW bit \in {0, 1}
    PROVE  \E low \in Nat, us \in Nat, u \in Nat : \E sent, pad, line :
               /\ us >= t /\ u >= us /\ low <= us
               /\ OwWriteBit(m, bit) = On(WriteSlot(OwChip(1, low, command, Quiet, sent, pad, line), us, bit, Degrees), u, in)
<1> DEFINE w == mem.late.wait
<1>1. w \in Nat /\ w <= 31
    BY DelaysAreSmall
<1>9. PICK low \in Nat, v \in Nat : \E sent, pad, line :
          v >= t /\ low <= v /\ m = On(OwChip(1, low, command, Quiet, sent, pad, line), v, in)
    BY DEF Listens
<1>2. PICK sent, pad, line : v >= t /\ low <= v /\ m = On(OwChip(1, low, command, Quiet, sent, pad, line), v, in)
    BY <1>9
<1> HIDE DEF w
<1> DEFINE c == OwChip(1, low, command, Quiet, sent, pad, line)
           c1 == OwChip(0, v, command, Quiet, sent, pad, line)
           c2(b, us) == WriteSlot(OwChip(1, v, command, Quiet, sent, pad, line), us, b, Degrees)
<1>3. \A us : OwDrive(m, 0, us) = On(c1, v + us + w, in)
    <2>1. WireDrive(c, v, 0, Degrees) = c1
        BY Falls
    <2> HIDE DEF c, c1
    <2> QED BY <1>2, <2>1, WireDriven DEF c, w
<1>4. ASSUME NEW us \in Nat, us - v < 1000, NEW hold
      PROVE  OwDrive(On(c1, us, in), 1, hold) = On(c2(IF us - v >= 200 THEN 0 ELSE 1, us), us + hold + w, in)
    <2>1. WireDrive(c1, us, 1, Degrees) = c2(IF us - v >= 200 THEN 0 ELSE 1, us)
        BY <1>2, <1>4, ShortLow
    <2> HIDE DEF c1, c2
    <2> QED BY <2>1, WireDriven DEF w
<1> HIDE DEF c, c1, c2
<1>5. CASE bit = 1
    <2> DEFINE us == v + 30 + w
               u == us + 400 + w
    <2>1. us \in Nat /\ us - v < 1000 /\ ~(us - v >= 200) /\ us >= t /\ u \in Nat /\ u >= us /\ v <= us
        BY <1>1, <1>2
    <2>2. OwDrive(m, 0, 30) = On(c1, us, in)
        BY <1>3
    <2> HIDE DEF us
    <2>3. OwDrive(On(c1, us, in), 1, 400) = On(c2(1, us), u, in)
        BY <1>4, <2>1
    <2> HIDE DEF u
    <2>4. OwWriteBit(m, bit) = On(c2(bit, us), u, in)
        BY <1>5, <2>2, <2>3 DEF OwWriteBit
    <2> QED BY <2>1, <2>4 DEF c2
<1>6. CASE bit = 0
    <2> DEFINE us == v + 400 + w
               u == us + 30 + w
    <2>1. us \in Nat /\ us - v < 1000 /\ us - v >= 200 /\ us >= t /\ u \in Nat /\ u >= us /\ v <= us
        BY <1>1, <1>2
    <2>2. OwDrive(m, 0, 400) = On(c1, us, in)
        BY <1>3
    <2> HIDE DEF us
    <2>3. OwDrive(On(c1, us, in), 1, 30) = On(c2(0, us), u, in)
        BY <1>4, <2>1
    <2> HIDE DEF u
    <2>4. OwWriteBit(m, bit) = On(c2(bit, us), u, in)
        BY <1>6, <2>2, <2>3 DEF OwWriteBit
    <2> QED BY <2>1, <2>4 DEF c2
<1> QED BY <1>5, <1>6

\* The chip gives its scratchpad, of which k bits are given by the time t or later.
Gives(m, pad, k, t, in) ==
    \E low \in Nat, u \in Nat : \E line :
        u >= t /\ low <= u /\ m = On(OwChip(1, low, <<>>, Sends, k, pad, line), u, in)

\* One bit more, which may be fewer than a byte has, or all of them.
Adds(command, bit, bits) == Append(command, bit) = bits
\* Fewer than a byte has.
Few(bits) == Len(bits) < 8

\* What a bit does to a command: it is kept until there are eight,
LEMMA BitKept ==
    ASSUME NEW low, NEW command, NEW sent, NEW pad, NEW line, NEW us, NEW bit, NEW wave,
           NEW bits, Adds(command, bit, bits), Few(bits)
    PROVE  WriteSlot(OwChip(1, low, command, Quiet, sent, pad, line), us, bit, wave)
               = OwChip(1, low, bits, Quiet, sent, pad, line)
<1> DEFINE c == OwChip(1, low, command, Quiet, sent, pad, line)
           kept == OwChip(1, low, bits, Quiet, sent, pad, line)
<1>1. c.command = command
    BY WireFields
<1>2. [c EXCEPT !.command = bits] = kept
    BY WireField
<1> HIDE DEF c, kept
<1>3. WriteSlot(c, us, bit, wave) = kept
    BY ONLY <1>1, <1>2, Adds(command, bit, bits), Few(bits), Zenon DEF WriteSlot, Adds, Few
<1> QED BY ONLY <1>3 DEF c, kept

\* which are dropped again, if they are not the command to read,
LEMMA ByteDropped ==
    ASSUME NEW low, NEW command, NEW sent, NEW pad, NEW line, NEW us, NEW bit, NEW wave,
           NEW bits, Adds(command, bit, bits), ~Few(bits), ValueOfBits(bits) # ReadScratchpad
    PROVE  WriteSlot(OwChip(1, low, command, Quiet, sent, pad, line), us, bit, wave)
               = OwChip(1, low, <<>>, Quiet, sent, pad, line)
<1> DEFINE c == OwChip(1, low, command, Quiet, sent, pad, line)
           dropped == OwChip(1, low, <<>>, Quiet, sent, pad, line)
<1>1. c.command = command
    BY WireFields
<1>2. [c EXCEPT !.command = <<>>] = dropped
    BY WireField
<1> HIDE DEF c, dropped
<1>3. WriteSlot(c, us, bit, wave) = dropped
    BY ONLY <1>1, <1>2, Adds(command, bit, bits), ~Few(bits), ValueOfBits(bits) # ReadScratchpad, Zenon DEF WriteSlot, Adds, Few
<1> QED BY ONLY <1>3 DEF c, dropped

\* and make the chip send a new scratchpad if they are.
LEMMA ByteObeyed ==
    ASSUME NEW low, NEW command, NEW sent, NEW pad, NEW line, NEW us, NEW bit, NEW wave,
           NEW bits, Adds(command, bit, bits), ~Few(bits), ValueOfBits(bits) = ReadScratchpad
    PROVE  WriteSlot(OwChip(1, low, command, Quiet, sent, pad, line), us, bit, wave)
               = OwChip(1, low, <<>>, Sends, 0, BuildScratchpad(ValueOf(wave, us)), line)
<1> DEFINE c == OwChip(1, low, command, Quiet, sent, pad, line)
           new == BuildScratchpad(ValueOf(wave, us))
           sends == OwChip(1, low, <<>>, Sends, 0, new, line)
<1>1. c.command = command
    BY WireFields
<1>2. Ordered(c, <<>>, Sends, 0, new) = sends
    BY CommandFields
<1> HIDE DEF c, sends
<1>3. WriteSlot(c, us, bit, wave) = Ordered(c, <<>>, Sends, 0, new)
    BY ONLY <1>1, Adds(command, bit, bits), ~Few(bits), ValueOfBits(bits) = ReadScratchpad, Zenon
       DEF WriteSlot, Adds, Few, Ordered, Sends
<1> QED BY ONLY <1>2, <1>3 DEF c, sends

\* The first of a number of things.
FirstOf(s, k) == [i \in 1..k |-> s[i]]
\* The first are all of one set.
Among(s, n, S) == \A i \in 1..n : s[i] \in S
\* One more of them makes the next first ones.
LEMMA OneMore ==
    ASSUME NEW S, NEW n \in Nat, NEW s, Among(s, n, S), NEW k \in Nat, k < n
    PROVE  /\ FirstOf(s, k) \in Seq(S) /\ Append(FirstOf(s, k), s[k + 1]) = FirstOf(s, k + 1)
           /\ Len(Append(FirstOf(s, k), s[k + 1])) = k + 1
<1> DEFINE first == FirstOf(s, k)
           b == s[k + 1]
<1>1. \A i \in 1..k : first[i] = s[i] /\ s[i] \in S
    BY DEF FirstOf, Among
<1>2. first \in Seq(S) /\ Len(first) = k /\ k \in Nat
    BY DEF FirstOf, Among
<1>3. b \in S
    BY DEF Among
<1> HIDE DEF first, b
<1>4. /\ Append(first, b) \in Seq(S) /\ Len(Append(first, b)) = Len(first) + 1
      /\ Append(first, b)[Len(first) + 1] = b /\ \A i \in 1..Len(first) : Append(first, b)[i] = first[i]
    BY ONLY <1>2, <1>3
<1>5. DOMAIN Append(first, b) = 1..(k + 1) /\ Append(first, b)[k + 1] = b /\ \A i \in 1..k : Append(first, b)[i] = s[i]
    BY ONLY <1>1, <1>2, <1>4
<1>6. \A i \in 1..(k + 1) : Append(first, b)[i] = s[i]
    <2>1. \A i \in 1..(k + 1) : i \in 1..k \/ i = k + 1
        BY <1>2
    <2> QED BY ONLY <1>5, <2>1 DEF b
<1>7. \A q : q \in Seq(S) => q = [i \in DOMAIN q |-> q[i]]
    OBVIOUS
<1>8. Append(first, b) = [i \in 1..(k + 1) |-> Append(first, b)[i]]
    BY ONLY <1>4, <1>5, <1>7
<1>9. Append(first, b) = FirstOf(s, k + 1)
    BY ONLY <1>6, <1>8 DEF FirstOf
<1> QED BY <1>2, <1>4, <1>9 DEF first, b

\* A byte that the master writes is the one the chip sees: it is forgotten,
LEMMA WritesAreFold == \A base, s : FoldLeft(OwWriteBit, base, s) = WriteBits!Folded(base, s)
BY DEF WriteBits!Folded, FoldLeft, MapThenFoldSet, WriteBits!FoldLeft, WriteBits!MapThenFoldSet, Max, WriteBits!Max

\* one bit after the other,
LEMMA BitAdded ==
    ASSUME mem.late \in Delays, NEW bits, \A i \in 1..8 : bits[i] \in Bit, NEW k \in 0..6, NEW m, NEW t \in Nat, NEW in,
           Listens(m, FirstOf(bits, k), t, in)
    PROVE  Listens(OwWriteBit(m, bits[k + 1]), FirstOf(bits, k + 1), t, in)
<1> DEFINE first == FirstOf(bits, k)
           b == bits[k + 1]
           more == FirstOf(bits, k + 1)
<1> DEFINE n == 8
<1>1. b \in {0, 1} /\ k \in Nat /\ k < n /\ k + 1 < 8 /\ n \in Nat /\ Among(bits, n, Bit)
    BY DEF Bit, Among
<1>2. Adds(first, b, more) /\ Few(more)
    <2> HIDE DEF n
    <2>1. Append(first, b) = more /\ Len(Append(first, b)) = k + 1
        BY ONLY <1>1, OneMore, Zenon
    <2> QED BY <1>1, <2>1 DEF Adds, Few
<1>3. Listens(m, first, t, in)
    OBVIOUS
<1> HIDE DEF first, b, more
<1>4. PICK low \in Nat, us \in Nat, u \in Nat : \E sent, pad, line :
          /\ us >= t /\ u >= us /\ low <= us
          /\ OwWriteBit(m, b) = On(WriteSlot(OwChip(1, low, first, Quiet, sent, pad, line), us, b, Degrees), u, in)
    BY ONLY <1>1, <1>3, mem.late \in Delays, t \in Nat, BitWritten
<1>5. PICK sent, pad, line :
          /\ us >= t /\ u >= us /\ low <= us
          /\ OwWriteBit(m, b) = On(WriteSlot(OwChip(1, low, first, Quiet, sent, pad, line), us, b, Degrees), u, in)
    BY ONLY <1>4
<1>6. WriteSlot(OwChip(1, low, first, Quiet, sent, pad, line), us, b, Degrees) = OwChip(1, low, more, Quiet, sent, pad, line)
    BY ONLY <1>2, BitKept
<1>7. OwWriteBit(m, b) = On(OwChip(1, low, more, Quiet, sent, pad, line), u, in)
    BY ONLY <1>5, <1>6
<1>8. u >= t /\ low <= u
    BY <1>5
<1> HIDE DEF more, b
<1> QED BY ONLY <1>7, <1>8, low \in Nat, u \in Nat DEF Listens, more, b

\* until the last one, which is the end of the byte.
Completes(m, byte, t, in) ==
    \E low \in Nat, us \in Nat, u \in Nat : \E sent, pad, line, b :
        /\ us >= t /\ u >= us /\ low <= us
        /\ Adds(FirstOf(ByteBits(byte), 7), b, ByteBits(byte))
        /\ m = On(WriteSlot(OwChip(1, low, FirstOf(ByteBits(byte), 7), Quiet, sent, pad, line), us, b, Degrees), u, in)
\* Seven bits are kept, and the eighth completes the byte.
LEMMA SevenAdded ==
    ASSUME mem.late \in Delays, NEW byte \in Byte, NEW m, NEW t \in Nat, NEW in, Listens(m, <<>>, t, in)
    PROVE  Completes(OwWriteByte(m, byte), byte, t, in)
<1> DEFINE bits == ByteBits(byte)
           eight == 8
<1>1. (\A i \in 1..8 : bits[i] \in Bit) /\ DOMAIN bits = 1..eight /\ eight \in Nat
    BY BitsOfByte
<1>2. FirstOf(bits, 8) = bits /\ FirstOf(bits, 0) = <<>>
    BY DEF FirstOf, ByteBits
<1>0. OwWriteByte(m, byte) = FoldLeft(OwWriteBit, m, bits)
    BY DEF OwWriteByte
<1> HIDE DEF bits, eight
<1>3. PICK h : WriteBits!Runs(h, m, bits, eight) /\ WriteBits!Folded(m, bits) = h[eight]
    BY ONLY <1>1, WriteBits!FoldSteps, Zenon
<1>4. h[0] = m /\ \A k \in 0..7 : h[k + 1] = OwWriteBit(h[k], bits[k + 1])
    <2>1. h[0] = m /\ \A i \in 1..eight : h[i] = OwWriteBit(h[i - 1], bits[i])
        BY ONLY <1>3 DEF WriteBits!Runs
    <2>2. \A k \in 0..7 : k + 1 \in 1..eight /\ (k + 1) - 1 = k
        BY DEF eight
    <2> QED BY ONLY <2>1, <2>2
<1> DEFINE A == {k \in Nat : k <= 7 => Listens(h[k], FirstOf(bits, k), t, in)}
<1>5. 0 \in A
    BY <1>2, <1>4
<1>6. ASSUME NEW k \in Nat, k \in A PROVE k + 1 \in A
    <2> SUFFICES ASSUME k + 1 <= 7 PROVE Listens(h[k + 1], FirstOf(bits, k + 1), t, in)
        OBVIOUS
    <2>1. k \in 0..6 /\ k \in 0..7 /\ Listens(h[k], FirstOf(bits, k), t, in)
        BY <1>6
    <2>2. Listens(OwWriteBit(h[k], bits[k + 1]), FirstOf(bits, k + 1), t, in)
        BY ONLY <1>1, <2>1, mem.late \in Delays, t \in Nat, BitAdded
    <2> QED BY ONLY <1>4, <2>1, <2>2
<1> HIDE DEF A
<1>7. 7 \in A
    <2>1. Nat \subseteq A
        BY ONLY <1>5, <1>6, SumFold!NatSet
    <2> QED BY <2>1
<1> DEFINE first == FirstOf(bits, 7)
           b == bits[8]
<1>8. Listens(h[7], first, t, in) /\ b \in {0, 1}
    BY <1>1, <1>7 DEF A, Bit
<1>9. OwWriteByte(m, byte) = OwWriteBit(h[7], b)
    <2>1. h[7 + 1] = OwWriteBit(h[7], bits[7 + 1]) /\ 7 + 1 = 8
        BY <1>4
    <2> QED BY <1>0, <1>3, <2>1, WritesAreFold DEF eight
<1>10. Adds(first, b, bits)
    <2> DEFINE k == 7
               n == 8
    <2>1. k \in Nat /\ n \in Nat /\ k < n /\ Among(bits, n, Bit)
        BY <1>1 DEF Among
    <2>3. k = 7 /\ k + 1 = 8
        OBVIOUS
    <2> HIDE DEF k, n
    <2>2. Append(FirstOf(bits, k), bits[k + 1]) = FirstOf(bits, k + 1)
        BY ONLY <2>1, OneMore
    <2> QED BY ONLY <1>2, <2>3, <2>2 DEF Adds
<1> HIDE DEF first, b
<1>11. PICK low \in Nat, us \in Nat, u \in Nat : \E sent, pad, line :
          /\ us >= t /\ u >= us /\ low <= us
          /\ OwWriteBit(h[7], b) = On(WriteSlot(OwChip(1, low, first, Quiet, sent, pad, line), us, b, Degrees), u, in)
    BY ONLY <1>8, mem.late \in Delays, t \in Nat, BitWritten
<1>12. PICK sent, pad, line :
          /\ us >= t /\ u >= us /\ low <= us
          /\ OwWriteBit(h[7], b) = On(WriteSlot(OwChip(1, low, first, Quiet, sent, pad, line), us, b, Degrees), u, in)
    BY ONLY <1>11
<1>13. OwWriteByte(m, byte) = On(WriteSlot(OwChip(1, low, first, Quiet, sent, pad, line), us, b, Degrees), u, in)
    BY ONLY <1>9, <1>12
<1>14. us >= t /\ u >= us /\ low <= us
    BY ONLY <1>12
<1> QED BY ONLY <1>10, <1>13, <1>14, Zenon DEF Completes, first, bits

\* The chip knows only the command to read.
LEMMA ByteWritten ==
    ASSUME mem.late \in Delays, NEW byte \in Byte, NEW m, NEW t \in Nat, NEW in, Listens(m, <<>>, t, in)
    PROVE  /\ byte # ReadScratchpad => Listens(OwWriteByte(m, byte), <<>>, t, in)
           /\ byte = ReadScratchpad =>
                 \E us \in Nat : us >= t /\ Gives(OwWriteByte(m, byte), BuildScratchpad(ValueOf(Degrees, us)), 0, us, in)
<1> DEFINE bits == ByteBits(byte)
           first == FirstOf(bits, 7)
<1>0. Completes(OwWriteByte(m, byte), byte, t, in)
    BY SevenAdded
<1>1. PICK low \in Nat, us \in Nat, u \in Nat : \E sent, pad, line, b :
          /\ us >= t /\ u >= us /\ low <= us
          /\ Adds(first, b, bits)
          /\ OwWriteByte(m, byte) = On(WriteSlot(OwChip(1, low, first, Quiet, sent, pad, line), us, b, Degrees), u, in)
    BY ONLY <1>0, Zenon DEF Completes
<1>2. PICK sent, pad, line, b :
          /\ us >= t /\ u >= us /\ low <= us
          /\ Adds(first, b, bits)
          /\ OwWriteByte(m, byte) = On(WriteSlot(OwChip(1, low, first, Quiet, sent, pad, line), us, b, Degrees), u, in)
    BY <1>1
<1>3. ValueOfBits(bits) = byte /\ ~Few(bits)
    BY ValueIsByte, BitsOfByte DEF Few
<1> HIDE DEF bits, first
<1>4. CASE byte # ReadScratchpad
    <2>1. Adds(first, b, bits) /\ ~Few(bits) /\ ValueOfBits(bits) # ReadScratchpad
        BY ONLY <1>2, <1>3, <1>4
    <2>2. WriteSlot(OwChip(1, low, first, Quiet, sent, pad, line), us, b, Degrees) = OwChip(1, low, <<>>, Quiet, sent, pad, line)
        BY ONLY <2>1, ByteDropped
    <2>3. OwWriteByte(m, byte) = On(OwChip(1, low, <<>>, Quiet, sent, pad, line), u, in)
        BY ONLY <1>2, <2>2
    <2>4. u >= t /\ low <= u
        BY <1>2
    <2>5. Listens(OwWriteByte(m, byte), <<>>, t, in)
        BY ONLY <2>3, <2>4, low \in Nat, u \in Nat DEF Listens
    <2> QED BY <1>4, <2>5
<1>5. CASE byte = ReadScratchpad
    <2> DEFINE new == BuildScratchpad(ValueOf(Degrees, us))
    <2>1. Adds(first, b, bits) /\ ~Few(bits) /\ ValueOfBits(bits) = ReadScratchpad
        BY ONLY <1>2, <1>3, <1>5
    <2>2. WriteSlot(OwChip(1, low, first, Quiet, sent, pad, line), us, b, Degrees) = OwChip(1, low, <<>>, Sends, 0, new, line)
        BY ONLY <2>1, ByteObeyed
    <2>3. OwWriteByte(m, byte) = On(OwChip(1, low, <<>>, Sends, 0, new, line), u, in)
        BY ONLY <1>2, <2>2
    <2>4. u >= us /\ low <= u
        BY <1>2
    <2> HIDE DEF new
    <2>5. Gives(OwWriteByte(m, byte), new, 0, us, in)
        BY ONLY <2>3, <2>4, low \in Nat, u \in Nat DEF Gives
    <2>6. us >= t
        BY <1>2
    <2> QED BY <1>5, <2>5, <2>6 DEF new
<1> QED BY <1>4, <1>5

\* Some bits of the scratchpad are given; after the last the chip waits again.
Giving(c, u, pad, k) ==
    \E low \in Nat : \E line : low <= u /\ c = OwChip(1, low, <<>>, Sends, k, pad, line)
\* Until the last is given,
Given(c, u, pad, n, k) == IF k < n THEN Giving(c, u, pad, k) ELSE Waiting(c, u)
\* the firmware reads them.
Reads(m, pad, n, k, t, in) ==
    \E u \in Nat : \E c : u >= t /\ m = On(c, u, in) /\ Given(c, u, pad, n, k)
\* So long is the scratchpad.
Long(pad, n) == Len(pad) = n

\* What the chip holds for a bit is seen until the next fall.
LEMMA HeldSeen ==
    ASSUME NEW v \in Nat, NEW b, NEW u \in Nat, u >= v
    PROVE  At(<<[at |-> v, v |-> b]>>, u) = b
<1> DEFINE e == [at |-> v, v |-> b]
           wave == <<e>>
           n == 1
<1>1. e.at = v /\ e.v = b
    OBVIOUS
<1>2. DOMAIN wave = 1..n /\ wave[1] = e /\ n \in Nat /\ 1 \in 1..n
    OBVIOUS
<1>3. \A i \in 1..n : wave[i].at <= u <=> i <= 1
    BY <1>1
<1> HIDE DEF wave, e, n
<1>4. At(wave, u) = wave[1].v
    BY ONLY <1>2, <1>3, ShowsEntry
<1> QED BY <1>1, <1>2, <1>4 DEF wave, e

\* A bit that the master reads is the next one.
LEMMA BitGiven ==
    ASSUME mem.late \in Delays, NEW pad, NEW n \in Nat, Long(pad, n), NEW k \in Nat, k < n,
           NEW m, NEW t \in Nat, NEW in, Reads(m, pad, n, k, t, in), NEW x
    PROVE  Reads(OwReadBit(m, x), pad, n, k + 1, t, Append(in, pad[k + 1]))
<1> DEFINE w == mem.late.wait
<1>1. w \in Nat /\ w <= 31
    BY DelaysAreSmall
<1>2. PICK v \in Nat : \E c : v >= t /\ m = On(c, v, in) /\ Given(c, v, pad, n, k)
    BY DEF Reads
<1>3. PICK c0 : v >= t /\ m = On(c0, v, in) /\ Given(c0, v, pad, n, k)
    BY <1>2
<1>4. Giving(c0, v, pad, k)
    BY <1>3 DEF Given
<1>5. PICK low \in Nat : \E line : low <= v /\ c0 = OwChip(1, low, <<>>, Sends, k, pad, line)
    BY <1>4 DEF Giving
<1>6. PICK line : low <= v /\ c0 = OwChip(1, low, <<>>, Sends, k, pad, line)
    BY <1>5
<1> HIDE DEF w
<1> DEFINE v1 == v + 60 + w
           v2 == v1 + 120 + w
           v3 == v2 + 300 + w
           v4 == v3 + 0 + w
           b == pad[k + 1]
           held == <<[at |-> v, v |-> b]>>
           out == Append(in, b)
           more == k + 1 < n
<1>7. /\ v1 \in Nat /\ v2 \in Nat /\ v2 >= v /\ v3 \in Int /\ v4 \in Nat /\ v4 >= t /\ v <= v4
      /\ v3 - v < 1000 /\ v3 - v >= 200 /\ v \in Int
    BY <1>1, <1>3
<1> HIDE DEF v1, v2, v3, v4
<1>9. ASSUME NEW sends, More(sends, k, pad), NEW c,
             WireDrive(OwChip(0, v, <<>>, sends, k + 1, pad, held), v3, 1, Degrees) = c
      PROVE  OwReadBit(m, x) = On(c, v4, out)
    <2> DEFINE c1 == OwChip(0, v, <<>>, sends, k + 1, pad, held)
    <2>1. WireDrive(c0, v, 0, Degrees) = c1
        BY <1>6, <1>9, HoldsBit
    <2>2. At(c1.line, v2) = b
        <3>1. c1.line = held
            <4> HIDE DEF held
            <4> QED BY WireFields
        <3>2. At(held, v2) = b
            <4> HIDE DEF b
            <4> QED BY <1>7, HeldSeen
        <3> HIDE DEF held, c1
        <3> QED BY <3>1, <3>2
    <2> HIDE DEF c1, b, held
    <2>3. OwDrive(m, 0, 60) = On(c1, v1, in)
        BY <1>3, <2>1, WireDriven DEF v1, w
    <2>4. OwWait(On(c1, v1, in), 120) = On(c1, v2, in)
        BY WireWaited DEF v2, w
    <2>5. OwSampled(On(c1, v2, in)) = On(c1, v2, out)
        BY <2>2, WireSampled
    <2> HIDE DEF out
    <2>6. OwWait(On(c1, v2, out), 300) = On(c1, v3, out)
        BY WireWaited DEF v3, w
    <2>7. OwDrive(On(c1, v3, out), 1, 0) = On(c, v4, out)
        BY <1>9, WireDriven DEF v4, w, c1
    <2> QED BY ONLY <2>3, <2>4, <2>5, <2>6, <2>7 DEF OwReadBit
<1>11. CASE k + 1 < n
    <2>1. More(Sends, k, pad)
        BY <1>11 DEF Sends, More, Long
    <2> DEFINE c == OwChip(1, v, <<>>, Sends, k + 1, pad, held)
    <2>2. WireDrive(OwChip(0, v, <<>>, Sends, k + 1, pad, held), v3, 1, Degrees) = c
        <3> HIDE DEF held
        <3> QED BY ONLY RisesSending
    <2> HIDE DEF held, out, c
    <2>3. OwReadBit(m, x) = On(c, v4, out)
        BY ONLY <1>9, <2>1, <2>2
    <2>4. Giving(c, v4, pad, k + 1)
        BY <1>7, Zenon DEF Giving, c
    <2>5. Given(c, v4, pad, n, k + 1)
        BY ONLY <1>11, <2>4 DEF Given
    <2>6. Reads(OwReadBit(m, x), pad, n, k + 1, t, out)
        BY ONLY <1>7, <2>3, <2>5, Zenon DEF Reads
    <2> QED BY ONLY <2>6 DEF out, b
<1>12. CASE ~(k + 1 < n)
    <2>1. More(Quiet, k, pad)
        BY <1>12 DEF Quiet, More, Long
    <2> DEFINE zero == Append(<<>>, 0)
               c == OwChip(1, v, zero, Quiet, k + 1, pad, held)
    <2>2. WireDrive(OwChip(0, v, <<>>, Quiet, k + 1, pad, held), v3, 1, Degrees)
             = WriteSlot(OwChip(1, v, <<>>, Quiet, k + 1, pad, held), v3, 0, Degrees)
        <3> HIDE DEF held
        <3>1. (IF v3 - v >= 200 THEN 0 ELSE 1) = 0
            BY ONLY <1>7
        <3> QED BY ONLY <1>7, <3>1, ShortLow
    <2>3. Adds(<<>>, 0, zero) /\ Few(zero)
        BY DEF Adds, Few
    <2> HIDE DEF zero, held
    <2>4. WriteSlot(OwChip(1, v, <<>>, Quiet, k + 1, pad, held), v3, 0, Degrees) = c
        BY ONLY <2>3, BitKept
    <2> HIDE DEF out, c
    <2>5. OwReadBit(m, x) = On(c, v4, out)
        BY ONLY <1>9, <2>1, <2>2, <2>4
    <2>6. Waiting(c, v4)
        BY <1>7, 1 \in {0, 1}, Zenon DEF Waiting, c
    <2>7. Given(c, v4, pad, n, k + 1)
        BY ONLY <1>12, <2>6 DEF Given
    <2>8. Reads(OwReadBit(m, x), pad, n, k + 1, t, out)
        BY ONLY <1>7, <2>5, <2>7, Zenon DEF Reads
    <2> QED BY ONLY <2>8 DEF out, b
<1> QED BY <1>11, <1>12

\* The eight bits of the scratchpad after the first k,
EightAfter(pad, k) == [q \in 1..8 |-> pad[k + q]]
\* read one after the other: a fold, as are the nine bytes,
LEMMA ReadsAreFolds ==
    /\ \A base, s : FoldLeft(OwReadBit, base, s) = ReadBits!Folded(base, s)
    /\ \A base, s : FoldLeft(OwReadByte, base, s) = ReadBytes!Folded(base, s)
<1>1. \A base, s : FoldLeft(OwReadBit, base, s) = ReadBits!Folded(base, s)
    BY DEF ReadBits!Folded, FoldLeft, MapThenFoldSet, ReadBits!FoldLeft, ReadBits!MapThenFoldSet, Max, ReadBits!Max
<1>2. \A base, s : FoldLeft(OwReadByte, base, s) = ReadBytes!Folded(base, s)
    BY DEF ReadBytes!Folded, FoldLeft, MapThenFoldSet, ReadBytes!FoldLeft, ReadBytes!MapThenFoldSet, Max, ReadBytes!Max
<1> QED BY <1>1, <1>2

\* which a read of a byte gives.
LEMMA EightGiven ==
    ASSUME mem.late \in Delays, NEW pad, NEW n \in Nat, Long(pad, n), NEW k \in Nat, k + 8 <= n,
           NEW m, NEW t \in Nat, Reads(m, pad, n, k, t, <<>>)
    PROVE  Reads(FoldLeft(OwReadBit, m, <<0, 1, 2, 3, 4, 5, 6, 7>>), pad, n, k + 8, t, EightAfter(pad, k))
<1> DEFINE s == <<0, 1, 2, 3, 4, 5, 6, 7>>
           e == EightAfter(pad, k)
           eight == 8
           S == {e[q] : q \in 1..8}
<1>1. DOMAIN s = 1..eight /\ eight \in Nat
    OBVIOUS
<1>2. FirstOf(e, 8) = e /\ FirstOf(e, 0) = <<>>
    BY DEF FirstOf, EightAfter
<1>3. \A j \in 0..7 : e[j + 1] = pad[k + j + 1]
    <2>1. \A q \in 1..8 : e[q] = pad[k + q]
        BY DEF EightAfter
    <2>2. \A j \in 0..7 : j + 1 \in 1..8 /\ k + (j + 1) = k + j + 1
        OBVIOUS
    <2> QED BY ONLY <2>1, <2>2
<1>4. Among(e, 8, S)
    BY DEF Among
<1> HIDE DEF s, e, eight, S
<1>5. PICK h : ReadBits!Runs(h, m, s, eight) /\ ReadBits!Folded(m, s) = h[eight]
    BY ONLY <1>1, ReadBits!FoldSteps, Zenon
<1>6. h[0] = m /\ \A j \in 0..7 : h[j + 1] = OwReadBit(h[j], s[j + 1])
    <2>1. h[0] = m /\ \A i \in 1..eight : h[i] = OwReadBit(h[i - 1], s[i])
        BY ONLY <1>5 DEF ReadBits!Runs
    <2>2. \A j \in 0..7 : j + 1 \in 1..eight /\ (j + 1) - 1 = j
        BY DEF eight
    <2> QED BY ONLY <2>1, <2>2
<1> DEFINE A == {j \in Nat : j <= 8 => Reads(h[j], pad, n, k + j, t, FirstOf(e, j))}
<1>7. 0 \in A
    <2>1. k + 0 = k
        OBVIOUS
    <2> QED BY <1>2, <1>6, <2>1
<1>8. ASSUME NEW j \in Nat, j \in A PROVE j + 1 \in A
    <2> SUFFICES ASSUME j + 1 <= 8 PROVE Reads(h[j + 1], pad, n, k + (j + 1), t, FirstOf(e, j + 1))
        OBVIOUS
    <2> DEFINE l == k + j
               f == FirstOf(e, j)
               v == s[j + 1]
    <2>1. j \in 0..7 /\ Reads(h[j], pad, n, l, t, f) /\ l \in Nat /\ l < n /\ k + (j + 1) = l + 1
        BY <1>8
    <2>2. Append(f, e[j + 1]) = FirstOf(e, j + 1)
        <3> DEFINE w == 8
        <3>1. w \in Nat /\ j < w /\ Among(e, w, S)
            BY <1>4
        <3> HIDE DEF w
        <3> QED BY ONLY <3>1, j \in Nat, OneMore
    <2>3. pad[l + 1] = e[j + 1]
        BY <1>3, <2>1
    <2>4. h[j + 1] = OwReadBit(h[j], v)
        BY <1>6, <2>1
    <2> HIDE DEF f, l, v
    <2>5. Reads(OwReadBit(h[j], v), pad, n, l + 1, t, Append(f, pad[l + 1]))
        BY ONLY <2>1, Long(pad, n), n \in Nat, t \in Nat, mem.late \in Delays, BitGiven
    <2> QED BY ONLY <2>1, <2>2, <2>3, <2>4, <2>5
<1> HIDE DEF A
<1>9. Nat \subseteq A
    BY ONLY <1>7, <1>8, SumFold!NatSet
<1>10. Reads(h[8], pad, n, k + 8, t, FirstOf(e, 8))
    <2>1. 8 \in Nat
        OBVIOUS
    <2>2. 8 \in A
        BY ONLY <1>9, <2>1
    <2>3. 8 <= 8 => Reads(h[8], pad, n, k + 8, t, FirstOf(e, 8))
        BY ONLY <2>2 DEF A
    <2> QED BY <2>3
<1>11. FoldLeft(OwReadBit, m, s) = h[8]
    BY <1>5, ReadsAreFolds DEF eight
<1>12. Reads(FoldLeft(OwReadBit, m, s), pad, n, k + 8, t, e)
    BY ONLY <1>2, <1>10, <1>11
<1> QED BY <1>12 DEF s, e

\* They are the bits of a byte, which the firmware puts down.
LEMMA ByteGiven ==
    ASSUME mem.late \in Delays, NEW pad, NEW n \in Nat, Long(pad, n), NEW k \in Nat, k + 8 <= n,
           NEW m, NEW t \in Nat, NEW in, Reads(m, pad, n, k, t, in), NEW x
    PROVE  Reads(OwReadByte(m, x), pad, n, k + 8, t, Append(in, ValueOfBits(EightAfter(pad, k))))
<1> DEFINE e == EightAfter(pad, k)
           next == k + 8
<1>1. PICK u \in Nat : \E c : u >= t /\ m = On(c, u, in) /\ Given(c, u, pad, n, k)
    BY DEF Reads
<1>2. PICK c : u >= t /\ m = On(c, u, in) /\ Given(c, u, pad, n, k)
    BY <1>1
<1> DEFINE m0 == On(c, u, <<>>)
           read == FoldLeft(OwReadBit, m0, <<0, 1, 2, 3, 4, 5, 6, 7>>)
<1>3. [m EXCEPT !.in = <<>>] = m0
    BY <1>2 DEF On
<1>4. Reads(m0, pad, n, k, t, <<>>)
    BY <1>2 DEF Reads
<1> HIDE DEF m0
<1>5. Reads(read, pad, n, next, t, e)
    BY <1>4, EightGiven
<1> HIDE DEF read, e, next
<1>6. PICK u1 \in Nat : \E c1 : u1 >= t /\ read = On(c1, u1, e) /\ Given(c1, u1, pad, n, next)
    BY <1>5 DEF Reads
<1>7. PICK c1 : u1 >= t /\ read = On(c1, u1, e) /\ Given(c1, u1, pad, n, next)
    BY <1>6
<1>8. OwReadByte(m, x) = [m EXCEPT !.chip = read.chip, !.t = read.t, !.in = Append(@, ValueOfBits(read.in))]
    BY <1>3, Zenon DEF OwReadByte, read
<1> DEFINE value == ValueOfBits(e)
<1>9. read.chip = c1 /\ read.t = u1 /\ read.in = e /\ m.in = in
    BY <1>2, <1>7 DEF On
<1>10. OwReadByte(m, x) = [m EXCEPT !.chip = c1, !.t = u1, !.in = Append(in, value)]
    BY ONLY <1>8, <1>9, Zenon
<1> HIDE DEF value
<1>11. OwReadByte(m, x) = On(c1, u1, Append(in, value))
    BY <1>2, <1>10 DEF On
<1>12. Reads(OwReadByte(m, x), pad, n, next, t, Append(in, value))
    BY ONLY <1>7, <1>11, u1 \in Nat DEF Reads
<1> QED BY <1>12 DEF next, value, e

\* Nine bytes are what is left of the scratchpad.
PadBytes(pad) == [j \in 1..9 |-> ValueOfBits(EightAfter(pad, 8 * (j - 1)))]
\* A read of nine bytes gives them all.
LEMMA NineGiven ==
    ASSUME mem.late \in Delays, NEW pad, NEW n, n = 72, Long(pad, n),
           NEW m, NEW t \in Nat, Reads(m, pad, n, 0, t, <<>>)
    PROVE  Reads(FoldLeft(OwReadByte, m, [i \in 1..9 |-> i]), pad, n, n, t, PadBytes(pad))
<1> DEFINE s == [i \in 1..9 |-> i]
           e == PadBytes(pad)
           nine == 9
           S == {e[q] : q \in 1..9}
<1>0. n \in Nat
    OBVIOUS
<1>1. DOMAIN s = 1..nine /\ nine \in Nat
    OBVIOUS
<1>2. FirstOf(e, 9) = e /\ FirstOf(e, 0) = <<>>
    BY DEF FirstOf, PadBytes
<1>3. \A j \in 0..8 : e[j + 1] = ValueOfBits(EightAfter(pad, 8 * j))
    <2>1. \A q \in 1..9 : e[q] = ValueOfBits(EightAfter(pad, 8 * (q - 1)))
        BY DEF PadBytes
    <2>2. \A j \in 0..8 : j + 1 \in 1..9 /\ (j + 1) - 1 = j
        OBVIOUS
    <2> QED BY ONLY <2>1, <2>2
<1>4. Among(e, 9, S)
    BY DEF Among
<1> HIDE DEF s, e, nine, S
<1>5. PICK h : ReadBytes!Runs(h, m, s, nine) /\ ReadBytes!Folded(m, s) = h[nine]
    BY ONLY <1>1, ReadBytes!FoldSteps, Zenon
<1>6. h[0] = m /\ \A j \in 0..8 : h[j + 1] = OwReadByte(h[j], s[j + 1])
    <2>1. h[0] = m /\ \A i \in 1..nine : h[i] = OwReadByte(h[i - 1], s[i])
        BY ONLY <1>5 DEF ReadBytes!Runs
    <2>2. \A j \in 0..8 : j + 1 \in 1..nine /\ (j + 1) - 1 = j
        BY DEF nine
    <2> QED BY ONLY <2>1, <2>2
<1> DEFINE A == {j \in Nat : j <= 9 => Reads(h[j], pad, n, 8 * j, t, FirstOf(e, j))}
<1>7. 0 \in A
    <2>1. 8 * 0 = 0
        OBVIOUS
    <2> QED BY <1>2, <1>6, <2>1
<1>8. ASSUME NEW j \in Nat, j \in A PROVE j + 1 \in A
    <2> SUFFICES ASSUME j + 1 <= 9 PROVE Reads(h[j + 1], pad, n, 8 * (j + 1), t, FirstOf(e, j + 1))
        OBVIOUS
    <2> DEFINE l == 8 * j
               f == FirstOf(e, j)
               v == s[j + 1]
               b == ValueOfBits(EightAfter(pad, l))
    <2>1. j \in 0..8 /\ Reads(h[j], pad, n, l, t, f) /\ l \in Nat /\ l + 8 <= n /\ 8 * (j + 1) = l + 8
        BY <1>8
    <2>2. Append(f, e[j + 1]) = FirstOf(e, j + 1)
        <3> DEFINE w == 9
        <3>1. w \in Nat /\ j < w /\ Among(e, w, S)
            BY <1>4
        <3> HIDE DEF w
        <3> QED BY ONLY <3>1, j \in Nat, OneMore
    <2>3. b = e[j + 1]
        BY <1>3, <2>1
    <2>4. h[j + 1] = OwReadByte(h[j], v)
        BY <1>6, <2>1
    <2> HIDE DEF f, l, v
    <2>5. Reads(OwReadByte(h[j], v), pad, n, l + 8, t, Append(f, b))
        BY ONLY <1>0, <2>1, Long(pad, n), t \in Nat, mem.late \in Delays, ByteGiven
    <2> HIDE DEF b
    <2> QED BY ONLY <2>1, <2>2, <2>3, <2>4, <2>5
<1> HIDE DEF A
<1>9. Nat \subseteq A
    BY ONLY <1>7, <1>8, SumFold!NatSet
<1>10. Reads(h[9], pad, n, 8 * 9, t, FirstOf(e, 9))
    <2>1. 9 \in Nat
        OBVIOUS
    <2>2. 9 \in A
        BY ONLY <1>9, <2>1
    <2>3. 9 <= 9 => Reads(h[9], pad, n, 8 * 9, t, FirstOf(e, 9))
        BY ONLY <2>2 DEF A
    <2> QED BY <2>3
<1>11. FoldLeft(OwReadByte, m, s) = h[9]
    BY <1>5, ReadsAreFolds DEF nine
<1>13. 8 * 9 = n
    OBVIOUS
<1>12. Reads(FoldLeft(OwReadByte, m, s), pad, n, n, t, e)
    BY ONLY <1>2, <1>10, <1>11, <1>13
<1> QED BY <1>12 DEF s, e

\* Eight bits, as a byte has them, make up a byte of which they are the bits.
EightBits(bits) == /\ DOMAIN bits = 1..8 /\ bits \in Seq(Bit) /\ Len(bits) = 8
                   /\ \A i \in 1..8 : bits[i] \in Bit
\* The bits of the value they make are they again.
LEMMA BitsMakeByte ==
    ASSUME NEW bits, EightBits(bits)
    PROVE  ByteBits(ValueOfBits(bits)) = bits
<1> DEFINE a == bits[1]
           b == bits[2]
           c == bits[3]
           d == bits[4]
           e == bits[5]
           f == bits[6]
           g == bits[7]
           h == bits[8]
           v == ValueOfBits(bits)
           r6 == g + 2 * h
           r5 == f + 2 * r6
           r4 == e + 2 * r5
           r3 == d + 2 * r4
           r2 == c + 2 * r3
           r1 == b + 2 * r2
<1>1. /\ a \in Bit /\ b \in Bit /\ c \in Bit /\ d \in Bit /\ e \in Bit /\ f \in Bit /\ g \in Bit /\ h \in Bit
    BY DEF EightBits
<1>2. v = a + 2 * b + 4 * c + 8 * d + 16 * e + 32 * f + 64 * g + 128 * h
    BY DEF ValueOfBits
<1> HIDE DEF a, b, c, d, e, f, g, h, v
<1>3. /\ r6 \in 0..3 /\ r5 \in 0..7 /\ r4 \in 0..15 /\ r3 \in 0..31 /\ r2 \in 0..63 /\ r1 \in 0..127
    BY <1>1 DEF Bit
<1>4. /\ v = a + 2 * r1 /\ v = (a + 2 * b) + 4 * r2 /\ v = (a + 2 * b + 4 * c) + 8 * r3
      /\ v = (a + 2 * b + 4 * c + 8 * d) + 16 * r4
      /\ v = (a + 2 * b + 4 * c + 8 * d + 16 * e) + 32 * r5
      /\ v = (a + 2 * b + 4 * c + 8 * d + 16 * e + 32 * f) + 64 * r6
      /\ v = (a + 2 * b + 4 * c + 8 * d + 16 * e + 32 * f + 64 * g) + 128 * h
    BY <1>1, <1>2 DEF Bit
<1>5. /\ r1 = b + 2 * r2 /\ r2 = c + 2 * r3 /\ r3 = d + 2 * r4 /\ r4 = e + 2 * r5 /\ r5 = f + 2 * r6 /\ r6 = g + 2 * h
    OBVIOUS
<1> HIDE DEF r1, r2, r3, r4, r5, r6
<1>6. /\ v \div 1 = v /\ v \div 2 = r1 /\ v \div 4 = r2 /\ v \div 8 = r3
    <2>1. v \in Nat
        BY <1>1, <1>3, <1>4 DEF Bit
    <2> QED BY ONLY <1>1, <1>3, <1>4, <2>1 DEF Bit
<1>7. v \div 16 = r4 /\ v \div 32 = r5
    <2>1. v \in Nat
        BY <1>1, <1>3, <1>4 DEF Bit
    <2> QED BY ONLY <1>1, <1>3, <1>4, <2>1 DEF Bit
<1>8. v \div 64 = r6 /\ v \div 128 = h
    <2>1. v \in Nat
        BY <1>1, <1>3, <1>4 DEF Bit
    <2> QED BY ONLY <1>1, <1>3, <1>4, <2>1 DEF Bit
<1>9. /\ v % 2 = a /\ r1 % 2 = b /\ r2 % 2 = c /\ r3 % 2 = d /\ r4 % 2 = e /\ r5 % 2 = f /\ r6 % 2 = g /\ h % 2 = h
    <2>1. \A x \in Bit, y \in 0..127 : (x + 2 * y) % 2 = x
        BY DEF Bit
    <2>2. /\ r2 \in 0..127 /\ r3 \in 0..127 /\ r4 \in 0..127 /\ r5 \in 0..127 /\ r6 \in 0..127 /\ h \in 0..127
        BY <1>1, <1>3 DEF Bit
    <2>3. v % 2 = a
        BY <1>1, <1>3, <1>4, <2>1
    <2>4. h % 2 = h
        BY <1>1 DEF Bit
    <2> QED BY ONLY <1>1, <1>3, <1>5, <2>1, <2>2, <2>3, <2>4
<1> DEFINE w == ByteBits(v)
<1>10. DOMAIN w = 1..8 /\ \A i \in 1..8 : w[i] = (v \div Weight[i]) % 2
    BY DEF ByteBits
<1> HIDE DEF w
<1>11. /\ w[1] = (v \div Weight[1]) % 2 /\ w[2] = (v \div Weight[2]) % 2
       /\ w[3] = (v \div Weight[3]) % 2 /\ w[4] = (v \div Weight[4]) % 2
       /\ w[5] = (v \div Weight[5]) % 2 /\ w[6] = (v \div Weight[6]) % 2
       /\ w[7] = (v \div Weight[7]) % 2 /\ w[8] = (v \div Weight[8]) % 2
    BY ONLY <1>10
<1>12. /\ w[1] = a /\ w[2] = b /\ w[3] = c /\ w[4] = d /\ w[5] = e /\ w[6] = f /\ w[7] = g /\ w[8] = h
    BY ONLY <1>6, <1>7, <1>8, <1>9, <1>11, Weights
<1>13. \A i \in 1..8 : i \in {1, 2, 3, 4, 5, 6, 7, 8}
    OBVIOUS
<1>14. \A i \in 1..8 : w[i] = bits[i]
    BY ONLY <1>12, <1>13 DEF a, b, c, d, e, f, g, h
<1>15. w = [i \in 1..8 |-> w[i]]
    BY DEF w, ByteBits
<1>16. bits = [i \in 1..8 |-> bits[i]]
    <2>1. \A s : s \in Seq(Bit) => s = [i \in DOMAIN s |-> s[i]]
        OBVIOUS
    <2> QED BY ONLY <2>1, EightBits(bits), Zenon DEF EightBits
<1>17. w = bits
    BY ONLY <1>14, <1>15, <1>16
<1> QED BY <1>17 DEF w, v

\* A checksum has eight bits, one for each that goes into it,
CrcFold == INSTANCE Folding WITH Op <- CrcStep
\* the sum being a fold of its steps,
LEMMA CrcIsFold == \A base, s : FoldLeft(CrcStep, base, s) = CrcFold!Folded(base, s)
BY DEF CrcFold!Folded, FoldLeft, MapThenFoldSet, CrcFold!FoldLeft, CrcFold!MapThenFoldSet, Max, CrcFold!Max
\* each of which keeps eight bits,
LEMMA CrcOfEight ==
    ASSUME NEW crc, EightBits(crc), NEW bit \in Bit
    PROVE  EightBits(CrcStep(crc, bit))
<1>1. \A x, y \in Bit : SumBit(x, y) \in Bit
    BY DEF SumBit, Bit
<1> DEFINE mix == SumBit(crc[1], bit)
           c4 == SumBit(crc[4], mix)
           c5 == SumBit(crc[5], mix)
<1>2. /\ crc[1] \in Bit /\ crc[2] \in Bit /\ crc[3] \in Bit /\ crc[4] \in Bit
      /\ crc[5] \in Bit /\ crc[6] \in Bit /\ crc[7] \in Bit /\ crc[8] \in Bit
    BY DEF EightBits
<1>3. mix \in Bit
    BY <1>1, <1>2
<1> HIDE DEF mix
<1>4. c4 \in Bit /\ c5 \in Bit
    BY <1>1, <1>2, <1>3
<1>5. CrcStep(crc, bit) = <<crc[2], crc[3], c4, c5, crc[6], crc[7], crc[8], mix>>
    BY DEF CrcStep, mix
<1> HIDE DEF c4, c5
<1> DEFINE q2 == crc[2]
           q3 == crc[3]
           q6 == crc[6]
           q7 == crc[7]
           q8 == crc[8]
           next == <<q2, q3, c4, c5, q6, q7, q8, mix>>
<1>6. q2 \in Bit /\ q3 \in Bit /\ q6 \in Bit /\ q7 \in Bit /\ q8 \in Bit
    BY <1>2
<1> HIDE DEF q2, q3, q6, q7, q8
<1>7. next \in Seq(Bit) /\ Len(next) = 8
    BY ONLY <1>3, <1>4, <1>6
<1>8. CrcStep(crc, bit) = next
    BY <1>5 DEF q2, q3, q6, q7, q8
<1> HIDE DEF next
<1>9. DOMAIN next = 1..Len(next) /\ \A i \in DOMAIN next : next[i] \in Bit
    <2>1. \A s : s \in Seq(Bit) => DOMAIN s = 1..Len(s) /\ \A i \in DOMAIN s : s[i] \in Bit
        OBVIOUS
    <2> QED BY ONLY <1>7, <2>1, Zenon
<1>10. EightBits(next)
    BY ONLY <1>7, <1>9, Zenon DEF EightBits
<1> QED BY ONLY <1>8, <1>10

\* however many these are.
LEMMA CrcIsByte ==
    ASSUME NEW s, NEW n \in Nat, DOMAIN s = 1..n, Among(s, n, Bit)
    PROVE  EightBits(Crc8(s))
<1> DEFINE zero == ByteBits(0)
<1>1. EightBits(zero)
    <2>1. 0 \in Byte
        BY DEF Byte
    <2> QED BY ONLY <2>1, BitsOfByte DEF EightBits
<1>0. Crc8(s) = FoldLeft(CrcStep, zero, s)
    BY DEF Crc8
<1> HIDE DEF zero
<1>2. PICK h : CrcFold!Runs(h, zero, s, n) /\ CrcFold!Folded(zero, s) = h[n]
    BY ONLY n \in Nat, DOMAIN s = 1..n, CrcFold!FoldSteps, Zenon
<1>3. h[0] = zero /\ \A i \in 1..n : h[i] = CrcStep(h[i - 1], s[i])
    BY ONLY <1>2 DEF CrcFold!Runs
<1> DEFINE A == {k \in Nat : k <= n => EightBits(h[k])}
<1>4. 0 \in A
    BY <1>1, <1>3
<1>5. ASSUME NEW k \in Nat, k \in A PROVE k + 1 \in A
    <2> SUFFICES ASSUME k + 1 <= n PROVE EightBits(h[k + 1])
        OBVIOUS
    <2>1. k + 1 \in 1..n /\ (k + 1) - 1 = k /\ EightBits(h[k])
        BY <1>5
    <2>2. s[k + 1] \in Bit
        BY ONLY <2>1, Among(s, n, Bit) DEF Among
    <2>3. h[k + 1] = CrcStep(h[k], s[k + 1])
        BY ONLY <1>3, <2>1
    <2> QED BY ONLY <2>1, <2>2, <2>3, CrcOfEight
<1> HIDE DEF A
<1>6. Nat \subseteq A
    BY ONLY <1>4, <1>5, SumFold!NatSet
<1>7. n <= n => EightBits(h[n])
    BY <1>6 DEF A
<1> QED BY <1>0, <1>2, <1>7, CrcIsFold

\* The eight bytes of a scratchpad before its sum:
PadHeld(temperature) ==
    LET raw == (16 * temperature) % 65536 IN <<raw % 256, raw \div 256, 75, 70, 127, 255, 12, 16>>
\* bytes they are, for every temperature.
LEMMA PadIsBytes ==
    ASSUME NEW temperature \in Int
    PROVE  LET bytes == PadHeld(temperature)
           IN bytes \in Seq(Byte) /\ DOMAIN bytes = 1..8 /\ \A i \in 1..8 : bytes[i] \in Byte
<1> DEFINE raw == (16 * temperature) % 65536
           a == raw % 256
           b == raw \div 256
           bytes == <<a, b, 75, 70, 127, 255, 12, 16>>
<1>1. a \in Byte /\ b \in Byte /\ 75 \in Byte /\ 70 \in Byte /\ 127 \in Byte /\ 255 \in Byte /\ 12 \in Byte /\ 16 \in Byte
    <2> DEFINE x == 16 * temperature
    <2>1. x \in Int /\ raw = x % 65536
        OBVIOUS
    <2> HIDE DEF x, raw
    <2>2. \A y \in Int : (y % 65536) \in Nat /\ (y % 65536) < 65536
        OBVIOUS
    <2>3. raw \in Nat /\ raw < 65536
        BY ONLY <2>1, <2>2
    <2>4. (raw % 256) \in Nat /\ (raw % 256) < 256 /\ (raw \div 256) \in Nat /\ (raw \div 256) < 256
        BY ONLY <2>3
    <2>5. a \in Byte /\ b \in Byte
        BY ONLY <2>4 DEF Byte, a, b
    <2> QED BY <2>5 DEF Byte
<1> HIDE DEF a, b
<1>2. bytes \in Seq(Byte) /\ Len(bytes) = 8
    <2> HIDE DEF Byte
    <2> QED BY <1>1
<1>3. PadHeld(temperature) = bytes
    BY DEF PadHeld, a, b
<1> HIDE DEF bytes
<1>4. DOMAIN bytes = 1..Len(bytes) /\ \A i \in DOMAIN bytes : bytes[i] \in Byte
    <2>1. \A s : s \in Seq(Byte) => DOMAIN s = 1..Len(s) /\ \A i \in DOMAIN s : s[i] \in Byte
        OBVIOUS
    <2> QED BY ONLY <1>2, <2>1, Zenon
<1>5. DOMAIN bytes = 1..8
    BY ONLY <1>2, <1>4, Zenon
<1> QED BY ONLY <1>2, <1>3, <1>4, <1>5, Zenon

\* Their bits in order;
BitsHeld(bytes) == FlattenSeq([i \in 1..8 |-> ByteBits(bytes[i])])
\* each eight bits of the list are those of a byte.
LEMMA BitsAreLaid ==
    ASSUME NEW bytes, \A i \in 1..8 : bytes[i] \in Byte
    PROVE  /\ BitsHeld(bytes) \in Seq(Bit) /\ Len(BitsHeld(bytes)) = 64
           /\ \A i \in 1..8, m \in 1..8 : BitsHeld(bytes)[8 * (i - 1) + m] = ByteBits(bytes[i])[m]
<1> DEFINE seqs == [i \in 1..8 |-> ByteBits(bytes[i])]
           o == [i \in 0..8 |-> 8 * i]
           n == 8
           w == 8
<1>1. \A i \in 1..8 : ByteBits(bytes[i]) \in Seq(Bit) /\ Len(ByteBits(bytes[i])) = 8
    BY BitsOfByte
<1>2. /\ n \in Nat \ {0} /\ w \in Nat /\ DOMAIN seqs = 1..n
      /\ \A i \in 1..n : seqs[i] \in Seq(Bit) /\ Len(seqs[i]) = w
    BY <1>1
<1>3. o[0] = 0 /\ \A i \in 1..8 : o[i] = o[i - 1] + 8 /\ o[i - 1] = 8 * (i - 1)
    OBVIOUS
<1>4. o[8] = 64
    OBVIOUS
<1>5. \A i \in 1..8, m \in 1..8 : seqs[i][m] = ByteBits(bytes[i])[m]
    OBVIOUS
<1>6. BitsHeld(bytes) = FlattenSeq(seqs)
    BY DEF BitsHeld
<1> HIDE DEF seqs, o
<1>7. Blocks(seqs, Bit, n, w, o)
    BY ONLY <1>2, <1>3 DEF Blocks
<1> HIDE DEF n, w
<1>8. Laid(FlattenSeq(seqs), seqs, Bit, n, w, o)
    BY ONLY <1>7, FlattenBlocks
<1>9. /\ FlattenSeq(seqs) \in Seq(Bit) /\ Len(FlattenSeq(seqs)) = o[8]
      /\ \A i \in 1..8, m \in 1..8 : FlattenSeq(seqs)[o[i - 1] + m] = seqs[i][m]
    BY ONLY <1>8 DEF Laid, n, w
<1>10. \A i \in 1..8, m \in 1..8 : FlattenSeq(seqs)[8 * (i - 1) + m] = ByteBits(bytes[i])[m]
    <2> TAKE i \in 1..8, m \in 1..8
    <2>1. o[i - 1] = 8 * (i - 1)
        BY ONLY <1>3, i \in 1..8
    <2>2. FlattenSeq(seqs)[o[i - 1] + m] = seqs[i][m] /\ seqs[i][m] = ByteBits(bytes[i])[m]
        BY ONLY <1>5, <1>9, i \in 1..8, m \in 1..8
    <2> QED BY ONLY <2>1, <2>2
<1> QED BY ONLY <1>4, <1>6, <1>9, <1>10

\* so the nine bytes of it are the eight and the sum (Crc8 and BuildScratchpad in DS18B20.cs).
LEMMA PadIsLaid ==
    ASSUME NEW temperature \in Int
    PROVE  LET pad == BuildScratchpad(temperature)
               bytes == PadHeld(temperature)
           IN /\ Long(pad, 72)
              /\ \A i \in 1..8 : PadBytes(pad)[i] = bytes[i]
              /\ ByteBits(PadBytes(pad)[9]) = Crc8(BitsHeld(bytes))
<1> DEFINE pad == BuildScratchpad(temperature)
           bytes == PadHeld(temperature)
           bits == BitsHeld(bytes)
           crc == Crc8(bits)
<1>1. DOMAIN bytes = 1..8 /\ \A i \in 1..8 : bytes[i] \in Byte
    BY PadIsBytes
<1>2. pad = bits \o crc
    <2>1. DOMAIN bytes = 1..8
        BY <1>1
    <2>2. pad = FlattenSeq([i \in DOMAIN bytes |-> ByteBits(bytes[i])])
                \o Crc8(FlattenSeq([i \in DOMAIN bytes |-> ByteBits(bytes[i])]))
        BY DEF BuildScratchpad, PadHeld
    <2> HIDE DEF bytes, pad
    <2> QED BY ONLY <2>1, <2>2 DEF BitsHeld
<1> HIDE DEF pad, bytes
<1>3. /\ bits \in Seq(Bit) /\ Len(bits) = 64
      /\ \A i \in 1..8, m \in 1..8 : bits[8 * (i - 1) + m] = ByteBits(bytes[i])[m]
    <2>1. \A i \in 1..8 : bytes[i] \in Byte
        BY ONLY <1>1
    <2> HIDE DEF bits
    <2>2. /\ BitsHeld(bytes) \in Seq(Bit) /\ Len(BitsHeld(bytes)) = 64
          /\ \A i \in 1..8, m \in 1..8 : BitsHeld(bytes)[8 * (i - 1) + m] = ByteBits(bytes[i])[m]
        BY ONLY <2>1, BitsAreLaid
    <2> QED BY ONLY <2>2 DEF bits
<1> HIDE DEF bits
<1>4. EightBits(crc)
    <2> DEFINE n == 64
    <2>1. n \in Nat /\ n = 64
        OBVIOUS
    <2> HIDE DEF n
    <2>2. \A s : s \in Seq(Bit) => DOMAIN s = 1..Len(s) /\ \A i \in 1..Len(s) : s[i] \in Bit
        OBVIOUS
    <2>3. Len(bits) = n
        BY <1>3, <2>1
    <2>4. DOMAIN bits = 1..Len(bits) /\ \A i \in 1..Len(bits) : bits[i] \in Bit
        BY ONLY <1>3, <2>2, Zenon
    <2>5. DOMAIN bits = 1..n /\ Among(bits, n, Bit)
        BY ONLY <2>3, <2>4, Zenon DEF Among
    <2> QED BY ONLY <2>1, <2>5, CrcIsByte
<1> HIDE DEF crc
<1>5. crc \in Seq(Bit) /\ Len(crc) = 8
    BY ONLY <1>4 DEF EightBits
<1>6. /\ pad \in Seq(Bit) /\ Len(pad) = Len(bits) + Len(crc)
      /\ \A i \in 1..Len(bits) : pad[i] = bits[i]
      /\ \A i \in 1..Len(crc) : pad[Len(bits) + i] = crc[i]
    <2>1. bits \in Seq(Bit) /\ crc \in Seq(Bit)
        BY ONLY <1>3, <1>5
    <2>2. /\ bits \o crc \in Seq(Bit) /\ Len(bits \o crc) = Len(bits) + Len(crc)
          /\ \A i \in 1..Len(bits) : (bits \o crc)[i] = bits[i]
          /\ \A i \in 1..Len(crc) : (bits \o crc)[Len(bits) + i] = crc[i]
        BY ONLY <2>1, JoinAny
    <2> QED BY ONLY <1>2, <2>2
<1>7. /\ Len(pad) = 72 /\ (\A i \in 1..64 : pad[i] = bits[i]) /\ \A i \in 1..8 : pad[64 + i] = crc[i]
    <2> DEFINE lb == Len(bits)
               lc == Len(crc)
               lp == Len(pad)
    <2>1. lb = 64 /\ lc = 8 /\ lp = lb + lc
        BY ONLY <1>3, <1>5, <1>6
    <2>2. (\A i \in 1..lb : pad[i] = bits[i]) /\ \A i \in 1..lc : pad[lb + i] = crc[i]
        BY ONLY <1>6
    <2> HIDE DEF lb, lc, lp
    <2>3. lp = 72 /\ (\A i \in 1..64 : pad[i] = bits[i]) /\ \A i \in 1..8 : pad[64 + i] = crc[i]
        BY ONLY <2>1, <2>2
    <2> QED BY ONLY <2>3 DEF lp
<1>8. ASSUME NEW i \in 1..8 PROVE PadBytes(pad)[i] = bytes[i]
    <2> DEFINE k == 8 * (i - 1)
    <2>1. PadBytes(pad)[i] = ValueOfBits(EightAfter(pad, k))
        <3>1. i \in 1..9
            OBVIOUS
        <3> QED BY ONLY <3>1, Zenon DEF PadBytes
    <2>2. \A q \in 1..8 : pad[k + q] = ByteBits(bytes[i])[q]
        <3>1. \A q \in 1..8 : k + q \in 1..64
            OBVIOUS
        <3> TAKE q \in 1..8
        <3>2. bits[8 * (i - 1) + q] = ByteBits(bytes[i])[q]
            BY ONLY <1>3, i \in 1..8, q \in 1..8, Zenon
        <3>3. bits[k + q] = ByteBits(bytes[i])[q]
            BY ONLY <3>2 DEF k
        <3>4. k + q \in 1..64
            BY ONLY <3>1, q \in 1..8
        <3> HIDE DEF k
        <3> QED BY ONLY <1>7, <3>3, <3>4
    <2> HIDE DEF k
    <2>3. EightAfter(pad, k) = ByteBits(bytes[i])
        BY ONLY <2>2 DEF EightAfter, ByteBits
    <2>4. bytes[i] \in Byte
        BY <1>1
    <2> QED BY ONLY <2>1, <2>3, <2>4, ValueIsByte
<1>9. ByteBits(PadBytes(pad)[9]) = crc
    <2>1. PadBytes(pad)[9] = ValueOfBits(EightAfter(pad, 64))
        <3>1. 9 \in 1..9 /\ 8 * (9 - 1) = 64
            OBVIOUS
        <3>2. PadBytes(pad)[9] = ValueOfBits(EightAfter(pad, 8 * (9 - 1)))
            BY ONLY <3>1 DEF PadBytes
        <3> QED BY ONLY <3>1, <3>2
    <2>2. EightAfter(pad, 64) = [q \in 1..8 |-> crc[q]]
        BY ONLY <1>7 DEF EightAfter
    <2>3. crc = [q \in 1..8 |-> crc[q]]
        <3>1. \A s : s \in Seq(Bit) => s = [i \in DOMAIN s |-> s[i]]
            OBVIOUS
        <3> QED BY ONLY <3>1, <1>4, Zenon DEF EightBits
    <2>4. PadBytes(pad)[9] = ValueOfBits(crc)
        BY ONLY <2>1, <2>2, <2>3
    <2> QED BY ONLY <1>4, <2>4, BitsMakeByte
<1>10. Long(pad, 72)
    BY ONLY <1>7 DEF Long
<1> QED BY ONLY <1>8, <1>9, <1>10 DEF pad, bytes, bits, crc

\* The firmware finds the sum right, and gets the temperature in sixteenths.
LEMMA PadReadsWell ==
    ASSUME NEW temperature \in Int, 16 * temperature \in SignedWord
    PROVE  LET got == PadBytes(BuildScratchpad(temperature))
           IN /\ Crc8(FlattenSeq([i \in 1..8 |-> ByteBits(got[i])])) = ByteBits(got[9])
              /\ Word(got[2], got[1]) = 16 * temperature
<1> DEFINE got == PadBytes(BuildScratchpad(temperature))
           bytes == PadHeld(temperature)
           raw == (16 * temperature) % 65536
<1>1. (\A i \in 1..8 : got[i] = bytes[i]) /\ ByteBits(got[9]) = Crc8(BitsHeld(bytes))
    BY PadIsLaid
<1>2. bytes[1] = raw % 256 /\ bytes[2] = raw \div 256
    BY DEF PadHeld
<1>3. Word(raw \div 256, raw % 256) = 16 * temperature
    BY WordsAreCounts
<1> HIDE DEF got, bytes, raw
<1>4. got[1] = bytes[1] /\ got[2] = bytes[2]
    BY ONLY <1>1
<1>5. FlattenSeq([i \in 1..8 |-> ByteBits(got[i])]) = BitsHeld(bytes)
    <2>1. [i \in 1..8 |-> ByteBits(got[i])] = [i \in 1..8 |-> ByteBits(bytes[i])]
        BY ONLY <1>1
    <2> QED BY ONLY <2>1 DEF BitsHeld
<1>6. Word(got[2], got[1]) = 16 * temperature
    BY ONLY <1>2, <1>3, <1>4
<1> QED BY ONLY <1>1, <1>5, <1>6 DEF got

\* Waiting leaves a listening chip as it is, and a chip that listens waits.
LEMMA ListensOn ==
    ASSUME mem.late \in Delays, NEW m, NEW t \in Nat, NEW command, NEW in, Listens(m, command, t, in)
    PROVE  /\ \A us \in Nat : Listens(OwWait(m, us), command, t, in)
           /\ \E u \in Nat : \E c : u >= t /\ m = On(c, u, in) /\ Waiting(c, u)
<1> DEFINE w == mem.late.wait
<1>1. w \in Nat
    BY DelaysAreSmall
<1>2. PICK low \in Nat, u \in Nat : \E sent, pad, line :
          u >= t /\ low <= u /\ m = On(OwChip(1, low, command, Quiet, sent, pad, line), u, in)
    BY DEF Listens
<1>3. PICK sent, pad, line :
          u >= t /\ low <= u /\ m = On(OwChip(1, low, command, Quiet, sent, pad, line), u, in)
    BY <1>2
<1> DEFINE c == OwChip(1, low, command, Quiet, sent, pad, line)
<1>4. Waiting(c, u)
    BY <1>3, 1 \in {0, 1}, Zenon DEF Waiting
<1>5. ASSUME NEW us \in Nat PROVE Listens(OwWait(m, us), command, t, in)
    <2> DEFINE v == u + us + w
    <2>1. OwWait(m, us) = On(c, v, in)
        <3> HIDE DEF c
        <3> QED BY <1>3, WireWaited DEF v, w, c
    <2>2. v \in Nat /\ v >= t /\ low <= v
        BY <1>1, <1>3
    <2> HIDE DEF v, w
    <2> QED BY ONLY <2>1, <2>2, low \in Nat, v \in Nat, Zenon DEF Listens, c
<1>6. u >= t /\ m = On(c, u, in)
    BY <1>3
<1> HIDE DEF c
<1> QED BY ONLY <1>4, <1>5, <1>6, u \in Nat, Zenon

\* A command other than to read is nothing to the chip (its converted value is
\* that of the time), and the command to read makes it send.
LEMMA CommandWritten ==
    ASSUME mem.late \in Delays, NEW byte \in Byte, NEW m, NEW t \in Nat, NEW in, Listens(m, <<>>, t, in)
    PROVE  /\ byte # ReadScratchpad => Listens(OwCommand(m, byte), <<>>, t, in)
           /\ byte = ReadScratchpad =>
                 \E us \in Nat : us >= t /\ Gives(OwCommand(m, byte), BuildScratchpad(ValueOf(Degrees, us)), 0, us, in)
<1> DEFINE skip == 204
           m1 == OwWriteByte(m, skip)
<1>1. skip \in Byte /\ skip # ReadScratchpad
    BY DEF Byte, ReadScratchpad
<1>2. OwCommand(m, byte) = OwWriteByte(m1, byte)
    BY DEF OwCommand
<1> HIDE DEF skip
<1>3. Listens(m1, <<>>, t, in)
    BY ONLY <1>1, Listens(m, <<>>, t, in), t \in Nat, mem.late \in Delays, ByteWritten
<1> HIDE DEF m1
<1>4. /\ byte # ReadScratchpad => Listens(OwWriteByte(m1, byte), <<>>, t, in)
      /\ byte = ReadScratchpad =>
           \E us \in Nat : us >= t /\ Gives(OwWriteByte(m1, byte), BuildScratchpad(ValueOf(Degrees, us)), 0, us, in)
    BY ONLY <1>3, byte \in Byte, t \in Nat, mem.late \in Delays, ByteWritten
<1> QED BY ONLY <1>2, <1>4

\* The whole exchange gives the temperature of a time within it, in sixteenths
\* of a degree, and leaves the chip waiting.
Exchanged(r, t) ==
    \E us \in Nat : /\ us >= t /\ us <= r.end.t /\ r.end.t \in Nat
                    /\ r.value = <<16 * ValueOf(Degrees, us)>> /\ Waiting(r.end.chip, r.end.t)
\* Convert, wait, read the scratchpad (ds18b20_read_c_x16): the value is that of the
\* conversion.
THEOREM HeatReads ==
    ASSUME mem.late \in Delays, NEW c, NEW t \in Nat, Waiting(c, t),
           \A us \in Nat : ValueOf(Degrees, us) \in Int /\ 16 * ValueOf(Degrees, us) \in SignedWord
    PROVE  Exchanged(ReadCx16([chip |-> c, t |-> t, in |-> <<>>]), t)
<1> DEFINE start == On(c, t, <<>>)
           first == OwReset(start)
           in1 == Append(<<>>, 0)
           convert == 68
           sent == OwCommand(first, convert)
           waited == OwWait(sent, 100000)
           second == OwReset(waited)
           in2 == Append(in1, 0)
           asked == OwCommand(second, ReadScratchpad)
<1>1. Last(in1) = 0 /\ Last(in2) = 0
    BY DEF Last
<1> HIDE DEF in1
<1>2. Listens(first, <<>>, t, in1)
    BY ResetAnswers DEF in1
<1> HIDE DEF start, first, in2
<1>3. Listens(sent, <<>>, t, in1)
    <2>1. convert \in Byte /\ convert # ReadScratchpad
        BY DEF Byte, ReadScratchpad
    <2> HIDE DEF convert
    <2> QED BY ONLY <1>2, <2>1, t \in Nat, mem.late \in Delays, CommandWritten
<1> HIDE DEF sent
<1>4. Listens(waited, <<>>, t, in1)
    <2> DEFINE long == 100000
    <2>1. long \in Nat
        OBVIOUS
    <2> HIDE DEF long
    <2>2. Listens(OwWait(sent, long), <<>>, t, in1)
        BY ONLY <1>3, <2>1, t \in Nat, mem.late \in Delays, ListensOn
    <2> QED BY <2>2 DEF long
<1> HIDE DEF waited
<1>5. PICK v \in Nat : \E d : v >= t /\ waited = On(d, v, in1) /\ Waiting(d, v)
    BY ONLY <1>4, t \in Nat, mem.late \in Delays, ListensOn
<1>6. PICK d : v >= t /\ waited = On(d, v, in1) /\ Waiting(d, v)
    BY <1>5
<1>7. Listens(second, <<>>, v, in2)
    <2>1. Listens(OwReset(On(d, v, in1)), <<>>, v, Append(in1, 0))
        BY ONLY <1>6, v \in Nat, mem.late \in Delays, ResetAnswers
    <2> QED BY <1>6, <2>1 DEF in2
<1> HIDE DEF second
<1>8. PICK us \in Nat : us >= v /\ Gives(asked, BuildScratchpad(ValueOf(Degrees, us)), 0, us, in2)
    <2>1. ReadScratchpad \in Byte
        BY DEF Byte, ReadScratchpad
    <2> QED BY ONLY <1>7, <2>1, v \in Nat, mem.late \in Delays, CommandWritten
<1> DEFINE celsius == ValueOf(Degrees, us)
           pad == BuildScratchpad(celsius)
           n == 72
<1>9. celsius \in Int /\ 16 * celsius \in SignedWord
    OBVIOUS
<1> HIDE DEF celsius
<1>10. Gives(asked, pad, 0, us, in2)
    BY <1>8 DEF celsius
<1>11. Long(pad, n) /\ n = 72 /\ n \in Nat /\ 0 < n
    BY <1>9, PadIsLaid
<1> HIDE DEF asked, pad, n
<1> DEFINE base == [asked EXCEPT !.in = <<>>]
<1>12. Reads(base, pad, n, 0, us, <<>>)
    <2>1. PICK low \in Nat, u \in Nat : \E line :
              u >= us /\ low <= u /\ asked = On(OwChip(1, low, <<>>, Sends, 0, pad, line), u, in2)
        BY ONLY <1>10 DEF Gives
    <2>2. PICK line : u >= us /\ low <= u /\ asked = On(OwChip(1, low, <<>>, Sends, 0, pad, line), u, in2)
        BY <2>1
    <2> DEFINE g == OwChip(1, low, <<>>, Sends, 0, pad, line)
    <2>3. Giving(g, u, pad, 0)
        BY ONLY <2>2, low \in Nat, Zenon DEF Giving
    <2>4. Given(g, u, pad, n, 0)
        BY ONLY <1>11, <2>3 DEF Given
    <2>5. u >= us /\ asked = On(g, u, in2)
        BY <2>2
    <2> HIDE DEF g
    <2>6. base = On(g, u, <<>>)
        BY ONLY <2>5 DEF On
    <2> HIDE DEF base
    <2> QED BY ONLY <2>4, <2>5, <2>6, u \in Nat DEF Reads
<1> HIDE DEF base
<1> DEFINE read == FoldLeft(OwReadByte, base, [i \in 1..9 |-> i])
           got == PadBytes(pad)
<1>13. Reads(read, pad, n, n, us, got)
    BY ONLY <1>11, <1>12, us \in Nat, mem.late \in Delays, NineGiven
<1>14. PICK u \in Nat : \E e : u >= us /\ read = On(e, u, got) /\ Given(e, u, pad, n, n)
    <2> HIDE DEF read, got
    <2> QED BY ONLY <1>13 DEF Reads
<1>15. PICK e : u >= us /\ read = On(e, u, got) /\ Given(e, u, pad, n, n)
    BY <1>14
<1>16. Waiting(e, u)
    <2>1. ~(n < n)
        BY <1>11
    <2> QED BY ONLY <1>15, <2>1 DEF Given
<1>17. /\ Crc8(FlattenSeq([i \in 1..8 |-> ByteBits(got[i])])) = ByteBits(got[9])
       /\ Word(got[2], got[1]) = 16 * celsius
    BY <1>9, PadReadsWell DEF pad
<1> HIDE DEF got
<1>18. first.in = in1 /\ second.in = in2 /\ read.in = got /\ read.chip = e /\ read.t = u
    <2>1. \A m, x, z : Listens(m, <<>>, x, z) => m.in = z
        BY DEF Listens, On
    <2> HIDE DEF read
    <2>2. read.in = got /\ read.chip = e /\ read.t = u
        BY <1>15 DEF On
    <2> QED BY ONLY <1>2, <1>7, <2>1, <2>2
<1>19. OwPresent(first) /\ OwPresent(second)
    BY ONLY <1>1, <1>18 DEF OwPresent
<1> DEFINE r == ReadCx16(start)
           sum == Crc8(FlattenSeq([i \in 1..8 |-> ByteBits(read.in[i])]))
<1>20. r = [end |-> read, value |-> IF sum # ByteBits(read.in[9]) THEN <<>> ELSE <<Word(read.in[2], read.in[1])>>]
    <2> DEFINE whole == [end |-> read, value |-> IF sum # ByteBits(read.in[9]) THEN <<>> ELSE <<Word(read.in[2], read.in[1])>>]
               one == [end |-> first, value |-> <<>>]
               two == [end |-> second, value |-> <<>>]
    <2>1. r = CASE ~OwPresent(first) -> one
                [] OwPresent(first) /\ ~OwPresent(second) -> two
                [] OTHER -> whole
        BY ONLY SMT DEF ReadCx16, first, sent, waited, second, asked, base, convert
    <2> HIDE DEF r, whole, one, two
    <2>2. r = whole
        BY ONLY <1>19, <2>1, Zenon
    <2> QED BY ONLY <2>2 DEF whole
<1> HIDE DEF r, read, sum
<1>21. sum = ByteBits(read.in[9]) /\ <<Word(read.in[2], read.in[1])>> = <<16 * celsius>>
    BY ONLY <1>17, <1>18 DEF sum
<1>22. r.end = read /\ r.value = <<16 * celsius>>
    BY ONLY <1>20, <1>21
<1>23. us >= t /\ us <= u
    BY <1>6, <1>8, <1>15
<1>24. r.end.t = u /\ r.end.chip = e
    BY ONLY <1>18, <1>22
<1>25. Exchanged(r, t)
    BY ONLY <1>16, <1>22, <1>23, <1>24, us \in Nat, u \in Nat DEF Exchanged, celsius
<1> QED BY <1>25 DEF r, start, On
=============================================================================
