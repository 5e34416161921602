-------------------------------- MODULE Traces --------------------------------
(* From the changes of the probed pins to what the validators measure: the    *)
(* log of the Renode hook (bench/renode.py), the reader of VCD files and the  *)
(* arithmetic on segments (bench/vcd.py).  An event is [at, v], at in         *)
(* milliseconds; ratios and duty cycles are in thousandths.                   *)
EXTENDS Integers, Sequences, SequencesExt, FiniteSets

(* The hook: of the changes at one instant the last wins, then runs of one    *)
(* value keep their first event.                                              *)
Coalesce(log) ==
    LET add(acc, e) == IF acc # <<>> /\ Last(acc).at = e.at THEN Append(Front(acc), e)
                       ELSE Append(acc, e)
    IN FoldLeft(add, <<>>, log)
Dedupe(log) ==
    LET add(acc, e) == IF acc # <<>> /\ Last(acc).v = e.v THEN acc ELSE Append(acc, e)
    IN FoldLeft(add, <<>>, log)
HookTrace(log) == Dedupe(Coalesce(log))

(* Mutant: changes at one instant are all kept. *)
Normalize_KeepsAll(trace, e) == IF trace # <<>> /\ Last(trace).v = e.v THEN trace ELSE Append(trace, e)
(* The reader: a later event at one instant replaces the earlier, and both    *)
(* go when that restores the value before them.                               *)
TimestampsDecrease(events) == \E i \in 2..Len(events) : events[i].at < events[i - 1].at
Normalize(trace, e) ==
    IF trace = <<>> THEN <<e>>
    ELSE IF Last(trace).at = e.at
    THEN IF Len(trace) > 1 /\ trace[Len(trace) - 1].v = e.v THEN Front(trace)
         ELSE Append(Front(trace), e)
    ELSE IF Last(trace).v = e.v THEN trace ELSE Append(trace, e)
NormalizeEvents(events) == FoldLeft(Normalize, <<>>, events)

BuildSegments(events) ==
    [i \in 1..(Len(events) - 1) |->
        [from |-> events[i].at, to |-> events[i + 1].at, v |-> events[i].v]]
LOCAL Least(a, b) == IF a < b THEN a ELSE b
LOCAL Greatest(a, b) == IF a > b THEN a ELSE b
Duration(segment) == segment.to - segment.from
IntegrateValue(segments, from, to, value) ==
    LET part(s) == IF s.v = value /\ s.to > from /\ s.from < to
                   THEN Least(s.to, to) - Greatest(s.from, from) ELSE 0
        add(acc, s) == acc + part(s)
    IN FoldLeft(add, 0, segments)
ValueRatio(segments, from, to) ==
    IF to <= from THEN 0 ELSE (1000 * IntegrateValue(segments, from, to, 1)) \div (to - from)
InRange(value, bounds) == bounds[1] <= value /\ value <= bounds[2]
Average(values) ==
    LET add(a, b) == a + b IN IF values = <<>> THEN 0 ELSE FoldLeft(add, 0, values) \div Len(values)
=============================================================================
