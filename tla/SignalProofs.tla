------------------------------ MODULE SignalProofs ------------------------------
(* What the arithmetic of signals keeps, for traces of any length and changes *)
(* in any order of levels (bench/vcd.py), and for any quantity between a chip *)
(* and its reading: the bits of a word, the nearest count, and the width of   *)
(* an echo in ticks of the clock.  And of the stimulus, for every scenario of *)
(* every family: it ends when the configuration check says, and the script of *)
(* Renode tells what Wokwi replays.  And of the display: for every message of *)
(* the drivers (bench/runner.py) the decoder (bench/lcd1602.py) latches each  *)
(* pulse once, puts the bytes together again, also after a stray pulse, and   *)
(* shows the text that was sent where it was sent.                            *)
EXTENDS ChipSketches, FiniteSetTheorems, TLAPS

-----------------------------------------------------------------------------
(* Traces *)

Event(V) == [at : Int, v : V]

\* Times increase and levels alternate: what the arithmetic on segments and the
\* counting of edges rest on.
History(trace) ==
  \A i \in 2..Len(trace) :
    trace[i - 1].at < trace[i].at /\ trace[i - 1].v # trace[i].v

LEMMA FrontAndLast ==
  ASSUME NEW V, NEW trace \in Seq(Event(V)), trace # <<>>
  PROVE  /\ Last(trace) = trace[Len(trace)] /\ Last(trace) \in Event(V)
         /\ Front(trace) \in Seq(Event(V)) /\ Len(Front(trace)) = Len(trace) - 1
         /\ \A i \in 1..(Len(trace) - 1) : Front(trace)[i] = trace[i]
         /\ Len(trace) \in Nat \ {0}
<1>1. Len(trace) \in Nat \ {0} /\ Last(trace) = trace[Len(trace)]
  BY DEF Last
<1>2. trace[Len(trace)] \in Event(V)
  BY <1>1
<1>3. Front(trace) = [i \in 1..(Len(trace) - 1) |-> trace[i]]
  BY <1>1 DEF Front
<1>4. Front(trace) \in Seq(Event(V)) /\ Len(Front(trace)) = Len(trace) - 1
  <2>1. \A i \in 1..(Len(trace) - 1) : trace[i] \in Event(V)
    BY <1>1
  <2> QED BY <1>1, <1>3, <2>1
<1> QED BY <1>1, <1>2, <1>3, <1>4

\* A later event at one instant replaces the earlier, and both go when that
\* restores the level before them; so a trace stays a history, and it still ends
\* with the level that was written last, however often a pin changes at once.
THEOREM NormalizeKeepsHistory ==
  ASSUME NEW V, NEW trace \in Seq(Event(V)), trace # <<>>, History(trace),
         NEW e \in Event(V), Last(trace).at <= e.at
  PROVE  /\ Normalize(trace, e) \in Seq(Event(V)) /\ Normalize(trace, e) # <<>>
         /\ History(Normalize(trace, e))
         /\ Last(Normalize(trace, e)).v = e.v
         /\ Last(Normalize(trace, e)).at <= e.at
<1> DEFINE n == Len(trace)
           new == Normalize(trace, e)
<1>1. /\ n \in Nat \ {0} /\ Last(trace) = trace[n]
      /\ Front(trace) \in Seq(Event(V)) /\ Len(Front(trace)) = n - 1
      /\ \A i \in 1..(n - 1) : Front(trace)[i] = trace[i]
  BY FrontAndLast
<1>2. \A i \in 1..n : trace[i] \in Event(V)
  OBVIOUS
<1>3. CASE Last(trace).at = e.at /\ n > 1 /\ trace[n - 1].v = e.v
  <2>1. new = Front(trace)
    BY <1>3 DEF Normalize
  <2>2. new # <<>> /\ Last(new) = trace[n - 1]
    BY <1>1, <1>3, <2>1 DEF Last
  <2>3. trace[n - 1].at < trace[n].at
    BY <1>1, <1>3 DEF History
  <2>4. History(new)
    BY <1>1, <2>1 DEF History
  <2> QED BY <1>1, <1>2, <1>3, <2>1, <2>2, <2>3, <2>4 DEF Event
<1>4. CASE Last(trace).at = e.at /\ ~(n > 1 /\ trace[n - 1].v = e.v)
  <2>1. new = Append(Front(trace), e)
    BY <1>4 DEF Normalize
  <2>2. /\ Len(new) = n /\ new[n] = e /\ new \in Seq(Event(V))
        /\ \A i \in 1..(n - 1) : new[i] = trace[i]
    BY <1>1, <2>1
  <2> HIDE DEF new
  <2>3. new # <<>> /\ Last(new) = e
    BY <1>1, <2>2 DEF Last
  <2>4. ASSUME NEW i \in 2..n
        PROVE  new[i - 1].at < new[i].at /\ new[i - 1].v # new[i].v
    <3>1. CASE i < n
      <4>1. new[i - 1] = trace[i - 1] /\ new[i] = trace[i]
        BY <1>1, <2>2, <3>1
      <4> QED BY <1>1, <3>1, <4>1 DEF History
    <3>2. CASE i = n
      <4>1. n > 1 /\ new[n - 1] = trace[n - 1] /\ new[n] = e
        BY <1>1, <2>2, <3>2
      <4>2. trace[n - 1].at < trace[n].at
        BY <1>1, <4>1 DEF History
      <4>3. new[n - 1].at < new[n].at /\ new[n - 1].v # new[n].v
        BY <1>1, <1>4, <4>1, <4>2
      <4> HIDE DEF n
      <4> QED BY <3>2, <4>3
    <3> QED BY <1>1, <3>1, <3>2
  <2>5. Last(new).v = e.v /\ Last(new).at <= e.at
    BY <2>3 DEF Event
  <2> QED BY <2>2, <2>3, <2>4, <2>5 DEF History, new
<1>5. CASE Last(trace).at # e.at /\ Last(trace).v = e.v
  BY <1>5 DEF Normalize
<1>6. CASE Last(trace).at # e.at /\ Last(trace).v # e.v
  <2>1. new = Append(trace, e)
    BY <1>6 DEF Normalize
  <2>2. /\ Len(new) = n + 1 /\ new[n + 1] = e /\ new \in Seq(Event(V))
        /\ \A i \in 1..n : new[i] = trace[i]
    BY <1>1, <2>1
  <2> HIDE DEF new
  <2>3. new # <<>> /\ Last(new) = e
    BY <1>1, <2>2 DEF Last
  <2>4. ASSUME NEW i \in 2..(n + 1)
        PROVE  new[i - 1].at < new[i].at /\ new[i - 1].v # new[i].v
    <3>1. CASE i <= n
      <4>1. new[i - 1] = trace[i - 1] /\ new[i] = trace[i]
        BY <1>1, <2>2, <3>1
      <4> QED BY <1>1, <3>1, <4>1 DEF History
    <3>2. CASE i = n + 1
      BY <1>1, <1>2, <1>6, <2>2, <3>2 DEF Event
    <3> QED BY <1>1, <3>1, <3>2
  <2>5. Last(new).v = e.v /\ Last(new).at <= e.at
    BY <2>3 DEF Event
  <2> QED BY <2>2, <2>3, <2>4, <2>5 DEF History, new
<1> QED BY <1>3, <1>4, <1>5, <1>6

NormalizeFold == INSTANCE Folding WITH Op <- Normalize
CoalesceStep(acc, e) == IF acc # <<>> /\ Last(acc).at = e.at THEN Append(Front(acc), e) ELSE Append(acc, e)
DedupeStep(acc, e) == IF acc # <<>> /\ Last(acc).v = e.v THEN acc ELSE Append(acc, e)
CoalesceFold == INSTANCE Folding WITH Op <- CoalesceStep
DedupeFold == INSTANCE Folding WITH Op <- DedupeStep

\* The three readers are folds of their steps.
LEMMA ReadersAreFolds ==
  \A log : /\ NormalizeEvents(log) = NormalizeFold!Folded(<<>>, log)
           /\ Coalesce(log) = CoalesceFold!Folded(<<>>, log)
           /\ Dedupe(log) = DedupeFold!Folded(<<>>, log)
<1>1. \A log : NormalizeEvents(log) = NormalizeFold!Folded(<<>>, log)
  BY DEF NormalizeEvents, NormalizeFold!Folded, FoldLeft, MapThenFoldSet,
         NormalizeFold!FoldLeft, NormalizeFold!MapThenFoldSet, Max, NormalizeFold!Max
<1>2. \A log : Coalesce(log) = CoalesceFold!Folded(<<>>, log)
  BY DEF Coalesce, CoalesceStep, CoalesceFold!Folded, FoldLeft, MapThenFoldSet,
         CoalesceFold!FoldLeft, CoalesceFold!MapThenFoldSet, Max, CoalesceFold!Max
<1>3. \A log : Dedupe(log) = DedupeFold!Folded(<<>>, log)
  BY DEF Dedupe, DedupeStep, DedupeFold!Folded, FoldLeft, MapThenFoldSet,
         DedupeFold!FoldLeft, DedupeFold!MapThenFoldSet, Max, DedupeFold!Max
<1> QED BY <1>1, <1>2, <1>3

\* A log of a pin: changes in the order of their times, several at once included.
Log(V, log, n) ==
  /\ n \in Nat \ {0} /\ log \in Seq(Event(V)) /\ Len(log) = n
  /\ \A i \in 2..n : log[i - 1].at <= log[i].at

\* The elements of a log have times.
LEMMA EventsOfLog ==
  /\ \A V : \A e \in Event(V) : e.at \in Int
  /\ \A V, log, n : Log(V, log, n) =>
       /\ n \in Nat \ {0} /\ DOMAIN log = 1..n
       /\ \A i \in 1..n : log[i] \in Event(V) /\ log[i].at \in Int
<1>1. \A V : \A e \in Event(V) : e.at \in Int
  BY DEF Event
<1>2. ASSUME NEW V, NEW log, NEW n, Log(V, log, n)
      PROVE  n \in Nat \ {0} /\ DOMAIN log = 1..n /\ \A i \in 1..n : log[i] \in Event(V)
  <2>1. n \in Nat \ {0} /\ log \in Seq(Event(V)) /\ Len(log) = n
    BY <1>2 DEF Log
  <2> QED BY <2>1
<1> QED BY <1>1, <1>2, Zenon

\* A trace that tells the level after the change e.
Tells(V, e) ==
  {t \in Seq(Event(V)) : t # <<>> /\ History(t) /\ Last(t).v = e.v /\ Last(t).at <= e.at}

\* The reader of a log of any length makes a history of it, which ends with the
\* last level of the log.
THEOREM ReaderKeepsHistory ==
  ASSUME NEW V, NEW log, NEW n, Log(V, log, n)
  PROVE  NormalizeEvents(log) \in Tells(V, log[n])
<1> DEFINE J == [i \in 0..n |-> IF i = 0 THEN {<<>>} ELSE Tells(V, log[i])]
<1>1. n \in Nat \ {0} /\ DOMAIN log = 1..n /\ \A i \in 1..n : log[i] \in Event(V) /\ log[i].at \in Int
  BY EventsOfLog
<1>2. n \in Nat /\ DOMAIN log = 1..n /\ <<>> \in J[0]
  BY <1>1
<1>3. \A i \in 1..n : \A a \in J[i - 1] : Normalize(a, log[i]) \in J[i]
  <2> TAKE i \in 1..n
  <2> DEFINE e == log[i]
  <2>1. e \in Event(V) /\ e.at \in Int
    BY <1>1
  <2>2. CASE i = 1
    <3>1. J[i - 1] = {<<>>} /\ J[i] = Tells(V, e)
      BY <1>1, <2>2
    <3>2. Normalize(<<>>, e) = <<e>>
      BY DEF Normalize
    <3> HIDE DEF J, e
    <3>3. <<e>> \in Tells(V, e)
      BY <2>1 DEF Tells, History, Last
    <3> QED BY <3>1, <3>2, <3>3 DEF e
  <2>3. CASE i # 1
    <3>1. i \in 2..n /\ J[i - 1] = Tells(V, log[i - 1]) /\ J[i] = Tells(V, e)
      BY <1>1, <2>3
    <3>2. log[i - 1].at <= e.at /\ log[i - 1].at \in Int
      <4>1. i - 1 \in 1..n
        BY <1>1, <3>1
      <4> QED BY <1>1, <3>1, <4>1 DEF Log
    <3> HIDE DEF J, e
    <3>3. ASSUME NEW a \in Tells(V, log[i - 1]) PROVE Normalize(a, e) \in Tells(V, e)
      <4>1. a \in Seq(Event(V)) /\ a # <<>> /\ History(a) /\ Last(a).at <= log[i - 1].at
        BY DEF Tells
      <4>2. Last(a).at \in Int
        BY <4>1, FrontAndLast DEF Event
      <4>3. Last(a).at <= e.at
        BY <2>1, <3>2, <4>1, <4>2
      <4> QED BY <2>1, <4>1, <4>3, NormalizeKeepsHistory DEF Tells
    <3> QED BY <3>1, <3>3 DEF e
  <2> QED BY <2>2, <2>3
<1> HIDE DEF J
<1>4. NormalizeFold!Folded(<<>>, log) \in J[n]
  BY ONLY <1>2, <1>3, NormalizeFold!FoldKeeps
<1>5. J[n] = Tells(V, log[n])
  BY <1>1 DEF J
<1> QED BY <1>4, <1>5, ReadersAreFolds

\* Of the changes at one instant the hook keeps the last.
LEMMA CoalesceKeepsLast ==
  ASSUME NEW V, NEW log, NEW n, Log(V, log, n)
  PROVE  LET c == Coalesce(log) IN
         /\ c \in Seq(Event(V)) /\ c # <<>> /\ Last(c) = log[n]
         /\ \A i \in 2..Len(c) : c[i - 1].at < c[i].at
<1> DEFINE Kept(e) == {t \in Seq(Event(V)) : /\ t # <<>> /\ Last(t) = e
                                            /\ \A i \in 2..Len(t) : t[i - 1].at < t[i].at}
           J == [i \in 0..n |-> IF i = 0 THEN {<<>>} ELSE Kept(log[i])]
<1>1. n \in Nat \ {0} /\ DOMAIN log = 1..n /\ \A i \in 1..n : log[i] \in Event(V) /\ log[i].at \in Int
  BY EventsOfLog
<1>2. n \in Nat /\ DOMAIN log = 1..n /\ <<>> \in J[0]
  BY <1>1
<1>3. \A i \in 1..n : \A a \in J[i - 1] : CoalesceStep(a, log[i]) \in J[i]
  <2> TAKE i \in 1..n
  <2> DEFINE e == log[i]
  <2>1. e \in Event(V) /\ e.at \in Int
    BY <1>1
  <2>2. CASE i = 1
    <3>1. J[i - 1] = {<<>>} /\ J[i] = Kept(e)
      BY <1>1, <2>2
    <3>2. CoalesceStep(<<>>, e) = <<e>>
      BY DEF CoalesceStep
    <3> HIDE DEF J, e
    <3>3. <<e>> \in Kept(e)
      BY <2>1 DEF Last
    <3> QED BY <3>1, <3>2, <3>3 DEF e
  <2>3. CASE i # 1
    <3> DEFINE d == log[i - 1]
    <3>1. i \in 2..n /\ J[i - 1] = Kept(d) /\ J[i] = Kept(e)
      BY <1>1, <2>3
    <3>2. d.at <= e.at /\ d.at \in Int
      <4>1. i - 1 \in 1..n
        BY <1>1, <3>1
      <4> QED BY <1>1, <3>1, <4>1 DEF Log
    <3> HIDE DEF J, e, d
    <3>3. ASSUME NEW a \in Kept(d) PROVE CoalesceStep(a, e) \in Kept(e)
      <4> DEFINE m == Len(a)
                 new == CoalesceStep(a, e)
      <4>1. /\ a \in Seq(Event(V)) /\ a # <<>> /\ Last(a) = d
            /\ \A j \in 2..m : a[j - 1].at < a[j].at
        OBVIOUS
      <4>2. /\ m \in Nat \ {0} /\ Last(a) = a[m] /\ Front(a) \in Seq(Event(V)) /\ Len(Front(a)) = m - 1
            /\ \A j \in 1..(m - 1) : Front(a)[j] = a[j]
        BY <4>1, FrontAndLast
      <4>3. \A j \in 1..m : a[j].at \in Int
        BY <4>1, EventsOfLog
      <4> HIDE DEF Kept
      <4>4. CASE Last(a).at = e.at
        <5>1. new = Append(Front(a), e)
          BY <4>1, <4>4 DEF CoalesceStep
        <5> HIDE DEF new
        <5>2. /\ new \in Seq(Event(V)) /\ Len(new) = m /\ new[m] = e
              /\ \A j \in 1..(m - 1) : new[j] = a[j]
          BY <2>1, <4>2, <5>1
        <5>3. new # <<>> /\ Last(new) = e
          BY <4>2, <5>2 DEF Last
        <5>4. ASSUME NEW j \in 2..m PROVE new[j - 1].at < new[j].at
          <6>1. j - 1 \in 1..(m - 1) /\ new[j - 1] = a[j - 1] /\ a[j - 1].at < a[j].at
            BY <4>1, <4>2, <5>2
          <6>2. CASE j = m
            BY <4>2, <4>4, <5>2, <6>1, <6>2
          <6>3. CASE j # m
            <7>1. j \in 1..(m - 1)
              BY <4>2, <6>3
            <7> QED BY <5>2, <6>1, <7>1
          <6> QED BY <6>2, <6>3
        <5> QED BY <5>2, <5>3, <5>4 DEF Kept, new
      <4>5. CASE Last(a).at # e.at
        <5>1. new = Append(a, e)
          BY <4>1, <4>5 DEF CoalesceStep
        <5> HIDE DEF new
        <5>2. /\ new \in Seq(Event(V)) /\ Len(new) = m + 1 /\ new[m + 1] = e
              /\ \A j \in 1..m : new[j] = a[j]
          BY <2>1, <4>1, <5>1
        <5>3. new # <<>> /\ Last(new) = e
          BY <4>2, <5>2 DEF Last
        <5>4. ASSUME NEW j \in 2..(m + 1) PROVE new[j - 1].at < new[j].at
          <6>1. j - 1 \in 1..m /\ new[j - 1] = a[j - 1]
            BY <4>2, <5>2
          <6>2. CASE j = m + 1
            <7>1. j - 1 = m /\ new[j - 1] = a[m] /\ new[j] = e
              BY <4>2, <5>2, <6>1, <6>2
            <7>2. a[m].at <= e.at /\ a[m].at # e.at
              BY <3>2, <4>1, <4>2, <4>5
            <7>3. a[m].at \in Int
              BY <4>2, <4>3
            <7> QED BY <2>1, <7>1, <7>2, <7>3
          <6>3. CASE j # m + 1
            <7>1. j \in 2..m /\ j \in 1..m
              BY <4>2, <6>3
            <7> QED BY <4>1, <5>2, <6>1, <7>1
          <6> QED BY <6>2, <6>3
        <5> QED BY <5>2, <5>3, <5>4 DEF Kept, new
      <4> QED BY <4>4, <4>5
    <3> QED BY <3>1, <3>3 DEF e
  <2> QED BY <2>2, <2>3
<1>5. J[n] = Kept(log[n])
  BY <1>1
<1> HIDE DEF J
<1>4. CoalesceFold!Folded(<<>>, log) \in J[n]
  BY ONLY <1>2, <1>3, CoalesceFold!FoldKeeps
<1> QED BY <1>4, <1>5, ReadersAreFolds

\* What the hook writes (Coalesce, then runs of one value) is a history too, and
\* tells the same last level.
THEOREM HookKeepsHistory ==
  ASSUME NEW V, NEW log, NEW n, Log(V, log, n)
  PROVE  HookTrace(log) \in Tells(V, log[n])
<1> DEFINE c == Coalesce(log)
           m == Len(c)
           J == [i \in 0..m |-> IF i = 0 THEN {<<>>} ELSE Tells(V, c[i])]
<1>1. /\ c \in Seq(Event(V)) /\ c # <<>> /\ Last(c) = log[n]
      /\ \A i \in 2..m : c[i - 1].at < c[i].at
  BY CoalesceKeepsLast
<1> HIDE DEF c
<1>2. m \in Nat \ {0} /\ DOMAIN c = 1..m /\ c[m] = log[n] /\ \A i \in 1..m : c[i] \in Event(V) /\ c[i].at \in Int
  <2>1. m \in Nat \ {0} /\ DOMAIN c = 1..m /\ c[m] = log[n] /\ \A i \in 1..m : c[i] \in Event(V)
    BY <1>1 DEF Last
  <2> QED BY <2>1, EventsOfLog
<1>3. m \in Nat /\ DOMAIN c = 1..m /\ <<>> \in J[0]
  BY <1>2
<1>4. \A i \in 1..m : \A a \in J[i - 1] : DedupeStep(a, c[i]) \in J[i]
  <2> TAKE i \in 1..m
  <2> DEFINE e == c[i]
  <2>1. e \in Event(V) /\ e.at \in Int
    BY <1>2
  <2>2. CASE i = 1
    <3>1. J[i - 1] = {<<>>} /\ J[i] = Tells(V, e)
      BY <1>2, <2>2
    <3>2. DedupeStep(<<>>, e) = <<e>>
      BY DEF DedupeStep
    <3> HIDE DEF J, e
    <3>3. <<e>> \in Tells(V, e)
      BY <2>1 DEF Tells, History, Last
    <3> QED BY <3>1, <3>2, <3>3 DEF e
  <2>3. CASE i # 1
    <3> DEFINE d == c[i - 1]
    <3>1. i \in 2..m /\ i - 1 \in 1..m /\ J[i - 1] = Tells(V, d) /\ J[i] = Tells(V, e)
      BY <1>2, <2>3
    <3>2. d.at < e.at /\ d.at \in Int
      BY <1>1, <1>2, <3>1
    <3> HIDE DEF J, e, d, m
    <3>3. ASSUME NEW a \in Tells(V, d) PROVE DedupeStep(a, e) \in Tells(V, e)
      <4> DEFINE k == Len(a)
      <4>1. a \in Seq(Event(V)) /\ a # <<>> /\ History(a) /\ Last(a).v = d.v /\ Last(a).at <= d.at
        BY DEF Tells
      <4>2. k \in Nat \ {0} /\ Last(a) = a[k] /\ Last(a).at \in Int
        BY <4>1, FrontAndLast DEF Event
      <4>3. Last(a).at < e.at
        BY <2>1, <3>2, <4>1, <4>2
      <4>4. CASE Last(a).v = e.v
        BY <2>1, <4>1, <4>2, <4>3, <4>4 DEF DedupeStep, Tells
      <4>5. CASE Last(a).v # e.v
        <5> DEFINE new == Append(a, e)
        <5>1. DedupeStep(a, e) = new
          BY <4>5 DEF DedupeStep
        <5>2. /\ new \in Seq(Event(V)) /\ Len(new) = k + 1 /\ new[k + 1] = e
              /\ \A j \in 1..k : new[j] = a[j]
          BY <2>1, <4>1
        <5> HIDE DEF new
        <5>3. new # <<>> /\ Last(new) = e
          BY <4>2, <5>2 DEF Last
        <5>4. ASSUME NEW j \in 2..(k + 1) PROVE new[j - 1].at < new[j].at /\ new[j - 1].v # new[j].v
          <6>1. j - 1 \in 1..k /\ new[j - 1] = a[j - 1]
            BY <4>2, <5>2
          <6>2. CASE j = k + 1
            <7>1. new[j - 1] = a[k] /\ new[j] = e
              BY <4>2, <5>2, <6>1, <6>2
            <7> QED BY <4>2, <4>3, <4>5, <7>1
          <6>3. CASE j # k + 1
            <7>1. j \in 2..k /\ j \in 1..k
              BY <4>2, <6>3
            <7> QED BY <4>1, <5>2, <6>1, <7>1 DEF History
          <6> QED BY <6>2, <6>3
        <5>5. History(new)
          BY <5>2, <5>4 DEF History
        <5> QED BY <2>1, <5>1, <5>2, <5>3, <5>5 DEF Tells
      <4> QED BY <4>4, <4>5
    <3> QED BY <3>1, <3>3 DEF e
  <2> QED BY <2>2, <2>3
<1>6. J[m] = Tells(V, log[n])
  BY <1>2
<1> HIDE DEF J, m
<1>5. DedupeFold!Folded(<<>>, c) \in J[m]
  BY ONLY <1>3, <1>4, DedupeFold!FoldKeeps
<1> QED BY <1>5, <1>6, ReadersAreFolds DEF HookTrace, c

\* So the trace of a pin is a history that ends with its level, read from the file
\* of Wokwi or from that of the hook.
THEOREM TracesOfLogs ==
  ASSUME NEW V, NEW log, NEW n, Log(V, log, n)
  PROVE  /\ NormalizeEvents(log) \in Tells(V, log[n])
         /\ NormalizeEvents(HookTrace(log)) \in Tells(V, log[n])
<1> DEFINE t == HookTrace(log)
           m == Len(t)
<1>1. t \in Seq(Event(V)) /\ t # <<>> /\ History(t) /\ Last(t).v = log[n].v /\ Last(t).at <= log[n].at
  BY HookKeepsHistory DEF Tells
<1> HIDE DEF t
<1>2. m \in Nat \ {0} /\ t[m] = Last(t) /\ \A i \in 1..m : t[i].at \in Int
  <2>1. m \in Nat \ {0} /\ t[m] = Last(t) /\ \A i \in 1..m : t[i] \in Event(V)
    BY <1>1 DEF Last
  <2> QED BY <2>1, EventsOfLog
<1>3. ASSUME NEW i \in 2..m PROVE t[i - 1].at <= t[i].at
  <2>1. t[i - 1].at < t[i].at /\ i \in 1..m /\ i - 1 \in 1..m
    BY <1>1, <1>2 DEF History
  <2> QED BY <1>2, <2>1
<1>4. Log(V, t, m)
  BY <1>1, <1>2, <1>3 DEF Log
<1>5. NormalizeEvents(t) \in Tells(V, t[m])
  BY <1>4, ReaderKeepsHistory
<1>6. n \in Nat \ {0} /\ log[n].at \in Int /\ t[m].at \in Int
  <2>1. n \in 1..n /\ m \in 1..m
    BY <1>2, EventsOfLog
  <2> QED BY <1>2, <2>1, EventsOfLog
<1>7. NormalizeEvents(t) \in Tells(V, log[n])
  <2> DEFINE u == NormalizeEvents(t)
  <2>1. u \in Seq(Event(V)) /\ u # <<>> /\ History(u) /\ Last(u).v = t[m].v /\ Last(u).at <= t[m].at
    BY <1>5 DEF Tells
  <2>2. Last(u).at \in Int
    BY <2>1, FrontAndLast DEF Event
  <2> HIDE DEF u
  <2>3. Last(u).at <= log[n].at
    BY <1>1, <1>2, <1>6, <2>1, <2>2
  <2>4. u \in Tells(V, log[n])
    BY <1>1, <1>2, <2>1, <2>3 DEF Tells
  <2> QED BY <2>4 DEF u
<1> QED BY <1>7, ReaderKeepsHistory DEF t

-----------------------------------------------------------------------------
(* Chips *)

Byte == 0..255
SignedWord == {n \in Int : -32768 <= n /\ n <= 32767}

\* A register pair holds a count modulo 2^16; the firmware gets it back as a
\* signed number, with the high byte first (MPU6050.cs High and Low, the shifts
\* in mpu6050_read and in ds18b20_read_c_x16).
THEOREM WordsAreCounts ==
    ASSUME NEW n \in SignedWord
    PROVE  Word((n % 65536) \div 256, (n % 65536) % 256) = n
<1>0. n \in Int /\ -32768 <= n /\ n <= 32767
    BY DEF SignedWord
<1>1. CASE n >= 0
    <2>1. n % 65536 = n
        BY <1>0, <1>1
    <2>2. (256 * (n \div 256)) + (n % 256) = n
        BY <1>0
    <2>3. Word(n \div 256, n % 256) = n
        BY <1>0, <1>1, <2>2 DEF Word
    <2> QED BY <2>1, <2>3
<1>2. CASE n < 0
    <2> DEFINE w == n + 65536
    <2>1. n % 65536 = w
        BY <1>0, <1>2
    <2>2. w \in Int /\ w >= 32768 /\ w - 65536 = n
        BY <1>0
    <2> HIDE DEF w
    <2>3. (256 * (w \div 256)) + (w % 256) = w
        BY <2>2
    <2>4. Word(w \div 256, w % 256) = w - 65536
        BY <2>2, <2>3 DEF Word
    <2> QED BY <2>1, <2>2, <2>4
<1> QED BY <1>0, <1>1, <1>2

\* Rounding moves a value by half a unit at most (Math.Round in MPU6050.cs).
THEOREM RoundsToNearest ==
    ASSUME NEW n \in Int, NEW d \in Nat, d > 0
    PROVE  /\ HalfEven(n, d) \in Int
           /\ 2 * (d * HalfEven(n, d) - n) <= d
           /\ 2 * (n - d * HalfEven(n, d)) <= d
<1> DEFINE q == n \div d
           r == n % d
<1>1. q \in Int /\ r \in 0..(d - 1) /\ n = d * q + r
    OBVIOUS
<1>2. CASE HalfEven(n, d) = q + 1 /\ 2 * r >= d
    <2>1. d * (q + 1) = d * q + d
        BY <1>1
    <2> QED BY <1>1, <1>2, <2>1
<1>3. CASE HalfEven(n, d) = q /\ 2 * r <= d
    BY <1>1, <1>3
<1> QED BY <1>1, <1>2, <1>3 DEF HalfEven

\* The clock counts a tick per 15625/512 us: a span of so many microseconds is
\* measured a tick short or over at most.
LEMMA TicksOfSpan ==
    ASSUME NEW a \in Nat, NEW b \in Nat
    PROVE  /\ MicrosBetween(a, b) \in Int
           /\ MicrosBetween(a, b) <= b - a + 31
           /\ MicrosBetween(a, b) >= b - a - 31
<1> DEFINE x == Cycle(a)
           y == Cycle(b)
           m == ((y - x) * 15625) \div 512
<1>1. x \in Int /\ 15625 * x <= 512 * a /\ 512 * a < 15625 * x + 15625
    BY DEF Cycle
<1>2. y \in Int /\ 15625 * y <= 512 * b /\ 512 * b < 15625 * y + 15625
    BY DEF Cycle
<1>3. m \in Int /\ 512 * m <= (y - x) * 15625 /\ (y - x) * 15625 < 512 * m + 512
    BY <1>1, <1>2
<1> HIDE DEF x, y, m
<1>4. m <= b - a + 31 /\ m >= b - a - 31
    BY <1>1, <1>2, <1>3
<1> QED BY <1>3, <1>4 DEF MicrosBetween, m, x, y

\* The echo of an object is 58 us long per centimetre, starts at any phase of
\* the clock and is seen up to a tick late at either end: the distance that
\* hcsr04_measure returns is at most one centimetre over and two short.
THEOREM SonarErrorIsSmall ==
    ASSUME NEW start \in Nat, NEW cm \in Nat, cm >= 2,
           NEW rise \in 0..31, NEW fall \in 0..31
    PROVE  MicrosBetween(start + rise, start + 58 * cm + fall) \div 58 \in (cm - 2)..(cm + 1)
<1> DEFINE us == MicrosBetween(start + rise, start + 58 * cm + fall)
<1>1. us \in Int /\ us <= (58 * cm) + 62 /\ us >= (58 * cm) - 62
    <2>1. start + rise \in Nat /\ start + 58 * cm + fall \in Nat
        OBVIOUS
    <2>2. /\ us \in Int
          /\ us <= (start + 58 * cm + fall) - (start + rise) + 31
          /\ us >= (start + 58 * cm + fall) - (start + rise) - 31
        BY <2>1, TicksOfSpan
    <2> HIDE DEF us
    <2> QED BY <2>2
<1> HIDE DEF us
<1>2. us \div 58 \in (cm - 2)..(cm + 1)
    BY <1>1
<1> QED BY <1>2 DEF us

\* The registers and counts of the MPU6050 are indexed by a byte (MPU6050.cs).
LEMMA BytesAreNumbers == Byte \subseteq Nat /\ 27 \in Byte /\ 28 \in Byte
BY DEF Byte

\* Saturate leaves a signed word (Saturate in MPU6050.cs).
LEMMA CountsAreWords ==
    ASSUME NEW c, c.registers \in [Byte -> Byte], NEW value \in Int
    PROVE  \A raw \in {AccelRaw(c, value), GyroRaw(c, value), TempRaw(value)} :
               raw \in SignedWord
<1>1. \A register \in Byte : FullScale(c, register) \in {1, 2, 4, 8}
    <2>1. \A n \in Nat : (n \div 8) % 4 \in 0..3
        OBVIOUS
    <2>2. \A m \in 0..3 : <<1, 2, 4, 8>>[m + 1] \in {1, 2, 4, 8}
        OBVIOUS
    <2>3. \A register \in Byte : c.registers[register] \in Nat
        BY BytesAreNumbers
    <2> QED BY <2>1, <2>2, <2>3 DEF FullScale
<1>2. \A k \in {1, 2, 4, 8} : /\ k \in Nat /\ k > 0
                              /\ 1000 * k \in Nat /\ 1000 * k > 0
    OBVIOUS
<1>3. \A n \in Int : Saturate(n) \in SignedWord
    <2>1. \A n \in Int : Saturate(n) \in Int /\ -32768 <= Saturate(n) /\ Saturate(n) <= 32767
        BY DEF Saturate
    <2>2. \A m \in Int : -32768 <= m /\ m <= 32767 => m \in SignedWord
        BY DEF SignedWord
    <2> QED BY <2>1, <2>2
<1>4. AccelRaw(c, value) \in SignedWord
    <2>1. 1000 * FullScale(c, 28) \in Nat /\ 1000 * FullScale(c, 28) > 0
        BY <1>1, <1>2, BytesAreNumbers
    <2>2. value * 16384 \in Int
        OBVIOUS
    <2>3. HalfEven(value * 16384, 1000 * FullScale(c, 28)) \in Int
        BY <2>1, <2>2, RoundsToNearest
    <2> QED BY <1>3, <2>3 DEF AccelRaw
<1>5. GyroRaw(c, value) \in SignedWord
    <2>1. FullScale(c, 27) \in Nat /\ FullScale(c, 27) > 0
        BY <1>1, <1>2, BytesAreNumbers
    <2>2. value * 131 \in Int
        OBVIOUS
    <2>3. HalfEven(value * 131, FullScale(c, 27)) \in Int
        BY <2>1, <2>2, RoundsToNearest
    <2> QED BY <1>3, <2>3 DEF GyroRaw
<1>6. TempRaw(value) \in SignedWord
    <2>1. HalfEven((100 * value - 3653) * 34, 10) \in Int
        BY RoundsToNearest
    <2> QED BY <1>3, <2>1 DEF TempRaw
<1> QED BY <1>4, <1>5, <1>6

\* A burst of 14 bytes from register 59 on gives all seven counts, whatever the
\* quantities and the full scales are: no byte is taken from the word beside it
\* (Read and ReadRegister in MPU6050.cs, the shifts in mpu6050_read).
THEOREM BurstReadsAllWords ==
    ASSUME NEW c, c.registers \in [Byte -> Byte], c.pointer = 59,
           NEW quantity \in [DOMAIN PowerOn.mpu6050 -> Int], NEW i \in 1..7
    PROVE  LET bytes == MpuRead(c, 14, quantity).bytes IN
           Word(bytes[2 * i - 1], bytes[2 * i]) = Words(c, quantity)[i]
<1> DEFINE bytes == MpuRead(c, 14, quantity).bytes
           raw == Words(c, quantity)[i]
<1>1. bytes = [k \in 1..14 |-> ReadRegister(c, (c.pointer + k - 1) % 256, quantity)]
    BY DEF MpuRead
<1>2. bytes[2 * i - 1] = ReadRegister(c, 57 + 2 * i, quantity)
    <2>1. 2 * i - 1 \in 1..14 /\ (59 + (2 * i - 1) - 1) % 256 = 57 + 2 * i
        OBVIOUS
    <2> QED BY <1>1, <2>1
<1>3. bytes[2 * i] = ReadRegister(c, 58 + 2 * i, quantity)
    <2>1. 2 * i \in 1..14 /\ (59 + (2 * i) - 1) % 256 = 58 + 2 * i
        OBVIOUS
    <2> QED BY <1>1, <2>1
<1>4. ReadRegister(c, 57 + 2 * i, quantity) = (raw % 65536) \div 256
    <2>1. /\ 57 + 2 * i \in 59..72 /\ (57 + 2 * i) % 2 = 1
          /\ ((57 + 2 * i) - 59) \div 2 + 1 = i
        OBVIOUS
    <2> QED BY <2>1 DEF ReadRegister
<1>5. ReadRegister(c, 58 + 2 * i, quantity) = (raw % 65536) % 256
    <2>1. /\ 58 + 2 * i \in 59..72 /\ (58 + 2 * i) % 2 # 1
          /\ ((58 + 2 * i) - 59) \div 2 + 1 = i
        OBVIOUS
    <2> QED BY <2>1 DEF ReadRegister
<1>6. raw \in SignedWord
    <2>1. \A q \in DOMAIN PowerOn.mpu6050 : quantity[q] \in Int
        OBVIOUS
    <2>2. DOMAIN PowerOn.mpu6050 = {"accelX", "accelY", "accelZ", "rotationX", "rotationY", "rotationZ", "temperature"}
        BY DEF PowerOn
    <2>3. \E value \in Int : raw \in {AccelRaw(c, value), GyroRaw(c, value), TempRaw(value)}
        BY <2>1, <2>2 DEF Words
    <2> QED BY <2>3, CountsAreWords
<1> HIDE DEF raw, bytes
<1>7. Word((raw % 65536) \div 256, (raw % 65536) % 256) = raw
    BY <1>6, WordsAreCounts
<1> QED BY <1>2, <1>3, <1>4, <1>5, <1>7 DEF bytes, raw

-----------------------------------------------------------------------------
(* Stimuli *)

IsDelay(x) == x = Delay(x.ms) /\ x.ms \in Nat
IsControl(x) == x = SetControl(x.part, x.control, x.value)

\* The steps of the three folds of WokwiDrives, StepsToResc and RenodeDrives, each a
\* definition of its own.
WokwiStep(acc, s) ==
    IF s.kind = "delay" THEN [acc EXCEPT !.at = @ + s.ms]
    ELSE [acc EXCEPT !.drives = Append(@, DriveOf(acc.at, s))]
RescStep(acc, s) ==
    IF s.kind = "delay" THEN [acc EXCEPT !.pending = @ + s.ms]
    ELSE [Flushed(acc) EXCEPT !.commands = Append(@, s)]
MonitorStep(acc, c) ==
    IF c.kind = "run" THEN [acc EXCEPT !.at = @ + c.ms]
    ELSE [acc EXCEPT !.drives = Append(@, Overlay([at |-> acc.at], c))]
WokwiFold == INSTANCE Folding WITH Op <- WokwiStep
RescFold == INSTANCE Folding WITH Op <- RescStep
MonitorFold == INSTANCE Folding WITH Op <- MonitorStep

Start == [at |-> 0, drives |-> <<>>]
RescStart == [commands |-> <<>>, pending |-> 0, elapsed |-> 0]
Monitor(script) == MonitorFold!Folded(Start, script)

\* The replay of Wokwi, the script of Renode and the clock of its monitor are folds
\* of these steps.
LEMMA WokwiIsFold == \A steps : WokwiDrives(steps) = WokwiFold!Folded(Start, steps).drives
BY DEF WokwiDrives, Start, WokwiStep, WokwiFold!Folded, FoldLeft, MapThenFoldSet,
       WokwiFold!FoldLeft, WokwiFold!MapThenFoldSet, Max, WokwiFold!Max

\* The script before it is flushed for the last time.
LEMMA RescIsFold == \A steps : StepsToResc(steps) = Flushed(RescFold!Folded(RescStart, steps))
BY DEF StepsToResc, RescStart, RescStep, RescFold!Folded, FoldLeft, MapThenFoldSet,
       RescFold!FoldLeft, RescFold!MapThenFoldSet, Max, RescFold!Max

\* What the monitor does with a script.
LEMMA MonitorIsFold == \A script : RenodeDrives(script) = Monitor(script).drives
BY DEF RenodeDrives, Start, Monitor, MonitorStep, MonitorFold!Folded, FoldLeft, MapThenFoldSet,
       MonitorFold!FoldLeft, MonitorFold!MapThenFoldSet, Max, MonitorFold!Max

Seen(d) == [f \in {"at", "part", "control", "value"} |-> d[f]]
Controls(T) == {x \in T : IsControl(x)}
Commands(T) == [kind : {"run"}, ms : Nat] \cup Controls(T)
DrivesOf(T) == {DriveOf(t, x) : t \in Nat, x \in Controls(T)}
TaggedOf(T) == {Overlay([at |-> t], x) : t \in Nat, x \in Controls(T)}

\* A control that the monitor sets is, but for its kind, the drive of the replay.
LEMMA TagIsSeen ==
    ASSUME NEW x, IsControl(x), NEW t
    PROVE  Seen(Overlay([at |-> t], x)) = DriveOf(t, x)
<1> DEFINE a == [at |-> t]
           d == Overlay(a, x)
           s == DriveOf(t, x)
           F == {"at", "part", "control", "value"}
<1>1. DOMAIN x = {"kind", "part", "control", "value"}
    BY DEF IsControl, SetControl
<1>2. DOMAIN a = {"at"} /\ a["at"] = t
    OBVIOUS
<1>3. d = [f \in DOMAIN a \cup DOMAIN x |-> IF f \in DOMAIN a THEN a[f] ELSE x[f]]
    BY DEF Overlay
<1>4. s = [f \in F |-> s[f]] /\ s["at"] = t /\ s["part"] = x["part"]
      /\ s["control"] = x["control"] /\ s["value"] = x["value"]
    BY DEF DriveOf
<1> HIDE DEF a, d, s
<1>5. d["at"] = t /\ d["part"] = x["part"] /\ d["control"] = x["control"] /\ d["value"] = x["value"]
    BY <1>1, <1>2, <1>3
<1>6. \A f \in F : d[f] = s[f]
    BY <1>4, <1>5 DEF F
<1>7. Seen(d) = s
    BY <1>4, <1>6 DEF Seen
<1> QED BY <1>7 DEF a, d, s

\* Where the replay of the steps and that of the script, made so far, stand.
ScriptFollows(T, w, r, m) ==
    /\ w = [at |-> w.at, drives |-> w.drives] /\ w.at \in Nat /\ w.drives \in Seq(DrivesOf(T))
    /\ r = [commands |-> r.commands, pending |-> r.pending, elapsed |-> r.elapsed]
    /\ r.commands \in Seq(Commands(T)) /\ r.pending \in Nat /\ r.elapsed \in Nat
    /\ m = [at |-> m.at, drives |-> m.drives] /\ m.drives \in Seq(TaggedOf(T))
    /\ m.at = r.elapsed /\ r.elapsed + r.pending = w.at
    /\ Len(w.drives) = Len(m.drives)
    /\ \A i \in 1..Len(w.drives) : w.drives[i] = Seen(m.drives[i])

\* Writing the pending delays into the script (_flush in steps_to_resc) changes
\* nothing of what was told.
LEMMA FlushFollows ==
    ASSUME NEW T, NEW w, NEW r, ScriptFollows(T, w, r, Monitor(r.commands))
    PROVE  /\ ScriptFollows(T, w, Flushed(r), Monitor(Flushed(r).commands))
           /\ Flushed(r).pending = 0
<1>1. CASE r.pending > 0
    <2> DEFINE c == RunFor(r.pending)
               f == Flushed(r)
               m == Monitor(r.commands)
    <2>1. c \in Commands(T) /\ c.kind = "run" /\ c.ms = r.pending
        BY <1>1 DEF RunFor, Commands, ScriptFollows
    <2>2. /\ f.commands = Append(r.commands, c) /\ f.pending = 0 /\ f.elapsed = r.elapsed + r.pending
          /\ f = [commands |-> f.commands, pending |-> f.pending, elapsed |-> f.elapsed]
        BY <1>1 DEF Flushed
    <2>3. Monitor(f.commands) = MonitorStep(m, c)
        BY <2>1, <2>2, MonitorFold!FoldAppend DEF Monitor, ScriptFollows
    <2>4. MonitorStep(m, c) = [m EXCEPT !.at = @ + r.pending]
        BY <2>1 DEF MonitorStep
    <2>5. MonitorStep(m, c).at = r.elapsed + r.pending /\ MonitorStep(m, c).drives = m.drives
          /\ MonitorStep(m, c) = [at |-> MonitorStep(m, c).at, drives |-> MonitorStep(m, c).drives]
        BY <2>4 DEF ScriptFollows
    <2> HIDE DEF c, f, m
    <2>6. f.commands \in Seq(Commands(T))
        BY <2>1, <2>2 DEF ScriptFollows
    <2>7. ScriptFollows(T, w, f, MonitorStep(m, c))
        BY <2>2, <2>5, <2>6 DEF ScriptFollows, m
    <2> QED BY <2>2, <2>3, <2>7 DEF f
<1>2. CASE ~(r.pending > 0)
    BY <1>2 DEF Flushed, ScriptFollows
<1> QED BY <1>1, <1>2

\* A step keeps the two replays together.
LEMMA StepFollows ==
    ASSUME NEW T, NEW w, NEW r, ScriptFollows(T, w, r, Monitor(r.commands)),
           NEW x \in T, IsDelay(x) \/ IsControl(x)
    PROVE  ScriptFollows(T, WokwiStep(w, x), RescStep(r, x), Monitor(RescStep(r, x).commands))
<1>1. CASE IsDelay(x)
    <2>1. x.kind = "delay" /\ x.ms \in Nat
        BY <1>1 DEF IsDelay, Delay
    <2>2. WokwiStep(w, x) = [w EXCEPT !.at = @ + x.ms] /\ RescStep(r, x) = [r EXCEPT !.pending = @ + x.ms]
        BY <2>1 DEF WokwiStep, RescStep
    <2>3. RescStep(r, x).commands = r.commands
        BY <2>2 DEF ScriptFollows
    <2>4. /\ WokwiStep(w, x).at = w.at + x.ms /\ WokwiStep(w, x).drives = w.drives
          /\ WokwiStep(w, x) = [at |-> WokwiStep(w, x).at, drives |-> WokwiStep(w, x).drives]
        BY <2>2 DEF ScriptFollows
    <2> DEFINE r1 == RescStep(r, x)
    <2>5. /\ r1.pending = r.pending + x.ms /\ r1.elapsed = r.elapsed
          /\ r1 = [commands |-> r1.commands, pending |-> r1.pending, elapsed |-> r1.elapsed]
        BY <2>2 DEF ScriptFollows
    <2> QED BY <2>1, <2>3, <2>4, <2>5 DEF ScriptFollows
<1>2. CASE IsControl(x)
    <2> DEFINE f == Flushed(r)
               m == Monitor(f.commands)
    <2>1. x.kind = "set" /\ x \in Controls(T) /\ x \in Commands(T)
        BY <1>2 DEF IsControl, SetControl, Controls, Commands
    <2>2. ScriptFollows(T, w, f, m) /\ f.pending = 0
        BY FlushFollows
    <2> HIDE DEF f, m
    <2> DEFINE w1 == WokwiStep(w, x)
               r1 == RescStep(r, x)
               m1 == MonitorStep(m, x)
    <2>3. w1 = [w EXCEPT !.drives = Append(@, DriveOf(w.at, x))]
        BY <2>1 DEF WokwiStep
    <2>4. r1 = [f EXCEPT !.commands = Append(@, x)]
        BY <2>1 DEF RescStep, f
    <2>5. m1 = [m EXCEPT !.drives = Append(@, Overlay([at |-> m.at], x))]
        BY <2>1 DEF MonitorStep
    <2>6. w1.at = w.at /\ w1.drives = Append(w.drives, DriveOf(w.at, x)) /\ w1 = [at |-> w1.at, drives |-> w1.drives]
        BY <2>2, <2>3 DEF ScriptFollows
    <2>7. /\ r1.commands = Append(f.commands, x) /\ r1.pending = 0 /\ r1.elapsed = f.elapsed
          /\ r1 = [commands |-> r1.commands, pending |-> r1.pending, elapsed |-> r1.elapsed]
        BY <2>2, <2>4 DEF ScriptFollows
    <2>8. m1.at = m.at /\ m1.drives = Append(m.drives, Overlay([at |-> m.at], x)) /\ m1 = [at |-> m1.at, drives |-> m1.drives]
        BY <2>2, <2>5 DEF ScriptFollows
    <2>9. Monitor(r1.commands) = m1
        BY <2>1, <2>2, <2>7, MonitorFold!FoldAppend DEF Monitor, ScriptFollows, m
    <2> HIDE DEF w1, r1, m1
    <2>10. m.at = w.at /\ w.at \in Nat
        BY <2>2 DEF ScriptFollows
    <2>11. DriveOf(w.at, x) \in DrivesOf(T) /\ Overlay([at |-> m.at], x) \in TaggedOf(T)
        BY <2>1, <2>10 DEF DrivesOf, TaggedOf
    <2>12. DriveOf(w.at, x) = Seen(Overlay([at |-> m.at], x))
        BY <1>2, <2>10, TagIsSeen
    <2> DEFINE d == DriveOf(w.at, x)
               e == Overlay([at |-> m.at], x)
    <2> HIDE DEF d, e
    <2>13. /\ w1.drives \in Seq(DrivesOf(T)) /\ m1.drives \in Seq(TaggedOf(T))
           /\ Len(w1.drives) = Len(m1.drives)
           /\ \A i \in 1..Len(w1.drives) : w1.drives[i] = Seen(m1.drives[i])
        BY <2>2, <2>6, <2>8, <2>11, <2>12 DEF ScriptFollows, d, e
    <2>14. ScriptFollows(T, w1, r1, m1)
        BY <2>1, <2>2, <2>6, <2>7, <2>8, <2>10, <2>13 DEF ScriptFollows
    <2> QED BY <2>9, <2>14 DEF w1, r1
<1> QED BY <1>1, <1>2

SumFold == INSTANCE Folding WITH Op <- Add
Pauses(steps) == [i \in DOMAIN steps |-> IF steps[i].kind = "delay" THEN steps[i].ms ELSE 0]
Runtimes(script) == [i \in DOMAIN script |-> IF script[i].kind = "run" THEN script[i].ms ELSE 0]
StepList(steps) ==
    /\ steps \in Seq(ToSet(steps))
    /\ \A i \in DOMAIN steps : IsDelay(steps[i]) \/ IsControl(steps[i])

\* Total is the fold of the terms.
LEMMA SumIsFold == \A terms : FoldLeft(Add, 0, terms) = SumFold!Folded(0, terms)
BY DEF SumFold!Folded, FoldLeft, MapThenFoldSet, SumFold!FoldLeft, SumFold!MapThenFoldSet, Max, SumFold!Max

\* The delays of the steps, summed as the configuration check sums them.
LEMMA PausesTotal ==
    \A steps : Total(LAMBDA s : IF s.kind = "delay" THEN s.ms ELSE 0, steps) = SumFold!Folded(0, Pauses(steps))
BY SumIsFold DEF Total, Pauses

\* The time a script runs for.
LEMMA RuntimesTotal ==
    \A script : Total(LAMBDA c : IF c.kind = "run" THEN c.ms ELSE 0, script) = SumFold!Folded(0, Runtimes(script))
BY SumIsFold DEF Total, Runtimes

\* The monitor's clock ends at the sum of the run commands.
LEMMA MonitorLasts ==
    ASSUME NEW T, NEW script \in Seq(Commands(T))
    PROVE  Monitor(script).at = SumFold!Folded(0, Runtimes(script))
<1> DEFINE n == Len(script)
<1>1. n \in Nat /\ DOMAIN script = 1..n /\ DOMAIN Runtimes(script) = 1..n /\ \A i \in 1..n : script[i] \in Commands(T)
    BY DEF Runtimes
<1> HIDE DEF n
<1>2. PICK h : MonitorFold!Runs(h, Start, script, n) /\ Monitor(script) = h[n]
    BY <1>1, MonitorFold!FoldSteps DEF Monitor
<1>3. PICK g : SumFold!Runs(g, 0, Runtimes(script), n) /\ SumFold!Folded(0, Runtimes(script)) = g[n]
    BY <1>1, SumFold!FoldSteps
<1> DEFINE A == {k \in Nat : k <= n => /\ h[k] = [at |-> h[k].at, drives |-> h[k].drives]
                                     /\ h[k].at = g[k] /\ g[k] \in Nat}
<1>4. 0 \in A
    BY <1>2, <1>3 DEF MonitorFold!Runs, SumFold!Runs, Start
<1>5. ASSUME NEW k \in Nat, k \in A PROVE k + 1 \in A
    <2> DEFINE c == script[k + 1]
               new == h[k + 1]
    <2>1. SUFFICES ASSUME k + 1 <= n
                   PROVE /\ new = [at |-> new.at, drives |-> new.drives]
                         /\ new.at = g[k + 1] /\ g[k + 1] \in Nat
        OBVIOUS
    <2>2. /\ k + 1 \in 1..n /\ (k + 1) - 1 = k
          /\ h[k] = [at |-> h[k].at, drives |-> h[k].drives] /\ h[k].at = g[k] /\ g[k] \in Nat
        BY <1>1, <1>5, <2>1
    <2>3. new = MonitorStep(h[k], c) /\ g[k + 1] = g[k] + Runtimes(script)[k + 1]
        BY <1>2, <1>3, <2>2 DEF MonitorFold!Runs, SumFold!Runs, Add
    <2>4. Runtimes(script)[k + 1] = IF c.kind = "run" THEN c.ms ELSE 0
        BY <1>1, <2>2 DEF Runtimes
    <2>5. (c.kind = "run" /\ c.ms \in Nat) \/ c.kind = "set"
        BY <1>1, <2>2 DEF Commands, Controls, IsControl, SetControl
    <2>6. CASE c.kind = "run" /\ c.ms \in Nat
        BY <2>2, <2>3, <2>4, <2>6 DEF MonitorStep
    <2>7. CASE c.kind = "set"
        <3>1. g[k + 1] = g[k] + 0
            BY <2>3, <2>4, <2>7
        <3>2. new = [h[k] EXCEPT !.drives = Append(@, Overlay([at |-> h[k].at], c))]
            BY <2>3, <2>7 DEF MonitorStep
        <3>3. new = [at |-> new.at, drives |-> new.drives] /\ new.at = h[k].at
            BY <2>2, <3>2
        <3> QED BY <2>2, <3>1, <3>3
    <2> QED BY <2>5, <2>6, <2>7
<1> HIDE DEF A
<1>6. Nat \subseteq A
    BY <1>4, <1>5, SumFold!NatSet
<1>7. n \in A
    BY <1>1, <1>6
<1> QED BY <1>1, <1>2, <1>3, <1>7 DEF A

\* After all steps the replay and the script made of them stand at one time, and
\* this is the sum of the delays.
LEMMA StepsFollow ==
    ASSUME NEW steps, StepList(steps)
    PROVE  LET w == WokwiFold!Folded(Start, steps)
               r == RescFold!Folded(RescStart, steps)
           IN /\ ScriptFollows(ToSet(steps), w, r, Monitor(r.commands))
              /\ w.at = SumFold!Folded(0, Pauses(steps))
<1> DEFINE T == ToSet(steps)
           n == Len(steps)
<1>1. /\ n \in Nat /\ DOMAIN steps = 1..n /\ DOMAIN Pauses(steps) = 1..n
      /\ \A i \in 1..n : steps[i] \in T /\ (IsDelay(steps[i]) \/ IsControl(steps[i]))
    BY DEF StepList, Pauses
<1> HIDE DEF n, T
<1>2. PICK w : WokwiFold!Runs(w, Start, steps, n) /\ WokwiFold!Folded(Start, steps) = w[n]
    BY <1>1, WokwiFold!FoldSteps
<1>3. PICK r : RescFold!Runs(r, RescStart, steps, n) /\ RescFold!Folded(RescStart, steps) = r[n]
    BY <1>1, RescFold!FoldSteps
<1>4. PICK g : SumFold!Runs(g, 0, Pauses(steps), n) /\ SumFold!Folded(0, Pauses(steps)) = g[n]
    BY <1>1, SumFold!FoldSteps
<1> DEFINE A == {k \in Nat : k <= n => /\ ScriptFollows(T, w[k], r[k], Monitor(r[k].commands))
                                     /\ w[k].at = g[k]}
<1>5. 0 \in A
    <2>1. w[0] = Start /\ r[0] = RescStart /\ g[0] = 0
        BY <1>2, <1>3, <1>4 DEF WokwiFold!Runs, RescFold!Runs, SumFold!Runs
    <2>2. Monitor(r[0].commands) = Start
        BY <2>1, MonitorFold!FoldEmpty DEF Monitor, RescStart
    <2>3. ScriptFollows(T, Start, RescStart, Start)
        BY DEF ScriptFollows, Start, RescStart
    <2> QED BY <2>1, <2>2, <2>3 DEF Start
<1>6. ASSUME NEW k \in Nat, k \in A PROVE k + 1 \in A
    <2> DEFINE x == steps[k + 1]
    <2>1. SUFFICES ASSUME k + 1 <= n
                   PROVE  /\ ScriptFollows(T, w[k + 1], r[k + 1], Monitor(r[k + 1].commands))
                          /\ w[k + 1].at = g[k + 1]
        OBVIOUS
    <2>2. /\ k + 1 \in 1..n /\ (k + 1) - 1 = k
          /\ ScriptFollows(T, w[k], r[k], Monitor(r[k].commands)) /\ w[k].at = g[k]
        BY <1>1, <1>6, <2>1
    <2>3. x \in T /\ (IsDelay(x) \/ IsControl(x))
        BY <1>1, <2>2
    <2>4. w[k + 1] = WokwiStep(w[k], x) /\ r[k + 1] = RescStep(r[k], x)
        BY <1>2, <1>3, <2>2 DEF WokwiFold!Runs, RescFold!Runs
    <2>5. g[k + 1] = g[k] + Pauses(steps)[k + 1]
        BY <1>4, <2>2 DEF SumFold!Runs, Add
    <2>6. Pauses(steps)[k + 1] = IF x.kind = "delay" THEN x.ms ELSE 0
        BY <1>1, <2>2 DEF Pauses
    <2> HIDE DEF x
    <2>7. ScriptFollows(T, w[k + 1], r[k + 1], Monitor(r[k + 1].commands))
        BY <2>2, <2>3, <2>4, StepFollows
    <2>8. w[k].at \in Nat /\ w[k] = [at |-> w[k].at, drives |-> w[k].drives]
        BY <2>2 DEF ScriptFollows
    <2>9. CASE x.kind = "delay"
        <3>1. w[k + 1].at = w[k].at + x.ms
            BY <2>4, <2>8, <2>9 DEF WokwiStep
        <3> QED BY <2>2, <2>5, <2>6, <2>7, <2>9, <3>1
    <2>10. CASE x.kind # "delay"
        <3>1. w[k + 1].at = w[k].at
            BY <2>4, <2>8, <2>10 DEF WokwiStep
        <3>2. g[k + 1] = g[k] + 0
            BY <2>5, <2>6, <2>10
        <3> QED BY <2>2, <2>7, <2>8, <3>1, <3>2
    <2> QED BY <2>9, <2>10
<1> HIDE DEF A
<1>7. Nat \subseteq A
    BY <1>5, <1>6, SumFold!NatSet
<1>8. n \in A
    BY <1>1, <1>7
<1> QED BY <1>1, <1>2, <1>3, <1>4, <1>8 DEF A, T

\* The monitor script of Renode sets what the steps say at the times they say,
\* and lasts to the time limit when the delays do (scenario_steps_to_resc,
\* generate_resc).
THEOREM ScriptTellsTheSame ==
    ASSUME NEW steps, StepList(steps), NEW timeout \in Nat,
           SumFold!Folded(0, Pauses(steps)) <= timeout
    PROVE  LET script == GenerateResc(steps, timeout)
               wokwi == WokwiDrives(steps)
               renode == RenodeDrives(script)
           IN /\ wokwi = [i \in DOMAIN renode |-> Seen(renode[i])]
              /\ SumFold!Folded(0, Runtimes(script)) = timeout
<1> DEFINE T == ToSet(steps)
           w == WokwiFold!Folded(Start, steps)
           f == StepsToResc(steps)
           m == Monitor(f.commands)
           script == GenerateResc(steps, timeout)
           end == Monitor(script)
<1>1. ScriptFollows(T, w, f, m) /\ f.pending = 0 /\ w.at <= timeout
    BY StepsFollow, FlushFollows, RescIsFold
<1>2. /\ f.commands \in Seq(Commands(T)) /\ f.elapsed \in Nat /\ f.elapsed = w.at
      /\ m.at = f.elapsed /\ m = [at |-> m.at, drives |-> m.drives]
      /\ w.drives \in Seq(DrivesOf(T)) /\ m.drives \in Seq(TaggedOf(T)) /\ Len(w.drives) = Len(m.drives)
      /\ \A i \in 1..Len(w.drives) : w.drives[i] = Seen(m.drives[i])
    BY <1>1 DEF ScriptFollows
<1> HIDE DEF w, f, m
<1>3. script \in Seq(Commands(T)) /\ end.at = timeout /\ end.drives = m.drives
    <2>1. CASE timeout > f.elapsed
        <3> DEFINE c == RunFor(timeout - f.elapsed)
        <3>1. c \in Commands(T) /\ c.kind = "run" /\ c.ms = timeout - f.elapsed
            BY <1>2, <2>1 DEF RunFor, Commands
        <3>2. script = Append(f.commands, c)
            BY <2>1 DEF GenerateResc, f
        <3> HIDE DEF c, script
        <3>3. Monitor(script) = MonitorStep(m, c)
            BY <1>2, <3>1, <3>2, MonitorFold!FoldAppend DEF Monitor, m
        <3>4. MonitorStep(m, c) = [m EXCEPT !.at = @ + (timeout - f.elapsed)]
            BY <3>1 DEF MonitorStep
        <3>5. MonitorStep(m, c).at = timeout /\ MonitorStep(m, c).drives = m.drives
            BY <1>2, <3>4
        <3> QED BY <1>2, <3>1, <3>2, <3>3, <3>5
    <2>2. CASE ~(timeout > f.elapsed)
        <3>1. script = f.commands
            BY <2>2 DEF GenerateResc, f
        <3>2. f.elapsed = timeout
            BY <1>1, <1>2, <2>2
        <3> QED BY <1>2, <3>1, <3>2 DEF m
    <2> QED BY <2>1, <2>2
<1> HIDE DEF script
<1>4. SumFold!Folded(0, Runtimes(script)) = timeout
    BY <1>3, MonitorLasts
<1>5. RenodeDrives(script) = m.drives /\ WokwiDrives(steps) = w.drives
    BY <1>3, MonitorIsFold, WokwiIsFold DEF w
<1>6. w.drives = [i \in DOMAIN m.drives |-> Seen(m.drives[i])]
    <2> DEFINE a == w.drives
               b == m.drives
    <2>1. DOMAIN a = 1..Len(a) /\ a = [i \in 1..Len(a) |-> a[i]] /\ DOMAIN b = 1..Len(b)
        BY <1>2
    <2> HIDE DEF a, b
    <2>2. a = [i \in 1..Len(a) |-> Seen(b[i])]
        BY <1>2, <2>1 DEF a, b
    <2>3. Len(a) = Len(b)
        BY <1>2 DEF a, b
    <2> QED BY <2>1, <2>2, <2>3 DEF a, b
<1> QED BY <1>4, <1>5, <1>6 DEF script

Time(steps) == SumFold!Folded(0, Pauses(steps))
ConcatStep(acc, s) == acc \o s
ConcatFold == INSTANCE Folding WITH Op <- ConcatStep

\* Delays and controls in a row are a list of steps.
LEMMA ListOfSteps ==
    ASSUME NEW S, NEW s \in Seq(S), \A i \in DOMAIN s : IsDelay(s[i]) \/ IsControl(s[i])
    PROVE  StepList(s)
<1>1. s \in Seq(ToSet(s))
    BY DEF ToSet
<1> QED BY <1>1 DEF StepList

\* A step list has a length, delays of some natural length, and so a duration.
LEMMA PausesOf ==
    ASSUME NEW s, StepList(s)
    PROVE  /\ Len(s) \in Nat /\ DOMAIN s = 1..Len(s) /\ DOMAIN Pauses(s) = 1..Len(s)
           /\ \A i \in 1..Len(s) : /\ Pauses(s)[i] = IF s[i].kind = "delay" THEN s[i].ms ELSE 0
                                   /\ Pauses(s)[i] \in Nat
<1>1. Len(s) \in Nat /\ DOMAIN s = 1..Len(s)
    BY DEF StepList
<1>2. ASSUME NEW i \in 1..Len(s) PROVE Pauses(s)[i] = (IF s[i].kind = "delay" THEN s[i].ms ELSE 0) /\ Pauses(s)[i] \in Nat
    <2>1. Pauses(s)[i] = IF s[i].kind = "delay" THEN s[i].ms ELSE 0
        BY <1>1 DEF Pauses
    <2>2. s[i].kind = "delay" => s[i].ms \in Nat
        BY <1>1 DEF StepList, IsDelay, IsControl, SetControl
    <2> QED BY <2>1, <2>2
<1> QED BY <1>1, <1>2 DEF Pauses

\* Sums of naturals stay natural.
LEMMA SumIsNat ==
    ASSUME NEW d, NEW n \in Nat, DOMAIN d = 1..n, \A i \in 1..n : d[i] \in Nat,
           NEW g, SumFold!Runs(g, 0, d, n)
    PROVE  \A i \in 0..n : g[i] \in Nat
<1> DEFINE A == {k \in Nat : k <= n => g[k] \in Nat}
<1>1. 0 \in A
    BY DEF SumFold!Runs
<1>2. ASSUME NEW k \in Nat, k \in A PROVE k + 1 \in A
    <2>1. SUFFICES ASSUME k + 1 <= n PROVE g[k + 1] \in Nat
        OBVIOUS
    <2>2. k + 1 \in 1..n /\ (k + 1) - 1 = k /\ g[k] \in Nat
        BY <1>2, <2>1
    <2>3. g[k + 1] = g[k] + d[k + 1]
        BY <2>2 DEF SumFold!Runs, Add
    <2> QED BY <2>2, <2>3
<1> HIDE DEF A
<1>3. Nat \subseteq A
    BY <1>1, <1>2, SumFold!NatSet
<1> QED BY <1>3 DEF A

\* Sums of two lists add up.
Joint(a, m, b, n, c) ==
    /\ m \in Nat /\ n \in Nat
    /\ DOMAIN a = 1..m /\ DOMAIN b = 1..n /\ DOMAIN c = 1..(m + n)
    /\ \A i \in 1..m : a[i] \in Nat /\ c[i] = a[i]
    /\ \A i \in 1..n : b[i] \in Nat /\ c[m + i] = b[i]

\* The sum of a list that continues another one is the sum of both.
LEMMA SumsAddUp ==
    ASSUME NEW a, NEW m, NEW b, NEW n, NEW c, Joint(a, m, b, n, c)
    PROVE  /\ SumFold!Folded(0, c) = SumFold!Folded(0, a) + SumFold!Folded(0, b)
           /\ SumFold!Folded(0, a) \in Nat
<1>a. m \in Nat /\ DOMAIN a = 1..m
    BY DEF Joint
<1>b. n \in Nat /\ DOMAIN b = 1..n
    BY DEF Joint
<1>c. m + n \in Nat /\ DOMAIN c = 1..(m + n)
    BY DEF Joint
<1>1. /\ m \in Nat /\ n \in Nat /\ m + n \in Nat
      /\ \A i \in 1..m : a[i] \in Nat /\ c[i] = a[i]
      /\ \A i \in 1..n : b[i] \in Nat /\ c[m + i] = b[i]
    BY DEF Joint
<1>2. PICK f : SumFold!Runs(f, 0, a, m) /\ SumFold!Folded(0, a) = f[m]
    BY ONLY <1>a, SumFold!FoldSteps
<1>3. PICK g : SumFold!Runs(g, 0, b, n) /\ SumFold!Folded(0, b) = g[n]
    BY ONLY <1>b, SumFold!FoldSteps
<1>4. PICK h : SumFold!Runs(h, 0, c, m + n) /\ SumFold!Folded(0, c) = h[m + n]
    BY ONLY <1>c, SumFold!FoldSteps
<1>5. f[m] \in Nat /\ \A k \in 0..n : g[k] \in Nat
    <2>1. \A k \in 0..m : f[k] \in Nat
        BY <1>a, <1>1, <1>2, SumIsNat, Zenon
    <2>2. \A k \in 0..n : g[k] \in Nat
        BY <1>b, <1>1, <1>3, SumIsNat, Zenon
    <2> QED BY <1>1, <2>1, <2>2
<1>6. \A i \in 1..(m + n) : h[i] = h[i - 1] + c[i]
    BY <1>4 DEF SumFold!Runs, Add
<1>7. h[m] = f[m]
    <2>1. \A i \in 1..m : i \in 1..(m + n)
        BY <1>1
    <2>2. SumFold!Runs(h, 0, c, m)
        BY <1>4, <2>1 DEF SumFold!Runs
    <2>3. \A i \in 1..m : c[i] = a[i]
        BY <1>1
    <2>4. \A i \in 0..m : h[i] = f[i]
        BY <1>1, <1>2, <2>2, <2>3, SumFold!RunsAgree
    <2> QED BY <1>1, <2>4
<1> DEFINE A == {k \in Nat : k <= n => h[m + k] = f[m] + g[k]}
<1>8. 0 \in A
    BY <1>1, <1>3, <1>5, <1>7 DEF SumFold!Runs
<1>9. ASSUME NEW k \in Nat, k \in A PROVE k + 1 \in A
    <2>1. SUFFICES ASSUME k + 1 <= n PROVE h[m + (k + 1)] = f[m] + g[k + 1]
        OBVIOUS
    <2>2. k + 1 \in 1..n /\ (k + 1) - 1 = k /\ k \in 0..n /\ h[m + k] = f[m] + g[k]
        BY <1>1, <1>9, <2>1
    <2>3. g[k + 1] = g[k] + b[k + 1]
        BY <1>3, <2>2 DEF SumFold!Runs, Add
    <2>4. m + (k + 1) \in 1..(m + n) /\ (m + (k + 1)) - 1 = m + k
        BY <1>1, <2>1
    <2>5. h[m + (k + 1)] = h[m + k] + c[m + (k + 1)]
        BY <1>6, <2>4
    <2>6. c[m + (k + 1)] = b[k + 1] /\ b[k + 1] \in Nat /\ g[k] \in Nat /\ f[m] \in Nat
        BY <1>1, <1>5, <2>2
    <2> QED BY <2>2, <2>3, <2>5, <2>6
<1> HIDE DEF A
<1>10. Nat \subseteq A
    BY <1>8, <1>9, SumFold!NatSet
<1>11. h[m + n] = f[m] + g[n]
    BY <1>1, <1>10 DEF A
<1> QED BY <1>2, <1>3, <1>4, <1>5, <1>11

\* The same of sequences.
LEMMA SumConcat ==
    ASSUME NEW a \in Seq(Nat), NEW b \in Seq(Nat)
    PROVE  /\ SumFold!Folded(0, a \o b) = SumFold!Folded(0, a) + SumFold!Folded(0, b)
           /\ SumFold!Folded(0, a) \in Nat
<1> DEFINE c == a \o b
           m == Len(a)
           n == Len(b)
<1>1. /\ m \in Nat /\ n \in Nat /\ DOMAIN a = 1..m /\ DOMAIN b = 1..n /\ DOMAIN c = 1..(m + n)
      /\ \A i \in 1..m : a[i] \in Nat /\ c[i] = a[i]
      /\ \A i \in 1..n : b[i] \in Nat /\ c[m + i] = b[i]
    OBVIOUS
<1> HIDE DEF c, m, n
<1>2. Joint(a, m, b, n, c)
    BY <1>1, Zenon DEF Joint
<1> QED BY <1>2, SumsAddUp DEF c

\* The delays of a list of steps are a sequence, and it has a duration.
LEMMA PausesAreSeq ==
    ASSUME NEW s, StepList(s)
    PROVE  Pauses(s) \in Seq(Nat) /\ Len(Pauses(s)) = Len(s) /\ Time(s) \in Nat
<1>1. /\ Len(s) \in Nat /\ DOMAIN s = 1..Len(s)
      /\ \A i \in 1..Len(s) : Pauses(s)[i] \in Nat
    BY PausesOf
<1>2. Pauses(s) = [i \in 1..Len(s) |-> Pauses(s)[i]]
    BY <1>1 DEF Pauses
<1>3. Pauses(s) \in Seq(Nat) /\ Len(Pauses(s)) = Len(s)
    BY <1>1, <1>2
<1> QED BY <1>3, SumConcat DEF Time

\* Durations add up.
LEMMA TimeConcat ==
    ASSUME NEW a, NEW b, StepList(a), StepList(b)
    PROVE  StepList(a \o b) /\ Time(a \o b) = Time(a) + Time(b)
<1> DEFINE S == ToSet(a) \cup ToSet(b)
           c == a \o b
           m == Len(a)
           n == Len(b)
<1>1. a \in Seq(S) /\ b \in Seq(S)
    BY DEF StepList
<1>2. /\ m \in Nat /\ n \in Nat /\ DOMAIN a = 1..m /\ DOMAIN b = 1..n
      /\ c \in Seq(S) /\ Len(c) = m + n /\ DOMAIN c = 1..(m + n)
      /\ \A i \in 1..(m + n) : c[i] = IF i <= m THEN a[i] ELSE b[i - m]
    BY <1>1
<1> HIDE DEF S, c, m, n
<1>3. StepList(c)
    <2>1. ASSUME NEW i \in 1..(m + n) PROVE IsDelay(c[i]) \/ IsControl(c[i])
        <3>1. CASE i <= m
            BY <1>2, <3>1 DEF StepList
        <3>2. CASE ~(i <= m)
            <4>1. i - m \in 1..n /\ c[i] = b[i - m]
                BY <1>2, <3>2
            <4> QED BY <1>2, <4>1 DEF StepList
        <3> QED BY <3>1, <3>2
    <2> QED BY <1>2, <2>1, ListOfSteps
<1> DEFINE p == Pauses(a)
           q == Pauses(b)
           r == Pauses(c)
<1>4. /\ p \in Seq(Nat) /\ q \in Seq(Nat) /\ r \in Seq(Nat)
      /\ Len(p) = m /\ Len(q) = n /\ Len(r) = m + n
    BY <1>2, <1>3, PausesAreSeq DEF m, n
<1>5. \A i \in 1..(m + n) : r[i] = IF i <= m THEN p[i] ELSE q[i - m]
    <2> TAKE i \in 1..(m + n)
    <2>1. r[i] = IF c[i].kind = "delay" THEN c[i].ms ELSE 0
        BY <1>2 DEF Pauses
    <2>2. CASE i <= m
        <3>1. i \in 1..m /\ c[i] = a[i]
            BY <1>2, <2>2
        <3>2. p[i] = IF a[i].kind = "delay" THEN a[i].ms ELSE 0
            BY <1>2, <3>1 DEF Pauses
        <3> QED BY <2>1, <2>2, <3>1, <3>2
    <2>3. CASE ~(i <= m)
        <3>1. i - m \in 1..n /\ c[i] = b[i - m]
            BY <1>2, <2>3
        <3>2. q[i - m] = IF b[i - m].kind = "delay" THEN b[i - m].ms ELSE 0
            BY <1>2, <3>1 DEF Pauses
        <3> QED BY <2>1, <2>3, <3>1, <3>2
    <2> QED BY <2>2, <2>3
<1> HIDE DEF p, q, r
<1>6. /\ SumFold!Folded(0, r) = SumFold!Folded(0, p) + SumFold!Folded(0, q)
    <2>1. DOMAIN p = 1..m /\ DOMAIN q = 1..n /\ DOMAIN r = 1..(m + n)
        BY <1>2, <1>4
    <2>2. ASSUME NEW i \in 1..m PROVE p[i] \in Nat /\ r[i] = p[i]
        BY <1>2, <1>4, <1>5
    <2>3. ASSUME NEW i \in 1..n PROVE q[i] \in Nat /\ r[m + i] = q[i]
        <3>1. m + i \in 1..(m + n) /\ ~(m + i <= m) /\ (m + i) - m = i
            BY <1>2
        <3> QED BY <1>2, <1>4, <1>5, <3>1
    <2>4. Joint(p, m, q, n, r)
        BY <1>2, <2>1, <2>2, <2>3, Zenon DEF Joint
    <2> QED BY <2>4, SumsAddUp
<1> QED BY <1>3, <1>6 DEF Time, c, p, q, r

\* One step lasts for its delay, if it is one.
LEMMA TimeOfOne ==
    /\ \A ms \in Nat : StepList(<<Delay(ms)>>) /\ Time(<<Delay(ms)>>) = ms
    /\ \A p, c, v : StepList(<<SetControl(p, c, v)>>) /\ Time(<<SetControl(p, c, v)>>) = 0
<1>1. ASSUME NEW x, IsDelay(x) \/ IsControl(x)
      PROVE  StepList(<<x>>) /\ Time(<<x>>) = IF x.kind = "delay" THEN x.ms ELSE 0
    <2> DEFINE s == <<x>>
               d == Pauses(s)
    <2>1. s \in Seq({x}) /\ DOMAIN s = 1..1 /\ s[1] = x
        OBVIOUS
    <2> HIDE DEF s
    <2>2. StepList(s)
        BY <1>1, <2>1, ListOfSteps
    <2>3. DOMAIN d = 1..1 /\ d[1] = (IF x.kind = "delay" THEN x.ms ELSE 0) /\ d[1] \in Nat
        <3>1. Len(s) = 1 /\ 1 \in 1..1
            BY <2>1
        <3>2. /\ DOMAIN d = 1..Len(s)
              /\ \A i \in 1..Len(s) : d[i] = (IF s[i].kind = "delay" THEN s[i].ms ELSE 0) /\ d[i] \in Nat
            BY <2>2, PausesOf
        <3> HIDE DEF d
        <3>3. d[1] = (IF s[1].kind = "delay" THEN s[1].ms ELSE 0)
            BY <3>1, <3>2
        <3>4. DOMAIN d = 1..1 /\ d[1] \in Nat
            BY <3>1, <3>2
        <3> QED BY <2>1, <3>3, <3>4
    <2> HIDE DEF d
    <2>4. PICK g : SumFold!Runs(g, 0, d, 1) /\ SumFold!Folded(0, d) = g[1]
        BY ONLY <2>3, SumFold!FoldSteps
    <2>5. g[0] = 0 /\ g[1] = g[0] + d[1]
        BY <2>4 DEF SumFold!Runs, Add
    <2> QED BY <2>2, <2>3, <2>4, <2>5 DEF Time, d, s
<1>2. \A ms \in Nat : IsDelay(Delay(ms)) /\ Delay(ms).kind = "delay" /\ Delay(ms).ms = ms
    BY DEF IsDelay, Delay
<1>3. \A p, c, v : IsControl(SetControl(p, c, v)) /\ SetControl(p, c, v).kind = "set"
    BY DEF IsControl, SetControl
<1> HIDE DEF Delay, SetControl
<1>4. \A ms \in Nat : StepList(<<Delay(ms)>>) /\ Time(<<Delay(ms)>>) = ms
    BY <1>1, <1>2
<1>5. \A p, c, v : StepList(<<SetControl(p, c, v)>>) /\ Time(<<SetControl(p, c, v)>>) = 0
    <2> TAKE p, c, v
    <2>1. IsControl(SetControl(p, c, v)) /\ SetControl(p, c, v).kind # "delay"
        BY <1>3
    <2> QED BY <1>1, <2>1
<1> QED BY <1>4, <1>5

Pieces(seqs, n) == n \in Nat \ {0} /\ DOMAIN seqs = 1..n /\ \A i \in 1..n : StepList(seqs[i])
Joins(f, seqs, n) == f[1] = seqs[1] /\ \A i \in 2..n : f[i] = f[i - 1] \o seqs[i]

\* Flattening joins the sequences from the first to the last.
LEMMA FlattenJoins ==
    ASSUME NEW seqs, NEW n \in Nat \ {0}, DOMAIN seqs = 1..n, seqs[1] \in Seq(ToSet(seqs[1]))
    PROVE  \E f : Joins(f, seqs, n) /\ FlattenSeq(seqs) = f[n]
<1> DEFINE Flattens(f) == f = [i \in 1..n |-> IF i = 1 THEN seqs[i] ELSE f[i - 1] \o seqs[i]]
<1>1. n \in Nat \ {0} /\ DOMAIN seqs = 1..n
    OBVIOUS
<1>2. n \in Nat /\ DOMAIN seqs = 1..n
    BY <1>1
<1>3. PICK h : ConcatFold!Runs(h, <<>>, seqs, n)
    BY ONLY <1>2, ConcatFold!FoldSteps
<1>4. h[1] = seqs[1] /\ \A i \in 2..n : h[i] = h[i - 1] \o seqs[i]
    <2>1. h[0] = <<>> /\ \A i \in 1..n : h[i] = h[i - 1] \o seqs[i]
        BY <1>3 DEF ConcatFold!Runs, ConcatStep
    <2>2. 1 \in 1..n /\ \A i \in 2..n : i \in 1..n
        BY <1>1
    <2>3. h[1] = h[0] \o seqs[1]
        <3>1. h[1] = h[1 - 1] \o seqs[1]
            BY <2>1, <2>2, Zenon
        <3>2. 1 - 1 = 0
            OBVIOUS
        <3> QED BY ONLY <3>1, <3>2
    <2>5. <<>> \o seqs[1] = seqs[1]
        OBVIOUS
    <2> QED BY <2>1, <2>2, <2>3, <2>5
<1> DEFINE g == [i \in 1..n |-> h[i]]
<1>5. Flattens(g)
    <2>1. \A i \in 1..n : g[i] = IF i = 1 THEN seqs[i] ELSE g[i - 1] \o seqs[i]
        <3> TAKE i \in 1..n
        <3>1. CASE i = 1
            BY <1>1, <1>4, <3>1
        <3>2. CASE i # 1
            <4>1. i \in 2..n /\ i - 1 \in 1..n
                BY <1>1, <3>2
            <4>2. g[i] = h[i] /\ g[i - 1] = h[i - 1]
                BY <4>1
            <4>3. h[i] = h[i - 1] \o seqs[i]
                BY <1>4, <4>1, Zenon
            <4> HIDE DEF g
            <4>4. g[i] = g[i - 1] \o seqs[i]
                BY ONLY <4>2, <4>3
            <4> QED BY <3>2, <4>4, Zenon
        <3> QED BY <3>1, <3>2
    <2> QED BY <2>1
<1> HIDE DEF g
<1> DEFINE c == CHOOSE f : Flattens(f)
<1>6. Flattens(c)
    BY <1>5
<1>7. Len(seqs) = n
    BY <1>1
<1>8. FlattenSeq(seqs) = c[n]
    <2>1. seqs # <<>>
        BY <1>1
    <2> QED BY <1>7, <2>1 DEF FlattenSeq
<1> HIDE DEF c
<1>9. Joins(c, seqs, n)
    <2>1. \A i \in 1..n : c[i] = IF i = 1 THEN seqs[i] ELSE c[i - 1] \o seqs[i]
        BY <1>6, Zenon
    <2>2. 1 \in 1..n /\ \A i \in 2..n : i \in 1..n /\ i # 1
        BY <1>1
    <2> QED BY <2>1, <2>2, Zenon DEF Joins
<1> QED BY <1>8, <1>9

\* A flattened list lasts as long as its pieces together.
LEMMA TimeOfPieces ==
    ASSUME NEW seqs, NEW n, Pieces(seqs, n), NEW d, DOMAIN d = 1..n, \A i \in 1..n : d[i] = Time(seqs[i])
    PROVE  StepList(FlattenSeq(seqs)) /\ Time(FlattenSeq(seqs)) = SumFold!Folded(0, d)
<1>1. n \in Nat /\ DOMAIN d = 1..n
    BY DEF Pieces
<1>2. n \in Nat \ {0} /\ \A i \in 1..n : StepList(seqs[i]) /\ d[i] = Time(seqs[i])
    BY DEF Pieces
<1>3. PICK f : Joins(f, seqs, n) /\ FlattenSeq(seqs) = f[n]
    <2>1. DOMAIN seqs = 1..n /\ 1 \in 1..n /\ StepList(seqs[1])
        BY <1>2 DEF Pieces
    <2>2. seqs[1] \in Seq(ToSet(seqs[1]))
        BY <2>1 DEF StepList
    <2> QED BY <1>2, <2>1, <2>2, FlattenJoins
<1>4. PICK g : SumFold!Runs(g, 0, d, n) /\ SumFold!Folded(0, d) = g[n]
    BY ONLY <1>1, SumFold!FoldSteps
<1>5. g[0] = 0 /\ \A i \in 1..n : g[i] = g[i - 1] + d[i]
    BY <1>4 DEF SumFold!Runs, Add
<1> DEFINE A == {k \in Nat : k + 1 <= n => StepList(f[k + 1]) /\ Time(f[k + 1]) = g[k + 1]}
<1>6. 0 \in A
    <2>1. 1 \in 1..n
        BY <1>2
    <2>2. g[1] = g[0] + d[1]
        BY <1>5, <2>1
    <2>3. d[1] = Time(seqs[1]) /\ StepList(seqs[1]) /\ f[1] = seqs[1]
        BY <1>2, <1>3, <2>1 DEF Joins
    <2>4. Time(seqs[1]) \in Nat
        BY <2>3, PausesAreSeq
    <2>5. g[1] = Time(seqs[1])
        BY <1>5, <2>2, <2>3, <2>4
    <2> QED BY <2>3, <2>5
<1>7. ASSUME NEW k \in Nat, k \in A PROVE k + 1 \in A
    <2> DEFINE j == k + 2
    <2>1. SUFFICES ASSUME j <= n PROVE StepList(f[j]) /\ Time(f[j]) = g[j]
        <3>1. (k + 1) + 1 = j
            OBVIOUS
        <3> QED BY <3>1
    <2>a. k + 1 <= n
        BY <1>2, <2>1
    <2>2. j \in 1..n /\ j \in 2..n /\ j - 1 = k + 1 /\ StepList(f[k + 1]) /\ Time(f[k + 1]) = g[k + 1]
        BY <1>2, <1>7, <2>1, <2>a
    <2> HIDE DEF j
    <2>3. f[j] = f[k + 1] \o seqs[j]
        BY <1>3, <2>2 DEF Joins
    <2>4. StepList(seqs[j]) /\ d[j] = Time(seqs[j])
        BY <1>2, <2>2
    <2>5. g[j] = g[k + 1] + d[j]
        BY <1>5, <2>2
    <2> QED BY <2>2, <2>3, <2>4, <2>5, TimeConcat
<1> HIDE DEF A
<1>8. Nat \subseteq A
    BY <1>6, <1>7, SumFold!NatSet
<1>9. n - 1 \in Nat /\ (n - 1) + 1 = n
    BY <1>2
<1>10. StepList(f[n]) /\ Time(f[n]) = g[n]
    BY <1>8, <1>9 DEF A
<1> QED BY <1>3, <1>4, <1>10

\* The elements of a concatenation.
LEMMA JoinAny ==
  ASSUME NEW S, NEW u \in Seq(S), NEW v \in Seq(S)
  PROVE /\ u \o v \in Seq(S) /\ Len(u \o v) = Len(u) + Len(v)
        /\ \A i \in 1..Len(u) : (u \o v)[i] = u[i]
        /\ \A i \in 1..Len(v) : (u \o v)[Len(u) + i] = v[i]
<1>1. Len(u \o v) = Len(u) + Len(v)
  OBVIOUS
<1>2. \A i \in 1..Len(u) : (u \o v)[i] = u[i]
  OBVIOUS
<1>3. \A i \in 1..Len(v) : (u \o v)[Len(u) + i] = v[i]
  OBVIOUS
<1> QED BY <1>1, <1>2, <1>3

\* Two pairs make a quadruple.
LEMMA JoinPairs ==
  ASSUME NEW S, NEW u \in Seq(S), NEW v \in Seq(S), Len(u) = 2, Len(v) = 2
  PROVE u \o v = <<u[1], u[2], v[1], v[2]>>
<1> DEFINE x == u \o v
<1>1. x \in Seq(S) /\ Len(x) = Len(u) + Len(v) /\ (\A i \in 1..Len(u) : x[i] = u[i]) /\ \A i \in 1..Len(v) : x[Len(u) + i] = v[i]
  BY ONLY u \in Seq(S), v \in Seq(S), JoinAny
<1> HIDE DEF x
<1>2. Len(x) = 4 /\ x[1] = u[1] /\ x[2] = u[2] /\ x[3] = v[1] /\ x[4] = v[2]
  BY <1>1
<1>3. x = <<x[1], x[2], x[3], x[4]>>
  BY <1>1, <1>2
<1> QED BY <1>2, <1>3 DEF x

\* The same of tuples.
LEMMA JoinTwos == \A a, b, c, d : <<a, b>> \o <<c, d>> = <<a, b, c, d>>
<1> TAKE a, b, c, d
<1> DEFINE S == {a, b, c, d}
           u == <<a, b>>
           v == <<c, d>>
<1>1. u \in Seq(S) /\ v \in Seq(S) /\ Len(u) = 2 /\ Len(v) = 2 /\ u[1] = a /\ u[2] = b /\ v[1] = c /\ v[2] = d
  OBVIOUS
<1> HIDE DEF u, v, S
<1>2. u \o v = <<u[1], u[2], v[1], v[2]>>
  BY <1>1, JoinPairs
<1> QED BY <1>1, <1>2 DEF u, v

\* Two singletons make a pair.
LEMMA JoinSingles ==
  ASSUME NEW S, NEW u \in Seq(S), NEW v \in Seq(S), Len(u) = 1, Len(v) = 1
  PROVE u \o v = <<u[1], v[1]>>
<1> DEFINE x == u \o v
<1>1. x \in Seq(S) /\ Len(x) = Len(u) + Len(v) /\ (\A i \in 1..Len(u) : x[i] = u[i]) /\ \A i \in 1..Len(v) : x[Len(u) + i] = v[i]
  BY ONLY u \in Seq(S), v \in Seq(S), JoinAny
<1> HIDE DEF x
<1>2. Len(x) = 2 /\ x[1] = u[1] /\ x[2] = v[1]
  BY <1>1
<1>3. x = <<x[1], x[2]>>
  <2> DEFINE y == <<x[1], x[2]>>
  <2>1. DOMAIN x = 1..2 /\ DOMAIN y = 1..2 /\ y[1] = x[1] /\ y[2] = x[2]
    BY <1>1, <1>2
  <2>2. x = [i \in 1..2 |-> x[i]] /\ y = [i \in 1..2 |-> y[i]]
    BY <1>1, <2>1
  <2> HIDE DEF y
  <2>3. \A i \in 1..2 : x[i] = y[i]
    BY <2>1
  <2>4. x = y
    BY <2>2, <2>3
  <2> QED BY <2>4 DEF y
<1> QED BY <1>2, <1>3 DEF x

\* The same of tuples.
LEMMA JoinOnes == \A a, b : <<a>> \o <<b>> = <<a, b>>
<1> TAKE a, b
<1> DEFINE S == {a, b}
           u == <<a>>
           v == <<b>>
<1>1. u \in Seq(S) /\ v \in Seq(S) /\ Len(u) = 1 /\ Len(v) = 1 /\ u[1] = a /\ v[1] = b
  OBVIOUS
<1> HIDE DEF u, v, S
<1>2. u \o v = <<u[1], v[1]>>
  BY <1>1, JoinSingles
<1> QED BY <1>1, <1>2 DEF u, v

\* What the items of a list generate lasts as long as the sum over the items.
LEMMA TimeOfItems ==
    ASSUME NEW L, L \in Seq(ToSet(L)), Len(L) > 0, NEW seqs, DOMAIN seqs = DOMAIN L,
           NEW d, DOMAIN d = DOMAIN L, \A i \in DOMAIN L : StepList(seqs[i]) /\ Time(seqs[i]) = d[i]
    PROVE  StepList(FlattenSeq(seqs)) /\ Time(FlattenSeq(seqs)) = SumFold!Folded(0, d)
<1> DEFINE n == Len(L)
<1>1. n \in Nat \ {0} /\ DOMAIN L = 1..n
    OBVIOUS
<1> HIDE DEF n
<1>2. Pieces(seqs, n)
    BY <1>1 DEF Pieces
<1>3. DOMAIN d = 1..n /\ \A i \in 1..n : d[i] = Time(seqs[i])
    BY <1>1
<1> QED BY <1>2, <1>3, TimeOfPieces

\* A control that is held lasts for its delay.
LEMMA TimeOfHold ==
    ASSUME NEW p, NEW c, NEW v, NEW ms \in Nat
    PROVE  /\ StepList(<<SetControl(p, c, v), Delay(ms)>>)
           /\ Time(<<SetControl(p, c, v), Delay(ms)>>) = ms
<1> DEFINE a == SetControl(p, c, v)
           b == Delay(ms)
<1>1. StepList(<<a>>) /\ StepList(<<b>>) /\ Time(<<a>>) = 0 /\ Time(<<b>>) = ms
    BY TimeOfOne
<1> HIDE DEF a, b
<1>2. <<a>> \o <<b>> = <<a, b>>
    BY JoinOnes
<1> DEFINE u == <<a>>
           y == <<b>>
           w == <<a, b>>
<1>3. StepList(u) /\ StepList(y) /\ Time(u) = 0 /\ Time(y) = ms /\ u \o y = w
    BY <1>1, <1>2
<1> HIDE DEF u, y, w
<1>4. StepList(w) /\ Time(w) = ms
    <2>1. StepList(u \o y) /\ Time(u \o y) = Time(u) + Time(y)
        BY <1>3, TimeConcat
    <2> QED BY <1>3, <2>1
<1> QED BY <1>4 DEF a, b, w

\* A press lasts while it is held and for the pause after it.
LEMMA TimeOfPress ==
    ASSUME NEW p, NEW c, NEW v, NEW w, NEW held \in Nat, NEW after \in Nat
    PROVE  /\ StepList(<<SetControl(p, c, v), Delay(held), SetControl(p, c, w), Delay(after)>>)
           /\ Time(<<SetControl(p, c, v), Delay(held), SetControl(p, c, w), Delay(after)>>) = held + after
<1> DEFINE a1 == SetControl(p, c, v)
           a2 == Delay(held)
           b1 == SetControl(p, c, w)
           b2 == Delay(after)
           a == <<a1, a2>>
           b == <<b1, b2>>
<1>1. StepList(a) /\ StepList(b) /\ Time(a) = held /\ Time(b) = after
    BY TimeOfHold
<1> HIDE DEF a1, a2, b1, b2
<1>2. a \o b = <<a1, a2, b1, b2>>
    BY JoinTwos
<1> HIDE DEF a, b
<1>3. StepList(a \o b) /\ Time(a \o b) = Time(a) + Time(b)
    BY <1>1, TimeConcat
<1> QED BY <1>1, <1>2, <1>3 DEF a1, a2, b1, b2

\* The first pause, which the check requires not to be negative if it is given.
LEMMA InitialTime ==
    ASSUME NEW s, TypedScenario(s), OptionalDuration(s, "initial_delay_ms")
    PROVE  /\ Get(s, "initial_delay_ms", 200) \in Nat /\ StepList(<<InitialDelay(s)>>)
           /\ Time(<<InitialDelay(s)>>) = Get(s, "initial_delay_ms", 200)
<1>1. Get(s, "initial_delay_ms", 200) \in Nat
    BY DEF TypedScenario, OptionalDuration, Get, Has
<1> QED BY <1>1, TimeOfOne DEF InitialDelay

\* A list that is given is one, and a duration of its items that is checked to be
\* positive, or not negative, is a natural number.
LEMMA GivenList ==
    ASSUME NEW s, TypedScenario(s), NEW f \in Lists, ListGiven(s, f)
    PROVE  /\ Get(s, f, <<>>) = s[f] /\ s[f] \in Seq(ToSet(s[f])) /\ Len(s[f]) > 0
           /\ \A i \in DOMAIN s[f] : s[f][i] \in ToSet(s[f])
           /\ \A i \in DOMAIN s[f], d \in {"delay_ms", "duration_ms", "after_ms"} :
                 /\ RequiredDuration(s[f][i], d) => Has(s[f][i], d) /\ s[f][i][d] \in Nat
                 /\ OptionalDuration(s[f][i], d) /\ Has(s[f][i], d) => s[f][i][d] \in Nat
<1>1. Has(s, f) /\ Len(s[f]) > 0
    BY DEF ListGiven
<1>2. s[f] \in Seq(ToSet(s[f])) /\ \A i \in DOMAIN s[f], d \in {"delay_ms", "duration_ms", "after_ms"} :
                Has(s[f][i], d) => s[f][i][d] \in Int
    BY <1>1 DEF TypedScenario
<1>3. \A i \in DOMAIN s[f] : s[f][i] \in ToSet(s[f])
    BY DEF ToSet
<1> QED BY <1>1, <1>2, <1>3, Zenon, SMT DEF Get, RequiredDuration, OptionalDuration

\* Presses end where scenario_end_ms says, with the same defaults.
LEMMA ButtonPressesLast ==
    ASSUME NEW s, TypedScenario(s), OptionalDuration(s, "initial_delay_ms"), ButtonPressesValid(s),
           s.family = "button_press_sequence"
    PROVE  StepList(ButtonPresses(s)) /\ Time(ButtonPresses(s)) = ScenarioEnd(s)
<1> DEFINE L == s["presses"]
           part == Get(s, "part_id", "btn1")
           seqs == [i \in DOMAIN L |->
                      <<SetControl(part, "pressed", 1), Delay(Get(L[i], "duration_ms", 200)),
                        SetControl(part, "pressed", 0), Delay(Get(L[i], "after_ms", 200))>>]
           d == [i \in DOMAIN L |-> Get(L[i], "duration_ms", 200) + Get(L[i], "after_ms", 200)]
           initial == Get(s, "initial_delay_ms", 200)
<1>1. ListGiven(s, "presses") /\ "presses" \in Lists
    BY DEF ButtonPressesValid, Lists
<1>2. /\ Get(s, "presses", <<>>) = L /\ L \in Seq(ToSet(L)) /\ Len(L) > 0
      /\ \A i \in DOMAIN L : /\ RequiredDuration(L[i], "duration_ms") => Has(L[i], "duration_ms") /\ L[i]["duration_ms"] \in Nat
                             /\ OptionalDuration(L[i], "after_ms") /\ Has(L[i], "after_ms") => L[i]["after_ms"] \in Nat
                             /\ L[i] \in ToSet(L)
    BY <1>1, GivenList
<1>3. \A i \in DOMAIN L : Get(L[i], "duration_ms", 200) \in Nat /\ Get(L[i], "after_ms", 200) \in Nat
    BY <1>2 DEF ButtonPressesValid, Get
<1>4. \A i \in DOMAIN L : StepList(seqs[i]) /\ Time(seqs[i]) = d[i]
    BY <1>3, TimeOfPress
<1>5. ButtonPresses(s) = <<InitialDelay(s)>> \o FlattenSeq(seqs)
    BY <1>2 DEF ButtonPresses, Flat
<1>6. ScenarioEnd(s) = initial + SumFold!Folded(0, d)
    BY <1>2, SumIsFold DEF ScenarioEnd, Total
<1> HIDE DEF seqs, d, initial
<1>7. StepList(FlattenSeq(seqs)) /\ Time(FlattenSeq(seqs)) = SumFold!Folded(0, d)
    <2>1. DOMAIN seqs = DOMAIN L /\ DOMAIN d = DOMAIN L
        BY DEF seqs, d
    <2> QED BY <1>2, <1>4, <2>1, TimeOfItems
<1>8. StepList(<<InitialDelay(s)>>) /\ Time(<<InitialDelay(s)>>) = initial
    BY InitialTime DEF initial
<1> QED BY <1>5, <1>6, <1>7, <1>8, TimeConcat

\* After the first pause come the items of a list, one after the other.
LEMMA ItemsLast ==
    ASSUME NEW s, TypedScenario(s), OptionalDuration(s, "initial_delay_ms"),
           NEW L, L \in Seq(ToSet(L)), Len(L) > 0, NEW seqs, DOMAIN seqs = DOMAIN L,
           NEW d, DOMAIN d = DOMAIN L, \A i \in DOMAIN L : StepList(seqs[i]) /\ Time(seqs[i]) = d[i]
    PROVE  /\ StepList(<<InitialDelay(s)>> \o FlattenSeq(seqs))
           /\ Time(<<InitialDelay(s)>> \o FlattenSeq(seqs)) =
                 Get(s, "initial_delay_ms", 200) + SumFold!Folded(0, d)
<1>1. StepList(FlattenSeq(seqs)) /\ Time(FlattenSeq(seqs)) = SumFold!Folded(0, d)
    BY TimeOfItems
<1>2. StepList(<<InitialDelay(s)>>) /\ Time(<<InitialDelay(s)>>) = Get(s, "initial_delay_ms", 200)
    BY InitialTime
<1> QED BY <1>1, <1>2, TimeConcat

\* The families that hold every value for a time.
HeldTimes(L, otherwise) == [i \in DOMAIN L |-> Get(L[i], "duration_ms", otherwise)]
HeldItems(L, seqs, otherwise) ==
    /\ DOMAIN seqs = DOMAIN L
    /\ \A i \in DOMAIN L : \E part, control, value :
          seqs[i] = <<SetControl(part, control, value), Delay(Get(L[i], "duration_ms", otherwise))>>

\* Values that are held in a row last for the sum of their durations.
LEMMA HeldItemsLast ==
    ASSUME NEW s, TypedScenario(s), OptionalDuration(s, "initial_delay_ms"), NEW f \in Lists, ListGiven(s, f),
           \A i \in DOMAIN s[f] : RequiredDuration(s[f][i], "duration_ms"),
           NEW otherwise, NEW seqs, HeldItems(s[f], seqs, otherwise)
    PROVE  LET steps == <<InitialDelay(s)>> \o FlattenSeq(seqs)
           IN /\ StepList(steps)
              /\ Time(steps) = Get(s, "initial_delay_ms", 200) + SumFold!Folded(0, HeldTimes(s[f], otherwise))
<1> DEFINE L == s[f]
           d == HeldTimes(L, otherwise)
<1>1. /\ L \in Seq(ToSet(L)) /\ Len(L) > 0
      /\ \A i \in DOMAIN L : Has(L[i], "duration_ms") /\ L[i]["duration_ms"] \in Nat
    BY GivenList
<1>2. \A i \in DOMAIN L : Get(L[i], "duration_ms", otherwise) \in Nat
    BY <1>1 DEF Get
<1>3. /\ DOMAIN seqs = DOMAIN L /\ DOMAIN d = DOMAIN L
      /\ \A i \in DOMAIN L : StepList(seqs[i]) /\ Time(seqs[i]) = d[i]
    BY <1>2, TimeOfHold DEF HeldItems, HeldTimes
<1> HIDE DEF d, L
<1>4. /\ StepList(<<InitialDelay(s)>> \o FlattenSeq(seqs))
      /\ Time(<<InitialDelay(s)>> \o FlattenSeq(seqs)) =
                 Get(s, "initial_delay_ms", 200) + SumFold!Folded(0, d)
    BY <1>1, <1>3, ItemsLast
<1> QED BY <1>4 DEF d, L

\* Positions end where scenario_end_ms says.
LEMMA AnalogPositionsLast ==
    ASSUME NEW s, TypedScenario(s), OptionalDuration(s, "initial_delay_ms"), AnalogPositionsValid(s),
           s.family = "analog_position_sequence"
    PROVE  StepList(AnalogPositions(s)) /\ Time(AnalogPositions(s)) = ScenarioEnd(s)
<1> DEFINE L == s["positions"]
           part == Get(s, "part_id", "pot1")
           seqs == [i \in DOMAIN L |-> <<SetControl(part, "position", L[i].value), Delay(Get(L[i], "duration_ms", 300))>>]
           held == <<InitialDelay(s)>> \o FlattenSeq(seqs)
<1>1. ListGiven(s, "positions") /\ "positions" \in Lists
    BY DEF AnalogPositionsValid, Lists
<1>2. Get(s, "positions", <<>>) = L /\ \A i \in DOMAIN L : L[i] \in ToSet(L)
    BY <1>1, GivenList
<1>3. \A i \in DOMAIN L : RequiredDuration(L[i], "duration_ms")
    BY <1>2 DEF AnalogPositionsValid
<1>4. HeldItems(L, seqs, 300)
    BY DEF HeldItems
<1>5. AnalogPositions(s) = held
    BY <1>2 DEF AnalogPositions, Flat
<1>6. ScenarioEnd(s) = Get(s, "initial_delay_ms", 200) + SumFold!Folded(0, HeldTimes(L, 300))
    BY <1>2, SumIsFold DEF ScenarioEnd, Total, HeldTimes
<1> HIDE DEF seqs
<1>7. StepList(held) /\ Time(held) = ScenarioEnd(s)
    BY <1>1, <1>3, <1>4, <1>6, HeldItemsLast
<1> HIDE DEF held
<1> QED BY <1>5, <1>7

\* Controls end where scenario_end_ms says.
LEMMA ControlSequenceLasts ==
    ASSUME NEW s, TypedScenario(s), ControlSequenceValid(s), s.family = "control_sequence"
    PROVE  StepList(ControlSequence(s)) /\ Time(ControlSequence(s)) = ScenarioEnd(s)
<1> DEFINE L == s["controls"]
           seqs == [i \in DOMAIN L |-> <<SetControl(L[i].part_id, L[i].control, L[i].value),
                                         Delay(Get(L[i], "duration_ms", 300))>>]
           held == <<InitialDelay(s)>> \o FlattenSeq(seqs)
<1>1. ListGiven(s, "controls") /\ "controls" \in Lists /\ OptionalDuration(s, "initial_delay_ms")
    BY DEF ControlSequenceValid, Lists
<1>2. Get(s, "controls", <<>>) = L /\ \A i \in DOMAIN L : L[i] \in ToSet(L)
    BY <1>1, GivenList
<1>3. \A i \in DOMAIN L : RequiredDuration(L[i], "duration_ms")
    BY <1>2 DEF ControlSequenceValid
<1>4. HeldItems(L, seqs, 300)
    BY DEF HeldItems
<1>5. ControlSequence(s) = held
    BY <1>2 DEF ControlSequence, Flat
<1>6. ScenarioEnd(s) = Get(s, "initial_delay_ms", 200) + SumFold!Folded(0, HeldTimes(L, 300))
    BY <1>2, SumIsFold DEF ScenarioEnd, Total, HeldTimes
<1> HIDE DEF seqs
<1>7. StepList(held) /\ Time(held) = ScenarioEnd(s)
    BY <1>1, <1>3, <1>4, <1>6, HeldItemsLast
<1> HIDE DEF held
<1> QED BY <1>5, <1>7

\* States of the motion sensor do, the last release taking no time.
LEMMA PirStatesLast ==
    ASSUME NEW s, TypedScenario(s), OptionalDuration(s, "initial_delay_ms"), PirStatesValid(s),
           s.family = "pir_state_sequence"
    PROVE  StepList(PirStates(s)) /\ Time(PirStates(s)) = ScenarioEnd(s)
<1> DEFINE L == s["states"]
           part == Get(s, "part_id", "pir1")
           seqs == [i \in DOMAIN L |-> <<SetControl(part, "pressed", L[i].value), Delay(Get(L[i], "duration_ms", 300))>>]
           held == <<InitialDelay(s)>> \o FlattenSeq(seqs)
           last == <<SetControl(part, "pressed", 0)>>
<1>1. ListGiven(s, "states") /\ "states" \in Lists
    BY DEF PirStatesValid, Lists
<1>2. Get(s, "states", <<>>) = L /\ \A i \in DOMAIN L : L[i] \in ToSet(L)
    BY <1>1, GivenList
<1>3. \A i \in DOMAIN L : RequiredDuration(L[i], "duration_ms")
    BY <1>2 DEF PirStatesValid
<1>4. HeldItems(L, seqs, 300)
    BY DEF HeldItems
<1>5. PirStates(s) = held \o last
    BY <1>2 DEF PirStates, Flat
<1>6. ScenarioEnd(s) = Get(s, "initial_delay_ms", 200) + SumFold!Folded(0, HeldTimes(L, 300))
    BY <1>2, SumIsFold DEF ScenarioEnd, Total, HeldTimes
<1>7. StepList(last) /\ Time(last) = 0
    BY TimeOfOne
<1> HIDE DEF seqs, last
<1>8. StepList(held) /\ Time(held) = ScenarioEnd(s)
    BY <1>1, <1>3, <1>4, <1>6, HeldItemsLast
<1> HIDE DEF held
<1>9. Time(held) \in Nat
    BY <1>8, PausesAreSeq
<1> QED BY <1>5, <1>7, <1>8, <1>9, TimeConcat

\* Bounces do, with the final delay.
LEMMA BouncedButtonLasts ==
    ASSUME NEW s, TypedScenario(s), OptionalDuration(s, "initial_delay_ms"),
           OptionalDuration(s, "final_delay_ms"), BouncedButtonValid(s),
           s.family = "bounced_button_sequence"
    PROVE  StepList(BouncedButton(s)) /\ Time(BouncedButton(s)) = ScenarioEnd(s)
<1> DEFINE L == s["sequence"]
           part == Get(s, "part_id", "btn1")
           seqs == [i \in DOMAIN L |-> <<SetControl(part, "pressed", L[i].value), Delay(Get(L[i], "duration_ms", 1))>>]
           held == <<InitialDelay(s)>> \o FlattenSeq(seqs)
           final == Get(s, "final_delay_ms", 250)
           last == <<SetControl(part, "pressed", 0), Delay(final)>>
<1>1. ListGiven(s, "sequence") /\ "sequence" \in Lists
    BY DEF BouncedButtonValid, Lists
<1>2. Get(s, "sequence", <<>>) = L /\ \A i \in DOMAIN L : L[i] \in ToSet(L)
    BY <1>1, GivenList
<1>3. \A i \in DOMAIN L : RequiredDuration(L[i], "duration_ms")
    BY <1>2 DEF BouncedButtonValid
<1>4. HeldItems(L, seqs, 1)
    BY DEF HeldItems
<1>5. BouncedButton(s) = held \o last
    BY <1>2 DEF BouncedButton, Flat
<1>6. ScenarioEnd(s) = Get(s, "initial_delay_ms", 200) + SumFold!Folded(0, HeldTimes(L, 1)) + final
    BY <1>2, SumIsFold DEF ScenarioEnd, Total, HeldTimes
<1>7. StepList(last) /\ Time(last) = final
    <2>1. final \in Nat
        BY DEF TypedScenario, OptionalDuration, Get, Has
    <2> QED BY <2>1, TimeOfHold
<1> HIDE DEF seqs, last, final
<1>8. StepList(held) /\ Time(held) = Get(s, "initial_delay_ms", 200) + SumFold!Folded(0, HeldTimes(L, 1))
    BY <1>1, <1>3, <1>4, HeldItemsLast
<1> HIDE DEF held
<1> QED BY <1>5, <1>6, <1>7, <1>8, TimeConcat

\* Timelines do, which have no first pause.
LEMMA TimelineLasts ==
    ASSUME NEW s, TypedScenario(s), TimelineValid(s), s.family = "timeline"
    PROVE  StepList(Timeline(s)) /\ Time(Timeline(s)) = ScenarioEnd(s)
<1> DEFINE L == s["steps"]
           seqs == [i \in DOMAIN L |->
                       IF Has(L[i], "delay_ms") THEN <<Delay(L[i].delay_ms)>>
                       ELSE <<SetControl(L[i].set_control.part_id, L[i].set_control.control,
                                         L[i].set_control.value)>>]
           d == [i \in DOMAIN L |-> Get(L[i], "delay_ms", 0)]
<1>1. ListGiven(s, "steps") /\ "steps" \in Lists
    BY DEF TimelineValid, Lists
<1>2. /\ Get(s, "steps", <<>>) = L /\ L \in Seq(ToSet(L)) /\ Len(L) > 0
      /\ \A i \in DOMAIN L : /\ RequiredDuration(L[i], "delay_ms") => Has(L[i], "delay_ms") /\ L[i]["delay_ms"] \in Nat
                             /\ L[i] \in ToSet(L)
    BY <1>1, GivenList
<1>3. \A i \in DOMAIN L : Has(L[i], "delay_ms") => L[i]["delay_ms"] \in Nat
    BY <1>2 DEF TimelineValid
<1>4. \A i \in DOMAIN L : StepList(seqs[i]) /\ Time(seqs[i]) = d[i]
    BY <1>3, TimeOfOne DEF Get
<1>5. Timeline(s) = FlattenSeq(seqs)
    BY <1>2 DEF Timeline, Flat
<1>6. ScenarioEnd(s) = SumFold!Folded(0, d)
    BY <1>2, SumIsFold DEF ScenarioEnd, Total
<1>7. DOMAIN seqs = DOMAIN L /\ DOMAIN d = DOMAIN L
    OBVIOUS
<1> HIDE DEF seqs, d
<1> QED BY <1>2, <1>4, <1>5, <1>6, <1>7, TimeOfItems

\* What the configuration check counts as the end of a stimulus is when its last
\* step ends, for every scenario the check lets through.
THEOREM ScenarioEndIsTheEnd ==
    ASSUME NEW s, TypedScenario(s), s.family \in Families, ScenarioValid(s)
    PROVE  StepList(GenerateScenario(s)) /\ Time(GenerateScenario(s)) = ScenarioEnd(s)
<1>1. CASE s.family = "timeline"
    BY <1>1, TimelineLasts DEF ScenarioValid, GenerateScenario
<1>2. CASE s.family = "control_sequence"
    BY <1>2, ControlSequenceLasts DEF ScenarioValid, GenerateScenario
<1>3. CASE s.family = "button_press_sequence"
    BY <1>3, ButtonPressesLast DEF ScenarioValid, GenerateScenario
<1>4. CASE s.family = "bounced_button_sequence"
    BY <1>4, BouncedButtonLasts DEF ScenarioValid, GenerateScenario
<1>5. CASE s.family = "pir_state_sequence"
    BY <1>5, PirStatesLast DEF ScenarioValid, GenerateScenario
<1>6. CASE s.family = "analog_position_sequence"
    BY <1>6, AnalogPositionsLast DEF ScenarioValid, GenerateScenario
<1> QED BY <1>1, <1>2, <1>3, <1>4, <1>5, <1>6 DEF Families

-----------------------------------------------------------------------------
(* The level at a time *)

\* The level that a trace tells at a time.
Shows(trace, t, v) ==
  \E k \in 1..Len(trace) : /\ trace[k].at <= t /\ trace[k].v = v
                           /\ k < Len(trace) => t < trace[k + 1].at

\* Times that increase from event to event increase throughout.
LEMMA TimesIncrease ==
  ASSUME NEW V, NEW trace \in Seq(Event(V)), \A i \in 2..Len(trace) : trace[i - 1].at < trace[i].at
  PROVE  \A i, j \in 1..Len(trace) : i < j => trace[i].at < trace[j].at
<1> DEFINE n == Len(trace)
           T == {d \in Nat : \A i \in 1..n : i + d + 1 \in 1..n => trace[i].at < trace[i + d + 1].at}
<1>0. n \in Nat /\ \A i \in 1..n : trace[i].at \in Int
  BY EventsOfLog
<1>1. 0 \in T
  <2>1. ASSUME NEW i \in 1..n, i + 0 + 1 \in 1..n PROVE trace[i].at < trace[i + 0 + 1].at
    <3>1. i + 1 \in 2..n /\ (i + 1) - 1 = i /\ i + 0 + 1 = i + 1
      BY <1>0, <2>1
    <3> QED BY <3>1
  <2> QED BY <2>1
<1>2. ASSUME NEW d \in Nat, d \in T PROVE d + 1 \in T
  <2>1. ASSUME NEW i \in 1..n, i + (d + 1) + 1 \in 1..n PROVE trace[i].at < trace[i + (d + 1) + 1].at
    <3>1. /\ i + d + 1 \in 1..n /\ i + (d + 1) + 1 \in 2..n
          /\ (i + (d + 1) + 1) - 1 = i + d + 1
      BY <1>0, <2>1
    <3>2. trace[i].at < trace[i + d + 1].at
      BY <1>2, <3>1
    <3>3. trace[i + d + 1].at < trace[i + (d + 1) + 1].at
      BY <3>1
    <3> HIDE DEF n
    <3> QED BY <1>0, <2>1, <3>1, <3>2, <3>3
  <2> QED BY <2>1
<1> HIDE DEF T
<1>3. Nat \subseteq T
  BY <1>1, <1>2, NormalizeFold!NatSet
<1>4. ASSUME NEW i \in 1..n, NEW j \in 1..n, i < j PROVE trace[i].at < trace[j].at
  <2>1. j - i - 1 \in Nat /\ i + (j - i - 1) + 1 = j
    BY <1>0, <1>4
  <2> QED BY <1>3, <1>4, <2>1 DEF T
<1> QED BY <1>4

\* The reader of a signal finds that level.
LEMMA ReaderFindsLevel ==
  ASSUME NEW V, NEW trace \in Seq(Event(V)), \A i \in 2..Len(trace) : trace[i - 1].at < trace[i].at,
         NEW t \in Int, NEW v, Shows(trace, t, v)
  PROVE  ValueAt(trace, t) = v
<1> DEFINE n == Len(trace)
<1>1. PICK k \in 1..n : trace[k].at <= t /\ trace[k].v = v /\ (k < n => t < trace[k + 1].at)
  BY DEF Shows
<1>2. n \in Nat /\ \A i \in 1..n : trace[i].at \in Int
  BY EventsOfLog
<1>3. {i \in 1..n : trace[i].at <= t} = 1..k
  <2>1. ASSUME NEW i \in 1..k PROVE i \in 1..n /\ trace[i].at <= t
    <3>1. i \in 1..n
      BY <1>2
    <3>2. i # k => trace[i].at < trace[k].at
      BY <3>1, TimesIncrease
    <3> QED BY <1>1, <1>2, <3>1, <3>2
  <2>2. ASSUME NEW i \in 1..n, trace[i].at <= t PROVE i \in 1..k
    <3>1. SUFFICES ASSUME i > k PROVE FALSE
      BY <1>2
    <3>2. k < n /\ k + 1 \in 1..n /\ (i # k + 1 => k + 1 < i)
      BY <1>2, <3>1
    <3>3. i # k + 1 => trace[k + 1].at < trace[i].at
      BY <3>2, TimesIncrease
    <3> QED BY <1>1, <1>2, <2>2, <3>2, <3>3
  <2> QED BY <2>1, <2>2
<1>4. Cardinality(1..k) = k
  BY <1>2, FS_Interval
<1>5. DOMAIN trace = 1..n /\ trace # <<>>
  BY <1>1
<1> DEFINE seen == Cardinality({i \in DOMAIN trace : trace[i].at <= t})
<1>6. seen = k /\ k # 0
  <2>1. {i \in DOMAIN trace : trace[i].at <= t} = 1..k
    BY <1>3, <1>5
  <2>2. seen = Cardinality(1..k)
    BY <2>1
  <2> HIDE DEF seen
  <2> QED BY <1>2, <1>4, <2>2
<1>7. ValueAt(trace, t) = IF trace = <<>> THEN 0 ELSE IF seen = 0 THEN trace[1].v ELSE trace[seen].v
  BY DEF ValueAt
<1> HIDE DEF seen
<1> QED BY <1>1, <1>5, <1>6, <1>7

\* An event does not change what a trace tells of the time before it.
LEMMA EarlierIsKept ==
  ASSUME NEW V, NEW trace \in Seq(Event(V)), trace # <<>>, NEW e \in Event(V), Last(trace).at <= e.at,
         NEW t \in Int, t < e.at, NEW v, Shows(trace, t, v)
  PROVE  Shows(Normalize(trace, e), t, v)
<1> DEFINE n == Len(trace)
           new == Normalize(trace, e)
<1>1. /\ n \in Nat \ {0} /\ Last(trace) = trace[n]
      /\ Front(trace) \in Seq(Event(V)) /\ Len(Front(trace)) = n - 1
      /\ \A i \in 1..(n - 1) : Front(trace)[i] = trace[i]
  BY FrontAndLast
<1>2. PICK k \in 1..n : trace[k].at <= t /\ trace[k].v = v /\ (k < n => t < trace[k + 1].at)
  BY DEF Shows
<1>3. e.at \in Int /\ \A i \in 1..n : trace[i].at \in Int
  BY EventsOfLog
<1>4. CASE Last(trace).at = e.at
  <2>1. k # n
    BY <1>1, <1>2, <1>3, <1>4
  <2>2. k \in 1..(n - 1)
    BY <1>1, <2>1
  <2>3. CASE n > 1 /\ trace[n - 1].v = e.v
    <3>1. new = Front(trace)
      BY <1>4, <2>3 DEF Normalize
    <3> HIDE DEF new
    <3>2. Len(new) = n - 1 /\ \A i \in 1..(n - 1) : new[i] = trace[i]
      BY <1>1, <3>1
    <3>3. k < n - 1 => k + 1 \in 1..(n - 1)
      BY <1>1, <2>2
    <3>5. k \in 1..Len(new) /\ new[k] = trace[k] /\ (k < Len(new) => new[k + 1] = trace[k + 1] /\ k < n)
      BY <1>1, <2>2, <3>2, <3>3
    <3>4. Shows(new, t, v)
      BY <1>2, <3>5 DEF Shows
    <3> QED BY <3>4 DEF new
  <2>4. CASE ~(n > 1 /\ trace[n - 1].v = e.v)
    <3>1. new = Append(Front(trace), e)
      BY <1>4, <2>4 DEF Normalize
    <3> HIDE DEF new
    <3>2. Len(new) = n /\ new[n] = e /\ \A i \in 1..(n - 1) : new[i] = trace[i]
      BY <1>1, <3>1
    <3>3. new[k + 1].at = trace[k + 1].at
      <4>1. CASE k + 1 = n
        BY <1>1, <1>4, <3>2, <4>1
      <4>2. CASE k + 1 # n
        <5>1. k + 1 \in 1..(n - 1)
          BY <1>1, <2>2, <4>2
        <5> QED BY <3>2, <5>1
      <4> QED BY <4>1, <4>2
    <3>4. k < n /\ new[k] = trace[k]
      BY <1>1, <2>2, <3>2
    <3>5. Shows(new, t, v)
      BY <1>2, <3>2, <3>3, <3>4 DEF Shows
    <3> QED BY <3>5 DEF new
  <2> QED BY <2>3, <2>4
<1>5. CASE Last(trace).at # e.at /\ Last(trace).v = e.v
  BY <1>5 DEF Normalize
<1>6. CASE Last(trace).at # e.at /\ Last(trace).v # e.v
  <2>1. new = Append(trace, e)
    BY <1>6 DEF Normalize
  <2> HIDE DEF new
  <2>2. Len(new) = n + 1 /\ new[n + 1] = e /\ \A i \in 1..n : new[i] = trace[i]
    BY <2>1
  <2>3. k \in 1..(n + 1) /\ new[k] = trace[k] /\ t < new[k + 1].at
    <3>1. CASE k = n
      BY <1>1, <2>2, <3>1
    <3>2. CASE k # n
      <4>1. k < n /\ k + 1 \in 1..n /\ k \in 1..n
        BY <1>1, <3>2
      <4>2. new[k] = trace[k] /\ new[k + 1] = trace[k + 1]
        BY <2>2, <4>1
      <4> QED BY <1>1, <1>2, <4>1, <4>2
    <3> QED BY <3>1, <3>2
  <2>4. Shows(new, t, v)
    BY <1>2, <2>2, <2>3 DEF Shows
  <2> QED BY <2>4 DEF new
<1> QED BY <1>4, <1>5, <1>6

\* Change c of a log is the last one at time t.
Current(log, n, c, t) == c \in 1..n /\ log[c].at <= t /\ \A j \in (c + 1)..n : t < log[j].at

\* What was read of a log tells, of any time from its first change on, the level of
\* the last change by then; however many changes share an instant.
THEOREM ReaderTellsEveryLevel ==
  ASSUME NEW V, NEW log, NEW n, Log(V, log, n), NEW t \in Int, NEW c, Current(log, n, c, t)
  PROVE  /\ Shows(NormalizeEvents(log), t, log[c].v)
         /\ ValueAt(NormalizeEvents(log), t) = log[c].v
<1> DEFINE v == log[c].v
           Good(i) == {a \in Tells(V, log[i]) : i >= c => Shows(a, t, v)}
           J == [i \in 0..n |-> IF i = 0 THEN {<<>>} ELSE Good(i)]
<1>1. n \in Nat \ {0} /\ DOMAIN log = 1..n /\ \A i \in 1..n : log[i] \in Event(V) /\ log[i].at \in Int
  BY EventsOfLog
<1>2. n \in Nat /\ DOMAIN log = 1..n /\ <<>> \in J[0]
  BY <1>1
<1>3. c \in 1..n /\ log[c].at <= t /\ \A j \in (c + 1)..n : t < log[j].at
  BY DEF Current
<1>4. \A i \in 1..n : \A a \in J[i - 1] : Normalize(a, log[i]) \in J[i]
  <2> TAKE i \in 1..n
  <2> DEFINE e == log[i]
  <2>1. e \in Event(V) /\ e.at \in Int
    BY <1>1
  <2>2. J[i] = Good(i)
    BY <1>1
  <2>3. \A a \in J[i - 1] : Normalize(a, e) \in Tells(V, e) /\ (a # <<>> => a \in Seq(Event(V)) /\ Last(a).at <= e.at)
    <3>1. CASE i = 1
      <4>1. J[i - 1] = {<<>>}
        BY <1>1, <3>1
      <4>2. Normalize(<<>>, e) = <<e>>
        BY DEF Normalize
      <4> HIDE DEF J, e
      <4>3. <<e>> \in Tells(V, e)
        BY <2>1 DEF Tells, History, Last
      <4> QED BY <4>1, <4>2, <4>3
    <3>2. CASE i # 1
      <4>1. i \in 2..n /\ J[i - 1] = Good(i - 1) /\ i - 1 \in 1..n
        BY <1>1, <3>2
      <4>2. log[i - 1].at <= e.at /\ log[i - 1].at \in Int
        BY <1>1, <4>1 DEF Log
      <4>0. Good(i - 1) \subseteq Tells(V, log[i - 1])
        OBVIOUS
      <4> HIDE DEF J, e, Good
      <4>3. ASSUME NEW a \in Tells(V, log[i - 1])
            PROVE Normalize(a, e) \in Tells(V, e) /\ a \in Seq(Event(V)) /\ Last(a).at <= e.at
        <5>1. a \in Seq(Event(V)) /\ a # <<>> /\ History(a) /\ Last(a).at <= log[i - 1].at
          BY DEF Tells
        <5>2. Last(a).at \in Int
          BY <5>1, FrontAndLast DEF Event
        <5>3. Last(a).at <= e.at
          BY <2>1, <4>2, <5>1, <5>2
        <5> QED BY <2>1, <5>1, <5>3, NormalizeKeepsHistory DEF Tells
      <4> QED BY <4>1, <4>0, <4>3
    <3> QED BY <3>1, <3>2
  <2>4. ASSUME NEW a \in J[i - 1], i >= c PROVE Shows(Normalize(a, e), t, v)
    <3>1. CASE i = c
      <4> DEFINE b == Normalize(a, e)
                 m == Len(b)
      <4>1. b \in Seq(Event(V)) /\ b # <<>> /\ Last(b).v = e.v /\ Last(b).at <= e.at
        BY <2>3 DEF Tells
      <4> HIDE DEF b
      <4>2. m \in Nat \ {0} /\ Last(b) = b[m] /\ b[m].at \in Int
        BY <4>1, FrontAndLast DEF Event
      <4>3. b[m].at <= t /\ b[m].v = v
        BY <1>3, <2>1, <3>1, <4>1, <4>2
      <4>4. m \in 1..m
        BY <4>2
      <4>5. Shows(b, t, v)
        BY <4>2, <4>3, <4>4 DEF Shows
      <4> QED BY <4>5 DEF b
    <3>2. CASE i # c
      <4>1. i \in (c + 1)..n /\ i - 1 >= c /\ i # 1
        BY <1>1, <1>3, <2>4, <3>2
      <4>2. t < e.at
        BY <1>3, <4>1
      <4>3. J[i - 1] = Good(i - 1)
        BY <1>1, <4>1
      <4>4. a \in Good(i - 1)
        BY <2>4, <4>3
      <4>5. a \in Tells(V, log[i - 1]) /\ Shows(a, t, v)
        BY <4>1, <4>4
      <4>6. a # <<>> /\ a \in Seq(Event(V)) /\ Last(a).at <= e.at
        BY <2>3, <2>4, <4>5 DEF Tells
      <4> HIDE DEF J, e, Good, v
      <4> QED BY <2>1, <4>2, <4>5, <4>6, EarlierIsKept
    <3> QED BY <3>1, <3>2
  <2> HIDE DEF J, v
  <2> QED BY <2>2, <2>3, <2>4
<1>5. J[n] = Good(n)
  BY <1>1
<1> HIDE DEF J
<1>6. NormalizeFold!Folded(<<>>, log) \in J[n]
  BY ONLY <1>2, <1>4, NormalizeFold!FoldKeeps
<1>7. NormalizeEvents(log) \in Tells(V, log[n]) /\ Shows(NormalizeEvents(log), t, v)
  <2>1. n >= c
    BY <1>1, <1>3
  <2>2. NormalizeEvents(log) \in Good(n)
    BY <1>5, <1>6, ReadersAreFolds
  <2> QED BY <2>1, <2>2
<1> HIDE DEF v
<1> DEFINE trace == NormalizeEvents(log)
<1>8. trace \in Seq(Event(V)) /\ \A i \in 2..Len(trace) : trace[i - 1].at < trace[i].at
  BY <1>7 DEF Tells, History
<1> HIDE DEF trace
<1>9. ValueAt(trace, t) = v
  BY <1>7, <1>8, ReaderFindsLevel DEF trace
<1> QED BY <1>7, <1>9 DEF trace, v

-----------------------------------------------------------------------------
(* The lines of the bus *)

\* A history is read as it is.
LEMMA HistoryIsRead ==
  ASSUME NEW V, NEW log, NEW n, Log(V, log, n), History(log)
  PROVE  NormalizeEvents(log) = log
<1> DEFINE Upto(i) == [j \in 1..i |-> log[j]]
           J == [i \in 0..n |-> {Upto(i)}]
<1>1. n \in Nat \ {0} /\ DOMAIN log = 1..n /\ \A i \in 1..n : log[i] \in Event(V) /\ log[i].at \in Int
  BY EventsOfLog
<1>2. n \in Nat /\ DOMAIN log = 1..n /\ <<>> \in J[0]
  <2>1. Upto(0) = <<>>
    OBVIOUS
  <2> QED BY <1>1, <2>1
<1>3. \A i \in 1..n : \A a \in J[i - 1] : Normalize(a, log[i]) \in J[i]
  <2> TAKE i \in 1..n
  <2> DEFINE e == log[i]
             a == Upto(i - 1)
  <2>1. J[i - 1] = {a} /\ J[i] = {Upto(i)}
    BY <1>1
  <2>2. Normalize(a, e) = Upto(i)
    <3>1. CASE i = 1
      <4>1. a = <<>> /\ Upto(i) = <<e>>
        BY <3>1
      <4> HIDE DEF a, e
      <4> QED BY <4>1 DEF Normalize
    <3>2. CASE i # 1
      <4>1. i \in 2..n /\ i - 1 \in 1..n /\ i - 1 \in Nat \ {0}
        BY <1>1, <3>2
      <4>2. a \in Seq(Event(V)) /\ Len(a) = i - 1 /\ a[i - 1] = log[i - 1] /\ a # <<>>
        <5>1. \A j \in 1..(i - 1) : log[j] \in Event(V)
          BY <1>1, <4>1
        <5> QED BY <4>1, <5>1
      <4>3. log[i - 1].at < e.at /\ log[i - 1].v # e.v
        <5>1. Len(log) = n
          BY DEF Log
        <5> QED BY <4>1, <5>1 DEF History
      <4>4. Upto(i) = Append(a, e)
        <5>1. Len(a) = i - 1 /\ a = [j \in 1..(i - 1) |-> log[j]]
          BY <4>2
        <5>2. Append(a, e) = [j \in 1..i |-> IF j = i THEN e ELSE log[j]]
          BY <1>1, <4>1, <5>1
        <5> QED BY <4>1, <5>2
      <4>5. log[i - 1].at # e.at
        BY <1>1, <4>1, <4>3
      <4>6. Last(a) = log[i - 1]
        BY <4>2 DEF Last
      <4> HIDE DEF a, e
      <4> QED BY <4>2, <4>3, <4>4, <4>5, <4>6 DEF Normalize
    <3> QED BY <3>1, <3>2
  <2> HIDE DEF a, J
  <2> QED BY <2>1, <2>2
<1>4. J[n] = {Upto(n)}
  BY <1>1
<1> HIDE DEF J
<1>5. NormalizeFold!Folded(<<>>, log) \in J[n]
  BY ONLY <1>2, <1>3, NormalizeFold!FoldKeeps
<1>6. Upto(n) = log
  <2>1. log \in Seq(Event(V)) /\ Len(log) = n
    BY DEF Log
  <2> QED BY <2>1
<1> QED BY <1>4, <1>5, <1>6, ReadersAreFolds

\* Before its first change a line of the bus is low.
Low == [at |-> 0, v |-> 0]

\* The trace of a data line tells, at the end of each pulse, the level of that pulse.
LEMMA LineTellsLevel ==
  ASSUME NEW n \in Nat, NEW levels \in [1..n -> {0, 1}], NEW tick \in 0..4, NEW p \in 1..n
  PROVE  ValueAt(NormalizeEvents(<<Low>> \o LineLog(tick, levels)), 7 * p + 6) = levels[p]
<1> DEFINE log == <<Low>> \o LineLog(tick, levels)
           V == {0, 1}
<1>1. LineLog(tick, levels) = [q \in 1..n |-> [at |-> 7 * q + tick, v |-> levels[q]]]
  BY DEF LineLog
<1>2. /\ LineLog(tick, levels) \in Seq(Event(V)) /\ Len(LineLog(tick, levels)) = n
      /\ <<Low>> \in Seq(Event(V)) /\ Len(<<Low>>) = 1
  <2>1. \A q \in 1..n : [at |-> 7 * q + tick, v |-> levels[q]] \in Event(V)
    BY DEF Event
  <2>2. Low \in Event(V)
    BY DEF Low, Event
  <2> QED BY <1>1, <2>1, <2>2
<1>3. /\ log \in Seq(Event(V)) /\ Len(log) = n + 1 /\ log[1] = Low
      /\ \A q \in 1..n : log[q + 1] = [at |-> 7 * q + tick, v |-> levels[q]]
  <2>1. /\ log \in Seq(Event(V)) /\ Len(log) = 1 + n
        /\ \A q \in 1..1 : log[q] = <<Low>>[q]
        /\ \A q \in 1..n : log[1 + q] = LineLog(tick, levels)[q]
    <3> HIDE DEF V
    <3> QED BY ONLY <1>2, JoinAny
  <2>2. \A q \in 1..n : log[1 + q] = [at |-> 7 * q + tick, v |-> levels[q]] /\ 1 + q = q + 1
    BY <1>1, <2>1
  <2> HIDE DEF log
  <2> QED BY <2>1, <2>2
<1> HIDE DEF log
<1>4. ASSUME NEW i \in 2..(n + 1) PROVE log[i].at = 7 * (i - 1) + tick /\ log[i].v = levels[i - 1]
  <2> DEFINE q == i - 1
  <2>1. q \in 1..n /\ q + 1 = i
    OBVIOUS
  <2> HIDE DEF q
  <2>2. log[q + 1] = [at |-> 7 * q + tick, v |-> levels[q]]
    BY <1>3, <2>1
  <2>3. log[i].at = 7 * q + tick /\ log[i].v = levels[q]
    BY <2>1, <2>2
  <2> QED BY <2>3 DEF q
<1>5. ASSUME NEW i \in 2..(n + 1) PROVE log[i - 1].at <= log[i].at
  <2>1. CASE i = 2
    BY <1>3, <1>4, <2>1 DEF Low
  <2>2. CASE i # 2
    <3>1. i - 1 \in 2..(n + 1)
      BY <2>2
    <3> QED BY <1>4, <3>1
  <2> QED BY <2>1, <2>2
<1>6. Log(V, log, n + 1)
  BY <1>3, <1>5 DEF Log
<1>7. Current(log, n + 1, p + 1, 7 * p + 6)
  <2>1. p + 1 \in 2..(n + 1) /\ (p + 1) - 1 = p
    OBVIOUS
  <2>2. log[p + 1].at = 7 * p + tick
    BY <1>4, <2>1
  <2>3. ASSUME NEW j \in (p + 1 + 1)..(n + 1) PROVE 7 * p + 6 < log[j].at
    <3>1. j \in 2..(n + 1) /\ j >= p + 2
      BY <2>3
    <3>2. log[j].at = 7 * (j - 1) + tick
      BY <1>4, <3>1
    <3> QED BY <3>1, <3>2
  <2> QED BY <2>1, <2>2, <2>3 DEF Current
<1>8. ValueAt(NormalizeEvents(log), 7 * p + 6) = log[p + 1].v
  BY <1>6, <1>7, ReaderTellsEveryLevel
<1>9. log[p + 1].v = levels[p]
  <2>1. log[p + 1] = [at |-> 7 * p + tick, v |-> levels[p]]
    BY <1>3
  <2> QED BY <2>1
<1> QED BY <1>8, <1>9 DEF log

FallFold == INSTANCE Folding WITH Op <- AddFall

\* The trace of the enable line falls at the end of each pulse and nowhere else.
LEMMA EnableFalls ==
  ASSUME NEW n \in Nat
  PROVE  FallingEdges(NormalizeEvents(<<Low>> \o EnableLog(n))) = [p \in 1..n |-> 7 * p + 6]
<1> DEFINE log == <<Low>> \o EnableLog(n)
           V == {0, 1}
           w(i) == IF i % 2 = 1 THEN [at |-> 7 * ((i + 1) \div 2) + 5, v |-> 1]
                   ELSE [at |-> 7 * (i \div 2) + 6, v |-> 0]
<1>1. EnableLog(n) = [i \in 1..(2 * n) |-> w(i)]
  BY DEF EnableLog
<1>2. \A i \in 1..(2 * n) : w(i) \in Event(V)
  BY DEF Event
<1>3. /\ EnableLog(n) \in Seq(Event(V)) /\ Len(EnableLog(n)) = 2 * n
      /\ <<Low>> \in Seq(Event(V)) /\ Len(<<Low>>) = 1
  <2>1. Low \in Event(V)
    BY DEF Low, Event
  <2> HIDE DEF w
  <2> QED BY <1>1, <1>2, <2>1
<1>4. /\ log \in Seq(Event(V)) /\ Len(log) = 2 * n + 1 /\ log[1] = Low
      /\ \A i \in 1..(2 * n) : log[i + 1] = w(i)
  <2>1. /\ log \in Seq(Event(V)) /\ Len(log) = 1 + 2 * n
        /\ \A q \in 1..1 : log[q] = <<Low>>[q]
        /\ \A q \in 1..(2 * n) : log[1 + q] = EnableLog(n)[q]
    <3> HIDE DEF V
    <3> QED BY ONLY <1>3, JoinAny
  <2> HIDE DEF log, w
  <2>2. \A q \in 1..(2 * n) : log[1 + q] = w(q) /\ 1 + q = q + 1
    BY <1>1, <2>1
  <2> QED BY <2>1, <2>2
<1> HIDE DEF log
<1>5. ASSUME NEW i \in 2..(2 * n + 1)
      PROVE  log[i - 1].at < log[i].at /\ log[i - 1].v # log[i].v
  <2>1. i - 1 \in 1..(2 * n) /\ (i - 1) + 1 = i
    OBVIOUS
  <2>2. log[i] = w(i - 1)
    BY <1>4, <2>1
  <2>3. CASE i = 2
    BY <1>4, <2>2, <2>3 DEF Low
  <2>4. CASE i # 2
    <3>1. i - 2 \in 1..(2 * n) /\ (i - 2) + 1 = i - 1
      BY <2>4
    <3>2. log[i - 1] = w(i - 2)
      BY <1>4, <3>1
    <3> QED BY <2>2, <2>4, <3>2
  <2> QED BY <2>3, <2>4
<1>6. Log(V, log, 2 * n + 1) /\ History(log)
  <2>1. ASSUME NEW i \in 2..(2 * n + 1) PROVE log[i - 1].at <= log[i].at
    <3>1. i \in 1..Len(log) /\ i - 1 \in 1..Len(log)
      BY <1>4
    <3>2. log[i].at \in Int /\ log[i - 1].at \in Int
      BY <1>4, <3>1, EventsOfLog
    <3> QED BY <1>5, <3>2
  <2> QED BY <1>4, <1>5, <2>1 DEF Log, History
<1>7. NormalizeEvents(log) = log
  BY <1>6, HistoryIsRead
<1> DEFINE m == 2 * n
           pairs == [i \in 1..m |-> <<log[i], log[i + 1]>>]
           Ends(i) == [p \in 1..(i \div 2) |-> 7 * p + 6]
           J == [i \in 0..m |-> {Ends(i)}]
<1>8. m \in Nat /\ DOMAIN pairs = 1..m /\ <<>> \in J[0]
  <2>1. Ends(0) = <<>>
    OBVIOUS
  <2> QED BY <2>1
<1>9. \A i \in 1..m : \A a \in J[i - 1] : AddFall(a, pairs[i]) \in J[i]
  <2> TAKE i \in 1..m
  <2>1. J[i - 1] = {Ends(i - 1)} /\ J[i] = {Ends(i)}
    OBVIOUS
  <2>2. pairs[i] = <<log[i], w(i)>>
    BY <1>4
  <2>3. AddFall(Ends(i - 1), pairs[i]) = Ends(i)
    <3>1. CASE i % 2 = 1
      <4>1. w(i).v = 1 /\ (i - 1) \div 2 = i \div 2
        BY <3>1
      <4>2. Ends(i - 1) = Ends(i)
        BY <4>1
      <4> QED BY <2>2, <4>1, <4>2 DEF AddFall
    <3>2. CASE i % 2 # 1
      <4> DEFINE k == i \div 2
      <4>1. k \in Nat \ {0} /\ i = 2 * k /\ (i - 1) \div 2 = k - 1
        BY <3>2
      <4>2. w(i) = [at |-> 7 * k + 6, v |-> 0]
        BY <3>2
      <4>3. log[i].v = 1
        <5> DEFINE q == i - 1
        <5>1. q \in 1..m /\ q + 1 = i /\ q % 2 = 1
          BY <4>1
        <5>2. w(q) = [at |-> 7 * ((q + 1) \div 2) + 5, v |-> 1]
          BY <5>1
        <5> HIDE DEF q, w
        <5>3. log[q + 1] = w(q)
          BY <1>4, <5>1
        <5>4. log[i].v = w(q).v
          BY <5>1, <5>3
        <5> QED BY <5>2, <5>4
      <4>4. Append(Ends(i - 1), 7 * k + 6) = Ends(i)
        <5>1. Ends(i - 1) = [p \in 1..(k - 1) |-> 7 * p + 6]
          BY <4>1
        <5>2. Ends(i) = [p \in 1..k |-> 7 * p + 6]
          OBVIOUS
        <5> HIDE DEF k, Ends
        <5>3. Ends(i - 1) \in Seq(Int) /\ Len(Ends(i - 1)) = k - 1
          BY <4>1, <5>1
        <5>4. Append(Ends(i - 1), 7 * k + 6) = [p \in 1..k |-> 7 * p + 6]
          BY <4>1, <5>1, <5>3
        <5> QED BY <5>2, <5>4
      <4> HIDE DEF k, Ends
      <4>5. pairs[i][1] = log[i] /\ pairs[i][2] = w(i)
        BY <2>2
      <4> HIDE DEF w, pairs
      <4>6. pairs[i][1].v = 1 /\ pairs[i][2].v = 0 /\ pairs[i][2].at = 7 * k + 6
        BY <4>2, <4>3, <4>5
      <4>7. AddFall(Ends(i - 1), pairs[i]) = Append(Ends(i - 1), pairs[i][2].at)
        BY <4>6, Zenon DEF AddFall
      <4> QED BY <4>4, <4>6, <4>7
    <3> QED BY <3>1, <3>2
  <2> HIDE DEF J, Ends, pairs
  <2> QED BY <2>1, <2>3
<1>10. J[m] = {Ends(m)}
  OBVIOUS
<1>11. Ends(m) = [p \in 1..n |-> 7 * p + 6]
  <2>1. m \div 2 = n
    OBVIOUS
  <2> QED BY <2>1
<1>12. FallingEdges(log) = FallFold!Folded(<<>>, pairs)
  <2>1. FallingEdges(log) = FoldLeft(AddFall, <<>>, pairs)
    <3>1. Len(log) - 1 = m
      BY <1>4
    <3> QED BY <3>1 DEF FallingEdges
  <2> HIDE DEF pairs
  <2> QED BY <2>1 DEF FallFold!Folded, FoldLeft, MapThenFoldSet, FallFold!FoldLeft,
                      FallFold!MapThenFoldSet, Max, FallFold!Max
<1> HIDE DEF J, Ends, pairs, m
<1>13. FallFold!Folded(<<>>, pairs) \in J[m]
  BY ONLY <1>8, <1>9, FallFold!FoldKeeps
<1> QED BY <1>7, <1>10, <1>11, <1>12, <1>13 DEF log

-----------------------------------------------------------------------------
(* Pulses *)

\* What the drivers put on the bus: a register select bit and four data bits each.
BusPulse == [rs : {0, 1}, nibble : 0..15]
NibbleFold == INSTANCE Folding WITH Op <- DecodeNibble

\* The four data lines carry a nibble.
LEMMA NibbleOfBits ==
  \A n \in 0..15 : /\ (n % 2) + 2 * ((n \div 2) % 2) + 4 * ((n \div 4) % 2) + 8 * ((n \div 8) % 2) = n
                   /\ \A w \in {1, 2, 4, 8} : (n \div w) % 2 \in {0, 1}
<1> TAKE n \in 0..15
<1>1. (n % 2) + 2 * ((n \div 2) % 2) + 4 * ((n \div 4) % 2) + 8 * ((n \div 8) % 2) = n
  OBVIOUS
<1>2. /\ (n \div 1) % 2 \in {0, 1} /\ (n \div 2) % 2 \in {0, 1}
      /\ (n \div 4) % 2 \in {0, 1} /\ (n \div 8) % 2 \in {0, 1}
  OBVIOUS
<1> QED BY <1>1, <1>2

\* What the decoder latches at the end of a pulse is that pulse.
LEMMA PulseIsLatched ==
  ASSUME NEW pulses \in Seq(BusPulse), NEW p \in 1..Len(pulses)
  PROVE  Latched(BusTrace(pulses), 7 * p + 6) = pulses[p]
<1> DEFINE n == Len(pulses)
           log == BusLog(pulses)
           t == 7 * p + 6
           rs == [q \in DOMAIN pulses |-> pulses[q].rs]
           data(w) == [q \in DOMAIN pulses |-> (pulses[q].nibble \div w) % 2]
           read(line) == NormalizeEvents(<<Low>> \o line)
<1>1. n \in Nat /\ DOMAIN pulses = 1..n /\ p \in 1..n /\ \A q \in 1..n : pulses[q] \in BusPulse
  OBVIOUS
<1>2. log = [rs |-> LineLog(0, rs), d4 |-> LineLog(1, data(1)), d5 |-> LineLog(2, data(2)),
             d6 |-> LineLog(3, data(4)), d7 |-> LineLog(4, data(8)), e |-> EnableLog(n)]
  BY DEF BusLog
<1>3. /\ BusTrace(pulses).rs = read(log.rs) /\ BusTrace(pulses).d4 = read(log.d4)
      /\ BusTrace(pulses).d5 = read(log.d5) /\ BusTrace(pulses).d6 = read(log.d6)
      /\ BusTrace(pulses).d7 = read(log.d7)
  BY <1>2 DEF BusTrace, Low
<1>4. rs \in [1..n -> {0, 1}] /\ rs[p] = pulses[p].rs
  BY <1>1 DEF BusPulse
<1>5. ASSUME NEW w \in {1, 2, 4, 8}
      PROVE  data(w) \in [1..n -> {0, 1}] /\ data(w)[p] = (pulses[p].nibble \div w) % 2
  <2>1. ASSUME NEW q \in 1..n PROVE (pulses[q].nibble \div w) % 2 \in {0, 1}
    <3>1. pulses[q].nibble \in 0..15
      BY <1>1 DEF BusPulse
    <3> QED BY <3>1, NibbleOfBits
  <2> QED BY <1>1, <2>1
<1> HIDE DEF rs, data, log, read
<1>6. /\ log.rs = LineLog(0, rs) /\ log.d4 = LineLog(1, data(1)) /\ log.d5 = LineLog(2, data(2))
      /\ log.d6 = LineLog(3, data(4)) /\ log.d7 = LineLog(4, data(8))
  BY <1>2
<1>7. /\ ValueAt(BusTrace(pulses).rs, t) = rs[p]
      /\ ValueAt(BusTrace(pulses).d4, t) = data(1)[p] /\ ValueAt(BusTrace(pulses).d5, t) = data(2)[p]
      /\ ValueAt(BusTrace(pulses).d6, t) = data(4)[p] /\ ValueAt(BusTrace(pulses).d7, t) = data(8)[p]
  <2>1. \A levels \in [1..n -> {0, 1}], tick \in 0..4 : ValueAt(read(LineLog(tick, levels)), t) = levels[p]
    BY <1>1, LineTellsLevel DEF read
  <2>2. /\ rs \in [1..n -> {0, 1}] /\ data(1) \in [1..n -> {0, 1}] /\ data(2) \in [1..n -> {0, 1}]
        /\ data(4) \in [1..n -> {0, 1}] /\ data(8) \in [1..n -> {0, 1}]
    BY <1>4, <1>5
  <2>3. 0 \in 0..4 /\ 1 \in 0..4 /\ 2 \in 0..4 /\ 3 \in 0..4 /\ 4 \in 0..4
    OBVIOUS
  <2> HIDE DEF t, n
  <2>4. /\ ValueAt(read(LineLog(0, rs)), t) = rs[p]
        /\ ValueAt(read(LineLog(1, data(1))), t) = data(1)[p]
        /\ ValueAt(read(LineLog(2, data(2))), t) = data(2)[p]
        /\ ValueAt(read(LineLog(3, data(4))), t) = data(4)[p]
        /\ ValueAt(read(LineLog(4, data(8))), t) = data(8)[p]
    BY ONLY <2>1, <2>2, <2>3
  <2> QED BY ONLY <1>3, <1>6, <2>4, Zenon
<1>8. /\ data(1)[p] = (pulses[p].nibble \div 1) % 2 /\ data(2)[p] = (pulses[p].nibble \div 2) % 2
      /\ data(4)[p] = (pulses[p].nibble \div 4) % 2 /\ data(8)[p] = (pulses[p].nibble \div 8) % 2
  BY <1>5
<1> DEFINE r == pulses[p].rs
           m == pulses[p].nibble
<1>9. pulses[p] = [rs |-> r, nibble |-> m] /\ m \in 0..15
  BY <1>1 DEF BusPulse
<1>10. m \div 1 = m
  BY <1>9
<1>11. Latched(BusTrace(pulses), t)
       = [rs |-> r, nibble |-> (m % 2) + 2 * ((m \div 2) % 2) + 4 * ((m \div 4) % 2) + 8 * ((m \div 8) % 2)]
  BY <1>4, <1>7, <1>8, <1>10 DEF Latched
<1> HIDE DEF r, m
<1> QED BY <1>9, <1>11, NibbleOfBits

\* The decoder latches every pulse of the drivers once and in order, whatever levels
\* repeat and are dropped from the traces: decoding the bus is a fold over the pulses.
THEOREM DecoderLatchesPulses ==
  \A panel0 : \A pulses \in Seq(BusPulse) :
    DecodePulses(panel0, pulses) = NibbleFold!Folded(panel0, pulses)
<1> TAKE panel0
<1> TAKE pulses \in Seq(BusPulse)
<1> DEFINE n == Len(pulses)
           bus == BusTrace(pulses)
           times == FallingEdges(bus.e)
<1>1. n \in Nat /\ DOMAIN pulses = 1..n
  OBVIOUS
<1>2. times = [p \in 1..n |-> 7 * p + 6]
  <2>1. bus.e = NormalizeEvents(<<Low>> \o EnableLog(n))
    BY DEF BusTrace, BusLog, Low
  <2> HIDE DEF n, bus
  <2> QED BY <1>1, <2>1, EnableFalls
<1>3. [i \in DOMAIN times |-> Latched(bus, times[i])] = pulses
  <2>1. \A p \in 1..n : Latched(bus, 7 * p + 6) = pulses[p]
    BY PulseIsLatched
  <2> HIDE DEF bus, times
  <2>2. DOMAIN times = 1..n /\ \A p \in 1..n : times[p] = 7 * p + 6
    BY <1>2
  <2>3. pulses = [i \in 1..n |-> pulses[i]]
    BY <1>1
  <2> QED BY <2>1, <2>2, <2>3
<1>4. DecodePulses(panel0, pulses)
      = IF pulses = <<>> THEN panel0 ELSE FoldLeft(DecodeNibble, panel0, pulses)
  <2>1. DecodePulses(panel0, pulses)
        = IF pulses = <<>> THEN panel0
          ELSE FoldLeft(DecodeNibble, panel0, [i \in DOMAIN times |-> Latched(bus, times[i])])
    BY DEF DecodePulses
  <2> HIDE DEF bus, times
  <2> QED BY <1>3, <2>1
<1>5. FoldLeft(DecodeNibble, panel0, pulses) = NibbleFold!Folded(panel0, pulses)
  BY DEF NibbleFold!Folded, FoldLeft, MapThenFoldSet, NibbleFold!FoldLeft,
         NibbleFold!MapThenFoldSet, Max, NibbleFold!Max
<1> QED BY <1>4, <1>5, NibbleFold!FoldEmpty

-----------------------------------------------------------------------------
(* Bytes *)

Char == 0..255
Row == [1..Columns -> Char]
Frame == [1..2 -> Row]
Screens == [cursor : Nat, frame : Frame]
\* A panel between two bytes, and one that is half a command ahead.
Ready == [pending : {NoNibble}, screen : Screens, frames : Seq(Frame)]
Slipped == [pending : [rs : {0}, nibble : 0..15], screen : Screens, frames : Seq(Frame)]

\* The decoder on whole bytes.
After(screen, rs, byte) == IF rs = 1 THEN WriteData(screen, byte) ELSE ApplyCommand(screen, byte)
Done(p, rs, byte) ==
  [pending |-> NoNibble, screen |-> After(p.screen, rs, byte),
   frames |-> IF rs = 1 \/ byte = 1 THEN Append(p.frames, After(p.screen, rs, byte).frame) ELSE p.frames]

\* The blank screen, and the screens that a byte makes of one.
LEMMA ScreensAfter ==
  /\ EmptyFrame \in Frame /\ EmptyFrame[1] = EmptyRow /\ EmptyFrame[2] = EmptyRow
  /\ \A s \in Screens, rs \in {0, 1}, byte \in Char : After(s, rs, byte) \in Screens
<1>1. EmptyRow \in Row
  BY DEF EmptyRow, Row, Char, Blank
<1>2. EmptyFrame \in Frame /\ EmptyFrame[1] = EmptyRow /\ EmptyFrame[2] = EmptyRow
  BY <1>1 DEF EmptyFrame, Frame
<1>3. ASSUME NEW s \in Screens, NEW byte \in Char PROVE ApplyCommand(s, byte) \in Screens
  <2>1. s.cursor \in Nat /\ s.frame \in Frame
    BY DEF Screens
  <2>2. byte > 127 => byte - 128 \in Nat
    BY DEF Char
  <2>3. \A c \in Nat : [s EXCEPT !.cursor = c] \in Screens
    BY DEF Screens
  <2>4. [cursor |-> 0, frame |-> EmptyFrame] \in Screens
    BY <1>2 DEF Screens
  <2>5. CASE byte = 1
    BY <2>4, <2>5 DEF ApplyCommand
  <2>6. CASE byte = 2
    BY <2>3, <2>6 DEF ApplyCommand
  <2>7. CASE byte > 127
    BY <2>2, <2>3, <2>7 DEF ApplyCommand
  <2>8. CASE byte # 1 /\ byte # 2 /\ ~(byte > 127)
    BY <2>8 DEF ApplyCommand
  <2> QED BY <2>5, <2>6, <2>7, <2>8
<1>4. ASSUME NEW s \in Screens, NEW byte \in Char PROVE WriteData(s, byte) \in Screens
  <2> DEFINE at == AddressToPosition(s.cursor)
             new == IF at[2] < Columns THEN [s.frame EXCEPT ![at[1]][at[2] + 1] = byte] ELSE s.frame
  <2>1. s.cursor \in Nat /\ s.frame \in Frame /\ s.cursor + 1 \in Nat
    BY DEF Screens
  <2>2. at[1] \in 1..2 /\ at[2] \in Nat
    BY <2>1 DEF AddressToPosition, Columns
  <2>3. WriteData(s, byte) = [cursor |-> s.cursor + 1, frame |-> new]
    BY DEF WriteData
  <2> HIDE DEF at
  <2>4. new \in Frame
    <3>1. s.frame[at[1]] \in Row
      BY <2>1, <2>2 DEF Frame
    <3>2. at[2] < Columns => [s.frame[at[1]] EXCEPT ![at[2] + 1] = byte] \in Row
      BY <2>2, <3>1 DEF Row, Columns
    <3> QED BY <2>1, <2>2, <3>2 DEF Frame
  <2> HIDE DEF new
  <2> QED BY <2>1, <2>3, <2>4 DEF Screens
<1> QED BY <1>2, <1>3, <1>4 DEF After

\* Two pulses are two steps of the decoder.
LEMMA TwoPulses ==
  \A p : \A a, b \in BusPulse : NibbleFold!Folded(p, <<a, b>>) = DecodeNibble(DecodeNibble(p, a), b)
<1> TAKE p
<1> TAKE a, b \in BusPulse
<1> DEFINE s == <<a, b>>
<1>1. DOMAIN s = 1..2
  OBVIOUS
<1>2. s[1] = a /\ s[2] = b
  OBVIOUS
<1> HIDE DEF s
<1>3. NibbleFold!Folded(p, s) = DecodeNibble(DecodeNibble(p, s[1]), s[2])
  BY ONLY <1>1, NibbleFold!FoldTwo, Zenon
<1> QED BY ONLY <1>2, <1>3, Zenon DEF s

\* The two pulses of a byte.
LEMMA BytePulses ==
  \A rs \in {0, 1}, byte \in Char :
    /\ WriteByte(rs, byte) = <<Pulse(rs, byte \div 16), Pulse(rs, byte % 16)>>
    /\ Pulse(rs, byte \div 16) \in BusPulse /\ Pulse(rs, byte % 16) \in BusPulse
    /\ 16 * (byte \div 16) + (byte % 16) = byte
    /\ WriteByte(rs, byte) \in Seq(BusPulse)
<1> TAKE rs \in {0, 1}, byte \in Char
<1>1. byte \div 16 \in 0..15 /\ byte % 16 \in 0..15 /\ 16 * (byte \div 16) + (byte % 16) = byte
  <2>1. byte \in Int /\ 0 <= byte /\ byte <= 255
    BY DEF Char
  <2> DEFINE q == byte \div 16
             r == byte % 16
  <2>2. q \in Int /\ r \in Int /\ 0 <= r /\ r <= 15 /\ byte = 16 * q + r
    BY ONLY <2>1
  <2> HIDE DEF q, r
  <2>3. 0 <= q /\ q <= 15
    BY ONLY <2>1, <2>2
  <2>4. q \in 0..15 /\ r \in 0..15 /\ 16 * q + r = byte
    BY <2>2, <2>3
  <2> QED BY <2>4, Zenon DEF q, r
<1>2. Pulse(rs, byte \div 16) \in BusPulse /\ Pulse(rs, byte % 16) \in BusPulse
  BY <1>1 DEF Pulse, BusPulse
<1> QED BY <1>1, <1>2 DEF WriteByte

\* A panel between two bytes takes the next one as it was sent, and is ready for
\* more.
LEMMA ByteIsDecoded ==
  \A p \in Ready, rs \in {0, 1}, byte \in Char :
    /\ NibbleFold!Folded(p, WriteByte(rs, byte)) = Done(p, rs, byte)
    /\ Done(p, rs, byte) \in Ready
<1> TAKE p \in Ready, rs \in {0, 1}, byte \in Char
<1> DEFINE a == Pulse(rs, byte \div 16)
           b == Pulse(rs, byte % 16)
           half == [p EXCEPT !.pending = a]
<1>1. /\ WriteByte(rs, byte) = <<a, b>> /\ a \in BusPulse /\ b \in BusPulse
      /\ 16 * a.nibble + b.nibble = byte /\ a.rs = rs /\ b.rs = rs
  <2>1. WriteByte(rs, byte) = <<a, b>> /\ a \in BusPulse /\ b \in BusPulse
    BY BytePulses
  <2>2. a.nibble = byte \div 16 /\ b.nibble = byte % 16 /\ a.rs = rs /\ b.rs = rs
    BY DEF Pulse
  <2>3. 16 * a.nibble + b.nibble = 16 * (byte \div 16) + (byte % 16)
    BY <2>2, Zenon
  <2>4. 16 * (byte \div 16) + (byte % 16) = byte
    BY BytePulses
  <2> HIDE DEF a, b
  <2> QED BY <2>1, <2>2, <2>3, <2>4
<1>2. p.pending.rs # a.rs
  BY <1>1 DEF Ready, NoNibble
<1> HIDE DEF a, b
<1>3. DecodeNibble(p, a) = half
  BY <1>2, Zenon DEF DecodeNibble
<1>4. half.pending = a /\ half.screen = p.screen /\ half.frames = p.frames
  BY DEF Ready
<1> HIDE DEF half
<1>5. DecodeNibble(half, b) = Done(p, rs, byte)
  BY <1>1, <1>4 DEF DecodeNibble, Done, After
<1>6. Done(p, rs, byte) \in Ready
  <2>1. p.screen \in Screens /\ p.frames \in Seq(Frame)
    BY DEF Ready
  <2>2. After(p.screen, rs, byte) \in Screens
    BY <2>1, ScreensAfter
  <2>3. After(p.screen, rs, byte).frame \in Frame
    BY <2>2 DEF Screens
  <2>4. Append(p.frames, After(p.screen, rs, byte).frame) \in Seq(Frame)
    BY <2>1, <2>3
  <2> QED BY <2>1, <2>2, <2>4 DEF Done, Ready
<1> QED BY <1>1, <1>3, <1>5, <1>6, TwoPulses

\* Half a command ahead, a panel stays so through commands, and data puts it right
\* again: the register select line changes.
LEMMA SlipEndsWithData ==
  /\ \A p \in Slipped, byte \in Char : NibbleFold!Folded(p, Instruct(byte)) \in Slipped
  /\ \A p \in Slipped, byte \in Char : NibbleFold!Folded(p, WriteByte(1, byte)) \in Ready
<1>1. ASSUME NEW p \in Slipped, NEW byte \in Char PROVE NibbleFold!Folded(p, Instruct(byte)) \in Slipped
  <2> DEFINE a == Pulse(0, byte \div 16)
             b == Pulse(0, byte % 16)
             wrong == 16 * p.pending.nibble + a.nibble
             mid == DecodeNibble(p, a)
  <2>1. /\ Instruct(byte) = <<a, b>> /\ a \in BusPulse /\ b \in BusPulse /\ a.rs = 0 /\ b.rs = 0
        /\ b \in [rs : {0}, nibble : 0..15]
    <3>1. byte % 16 \in 0..15
      BY DEF Char
    <3> QED BY <3>1, BytePulses DEF Pulse, Instruct
  <2>2. /\ p.pending.rs = 0 /\ p.pending.nibble \in 0..15
        /\ p.screen \in Screens /\ p.frames \in Seq(Frame)
    BY DEF Slipped
  <2>3. wrong \in Char
    <3> DEFINE x == a.nibble
               y == p.pending.nibble
    <3>1. x \in 0..15 /\ y \in 0..15
      BY <2>1, <2>2 DEF BusPulse
    <3> HIDE DEF x, y
    <3>2. 16 * y + x \in 0..255
      BY <3>1
    <3> QED BY <3>2 DEF Char, x, y
  <2> HIDE DEF a, b
  <2>4. mid = Done(p, 0, wrong)
    BY <2>1, <2>2 DEF DecodeNibble, Done, After
  <2> HIDE DEF wrong
  <2>5. After(p.screen, 0, wrong) \in Screens
    BY <2>2, <2>3, ScreensAfter
  <2>6. After(p.screen, 0, wrong).frame \in Frame
    BY <2>5 DEF Screens
  <2>7. Append(p.frames, After(p.screen, 0, wrong).frame) \in Seq(Frame)
    BY <2>2, <2>6
  <2>8. mid \in Ready
    BY <2>2, <2>4, <2>5, <2>7 DEF Done, Ready
  <2> HIDE DEF mid
  <2>9. DecodeNibble(mid, b) = [mid EXCEPT !.pending = b]
    <3>1. mid.pending.rs # b.rs
      BY <2>1, <2>8 DEF Ready, NoNibble
    <3> QED BY <3>1, Zenon DEF DecodeNibble
  <2>10. [mid EXCEPT !.pending = b] \in Slipped
    BY <2>1, <2>8 DEF Ready, Slipped
  <2> QED BY <2>1, <2>9, <2>10, TwoPulses DEF mid
<1>2. ASSUME NEW p \in Slipped, NEW byte \in Char PROVE NibbleFold!Folded(p, WriteByte(1, byte)) \in Ready
  <2> DEFINE a == Pulse(1, byte \div 16)
             b == Pulse(1, byte % 16)
             half == [p EXCEPT !.pending = a]
  <2>1. /\ WriteByte(1, byte) = <<a, b>> /\ a \in BusPulse /\ b \in BusPulse
        /\ 16 * a.nibble + b.nibble = byte /\ a.rs = 1 /\ b.rs = 1
    <3>1. WriteByte(1, byte) = <<a, b>> /\ a \in BusPulse /\ b \in BusPulse
      BY BytePulses
    <3>2. a.nibble = byte \div 16 /\ b.nibble = byte % 16 /\ a.rs = 1 /\ b.rs = 1
      BY DEF Pulse
    <3>3. 16 * a.nibble + b.nibble = 16 * (byte \div 16) + (byte % 16)
      BY <3>2, Zenon
    <3>4. 16 * (byte \div 16) + (byte % 16) = byte
      BY BytePulses
    <3> HIDE DEF a, b
    <3> QED BY <3>1, <3>2, <3>3, <3>4
  <2>2. p.pending.rs # a.rs /\ p.screen \in Screens /\ p.frames \in Seq(Frame)
    BY <2>1 DEF Slipped
  <2> HIDE DEF a, b
  <2>3. DecodeNibble(p, a) = half
    BY <2>2, Zenon DEF DecodeNibble
  <2>4. half.pending = a /\ half.screen = p.screen /\ half.frames = p.frames
    BY DEF Slipped
  <2> HIDE DEF half
  <2>5. DecodeNibble(half, b) = Done(p, 1, byte)
    BY <2>1, <2>4 DEF DecodeNibble, Done, After
  <2>6. After(p.screen, 1, byte) \in Screens
    BY <2>2, ScreensAfter
  <2>7. After(p.screen, 1, byte).frame \in Frame
    BY <2>6 DEF Screens
  <2>8. Append(p.frames, After(p.screen, 1, byte).frame) \in Seq(Frame)
    BY <2>2, <2>7
  <2>9. Done(p, 1, byte) \in Ready
    BY <2>2, <2>6, <2>8 DEF Done, Ready
  <2> QED BY <2>1, <2>3, <2>5, <2>9, TwoPulses
<1> QED BY <1>1, <1>2

-----------------------------------------------------------------------------
(* Text *)

\* The last frame of the history is the one on the screen.
Told(p) == p.frames # <<>> /\ p.frames[Len(p.frames)] = p.screen.frame
\* Where the columns of a row are, counted from 0, and a row with a text from a
\* column on.
Address(row, col) == IF row = 2 THEN 64 + col ELSE col
Written(row, col, text) ==
  [c \in 1..Columns |-> IF col < c /\ c <= col + Len(text) THEN text[c - col] ELSE row[c]]

\* The history keeps up with the screen, and a clear starts both anew.
LEMMA HistoryKeepsUp ==
  /\ \A p \in Ready, rs \in {0, 1}, byte \in Char : Told(p) => Told(Done(p, rs, byte))
  /\ \A p \in Ready : /\ NibbleFold!Folded(p, Clear) \in Ready /\ Told(NibbleFold!Folded(p, Clear))
                      /\ NibbleFold!Folded(p, Clear).screen = [cursor |-> 0, frame |-> EmptyFrame]
<1>1. ASSUME NEW frames \in Seq(Frame), NEW f \in Frame
      PROVE  Append(frames, f) # <<>> /\ Append(frames, f)[Len(Append(frames, f))] = f
  OBVIOUS
<1>2. ASSUME NEW p \in Ready, NEW rs \in {0, 1}, NEW byte \in Char, rs = 1 \/ byte = 1
      PROVE  Told(Done(p, rs, byte))
  <2> DEFINE s == After(p.screen, rs, byte)
  <2>1. p.screen \in Screens /\ p.frames \in Seq(Frame)
    BY DEF Ready
  <2>2. s \in Screens
    BY <2>1, ScreensAfter
  <2>3. s.frame \in Frame
    BY <2>2 DEF Screens
  <2>4. Done(p, rs, byte) = [pending |-> NoNibble, screen |-> s, frames |-> Append(p.frames, s.frame)]
    BY <1>2 DEF Done
  <2> HIDE DEF s
  <2>5. Done(p, rs, byte).frames = Append(p.frames, s.frame) /\ Done(p, rs, byte).screen = s
    BY <2>4
  <2> QED BY <1>1, <2>1, <2>3, <2>5 DEF Told
<1>3. ASSUME NEW p \in Ready, NEW byte \in Char, byte # 1, Told(p) PROVE Told(Done(p, 0, byte))
  <2>1. After(p.screen, 0, byte).frame = p.screen.frame
    <3>1. p.screen \in Screens
      BY DEF Ready
    <3>2. \A c : [p.screen EXCEPT !.cursor = c].frame = p.screen.frame
      BY <3>1 DEF Screens
    <3>3. CASE byte = 2
      <4>1. After(p.screen, 0, byte) = [p.screen EXCEPT !.cursor = 0]
        BY <3>3 DEF After, ApplyCommand
      <4> QED BY <3>2, <4>1
    <3>4. CASE byte > 127
      <4>1. After(p.screen, 0, byte) = [p.screen EXCEPT !.cursor = byte - 128]
        BY <1>3, <3>4 DEF After, ApplyCommand
      <4> QED BY <3>2, <4>1, Zenon
    <3>5. CASE byte # 2 /\ ~(byte > 127)
      BY <1>3, <3>5 DEF After, ApplyCommand
    <3> QED BY <3>3, <3>4, <3>5
  <2>2. Done(p, 0, byte).frames = p.frames /\ Done(p, 0, byte).screen = After(p.screen, 0, byte)
    BY <1>3 DEF Done
  <2> QED BY <1>3, <2>1, <2>2 DEF Told
<1>4. ASSUME NEW p \in Ready
      PROVE  /\ NibbleFold!Folded(p, Clear) \in Ready /\ Told(NibbleFold!Folded(p, Clear))
             /\ NibbleFold!Folded(p, Clear).screen = [cursor |-> 0, frame |-> EmptyFrame]
  <2>1. 0 \in {0, 1} /\ 1 \in Char
    BY DEF Char
  <2>2. Clear = WriteByte(0, 1)
    BY DEF Clear, Instruct
  <2>3. NibbleFold!Folded(p, Clear) = Done(p, 0, 1) /\ Done(p, 0, 1) \in Ready
    BY <2>1, <2>2, ByteIsDecoded
  <2>4. Done(p, 0, 1).screen = [cursor |-> 0, frame |-> EmptyFrame]
    BY DEF Done, After, ApplyCommand
  <2> QED BY <1>2, <2>1, <2>3, <2>4
<1> QED BY <1>2, <1>3, <1>4

\* A text is its characters, one after another.
LEMMA WriteAppends ==
  /\ Write(<<>>) = <<>>
  /\ \A text \in Seq(Char) : Write(text) \in Seq(BusPulse)
  /\ \A text \in Seq(Char), c \in Char : Write(Append(text, c)) = Write(text) \o WriteByte(1, c)
<1>1. Write(<<>>) = <<>>
  BY DEF Write
<1>2. ASSUME NEW text \in Seq(Char) PROVE Write(text) \in Seq(BusPulse)
  <2>1. ASSUME NEW p \in 1..(2 * Len(text)) PROVE WriteByte(1, text[(p + 1) \div 2])[2 - (p % 2)] \in BusPulse
    <3>1. (p + 1) \div 2 \in 1..Len(text) /\ 2 - (p % 2) \in 1..2
      OBVIOUS
    <3> DEFINE c == text[(p + 1) \div 2]
    <3>2. c \in Char
      BY <3>1
    <3> HIDE DEF c
    <3>3. WriteByte(1, c) = <<Pulse(1, c \div 16), Pulse(1, c % 16)>>
          /\ Pulse(1, c \div 16) \in BusPulse /\ Pulse(1, c % 16) \in BusPulse
      BY <3>2, BytePulses
    <3> QED BY <3>1, <3>3 DEF c
  <2> QED BY <2>1 DEF Write
<1>3. ASSUME NEW text \in Seq(Char), NEW c \in Char PROVE Write(Append(text, c)) = Write(text) \o WriteByte(1, c)
  <2> DEFINE n == Len(text)
             s == Append(text, c)
             u == Write(text)
             v == WriteByte(1, c)
             w == Write(s)
             uv == u \o v
  <2>1. /\ n \in Nat /\ Len(s) = n + 1 /\ s[n + 1] = c /\ \A i \in 1..n : s[i] = text[i]
        /\ s \in Seq(Char)
    OBVIOUS
  <2>2. u \in Seq(BusPulse) /\ v \in Seq(BusPulse) /\ Len(u) = 2 * n /\ Len(v) = 2
    <3>1. v = <<Pulse(1, c \div 16), Pulse(1, c % 16)>> /\ v \in Seq(BusPulse)
      BY BytePulses
    <3>2. u = [p \in 1..(2 * n) |-> WriteByte(1, text[(p + 1) \div 2])[2 - (p % 2)]]
      BY DEF Write
    <3>3. u \in Seq(BusPulse)
      BY <1>2
    <3> HIDE DEF u
    <3> QED BY <2>1, <3>1, <3>2, <3>3
  <2>3. DOMAIN w = 1..(2 * n + 2) /\ w = [i \in 1..(2 * n + 2) |-> w[i]]
    <3>1. 2 * (n + 1) = 2 * n + 2
      BY <2>1
    <3> QED BY <2>1, <3>1 DEF Write
  <2>4. /\ DOMAIN uv = 1..(2 * n + 2) /\ uv = [i \in 1..(2 * n + 2) |-> uv[i]]
        /\ \A i \in 1..(2 * n) : uv[i] = u[i]
        /\ \A j \in 1..2 : uv[2 * n + j] = v[j]
    <3> HIDE DEF u, v, n
    <3>1. u \in Seq(BusPulse) /\ v \in Seq(BusPulse)
      BY <2>2
    <3>2. /\ uv \in Seq(BusPulse) /\ Len(uv) = Len(u) + Len(v)
          /\ \A i \in 1..Len(u) : uv[i] = u[i]
          /\ \A i \in 1..Len(v) : uv[Len(u) + i] = v[i]
      BY ONLY <3>1, JoinAny
    <3> HIDE DEF uv
    <3> QED BY <2>1, <2>2, <3>2
  <2>5. ASSUME NEW i \in 1..(2 * n) PROVE w[i] = uv[i]
    <3>1. (i + 1) \div 2 \in 1..n /\ i \in 1..(2 * (n + 1))
      BY <2>1
    <3> DEFINE h == (i + 1) \div 2
    <3>2. w[i] = WriteByte(1, s[h])[2 - (i % 2)]
      BY <2>1, <3>1 DEF Write
    <3>3. u[i] = WriteByte(1, text[h])[2 - (i % 2)]
      BY DEF Write
    <3> HIDE DEF h, w, u, uv, v, s
    <3>4. s[h] = text[h]
      BY <2>1, <3>1 DEF h
    <3> QED BY <2>4, <3>2, <3>3, <3>4
  <2>6. ASSUME NEW j \in 1..2 PROVE w[2 * n + j] = uv[2 * n + j]
    <3> DEFINE i == 2 * n + j
    <3>1. (i + 1) \div 2 = n + 1 /\ 2 - (i % 2) = j /\ i \in 1..(2 * (n + 1))
      BY <2>1
    <3>2. w[i] = WriteByte(1, s[(i + 1) \div 2])[2 - (i % 2)]
      BY <2>1, <3>1 DEF Write
    <3> HIDE DEF i, w, u, uv, s
    <3>3. w[i] = v[j]
      BY <2>1, <3>1, <3>2
    <3> QED BY <2>4, <3>3 DEF i
  <2> HIDE DEF w, uv, u, v, s
  <2>7. ASSUME NEW i \in 1..(2 * n + 2) PROVE w[i] = uv[i]
    <3>1. CASE i <= 2 * n
      BY <2>1, <2>5, <3>1
    <3>2. CASE i > 2 * n
      <4> DEFINE j == i - 2 * n
      <4>1. j \in 1..2 /\ 2 * n + j = i
        BY <2>1, <3>2
      <4> HIDE DEF j
      <4> QED BY <2>6, <4>1
    <3> QED BY <2>1, <3>1, <3>2
  <2>8. [i \in 1..(2 * n + 2) |-> w[i]] = [i \in 1..(2 * n + 2) |-> uv[i]]
    BY <2>7
  <2> QED BY <2>3, <2>4, <2>8 DEF w, uv, u, v, s
<1> QED BY <1>1, <1>2, <1>3

\* One character more is one cell more.
LEMMA WrittenAppends ==
  ASSUME NEW row \in Row, NEW text \in Seq(Char), NEW c \in Char, NEW k \in Nat, k + Len(text) < Columns
  PROVE  /\ Written(row, k, <<>>) = row /\ Written(row, k, text) \in Row
         /\ [Written(row, k, text) EXCEPT ![k + Len(text) + 1] = c] = Written(row, k, Append(text, c))
<1> DEFINE n == Len(text)
           s == Append(text, c)
<1>1. /\ n \in Nat /\ Len(s) = n + 1 /\ s[n + 1] = c /\ \A i \in 1..n : s[i] = text[i] /\ text[i] \in Char
      /\ k + n < 16
  BY DEF Columns
<1>2. row = [i \in 1..16 |-> row[i]] /\ \A i \in 1..16 : row[i] \in Char
  BY DEF Row, Columns
<1>3. Written(row, k, <<>>) = row
  <2>1. \A i \in 1..16 : ~(k < i /\ i <= k + Len(<<>>))
    OBVIOUS
  <2> QED BY <1>2, <2>1 DEF Written, Columns
<1>4. Written(row, k, text) \in Row
  <2>1. ASSUME NEW i \in 1..16
        PROVE  (IF k < i /\ i <= k + n THEN text[i - k] ELSE row[i]) \in Char
    <3>1. k < i /\ i <= k + n => i - k \in 1..n
      BY <1>1
    <3> QED BY <1>1, <1>2, <3>1
  <2> QED BY <2>1 DEF Written, Row, Columns
<1> DEFINE a == [Written(row, k, text) EXCEPT ![k + n + 1] = c]
           b == Written(row, k, s)
<1>5. DOMAIN a = 1..16 /\ DOMAIN b = 1..16 /\ a = [i \in 1..16 |-> a[i]] /\ b = [i \in 1..16 |-> b[i]]
  BY DEF Written, Columns
<1>6. ASSUME NEW i \in 1..16 PROVE a[i] = b[i]
  <2>1. a[i] = IF i = k + n + 1 THEN c ELSE IF k < i /\ i <= k + n THEN text[i - k] ELSE row[i]
    BY DEF Written, Columns
  <2>2. b[i] = IF k < i /\ i <= k + (n + 1) THEN s[i - k] ELSE row[i]
    BY <1>1 DEF Written, Columns
  <2> HIDE DEF a, b, n, s
  <2>3. CASE i = k + n + 1
    <3>1. i - k = n + 1 /\ k < i /\ i <= k + (n + 1)
      BY <1>1, <2>3
    <3> QED BY <1>1, <2>1, <2>2, <2>3, <3>1
  <2>4. CASE k < i /\ i <= k + n
    <3>1. i - k \in 1..n /\ i # k + n + 1 /\ i <= k + (n + 1)
      BY <1>1, <2>4
    <3> DEFINE j == i - k
    <3>2. j \in 1..n
      BY <3>1
    <3> HIDE DEF j
    <3>3. s[j] = text[j]
      BY <1>1, <3>2
    <3> QED BY <2>1, <2>2, <2>4, <3>1, <3>3 DEF j
  <2>5. CASE i <= k \/ i > k + n + 1
    <3>1. i # k + n + 1 /\ ~(k < i /\ i <= k + n) /\ ~(k < i /\ i <= k + (n + 1))
      BY <1>1, <2>5
    <3> QED BY <2>1, <2>2, <3>1
  <2>6. n \in Nat
    BY <1>1
  <2>7. i = k + n + 1 \/ (k < i /\ i <= k + n) \/ i <= k \/ i > k + n + 1
    BY ONLY <2>6, k \in Nat, i \in 1..16
  <2> QED BY ONLY <2>3, <2>4, <2>5, <2>7
<1> HIDE DEF a, b
<1>7. [i \in 1..16 |-> a[i]] = [i \in 1..16 |-> b[i]]
  BY <1>6
<1> QED BY <1>3, <1>4, <1>5, <1>7 DEF a, b

\* What is on the screen after a text: its characters from the cursor on, in their
\* row, and the rest as it was.
Appeared(p, q, row, col, text) ==
  /\ q \in Ready /\ Told(q) /\ q.screen.cursor = Address(row, col + Len(text))
  /\ q.screen.frame = [p.screen.frame EXCEPT ![row] = Written(@, col, text)]

\* The cursor is where the drivers put it.
LEMMA CursorIsPosition ==
  \A row \in 1..2, col \in 0..15 : /\ AddressToPosition(Address(row, col)) = <<row, col>>
                                   /\ Address(row, col) + 1 = Address(row, col + 1)
<1> TAKE row \in 1..2, col \in 0..15
<1>1. CASE row = 1
  <2>1. Address(row, col) = col /\ col \notin 64..79
    BY <1>1 DEF Address
  <2> QED BY <1>1, <2>1 DEF Address, AddressToPosition, Columns
<1>2. CASE row = 2
  <2>1. Address(row, col) = 64 + col /\ 64 + col \in 64..79 /\ (64 + col) - 64 = col
    BY <1>2 DEF Address
  <2> QED BY <1>2, <2>1 DEF Address, AddressToPosition, Columns
<1> QED BY <1>1, <1>2

\* A character more appears after the others.
LEMMA CharacterAppears ==
  ASSUME NEW p \in Ready, NEW q, NEW row \in 1..2, NEW col \in Nat, NEW text \in Seq(Char), NEW c \in Char,
         col + Len(text) < Columns, Appeared(p, q, row, col, text)
  PROVE  Appeared(p, Done(q, 1, c), row, col, Append(text, c))
<1> DEFINE f == p.screen.frame
           n == Len(text)
           s == Append(text, c)
           q1 == Done(q, 1, c)
<1>1. f \in Frame /\ f[row] \in Row /\ DOMAIN f = 1..2
  <2>1. f \in Frame
    BY DEF Ready, Screens
  <2> QED BY <2>1 DEF Frame
<1>2. n \in Nat /\ Len(s) = n + 1 /\ col + n \in 0..15
  <2>1. n \in Nat /\ Len(s) = n + 1
    OBVIOUS
  <2>2. col \in Nat /\ col + n < 16
    BY DEF Columns
  <2> HIDE DEF n, s
  <2> QED BY ONLY <2>1, <2>2
<1>3. q \in Ready /\ Told(q) /\ q.screen.cursor = Address(row, col + n)
      /\ q.screen.frame = [f EXCEPT ![row] = Written(f[row], col, text)]
  BY DEF Appeared
<1>4. q1 \in Ready /\ Told(q1)
  BY <1>3, ByteIsDecoded, HistoryKeepsUp
<1>5. q1.screen = WriteData(q.screen, c)
  BY DEF Done, After
<1>6. AddressToPosition(q.screen.cursor) = <<row, col + n>>
      /\ q.screen.cursor + 1 = Address(row, (col + n) + 1)
  BY <1>2, <1>3, CursorIsPosition
<1>7. q1.screen.cursor = Address(row, col + Len(s))
  <2>1. (col + n) + 1 = col + Len(s)
    BY <1>2
  <2> QED BY <1>5, <1>6, <2>1 DEF WriteData
<1>8. q1.screen.frame = [f EXCEPT ![row] = Written(f[row], col, s)]
  <2>1. q1.screen.frame = [q.screen.frame EXCEPT ![row][col + n + 1] = c]
    <3> DEFINE at == AddressToPosition(q.screen.cursor)
    <3>1. at = <<row, col + n>> /\ at[1] = row /\ at[2] = col + n /\ col + n < Columns
      BY <1>6
    <3>2. WriteData(q.screen, c).frame = IF at[2] < Columns THEN [q.screen.frame EXCEPT ![at[1]][at[2] + 1] = c]
                                         ELSE q.screen.frame
      BY DEF WriteData
    <3> HIDE DEF at
    <3> QED BY <1>5, <3>1, <3>2
  <2> DEFINE g == q.screen.frame
             old == Written(f[row], col, text)
             new == Written(f[row], col, s)
  <2>2. g = [f EXCEPT ![row] = old]
    BY <1>3
  <2>3. [old EXCEPT ![col + n + 1] = c] = new
    BY <1>1, WrittenAppends
  <2> HIDE DEF g, old, new, f
  <2>4. g[row] = old
    BY <1>1, <2>2
  <2>5. q1.screen.frame = [g EXCEPT ![row] = new]
    BY <2>1, <2>3, <2>4 DEF g
  <2>6. [g EXCEPT ![row] = new] = [f EXCEPT ![row] = new]
    BY <1>1, <2>2
  <2> QED BY <2>5, <2>6 DEF new
<1> QED BY <1>4, <1>7, <1>8 DEF Appeared

\* A text of the driver appears where the cursor is.
LEMMA TextAppears ==
  ASSUME NEW p \in Ready, Told(p), NEW row \in 1..2, NEW col \in Nat, NEW text \in Seq(Char),
         col + Len(text) <= Columns, p.screen.cursor = Address(row, col)
  PROVE  Appeared(p, NibbleFold!Folded(p, Write(text)), row, col, text)
<1> DEFINE n == Len(text)
           Upto(i) == [j \in 1..i |-> text[j]]
           T == {i \in Nat : i <= n => Appeared(p, NibbleFold!Folded(p, Write(Upto(i))), row, col, Upto(i))}
<1>1. n \in Nat /\ text = Upto(n) /\ \A i \in 1..n : text[i] \in Char
  OBVIOUS
<1>2. 0 \in T
  <2>1. Upto(0) = <<>>
    OBVIOUS
  <2>2. NibbleFold!Folded(p, Write(<<>>)) = p
    BY WriteAppends, NibbleFold!FoldEmpty
  <2>3. p.screen.frame \in Frame
    BY DEF Ready, Screens
  <2>4. Written(p.screen.frame[row], col, <<>>) = p.screen.frame[row]
    <3>1. p.screen.frame[row] \in Row
      BY <2>3 DEF Frame
    <3> DEFINE f == p.screen.frame[row]
    <3>2. f = [i \in 1..16 |-> f[i]]
      BY <3>1 DEF Row, Columns
    <3> HIDE DEF f
    <3>3. \A i \in 1..16 : ~(col < i /\ i <= col + Len(<<>>))
      OBVIOUS
    <3>4. Written(f, col, <<>>) = f
      BY <3>2, <3>3 DEF Written, Columns
    <3> QED BY <3>4 DEF f
  <2>5. [p.screen.frame EXCEPT ![row] = p.screen.frame[row]] = p.screen.frame
    BY <2>3 DEF Frame
  <2>6. col + Len(<<>>) = col
    OBVIOUS
  <2>7. Appeared(p, p, row, col, <<>>)
    BY <2>4, <2>5, <2>6 DEF Appeared
  <2> QED BY <2>1, <2>2, <2>7
<1>3. \A i \in Nat : i \in T => i + 1 \in T
  <2> SUFFICES ASSUME NEW i \in Nat, i \in T, i + 1 <= n
               PROVE  Appeared(p, NibbleFold!Folded(p, Write(Upto(i + 1))), row, col, Upto(i + 1))
    OBVIOUS
  <2> DEFINE u == Upto(i)
             c == text[i + 1]
             q == NibbleFold!Folded(p, Write(u))
  <2>1. u \in Seq(Char) /\ Len(u) = i /\ c \in Char
    BY <1>1
  <2>2. Upto(i + 1) = Append(u, c)
    OBVIOUS
  <2>3. Appeared(p, q, row, col, u)
    BY <1>1
  <2>4. col + Len(u) < Columns
    BY <1>1, <2>1 DEF Columns
  <2> HIDE DEF u, c, q
  <2>5. Appeared(p, Done(q, 1, c), row, col, Append(u, c))
    BY <2>1, <2>3, <2>4, CharacterAppears
  <2>6. Write(u) \in Seq(BusPulse) /\ WriteByte(1, c) \in Seq(BusPulse)
    BY <2>1, WriteAppends, BytePulses
  <2>7. NibbleFold!Folded(p, Write(u) \o WriteByte(1, c)) = NibbleFold!Folded(q, WriteByte(1, c))
    <3> DEFINE a == Write(u)
               b == WriteByte(1, c)
    <3>1. a \in Seq(BusPulse) /\ b \in Seq(BusPulse)
      BY <2>6
    <3> HIDE DEF a, b
    <3>2. NibbleFold!Folded(p, a \o b) = NibbleFold!Folded(NibbleFold!Folded(p, a), b)
      BY ONLY <3>1, NibbleFold!FoldConcat
    <3> QED BY <3>2, Zenon DEF a, b, q
  <2>8. NibbleFold!Folded(q, WriteByte(1, c)) = Done(q, 1, c)
    BY <2>1, <2>3, ByteIsDecoded DEF Appeared
  <2>9. Write(Append(u, c)) = Write(u) \o WriteByte(1, c)
    BY <2>1, WriteAppends
  <2> QED BY ONLY <2>2, <2>5, <2>7, <2>8, <2>9, Zenon
<1> HIDE DEF T
<1>4. n \in T
  BY <1>1, <1>2, <1>3, SumFold!NatSet
<1> QED BY <1>1, <1>4 DEF T

-----------------------------------------------------------------------------
(* Messages *)

\* Two messages one after the other.
LEMMA MessagesJoin ==
  \A p, a, b :
    a \in Seq(BusPulse) /\ b \in Seq(BusPulse) =>
      /\ a \o b \in Seq(BusPulse)
      /\ NibbleFold!Folded(p, a \o b) = NibbleFold!Folded(NibbleFold!Folded(p, a), b)
<1> TAKE p, a, b
<1> HAVE a \in Seq(BusPulse) /\ b \in Seq(BusPulse)
<1>1. a \in Seq(BusPulse) /\ b \in Seq(BusPulse)
  OBVIOUS
<1>2. NibbleFold!Folded(p, a \o b) = NibbleFold!Folded(NibbleFold!Folded(p, a), b)
  BY ONLY <1>1, NibbleFold!FoldConcat
<1> QED BY <1>1, <1>2

\* A panel that has just been cleared.
Cleared(p) == p \in Ready /\ Told(p) /\ p.screen = [cursor |-> 0, frame |-> EmptyFrame]

\* The cursor has gone to a cell, and nothing else has changed.
PutAt(p, q, row, col) ==
  /\ q \in Ready /\ q.screen.cursor = Address(row, col) /\ q.screen.frame = p.screen.frame
  /\ Told(p) => Told(q)

\* The commands of the drivers: most are nothing to the decoder, and one puts the
\* cursor at the start of a cell.
LEMMA CommandsAreRead ==
  /\ \A byte \in Char : Instruct(byte) \in Seq(BusPulse)
  /\ \A p \in Ready, byte \in {6, 12, 40, 50, 51} : NibbleFold!Folded(p, Instruct(byte)) = p
  /\ \A col \in 0..15, y \in {0, 1} : SetCursor(col, y) \in Seq(BusPulse)
  /\ \A p \in Ready, col \in 0..15, y \in {0, 1} :
       PutAt(p, NibbleFold!Folded(p, SetCursor(col, y)), y + 1, col)
<1>1. \A byte \in Char : Instruct(byte) \in Seq(BusPulse)
  BY BytePulses DEF Instruct
<1>2. ASSUME NEW p \in Ready, NEW byte \in {6, 12, 40, 50, 51} PROVE NibbleFold!Folded(p, Instruct(byte)) = p
  <2>1. byte \in Char /\ byte # 1 /\ byte # 2 /\ ~(byte > 127) /\ 0 \in {0, 1}
    BY DEF Char
  <2>2. NibbleFold!Folded(p, Instruct(byte)) = Done(p, 0, byte)
    BY <2>1, ByteIsDecoded DEF Instruct
  <2>3. After(p.screen, 0, byte) = p.screen
    BY <2>1 DEF After, ApplyCommand
  <2>4. Done(p, 0, byte) = [pending |-> NoNibble, screen |-> p.screen, frames |-> p.frames]
    BY <2>1, <2>3 DEF Done
  <2>5. p = [pending |-> NoNibble, screen |-> p.screen, frames |-> p.frames]
    BY DEF Ready
  <2> QED BY <2>2, <2>4, <2>5
<1>3. ASSUME NEW col \in 0..15, NEW y \in {0, 1}
      PROVE  \E byte \in Char : /\ SetCursor(col, y) = Instruct(byte) /\ byte > 127
                                /\ byte - 128 = Address(y + 1, col)
  <2> DEFINE byte == IF y = 1 THEN 192 + col ELSE 128 + col
  <2>1. byte \in Char /\ byte > 127 /\ byte - 128 = Address(y + 1, col)
    BY DEF Char, Address
  <2>2. SetCursor(col, y) = Instruct(byte)
    BY DEF SetCursor
  <2> QED BY <2>1, <2>2
<1>4. ASSUME NEW p \in Ready, NEW col \in 0..15, NEW y \in {0, 1}
      PROVE  PutAt(p, NibbleFold!Folded(p, SetCursor(col, y)), y + 1, col)
  <2> DEFINE q == NibbleFold!Folded(p, SetCursor(col, y))
  <2>1. PICK byte \in Char : /\ SetCursor(col, y) = Instruct(byte) /\ byte > 127
                             /\ byte - 128 = Address(y + 1, col)
    BY <1>3
  <2>2. q = Done(p, 0, byte) /\ q \in Ready
    BY <2>1, ByteIsDecoded DEF Instruct
  <2> HIDE DEF q
  <2>3. Told(p) => Told(q)
    BY <2>2, HistoryKeepsUp
  <2>4. byte # 1 /\ byte # 2 /\ byte > 127
    BY <2>1 DEF Char
  <2>5. q.screen = [p.screen EXCEPT !.cursor = byte - 128]
    BY <2>2, <2>4 DEF Done, After, ApplyCommand
  <2>6. p.screen \in Screens
    BY DEF Ready
  <2>7. \A c : [p.screen EXCEPT !.cursor = c].cursor = c /\ [p.screen EXCEPT !.cursor = c].frame = p.screen.frame
    BY <2>6 DEF Screens
  <2>8. q.screen.cursor = byte - 128 /\ q.screen.frame = p.screen.frame
    BY <2>5, <2>7, Zenon
  <2> QED BY <2>1, <2>2, <2>3, <2>8 DEF PutAt, q
<1>5. \A col \in 0..15, y \in {0, 1} : SetCursor(col, y) \in Seq(BusPulse)
  BY <1>1, <1>3
<1> QED BY <1>1, <1>2, <1>4, <1>5

\* The start of each driver leaves the decoder with a cleared panel, that of the ESP
\* also when it is half a command ahead.
LEMMA DriversClear ==
  /\ ZephyrInit \in Seq(BusPulse) /\ EspInit \in Seq(BusPulse) /\ ArduinoInit \in Seq(BusPulse)
  /\ \A p \in Ready : Cleared(NibbleFold!Folded(p, ZephyrInit)) /\ Cleared(NibbleFold!Folded(p, ArduinoInit))
  /\ \A p \in Ready \cup Slipped : Cleared(NibbleFold!Folded(p, EspInit))
<1> DEFINE read(p, m) == NibbleFold!Folded(p, m)
           M == Seq(BusPulse)
           four == <<Pulse(0, 3), Pulse(0, 3), Pulse(0, 3), Pulse(0, 2)>>
           blank == Write(<<Blank>>)
<1>1. \A p, a, b : a \in M /\ b \in M => a \o b \in M /\ read(p, a \o b) = read(read(p, a), b)
  BY MessagesJoin
<1>2. /\ \A byte \in {6, 12, 40, 50, 51} : Instruct(byte) \in M /\ \A p \in Ready : read(p, Instruct(byte)) = p
      /\ \A byte \in {6, 12, 40, 50, 51} : \A p \in Slipped : read(p, Instruct(byte)) \in Slipped
  <2>1. \A byte \in {6, 12, 40, 50, 51} : byte \in Char
    BY DEF Char
  <2> QED BY <2>1, CommandsAreRead, SlipEndsWithData
<1>3. Clear \in M /\ \A p \in Ready : Cleared(read(p, Clear))
  <2>1. 1 \in Char
    BY DEF Char
  <2> QED BY <2>1, CommandsAreRead, HistoryKeepsUp DEF Clear, Cleared
<1>4. four \in M /\ \A p \in Ready : read(p, four) = p
  <2>1. Instruct(51) = <<Pulse(0, 3), Pulse(0, 3)>> /\ Instruct(50) = <<Pulse(0, 3), Pulse(0, 2)>>
    BY DEF Instruct, WriteByte
  <2>2. four = Instruct(51) \o Instruct(50)
    BY <2>1, JoinTwos
  <2> HIDE DEF four
  <2> QED BY <1>1, <1>2, <2>2
<1>5. blank \in M /\ \A p \in Ready \cup Slipped : read(p, blank) \in Ready
  <2> DEFINE w == WriteByte(1, Blank)
  <2>1. Blank \in Char /\ 1 \in {0, 1}
    BY DEF Blank, Char
  <2>2. Append(<<>>, Blank) = <<Blank>> /\ <<>> \in Seq(Char)
    OBVIOUS
  <2>3. w \in M
    BY <2>1, BytePulses
  <2>4. blank = <<>> \o w
    BY <2>1, <2>2, WriteAppends
  <2> HIDE DEF w
  <2>5. <<>> \o w = w
    BY <2>3
  <2> HIDE DEF blank
  <2> QED BY <2>1, <2>3, <2>4, <2>5, ByteIsDecoded, SlipEndsWithData DEF w
<1> HIDE DEF read, M, four, blank
<1> DEFINE z1 == four \o Instruct(40)
           z2 == z1 \o Instruct(12)
           z3 == z2 \o Clear
<1>6. ZephyrInit = z3 \o Instruct(6)
  BY DEF ZephyrInit, four
<1>7. z1 \in M /\ \A p \in Ready : read(p, z1) = p
  BY <1>1, <1>2, <1>4
<1>8. z2 \in M /\ \A p \in Ready : read(p, z2) = p
  <2> HIDE DEF z1
  <2> QED BY <1>1, <1>2, <1>7
<1>9. z3 \in M /\ \A p \in Ready : Cleared(read(p, z3))
  <2> HIDE DEF z2
  <2> QED BY <1>1, <1>3, <1>8
<1>10. ZephyrInit \in M /\ \A p \in Ready : Cleared(read(p, ZephyrInit))
  <2> HIDE DEF z3
  <2>1. \A p : Cleared(p) => read(p, Instruct(6)) = p
    BY <1>2 DEF Cleared
  <2> QED BY <1>1, <1>2, <1>6, <1>9, <2>1
<1> HIDE DEF z1, z2, z3
<1> DEFINE e1 == Instruct(40) \o Instruct(12)
           e2 == e1 \o Instruct(6)
           e3 == e2 \o blank
<1>11. EspInit = e3 \o Clear /\ ArduinoInit = e2 \o Clear
  BY DEF EspInit, ArduinoInit, blank
<1>12. e1 \in M /\ (\A p \in Ready : read(p, e1) = p) /\ \A p \in Slipped : read(p, e1) \in Slipped
  BY <1>1, <1>2
<1>13. e2 \in M /\ (\A p \in Ready : read(p, e2) = p) /\ \A p \in Slipped : read(p, e2) \in Slipped
  <2> HIDE DEF e1
  <2> QED BY <1>1, <1>2, <1>12
<1>14. e3 \in M /\ \A p \in Ready \cup Slipped : read(p, e3) \in Ready
  <2> HIDE DEF e2
  <2> QED BY <1>1, <1>5, <1>13
<1>15. ArduinoInit \in M /\ \A p \in Ready : Cleared(read(p, ArduinoInit))
  <2> HIDE DEF e2, e3
  <2> QED BY <1>1, <1>3, <1>11, <1>13
<1>16. EspInit \in M /\ \A p \in Ready \cup Slipped : Cleared(read(p, EspInit))
  <2> HIDE DEF e2, e3
  <2> QED BY <1>1, <1>3, <1>11, <1>14
<1> QED BY <1>10, <1>15, <1>16 DEF read, M

\* At power on the decoder is ready, and a stray pulse sets it half a command ahead.
LEMMA PowerOnReady ==
  /\ PowerOnPanel \in Ready /\ Told(PowerOnPanel) /\ Cleared(PowerOnPanel)
  /\ \A nibble \in 0..15 : /\ <<Pulse(0, nibble)>> \in Seq(BusPulse)
                           /\ NibbleFold!Folded(PowerOnPanel, <<Pulse(0, nibble)>>) \in Slipped
<1>1. PowerOnPanel \in Ready /\ PowerOnPanel.screen = [cursor |-> 0, frame |-> EmptyFrame]
      /\ PowerOnPanel.pending = NoNibble
  <2>1. EmptyFrame \in Frame
    BY ScreensAfter
  <2>2. <<EmptyFrame>> \in Seq(Frame) /\ [cursor |-> 0, frame |-> EmptyFrame] \in Screens
    BY <2>1 DEF Screens
  <2> QED BY <2>2 DEF PowerOnPanel, Ready
<1>2. Told(PowerOnPanel)
  <2>1. <<EmptyFrame>> # <<>> /\ Len(<<EmptyFrame>>) = 1 /\ <<EmptyFrame>>[1] = EmptyFrame
    OBVIOUS
  <2> QED BY <2>1 DEF PowerOnPanel, Told
<1>3. ASSUME NEW nibble \in 0..15
      PROVE  /\ <<Pulse(0, nibble)>> \in Seq(BusPulse)
             /\ NibbleFold!Folded(PowerOnPanel, <<Pulse(0, nibble)>>) \in Slipped
  <2> DEFINE a == Pulse(0, nibble)
             s == <<a>>
  <2>1. a \in BusPulse /\ a \in [rs : {0}, nibble : 0..15] /\ a.rs = 0
    BY DEF Pulse, BusPulse
  <2> HIDE DEF a
  <2>2. DOMAIN s = 1..1 /\ s[1] = a /\ s \in Seq(BusPulse)
    BY <2>1
  <2> HIDE DEF s
  <2>3. NibbleFold!Folded(PowerOnPanel, s) = DecodeNibble(PowerOnPanel, a)
    BY <2>2, NibbleFold!FoldOne
  <2>4. PowerOnPanel.pending.rs # a.rs
    BY <1>1, <2>1 DEF NoNibble
  <2>5. DecodeNibble(PowerOnPanel, a) = [PowerOnPanel EXCEPT !.pending = a]
    BY <2>4, Zenon DEF DecodeNibble
  <2>6. [PowerOnPanel EXCEPT !.pending = a] \in Slipped
    BY <1>1, <2>1 DEF Ready, Slipped
  <2> QED BY <2>2, <2>3, <2>5, <2>6 DEF s, a
<1> QED BY <1>1, <1>2, <1>3 DEF Cleared

\* A row of text on a cleared panel.
RowOf(text) == Written(EmptyRow, 0, text)

\* A clear and two lines of text are what is then on the screen.
LEMMA LinesAppear ==
  ASSUME NEW p \in Ready, NEW a \in Seq(Char), NEW b \in Seq(Char), Len(a) <= Columns, Len(b) <= Columns
  PROVE  LET m == Clear \o SetCursor(0, 0) \o Write(a) \o SetCursor(0, 1) \o Write(b)
             q == NibbleFold!Folded(p, m)
         IN /\ m \in Seq(BusPulse) /\ q \in Ready /\ Told(q)
            /\ q.screen.frame[1] = RowOf(a) /\ q.screen.frame[2] = RowOf(b)
<1> DEFINE read(x, m) == NibbleFold!Folded(x, m)
           M == Seq(BusPulse)
           m1 == Clear \o SetCursor(0, 0)
           m2 == m1 \o Write(a)
           m3 == m2 \o SetCursor(0, 1)
           p0 == read(p, Clear)
           p1 == read(p0, SetCursor(0, 0))
           p2 == read(p1, Write(a))
           p3 == read(p2, SetCursor(0, 1))
           q == read(p3, Write(b))
<1>1. \A x, u, v : u \in M /\ v \in M => u \o v \in M /\ read(x, u \o v) = read(read(x, u), v)
  BY MessagesJoin
<1>2. Clear \in M /\ SetCursor(0, 0) \in M /\ SetCursor(0, 1) \in M /\ Write(a) \in M /\ Write(b) \in M
  <2>1. 1 \in Char /\ 0 \in 0..15
    BY DEF Char
  <2> QED BY <2>1, CommandsAreRead, WriteAppends DEF Clear
<1>3. p0 \in Ready /\ Told(p0) /\ p0.screen.frame = EmptyFrame
  BY HistoryKeepsUp
<1> HIDE DEF p0
<1>4. p1 \in Ready /\ Told(p1) /\ p1.screen.frame = EmptyFrame /\ p1.screen.cursor = Address(1, 0)
  <2>1. 0 \in 0..15 /\ 0 + 1 = 1
    OBVIOUS
  <2>2. PutAt(p0, read(p0, SetCursor(0, 0)), 0 + 1, 0)
    BY <1>3, <2>1, CommandsAreRead
  <2> QED BY <1>3, <2>1, <2>2 DEF PutAt
<1> HIDE DEF p1
<1>5. Appeared(p1, p2, 1, 0, a)
  <2>1. 1 \in 1..2 /\ 0 \in Nat /\ 0 + Len(a) <= Columns
    OBVIOUS
  <2> QED BY <1>4, <2>1, TextAppears
<1> HIDE DEF p2
<1>6. p2 \in Ready /\ Told(p2) /\ p2.screen.frame = [EmptyFrame EXCEPT ![1] = RowOf(a)]
  <2>1. EmptyFrame \in Frame /\ EmptyFrame[1] = EmptyRow
    BY ScreensAfter
  <2> QED BY <1>4, <1>5, <2>1 DEF Appeared, RowOf
<1>7. p3 \in Ready /\ Told(p3) /\ p3.screen.frame = [EmptyFrame EXCEPT ![1] = RowOf(a)]
      /\ p3.screen.cursor = Address(2, 0)
  <2>1. 0 \in 0..15 /\ 1 + 1 = 2
    OBVIOUS
  <2>2. PutAt(p2, read(p2, SetCursor(0, 1)), 1 + 1, 0)
    BY <1>6, <2>1, CommandsAreRead
  <2> QED BY <1>6, <2>1, <2>2 DEF PutAt
<1> HIDE DEF p3
<1>8. Appeared(p3, q, 2, 0, b)
  <2>1. 2 \in 1..2 /\ 0 \in Nat /\ 0 + Len(b) <= Columns
    OBVIOUS
  <2> QED BY <1>7, <2>1, TextAppears
<1> HIDE DEF q
<1>9. q \in Ready /\ Told(q) /\ q.screen.frame[1] = RowOf(a) /\ q.screen.frame[2] = RowOf(b)
  <2>1. EmptyFrame \in Frame /\ EmptyFrame[2] = EmptyRow /\ DOMAIN EmptyFrame = 1..2
    BY ScreensAfter DEF Frame
  <2> DEFINE f == p3.screen.frame
  <2>2. f = [EmptyFrame EXCEPT ![1] = RowOf(a)]
    BY <1>7
  <2>3. q.screen.frame = [f EXCEPT ![2] = Written(f[2], 0, b)]
    BY <1>8 DEF Appeared
  <2> HIDE DEF f
  <2>4. DOMAIN f = 1..2 /\ f[1] = RowOf(a) /\ f[2] = EmptyRow
    BY <2>1, <2>2
  <2>5. q.screen.frame[1] = f[1] /\ q.screen.frame[2] = Written(f[2], 0, b)
    BY <2>3, <2>4
  <2> QED BY <1>8, <2>4, <2>5 DEF Appeared, RowOf
<1> HIDE DEF read, M
<1>10. m1 \in M /\ read(p, m1) = p1
  BY <1>1, <1>2 DEF p0, p1
<1> HIDE DEF m1
<1>11. m2 \in M /\ read(p, m2) = p2
  BY <1>1, <1>2, <1>10 DEF p2
<1> HIDE DEF m2
<1>12. m3 \in M /\ read(p, m3) = p3
  BY <1>1, <1>2, <1>11 DEF p3
<1> HIDE DEF m3
<1>13. m3 \o Write(b) \in M /\ read(p, m3 \o Write(b)) = q
  BY <1>1, <1>2, <1>12 DEF q
<1> QED BY <1>9, <1>13 DEF m1, m2, m3, M, read

-----------------------------------------------------------------------------
(* Frames *)

\* Some numbers up to n have a greatest.
LEMMA GreatestIndex ==
  ASSUME NEW n \in Nat, NEW I \in SUBSET (1..n), I # {}
  PROVE  Max(I) \in I /\ \A i \in I : Max(I) >= i
<1> DEFINE T == {k \in Nat : \A J \in SUBSET (1..k) : J # {} => \E x \in J : \A y \in J : x >= y}
<1>1. 0 \in T
  <2>1. 1..0 = {}
    OBVIOUS
  <2>2. \A J \in SUBSET (1..0) : J = {}
    BY <2>1
  <2> QED BY <2>2
<1>2. \A k \in Nat : k \in T => k + 1 \in T
  <2> SUFFICES ASSUME NEW k \in Nat, k \in T, NEW J \in SUBSET (1..(k + 1)), J # {}
               PROVE  \E x \in J : \A y \in J : x >= y
    OBVIOUS
  <2>1. CASE k + 1 \in J
    BY <2>1
  <2>2. CASE k + 1 \notin J
    <3>1. J \in SUBSET (1..k)
      BY <2>2
    <3> QED BY <3>1
  <2> QED BY <2>1, <2>2
<1> HIDE DEF T
<1>3. n \in T
  BY <1>1, <1>2, SumFold!NatSet
<1>4. \E x \in I : \A y \in I : x >= y
  BY <1>3 DEF T
<1>5. (CHOOSE x \in I : \A y \in I : x >= y) \in I
      /\ \A y \in I : (CHOOSE x \in I : \A z \in I : x >= z) >= y
  BY <1>4, Zenon
<1> QED BY <1>5, Zenon DEF Max

\* And a least.
LEMMA LeastIndex ==
  ASSUME NEW n \in Nat, NEW I \in SUBSET (1..n), I # {}
  PROVE  Min(I) \in I /\ \A i \in I : Min(I) <= i
<1> DEFINE T == {k \in Nat : \A J \in SUBSET (1..k) : J # {} => \E x \in J : \A y \in J : x <= y}
<1>1. 0 \in T
  <2>1. 1..0 = {}
    OBVIOUS
  <2>2. \A J \in SUBSET (1..0) : J = {}
    BY <2>1
  <2> QED BY <2>2
<1>2. \A k \in Nat : k \in T => k + 1 \in T
  <2> TAKE k \in Nat
  <2> HAVE k \in T
  <2> SUFFICES ASSUME NEW J \in SUBSET (1..(k + 1)), J # {} PROVE \E x \in J : \A y \in J : x <= y
    <3>1. k + 1 \in Nat
      OBVIOUS
    <3> QED BY <3>1, Zenon
  <2> DEFINE K == J \ {k + 1}
  <2>1. K \in SUBSET (1..k)
    <3>1. \A y \in 1..(k + 1) : y # k + 1 => y \in 1..k
      OBVIOUS
    <3> QED BY <3>1
  <2>2. CASE K = {}
    <3>1. k + 1 \in J /\ \A y \in J : y = k + 1
      BY <2>2
    <3> QED BY <3>1
  <2>3. CASE K # {}
    <3>1. PICK x \in K : \A y \in K : x <= y
      BY <2>1, <2>3
    <3>2. x \in J /\ x <= k + 1
      BY <2>1, <3>1
    <3> QED BY <3>1, <3>2
  <2> QED BY <2>2, <2>3
<1> HIDE DEF T
<1>3. n \in T
  BY <1>1, <1>2, SumFold!NatSet
<1>4. \E x \in I : \A y \in I : x <= y
  BY <1>3 DEF T
<1>5. (CHOOSE x \in I : \A y \in I : x <= y) \in I
      /\ \A y \in I : (CHOOSE x \in I : \A z \in I : x <= z) <= y
  BY <1>4, Zenon
<1> QED BY <1>5, Zenon DEF Min

\* A row without the blanks at its end is a text of its cells, and all of it if its
\* last character is none.
LEMMA StrippedIsText ==
  /\ \A row, S : row \in Row /\ (\A i \in 1..Columns : row[i] \in S) => Stripped(row) \in Seq(S)
  /\ \A text \in Seq(Char) : /\ Len(text) \in 1..Columns /\ text[Len(text)] # Blank
                             => Stripped(RowOf(text)) = text
<1> DEFINE cells(row) == {i \in 1..Len(row) : row[i] # Blank}
<1>0. ASSUME NEW S, NEW row \in Row, \A i \in 1..16 : row[i] \in S
      PROVE  row \in Seq(S) /\ Len(row) = 16 /\ DOMAIN row = 1..16
  <2>1. row = [i \in 1..16 |-> row[i]]
    BY DEF Row, Columns
  <2>2. [i \in 1..16 |-> row[i]] \in Seq(S) /\ Len([i \in 1..16 |-> row[i]]) = 16
    BY <1>0
  <2> QED BY <2>1, <2>2
<1>1. ASSUME NEW row \in Row
      PROVE  /\ Len(row) = 16 /\ row \in Seq(Char) /\ DOMAIN row = 1..16
             /\ Stripped(row) = SubSeq(row, 1, IF cells(row) # {} THEN Max(cells(row)) ELSE 0)
  <2>1. Len(row) = 16 /\ row \in Seq(Char) /\ DOMAIN row = 1..16
    <3>1. \A i \in 1..16 : row[i] \in Char
      BY DEF Row, Columns
    <3> QED BY <1>0, <3>1
  <2> QED BY <2>1 DEF Stripped, SelectLastInSeq
<1>2. ASSUME NEW row \in Row, NEW S, \A i \in 1..Columns : row[i] \in S PROVE Stripped(row) \in Seq(S)
  <2> DEFINE I == cells(row)
             k == IF I # {} THEN Max(I) ELSE 0
  <2>1. row \in Seq(S) /\ Len(row) = 16
    BY <1>0, <1>2 DEF Columns
  <2>2. I \in SUBSET (1..16)
    BY <2>1
  <2>3. Stripped(row) = SubSeq(row, 1, k)
    BY <1>1
  <2> HIDE DEF I
  <2>4. k \in 0..16
    <3>1. 16 \in Nat
      OBVIOUS
    <3>2. I # {} => Max(I) \in I
      BY <2>2, <3>1, GreatestIndex
    <3>3. I # {} => Max(I) \in 1..16
      BY <2>2, <3>2
    <3> QED BY <3>3
  <2> HIDE DEF k
  <2>5. SubSeq(row, 1, k) \in Seq(S)
    <3>1. CASE k = 0
      <4>1. SubSeq(row, 1, 0) = <<>>
        BY <2>1
      <4> QED BY <3>1, <4>1
    <3>2. CASE k \in 1..16
      <4>1. SubSeq(row, 1, k) = [i \in 1..k |-> row[i]]
        BY <2>1, <3>2
      <4>2. \A i \in 1..k : row[i] \in S
        BY <1>2, <3>2 DEF Columns
      <4> QED BY <3>2, <4>1, <4>2
    <3> QED BY <2>4, <3>1, <3>2
  <2> QED BY <2>3, <2>5
<1>3. ASSUME NEW text \in Seq(Char), Len(text) \in 1..Columns, text[Len(text)] # Blank
      PROVE  Stripped(RowOf(text)) = text
  <2> DEFINE n == Len(text)
             row == RowOf(text)
             I == cells(row)
  <2>1. n \in 1..16 /\ \A i \in 1..n : text[i] \in Char
    BY <1>3 DEF Columns
  <2>2. row = [c \in 1..16 |-> IF c <= n THEN text[c] ELSE Blank]
    <3>1. \A c \in 1..16 : (0 < c /\ c <= 0 + n <=> c <= n) /\ c - 0 = c /\ EmptyRow[c] = Blank
      BY <2>1 DEF EmptyRow, Columns
    <3>2. row = [c \in 1..16 |-> IF 0 < c /\ c <= 0 + n THEN text[c - 0] ELSE EmptyRow[c]]
      BY DEF RowOf, Written, Columns
    <3> HIDE DEF row, n
    <3> QED BY <3>1, <3>2
  <2> HIDE DEF row
  <2>3. row \in Row
    <3> HIDE DEF n
    <3>1. Blank \in Char
      BY DEF Char, Blank
    <3>2. \A c \in 1..16 : (IF c <= n THEN text[c] ELSE Blank) \in Char
      BY <2>1, <3>1
    <3> QED BY <2>2, <3>2 DEF Row, Columns
  <2>4. Stripped(row) = SubSeq(row, 1, IF I # {} THEN Max(I) ELSE 0) /\ Len(row) = 16
    BY <1>1, <2>3
  <2>5. n \in I /\ \A i \in I : i <= n
    BY <1>3, <2>1, <2>2, <2>4
  <2>6. I \in SUBSET (1..16)
    BY <2>4
  <2> HIDE DEF I
  <2>7. Max(I) \in I /\ Max(I) >= n
    <3>1. 16 \in Nat /\ I # {}
      BY <2>5
    <3>2. Max(I) \in I /\ \A i \in I : Max(I) >= i
      BY <2>6, <3>1, GreatestIndex
    <3> QED BY <2>5, <3>2
  <2>8. Max(I) = n
    <3> DEFINE m == Max(I)
    <3>1. m \in 1..16 /\ m <= n /\ m >= n
      BY <2>5, <2>6, <2>7
    <3> HIDE DEF m, n
    <3>2. m = n
      BY <2>1, <3>1
    <3> QED BY <3>2 DEF m
  <2>9. Stripped(row) = SubSeq(row, 1, n)
    BY <2>4, <2>5, <2>8
  <2>10. SubSeq(row, 1, n) = text
    <3>1. SubSeq(row, 1, n) = [i \in 1..n |-> row[i]]
      BY <1>1, <2>1, <2>3, <2>4
    <3>2. text = [i \in 1..n |-> text[i]]
      OBVIOUS
    <3> HIDE DEF n
    <3>3. \A i \in 1..n : row[i] = text[i]
      BY <2>1, <2>2
    <3> QED BY <3>1, <3>2, <3>3
  <2> QED BY <2>9, <2>10 DEF row
<1> QED BY <1>2, <1>3

\* A frame contains the text of its second row, and no text with a character that
\* none of its cells has.
LEMMA FrameTells ==
  ASSUME NEW frame \in Frame
  PROVE  /\ \A text \in Seq(Char) :
              /\ Len(text) \in 1..Columns /\ text[Len(text)] # Blank /\ frame[2] = RowOf(text)
              => FrameContains(frame, text)
         /\ \A a, b, c \in Char :
              c # Blank /\ (\A i \in 1..Columns : frame[1][i] # c /\ frame[2][i] # c)
              => ~FrameContains(frame, <<a, b, c>>)
<1>1. frame[1] \in Row /\ frame[2] \in Row
  BY DEF Frame
<1>2. ASSUME NEW text \in Seq(Char), Len(text) \in 1..Columns, text[Len(text)] # Blank, frame[2] = RowOf(text)
      PROVE  FrameContains(frame, text)
  <2> DEFINE a == Stripped(frame[1])
             u == a \o <<Blank>>
             s == u \o text
             k == Len(u)
             n == Len(text)
  <2>1. Shown(frame) = s
    BY <1>2, StrippedIsText DEF Shown
  <2>2. a \in Seq(Char)
    <3>1. \A i \in 1..Columns : frame[1][i] \in Char
      BY <1>1 DEF Row
    <3> QED BY <1>1, <3>1, StrippedIsText
  <2>3. u \in Seq(Char) /\ <<Blank>> \in Seq(Char)
    <3>1. Blank \in Char
      BY DEF Blank, Char
    <3> HIDE DEF a
    <3> QED BY <2>2, <3>1
  <2> HIDE DEF u
  <2>4. text \in Seq(Char) /\ n \in Nat /\ k \in Nat
    BY <2>3
  <2>5. /\ s \in Seq(Char) /\ Len(s) = k + n
        /\ \A i \in 1..n : s[k + i] = text[i]
    <3>1. u \in Seq(Char) /\ text \in Seq(Char)
      BY <2>3
    <3> QED BY ONLY <3>1, JoinAny
  <2> HIDE DEF s
  <2>6. SubSeq(s, k + 1, k + n) = text
    <3> DEFINE w == SubSeq(s, k + 1, k + n)
    <3>1. w = [i \in 1..n |-> s[i + k]]
      <4>1. (k + n) - (k + 1) + 1 = n /\ \A i \in 1..n : i + (k + 1) - 1 = i + k
        BY <2>4
      <4> QED BY <2>4, <2>5, <4>1
    <3>2. text = [i \in 1..n |-> text[i]]
      OBVIOUS
    <3>3. \A i \in 1..n : s[i + k] = text[i]
      <4>1. \A i \in 1..n : i + k = k + i
        BY <2>4
      <4> HIDE DEF n
      <4> QED BY <2>5, <4>1
    <3> HIDE DEF n, w
    <3>4. w = text
      BY <3>1, <3>2, <3>3
    <3> QED BY <3>4 DEF w
  <2>7. k \in 0..(Len(s) - n)
    BY <2>4, <2>5
  <2> QED BY <2>1, <2>6, <2>7 DEF FrameContains, Within
<1>3. ASSUME NEW a \in Char, NEW b \in Char, NEW c \in Char, c # Blank,
             \A i \in 1..Columns : frame[1][i] # c /\ frame[2][i] # c,
             FrameContains(frame, <<a, b, c>>)
      PROVE  FALSE
  <2> DEFINE S == Char \ {c}
             s == Shown(frame)
             part == <<a, b, c>>
  <2>1. Stripped(frame[1]) \in Seq(S) /\ Stripped(frame[2]) \in Seq(S)
    <3>1. \A i \in 1..Columns : frame[1][i] \in S /\ frame[2][i] \in S
      BY <1>1, <1>3 DEF Row
    <3> HIDE DEF S
    <3> QED BY <1>1, <3>1, StrippedIsText
  <2>2. <<Blank>> \in Seq(S)
    <3>1. Blank \in S
      BY <1>3 DEF Blank, Char
    <3> QED BY <3>1
  <2> HIDE DEF S
  <2>3. s \in Seq(S)
    BY <2>1, <2>2 DEF Shown
  <2> HIDE DEF s
  <2>4. Len(part) = 3 /\ part[3] = c
    OBVIOUS
  <2>5. PICK i \in 0..(Len(s) - 3) : SubSeq(s, i + 1, i + 3) = part
    BY <1>3, <2>4 DEF FrameContains, Within, s
  <2> HIDE DEF part
  <2>6. Len(s) \in Nat /\ i \in Nat /\ i + 3 <= Len(s)
    BY <2>3, <2>5
  <2>7. SubSeq(s, i + 1, i + 3)[3] = s[i + 3]
    <3>1. (i + 3) - (i + 1) + 1 = 3 /\ 3 + (i + 1) - 1 = i + 3
      BY <2>6
    <3> QED BY <2>3, <2>6, <3>1
  <2>8. s[i + 3] \in S
    BY <2>3, <2>6
  <2> QED BY <2>4, <2>5, <2>7, <2>8 DEF S
<1> QED BY <1>2, <1>3

-----------------------------------------------------------------------------
(* The single wire *)

\* The exchanges on the wire are folds of bits and bytes.
ReadBits == INSTANCE Folding WITH Op <- OwReadBit
ReadBytes == INSTANCE Folding WITH Op <- OwReadByte
WriteBits == INSTANCE Folding WITH Op <- OwWriteBit
=============================================================================
