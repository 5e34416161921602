-------------------------------- MODULE Folding --------------------------------
(* Induction on the naturals, and what a fold over a sequence is, for any     *)
(* step Op.  A module instantiates this one WITH Op <- its own step and cites *)
(* the lemmas by their names: what FoldLeft computes over a sequence of any   *)
(* length is then the last of a row of values, one step of Op apart, about    *)
(* which a set of naturals is proved inductive.                               *)
EXTENDS Integers, Sequences, SequencesExt, TLAPS, WellFoundedInduction
CONSTANT Op(_, _)

\* A set of naturals with 0 and each successor is all of them.
THEOREM NatSet ==
  \A T : 0 \in T /\ (\A n \in Nat : n \in T => n + 1 \in T) => Nat \subseteq T
<1> TAKE T
<1> HAVE 0 \in T /\ \A n \in Nat : n \in T => n + 1 \in T
<1> DEFINE U == Nat \ T
<1>1. SUFFICES ASSUME U # {} PROVE FALSE
  OBVIOUS
<1>2. PICK m \in U : \A y \in U : ~ (<<y, m>> \in OpToRel(<, Nat))
  BY <1>1, WFMin, NatLessThanWellFounded
<1>3. m \in Nat /\ m # 0
  OBVIOUS
<1>4. m - 1 \in Nat /\ m - 1 < m /\ (m - 1) + 1 = m
  BY <1>3
<1>5. <<m - 1, m>> \in OpToRel(<, Nat)
  BY <1>3, <1>4 DEF OpToRel
<1> QED BY <1>2, <1>3, <1>4, <1>5

\* The same from m on.
THEOREM NatSetFrom ==
  \A T, m : m \in Nat /\ m \in T /\ (\A n \in Nat : n >= m /\ n \in T => n + 1 \in T)
            => \A n \in Nat : n >= m => n \in T
<1> TAKE T, m
<1> HAVE m \in Nat /\ m \in T /\ \A n \in Nat : n >= m /\ n \in T => n + 1 \in T
<1> DEFINE S == {k \in Nat : m + k \in T}
<1>1. 0 \in S
  OBVIOUS
<1>2. ASSUME NEW k \in Nat, k \in S PROVE k + 1 \in S
  <2>1. m + k \in Nat /\ m + k >= m /\ m + (k + 1) = (m + k) + 1
    OBVIOUS
  <2> QED BY <1>2, <2>1
<1> HIDE DEF S
<1>3. Nat \subseteq S
  BY <1>1, <1>2, NatSet
<1>4. ASSUME NEW n \in Nat, n >= m PROVE n \in T
  <2>1. n - m \in Nat /\ m + (n - m) = n
    BY <1>4
  <2> QED BY <1>3, <2>1 DEF S
<1> QED BY <1>4

-----------------------------------------------------------------------------
(* FoldLeft goes through the positions of a sequence from the greatest down:  *)
(* the sets it passes are the prefixes.                                       *)

\* The greatest position of a set that holds the last one is the last one.
LEMMA MaxOfPrefix ==
  ASSUME NEW k \in Nat, NEW t \in SUBSET (1..k), k \in t
  PROVE  Max(t) = k
<1>1. k \in t /\ \A y \in t : k >= y
  OBVIOUS
<1>2. Max(t) \in t /\ \A y \in t : Max(t) >= y
  BY <1>1, Zenon DEF Max
<1>3. Max(t) \in Int /\ Max(t) >= k /\ k >= Max(t)
  <2>1. \A y \in t : y \in Int
    OBVIOUS
  <2> QED BY <1>1, <1>2, <2>1
<1> QED BY <1>3

\* So a set of positions either ends with the new one or is an older set.
LEMMA MaxAbove ==
  ASSUME NEW k \in Nat, NEW t \in SUBSET (1..(k + 1))
  PROVE  /\ k + 1 \in t => Max(t) = k + 1 /\ t \ {k + 1} \in SUBSET (1..k)
         /\ k + 1 \notin t => t \in SUBSET (1..k)
<1>1. k + 1 \in t => Max(t) = k + 1
  BY MaxOfPrefix
<1> QED BY <1>1

\* The function inside FoldLeft, on all sets of the first n positions.
Rec(iter, base, s, n) ==
  iter = [t \in SUBSET (1..n) |-> IF t = {} THEN base ELSE Op(iter[t \ {Max(t)}], s[Max(t)])]
\* There is such a function, for any n.
LEMMA IterExists ==
  ASSUME NEW base, NEW s, NEW n \in Nat
  PROVE \E iter : Rec(iter, base, s, n)
<1> DEFINE T == {k \in Nat : \E iter : Rec(iter, base, s, k)}
<1>1. 0 \in T
  <2> DEFINE g == [t \in SUBSET (1..0) |-> base]
  <2>1. Rec(g, base, s, 0)
    BY DEF Rec
  <2> QED BY <2>1
<1>2. ASSUME NEW k \in Nat, k \in T PROVE k + 1 \in T
  <2>1. PICK g : Rec(g, base, s, k)
    BY <1>2
  <2> DEFINE h == [t \in SUBSET (1..(k+1)) |-> IF k + 1 \in t THEN Op(g[t \ {k+1}], s[k+1]) ELSE g[t]]
  <2>2. ASSUME NEW t \in SUBSET (1..(k+1)) PROVE h[t] = IF t = {} THEN base ELSE Op(h[t \ {Max(t)}], s[Max(t)])
    <3>1. CASE k + 1 \in t
      <4>1. Max(t) = k + 1 /\ t \ {k+1} \in SUBSET (1..k) BY <3>1, MaxAbove
      <4>2. t \ {k+1} \in SUBSET (1..(k+1)) /\ k + 1 \notin t \ {k+1} BY <4>1
      <4>3. h[t \ {k+1}] = g[t \ {k+1}] BY <4>2
      <4> QED BY <3>1, <4>1, <4>3
    <3>2. CASE k + 1 \notin t
      <4>1. t \in SUBSET (1..k) BY <3>2, MaxAbove
      <4>2. g[t] = IF t = {} THEN base ELSE Op(g[t \ {Max(t)}], s[Max(t)]) BY <2>1, <4>1 DEF Rec
      <4>3. t \ {Max(t)} \in SUBSET (1..(k + 1)) /\ k + 1 \notin t \ {Max(t)} BY <3>2
      <4>4. h[t \ {Max(t)}] = g[t \ {Max(t)}] BY <4>3
      <4> QED BY <3>2, <4>2, <4>4
    <3> QED BY <3>1, <3>2
  <2>3. Rec(h, base, s, k+1)
    BY <2>2 DEF Rec
  <2> HIDE DEF h
  <2>4. \E iter : Rec(iter, base, s, k + 1)
    BY <2>3
  <2> QED BY <2>4
<1> HIDE DEF T
<1>3. Nat \subseteq T
  BY <1>1, <1>2, NatSet
<1> QED BY <1>3 DEF T

Folded(base, s) == FoldLeft(Op, base, s)

\* The fold of a sequence of n elements is the last of n steps.
LEMMA FoldRuns ==
  ASSUME NEW base, NEW s, NEW n \in Nat, DOMAIN s = 1..n
  PROVE  \E h : /\ h[0] = base
                /\ \A i \in 1..n : h[i] = Op(h[i-1], s[i])
                /\ Folded(base, s) = h[n]
<1> DEFINE iter == CHOOSE it : Rec(it, base, s, n)
<1>1. Folded(base, s) = iter[1..n]
  BY DEF Folded, FoldLeft, MapThenFoldSet, Rec
<1>2. Rec(iter, base, s, n)
  BY IterExists
<1> HIDE DEF iter
<1>5. \A t \in SUBSET (1..n) : iter[t] = IF t = {} THEN base ELSE Op(iter[t \ {Max(t)}], s[Max(t)])
  BY <1>2 DEF Rec
<1> DEFINE h == [i \in 0..n |-> iter[1..i]]
<1>3. h[0] = base
  <2>1. 1..0 = {} OBVIOUS
  <2>2. h[0] = iter[{}] BY <2>1
  <2> QED BY <1>5, <2>2
<1>4. ASSUME NEW i \in 1..n PROVE h[i] = Op(h[i-1], s[i])
  <2>1. 1..i \in SUBSET (1..n) /\ i \in 1..i /\ i - 1 \in 0..n OBVIOUS
  <2>2. Max(1..i) = i BY <2>1, MaxOfPrefix
  <2>3. (1..i) \ {i} = 1..(i-1) OBVIOUS
  <2>4. iter[1..i] = Op(iter[1..(i-1)], s[i])
    BY <1>5, <2>1, <2>2, <2>3
  <2> QED BY <2>1, <2>4
<1>6. Folded(base, s) = h[n]
  BY <1>1
<1> HIDE DEF h
<1> QED BY <1>3, <1>4, <1>6

Runs(h, base, s, n) ==
  /\ h[0] = base
  /\ \A i \in 1..n : h[i] = Op(h[i - 1], s[i])

\* The same as a fact about all sequences, to be cited where Op is known.
THEOREM FoldSteps ==
  \A base, s, n : n \in Nat /\ DOMAIN s = 1..n =>
    \E h : Runs(h, base, s, n) /\ Folded(base, s) = h[n]
BY FoldRuns DEF Runs

\* What holds at the base and is kept by each step holds at the end; it may
\* depend on the position.
THEOREM FoldKeeps ==
  \A base, s, n, J :
    /\ n \in Nat /\ DOMAIN s = 1..n /\ base \in J[0]
    /\ \A i \in 1..n : \A a \in J[i - 1] : Op(a, s[i]) \in J[i]
    => Folded(base, s) \in J[n]
<1> TAKE base, s, n, J
<1> HAVE /\ n \in Nat /\ DOMAIN s = 1..n /\ base \in J[0]
         /\ \A i \in 1..n : \A a \in J[i - 1] : Op(a, s[i]) \in J[i]
<1>1. PICK h : Runs(h, base, s, n) /\ Folded(base, s) = h[n]
  BY FoldSteps
<1> DEFINE T == {k \in Nat : k <= n => h[k] \in J[k]}
<1>2. 0 \in T
  BY <1>1 DEF Runs
<1>3. ASSUME NEW k \in Nat, k \in T PROVE k + 1 \in T
  <2>1. SUFFICES ASSUME k + 1 <= n PROVE h[k + 1] \in J[k + 1]
    OBVIOUS
  <2>2. k + 1 \in 1..n /\ (k + 1) - 1 = k /\ h[k] \in J[k]
    BY <1>3, <2>1
  <2>3. h[k + 1] = Op(h[k], s[k + 1])
    BY <1>1, <2>2 DEF Runs
  <2> QED BY <2>2, <2>3
<1> HIDE DEF T
<1>4. Nat \subseteq T
  BY <1>2, <1>3, NatSet
<1> QED BY <1>1, <1>4 DEF T

\* Runs over sequences that begin alike are alike.
THEOREM RunsAgree ==
  \A base, s, t, g, h, n :
    /\ n \in Nat /\ \A i \in 1..n : s[i] = t[i]
    /\ Runs(g, base, s, n) /\ Runs(h, base, t, n)
    => \A i \in 0..n : g[i] = h[i]
<1> TAKE base, s, t, g, h, n
<1> HAVE /\ n \in Nat /\ \A i \in 1..n : s[i] = t[i]
         /\ Runs(g, base, s, n) /\ Runs(h, base, t, n)
<1> DEFINE T == {k \in Nat : k <= n => g[k] = h[k]}
<1>1. 0 \in T
  BY DEF Runs
<1>2. ASSUME NEW k \in Nat, k \in T PROVE k + 1 \in T
  <2>1. SUFFICES ASSUME k + 1 <= n PROVE g[k + 1] = h[k + 1]
    OBVIOUS
  <2>2. k + 1 \in 1..n /\ (k + 1) - 1 = k /\ g[k] = h[k]
    BY <1>2, <2>1
  <2>3. g[k + 1] = Op(g[k], s[k + 1]) /\ h[k + 1] = Op(h[k], t[k + 1])
    BY <2>2 DEF Runs
  <2> QED BY <2>2, <2>3
<1> HIDE DEF T
<1>3. Nat \subseteq T
  BY <1>1, <1>2, NatSet
<1> QED BY <1>3 DEF T

\* The fold of no elements is the base.
THEOREM FoldEmpty == \A base : Folded(base, <<>>) = base
<1> TAKE base
<1>1. DOMAIN <<>> = 1..0
  OBVIOUS
<1>2. PICK h : Runs(h, base, <<>>, 0) /\ Folded(base, <<>>) = h[0]
  BY <1>1, FoldSteps
<1> QED BY <1>2 DEF Runs

\* The fold of one element more is a step from the fold before.
THEOREM FoldAppend ==
  \A base, S, s, x :
    s \in Seq(S) /\ x \in S => Folded(base, Append(s, x)) = Op(Folded(base, s), x)
<1> TAKE base, S, s, x
<1> HAVE s \in Seq(S) /\ x \in S
<1> DEFINE n == Len(s)
           t == Append(s, x)
<1>1. /\ n \in Nat /\ DOMAIN s = 1..n /\ DOMAIN t = 1..(n + 1)
      /\ t[n + 1] = x /\ \A i \in 1..n : s[i] = t[i]
  OBVIOUS
<1>0. n + 1 \in Nat
  BY <1>1
<1> HIDE DEF n, t
<1>2. PICK g : Runs(g, base, s, n) /\ Folded(base, s) = g[n]
  BY <1>1, FoldSteps
<1>3. PICK h : Runs(h, base, t, n + 1) /\ Folded(base, t) = h[n + 1]
  BY <1>0, <1>1, FoldSteps
<1>4. Runs(h, base, t, n) /\ h[n + 1] = Op(h[n], t[n + 1])
  <2>1. \A i \in 1..(n + 1) : h[i] = Op(h[i - 1], t[i])
    BY <1>3 DEF Runs
  <2>2. n + 1 \in 1..(n + 1) /\ (n + 1) - 1 = n /\ \A i \in 1..n : i \in 1..(n + 1)
    BY <1>1
  <2> QED BY <1>3, <2>1, <2>2 DEF Runs
<1>5. g[n] = h[n]
  BY <1>1, <1>2, <1>4, RunsAgree
<1> QED BY <1>1, <1>2, <1>3, <1>4, <1>5 DEF t

\* A fold over one element is a step.
THEOREM FoldOne ==
  \A base, s : DOMAIN s = 1..1 => Folded(base, s) = Op(base, s[1])
<1> TAKE base, s
<1> HAVE DOMAIN s = 1..1
<1>1. 1 \in Nat /\ DOMAIN s = 1..1
  OBVIOUS
<1>2. PICK f : Runs(f, base, s, 1) /\ Folded(base, s) = f[1]
  BY ONLY <1>1, FoldSteps, Zenon
<1>3. f[1] = Op(f[0], s[1]) /\ f[0] = base
  BY <1>2 DEF Runs
<1> QED BY <1>2, <1>3

\* A fold over two elements is two steps.
THEOREM FoldTwo ==
  \A base, s : DOMAIN s = 1..2 => Folded(base, s) = Op(Op(base, s[1]), s[2])
<1> TAKE base, s
<1> HAVE DOMAIN s = 1..2
<1>1. 2 \in Nat /\ DOMAIN s = 1..2
  OBVIOUS
<1>2. PICK f : Runs(f, base, s, 2) /\ Folded(base, s) = f[2]
  BY ONLY <1>1, FoldSteps, Zenon
<1>3. f[1] = Op(f[0], s[1]) /\ f[2] = Op(f[1], s[2]) /\ f[0] = base
  BY <1>2 DEF Runs
<1> QED BY <1>2, <1>3

\* A fold over two sequences is the fold over the second from where the first
\* ended.
THEOREM FoldConcat ==
  \A base, S, s, t :
    s \in Seq(S) /\ t \in Seq(S) => Folded(base, s \o t) = Folded(Folded(base, s), t)
<1> TAKE base, S, s, t
<1> HAVE s \in Seq(S) /\ t \in Seq(S)
<1> DEFINE n == Len(s)
           m == Len(t)
           st == s \o t
<1>1. /\ n \in Nat /\ m \in Nat /\ n + m \in Nat
      /\ DOMAIN s = 1..n /\ DOMAIN t = 1..m /\ DOMAIN st = 1..(n + m)
      /\ \A i \in 1..n : s[i] = st[i]
      /\ \A i \in 1..m : t[i] = st[n + i]
  OBVIOUS
<1> HIDE DEF n, m, st
<1>s. n \in Nat /\ DOMAIN s = 1..n
  BY <1>1
<1>t. m \in Nat /\ DOMAIN t = 1..m
  BY <1>1
<1>st. n + m \in Nat /\ DOMAIN st = 1..(n + m)
  BY <1>1
<1>2. PICK g : Runs(g, base, s, n) /\ Folded(base, s) = g[n]
  BY ONLY <1>s, FoldSteps, Zenon
<1>3. PICK h : Runs(h, base, st, n + m) /\ Folded(base, st) = h[n + m]
  BY ONLY <1>st, FoldSteps, Zenon
<1>4. PICK f : Runs(f, g[n], t, m) /\ Folded(g[n], t) = f[m]
  BY ONLY <1>t, FoldSteps, Zenon
<1>5. \A i \in 1..(n + m) : h[i] = Op(h[i - 1], st[i])
  BY <1>3 DEF Runs
<1>6. Runs(h, base, st, n)
  <2>1. \A i \in 1..n : i \in 1..(n + m)
    BY <1>1
  <2> QED BY <1>3, <1>5, <2>1 DEF Runs
<1>7. g[n] = h[n]
  <2>1. \A i \in 0..n : g[i] = h[i]
    <3>1. n \in Nat /\ \A i \in 1..n : s[i] = st[i]
      BY <1>1
    <3>2. Runs(g, base, s, n) /\ Runs(h, base, st, n)
      BY <1>2, <1>6
    <3> QED BY ONLY <3>1, <3>2, RunsAgree
  <2> QED BY <1>s, <2>1
<1> DEFINE e == [i \in 0..m |-> h[n + i]]
<1>8. Runs(e, g[n], t, m)
  <2>1. e[0] = g[n]
    BY <1>1, <1>7
  <2>2. ASSUME NEW i \in 1..m PROVE e[i] = Op(e[i - 1], t[i])
    <3>1. n + i \in 1..(n + m) /\ (n + i) - 1 = n + (i - 1) /\ i \in 0..m /\ i - 1 \in 0..m
      BY <1>1
    <3>2. h[n + i] = Op(h[(n + i) - 1], st[n + i])
      BY <1>5, <3>1
    <3>3. e[i] = h[n + i] /\ e[i - 1] = h[n + (i - 1)]
      BY <3>1
    <3> HIDE DEF e
    <3> QED BY <1>1, <3>1, <3>2, <3>3
  <2> HIDE DEF e
  <2> QED BY <2>1, <2>2 DEF Runs
<1>9. e[m] = h[n + m]
  BY <1>1
<1> HIDE DEF e
<1>10. f[m] = e[m]
  <2>1. \A i \in 0..m : f[i] = e[i]
    <3>1. m \in Nat /\ \A i \in 1..m : t[i] = t[i]
      BY <1>t
    <3>2. Runs(f, g[n], t, m) /\ Runs(e, g[n], t, m)
      BY <1>4, <1>8
    <3> QED BY ONLY <3>1, <3>2, RunsAgree
  <2> QED BY <1>t, <2>1
<1> QED BY <1>2, <1>3, <1>4, <1>9, <1>10 DEF st
=============================================================================
