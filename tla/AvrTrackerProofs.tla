-------------------------- MODULE AvrTrackerProofs --------------------------
(***************************************************************************)
(* Proofs about the log of a step, the jumps its texts announce, the       *)
(* graphical interface that shows the machine, and the change tracker it   *)
(* draws the log on.                                                       *)
(***************************************************************************)
EXTENDS AvrGui, MCDebug, AvrMcuProofs, SequenceTheorems

(***************************************************************************)
(* Loops as recursive functions: they exist, and the log of a step has the *)
(* comparisons that differ.                                                *)
(***************************************************************************)

\* A function defined by recursion over its argument exists.
IteratesExist(N, S, base, step) ==
  \E f \in [0..N -> S] : f[0] = base /\ \A n \in 1..N : f[n] = step[n][f[n - 1]]
LEMMA Iteration ==
  ASSUME NEW N \in Nat, NEW S, NEW base \in S, NEW step \in [1..N -> [S -> S]]
  PROVE  IteratesExist(N, S, base, step)
<1>. DEFINE Iterates(f, k) == /\ f \in [0..k -> S]
                              /\ f[0] = base
                              /\ \A n \in 1..k : f[n] = step[n][f[n - 1]]
            T == {k \in 0..N : \E f : Iterates(f, k)}
<1>1. 0 \in T
  <2>. DEFINE g == [n \in 0..0 |-> base]
  <2>1. g \in [0..0 -> S] /\ g[0] = base
    OBVIOUS
  <2>2. \A n \in 1..0 : g[n] = step[n][g[n - 1]]
    OBVIOUS
  <2>3. Iterates(g, 0)
    BY <2>1, <2>2
  <2>. HIDE DEF g, Iterates
  <2>. QED BY <2>3
<1>2. ASSUME NEW k \in 1..N, k - 1 \in T
      PROVE  k \in T
  <2>1. PICK f : Iterates(f, k - 1)
    BY <1>2
  <2>. DEFINE g == [n \in 0..k |-> IF n = k THEN step[k][f[k - 1]] ELSE f[n]]
  <2>2. step[k][f[k - 1]] \in S
    BY <2>1
  <2>3. g \in [0..k -> S] /\ g[0] = base
    BY <2>1, <2>2
  <2>4. ASSUME NEW n \in 1..k
        PROVE  g[n] = step[n][g[n - 1]]
    <3>1. g[n - 1] = f[n - 1]
      OBVIOUS
    <3>2. CASE n = k
      <4>1. g[n] = step[k][f[k - 1]]
        BY <3>2
      <4>. QED BY <3>1, <3>2, <4>1
    <3>3. CASE n # k
      <4>1. n \in 1..(k - 1) /\ g[n] = f[n]
        BY <3>3
      <4>. QED BY <2>1, <3>1, <4>1
    <3>. QED BY <3>2, <3>3
  <2>5. Iterates(g, k)
    BY <2>3, <2>4
  <2>. HIDE DEF g, Iterates
  <2>. QED BY <2>5
<1>3. N \in T
  <2>. HIDE DEF T
  <2>1. \A k \in 1..N : k - 1 \in T => k \in T
    BY <1>2
  <2>2. \A k \in 0..N : k \in T
    BY <1>1, <2>1, Induction
  <2>. QED BY <2>2
<1>. QED BY <1>3 DEF IteratesExist

\* The log after each of the comparisons.
LogsOf(comparisons, log) ==
  /\ DOMAIN log = 0..Len(comparisons)
  /\ log[0] = << >>
  /\ \A n \in 1..Len(comparisons) :
       log[n] = IF Differs(comparisons[n]) THEN Pushed(log[n - 1], comparisons[n])
                ELSE log[n - 1]
  /\ Logged(comparisons) = log[Len(comparisons)]

LEMMA LogsExist ==
  ASSUME NEW E, NEW comparisons \in Seq(E)
  PROVE  \E log \in [0..Len(comparisons) -> Seq(E)] : LogsOf(comparisons, log)
<1>. DEFINE N == Len(comparisons)
            push == [n \in 1..N |-> [s \in Seq(E) |->
                       IF Differs(comparisons[n]) THEN Pushed(s, comparisons[n]) ELSE s]]
            Equation(log) ==
              log = [n \in 0..N |->
                       IF n = 0 THEN << >>
                       ELSE IF Differs(comparisons[n]) THEN Pushed(log[n - 1], comparisons[n])
                       ELSE log[n - 1]]
<1>1. N \in Nat /\ \A n \in 1..N : comparisons[n] \in E
  OBVIOUS
<1>2. push \in [1..N -> [Seq(E) -> Seq(E)]]
  <2>1. \A n \in 1..N, s \in Seq(E) : Pushed(s, comparisons[n]) \in Seq(E)
    BY <1>1 DEF Pushed
  <2>. QED BY <2>1
<1>3. PICK f \in [0..N -> Seq(E)] :
        f[0] = << >> /\ \A n \in 1..N : f[n] = push[n][f[n - 1]]
  <2>1. << >> \in Seq(E)
    OBVIOUS
  <2>2. N \in Nat
    BY <1>1
  <2>. DEFINE S == Seq(E)
              base == << >>
  <2>3. base \in S /\ push \in [1..N -> [S -> S]]
    BY <1>2, <2>1
  <2>. HIDE DEF push, N, S, base
  <2>4. IteratesExist(N, S, base, push)
    BY <2>2, <2>3, Iteration
  <2>. QED BY <2>4 DEF S, base, IteratesExist
<1>4. ASSUME NEW n \in 1..N
      PROVE  f[n] = IF Differs(comparisons[n]) THEN Pushed(f[n - 1], comparisons[n])
                    ELSE f[n - 1]
  <2>1. f[n - 1] \in Seq(E)
    BY <1>1, SMTT(30)
  <2>2. push[n][f[n - 1]] = IF Differs(comparisons[n]) THEN Pushed(f[n - 1], comparisons[n])
                            ELSE f[n - 1]
    BY <2>1
  <2>. QED BY <1>3, <2>2
<1>5. Equation(f)
  BY <1>1, <1>3, <1>4
<1>6. PICK log : log = CHOOSE g : Equation(g)
  OBVIOUS
<1>7. Equation(log)
  BY <1>5, <1>6
<1>8. Logged(comparisons) = log[N]
  BY <1>6 DEF Logged
<1>9. DOMAIN log = 0..N /\ log[0] = << >>
  BY <1>1, <1>7
<1>10. ASSUME NEW n \in 1..N
      PROVE  log[n] = IF Differs(comparisons[n]) THEN Pushed(log[n - 1], comparisons[n])
                      ELSE log[n - 1]
  <2>. DEFINE body(k) == IF k = 0 THEN << >>
                         ELSE IF Differs(comparisons[k]) THEN Pushed(log[k - 1], comparisons[k])
                         ELSE log[k - 1]
  <2>1. log = [k \in 0..N |-> body(k)]
    BY <1>7
  <2>2. n \in 0..N /\ n # 0
    BY <1>1
  <2>3. log[n] = body(n)
    <3>. HIDE DEF body
    <3>. QED BY <2>1, <2>2
  <2>. QED BY <2>2, <2>3
<1>11. \A n \in 0..N : log[n] \in Seq(E)
  <2>. DEFINE T == {n \in 0..N : log[n] \in Seq(E)}
  <2>1. 0 \in T
    <3>1. << >> \in Seq(E) /\ 0 \in 0..N
      BY <1>1
    <3>. QED BY <1>9, <3>1
  <2>2. ASSUME NEW n \in 1..N, n - 1 \in T
        PROVE  n \in T
    <3>. DEFINE old == log[n - 1]
                entry == comparisons[n]
    <3>1. old \in Seq(E) /\ entry \in E /\ n \in 0..N
      BY <1>1, <2>2
    <3>2. log[n] = IF Differs(entry) THEN Pushed(old, entry) ELSE old
      BY <1>10
    <3>. HIDE DEF old, entry
    <3>3. log[n] \in Seq(E)
      BY <3>1, <3>2 DEF Pushed
    <3>. QED BY <3>1, <3>3
  <2>. HIDE DEF T
  <2>3. \A n \in 1..N : n - 1 \in T => n \in T
    BY <2>2
  <2>4. \A n \in 0..N : n \in T
    BY <1>1, <2>1, <2>3, Induction
  <2>. QED BY <2>4 DEF T
<1>12. log \in [0..N -> Seq(E)]
  BY <1>7, <1>9, <1>11
<1>13. LogsOf(comparisons, log)
  BY <1>8, <1>9, <1>10 DEF LogsOf
<1>. QED BY <1>12, <1>13

\* What a comparison leaves in the log.
Kept(event) == IF Differs(event) THEN << event >> ELSE << >>

LEMMA KeptType ==
  ASSUME NEW E, NEW event \in E
  PROVE  Kept(event) \in Seq(E) /\ Len(Kept(event)) \in Nat /\ Len(Kept(event)) <= 1
BY DEF Kept

LEMMA KeptIsAppended ==
  ASSUME NEW E, NEW event \in E, NEW log \in Seq(E), Len(log) < EventLogCapacity
  PROVE  (IF Differs(event) THEN Pushed(log, event) ELSE log) = log \o Kept(event)
<1>1. CASE Differs(event)
  <2>1. Pushed(log, event) = Append(log, event) /\ Kept(event) = << event >>
    BY <1>1 DEF Pushed, Kept
  <2>2. Append(log, event) = log \o << event >>
    OBVIOUS
  <2>. QED BY <1>1, <2>1, <2>2
<1>2. CASE ~Differs(event)
  <2>1. Kept(event) = << >>
    BY <1>2 DEF Kept
  <2>2. log \o << >> = log
    OBVIOUS
  <2>. QED BY <1>2, <2>1, <2>2
<1>. QED BY <1>1, <1>2

\* At most three comparisons differ, in this order; then nothing is dropped.
OnlyThere(comparisons, a, b, c) ==
  /\ a \in 1..Len(comparisons) /\ b \in 1..Len(comparisons) /\ c \in 1..Len(comparisons)
  /\ a < b /\ b < c
  /\ \A n \in 1..Len(comparisons) : Differs(comparisons[n]) => n \in {a, b, c}

LEMMA ShortLog ==
  ASSUME NEW E, NEW comparisons \in Seq(E), EventLogCapacity >= 3,
         NEW a, NEW b, NEW c, OnlyThere(comparisons, a, b, c)
  PROVE  Logged(comparisons) =
           Kept(comparisons[a]) \o Kept(comparisons[b]) \o Kept(comparisons[c])
<1>. DEFINE N == Len(comparisons)
            L1 == Kept(comparisons[a])
            L2 == L1 \o Kept(comparisons[b])
            L3 == L2 \o Kept(comparisons[c])
<1>1. N \in Nat /\ \A n \in 1..N : comparisons[n] \in E
  OBVIOUS
<1>0. /\ a \in 1..N /\ b \in 1..N /\ c \in 1..N /\ a < b /\ b < c
      /\ \A n \in 1..N : Differs(comparisons[n]) => n \in {a, b, c}
  BY DEF OnlyThere
<1>2. PICK log \in [0..N -> Seq(E)] : LogsOf(comparisons, log)
  BY LogsExist
<1>3. /\ log[0] = << >>
      /\ \A n \in 1..N : log[n] = IF Differs(comparisons[n])
                                  THEN Pushed(log[n - 1], comparisons[n]) ELSE log[n - 1]
      /\ Logged(comparisons) = log[N]
  BY <1>2 DEF LogsOf
<1>4. EventLogCapacity \in Nat
  BY EventLogCapacityAssumption
<1>5. L1 \in Seq(E) /\ Len(L1) \in Nat /\ Len(L1) <= 1
  BY <1>0, <1>1, KeptType
<1>6. L2 \in Seq(E) /\ Len(L2) \in Nat /\ Len(L2) <= 2
  <2>1. Kept(comparisons[b]) \in Seq(E) /\ Len(Kept(comparisons[b])) \in Nat /\ Len(Kept(comparisons[b])) <= 1
    BY <1>0, <1>1, KeptType
  <2>. DEFINE K == Kept(comparisons[b])
  <2>2. L1 \o K \in Seq(E) /\ Len(L1 \o K) = Len(L1) + Len(K)
    <3>. HIDE DEF L1, K
    <3>. QED BY <1>5, <2>1 DEF K
  <2>. HIDE DEF L1
  <2>. QED BY <1>5, <2>1, <2>2
<1>7. << >> \o Kept(comparisons[a]) = L1
  BY <1>5
<1>. DEFINE T == {n \in 0..N : /\ n < a => log[n] = << >>
                               /\ a <= n /\ n < b => log[n] = L1
                               /\ b <= n /\ n < c => log[n] = L2
                               /\ c <= n => log[n] = L3}
<1>8. 0 \in T
  BY <1>0, <1>1, <1>3
<1>9. ASSUME NEW n \in 1..N, n - 1 \in T
      PROVE  n \in T
  <2>1. /\ n - 1 < a => log[n - 1] = << >>
        /\ a <= n - 1 /\ n - 1 < b => log[n - 1] = L1
        /\ b <= n - 1 /\ n - 1 < c => log[n - 1] = L2
        /\ c <= n - 1 => log[n - 1] = L3
    BY <1>9
  <2>2. n \in Int /\ a \in Int /\ b \in Int /\ c \in Int /\ n \in 0..N
    BY <1>0, <1>1
  <2>. HIDE DEF L1, L2, L3
  <2>3. CASE n \notin {a, b, c}
    <3>1. log[n] = log[n - 1]
      BY <1>0, <1>3, <2>3
    <3>. QED BY <1>0, <2>1, <2>2, <2>3, <3>1
  <2>4. CASE n = a
    <3>1. log[n - 1] = << >>
      BY <1>0, <2>1, <2>2, <2>4
    <3>2. << >> \in Seq(E) /\ Len(<< >>) < EventLogCapacity
      BY <1>4
    <3>3. log[n] = << >> \o Kept(comparisons[a])
      BY <1>1, <1>3, <2>4, <3>1, <3>2, <1>0, KeptIsAppended
    <3>. QED BY <1>0, <1>7, <2>2, <2>4, <3>3
  <2>5. CASE n = b
    <3>1. log[n - 1] = L1
      BY <1>0, <2>1, <2>2, <2>5
    <3>2. Len(L1) < EventLogCapacity
      BY <1>4, <1>5, EventLogCapacity >= 3
    <3>3. log[n] = L1 \o Kept(comparisons[b])
      BY <1>1, <1>3, <1>5, <2>5, <3>1, <3>2, <1>0, KeptIsAppended
    <3>. QED BY <1>0, <2>2, <2>5, <3>3 DEF L2
  <2>6. CASE n = c
    <3>1. log[n - 1] = L2
      BY <1>0, <2>1, <2>2, <2>6
    <3>2. Len(L2) < EventLogCapacity
      BY <1>4, <1>6, EventLogCapacity >= 3
    <3>3. log[n] = L2 \o Kept(comparisons[c])
      BY <1>1, <1>3, <1>6, <2>6, <3>1, <3>2, <1>0, KeptIsAppended
    <3>. QED BY <1>0, <2>2, <2>6, <3>3 DEF L3
  <2>. QED BY <2>3, <2>4, <2>5, <2>6
<1>. HIDE DEF T
<1>10. \A n \in 1..N : n - 1 \in T => n \in T
  BY <1>9
<1>11. \A n \in 0..N : n \in T
  BY <1>1, <1>8, <1>10, Induction
<1>12. N \in T
  BY <1>1, <1>11
<1>13. c <= N
  BY <1>0
<1>. QED BY <1>0, <1>3, <1>12, <1>13 DEF T

\* The comparisons that are in the log differ.
LEMMA LogDiffers ==
  ASSUME NEW E, NEW comparisons \in Seq(E)
  PROVE  \A k \in DOMAIN Logged(comparisons) :
           \E n \in 1..Len(comparisons) :
             Logged(comparisons)[k] = comparisons[n] /\ Differs(comparisons[n])
<1>. DEFINE N == Len(comparisons)
            D == {comparisons[n] : n \in {m \in 1..N : Differs(comparisons[m])}}
<1>1. N \in Nat /\ \A n \in 1..N : comparisons[n] \in E
  OBVIOUS
<1>2. PICK log \in [0..N -> Seq(E)] : LogsOf(comparisons, log)
  BY LogsExist
<1>3. /\ log[0] = << >>
      /\ \A n \in 1..N : log[n] = IF Differs(comparisons[n])
                                  THEN Pushed(log[n - 1], comparisons[n]) ELSE log[n - 1]
      /\ Logged(comparisons) = log[N]
  BY <1>2 DEF LogsOf
<1>. DEFINE T == {n \in 0..N : log[n] \in Seq(D)}
<1>4. 0 \in T
  <2>1. << >> \in Seq(D) /\ 0 \in 0..N
    BY <1>1
  <2>. QED BY <1>3, <2>1
<1>5. ASSUME NEW n \in 1..N, n - 1 \in T
      PROVE  n \in T
  <2>. DEFINE old == log[n - 1]
              entry == comparisons[n]
  <2>1. old \in Seq(D) /\ n \in 0..N
    BY <1>1, <1>5
  <2>2. Differs(entry) => entry \in D
    OBVIOUS
  <2>3. log[n] = IF Differs(entry) THEN Pushed(old, entry) ELSE old
    BY <1>3
  <2>. HIDE DEF old, entry, D
  <2>4. log[n] \in Seq(D)
    BY <2>1, <2>2, <2>3 DEF Pushed
  <2>. QED BY <2>1, <2>4
<1>. HIDE DEF T
<1>6. \A n \in 1..N : n - 1 \in T => n \in T
  BY <1>5
<1>7. \A n \in 0..N : n \in T
  BY <1>1, <1>4, <1>6, Induction
<1>8. Logged(comparisons) \in Seq(D)
  BY <1>1, <1>3, <1>7, SMTT(30) DEF T
<1>9. \A k \in DOMAIN Logged(comparisons) : Logged(comparisons)[k] \in D
  <2>. HIDE DEF D
  <2>. QED BY <1>8
<1>. QED BY <1>9

\* Two sequences in a row, and four.
InARow(s, t, all) ==
  /\ Len(all) = Len(s) + Len(t)
  /\ \A k \in 1..Len(s) : all[k] = s[k]
  /\ \A k \in 1..Len(t) : all[k + Len(s)] = t[k]
LEMMA TwoParts ==
  ASSUME NEW E, NEW s \in Seq(E), NEW t \in Seq(E)
  PROVE  s \o t \in Seq(E) /\ InARow(s, t, s \o t)
<1>. DEFINE all == s \o t
            m == Len(s)
            n == Len(t)
<1>0. m \in Nat /\ n \in Nat
  OBVIOUS
<1>1. /\ all \in Seq(E)
      /\ Len(all) = m + n
      /\ \A k \in 1..(m + n) : all[k] = IF k <= m THEN s[k] ELSE t[k - m]
  BY ConcatProperties
<1>. HIDE DEF all, m, n
<1>2. ASSUME NEW k \in 1..m PROVE all[k] = s[k]
  BY <1>0, <1>1
<1>3. ASSUME NEW k \in 1..n PROVE all[k + m] = t[k]
  <2>1. k + m \in 1..(m + n) /\ ~(k + m <= m) /\ (k + m) - m = k
    BY <1>0
  <2>. QED BY <1>1, <2>1
<1>. QED BY <1>1, <1>2, <1>3 DEF all, m, n, InARow

FourInARow(R, S, s1, s2, s3, s4, all) ==
  /\ Len(all) = R + S + 5
  /\ all[1] = s1[1] /\ all[2] = s1[2]
  /\ \A n \in 1..R : all[n + 2] = s2[n]
  /\ \A n \in 1..S : all[n + R + 2] = s3[n]
  /\ all[R + S + 3] = s4[1] /\ all[R + S + 4] = s4[2] /\ all[R + S + 5] = s4[3]
LEMMA FourParts ==
  ASSUME NEW E, NEW R \in Nat, NEW S \in Nat,
         NEW s1 \in Seq(E), NEW s2 \in Seq(E), NEW s3 \in Seq(E), NEW s4 \in Seq(E),
         Len(s1) = 2, Len(s2) = R, Len(s3) = S, Len(s4) = 3
  PROVE  /\ s1 \o s2 \o s3 \o s4 \in Seq(E)
         /\ FourInARow(R, S, s1, s2, s3, s4, s1 \o s2 \o s3 \o s4)
<1>. DEFINE t == s1 \o s2
            u == t \o s3
            all == u \o s4
<1>1. /\ t \in Seq(E) /\ Len(t) = 2 + R
      /\ \A k \in 1..2 : t[k] = s1[k]
      /\ \A k \in 1..R : t[k + 2] = s2[k]
  <2>1. t \in Seq(E) /\ InARow(s1, s2, t)
    BY TwoParts
  <2>. HIDE DEF t
  <2>. QED BY <2>1 DEF InARow
<1>. HIDE DEF t
<1>2. /\ u \in Seq(E) /\ Len(u) = (2 + R) + S
      /\ \A k \in 1..(2 + R) : u[k] = t[k]
      /\ \A k \in 1..S : u[k + (2 + R)] = s3[k]
  <2>1. u \in Seq(E) /\ InARow(t, s3, u)
    BY <1>1, TwoParts
  <2>. HIDE DEF u
  <2>. QED BY <1>1, <2>1 DEF InARow
<1>. HIDE DEF u
<1>3. /\ all \in Seq(E) /\ Len(all) = (2 + R + S) + 3
      /\ \A k \in 1..(2 + R + S) : all[k] = u[k]
      /\ \A k \in 1..3 : all[k + (2 + R + S)] = s4[k]
  <2>1. all \in Seq(E) /\ InARow(u, s4, all)
    BY <1>2, TwoParts
  <2>. HIDE DEF all
  <2>2. Len(u) = 2 + R + S
    BY <1>2
  <2>. QED BY <2>1, <2>2 DEF InARow
<1>. HIDE DEF all
<1>4. all[1] = s1[1] /\ all[2] = s1[2]
  BY <1>1, <1>2, <1>3
<1>5. ASSUME NEW n \in 1..R PROVE all[n + 2] = s2[n]
  BY <1>1, <1>2, <1>3, SMTT(30)
<1>6. ASSUME NEW n \in 1..S PROVE all[n + R + 2] = s3[n]
  <2>1. u[n + R + 2] = s3[n]
    BY <1>2, n + R + 2 = n + (2 + R)
  <2>2. n + R + 2 \in 1..(2 + R + S)
    OBVIOUS
  <2>. QED BY <1>3, <2>1, <2>2
<1>7. all[R + S + 3] = s4[1] /\ all[R + S + 4] = s4[2] /\ all[R + S + 5] = s4[3]
  <2>1. /\ all[1 + (2 + R + S)] = s4[1] /\ all[2 + (2 + R + S)] = s4[2]
        /\ all[3 + (2 + R + S)] = s4[3]
    BY <1>3
  <2>2. /\ 1 + (2 + R + S) = R + S + 3 /\ 2 + (2 + R + S) = R + S + 4
        /\ 3 + (2 + R + S) = R + S + 5
    OBVIOUS
  <2>. QED BY <2>1, <2>2
<1>8. Len(all) = R + S + 5
  BY <1>3
<1>. QED BY <1>3, <1>4, <1>5, <1>6, <1>7, <1>8 DEF t, u, all, FourInARow

\* Everything that is compared.
RegisterEvent(before, after, r) ==
  Event("register", r, before.registers[r], after.registers[r])
SramEvent(before, after, x) == Event("sram", x, before.sram[x], after.sram[x])
PcEvent(before, after) == Event("pc", 0, before.pc, after.pc)
SregEvent(before, after) == Event("sreg", 0, before.sreg, after.sreg)
DdrbEvent(before, after) == Event("io", DDRB, before.ddrb, after.ddrb)
PortbEvent(before, after) == Event("io", PORTB, before.portb, after.portb)
PinEvent(before, after) == Event("pin", PINB, before.pinb, after.pinb)
AllCompared(before, after) ==
  {PcEvent(before, after), SregEvent(before, after), DdrbEvent(before, after),
   PortbEvent(before, after), PinEvent(before, after)}
    \cup {RegisterEvent(before, after, r) : r \in Register}
    \cup {SramEvent(before, after, x) : x \in SramAddress}

LEMMA ComparedParts ==
  ASSUME NEW before, NEW after
  PROVE  LET all == Compared(before, after)
         IN  /\ all \in Seq(AllCompared(before, after))
             /\ Len(all) = SramSize + 37
             /\ all[1] = PcEvent(before, after)
             /\ all[2] = SregEvent(before, after)
             /\ \A r \in Register : all[r + 3] = RegisterEvent(before, after, r)
             /\ \A x \in SramAddress : all[x + 35] = SramEvent(before, after, x)
             /\ all[SramSize + 35] = DdrbEvent(before, after)
             /\ all[SramSize + 36] = PortbEvent(before, after)
             /\ all[SramSize + 37] = PinEvent(before, after)
<1>. DEFINE E == AllCompared(before, after)
            s1 == <<PcEvent(before, after), SregEvent(before, after)>>
            s2 == ComparedRegisters(before, after)
            s3 == ComparedSram(before, after)
            s4 == <<DdrbEvent(before, after), PortbEvent(before, after),
                    PinEvent(before, after)>>
            all == s1 \o s2 \o s3 \o s4
<1>0. SramSize \in Nat
  BY SramSizeAssumption
<1>1. Compared(before, after) = all
  BY DEF Compared, PcEvent, SregEvent, DdrbEvent, PortbEvent, PinEvent
<1>2. s1 \in Seq(E) /\ Len(s1) = 2 /\ s4 \in Seq(E) /\ Len(s4) = 3
  <2>. DEFINE e1 == PcEvent(before, after)
              e2 == SregEvent(before, after)
              f1 == DdrbEvent(before, after)
              f2 == PortbEvent(before, after)
              f3 == PinEvent(before, after)
  <2>1. e1 \in E /\ e2 \in E /\ f1 \in E /\ f2 \in E /\ f3 \in E
    BY DEF AllCompared
  <2>. HIDE DEF e1, e2, f1, f2, f3, E
  <2>2. <<e1, e2>> \in Seq(E) /\ <<f1, f2, f3>> \in Seq(E)
    BY <2>1
  <2>. QED BY <2>2 DEF e1, e2, f1, f2, f3
<1>3. /\ s2 \in Seq(E) /\ Len(s2) = 32
      /\ \A n \in 1..32 : s2[n] = RegisterEvent(before, after, n - 1)
  <2>1. s2 = [n \in 1..32 |-> RegisterEvent(before, after, n - 1)]
    BY DEF ComparedRegisters, RegisterEvent, RegisterCount
  <2>2. \A n \in 1..32 : RegisterEvent(before, after, n - 1) \in E
    <3>. SUFFICES ASSUME NEW n \in 1..32
                  PROVE  RegisterEvent(before, after, n - 1) \in E
      OBVIOUS
    <3>1. n - 1 \in Register
      BY DEF Register, RegisterCount
    <3>. QED BY <3>1 DEF AllCompared
  <2>. HIDE DEF E, s2
  <2>. QED BY <2>1, <2>2
<1>4. /\ s3 \in Seq(E) /\ Len(s3) = SramSize
      /\ \A n \in 1..SramSize : s3[n] = SramEvent(before, after, n - 1)
  <2>1. s3 = [n \in 1..SramSize |-> SramEvent(before, after, n - 1)]
    BY DEF ComparedSram, SramEvent
  <2>2. \A n \in 1..SramSize : SramEvent(before, after, n - 1) \in E
    <3>. SUFFICES ASSUME NEW n \in 1..SramSize
                  PROVE  SramEvent(before, after, n - 1) \in E
      OBVIOUS
    <3>1. n - 1 \in SramAddress
      BY <1>0 DEF SramAddress
    <3>. QED BY <3>1 DEF AllCompared
  <2>. HIDE DEF E, s3
  <2>. QED BY <1>0, <2>1, <2>2
<1>. HIDE DEF E, s1, s2, s3, s4
<1>5. /\ all \in Seq(E)
      /\ Len(all) = 32 + SramSize + 5
      /\ all[1] = s1[1] /\ all[2] = s1[2]
      /\ \A n \in 1..32 : all[n + 2] = s2[n]
      /\ \A n \in 1..SramSize : all[n + 32 + 2] = s3[n]
      /\ all[32 + SramSize + 3] = s4[1] /\ all[32 + SramSize + 4] = s4[2]
      /\ all[32 + SramSize + 5] = s4[3]
  <2>1. all \in Seq(E) /\ FourInARow(32, SramSize, s1, s2, s3, s4, all)
    BY <1>0, <1>2, <1>3, <1>4, FourParts, ZenonT(30)
  <2>. HIDE DEF all
  <2>. QED BY <2>1 DEF FourInARow
<1>. HIDE DEF all
<1>6. Len(all) = SramSize + 37
  <2>1. Len(all) = 32 + SramSize + 5
    BY <1>5, Zenon
  <2>. QED BY <1>0, <2>1
<1>7. all[1] = PcEvent(before, after) /\ all[2] = SregEvent(before, after)
  BY <1>5 DEF s1
<1>8. ASSUME NEW r \in Register
      PROVE  all[r + 3] = RegisterEvent(before, after, r)
  <2>1. r + 1 \in 1..32 /\ (r + 1) + 2 = r + 3 /\ (r + 1) - 1 = r
    BY DEF Register, RegisterCount
  <2>. QED BY <1>3, <1>5, <2>1, ZenonT(60)
<1>9. ASSUME NEW x \in SramAddress
      PROVE  all[x + 35] = SramEvent(before, after, x)
  <2>1. x + 1 \in 1..SramSize /\ (x + 1) + 32 + 2 = x + 35 /\ (x + 1) - 1 = x
    BY <1>0 DEF SramAddress
  <2>. QED BY <1>4, <1>5, <2>1, ZenonT(60)
<1>10. /\ all[SramSize + 35] = DdrbEvent(before, after)
       /\ all[SramSize + 36] = PortbEvent(before, after)
       /\ all[SramSize + 37] = PinEvent(before, after)
  <2>1. /\ 32 + SramSize + 3 = SramSize + 35 /\ 32 + SramSize + 4 = SramSize + 36
        /\ 32 + SramSize + 5 = SramSize + 37
    BY <1>0
  <2>. QED BY <1>5, <2>1 DEF s4
<1>. QED BY <1>1, <1>5, <1>6, <1>7, <1>8, <1>9, <1>10 DEF E

-----------------------------------------------------------------------------
(***************************************************************************)
(* The graphical interface: its screen, a click on a pin, and what becomes *)
(* of the demo whatever events come, in whatever order.                    *)
(***************************************************************************)

\* What is shown is what the machine is, but for the breakpoint mark.
Shows == snapshot = [Snapshot EXCEPT !.breakpoint_at_pc = snapshot.breakpoint_at_pc]

\* What holds between any two steps of a round.  After a reset, until load_demo
\* has run, the snapshot is that of the machine before it.
GuiInv ==
  /\ TypeOK
  /\ DemoState
  /\ at # "load" => DemoLoaded
  /\ at \in {"events", "frame"} => Shows

LEMMA FreshShows ==
  ASSUME RefreshSnapshot
  PROVE  Shows'
<1>1. snapshot' = Snapshot'
  BY DEF RefreshSnapshot
<1>2. Shows' <=> snapshot' = [Snapshot' EXCEPT !.breakpoint_at_pc = snapshot'.breakpoint_at_pc]
  BY DEF Shows
<1>3. Snapshot' = [Snapshot' EXCEPT !.breakpoint_at_pc = Snapshot'.breakpoint_at_pc]
  BY DEF Snapshot
<1>. QED BY <1>1, <1>2, <1>3

\* Breakpoints apart, a snapshot shows the core, flash, the inputs and the cycles.
LEMMA StillShows ==
  ASSUME Shows, UNCHANGED <<core, flash, external_input, cycle_count, snapshot>>
  PROVE  Shows'
BY DEF Shows, Snapshot, core, CanFetch, Pins

LEMMA WhatIsShown ==
  ASSUME Shows
  PROVE  /\ snapshot.external_input = external_input
         /\ snapshot.ddrb = ddrb
BY DEF Shows, Snapshot

\* The input bits a click or a digit key writes.
Flipped(bit) == IF bit \in snapshot.external_input THEN snapshot.external_input \ {bit}
                ELSE snapshot.external_input \cup {bit}

LEMMA ToggleKept ==
  ASSUME TypeOK, Shows, NEW bit \in Bit, ToggleInput(bit)
  PROVE  /\ TypeOK'
         /\ UNCHANGED <<core, flash, breakpoints, at>>
         /\ external_input' = Flipped(bit)
         /\ RefreshSnapshot
<1>1. WriteExternalInput(Flipped(bit)) /\ UNCHANGED at /\ RefreshSnapshot
  BY DEF ToggleInput, Flipped
<1>2. Flipped(bit) \in SUBSET Bit
  BY WhatIsShown DEF Flipped, TypeOK
<1>3. TypeOK'
  BY <1>1, <1>2, InputKept
<1>. QED BY <1>1, <1>3 DEF WriteExternalInput

\* Every event and every step of a round keeps the invariant, and moves the pins
\* as AvrMirror allows.
LEMMA GuiStep ==
  ASSUME GuiInv, GuiNext
  PROVE  GuiInv' /\ MirrorStep
<1>. USE GuiAssumption
<1>0. TypeOK /\ DemoState /\ DemoFits
  BY DEF GuiInv
<1>s. ASSUME UNCHANGED vars, at # "load"
      PROVE  /\ TypeOK' /\ DemoState' /\ DemoLoaded' /\ MirrorStep
             /\ UNCHANGED <<core, flash, external_input, cycle_count>>
  <2>1. UNCHANGED <<core, flash, external_input, cycle_count>>
    BY <1>s DEF vars, core
  <2>2. DemoLoaded'
    BY <1>s, <2>1 DEF DemoLoaded, GuiInv
  <2>. QED BY <1>0, <1>s, <2>1, <2>2, StutterTypeOK, DemoStutters, InputMirrors
<1>t. ASSUME at # "load", StepOnce
      PROVE  TypeOK' /\ DemoState' /\ DemoLoaded' /\ MirrorStep /\ Shows'
  <2>1. Step /\ RefreshSnapshot /\ DemoLoaded
    BY <1>t DEF StepOnce, StepWithEvents, GuiInv
  <2>. QED BY <1>0, <2>1, StepTypeOK, DemoStateKept, StepMirrors, FreshShows
<1>a. CASE LoadDemo
  <2>1. LoadDemoProgram /\ RefreshSnapshot
    BY <1>a DEF LoadDemo
  <2>2. TypeOK' /\ DemoLoaded' /\ UNCHANGED core
    BY <1>0, <2>1, LoadDemoKept
  <2>3. DemoState' /\ MirrorStep /\ Shows'
    BY <1>0, <2>1, <2>2, DemoStutters, InputMirrors, FreshShows
  <2>. QED BY <2>2, <2>3 DEF GuiInv
<1>b. CASE StepKey \/ TimedStep
  <2>1. at = "events" /\ StepOnce
    BY <1>b DEF StepKey, TimedStep
  <2>. QED BY <1>t, <2>1 DEF GuiInv
<1>c. CASE RunKey \/ SlowerKey \/ FasterKey \/ QuitEvent \/ NoStep
             \/ \E ticks \in FrameTicks : NextFrame(ticks)
  <2>1. /\ at \in {"events", "frame"}
        /\ UNCHANGED <<vars, snapshot>>
    BY <1>c DEF RunKey, SlowerKey, FasterKey, QuitEvent, NoStep, NextFrame, screen
  <2>2. Shows
    BY <2>1 DEF GuiInv
  <2>3. Shows'
    BY <1>s, <2>1, <2>2, StillShows
  <2>. QED BY <1>s, <2>1, <2>3 DEF GuiInv
<1>d. CASE ResetKey
  <2>1. Reset /\ at' = "load"
    BY <1>d DEF ResetKey
  <2>. QED BY <1>0, <2>1, ResetTypeOK, DemoStarts, ResetMirrors DEF GuiInv
<1>e. CASE BreakpointKey
  <2>1. /\ at = "events" /\ UNCHANGED <<at, snapshot>>
        /\ SetBreakpoint(snapshot.pc) \/ ClearBreakpoint(snapshot.pc)
    BY <1>e DEF BreakpointKey, screen
  <2>2. TypeOK' /\ UNCHANGED <<core, flash, external_input>>
    BY <1>0, <2>1, BreakpointKept
  <2>3. cycle_count' = cycle_count
    BY <2>1 DEF SetBreakpoint, ClearBreakpoint
  <2>4. Shows'
    BY <2>1, <2>2, <2>3, StillShows DEF GuiInv
  <2>5. DemoLoaded'
    BY <2>1, <2>2 DEF DemoLoaded, GuiInv
  <2>. QED BY <1>0, <2>2, <2>4, <2>5, DemoStutters, InputMirrors DEF GuiInv
<1>f. ASSUME NEW bit \in InputBits, InputKey(bit) \/ PinClick(bit)
      PROVE  GuiInv' /\ MirrorStep
  <2>1. at = "events" /\ ToggleInput(bit) /\ bit \in Bit
    BY <1>f DEF InputKey, PinClick, ToggleInput
  <2>2. Shows /\ DemoLoaded
    BY <2>1 DEF GuiInv
  <2>3. TypeOK' /\ UNCHANGED <<core, flash>> /\ RefreshSnapshot
    BY <1>0, <2>1, <2>2, ToggleKept
  <2>4. DemoLoaded'
    BY <2>2, <2>3 DEF DemoLoaded
  <2>. QED BY <1>0, <2>3, <2>4, FreshShows, DemoStutters, InputMirrors DEF GuiInv
<1>. QED BY <1>a, <1>b, <1>c, <1>d, <1>e, <1>f DEF GuiNext, HandleEvent, Drained

LEMMA GuiStutter ==
  ASSUME GuiInv, UNCHANGED guivars
  PROVE  GuiInv' /\ MirrorStep
<1>1. UNCHANGED <<vars, at, snapshot>>
  BY DEF guivars, screen
<1>2. UNCHANGED <<core, flash, external_input, cycle_count>> /\ UNCHANGED vars
  BY <1>1 DEF vars, core
<1>3. TypeOK' /\ DemoState' /\ MirrorStep
  BY <1>2, StutterTypeOK, DemoStutters, InputMirrors DEF GuiInv
<1>4. DemoLoaded => DemoLoaded'
  BY <1>2 DEF DemoLoaded
<1>5. Shows => Shows'
  BY <1>1, <1>2, StillShows
<1>. QED BY <1>1, <1>3, <1>4, <1>5 DEF GuiInv

LEMMA GuiInvHolds == GuiSpec => []GuiInv
<1>1. GuiInit => GuiInv
  BY InitTypeOK, DemoStarts DEF GuiInit, GuiInv
<1>2. GuiInv /\ [GuiNext]_guivars => GuiInv'
  BY GuiStep, GuiStutter
<1>. QED BY <1>1, <1>2, PTL DEF GuiSpec

\* Between any two events of a round, and when the frame is drawn, the snapshot
\* is the machine as it is, breakpoints excepted (avr_gui.c:277).
THEOREM GuiScreenIsCurrent == GuiSpec => []ScreenIsCurrent
<1>1. GuiInv => ScreenIsCurrent
  <2>. SUFFICES ASSUME Shows
                PROVE  Snapshot = [snapshot EXCEPT !.breakpoint_at_pc = HasBreakpoint(pc)]
    BY DEF GuiInv, ScreenIsCurrent
  <2>. QED BY DEF Shows, Snapshot
<1>. QED BY <1>1, GuiInvHolds, PTL

\* A click on a pin that the screen shows as an input moves that pin and no other:
\* the direction on the screen is still the machine's (avr_gui.c:682-696).
THEOREM ClicksMoveThePin == GuiSpec => ClickMovesThePin
<1>1. GuiInv /\ [GuiNext]_guivars =>
        [\A bit \in InputBits : (at = "events" /\ PinClick(bit)) =>
           \A b \in Bit : (b \in Pins') # (b \in Pins) <=> b = bit]_guivars
  <2>. SUFFICES ASSUME GuiInv, NEW bit \in InputBits, at = "events", PinClick(bit),
                       NEW b \in Bit
                PROVE  (b \in Pins') # (b \in Pins) <=> b = bit
    OBVIOUS
  <2>1. TypeOK /\ Shows /\ bit \in Bit
    BY GuiAssumption DEF GuiInv
  <2>2. ToggleInput(bit) /\ bit \notin ddrb
    BY <2>1, WhatIsShown DEF PinClick
  <2>3. /\ external_input' = Flipped(bit)
        /\ ddrb' = ddrb /\ portb' = portb
    BY <2>1, <2>2, ToggleKept DEF core
  <2>4. external_input' = IF bit \in external_input THEN external_input \ {bit}
                          ELSE external_input \cup {bit}
    BY <2>1, <2>3, WhatIsShown DEF Flipped
  <2>. QED BY <2>2, <2>3, <2>4 DEF Pins
<1>. QED BY <1>1, GuiInvHolds, PTL DEF GuiSpec, ClickMovesThePin

\* The demo under the graphical interface implements AvrMirror as well
\* (avr_gui.c:78-89; README.md, Phase 11).
THEOREM GuiMirrors == GuiSpec => MirrorsTheInput
<1>1. GuiInit => Mirror!Init
  <2>. SUFFICES ASSUME GuiInit PROVE Mirror!Init
    OBVIOUS
  <2>1. ~Sampled /\ ~PinDriven /\ external_input = {}
    BY DemoStarts DEF GuiInit
  <2>. QED BY <2>1, SampledIsALevel DEF Mirror!Init, PinDriven
<1>2. GuiInv /\ [GuiNext]_guivars => [Mirror!Next]_(Mirror!mirror)
  <2>. SUFFICES ASSUME GuiInv, [GuiNext]_guivars PROVE [Mirror!Next]_(Mirror!mirror)
    OBVIOUS
  <2>1. MirrorStep
    BY GuiStep, GuiStutter
  <2>2. Sampled \in BOOLEAN /\ Sampled' \in BOOLEAN
    <3>1. (Sampled \in BOOLEAN)'
      BY SampledIsALevel, PTL
    <3>. QED BY <3>1, SampledIsALevel
  <2>3. /\ InputLevel \in BOOLEAN /\ InputLevel' \in BOOLEAN
        /\ PinDriven \in BOOLEAN /\ PinDriven' \in BOOLEAN
    BY DEF InputLevel, PinDriven
  <2>. QED BY <2>1, <2>2, <2>3
    DEF MirrorStep, InputLevel, Mirror!Next, Mirror!mirror, Mirror!Toggle, Mirror!Sample,
        Mirror!Drive, Mirror!Reset
<1>. QED BY <1>1, <1>2, GuiInvHolds, PTL DEF GuiSpec, MirrorsTheInput, Mirror!Spec

-----------------------------------------------------------------------------
(***************************************************************************)
(* The change tracker against the panels.                                  *)
(***************************************************************************)

\* What the change tracker says, entry by entry.
Tracked == \A n \in DOMAIN last_events : Shown(last_events[n]) = last_events[n].new_value
TrackInv ==
  /\ GuiInv
  /\ at = "load" => last_events = << >>
  /\ at \in {"events", "frame"} => Tracked

LEMMA NothingTracked ==
  ASSUME last_events' = << >>
  PROVE  Tracked'
BY DEF Tracked

LEMMA StillTracked ==
  ASSUME Tracked, last_events' = last_events,
         /\ snapshot'.registers = snapshot.registers
         /\ snapshot'.sram = snapshot.sram
         /\ snapshot'.sreg = snapshot.sreg
         /\ snapshot'.ddrb = snapshot.ddrb
         /\ snapshot'.portb = snapshot.portb
  PROVE  Tracked'
BY DEF Tracked, Shown

\* The new values of a comparison are those of the second snapshot.
LEMMA NewValueShown ==
  ASSUME NEW event \in AllCompared(Snapshot, Snapshot'), snapshot' = Snapshot'
  PROVE  Shown(event)' = event.new_value
<1>. DEFINE after == Snapshot'
<1>0. DDRB # PORTB
  BY DEF DDRB, PORTB
<1>1. CASE event = PcEvent(Snapshot, after) \/ event = PinEvent(Snapshot, after)
  BY <1>1 DEF PcEvent, PinEvent, Event, Shown
<1>2. CASE event = SregEvent(Snapshot, after)
  <2>. HIDE DEF after
  <2>. QED BY <1>2 DEF SregEvent, Event, Shown, after
<1>3. CASE event = DdrbEvent(Snapshot, after) \/ event = PortbEvent(Snapshot, after)
  BY <1>0, <1>3 DEF DdrbEvent, PortbEvent, Event, Shown
<1>4. ASSUME NEW r \in Register, event = RegisterEvent(Snapshot, after, r)
      PROVE  Shown(event)' = event.new_value
  BY <1>4 DEF RegisterEvent, Event, Shown
<1>5. ASSUME NEW x \in SramAddress, event = SramEvent(Snapshot, after, x)
      PROVE  Shown(event)' = event.new_value
  BY <1>5 DEF SramEvent, Event, Shown
<1>. QED BY <1>1, <1>2, <1>3, <1>4, <1>5 DEF AllCompared

LEMMA LogOfStep ==
  ASSUME StepWithEvents
  PROVE  \/ ret' = FALSE /\ last_events' = << >>
         \/ ret' = TRUE /\ last_events' = Logged(Compared(Snapshot, Snapshot'))
BY DEF StepWithEvents

LEMMA StepTracked ==
  ASSUME StepWithEvents, snapshot' = Snapshot'
  PROVE  Tracked'
<1>. DEFINE before == Snapshot
            after == Snapshot'
            comparisons == Compared(before, after)
<1>1. CASE last_events' = << >>
  BY <1>1, NothingTracked
<1>2. CASE last_events' = Logged(comparisons)
  <2>1. comparisons \in Seq(AllCompared(before, after))
    BY ComparedParts
  <2>2. \A n \in DOMAIN last_events' : last_events'[n] \in AllCompared(before, after)
    <3>. HIDE DEF before, after, comparisons
    <3>1. \A k \in DOMAIN Logged(comparisons) :
            \E n \in 1..Len(comparisons) : Logged(comparisons)[k] = comparisons[n]
      BY <2>1, LogDiffers
    <3>. QED BY <1>2, <2>1, <3>1
  <2>3. ASSUME NEW n \in DOMAIN last_events'
        PROVE  (Shown(last_events[n]))' = last_events'[n].new_value
    <3>1. PICK event \in AllCompared(Snapshot, Snapshot') : event = last_events'[n]
      BY <2>2
    <3>2. Shown(event)' = event.new_value
      BY <3>1, NewValueShown
    <3>. QED BY <3>1, <3>2 DEF Shown
  <2>. QED BY <2>3 DEF Tracked
<1>. QED BY <1>1, <1>2, LogOfStep

LEMMA TrackStep ==
  ASSUME TrackInv, GuiNext
  PROVE  TrackInv'
<1>1. GuiInv /\ GuiInv'
  BY GuiStep DEF TrackInv
<1>. SUFFICES /\ at' = "load" => last_events' = << >>
              /\ at' \in {"events", "frame"} => Tracked'
  BY <1>1 DEF TrackInv
<1>a. CASE LoadDemo
  <2>1. at' = "events" /\ last_events' = << >>
    BY <1>a DEF LoadDemo, TrackInv
  <2>. QED BY <2>1, NothingTracked
<1>b. CASE StepKey \/ TimedStep
  <2>1. at' \in {"events", "frame"} /\ StepWithEvents /\ snapshot' = Snapshot'
    BY <1>b DEF StepKey, TimedStep, StepOnce, RefreshSnapshot
  <2>. QED BY <2>1, StepTracked
<1>c. CASE RunKey \/ SlowerKey \/ FasterKey \/ QuitEvent \/ NoStep \/ BreakpointKey
             \/ \E ticks \in FrameTicks : NextFrame(ticks)
  <2>1. /\ at \in {"events", "frame"} /\ at' # "load"
        /\ snapshot' = snapshot /\ last_events' = last_events
    BY <1>c DEF RunKey, SlowerKey, FasterKey, QuitEvent, NoStep, BreakpointKey, NextFrame,
       screen
  <2>. QED BY <2>1, StillTracked DEF TrackInv
<1>d. CASE ResetKey
  BY <1>d DEF ResetKey
<1>e. ASSUME NEW bit \in InputBits, InputKey(bit) \/ PinClick(bit)
      PROVE  at' = "events" /\ Tracked'
  <2>1. at = "events" /\ ToggleInput(bit) /\ bit \in Bit
    BY <1>e, GuiAssumption DEF InputKey, PinClick, ToggleInput
  <2>2. TypeOK /\ Shows /\ Tracked
    BY <1>1, <2>1 DEF TrackInv, GuiInv
  <2>3. UNCHANGED <<core, at>> /\ snapshot' = Snapshot' /\ last_events' = last_events
    BY <2>1, <2>2, ToggleKept DEF ToggleInput, RefreshSnapshot
  <2>4. /\ snapshot.registers = registers /\ snapshot.sram = sram /\ snapshot.sreg = sreg
        /\ snapshot.ddrb = ddrb /\ snapshot.portb = portb
    BY <2>2 DEF Shows, Snapshot
  <2>5. /\ snapshot'.registers = registers' /\ snapshot'.sram = sram' /\ snapshot'.sreg = sreg'
        /\ snapshot'.ddrb = ddrb' /\ snapshot'.portb = portb'
    BY <2>3 DEF Snapshot
  <2>6. Tracked'
    BY <2>2, <2>3, <2>4, <2>5, StillTracked DEF core
  <2>. QED BY <2>1, <2>3, <2>6
<1>. QED BY <1>a, <1>b, <1>c, <1>d, <1>e DEF GuiNext, HandleEvent, Drained

\* The change tracker never contradicts the panels beside it: between two events
\* and when the frame is drawn, what it says a register, a byte or a port was set
\* to is what is shown there, whatever was pressed since (avr_gui.c:503-562).
THEOREM TrackerNeverContradicts == GuiSpec => []TrackerAgreesWithPanels
<1>1. GuiInit => TrackInv
  BY InitTypeOK, DemoStarts DEF GuiInit, TrackInv, GuiInv
<1>2. TrackInv /\ [GuiNext]_guivars => TrackInv'
  <2>1. TrackInv /\ GuiNext => TrackInv'
    BY TrackStep
  <2>2. TrackInv /\ UNCHANGED guivars => TrackInv'
    <3>. SUFFICES ASSUME TrackInv, UNCHANGED guivars
                  PROVE  TrackInv'
      OBVIOUS
    <3>1. GuiInv'
      BY GuiStutter DEF TrackInv
    <3>2. at' = at /\ snapshot' = snapshot /\ last_events' = last_events
      BY DEF guivars, screen
    <3>. QED BY <3>1, <3>2, StillTracked DEF TrackInv
  <2>. QED BY <2>1, <2>2
<1>3. TrackInv => TrackerAgreesWithPanels
  BY DEF TrackInv, Tracked, TrackerAgreesWithPanels
<1>. QED BY <1>1, <1>2, <1>3, PTL DEF GuiSpec

-----------------------------------------------------------------------------
(***************************************************************************)
(* The texts of a jump against the jump.                                   *)
(***************************************************************************)

\* An instruction without a target.
Code(op, d, s, k, b, r) ==
  [operation |-> op, destination_register |-> d, source_register |-> s,
   immediate |-> k, bit_index |-> b, relative_offset |-> r, target_address |-> 0]

LEMMA CodeIsWord ==
  ASSUME NEW op \in Operations, op # "CALL",
         NEW d \in 0..31, NEW s \in 0..31, NEW k \in 0..255, NEW b \in 0..7, NEW r \in -64..63,
         op \in WithConstant => d >= 16,
         op \in PortTransfers => k <= 63,
         op \in PortBitOps => k <= 31
  PROVE  Encode(Code(op, d, s, k, b, r)) \in Word
<1>. DEFINE i == Code(op, d, s, k, b, r)
<1>1. /\ i.operation = op /\ i.destination_register = d /\ i.source_register = s
      /\ i.immediate = k /\ i.bit_index = b /\ i.relative_offset = r
      /\ i.target_address = 0
  BY DEF Code
<1>2. i \in Instruction
  <2>1. d \in Byte /\ s \in Byte /\ k \in Byte /\ b \in Byte
    BY InByte
  <2>2. r \in Int16
    BY InInt16
  <2>3. 0 \in Word
    BY InWord
  <2>. QED BY <2>1, <2>2, <2>3 DEF Instruction, Code
<1>3. Encodable(i)
  <2>1. op \notin {"CALL"}
    OBVIOUS
  <2>. HIDE DEF i
  <2>2. ValidRelativeOffset(r, 4096) /\ ValidRelativeOffset(r, 128)
    BY DEF ValidRelativeOffset
  <2>. QED BY <1>1, <2>1, <2>2 DEF Encodable, RegisterCount
<1>. HIDE DEF i
<1>. QED BY <1>2, <1>3, EncodingSurvives DEF i

\* Every word the model fills flash with is one.
LEMMA WordsAreWords == Words \subseteq Word
<1>. DEFINE R == 0..31
            K == 0..255
<1>1. 0 \in Word
  BY InWord
<1>2. ASSUME NEW op \in Operations, op # "CALL", NEW d \in R, NEW s \in R, NEW k \in K,
             op \in WithConstant => d >= 16,
             op \in PortTransfers => k <= 63,
             op \in PortBitOps => k <= 31
      PROVE  Encode(I(op, d, s, k)) \in Word
  <2>1. I(op, d, s, k) = Code(op, d, s, k, 0, 0)
    BY DEF I, Code
  <2>2. 0 \in 0..7 /\ 0 \in -64..63
    OBVIOUS
  <2>. QED BY <1>2, <2>1, <2>2, CodeIsWord, Zenon
<1>r. /\ 0 \in R /\ 16 \in R /\ 26 \in R /\ 31 \in R
      /\ 0 \in K /\ 1 \in K /\ 2 \in K /\ 3 \in K /\ 128 \in K /\ 255 \in K
  OBVIOUS
<1>b. \A n \in {0, 16, 31} : n \in R
  OBVIOUS
<1>. HIDE DEF R, K
<1>3. ASSUME NEW i \in Arithmetic
      PROVE  Encode(i) \in Word
  <2>1. CASE i = I("LDI", 31, 0, 255) \/ i = I("CPI", 16, 0, 128)
    <3>1. /\ "LDI" \in Operations /\ "CPI" \in Operations
          /\ {"LDI", "CPI"} \cap ({"CALL"} \cup PortTransfers \cup PortBitOps) = {}
      BY DEF Operations, WithConstant, PortTransfers, PortBitOps
    <3>2. "LDI" # "CALL" /\ "CPI" # "CALL"
      OBVIOUS
    <3>3. Encode(I("LDI", 31, 0, 255)) \in Word
      BY <1>r, <1>2, <3>1, <3>2
    <3>4. Encode(I("CPI", 16, 0, 128)) \in Word
      BY <1>r, <1>2, <3>1, <3>2
    <3>. QED BY <2>1, <3>3, <3>4
  <2>2. ASSUME NEW op \in WithTwoRegisters, i = I(op, 0, 16, 0)
        PROVE  Encode(i) \in Word
    <3>1. op \in Operations /\ op # "CALL" /\ op \notin WithConstant
          /\ op \notin PortTransfers /\ op \notin PortBitOps
      BY DEF Operations, WithTwoRegisters, WithConstant, PortTransfers, PortBitOps
    <3>. QED BY <1>r, <1>2, <2>2, <3>1
  <2>3. ASSUME NEW op \in {"INC", "DEC"}, NEW d \in {0, 16, 31}, i = I(op, d, 0, 0)
        PROVE  Encode(i) \in Word
    <3>1. op \in Operations /\ op # "CALL" /\ op \notin WithConstant
          /\ op \notin PortTransfers /\ op \notin PortBitOps
      BY DEF Operations, WithDestination, WithConstant, PortTransfers, PortBitOps
    <3>2. d \in R
      BY <1>b
    <3>. QED BY <1>r, <1>2, <3>2, <2>3, <3>1
  <2>. QED BY <2>1, <2>2, <2>3 DEF Arithmetic
<1>4. ASSUME NEW i \in Memory
      PROVE  Encode(i) \in Word
  <2>1. \A op \in {"LD", "ST"} :
          /\ op \in Operations /\ op # "CALL" /\ op \notin WithConstant
          /\ op \notin PortTransfers /\ op \notin PortBitOps
    BY DEF Operations, WithDestination, WithSource, WithConstant, PortTransfers, PortBitOps
  <2>2. \/ i = I("LD", 0, 0, 0) \/ i = I("LD", 26, 0, 0)
        \/ i = I("ST", 0, 16, 0) \/ i = I("ST", 0, 26, 0)
    BY DEF Memory
  <2>3. Encode(I("LD", 0, 0, 0)) \in Word /\ Encode(I("LD", 26, 0, 0)) \in Word
    BY <1>r, <1>2, <2>1
  <2>4. Encode(I("ST", 0, 16, 0)) \in Word /\ Encode(I("ST", 0, 26, 0)) \in Word
    BY <1>r, <1>2, <2>1
  <2>. QED BY <2>2, <2>3, <2>4
<1>5. ASSUME NEW i \in PortCode
      PROVE  Encode(i) \in Word
  <2>1. \A op \in {"IN", "OUT"} :
          /\ op \in Operations /\ op # "CALL" /\ op \notin WithConstant
          /\ op \notin PortBitOps
    BY DEF Operations, PortTransfers, WithConstant, PortBitOps
  <2>2. CASE \/ i = I("OUT", 0, 16, 1) \/ i = I("OUT", 0, 16, 2)
             \/ i = I("IN", 31, 0, 0) \/ i = I("IN", 0, 0, 3)
    <3>1. Encode(I("OUT", 0, 16, 1)) \in Word /\ Encode(I("OUT", 0, 16, 2)) \in Word
      BY <1>r, <1>2, <2>1
    <3>2. Encode(I("IN", 31, 0, 0)) \in Word /\ Encode(I("IN", 0, 0, 3)) \in Word
      BY <1>r, <1>2, <2>1
    <3>. QED BY <2>2, <3>1, <3>2
  <2>3. ASSUME NEW op \in PortBitOps, NEW k \in {1, 2},
               i = [I(op, 0, 0, k) EXCEPT !.bit_index = 5]
        PROVE  Encode(i) \in Word
    <3>1. i = Code(op, 0, 0, k, 5, 0)
      BY <2>3 DEF I, Code
    <3>2. /\ op \in Operations /\ op # "CALL" /\ op \notin WithConstant
          /\ op \notin PortTransfers
      BY DEF Operations, PortBitOps, WithConstant, PortTransfers
    <3>3. 5 \in 0..7 /\ 0 \in -64..63 /\ 0 \in 0..31 /\ k \in 0..255 /\ k <= 31
      OBVIOUS
    <3>. QED BY <3>1, <3>2, <3>3, CodeIsWord, Zenon
  <2>. QED BY <2>2, <2>3 DEF PortCode, PINB, DDRB, PORTB
<1>6. ASSUME NEW i \in StackCode
      PROVE  Encode(i) \in Word
  <2>1. CASE i = I("PUSH", 0, 16, 0) \/ i = I("POP", 31, 0, 0) \/ i = I("RET", 0, 0, 0)
    <3>1. \A op \in {"PUSH", "POP", "RET"} :
            /\ op \in Operations /\ op # "CALL" /\ op \notin WithConstant
            /\ op \notin PortTransfers /\ op \notin PortBitOps
      BY DEF Operations, WithDestination, WithSource, WithConstant, PortTransfers, PortBitOps
    <3>2. Encode(I("PUSH", 0, 16, 0)) \in Word
      BY <1>r, <1>2, <3>1
    <3>3. Encode(I("POP", 31, 0, 0)) \in Word
      BY <1>r, <1>2, <3>1
    <3>4. Encode(I("RET", 0, 0, 0)) \in Word
      BY <1>r, <1>2, <3>1
    <3>. QED BY <2>1, <3>2, <3>3, <3>4
  <2>2. CASE i = [I("CALL", 0, 0, 0) EXCEPT !.target_address = 2]
    <3>1. i.operation = "CALL" /\ i.target_address = 2
      BY <2>2 DEF I
    <3>2. OperandBits(i) = 2 % 1024
      BY <3>1, Packing
    <3>3. Opcode("CALL") = 39936
      BY DEF Opcode
    <3>4. Encode(i) = 39938
      BY <3>1, <3>2, <3>3 DEF Encode
    <3>. QED BY <3>4, InWord
  <2>. QED BY <2>1, <2>2 DEF StackCode
<1>7. ASSUME NEW i \in Jumps
      PROVE  Encode(i) \in Word
  <2>1. PICK op \in Branches \cup {"RJMP"}, r \in {-64, -3, -1, 0, 1, 63} :
          i = [I(op, 0, 0, 0) EXCEPT !.relative_offset = r]
    BY DEF Jumps
  <2>2. i = Code(op, 0, 0, 0, 0, r)
    BY <2>1 DEF I, Code
  <2>3. /\ op \in Operations /\ op # "CALL" /\ op \notin WithConstant
        /\ op \notin PortTransfers /\ op \notin PortBitOps
    BY DEF Operations, PortBitOps, WithConstant, PortTransfers, Branches
  <2>4. 0 \in 0..7 /\ r \in -64..63 /\ 0 \in 0..31 /\ 0 \in 0..255
    OBVIOUS
  <2>. QED BY <2>2, <2>3, <2>4, CodeIsWord, Zenon
<1>. QED BY <1>1, <1>3, <1>4, <1>5, <1>6, <1>7 DEF Words

\* What the runs of a frontend start from and keep: the machine is one, and one
\* instruction is everywhere in flash.
Uniform == \A a \in FlashAddress : flash[a] = flash[0]
DebugInv == TypeOK /\ Uniform

LEMMA DebugStarts == MCInit => DebugInv
<1>. SUFFICES ASSUME MCInit PROVE DebugInv
  OBVIOUS
<1>1. /\ 0 \in Byte /\ 0 \in Word
  BY InByte, InWord
<1>2. PICK w \in Words : flash = [a \in FlashAddress |-> w]
  BY DEF MCInit
<1>3. flash \in [FlashAddress -> Word] /\ Uniform
  <2>1. 0 \in FlashAddress
    BY FlashSizeAssumption DEF FlashAddress
  <2>2. w \in Word
    BY WordsAreWords
  <2>. QED BY <1>2, <2>1, <2>2 DEF Uniform
<1>4. registers \in [Register -> Byte]
  <2>1. PICK low \in Reading(WithTwoRegisters \cup {"INC", "DEC"}, HostBytes, 0),
             operand \in Reading(ByteReaders, HostBytes, 0),
             x \in Reading({"LD", "ST"}, HostWords \cap Byte, 0) :
               registers = [r \in Register |-> CASE r = 0  -> low
                                                 [] r = 16 -> operand
                                                 [] r = 26 -> x
                                                 [] OTHER  -> 0]
    BY DEF MCInit
  <2>2. low \in Byte /\ operand \in Byte /\ x \in Byte
    BY <1>1, HostAssumption DEF Reading
  <2>. QED BY <1>1, <2>1, <2>2
<1>5. sram \in [SramAddress -> Byte]
  <2>1. ASSUME NEW a \in SramAddress PROVE LowByte(a) \in Byte
    <3>1. a \in Int
      BY SramSizeAssumption DEF SramAddress
    <3>. QED BY <3>1 DEF LowByte, Byte
  <2>. QED BY <2>1 DEF MCInit
<1>6. pc \in Word
  <2>1. FlashSize - 1 \in Int /\ 0 <= FlashSize - 1 /\ FlashSize - 1 <= 65535
    BY FlashSizeAssumption
  <2>2. FlashSize - 1 \in Word
    BY <2>1, InWord
  <2>. QED BY <1>1, <2>2 DEF MCInit
<1>7. sp \in Word
  <2>1. SramSize \in Word
    BY SramSizeAssumption, InWord
  <2>. QED BY <2>1, HostAssumption DEF MCInit, Reading
<1>8. sreg \in SUBSET Flags
  BY HostAssumption DEF MCInit
<1>9. ddrb \in SUBSET Bit /\ portb \in SUBSET Bit /\ external_input \in SUBSET Bit
  BY HostAssumption DEF MCInit, Reading
<1>10. /\ cycle_count \in 0..(CycleModulus - 1) /\ breakpoints \in SUBSET FlashAddress
       /\ call \in {"write", "execute", "step"} /\ ret \in BOOLEAN
  BY CycleModulusAssumption DEF MCInit
<1>. QED BY <1>3, <1>4, <1>5, <1>6, <1>7, <1>8, <1>9, <1>10 DEF DebugInv, TypeOK

LEMMA DebugKept == DebugInv /\ [MCNext]_debugvars => DebugInv'
<1>1. ASSUME DebugInv, StepWithEvents PROVE DebugInv'
  <2>1. TypeOK' /\ flash' = flash
    BY <1>1, StepTypeOK DEF DebugInv, StepWithEvents, Step, FetchFails, Retire, machine
  <2>. QED BY <1>1, <2>1 DEF DebugInv, Uniform
<1>2. ASSUME DebugInv, DrivePins PROVE DebugInv'
  <2>1. PICK bits \in HostPorts : WriteExternalInput(bits)
    BY <1>2 DEF DrivePins
  <2>2. bits \in SUBSET Bit
    BY HostAssumption
  <2>3. TypeOK' /\ flash' = flash
    BY <1>2, <2>1, <2>2, InputKept DEF DebugInv, WriteExternalInput
  <2>. QED BY <1>2, <2>3 DEF DebugInv, Uniform
<1>3. ASSUME DebugInv, UNCHANGED debugvars PROVE DebugInv'
  <2>1. UNCHANGED vars
    BY <1>3 DEF debugvars
  <2>2. flash' = flash
    BY <2>1 DEF vars
  <2>. QED BY <1>3, <2>1, <2>2, StutterTypeOK DEF DebugInv, Uniform
<1>. QED BY <1>1, <1>2, <1>3 DEF MCNext

LEMMA DebugInvHolds == MCSpec => []DebugInv
BY DebugStarts, DebugKept, PTL DEF MCSpec

\* A jump whose texts say where it goes goes there.
LEMMA TextsOfJumps ==
  ASSUME NEW i, NEW here, i.operation \in Branches \cup {"RJMP", "CALL"}
  PROVE  LET target == IF i.operation = "CALL" THEN i.target_address
                       ELSE ResolvedTarget(i, here)
         IN  /\ LastValue(Disassembled(i, here)) = target
             /\ LastValue(Explained(i, here)) = target
<1>. DEFINE op == i.operation
<1>1. CASE op = "CALL"
  <2>1. /\ FormatValues(i, here) = <<Hex(i.target_address)>>
        /\ ExplainValues(i, here) = <<Decimal(i.target_address)>>
    BY <1>1 DEF FormatValues, ExplainValues, WithConstant, WithTwoRegisters,
       WithDestination, WithSource, PortBitOps, Branches
  <2>. QED BY <1>1, <2>1 DEF LastValue, Disassembled, Explained, Hex, Decimal
<1>2. CASE op # "CALL"
  <2>. DEFINE target == ResolvedTarget(i, here)
  <2>1. /\ FormatValues(i, here) = <<Signed(i.relative_offset), Hex(target)>>
        /\ ExplainValues(i, here) = <<Decimal(target)>>
    BY <1>2 DEF FormatValues, ExplainValues, WithConstant, WithTwoRegisters,
       WithDestination, WithSource, PortBitOps, Branches
  <2>. HIDE DEF target
  <2>2. /\ LastValue(Disassembled(i, here)) = target
        /\ LastValue(Explained(i, here)) = target
    BY <2>1 DEF LastValue, Disassembled, Explained, Hex, Decimal
  <2>. QED BY <1>2, <2>2 DEF target
<1>. QED BY <1>1, <1>2

LEMMA JumpPerformed ==
  ASSUME NEW i, Perform(i), i.operation \in Branches \cup {"RJMP", "CALL"}
  PROVE  /\ i.operation = "CALL" => pc' = i.target_address
         /\ i.operation = "RJMP" => pc' = ResolvedTarget(i, pc)
         /\ i.operation \in Branches => pc' = ResolvedTarget(i, pc) \/ pc' = NextPc
BY DEF Perform, Ldi, Mov, Add, Sub, Inc, Dec, Logical, Compare, Ld, St, In, Out, PortBit,
       Rjmp, Branch, Push, Pop, Call, Ret, PortBitOps, Branches, ResolvedTarget

\* Whatever the host has set up, a jump goes where both of its texts say it goes,
\* or it is a branch that is not taken (avr_debug.c:138-152, 272-287).
THEOREM JumpsGoWhereTheySay == MCSpec => JumpsGoWhereTheTextsSay
<1>1. DebugInv /\ [MCNext]_debugvars =>
        [(call' = "step" /\ ret' /\ Operation \in Branches \cup {"RJMP", "CALL"}) =>
           LET i == Decode(flash[pc], CHOOSE garbage \in Garbage : TRUE)
           IN  /\ LastValue(Disassembled(i, pc)) = LastValue(Explained(i, pc))
               /\ \/ pc' = LastValue(Disassembled(i, pc))
                  \/ Operation \in Branches /\ pc' = NextPc]_debugvars
  <2>. DEFINE i == Decode(flash[pc], CHOOSE garbage \in Garbage : TRUE)
  <2>. SUFFICES ASSUME DebugInv, MCNext, call' = "step", ret',
                       Operation \in Branches \cup {"RJMP", "CALL"}
                PROVE  /\ LastValue(Disassembled(i, pc)) = LastValue(Explained(i, pc))
                       /\ \/ pc' = LastValue(Disassembled(i, pc))
                          \/ Operation \in Branches /\ pc' = NextPc
    OBVIOUS
  <2>1. Step
    BY DEF MCNext, StepWithEvents, DrivePins, WriteExternalInput, Written
  <2>2. Retire
    BY <2>1 DEF Step, FetchFails
  <2>3. PICK garbage \in Garbage : Execute(Decode(flash[pc], garbage))
    BY <2>2 DEF Retire
  <2>4. Execute(i)
    BY <2>3, GarbageNotRead, SameExecute
  <2>5. Perform(i)
    BY <2>4 DEF Execute
  <2>6. flash[pc] = flash[0] /\ Decodes(flash[pc])
    <3>1. pc \in Int /\ 0 <= pc
      BY WordBounds DEF DebugInv, TypeOK
    <3>2. pc \in FlashAddress /\ Decodes(flash[pc])
      BY <2>2, <3>1, FlashSizeAssumption DEF Retire, CanFetch, FlashAddress
    <3>. QED BY <3>2 DEF DebugInv, Uniform
  <2>7. i.operation = Operation
    BY <2>6, DecodedFields DEF Operation
  <2>. HIDE DEF i
  <2>8. /\ Operation = "CALL" => pc' = i.target_address
        /\ Operation = "RJMP" => pc' = ResolvedTarget(i, pc)
        /\ Operation \in Branches => pc' = ResolvedTarget(i, pc) \/ pc' = NextPc
    BY <2>5, <2>7, JumpPerformed
  <2>9. LET target == IF i.operation = "CALL" THEN i.target_address
                      ELSE ResolvedTarget(i, pc)
        IN  /\ LastValue(Disassembled(i, pc)) = target
            /\ LastValue(Explained(i, pc)) = target
    BY <2>7, TextsOfJumps
  <2>10. "CALL" \notin Branches
    BY DEF Branches
  <2>. QED BY <2>7, <2>8, <2>9, <2>10
<1>. QED BY <1>1, DebugInvHolds, PTL DEF MCSpec, JumpsGoWhereTheTextsSay

-----------------------------------------------------------------------------
(***************************************************************************)
(* The log as a difference: what a step can change, and what an observer   *)
(* makes of the events.                                                    *)
(***************************************************************************)

\* What an observer sees event by event.
ViewsOf(view, events, views) ==
  /\ views[0] = view
  /\ \A n \in 1..Len(events) :
       views[n] = Patch(views[n - 1], events[n], events[n].new_value)
  /\ Redo(view, events) = views[Len(events)]

LEMMA ViewsExist ==
  ASSUME NEW view, NEW events, Len(events) \in Nat
  PROVE  \E views : ViewsOf(view, events, views)
<1>. DEFINE N == Len(events)
            body(f, n) == IF n = 0 THEN view
                          ELSE Patch(f[n - 1], events[n], events[n].new_value)
            Upto(f, k) == f = [n \in 0..k |-> body(f, n)]
            T == {k \in 0..N : \E f : Upto(f, k)}
<1>1. 0 \in T
  <2>. DEFINE f == [n \in 0..0 |-> view]
  <2>1. Upto(f, 0)
    OBVIOUS
  <2>. HIDE DEF f, Upto
  <2>. QED BY <2>1
<1>2. ASSUME NEW k \in 1..N, k - 1 \in T
      PROVE  k \in T
  <2>1. PICK f : Upto(f, k - 1)
    BY <1>2
  <2>. DEFINE last == Patch(f[k - 1], events[k], events[k].new_value)
              g == [n \in 0..k |-> IF n = k THEN last ELSE f[n]]
  <2>2. k \in Nat /\ k >= 1
    OBVIOUS
  <2>3. ASSUME NEW n \in 0..k
        PROVE  g[n] = body(g, n)
    <3>. HIDE DEF last
    <3>1. CASE n = 0
      <4>1. g[n] = f[0] /\ f[0] = view
        BY <2>1, <2>2, <3>1
      <4>. QED BY <3>1, <4>1
    <3>2. CASE n = k
      <4>1. g[n] = last /\ g[n - 1] = f[k - 1] /\ n # 0
        BY <2>2, <3>2
      <4>2. body(g, n) = last
        BY <3>2, <4>1 DEF last
      <4>. QED BY <4>1, <4>2
    <3>3. CASE n # 0 /\ n # k
      <4>1. /\ n \in 0..(k - 1) /\ n - 1 \in 0..k /\ n - 1 # k
        BY <2>2, <3>3
      <4>2. g[n] = f[n] /\ g[n - 1] = f[n - 1]
        BY <3>3, <4>1
      <4>3. f[n] = body(f, n)
        <5>. HIDE DEF body
        <5>. QED BY <2>1, <4>1
      <4>. QED BY <3>3, <4>2, <4>3
    <3>. QED BY <3>1, <3>2, <3>3
  <2>4. Upto(g, k)
    <3>. HIDE DEF body, last
    <3>. QED BY <2>3
  <2>. HIDE DEF g, Upto
  <2>. QED BY <2>4
<1>3. \E f : Upto(f, N)
  <2>. HIDE DEF T
  <2>1. \A k \in 1..N : k - 1 \in T => k \in T
    BY <1>2
  <2>2. \A k \in 0..N : k \in T
    BY <1>1, <2>1, Induction
  <2>. QED BY <2>2 DEF T
<1>4. PICK views : views = CHOOSE f : Upto(f, N)
  OBVIOUS
<1>5. Upto(views, N)
  <2>. HIDE DEF Upto
  <2>. QED BY <1>3, <1>4
<1>6. Redo(view, events) = views[N]
  BY <1>4 DEF Redo
<1>7. \A n \in 0..N : views[n] = body(views, n)
  <2>. HIDE DEF body
  <2>. QED BY <1>5
<1>8. views[0] = view
  BY <1>7
<1>9. ASSUME NEW n \in 1..N
      PROVE  views[n] = Patch(views[n - 1], events[n], events[n].new_value)
  <2>1. n \in 0..N /\ n # 0
    OBVIOUS
  <2>. QED BY <1>7, <2>1
<1>. QED BY <1>6, <1>8, <1>9 DEF ViewsOf

LEMMA RedoNone ==
  ASSUME NEW view
  PROVE  Redo(view, << >>) = view
<1>1. Len(<< >>) = 0
  OBVIOUS
<1>. QED BY <1>1, ViewsExist DEF ViewsOf

LEMMA RedoOne ==
  ASSUME NEW view, NEW a
  PROVE  Redo(view, <<a>>) = Patch(view, a, a.new_value)
<1>. DEFINE events == <<a>>
<1>1. Len(events) = 1 /\ events[1] = a
  OBVIOUS
<1>. HIDE DEF events
<1>2. PICK views : ViewsOf(view, events, views)
  BY <1>1, ViewsExist
<1>3. views[1] = Patch(views[1 - 1], events[1], events[1].new_value)
  BY <1>1, <1>2 DEF ViewsOf
<1>. QED BY <1>1, <1>2, <1>3 DEF ViewsOf, events

LEMMA RedoTwo ==
  ASSUME NEW view, NEW a, NEW b
  PROVE  Redo(view, <<a, b>>) = Patch(Patch(view, a, a.new_value), b, b.new_value)
<1>. DEFINE events == <<a, b>>
<1>1. Len(events) = 2 /\ events[1] = a /\ events[2] = b
  OBVIOUS
<1>. HIDE DEF events
<1>2. PICK views : ViewsOf(view, events, views)
  BY <1>1, ViewsExist
<1>3. views[0] = view /\ Redo(view, events) = views[2]
  BY <1>1, <1>2 DEF ViewsOf
<1>4. /\ views[1] = Patch(views[1 - 1], events[1], events[1].new_value)
      /\ views[2] = Patch(views[2 - 1], events[2], events[2].new_value)
  BY <1>1, <1>2 DEF ViewsOf
<1>5. 1 - 1 = 0 /\ 2 - 1 = 1
  OBVIOUS
<1>. QED BY <1>1, <1>3, <1>4, <1>5 DEF events

LEMMA RedoThree ==
  ASSUME NEW view, NEW a, NEW b, NEW c
  PROVE  Redo(view, <<a, b, c>>) =
           Patch(Patch(Patch(view, a, a.new_value), b, b.new_value), c, c.new_value)
<1>. DEFINE events == <<a, b, c>>
<1>1. Len(events) = 3 /\ events[1] = a /\ events[2] = b /\ events[3] = c
  OBVIOUS
<1>. HIDE DEF events
<1>2. PICK views : ViewsOf(view, events, views)
  BY <1>1, ViewsExist, SMTT(30)
<1>3. views[0] = view /\ Redo(view, events) = views[3]
  BY <1>1, <1>2 DEF ViewsOf
<1>4. /\ views[1] = Patch(views[1 - 1], events[1], events[1].new_value)
      /\ views[2] = Patch(views[2 - 1], events[2], events[2].new_value)
      /\ views[3] = Patch(views[3 - 1], events[3], events[3].new_value)
  BY <1>1, <1>2 DEF ViewsOf
<1>5. 1 - 1 = 0 /\ 2 - 1 = 1 /\ 3 - 1 = 2
  OBVIOUS
<1>. QED BY <1>1, <1>3, <1>4, <1>5 DEF events

\* An event with its values exchanged, and a short log backwards.
Exchanged(event) == Event(event.type, event.address, event.new_value, event.old_value)

LEMMA PatchBack ==
  ASSUME NEW view, NEW event
  PROVE  LET back == Exchanged(event)
         IN  Patch(view, back, back.new_value) = Patch(view, event, event.old_value)
BY DEF Exchanged, Event, Patch

\* Sequences of two and three elements.
LEMMA IsPair ==
  ASSUME NEW s, NEW a, NEW b, s = [n \in 1..2 |-> IF n = 1 THEN a ELSE b]
  PROVE  s = <<a, b>>
OBVIOUS

LEMMA IsTriple ==
  ASSUME NEW s, NEW a, NEW b, NEW c,
         s = [n \in 1..3 |-> IF n = 1 THEN a ELSE IF n = 2 THEN b ELSE c]
  PROVE  s = <<a, b, c>>
OBVIOUS

LEMMA Joined ==
  ASSUME NEW a, NEW b, NEW c
  PROVE  /\ << >> \o << >> = << >> /\ << >> \o <<a>> = <<a>> /\ <<a>> \o << >> = <<a>>
         /\ <<a>> \o <<b>> = <<a, b>> /\ <<a, b>> \o << >> = <<a, b>>
         /\ <<a, b>> \o <<c>> = <<a, b, c>>
<1>. DEFINE E == {a, b, c}
<1>1. /\ << >> \in Seq(E) /\ <<a>> \in Seq(E) /\ <<b>> \in Seq(E) /\ <<c>> \in Seq(E)
      /\ <<a, b>> \in Seq(E)
  OBVIOUS
<1>2. << >> \o << >> = << >> /\ << >> \o <<a>> = <<a>> /\ <<a>> \o << >> = <<a>>
      /\ <<a, b>> \o << >> = <<a, b>>
  <2>. HIDE DEF E
  <2>. QED BY <1>1, ConcatEmptySeq
<1>3. <<a>> \o <<b>> = <<a, b>>
  <2>. DEFINE s == <<a>>
              t == <<b>>
              all == s \o t
  <2>1. Len(s) = 1 /\ Len(t) = 1 /\ s[1] = a /\ t[1] = b
    OBVIOUS
  <2>2. all \in Seq(E) /\ InARow(s, t, all)
    <3>. HIDE DEF E, s, t
    <3>. QED BY <1>1, TwoParts DEF s, t
  <2>. HIDE DEF E, s, t, all
  <2>3. Len(all) = 2 /\ all[1] = a /\ all[1 + 1] = b
    BY <2>1, <2>2 DEF InARow
  <2>4. all = <<a, b>>
    BY <2>2, <2>3
  <2>. QED BY <2>4 DEF all, s, t
<1>4. <<a, b>> \o <<c>> = <<a, b, c>>
  <2>. DEFINE s == <<a, b>>
              t == <<c>>
              all == s \o t
  <2>1. Len(s) = 2 /\ Len(t) = 1 /\ s[1] = a /\ s[2] = b /\ t[1] = c
    OBVIOUS
  <2>2. all \in Seq(E) /\ InARow(s, t, all)
    <3>. HIDE DEF E, s, t
    <3>. QED BY <1>1, TwoParts DEF s, t
  <2>. HIDE DEF E, s, t, all
  <2>3. Len(all) = 3 /\ all[1] = a /\ all[2] = b /\ all[1 + 2] = c
    BY <2>1, <2>2 DEF InARow
  <2>4. all = <<a, b, c>>
    BY <2>2, <2>3
  <2>. QED BY <2>4 DEF all, s, t
<1>. QED BY <1>2, <1>3, <1>4

LEMMA BackwardsDef ==
  ASSUME NEW events
  PROVE  Backwards(events) =
           [n \in 1..Len(events) |-> Exchanged(events[Len(events) + 1 - n])]
BY DEF Backwards, Exchanged

LEMMA UndoNone ==
  ASSUME NEW view
  PROVE  Undo(view, << >>) = view
<1>1. Backwards(<< >>) = << >>
  BY BackwardsDef
<1>. QED BY <1>1, RedoNone DEF Undo

LEMMA UndoOne ==
  ASSUME NEW view, NEW a
  PROVE  Undo(view, <<a>>) = Patch(view, a, a.old_value)
<1>1. Backwards(<<a>>) = <<Exchanged(a)>>
  BY BackwardsDef
<1>2. Redo(view, <<Exchanged(a)>>) = Patch(view, Exchanged(a), Exchanged(a).new_value)
  BY RedoOne
<1>. QED BY <1>1, <1>2, PatchBack DEF Undo

LEMMA UndoTwo ==
  ASSUME NEW view, NEW a, NEW b
  PROVE  Undo(view, <<a, b>>) = Patch(Patch(view, b, b.old_value), a, a.old_value)
<1>. DEFINE s == <<a, b>>
            x == Exchanged(a)
            y == Exchanged(b)
            v == Patch(view, y, y.new_value)
<1>1. Len(s) = 2 /\ s[1] = a /\ s[2] = b
  OBVIOUS
<1>2. Backwards(s) = [n \in 1..Len(s) |-> Exchanged(s[Len(s) + 1 - n])]
  BY BackwardsDef
<1>3. Backwards(s) = [n \in 1..2 |-> IF n = 1 THEN y ELSE x]
  <2>. HIDE DEF s
  <2>. QED BY <1>1, <1>2
<1>4. Backwards(s) = <<y, x>>
  <2>. HIDE DEF s, x, y
  <2>. QED BY <1>3, IsPair
<1>5. Redo(view, <<y, x>>) = Patch(v, x, x.new_value)
  <2>. HIDE DEF x, y
  <2>. QED BY RedoTwo DEF v
<1>6. v = Patch(view, b, b.old_value)
  BY PatchBack
<1>7. Patch(v, x, x.new_value) = Patch(v, a, a.old_value)
  <2>. HIDE DEF v
  <2>. QED BY PatchBack
<1>. QED BY <1>4, <1>5, <1>6, <1>7 DEF Undo

LEMMA UndoThree ==
  ASSUME NEW view, NEW a, NEW b, NEW c
  PROVE  Undo(view, <<a, b, c>>) =
           Patch(Patch(Patch(view, c, c.old_value), b, b.old_value), a, a.old_value)
<1>. DEFINE s == <<a, b, c>>
            x == Exchanged(a)
            y == Exchanged(b)
            z == Exchanged(c)
            v == Patch(view, z, z.new_value)
            w == Patch(v, y, y.new_value)
<1>1. Len(s) = 3 /\ s[1] = a /\ s[2] = b /\ s[3] = c
  OBVIOUS
<1>2. Backwards(s) = [n \in 1..Len(s) |-> Exchanged(s[Len(s) + 1 - n])]
  BY BackwardsDef
<1>3. Backwards(s) = [n \in 1..3 |-> IF n = 1 THEN z ELSE IF n = 2 THEN y ELSE x]
  <2>. HIDE DEF s
  <2>. QED BY <1>1, <1>2
<1>4. Backwards(s) = <<z, y, x>>
  <2>. HIDE DEF s, x, y, z
  <2>. QED BY <1>3, IsTriple
<1>5. Redo(view, <<z, y, x>>) = Patch(w, x, x.new_value)
  <2>. HIDE DEF x, y, z
  <2>. QED BY RedoThree DEF v, w
<1>6. v = Patch(view, c, c.old_value)
  BY PatchBack
<1>7. w = Patch(v, b, b.old_value)
  <2>. HIDE DEF v
  <2>. QED BY PatchBack DEF w
<1>8. Patch(w, x, x.new_value) = Patch(w, a, a.old_value)
  <2>. HIDE DEF w
  <2>. QED BY PatchBack
<1>. QED BY <1>4, <1>5, <1>6, <1>7, <1>8 DEF Undo

\* Three comparisons that lead from one view to another, whichever of them is in
\* the log.
Leads(view, event, next) ==
  /\ Patch(view, event, event.new_value) = next
  /\ Patch(next, event, event.old_value) = view
  /\ ~Differs(event) => next = view

\* A log that leads from one view to another and back.
Joins(view, log, next) == Redo(view, log) = next /\ Undo(next, log) = view

LEMMA ShortDifference ==
  ASSUME NEW v, NEW w, NEW x, NEW y, NEW a, NEW b, NEW c,
         Leads(v, a, w), Leads(w, b, x), Leads(x, c, y)
  PROVE  Joins(v, Kept(a) \o Kept(b) \o Kept(c), y)
<1>. DEFINE log == Kept(a) \o Kept(b) \o Kept(c)
<1>1. /\ Patch(v, a, a.new_value) = w /\ Patch(w, a, a.old_value) = v
      /\ Patch(w, b, b.new_value) = x /\ Patch(x, b, b.old_value) = w
      /\ Patch(x, c, c.new_value) = y /\ Patch(y, c, c.old_value) = x
      /\ ~Differs(a) => w = v
      /\ ~Differs(b) => x = w
      /\ ~Differs(c) => y = x
  BY DEF Leads
<1>a. CASE ~Differs(a) /\ ~Differs(b) /\ ~Differs(c)
  <2>1. log = << >>
    BY <1>a, Joined DEF Kept
  <2>. QED BY <1>1, <1>a, <2>1, RedoNone, UndoNone DEF Joins
<1>b. CASE Differs(a) /\ ~Differs(b) /\ ~Differs(c)
  <2>1. log = <<a>>
    BY <1>b, Joined DEF Kept
  <2>. QED BY <1>1, <1>b, <2>1, RedoOne, UndoOne DEF Joins
<1>c. CASE ~Differs(a) /\ Differs(b) /\ ~Differs(c)
  <2>1. log = <<b>>
    BY <1>c, Joined DEF Kept
  <2>. QED BY <1>1, <1>c, <2>1, RedoOne, UndoOne DEF Joins
<1>d. CASE ~Differs(a) /\ ~Differs(b) /\ Differs(c)
  <2>1. log = <<c>>
    BY <1>d, Joined DEF Kept
  <2>. QED BY <1>1, <1>d, <2>1, RedoOne, UndoOne DEF Joins
<1>e. CASE Differs(a) /\ Differs(b) /\ ~Differs(c)
  <2>1. log = <<a, b>>
    BY <1>e, Joined DEF Kept
  <2>. QED BY <1>1, <1>e, <2>1, RedoTwo, UndoTwo DEF Joins
<1>f. CASE Differs(a) /\ ~Differs(b) /\ Differs(c)
  <2>1. log = <<a, c>>
    BY <1>f, Joined DEF Kept
  <2>. QED BY <1>1, <1>f, <2>1, RedoTwo, UndoTwo DEF Joins
<1>g. CASE ~Differs(a) /\ Differs(b) /\ Differs(c)
  <2>1. log = <<b, c>>
    BY <1>g, Joined DEF Kept
  <2>. QED BY <1>1, <1>g, <2>1, RedoTwo, UndoTwo DEF Joins
<1>h. CASE Differs(a) /\ Differs(b) /\ Differs(c)
  <2>1. log = <<a, b, c>>
    BY <1>h, Joined DEF Kept
  <2>. QED BY <1>1, <1>h, <2>1, RedoThree, UndoThree DEF Joins
<1>. QED BY <1>a, <1>b, <1>c, <1>d, <1>e, <1>f, <1>g, <1>h

\* What an instruction can change: the pc and the flags, with one register or one
\* byte; the pc and a port register; or, CALL, the pc and two bytes.
OneRegister ==
  /\ \E d \in Register : \A r \in Register \ {d} : registers'[r] = registers[r]
  /\ UNCHANGED <<sram, ddrb, portb, external_input>>
OneByte ==
  /\ \E x \in SramAddress : \A y \in SramAddress \ {x} : sram'[y] = sram[y]
  /\ UNCHANGED <<registers, ddrb, portb, external_input>>
OnePort ==
  /\ ddrb' = ddrb \/ portb' = portb
  /\ UNCHANGED <<registers, sreg, sram, external_input>>
TwoBytes ==
  /\ \E x \in SramAddress :
       /\ x + 1 \in SramAddress
       /\ \A y \in SramAddress \ {x, x + 1} : sram'[y] = sram[y]
  /\ UNCHANGED <<registers, sreg, ddrb, portb, external_input>>
ChangesLittle == OneRegister \/ OneByte \/ OnePort \/ TwoBytes

LEMMA PerformChangesLittle ==
  ASSUME TypeOK, NEW i \in Instruction, Accepts(i), Perform(i), UNCHANGED external_input
  PROVE  ChangesLittle
<1>1. /\ i.destination_register \in Register
      /\ registers \in [Register -> Byte] /\ sram \in [SramAddress -> Byte]
      /\ sp \in Int /\ 0 <= sp
      /\ SramSize \in Nat /\ SramSize >= 2
  BY OperandTypes, WordBounds, SramSizeAssumption DEF TypeOK
<1>2. 0 \in Register /\ 0 \in SramAddress
  BY <1>1 DEF Register, RegisterCount, SramAddress
<1>a. CASE \/ Ldi(i) \/ Mov(i) \/ Add(i) \/ Sub(i) \/ Inc(i) \/ Dec(i) \/ Logical(i)
           \/ Ld(i) \/ In(i) \/ Pop(i)
  <2>1. PICK v : SetRegister(i.destination_register, v)
    BY <1>a, Zenon DEF Ldi, Mov, Add, Sub, Inc, Dec, Logical, Ld, In, Pop
  <2>2. \A r \in Register \ {i.destination_register} : registers'[r] = registers[r]
    BY <1>1, <2>1 DEF SetRegister
  <2>3. UNCHANGED <<sram, ddrb, portb>>
    BY <1>a, Zenon DEF Ldi, Mov, Add, Sub, Inc, Dec, Logical, Ld, In, Pop
  <2>. QED BY <1>1, <2>2, <2>3 DEF OneRegister, ChangesLittle
<1>b. CASE Compare(i) \/ Rjmp(i) \/ Branch(i) \/ Ret(i)
  <2>1. UNCHANGED <<registers, sram, ddrb, portb>>
    BY <1>b, Zenon DEF Compare, Rjmp, Branch, Ret
  <2>. QED BY <1>2, <2>1 DEF OneRegister, ChangesLittle
<1>c. CASE St(i)
  <2>1. XPointer \in SramAddress
    <3>1. /\ registers[27] \in Byte /\ registers[26] \in Byte
      BY <1>1 DEF Register, RegisterCount
    <3>2. XPointer \in Word
      BY <3>1, WordOfType DEF XPointer
    <3>3. XPointer < SramSize
      BY <1>c DEF St, Accepts, OperandsAccepted
    <3>. QED BY <1>1, <3>2, <3>3, WordBounds DEF SramAddress
  <2>2. /\ \A y \in SramAddress \ {XPointer} : sram'[y] = sram[y]
        /\ UNCHANGED <<registers, ddrb, portb>>
    BY <1>1, <1>c DEF St
  <2>. QED BY <2>1, <2>2 DEF OneByte, ChangesLittle
<1>d. CASE Push(i)
  <2>1. sp - 1 \in SramAddress
    BY <1>1, <1>d DEF Push, Accepts, StackAccepted, SramAddress
  <2>2. /\ \A y \in SramAddress \ {sp - 1} : sram'[y] = sram[y]
        /\ UNCHANGED <<registers, ddrb, portb>>
    BY <1>1, <1>d DEF Push
  <2>. QED BY <2>1, <2>2 DEF OneByte, ChangesLittle
<1>e. CASE Out(i) \/ PortBit(i)
  <2>1. PICK bits : WriteIo(i.immediate, bits)
    BY <1>e, Zenon DEF Out, PortBit
  <2>2. ddrb' = ddrb \/ portb' = portb
    BY <2>1 DEF WriteIo, DDRB, PORTB
  <2>3. UNCHANGED <<registers, sreg, sram>>
    BY <1>e, Zenon DEF Out, PortBit
  <2>. QED BY <2>2, <2>3 DEF OnePort, ChangesLittle
<1>f. CASE Call(i)
  <2>. DEFINE x == sp - 2
  <2>1. x \in SramAddress /\ x + 1 \in SramAddress /\ x + 1 = sp - 1
    BY <1>1, <1>f DEF Call, Accepts, StackAccepted, SramAddress
  <2>2. ASSUME NEW y \in SramAddress \ {x, x + 1}
        PROVE  sram'[y] = sram[y]
    BY <1>f, <2>1 DEF Call, StoreReturnAddress, StoreTwo
  <2>3. UNCHANGED <<registers, sreg, ddrb, portb>>
    BY <1>f DEF Call
  <2>. HIDE DEF x
  <2>. QED BY <2>1, <2>2, <2>3 DEF TwoBytes, ChangesLittle
<1>. QED BY <1>a, <1>b, <1>c, <1>d, <1>e, <1>f DEF Perform

LEMMA StepChangesLittle ==
  ASSUME TypeOK, Step
  PROVE  ChangesLittle /\ TypeOK'
<1>0. TypeOK'
  BY StepTypeOK
<1>1. 0 \in Register
  BY DEF Register, RegisterCount
<1>2. CASE UNCHANGED machine
  BY <1>0, <1>1, <1>2 DEF machine, core, OneRegister, ChangesLittle
<1>3. CASE Retire
  <2>1. PICK i \in {Decode(flash[pc], garbage) : garbage \in Garbage} : Execute(i)
    BY <1>3 DEF Retire
  <2>2. i \in Instruction /\ UNCHANGED external_input
    BY <1>3, FetchedType DEF Retire
  <2>3. CASE Accepts(i) /\ Perform(i)
    BY <1>0, <2>2, <2>3, PerformChangesLittle
  <2>4. CASE ~(Accepts(i) /\ Perform(i))
    <3>1. ret' = FALSE
      BY <2>1, <2>4 DEF Execute
    <3>2. UNCHANGED core
      BY <2>1, <2>2, <3>1, FailedExecuteChangesNothing
    <3>. QED BY <1>0, <1>1, <2>2, <3>2 DEF core, OneRegister, ChangesLittle
  <2>. QED BY <2>3, <2>4
<1>. QED BY <1>2, <1>3 DEF Step, FetchFails

\* A step that fails changes nothing the log speaks of.
LEMMA FailedStepKeepsView ==
  ASSUME TypeOK, Step, ret' = FALSE
  PROVE  View' = View
<1>1. UNCHANGED <<core, external_input>>
  <2>1. CASE FetchFails
    BY <2>1 DEF FetchFails, machine
  <2>2. CASE Retire
    <3>1. PICK i \in {Decode(flash[pc], garbage) : garbage \in Garbage} : Execute(i)
      BY <2>2 DEF Retire
    <3>2. i \in Instruction /\ UNCHANGED external_input
      BY <2>2, FetchedType DEF Retire
    <3>. QED BY <3>1, <3>2, FailedExecuteChangesNothing
  <2>. QED BY <2>1, <2>2 DEF Step
<1>. QED BY <1>1 DEF View, core, Pins

\* Which comparisons of a step differ.
LEMMA WhereItDiffers ==
  LET all == Compared(Snapshot, Snapshot')
  IN  \A n \in 1..Len(all) : Differs(all[n]) =>
        \/ n = 1 /\ pc' # pc
        \/ n = 2 /\ sreg' # sreg
        \/ \E r \in Register : n = r + 3 /\ registers'[r] # registers[r]
        \/ \E x \in SramAddress : n = x + 35 /\ sram'[x] # sram[x]
        \/ n = SramSize + 35 /\ ddrb' # ddrb
        \/ n = SramSize + 36 /\ portb' # portb
        \/ n = SramSize + 37 /\ Pins' # Pins
<1>. DEFINE before == Snapshot
            after == Snapshot'
            all == Compared(before, after)
<1>1. /\ all \in Seq(AllCompared(before, after))
      /\ Len(all) = SramSize + 37
      /\ all[1] = PcEvent(before, after)
      /\ all[2] = SregEvent(before, after)
      /\ \A r \in Register : all[r + 3] = RegisterEvent(before, after, r)
      /\ \A x \in SramAddress : all[x + 35] = SramEvent(before, after, x)
      /\ all[SramSize + 35] = DdrbEvent(before, after)
      /\ all[SramSize + 36] = PortbEvent(before, after)
      /\ all[SramSize + 37] = PinEvent(before, after)
  BY ComparedParts
<1>2. SramSize \in Nat
  BY SramSizeAssumption
<1>3. /\ Differs(PcEvent(before, after)) => pc' # pc
      /\ Differs(SregEvent(before, after)) => sreg' # sreg
      /\ \A r \in Register :
           Differs(RegisterEvent(before, after, r)) => registers'[r] # registers[r]
      /\ \A x \in SramAddress : Differs(SramEvent(before, after, x)) => sram'[x] # sram[x]
      /\ Differs(DdrbEvent(before, after)) => ddrb' # ddrb
      /\ Differs(PortbEvent(before, after)) => portb' # portb
      /\ Differs(PinEvent(before, after)) => Pins' # Pins
  BY DEF Differs, Event, PcEvent, SregEvent, RegisterEvent, SramEvent, DdrbEvent, PortbEvent,
     PinEvent, Snapshot
<1>. HIDE DEF all, before, after
<1>4. ASSUME NEW n \in 1..Len(all), Differs(all[n])
      PROVE  \/ n = 1 /\ pc' # pc
             \/ n = 2 /\ sreg' # sreg
             \/ \E r \in Register : n = r + 3 /\ registers'[r] # registers[r]
             \/ \E x \in SramAddress : n = x + 35 /\ sram'[x] # sram[x]
             \/ n = SramSize + 35 /\ ddrb' # ddrb
             \/ n = SramSize + 36 /\ portb' # portb
             \/ n = SramSize + 37 /\ Pins' # Pins
  <2>1. CASE n \in 3..34
    <3>. DEFINE r == n - 3
    <3>1. r \in Register /\ n = r + 3
      BY <2>1 DEF Register, RegisterCount
    <3>. HIDE DEF r
    <3>. QED BY <1>1, <1>3, <1>4, <3>1
  <2>2. CASE n \in 35..(SramSize + 34)
    <3>. DEFINE x == n - 35
    <3>1. x \in SramAddress /\ n = x + 35
      BY <1>2, <2>2 DEF SramAddress
    <3>. HIDE DEF x
    <3>. QED BY <1>1, <1>3, <1>4, <3>1
  <2>3. CASE n \in {1, 2, SramSize + 35, SramSize + 36, SramSize + 37}
    BY <1>1, <1>3, <1>4, <2>3
  <2>4. n \in 1..(SramSize + 37)
    BY <1>1
  <2>5. \/ n \in 3..34 \/ n \in 35..(SramSize + 34)
        \/ n \in {1, 2, SramSize + 35, SramSize + 36, SramSize + 37}
    BY <1>2, <2>4
  <2>. QED BY <2>1, <2>2, <2>3, <2>5
<1>. QED BY <1>4 DEF all, before, after

\* A view, and what each kind of event does to it.
Viewed(p, f, r, s, d, b, q) ==
  [pc |-> p, sreg |-> f, register |-> r, sram |-> s, ddrb |-> d, portb |-> b, pin |-> q]

\* The comparison of a place leads from the view with its old value to the one
\* with its new value.
LEMMA PcLeads ==
  ASSUME NEW p, NEW f, NEW r, NEW s, NEW d, NEW b, NEW q, NEW v
  PROVE  Leads(Viewed(p, f, r, s, d, b, q), Event("pc", 0, p, v),
               Viewed(v, f, r, s, d, b, q))
BY DEF Leads, Patch, Event, Viewed, Differs

LEMMA SregLeads ==
  ASSUME NEW p, NEW f, NEW r, NEW s, NEW d, NEW b, NEW q, NEW v
  PROVE  Leads(Viewed(p, f, r, s, d, b, q), Event("sreg", 0, f, v),
               Viewed(p, v, r, s, d, b, q))
BY DEF Leads, Patch, Event, Viewed, Differs

LEMMA DdrbLeads ==
  ASSUME NEW p, NEW f, NEW r, NEW s, NEW d, NEW b, NEW q, NEW v
  PROVE  Leads(Viewed(p, f, r, s, d, b, q), Event("io", DDRB, d, v),
               Viewed(p, f, r, s, v, b, q))
<1>1. DDRB # PORTB
  BY DEF DDRB, PORTB
<1>. QED BY <1>1 DEF Leads, Patch, Event, Viewed, Differs

LEMMA PortbLeads ==
  ASSUME NEW p, NEW f, NEW r, NEW s, NEW d, NEW b, NEW q, NEW v
  PROVE  Leads(Viewed(p, f, r, s, d, b, q), Event("io", PORTB, b, v),
               Viewed(p, f, r, s, d, v, q))
<1>1. DDRB # PORTB
  BY DEF DDRB, PORTB
<1>. QED BY <1>1 DEF Leads, Patch, Event, Viewed, Differs

LEMMA PinLeads ==
  ASSUME NEW p, NEW f, NEW r, NEW s, NEW d, NEW b, NEW q, NEW v
  PROVE  Leads(Viewed(p, f, r, s, d, b, q), Event("pin", PINB, q, v),
               Viewed(p, f, r, s, d, b, v))
BY DEF Leads, Patch, Event, Viewed, Differs

\* A cell written and written back.
Cell(h, a) == a \in DOMAIN h /\ h = [k \in DOMAIN h |-> h[k]]
LEMMA CellBack ==
  ASSUME NEW h, NEW a, NEW v, Cell(h, a)
  PROVE  [[h EXCEPT ![a] = v] EXCEPT ![a] = h[a]] = h /\ (v = h[a] => [h EXCEPT ![a] = v] = h)
BY DEF Cell

LEMMA EventValues ==
  ASSUME NEW t, NEW a, NEW old, NEW new
  PROVE  /\ Event(t, a, old, new).old_value = old
         /\ Event(t, a, old, new).new_value = new
         /\ ~Differs(Event(t, a, old, new)) => old = new
BY DEF Event, Differs

LEMMA RegisterLeads ==
  ASSUME NEW p, NEW f, NEW r, NEW s, NEW d, NEW b, NEW q, NEW a, NEW v, Cell(r, a)
  PROVE  Leads(Viewed(p, f, r, s, d, b, q), Event("register", a, r[a], v),
               Viewed(p, f, [r EXCEPT ![a] = v], s, d, b, q))
<1>. DEFINE h == [r EXCEPT ![a] = v]
            event == Event("register", a, r[a], v)
<1>1. [h EXCEPT ![a] = r[a]] = r /\ (v = r[a] => h = r)
  BY CellBack
<1>2. Patch(Viewed(p, f, r, s, d, b, q), event, v) = Viewed(p, f, h, s, d, b, q)
  <2>1. event.type = "register" /\ event.address = a
    BY DEF Event
  <2>. HIDE DEF event
  <2>. QED BY <2>1 DEF Patch, Viewed
<1>3. Patch(Viewed(p, f, h, s, d, b, q), event, r[a])
        = Viewed(p, f, [h EXCEPT ![a] = r[a]], s, d, b, q)
  <2>1. event.type = "register" /\ event.address = a
    BY DEF Event
  <2>. HIDE DEF event, h
  <2>. QED BY <2>1 DEF Patch, Viewed
<1>4. event.old_value = r[a] /\ event.new_value = v /\ (~Differs(event) => r[a] = v)
  BY EventValues
<1>. HIDE DEF h, event
<1>5. Leads(Viewed(p, f, r, s, d, b, q), event, Viewed(p, f, h, s, d, b, q))
  BY <1>1, <1>2, <1>3, <1>4 DEF Leads
<1>. QED BY <1>5 DEF h, event

LEMMA SramLeads ==
  ASSUME NEW p, NEW f, NEW r, NEW s, NEW d, NEW b, NEW q, NEW a, NEW v, Cell(s, a)
  PROVE  Leads(Viewed(p, f, r, s, d, b, q), Event("sram", a, s[a], v),
               Viewed(p, f, r, [s EXCEPT ![a] = v], d, b, q))
<1>. DEFINE h == [s EXCEPT ![a] = v]
            event == Event("sram", a, s[a], v)
<1>1. [h EXCEPT ![a] = s[a]] = s /\ (v = s[a] => h = s)
  BY CellBack
<1>2. Patch(Viewed(p, f, r, s, d, b, q), event, v) = Viewed(p, f, r, h, d, b, q)
  <2>1. event.type = "sram" /\ event.address = a
    BY DEF Event
  <2>. HIDE DEF event
  <2>. QED BY <2>1 DEF Patch, Viewed
<1>3. Patch(Viewed(p, f, r, h, d, b, q), event, s[a])
        = Viewed(p, f, r, [h EXCEPT ![a] = s[a]], d, b, q)
  <2>1. event.type = "sram" /\ event.address = a
    BY DEF Event
  <2>. HIDE DEF event, h
  <2>. QED BY <2>1 DEF Patch, Viewed
<1>4. event.old_value = s[a] /\ event.new_value = v /\ (~Differs(event) => s[a] = v)
  BY EventValues
<1>. HIDE DEF h, event
<1>5. Leads(Viewed(p, f, r, s, d, b, q), event, Viewed(p, f, r, h, d, b, q))
  BY <1>1, <1>2, <1>3, <1>4 DEF Leads
<1>. QED BY <1>5 DEF h, event

\* A log of three comparisons that lead from one view to another.
LEMMA ThreeDiffer ==
  ASSUME EventLogCapacity >= 3, NEW E, NEW all \in Seq(E),
         NEW a, NEW b, NEW c, OnlyThere(all, a, b, c),
         NEW v, NEW w, NEW x, NEW y,
         Leads(v, all[a], w), Leads(w, all[b], x), Leads(x, all[c], y)
  PROVE  Joins(v, Logged(all), y)
<1>. DEFINE log == Kept(all[a]) \o Kept(all[b]) \o Kept(all[c])
<1>1. Logged(all) = log
  <2>1. EventLogCapacity >= 3 /\ all \in Seq(E) /\ OnlyThere(all, a, b, c)
    OBVIOUS
  <2>. QED BY <2>1, ShortLog, Zenon
<1>2. Joins(v, log, y)
  BY ShortDifference
<1>. HIDE DEF log
<1>. QED BY <1>1, <1>2

-----------------------------------------------------------------------------
(***************************************************************************)
(* The rows of a log on the panel.                                         *)
(***************************************************************************)

\* The rows after each of the events, and after each of the pins of one.
RowsAfter(events, rows) ==
  /\ rows[0] = << >>
  /\ \A n \in 1..Len(events) : rows[n] = rows[n - 1] \o RowsOf(events[n])
  /\ Rows(events) = rows[Len(events)]
PinRowsAfter(event, rows) ==
  /\ rows[0] = << >>
  /\ \A n \in 1..8 :
       rows[n] = IF n - 1 \in PinsMoved(event)
                 THEN Append(rows[n - 1], [event |-> event, pin |-> n - 1])
                 ELSE rows[n - 1]
  /\ PinRows(event) = rows[8]

LEMMA RowsExist ==
  ASSUME NEW events, Len(events) \in Nat
  PROVE  \E rows : RowsAfter(events, rows)
<1>. DEFINE N == Len(events)
            body(f, n) == IF n = 0 THEN << >> ELSE f[n - 1] \o RowsOf(events[n])
            Upto(f, k) == f = [n \in 0..k |-> body(f, n)]
            T == {k \in 0..N : \E f : Upto(f, k)}
<1>1. 0 \in T
  <2>. DEFINE f == [n \in 0..0 |-> << >>]
  <2>1. Upto(f, 0)
    OBVIOUS
  <2>. HIDE DEF f, Upto
  <2>. QED BY <2>1
<1>2. ASSUME NEW k \in 1..N, k - 1 \in T
      PROVE  k \in T
  <2>1. PICK f : Upto(f, k - 1)
    BY <1>2
  <2>. DEFINE last == f[k - 1] \o RowsOf(events[k])
              g == [n \in 0..k |-> IF n = k THEN last ELSE f[n]]
  <2>2. k \in Nat /\ k >= 1
    OBVIOUS
  <2>3. ASSUME NEW n \in 0..k
        PROVE  g[n] = body(g, n)
    <3>. HIDE DEF last
    <3>1. CASE n = 0
      <4>1. g[n] = f[0] /\ f[0] = << >>
        BY <2>1, <2>2, <3>1
      <4>. QED BY <3>1, <4>1
    <3>2. CASE n = k
      <4>1. g[n] = last /\ g[n - 1] = f[k - 1] /\ n # 0
        BY <2>2, <3>2
      <4>2. body(g, n) = last
        BY <3>2, <4>1 DEF last
      <4>. QED BY <4>1, <4>2
    <3>3. CASE n # 0 /\ n # k
      <4>1. /\ n \in 0..(k - 1) /\ n - 1 \in 0..k /\ n - 1 # k
        BY <2>2, <3>3
      <4>2. g[n] = f[n] /\ g[n - 1] = f[n - 1]
        BY <3>3, <4>1
      <4>3. f[n] = body(f, n)
        <5>. HIDE DEF body
        <5>. QED BY <2>1, <4>1
      <4>. QED BY <3>3, <4>2, <4>3
    <3>. QED BY <3>1, <3>2, <3>3
  <2>4. Upto(g, k)
    <3>. HIDE DEF body, last
    <3>. QED BY <2>3
  <2>. HIDE DEF g, Upto
  <2>. QED BY <2>4
<1>3. \E f : Upto(f, N)
  <2>. HIDE DEF T
  <2>1. \A k \in 1..N : k - 1 \in T => k \in T
    BY <1>2
  <2>2. \A k \in 0..N : k \in T
    BY <1>1, <2>1, Induction
  <2>3. N \in T
    BY <2>2
  <2>. HIDE DEF Upto
  <2>. QED BY <2>3 DEF T
<1>4. PICK rows : rows = CHOOSE f : Upto(f, N)
  OBVIOUS
<1>5. Upto(rows, N)
  <2>. HIDE DEF Upto
  <2>. QED BY <1>3, <1>4
<1>6. Rows(events) = rows[N]
  BY <1>4 DEF Rows
<1>7. \A n \in 0..N : rows[n] = body(rows, n)
  <2>. HIDE DEF body
  <2>. QED BY <1>5
<1>8. rows[0] = << >>
  BY <1>7
<1>9. ASSUME NEW n \in 1..N
      PROVE  rows[n] = rows[n - 1] \o RowsOf(events[n])
  <2>1. n \in 0..N /\ n # 0
    OBVIOUS
  <2>. QED BY <1>7, <2>1
<1>. QED BY <1>6, <1>8, <1>9 DEF RowsAfter

LEMMA PinRowsExist ==
  ASSUME NEW event
  PROVE  \E rows : PinRowsAfter(event, rows)
<1>. DEFINE added(s, n) == IF n - 1 \in PinsMoved(event)
                           THEN Append(s, [event |-> event, pin |-> n - 1])
                           ELSE s
            body(f, n) == IF n = 0 THEN << >> ELSE added(f[n - 1], n)
            Upto(f, k) == f = [n \in 0..k |-> body(f, n)]
            T == {k \in 0..8 : \E f : Upto(f, k)}
<1>1. 0 \in T
  <2>. DEFINE f == [n \in 0..0 |-> << >>]
  <2>1. Upto(f, 0)
    OBVIOUS
  <2>. HIDE DEF f, Upto
  <2>. QED BY <2>1
<1>2. ASSUME NEW k \in 1..8, k - 1 \in T
      PROVE  k \in T
  <2>1. PICK f : Upto(f, k - 1)
    BY <1>2
  <2>. HIDE DEF added
  <2>. DEFINE last == added(f[k - 1], k)
              g == [n \in 0..k |-> IF n = k THEN last ELSE f[n]]
  <2>2. k \in Nat /\ k >= 1
    OBVIOUS
  <2>3. ASSUME NEW n \in 0..k
        PROVE  g[n] = body(g, n)
    <3>. HIDE DEF last
    <3>1. CASE n = 0
      <4>1. g[n] = f[0] /\ f[0] = << >>
        BY <2>1, <2>2, <3>1
      <4>. QED BY <3>1, <4>1
    <3>2. CASE n = k
      <4>1. g[n] = last /\ g[n - 1] = f[k - 1] /\ n # 0
        BY <2>2, <3>2
      <4>2. body(g, n) = last
        BY <3>2, <4>1 DEF last
      <4>. QED BY <4>1, <4>2
    <3>3. CASE n # 0 /\ n # k
      <4>1. /\ n \in 0..(k - 1) /\ n - 1 \in 0..k /\ n - 1 # k
        BY <2>2, <3>3
      <4>2. g[n] = f[n] /\ g[n - 1] = f[n - 1]
        BY <3>3, <4>1
      <4>3. f[n] = body(f, n)
        <5>. HIDE DEF body
        <5>. QED BY <2>1, <4>1
      <4>. QED BY <3>3, <4>2, <4>3
    <3>. QED BY <3>1, <3>2, <3>3
  <2>4. Upto(g, k)
    <3>. HIDE DEF body, last
    <3>. QED BY <2>3
  <2>. HIDE DEF g, Upto
  <2>. QED BY <2>4
<1>3. \E f : Upto(f, 8)
  <2>. HIDE DEF T
  <2>1. \A k \in 1..8 : k - 1 \in T => k \in T
    BY <1>2
  <2>2. \A k \in 0..8 : k \in T
    BY <1>1, <2>1, Induction
  <2>3. 8 \in T
    BY <2>2
  <2>. HIDE DEF Upto
  <2>. QED BY <2>3 DEF T
<1>4. PICK rows : rows = CHOOSE f : Upto(f, 8)
  OBVIOUS
<1>5. Upto(rows, 8)
  <2>. HIDE DEF Upto
  <2>. QED BY <1>3, <1>4
<1>6. PinRows(event) = rows[8]
  BY <1>4 DEF PinRows
<1>7. \A n \in 0..8 : rows[n] = body(rows, n)
  <2>. HIDE DEF body
  <2>. QED BY <1>5
<1>8. rows[0] = << >>
  BY <1>7
<1>9. ASSUME NEW n \in 1..8
      PROVE  rows[n] = added(rows[n - 1], n)
  <2>1. n \in 0..8 /\ n # 0
    OBVIOUS
  <2>. HIDE DEF added
  <2>. QED BY <1>7, <2>1
<1>. QED BY <1>6, <1>8, <1>9 DEF PinRowsAfter

\* The rows of an event and how many they can be.
RowSet(E) == {[event |-> event, pin |-> bit] : event \in E, bit \in 0..7}
MostRows(event) == CASE event.type = "pc"  -> 0
                     [] event.type = "pin" -> 8
                     [] OTHER              -> 1

LEMMA RowsOfType ==
  ASSUME NEW E, NEW event \in E
  PROVE  /\ RowsOf(event) \in Seq(RowSet(E))
         /\ Len(RowsOf(event)) <= MostRows(event)
<1>. DEFINE R == RowSet(E)
<1>0. \A bit \in 0..7 : [event |-> event, pin |-> bit] \in R
  BY DEF RowSet
<1>1. CASE event.type = "pc"
  BY <1>1 DEF RowsOf, MostRows
<1>2. CASE event.type = "pin"
  <2>1. PICK rows : PinRowsAfter(event, rows)
    BY PinRowsExist
  <2>. DEFINE T == {n \in 0..8 : rows[n] \in Seq(R) /\ Len(rows[n]) <= n}
  <2>2. 0 \in T
    <3>1. << >> \in Seq(R) /\ Len(<< >>) = 0 /\ 0 \in 0..8
      OBVIOUS
    <3>2. rows[0] = << >>
      BY <2>1 DEF PinRowsAfter
    <3>. HIDE DEF R
    <3>3. rows[0] \in Seq(R) /\ Len(rows[0]) <= 0
      BY <3>1, <3>2
    <3>. QED BY <3>1, <3>3
  <2>3. ASSUME NEW n \in 1..8, n - 1 \in T
        PROVE  n \in T
    <3>. DEFINE old == rows[n - 1]
                row == [event |-> event, pin |-> n - 1]
    <3>1. n \in 0..8 /\ n - 1 \in 0..7
      OBVIOUS
    <3>2. old \in Seq(R) /\ Len(old) <= n - 1 /\ row \in R
      BY <1>0, <2>3, <3>1
    <3>3. rows[n] = Append(old, row) \/ rows[n] = old
      BY <2>1 DEF PinRowsAfter
    <3>. HIDE DEF R, old, row
    <3>4. rows[n] \in Seq(R) /\ Len(rows[n]) <= n
      BY <3>2, <3>3, SMTT(30)
    <3>. QED BY <3>1, <3>4
  <2>. HIDE DEF T
  <2>4. \A n \in 1..8 : n - 1 \in T => n \in T
    BY <2>3
  <2>5. \A n \in 0..8 : n \in T
    BY <2>2, <2>4, Induction
  <2>6. 8 \in T /\ PinRows(event) = rows[8]
    BY <2>1, <2>5 DEF PinRowsAfter
  <2>7. RowsOf(event) = PinRows(event) /\ MostRows(event) = 8
    BY <1>2 DEF RowsOf, MostRows
  <2>. QED BY <2>6, <2>7 DEF T
<1>3. CASE event.type # "pc" /\ event.type # "pin"
  <2>. DEFINE row == [event |-> event, pin |-> 0]
  <2>1. RowsOf(event) = <<row>> /\ MostRows(event) = 1
    BY <1>3 DEF RowsOf, MostRows
  <2>2. row \in R
    BY <1>0
  <2>. HIDE DEF row, R
  <2>3. <<row>> \in Seq(R) /\ Len(<<row>>) = 1
    BY <2>2
  <2>. QED BY <2>1, <2>3 DEF R
<1>. QED BY <1>1, <1>2, <1>3

\* The rows of every event are among the rows.
Among(few, many) == \A k \in DOMAIN few : \E row \in DOMAIN many : many[row] = few[k]

LEMMA AmongJoined ==
  ASSUME NEW R, NEW s \in Seq(R), NEW t \in Seq(R)
  PROVE  /\ Among(t, s \o t)
         /\ \A few : Among(few, s) => Among(few, s \o t)
<1>. DEFINE all == s \o t
<1>1. all \in Seq(R) /\ InARow(s, t, all)
  BY TwoParts
<1>. HIDE DEF all
<1>2. /\ DOMAIN s = 1..Len(s) /\ DOMAIN t = 1..Len(t) /\ DOMAIN all = 1..Len(all)
      /\ Len(s) \in Nat /\ Len(t) \in Nat
  BY <1>1
<1>3. /\ Len(all) = Len(s) + Len(t)
      /\ \A k \in 1..Len(s) : all[k] = s[k]
      /\ \A k \in 1..Len(t) : all[k + Len(s)] = t[k]
  BY <1>1 DEF InARow
<1>4. ASSUME NEW k \in DOMAIN t
      PROVE  \E row \in DOMAIN all : all[row] = t[k]
  <2>1. k + Len(s) \in DOMAIN all /\ all[k + Len(s)] = t[k]
    BY <1>2, <1>3
  <2>. QED BY <2>1
<1>5. ASSUME NEW few, Among(few, s), NEW k \in DOMAIN few
      PROVE  \E row \in DOMAIN all : all[row] = few[k]
  <2>1. PICK row \in DOMAIN s : s[row] = few[k]
    BY <1>5 DEF Among
  <2>2. row \in DOMAIN all /\ all[row] = few[k]
    BY <1>2, <1>3, <2>1
  <2>. QED BY <2>2
<1>. QED BY <1>4, <1>5 DEF Among, all

LEMMA RowsAmong ==
  ASSUME NEW E, NEW events \in Seq(E)
  PROVE  /\ Rows(events) \in Seq(RowSet(E))
         /\ \A n \in 1..Len(events) : Among(RowsOf(events[n]), Rows(events))
<1>. DEFINE N == Len(events)
            R == RowSet(E)
<1>1. N \in Nat /\ \A n \in 1..N : events[n] \in E
  OBVIOUS
<1>2. PICK rows : RowsAfter(events, rows)
  BY <1>1, RowsExist
<1>3. \A n \in 1..N : RowsOf(events[n]) \in Seq(R)
  BY <1>1, RowsOfType
<1>. DEFINE T == {k \in 0..N : /\ rows[k] \in Seq(R)
                               /\ \A n \in 1..k : Among(RowsOf(events[n]), rows[k])}
<1>4. 0 \in T
  <2>1. << >> \in Seq(R) /\ 0 \in 0..N
    BY <1>1
  <2>2. rows[0] = << >>
    BY <1>2 DEF RowsAfter
  <2>3. \A n \in 1..0 : Among(RowsOf(events[n]), rows[0])
    OBVIOUS
  <2>. HIDE DEF R
  <2>. QED BY <2>1, <2>2, <2>3
<1>5. ASSUME NEW k \in 1..N, k - 1 \in T
      PROVE  k \in T
  <2>. DEFINE s == rows[k - 1]
              t == RowsOf(events[k])
  <2>1. /\ k \in 0..N /\ s \in Seq(R) /\ t \in Seq(R)
        /\ \A n \in 1..(k - 1) : Among(RowsOf(events[n]), s)
    BY <1>1, <1>3, <1>5
  <2>2. rows[k] = s \o t
    BY <1>2 DEF RowsAfter
  <2>. HIDE DEF s, t, R
  <2>3. s \o t \in Seq(R)
    BY <2>1
  <2>4. ASSUME NEW n \in 1..k
        PROVE  Among(RowsOf(events[n]), s \o t)
    <3>1. CASE n = k
      BY <2>1, <3>1, AmongJoined DEF t
    <3>2. CASE n # k
      <4>1. n \in 1..(k - 1)
        BY <3>2
      <4>. QED BY <2>1, <4>1, AmongJoined
    <3>. QED BY <3>1, <3>2
  <2>. QED BY <2>1, <2>2, <2>3, <2>4
<1>. HIDE DEF T
<1>6. \A k \in 1..N : k - 1 \in T => k \in T
  BY <1>5
<1>7. N \in T
  <2>1. \A k \in 0..N : k \in T
    BY <1>1, <1>4, <1>6, Induction
  <2>. QED BY <1>1, <2>1
<1>8. Rows(events) = rows[N]
  BY <1>2 DEF RowsAfter
<1>. QED BY <1>7, <1>8 DEF T

\* At most nine rows are all drawn.
LEMMA AllDrawn ==
  ASSUME NEW E, NEW events \in Seq(E), Len(Rows(events)) <= 9
  PROVE  \A n \in 1..Len(events) : Among(RowsOf(events[n]), RowsDrawn(events))
<1>. DEFINE rows == Rows(events)
            R == RowSet(E)
<1>1. rows \in Seq(R) /\ \A n \in 1..Len(events) : Among(RowsOf(events[n]), rows)
  BY RowsAmong
<1>2. Len(rows) \in Nat /\ Len(rows) <= 9
  BY <1>1
<1>3. RowsDrawn(events) = SubSeq(rows, 1, Len(rows))
  <2>1. ASSUME NEW n \in Nat, n <= 9
        PROVE  (IF n < 9 THEN n ELSE 9) = n
    BY <2>1
  <2>. DEFINE drawn == IF Len(rows) < 9 THEN Len(rows) ELSE 9
  <2>2. drawn = Len(rows)
    BY <1>2, <2>1
  <2>3. RowsDrawn(events) = SubSeq(rows, 1, drawn)
    BY DEF RowsDrawn, MaxRows
  <2>. HIDE DEF drawn
  <2>. QED BY <2>2, <2>3
<1>4. SubSeq(rows, 1, Len(rows)) = rows
  <2>. HIDE DEF rows, R
  <2>. QED BY <1>1
<1>. QED BY <1>1, <1>3, <1>4

\* A short log shows all of its rows.
ShowsAll(events) == \A n \in 1..Len(events) : Among(RowsOf(events[n]), RowsDrawn(events))

LEMMA RowsNone == Len(Rows(<< >>)) = 0
<1>1. Len(<< >>) = 0
  OBVIOUS
<1>2. PICK rows : RowsAfter(<< >>, rows)
  BY <1>1, RowsExist
<1>. QED BY <1>1, <1>2 DEF RowsAfter

\* One more event and its rows.
MoreRows(rows, events, n) ==
  Len(rows[n]) <= Len(rows[n - 1]) + MostRows(events[n])
LEMMA RowsGrow ==
  ASSUME NEW E, NEW events \in Seq(E), NEW rows, RowsAfter(events, rows)
  PROVE  /\ \A n \in 0..Len(events) : Len(rows[n]) \in Nat
         /\ \A n \in 1..Len(events) : MoreRows(rows, events, n)
<1>. DEFINE N == Len(events)
            R == RowSet(E)
            T == {n \in 0..N : rows[n] \in Seq(R)}
<1>1. N \in Nat /\ \A n \in 1..N : events[n] \in E
  OBVIOUS
<1>2. ASSUME NEW n \in 1..N, rows[n - 1] \in Seq(R)
      PROVE  rows[n] \in Seq(R) /\ MoreRows(rows, events, n)
  <2>. DEFINE s == rows[n - 1]
              t == RowsOf(events[n])
              m == MostRows(events[n])
  <2>1. rows[n] = s \o t
    BY DEF RowsAfter
  <2>2. s \in Seq(R) /\ t \in Seq(R) /\ Len(t) <= m
    BY <1>1, <1>2, RowsOfType
  <2>3. m \in Nat
    BY DEF MostRows
  <2>. HIDE DEF s, t, m, R
  <2>4. s \o t \in Seq(R) /\ Len(s \o t) = Len(s) + Len(t)
    BY <2>2
  <2>5. Len(rows[n]) <= Len(s) + m
    <3>1. Len(s) \in Nat /\ Len(t) \in Nat
      BY <2>2
    <3>. QED BY <2>1, <2>2, <2>3, <2>4, <3>1
  <2>. QED BY <2>1, <2>4, <2>5 DEF MoreRows, s, m
<1>3. 0 \in T
  <2>1. << >> \in Seq(R) /\ 0 \in 0..N
    BY <1>1
  <2>. QED BY <2>1 DEF RowsAfter
<1>4. \A n \in 1..N : n - 1 \in T => n \in T
  <2>. SUFFICES ASSUME NEW n \in 1..N, n - 1 \in T
                PROVE  n \in T
    OBVIOUS
  <2>1. rows[n] \in Seq(R)
    BY <1>2
  <2>2. n \in 0..N
    BY <1>1
  <2>. HIDE DEF R
  <2>. QED BY <2>1, <2>2
<1>5. \A n \in 0..N : n \in T
  <2>. HIDE DEF T
  <2>. QED BY <1>1, <1>3, <1>4, Induction
<1>6. \A n \in 0..N : rows[n] \in Seq(R)
  BY <1>5
<1>7. ASSUME NEW n \in 1..N PROVE MoreRows(rows, events, n)
  <2>1. n - 1 \in 0..N
    BY <1>1
  <2>. HIDE DEF R
  <2>. QED BY <1>2, <1>6, <2>1
<1>8. \A n \in 0..N : Len(rows[n]) \in Nat
  <2>. HIDE DEF R
  <2>. QED BY <1>6
<1>. QED BY <1>7, <1>8

LEMMA RowsFew ==
  ASSUME NEW E, NEW events \in Seq(E), Len(events) \in 1..3
  PROVE  /\ Len(events) = 1 => Len(Rows(events)) <= MostRows(events[1])
         /\ Len(events) = 2 =>
              Len(Rows(events)) <= MostRows(events[1]) + MostRows(events[2])
         /\ Len(events) = 3 =>
              Len(Rows(events)) <= MostRows(events[1]) + MostRows(events[2])
                                     + MostRows(events[3])
<1>. DEFINE N == Len(events)
<1>1. PICK rows : RowsAfter(events, rows)
  BY RowsExist
<1>2. /\ \A n \in 0..N : Len(rows[n]) \in Nat
      /\ \A n \in 1..N : MoreRows(rows, events, n)
  BY <1>1, RowsGrow
<1>3. rows[0] = << >> /\ Rows(events) = rows[N]
  BY <1>1 DEF RowsAfter
<1>4. Len(rows[0]) = 0
  BY <1>3
<1>5. /\ MostRows(events[1]) \in Nat /\ MostRows(events[2]) \in Nat
      /\ MostRows(events[3]) \in Nat
  BY DEF MostRows
<1>6. Len(rows[1]) \in Nat /\ Len(rows[1]) <= MostRows(events[1])
  <2>1. MoreRows(rows, events, 1) /\ Len(rows[1]) \in Nat /\ 1 - 1 = 0
    BY <1>2, SMTT(30)
  <2>. QED BY <1>4, <1>5, <2>1 DEF MoreRows
<1>7. N >= 2 => /\ Len(rows[2]) \in Nat
                /\ Len(rows[2]) <= MostRows(events[1]) + MostRows(events[2])
  <2>. SUFFICES ASSUME N >= 2
                PROVE  /\ Len(rows[2]) \in Nat
                       /\ Len(rows[2]) <= MostRows(events[1]) + MostRows(events[2])
    OBVIOUS
  <2>1. MoreRows(rows, events, 2) /\ Len(rows[2]) \in Nat /\ 2 - 1 = 1
    BY <1>2
  <2>. QED BY <1>5, <1>6, <2>1 DEF MoreRows
<1>8. N = 3 => Len(rows[3]) <= MostRows(events[1]) + MostRows(events[2]) + MostRows(events[3])
  <2>. SUFFICES ASSUME N = 3
                PROVE  Len(rows[3]) <= MostRows(events[1]) + MostRows(events[2])
                                         + MostRows(events[3])
    OBVIOUS
  <2>1. MoreRows(rows, events, 3) /\ Len(rows[3]) \in Nat /\ 3 - 1 = 2
    BY <1>2
  <2>. QED BY <1>5, <1>7, <2>1 DEF MoreRows
<1>9. CASE N = 1
  BY <1>3, <1>6, <1>9
<1>10. CASE N = 2
  BY <1>3, <1>7, <1>10
<1>11. CASE N = 3
  BY <1>3, <1>8, <1>11
<1>. QED BY <1>9, <1>10, <1>11

\* However many of three events are in the log, it has no more rows than they.
LEMMA KeptRows ==
  ASSUME NEW E, NEW a \in E, NEW b \in E, NEW c \in E,
         MostRows(a) + MostRows(b) + MostRows(c) <= 9
  PROVE  ShowsAll(Kept(a) \o Kept(b) \o Kept(c))
<1>. DEFINE log == Kept(a) \o Kept(b) \o Kept(c)
<1>0. MostRows(a) \in Nat /\ MostRows(b) \in Nat /\ MostRows(c) \in Nat
  BY DEF MostRows
<1>. DEFINE i == MostRows(a)
            j == MostRows(b)
            k == MostRows(c)
<1>1. ASSUME NEW x \in E, MostRows(x) <= 9
      PROVE  ShowsAll(<<x>>)
  <2>. DEFINE s == <<x>>
  <2>1. s \in Seq(E) /\ Len(s) = 1 /\ s[1] = x
    OBVIOUS
  <2>2. 1 \in 1..3
    OBVIOUS
  <2>. HIDE DEF s
  <2>3. Len(Rows(s)) <= MostRows(x)
    BY <2>1, <2>2, RowsFew
  <2>4. Len(Rows(s)) \in Nat
    BY <2>1, RowsAmong
  <2>5. Len(Rows(s)) <= 9
    <3>1. MostRows(x) \in Nat
      BY DEF MostRows
    <3>. QED BY <1>1, <2>3, <2>4, <3>1
  <2>6. ShowsAll(s)
    BY <2>1, <2>5, AllDrawn DEF ShowsAll
  <2>. QED BY <2>6 DEF s
<1>2. ASSUME NEW x \in E, NEW y \in E, MostRows(x) + MostRows(y) <= 9
      PROVE  ShowsAll(<<x, y>>)
  <2>. DEFINE s == <<x, y>>
  <2>1. s \in Seq(E) /\ Len(s) = 2 /\ s[1] = x /\ s[2] = y
    OBVIOUS
  <2>2. 2 \in 1..3
    OBVIOUS
  <2>. HIDE DEF s
  <2>3. Len(Rows(s)) <= MostRows(x) + MostRows(y)
    BY <2>1, <2>2, RowsFew
  <2>4. Len(Rows(s)) \in Nat
    BY <2>1, RowsAmong
  <2>5. Len(Rows(s)) <= 9
    <3>1. MostRows(x) \in Nat /\ MostRows(y) \in Nat
      BY DEF MostRows
    <3>. QED BY <1>2, <2>3, <2>4, <3>1
  <2>6. ShowsAll(s)
    BY <2>1, <2>5, AllDrawn DEF ShowsAll
  <2>. QED BY <2>6 DEF s
<1>3. ShowsAll(<<a, b, c>>)
  <2>. DEFINE s == <<a, b, c>>
  <2>1. s \in Seq(E) /\ Len(s) = 3 /\ s[1] = a /\ s[2] = b /\ s[3] = c
    OBVIOUS
  <2>2. 3 \in 1..3
    OBVIOUS
  <2>. HIDE DEF s
  <2>3. Len(Rows(s)) <= MostRows(a) + MostRows(b) + MostRows(c)
    BY <2>1, <2>2, RowsFew
  <2>4. Len(Rows(s)) \in Nat
    BY <2>1, RowsAmong
  <2>5. Len(Rows(s)) <= 9
    BY <1>0, <2>3, <2>4
  <2>6. ShowsAll(s)
    BY <2>1, <2>5, AllDrawn DEF ShowsAll
  <2>. QED BY <2>6 DEF s
<1>4. ShowsAll(<< >>)
  BY DEF ShowsAll
<1>5. /\ i <= 9 /\ j <= 9 /\ k <= 9
      /\ i + j <= 9 /\ i + k <= 9 /\ j + k <= 9
  <2>. HIDE DEF i, j, k
  <2>1. i \in Nat /\ j \in Nat /\ k \in Nat /\ i + j + k <= 9
    BY <1>0 DEF i, j, k
  <2>. QED BY <2>1
<1>6. /\ ShowsAll(<<a>>) /\ ShowsAll(<<b>>) /\ ShowsAll(<<c>>)
      /\ ShowsAll(<<a, b>>) /\ ShowsAll(<<a, c>>) /\ ShowsAll(<<b, c>>)
  BY <1>1, <1>2, <1>5
<1>s. CASE ~Differs(a) /\ ~Differs(b) /\ ~Differs(c)
  <2>1. log = << >>
    BY <1>s, Joined DEF Kept
  <2>. QED BY <1>3, <1>4, <1>6, <2>1
<1>t. CASE ~Differs(a) /\ ~Differs(b) /\ Differs(c)
  <2>1. log = <<c>>
    BY <1>t, Joined DEF Kept
  <2>. QED BY <1>3, <1>4, <1>6, <2>1
<1>u. CASE ~Differs(a) /\ Differs(b) /\ ~Differs(c)
  <2>1. log = <<b>>
    BY <1>u, Joined DEF Kept
  <2>. QED BY <1>3, <1>4, <1>6, <2>1
<1>v. CASE ~Differs(a) /\ Differs(b) /\ Differs(c)
  <2>1. log = <<b, c>>
    BY <1>v, Joined DEF Kept
  <2>. QED BY <1>3, <1>4, <1>6, <2>1
<1>w. CASE Differs(a) /\ ~Differs(b) /\ ~Differs(c)
  <2>1. log = <<a>>
    BY <1>w, Joined DEF Kept
  <2>. QED BY <1>3, <1>4, <1>6, <2>1
<1>x. CASE Differs(a) /\ ~Differs(b) /\ Differs(c)
  <2>1. log = <<a, c>>
    BY <1>x, Joined DEF Kept
  <2>. QED BY <1>3, <1>4, <1>6, <2>1
<1>y. CASE Differs(a) /\ Differs(b) /\ ~Differs(c)
  <2>1. log = <<a, b>>
    BY <1>y, Joined DEF Kept
  <2>. QED BY <1>3, <1>4, <1>6, <2>1
<1>z. CASE Differs(a) /\ Differs(b) /\ Differs(c)
  <2>1. log = <<a, b, c>>
    BY <1>z, Joined DEF Kept
  <2>. QED BY <1>3, <1>4, <1>6, <2>1
<1>. QED BY <1>s, <1>t, <1>u, <1>v, <1>w, <1>x, <1>y, <1>z

-----------------------------------------------------------------------------
(***************************************************************************)
(* The log of every step.                                                  *)
(***************************************************************************)

\* All but three comparisons are without a difference, the three lead from one view
\* to another, and their rows fit on the panel.
Difference(v, all, y) ==
  \E a, b, c, w, x :
    /\ OnlyThere(all, a, b, c)
    /\ Leads(v, all[a], w) /\ Leads(w, all[b], x) /\ Leads(x, all[c], y)
    /\ MostRows(all[a]) + MostRows(all[b]) + MostRows(all[c]) <= 9

LEMMA DifferenceOfThree ==
  ASSUME NEW v, NEW all, NEW y, NEW a, NEW b, NEW c, NEW w, NEW x,
         OnlyThere(all, a, b, c),
         Leads(v, all[a], w), Leads(w, all[b], x), Leads(x, all[c], y),
         MostRows(all[a]) + MostRows(all[b]) + MostRows(all[c]) <= 9
  PROVE  Difference(v, all, y)
BY Zenon DEF Difference

LEMMA RowsOfPlaces ==
  ASSUME NEW a, NEW old, NEW new
  PROVE  /\ MostRows(Event("pc", a, old, new)) = 0
         /\ MostRows(Event("sreg", a, old, new)) = 1
         /\ MostRows(Event("register", a, old, new)) = 1
         /\ MostRows(Event("sram", a, old, new)) = 1
         /\ MostRows(Event("io", a, old, new)) = 1
         /\ MostRows(Event("pin", a, old, new)) = 8
BY DEF MostRows, Event

LEMMA DifferenceOfStep ==
  ASSUME TypeOK, TypeOK', ChangesLittle
  PROVE  Difference(View, Compared(Snapshot, Snapshot'), View')
<1>. DEFINE before == Snapshot
            after == Snapshot'
            all == Compared(before, after)
            E == AllCompared(before, after)
<1>1. /\ all \in Seq(E)
      /\ Len(all) = SramSize + 37
      /\ all[1] = Event("pc", 0, pc, pc')
      /\ all[2] = Event("sreg", 0, sreg, sreg')
      /\ \A r \in Register : all[r + 3] = Event("register", r, registers[r], registers'[r])
      /\ \A x \in SramAddress : all[x + 35] = Event("sram", x, sram[x], sram'[x])
      /\ all[SramSize + 35] = Event("io", DDRB, ddrb, ddrb')
      /\ all[SramSize + 36] = Event("io", PORTB, portb, portb')
      /\ all[SramSize + 37] = Event("pin", PINB, Pins, Pins')
  <2>1. /\ before.pc = pc /\ before.sreg = sreg /\ before.registers = registers
        /\ before.sram = sram /\ before.ddrb = ddrb /\ before.portb = portb
        /\ before.pinb = Pins
    BY DEF Snapshot
  <2>2. /\ after.pc = pc' /\ after.sreg = sreg' /\ after.registers = registers'
        /\ after.sram = sram' /\ after.ddrb = ddrb' /\ after.portb = portb'
        /\ after.pinb = Pins'
    BY DEF Snapshot
  <2>. HIDE DEF before, after
  <2>. QED BY <2>1, <2>2, ComparedParts DEF PcEvent, SregEvent, RegisterEvent, SramEvent,
              DdrbEvent, PortbEvent, PinEvent
<1>2. SramSize \in Nat
  BY SramSizeAssumption
<1>3. \A n \in 1..Len(all) : Differs(all[n]) =>
        \/ n = 1 /\ pc' # pc
        \/ n = 2 /\ sreg' # sreg
        \/ \E r \in Register : n = r + 3 /\ registers'[r] # registers[r]
        \/ \E x \in SramAddress : n = x + 35 /\ sram'[x] # sram[x]
        \/ n = SramSize + 35 /\ ddrb' # ddrb
        \/ n = SramSize + 36 /\ portb' # portb
        \/ n = SramSize + 37 /\ Pins' # Pins
  BY WhereItDiffers
<1>4. /\ View = Viewed(pc, sreg, registers, sram, ddrb, portb, Pins)
      /\ View' = Viewed(pc', sreg', registers', sram', ddrb', portb', Pins')
  BY DEF View, Viewed
<1>5. /\ DOMAIN registers = Register /\ registers = [r \in Register |-> registers[r]]
      /\ DOMAIN registers' = Register /\ registers' = [r \in Register |-> registers'[r]]
      /\ DOMAIN sram = SramAddress /\ sram = [x \in SramAddress |-> sram[x]]
      /\ DOMAIN sram' = SramAddress /\ sram' = [x \in SramAddress |-> sram'[x]]
  BY DEF TypeOK
<1>6. /\ MostRows(all[1]) = 0 /\ MostRows(all[2]) = 1
      /\ \A r \in Register : MostRows(all[r + 3]) = 1
      /\ \A x \in SramAddress : MostRows(all[x + 35]) = 1
      /\ MostRows(all[SramSize + 35]) = 1 /\ MostRows(all[SramSize + 36]) = 1
      /\ MostRows(all[SramSize + 37]) = 8
  <2>. HIDE DEF all
  <2>. QED BY <1>1, RowsOfPlaces
<1>7. SUFFICES Difference(View, all, View')
  OBVIOUS
<1>8. Len(all) = SramSize + 37
  BY <1>1
<1>. HIDE DEF all, E, before, after
<1>a. CASE OneRegister
  <2>1. PICK d \in Register : \A r \in Register \ {d} : registers'[r] = registers[r]
    BY <1>a DEF OneRegister
  <2>2. UNCHANGED <<sram, ddrb, portb, external_input>> /\ Pins' = Pins
    BY <1>a DEF OneRegister, Pins
  <2>3. /\ d + 3 \in 1..Len(all) /\ 2 < d + 3
        /\ 1 \in 1..Len(all) /\ 2 \in 1..Len(all)
    BY <1>2, <1>8 DEF Register, RegisterCount
  <2>4. \A n \in 1..Len(all) : Differs(all[n]) => n \in {1, 2, d + 3}
    BY <1>3, <2>1, <2>2
  <2>5. registers' = [registers EXCEPT ![d] = registers'[d]]
    BY <1>5, <2>1
  <2>. DEFINE w == Viewed(pc', sreg, registers, sram, ddrb, portb, Pins)
              x == Viewed(pc', sreg', registers, sram, ddrb, portb, Pins)
  <2>6. Leads(View, all[1], w)
    BY <1>1, <1>4, PcLeads
  <2>7. Leads(w, all[2], x)
    BY <1>1, SregLeads
  <2>8. Leads(x, all[d + 3], View')
    <3>1. View' = Viewed(pc', sreg', [registers EXCEPT ![d] = registers'[d]], sram, ddrb,
                         portb, Pins)
      BY <1>4, <2>2, <2>5
    <3>2. all[d + 3] = Event("register", d, registers[d], registers'[d])
      BY <1>1
    <3>. QED BY <1>5, <3>1, <3>2, RegisterLeads DEF Cell
  <2>9. OnlyThere(all, 1, 2, d + 3)
    BY <2>3, <2>4 DEF OnlyThere
  <2>. HIDE DEF w, x
  <2>10. MostRows(all[1]) + MostRows(all[2]) + MostRows(all[d + 3]) <= 9
    BY <1>6
  <2>. QED BY <2>6, <2>7, <2>8, <2>9, <2>10, DifferenceOfThree
<1>b. CASE OneByte
  <2>1. PICK d \in SramAddress : \A y \in SramAddress \ {d} : sram'[y] = sram[y]
    BY <1>b DEF OneByte
  <2>2. UNCHANGED <<registers, ddrb, portb, external_input>> /\ Pins' = Pins
    BY <1>b DEF OneByte, Pins
  <2>3. /\ d + 35 \in 1..Len(all) /\ 2 < d + 35
        /\ 1 \in 1..Len(all) /\ 2 \in 1..Len(all)
    BY <1>2, <1>8 DEF SramAddress
  <2>4. \A n \in 1..Len(all) : Differs(all[n]) => n \in {1, 2, d + 35}
    BY <1>3, <2>1, <2>2
  <2>5. sram' = [sram EXCEPT ![d] = sram'[d]]
    BY <1>5, <2>1
  <2>. DEFINE w == Viewed(pc', sreg, registers, sram, ddrb, portb, Pins)
              x == Viewed(pc', sreg', registers, sram, ddrb, portb, Pins)
  <2>6. Leads(View, all[1], w)
    BY <1>1, <1>4, PcLeads
  <2>7. Leads(w, all[2], x)
    BY <1>1, SregLeads
  <2>8. Leads(x, all[d + 35], View')
    <3>1. View' = Viewed(pc', sreg', registers, [sram EXCEPT ![d] = sram'[d]], ddrb,
                         portb, Pins)
      BY <1>4, <2>2, <2>5
    <3>2. all[d + 35] = Event("sram", d, sram[d], sram'[d])
      BY <1>1
    <3>. QED BY <1>5, <3>1, <3>2, SramLeads DEF Cell
  <2>9. OnlyThere(all, 1, 2, d + 35)
    BY <2>3, <2>4 DEF OnlyThere
  <2>. HIDE DEF w, x
  <2>10. MostRows(all[1]) + MostRows(all[2]) + MostRows(all[d + 35]) <= 9
    BY <1>6
  <2>. QED BY <2>6, <2>7, <2>8, <2>9, <2>10, DifferenceOfThree
<1>c. CASE OnePort
  <2>1. UNCHANGED <<registers, sreg, sram, external_input>>
    BY <1>c DEF OnePort
  <2>2. /\ 1 \in 1..Len(all) /\ SramSize + 35 \in 1..Len(all)
        /\ SramSize + 36 \in 1..Len(all) /\ SramSize + 37 \in 1..Len(all)
        /\ 1 < SramSize + 35 /\ 1 < SramSize + 36
        /\ SramSize + 35 < SramSize + 37 /\ SramSize + 36 < SramSize + 37
    BY <1>2, <1>8
  <2>. DEFINE w == Viewed(pc', sreg, registers, sram, ddrb, portb, Pins)
              x == Viewed(pc', sreg, registers, sram, ddrb', portb', Pins)
  <2>3. Leads(View, all[1], w)
    BY <1>1, <1>4, PcLeads
  <2>4. Leads(x, all[SramSize + 37], View')
    <3>1. View' = Viewed(pc', sreg, registers, sram, ddrb', portb', Pins')
      BY <1>4, <2>1
    <3>. QED BY <1>1, <3>1, PinLeads
  <2>5. CASE portb' = portb
    <3>1. \A n \in 1..Len(all) : Differs(all[n]) => n \in {1, SramSize + 35, SramSize + 37}
      BY <1>3, <2>1, <2>5
    <3>2. Leads(w, all[SramSize + 35], x)
      <4>1. x = Viewed(pc', sreg, registers, sram, ddrb', portb, Pins)
        BY <2>5
      <4>. HIDE DEF x
      <4>. QED BY <1>1, <4>1, DdrbLeads
    <3>3. OnlyThere(all, 1, SramSize + 35, SramSize + 37)
      BY <2>2, <3>1 DEF OnlyThere
    <3>. HIDE DEF w, x
    <3>4. MostRows(all[1]) + MostRows(all[SramSize + 35]) + MostRows(all[SramSize + 37]) <= 9
      BY <1>6
    <3>. QED BY <2>3, <2>4, <3>2, <3>3, <3>4, DifferenceOfThree
  <2>6. CASE ddrb' = ddrb
    <3>1. \A n \in 1..Len(all) : Differs(all[n]) => n \in {1, SramSize + 36, SramSize + 37}
      BY <1>3, <2>1, <2>6
    <3>2. Leads(w, all[SramSize + 36], x)
      <4>1. x = Viewed(pc', sreg, registers, sram, ddrb, portb', Pins)
        BY <2>6
      <4>. HIDE DEF x
      <4>. QED BY <1>1, <4>1, PortbLeads
    <3>3. OnlyThere(all, 1, SramSize + 36, SramSize + 37)
      BY <2>2, <3>1 DEF OnlyThere
    <3>. HIDE DEF w, x
    <3>4. MostRows(all[1]) + MostRows(all[SramSize + 36]) + MostRows(all[SramSize + 37]) <= 9
      BY <1>6
    <3>. QED BY <2>3, <2>4, <3>2, <3>3, <3>4, DifferenceOfThree
  <2>. QED BY <1>c, <2>5, <2>6 DEF OnePort
<1>d. CASE TwoBytes
  <2>1. PICK d \in SramAddress :
          d + 1 \in SramAddress /\ \A y \in SramAddress \ {d, d + 1} : sram'[y] = sram[y]
    BY <1>d DEF TwoBytes
  <2>2. UNCHANGED <<registers, sreg, ddrb, portb, external_input>> /\ Pins' = Pins
    BY <1>d DEF TwoBytes, Pins
  <2>3. /\ d + 35 \in 1..Len(all) /\ d + 36 \in 1..Len(all) /\ 1 \in 1..Len(all)
        /\ 1 < d + 35 /\ d + 35 < d + 36 /\ (d + 1) + 35 = d + 36 /\ d # d + 1
    BY <1>2, <1>8, <2>1 DEF SramAddress
  <2>4. \A n \in 1..Len(all) : Differs(all[n]) => n \in {1, d + 35, d + 36}
    <3>. SUFFICES ASSUME NEW n \in 1..Len(all), Differs(all[n])
                  PROVE  n \in {1, d + 35, d + 36}
      OBVIOUS
    <3>1. \/ n = 1 \/ \E y \in SramAddress : n = y + 35 /\ sram'[y] # sram[y]
      BY <1>3, <2>2
    <3>2. ASSUME NEW y \in SramAddress, n = y + 35, sram'[y] # sram[y]
          PROVE  n \in {d + 35, d + 36}
      <4>1. y = d \/ y = d + 1
        BY <2>1, <3>2
      <4>. QED BY <2>3, <3>2, <4>1
    <3>. QED BY <3>1, <3>2
  <2>. DEFINE e == d + 1
              h == [sram EXCEPT ![d] = sram'[d]]
              w == Viewed(pc', sreg, registers, sram, ddrb, portb, Pins)
              x == Viewed(pc', sreg, registers, h, ddrb, portb, Pins)
  <2>5. /\ DOMAIN h = SramAddress /\ h = [k \in DOMAIN h |-> h[k]]
        /\ h[e] = sram[e]
        /\ sram' = [h EXCEPT ![e] = sram'[e]]
    <3>1. e \in SramAddress /\ e # d
      BY <2>1, <2>3
    <3>2. \A y \in SramAddress \ {d, e} : sram'[y] = sram[y]
      BY <2>1
    <3>. HIDE DEF e
    <3>. QED BY <1>5, <3>1, <3>2
  <2>6. Leads(View, all[1], w)
    BY <1>1, <1>4, PcLeads
  <2>7. Leads(w, all[d + 35], x)
    <3>1. all[d + 35] = Event("sram", d, sram[d], sram'[d])
      BY <1>1
    <3>. QED BY <1>5, <3>1, SramLeads DEF Cell
  <2>8. Leads(x, all[d + 36], View')
    <3>1. all[d + 36] = Event("sram", e, h[e], sram'[e])
      <4>1. all[e + 35] = Event("sram", e, sram[e], sram'[e])
        BY <1>1, <2>1
      <4>. HIDE DEF h
      <4>. QED BY <2>3, <2>5, <4>1
    <3>2. View' = Viewed(pc', sreg, registers, [h EXCEPT ![e] = sram'[e]], ddrb, portb, Pins)
      <4>. HIDE DEF h, e
      <4>. QED BY <1>4, <2>2, <2>5
    <3>3. e \in DOMAIN h /\ h = [k \in DOMAIN h |-> h[k]]
      BY <2>1, <2>5
    <3>. HIDE DEF h, e
    <3>. QED BY <3>1, <3>2, <3>3, SramLeads DEF Cell
  <2>9. OnlyThere(all, 1, d + 35, d + 36)
    BY <2>3, <2>4 DEF OnlyThere
  <2>. HIDE DEF w, x
  <2>10. MostRows(all[1]) + MostRows(all[d + 35]) + MostRows(all[d + 36]) <= 9
    BY <1>6, <2>3, <2>1
  <2>. QED BY <2>6, <2>7, <2>8, <2>9, <2>10, DifferenceOfThree
<1>. QED BY <1>a, <1>b, <1>c, <1>d DEF ChangesLittle

\* What is said of the log of a step.
LogOfDifference(view, log, next) == Joins(view, log, next) /\ ShowsAll(log)

LEMMA LogOfTheDifference ==
  ASSUME EventLogCapacity >= 3, NEW E, NEW all \in Seq(E), NEW v, NEW y,
         Difference(v, all, y)
  PROVE  LogOfDifference(v, Logged(all), y)
<1>1. PICK a, b, c, w, x :
        /\ OnlyThere(all, a, b, c)
        /\ Leads(v, all[a], w) /\ Leads(w, all[b], x) /\ Leads(x, all[c], y)
        /\ MostRows(all[a]) + MostRows(all[b]) + MostRows(all[c]) <= 9
  BY Zenon DEF Difference
<1>2. EventLogCapacity >= 3
  OBVIOUS
<1>3. Joins(v, Logged(all), y)
  BY <1>1, <1>2, ThreeDiffer
<1>4. Logged(all) = Kept(all[a]) \o Kept(all[b]) \o Kept(all[c])
  BY <1>1, <1>2, ShortLog
<1>5. all[a] \in E /\ all[b] \in E /\ all[c] \in E
  BY <1>1 DEF OnlyThere
<1>6. ShowsAll(Kept(all[a]) \o Kept(all[b]) \o Kept(all[c]))
  BY <1>1, <1>5, KeptRows
<1>. QED BY <1>3, <1>4, <1>6 DEF LogOfDifference

\* The log of every step, also of one that fails.
LEMMA LogOfEveryStep ==
  ASSUME EventLogCapacity >= 3, TypeOK, StepWithEvents
  PROVE  LogOfDifference(View, last_events', View')
<1>1. Step
  BY DEF StepWithEvents
<1>2. CASE ret' = FALSE /\ last_events' = << >>
  <2>1. View' = View
    BY <1>1, <1>2, FailedStepKeepsView
  <2>2. Redo(View, << >>) = View /\ Undo(View, << >>) = View
    BY RedoNone, UndoNone
  <2>3. ShowsAll(<< >>)
    BY DEF ShowsAll
  <2>. QED BY <1>2, <2>1, <2>2, <2>3 DEF LogOfDifference, Joins
<1>3. CASE last_events' = Logged(Compared(Snapshot, Snapshot'))
  <2>. DEFINE all == Compared(Snapshot, Snapshot')
  <2>1. all \in Seq(AllCompared(Snapshot, Snapshot'))
    BY ComparedParts
  <2>2. Difference(View, all, View')
    BY <1>1, StepChangesLittle, DifferenceOfStep
  <2>3. EventLogCapacity >= 3
    OBVIOUS
  <2>. HIDE DEF all
  <2>4. LogOfDifference(View, Logged(all), View')
    BY <2>1, <2>2, <2>3, LogOfTheDifference
  <2>. QED BY <1>3, <2>4 DEF all
<1>. QED BY <1>2, <1>3, LogOfStep

\* The log is a sequence.
LEMMA LogIsASequence ==
  ASSUME StepWithEvents
  PROVE  DOMAIN last_events' = 1..Len(last_events')
<1>. DEFINE all == Compared(Snapshot, Snapshot')
<1>1. CASE last_events' = << >>
  BY <1>1
<1>2. CASE last_events' = Logged(all)
  <2>. DEFINE E == AllCompared(Snapshot, Snapshot')
  <2>1. all \in Seq(E)
    BY ComparedParts
  <2>. HIDE DEF all, E
  <2>2. PICK log \in [0..Len(all) -> Seq(E)] : LogsOf(all, log)
    BY <2>1, LogsExist
  <2>3. Logged(all) \in Seq(E)
    <3>1. Len(all) \in Nat
      BY <2>1
    <3>. QED BY <2>2, <3>1 DEF LogsOf
  <2>. QED BY <1>2, <2>3
<1>. QED BY <1>1, <1>2, LogOfStep

\* The log of a step is the whole difference it makes, also when it fails, and
\* can be taken back; three places for events are enough, the source has 64
\* (avr_debug.c:381-448; README.md, Phase 10).
THEOREM TheLogIsTheDifference ==
  ASSUME EventLogCapacity >= 3
  PROVE  MCSpec => LogIsTheDifference
<1>1. DebugInv /\ [MCNext]_debugvars =>
        [call' = "step" => /\ Redo(View, last_events') = View'
                           /\ Undo(View', last_events') = View]_debugvars
  <2>. SUFFICES ASSUME DebugInv, MCNext, call' = "step"
                PROVE  /\ Redo(View, last_events') = View'
                       /\ Undo(View', last_events') = View
    OBVIOUS
  <2>1. StepWithEvents
    BY DEF MCNext, DrivePins, WriteExternalInput, Written
  <2>2. TypeOK
    BY DEF DebugInv
  <2>3. LogOfDifference(View, last_events', View')
    BY <2>1, <2>2, LogOfEveryStep, EventLogCapacity >= 3
  <2>. QED BY <2>3 DEF LogOfDifference, Joins
<1>. QED BY <1>1, DebugInvHolds, PTL DEF MCSpec, LogIsTheDifference

\* Every change of a step but that of the pc is drawn: a port that is written gives
\* at most one row for its register and eight for the pins
\* (avr_gui.c:508, 522-555).
THEOREM TheTrackerShowsAll ==
  ASSUME EventLogCapacity >= 3
  PROVE  MCSpec => []TrackerShowsAll
<1>1. MCInit => TrackerShowsAll
  BY DEF MCInit, TrackerShowsAll
<1>2. DebugInv /\ TrackerShowsAll /\ [MCNext]_debugvars => TrackerShowsAll'
  <2>. SUFFICES ASSUME DebugInv, TrackerShowsAll, [MCNext]_debugvars
                PROVE  TrackerShowsAll'
    OBVIOUS
  <2>1. CASE UNCHANGED last_events
    BY <2>1 DEF TrackerShowsAll
  <2>2. CASE StepWithEvents
    <3>1. LogOfDifference(View, last_events', View')
      BY <2>2, LogOfEveryStep, EventLogCapacity >= 3 DEF DebugInv
    <3>2. DOMAIN last_events' = 1..Len(last_events')
      BY <2>2, LogIsASequence
    <3>. QED BY <3>1, <3>2 DEF LogOfDifference, ShowsAll, Among, TrackerShowsAll
  <2>. QED BY <2>1, <2>2 DEF MCNext, DrivePins, debugvars
<1>. QED BY <1>1, <1>2, DebugInvHolds, PTL DEF MCSpec

-----------------------------------------------------------------------------
(***************************************************************************)
(* The same under the graphical interface, for its steps among all of its  *)
(* other events.                                                           *)
(***************************************************************************)

\* The log is that of a step, is cleared, or is left alone.
LEMMA GuiLogMoves ==
  ASSUME GuiNext
  PROVE  StepWithEvents \/ last_events' = << >> \/ last_events' = last_events
<1>1. ASSUME HandleEvent
      PROVE  StepWithEvents \/ last_events' = << >> \/ last_events' = last_events
  BY <1>1 DEF HandleEvent, StepKey, StepOnce, RunKey, ResetKey, BreakpointKey, SlowerKey,
              FasterKey, QuitEvent, InputKey, PinClick, ToggleInput
<1>2. ASSUME Drained
      PROVE  StepWithEvents \/ last_events' = last_events
  BY <1>2 DEF Drained, TimedStep, StepOnce, NoStep
<1>3. ASSUME LoadDemo \/ \E ticks \in FrameTicks : NextFrame(ticks)
      PROVE  last_events' = last_events
  BY <1>3 DEF LoadDemo, NextFrame
<1>. QED BY <1>1, <1>2, <1>3 DEF GuiNext

\* In the graphical interface, too, the log of every step, asked for by key or by
\* the clock, leads from the machine before to the machine after and back
\* (avr_gui.c:583-596).
THEOREM GuiLogsTheDifference ==
  ASSUME EventLogCapacity >= 3
  PROVE  GuiSpec => [][StepWithEvents => /\ Redo(View, last_events') = View'
                                         /\ Undo(View', last_events') = View]_guivars
<1>1. GuiInv /\ [GuiNext]_guivars =>
        [StepWithEvents => /\ Redo(View, last_events') = View'
                           /\ Undo(View', last_events') = View]_guivars
  <2>. SUFFICES ASSUME GuiInv, StepWithEvents
                PROVE  /\ Redo(View, last_events') = View'
                       /\ Undo(View', last_events') = View
    OBVIOUS
  <2>1. LogOfDifference(View, last_events', View')
    BY LogOfEveryStep, EventLogCapacity >= 3 DEF GuiInv
  <2>. QED BY <2>1 DEF LogOfDifference, Joins
<1>. QED BY <1>1, GuiInvHolds, PTL DEF GuiSpec

\* Whatever keys, clicks and steps came before, every change the tracker of the
\* graphical interface holds, but that of the pc, has a row on its panel
\* (avr_gui.c:503-562).
THEOREM GuiTrackerShowsAll ==
  ASSUME EventLogCapacity >= 3
  PROVE  GuiSpec => []TrackerShowsAll
<1>1. GuiInit => TrackerShowsAll
  BY DEF GuiInit, TrackerShowsAll
<1>2. GuiInv /\ TrackerShowsAll /\ [GuiNext]_guivars => TrackerShowsAll'
  <2>. SUFFICES ASSUME GuiInv, TrackerShowsAll, [GuiNext]_guivars
                PROVE  TrackerShowsAll'
    OBVIOUS
  <2>1. CASE last_events' = last_events
    BY <2>1 DEF TrackerShowsAll
  <2>2. CASE last_events' = << >>
    BY <2>2 DEF TrackerShowsAll
  <2>3. CASE StepWithEvents
    <3>1. LogOfDifference(View, last_events', View')
      BY <2>3, LogOfEveryStep, EventLogCapacity >= 3 DEF GuiInv
    <3>2. DOMAIN last_events' = 1..Len(last_events')
      BY <2>3, LogIsASequence
    <3>. QED BY <3>1, <3>2 DEF LogOfDifference, ShowsAll, Among, TrackerShowsAll
  <2>. QED BY <2>1, <2>2, <2>3, GuiLogMoves DEF guivars
<1>. QED BY <1>1, <1>2, GuiInvHolds, PTL DEF GuiSpec
=============================================================================
