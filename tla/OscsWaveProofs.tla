--------------------------- MODULE OscsWaveProofs ---------------------------
(* Proofs that the oscillators of Oscs play their wave: whenever a run     *)
(* plays, the deltas it adds to its buffer total the difference between    *)
(* the level it leaves and the level it found, for every chip, every       *)
(* setting of its registers and every length of the run.                   *)
(*                                                                         *)
(* What the deltas of a run total is a fold, the Total of Arithmetic, so   *)
(* what it is of silence, of one delta more and of two runs side by side   *)
(* comes first.  Then each loop is one that steps through a wave: at       *)
(* every transition its level is the wave's, and its delta the wave's      *)
(* step.                                                                   *)
(* Last, each RunX is its shortcuts, its update of the level and its loop, *)
(* one after the other, and Mmc5 and Fds are several such runs in a row.   *)
(*                                                                         *)
(* The second half shows that a run may be cut in two wherever time frames *)
(* and calls do so: the counts of transitions add up, the second part goes *)
(* on in the wave where the first left it, and the changes of both, one    *)
(* after the other, are those of the whole.                                *)
EXTENDS OscsProofs

-----------------------------------------------------------------------------
(* What a run adds to the buffer.                                          *)

Moved(deltas, t, d) == [deltas EXCEPT ![t] = @ + d]

LEMMA SilentSum == \A n \in Nat : Silence(n) \in Deltas(n) /\ Total(Silence(n)) = 0
<1> SUFFICES ASSUME NEW n \in Nat PROVE Silence(n) \in Deltas(n) /\ Total(Silence(n)) = 0
  OBVIOUS
<1>1. IsFiniteSet(0 .. n)
  <2>1. n \in Int /\ 0 \in Int
    BY SMT
  <2> QED
    BY Zenon, <2>1, FS_Interval
<1>2. Silence(n) \in [0 .. n -> Int] /\ \A t \in 0 .. n : Silence(n)[t] = 0
  BY SMT DEF Silence
<1> QED
  BY Zenon, <1>1, <1>2, TotalOfNothing DEF Deltas

LEMMA SumMoved ==
  ASSUME NEW n \in Nat, NEW deltas \in Deltas(n), NEW t \in 0 .. n, NEW d \in Int
  PROVE  /\ Moved(deltas, t, d) \in Deltas(n) /\ Total(deltas) \in Int
         /\ Total(Moved(deltas, t, d)) = Total(deltas) + d
<1>0. PICK e : e = Moved(deltas, t, d)
  OBVIOUS
<1>1. IsFiniteSet(0 .. n)
  <2>1. n \in Int /\ 0 \in Int
    BY SMT
  <2> QED
    BY Zenon, <2>1, FS_Interval
<1>2. e \in Deltas(n)
  BY Zenon, <1>0, DeltaAdded DEF Moved
<1>3. e \in [0 .. n -> Int] /\ deltas \in [0 .. n -> Int]
  BY Zenon, <1>2 DEF Deltas
<1>4. e[t] = deltas[t] + d /\ \A x \in 0 .. n : x # t => e[x] = deltas[x]
  BY Zenon, <1>0, <1>3 DEF Moved
<1>5. Total(deltas) \in Int /\ Total(e) = Total(deltas) + d
  <2>1. MoreAt(e, deltas, 0 .. n, t, d)
    BY Zenon, <1>1, <1>3, <1>4 DEF MoreAt
  <2> QED
    BY SMT, <2>1, TotalMoves
<1> QED
  BY Zenon, <1>0, <1>2, <1>5

LEMMA MovedBy ==
  ASSUME NEW n \in Nat, NEW deltas \in Deltas(n), NEW t \in 0 .. n, NEW a \in Int, NEW b \in Int
  PROVE  deltas[t] + a - b = deltas[t] + (a - b)
<1>1. deltas[t] \in Int
  BY Zenon DEF Deltas
<1> QED
  BY SMT, <1>1

LEMMA SumOfFirst ==
  ASSUME NEW n \in Nat, NEW amp \in Int, NEW o, o.last_amp \in Int
  PROVE  First(o, amp, n) \in Deltas(n) /\ Total(First(o, amp, n)) = amp - o.last_amp
<1> DEFINE d == amp - o.last_amp
<1>1. d \in Int /\ 0 \in 0 .. n /\ 0 + d = d
  BY SMT
<1> HIDE DEF d
<1>2. Silence(n) \in Deltas(n) /\ Silence(n)[0] = 0 /\ Total(Silence(n)) = 0
  BY Zenon, <1>1, SilentSum DEF Silence
<1>3. Silence(n)[0] + d = d
  BY Zenon, <1>1, <1>2
<1>4. First(o, amp, n) = Moved(Silence(n), 0, d)
  BY Zenon, <1>3 DEF First, Moved, d
<1>5. /\ Moved(Silence(n), 0, d) \in Deltas(n)
      /\ Total(Moved(Silence(n), 0, d)) = Total(Silence(n)) + d
  <2>1. Silence(n) \in Deltas(n) /\ 0 \in 0 .. n /\ d \in Int
    BY Zenon, <1>1, <1>2
  <2> QED
    BY Zenon, <2>1, SumMoved
<1>6. Total(Moved(Silence(n), 0, d)) = d
  BY Zenon, <1>1, <1>2, <1>5
<1> QED
  BY Zenon, <1>4, <1>5, <1>6 DEF d

(* The passes of a run are within it.                                      *)
LEMMA PassTimes ==
  ASSUME NEW d \in Nat, NEW p \in Nat \ {0}, NEW n \in Nat, NEW k \in 1 .. Count(d, p, n)
  PROVE  d + (k - 1) * p \in 0 .. n
<1>1. n > d
  <2>1. ~(n <= d => Count(d, p, n) = 0) \/ n > d
    <3>1. Count(d, p, n) # 0
      <4>1. Count(d, p, n) \in Nat
        BY Zenon, Counting
      <4> QED
        BY SMT, <4>1
    <3>2. n <= d \/ n > d
      BY SMT
    <3> QED
      BY Zenon, <3>1, <3>2
  <2> QED
    BY Zenon, <2>1, Counting
<1>2. PICK x \in Nat : x = n - d + p - 1
  BY SMT, <1>1
<1>3. PICK c \in Int : c = x \div p /\ c * p <= x
  <2>1. x \in Int
    BY SMT
  <2> QED
    BY Zenon, <2>1, Division
<1>4. c = Count(d, p, n)
  BY Zenon, <1>1, <1>2, <1>3 DEF Count
<1>5. k \in Nat /\ k <= c
  BY SMT, <1>4
<1>6. k * p <= c * p /\ (k - 1) * p = k * p - p /\ k * p \in Int /\ c * p \in Int /\ k * p >= p
  BY SMT, <1>5
<1>7. PICK y \in Int : y = (k - 1) * p /\ y <= x - p /\ y >= 0
  BY SMT, <1>3, <1>6
<1> QED
  BY SMT, <1>2, <1>7

(* A run is cut where it is cut: the transitions before, and those after.  *)
LEMMA CountIs ==
  ASSUME NEW d \in Nat, NEW p \in Nat \ {0}, NEW n \in Nat, NEW c \in Nat,
         n <= d + c * p, c # 0 => d + (c - 1) * p < n
  PROVE  Count(d, p, n) = c
<1>1. CASE c = 0
  <2>1. c * p = 0
    BY SMT, <1>1
  <2>2. n <= d
    BY SMT, <2>1
  <2> QED
    BY Zenon, <1>1, <2>2, Counting
<1>2. CASE c # 0
  <2>1. PICK z \in Int : z = c * p /\ (c - 1) * p = z - p /\ z >= p
    BY SMT, <1>2
  <2>2. PICK x \in Int : x = n - d + p - 1 /\ z <= x /\ x < z + p /\ n > d
    BY SMT, <1>2, <2>1
  <2>3. x \div p = c
    <3>1. c \in Int
      BY SMT
    <3> QED
      BY Zenon, <2>1, <2>2, <3>1, Quotient
  <2> QED
    BY Zenon, <2>2, <2>3 DEF Count
<1> QED
  BY Zenon, <1>1, <1>2

LEMMA CountBounds ==
  ASSUME NEW d \in Nat, NEW p \in Nat \ {0}, NEW n \in Nat, NEW c, c = Count(d, p, n)
  PROVE  c \in Nat /\ n <= d + c * p /\ (c # 0 => d + (c - 1) * p < n)
<1>1. c \in Nat
  BY Zenon, Counting
<1>2. CASE n <= d
  <2>1. c = 0 /\ c * p = 0
    <3>1. c = 0
      BY Zenon, <1>2, Counting
    <3> QED
      BY SMT, <3>1
  <2> QED
    BY SMT, <1>2, <2>1
<1>3. CASE n > d
  <2>1. PICK x \in Nat : x = n - d + p - 1
    BY SMT, <1>3
  <2>2. c = x \div p
    BY Zenon, <1>3, <2>1 DEF Count
  <2>3. c * p <= x /\ x < c * p + p
    <3>1. x \in Int
      BY SMT
    <3> QED
      BY Zenon, <2>2, <3>1, Division
  <2>4. PICK z \in Int : z = c * p /\ (c - 1) * p = z - p
    BY SMT, <1>1
  <2> QED
    BY SMT, <1>1, <1>3, <2>1, <2>3, <2>4
<1> QED
  BY SMT, <1>1, <1>2, <1>3

LEMMA CutCounts ==
  ASSUME NEW d \in Nat, NEW p \in Nat \ {0}, NEW m \in Nat, NEW n \in Nat
  PROVE  LET e == DelayAfter(d, p, m)
             b == Count(d, p, m)
             c == Count(e, p, n)
         IN  /\ e \in Nat /\ b \in Nat /\ c \in Nat
             /\ Count(d, p, m + n) = b + c
             /\ DelayAfter(e, p, n) = DelayAfter(d, p, m + n)
             /\ \A k \in Nat : d + (b + k - 1) * p = m + (e + (k - 1) * p)
<1> DEFINE e == DelayAfter(d, p, m)
           b == Count(d, p, m)
           c == Count(e, p, n)
<1>1. e \in Nat /\ b \in Nat
  BY Zenon, Counting
<1>2. e = d + b * p - m
  BY Zenon DEF DelayAfter
<1> HIDE DEF e
<1>3. c \in Nat /\ n <= e + c * p /\ (c # 0 => e + (c - 1) * p < n)
  BY Zenon, <1>1, CountBounds
<1>4. m <= d + b * p /\ (b # 0 => d + (b - 1) * p < m)
  BY Zenon, <1>1, CountBounds
<1> HIDE DEF b, c
<1>5. \A k \in Nat : d + (b + k - 1) * p = m + (e + (k - 1) * p)
  <2>1. ASSUME NEW k \in Nat PROVE (b + k - 1) * p = b * p + (k - 1) * p /\ b * p \in Int
                                   /\ (k - 1) * p \in Int
    BY SMT, <1>1
  <2> QED
    BY SMT, <1>1, <1>2, <2>1
<1>6. PICK q \in Nat, l \in Nat : q = b + c /\ l = m + n
  BY SMT, <1>1, <1>3
<1>7. PICK y \in Int, z \in Int, x \in Int :
        y = b * p /\ z = c * p /\ x = q * p /\ x = y + z /\ (c - 1) * p = z - p
        /\ (b - 1) * p = y - p /\ (q - 1) * p = x - p
  BY SMT, <1>1, <1>3, <1>6
<1>8. Count(d, p, l) = q
  <2>1. /\ n <= e + z /\ (c # 0 => e + (z - p) < n) /\ e = d + y - m
        /\ m <= d + y /\ (b # 0 => d + (y - p) < m)
    BY Zenon, <1>2, <1>3, <1>4, <1>7
  <2>2. x = y + z /\ (c = 0 => z = 0)
    BY SMT, <1>3, <1>7
  <2>3. l <= d + x /\ (q # 0 => d + (x - p) < l)
    BY SMT, <1>1, <1>3, <1>6, <2>1, <2>2
  <2>4. l <= d + q * p /\ (q # 0 => d + (q - 1) * p < l)
    BY Zenon, <1>7, <2>3
  <2> QED
    BY Zenon, <2>4, CountIs
<1>9. DelayAfter(e, p, n) = e + z - n /\ DelayAfter(d, p, m + n) = d + x - (m + n)
  BY Zenon, <1>6, <1>7, <1>8 DEF DelayAfter, c
<1>10. e + z - n = d + x - (m + n)
  BY SMT, <1>1, <1>2, <1>6, <1>7
<1> QED
  BY Zenon, <1>1, <1>3, <1>5, <1>6, <1>8, <1>9, <1>10 DEF b, c, e

LEMMA NothingMoved ==
  ASSUME NEW n \in Nat, NEW deltas \in Deltas(n), NEW t \in 0 .. n
  PROVE  Moved(deltas, t, 0) = deltas
<1>1. deltas[t] + 0 = deltas[t]
  BY SMT DEF Deltas
<1> QED
  BY Zenon, <1>1 DEF Moved, Deltas

(* The deltas of two runs, one after the other.                            *)
Glued(a, b, m, n) ==
  [t \in 0 .. m + n |-> (IF t <= m THEN a[t] ELSE 0) + IF t >= m THEN b[t - m] ELSE 0]

LEMMA GluedSilence ==
  ASSUME NEW m \in Nat, NEW n \in Nat
  PROVE  Glued(Silence(m), Silence(n), m, n) = Silence(m + n)
<1>1. ASSUME NEW t \in 0 .. m + n
      PROVE  (IF t <= m THEN Silence(m)[t] ELSE 0) + (IF t >= m THEN Silence(n)[t - m] ELSE 0) = 0
  <2>1. t <= m => Silence(m)[t] = 0
    BY SMT DEF Silence
  <2>2. t >= m => Silence(n)[t - m] = 0
    BY SMT DEF Silence
  <2> QED
    BY SMT, <2>1, <2>2
<1> QED
  BY Zenon, <1>1 DEF Glued, Silence

LEMMA GluedMoved ==
  ASSUME NEW m \in Nat, NEW n \in Nat, NEW a \in Deltas(m), NEW b \in Deltas(n), NEW d \in Int
  PROVE  /\ Glued(a, b, m, n) \in Deltas(m + n)
         /\ \A t \in 0 .. m : Glued(Moved(a, t, d), b, m, n) = Moved(Glued(a, b, m, n), t, d)
         /\ \A t \in 0 .. n : Glued(a, Moved(b, t, d), m, n) = Moved(Glued(a, b, m, n), m + t, d)
<1> DEFINE at(f, g, t) == (IF t <= m THEN f[t] ELSE 0) + IF t >= m THEN g[t - m] ELSE 0
<1>1. /\ \A t \in 0 .. m + n : t <= m => t \in 0 .. m
      /\ \A t \in 0 .. m + n : t >= m => t - m \in 0 .. n
  BY SMT
<1>2. /\ \A t \in 0 .. m : a[t] \in Int
      /\ \A t \in 0 .. n : b[t] \in Int
  BY Zenon DEF Deltas
<1>3. ASSUME NEW t \in 0 .. m + n PROVE at(a, b, t) \in Int
  <2>1. t <= m => a[t] \in Int
    BY Zenon, <1>1, <1>2
  <2>2. t >= m => b[t - m] \in Int
    BY Zenon, <1>1, <1>2
  <2> QED
    BY SMT, <2>1, <2>2
<1>4. Glued(a, b, m, n) \in Deltas(m + n)
  BY Zenon, <1>3 DEF Glued, Deltas
<1>5. ASSUME NEW t \in 0 .. m PROVE Glued(Moved(a, t, d), b, m, n) = Moved(Glued(a, b, m, n), t, d)
  <2>1. \A u \in 0 .. m : Moved(a, t, d)[u] = IF u = t THEN a[u] + d ELSE a[u]
    BY Zenon DEF Moved, Deltas
  <2>2. t \in 0 .. m + n
    BY SMT
  <2>3. ASSUME NEW u \in 0 .. m + n
        PROVE  at(Moved(a, t, d), b, u) = IF u = t THEN at(a, b, u) + d ELSE at(a, b, u)
    <3>1. u <= m => a[u] \in Int /\ Moved(a, t, d)[u] = IF u = t THEN a[u] + d ELSE a[u]
      BY Zenon, <1>1, <1>2, <2>1
    <3>2. u >= m => b[u - m] \in Int
      BY Zenon, <1>1, <1>2
    <3> QED
      BY SMT, <3>1, <3>2
  <2>4. Moved(Glued(a, b, m, n), t, d)
          = [u \in 0 .. m + n |-> IF u = t THEN at(a, b, u) + d ELSE at(a, b, u)]
    BY Zenon, <2>2 DEF Moved, Glued
  <2> QED
    BY Zenon, <2>3, <2>4 DEF Glued
<1>6. ASSUME NEW t \in 0 .. n
      PROVE  Glued(a, Moved(b, t, d), m, n) = Moved(Glued(a, b, m, n), m + t, d)
  <2>1. \A u \in 0 .. n : Moved(b, t, d)[u] = IF u = t THEN b[u] + d ELSE b[u]
    BY Zenon DEF Moved, Deltas
  <2>2. m + t \in 0 .. m + n
    BY SMT
  <2>3. ASSUME NEW u \in 0 .. m + n
        PROVE  at(a, Moved(b, t, d), u) = IF u = m + t THEN at(a, b, u) + d ELSE at(a, b, u)
    <3>1. u >= m => b[u - m] \in Int /\ Moved(b, t, d)[u - m] = IF u - m = t THEN b[u - m] + d
                                                                ELSE b[u - m]
      BY Zenon, <1>1, <1>2, <2>1
    <3>2. u <= m => a[u] \in Int
      BY Zenon, <1>1, <1>2
    <3> QED
      BY SMT, <3>1, <3>2
  <2>4. Moved(Glued(a, b, m, n), m + t, d)
          = [u \in 0 .. m + n |-> IF u = m + t THEN at(a, b, u) + d ELSE at(a, b, u)]
    BY Zenon, <2>2 DEF Moved, Glued
  <2> QED
    BY Zenon, <2>3, <2>4 DEF Glued
<1> QED
  BY Zenon, <1>4, <1>5, <1>6

-----------------------------------------------------------------------------
(* Waves.  A wave has states, one that follows each, and the level of the  *)
(* output in each.  What all the loops have in common is that they step    *)
(* through a wave and move the output from level to level.                 *)

IsWave(w) == w.next \in [w.states -> w.states] /\ w.level \in [w.states -> Int]

(* xs are the states and ds the deltas after each transition, of a run     *)
(* over n clocks that begins in the state x with the output at last.       *)
Steps(w, x, last, d, p, n, xs, ds) ==
  /\ xs[0] = x /\ ds[0] = Moved(Silence(n), 0, w.level[x] - last)
  /\ \A k \in 1 .. Count(d, p, n) :
       /\ xs[k] = w.next[xs[k - 1]]
       /\ ds[k] = Moved(ds[k - 1], d + (k - 1) * p, w.level[xs[k]] - w.level[xs[k - 1]])

(* Such a run ends in the state y and adds deltas.                         *)
Plays(w, x, last, d, p, n, y, deltas) ==
  \E xs, ds : Steps(w, x, last, d, p, n, xs, ds)
              /\ y = xs[Count(d, p, n)] /\ deltas = ds[Count(d, p, n)]

LEMMA StepsAre ==
  ASSUME NEW w, IsWave(w), NEW x \in w.states, NEW last \in Int,
         NEW d \in Nat, NEW p \in Nat \ {0}, NEW n \in Nat, NEW xs, NEW ds,
         Steps(w, x, last, d, p, n, xs, ds)
  PROVE  \A k \in 0 .. Count(d, p, n) :
           /\ xs[k] \in w.states /\ w.level[xs[k]] \in Int
           /\ ds[k] \in Deltas(n) /\ Total(ds[k]) = w.level[xs[k]] - last
<1> DEFINE count == Count(d, p, n)
           Good(k) == /\ xs[k] \in w.states /\ w.level[xs[k]] \in Int
                      /\ ds[k] \in Deltas(n) /\ Total(ds[k]) = w.level[xs[k]] - last
           S == {k \in 0 .. count : Good(k)}
<1>1. count \in Nat
  BY Zenon, Counting
<1>2. \A y \in w.states : w.next[y] \in w.states /\ w.level[y] \in Int
  BY Zenon DEF IsWave
<1>3. Good(0)
  <2>1. PICK c \in Int : c = w.level[x] - last
    BY SMT, <1>2
  <2>2. Silence(n) \in Deltas(n) /\ Total(Silence(n)) = 0 /\ 0 \in 0 .. n
    BY Zenon, SilentSum, Indices
  <2>3. /\ Moved(Silence(n), 0, c) \in Deltas(n)
        /\ Total(Moved(Silence(n), 0, c)) = Total(Silence(n)) + c
    <3>1. PICK f \in Deltas(n) : f = Silence(n)
      BY Zenon, <2>2
    <3>2. PICK t \in 0 .. n : t = 0
      BY Zenon, <2>2
    <3>3. Moved(f, t, c) \in Deltas(n) /\ Total(Moved(f, t, c)) = Total(f) + c
      BY SMT, SumMoved
    <3> QED
      BY Zenon, <3>1, <3>2, <3>3
  <2>4. 0 + c = c
    BY SMT
  <2> QED
    BY Zenon, <1>2, <2>1, <2>2, <2>3, <2>4 DEF Steps
<1>4. ASSUME NEW k \in 1 .. count, k - 1 \in S PROVE k \in S
  <2>1. /\ xs[k] = w.next[xs[k - 1]]
        /\ ds[k] = Moved(ds[k - 1], d + (k - 1) * p, w.level[xs[k]] - w.level[xs[k - 1]])
    BY Zenon DEF Steps
  <2>2. Good(k - 1)
    BY Zenon, <1>4
  <2>3. xs[k] \in w.states /\ w.level[xs[k]] \in Int
    BY Zenon, <1>2, <2>1, <2>2
  <2>4. PICK c \in Int : c = w.level[xs[k]] - w.level[xs[k - 1]]
    BY SMT, <2>2, <2>3
  <2>5. PICK t \in 0 .. n : t = d + (k - 1) * p
    BY Zenon, PassTimes
  <2>6. ds[k - 1] \in Deltas(n) /\ ds[k] = Moved(ds[k - 1], t, c)
    BY Zenon, <2>1, <2>2, <2>4, <2>5
  <2>7. ds[k] \in Deltas(n) /\ Total(ds[k]) = Total(ds[k - 1]) + c
    BY SMT, <2>6, SumMoved
  <2>8. Total(ds[k]) = w.level[xs[k]] - last
    BY SMT, <2>2, <2>3, <2>4, <2>7
  <2>9. k \in 0 .. count
    BY Zenon, <1>1, Indices
  <2> QED
    BY Zenon, <2>3, <2>7, <2>8, <2>9
<1>5. 0 .. count \subseteq S
  <2>1. 0 \in S
    BY Zenon, <1>1, <1>3, Indices
  <2> HIDE DEF S, count
  <2> QED
    BY Zenon, <1>1, <1>4, <2>1, Along
<1> QED
  BY Zenon, <1>5

(* The deltas of a run lead from the level before it to that of its end.   *)
LEMMA PlaysTo ==
  ASSUME NEW w, IsWave(w), NEW x \in w.states, NEW last \in Int,
         NEW d \in Nat, NEW p \in Nat \ {0}, NEW n \in Nat, NEW y, NEW deltas,
         Plays(w, x, last, d, p, n, y, deltas)
  PROVE  /\ y \in w.states /\ w.level[y] \in Int
         /\ deltas \in Deltas(n) /\ w.level[y] = last + Total(deltas)
<1>1. PICK xs, ds : Steps(w, x, last, d, p, n, xs, ds)
                    /\ y = xs[Count(d, p, n)] /\ deltas = ds[Count(d, p, n)]
  BY Zenon DEF Plays
<1>2. Count(d, p, n) \in 0 .. Count(d, p, n)
  BY Zenon, Counting, Indices
<1>3. /\ y \in w.states /\ w.level[y] \in Int
      /\ deltas \in Deltas(n) /\ Total(deltas) = w.level[y] - last
  BY SMT, <1>1, <1>2, StepsAre
<1>4. w.level[y] = last + (w.level[y] - last)
  BY SMT, <1>3
<1> QED
  BY Zenon, <1>3, <1>4

(* A run that is cut: the second part goes on where the first has ended.   *)
LEMMA PlaysBy ==
  ASSUME NEW w, IsWave(w), NEW x \in w.states, NEW last \in Int,
         NEW d \in Nat, NEW p \in Nat \ {0}, NEW m \in Nat, NEW n \in Nat,
         NEW y, NEW a, Plays(w, x, last, d, p, m, y, a),
         NEW z, NEW b, Plays(w, y, w.level[y], DelayAfter(d, p, m), p, n, z, b)
  PROVE  Plays(w, x, last, d, p, m + n, z, Glued(a, b, m, n))
<1> DEFINE e == DelayAfter(d, p, m)
           B == Count(d, p, m)
           C == Count(e, p, n)
<1>1. PICK xs, as : Steps(w, x, last, d, p, m, xs, as) /\ y = xs[B] /\ a = as[B]
  BY Zenon DEF Plays
<1>2. PICK ys, bs : Steps(w, y, w.level[y], e, p, n, ys, bs) /\ z = ys[C] /\ b = bs[C]
  BY Zenon DEF Plays
<1>3. /\ e \in Nat /\ B \in Nat /\ C \in Nat /\ Count(d, p, m + n) = B + C
      /\ \A k \in Nat : d + (B + k - 1) * p = m + (e + (k - 1) * p)
  BY SMT, CutCounts
<1>4. y \in w.states /\ w.level[y] \in Int
  BY Zenon, PlaysTo
<1>5. \A k \in 0 .. B : xs[k] \in w.states /\ w.level[xs[k]] \in Int /\ as[k] \in Deltas(m)
  BY Zenon, <1>1, StepsAre
<1> HIDE DEF e
<1>6. \A k \in 0 .. C : ys[k] \in w.states /\ w.level[ys[k]] \in Int /\ bs[k] \in Deltas(n)
  BY Zenon, <1>2, <1>3, <1>4, StepsAre
<1> HIDE DEF B, C
<1> DEFINE zs == [k \in 0 .. B + C |-> IF k <= B THEN xs[k] ELSE ys[k - B]]
           ds == [k \in 0 .. B + C |-> IF k <= B THEN Glued(as[k], Silence(n), m, n)
                                       ELSE Glued(a, bs[k - B], m, n)]
<1>7. /\ 0 \in 0 .. B + C /\ B + C \in 0 .. B + C /\ 0 \in 0 .. B /\ 0 \in 0 .. C
      /\ 0 <= B /\ B \in 0 .. B
  BY SMT, <1>3
<1>8. ys[0] = y /\ bs[0] = Silence(n)
  <2>1. ys[0] = y /\ bs[0] = Moved(Silence(n), 0, w.level[y] - w.level[y])
    BY Zenon, <1>2 DEF Steps
  <2>2. w.level[y] - w.level[y] = 0
    BY SMT, <1>4
  <2>3. Silence(n) \in Deltas(n) /\ 0 \in 0 .. n
    BY Zenon, SilentSum, Indices
  <2>4. Moved(Silence(n), 0, 0) = Silence(n)
    BY Zenon, <2>3, NothingMoved
  <2> QED
    BY Zenon, <2>1, <2>2, <2>4
<1>9. \A k \in 0 .. C : zs[B + k] = ys[k] /\ ds[B + k] = Glued(a, bs[k], m, n)
  <2>1. ASSUME NEW k \in 0 .. C PROVE zs[B + k] = ys[k] /\ ds[B + k] = Glued(a, bs[k], m, n)
    <3>1. CASE k = 0
      <4>1. B + k = B /\ B <= B /\ B \in 0 .. B + C
        BY SMT, <1>3, <3>1
      <4>2. zs[B] = xs[B] /\ ds[B] = Glued(as[B], Silence(n), m, n)
        BY Zenon, <4>1
      <4> QED
        BY Zenon, <1>1, <1>8, <3>1, <4>1, <4>2
    <3>2. CASE k # 0
      <4>1. ~(B + k <= B) /\ B + k \in 0 .. B + C /\ (B + k) - B = k
        BY SMT, <1>3, <3>2
      <4> QED
        BY Zenon, <4>1
    <3> QED
      BY Zenon, <3>1, <3>2
  <2> QED
    BY Zenon, <2>1
<1>10. zs[0] = x /\ ds[0] = Moved(Silence(m + n), 0, w.level[x] - last)
  <2>1. PICK c \in Int : c = w.level[x] - last
    <3>1. w.level[x] \in Int
      BY Zenon DEF IsWave
    <3> QED
      BY SMT, <3>1
  <2>2. xs[0] = x /\ as[0] = Moved(Silence(m), 0, c)
    BY Zenon, <1>1, <2>1 DEF Steps
  <2>3. Silence(m) \in Deltas(m) /\ Silence(n) \in Deltas(n) /\ 0 \in 0 .. m
    BY Zenon, SilentSum, Indices
  <2>4. Glued(Moved(Silence(m), 0, c), Silence(n), m, n)
          = Moved(Glued(Silence(m), Silence(n), m, n), 0, c)
    BY SMT, <2>3, GluedMoved
  <2>5. zs[0] = xs[0] /\ ds[0] = Glued(as[0], Silence(n), m, n)
    BY Zenon, <1>7
  <2> QED
    BY Zenon, <2>1, <2>2, <2>4, <2>5, GluedSilence
<1>11. ASSUME NEW k \in 1 .. B + C
       PROVE  /\ zs[k] = w.next[zs[k - 1]]
              /\ ds[k] = Moved(ds[k - 1], d + (k - 1) * p, w.level[zs[k]] - w.level[zs[k - 1]])
  <2>1. CASE k <= B
    <3>1. k \in 1 .. B /\ k \in 0 .. B + C /\ k - 1 \in 0 .. B + C /\ k - 1 <= B
          /\ k - 1 \in 0 .. B /\ k \in 0 .. B
      BY SMT, <1>3, <2>1
    <3>2. /\ xs[k] = w.next[xs[k - 1]]
          /\ as[k] = Moved(as[k - 1], d + (k - 1) * p, w.level[xs[k]] - w.level[xs[k - 1]])
      BY Zenon, <1>1, <3>1 DEF Steps, B
    <3>3. zs[k] = xs[k] /\ zs[k - 1] = xs[k - 1]
      BY Zenon, <2>1, <3>1
    <3>4. /\ ds[k] = Glued(as[k], Silence(n), m, n)
          /\ ds[k - 1] = Glued(as[k - 1], Silence(n), m, n)
      BY Zenon, <2>1, <3>1
    <3>5. PICK c \in Int : c = w.level[xs[k]] - w.level[xs[k - 1]]
      <4>1. w.level[xs[k]] \in Int /\ w.level[xs[k - 1]] \in Int
        BY Zenon, <1>5, <3>1
      <4> QED
        BY SMT, <4>1
    <3>6. PICK t \in 0 .. m : t = d + (k - 1) * p
      BY Zenon, <3>1, PassTimes DEF B
    <3>7. as[k - 1] \in Deltas(m) /\ Silence(n) \in Deltas(n)
      BY Zenon, <1>5, <3>1, SilentSum
    <3> HIDE DEF zs, ds
    <3>8. Glued(Moved(as[k - 1], t, c), Silence(n), m, n)
            = Moved(Glued(as[k - 1], Silence(n), m, n), t, c)
      <4>1. PICK f \in Deltas(m), g \in Deltas(n) : f = as[k - 1] /\ g = Silence(n)
        BY Zenon, <3>7
      <4>2. Glued(Moved(f, t, c), g, m, n) = Moved(Glued(f, g, m, n), t, c)
        BY SMT, GluedMoved
      <4> QED
        BY Zenon, <4>1, <4>2
    <3> QED
      BY Zenon, <3>2, <3>3, <3>4, <3>5, <3>6, <3>8
  <2>2. CASE ~(k <= B)
    <3>1. PICK j \in 1 .. C : k = B + j /\ k - 1 = B + (j - 1) /\ j \in 0 .. C /\ j - 1 \in 0 .. C
                              /\ j \in Nat /\ B + j - 1 = k - 1
      <4>1. k - B \in 1 .. C /\ k = B + (k - B) /\ k - 1 = B + ((k - B) - 1) /\ k - B \in 0 .. C
            /\ (k - B) - 1 \in 0 .. C /\ k - B \in Nat /\ B + (k - B) - 1 = k - 1
        BY SMT, <1>3, <2>2
      <4> QED
        BY Zenon, <4>1
    <3>2. /\ ys[j] = w.next[ys[j - 1]]
          /\ bs[j] = Moved(bs[j - 1], e + (j - 1) * p, w.level[ys[j]] - w.level[ys[j - 1]])
      BY Zenon, <1>2, <3>1 DEF Steps, C
    <3>3. zs[k] = ys[j] /\ zs[k - 1] = ys[j - 1]
      BY Zenon, <1>9, <3>1
    <3>4. ds[k] = Glued(a, bs[j], m, n) /\ ds[k - 1] = Glued(a, bs[j - 1], m, n)
      BY Zenon, <1>9, <3>1
    <3>5. PICK c \in Int : c = w.level[ys[j]] - w.level[ys[j - 1]]
      <4>1. w.level[ys[j]] \in Int /\ w.level[ys[j - 1]] \in Int
        BY Zenon, <1>6, <3>1
      <4> QED
        BY SMT, <4>1
    <3>6. PICK t \in 0 .. n : t = e + (j - 1) * p
      BY Zenon, <1>3, <3>1, PassTimes DEF C
    <3>7. a \in Deltas(m) /\ bs[j - 1] \in Deltas(n)
      BY Zenon, <1>1, <1>5, <1>6, <1>7, <3>1
    <3>8. d + (k - 1) * p = m + t
      <4>1. d + (B + j - 1) * p = m + (e + (j - 1) * p)
        BY Zenon, <1>3, <3>1
      <4> QED
        BY Zenon, <3>1, <3>6, <4>1
    <3> HIDE DEF zs, ds
    <3>9. Glued(a, Moved(bs[j - 1], t, c), m, n) = Moved(Glued(a, bs[j - 1], m, n), m + t, c)
      BY SMT, <3>7, GluedMoved
    <3> QED
      BY Zenon, <3>2, <3>3, <3>4, <3>5, <3>6, <3>8, <3>9
  <2> QED
    BY Zenon, <2>1, <2>2
<1>12. zs[B + C] = z /\ ds[B + C] = Glued(a, b, m, n)
  <2>1. C \in 0 .. C
    BY SMT, <1>3
  <2> QED
    BY Zenon, <1>2, <1>9, <2>1
<1> HIDE DEF zs, ds
<1>13. Steps(w, x, last, d, p, m + n, zs, ds)
  BY Zenon, <1>3, <1>10, <1>11 DEF Steps, B, C
<1> QED
  BY Zenon, <1>3, <1>12, <1>13 DEF Plays, B, C

(* There is only one such run.                                             *)
LEMMA PlaysOnce ==
  ASSUME NEW w, NEW x, NEW last, NEW d \in Nat, NEW p \in Nat \ {0}, NEW n \in Nat,
         NEW y, NEW a, Plays(w, x, last, d, p, n, y, a),
         NEW z, NEW b, Plays(w, x, last, d, p, n, z, b)
  PROVE  y = z /\ a = b
<1> DEFINE count == Count(d, p, n)
<1>1. PICK xs, as : Steps(w, x, last, d, p, n, xs, as) /\ y = xs[count] /\ a = as[count]
  BY Zenon DEF Plays
<1>2. PICK ys, bs : Steps(w, x, last, d, p, n, ys, bs) /\ z = ys[count] /\ b = bs[count]
  BY Zenon DEF Plays
<1> DEFINE S == {k \in 0 .. count : xs[k] = ys[k] /\ as[k] = bs[k]}
<1>3. count \in Nat
  BY Zenon, Counting
<1>4. 0 \in S
  BY Zenon, <1>1, <1>2, <1>3, Indices DEF Steps
<1>5. ASSUME NEW k \in 1 .. count, k - 1 \in S PROVE k \in S
  <2>1. k \in 0 .. count
    BY Zenon, <1>3, Indices
  <2>2. /\ xs[k] = w.next[xs[k - 1]]
        /\ as[k] = Moved(as[k - 1], d + (k - 1) * p, w.level[xs[k]] - w.level[xs[k - 1]])
    BY Zenon, <1>1 DEF Steps
  <2>3. /\ ys[k] = w.next[ys[k - 1]]
        /\ bs[k] = Moved(bs[k - 1], d + (k - 1) * p, w.level[ys[k]] - w.level[ys[k - 1]])
    BY Zenon, <1>2 DEF Steps
  <2>4. xs[k - 1] = ys[k - 1] /\ as[k - 1] = bs[k - 1]
    BY Zenon, <1>5
  <2>5. xs[k] = ys[k] /\ as[k] = bs[k]
    BY Zenon, <2>2, <2>3, <2>4
  <2> QED
    BY Zenon, <2>1, <2>5
<1>6. 0 .. count \subseteq S
  <2> HIDE DEF S, count
  <2> QED
    BY Zenon, <1>3, <1>4, <1>5, Along
<1>7. count \in S
  BY Zenon, <1>3, <1>6, Indices
<1> QED
  BY Zenon, <1>1, <1>2, <1>7

(* The loop of a run gives the steps.                                      *)
LEMMA LoopPlays ==
  ASSUME NEW w, NEW x, NEW last, NEW d \in Nat, NEW p \in Nat \ {0}, NEW n \in Nat,
         NEW count, count = Count(d, p, n), NEW xs, NEW ds,
         xs[0] = x, ds[0] = Moved(Silence(n), 0, w.level[x] - last),
         \A k \in 1 .. count :
           /\ xs[k] = w.next[xs[k - 1]]
           /\ ds[k] = Moved(ds[k - 1], d + (k - 1) * p, w.level[xs[k]] - w.level[xs[k - 1]])
  PROVE  Plays(w, x, last, d, p, n, xs[count], ds[count])
<1>1. Steps(w, x, last, d, p, n, xs, ds)
  BY Zenon DEF Steps
<1> QED
  BY Zenon, <1>1 DEF Plays

(* The passes of a run's loop, of those in good, each at the state st.     *)
LEMMA PassesPlay ==
  ASSUME NEW w, NEW x, NEW last, NEW d \in Nat, NEW p \in Nat \ {0}, NEW n \in Nat,
         NEW count, count = Count(d, p, n), NEW good, NEW st, NEW f,
         f[0] \in good, st[f[0]] = x, f[0].deltas = Moved(Silence(n), 0, w.level[x] - last),
         \A k \in 1 .. count :
           f[k - 1] \in good =>
             /\ f[k] \in good /\ st[f[k]] = w.next[st[f[k - 1]]]
             /\ f[k].deltas = Moved(f[k - 1].deltas, d + (k - 1) * p,
                                    w.level[st[f[k]]] - w.level[st[f[k - 1]]])
  PROVE  f[count] \in good /\ Plays(w, x, last, d, p, n, st[f[count]], f[count].deltas)
<1> DEFINE xs == [k \in 0 .. count |-> st[f[k]]]
           ds == [k \in 0 .. count |-> f[k].deltas]
<1>1. count \in Nat
  BY Zenon, Counting
<1>2. \A k \in 0 .. count : f[k] \in good
  BY Zenon, <1>1, Stays
<1>3. xs[0] = x /\ ds[0] = Moved(Silence(n), 0, w.level[x] - last)
  BY Zenon, <1>1, Indices
<1>4. ASSUME NEW k \in 1 .. count
      PROVE  /\ xs[k] = w.next[xs[k - 1]]
             /\ ds[k] = Moved(ds[k - 1], d + (k - 1) * p, w.level[xs[k]] - w.level[xs[k - 1]])
  <2>1. k \in 0 .. count /\ k - 1 \in 0 .. count
    BY Zenon, <1>1, Indices
  <2>2. f[k - 1] \in good
    BY Zenon, <1>2, <2>1
  <2>3. /\ st[f[k]] = w.next[st[f[k - 1]]]
        /\ f[k].deltas = Moved(f[k - 1].deltas, d + (k - 1) * p,
                               w.level[st[f[k]]] - w.level[st[f[k - 1]]])
    BY Zenon, <2>2
  <2> QED
    BY Zenon, <2>1, <2>3
<1>5. f[count] \in good /\ xs[count] = st[f[count]] /\ ds[count] = f[count].deltas
  BY Zenon, <1>1, <1>2, Indices
<1> HIDE DEF xs, ds
<1>6. Plays(w, x, last, d, p, n, xs[count], ds[count])
  BY Zenon, <1>3, <1>4, LoopPlays
<1> QED
  BY Zenon, <1>5, <1>6

LEMMA FirstIs ==
  ASSUME NEW o, NEW amp \in Int, o.last_amp \in Int, NEW n \in Nat
  PROVE  First(o, amp, n) = Moved(Silence(n), 0, amp - o.last_amp)
<1>1. PICK c \in Int : c = amp - o.last_amp /\ 0 + c = c
  BY SMT
<1>2. Silence(n)[0] = 0
  <2>1. 0 \in 0 .. n
    BY SMT
  <2> QED
    BY Zenon, <2>1 DEF Silence
<1> QED
  BY Zenon, <1>1, <1>2 DEF First, Moved

-----------------------------------------------------------------------------
(* The squares, those of the MMC5 too.                                     *)

InDuty(o, phase) == (phase < duty(o)) # (o.control.duty_select = 3)

SquareWave(o) ==
  [states |-> 0 .. phase_range - 1,
   next |-> [x \in 0 .. phase_range - 1 |-> (x + 1) % phase_range],
   level |-> [x \in 0 .. phase_range - 1 |-> IF InDuty(o, x) THEN volume(o) ELSE 0]]

LEMMA SquareWaveIs ==
  ASSUME NEW o \in Pulse
  PROVE  IsWave(SquareWave(o)) /\ SquareWave(o).states = 0 .. phase_range - 1
<1>1. volume(o) \in Int
  BY SMT, PulseFields
<1>2. \A x \in 0 .. phase_range - 1 : (x + 1) % phase_range \in 0 .. phase_range - 1
  BY SMT DEF phase_range
<1>3. \A x \in 0 .. phase_range - 1 : (IF InDuty(o, x) THEN volume(o) ELSE 0) \in Int
  BY SMT, <1>1
<1> QED
  BY Zenon, <1>2, <1>3 DEF SquareWave, IsWave

LEMMA DutyIs ==
  ASSUME NEW o \in Pulse
  PROVE  duty(o) \in 1 .. phase_range - 1
<1>1. o.control.duty_select \in 0 .. 3
  BY SMT DEF Pulse, SquareOsc, Mmc5SquareOsc, Control
<1>2. two_to[0] = 1 /\ two_to[1] = 2 /\ two_to[2] = 4
  <2>1. /\ 0 \in Nat /\ 1 \in Nat /\ 2 \in Nat
        /\ 1 - 1 = 0 /\ 2 - 1 = 1 /\ 1 # 0 /\ 2 # 0
    BY SMT
  <2>3. 1 = 0 + 1 /\ 2 = 1 + 1
    BY SMT
  <2>2. two_to[0] = 1 /\ two_to[1] = 2 * two_to[0] /\ two_to[2] = 2 * two_to[1]
    BY Zenon, <2>1, <2>3, TwoTo
  <2> QED
    BY SMT, <2>2
<1> QED
  BY SMT, <1>1, <1>2 DEF duty, phase_range

(* The wave turns where it goes in or out of its duty.                     *)
LEMMA SquareTurns ==
  ASSUME NEW o \in Pulse, NEW x \in 0 .. phase_range - 1
  PROVE  LET y == (x + 1) % phase_range
         IN  (InDuty(o, y) <=> InDuty(o, x)) <=> ~(y = 0 \/ y = duty(o))
<1>1. PICK u \in 1 .. 7 : u = duty(o)
  <2>1. phase_range - 1 = 7
    BY SMT DEF phase_range
  <2> QED
    BY Zenon, <2>1, DutyIs
<1>2. PICK y : y = (x + 1) % phase_range
  BY Zenon
<1>3. x \in 0 .. 7 /\ (x = 7 => y = 0) /\ (x < 7 => y = x + 1)
  BY SMT, <1>2 DEF phase_range
<1>4. ((y < u) <=> (x < u)) <=> ~(y = 0 \/ y = u)
  BY SMT, <1>3
<1> QED
  BY SMT, <1>1, <1>2, <1>4 DEF InDuty

(* The delta of the loop is that to the level that the wave is at.         *)
SquareDelta(o, p) == p.delta = IF InDuty(o, p.phase) THEN volume(o) ELSE -volume(o)

LEMMA SquarePassMoves ==
  ASSUME NEW o \in Pulse, NEW n \in Nat, NEW p \in SquareLoop(o, n), NEW t \in 0 .. n,
         SquareDelta(o, p)
  PROVE  LET w == SquareWave(o)
             next == SquarePass(o, p, t)
         IN  /\ SquareDelta(o, next) /\ next.phase = w.next[p.phase]
             /\ next.deltas = Moved(p.deltas, t, w.level[next.phase] - w.level[p.phase])
<1> DEFINE w == SquareWave(o)
           y == (p.phase + 1) % phase_range
           turns == y = 0 \/ y = duty(o)
           next == SquarePass(o, p, t)
<1>1. /\ volume(o) \in Nat /\ p.phase \in 0 .. phase_range - 1 /\ p.deltas \in Deltas(n)
      /\ p.delta \in {volume(o), -volume(o)}
  BY Zenon, PulseFields DEF SquareLoop
<1>2. (InDuty(o, y) <=> InDuty(o, p.phase)) <=> ~turns
  BY Zenon, <1>1, SquareTurns
<1>3. next.phase = y /\ y \in 0 .. phase_range - 1
  <2>1. y \in 0 .. phase_range - 1
    BY SMT, <1>1 DEF phase_range
  <2> QED
    BY Zenon, <2>1 DEF SquarePass
<1>4. w.next[p.phase] = y /\ w.level[y] = (IF InDuty(o, y) THEN volume(o) ELSE 0)
      /\ w.level[p.phase] = (IF InDuty(o, p.phase) THEN volume(o) ELSE 0)
  BY Zenon, <1>1, <1>3 DEF SquareWave
<1>5. CASE turns
  <2>1. next.delta = -p.delta /\ next.deltas = Moved(p.deltas, t, -p.delta)
    BY Zenon, <1>5 DEF SquarePass, Moved
  <2>2. InDuty(o, y) <=> ~InDuty(o, p.phase)
    BY Zenon, <1>2, <1>5
  <2> HIDE DEF y, turns, next, w
  <2>3. next.delta = IF InDuty(o, y) THEN volume(o) ELSE -volume(o)
    BY SMT, <1>1, <2>1, <2>2 DEF SquareDelta
  <2>4. w.level[y] - w.level[p.phase] = -p.delta
    BY SMT, <1>1, <1>4, <2>2 DEF SquareDelta
  <2> QED
    BY Zenon, <1>3, <1>4, <2>1, <2>3, <2>4 DEF SquareDelta, y, next, w
<1>6. CASE ~turns
  <2>1. next.delta = p.delta /\ next.deltas = p.deltas
    BY Zenon, <1>6 DEF SquarePass
  <2>2. InDuty(o, y) <=> InDuty(o, p.phase)
    BY Zenon, <1>2, <1>6
  <2>3. Moved(p.deltas, t, 0) = p.deltas
    BY Zenon, <1>1, NothingMoved
  <2> HIDE DEF y, turns, next, w
  <2>4. next.delta = IF InDuty(o, y) THEN volume(o) ELSE -volume(o)
    BY Zenon, <2>1, <2>2 DEF SquareDelta
  <2>5. w.level[y] - w.level[p.phase] = 0
    BY SMT, <1>1, <1>4, <2>2
  <2> QED
    BY Zenon, <1>3, <1>4, <2>1, <2>3, <2>4, <2>5 DEF SquareDelta, y, next, w
<1> QED
  BY Zenon, <1>5, <1>6

(* A square that is heard.                                                 *)
LEMMA SquarePlays ==
  ASSUME NEW o \in Pulse, NEW n \in Nat
  PROVE  LET run == PlaySquare(o, n)
             w == SquareWave(o)
         IN  \E y \in 0 .. phase_range - 1 :
               /\ Plays(w, o.phase, o.last_amp, o.delay, timer_period(o), n, y, run.deltas)
               /\ run.osc = [o EXCEPT !.phase = y, !.last_amp = w.level[y],
                                      !.delay = PulseDelay(o, n)]
<1> DEFINE run == PlaySquare(o, n)
           w == SquareWave(o)
           period == timer_period(o)
           count == Count(o.delay, period, n)
           amp == SquareAmp(o)
           first == [phase |-> o.phase, delta |-> amp * 2 - volume(o), deltas |-> First(o, amp, n)]
<1>1. /\ o.delay \in Nat /\ period \in Nat \ {0} /\ volume(o) \in Nat /\ count \in Nat
      /\ o.phase \in 0 .. phase_range - 1 /\ o.last_amp \in Nat
  BY Zenon, PulseFields, Counting
<1>2. o.last_amp \in Int
  BY SMT, <1>1
<1>3. /\ amp = IF InDuty(o, o.phase) THEN volume(o) ELSE 0
      /\ amp \in Int
      /\ amp * 2 - volume(o) = IF InDuty(o, o.phase) THEN volume(o) ELSE -volume(o)
      /\ amp * 2 - volume(o) \in {volume(o), -volume(o)}
  BY SMT, <1>1 DEF SquareAmp, InDuty
<1>4. w.level[o.phase] = amp
  BY Zenon, <1>1, <1>3 DEF SquareWave
<1>5. /\ run.osc = [o EXCEPT !.phase = SquarePasses(o, first, n).phase,
                             !.last_amp = (SquarePasses(o, first, n).delta + volume(o)) \div 2,
                             !.delay = PulseDelay(o, n)]
      /\ run.deltas = SquarePasses(o, first, n).deltas
  BY Zenon DEF PlaySquare, SquarePasses, Passes, PulseDelay
<1> HIDE DEF amp, w
<1>6. First(o, amp, n) \in Deltas(n) /\ First(o, amp, n) = Moved(Silence(n), 0, amp - o.last_amp)
  BY Zenon, <1>2, <1>3, Firsts, FirstIs
<1>7. first \in SquareLoop(o, n)
  BY Zenon, <1>1, <1>3, <1>6 DEF SquareLoop
<1>8. SquareDelta(o, first) /\ first.phase = o.phase
      /\ first.deltas = Moved(Silence(n), 0, w.level[o.phase] - o.last_amp)
  BY Zenon, <1>3, <1>4, <1>6 DEF SquareDelta
<1> HIDE DEF first, run
<1>9. PICK f \in [0 .. count -> SquareLoop(o, n)] :
        /\ f[0] = first
        /\ \A k \in 1 .. count : f[k] = SquarePass(o, f[k - 1], o.delay + (k - 1) * period)
        /\ SquarePasses(o, first, n) = f[count]
  BY Zenon, <1>7, SquareLoops
<1> DEFINE good == {p \in SquareLoop(o, n) : SquareDelta(o, p)}
           st == [p \in good |-> p.phase]
<1>10. ASSUME NEW k \in 1 .. count, f[k - 1] \in good
       PROVE  /\ f[k] \in good /\ f[k].phase = w.next[f[k - 1].phase]
              /\ f[k].deltas = Moved(f[k - 1].deltas, o.delay + (k - 1) * period,
                                     w.level[f[k].phase] - w.level[f[k - 1].phase])
  <2>1. PICK t \in 0 .. n : t = o.delay + (k - 1) * period
    BY Zenon, <1>1, PassTimes
  <2>2. PICK p \in SquareLoop(o, n) : p = f[k - 1] /\ SquareDelta(o, p)
    BY Zenon, <1>10
  <2>3. f[k] = SquarePass(o, p, t)
    BY Zenon, <1>9, <2>1, <2>2
  <2>4. /\ SquareDelta(o, f[k]) /\ f[k].phase = w.next[p.phase]
        /\ f[k].deltas = Moved(p.deltas, t, w.level[f[k].phase] - w.level[p.phase])
    <3>1. SquareDelta(o, p)
      BY Zenon, <2>2
    <3>2. LET next == SquarePass(o, p, t)
          IN  /\ SquareDelta(o, next) /\ next.phase = w.next[p.phase]
              /\ next.deltas = Moved(p.deltas, t, w.level[next.phase] - w.level[p.phase])
      BY SMT, <3>1, SquarePassMoves DEF w
    <3> QED
      BY Zenon, <2>3, <3>2
  <2>5. f[k] \in SquareLoop(o, n)
    BY Zenon, <1>1, <1>9, Indices
  <2> QED
    BY Zenon, <2>1, <2>2, <2>4, <2>5
<1>11. f[0] \in good
  BY Zenon, <1>7, <1>8, <1>9
<1>12. \A p \in good : st[p] = p.phase
  BY Zenon
<1> DEFINE y == f[count].phase
<1> HIDE DEF good, st
<1>13. f[count] \in good
       /\ Plays(w, o.phase, o.last_amp, o.delay, period, n, y, f[count].deltas)
  <2>1. st[f[0]] = o.phase /\ f[0].deltas = Moved(Silence(n), 0, w.level[o.phase] - o.last_amp)
    BY Zenon, <1>8, <1>9, <1>11, <1>12
  <2>2. \A k \in 1 .. count :
          f[k - 1] \in good =>
            /\ f[k] \in good /\ st[f[k]] = w.next[st[f[k - 1]]]
            /\ f[k].deltas = Moved(f[k - 1].deltas, o.delay + (k - 1) * period,
                                   w.level[st[f[k]]] - w.level[st[f[k - 1]]])
    BY Zenon, <1>10, <1>12
  <2>3. f[count] \in good
        /\ Plays(w, o.phase, o.last_amp, o.delay, period, n, st[f[count]], f[count].deltas)
    BY Zenon, <1>1, <1>11, <2>1, <2>2, PassesPlay
  <2> QED
    BY Zenon, <1>12, <2>3
<1>14. y \in 0 .. phase_range - 1 /\ (f[count].delta + volume(o)) \div 2 = w.level[y]
  <2>1. y \in 0 .. phase_range - 1 /\ SquareDelta(o, f[count])
    BY Zenon, <1>13 DEF SquareLoop, good
  <2>2. w.level[y] = IF InDuty(o, y) THEN volume(o) ELSE 0
    BY Zenon, <2>1 DEF SquareWave, w
  <2> HIDE DEF y, count
  <2>3. f[count].delta = IF InDuty(o, y) THEN volume(o) ELSE -volume(o)
    BY Zenon, <2>1 DEF SquareDelta, y
  <2> QED
    BY SMT, <1>1, <2>1, <2>2, <2>3
<1> HIDE DEF y
<1>15. run.osc = [o EXCEPT !.phase = y, !.last_amp = w.level[y], !.delay = PulseDelay(o, n)]
       /\ run.deltas = f[count].deltas
  BY Zenon, <1>5, <1>9, <1>14 DEF y
<1> QED
  BY Zenon, <1>13, <1>14, <1>15 DEF run, w

-----------------------------------------------------------------------------
(* The triangle.                                                           *)

LevelAt(phase) == IF phase <= tri_range THEN tri_range - phase ELSE phase - (tri_range + 1)

TriangleWave ==
  [states |-> 1 .. tri_range * 2,
   next |-> [x \in 1 .. tri_range * 2 |-> IF x = 1 THEN tri_range * 2 ELSE x - 1],
   level |-> [x \in 1 .. tri_range * 2 |-> LevelAt(x)]]

LEMMA TriangleWaveIs ==
  /\ IsWave(TriangleWave) /\ TriangleWave.states = 1 .. tri_range * 2
  /\ \A o \in TriangleOsc : calc_amp(o) = TriangleWave.level[o.phase]
<1>1. tri_range \in Nat \ {0}
  BY Zenon, OscAssumption DEF OscAssumption
<1>2. ASSUME NEW x \in 1 .. tri_range * 2
      PROVE  (IF x = 1 THEN tri_range * 2 ELSE x - 1) \in 1 .. tri_range * 2 /\ LevelAt(x) \in Int
  BY SMT, <1>1 DEF LevelAt
<1>3. ASSUME NEW o \in TriangleOsc PROVE calc_amp(o) = TriangleWave.level[o.phase]
  <2>1. o.phase \in 1 .. tri_range * 2
    BY Zenon DEF TriangleOsc
  <2> QED
    BY Zenon, <2>1 DEF TriangleWave, calc_amp, LevelAt
<1> QED
  BY Zenon, <1>2, <1>3 DEF TriangleWave, IsWave

(* The phase that the loop's two halves of the wave stand for.             *)
PhaseOf(p) == IF p.volume < 0 THEN p.phase + tri_range ELSE p.phase

LEMMA TrianglePassMoves ==
  ASSUME NEW n \in Nat, NEW p \in TriangleLoop(n), NEW t \in 0 .. n
  PROVE  LET w == TriangleWave
             next == TrianglePass(p, t)
         IN  /\ PhaseOf(p) \in 1 .. tri_range * 2 /\ PhaseOf(next) = w.next[PhaseOf(p)]
             /\ next.deltas = Moved(p.deltas, t, w.level[PhaseOf(next)] - w.level[PhaseOf(p)])
<1> DEFINE w == TriangleWave
           next == TrianglePass(p, t)
           x == PhaseOf(p)
           y == PhaseOf(next)
<1>1. /\ p.phase \in 1 .. tri_range /\ p.volume \in {-1, 1} /\ p.deltas \in Deltas(n)
      /\ tri_range \in Nat \ {0}
  BY Zenon, OscAssumption DEF OscAssumption, TriangleLoop
<1>2. x \in 1 .. tri_range * 2
  BY SMT, <1>1 DEF PhaseOf
<1>3. next.phase = (IF p.phase = 1 THEN tri_range ELSE p.phase - 1)
      /\ next.volume = (IF p.phase = 1 THEN -p.volume ELSE p.volume)
      /\ next.deltas = IF p.phase = 1 THEN p.deltas ELSE Moved(p.deltas, t, p.volume)
  <2>1. CASE p.phase = 1
    BY Zenon, <2>1 DEF TrianglePass
  <2>2. CASE p.phase # 1
    BY Zenon, <2>2 DEF TrianglePass, TriangleLoop, Moved
  <2> QED
    BY Zenon, <2>1, <2>2
<1> HIDE DEF next
<1>4. y = (IF x = 1 THEN tri_range * 2 ELSE x - 1)
  BY SMT, <1>1, <1>3 DEF PhaseOf
<1>5. y \in 1 .. tri_range * 2
  BY SMT, <1>1, <1>2, <1>4
<1>6. LevelAt(y) - LevelAt(x) = IF p.phase = 1 THEN 0 ELSE p.volume
  BY SMT, <1>1, <1>3 DEF LevelAt, PhaseOf
<1>7. w.next[x] = y /\ w.level[x] = LevelAt(x) /\ w.level[y] = LevelAt(y)
  <2> HIDE DEF x, y
  <2> QED
    BY Zenon, <1>2, <1>4, <1>5 DEF TriangleWave
<1>8. Moved(p.deltas, t, 0) = p.deltas
  BY Zenon, <1>1, NothingMoved
<1>9. next.deltas = Moved(p.deltas, t, LevelAt(y) - LevelAt(x))
  <2> HIDE DEF x, y
  <2>1. CASE p.phase = 1
    BY Zenon, <1>3, <1>6, <1>8, <2>1
  <2>2. CASE p.phase # 1
    BY Zenon, <1>3, <1>6, <2>2
  <2> QED
    BY Zenon, <2>1, <2>2
<1> HIDE DEF x, y, w
<1> QED
  BY Zenon, <1>2, <1>7, <1>9 DEF x, y, w, next

(* A triangle that is heard.                                               *)
LEMMA TrianglePlays ==
  ASSUME NEW o \in TriangleOsc, NEW n \in Nat
  PROVE  LET run == PlayTriangle(o, n)
             w == TriangleWave
         IN  \E y \in 1 .. tri_range * 2 :
               /\ Plays(w, o.phase, o.last_amp, o.delay, o.period + 1, n, y, run.deltas)
               /\ run.osc = [o EXCEPT !.phase = y, !.last_amp = w.level[y],
                                      !.delay = DelayAfter(o.delay, o.period + 1, n)]
<1> DEFINE run == PlayTriangle(o, n)
           w == TriangleWave
           period == o.period + 1
           count == Count(o.delay, period, n)
           amp == calc_amp(o)
           falling == o.phase > tri_range
           first == [phase |-> IF falling THEN o.phase - tri_range ELSE o.phase,
                     volume |-> IF falling THEN -1 ELSE 1, deltas |-> First(o, amp, n)]
           left(phase) == [o EXCEPT !.phase = phase, !.delay = DelayAfter(o.delay, period, n)]
<1>1. /\ o.phase \in 1 .. tri_range * 2 /\ o.delay \in Nat /\ o.last_amp \in Nat
      /\ period \in Nat \ {0} /\ amp \in Nat /\ tri_range \in Nat \ {0} /\ count \in Nat
  BY Zenon, TriangleFields, Counting
<1>2. o.last_amp \in Int /\ amp \in Int /\ amp = w.level[o.phase]
  <2>1. \A x \in Nat : x \in Int
    BY SMT
  <2> QED
    BY Zenon, <1>1, <2>1, TriangleWaveIs
<1>3. LET end == TrianglePasses(o, first, n)
      IN  /\ run.osc = [left(PhaseOf(end)) EXCEPT !.last_amp = calc_amp(left(PhaseOf(end)))]
          /\ run.deltas = end.deltas
  BY Zenon DEF PlayTriangle, TrianglePasses, PhaseOf
<1> HIDE DEF amp, w
<1>4. First(o, amp, n) \in Deltas(n) /\ First(o, amp, n) = Moved(Silence(n), 0, amp - o.last_amp)
  BY Zenon, <1>2, Firsts, FirstIs
<1>5. first \in TriangleLoop(n)
  <2>1. /\ (IF falling THEN o.phase - tri_range ELSE o.phase) \in 1 .. tri_range
        /\ (IF falling THEN -1 ELSE 1) \in {-1, 1}
    BY SMT, <1>1
  <2> QED
    BY Zenon, <1>4, <2>1 DEF TriangleLoop
<1>6. PhaseOf(first) = o.phase
      /\ first.deltas = Moved(Silence(n), 0, w.level[o.phase] - o.last_amp)
  <2>1. CASE falling
    <3>1. -1 < 0 /\ (o.phase - tri_range) + tri_range = o.phase
      BY SMT, <1>1
    <3>2. first.volume = -1 /\ first.phase = o.phase - tri_range
      BY Zenon, <2>1
    <3>3. first.deltas = Moved(Silence(n), 0, w.level[o.phase] - o.last_amp)
      BY Zenon, <1>2, <1>4
    <3> HIDE DEF falling, first
    <3> QED
      BY Zenon, <3>1, <3>2, <3>3 DEF PhaseOf
  <2>2. CASE ~falling
    <3>1. ~(1 < 0)
      BY SMT
    <3>2. first.volume = 1 /\ first.phase = o.phase
      BY Zenon, <2>2
    <3>3. first.deltas = Moved(Silence(n), 0, w.level[o.phase] - o.last_amp)
      BY Zenon, <1>2, <1>4
    <3> HIDE DEF falling, first
    <3> QED
      BY Zenon, <3>1, <3>2, <3>3 DEF PhaseOf
  <2> QED
    BY Zenon, <2>1, <2>2
<1> HIDE DEF first, run, left
<1>7. PICK f \in [0 .. count -> TriangleLoop(n)] :
        /\ f[0] = first
        /\ \A k \in 1 .. count : f[k] = TrianglePass(f[k - 1], o.delay + (k - 1) * period)
        /\ TrianglePasses(o, first, n) = f[count]
  BY Zenon, <1>5, TriangleLoops
<1> DEFINE good == TriangleLoop(n)
           st == [p \in good |-> PhaseOf(p)]
<1>8. ASSUME NEW k \in 1 .. count, f[k - 1] \in good
      PROVE  /\ f[k] \in good /\ PhaseOf(f[k]) = w.next[PhaseOf(f[k - 1])]
             /\ f[k].deltas = Moved(f[k - 1].deltas, o.delay + (k - 1) * period,
                                    w.level[PhaseOf(f[k])] - w.level[PhaseOf(f[k - 1])])
  <2>1. PICK t \in 0 .. n : t = o.delay + (k - 1) * period
    BY Zenon, <1>1, PassTimes
  <2>2. PICK p \in TriangleLoop(n) : p = f[k - 1]
    BY Zenon, <1>8
  <2>3. f[k] = TrianglePass(p, t)
    BY Zenon, <1>7, <2>1, <2>2
  <2>4. LET next == TrianglePass(p, t)
        IN  /\ PhaseOf(next) = w.next[PhaseOf(p)]
            /\ next.deltas = Moved(p.deltas, t, w.level[PhaseOf(next)] - w.level[PhaseOf(p)])
    BY SMT, TrianglePassMoves DEF w
  <2>5. f[k] \in good
    BY Zenon, <1>1, <1>7, Indices
  <2> QED
    BY Zenon, <2>1, <2>2, <2>3, <2>4, <2>5
<1>9. f[0] \in good
  BY Zenon, <1>5, <1>7
<1>10. \A p \in good : st[p] = PhaseOf(p) /\ PhaseOf(p) \in 1 .. tri_range * 2
  <2>1. \A p \in good : PhaseOf(p) \in 1 .. tri_range * 2
    <3>1. 0 \in 0 .. n
      BY SMT
    <3> QED
      BY Zenon, <3>1, TrianglePassMoves
  <2> QED
    BY Zenon, <2>1
<1> DEFINE y == PhaseOf(f[count])
<1> HIDE DEF good, st
<1>11. f[count] \in good
       /\ Plays(w, o.phase, o.last_amp, o.delay, period, n, y, f[count].deltas)
  <2>1. st[f[0]] = o.phase /\ f[0].deltas = Moved(Silence(n), 0, w.level[o.phase] - o.last_amp)
    BY Zenon, <1>6, <1>7, <1>9, <1>10
  <2>2. \A k \in 1 .. count :
          f[k - 1] \in good =>
            /\ f[k] \in good /\ st[f[k]] = w.next[st[f[k - 1]]]
            /\ f[k].deltas = Moved(f[k - 1].deltas, o.delay + (k - 1) * period,
                                   w.level[st[f[k]]] - w.level[st[f[k - 1]]])
    BY Zenon, <1>8, <1>10
  <2>3. f[count] \in good
        /\ Plays(w, o.phase, o.last_amp, o.delay, period, n, st[f[count]], f[count].deltas)
    BY Zenon, <1>1, <1>9, <2>1, <2>2, PassesPlay
  <2> QED
    BY Zenon, <1>10, <2>3
<1>12. y \in 1 .. tri_range * 2
  BY Zenon, <1>10, <1>11
<1>13. run.osc = [left(y) EXCEPT !.last_amp = calc_amp(left(y))] /\ run.deltas = f[count].deltas
  BY Zenon, <1>3, <1>7
<1> HIDE DEF y
<1>14. left(y) \in TriangleOsc /\ left(y).phase = y
  <2>1. DelayAfter(o.delay, period, n) \in Nat
    BY Zenon, <1>1, Counting
  <2> QED
    BY Zenon, <1>12, <2>1 DEF TriangleOsc, left
<1>15. calc_amp(left(y)) = w.level[y]
  BY Zenon, <1>14, TriangleWaveIs DEF w
<1>16. run.osc = [o EXCEPT !.phase = y, !.last_amp = w.level[y],
                          !.delay = DelayAfter(o.delay, period, n)]
  <2>1. run.osc = [left(y) EXCEPT !.last_amp = w.level[y]]
    BY Zenon, <1>13, <1>15
  <2> QED
    BY Zenon, <2>1 DEF TriangleOsc, left
<1> QED
  BY Zenon, <1>11, <1>12, <1>13, <1>16 DEF run, w

-----------------------------------------------------------------------------
(* The noise.                                                              *)

Tap(o) == IF o.mode THEN mode_tap ELSE 1

NoiseWave(o) ==
  [states |-> Register,
   next |-> [x \in Register |-> Shifted(x, Tap(o))],
   level |-> [x \in Register |-> (x % 2) * volume(o)]]

LEMMA BitLevel ==
  ASSUME NEW x \in Int, NEW v \in Nat
  PROVE  (x % 2) * v = IF x % 2 = 1 THEN v ELSE 0
<1>1. CASE x % 2 = 1
  <2>1. 1 * v = v
    BY SMT
  <2> QED
    BY Zenon, <1>1, <2>1
<1>2. CASE x % 2 # 1
  <2>1. x % 2 = 0 /\ 0 * v = 0
    BY SMT, <1>2
  <2> QED
    BY Zenon, <1>2, <2>1
<1> QED
  BY Zenon, <1>1, <1>2

LEMMA NoiseWaveIs ==
  ASSUME NEW o \in NoiseOsc
  PROVE  IsWave(NoiseWave(o)) /\ NoiseWave(o).states = Register
<1>1. \A x \in Register : Shifted(x, Tap(o)) \in Register
  BY Zenon, ShiftedStays DEF Tap
<1>2. \A x \in Register : (x % 2) * volume(o) \in Int
  <2>1. \A x \in Register : x \in Int
    BY SMT DEF Register
  <2>2. volume(o) \in Nat
    BY Zenon, NoiseFields
  <2>3. \A x \in Int : (IF x % 2 = 1 THEN volume(o) ELSE 0) \in Int
    BY SMT, <2>2
  <2> QED
    BY ZenonT(30), <2>1, <2>2, <2>3, BitLevel
<1> QED
  BY Zenon, <1>1, <1>2 DEF NoiseWave, IsWave

(* The bits that the loop compares are the lowest now and after the shift. *)
LEMMA NoiseTurns ==
  ASSUME NEW x \in Register, NEW tap \in {1, mode_tap}
  PROVE  /\ x \in Nat /\ Shifted(x, tap) % 2 = (x \div 2) % 2
         /\ Bit(x + 1, 1) = 1 <=> (x \div 2) % 2 # x % 2
<1>1. x \in Nat /\ x \in Int
  BY SMT DEF Register
<1>2. PICK g \in Nat : two_to[noise_bits - 1] = 2 * g
  <2>1. noise_bits - 2 \in Nat /\ (noise_bits - 2) + 1 = noise_bits - 1
    BY SMT, OscAssumption DEF OscAssumption
  <2>2. two_to[noise_bits - 1] = 2 * two_to[noise_bits - 2]
    BY Zenon, <2>1, TwoTo
  <2>3. two_to[noise_bits - 2] \in Nat
    BY Zenon, <2>1, TwoTo
  <2> QED
    BY Zenon, <2>2, <2>3
<1>3. two_to[1] = 2 /\ two_to[0] = 1
  <2>1. 0 + 1 = 1 /\ 0 \in Nat /\ 2 * 1 = 2
    BY SMT
  <2> QED
    BY Zenon, <2>1, TwoTo
<1>4. Bit(x + 1, 1) = ((x + 1) \div 2) % 2
  BY Zenon, <1>3 DEF Bit
<1>5. Bit(x + 1, 1) = 1 <=> (x \div 2) % 2 # x % 2
  <2>1. ((x + 1) \div 2) % 2 = 1 <=> (x \div 2) % 2 # x % 2
    BY SMT, <1>1
  <2> QED
    BY Zenon, <1>4, <2>1
<1>6. PICK b \in {0, 1} : Shifted(x, tap) = (x \div 2) + b * (2 * g)
  <2>1. PICK w \in Nat \ {0} : w = two_to[tap]
    <3>1. tap \in Nat
      BY SMT, OscAssumption DEF OscAssumption
    <3> QED
      BY Zenon, <3>1, TwoTo
  <2>2. PICK q \in Int : q = x \div w
    BY Zenon, <1>1, <2>1, Division
  <2>3. PICK high \in {0, 1} : high = Bit(x, tap)
    <3>1. q % 2 \in {0, 1}
      BY SMT
    <3> QED
      BY Zenon, <2>1, <2>2, <3>1 DEF Bit
  <2>4. PICK low \in {0, 1} : low = Bit(x, 0)
    <3>1. x \div 1 = x /\ x % 2 \in {0, 1}
      BY SMT, <1>1
    <3> QED
      BY Zenon, <1>3, <3>1 DEF Bit
  <2>5. (high + low) % 2 \in {0, 1}
    BY SMT
  <2> QED
    BY Zenon, <1>2, <2>3, <2>4, <2>5 DEF Shifted
<1>7. ((x \div 2) + b * (2 * g)) % 2 = (x \div 2) % 2
  <2>1. CASE b = 0
    <3>1. 0 * (2 * g) = 0
      BY SMT
    <3>2. ((x \div 2) + 0) % 2 = (x \div 2) % 2
      BY SMT, <1>1
    <3> QED
      BY Zenon, <2>1, <3>1, <3>2
  <2>2. CASE b = 1
    <3>1. 1 * (2 * g) = 2 * g
      BY SMT
    <3>2. ((x \div 2) + 2 * g) % 2 = (x \div 2) % 2
      BY SMT, <1>1
    <3> QED
      BY Zenon, <2>2, <3>1, <3>2
  <2> QED
    BY Zenon, <2>1, <2>2
<1> QED
  BY Zenon, <1>1, <1>5, <1>6, <1>7

(* The delta of the loop is that to the level that the register gives.     *)
NoiseBit(o, p) == p.delta = IF p.noise % 2 = 1 THEN volume(o) ELSE -volume(o)

LEMMA NoisePassMoves ==
  ASSUME NEW o \in NoiseOsc, NEW n \in Nat, NEW p \in NoiseLoop(o, n), NEW t \in 0 .. n,
         NoiseBit(o, p)
  PROVE  LET w == NoiseWave(o)
             next == NoisePass(o, p, t)
         IN  /\ NoiseBit(o, next) /\ next.noise = w.next[p.noise]
             /\ next.deltas = Moved(p.deltas, t, w.level[next.noise] - w.level[p.noise])
<1> DEFINE w == NoiseWave(o)
           y == Shifted(p.noise, Tap(o))
           turns == Bit(p.noise + 1, 1) = 1
           next == NoisePass(o, p, t)
<1>1. /\ volume(o) \in Nat /\ p.noise \in Register /\ p.deltas \in Deltas(n)
      /\ p.delta \in {volume(o), -volume(o)}
  BY Zenon, NoiseFields DEF NoiseLoop
<1>2. Tap(o) \in {1, mode_tap} /\ y \in Register
  BY Zenon, <1>1, ShiftedStays DEF Tap
<1>3. p.noise \in Nat /\ y % 2 = (p.noise \div 2) % 2
      /\ (turns <=> (p.noise \div 2) % 2 # p.noise % 2)
  BY Zenon, <1>1, <1>2, NoiseTurns
<1>4. next.noise = y /\ next.delta = (IF turns THEN -p.delta ELSE p.delta)
      /\ next.deltas = (IF next.delta # p.delta THEN Moved(p.deltas, t, next.delta) ELSE p.deltas)
  BY Zenon DEF NoisePass, Tap, Moved
<1>5. w.next[p.noise] = y
      /\ w.level[y] = (IF y % 2 = 1 THEN volume(o) ELSE 0)
      /\ w.level[p.noise] = (IF p.noise % 2 = 1 THEN volume(o) ELSE 0)
  <2>1. y \in Int /\ p.noise \in Int
    BY SMT, <1>1, <1>2 DEF Register
  <2>2. /\ (y % 2) * volume(o) = (IF y % 2 = 1 THEN volume(o) ELSE 0)
        /\ (p.noise % 2) * volume(o) = (IF p.noise % 2 = 1 THEN volume(o) ELSE 0)
    BY Zenon, <1>1, <2>1, BitLevel
  <2> QED
    BY Zenon, <1>1, <1>2, <2>2 DEF NoiseWave
<1> HIDE DEF y, turns, next, w
<1>6. PICK a \in {0, 1}, b \in {0, 1} : a = p.noise % 2 /\ b = y % 2 /\ (turns <=> b # a)
  <2>1. p.noise % 2 \in {0, 1} /\ (p.noise \div 2) % 2 \in {0, 1}
    BY SMT, <1>3
  <2> QED
    BY Zenon, <1>3, <2>1
<1>7. p.delta = IF a = 1 THEN volume(o) ELSE -volume(o)
  BY Zenon, <1>6 DEF NoiseBit
<1>8. next.delta = IF b = 1 THEN volume(o) ELSE -volume(o)
  BY SMT, <1>1, <1>4, <1>6, <1>7
<1>9. w.level[y] - w.level[p.noise] = IF next.delta # p.delta THEN next.delta ELSE 0
  BY SMT, <1>1, <1>5, <1>6, <1>7, <1>8
<1>10. Moved(p.deltas, t, 0) = p.deltas
  BY Zenon, <1>1, NothingMoved
<1>11. next.deltas = Moved(p.deltas, t, w.level[y] - w.level[p.noise])
  BY Zenon, <1>4, <1>9, <1>10
<1>12. NoiseBit(o, next)
  BY Zenon, <1>4, <1>6, <1>8 DEF NoiseBit
<1> QED
  BY Zenon, <1>4, <1>5, <1>11, <1>12 DEF y, next, w

(* A noise that is heard.                                                  *)
LEMMA NoisePlays ==
  ASSUME NEW o \in NoiseOsc, NEW n \in Nat
  PROVE  LET run == PlayNoise(o, n)
             w == NoiseWave(o)
         IN  \E y \in Register :
               /\ Plays(w, o.noise, o.last_amp, o.delay, o.period, n, y, run.deltas)
               /\ run.osc = [o EXCEPT !.noise = y, !.last_amp = w.level[y],
                                      !.delay = NoiseDelay(o, n)]
<1> DEFINE run == PlayNoise(o, n)
           w == NoiseWave(o)
           count == Count(o.delay, o.period, n)
           amp == (o.noise % 2) * volume(o)
           first == [noise |-> o.noise, delta |-> amp * 2 - volume(o), deltas |-> First(o, amp, n)]
<1>1. /\ o.delay \in Nat /\ o.period \in Nat \ {0} /\ volume(o) \in Nat /\ count \in Nat
      /\ o.noise \in Register /\ o.last_amp \in Nat
  BY Zenon, NoiseFields, Counting
<1>2. o.last_amp \in Int /\ o.noise \in Int
  BY SMT, <1>1 DEF Register
<1>3. /\ amp = IF o.noise % 2 = 1 THEN volume(o) ELSE 0
      /\ amp = w.level[o.noise]
  BY Zenon, <1>1, <1>2, BitLevel DEF NoiseWave
<1>4. /\ run.osc = [o EXCEPT !.noise = NoisePasses(o, first, n).noise,
                             !.last_amp = (NoisePasses(o, first, n).delta + volume(o)) \div 2,
                             !.delay = NoiseDelay(o, n)]
      /\ run.deltas = NoisePasses(o, first, n).deltas
  BY Zenon DEF PlayNoise, NoisePasses, Passes, NoiseDelay
<1> HIDE DEF amp, w
<1>5. /\ amp \in Int
      /\ amp * 2 - volume(o) = IF o.noise % 2 = 1 THEN volume(o) ELSE -volume(o)
      /\ amp * 2 - volume(o) \in {volume(o), -volume(o)}
  BY SMT, <1>1, <1>3
<1>6. First(o, amp, n) \in Deltas(n) /\ First(o, amp, n) = Moved(Silence(n), 0, amp - o.last_amp)
  BY Zenon, <1>2, <1>5, Firsts, FirstIs
<1>7. first \in NoiseLoop(o, n)
  BY Zenon, <1>1, <1>5, <1>6 DEF NoiseLoop
<1>8. NoiseBit(o, first) /\ first.noise = o.noise
      /\ first.deltas = Moved(Silence(n), 0, w.level[o.noise] - o.last_amp)
  BY Zenon, <1>3, <1>5, <1>6 DEF NoiseBit
<1> HIDE DEF first, run
<1>9. PICK f \in [0 .. count -> NoiseLoop(o, n)] :
        /\ f[0] = first
        /\ \A k \in 1 .. count : f[k] = NoisePass(o, f[k - 1], o.delay + (k - 1) * o.period)
        /\ NoisePasses(o, first, n) = f[count]
  BY Zenon, <1>7, NoiseLoops
<1> DEFINE good == {p \in NoiseLoop(o, n) : NoiseBit(o, p)}
           st == [p \in good |-> p.noise]
<1>10. ASSUME NEW k \in 1 .. count, f[k - 1] \in good
       PROVE  /\ f[k] \in good /\ f[k].noise = w.next[f[k - 1].noise]
              /\ f[k].deltas = Moved(f[k - 1].deltas, o.delay + (k - 1) * o.period,
                                     w.level[f[k].noise] - w.level[f[k - 1].noise])
  <2>1. PICK t \in 0 .. n : t = o.delay + (k - 1) * o.period
    BY Zenon, <1>1, PassTimes
  <2>2. PICK p \in NoiseLoop(o, n) : p = f[k - 1] /\ NoiseBit(o, p)
    BY Zenon, <1>10
  <2>3. f[k] = NoisePass(o, p, t)
    BY Zenon, <1>9, <2>1, <2>2
  <2>4. /\ NoiseBit(o, f[k]) /\ f[k].noise = w.next[p.noise]
        /\ f[k].deltas = Moved(p.deltas, t, w.level[f[k].noise] - w.level[p.noise])
    <3>1. NoiseBit(o, p)
      BY Zenon, <2>2
    <3>2. LET next == NoisePass(o, p, t)
          IN  /\ NoiseBit(o, next) /\ next.noise = w.next[p.noise]
              /\ next.deltas = Moved(p.deltas, t, w.level[next.noise] - w.level[p.noise])
      BY SMT, <3>1, NoisePassMoves DEF w
    <3> QED
      BY Zenon, <2>3, <3>2
  <2>5. f[k] \in NoiseLoop(o, n)
    BY Zenon, <1>1, <1>9, Indices
  <2> QED
    BY Zenon, <2>1, <2>2, <2>4, <2>5
<1>11. f[0] \in good
  BY Zenon, <1>7, <1>8, <1>9
<1>12. \A p \in good : st[p] = p.noise
  BY Zenon
<1> DEFINE y == f[count].noise
<1> HIDE DEF good, st
<1>13. f[count] \in good
       /\ Plays(w, o.noise, o.last_amp, o.delay, o.period, n, y, f[count].deltas)
  <2>1. st[f[0]] = o.noise /\ f[0].deltas = Moved(Silence(n), 0, w.level[o.noise] - o.last_amp)
    BY Zenon, <1>8, <1>9, <1>11, <1>12
  <2>2. \A k \in 1 .. count :
          f[k - 1] \in good =>
            /\ f[k] \in good /\ st[f[k]] = w.next[st[f[k - 1]]]
            /\ f[k].deltas = Moved(f[k - 1].deltas, o.delay + (k - 1) * o.period,
                                   w.level[st[f[k]]] - w.level[st[f[k - 1]]])
    BY Zenon, <1>10, <1>12
  <2>3. f[count] \in good
        /\ Plays(w, o.noise, o.last_amp, o.delay, o.period, n, st[f[count]], f[count].deltas)
    BY Zenon, <1>1, <1>11, <2>1, <2>2, PassesPlay
  <2> QED
    BY Zenon, <1>12, <2>3
<1>14. y \in Register /\ (f[count].delta + volume(o)) \div 2 = w.level[y]
  <2>1. y \in Register /\ NoiseBit(o, f[count])
    BY Zenon, <1>13 DEF NoiseLoop, good
  <2>2. w.level[y] = IF y % 2 = 1 THEN volume(o) ELSE 0
    <3>1. y \in Int
      BY SMT, <2>1 DEF Register
    <3> QED
      BY Zenon, <1>1, <2>1, <3>1, BitLevel DEF NoiseWave, w
  <2> HIDE DEF y, count
  <2>3. f[count].delta = IF y % 2 = 1 THEN volume(o) ELSE -volume(o)
    BY Zenon, <2>1 DEF NoiseBit, y
  <2>4. PICK a \in BOOLEAN : a <=> y % 2 = 1
    BY Zenon
  <2>5. PICK v, l, e : v = volume(o) /\ l = w.level[y] /\ e = f[count].delta
    BY Zenon
  <2>6. v \in Nat /\ l = (IF a THEN v ELSE 0) /\ e = (IF a THEN v ELSE -v)
    BY Zenon, <1>1, <2>2, <2>3, <2>4, <2>5
  <2>7. (e + v) \div 2 = l
    BY SMT, <2>6
  <2> QED
    BY Zenon, <2>1, <2>5, <2>7
<1> HIDE DEF y
<1>15. run.osc = [o EXCEPT !.noise = y, !.last_amp = w.level[y], !.delay = NoiseDelay(o, n)]
       /\ run.deltas = f[count].deltas
  BY Zenon, <1>4, <1>9, <1>14 DEF y
<1> QED
  BY Zenon, <1>13, <1>14, <1>15 DEF run, w

-----------------------------------------------------------------------------
(* The squares of the VRC6.                                                *)

Vrc6Wave(o) ==
  [states |-> 0 .. vrc6_phases - 1,
   next |-> [x \in 0 .. vrc6_phases - 1 |-> (x + 1) % vrc6_phases],
   level |-> [x \in 0 .. vrc6_phases - 1 |-> IF x < o.duty + 1 THEN o.volume ELSE 0]]

LEMMA Vrc6WaveIs ==
  ASSUME NEW o \in Vrc6SquareOsc
  PROVE  /\ IsWave(Vrc6Wave(o)) /\ Vrc6Wave(o).states = 0 .. vrc6_phases - 1
         /\ Vrc6Playing(o) => Vrc6Amp(o) = Vrc6Wave(o).level[o.phase]
<1>1. o.phase \in 0 .. vrc6_phases - 1 /\ vrc6_phases \in Nat \ {0} /\ o.volume \in Nat
  BY Zenon, Vrc6Fields
<1>2. \A x \in 0 .. vrc6_phases - 1 : (x + 1) % vrc6_phases \in 0 .. vrc6_phases - 1
  BY SMT, <1>1
<1>3. \A x \in 0 .. vrc6_phases - 1 : (IF x < o.duty + 1 THEN o.volume ELSE 0) \in Int
  BY SMT, <1>1
<1>4. Vrc6Playing(o) => Vrc6Amp(o) = IF o.phase < o.duty + 1 THEN o.volume ELSE 0
  BY Zenon DEF Vrc6Playing, Vrc6Amp, Vrc6Volume
<1> QED
  BY Zenon, <1>1, <1>2, <1>3, <1>4 DEF Vrc6Wave, IsWave

LEMMA Vrc6PassMoves ==
  ASSUME NEW o \in Vrc6SquareOsc, NEW n \in Nat, NEW p \in Vrc6Loop(n), NEW t \in 0 .. n,
         p.last_amp = Vrc6Wave(o).level[p.phase]
  PROVE  LET w == Vrc6Wave(o)
             next == Vrc6Pass(o, p, t)
         IN  /\ next.last_amp = w.level[next.phase] /\ next.phase = w.next[p.phase]
             /\ next.deltas = Moved(p.deltas, t, w.level[next.phase] - w.level[p.phase])
<1> DEFINE w == Vrc6Wave(o)
           next == Vrc6Pass(o, p, t)
           delta(y) == IF y = 0 THEN o.volume ELSE IF y = o.duty + 1 THEN -o.volume ELSE 0
<1>1. /\ p.phase \in 0 .. vrc6_phases - 1 /\ p.deltas \in Deltas(n)
      /\ vrc6_phases \in Nat \ {0} /\ o.volume \in Nat /\ o.duty \in 0 .. vrc6_phases - 2
  BY Zenon, Vrc6Fields DEF Vrc6Loop, Vrc6SquareOsc
<1>2. PICK y \in 0 .. vrc6_phases - 1 :
        /\ y = (p.phase + 1) % vrc6_phases
        /\ p.phase = vrc6_phases - 1 => y = 0
        /\ p.phase # vrc6_phases - 1 => y = p.phase + 1
  BY SMT, <1>1
<1>3. w.next[p.phase] = y
      /\ w.level[y] = (IF y < o.duty + 1 THEN o.volume ELSE 0)
      /\ w.level[p.phase] = (IF p.phase < o.duty + 1 THEN o.volume ELSE 0)
  BY Zenon, <1>1, <1>2 DEF Vrc6Wave
<1>4. /\ next.phase = y /\ next.deltas = Moved(p.deltas, t, delta(y))
      /\ next.last_amp = IF y = 0 THEN o.volume ELSE IF y = o.duty + 1 THEN 0 ELSE p.last_amp
  BY Zenon, <1>2 DEF Vrc6Pass, Moved
<1>5. p.last_amp = w.level[p.phase]
  OBVIOUS
<1> HIDE DEF w, next
<1>8. PICK x \in Int, u \in Int, v \in Int :
        /\ x = p.phase /\ u = o.duty /\ v = o.volume
        /\ 0 <= x /\ x < vrc6_phases /\ 0 <= u /\ u < vrc6_phases - 1
  BY SMT, <1>1
<1>9. PICK a, b : a = w.level[y] /\ b = w.level[p.phase]
  BY Zenon
<1>10. a = (IF y < u + 1 THEN v ELSE 0) /\ b = (IF x < u + 1 THEN v ELSE 0)
  BY Zenon, <1>3, <1>8, <1>9
<1>11. (x = vrc6_phases - 1 => y = 0) /\ (x # vrc6_phases - 1 => y = x + 1)
  BY Zenon, <1>2, <1>8
<1>6. delta(y) = w.level[y] - w.level[p.phase]
  <2>1. (IF y = 0 THEN v ELSE IF y = u + 1 THEN -v ELSE 0) = a - b
    BY SMT, <1>1, <1>8, <1>10, <1>11
  <2> QED
    BY Zenon, <1>8, <1>9, <2>1
<1>7. next.last_amp = w.level[y]
  <2>1. (IF y = 0 THEN v ELSE IF y = u + 1 THEN 0 ELSE b) = a
    BY SMT, <1>1, <1>8, <1>10, <1>11
  <2> QED
    BY Zenon, <1>4, <1>5, <1>8, <1>9, <2>1
<1> QED
  BY Zenon, <1>3, <1>4, <1>6, <1>7 DEF w, next

(* A square that is heard.                                                 *)
LEMMA Vrc6Plays ==
  ASSUME NEW o \in Vrc6SquareOsc, NEW n \in Nat, o.output, Vrc6Playing(o)
  PROVE  LET run == RunVrc6Square(o, n)
             w == Vrc6Wave(o)
         IN  \E y \in 0 .. vrc6_phases - 1 :
               /\ Plays(w, o.phase, o.last_amp, o.delay, o.period + 1, n, y, run.deltas)
               /\ run.osc = [o EXCEPT !.phase = y, !.last_amp = w.level[y],
                                      !.delay = Vrc6Delay(o, n)]
<1> DEFINE run == RunVrc6Square(o, n)
           w == Vrc6Wave(o)
           amp == Vrc6Amp(o)
           period == o.period + 1
           count == Count(o.delay, period, n)
           first == [phase |-> o.phase, last_amp |-> amp, deltas |-> First(o, amp, n)]
<1>1. /\ o.delay \in Nat /\ period \in Nat \ {0} /\ count \in Nat
      /\ o.phase \in 0 .. vrc6_phases - 1 /\ o.last_amp \in Nat /\ amp \in Nat
  BY Zenon, Vrc6Fields, Counting
<1>2. o.last_amp \in Int /\ amp \in Int
  BY SMT, <1>1
<1>3. amp = w.level[o.phase]
  BY Zenon, Vrc6WaveIs
<1>4. /\ run.osc = [o EXCEPT !.phase = Vrc6Passes(o, first, n).phase,
                             !.last_amp = Vrc6Passes(o, first, n).last_amp,
                             !.delay = Vrc6Delay(o, n)]
      /\ run.deltas = Vrc6Passes(o, first, n).deltas
  BY Zenon DEF RunVrc6Square, Vrc6Passes, Passes, Vrc6Delay
<1> HIDE DEF amp, w
<1>5. First(o, amp, n) \in Deltas(n) /\ First(o, amp, n) = Moved(Silence(n), 0, amp - o.last_amp)
  BY Zenon, <1>2, Firsts, FirstIs
<1>6. first \in Vrc6Loop(n)
  BY Zenon, <1>1, <1>5 DEF Vrc6Loop
<1>7. first.last_amp = w.level[first.phase] /\ first.phase = o.phase
      /\ first.deltas = Moved(Silence(n), 0, w.level[o.phase] - o.last_amp)
  BY Zenon, <1>3, <1>5
<1> HIDE DEF first, run
<1>8. PICK f \in [0 .. count -> Vrc6Loop(n)] :
        /\ f[0] = first
        /\ \A k \in 1 .. count : f[k] = Vrc6Pass(o, f[k - 1], o.delay + (k - 1) * period)
        /\ Vrc6Passes(o, first, n) = f[count]
  BY Zenon, <1>6, Vrc6Loops
<1> DEFINE good == {p \in Vrc6Loop(n) : p.last_amp = w.level[p.phase]}
           st == [p \in good |-> p.phase]
<1>9. ASSUME NEW k \in 1 .. count, f[k - 1] \in good
      PROVE  /\ f[k] \in good /\ f[k].phase = w.next[f[k - 1].phase]
             /\ f[k].deltas = Moved(f[k - 1].deltas, o.delay + (k - 1) * period,
                                    w.level[f[k].phase] - w.level[f[k - 1].phase])
  <2>1. PICK t \in 0 .. n : t = o.delay + (k - 1) * period
    BY Zenon, <1>1, PassTimes
  <2>2. PICK p \in Vrc6Loop(n) : p = f[k - 1] /\ p.last_amp = w.level[p.phase]
    BY Zenon, <1>9
  <2>3. f[k] = Vrc6Pass(o, p, t)
    BY Zenon, <1>8, <2>1, <2>2
  <2>4. /\ f[k].last_amp = w.level[f[k].phase] /\ f[k].phase = w.next[p.phase]
        /\ f[k].deltas = Moved(p.deltas, t, w.level[f[k].phase] - w.level[p.phase])
    <3>1. LET next == Vrc6Pass(o, p, t)
          IN  /\ next.last_amp = w.level[next.phase] /\ next.phase = w.next[p.phase]
              /\ next.deltas = Moved(p.deltas, t, w.level[next.phase] - w.level[p.phase])
      BY SMT, <2>2, Vrc6PassMoves DEF w
    <3> QED
      BY Zenon, <2>3, <3>1
  <2>5. f[k] \in Vrc6Loop(n)
    BY Zenon, <1>1, <1>8, Indices
  <2> QED
    BY Zenon, <2>1, <2>2, <2>4, <2>5
<1>10. f[0] \in good
  BY Zenon, <1>6, <1>7, <1>8
<1>11. \A p \in good : st[p] = p.phase
  BY Zenon
<1> DEFINE y == f[count].phase
<1> HIDE DEF good, st
<1>12. f[count] \in good
       /\ Plays(w, o.phase, o.last_amp, o.delay, period, n, y, f[count].deltas)
  <2>1. st[f[0]] = o.phase /\ f[0].deltas = Moved(Silence(n), 0, w.level[o.phase] - o.last_amp)
    BY Zenon, <1>7, <1>8, <1>10, <1>11
  <2>2. \A k \in 1 .. count :
          f[k - 1] \in good =>
            /\ f[k] \in good /\ st[f[k]] = w.next[st[f[k - 1]]]
            /\ f[k].deltas = Moved(f[k - 1].deltas, o.delay + (k - 1) * period,
                                   w.level[st[f[k]]] - w.level[st[f[k - 1]]])
    BY Zenon, <1>9, <1>11
  <2>3. f[count] \in good
        /\ Plays(w, o.phase, o.last_amp, o.delay, period, n, st[f[count]], f[count].deltas)
    BY Zenon, <1>1, <1>10, <2>1, <2>2, PassesPlay
  <2> QED
    BY Zenon, <1>11, <2>3
<1>13. y \in 0 .. vrc6_phases - 1 /\ f[count].last_amp = w.level[y]
  BY Zenon, <1>12 DEF Vrc6Loop, good
<1> HIDE DEF y
<1>14. run.osc = [o EXCEPT !.phase = y, !.last_amp = w.level[y], !.delay = Vrc6Delay(o, n)]
       /\ run.deltas = f[count].deltas
  BY Zenon, <1>4, <1>8, <1>13 DEF y
<1> QED
  BY Zenon, <1>12, <1>13, <1>14 DEF run, w

-----------------------------------------------------------------------------
(* The saw.                                                                *)

SawStates == [phase : 1 .. 7, amp : 0 .. amp_range - 1, last_amp : Nat]

SawNext(o, x) ==
  LET amp == IF x.phase = 1 THEN 0 ELSE x.amp
  IN  [phase |-> IF x.phase = 1 THEN 7 ELSE x.phase - 1,
       amp |-> (amp + o.rate) % amp_range, last_amp |-> amp \div amp_step]

(* A wave whose state holds the level that it is at.                       *)
Levels(states, next) ==
  [states |-> states, next |-> next, level |-> [x \in states |-> x.last_amp]]

SawWave(o) == Levels(SawStates, [x \in SawStates |-> SawNext(o, x)])

SawState(p) == [phase |-> p.phase, amp |-> p.amp, last_amp |-> p.last_amp]

LEMMA SawPassMoves ==
  ASSUME NEW o \in SawOsc, NEW n \in Nat, NEW p \in SawLoop(n), NEW t \in 0 .. n
  PROVE  LET w == SawWave(o)
             next == SawPass(o, p, t)
         IN  /\ SawState(p) \in SawStates /\ w.level[SawState(p)] = p.last_amp
             /\ w.level[SawState(p)] \in Int
             /\ SawState(next) = w.next[SawState(p)]
             /\ next.deltas = Moved(p.deltas, t, next.last_amp - p.last_amp)
<1> DEFINE amp == IF p.phase = 1 THEN 0 ELSE p.amp
           level == amp \div amp_step
           next == SawPass(o, p, t)
<1>1. /\ p.phase \in 1 .. 7 /\ p.amp \in 0 .. amp_range - 1 /\ p.last_amp \in Nat
      /\ p.deltas \in Deltas(n) /\ amp_range \in Nat \ {0}
  BY Zenon, SawFields DEF SawLoop
<1>2. amp \in 0 .. amp_range - 1 /\ p.last_amp \in Int
  BY SMT, <1>1
<1>3. level \in Int
  <2> HIDE DEF amp
  <2> QED
    BY Zenon, <1>2, SawLevel
<1>4. SawState(p) \in SawStates
  BY Zenon, <1>1 DEF SawState, SawStates
<1>5. /\ SawState(next) = SawNext(o, SawState(p)) /\ next.last_amp = level
      /\ next.deltas = [p.deltas EXCEPT ![t] = @ + level - p.last_amp]
  BY Zenon DEF SawPass, SawState, SawNext
<1>6. next.deltas = Moved(p.deltas, t, level - p.last_amp)
  <2> HIDE DEF level
  <2>1. PICK d \in Deltas(n), a \in Int, b \in Int : d = p.deltas /\ a = level /\ b = p.last_amp
    BY Zenon, <1>1, <1>2, <1>3
  <2>2. [d EXCEPT ![t] = @ + a - b] = Moved(d, t, a - b)
    BY Zenon, MovedBy DEF Moved
  <2> QED
    BY Zenon, <1>5, <2>1, <2>2
<1>7. SawState(p).last_amp = p.last_amp
  BY Zenon DEF SawState
<1> HIDE DEF next, level
<1> QED
  BY Zenon, <1>2, <1>4, <1>5, <1>6, <1>7 DEF SawWave, Levels, next

(* Loops that begin without a transition, each of whose passes holds the   *)
(* level that it leaves the output at.                                     *)
LevelLoop(w, x, last, d, p, n, D, st, f) ==
  /\ f \in [0 .. Count(d, p, n) -> D]
  /\ f[0].deltas = Silence(n) /\ f[0].last_amp = last /\ st[f[0]] = x
  /\ \A q \in D : st[q] \in w.states /\ w.level[st[q]] = q.last_amp
  /\ \A k \in 1 .. Count(d, p, n) :
       /\ st[f[k]] = w.next[st[f[k - 1]]]
       /\ f[k].deltas = Moved(f[k - 1].deltas, d + (k - 1) * p,
                              f[k].last_amp - f[k - 1].last_amp)

LEMMA LevelsPlay ==
  ASSUME NEW w, NEW x, NEW last \in Int, NEW d \in Nat, NEW p \in Nat \ {0}, NEW n \in Nat,
         NEW D, NEW st, NEW f, LevelLoop(w, x, last, d, p, n, D, st, f)
  PROVE  LET end == f[Count(d, p, n)]
         IN  /\ Plays(w, x, last, d, p, n, st[end], end.deltas)
             /\ end \in D /\ st[end] \in w.states /\ w.level[st[end]] = end.last_amp
<1> DEFINE count == Count(d, p, n)
<1>1. count \in Nat
  BY Zenon, Counting
<1>2. \A k \in 0 .. count : f[k] \in D
  BY Zenon DEF LevelLoop
<1>3. \A q \in D : st[q] \in w.states /\ w.level[st[q]] = q.last_amp
  BY Zenon DEF LevelLoop
<1>4. f[0].deltas = Silence(n) /\ f[0].last_amp = last /\ st[f[0]] = x
  BY Zenon DEF LevelLoop
<1>5. f[0] \in D /\ w.level[x] = last
      /\ f[count] \in D /\ st[f[count]] \in w.states /\ w.level[st[f[count]]] = f[count].last_amp
  <2>1. 0 \in 0 .. count /\ count \in 0 .. count
    BY Zenon, <1>1, Indices
  <2> QED
    BY Zenon, <1>2, <1>3, <1>4, <2>1
<1>6. f[0].deltas = Moved(Silence(n), 0, w.level[x] - last)
  <2>1. last - last = 0 /\ 0 \in 0 .. n
    BY SMT
  <2>2. Silence(n) \in Deltas(n)
    BY Zenon, SilentSum
  <2>3. Moved(Silence(n), 0, 0) = Silence(n)
    <3>1. PICK z \in Deltas(n), t \in 0 .. n : z = Silence(n) /\ t = 0
      BY Zenon, <2>1, <2>2
    <3>2. Moved(z, t, 0) = z
      BY Zenon, NothingMoved
    <3> QED
      BY Zenon, <3>1, <3>2
  <2> QED
    BY Zenon, <1>4, <1>5, <2>1, <2>3
<1>7. ASSUME NEW k \in 1 .. count, f[k - 1] \in D
      PROVE  /\ f[k] \in D /\ st[f[k]] = w.next[st[f[k - 1]]]
             /\ f[k].deltas = Moved(f[k - 1].deltas, d + (k - 1) * p,
                                    w.level[st[f[k]]] - w.level[st[f[k - 1]]])
  <2>1. k \in 0 .. count /\ k - 1 \in 0 .. count
    BY Zenon, <1>1, Indices
  <2>2. w.level[st[f[k]]] = f[k].last_amp /\ w.level[st[f[k - 1]]] = f[k - 1].last_amp
    BY Zenon, <1>2, <1>3, <2>1
  <2>3. /\ st[f[k]] = w.next[st[f[k - 1]]]
        /\ f[k].deltas = Moved(f[k - 1].deltas, d + (k - 1) * p,
                               f[k].last_amp - f[k - 1].last_amp)
    BY Zenon DEF LevelLoop
  <2> QED
    BY Zenon, <1>2, <2>1, <2>2, <2>3
<1>8. Plays(w, x, last, d, p, n, st[f[count]], f[count].deltas)
  BY Zenon, <1>4, <1>5, <1>6, <1>7, PassesPlay
<1> QED
  BY Zenon, <1>5, <1>8

LEMMA SawWaveIs ==
  ASSUME NEW o \in SawOsc
  PROVE  IsWave(SawWave(o)) /\ SawWave(o).states = SawStates
<1>1. ASSUME NEW x \in SawStates PROVE SawNext(o, x) \in SawStates /\ x.last_amp \in Int
  <2> DEFINE amp == IF x.phase = 1 THEN 0 ELSE x.amp
             level == amp \div amp_step
             turned == IF x.phase = 1 THEN 7 ELSE x.phase - 1
             next == (amp + o.rate) % amp_range
  <2>1. /\ x.phase \in 1 .. 7 /\ x.last_amp \in Nat /\ x.amp \in 0 .. amp_range - 1
        /\ amp_range \in Nat \ {0} /\ o.rate \in 0 .. amp_range - 1
    BY Zenon, SawFields DEF SawStates
  <2>2. amp \in 0 .. amp_range - 1 /\ turned \in 1 .. 7 /\ x.last_amp \in Int
    BY SMT, <2>1
  <2> HIDE DEF amp, turned
  <2>3. next \in 0 .. amp_range - 1
    BY SMT, <2>1, <2>2
  <2>4. level \in Nat
    BY Zenon, <2>2, SawLevel
  <2>5. SawNext(o, x) = [phase |-> turned, amp |-> next, last_amp |-> level]
    BY Zenon DEF SawNext, amp, turned
  <2> HIDE DEF next, level
  <2> QED
    BY SMT, <2>2, <2>3, <2>4, <2>5 DEF SawStates
<1> QED
  BY Zenon, <1>1 DEF SawWave, Levels, IsWave

(* A saw that is heard.                                                    *)
LEMMA SawPlays ==
  ASSUME NEW o \in SawOsc, NEW n \in Nat, o.output, ~SawStill(o)
  PROVE  LET run == RunSaw(o, n)
             w == SawWave(o)
         IN  \E y \in SawStates :
               /\ Plays(w, SawState(o), o.last_amp, o.delay, SawPeriod(o), n, y, run.deltas)
               /\ w.level[y] = y.last_amp
               /\ run.osc = [o EXCEPT !.phase = y.phase, !.amp = y.amp, !.last_amp = y.last_amp,
                                      !.delay = SawDelay(o, n)]
<1> DEFINE run == RunSaw(o, n)
           period == SawPeriod(o)
           count == Count(o.delay, period, n)
           first == [phase |-> o.phase, amp |-> o.amp, last_amp |-> o.last_amp,
                     deltas |-> Silence(n)]
           D == SawLoop(n)
           st == [p \in D |-> SawState(p)]
<1>1. /\ o.delay \in Nat /\ period \in Nat \ {0} /\ count \in Nat /\ o.last_amp \in Nat
      /\ Silence(n) \in Deltas(n)
  BY Zenon, SawFields, Counting, SilentSum
<1>2. o.last_amp \in Int
  BY SMT, <1>1
<1>3. first \in D
  BY Zenon, <1>1, SawFields DEF SawLoop
<1>4. /\ run.osc = [o EXCEPT !.phase = SawPasses(o, first, n).phase,
                             !.amp = SawPasses(o, first, n).amp,
                             !.last_amp = SawPasses(o, first, n).last_amp,
                             !.delay = SawDelay(o, n)]
      /\ run.deltas = SawPasses(o, first, n).deltas
  BY Zenon DEF RunSaw, SawPasses, SawPeriod, Passes, SawDelay, SawStill
<1>5. first.deltas = Silence(n) /\ first.last_amp = o.last_amp /\ SawState(first) = SawState(o)
  BY Zenon DEF SawState
<1> HIDE DEF first, run
<1>6. PICK f \in [0 .. count -> D] :
        /\ f[0] = first
        /\ \A k \in 1 .. count : f[k] = SawPass(o, f[k - 1], o.delay + (k - 1) * period)
        /\ SawPasses(o, first, n) = f[count]
  BY Zenon, <1>3, SawLoops
<1> DEFINE w == SawWave(o)
<1>7. \A q \in D : st[q] = SawState(q) /\ SawState(q) \in SawStates
                   /\ w.level[SawState(q)] = q.last_amp
  <2>1. ASSUME NEW q \in D PROVE SawState(q) \in SawStates /\ SawState(q).last_amp = q.last_amp
    BY Zenon DEF SawState, SawStates, SawLoop
  <2> QED
    BY Zenon, <2>1 DEF SawWave, Levels
<1>8. w.states = SawStates /\ \A y \in SawStates : w.level[y] = y.last_amp
  BY Zenon DEF SawWave, Levels
<1> HIDE DEF st, w
<1>9. ASSUME NEW k \in 1 .. count
      PROVE  /\ st[f[k]] = w.next[st[f[k - 1]]]
             /\ f[k].deltas = Moved(f[k - 1].deltas, o.delay + (k - 1) * period,
                                    f[k].last_amp - f[k - 1].last_amp)
  <2>1. PICK t \in 0 .. n : t = o.delay + (k - 1) * period
    BY Zenon, <1>1, PassTimes
  <2>2. PICK p \in D : p = f[k - 1] /\ f[k] \in D
    <3>1. k \in 0 .. count /\ k - 1 \in 0 .. count
      BY Zenon, <1>1, Indices
    <3> QED
      BY Zenon, <1>6, <3>1
  <2>3. f[k] = SawPass(o, p, t)
    BY Zenon, <1>6, <2>1, <2>2
  <2>4. /\ SawState(SawPass(o, p, t)) = w.next[SawState(p)]
        /\ SawPass(o, p, t).deltas = Moved(p.deltas, t, SawPass(o, p, t).last_amp - p.last_amp)
    BY SMT, SawPassMoves DEF w
  <2> HIDE DEF D
  <2> QED
    BY Zenon, <1>7, <2>1, <2>2, <2>3, <2>4
<1>10. LevelLoop(w, SawState(o), o.last_amp, o.delay, period, n, D, st, f)
  <2>1. f[0].deltas = Silence(n) /\ f[0].last_amp = o.last_amp /\ st[f[0]] = SawState(o)
    BY Zenon, <1>3, <1>5, <1>6, <1>7
  <2> QED
    BY Zenon, <1>6, <1>7, <1>8, <1>9, <2>1 DEF LevelLoop
<1> DEFINE y == SawState(f[count])
<1>11. /\ Plays(w, SawState(o), o.last_amp, o.delay, period, n, y, f[count].deltas)
       /\ y \in SawStates
  <2> HIDE DEF D
  <2>1. LET end == f[Count(o.delay, period, n)]
        IN  Plays(w, SawState(o), o.last_amp, o.delay, period, n, st[end], end.deltas)
            /\ end \in D
    BY Zenon, <1>1, <1>2, <1>10, LevelsPlay
  <2> QED
    BY Zenon, <1>7, <2>1
<1>12. y.phase = f[count].phase /\ y.amp = f[count].amp /\ y.last_amp = f[count].last_amp
  BY Zenon DEF SawState
<1> HIDE DEF y
<1>13. /\ run.osc = [o EXCEPT !.phase = y.phase, !.amp = y.amp, !.last_amp = y.last_amp,
                              !.delay = SawDelay(o, n)]
       /\ run.deltas = f[count].deltas
  BY ZenonT(30), <1>4, <1>6, <1>12
<1> QED
  BY Zenon, <1>8, <1>11, <1>13 DEF run, w

-----------------------------------------------------------------------------
(* The squares of the FME-7.                                               *)

Fme7Wave(o) ==
  [states |-> {0, 1}, next |-> [x \in {0, 1} |-> 1 - x],
   level |-> [x \in {0, 1} |-> x * Fme7Volume(o)]]

LEMMA Fme7WaveIs ==
  ASSUME NEW o \in Fme7Osc
  PROVE  /\ IsWave(Fme7Wave(o)) /\ Fme7Wave(o).states = {0, 1}
         /\ \A x \in {0, 1} : Fme7Wave(o).level[x] = x * Fme7Volume(o)
         /\ Fme7Volume(o) \in Int
<1>1. Fme7Volume(o) \in Int
  BY SMT DEF Fme7Volume, Fme7Osc
<1>2. PICK v \in Int : v = Fme7Volume(o)
  BY Zenon, <1>1
<1>3. \A x \in {0, 1} : 1 - x \in {0, 1} /\ x * v \in Int
  BY SMT
<1> QED
  BY Zenon, <1>1, <1>2, <1>3 DEF Fme7Wave, IsWave

LEMMA Fme7PassMoves ==
  ASSUME NEW o \in Fme7Osc, NEW n \in Nat, NEW p \in Fme7Loop(n), NEW t \in 0 .. n
  PROVE  LET w == Fme7Wave(o)
             next == Fme7Pass(o, p, t)
         IN  /\ next.phase = w.next[p.phase]
             /\ next.deltas = Moved(p.deltas, t, w.level[next.phase] - w.level[p.phase])
<1> DEFINE w == Fme7Wave(o)
           next == Fme7Pass(o, p, t)
<1>1. PICK v \in Int : v = Fme7Volume(o)
  BY Zenon, Fme7WaveIs
<1>2. PICK x \in {0, 1} : x = p.phase
  BY Zenon DEF Fme7Loop
<1>3. 1 - x \in {0, 1} /\ v * (1 - 2 * x) = (1 - x) * v - x * v
  BY SMT
<1>4. w.next[x] = 1 - x /\ w.level[x] = x * v /\ w.level[1 - x] = (1 - x) * v
  BY Zenon, <1>1, <1>3 DEF Fme7Wave
<1>5. next.phase = 1 - x /\ next.deltas = Moved(p.deltas, t, v * (1 - 2 * x))
  BY Zenon, <1>1, <1>2 DEF Fme7Pass, Moved
<1> HIDE DEF w, next
<1> QED
  BY Zenon, <1>2, <1>3, <1>4, <1>5 DEF w, next

(* A square that has an output.                                            *)
LEMMA Fme7Plays ==
  ASSUME NEW o \in Fme7Osc, NEW n \in Nat, o.output
  PROVE  LET run == RunFme7(o, n)
             w == Fme7Wave(o)
         IN  \E y \in {0, 1} :
               /\ Plays(w, o.phase, o.last_amp, o.delay, Fme7Period(o), n, y, run.deltas)
               /\ run.osc = [o EXCEPT !.phase = y, !.last_amp = w.level[y],
                                      !.delay = Fme7Delay(o, n)]
<1> DEFINE run == RunFme7(o, n)
           w == Fme7Wave(o)
           period == Fme7Period(o)
           amp == o.phase * Fme7Volume(o)
           count == Count(o.delay, period, n)
           first == [phase |-> o.phase, deltas |-> First(o, amp, n)]
<1>1. /\ o.delay \in Nat /\ period \in Nat \ {0} /\ count \in Nat
      /\ o.phase \in {0, 1} /\ o.last_amp \in Nat
  BY Zenon, Fme7Fields, Counting
<1>2. o.last_amp \in Int
  BY SMT, <1>1
<1>3. amp = w.level[o.phase] /\ amp \in Int
  <2>1. \A x \in {0, 1} : w.level[x] = x * Fme7Volume(o) /\ w.level[x] \in Int
    BY Zenon, Fme7WaveIs DEF IsWave
  <2> HIDE DEF w
  <2> QED
    BY Zenon, <1>1, <2>1
<1>4. /\ run.osc = [o EXCEPT !.phase = Fme7Passes(o, first, n).phase,
                             !.last_amp = Fme7Passes(o, first, n).phase * Fme7Volume(o),
                             !.delay = Fme7Delay(o, n)]
      /\ run.deltas = Fme7Passes(o, first, n).deltas
  BY Zenon DEF RunFme7, Fme7Passes, Fme7Pass, Passes, Fme7Delay
<1> HIDE DEF amp, w
<1>5. First(o, amp, n) \in Deltas(n) /\ First(o, amp, n) = Moved(Silence(n), 0, amp - o.last_amp)
  BY Zenon, <1>2, <1>3, Firsts, FirstIs
<1> DEFINE good == Fme7Loop(n)
           st == [p \in good |-> p.phase]
<1>6. first \in good
  BY Zenon, <1>1, <1>5 DEF Fme7Loop
<1>7. first.phase = o.phase
      /\ first.deltas = Moved(Silence(n), 0, w.level[o.phase] - o.last_amp)
  BY Zenon, <1>3, <1>5
<1> HIDE DEF first, run
<1>8. PICK f \in [0 .. count -> good] :
        /\ f[0] = first
        /\ \A k \in 1 .. count : f[k] = Fme7Pass(o, f[k - 1], o.delay + (k - 1) * period)
        /\ Fme7Passes(o, first, n) = f[count]
  BY Zenon, <1>6, Fme7Loops
<1>9. \A p \in good : st[p] = p.phase /\ p.phase \in {0, 1}
  BY Zenon DEF Fme7Loop
<1> HIDE DEF st
<1>10. ASSUME NEW k \in 1 .. count, f[k - 1] \in good
       PROVE  /\ f[k] \in good /\ st[f[k]] = w.next[st[f[k - 1]]]
              /\ f[k].deltas = Moved(f[k - 1].deltas, o.delay + (k - 1) * period,
                                     w.level[st[f[k]]] - w.level[st[f[k - 1]]])
  <2>1. PICK t \in 0 .. n : t = o.delay + (k - 1) * period
    BY Zenon, <1>1, PassTimes
  <2>2. PICK p \in good : p = f[k - 1]
    BY Zenon, <1>10
  <2>3. f[k] = Fme7Pass(o, p, t)
    BY Zenon, <1>8, <2>1, <2>2
  <2>4. /\ f[k].phase = w.next[p.phase]
        /\ f[k].deltas = Moved(p.deltas, t, w.level[f[k].phase] - w.level[p.phase])
    <3>1. LET next == Fme7Pass(o, p, t)
          IN  /\ next.phase = w.next[p.phase]
              /\ next.deltas = Moved(p.deltas, t, w.level[next.phase] - w.level[p.phase])
      BY SMT, Fme7PassMoves DEF w
    <3> QED
      BY Zenon, <2>3, <3>1
  <2>5. f[k] \in good
    BY Zenon, <1>1, <1>8, Indices
  <2> HIDE DEF good
  <2> QED
    BY Zenon, <1>9, <2>1, <2>2, <2>4, <2>5
<1> DEFINE y == f[count].phase
<1>11. f[count] \in good
       /\ Plays(w, o.phase, o.last_amp, o.delay, period, n, y, f[count].deltas)
  <2> HIDE DEF good
  <2>1. /\ f[0] \in good /\ st[f[0]] = o.phase
        /\ f[0].deltas = Moved(Silence(n), 0, w.level[o.phase] - o.last_amp)
    BY Zenon, <1>6, <1>7, <1>8, <1>9
  <2>2. f[count] \in good
        /\ Plays(w, o.phase, o.last_amp, o.delay, period, n, st[f[count]], f[count].deltas)
    BY Zenon, <1>1, <1>10, <2>1, PassesPlay
  <2> QED
    BY Zenon, <1>9, <2>2
<1>12. y \in {0, 1} /\ y * Fme7Volume(o) = w.level[y]
  <2>1. y \in {0, 1}
    BY Zenon, <1>9, <1>11
  <2> HIDE DEF y
  <2> QED
    BY Zenon, <2>1, Fme7WaveIs DEF w
<1> HIDE DEF y
<1>13. run.osc = [o EXCEPT !.phase = y, !.last_amp = w.level[y], !.delay = Fme7Delay(o, n)]
       /\ run.deltas = f[count].deltas
  BY Zenon, <1>4, <1>8, <1>12 DEF y
<1> QED
  BY Zenon, <1>11, <1>12, <1>13 DEF run, w

-----------------------------------------------------------------------------
(* The channels of the Namco chip.                                         *)

NamcoStates == [wave_pos : 0 .. LargestWave - 1, last_amp : Nat]

NamcoNext(o, x) ==
  [wave_pos |-> IF x.wave_pos + 1 >= o.wave_size THEN 0 ELSE x.wave_pos + 1,
   last_amp |-> o.wave[x.wave_pos] * o.volume]

NamcoWave(o) == Levels(NamcoStates, [x \in NamcoStates |-> NamcoNext(o, x)])

NamcoState(p) == [wave_pos |-> p.wave_pos, last_amp |-> p.last_amp]

LEMMA NamcoWaveIs ==
  ASSUME NEW o \in NamcoOsc
  PROVE  /\ IsWave(NamcoWave(o)) /\ NamcoWave(o).states = NamcoStates
         /\ \A x \in NamcoStates : NamcoNext(o, x) \in NamcoStates
<1>1. ASSUME NEW x \in NamcoStates PROVE NamcoNext(o, x) \in NamcoStates /\ x.last_amp \in Int
  <2> DEFINE amp == o.wave[x.wave_pos] * o.volume
             pos == IF x.wave_pos + 1 >= o.wave_size THEN 0 ELSE x.wave_pos + 1
  <2>1. /\ x.wave_pos \in 0 .. LargestWave - 1 /\ x.last_amp \in Nat
        /\ o.wave[x.wave_pos] \in Nat /\ o.volume \in Nat
        /\ o.wave_size \in Nat \ {0} /\ o.wave_size <= LargestWave /\ LargestWave \in Nat \ {0}
    BY Zenon, NamcoFields, WavesFit DEF NamcoStates
  <2>2. pos \in 0 .. LargestWave - 1 /\ x.last_amp \in Int
    BY SMT, <2>1
  <2>3. amp \in Nat
    BY SMT, <2>1
  <2>4. NamcoNext(o, x) = [wave_pos |-> pos, last_amp |-> amp]
    BY Zenon DEF NamcoNext
  <2> HIDE DEF pos, amp
  <2> QED
    BY SMT, <2>2, <2>3, <2>4 DEF NamcoStates
<1> QED
  BY Zenon, <1>1 DEF NamcoWave, Levels, IsWave

LEMMA NamcoPassMoves ==
  ASSUME NEW o \in NamcoOsc, NEW n \in Nat, NEW p \in NamcoLoop(n), NEW t \in 0 .. n
  PROVE  LET next == NamcoPass(o, p, t)
         IN  /\ NamcoState(p) \in NamcoStates /\ NamcoState(p).last_amp = p.last_amp
             /\ NamcoState(next) = NamcoWave(o).next[NamcoState(p)]
             /\ next.deltas = Moved(p.deltas, t, next.last_amp - p.last_amp)
<1> DEFINE amp == o.wave[p.wave_pos] * o.volume
           next == NamcoPass(o, p, t)
<1>1. /\ p.wave_pos \in 0 .. LargestWave - 1 /\ p.last_amp \in Nat /\ p.deltas \in Deltas(n)
      /\ o.wave[p.wave_pos] \in Nat /\ o.volume \in Nat
  BY Zenon, NamcoFields DEF NamcoLoop
<1>2. amp \in Int /\ p.last_amp \in Int
  BY SMT, <1>1
<1>3. NamcoState(p) \in NamcoStates /\ NamcoState(p).last_amp = p.last_amp
  BY Zenon, <1>1 DEF NamcoState, NamcoStates
<1>4. /\ NamcoState(next) = NamcoNext(o, NamcoState(p)) /\ next.last_amp = amp
      /\ next.deltas = [p.deltas EXCEPT ![t] = @ + amp - p.last_amp]
  BY Zenon DEF NamcoPass, NamcoState, NamcoNext
<1>5. next.deltas = Moved(p.deltas, t, amp - p.last_amp)
  <2> HIDE DEF amp
  <2>1. PICK d \in Deltas(n), a \in Int, b \in Int : d = p.deltas /\ a = amp /\ b = p.last_amp
    BY Zenon, <1>1, <1>2
  <2>2. [d EXCEPT ![t] = @ + a - b] = Moved(d, t, a - b)
    BY Zenon, MovedBy DEF Moved
  <2> QED
    BY Zenon, <1>4, <2>1, <2>2
<1> HIDE DEF next, amp
<1> QED
  BY Zenon, <1>3, <1>4, <1>5 DEF NamcoWave, Levels, next

NamcoDelay(o, n) == DelayAfter(o.delay, NamcoPeriod(o), n)

(* A channel that is heard.                                                *)
LEMMA NamcoPlays ==
  ASSUME NEW o \in NamcoOsc, NEW n \in Nat, NamcoActive(o), NamcoPlaying(o)
  PROVE  LET run == RunNamco(o, n)
             w == NamcoWave(o)
         IN  \E y \in NamcoStates :
               /\ Plays(w, NamcoState(o), o.last_amp, o.delay, NamcoPeriod(o), n, y, run.deltas)
               /\ w.level[y] = y.last_amp
               /\ run.osc = [o EXCEPT !.wave_pos = y.wave_pos, !.last_amp = y.last_amp,
                                      !.delay = NamcoDelay(o, n)]
<1> DEFINE run == RunNamco(o, n)
           period == NamcoPeriod(o)
           count == Count(o.delay, period, n)
           first == [wave_pos |-> o.wave_pos, last_amp |-> o.last_amp,
                     deltas |-> Silence(n)]
           D == NamcoLoop(n)
           st == [p \in D |-> NamcoState(p)]
<1>14. o \in NamcoHeard
  BY Zenon DEF NamcoHeard
<1>1. /\ o.delay \in Nat /\ period \in Nat \ {0} /\ count \in Nat /\ o.last_amp \in Nat
      /\ Silence(n) \in Deltas(n)
  BY Zenon, <1>14, NamcoFields, NamcoPeriods, Counting, SilentSum
<1>2. o.last_amp \in Int
  BY SMT, <1>1
<1>3. first \in D
  BY Zenon, <1>1, NamcoFields DEF NamcoLoop
<1>4. /\ run.osc = [o EXCEPT !.wave_pos = NamcoPasses(o, first, n).wave_pos,
                             !.last_amp = NamcoPasses(o, first, n).last_amp,
                             !.delay = NamcoDelay(o, n)]
      /\ run.deltas = NamcoPasses(o, first, n).deltas
  BY Zenon DEF RunNamco, NamcoPasses, NamcoPeriod, Passes, NamcoDelay
<1>5. first.deltas = Silence(n) /\ first.last_amp = o.last_amp /\ NamcoState(first) = NamcoState(o)
  BY Zenon DEF NamcoState
<1> HIDE DEF first, run
<1>6. PICK f \in [0 .. count -> D] :
        /\ f[0] = first
        /\ \A k \in 1 .. count : f[k] = NamcoPass(o, f[k - 1], o.delay + (k - 1) * period)
        /\ NamcoPasses(o, first, n) = f[count]
  BY Zenon, <1>3, <1>14, NamcoLoops
<1> DEFINE w == NamcoWave(o)
<1>7. \A q \in D : st[q] = NamcoState(q) /\ NamcoState(q) \in NamcoStates
                   /\ w.level[NamcoState(q)] = q.last_amp
  <2>1. ASSUME NEW q \in D PROVE NamcoState(q) \in NamcoStates /\ NamcoState(q).last_amp = q.last_amp
    BY Zenon DEF NamcoState, NamcoStates, NamcoLoop
  <2> QED
    BY Zenon, <2>1 DEF NamcoWave, Levels
<1>8. w.states = NamcoStates /\ \A y \in NamcoStates : w.level[y] = y.last_amp
  BY Zenon DEF NamcoWave, Levels
<1> HIDE DEF st, w
<1>9. ASSUME NEW k \in 1 .. count
      PROVE  /\ st[f[k]] = w.next[st[f[k - 1]]]
             /\ f[k].deltas = Moved(f[k - 1].deltas, o.delay + (k - 1) * period,
                                    f[k].last_amp - f[k - 1].last_amp)
  <2>1. PICK t \in 0 .. n : t = o.delay + (k - 1) * period
    BY Zenon, <1>1, PassTimes
  <2>2. PICK p \in D : p = f[k - 1] /\ f[k] \in D
    <3>1. k \in 0 .. count /\ k - 1 \in 0 .. count
      BY Zenon, <1>1, Indices
    <3> QED
      BY Zenon, <1>6, <3>1
  <2>3. f[k] = NamcoPass(o, p, t)
    BY Zenon, <1>6, <2>1, <2>2
  <2>4. /\ NamcoState(NamcoPass(o, p, t)) = w.next[NamcoState(p)]
        /\ NamcoPass(o, p, t).deltas = Moved(p.deltas, t, NamcoPass(o, p, t).last_amp - p.last_amp)
    BY SMT, NamcoPassMoves DEF w
  <2> HIDE DEF D
  <2> QED
    BY Zenon, <1>7, <2>1, <2>2, <2>3, <2>4
<1>10. LevelLoop(w, NamcoState(o), o.last_amp, o.delay, period, n, D, st, f)
  <2>1. f[0].deltas = Silence(n) /\ f[0].last_amp = o.last_amp /\ st[f[0]] = NamcoState(o)
    BY Zenon, <1>3, <1>5, <1>6, <1>7
  <2> QED
    BY Zenon, <1>6, <1>7, <1>8, <1>9, <2>1 DEF LevelLoop
<1> DEFINE y == NamcoState(f[count])
<1>11. /\ Plays(w, NamcoState(o), o.last_amp, o.delay, period, n, y, f[count].deltas)
       /\ y \in NamcoStates
  <2> HIDE DEF D
  <2>1. LET end == f[Count(o.delay, period, n)]
        IN  Plays(w, NamcoState(o), o.last_amp, o.delay, period, n, st[end], end.deltas)
            /\ end \in D
    BY Zenon, <1>1, <1>2, <1>10, LevelsPlay
  <2> QED
    BY Zenon, <1>7, <2>1
<1>12. y.wave_pos = f[count].wave_pos /\ y.last_amp = f[count].last_amp
  BY Zenon DEF NamcoState
<1> HIDE DEF y
<1>13. /\ run.osc = [o EXCEPT !.wave_pos = y.wave_pos, !.last_amp = y.last_amp,
                              !.delay = NamcoDelay(o, n)]
       /\ run.deltas = f[count].deltas
  BY Zenon, <1>4, <1>6, <1>12
<1> QED
  BY Zenon, <1>8, <1>11, <1>13 DEF run, w

-----------------------------------------------------------------------------
(* The VRC7.                                                               *)

Vrc7States == [turn : {0, 1}, last_amp : Nat]

Vrc7Next(o, x) == [turn |-> 1 - x.turn, last_amp |-> OpllAmp(o.key_on, x.turn)]

Vrc7Wave(o) == Levels(Vrc7States, [x \in Vrc7States |-> Vrc7Next(o, x)])

Vrc7At(p) == [turn |-> p.turn, last_amp |-> p.last_amp]

LEMMA Vrc7WaveIs ==
  ASSUME NEW o \in Vrc7State
  PROVE  IsWave(Vrc7Wave(o)) /\ Vrc7Wave(o).states = Vrc7States
<1>1. ASSUME NEW x \in Vrc7States PROVE Vrc7Next(o, x) \in Vrc7States /\ x.last_amp \in Int
  <2> DEFINE amp == OpllAmp(o.key_on, x.turn)
             turn == 1 - x.turn
  <2>1. x.turn \in {0, 1} /\ x.last_amp \in Nat
    BY Zenon DEF Vrc7States
  <2>2. turn \in {0, 1} /\ amp \in Nat /\ x.last_amp \in Int
    BY SMT, <2>1 DEF OpllAmp
  <2>3. Vrc7Next(o, x) = [turn |-> turn, last_amp |-> amp]
    BY Zenon DEF Vrc7Next
  <2> HIDE DEF turn, amp
  <2> QED
    BY SMT, <2>2, <2>3 DEF Vrc7States
<1> QED
  BY Zenon, <1>1 DEF Vrc7Wave, Levels, IsWave

LEMMA Vrc7PassMoves ==
  ASSUME NEW o \in Vrc7State, NEW n \in Nat, NEW p \in Vrc7Loop(n), NEW t \in 0 .. n
  PROVE  LET next == Vrc7Pass(o, p, t)
         IN  /\ Vrc7At(p) \in Vrc7States /\ Vrc7At(p).last_amp = p.last_amp
             /\ Vrc7At(next) = Vrc7Wave(o).next[Vrc7At(p)]
             /\ next.deltas = Moved(p.deltas, t, next.last_amp - p.last_amp)
<1> DEFINE amp == OpllAmp(o.key_on, p.turn)
           next == Vrc7Pass(o, p, t)
<1>1. p.turn \in {0, 1} /\ p.last_amp \in Nat /\ p.deltas \in Deltas(n)
  BY Zenon DEF Vrc7Loop
<1>2. amp \in Int /\ p.last_amp \in Int
  BY SMT, <1>1 DEF OpllAmp
<1>3. Vrc7At(p) \in Vrc7States /\ Vrc7At(p).last_amp = p.last_amp
  BY Zenon, <1>1 DEF Vrc7At, Vrc7States
<1>4. /\ Vrc7At(next) = Vrc7Next(o, Vrc7At(p)) /\ next.last_amp = amp
      /\ next.deltas = [p.deltas EXCEPT ![t] = @ + amp - p.last_amp]
  BY Zenon DEF Vrc7Pass, Vrc7At, Vrc7Next
<1>5. next.deltas = Moved(p.deltas, t, amp - p.last_amp)
  <2> HIDE DEF amp
  <2>1. PICK d \in Deltas(n), a \in Int, b \in Int : d = p.deltas /\ a = amp /\ b = p.last_amp
    BY Zenon, <1>1, <1>2
  <2>2. [d EXCEPT ![t] = @ + a - b] = Moved(d, t, a - b)
    BY Zenon, MovedBy DEF Moved
  <2> QED
    BY Zenon, <1>4, <2>1, <2>2
<1> HIDE DEF next, amp
<1> QED
  BY Zenon, <1>3, <1>4, <1>5 DEF Vrc7Wave, Levels, next

(* The synthesizer, whether it has an output or not.                       *)
LEMMA Vrc7Plays ==
  ASSUME NEW o \in Vrc7State, NEW n \in Nat
  PROVE  LET run == RunVrc7(o, n)
             w == Vrc7Wave(o)
         IN  \E y \in Vrc7States :
               /\ Plays(w, Vrc7At(o), o.last_amp, o.delay, fm_period, n, y, run.deltas)
               /\ w.level[y] = y.last_amp
               /\ run.osc = [o EXCEPT !.turn = y.turn, !.last_amp = y.last_amp,
                                      !.delay = DelayAfter(o.delay, fm_period, n)]
<1> DEFINE run == RunVrc7(o, n)
           period == fm_period
           count == Count(o.delay, period, n)
           first == [turn |-> o.turn, last_amp |-> o.last_amp,
                     deltas |-> Silence(n)]
           D == Vrc7Loop(n)
           st == [p \in D |-> Vrc7At(p)]
<1>1. /\ o.delay \in Nat /\ period \in Nat \ {0} /\ count \in Nat /\ o.last_amp \in Nat
      /\ Silence(n) \in Deltas(n)
  BY Zenon, Vrc7Fields, Counting, SilentSum
<1>2. o.last_amp \in Int
  BY SMT, <1>1
<1>3. first \in D
  BY Zenon, <1>1, Vrc7Fields DEF Vrc7Loop
<1>4. /\ run.osc = [o EXCEPT !.turn = Vrc7Passes(o, first, n).turn,
                             !.last_amp = Vrc7Passes(o, first, n).last_amp,
                             !.delay = DelayAfter(o.delay, fm_period, n)]
      /\ run.deltas = Vrc7Passes(o, first, n).deltas
  BY Zenon DEF RunVrc7, Vrc7Passes, Passes
<1>5. first.deltas = Silence(n) /\ first.last_amp = o.last_amp /\ Vrc7At(first) = Vrc7At(o)
  BY Zenon DEF Vrc7At
<1> HIDE DEF first, run
<1>6. PICK f \in [0 .. count -> D] :
        /\ f[0] = first
        /\ \A k \in 1 .. count : f[k] = Vrc7Pass(o, f[k - 1], o.delay + (k - 1) * period)
        /\ Vrc7Passes(o, first, n) = f[count]
  BY Zenon, <1>3, Vrc7Loops
<1> DEFINE w == Vrc7Wave(o)
<1>7. \A q \in D : st[q] = Vrc7At(q) /\ Vrc7At(q) \in Vrc7States
                   /\ w.level[Vrc7At(q)] = q.last_amp
  <2>1. ASSUME NEW q \in D PROVE Vrc7At(q) \in Vrc7States /\ Vrc7At(q).last_amp = q.last_amp
    BY Zenon DEF Vrc7At, Vrc7States, Vrc7Loop
  <2> QED
    BY Zenon, <2>1 DEF Vrc7Wave, Levels
<1>8. w.states = Vrc7States /\ \A y \in Vrc7States : w.level[y] = y.last_amp
  BY Zenon DEF Vrc7Wave, Levels
<1> HIDE DEF st, w
<1>9. ASSUME NEW k \in 1 .. count
      PROVE  /\ st[f[k]] = w.next[st[f[k - 1]]]
             /\ f[k].deltas = Moved(f[k - 1].deltas, o.delay + (k - 1) * period,
                                    f[k].last_amp - f[k - 1].last_amp)
  <2>1. PICK t \in 0 .. n : t = o.delay + (k - 1) * period
    BY Zenon, <1>1, PassTimes
  <2>2. PICK p \in D : p = f[k - 1] /\ f[k] \in D
    <3>1. k \in 0 .. count /\ k - 1 \in 0 .. count
      BY Zenon, <1>1, Indices
    <3> QED
      BY Zenon, <1>6, <3>1
  <2>3. f[k] = Vrc7Pass(o, p, t)
    BY Zenon, <1>6, <2>1, <2>2
  <2>4. /\ Vrc7At(Vrc7Pass(o, p, t)) = w.next[Vrc7At(p)]
        /\ Vrc7Pass(o, p, t).deltas = Moved(p.deltas, t, Vrc7Pass(o, p, t).last_amp - p.last_amp)
    BY SMT, Vrc7PassMoves DEF w
  <2> HIDE DEF D
  <2> QED
    BY Zenon, <1>7, <2>1, <2>2, <2>3, <2>4
<1>10. LevelLoop(w, Vrc7At(o), o.last_amp, o.delay, period, n, D, st, f)
  <2>1. f[0].deltas = Silence(n) /\ f[0].last_amp = o.last_amp /\ st[f[0]] = Vrc7At(o)
    BY Zenon, <1>3, <1>5, <1>6, <1>7
  <2> QED
    BY Zenon, <1>6, <1>7, <1>8, <1>9, <2>1 DEF LevelLoop
<1> DEFINE y == Vrc7At(f[count])
<1>11. /\ Plays(w, Vrc7At(o), o.last_amp, o.delay, period, n, y, f[count].deltas)
       /\ y \in Vrc7States
  <2> HIDE DEF D
  <2>1. LET end == f[Count(o.delay, period, n)]
        IN  Plays(w, Vrc7At(o), o.last_amp, o.delay, period, n, st[end], end.deltas)
            /\ end \in D
    BY Zenon, <1>1, <1>2, <1>10, LevelsPlay
  <2> QED
    BY Zenon, <1>7, <2>1
<1>12. y.turn = f[count].turn /\ y.last_amp = f[count].last_amp
  BY Zenon DEF Vrc7At
<1> HIDE DEF y
<1>13. /\ run.osc = [o EXCEPT !.turn = y.turn, !.last_amp = y.last_amp,
                              !.delay = DelayAfter(o.delay, fm_period, n)]
       /\ run.deltas = f[count].deltas
  BY Zenon, <1>4, <1>6, <1>12
<1> QED
  BY Zenon, <1>8, <1>11, <1>13 DEF run, w

-----------------------------------------------------------------------------
(* A run ends at the level of the wave, and its deltas lead to it.         *)

(* The deltas lead from the level a to the level b.                        *)
Leads(a, deltas, b) == b = a + Total(deltas)

Adds(o, run) == Leads(o.last_amp, run.deltas, run.osc.last_amp)

LEMMA FirstLeads ==
  ASSUME NEW n \in Nat, NEW amp \in Int, NEW o, o.last_amp \in Int
  PROVE  Leads(o.last_amp, First(o, amp, n), amp)
<1>1. PICK a \in Int : a = o.last_amp
  OBVIOUS
<1>2. Total(First(o, amp, n)) = amp - o.last_amp
  BY Zenon, SumOfFirst
<1>3. amp = a + (amp - a)
  BY SMT
<1> QED
  BY Zenon, <1>1, <1>2, <1>3 DEF Leads

LEMMA SilenceLeads ==
  ASSUME NEW n \in Nat, NEW a \in Int
  PROVE  Leads(a, Silence(n), a)
<1>1. a = a + 0
  BY SMT
<1> QED
  BY Zenon, <1>1, SilentSum DEF Leads

(* A run of a wave, from any state.                                        *)
PlayedFrom(w, x, a, d, p, n, y, deltas) ==
  /\ IsWave(w) /\ x \in w.states /\ a \in Int /\ d \in Nat /\ p \in Nat \ {0} /\ n \in Nat
  /\ Plays(w, x, a, d, p, n, y, deltas)

LEMMA PlaysLeads ==
  ASSUME NEW w, NEW x, NEW a, NEW d, NEW p, NEW n, NEW y, NEW deltas,
         PlayedFrom(w, x, a, d, p, n, y, deltas)
  PROVE  /\ y \in w.states /\ w.level[y] \in Int /\ deltas \in Deltas(n)
         /\ Leads(a, deltas, w.level[y])
<1>1. /\ IsWave(w) /\ x \in w.states /\ a \in Int /\ d \in Nat /\ p \in Nat \ {0} /\ n \in Nat
      /\ Plays(w, x, a, d, p, n, y, deltas)
  BY Zenon DEF PlayedFrom
<1> QED
  BY SMT, <1>1, PlaysTo DEF Leads

(* What the wave of a square depends on besides the phase.                 *)
SamePulse(o, x) ==
  /\ x.control = o.control /\ x.length_counter = o.length_counter /\ x.kind = o.kind
  /\ x.envelope = o.envelope /\ x.sweep = o.sweep /\ x.period = o.period

LEMMA SamePulseIs ==
  ASSUME NEW o, NEW x, SamePulse(o, x)
  PROVE  /\ Audible(x) <=> Audible(o)
         /\ duty(x) = duty(o) /\ volume(x) = volume(o)
<1>2. duty(x) = duty(o) /\ volume(x) = volume(o)
  BY Zenon DEF duty, volume, SamePulse
<1>3. Audible(x) <=> Audible(o)
  BY Zenon, <1>2 DEF Audible, SamePulse
<1> QED
  BY Zenon, <1>2, <1>3

PulseWave(o) == IF Audible(o) THEN SquareAmp(o) ELSE 0

LEMMA SquareFollows ==
  ASSUME NEW o \in Pulse, NEW n \in Nat, o.output, NEW run, run = RunSquare(o, n)
  PROVE  run.osc.last_amp = PulseWave(run.osc) /\ Adds(o, run)
<1>1. /\ o.delay \in Nat /\ timer_period(o) \in Nat \ {0} /\ o.phase \in 0 .. phase_range - 1
      /\ o.last_amp \in Nat
  BY Zenon, PulseFields
<1>2. PICK a \in Int : a = o.last_amp
  BY SMT, <1>1
<1>3. PICK w : w = SquareWave(o)
  OBVIOUS
<1>4. PICK zero \in Int : zero = 0
  BY SMT
<1>5. CASE ~Audible(o)
  <2>1. run.osc = [maintain_phase(o, n) EXCEPT !.last_amp = zero] /\ run.deltas = First(o, zero, n)
    BY Zenon, <1>4, <1>5 DEF RunSquare
  <2>2. PICK phase, delay : maintain_phase(o, n) = [o EXCEPT !.phase = phase, !.delay = delay]
    BY Zenon DEF maintain_phase
  <2>3. SamePulse(o, run.osc) /\ run.osc.last_amp = zero
    <3>1. PICK x : x = run.osc
      OBVIOUS
    <3>2. x = [[o EXCEPT !.phase = phase, !.delay = delay] EXCEPT !.last_amp = zero]
      BY Zenon, <2>1, <2>2, <3>1
    <3>3. SamePulse(o, x) /\ x.last_amp = zero
      BY SMT, <3>2 DEF Pulse, SquareOsc, Mmc5SquareOsc, SamePulse
    <3> QED
      BY Zenon, <3>1, <3>3
  <2>4. ~Audible(run.osc)
    BY Zenon, <1>5, <2>3, SamePulseIs
  <2>5. Leads(o.last_amp, First(o, zero, n), zero)
    BY Zenon, <1>2, <1>4, FirstLeads
  <2> QED
    BY Zenon, <1>2, <1>4, <2>1, <2>3, <2>4, <2>5 DEF PulseWave, Adds
<1>6. CASE Audible(o)
  <2>1. run = PlaySquare(o, n)
    BY Zenon, <1>6 DEF RunSquare
  <2>2. PICK y \in 0 .. phase_range - 1 :
          /\ Plays(w, o.phase, o.last_amp, o.delay, timer_period(o), n, y, run.deltas)
          /\ run.osc = [o EXCEPT !.phase = y, !.last_amp = w.level[y], !.delay = PulseDelay(o, n)]
    BY ZenonT(30), <1>3, <1>6, <2>1, SquarePlays
  <2>3. Leads(o.last_amp, run.deltas, w.level[y])
    <3>1. IsWave(w) /\ o.phase \in w.states
      BY Zenon, <1>1, <1>3, SquareWaveIs
    <3>2. PlayedFrom(w, o.phase, o.last_amp, o.delay, timer_period(o), n, y, run.deltas)
      BY Zenon, <1>1, <1>2, <2>2, <3>1 DEF PlayedFrom
    <3> QED
      BY Zenon, <3>2, PlaysLeads
  <2>4. PICK level, delay, x :
          level = w.level[y] /\ delay = PulseDelay(o, n) /\ x = run.osc
    OBVIOUS
  <2>5. SamePulse(o, x) /\ x.phase = y /\ x.last_amp = level
    <3>1. x = [o EXCEPT !.phase = y, !.last_amp = level, !.delay = delay]
      BY Zenon, <2>2, <2>4
    <3> QED
      BY SMT, <3>1 DEF Pulse, SquareOsc, Mmc5SquareOsc, SamePulse
  <2>6. level = IF InDuty(o, y) THEN volume(o) ELSE 0
    BY Zenon, <1>3, <2>2, <2>4 DEF SquareWave
  <2>7. (Audible(x) <=> Audible(o)) /\ duty(x) = duty(o) /\ volume(x) = volume(o)
    BY Zenon, <2>5, SamePulseIs
  <2>8. SquareAmp(x) = level
    BY Zenon, <2>5, <2>6, <2>7 DEF SquareAmp, InDuty, SamePulse
  <2> QED
    BY Zenon, <1>2, <1>6, <2>3, <2>4, <2>5, <2>7, <2>8 DEF PulseWave, Adds
<1> QED
  BY Zenon, <1>5, <1>6

LEMMA TriangleFollows ==
  ASSUME NEW o \in TriangleOsc, NEW n \in Nat, o.output, NEW run, run = RunTriangle(o, n)
  PROVE  run.osc.last_amp = calc_amp(run.osc) /\ Adds(o, run)
<1>1. /\ o.phase \in 1 .. tri_range * 2 /\ o.delay \in Nat /\ o.last_amp \in Nat
      /\ o.period + 1 \in Nat \ {0} /\ calc_amp(o) \in Nat
  BY Zenon, TriangleFields
<1>2. PICK a \in Int, amp \in Int : a = o.last_amp /\ amp = calc_amp(o)
  BY SMT, <1>1
<1>3. PICK w : w = TriangleWave
  OBVIOUS
<1>5. CASE ~Sounding(o)
  <2>1. /\ run.osc = [o EXCEPT !.last_amp = calc_amp(o), !.delay = 0]
        /\ run.deltas = First(o, calc_amp(o), n)
    BY Zenon, <1>5 DEF RunTriangle
  <2>2. run.osc.last_amp = calc_amp(o) /\ run.osc.phase = o.phase
    BY ZenonT(30), <2>1 DEF TriangleOsc
  <2>3. calc_amp(run.osc) = calc_amp(o)
    BY Zenon, <2>2 DEF calc_amp
  <2>4. Leads(o.last_amp, First(o, calc_amp(o), n), calc_amp(o))
    BY Zenon, <1>2, FirstLeads
  <2> QED
    BY Zenon, <1>2, <2>1, <2>2, <2>3, <2>4 DEF Adds
<1>6. CASE Sounding(o)
  <2>1. run = PlayTriangle(o, n)
    BY Zenon, <1>6 DEF RunTriangle
  <2>2. PICK y \in 1 .. tri_range * 2 :
          /\ Plays(w, o.phase, o.last_amp, o.delay, o.period + 1, n, y, run.deltas)
          /\ run.osc = [o EXCEPT !.phase = y, !.last_amp = w.level[y],
                                 !.delay = DelayAfter(o.delay, o.period + 1, n)]
    <3>1. \E y \in 1 .. tri_range * 2 :
            LET play == PlayTriangle(o, n)
            IN  /\ Plays(TriangleWave, o.phase, o.last_amp, o.delay, o.period + 1, n, y, play.deltas)
                /\ play.osc = [o EXCEPT !.phase = y, !.last_amp = TriangleWave.level[y],
                                        !.delay = DelayAfter(o.delay, o.period + 1, n)]
      BY Zenon, <1>6, TrianglePlays
    <3> QED
      BY Zenon, <1>3, <2>1, <3>1
  <2>3. Leads(o.last_amp, run.deltas, w.level[y])
    <3>1. IsWave(w) /\ o.phase \in w.states
      BY Zenon, <1>1, <1>3, TriangleWaveIs
    <3>2. PlayedFrom(w, o.phase, o.last_amp, o.delay, o.period + 1, n, y, run.deltas)
      BY Zenon, <1>1, <1>2, <2>2, <3>1 DEF PlayedFrom
    <3> QED
      BY Zenon, <3>2, PlaysLeads
  <2>4. run.osc.phase = y /\ run.osc.last_amp = w.level[y]
    <3>1. PICK x, level, delay : /\ x = run.osc /\ level = w.level[y]
                                 /\ delay = DelayAfter(o.delay, o.period + 1, n)
      OBVIOUS
    <3>2. x = [o EXCEPT !.phase = y, !.last_amp = level, !.delay = delay]
      BY Zenon, <2>2, <3>1
    <3>3. x.phase = y /\ x.last_amp = level
      BY SMT, <3>2 DEF TriangleOsc
    <3> QED
      BY Zenon, <3>1, <3>3
  <2>5. w.level[y] = LevelAt(y)
    BY Zenon, <1>3, <2>2 DEF TriangleWave
  <2>6. calc_amp(run.osc) = w.level[y]
    BY Zenon, <2>4, <2>5 DEF calc_amp, LevelAt
  <2> QED
    BY Zenon, <1>2, <2>3, <2>4, <2>6 DEF Adds
<1> QED
  BY Zenon, <1>5, <1>6

SameVolume(o, x) ==
  x.control = o.control /\ x.length_counter = o.length_counter /\ x.envelope = o.envelope

LEMMA SameVolumeIs == \A o, x : SameVolume(o, x) => volume(x) = volume(o)
BY Zenon DEF SameVolume, volume

LEMMA NoiseFollows ==
  ASSUME NEW o \in NoiseOsc, NEW n \in Nat, o.output, NEW run, run = RunNoise(o, n)
  PROVE  run.osc.last_amp = (run.osc.noise % 2) * volume(run.osc) /\ Adds(o, run)
<1>1. /\ o.delay \in Nat /\ o.period \in Nat \ {0} /\ o.noise \in Register
      /\ o.last_amp \in Nat /\ volume(o) \in Nat
  BY Zenon, NoiseFields
<1>2. /\ \E a \in Int : a = o.last_amp
      /\ \A x \in Register : x \in Int
  BY SMT, <1>1 DEF Register
<1>3. PICK a \in Int : a = o.last_amp
  BY Zenon, <1>2
<1>7. PICK w : w = NoiseWave(o)
  OBVIOUS
<1>8. PICK zero \in Int : zero = 0
  BY SMT
<1>9. PICK x : x = run.osc
  OBVIOUS
<1>4. CASE volume(o) = 0
  <2>1. run = SilentNoise(o, n)
    BY Zenon, <1>4 DEF RunNoise
  <2>2. PICK noise \in Register :
          \E delay : x = [o EXCEPT !.noise = noise, !.last_amp = zero, !.delay = delay]
    <3>1. (IF n > o.delay /\ ~o.mode THEN Shifted(o.noise, 1) ELSE o.noise) \in Register
      <4>1. PICK tap \in {1, mode_tap} : tap = 1
        BY Zenon
      <4>2. Shifted(o.noise, tap) \in Register
        BY Zenon, <1>1, <4>1, ShiftedStays
      <4> QED
        BY Zenon, <1>1, <4>1, <4>2
    <3>2. PICK noise \in Register :
            noise = IF n > o.delay /\ ~o.mode THEN Shifted(o.noise, 1) ELSE o.noise
      BY Zenon, <3>1
    <3>3. x = [o EXCEPT !.noise = noise, !.last_amp = zero, !.delay = NoiseDelay(o, n)]
      <4>1. SilentNoise(o, n).osc
              = [o EXCEPT !.noise = IF n > o.delay /\ ~o.mode THEN Shifted(o.noise, 1) ELSE o.noise,
                          !.last_amp = 0, !.delay = DelayAfter(o.delay, o.period, n)]
        BY SMT DEF SilentNoise, NoiseOsc
      <4> QED
        BY Zenon, <1>8, <1>9, <2>1, <3>2, <4>1 DEF NoiseDelay
    <3> QED
      BY Zenon, <3>2, <3>3
  <2>3. x.noise = noise /\ x.last_amp = zero /\ volume(x) = 0
    <3>1. x.noise = noise /\ x.last_amp = zero /\ SameVolume(o, x)
      BY SMT, <2>2 DEF NoiseOsc, SameVolume
    <3> QED
      BY Zenon, <1>4, <3>1, SameVolumeIs
  <2>4. 0 = (noise % 2) * 0
    <3>1. noise \in Int
      BY Zenon, <1>2
    <3> QED
      BY SMT, <3>1
  <2>5. run.deltas = First(o, zero, n)
    <3>1. SilentNoise(o, n).deltas = First(o, 0, n)
      BY Zenon DEF SilentNoise
    <3> QED
      BY Zenon, <1>8, <2>1, <3>1
  <2>6. Leads(o.last_amp, First(o, zero, n), zero)
    BY Zenon, <1>3, <1>8, FirstLeads
  <2> QED
    BY Zenon, <1>3, <1>8, <1>9, <2>3, <2>4, <2>5, <2>6 DEF Adds
<1>5. CASE volume(o) # 0
  <2>1. run = PlayNoise(o, n)
    BY Zenon, <1>5 DEF RunNoise
  <2>2. PICK y \in Register :
          /\ Plays(w, o.noise, o.last_amp, o.delay, o.period, n, y, run.deltas)
          /\ run.osc = [o EXCEPT !.noise = y, !.last_amp = w.level[y], !.delay = NoiseDelay(o, n)]
    BY ZenonT(30), <1>7, <2>1, NoisePlays
  <2>3. Leads(o.last_amp, run.deltas, w.level[y])
    <3>1. IsWave(w) /\ o.noise \in w.states
      BY Zenon, <1>1, <1>7, NoiseWaveIs
    <3>2. PlayedFrom(w, o.noise, o.last_amp, o.delay, o.period, n, y, run.deltas)
      BY Zenon, <1>1, <1>3, <2>2, <3>1 DEF PlayedFrom
    <3> QED
      BY Zenon, <3>2, PlaysLeads
  <2>4. w.level[y] = (y % 2) * volume(o)
    BY Zenon, <1>7, <2>2 DEF NoiseWave
  <2>5. PICK level, delay : level = w.level[y] /\ delay = NoiseDelay(o, n)
    OBVIOUS
  <2>6. x.noise = y /\ x.last_amp = level /\ volume(x) = volume(o)
    <3>1. x = [o EXCEPT !.noise = y, !.last_amp = level, !.delay = delay]
      BY Zenon, <1>9, <2>2, <2>5
    <3>2. x.noise = y /\ x.last_amp = level /\ SameVolume(o, x)
      BY SMT, <3>1 DEF NoiseOsc, SameVolume
    <3> QED
      BY Zenon, <3>2, SameVolumeIs
  <2> QED
    BY Zenon, <1>3, <1>9, <2>3, <2>4, <2>5, <2>6 DEF Adds
<1> QED
  BY Zenon, <1>4, <1>5

LEMMA UnheardAdds ==
  ASSUME NEW o, o.last_amp \in Int, NEW n \in Nat
  PROVE  Adds(o, Unheard(o, n))
<1>1. Unheard(o, n).osc = o /\ Unheard(o, n).deltas = Silence(n)
  BY Zenon DEF Unheard
<1> QED
  BY Zenon, <1>1, SilenceLeads DEF Adds

-----------------------------------------------------------------------------
(* The oscillators of the cartridges.                                      *)

SameVrc6(o, x) ==
  /\ x.gate = o.gate /\ x.duty = o.duty /\ x.enabled = o.enabled /\ x.volume = o.volume
  /\ x.period = o.period

LEMMA SameVrc6Is ==
  ASSUME NEW o, NEW x, SameVrc6(o, x)
  PROVE  /\ Vrc6Volume(x) = Vrc6Volume(o)
         /\ Vrc6Amp(x) = IF o.gate \/ x.phase < o.duty + 1 THEN Vrc6Volume(o) ELSE 0
<1>1. Vrc6Volume(x) = Vrc6Volume(o)
  BY Zenon DEF Vrc6Volume, SameVrc6
<1> QED
  BY Zenon, <1>1 DEF Vrc6Amp, SameVrc6

LEMMA Vrc6Follows ==
  ASSUME NEW o \in Vrc6SquareOsc, NEW n \in Nat, o.output, NEW run, run = RunVrc6Square(o, n)
  PROVE  run.osc.last_amp = Vrc6Amp(run.osc) /\ Adds(o, run)
<1>1. /\ o.phase \in 0 .. vrc6_phases - 1 /\ o.last_amp \in Nat /\ o.delay \in Nat
      /\ o.period + 1 \in Nat \ {0} /\ Vrc6Amp(o) \in Nat
  BY Zenon, Vrc6Fields
<1>2. o.last_amp \in Int /\ Vrc6Amp(o) \in Int
  BY SMT, <1>1
<1>3. PICK w, x : w = Vrc6Wave(o) /\ x = run.osc
  OBVIOUS
<1>4. CASE ~Vrc6Playing(o)
  <2>1. PICK zero, amp : zero = 0 /\ amp = Vrc6Amp(o)
    OBVIOUS
  <2>2. x = [o EXCEPT !.delay = zero, !.last_amp = amp] /\ run.deltas = First(o, amp, n)
    BY Zenon, <1>3, <1>4, <2>1 DEF RunVrc6Square
  <2>3. SameVrc6(o, x) /\ x.phase = o.phase /\ x.last_amp = amp
    BY SMT, <2>2 DEF Vrc6SquareOsc, SameVrc6
  <2>4. Vrc6Amp(x) = Vrc6Amp(o)
    BY Zenon, <2>3, SameVrc6Is DEF Vrc6Amp
  <2>5. Leads(o.last_amp, First(o, amp, n), amp)
    BY Zenon, <1>2, <2>1, FirstLeads
  <2> QED
    BY Zenon, <1>3, <2>1, <2>2, <2>3, <2>4, <2>5 DEF Adds
<1>5. CASE Vrc6Playing(o)
  <2>1. PICK y \in 0 .. vrc6_phases - 1 :
          /\ Plays(w, o.phase, o.last_amp, o.delay, o.period + 1, n, y, run.deltas)
          /\ x = [o EXCEPT !.phase = y, !.last_amp = w.level[y], !.delay = Vrc6Delay(o, n)]
    BY Zenon, <1>3, <1>5, Vrc6Plays
  <2>2. Leads(o.last_amp, run.deltas, w.level[y])
    <3>1. IsWave(w) /\ o.phase \in w.states
      BY Zenon, <1>1, <1>3, Vrc6WaveIs
    <3>2. PlayedFrom(w, o.phase, o.last_amp, o.delay, o.period + 1, n, y, run.deltas)
      BY Zenon, <1>1, <1>2, <2>1, <3>1 DEF PlayedFrom
    <3> QED
      BY Zenon, <3>2, PlaysLeads
  <2>3. PICK level, delay : level = w.level[y] /\ delay = Vrc6Delay(o, n)
    OBVIOUS
  <2>4. SameVrc6(o, x) /\ x.phase = y /\ x.last_amp = level
    <3>1. x = [o EXCEPT !.phase = y, !.last_amp = level, !.delay = delay]
      BY Zenon, <2>1, <2>3
    <3> QED
      BY SMT, <3>1 DEF Vrc6SquareOsc, SameVrc6
  <2>5. level = IF y < o.duty + 1 THEN o.volume ELSE 0
    BY Zenon, <1>3, <2>1, <2>3 DEF Vrc6Wave
  <2>6. ~o.gate /\ Vrc6Volume(o) = o.volume
    BY Zenon, <1>5 DEF Vrc6Playing, Vrc6Volume
  <2>7. Vrc6Amp(x) = level
    BY Zenon, <2>4, <2>5, <2>6, SameVrc6Is
  <2> QED
    BY Zenon, <1>3, <2>2, <2>3, <2>4, <2>7 DEF Adds
<1> QED
  BY Zenon, <1>4, <1>5

LEMMA SawFollows ==
  ASSUME NEW o \in SawOsc, NEW n \in Nat, o.output, NEW run, run = RunSaw(o, n)
  PROVE  Adds(o, run)
<1>1. /\ o.phase \in 1 .. 7 /\ o.last_amp \in Nat /\ o.delay \in Nat
      /\ SawPeriod(o) \in Nat \ {0} /\ o.amp \in 0 .. amp_range - 1 
  BY Zenon, SawFields
<1>2. o.last_amp \in Int
  BY SMT, <1>1
<1>3. PICK w, x : w = SawWave(o) /\ x = run.osc
  OBVIOUS
<1>4. CASE SawStill(o)
  <2>1. PICK zero, level : zero = 0 /\ level = o.amp \div amp_step
    OBVIOUS
  <2>2. level \in Int
    <3>1. level \in Nat
      BY Zenon, <1>1, <2>1, SawLevel
    <3> QED
      BY SMT, <3>1
  <2>3. x = [o EXCEPT !.delay = zero, !.last_amp = level] /\ run.deltas = First(o, level, n)
    BY Zenon, <1>3, <1>4, <2>1 DEF RunSaw, SawStill
  <2>4. x.last_amp = level
    BY SMT, <2>3 DEF SawOsc
  <2>5. Leads(o.last_amp, First(o, level, n), level)
    BY Zenon, <1>2, <2>2, FirstLeads
  <2> QED
    BY Zenon, <1>3, <2>3, <2>4, <2>5 DEF Adds
<1>5. CASE ~SawStill(o)
  <2>1. PICK y \in SawStates :
          /\ Plays(w, SawState(o), o.last_amp, o.delay, SawPeriod(o), n, y, run.deltas)
          /\ w.level[y] = y.last_amp
          /\ x = [o EXCEPT !.phase = y.phase, !.amp = y.amp, !.last_amp = y.last_amp,
                           !.delay = SawDelay(o, n)]
    BY Zenon, <1>3, <1>5, SawPlays
  <2>2. Leads(o.last_amp, run.deltas, w.level[y])
    <3>1. IsWave(w) /\ SawState(o) \in w.states
      <4>1. SawState(o) \in SawStates
        BY Zenon, <1>1 DEF SawState, SawStates
      <4> QED
        BY Zenon, <1>3, <4>1, SawWaveIs
    <3>2. PlayedFrom(w, SawState(o), o.last_amp, o.delay, SawPeriod(o), n, y, run.deltas)
      BY Zenon, <1>1, <1>2, <2>1, <3>1 DEF PlayedFrom
    <3> QED
      BY Zenon, <3>2, PlaysLeads
  <2>3. PICK delay, phase, amp, level :
          delay = SawDelay(o, n) /\ phase = y.phase /\ amp = y.amp /\ level = y.last_amp
    OBVIOUS
  <2>4. x.last_amp = level
    <3>1. x = [o EXCEPT !.phase = phase, !.amp = amp, !.last_amp = level, !.delay = delay]
      BY Zenon, <2>1, <2>3
    <3> QED
      BY SMT, <3>1 DEF SawOsc
  <2> QED
    BY Zenon, <1>3, <2>1, <2>2, <2>3, <2>4 DEF Adds
<1> QED
  BY Zenon, <1>4, <1>5

LEMMA Fme7Follows ==
  ASSUME NEW o \in Fme7Osc, NEW n \in Nat, o.output, NEW run, run = RunFme7(o, n)
  PROVE  run.osc.last_amp = run.osc.phase * Fme7Volume(run.osc) /\ Adds(o, run)
<1>1. /\ o.phase \in {0, 1} /\ o.last_amp \in Nat /\ o.delay \in Nat
      /\ Fme7Period(o) \in Nat \ {0}
  BY Zenon, Fme7Fields
<1>2. o.last_amp \in Int
  BY SMT, <1>1
<1>3. PICK w, x : w = Fme7Wave(o) /\ x = run.osc
  OBVIOUS
<1>4. PICK y \in {0, 1} :
        /\ Plays(w, o.phase, o.last_amp, o.delay, Fme7Period(o), n, y, run.deltas)
        /\ x = [o EXCEPT !.phase = y, !.last_amp = w.level[y], !.delay = Fme7Delay(o, n)]
  <2>2. PICK y \in {0, 1} :
          /\ Plays(Fme7Wave(o), o.phase, o.last_amp, o.delay, Fme7Period(o), n, y,
                   RunFme7(o, n).deltas)
          /\ RunFme7(o, n).osc = [o EXCEPT !.phase = y, !.last_amp = Fme7Wave(o).level[y],
                                          !.delay = Fme7Delay(o, n)]
    BY Fme7Plays
  <2>3. /\ Plays(w, o.phase, o.last_amp, o.delay, Fme7Period(o), n, y, run.deltas)
        /\ x = [o EXCEPT !.phase = y, !.last_amp = w.level[y], !.delay = Fme7Delay(o, n)]
    BY Zenon, <1>3, <2>2
  <2> QED
    BY Zenon, <2>2, <2>3
<1>5. Leads(o.last_amp, run.deltas, w.level[y])
  <2>1. IsWave(w) /\ o.phase \in w.states
    BY Zenon, <1>1, <1>3, Fme7WaveIs
  <2>2. PlayedFrom(w, o.phase, o.last_amp, o.delay, Fme7Period(o), n, y, run.deltas)
    BY Zenon, <1>1, <1>2, <1>4, <2>1 DEF PlayedFrom
  <2> QED
    BY Zenon, <2>2, PlaysLeads
<1>6. PICK level, delay : level = w.level[y] /\ delay = Fme7Delay(o, n)
  OBVIOUS
<1>7. /\ x.phase = y /\ x.last_amp = level /\ x.tone_off = o.tone_off
      /\ x.envelope = o.envelope /\ x.period = o.period /\ x.volume = o.volume
  <2>1. x = [o EXCEPT !.phase = y, !.last_amp = level, !.delay = delay]
    BY Zenon, <1>4, <1>6
  <2> QED
    BY SMT, <2>1 DEF Fme7Osc
<1>8. Fme7Volume(x) = Fme7Volume(o)
  <2>1. x.period * period_factor = o.period * period_factor
    BY Zenon, <1>7
  <2> QED
    BY Zenon, <1>7, <2>1 DEF Fme7Volume
<1>9. level = y * Fme7Volume(o)
  BY Zenon, <1>3, <1>4, <1>6, Fme7WaveIs
<1> QED
  BY Zenon, <1>3, <1>5, <1>6, <1>7, <1>8, <1>9 DEF Adds

LEMMA NamcoFollows ==
  ASSUME NEW o \in NamcoOsc, NEW n \in Nat, NEW run, run = RunNamco(o, n)
  PROVE  Adds(o, run)
<1>1. /\ o.wave_pos \in 0 .. LargestWave - 1 /\ o.delay \in Nat /\ o.last_amp \in Nat
  BY Zenon, NamcoFields
<1>2. o.last_amp \in Int
  BY SMT, <1>1
<1>3. PICK w, x : w = NamcoWave(o) /\ x = run.osc
  OBVIOUS
<1>4. CASE ~NamcoActive(o)
  <2>1. run = Unheard(o, n)
    BY Zenon, <1>4 DEF RunNamco
  <2> QED
    BY Zenon, <1>2, <2>1, UnheardAdds
<1>5. CASE NamcoActive(o) /\ ~NamcoPlaying(o)
  <2>1. PICK delay : delay = IF o.delay < n THEN 0 ELSE o.delay - n
    OBVIOUS
  <2>2. run = Unheard([o EXCEPT !.delay = delay], n)
    BY Zenon, <1>5, <2>1 DEF RunNamco
  <2>3. PICK q : q = [o EXCEPT !.delay = delay]
    OBVIOUS
  <2>4. q.last_amp = o.last_amp
    BY SMT, <2>3 DEF NamcoOsc
  <2>5. Adds(q, Unheard(q, n))
    BY Zenon, <1>2, <2>4, UnheardAdds
  <2> QED
    BY Zenon, <2>2, <2>3, <2>4, <2>5 DEF Adds
<1>6. CASE NamcoActive(o) /\ NamcoPlaying(o)
  <2>1. PICK y \in NamcoStates :
          /\ Plays(w, NamcoState(o), o.last_amp, o.delay, NamcoPeriod(o), n, y, run.deltas)
          /\ w.level[y] = y.last_amp
          /\ x = [o EXCEPT !.wave_pos = y.wave_pos, !.last_amp = y.last_amp,
                           !.delay = NamcoDelay(o, n)]
    BY Zenon, <1>3, <1>6, NamcoPlays
  <2>2. Leads(o.last_amp, run.deltas, w.level[y])
    <3>1. IsWave(w) /\ NamcoState(o) \in w.states
      <4>1. NamcoState(o) \in NamcoStates
        BY Zenon, <1>1 DEF NamcoState, NamcoStates
      <4> QED
        BY Zenon, <1>3, <4>1, NamcoWaveIs
    <3>3. NamcoPeriod(o) \in Nat \ {0}
      <4>1. o \in NamcoHeard
        BY Zenon, <1>6 DEF NamcoHeard
      <4> QED
        BY Zenon, <4>1, NamcoPeriods
    <3>2. PlayedFrom(w, NamcoState(o), o.last_amp, o.delay, NamcoPeriod(o), n, y, run.deltas)
      BY Zenon, <1>1, <1>2, <2>1, <3>1, <3>3 DEF PlayedFrom
    <3> QED
      BY Zenon, <3>2, PlaysLeads
  <2>3. PICK delay, pos, level :
          delay = NamcoDelay(o, n) /\ pos = y.wave_pos /\ level = y.last_amp
    OBVIOUS
  <2>4. x.last_amp = level
    <3>1. x = [o EXCEPT !.wave_pos = pos, !.last_amp = level, !.delay = delay]
      BY Zenon, <2>1, <2>3
    <3> QED
      BY SMT, <3>1 DEF NamcoOsc
  <2> QED
    BY Zenon, <1>3, <2>1, <2>2, <2>3, <2>4 DEF Adds
<1> QED
  BY Zenon, <1>4, <1>5, <1>6

LEMMA Vrc7Follows ==
  ASSUME NEW o \in Vrc7State, NEW n \in Nat, NEW run, run = RunVrc7(o, n)
  PROVE  Adds(o, run)
<1>1. o.turn \in {0, 1} /\ o.delay \in Nat /\ o.last_amp \in Nat /\ fm_period \in Nat \ {0}
  BY Zenon, Vrc7Fields
<1>2. o.last_amp \in Int
  BY SMT, <1>1
<1>3. PICK w, x : w = Vrc7Wave(o) /\ x = run.osc
  OBVIOUS
<1>4. PICK y \in Vrc7States :
        /\ Plays(w, Vrc7At(o), o.last_amp, o.delay, fm_period, n, y, run.deltas)
        /\ w.level[y] = y.last_amp
        /\ x = [o EXCEPT !.turn = y.turn, !.last_amp = y.last_amp,
                         !.delay = DelayAfter(o.delay, fm_period, n)]
  BY Zenon, <1>3, Vrc7Plays
<1>5. Leads(o.last_amp, run.deltas, w.level[y])
  <2>1. IsWave(w) /\ Vrc7At(o) \in w.states
    <3>1. Vrc7At(o) \in Vrc7States
      BY Zenon, <1>1 DEF Vrc7At, Vrc7States
    <3> QED
      BY Zenon, <1>3, <3>1, Vrc7WaveIs
  <2>2. PlayedFrom(w, Vrc7At(o), o.last_amp, o.delay, fm_period, n, y, run.deltas)
    BY Zenon, <1>1, <1>2, <1>4, <2>1 DEF PlayedFrom
  <2> QED
    BY Zenon, <2>2, PlaysLeads
<1>6. PICK delay, turn, level :
        delay = DelayAfter(o.delay, fm_period, n) /\ turn = y.turn /\ level = y.last_amp
  OBVIOUS
<1>7. x.last_amp = level
  <2>1. x = [o EXCEPT !.turn = turn, !.last_amp = level, !.delay = delay]
    BY Zenon, <1>4, <1>6
  <2> QED
    BY SMT, <2>1 DEF Vrc7State
<1> QED
  BY Zenon, <1>3, <1>4, <1>5, <1>6, <1>7 DEF Adds

-----------------------------------------------------------------------------
(* The deltas of a run added, from the clock at on, to those of the runs   *)
(* before it.                                                              *)

Laid(f, g, at, m, k) ==
  [u \in DOMAIN f |-> f[u] + IF u \in at .. at + m /\ u - at < k THEN g[u - at] ELSE 0]

Until(g, m, k) == [u \in 0 .. m |-> IF u < k THEN g[u] ELSE 0]

(* The deltas e move the output by d more than deltas do.                  *)
MoreBy(e, deltas, d) == Total(e) = Total(deltas) + d

LEMMA MovedMore ==
  ASSUME NEW n \in Nat, NEW deltas \in Deltas(n), NEW t \in 0 .. n, NEW d \in Int
  PROVE  /\ Moved(deltas, t, d) \in Deltas(n) /\ Total(deltas) \in Int
         /\ MoreBy(Moved(deltas, t, d), deltas, d)
BY SMT, SumMoved DEF MoreBy

LEMMA LaidTotal ==
  ASSUME NEW n \in Nat, NEW m \in Nat, NEW at \in Nat, at + m <= n,
         NEW f \in Deltas(n), NEW g \in Deltas(m), NEW h,
         h = [u \in DOMAIN f |-> f[u] + IF u \in at .. at + m THEN g[u - at] ELSE 0]
  PROVE  /\ h \in Deltas(n) /\ Total(f) \in Int /\ Total(g) \in Int /\ Total(h) \in Int
         /\ Total(h) = Total(f) + Total(g)
<1> DEFINE Good(k) == /\ Laid(f, g, at, m, k) \in Deltas(n) /\ Until(g, m, k) \in Deltas(m)
                      /\ Total(Laid(f, g, at, m, k)) = Total(f) + Total(Until(g, m, k))
           S == {k \in 0 .. m + 1 : Good(k)}
<1>1. /\ DOMAIN f = 0 .. n /\ \A u \in 0 .. n : f[u] \in Int
      /\ DOMAIN g = 0 .. m /\ \A u \in 0 .. m : g[u] \in Int
  BY Zenon DEF Deltas
<1>2. /\ 0 \in 0 .. n /\ 0 \in 0 .. m /\ 0 \in Int /\ m + 1 \in Nat
      /\ \A u \in 0 .. n : u \in at .. at + m => u - at \in 0 .. m
      /\ \A u \in 0 .. m : at + u \in 0 .. n
  BY SMT
<1>3. Total(f) \in Int /\ Total(g) \in Int
  <2>1. PICK t \in 0 .. n, u \in 0 .. m, d \in Int : t = 0 /\ u = 0 /\ d = 0
    BY Zenon, <1>2
  <2> QED
    BY Zenon, <2>1, SumMoved
<1>4. 0 \in S
  <2>1. Laid(f, g, at, m, 0) = f
    <3>1. ASSUME NEW u \in 0 .. n
          PROVE  f[u] + (IF u \in at .. at + m /\ u - at < 0 THEN g[u - at] ELSE 0) = f[u]
      <4>1. f[u] \in Int
        BY Zenon, <1>1
      <4>2. ~(u \in at .. at + m /\ u - at < 0)
        BY SMT
      <4> QED
        BY SMT, <4>1, <4>2
    <3>2. f = [u \in 0 .. n |-> f[u]]
      BY Zenon, <1>1 DEF Deltas
    <3> QED
      BY Zenon, <1>1, <3>1, <3>2 DEF Laid
  <2>2. Until(g, m, 0) = Silence(m)
    <3>1. \A u \in 0 .. m : (IF u < 0 THEN g[u] ELSE 0) = 0
      <4>1. \A u \in 0 .. m : ~(u < 0)
        BY SMT
      <4> QED
        BY Zenon, <4>1
    <3> QED
      BY Zenon, <3>1 DEF Until, Silence
  <2>3. Silence(m) \in Deltas(m) /\ Total(Silence(m)) = 0
    BY Zenon, SilentSum
  <2>4. Total(f) = Total(f) + 0
    BY SMT, <1>3
  <2>5. 0 \in 0 .. m + 1
    BY SMT
  <2> QED
    BY Zenon, <2>1, <2>2, <2>3, <2>4, <2>5
<1>5. ASSUME NEW k \in 1 .. m + 1, k - 1 \in S PROVE k \in S
  <2>1. PICK j \in 0 .. m : j = k - 1
    BY SMT
  <2>2. k \in 0 .. m + 1 /\ \A u \in Int : u < k <=> (u < j \/ u = j)
    BY SMT, <2>1
  <2>3. PICK a \in Deltas(n) : a = Laid(f, g, at, m, j)
    BY Zenon, <1>5, <2>1
  <2>4. PICK b \in Deltas(m) : b = Until(g, m, j)
    BY Zenon, <1>5, <2>1
  <2>5. Total(a) = Total(f) + Total(b)
    BY Zenon, <1>5, <2>1, <2>3, <2>4
  <2>6. PICK d \in Int : d = g[j]
    BY Zenon, <1>1
  <2>7. PICK t \in 0 .. n : t = at + j
    BY Zenon, <1>2
  <2>8. Laid(f, g, at, m, k) = Moved(a, t, d)
    <3>1. ASSUME NEW u \in 0 .. n
          PROVE  f[u] + (IF u \in at .. at + m /\ u - at < k THEN g[u - at] ELSE 0)
                   = IF u = t THEN f[u] + (IF u \in at .. at + m /\ u - at < j
                                           THEN g[u - at] ELSE 0) + d
                     ELSE f[u] + (IF u \in at .. at + m /\ u - at < j THEN g[u - at] ELSE 0)
      <4>1. f[u] \in Int /\ (u \in at .. at + m => g[u - at] \in Int)
        BY Zenon, <1>1, <1>2
      <4>2. CASE u = t
        <5>1. u \in at .. at + m /\ u - at = j /\ ~(u - at < j) /\ u - at < k
          BY SMT, <2>1, <2>7, <4>2
        <5>2. g[u - at] = d
          BY Zenon, <2>6, <5>1
        <5> QED
          BY SMT, <4>1, <4>2, <5>1, <5>2
      <4>3. CASE u # t
        <5>1. u \in at .. at + m => (u - at < k <=> u - at < j)
          BY SMT, <2>1, <2>7, <4>3
        <5> QED
          BY Zenon, <4>3, <5>1
      <4> QED
        BY Zenon, <4>2, <4>3
    <3>2. a = [u \in 0 .. n |->
                 f[u] + IF u \in at .. at + m /\ u - at < j THEN g[u - at] ELSE 0]
      BY Zenon, <1>1, <2>3 DEF Laid
    <3>3. Moved(a, t, d)
            = [u \in 0 .. n |->
                 IF u = t THEN f[u] + (IF u \in at .. at + m /\ u - at < j
                                       THEN g[u - at] ELSE 0) + d
                 ELSE f[u] + (IF u \in at .. at + m /\ u - at < j THEN g[u - at] ELSE 0)]
      BY Zenon, <3>2 DEF Moved
    <3> QED
      BY Zenon, <1>1, <3>1, <3>3 DEF Laid
  <2>9. Until(g, m, k) = Moved(b, j, d)
    <3>1. ASSUME NEW u \in 0 .. m
          PROVE  (IF u < k THEN g[u] ELSE 0)
                   = IF u = j THEN (IF u < j THEN g[u] ELSE 0) + d
                     ELSE IF u < j THEN g[u] ELSE 0
      <4>1. CASE u = j
        <5>1. u < k /\ ~(u < j) /\ 0 + d = d
          BY SMT, <2>1, <4>1
        <5> QED
          BY Zenon, <2>6, <4>1, <5>1
      <4>2. CASE u # j
        <5>1. u < k <=> u < j
          BY SMT, <2>1, <4>2
        <5> QED
          BY Zenon, <4>2, <5>1
      <4> QED
        BY Zenon, <4>1, <4>2
    <3>2. b = [u \in 0 .. m |-> IF u < j THEN g[u] ELSE 0]
      BY Zenon, <2>4 DEF Until
    <3>3. Moved(b, j, d) = [u \in 0 .. m |-> IF u = j THEN (IF u < j THEN g[u] ELSE 0) + d
                                             ELSE IF u < j THEN g[u] ELSE 0]
      BY Zenon, <3>2 DEF Moved
    <3> QED
      BY Zenon, <3>1, <3>3 DEF Until
  <2>10. /\ Moved(a, t, d) \in Deltas(n) /\ Total(Moved(a, t, d)) = Total(a) + d
         /\ Moved(b, j, d) \in Deltas(m) /\ Total(Moved(b, j, d)) = Total(b) + d
         /\ Total(b) \in Int
    <3>1. Moved(a, t, d) \in Deltas(n) /\ MoreBy(Moved(a, t, d), a, d)
      BY Zenon, <2>3, <2>6, <2>7, MovedMore
    <3>2. Moved(b, j, d) \in Deltas(m) /\ MoreBy(Moved(b, j, d), b, d) /\ Total(b) \in Int
      BY Zenon, <2>1, <2>4, <2>6, MovedMore
    <3> QED
      BY Zenon, <3>1, <3>2 DEF MoreBy
  <2>11. (Total(f) + Total(b)) + d = Total(f) + (Total(b) + d)
    BY SMT, <1>3, <2>10
  <2>12. Good(k)
    BY Zenon, <2>5, <2>8, <2>9, <2>10, <2>11
  <2> QED
    BY Zenon, <2>2, <2>12
<1>6. 0 .. m + 1 \subseteq S
  <2> HIDE DEF S
  <2> QED
    BY Zenon, <1>2, <1>4, <1>5, Along
<1>7. Good(m + 1)
  <2>1. m + 1 \in 0 .. m + 1
    BY SMT
  <2> QED
    BY Zenon, <1>6, <2>1
<1>8. Laid(f, g, at, m, m + 1) = h
  <2>1. \A u \in 0 .. n : u \in at .. at + m => u - at < m + 1
    BY SMT
  <2>2. \A u \in 0 .. n : (IF u \in at .. at + m /\ u - at < m + 1 THEN g[u - at] ELSE 0)
                            = IF u \in at .. at + m THEN g[u - at] ELSE 0
    BY Zenon, <2>1
  <2> QED
    BY Zenon, <1>1, <2>2 DEF Laid
<1>9. Until(g, m, m + 1) = g
  <2>1. \A u \in 0 .. m : u < m + 1
    BY SMT
  <2>2. g = [u \in 0 .. m |-> g[u]]
    BY Zenon DEF Deltas
  <2> QED
    BY Zenon, <2>1, <2>2 DEF Until
<1>10. h \in Deltas(n) /\ Total(h) = Total(f) + Total(g)
  BY Zenon, <1>7, <1>8, <1>9
<1>11. Total(f) + Total(g) \in Int
  BY SMT, <1>3
<1> QED
  BY Zenon, <1>3, <1>10, <1>11

(* A heard square whose deltas have led it from the level a to its own.    *)
LedFrom(a, s) == s.osc.output /\ Leads(a, s.deltas, s.osc.last_amp)

LEMMA RunsOn ==
  ASSUME NEW n \in Nat, NEW period \in Nat, NEW s \in Reached(n, period), NEW a \in Int,
         LedFrom(a, s), NEW t \in Nat, s.at <= t, t <= n
  PROVE  LedFrom(a, RunTo(s, t)) /\ RunTo(s, t).osc.last_amp = PulseWave(RunTo(s, t).osc)
<1> DEFINE r == RunTo(s, t)
<1>0. /\ s.osc \in Mmc5SquareOsc /\ s.at \in Nat /\ s.deltas \in Deltas(n)
      /\ s.osc.output /\ Leads(a, s.deltas, s.osc.last_amp)
  BY Zenon, ReachedFields DEF LedFrom
<1>1. PICK m \in Nat : m = t - s.at /\ s.at + m = t
  BY SMT, <1>0
<1>2. PICK run : run = RunSquare(s.osc, m)
  OBVIOUS
<1>3. s.osc \in Pulse /\ s.osc.last_amp \in Nat
  BY Zenon, <1>0 DEF Pulse, Mmc5SquareOsc
<1>4. PulseRan(s.osc, m, run)
  BY Zenon, <1>2, <1>3, PulseRun
<1>5. run.osc.last_amp = PulseWave(run.osc) /\ Leads(s.osc.last_amp, run.deltas, run.osc.last_amp)
  BY Zenon, <1>0, <1>2, <1>3, SquareFollows DEF Adds
<1>6. run.osc.output
  <2>5. PICK amp \in Nat :
          run.osc = [s.osc EXCEPT !.phase = PulsePhase(s.osc, m), !.last_amp = amp,
                                  !.delay = PulseDelay(s.osc, m)]
    BY Zenon, <1>4 DEF PulseRan
  <2>1. PICK phase, delay :
          run.osc = [s.osc EXCEPT !.phase = phase, !.last_amp = amp, !.delay = delay]
    BY Zenon, <2>5
  <2>6. PICK x : x = run.osc
    OBVIOUS
  <2>2. PICK o \in Mmc5SquareOsc : o = s.osc /\ x = run.osc
    BY Zenon, <1>0, <2>6
  <2>3. x = [o EXCEPT !.phase = phase, !.last_amp = amp, !.delay = delay]
    BY Zenon, <2>1, <2>2
  <2>4. x.output = o.output
    BY SMT, <2>2, <2>3 DEF Mmc5SquareOsc
  <2> QED
    BY Zenon, <1>0, <2>2, <2>4
<1>7. /\ r.osc = run.osc
      /\ r.deltas = [u \in DOMAIN s.deltas |->
                       s.deltas[u] + IF u \in s.at .. s.at + m THEN run.deltas[u - s.at] ELSE 0]
  BY Zenon, <1>1, <1>2 DEF RunTo, Joined
<1>16. PICK h : h = r.deltas
  OBVIOUS
<1>8. PICK f \in Deltas(n), g \in Deltas(m), at \in Nat :
        f = s.deltas /\ g = run.deltas /\ at = s.at /\ h = r.deltas
  BY Zenon, <1>0, <1>4, <1>16 DEF PulseRan
<1>9. h = [u \in DOMAIN f |-> f[u] + IF u \in at .. at + m THEN g[u - at] ELSE 0]
  BY Zenon, <1>7, <1>8
<1>10. at + m <= n
  BY Zenon, <1>1, <1>8
<1>11. Total(f) \in Int /\ Total(g) \in Int /\ Total(h) = Total(f) + Total(g)
  BY SMT, <1>8, <1>9, <1>10, LaidTotal
<1>12. r.osc.last_amp = (a + Total(f)) + Total(g)
  BY Zenon, <1>0, <1>5, <1>7, <1>8 DEF Leads
<1>13. (a + Total(f)) + Total(g) = a + Total(h)
  BY SMT, <1>11
<1>14. Leads(a, r.deltas, r.osc.last_amp)
  BY Zenon, <1>8, <1>12, <1>13 DEF Leads
<1> HIDE DEF r
<1>15. r.osc.output /\ r.osc.last_amp = PulseWave(r.osc)
  BY Zenon, <1>5, <1>6, <1>7
<1> QED
  BY Zenon, <1>14, <1>15 DEF LedFrom, r

LEMMA ClockedStays ==
  ASSUME NEW o \in Mmc5SquareOsc
  PROVE  LET clocked == clock_envelope(clock_length(o))
         IN  clocked.output = o.output /\ clocked.last_amp = o.last_amp
<1> DEFINE l == clock_length(o)
<1>1. l \in Mmc5SquareOsc /\ l.output = o.output /\ l.last_amp = o.last_amp
  <2>1. o.length_counter \in Nat
    BY Zenon DEF Mmc5SquareOsc
  <2>2. PICK length \in Nat : l = [o EXCEPT !.length_counter = length] \/ l = o
    BY Zenon, <2>1, LengthClocked
  <2> HIDE DEF l
  <2> QED
    BY SMT, <2>2 DEF Mmc5SquareOsc
<1> HIDE DEF l
<1>2. clock_envelope(l).output = l.output /\ clock_envelope(l).last_amp = l.last_amp
  BY SMT, <1>1 DEF clock_envelope, Mmc5SquareOsc
<1> QED
  BY Zenon, <1>1, <1>2 DEF l

LEMMA EventLed ==
  ASSUME NEW n \in Nat, NEW period \in Nat, NEW s \in Reached(n, period), NEW a \in Int,
         LedFrom(a, s), NEW t \in Nat, s.at <= t, t <= n
  PROVE  LedFrom(a, Mmc5Event(s, t))
<1> DEFINE r == RunTo(s, t)
           next == Mmc5Event(s, t)
           o == clock_envelope(clock_length(r.osc))
<1>1. r \in Reached(n, period) /\ LedFrom(a, r)
  BY Zenon, RunsTo, RunsOn
<1>2. next = [r EXCEPT !.osc = o]
  BY Zenon DEF Mmc5Event
<1> HIDE DEF r
<1>3. r.osc \in Mmc5SquareOsc /\ r \in Stretch(n)
  BY Zenon, <1>1, ReachedFields
<1>4. o.output = r.osc.output /\ o.last_amp = r.osc.last_amp
  BY Zenon, <1>3, ClockedStays
<1> HIDE DEF next, o
<1>5. next.osc = o /\ next.deltas = r.deltas
  BY Zenon, <1>2, <1>3 DEF Stretch
<1> QED
  BY Zenon, <1>1, <1>4, <1>5 DEF LedFrom, next

LEMMA Mmc5Led ==
  ASSUME NEW o \in Mmc5SquareOsc, o.output, NEW n \in Nat \ {0}, NEW g, Mmc5Trace(o, n, g)
  PROVE  \A k \in 0 .. Mmc5Events(o, n) : LedFrom(o.last_amp, g[k])
<1> DEFINE events == Mmc5Events(o, n)
           S == {k \in 0 .. events : LedFrom(o.last_amp, g[k])}
<1>0. n \in Nat /\ o.period \in Nat /\ o.last_amp \in Int
  BY SMT, OscAssumption DEF OscAssumption, Mmc5SquareOsc
<1>1. /\ events \in Nat
      /\ \A k \in 0 .. events : Mmc5At(o, k) \in Nat /\ Mmc5At(o, k) <= n
      /\ \A k \in 1 .. events : Mmc5At(o, k - 1) <= Mmc5At(o, k)
  BY Zenon, <1>0, EventTimes
<1>2. /\ g[0].osc = o /\ g[0].deltas = Silence(n)
      /\ \A k \in 1 .. events : g[k] = Mmc5Event(g[k - 1], Mmc5At(o, k))
  BY Zenon DEF Mmc5Trace
<1>3. \A k \in 0 .. events : g[k] \in Reached(n, o.period) /\ g[k].at = Mmc5At(o, k)
  BY Zenon, Mmc5Reached
<1> HIDE DEF events
<1>4. 0 \in S
  <2>1. LedFrom(o.last_amp, g[0])
    BY Zenon, <1>0, <1>2, SilenceLeads DEF LedFrom
  <2> QED
    BY Zenon, <1>1, <2>1, Indices
<1>5. ASSUME NEW k \in 1 .. events, k - 1 \in S PROVE k \in S
  <2>1. k \in 0 .. events /\ k - 1 \in 0 .. events
    BY Zenon, <1>1, Indices
  <2>2. g[k - 1] \in Reached(n, o.period) /\ g[k - 1].at <= Mmc5At(o, k)
    BY Zenon, <1>1, <1>3, <2>1
  <2>3. LedFrom(o.last_amp, Mmc5Event(g[k - 1], Mmc5At(o, k)))
    BY Zenon, <1>0, <1>1, <1>5, <2>1, <2>2, EventLed
  <2> QED
    BY Zenon, <1>2, <2>1, <2>3
<1>6. 0 .. events \subseteq S
  <2> HIDE DEF S
  <2> QED
    BY Zenon, <1>1, <1>4, <1>5, Along
<1> QED
  BY Zenon, <1>6 DEF events

LEMMA Mmc5Follows ==
  ASSUME NEW o \in Mmc5SquareOsc, NEW n \in Nat \ {0}, o.output,
         NEW run, run = RunMmc5Square(o, n)
  PROVE  run.osc.last_amp = PulseWave(run.osc) /\ Adds(o, run)
<1> DEFINE events == Mmc5Events(o, n)
<1>0. n \in Nat /\ n <= n /\ o.period \in Nat /\ o.last_amp \in Int
  BY SMT, OscAssumption DEF OscAssumption, Mmc5SquareOsc
<1>1. PICK g : Mmc5Trace(o, n, g)
  BY Zenon, Mmc5Cut
<1>2. /\ events \in 0 .. events /\ Mmc5At(o, events) <= n
      /\ g[events] \in Reached(n, o.period) /\ g[events].at = Mmc5At(o, events)
  <2>1. events \in Nat
    BY Zenon, <1>0, EventTimes
  <2>2. events \in 0 .. events
    <3> HIDE DEF events
    <3> QED
      BY Zenon, <2>1, Indices
  <2> QED
    <3>1. Mmc5At(o, events) <= n
      BY Zenon, <1>0, <2>2, EventTimes
    <3>2. g[events] \in Reached(n, o.period) /\ g[events].at = Mmc5At(o, events)
      <4>1. \A k \in 0 .. Mmc5Events(o, n) :
              g[k] \in Reached(n, o.period) /\ g[k].at = Mmc5At(o, k)
        BY Zenon, <1>1, Mmc5Reached
      <4> QED
        BY Zenon, <2>2, <4>1
    <3> QED
      BY Zenon, <2>2, <3>1, <3>2
<1>9. LedFrom(o.last_amp, g[events])
  BY Zenon, <1>1, <1>2, Mmc5Led
<1> DEFINE s == RunTo(g[events], n)
<1>3. s \in Reached(n, o.period) /\ LedFrom(o.last_amp, s) /\ s.osc.last_amp = PulseWave(s.osc)
  <2>1. g[events].at <= n
    BY Zenon, <1>2
  <2> HIDE DEF events
  <2> QED
    BY Zenon, <1>0, <1>2, <1>9, <2>1, RunsTo, RunsOn
<1>4. run = Mmc5RunEnd(s, n)
  BY Zenon, <1>1 DEF Mmc5Trace
<1> HIDE DEF s
<1>10. PICK next, x : next = DelayAfter(s.osc.frame_delay, mmc5_frame_period, n) /\ x = run.osc
  OBVIOUS
<1>5. run.osc = [s.osc EXCEPT !.frame_delay = next] /\ run.deltas = s.deltas
  <2>1. /\ Mmc5RunEnd(s, n).deltas = s.deltas
        /\ Mmc5RunEnd(s, n).osc
             = [s.osc EXCEPT !.frame_delay = DelayAfter(s.osc.frame_delay, mmc5_frame_period, n)]
    BY Zenon DEF Mmc5RunEnd
  <2> QED
    BY Zenon, <1>4, <1>10, <2>1
<1>6. PICK q \in Mmc5SquareOsc : q = s.osc /\ x = run.osc
  BY Zenon, <1>3, <1>10, ReachedFields
<1>7. SamePulse(q, x) /\ x.last_amp = q.last_amp /\ x.phase = q.phase
  <2>1. x = [q EXCEPT !.frame_delay = next]
    BY Zenon, <1>5, <1>6
  <2> QED
    BY SMT, <2>1 DEF Mmc5SquareOsc, SamePulse
<1>8. PulseWave(x) = PulseWave(q)
  <2>1. (Audible(x) <=> Audible(q)) /\ duty(x) = duty(q) /\ volume(x) = volume(q)
    BY Zenon, <1>7, SamePulseIs
  <2>2. SquareAmp(x) = SquareAmp(q)
    BY Zenon, <1>7, <2>1 DEF SquareAmp, SamePulse
  <2> QED
    BY Zenon, <2>1, <2>2 DEF PulseWave
<1> QED
  BY Zenon, <1>3, <1>5, <1>6, <1>7, <1>8 DEF Adds, LedFrom

-----------------------------------------------------------------------------
(* The FDS channel, whose wave changes its frequency as it is played.      *)

LEMMA WaveClockLeads ==
  ASSUME NEW o \in FdsState, NEW freq \in 1 .. fract_range, NEW n \in Nat, NEW end \in 0 .. n,
         NEW p \in WaveLoop(n, freq, end), p.time <= end, NEW a \in Int,
         Leads(a, p.deltas, p.last_amp)
  PROVE  Leads(a, WaveClock(o, freq, p).deltas, WaveClock(o, freq, p).last_amp)
<1> DEFINE amp == o.wave[p.wave_pos] * Earlier(o.env.gain, gain_top) * master_volumes[o.master]
           next == WaveClock(o, freq, p)
<1>1. next \in WaveState(n)
  BY Zenon, WaveClocks DEF WaveLoop
<1>2. next.last_amp \in Int /\ p.last_amp \in Int
  <2>1. next.last_amp \in Nat /\ p.last_amp \in Nat
    BY Zenon, <1>1 DEF WaveLoop, WaveState
  <2> QED
    BY SMT, <2>1
<1>3. next.last_amp = amp /\ next.deltas = [p.deltas EXCEPT ![p.time] = @ + amp - p.last_amp]
  BY Zenon DEF WaveClock
<1> HIDE DEF amp, next
<1>4. PICK d \in Deltas(n), b \in Int, c \in Int : d = p.deltas /\ b = amp /\ c = p.last_amp
  <2>1. p.deltas \in Deltas(n)
    BY Zenon DEF WaveLoop, WaveState
  <2> QED
    BY Zenon, <1>2, <1>3, <2>1
<1>5. PICK t \in 0 .. n : t = p.time
  <2>1. p.time \in Nat
    BY Zenon DEF WaveLoop, WaveState
  <2> QED
    BY SMT, <2>1
<1>6. [d EXCEPT ![t] = @ + b - c] = Moved(d, t, b - c)
  BY Zenon, MovedBy DEF Moved
<1>7. b - c \in Int
  BY SMT
<1>8. Total(d) \in Int /\ MoreBy(Moved(d, t, b - c), d, b - c)
  BY Zenon, <1>4, <1>5, <1>7, MovedMore
<1>9. Total(next.deltas) = Total(d) + (b - c) /\ c = a + Total(d)
  BY Zenon, <1>3, <1>4, <1>5, <1>6, <1>8 DEF MoreBy, Leads
<1>10. b = a + (Total(d) + (b - c))
  BY SMT, <1>8, <1>9
<1>11. Leads(a, next.deltas, next.last_amp)
  BY Zenon, <1>3, <1>4, <1>9, <1>10 DEF Leads
<1> QED
  BY Zenon, <1>11 DEF next

(* A wave that has been led from the level a to its own.                   *)
LedLoop(n, freq, end, a) == {p \in WaveLoop(n, freq, end) : Leads(a, p.deltas, p.last_amp)}

LEMMA WaveClockedLeads ==
  ASSUME NEW o \in FdsState, NEW freq \in 1 .. fract_range, NEW n \in Nat, NEW end \in 0 .. n,
         NEW start \in 0 .. end, NEW a \in Int, NEW first \in LedLoop(n, freq, end, a)
  PROVE  WaveClocked(o, freq, first, start, end) \in LedLoop(n, freq, end, a)
<1> DEFINE count == end - start
           D == LedLoop(n, freq, end, a)
           next(p) == IF p.time > end THEN p ELSE WaveClock(o, freq, p)
           step == [x \in D \X (0 .. count) |-> next(x[1])]
           Eq(g) == g = [k \in 0 .. count |-> IF k = 0 THEN first ELSE next(g[k - 1])]
<1>1. count \in Nat /\ end \in Nat /\ start \in Nat
  BY SMT
<1>2. ASSUME NEW p \in D PROVE next(p) \in D
  <2>1. p \in WaveLoop(n, freq, end) /\ Leads(a, p.deltas, p.last_amp)
    BY Zenon DEF LedLoop
  <2>2. p.time \in Nat
    BY Zenon, <2>1 DEF WaveLoop, WaveState
  <2>3. p.time > end \/ (p.time <= end /\ ~(p.time > end))
    BY SMT, <1>1, <2>2
  <2>4. CASE p.time <= end /\ ~(p.time > end)
    <3>1. /\ WaveClock(o, freq, p) \in WaveLoop(n, freq, end)
          /\ Leads(a, WaveClock(o, freq, p).deltas, WaveClock(o, freq, p).last_amp)
      BY Zenon, <2>1, <2>4, WaveClocks, WaveClockLeads
    <3> QED
      BY Zenon, <2>4, <3>1 DEF LedLoop
  <2> QED
    BY Zenon, <2>3, <2>4
<1> HIDE DEF D, next, count
<1>3. ASSUME NEW d \in D, NEW k \in 0 .. count PROVE step[<<d, k>>] = next(d)
  BY Zenon
<1> HIDE DEF step
<1>4. PICK f \in [0 .. count -> D] : IsLoop(f, first, step, 0 .. count)
  <2>1. Closed(D, step, 0 .. count)
    BY Zenon, <1>2, <1>3 DEF Closed
  <2> QED
    BY Zenon, <1>1, <2>1, LoopExists DEF D
<1>5. Eq(f)
  <2>1. ASSUME NEW k \in 0 .. count PROVE f[k] = IF k = 0 THEN first ELSE next(f[k - 1])
    <3>1. f[k] = IF k = 0 THEN first ELSE step[<<f[k - 1], k>>]
      BY Zenon, <1>4 DEF IsLoop
    <3>2. k # 0 => f[k - 1] \in D
      BY Zenon, <1>1, <1>4, Indices
    <3> QED
      BY Zenon, <1>3, <3>1, <3>2
  <2> QED
    BY Zenon, <2>1
<1>6. PICK g : Eq(g) /\ WaveClocked(o, freq, first, start, end) = g[count]
  <2>1. Eq(CHOOSE g : Eq(g))
    <3> HIDE DEF Eq
    <3> QED
      BY Zenon, <1>5
  <2>2. WaveClocked(o, freq, first, start, end) = (CHOOSE g : Eq(g))[count]
    BY Zenon DEF WaveClocked, count, next
  <2> HIDE DEF Eq
  <2> QED
    BY Zenon, <2>1, <2>2
<1>7. g[0] = first /\ \A k \in 1 .. count : g[k] = next(g[k - 1])
  BY Zenon, <1>1, <1>6, Indices
<1>8. \A k \in 0 .. count : g[k] \in D
  <2>1. first \in D
    BY DEF D
  <2>2. \A k \in 1 .. count : g[k - 1] \in D => g[k] \in D
    BY Zenon, <1>2, <1>7
  <2> QED
    BY Zenon, <1>1, <1>7, <2>1, <2>2, Stays
<1>9. g[count] \in D
  BY Zenon, <1>1, <1>8, Indices
<1> QED
  BY Zenon, <1>6, <1>9 DEF D

LEMMA WavePlayedLeads ==
  ASSUME NEW n \in Nat, NEW s \in FdsStretch(n), NEW o \in FdsState,
         NEW freq \in Int, freq <= fract_range, NEW end \in s.end .. n, NEW a \in Int,
         Leads(a, s.deltas, o.last_amp)
  PROVE  LET next == WavePlayed(s, o, freq, end)
         IN  Leads(a, next.deltas, next.osc.last_amp)
<1> DEFINE next == WavePlayed(s, o, freq, end)
<1>1. s.end \in 0 .. n /\ s.deltas \in Deltas(n)
  BY Zenon DEF FdsStretch
<1>2. end \in 0 .. n /\ end \in Int /\ s.end \in 0 .. end /\ s.end \in Nat /\ n \in Int
  BY SMT, <1>1
<1>3. CASE freq <= 0
  <2>1. next = [s EXCEPT !.osc = o, !.end = end]
    BY Zenon, <1>3 DEF WavePlayed
  <2> HIDE DEF next
  <2>2. next.osc = o /\ next.deltas = s.deltas
    BY Zenon, <2>1 DEF FdsStretch
  <2>3. Leads(a, next.deltas, next.osc.last_amp)
    BY Zenon, <2>2
  <2> QED
    BY Zenon, <2>3 DEF next
<1>4. CASE ~(freq <= 0)
  <2>1. freq \in 1 .. fract_range /\ freq \in Nat \ {0} /\ freq \in Nat
    <3>1. fract_range \in Nat \ {0}
      BY Zenon, FdsConstants
    <3> QED
      BY SMT, <1>4, <3>1
  <2> DEFINE delay == Ceil(o.wave_fract, freq)
             first == WaveBefore(o, delay, s)
             p == WaveClocked(o, freq, first, s.end, end)
             fract == p.wave_fract - (end - (p.time - p.delay)) * freq
             osc2 == [o EXCEPT !.wave_pos = p.wave_pos, !.last_amp = p.last_amp, !.wave_fract = fract]
  <2>2. o.wave_fract \in Fraction /\ o.wave_pos \in WaveSpot /\ o.last_amp \in Nat
    BY Zenon, FdsFields
  <2>3. delay \in Nat \ {0} /\ Due(o.wave_fract, delay, freq)
    <3>1. o.wave_fract \in Nat \ {0}
      <4>1. fract_range \in Nat \ {0}
        BY Zenon, FdsConstants
      <4> QED
        BY SMT, <2>2, <4>1 DEF Fraction
    <3> QED
      BY Zenon, <2>1, <3>1, CeilIs
  <2> HIDE DEF delay
  <2> DEFINE time == s.end + delay
  <2>4. time \in Nat /\ time - delay = s.end /\ time - delay <= end
    BY SMT, <1>2, <2>3
  <2> HIDE DEF time
  <2>5. first = [wave_pos |-> o.wave_pos, wave_fract |-> o.wave_fract, delay |-> delay,
                 last_amp |-> o.last_amp, deltas |-> s.deltas, time |-> time]
    BY Zenon DEF WaveBefore, time
  <2> HIDE DEF first
  <2>6. first \in WaveState(n)
    BY SMT, <1>1, <2>2, <2>3, <2>4, <2>5 DEF WaveState
  <2>7. /\ first.time = time /\ first.delay = delay /\ first.wave_fract = o.wave_fract
        /\ first.deltas = s.deltas /\ first.last_amp = o.last_amp
    BY SMT, <2>5
  <2>8. first \in LedLoop(n, freq, end, a)
    BY Zenon, <2>3, <2>4, <2>6, <2>7 DEF WaveLoop, LedLoop
  <2>9. p \in LedLoop(n, freq, end, a)
    BY Zenon, <1>2, <2>1, <2>8, WaveClockedLeads
  <2>10. next = [s EXCEPT !.end = end, !.deltas = p.deltas, !.osc = osc2]
    BY Zenon, <1>4 DEF WavePlayed, WaveAfter, first, delay
  <2> HIDE DEF p
  <2>11. osc2.last_amp = p.last_amp
    BY Zenon DEF FdsState
  <2> HIDE DEF osc2, next
  <2>12. next.osc = osc2 /\ next.deltas = p.deltas
    BY Zenon, <2>10 DEF FdsStretch
  <2>13. Leads(a, next.deltas, next.osc.last_amp)
    BY Zenon, <2>9, <2>11, <2>12 DEF LedLoop
  <2> QED
    BY Zenon, <2>13 DEF next
<1> QED
  BY Zenon, <1>3, <1>4

LEMMA ModulatedStays ==
  ASSUME NEW o \in FdsState, NEW clocks
  PROVE  Modulated(o, clocks).last_amp = o.last_amp
<1> DEFINE left == o.mod_fract - clocks * mod_freq(o)
           pos == (o.mod_pos + 1) % wave_size
           bias == IF o.mod_wave[o.mod_pos] = 4 THEN 0
                   ELSE (o.bias + mod_table[o.mod_wave[o.mod_pos] + 1]) % bias_range
           fract == left + fract_range
<1>1. Modulated(o, clocks) = IF left > 0 THEN [o EXCEPT !.mod_fract = left]
                             ELSE [o EXCEPT !.mod_fract = fract, !.mod_pos = pos, !.bias = bias]
  BY Zenon DEF Modulated
<1> HIDE DEF left, pos, bias, fract
<1>2. /\ [o EXCEPT !.mod_fract = left].last_amp = o.last_amp
      /\ [o EXCEPT !.mod_fract = fract, !.mod_pos = pos, !.bias = bias].last_amp = o.last_amp
  BY Zenon DEF FdsState
<1> QED
  BY Zenon, <1>1, <1>2

LEMMA UnitsStepAside ==
  ASSUME NEW n \in Nat, NEW s \in FdsStretch(n)
  PROVE  LET t == UnitsStepped(s)
         IN  t.deltas = s.deltas /\ t.osc.last_amp = s.osc.last_amp
<1> DEFINE o == s.osc
           sweep == IF s.sweep_time <= s.end THEN Stepped(o.sweep) ELSE o.sweep
           env == IF s.env_time <= s.end THEN Stepped(o.env) ELSE o.env
           sweep_time == s.sweep_time + IF s.sweep_time <= s.end THEN UnitPeriod(o, o.sweep) ELSE 0
           env_time == s.env_time + IF s.env_time <= s.end THEN UnitPeriod(o, o.env) ELSE 0
           osc2 == [o EXCEPT !.sweep = sweep, !.env = env]
           t == UnitsStepped(s)
           u == [s EXCEPT !.osc = osc2, !.sweep_time = sweep_time, !.env_time = env_time]
<1>1. o \in FdsState
  BY Zenon, StretchFields
<1>2. t = u
  BY Zenon DEF UnitsStepped, FdsStretch, FdsState
<1> HIDE DEF sweep, env, sweep_time, env_time
<1>3. osc2.last_amp = o.last_amp
  BY Zenon, <1>1 DEF FdsState
<1> HIDE DEF osc2
<1>4. u.osc = osc2 /\ u.deltas = s.deltas
  BY Zenon DEF FdsStretch
<1> HIDE DEF u, t
<1>5. t.deltas = s.deltas /\ t.osc.last_amp = s.osc.last_amp
  BY Zenon, <1>2, <1>3, <1>4
<1> QED
  BY Zenon, <1>5 DEF t

LedPassed(n, a) == {s \in Passed(n) : Leads(a, s.deltas, s.osc.last_amp)}

LEMMA PassLeads ==
  ASSUME NEW n \in Nat, NEW a \in Int, NEW s \in LedPassed(n, a)
  PROVE  FdsPass(s, n) \in LedPassed(n, a)
<1> DEFINE t == UnitsStepped(s)
           end == PassEnd(t, n)
           o == IF mod_freq(t.osc) = 0 THEN t.osc ELSE Modulated(t.osc, end - t.end)
           freq == Freq(t.osc)
           next == WavePlayed(t, o, freq, end)
<1>1. FdsPass(s, n) = next
  BY Zenon DEF FdsPass, PassFrom, PassTo
<1>2. /\ s \in FdsStretch(n) /\ Timely(s, n) /\ s \in Passed(n)
      /\ Leads(a, s.deltas, s.osc.last_amp)
  BY Zenon DEF Passed, LedPassed
<1>16. FdsPass(s, n) \in Passed(n)
  BY Zenon, <1>2, PassIsMade
<1>3. t \in FdsStretch(n) /\ t.end = s.end /\ Timely(t, n) /\ Later(t, n)
  BY Zenon, <1>2, UnitsAreStepped
<1>17. t.deltas = s.deltas /\ t.osc.last_amp = s.osc.last_amp
  BY Zenon, <1>2, UnitsStepAside
<1> HIDE DEF t
<1>4. t.osc \in FdsState /\ t.end \in 0 .. n
  BY Zenon, <1>3, StretchFields
<1>5. /\ end \in t.end .. n
      /\ (mod_freq(t.osc) # 0 =>
            end - t.end \in Nat /\ end - t.end <= Ceil(t.osc.mod_fract, mod_freq(t.osc)))
  BY Zenon, <1>3, PassEnds
<1> HIDE DEF end
<1>6. o \in FdsState /\ o.last_amp = t.osc.last_amp
  <2>1. CASE mod_freq(t.osc) = 0
    BY Zenon, <1>4, <2>1
  <2>2. CASE mod_freq(t.osc) # 0
    <3>1. PICK clocks \in Nat : clocks = end - t.end
      BY Zenon, <1>5, <2>2
    <3>2. clocks <= Ceil(t.osc.mod_fract, mod_freq(t.osc))
      BY Zenon, <1>5, <2>2, <3>1
    <3>3. Modulated(t.osc, clocks) \in FdsState
          /\ Modulated(t.osc, clocks).last_amp = t.osc.last_amp
      BY Zenon, <1>4, <2>2, <3>1, <3>2, Modulating, ModulatedStays
    <3>4. o = Modulated(t.osc, clocks)
      BY Zenon, <2>2, <3>1
    <3> QED
      BY Zenon, <3>3, <3>4
  <2> QED
    BY Zenon, <2>1, <2>2
<1> HIDE DEF o
<1>7. freq \in Int /\ freq <= fract_range
  BY Zenon, <1>4, FreqIsBounded
<1> HIDE DEF freq
<1>8. Leads(a, t.deltas, o.last_amp)
  BY Zenon, <1>2, <1>6, <1>17
<1>9. Leads(a, next.deltas, next.osc.last_amp)
  BY Zenon, <1>3, <1>5, <1>6, <1>7, <1>8, WavePlayedLeads
<1> HIDE DEF next
<1> QED
  BY Zenon, <1>1, <1>9, <1>16 DEF LedPassed

LEMMA PassesLead ==
  ASSUME NEW n \in Nat, NEW a \in Int, NEW first \in LedPassed(n, a)
  PROVE  FdsPasses(first, n) \in LedPassed(n, a)
<1> DEFINE D == LedPassed(n, a)
           begun == FdsPass(first, n)
           next(s) == IF s.end >= n THEN s ELSE FdsPass(s, n)
           step == [x \in D \X (0 .. n) |-> next(x[1])]
           Eq(g) == g = [k \in 0 .. n |-> IF k = 0 THEN begun ELSE next(g[k - 1])]
<1>2. ASSUME NEW s \in D PROVE next(s) \in D
  BY Zenon, PassLeads
<1>3. begun \in D
  BY Zenon, PassLeads
<1> HIDE DEF D, next, begun
<1>5. ASSUME NEW d \in D, NEW k \in 0 .. n PROVE step[<<d, k>>] = next(d)
  BY Zenon
<1> HIDE DEF step
<1>6. PICK f \in [0 .. n -> D] : IsLoop(f, begun, step, 0 .. n)
  <2>1. Closed(D, step, 0 .. n)
    BY Zenon, <1>2, <1>5 DEF Closed
  <2> QED
    BY Zenon, <1>3, <2>1, LoopExists
<1>7. Eq(f)
  <2>1. ASSUME NEW k \in 0 .. n PROVE f[k] = IF k = 0 THEN begun ELSE next(f[k - 1])
    <3>1. f[k] = IF k = 0 THEN begun ELSE step[<<f[k - 1], k>>]
      BY Zenon, <1>6 DEF IsLoop
    <3>2. k # 0 => f[k - 1] \in D
      BY Zenon, <1>6, Indices
    <3> QED
      BY Zenon, <1>5, <3>1, <3>2
  <2> QED
    BY Zenon, <2>1
<1>8. PICK g : Eq(g) /\ FdsPasses(first, n) = g[n]
  <2>1. Eq(CHOOSE g : Eq(g))
    <3> HIDE DEF Eq
    <3> QED
      BY Zenon, <1>7
  <2>2. FdsPasses(first, n) = (CHOOSE g : Eq(g))[n]
    BY Zenon DEF FdsPasses, next, begun
  <2> HIDE DEF Eq
  <2> QED
    BY Zenon, <2>1, <2>2
<1>9. g[0] = begun /\ \A k \in 1 .. n : g[k] = next(g[k - 1])
  BY Zenon, <1>8, Indices
<1>10. \A k \in 0 .. n : g[k] \in D
  <2>1. \A k \in 1 .. n : g[k - 1] \in D => g[k] \in D
    BY Zenon, <1>2, <1>9
  <2> QED
    BY Zenon, <1>3, <1>9, <2>1, Stays
<1>11. g[n] \in D
  BY Zenon, <1>10, Indices
<1> QED
  BY Zenon, <1>8, <1>11 DEF D

(* The record that a run of the channel begins with.                       *)
FdsFirst(o, n) ==
  [osc |-> o, deltas |-> Silence(n), end |-> 0,
   sweep_time |-> IF Idle(o, o.sweep) THEN n ELSE o.sweep.delay,
   env_time |-> IF Idle(o, o.env) THEN n ELSE o.env.delay]

LEMMA FdsBegins ==
  ASSUME NEW o \in FdsState, NEW n \in Nat
  PROVE  FdsFirst(o, n) \in LedPassed(n, o.last_amp)
<1> DEFINE sweep_time == IF Idle(o, o.sweep) THEN n ELSE o.sweep.delay
           env_time == IF Idle(o, o.env) THEN n ELSE o.env.delay
           first == [osc |-> o, deltas |-> Silence(n), end |-> 0,
                     sweep_time |-> sweep_time, env_time |-> env_time]
<1>1. o.sweep \in Unit /\ o.env \in Unit /\ o.last_amp \in Nat
  BY Zenon, FdsFields
<1>2. sweep_time \in Nat /\ env_time \in Nat
  BY Zenon, <1>1 DEF Unit
<1>3. OnTime(o, o.sweep, sweep_time, 0, n)
  <2>1. ~(n < n) /\ 0 <= sweep_time
    BY SMT, <1>2
  <2>2. UnitPeriod(o, o.sweep) # 0 => UnitPeriod(o, o.sweep) \in Nat \ {0}
    <3>1. UnitPeriod(o, o.sweep) \in Nat
      BY Zenon, <1>1, UnitPeriodIs
    <3> QED
      BY SMT, <3>1
  <2> QED
    BY Zenon, <2>1, <2>2 DEF OnTime, Idle
<1>4. OnTime(o, o.env, env_time, 0, n)
  <2>1. ~(n < n) /\ 0 <= env_time
    BY SMT, <1>2
  <2>2. UnitPeriod(o, o.env) # 0 => UnitPeriod(o, o.env) \in Nat \ {0}
    <3>1. UnitPeriod(o, o.env) \in Nat
      BY Zenon, <1>1, UnitPeriodIs
    <3> QED
      BY SMT, <3>1
  <2> QED
    BY Zenon, <2>1, <2>2 DEF OnTime, Idle
<1>9. first = FdsFirst(o, n)
  BY Zenon DEF FdsFirst
<1> HIDE DEF sweep_time, env_time
<1>5. first \in FdsStretch(n)
  <2>1. 0 \in 0 .. n /\ 0 \in Int
    BY SMT
  <2>2. Silence(n) \in Deltas(n)
    BY Zenon, <2>1 DEF Silence, Deltas
  <2> QED
    BY SMT, <1>2, <2>1, <2>2 DEF FdsStretch
<1>6. /\ first.osc = o /\ first.end = 0 /\ first.sweep_time = sweep_time
      /\ first.env_time = env_time /\ first.deltas = Silence(n)
  BY SMT
<1> HIDE DEF first
<1>7. first \in Passed(n)
  BY Zenon, <1>3, <1>4, <1>5, <1>6 DEF Passed, Timely
<1>8. Leads(o.last_amp, Silence(n), o.last_amp)
  <2>1. PICK a \in Int : a = o.last_amp
    BY SMT, <1>1
  <2> QED
    BY Zenon, <2>1, SilenceLeads
<1> QED
  BY Zenon, <1>6, <1>7, <1>8, <1>9 DEF LedPassed

LEMMA FdsFollows ==
  ASSUME NEW o \in FdsState, NEW n \in Nat, NEW run, run = RunFds(o, n)
  PROVE  Adds(o, run)
<1>1. o.last_amp \in Int
  <2>1. o.last_amp \in Nat
    BY Zenon, FdsFields
  <2> QED
    BY SMT, <2>1
<1>2. CASE ~FdsPlaying(o)
  <2>1. run = Unheard(o, n)
    BY Zenon, <1>2 DEF RunFds
  <2> QED
    BY Zenon, <1>1, <2>1, UnheardAdds
<1>3. CASE FdsPlaying(o)
  <2>1. run = FdsRunEnd(FdsPasses(FdsFirst(o, n), n), n)
    BY Zenon, <1>3 DEF RunFds, FdsFirst
  <2>2. FdsPasses(FdsFirst(o, n), n) \in LedPassed(n, o.last_amp)
    BY Zenon, <1>1, FdsBegins, PassesLead
  <2>3. PICK last \in LedPassed(n, o.last_amp) : last = FdsPasses(FdsFirst(o, n), n)
    BY Zenon, <2>2
  <2>4. last.osc \in FdsState /\ Leads(o.last_amp, last.deltas, last.osc.last_amp)
    <3>1. last \in FdsStretch(n) /\ Leads(o.last_amp, last.deltas, last.osc.last_amp)
      BY Zenon, <2>3 DEF LedPassed, Passed
    <3> QED
      BY Zenon, <3>1, StretchFields
  <2>5. FdsRunEnd(last, n).deltas = last.deltas
        /\ FdsRunEnd(last, n).osc.last_amp = last.osc.last_amp
    BY Zenon, <2>4 DEF FdsRunEnd, FdsState
  <2> QED
    BY Zenon, <2>1, <2>3, <2>4, <2>5 DEF Adds
<1> QED
  BY Zenon, <1>2, <1>3

-----------------------------------------------------------------------------
(* All of them.                                                            *)

LEMMA PlayedIs ==
  ASSUME OscInv
  PROVE  PlayedIsTheWave
<1>1. osc \in States
  BY Zenon DEF OscInv
<1> SUFFICES ASSUME osc.output, NEW n \in Lengths PROVE OfTheWave(Run(osc, n))
  BY Zenon DEF PlayedIsTheWave
<1>2. n \in Nat /\ n \in Nat \ {0}
  BY Zenon, LengthsAre
<1>3. PICK run : run = Run(osc, n)
  OBVIOUS
<1>4. OscRan(osc, n, run)
  <2>1. n > 0
    BY Zenon, LengthsAre
  <2> QED
    BY Zenon, <1>1, <1>2, <1>3, <2>1, OscRun
<1>5. run.osc.kind = osc.kind
  BY Zenon, <1>4 DEF OscRan
<1>6. Adds(osc, run) /\ run.osc.last_amp = Wave(run.osc) => OfTheWave(run)
  BY Zenon DEF OfTheWave, Adds, Leads, Total
<1>7. /\ run.osc.kind \in Pulses => Wave(run.osc) = PulseWave(run.osc)
      /\ run.osc.kind = "triangle" => Wave(run.osc) = calc_amp(run.osc)
      /\ run.osc.kind = "noise" => Wave(run.osc) = (run.osc.noise % 2) * volume(run.osc)
      /\ run.osc.kind = "vrc6_square" => Wave(run.osc) = Vrc6Amp(run.osc)
      /\ run.osc.kind = "fme7" => Wave(run.osc) = run.osc.phase * Fme7Volume(run.osc)
      /\ run.osc.kind \in {"mmc5_pcm", "vrc6_saw", "namco", "fds", "vrc7"} =>
           Wave(run.osc) = run.osc.last_amp
  <2>1. PICK kind : kind = run.osc.kind
    OBVIOUS
  <2> QED
    BY SMT DEF Wave, Pulses, squares, PulseWave
<1>8. CASE osc.kind \in squares /\ osc \in SquareOsc
  <2>1. osc.kind \in Pulses /\ osc \in Pulse /\ run = RunSquare(osc, n)
    BY Zenon, <1>3, <1>8, RunOf DEF Pulses, Pulse
  <2> QED
    BY Zenon, <1>2, <1>3, <1>5, <1>6, <1>7, <2>1, SquareFollows
<1>9. CASE osc.kind = "mmc5_square" /\ osc \in Mmc5SquareOsc
  <2>1. osc.kind \in Pulses /\ run = RunMmc5Square(osc, n)
    BY Zenon, <1>3, <1>9, RunOf DEF Pulses
  <2> QED
    BY Zenon, <1>2, <1>3, <1>5, <1>6, <1>7, <1>9, <2>1, Mmc5Follows
<1>10. CASE osc.kind = "triangle" /\ osc \in TriangleOsc
  BY Zenon, <1>2, <1>3, <1>5, <1>6, <1>7, <1>10, RunOf, TriangleFollows
<1>11. CASE osc.kind = "noise" /\ osc \in NoiseOsc
  BY Zenon, <1>2, <1>3, <1>5, <1>6, <1>7, <1>11, RunOf, NoiseFollows
<1>12. CASE osc.kind = "vrc6_square" /\ osc \in Vrc6SquareOsc
  BY Zenon, <1>2, <1>3, <1>5, <1>6, <1>7, <1>12, RunOf, Vrc6Follows
<1>13. CASE osc.kind = "fme7" /\ osc \in Fme7Osc
  BY Zenon, <1>2, <1>3, <1>5, <1>6, <1>7, <1>13, RunOf, Fme7Follows
<1>14. CASE osc.kind = "vrc6_saw" /\ osc \in SawOsc
  BY Zenon, <1>2, <1>3, <1>5, <1>6, <1>7, <1>14, RunOf, SawFollows
<1>15. CASE osc.kind = "namco" /\ osc \in NamcoOsc
  BY Zenon, <1>2, <1>3, <1>5, <1>6, <1>7, <1>15, RunOf, NamcoFollows
<1>16. CASE osc.kind = "fds" /\ osc \in FdsState
  BY Zenon, <1>2, <1>3, <1>5, <1>6, <1>7, <1>16, RunOf, FdsFollows
<1>17. CASE osc.kind = "vrc7" /\ osc \in Vrc7State
  BY Zenon, <1>2, <1>3, <1>5, <1>6, <1>7, <1>17, RunOf, Vrc7Follows
<1>18. CASE osc.kind = "mmc5_pcm" /\ osc \in PcmOsc
  <2>1. osc.last_amp \in Int
    BY SMT, <1>18 DEF PcmOsc
  <2>2. run = Unheard(osc, n)
    BY Zenon, <1>3, <1>18, RunOf
  <2> QED
    BY Zenon, <1>2, <1>3, <1>5, <1>6, <1>7, <1>18, <2>1, <2>2, UnheardAdds
<1> QED
  BY ZenonT(30), <1>1, <1>8, <1>9, <1>10, <1>11, <1>12, <1>13, <1>14, <1>15, <1>16, <1>17, <1>18, KindOf

(* What the runs of an oscillator add to the buffer leads from level to    *)
(* level of its wave.                                                      *)
THEOREM OscsPlay == Spec => []PlayedIsTheWave
BY OscInvariant, PlayedIs, PTL

-----------------------------------------------------------------------------
(* A run that is cut.  Its two parts, one after the other, are the whole.  *)

Parted(one, two, all, m, n) ==
  two.osc = all.osc /\ all.deltas = Glued(one.deltas, two.deltas, m, n)

CutFits(u, z, first, second, whole, m, n) == u = z /\ whole = Glued(first, second, m, n)

LEMMA WaveCut ==
  ASSUME NEW w, NEW x, NEW a, NEW d, NEW p, NEW m, NEW n, NEW y, NEW z, NEW u,
         NEW first, NEW second, NEW whole, PlayedFrom(w, x, a, d, p, m, y, first),
         PlayedFrom(w, y, w.level[y], DelayAfter(d, p, m), p, n, z, second),
         PlayedFrom(w, x, a, d, p, m + n, u, whole)
  PROVE  CutFits(u, z, first, second, whole, m, n)
<1>1. /\ IsWave(w) /\ x \in w.states /\ a \in Int /\ d \in Nat /\ p \in Nat \ {0} /\ m \in Nat
      /\ Plays(w, x, a, d, p, m, y, first)
  BY Zenon DEF PlayedFrom
<1>2. n \in Nat /\ Plays(w, y, w.level[y], DelayAfter(d, p, m), p, n, z, second)
  BY Zenon DEF PlayedFrom
<1>3. m + n \in Nat /\ Plays(w, x, a, d, p, m + n, u, whole)
  BY Zenon DEF PlayedFrom
<1>4. Plays(w, x, a, d, p, m + n, z, Glued(first, second, m, n))
  BY Zenon, <1>1, <1>2, PlaysBy
<1>5. z = u /\ Glued(first, second, m, n) = whole
  BY Zenon, <1>1, <1>3, <1>4, PlaysOnce
<1> QED
  BY Zenon, <1>5 DEF CutFits

(* A run that only moves the output at its beginning.                      *)
LEMMA FirstCut ==
  ASSUME NEW m \in Nat, NEW n \in Nat, NEW amp \in Int, NEW o, o.last_amp \in Int,
         NEW x, x.last_amp = amp
  PROVE  First(o, amp, m + n) = Glued(First(o, amp, m), First(x, amp, n), m, n)
<1>1. PICK c \in Int : c = amp - o.last_amp
  BY SMT
<1>2. First(x, amp, n) = Silence(n)
  <2>1. x.last_amp \in Int
    BY Zenon
  <2> QED
    BY Zenon, <2>1, Firsts
<1>3. First(o, amp, m) = Moved(Silence(m), 0, c)
  BY Zenon, <1>1, FirstIs
<1>4. First(o, amp, m + n) = Moved(Silence(m + n), 0, c)
  <2>1. m + n \in Nat
    BY SMT
  <2> QED
    BY Zenon, <1>1, <2>1, FirstIs
<1>5. Silence(m) \in Deltas(m) /\ Silence(n) \in Deltas(n) /\ 0 \in 0 .. m
  BY Zenon, SilentSum, Indices
<1>6. PICK f \in Deltas(m), g \in Deltas(n), t \in 0 .. m : f = Silence(m) /\ g = Silence(n) /\ t = 0
  BY Zenon, <1>5
<1>7. Glued(Moved(f, t, c), g, m, n) = Moved(Glued(f, g, m, n), t, c)
  BY SMT, GluedMoved
<1> QED
  BY Zenon, <1>2, <1>3, <1>4, <1>6, <1>7, GluedSilence

LEMMA UnheardCut ==
  ASSUME NEW m \in Nat, NEW n \in Nat, NEW a, NEW b, NEW c
  PROVE  /\ Unheard(a, m).osc = a /\ Unheard(a, m).deltas = Silence(m)
         /\ b = c => Parted(Unheard(a, m), Unheard(b, n), Unheard(c, m + n), m, n)
BY Zenon, GluedSilence DEF Parted, Unheard

-----------------------------------------------------------------------------
(* The squares.                                                            *)

PulsePut(x, o, phase, amp, delay) ==
  x = [o EXCEPT !.phase = phase, !.last_amp = amp, !.delay = delay]

LEMMA PulsePutIs ==
  ASSUME NEW o \in Pulse, NEW phase, NEW amp, NEW delay, NEW x, PulsePut(x, o, phase, amp, delay)
  PROVE  /\ x.phase = phase /\ x.last_amp = amp /\ x.delay = delay
         /\ SamePulse(o, x) /\ x.output = o.output
<1>1. CASE o \in SquareOsc
  BY SMT, <1>1 DEF PulsePut, SquareOsc, SamePulse
<1>2. CASE o \in Mmc5SquareOsc
  BY SMT, <1>2 DEF PulsePut, Mmc5SquareOsc, SamePulse
<1> QED
  BY Zenon, <1>1, <1>2 DEF Pulse

LEMMA PulsePutTwice ==
  ASSUME NEW o, NEW x, NEW y, NEW a, NEW b, NEW c, NEW d, NEW e, NEW f,
         PulsePut(x, o, a, b, c), PulsePut(y, x, d, e, f)
  PROVE  PulsePut(y, o, d, e, f)
BY Zenon DEF PulsePut

(* A square keeps its time by the same formula whether it is heard or not. *)
PulseKept(x, o, n, amp) == PulsePut(x, o, PulsePhase(o, n), amp, PulseDelay(o, n))

LEMMA PulseTime ==
  ASSUME NEW o \in Pulse, NEW n \in Nat
  PROVE  PulsePhase(o, n) \in 0 .. phase_range - 1 /\ PulseDelay(o, n) \in Nat
<1>1. /\ o.phase \in 0 .. phase_range - 1 /\ Count(o.delay, timer_period(o), n) \in Nat
      /\ PulseDelay(o, n) \in Nat
  BY Zenon, PulseFields, Counting DEF PulseDelay
<1>2. \A c \in Nat : (o.phase + c) % phase_range \in 0 .. phase_range - 1
  BY SMT, <1>1 DEF phase_range
<1> QED
  BY Zenon, <1>1, <1>2 DEF PulsePhase

LEMMA PulseKeeps ==
  ASSUME NEW o \in Pulse, NEW n \in Nat, NEW run, run = RunSquare(o, n)
  PROVE  PulseKept(run.osc, o, n, run.osc.last_amp) /\ run.osc \in Pulse
<1>1. PulseRan(o, n, run)
  BY Zenon, PulseRun
<1>2. PICK amp \in Nat : PulseKept(run.osc, o, n, amp)
  BY Zenon, <1>1 DEF PulseRan, PulseKept, PulsePut
<1>3. PulsePhase(o, n) \in 0 .. phase_range - 1 /\ PulseDelay(o, n) \in Nat
  BY Zenon, PulseTime
<1>4. PICK x : x = run.osc
  OBVIOUS
<1>5. PICK phase \in 0 .. phase_range - 1, delay \in Nat :
        phase = PulsePhase(o, n) /\ delay = PulseDelay(o, n)
  BY Zenon, <1>3
<1>6. x = [o EXCEPT !.phase = phase, !.last_amp = amp, !.delay = delay]
  BY Zenon, <1>2, <1>4, <1>5 DEF PulseKept, PulsePut
<1>7. x \in Pulse
  <2> DEFINE moved == [o EXCEPT !.phase = phase, !.last_amp = amp, !.delay = delay]
  <2>1. o \in SquareOsc => moved \in SquareOsc
    BY Zenon, <1>2, <1>5 DEF SquareOsc
  <2>2. o \in Mmc5SquareOsc => moved \in Mmc5SquareOsc
    BY Zenon, <1>2, <1>5 DEF Mmc5SquareOsc
  <2> HIDE DEF moved
  <2>3. x = moved
    BY Zenon, <1>6 DEF moved
  <2> QED
    BY Zenon, <2>1, <2>2, <2>3 DEF Pulse
<1>8. x.last_amp = amp
  BY SMT, <1>2, <1>4, PulsePutIs DEF PulseKept
<1> QED
  BY Zenon, <1>2, <1>4, <1>7, <1>8

CutInTime(d, p, m, n) ==
  \E b \in Nat, c \in Nat, all \in Nat :
    /\ b = Count(d, p, m) /\ c = Count(DelayAfter(d, p, m), p, n)
    /\ all = Count(d, p, m + n) /\ all = b + c
    /\ DelayAfter(DelayAfter(d, p, m), p, n) = DelayAfter(d, p, m + n)

LEMMA CutTimes ==
  ASSUME NEW d \in Nat, NEW p \in Nat \ {0}, NEW m \in Nat, NEW n \in Nat
  PROVE  CutInTime(d, p, m, n)
<1>1. LET e == DelayAfter(d, p, m)
          b == Count(d, p, m)
          c == Count(e, p, n)
      IN  /\ e \in Nat /\ b \in Nat /\ c \in Nat
          /\ Count(d, p, m + n) = b + c
          /\ DelayAfter(e, p, n) = DelayAfter(d, p, m + n)
  BY SMT, CutCounts
<1>2. \A b, c \in Nat : b + c \in Nat
  BY SMT
<1> QED
  BY Zenon, <1>1, <1>2 DEF CutInTime

LEMMA PulseKeptTwice ==
  ASSUME NEW o \in Pulse, NEW m \in Nat, NEW n \in Nat, NEW x, NEW y, NEW amp, NEW amp2,
         PulseKept(x, o, m, amp), PulseKept(y, x, n, amp2)
  PROVE  PulseKept(y, o, m + n, amp2)
<1>1. /\ o.phase \in 0 .. phase_range - 1 /\ o.delay \in Nat /\ timer_period(o) \in Nat \ {0}
  BY Zenon, PulseFields
<1>2. x.phase = PulsePhase(o, m) /\ x.delay = PulseDelay(o, m) /\ timer_period(x) = timer_period(o)
  BY SMT, PulsePutIs DEF PulseKept, SamePulse, timer_period
<1>3. PICK p \in Nat \ {0} : p = timer_period(o)
  BY Zenon, <1>1
<1>4. PICK b \in Nat, c \in Nat, all \in Nat :
        /\ b = Count(o.delay, p, m) /\ c = Count(DelayAfter(o.delay, p, m), p, n)
        /\ all = Count(o.delay, p, m + n) /\ all = b + c
        /\ DelayAfter(DelayAfter(o.delay, p, m), p, n) = DelayAfter(o.delay, p, m + n)
  <2>1. CutInTime(o.delay, p, m, n)
    BY Zenon, <1>1, <1>3, CutTimes
  <2> QED
    BY Zenon, <2>1 DEF CutInTime
<1>5. (((o.phase + b) % phase_range) + c) % phase_range = (o.phase + all) % phase_range
  BY SMT, <1>1, <1>4 DEF phase_range
<1>6. PulsePhase(x, n) = (((o.phase + b) % phase_range) + c) % phase_range
  <2>1. x.phase = (o.phase + b) % phase_range
    BY Zenon, <1>2, <1>3, <1>4 DEF PulsePhase
  <2>2. Count(x.delay, timer_period(x), n) = c
    BY Zenon, <1>2, <1>3, <1>4 DEF PulseDelay
  <2> QED
    BY Zenon, <2>1, <2>2 DEF PulsePhase
<1>7. PulsePhase(x, n) = PulsePhase(o, m + n)
  BY Zenon, <1>3, <1>4, <1>5, <1>6 DEF PulsePhase
<1>8. PulseDelay(x, n) = PulseDelay(o, m + n)
  BY Zenon, <1>2, <1>3, <1>4 DEF PulseDelay
<1>10. PulsePut(y, o, PulsePhase(x, n), amp2, PulseDelay(x, n))
  BY Zenon, PulsePutTwice DEF PulseKept
<1> QED
  BY Zenon, <1>7, <1>8, <1>10 DEF PulseKept

LEMMA PulseKeptOnce ==
  ASSUME NEW o, NEW n, NEW x, NEW y, NEW amp, PulseKept(x, o, n, amp), PulseKept(y, o, n, amp)
  PROVE  x = y
BY Zenon DEF PulseKept, PulsePut

(* What a run of a square does, by how much of it is heard.                *)
LEMMA SquareUnheard ==
  ASSUME NEW o, ~o.output, NEW n, NEW run, run = RunSquare(o, n)
  PROVE  PulseKept(run.osc, o, n, o.last_amp) /\ run.deltas = Silence(n)
<1>1. run = Unheard(maintain_phase(o, n), n)
  BY Zenon DEF RunSquare
<1>2. PulseKept(maintain_phase(o, n), o, n, o.last_amp)
  BY Zenon DEF maintain_phase, PulseKept, PulsePut, PulsePhase, PulseDelay
<1>3. Unheard(maintain_phase(o, n), n).osc = maintain_phase(o, n)
  BY Zenon DEF Unheard
<1>4. Unheard(maintain_phase(o, n), n).deltas = Silence(n)
  BY Zenon DEF Unheard
<1> QED
  BY Zenon, <1>1, <1>2, <1>3, <1>4

LEMMA SquareSilent ==
  ASSUME NEW o, o.output, ~Audible(o), NEW n, NEW run, run = RunSquare(o, n)
  PROVE  PulseKept(run.osc, o, n, 0) /\ run.deltas = First(o, 0, n)
<1>1. /\ run.osc = [maintain_phase(o, n) EXCEPT !.last_amp = 0]
      /\ run.deltas = First(o, 0, n)
  BY Zenon DEF RunSquare
<1>2. PulseKept([maintain_phase(o, n) EXCEPT !.last_amp = 0], o, n, 0)
  BY Zenon DEF maintain_phase, PulseKept, PulsePut, PulsePhase, PulseDelay
<1> QED
  BY Zenon, <1>1, <1>2

SquareFrom(w, o, n, y, run) ==
  /\ PlayedFrom(w, o.phase, o.last_amp, o.delay, timer_period(o), n, y, run.deltas)
  /\ PulsePut(run.osc, o, y, w.level[y], PulseDelay(o, n))

LEMMA SquareHeard ==
  ASSUME NEW o \in Pulse, o.output, Audible(o), NEW n \in Nat, NEW run, run = RunSquare(o, n)
  PROVE  \E y : SquareFrom(SquareWave(o), o, n, y, run)
<1>1. run = PlaySquare(o, n)
  BY Zenon DEF RunSquare
<1>2. PICK y \in 0 .. phase_range - 1 :
        /\ Plays(SquareWave(o), o.phase, o.last_amp, o.delay, timer_period(o), n, y, run.deltas)
        /\ PulsePut(run.osc, o, y, SquareWave(o).level[y], PulseDelay(o, n))
  BY Zenon, <1>1, SquarePlays DEF PulsePut
<1>3. IsWave(SquareWave(o)) /\ SquareWave(o).states = 0 .. phase_range - 1
  BY Zenon, SquareWaveIs
<1>4. /\ o.phase \in 0 .. phase_range - 1 /\ o.delay \in Nat /\ o.last_amp \in Int
      /\ timer_period(o) \in Nat \ {0}
  <2>1. \A i \in Nat : i \in Int
    BY SMT
  <2> QED
    BY Zenon, <2>1, PulseFields
<1> QED
  BY Zenon, <1>2, <1>3, <1>4 DEF SquareFrom, PlayedFrom

LEMMA SquareCut ==
  ASSUME NEW o \in Pulse, NEW m \in Nat, NEW n \in Nat, NEW one, one = RunSquare(o, m),
         NEW two, two = RunSquare(one.osc, n), NEW all, all = RunSquare(o, m + n)
  PROVE  Parted(one, two, all, m, n)
<1>1. PICK x : x = one.osc
  OBVIOUS
<1>2. PICK l \in Nat : l = m + n
  BY SMT
<1>3. two = RunSquare(x, n) /\ all = RunSquare(o, l)
  BY Zenon, <1>1, <1>2
<1>4. /\ PulseKept(x, o, m, x.last_amp) /\ x \in Pulse
      /\ PulseKept(two.osc, x, n, two.osc.last_amp) /\ PulseKept(all.osc, o, l, all.osc.last_amp)
  BY SMT, <1>1, <1>2, <1>3, PulseKeeps
<1>5. SamePulse(o, x) /\ x.output = o.output /\ x.delay = PulseDelay(o, m)
  BY SMT, <1>4, PulsePutIs DEF PulseKept
<1>6. PulseKept(two.osc, o, l, two.osc.last_amp)
  BY Zenon, <1>2, <1>4, PulseKeptTwice
<1>7. two.osc.last_amp = all.osc.last_amp => two.osc = all.osc
  BY Zenon, <1>4, <1>6, PulseKeptOnce
<1>8. /\ timer_period(x) = timer_period(o)
      /\ (Audible(x) <=> Audible(o)) /\ duty(x) = duty(o) /\ volume(x) = volume(o)
  BY Zenon, <1>5, SamePulseIs, PulseFields DEF SamePulse, timer_period
<1>9. CASE ~o.output
  <2>1. /\ PulseKept(x, o, m, o.last_amp) /\ one.deltas = Silence(m)
        /\ PulseKept(two.osc, x, n, x.last_amp) /\ two.deltas = Silence(n)
        /\ PulseKept(all.osc, o, l, o.last_amp) /\ all.deltas = Silence(l)
    BY SMT, <1>1, <1>3, <1>5, <1>9, SquareUnheard
  <2>2. two.osc.last_amp = all.osc.last_amp
    BY SMT, <1>4, <2>1, PulsePutIs DEF PulseKept
  <2>3. Glued(Silence(m), Silence(n), m, n) = Silence(l)
    BY Zenon, <1>2, GluedSilence
  <2> QED
    BY Zenon, <1>7, <2>1, <2>2, <2>3 DEF Parted
<1>10. CASE o.output /\ ~Audible(o)
  <2>1. ~Audible(x) /\ x.output
    BY Zenon, <1>5, <1>8, <1>10
  <2>2. PulseKept(x, o, m, 0) /\ one.deltas = First(o, 0, m)
    BY Zenon, <1>1, <1>10, SquareSilent
  <2>3. PulseKept(two.osc, x, n, 0) /\ two.deltas = First(x, 0, n)
    BY Zenon, <1>3, <2>1, SquareSilent
  <2>4. PulseKept(all.osc, o, l, 0) /\ all.deltas = First(o, 0, l)
    BY Zenon, <1>3, <1>10, SquareSilent
  <2>5. x.last_amp = 0 /\ two.osc.last_amp = all.osc.last_amp
    BY SMT, <1>4, <2>2, <2>3, <2>4, PulsePutIs DEF PulseKept
  <2>6. o.last_amp \in Int /\ 0 \in Int
    BY SMT, PulseFields
  <2>7. First(o, 0, m + n) = Glued(First(o, 0, m), First(x, 0, n), m, n)
    BY SMT, <2>5, <2>6, FirstCut
  <2> QED
    BY Zenon, <1>2, <1>7, <2>2, <2>3, <2>4, <2>5, <2>7 DEF Parted
<1>11. CASE o.output /\ Audible(o)
  <2>1. PICK w : w = SquareWave(o)
    OBVIOUS
  <2>2. SquareWave(x) = w
    BY Zenon, <1>5, <1>8, <2>1 DEF SquareWave, InDuty, SamePulse
  <2>3. PICK y : SquareFrom(w, o, m, y, one)
    BY Zenon, <1>11, <2>1, SquareHeard
  <2>4. PICK z : SquareFrom(w, x, n, z, two)
    BY Zenon, <1>3, <1>4, <1>5, <1>8, <1>11, <2>2, SquareHeard
  <2>5. PICK u : SquareFrom(w, o, l, u, all)
    BY Zenon, <1>2, <1>3, <1>11, <2>1, SquareHeard
  <2>6. x.phase = y /\ x.last_amp = w.level[y]
    BY SMT, <1>1, <2>3, PulsePutIs DEF SquareFrom
  <2>7. two.osc.last_amp = w.level[z] /\ all.osc.last_amp = w.level[u]
    BY SMT, <1>4, <2>4, <2>5, PulsePutIs DEF SquareFrom
  <2>8. PICK p : p = timer_period(o)
    OBVIOUS
  <2>9. /\ PlayedFrom(w, o.phase, o.last_amp, o.delay, p, m, y, one.deltas)
        /\ PlayedFrom(w, y, w.level[y], DelayAfter(o.delay, p, m), p, n, z, two.deltas)
        /\ PlayedFrom(w, o.phase, o.last_amp, o.delay, p, m + n, u, all.deltas)
    <3>1. x.delay = DelayAfter(o.delay, p, m) /\ timer_period(x) = p
      BY Zenon, <1>5, <1>8, <2>8 DEF PulseDelay
    <3>2. PlayedFrom(w, o.phase, o.last_amp, o.delay, p, m, y, one.deltas)
      BY Zenon, <2>3, <2>8 DEF SquareFrom
    <3>3. PlayedFrom(w, x.phase, x.last_amp, x.delay, p, n, z, two.deltas)
      BY Zenon, <2>4, <3>1 DEF SquareFrom
    <3>4. PlayedFrom(w, o.phase, o.last_amp, o.delay, p, l, u, all.deltas)
      BY Zenon, <2>5, <2>8 DEF SquareFrom
    <3>5. PlayedFrom(w, y, w.level[y], DelayAfter(o.delay, p, m), p, n, z, two.deltas)
      BY Zenon, <2>6, <3>1, <3>3
    <3> QED
      BY Zenon, <1>2, <3>2, <3>4, <3>5
  <2>10. CutFits(u, z, one.deltas, two.deltas, all.deltas, m, n)
    BY Zenon, <2>9, WaveCut
  <2> QED
    BY Zenon, <1>7, <2>7, <2>10 DEF CutFits, Parted
<1> QED
  BY Zenon, <1>9, <1>10, <1>11

-----------------------------------------------------------------------------
(* The noise.                                                              *)

NoisePut(x, o, y, amp, delay) == x = [o EXCEPT !.noise = y, !.last_amp = amp, !.delay = delay]

(* What its wave depends on besides where it is.                           *)
SameNoise(o, x) ==
  /\ x.control = o.control /\ x.length_counter = o.length_counter /\ x.envelope = o.envelope
  /\ x.mode = o.mode /\ x.period = o.period /\ x.output = o.output

LEMMA NoisePutIs ==
  ASSUME NEW o \in NoiseOsc, NEW y \in Register, NEW amp, NEW delay, NEW x,
         NoisePut(x, o, y, amp, delay)
  PROVE  x.noise = y /\ x.last_amp = amp /\ x.delay = delay /\ SameNoise(o, x)
BY SMT DEF NoisePut, NoiseOsc, SameNoise

LEMMA NoisePutTwice ==
  ASSUME NEW o, NEW x, NEW y, NEW a, NEW b, NEW c, NEW d, NEW e, NEW f,
         NoisePut(x, o, a, b, c), NoisePut(y, x, d, e, f)
  PROVE  NoisePut(y, o, d, e, f)
BY Zenon DEF NoisePut

NoiseFrom(w, o, n, y, run) ==
  /\ y \in Register
  /\ PlayedFrom(w, o.noise, o.last_amp, o.delay, o.period, n, y, run.deltas)
  /\ NoisePut(run.osc, o, y, w.level[y], NoiseDelay(o, n))

LEMMA NoiseGoes ==
  ASSUME NEW o \in NoiseOsc, o.output, volume(o) # 0, NEW n \in Nat, NEW run, run = RunNoise(o, n)
  PROVE  \E y : NoiseFrom(NoiseWave(o), o, n, y, run)
<1>1. PICK y \in Register :
        /\ Plays(NoiseWave(o), o.noise, o.last_amp, o.delay, o.period, n, y, run.deltas)
        /\ NoisePut(run.osc, o, y, NoiseWave(o).level[y], NoiseDelay(o, n))
  <2>1. run = PlayNoise(o, n)
    BY Zenon DEF RunNoise
  <2> QED
    BY Zenon, <2>1, NoisePlays DEF NoisePut
<1>2. IsWave(NoiseWave(o)) /\ NoiseWave(o).states = Register
  BY Zenon, NoiseWaveIs
<1>3. /\ o.noise \in Register /\ o.delay \in Nat /\ o.last_amp \in Int
      /\ o.period \in Nat \ {0}
  <2>1. \A i \in Nat : i \in Int
    BY SMT
  <2> QED
    BY Zenon, <2>1, NoiseFields
<1> QED
  BY Zenon, <1>1, <1>2, <1>3 DEF NoiseFrom, PlayedFrom

LEMMA NoiseGoesOn ==
  ASSUME NEW o \in NoiseOsc, NEW m \in Nat, NEW n \in Nat, NEW w, NEW y, NEW z, NEW u,
         NEW one, NEW two, NEW all, NEW x, x = one.osc, x.period = o.period,
         NoiseFrom(w, o, m, y, one), NoiseFrom(w, x, n, z, two), NoiseFrom(w, o, m + n, u, all),
         w.level[y] \in Int
  PROVE  Parted(one, two, all, m, n)
<1>1. x.noise = y /\ x.last_amp = w.level[y] /\ x.delay = NoiseDelay(o, m)
  BY SMT, NoisePutIs DEF NoiseFrom
<1>2. PICK p \in Nat \ {0} : p = o.period /\ p = x.period
  BY Zenon DEF NoiseFrom, PlayedFrom
<1>3. o.delay \in Nat
  BY Zenon DEF NoiseFrom, PlayedFrom
<1>4. NoiseDelay(o, m) = DelayAfter(o.delay, p, m) /\ NoiseDelay(o, m + n) = DelayAfter(o.delay, p, m + n)
  BY Zenon, <1>2 DEF NoiseDelay
<1>5. x.delay = DelayAfter(o.delay, p, m) /\ NoiseDelay(x, n) = DelayAfter(x.delay, p, n)
  BY Zenon, <1>1, <1>2, <1>4 DEF NoiseDelay
<1>6. PlayedFrom(w, o.noise, o.last_amp, o.delay, p, m, y, one.deltas)
  BY Zenon, <1>2 DEF NoiseFrom
<1>7. PlayedFrom(w, o.noise, o.last_amp, o.delay, p, m + n, u, all.deltas)
  BY Zenon, <1>2 DEF NoiseFrom
<1>8. PlayedFrom(w, y, w.level[y], DelayAfter(o.delay, p, m), p, n, z, two.deltas)
  <2>1. PlayedFrom(w, x.noise, x.last_amp, x.delay, p, n, z, two.deltas)
    BY Zenon, <1>2 DEF NoiseFrom
  <2> QED
    BY Zenon, <1>1, <1>5, <2>1
<1>9. CutFits(u, z, one.deltas, two.deltas, all.deltas, m, n)
  BY Zenon, <1>6, <1>7, <1>8, WaveCut
<1>10. CutInTime(o.delay, p, m, n)
  BY Zenon, <1>2, <1>3, CutTimes
<1>11. NoiseDelay(x, n) = NoiseDelay(o, m + n)
  <2>1. DelayAfter(DelayAfter(o.delay, p, m), p, n) = DelayAfter(o.delay, p, m + n)
    BY Zenon, <1>10 DEF CutInTime
  <2> QED
    BY Zenon, <1>4, <1>5, <2>1
<1>12. NoisePut(two.osc, o, z, w.level[z], NoiseDelay(x, n))
  <2>1. NoisePut(x, o, y, w.level[y], NoiseDelay(o, m))
    BY Zenon DEF NoiseFrom
  <2>2. NoisePut(two.osc, x, z, w.level[z], NoiseDelay(x, n))
    BY Zenon DEF NoiseFrom
  <2> QED
    BY SMT, <2>1, <2>2, NoisePutTwice
<1>13. NoisePut(all.osc, o, u, w.level[u], NoiseDelay(o, m + n))
  BY Zenon DEF NoiseFrom
<1>14. two.osc = all.osc
  BY Zenon, <1>9, <1>11, <1>12, <1>13 DEF CutFits, NoisePut
<1> QED
  BY Zenon, <1>9, <1>14 DEF CutFits, Parted

(* A noise that is not heard keeps its time.                               *)
LEMMA NoiseSkips ==
  ASSUME NEW o \in NoiseOsc, NEW n \in Nat, o.delay < 2 * o.period, n = 0 => o.delay < 2 * o.period - 1,
         NEW run, ~o.output, run = RunNoise(o, n)
  PROVE  NoisePut(run.osc, o, o.noise, o.last_amp, NoiseDelay(o, n)) /\ run.deltas = Silence(n)
<1>1. SkipNoise(o, n) = [o EXCEPT !.delay = NoiseDelay(o, n)]
  <2>1. CASE n # 0
    BY Zenon, <2>1, NoiseSkipped DEF NoiseDelay
  <2>2. CASE n = 0
    <3>1. PICK d \in Nat, p \in Nat \ {0} : d = o.delay /\ p = o.period
      BY Zenon, NoiseFields
    <3>2. d < 2 * p - 1
      BY Zenon, <2>2, <3>1
    <3>3. PICK late \in Int : late = 0 - d + p - 1
      BY SMT, <3>1
    <3>4. PICK count \in Int :
            count = (IF late >= 0 THEN late \div p ELSE -((-late) \div p)) /\ count = 0
      <4>1. CASE late >= 0
        <5>1. late \div p = 0
          BY SMT, <3>1, <3>2, <3>3, <4>1
        <5> QED
          BY SMT, <4>1, <5>1
      <4>2. CASE ~(late >= 0)
        <5>1. (-late) \div p = 0
          BY SMT, <3>1, <3>2, <3>3, <4>2
        <5>2. -((-late) \div p) = 0
          BY SMT, <5>1
        <5> QED
          BY SMT, <4>2, <5>2
      <4> QED
        BY Zenon, <4>1, <4>2
    <3>5. NoiseDelay(o, n) = d - n
      <4>1. DelayAfter(d, p, n) = d - n
        <5>1. n <= d
          BY SMT, <2>2, <3>1
        <5> QED
          BY Zenon, <3>1, <5>1, Counting
      <4> QED
        BY Zenon, <3>1, <4>1 DEF NoiseDelay
    <3>6. d + count * p - n = d - n
      BY SMT, <2>2, <3>1, <3>4
    <3>7. SkipNoise(o, n) = [o EXCEPT !.delay = d + count * p - n]
      BY Zenon, <2>2, <3>1, <3>3, <3>4 DEF SkipNoise
    <3> QED
      BY Zenon, <3>5, <3>6, <3>7
  <2> QED
    BY Zenon, <2>1, <2>2
<1>2. run = Unheard(SkipNoise(o, n), n)
  BY Zenon DEF RunNoise
<1>3. NoisePut([o EXCEPT !.delay = NoiseDelay(o, n)], o, o.noise, o.last_amp, NoiseDelay(o, n))
  BY Zenon DEF NoisePut
<1>4. Unheard(SkipNoise(o, n), n).osc = SkipNoise(o, n)
  BY Zenon DEF Unheard
<1>5. Unheard(SkipNoise(o, n), n).deltas = Silence(n)
  BY Zenon DEF Unheard
<1> QED
  BY Zenon, <1>1, <1>2, <1>3, <1>4, <1>5

LEMMA NoiseSilent ==
  ASSUME NEW o \in NoiseOsc, NEW n \in Nat, o.output, volume(o) = 0, o.mode, NEW run, run = RunNoise(o, n)
  PROVE  NoisePut(run.osc, o, o.noise, 0, NoiseDelay(o, n)) /\ run.deltas = First(o, 0, n)
<1>1. run = SilentNoise(o, n)
  BY Zenon DEF RunNoise
<1>2. SilentNoise(o, n).osc = [o EXCEPT !.noise = o.noise, !.last_amp = 0, !.delay = NoiseDelay(o, n)]
  BY Zenon DEF SilentNoise, NoiseDelay
<1>3. SilentNoise(o, n).deltas = First(o, 0, n)
  BY Zenon DEF SilentNoise
<1> QED
  BY Zenon, <1>1, <1>2, <1>3 DEF NoisePut

(* Whatever it finds, it leaves as much of the time to the next shift.     *)
LEMMA NoiseTime ==
  ASSUME NEW o \in NoiseOsc, NEW m \in Nat, NEW n \in Nat, NEW y, NEW amp, NEW x, y \in Register,
         NoisePut(x, o, y, amp, NoiseDelay(o, m))
  PROVE  NoiseDelay(x, n) = NoiseDelay(o, m + n)
<1>1. x.delay = NoiseDelay(o, m) /\ x.period = o.period
  BY SMT, NoisePutIs DEF SameNoise
<1>2. o.delay \in Nat /\ o.period \in Nat \ {0}
  BY Zenon, NoiseFields
<1>3. CutInTime(o.delay, o.period, m, n)
  BY Zenon, <1>2, CutTimes
<1> QED
  BY Zenon, <1>1, <1>3 DEF CutInTime, NoiseDelay

LEMMA NoiseCut ==
  ASSUME NEW o \in NoiseOsc, NEW m \in Nat \ {0}, NEW n \in Nat, NEW one, one = RunNoise(o, m),
         NEW two, two = RunNoise(one.osc, n), NEW all, all = RunNoise(o, m + n),
         ~Approximated(o)
  PROVE  Parted(one, two, all, m, n)
<1>1. PICK x : x = one.osc
  OBVIOUS
<1>2. PICK l \in Nat : l = m + n /\ l # 0
  BY SMT
<1>3. two = RunNoise(x, n) /\ all = RunNoise(o, l) /\ m \in Nat
  BY Zenon, <1>1, <1>2
<1>4. x \in NoiseOsc
  BY Zenon, <1>1, NoiseStays
<1>5. /\ o.noise \in Register /\ o.delay \in Nat /\ o.period \in Nat \ {0} /\ o.last_amp \in Nat
      /\ volume(o) \in Nat
  BY Zenon, NoiseFields
<1>6. CASE ~o.output
  <2>1. o.delay < 2 * o.period
    <3>1. ~Hurried(o)
      BY Zenon DEF Approximated
    <3> QED
      BY SMT, <1>5, <1>6, <3>1 DEF Hurried, NoiseOsc
  <2>2. NoisePut(x, o, o.noise, o.last_amp, NoiseDelay(o, m)) /\ one.deltas = Silence(m)
    BY SMT, <1>1, <1>3, <1>6, <2>1, NoiseSkips
  <2>3. NoisePut(all.osc, o, o.noise, o.last_amp, NoiseDelay(o, l)) /\ all.deltas = Silence(l)
    BY SMT, <1>2, <1>3, <1>6, <2>1, NoiseSkips
  <2>4. x.noise = o.noise /\ x.last_amp = o.last_amp /\ x.delay = NoiseDelay(o, m) /\ SameNoise(o, x)
    BY SMT, <1>5, <2>2, NoisePutIs
  <2>5. x.delay < 2 * o.period - 1
    <3>1. PICK d \in Nat, p \in Nat \ {0} : d = o.delay /\ p = o.period
      BY Zenon, <1>5
    <3>2. PICK e \in Nat : e = DelayAfter(d, p, m) /\ (m > d => e < p) /\ (m <= d => e = d - m)
      <4>1. /\ DelayAfter(d, p, m) \in Nat /\ (m > d => DelayAfter(d, p, m) < p)
            /\ (m <= d => DelayAfter(d, p, m) = d - m)
        <5>1. d \in Nat /\ p \in Nat \ {0} /\ m \in Nat
          BY Zenon, <1>3, <3>1
        <5> QED
          BY Zenon, <5>1, Counting
      <4> QED
        BY Zenon, <4>1
    <3>3. x.delay = e /\ d < 2 * p /\ o.period = p
      BY Zenon, <2>1, <2>4, <3>1, <3>2 DEF NoiseDelay
    <3>4. m >= 1
      BY SMT
    <3>5. e < 2 * p - 1
      BY SMT, <1>3, <3>1, <3>2, <3>3, <3>4
    <3> QED
      BY Zenon, <3>3, <3>5
  <2>6. ~x.output /\ x.period = o.period
    BY Zenon, <1>6, <2>4 DEF SameNoise
  <2>11. x.delay < 2 * x.period
    <3>1. \A d \in Nat, p \in Nat : d < 2 * p - 1 => d < 2 * p
      BY SMT
    <3>2. x.delay \in Nat /\ x.period \in Nat
      BY Zenon, <1>4, NoiseFields
    <3> QED
      BY Zenon, <2>5, <2>6, <3>1, <3>2
  <2>12. n = 0 => x.delay < 2 * x.period - 1
    BY Zenon, <2>5, <2>6
  <2>7. NoisePut(two.osc, x, x.noise, x.last_amp, NoiseDelay(x, n)) /\ two.deltas = Silence(n)
    BY Zenon, <1>3, <1>4, <2>6, <2>11, <2>12, NoiseSkips
  <2>8. NoiseDelay(x, n) = NoiseDelay(o, l)
    <3>1. NoiseDelay(x, n) = NoiseDelay(o, m + n)
      BY SMT, <1>3, <1>5, <2>2, NoiseTime
    <3> QED
      BY Zenon, <1>2, <3>1
  <2>9. NoisePut(two.osc, o, o.noise, o.last_amp, NoiseDelay(o, l))
    <3>1. NoisePut(two.osc, o, x.noise, x.last_amp, NoiseDelay(x, n))
      BY SMT, <2>2, <2>7, NoisePutTwice
    <3> QED
      BY Zenon, <2>4, <2>8, <3>1
  <2>10. Glued(Silence(m), Silence(n), m, n) = Silence(l)
    BY Zenon, <1>2, <1>3, GluedSilence
  <2> QED
    BY Zenon, <2>2, <2>3, <2>7, <2>9, <2>10 DEF NoisePut, Parted
<1>7. CASE o.output /\ volume(o) = 0
  <2>1. o.mode
    BY Zenon, <1>7 DEF Approximated, NoiseOsc
  <2>2. NoisePut(x, o, o.noise, 0, NoiseDelay(o, m)) /\ one.deltas = First(o, 0, m)
    BY Zenon, <1>1, <1>3, <1>7, <2>1, NoiseSilent
  <2>3. NoisePut(all.osc, o, o.noise, 0, NoiseDelay(o, l)) /\ all.deltas = First(o, 0, l)
    BY Zenon, <1>2, <1>3, <1>7, <2>1, NoiseSilent
  <2>4. x.noise = o.noise /\ x.last_amp = 0 /\ SameNoise(o, x)
    BY SMT, <1>5, <2>2, NoisePutIs
  <2>5. x.output /\ volume(x) = 0 /\ x.mode
    <3>1. SameVolume(o, x)
      BY Zenon, <2>4 DEF SameNoise, SameVolume
    <3> QED
      BY Zenon, <1>7, <2>1, <2>4, <3>1, SameVolumeIs DEF SameNoise
  <2>6. NoisePut(two.osc, x, x.noise, 0, NoiseDelay(x, n)) /\ two.deltas = First(x, 0, n)
    BY Zenon, <1>3, <1>4, <2>5, NoiseSilent
  <2>7. NoiseDelay(x, n) = NoiseDelay(o, l)
    <3>1. NoiseDelay(x, n) = NoiseDelay(o, m + n)
      BY SMT, <1>3, <1>5, <2>2, NoiseTime
    <3> QED
      BY Zenon, <1>2, <3>1
  <2>8. NoisePut(two.osc, o, o.noise, 0, NoiseDelay(o, l))
    <3>1. NoisePut(two.osc, o, x.noise, 0, NoiseDelay(x, n))
      BY SMT, <2>2, <2>6, NoisePutTwice
    <3> QED
      BY Zenon, <2>4, <2>7, <3>1
  <2>9. o.last_amp \in Int /\ 0 \in Int
    BY SMT, <1>5
  <2>10. First(o, 0, m + n) = Glued(First(o, 0, m), First(x, 0, n), m, n)
    BY SMT, <2>4, <2>9, FirstCut
  <2> QED
    BY Zenon, <1>2, <2>2, <2>3, <2>6, <2>8, <2>10 DEF NoisePut, Parted
<1>8. CASE o.output /\ volume(o) # 0
  <2>1. PICK w : w = NoiseWave(o)
    OBVIOUS
  <2>2. PICK y : NoiseFrom(w, o, m, y, one)
    BY Zenon, <1>3, <1>8, <2>1, NoiseGoes
  <2>3. PICK u : NoiseFrom(w, o, m + n, u, all)
    BY Zenon, <1>2, <1>3, <1>8, <2>1, NoiseGoes
  <2>4. w.level[y] \in Int
    BY Zenon, <2>2, PlaysLeads DEF NoiseFrom
  <2>5. SameNoise(o, x)
    BY SMT, <1>1, <2>2, <2>4, NoisePutIs DEF NoiseFrom
  <2>6. SameVolume(o, x)
    BY Zenon, <2>5 DEF SameNoise, SameVolume
  <2>7. volume(x) = volume(o) /\ x.output /\ x.period = o.period
    BY Zenon, <1>8, <2>5, <2>6, SameVolumeIs DEF SameNoise
  <2>8. NoiseWave(x) = w
    BY Zenon, <2>1, <2>5, <2>7 DEF NoiseWave, Tap, SameNoise
  <2>9. PICK z : NoiseFrom(w, x, n, z, two)
    BY Zenon, <1>3, <1>4, <1>8, <2>7, <2>8, NoiseGoes
  <2> QED
    BY Zenon, <1>1, <1>3, <2>2, <2>3, <2>4, <2>7, <2>9, NoiseGoesOn
<1> QED
  BY Zenon, <1>6, <1>7, <1>8

-----------------------------------------------------------------------------
(* An oscillator that stands still, but for its level.                     *)
Stopped(x, o, amp) == x = [o EXCEPT !.delay = 0, !.last_amp = amp]

LEMMA StoppedTwice ==
  ASSUME NEW o, NEW x, NEW y, NEW z, NEW a, NEW b, Stopped(x, o, a), Stopped(y, x, b),
         Stopped(z, o, b)
  PROVE  y = z
BY Zenon DEF Stopped

LEMMA StoppedCut ==
  ASSUME NEW m \in Nat, NEW n \in Nat, NEW l, l = m + n, NEW o, o.last_amp \in Int,
         NEW amp \in Int, NEW x, x.last_amp = amp, NEW one, NEW two, NEW all, NEW a,
         one.deltas = First(o, amp, m), two.deltas = First(x, amp, n),
         all.deltas = First(o, amp, l),
         Stopped(x, o, a), Stopped(two.osc, x, amp), Stopped(all.osc, o, amp)
  PROVE  Parted(one, two, all, m, n)
<1>1. First(o, amp, m + n) = Glued(First(o, amp, m), First(x, amp, n), m, n)
  BY SMT, FirstCut
<1>2. two.osc = all.osc
  BY Zenon, StoppedTwice
<1> QED
  BY Zenon, <1>1, <1>2 DEF Parted

(* The triangle.                                                           *)

TrianglePut(x, o, y, amp, delay) == x = [o EXCEPT !.phase = y, !.last_amp = amp, !.delay = delay]

(* What its wave depends on besides where it is.                           *)
SameTriangle(o, x) ==
  /\ x.kind = o.kind /\ x.output = o.output /\ x.period = o.period /\ x.length_counter = o.length_counter
  /\ x.control = o.control /\ x.written3 = o.written3 /\ x.linear_counter = o.linear_counter /\ x.linear_load = o.linear_load

LEMMA TrianglePutIs ==
  ASSUME NEW o \in TriangleOsc, NEW y \in 1 .. tri_range * 2, NEW amp, NEW delay, NEW x,
         TrianglePut(x, o, y, amp, delay)
  PROVE  x.phase = y /\ x.last_amp = amp /\ x.delay = delay /\ SameTriangle(o, x)
BY SMT DEF TrianglePut, TriangleOsc, SameTriangle

LEMMA TrianglePutTwice ==
  ASSUME NEW o, NEW x, NEW y, NEW a, NEW b, NEW c, NEW d, NEW e, NEW f,
         TrianglePut(x, o, a, b, c), TrianglePut(y, x, d, e, f)
  PROVE  TrianglePut(y, o, d, e, f)
BY Zenon DEF TrianglePut

TriangleFrom(w, o, n, y, run) ==
  /\ y \in 1 .. tri_range * 2
  /\ PlayedFrom(w, o.phase, o.last_amp, o.delay, o.period + 1, n, y, run.deltas)
  /\ TrianglePut(run.osc, o, y, w.level[y], DelayAfter(o.delay, o.period + 1, n))

LEMMA TriangleGoes ==
  ASSUME NEW o \in TriangleOsc, o.output, Sounding(o), NEW n \in Nat, NEW run, run = RunTriangle(o, n)
  PROVE  \E y : TriangleFrom(TriangleWave, o, n, y, run)
<1>1. PICK y \in 1 .. tri_range * 2 :
        /\ Plays(TriangleWave, o.phase, o.last_amp, o.delay, o.period + 1, n, y, run.deltas)
        /\ TrianglePut(run.osc, o, y, TriangleWave.level[y], DelayAfter(o.delay, o.period + 1, n))
  <2>1. run = PlayTriangle(o, n)
    BY Zenon DEF RunTriangle
  <2> QED
    BY ZenonT(30), <2>1, TrianglePlays DEF TrianglePut
<1>2. IsWave(TriangleWave) /\ TriangleWave.states = 1 .. tri_range * 2
  BY Zenon, TriangleWaveIs
<1>3. /\ o.phase \in 1 .. tri_range * 2 /\ o.delay \in Nat /\ o.last_amp \in Int
      /\ o.period + 1 \in Nat \ {0}
  <2>1. \A i \in Nat : i \in Int
    BY SMT
  <2> QED
    BY Zenon, <2>1, TriangleFields
<1> QED
  BY Zenon, <1>1, <1>2, <1>3 DEF TriangleFrom, PlayedFrom

LEMMA TriangleGoesOn ==
  ASSUME NEW o \in TriangleOsc, NEW m \in Nat, NEW n \in Nat, NEW w, NEW y, NEW z, NEW u,
         NEW one, NEW two, NEW all, NEW x, x = one.osc, x.period + 1 = o.period + 1,
         TriangleFrom(w, o, m, y, one), TriangleFrom(w, x, n, z, two), TriangleFrom(w, o, m + n, u, all),
         w.level[y] \in Int
  PROVE  Parted(one, two, all, m, n)
<1>1. x.phase = y /\ x.last_amp = w.level[y] /\ x.delay = DelayAfter(o.delay, o.period + 1, m)
  BY SMT, TrianglePutIs DEF TriangleFrom
<1>2. PICK p \in Nat \ {0} : p = o.period + 1 /\ p = x.period + 1
  BY Zenon DEF TriangleFrom, PlayedFrom
<1>3. o.delay \in Nat
  BY Zenon DEF TriangleFrom, PlayedFrom
<1>4. DelayAfter(o.delay, o.period + 1, m) = DelayAfter(o.delay, p, m) /\ DelayAfter(o.delay, o.period + 1, m + n) = DelayAfter(o.delay, p, m + n)
  BY Zenon, <1>2
<1>5. x.delay = DelayAfter(o.delay, p, m) /\ DelayAfter(x.delay, x.period + 1, n) = DelayAfter(x.delay, p, n)
  BY Zenon, <1>1, <1>2, <1>4
<1>6. PlayedFrom(w, o.phase, o.last_amp, o.delay, p, m, y, one.deltas)
  BY Zenon, <1>2 DEF TriangleFrom
<1>7. PlayedFrom(w, o.phase, o.last_amp, o.delay, p, m + n, u, all.deltas)
  BY Zenon, <1>2 DEF TriangleFrom
<1>8. PlayedFrom(w, y, w.level[y], DelayAfter(o.delay, p, m), p, n, z, two.deltas)
  <2>1. PlayedFrom(w, x.phase, x.last_amp, x.delay, p, n, z, two.deltas)
    BY Zenon, <1>2 DEF TriangleFrom
  <2> QED
    BY Zenon, <1>1, <1>5, <2>1
<1>9. CutFits(u, z, one.deltas, two.deltas, all.deltas, m, n)
  BY Zenon, <1>6, <1>7, <1>8, WaveCut
<1>10. CutInTime(o.delay, p, m, n)
  BY Zenon, <1>2, <1>3, CutTimes
<1>11. DelayAfter(x.delay, x.period + 1, n) = DelayAfter(o.delay, o.period + 1, m + n)
  <2>1. DelayAfter(DelayAfter(o.delay, p, m), p, n) = DelayAfter(o.delay, p, m + n)
    BY Zenon, <1>10 DEF CutInTime
  <2> QED
    BY Zenon, <1>4, <1>5, <2>1
<1>12. TrianglePut(two.osc, o, z, w.level[z], DelayAfter(x.delay, x.period + 1, n))
  <2>1. TrianglePut(x, o, y, w.level[y], DelayAfter(o.delay, o.period + 1, m))
    BY Zenon DEF TriangleFrom
  <2>2. TrianglePut(two.osc, x, z, w.level[z], DelayAfter(x.delay, x.period + 1, n))
    BY Zenon DEF TriangleFrom
  <2> QED
    BY SMT, <2>1, <2>2, TrianglePutTwice
<1>13. TrianglePut(all.osc, o, u, w.level[u], DelayAfter(o.delay, o.period + 1, m + n))
  BY Zenon DEF TriangleFrom
<1>14. two.osc = all.osc
  BY Zenon, <1>9, <1>11, <1>12, <1>13 DEF CutFits, TrianglePut
<1> QED
  BY Zenon, <1>9, <1>14 DEF CutFits, Parted

LEMMA TriangleStopped ==
  ASSUME NEW o \in TriangleOsc, NEW amp, NEW x, Stopped(x, o, amp)
  PROVE  x.phase = o.phase /\ x.last_amp = amp /\ SameTriangle(o, x)
BY SMT DEF Stopped, TriangleOsc, SameTriangle

LEMMA TriangleStops ==
  ASSUME NEW o, o.output, ~Sounding(o), NEW n, NEW run, run = RunTriangle(o, n)
  PROVE  Stopped(run.osc, o, calc_amp(o)) /\ run.deltas = First(o, calc_amp(o), n)
<1>1. run.osc = [o EXCEPT !.last_amp = calc_amp(o), !.delay = 0] /\ run.deltas = First(o, calc_amp(o), n)
  BY Zenon DEF RunTriangle
<1> QED
  BY Zenon, <1>1 DEF Stopped

LEMMA TriangleCut ==
  ASSUME NEW o \in TriangleOsc, o.output, NEW m \in Nat, NEW n \in Nat, NEW one,
         one = RunTriangle(o, m), NEW two, two = RunTriangle(one.osc, n),
         NEW all, all = RunTriangle(o, m + n)
  PROVE  Parted(one, two, all, m, n)
<1>1. PICK x : x = one.osc
  OBVIOUS
<1>2. PICK l \in Nat : l = m + n
  BY SMT
<1>3. two = RunTriangle(x, n) /\ all = RunTriangle(o, l)
  BY Zenon, <1>1, <1>2
<1>4. x \in TriangleOsc
  BY Zenon, <1>1, TriangleStays
<1>5. CASE ~Sounding(o)
  <2>1. PICK amp \in Int : amp = calc_amp(o)
    BY SMT, TriangleFields
  <2>2. Stopped(x, o, amp) /\ one.deltas = First(o, amp, m)
    BY Zenon, <1>1, <1>5, <2>1, TriangleStops
  <2>3. Stopped(all.osc, o, amp) /\ all.deltas = First(o, amp, l)
    BY Zenon, <1>3, <1>5, <2>1, TriangleStops
  <2>4. x.phase = o.phase /\ x.last_amp = amp /\ SameTriangle(o, x)
    BY Zenon, <2>2, TriangleStopped
  <2>5. calc_amp(x) = calc_amp(o)
    BY Zenon, <2>4 DEF calc_amp
  <2>6. ~Sounding(x) /\ x.output
    BY Zenon, <1>5, <2>4 DEF Sounding, SameTriangle
  <2>7. Stopped(two.osc, x, amp) /\ two.deltas = First(x, amp, n)
    BY Zenon, <1>3, <2>1, <2>5, <2>6, TriangleStops
  <2>8. o.last_amp \in Int
    BY SMT, TriangleFields
  <2> QED
    BY SMT, <1>2, <2>2, <2>3, <2>4, <2>7, <2>8, StoppedCut
<1>6. CASE Sounding(o)
  <2>1. PICK w : w = TriangleWave
    OBVIOUS
  <2>2. PICK y : TriangleFrom(w, o, m, y, one)
    BY Zenon, <1>6, <2>1, TriangleGoes
  <2>3. PICK u : TriangleFrom(w, o, m + n, u, all)
    BY Zenon, <1>2, <1>3, <1>6, <2>1, TriangleGoes
  <2>4. w.level[y] \in Int
    BY Zenon, <2>2, PlaysLeads DEF TriangleFrom
  <2>5. SameTriangle(o, x)
    BY SMT, <1>1, <2>2, TrianglePutIs DEF TriangleFrom
  <2>6. Sounding(x) /\ x.output /\ x.period + 1 = o.period + 1
    BY Zenon, <1>6, <2>5 DEF SameTriangle, Sounding
  <2>7. PICK z : TriangleFrom(w, x, n, z, two)
    BY Zenon, <1>3, <1>4, <2>1, <2>6, TriangleGoes
  <2> QED
    BY Zenon, <1>1, <2>2, <2>3, <2>4, <2>6, <2>7, TriangleGoesOn
<1> QED
  BY Zenon, <1>5, <1>6

-----------------------------------------------------------------------------
(* The cartridges.                                                         *)

Vrc6Put(x, o, y, amp, delay) == x = [o EXCEPT !.phase = y, !.last_amp = amp, !.delay = delay]

LEMMA Vrc6PutIs ==
  ASSUME NEW o \in Vrc6SquareOsc, NEW y \in 0 .. vrc6_phases - 1, NEW amp, NEW delay, NEW x,
         Vrc6Put(x, o, y, amp, delay)
  PROVE  x.phase = y /\ x.last_amp = amp /\ x.delay = delay /\ SameVrc6(o, x)
         /\ x.output = o.output
BY SMT DEF Vrc6Put, Vrc6SquareOsc, SameVrc6

LEMMA Vrc6PutTwice ==
  ASSUME NEW o, NEW x, NEW y, NEW a, NEW b, NEW c, NEW d, NEW e, NEW f,
         Vrc6Put(x, o, a, b, c), Vrc6Put(y, x, d, e, f)
  PROVE  Vrc6Put(y, o, d, e, f)
BY Zenon DEF Vrc6Put

Vrc6From(w, o, n, y, run) ==
  /\ y \in 0 .. vrc6_phases - 1
  /\ PlayedFrom(w, o.phase, o.last_amp, o.delay, o.period + 1, n, y, run.deltas)
  /\ Vrc6Put(run.osc, o, y, w.level[y], Vrc6Delay(o, n))

LEMMA Vrc6Goes ==
  ASSUME NEW o \in Vrc6SquareOsc, o.output, Vrc6Playing(o), NEW n \in Nat, NEW run, run = RunVrc6Square(o, n)
  PROVE  \E y : Vrc6From(Vrc6Wave(o), o, n, y, run)
<1>1. PICK y \in 0 .. vrc6_phases - 1 :
        /\ Plays(Vrc6Wave(o), o.phase, o.last_amp, o.delay, o.period + 1, n, y, run.deltas)
        /\ Vrc6Put(run.osc, o, y, Vrc6Wave(o).level[y], Vrc6Delay(o, n))
  BY Zenon, Vrc6Plays DEF Vrc6Put
<1>2. IsWave(Vrc6Wave(o)) /\ Vrc6Wave(o).states = 0 .. vrc6_phases - 1
  BY Zenon, Vrc6WaveIs
<1>3. /\ o.phase \in 0 .. vrc6_phases - 1 /\ o.delay \in Nat /\ o.last_amp \in Int
      /\ o.period + 1 \in Nat \ {0}
  <2>1. \A i \in Nat : i \in Int
    BY SMT
  <2> QED
    BY Zenon, <2>1, Vrc6Fields
<1> QED
  BY Zenon, <1>1, <1>2, <1>3 DEF Vrc6From, PlayedFrom

LEMMA Vrc6GoesOn ==
  ASSUME NEW o \in Vrc6SquareOsc, NEW m \in Nat, NEW n \in Nat, NEW w, NEW y, NEW z, NEW u,
         NEW one, NEW two, NEW all, NEW x, x = one.osc, x.period + 1 = o.period + 1,
         Vrc6From(w, o, m, y, one), Vrc6From(w, x, n, z, two), Vrc6From(w, o, m + n, u, all),
         w.level[y] \in Int
  PROVE  Parted(one, two, all, m, n)
<1>1. x.phase = y /\ x.last_amp = w.level[y] /\ x.delay = Vrc6Delay(o, m)
  BY SMT, Vrc6PutIs DEF Vrc6From
<1>2. PICK p \in Nat \ {0} : p = o.period + 1 /\ p = x.period + 1
  BY Zenon DEF Vrc6From, PlayedFrom
<1>3. o.delay \in Nat
  BY Zenon DEF Vrc6From, PlayedFrom
<1>4. Vrc6Delay(o, m) = DelayAfter(o.delay, p, m) /\ Vrc6Delay(o, m + n) = DelayAfter(o.delay, p, m + n)
  BY Zenon, <1>2 DEF Vrc6Delay
<1>5. x.delay = DelayAfter(o.delay, p, m) /\ Vrc6Delay(x, n) = DelayAfter(x.delay, p, n)
  BY Zenon, <1>1, <1>2, <1>4 DEF Vrc6Delay
<1>6. PlayedFrom(w, o.phase, o.last_amp, o.delay, p, m, y, one.deltas)
  BY Zenon, <1>2 DEF Vrc6From
<1>7. PlayedFrom(w, o.phase, o.last_amp, o.delay, p, m + n, u, all.deltas)
  BY Zenon, <1>2 DEF Vrc6From
<1>8. PlayedFrom(w, y, w.level[y], DelayAfter(o.delay, p, m), p, n, z, two.deltas)
  <2>1. PlayedFrom(w, x.phase, x.last_amp, x.delay, p, n, z, two.deltas)
    BY Zenon, <1>2 DEF Vrc6From
  <2> QED
    BY Zenon, <1>1, <1>5, <2>1
<1>9. CutFits(u, z, one.deltas, two.deltas, all.deltas, m, n)
  BY Zenon, <1>6, <1>7, <1>8, WaveCut
<1>10. CutInTime(o.delay, p, m, n)
  BY Zenon, <1>2, <1>3, CutTimes
<1>11. Vrc6Delay(x, n) = Vrc6Delay(o, m + n)
  <2>1. DelayAfter(DelayAfter(o.delay, p, m), p, n) = DelayAfter(o.delay, p, m + n)
    BY Zenon, <1>10 DEF CutInTime
  <2> QED
    BY Zenon, <1>4, <1>5, <2>1
<1>12. Vrc6Put(two.osc, o, z, w.level[z], Vrc6Delay(x, n))
  <2>1. Vrc6Put(x, o, y, w.level[y], Vrc6Delay(o, m))
    BY Zenon DEF Vrc6From
  <2>2. Vrc6Put(two.osc, x, z, w.level[z], Vrc6Delay(x, n))
    BY Zenon DEF Vrc6From
  <2> QED
    BY SMT, <2>1, <2>2, Vrc6PutTwice
<1>13. Vrc6Put(all.osc, o, u, w.level[u], Vrc6Delay(o, m + n))
  BY Zenon DEF Vrc6From
<1>14. two.osc = all.osc
  BY Zenon, <1>9, <1>11, <1>12, <1>13 DEF CutFits, Vrc6Put
<1> QED
  BY Zenon, <1>9, <1>14 DEF CutFits, Parted

LEMMA Vrc6Stops ==
  ASSUME NEW o, o.output, ~Vrc6Playing(o), NEW n, NEW run, run = RunVrc6Square(o, n)
  PROVE  Stopped(run.osc, o, Vrc6Amp(o)) /\ run.deltas = First(o, Vrc6Amp(o), n)
BY Zenon DEF RunVrc6Square, Stopped

LEMMA Vrc6SquareCut ==
  ASSUME NEW o \in Vrc6SquareOsc, NEW m \in Nat, NEW n \in Nat, NEW one,
         one = RunVrc6Square(o, m), NEW two, two = RunVrc6Square(one.osc, n),
         NEW all, all = RunVrc6Square(o, m + n)
  PROVE  Parted(one, two, all, m, n)
<1>1. PICK x : x = one.osc
  OBVIOUS
<1>2. PICK l \in Nat : l = m + n
  BY SMT
<1>3. two = RunVrc6Square(x, n) /\ all = RunVrc6Square(o, l)
  BY Zenon, <1>1, <1>2
<1>4. x \in Vrc6SquareOsc
  BY Zenon, <1>1, Vrc6Run
<1>5. CASE ~o.output
  <2>1. one = Unheard(o, m) /\ all = Unheard(o, m + n)
    BY Zenon, <1>2, <1>3, <1>5 DEF RunVrc6Square
  <2>2. x = o
    <3>1. x = Unheard(o, m).osc
      BY Zenon, <1>1, <2>1
    <3>2. Unheard(o, m).osc = o
      BY Zenon DEF Unheard
    <3> QED
      BY Zenon, <3>1, <3>2
  <2>3. two = Unheard(o, n)
    BY Zenon, <1>3, <1>5, <2>2 DEF RunVrc6Square
  <2>4. Parted(Unheard(o, m), Unheard(o, n), Unheard(o, m + n), m, n)
    BY Zenon, UnheardCut
  <2> QED
    BY Zenon, <2>1, <2>3, <2>4
<1>6. CASE o.output /\ ~Vrc6Playing(o)
  <2>1. PICK amp \in Int : amp = Vrc6Amp(o)
    BY SMT, Vrc6Fields
  <2>2. Stopped(x, o, amp) /\ one.deltas = First(o, amp, m)
    BY Zenon, <1>1, <1>6, <2>1, Vrc6Stops
  <2>3. Stopped(all.osc, o, amp) /\ all.deltas = First(o, amp, l)
    BY Zenon, <1>3, <1>6, <2>1, Vrc6Stops
  <2>4. x.phase = o.phase /\ x.last_amp = amp /\ SameVrc6(o, x) /\ x.output = o.output
    BY SMT, <2>2 DEF Stopped, Vrc6SquareOsc, SameVrc6
  <2>5. Vrc6Volume(x) = Vrc6Volume(o)
    BY Zenon, <2>4 DEF Vrc6Volume, SameVrc6
  <2>6. Vrc6Amp(x) = Vrc6Amp(o)
    BY Zenon, <2>4, <2>5 DEF Vrc6Amp, SameVrc6
  <2>7. ~Vrc6Playing(x) /\ x.output
    BY Zenon, <1>6, <2>4, <2>5 DEF Vrc6Playing, SameVrc6
  <2>8. Stopped(two.osc, x, amp) /\ two.deltas = First(x, amp, n)
    BY Zenon, <1>3, <2>1, <2>6, <2>7, Vrc6Stops
  <2>9. o.last_amp \in Int
    BY SMT, Vrc6Fields
  <2> QED
    BY SMT, <1>2, <2>2, <2>3, <2>4, <2>8, <2>9, StoppedCut
<1>7. CASE o.output /\ Vrc6Playing(o)
  <2>1. PICK w : w = Vrc6Wave(o)
    OBVIOUS
  <2>2. PICK y : Vrc6From(w, o, m, y, one)
    BY Zenon, <1>7, <2>1, Vrc6Goes
  <2>3. PICK u : Vrc6From(w, o, m + n, u, all)
    BY Zenon, <1>2, <1>3, <1>7, <2>1, Vrc6Goes
  <2>4. w.level[y] \in Int
    BY Zenon, <2>2, PlaysLeads DEF Vrc6From
  <2>5. SameVrc6(o, x) /\ x.output = o.output
    BY SMT, <1>1, <2>2, Vrc6PutIs DEF Vrc6From
  <2>6. Vrc6Playing(x) /\ x.output /\ x.period + 1 = o.period + 1
    BY Zenon, <1>7, <2>5 DEF SameVrc6, Vrc6Playing, Vrc6Volume
  <2>7. Vrc6Wave(x) = w
    BY Zenon, <2>1, <2>5 DEF Vrc6Wave, SameVrc6
  <2>8. PICK z : Vrc6From(w, x, n, z, two)
    BY Zenon, <1>3, <1>4, <2>6, <2>7, Vrc6Goes
  <2> QED
    BY Zenon, <1>1, <2>2, <2>3, <2>4, <2>6, <2>8, Vrc6GoesOn
<1> QED
  BY Zenon, <1>5, <1>6, <1>7

(* Its delay fits into 16 bits.                                            *)
LEMMA Fme7DelayIs ==
  ASSUME NEW o \in Fme7Osc, NEW n \in Nat
  PROVE  Fme7Delay(o, n) = DelayAfter(o.delay, Fme7Period(o), n)
<1>1. o.delay \in Delay /\ Fme7Period(o) \in Nat \ {0}
  BY Zenon, Fme7Fields
<1>4. Fme7Period(o) <= delay_range
  <2>1. /\ period_factor \in Nat /\ period_factor <= delay_range
        /\ \A period \in Fme7Periods : period * period_factor <= delay_range
    BY Zenon, ExpansionAssumption DEF ExpansionAssumption
  <2>2. o.period \in Fme7Periods
    BY Zenon DEF Fme7Osc
  <2>3. CASE o.period = 0
    <3>1. Fme7Period(o) = 1 * period_factor
      BY Zenon, <2>3 DEF Fme7Period
    <3> QED
      BY SMT, <2>1, <3>1
  <2>4. CASE o.period # 0
    <3>1. Fme7Period(o) = o.period * period_factor
      BY Zenon, <2>4 DEF Fme7Period
    <3> QED
      BY Zenon, <2>1, <2>2, <3>1
  <2> QED
    BY Zenon, <2>3, <2>4
<1>2. DelayAfter(o.delay, Fme7Period(o), n) \in Delay
  BY Zenon, <1>1, <1>4, DelayFits
<1>3. delay_range \in Nat
  BY Zenon, ExpansionAssumption
<1> QED
  BY SMT, <1>2, <1>3 DEF Delay, Fme7Delay

Fme7Put(x, o, y, amp, delay) == x = [o EXCEPT !.phase = y, !.last_amp = amp, !.delay = delay]

(* What its wave depends on besides where it is.                           *)
SameFme7(o, x) ==
  /\ x.kind = o.kind /\ x.output = o.output /\ x.period = o.period
  /\ x.tone_off = o.tone_off /\ x.envelope = o.envelope /\ x.volume = o.volume

LEMMA Fme7PutIs ==
  ASSUME NEW o \in Fme7Osc, NEW y \in {0, 1}, NEW amp, NEW delay, NEW x,
         Fme7Put(x, o, y, amp, delay)
  PROVE  x.phase = y /\ x.last_amp = amp /\ x.delay = delay /\ SameFme7(o, x)
BY SMT DEF Fme7Put, Fme7Osc, SameFme7

LEMMA Fme7PutTwice ==
  ASSUME NEW o, NEW x, NEW y, NEW a, NEW b, NEW c, NEW d, NEW e, NEW f,
         Fme7Put(x, o, a, b, c), Fme7Put(y, x, d, e, f)
  PROVE  Fme7Put(y, o, d, e, f)
BY Zenon DEF Fme7Put

Fme7From(w, o, n, y, run) ==
  /\ y \in {0, 1}
  /\ PlayedFrom(w, o.phase, o.last_amp, o.delay, Fme7Period(o), n, y, run.deltas)
  /\ Fme7Put(run.osc, o, y, w.level[y], Fme7Delay(o, n))

LEMMA Fme7Goes ==
  ASSUME NEW o \in Fme7Osc, o.output, NEW n \in Nat, NEW run, run = RunFme7(o, n)
  PROVE  \E y : Fme7From(Fme7Wave(o), o, n, y, run)
<1>1. PICK y \in {0, 1} :
        /\ Plays(Fme7Wave(o), o.phase, o.last_amp, o.delay, Fme7Period(o), n, y, run.deltas)
        /\ Fme7Put(run.osc, o, y, Fme7Wave(o).level[y], Fme7Delay(o, n))
  <2>1. PICK y \in {0, 1} :
          /\ Plays(Fme7Wave(o), o.phase, o.last_amp, o.delay, Fme7Period(o), n, y,
                   RunFme7(o, n).deltas)
          /\ RunFme7(o, n).osc = [o EXCEPT !.phase = y, !.last_amp = Fme7Wave(o).level[y],
                                          !.delay = Fme7Delay(o, n)]
    BY Fme7Plays
  <2>2. Fme7Put(run.osc, o, y, Fme7Wave(o).level[y], Fme7Delay(o, n))
    BY Zenon, <2>1 DEF Fme7Put
  <2> QED
    BY Zenon, <2>1, <2>2
<1>2. IsWave(Fme7Wave(o)) /\ Fme7Wave(o).states = {0, 1}
  BY Zenon, Fme7WaveIs
<1>3. /\ o.phase \in {0, 1} /\ o.delay \in Nat /\ o.last_amp \in Int
      /\ Fme7Period(o) \in Nat \ {0}
  <2>1. \A i \in Nat : i \in Int
    BY SMT
  <2> QED
    BY Zenon, <2>1, Fme7Fields
<1> QED
  BY Zenon, <1>1, <1>2, <1>3 DEF Fme7From, PlayedFrom

LEMMA Fme7GoesOn ==
  ASSUME NEW o \in Fme7Osc, NEW m \in Nat, NEW n \in Nat, NEW w, NEW y, NEW z, NEW u,
         NEW one, NEW two, NEW all, NEW x, x = one.osc, Fme7Period(x) = Fme7Period(o), x \in Fme7Osc,
         Fme7From(w, o, m, y, one), Fme7From(w, x, n, z, two), Fme7From(w, o, m + n, u, all),
         w.level[y] \in Int
  PROVE  Parted(one, two, all, m, n)
<1>1. x.phase = y /\ x.last_amp = w.level[y] /\ x.delay = Fme7Delay(o, m)
  BY SMT, Fme7PutIs DEF Fme7From
<1>2. PICK p \in Nat \ {0} : p = Fme7Period(o) /\ p = Fme7Period(x)
  BY Zenon DEF Fme7From, PlayedFrom
<1>3. o.delay \in Nat
  BY Zenon DEF Fme7From, PlayedFrom
<1>4. Fme7Delay(o, m) = DelayAfter(o.delay, p, m) /\ Fme7Delay(o, m + n) = DelayAfter(o.delay, p, m + n)
  <2>1. m + n \in Nat
    BY SMT
  <2> QED
    BY Zenon, <1>2, <2>1, Fme7DelayIs
<1>5. x.delay = DelayAfter(o.delay, p, m) /\ Fme7Delay(x, n) = DelayAfter(x.delay, p, n)
  BY Zenon, <1>1, <1>2, <1>4, Fme7DelayIs
<1>6. PlayedFrom(w, o.phase, o.last_amp, o.delay, p, m, y, one.deltas)
  BY Zenon, <1>2 DEF Fme7From
<1>7. PlayedFrom(w, o.phase, o.last_amp, o.delay, p, m + n, u, all.deltas)
  BY Zenon, <1>2 DEF Fme7From
<1>8. PlayedFrom(w, y, w.level[y], DelayAfter(o.delay, p, m), p, n, z, two.deltas)
  <2>1. PlayedFrom(w, x.phase, x.last_amp, x.delay, p, n, z, two.deltas)
    BY Zenon, <1>2 DEF Fme7From
  <2> QED
    BY Zenon, <1>1, <1>5, <2>1
<1>9. CutFits(u, z, one.deltas, two.deltas, all.deltas, m, n)
  BY Zenon, <1>6, <1>7, <1>8, WaveCut
<1>10. CutInTime(o.delay, p, m, n)
  BY Zenon, <1>2, <1>3, CutTimes
<1>11. Fme7Delay(x, n) = Fme7Delay(o, m + n)
  <2>1. DelayAfter(DelayAfter(o.delay, p, m), p, n) = DelayAfter(o.delay, p, m + n)
    BY Zenon, <1>10 DEF CutInTime
  <2> QED
    BY Zenon, <1>4, <1>5, <2>1
<1>12. Fme7Put(two.osc, o, z, w.level[z], Fme7Delay(x, n))
  <2>1. Fme7Put(x, o, y, w.level[y], Fme7Delay(o, m))
    BY Zenon DEF Fme7From
  <2>2. Fme7Put(two.osc, x, z, w.level[z], Fme7Delay(x, n))
    BY Zenon DEF Fme7From
  <2> QED
    BY SMT, <2>1, <2>2, Fme7PutTwice
<1>13. Fme7Put(all.osc, o, u, w.level[u], Fme7Delay(o, m + n))
  BY Zenon DEF Fme7From
<1>14. two.osc = all.osc
  BY Zenon, <1>9, <1>11, <1>12, <1>13 DEF CutFits, Fme7Put
<1> QED
  BY Zenon, <1>9, <1>14 DEF CutFits, Parted

LEMMA Fme7Cut ==
  ASSUME NEW o \in Fme7Osc, NEW m \in Nat, NEW n \in Nat, NEW one,
         one = RunFme7(o, m), NEW two, two = RunFme7(one.osc, n),
         NEW all, all = RunFme7(o, m + n)
  PROVE  Parted(one, two, all, m, n)
<1>1. PICK x : x = one.osc
  OBVIOUS
<1>2. PICK l \in Nat : l = m + n
  BY SMT
<1>3. two = RunFme7(x, n) /\ all = RunFme7(o, l)
  BY Zenon, <1>1, <1>2
<1>4. x \in Fme7Osc
  BY Zenon, <1>1, Fme7Run
<1>5. CASE ~o.output
  <2>1. one = Unheard(o, m) /\ all = Unheard(o, m + n)
    BY Zenon, <1>2, <1>3, <1>5 DEF RunFme7
  <2>2. x = o
    <3>1. x = Unheard(o, m).osc
      BY Zenon, <1>1, <2>1
    <3>2. Unheard(o, m).osc = o
      BY Zenon DEF Unheard
    <3> QED
      BY Zenon, <3>1, <3>2
  <2>3. two = Unheard(o, n)
    BY Zenon, <1>3, <1>5, <2>2 DEF RunFme7
  <2>4. Parted(Unheard(o, m), Unheard(o, n), Unheard(o, m + n), m, n)
    BY Zenon, UnheardCut
  <2> QED
    BY Zenon, <2>1, <2>3, <2>4
<1>6. CASE o.output
  <2>1. PICK w : w = Fme7Wave(o)
    OBVIOUS
  <2>2. PICK y : Fme7From(w, o, m, y, one)
    BY Zenon, <1>6, <2>1, Fme7Goes
  <2>3. PICK u : Fme7From(w, o, m + n, u, all)
    BY Zenon, <1>2, <1>3, <1>6, <2>1, Fme7Goes
  <2>4. w.level[y] \in Int
    BY Zenon, <2>2, PlaysLeads DEF Fme7From
  <2>5. SameFme7(o, x)
    BY SMT, <1>1, <2>2, Fme7PutIs DEF Fme7From
  <2>6. Fme7Period(x) = Fme7Period(o) /\ x.output /\ Fme7Volume(x) = Fme7Volume(o)
    BY Zenon, <1>6, <2>5 DEF SameFme7, Fme7Period, Fme7Volume
  <2>7. Fme7Wave(x) = w
    BY Zenon, <2>1, <2>6 DEF Fme7Wave
  <2>8. PICK z : Fme7From(w, x, n, z, two)
    BY Zenon, <1>3, <1>4, <2>6, <2>7, Fme7Goes
  <2> QED
    BY Zenon, <1>1, <1>4, <2>2, <2>3, <2>4, <2>6, <2>8, Fme7GoesOn
<1> QED
  BY Zenon, <1>5, <1>6

SawPut(x, o, y, amp, delay) == x = [o EXCEPT !.phase = y.phase, !.amp = y.amp, !.last_amp = amp, !.delay = delay]

(* What its wave depends on besides where it is.                           *)
SameSaw(o, x) ==
  /\ x.kind = o.kind /\ x.output = o.output /\ x.period = o.period
  /\ x.enabled = o.enabled /\ x.rate = o.rate

LEMMA SawPutIs ==
  ASSUME NEW o \in SawOsc, NEW y \in SawStates, NEW amp, amp = y.last_amp, NEW delay, NEW x,
         SawPut(x, o, y, amp, delay)
  PROVE  SawState(x) = y /\ x.last_amp = amp /\ x.delay = delay /\ SameSaw(o, x)
BY SMT DEF SawPut, SawOsc, SameSaw, SawState, SawStates

LEMMA SawPutTwice ==
  ASSUME NEW o, NEW x, NEW y, NEW a, NEW b, NEW c, NEW d, NEW e, NEW f,
         SawPut(x, o, a, b, c), SawPut(y, x, d, e, f)
  PROVE  SawPut(y, o, d, e, f)
BY Zenon DEF SawPut

SawFrom(w, o, n, y, run) ==
  /\ y \in SawStates
  /\ PlayedFrom(w, SawState(o), o.last_amp, o.delay, SawPeriod(o), n, y, run.deltas)
  /\ SawPut(run.osc, o, y, w.level[y], SawDelay(o, n))
  /\ w.level[y] = y.last_amp

LEMMA SawGoes ==
  ASSUME NEW o \in SawOsc, o.output, ~SawStill(o), NEW n \in Nat, NEW run, run = RunSaw(o, n)
  PROVE  \E y : SawFrom(SawWave(o), o, n, y, run)
<1>1. PICK y \in SawStates :
        /\ Plays(SawWave(o), SawState(o), o.last_amp, o.delay, SawPeriod(o), n, y, run.deltas)
        /\ SawPut(run.osc, o, y, SawWave(o).level[y], SawDelay(o, n))
        /\ SawWave(o).level[y] = y.last_amp
  <2>1. PICK y \in SawStates :
          /\ Plays(SawWave(o), SawState(o), o.last_amp, o.delay, SawPeriod(o), n, y, run.deltas)
          /\ SawWave(o).level[y] = y.last_amp
          /\ run.osc = [o EXCEPT !.phase = y.phase, !.amp = y.amp, !.last_amp = y.last_amp,
                                 !.delay = SawDelay(o, n)]
    BY ZenonT(30), SawPlays
  <2>2. SawPut(run.osc, o, y, y.last_amp, SawDelay(o, n))
    BY Zenon, <2>1 DEF SawPut
  <2> QED
    BY Zenon, <2>1, <2>2
<1>2. IsWave(SawWave(o)) /\ SawWave(o).states = SawStates
  BY Zenon, SawWaveIs
<1>3. /\ SawState(o) \in SawStates /\ o.delay \in Nat /\ o.last_amp \in Int
      /\ SawPeriod(o) \in Nat \ {0}
  <2>1. SawState(o) \in SawStates
    BY SMT DEF SawState, SawStates, SawOsc
  <2>2. \A i \in Nat : i \in Int
    BY SMT
  <2> QED
    BY Zenon, <2>1, <2>2, SawFields
<1> QED
  BY Zenon, <1>1, <1>2, <1>3 DEF SawFrom, PlayedFrom

LEMMA SawGoesOn ==
  ASSUME NEW o \in SawOsc, NEW m \in Nat, NEW n \in Nat, NEW w, NEW y, NEW z, NEW u,
         NEW one, NEW two, NEW all, NEW x, x = one.osc, SawPeriod(x) = SawPeriod(o),
         SawFrom(w, o, m, y, one), SawFrom(w, x, n, z, two), SawFrom(w, o, m + n, u, all),
         w.level[y] \in Int
  PROVE  Parted(one, two, all, m, n)
<1>1. SawState(x) = y /\ x.last_amp = w.level[y] /\ x.delay = SawDelay(o, m)
  <2>1. /\ SawPut(x, o, y, w.level[y], SawDelay(o, m)) /\ y \in SawStates
        /\ w.level[y] = y.last_amp
    BY Zenon DEF SawFrom
  <2> QED
    BY SMT, <2>1, SawPutIs
<1>2. PICK p \in Nat \ {0} : p = SawPeriod(o) /\ p = SawPeriod(x)
  BY Zenon DEF SawFrom, PlayedFrom
<1>3. o.delay \in Nat
  BY Zenon DEF SawFrom, PlayedFrom
<1>4. SawDelay(o, m) = DelayAfter(o.delay, p, m) /\ SawDelay(o, m + n) = DelayAfter(o.delay, p, m + n)
  BY Zenon, <1>2 DEF SawDelay
<1>5. x.delay = DelayAfter(o.delay, p, m) /\ SawDelay(x, n) = DelayAfter(x.delay, p, n)
  BY Zenon, <1>1, <1>2, <1>4 DEF SawDelay
<1>6. PlayedFrom(w, SawState(o), o.last_amp, o.delay, p, m, y, one.deltas)
  BY Zenon, <1>2 DEF SawFrom
<1>7. PlayedFrom(w, SawState(o), o.last_amp, o.delay, p, m + n, u, all.deltas)
  BY Zenon, <1>2 DEF SawFrom
<1>8. PlayedFrom(w, y, w.level[y], DelayAfter(o.delay, p, m), p, n, z, two.deltas)
  <2>1. PlayedFrom(w, SawState(x), x.last_amp, x.delay, p, n, z, two.deltas)
    BY Zenon, <1>2 DEF SawFrom
  <2> QED
    BY Zenon, <1>1, <1>5, <2>1
<1>9. CutFits(u, z, one.deltas, two.deltas, all.deltas, m, n)
  BY Zenon, <1>6, <1>7, <1>8, WaveCut
<1>10. CutInTime(o.delay, p, m, n)
  BY Zenon, <1>2, <1>3, CutTimes
<1>11. SawDelay(x, n) = SawDelay(o, m + n)
  <2>1. DelayAfter(DelayAfter(o.delay, p, m), p, n) = DelayAfter(o.delay, p, m + n)
    BY Zenon, <1>10 DEF CutInTime
  <2> QED
    BY Zenon, <1>4, <1>5, <2>1
<1>12. SawPut(two.osc, o, z, w.level[z], SawDelay(x, n))
  <2>1. SawPut(x, o, y, w.level[y], SawDelay(o, m))
    BY Zenon DEF SawFrom
  <2>2. SawPut(two.osc, x, z, w.level[z], SawDelay(x, n))
    BY Zenon DEF SawFrom
  <2> QED
    BY SMT, <2>1, <2>2, SawPutTwice
<1>13. SawPut(all.osc, o, u, w.level[u], SawDelay(o, m + n))
  BY Zenon DEF SawFrom
<1>14. two.osc = all.osc
  BY Zenon, <1>9, <1>11, <1>12, <1>13 DEF CutFits, SawPut
<1> QED
  BY Zenon, <1>9, <1>14 DEF CutFits, Parted

LEMMA SawMuted ==
  ASSUME NEW o, ~o.output, NEW n, NEW run, run = RunSaw(o, n)
  PROVE  run = Unheard(o, n)
BY Zenon DEF RunSaw

LEMMA SawStops ==
  ASSUME NEW o, o.output, ~o.enabled, NEW n, NEW run, run = RunSaw(o, n)
  PROVE  /\ Stopped(run.osc, o, o.amp \div amp_step)
         /\ run.deltas = First(o, o.amp \div amp_step, n)
BY Zenon DEF RunSaw, Stopped

LEMMA SawCut ==
  ASSUME NEW o \in SawOsc, o.rate # 0, NEW m \in Nat, NEW n \in Nat, NEW one,
         one = RunSaw(o, m), NEW two, two = RunSaw(one.osc, n),
         NEW all, all = RunSaw(o, m + n)
  PROVE  Parted(one, two, all, m, n)
<1>1. PICK x : x = one.osc
  OBVIOUS
<1>2. PICK l \in Nat : l = m + n
  BY SMT
<1>3. two = RunSaw(x, n) /\ all = RunSaw(o, l)
  BY Zenon, <1>1, <1>2
<1>4. x \in SawOsc
  BY Zenon, <1>1, SawRun
<1>5. CASE ~o.output
  <2>1. one = Unheard(o, m) /\ all = Unheard(o, m + n)
    <3>1. one = Unheard(o, m)
      BY Zenon, <1>5, SawMuted
    <3>2. all = Unheard(o, l)
      BY Zenon, <1>3, <1>5, SawMuted
    <3> QED
      BY Zenon, <1>2, <3>1, <3>2
  <2>2. x = o
    <3>1. x = Unheard(o, m).osc
      BY Zenon, <1>1, <2>1
    <3>2. Unheard(o, m).osc = o
      BY Zenon DEF Unheard
    <3> QED
      BY Zenon, <3>1, <3>2
  <2>3. two = Unheard(o, n)
    BY Zenon, <1>3, <1>5, <2>2, SawMuted
  <2>4. Parted(Unheard(o, m), Unheard(o, n), Unheard(o, m + n), m, n)
    BY Zenon, UnheardCut
  <2> QED
    BY Zenon, <2>1, <2>3, <2>4
<1>6. CASE o.output /\ ~o.enabled
  <2>1. PICK level \in Nat : level = o.amp \div amp_step
    BY Zenon, SawFields, SawLevel
  <2>2. Stopped(x, o, level) /\ one.deltas = First(o, level, m)
    BY Zenon, <1>1, <1>6, <2>1, SawStops
  <2>3. Stopped(all.osc, o, level) /\ all.deltas = First(o, level, l)
    BY Zenon, <1>3, <1>6, <2>1, SawStops
  <2>4. x.amp = o.amp /\ x.last_amp = level /\ x.output = o.output /\ x.enabled = o.enabled
    BY SMT, <2>2 DEF Stopped, SawOsc
  <2>5. x.amp \div amp_step = level /\ ~x.enabled /\ x.output
    BY Zenon, <1>6, <2>1, <2>4
  <2>6. Stopped(two.osc, x, level) /\ two.deltas = First(x, level, n)
    BY Zenon, <1>3, <2>5, SawStops
  <2>7. o.last_amp \in Int /\ level \in Int
    BY SMT, SawFields
  <2> QED
    BY SMT, <1>2, <2>2, <2>3, <2>4, <2>6, <2>7, StoppedCut
<1>7. CASE o.output /\ o.enabled
  <2>1. PICK w : w = SawWave(o)
    OBVIOUS
  <2>9. ~SawStill(o)
    BY Zenon, <1>7 DEF SawStill
  <2>2. PICK y : SawFrom(w, o, m, y, one)
    BY Zenon, <1>7, <2>1, <2>9, SawGoes
  <2>3. PICK u : SawFrom(w, o, m + n, u, all)
    BY Zenon, <1>2, <1>3, <1>7, <2>1, <2>9, SawGoes
  <2>4. w.level[y] \in Int
    BY Zenon, <2>2, PlaysLeads DEF SawFrom
  <2>5. SameSaw(o, x)
    <3>1. PICK amp, delay : amp = w.level[y] /\ delay = SawDelay(o, m)
      OBVIOUS
    <3>2. SawPut(x, o, y, amp, delay) /\ y \in SawStates /\ amp = y.last_amp
      BY Zenon, <1>1, <2>2, <3>1 DEF SawFrom
    <3> QED
      BY SMT, <3>2, SawPutIs
  <2>6. ~SawStill(x) /\ x.output /\ SawPeriod(x) = SawPeriod(o)
    BY Zenon, <1>7, <2>5 DEF SameSaw, SawStill, SawPeriod
  <2>7. SawWave(x) = w
    BY Zenon, <2>1, <2>5 DEF SawWave, SawNext, SameSaw
  <2>8. PICK z : SawFrom(w, x, n, z, two)
    BY Zenon, <1>3, <1>4, <2>6, <2>7, SawGoes
  <2> QED
    BY Zenon, <1>1, <2>2, <2>3, <2>4, <2>6, <2>8, SawGoesOn
<1> QED
  BY Zenon, <1>5, <1>6, <1>7

NamcoPut(x, o, y, amp, delay) == x = [o EXCEPT !.wave_pos = y.wave_pos, !.last_amp = amp, !.delay = delay]

(* What its wave depends on besides where it is.                           *)
SameNamco(o, x) ==
  /\ x.kind = o.kind /\ x.output = o.output /\ x.rank = o.rank /\ x.active = o.active
  /\ x.wave_on = o.wave_on /\ x.volume = o.volume /\ x.freq = o.freq
  /\ x.wave_size = o.wave_size /\ x.wave = o.wave

LEMMA NamcoPutIs ==
  ASSUME NEW o \in NamcoOsc, NEW y \in NamcoStates, NEW amp, amp = y.last_amp, NEW delay, NEW x,
         NamcoPut(x, o, y, amp, delay)
  PROVE  NamcoState(x) = y /\ x.last_amp = amp /\ x.delay = delay /\ SameNamco(o, x)
BY SMT DEF NamcoPut, NamcoOsc, SameNamco, NamcoState, NamcoStates

LEMMA NamcoPutTwice ==
  ASSUME NEW o, NEW x, NEW y, NEW a, NEW b, NEW c, NEW d, NEW e, NEW f,
         NamcoPut(x, o, a, b, c), NamcoPut(y, x, d, e, f)
  PROVE  NamcoPut(y, o, d, e, f)
BY Zenon DEF NamcoPut

NamcoFrom(w, o, n, y, run) ==
  /\ y \in NamcoStates
  /\ PlayedFrom(w, NamcoState(o), o.last_amp, o.delay, NamcoPeriod(o), n, y, run.deltas)
  /\ NamcoPut(run.osc, o, y, w.level[y], NamcoDelay(o, n))
  /\ w.level[y] = y.last_amp

LEMMA NamcoGoes ==
  ASSUME NEW o \in NamcoOsc, NamcoActive(o), NamcoPlaying(o), NEW n \in Nat, NEW run, run = RunNamco(o, n)
  PROVE  \E y : NamcoFrom(NamcoWave(o), o, n, y, run)
<1>1. PICK y \in NamcoStates :
        /\ Plays(NamcoWave(o), NamcoState(o), o.last_amp, o.delay, NamcoPeriod(o), n, y, run.deltas)
        /\ NamcoPut(run.osc, o, y, NamcoWave(o).level[y], NamcoDelay(o, n))
        /\ NamcoWave(o).level[y] = y.last_amp
  <2>1. PICK y \in NamcoStates :
          /\ Plays(NamcoWave(o), NamcoState(o), o.last_amp, o.delay, NamcoPeriod(o), n, y,
                   run.deltas)
          /\ NamcoWave(o).level[y] = y.last_amp
          /\ run.osc = [o EXCEPT !.wave_pos = y.wave_pos, !.last_amp = y.last_amp,
                                 !.delay = NamcoDelay(o, n)]
    BY Zenon, NamcoPlays
  <2>2. NamcoPut(run.osc, o, y, y.last_amp, NamcoDelay(o, n))
    BY Zenon, <2>1 DEF NamcoPut
  <2> QED
    BY Zenon, <2>1, <2>2
<1>2. IsWave(NamcoWave(o)) /\ NamcoWave(o).states = NamcoStates
  BY Zenon, NamcoWaveIs
<1>3. /\ NamcoState(o) \in NamcoStates /\ o.delay \in Nat /\ o.last_amp \in Int
      /\ NamcoPeriod(o) \in Nat \ {0}
  <2>1. NamcoState(o) \in NamcoStates
    BY SMT DEF NamcoState, NamcoStates, NamcoOsc
  <2>2. \A i \in Nat : i \in Int
    BY SMT
  <2>3. o \in NamcoHeard
    BY Zenon DEF NamcoHeard
  <2> QED
    BY Zenon, <2>1, <2>2, <2>3, NamcoFields, NamcoPeriods
<1> QED
  BY Zenon, <1>1, <1>2, <1>3 DEF NamcoFrom, PlayedFrom

LEMMA NamcoGoesOn ==
  ASSUME NEW o \in NamcoOsc, NEW m \in Nat, NEW n \in Nat, NEW w, NEW y, NEW z, NEW u,
         NEW one, NEW two, NEW all, NEW x, x = one.osc, NamcoPeriod(x) = NamcoPeriod(o),
         NamcoFrom(w, o, m, y, one), NamcoFrom(w, x, n, z, two), NamcoFrom(w, o, m + n, u, all),
         w.level[y] \in Int
  PROVE  Parted(one, two, all, m, n)
<1>1. NamcoState(x) = y /\ x.last_amp = w.level[y] /\ x.delay = NamcoDelay(o, m)
  <2>1. /\ NamcoPut(x, o, y, w.level[y], NamcoDelay(o, m)) /\ y \in NamcoStates
        /\ w.level[y] = y.last_amp
    BY Zenon DEF NamcoFrom
  <2> QED
    BY SMT, <2>1, NamcoPutIs
<1>2. PICK p \in Nat \ {0} : p = NamcoPeriod(o) /\ p = NamcoPeriod(x)
  BY Zenon DEF NamcoFrom, PlayedFrom
<1>3. o.delay \in Nat
  BY Zenon DEF NamcoFrom, PlayedFrom
<1>4. NamcoDelay(o, m) = DelayAfter(o.delay, p, m) /\ NamcoDelay(o, m + n) = DelayAfter(o.delay, p, m + n)
  BY Zenon, <1>2 DEF NamcoDelay
<1>5. x.delay = DelayAfter(o.delay, p, m) /\ NamcoDelay(x, n) = DelayAfter(x.delay, p, n)
  BY Zenon, <1>1, <1>2, <1>4 DEF NamcoDelay
<1>6. PlayedFrom(w, NamcoState(o), o.last_amp, o.delay, p, m, y, one.deltas)
  BY Zenon, <1>2 DEF NamcoFrom
<1>7. PlayedFrom(w, NamcoState(o), o.last_amp, o.delay, p, m + n, u, all.deltas)
  BY Zenon, <1>2 DEF NamcoFrom
<1>8. PlayedFrom(w, y, w.level[y], DelayAfter(o.delay, p, m), p, n, z, two.deltas)
  <2>1. PlayedFrom(w, NamcoState(x), x.last_amp, x.delay, p, n, z, two.deltas)
    BY Zenon, <1>2 DEF NamcoFrom
  <2> QED
    BY Zenon, <1>1, <1>5, <2>1
<1>9. CutFits(u, z, one.deltas, two.deltas, all.deltas, m, n)
  BY Zenon, <1>6, <1>7, <1>8, WaveCut
<1>10. CutInTime(o.delay, p, m, n)
  BY Zenon, <1>2, <1>3, CutTimes
<1>11. NamcoDelay(x, n) = NamcoDelay(o, m + n)
  <2>1. DelayAfter(DelayAfter(o.delay, p, m), p, n) = DelayAfter(o.delay, p, m + n)
    BY Zenon, <1>10 DEF CutInTime
  <2> QED
    BY Zenon, <1>4, <1>5, <2>1
<1>12. NamcoPut(two.osc, o, z, w.level[z], NamcoDelay(x, n))
  <2>1. NamcoPut(x, o, y, w.level[y], NamcoDelay(o, m))
    BY Zenon DEF NamcoFrom
  <2>2. NamcoPut(two.osc, x, z, w.level[z], NamcoDelay(x, n))
    BY Zenon DEF NamcoFrom
  <2> QED
    BY SMT, <2>1, <2>2, NamcoPutTwice
<1>13. NamcoPut(all.osc, o, u, w.level[u], NamcoDelay(o, m + n))
  BY Zenon DEF NamcoFrom
<1>14. two.osc = all.osc
  BY Zenon, <1>9, <1>11, <1>12, <1>13 DEF CutFits, NamcoPut
<1> QED
  BY Zenon, <1>9, <1>14 DEF CutFits, Parted

(* A channel that is not heard.                                            *)
NamcoLeft(d, n) == IF d < n THEN 0 ELSE d - n

LEMMA NamcoLeftOver ==
  ASSUME NEW d \in Nat, NEW m \in Nat, NEW n \in Nat
  PROVE  NamcoLeft(NamcoLeft(d, m), n) = NamcoLeft(d, m + n)
BY SMT DEF NamcoLeft

NamcoWaits(x, o, delay) == x = [o EXCEPT !.delay = delay]

LEMMA NamcoWaited ==
  ASSUME NEW o \in NamcoOsc, NEW delay, NEW x, NamcoWaits(x, o, delay)
  PROVE  x.delay = delay /\ SameNamco(o, x)
BY SMT DEF NamcoWaits, NamcoOsc, SameNamco

LEMMA NamcoCut ==
  ASSUME NEW o \in NamcoOsc, NEW m \in Nat, NEW n \in Nat, NEW one,
         one = RunNamco(o, m), NEW two, two = RunNamco(one.osc, n),
         NEW all, all = RunNamco(o, m + n)
  PROVE  Parted(one, two, all, m, n)
<1>1. PICK x : x = one.osc
  OBVIOUS
<1>2. PICK l \in Nat : l = m + n
  BY SMT
<1>3. two = RunNamco(x, n) /\ all = RunNamco(o, l)
  BY Zenon, <1>1, <1>2
<1>4. x \in NamcoOsc
  BY Zenon, <1>1, NamcoRun
<1>5. CASE ~NamcoActive(o)
  <2>1. one = Unheard(o, m) /\ all = Unheard(o, m + n)
    BY Zenon, <1>2, <1>3, <1>5 DEF RunNamco
  <2>2. x = o
    <3>1. x = Unheard(o, m).osc
      BY Zenon, <1>1, <2>1
    <3>2. Unheard(o, m).osc = o
      BY Zenon DEF Unheard
    <3> QED
      BY Zenon, <3>1, <3>2
  <2>3. two = Unheard(o, n)
    BY Zenon, <1>3, <1>5, <2>2 DEF RunNamco
  <2>4. Parted(Unheard(o, m), Unheard(o, n), Unheard(o, m + n), m, n)
    BY Zenon, UnheardCut
  <2> QED
    BY Zenon, <2>1, <2>3, <2>4
<1>6. CASE NamcoActive(o) /\ ~NamcoPlaying(o)
  <2>1. PICK a : a = [o EXCEPT !.delay = NamcoLeft(o.delay, m)]
    OBVIOUS
  <2>2. one = Unheard(a, m)
    BY Zenon, <1>6, <2>1 DEF RunNamco, NamcoLeft
  <2>3. x = a
    BY Zenon, <1>1, <2>2, UnheardCut
  <2>4. NamcoWaits(x, o, NamcoLeft(o.delay, m))
    BY Zenon, <2>1, <2>3 DEF NamcoWaits
  <2>5. x.delay = NamcoLeft(o.delay, m) /\ SameNamco(o, x)
    BY SMT, <2>4, NamcoWaited
  <2>6. NamcoActive(x) /\ ~NamcoPlaying(x)
    BY Zenon, <1>6, <2>5 DEF NamcoActive, NamcoPlaying, SameNamco
  <2>7. PICK b : b = [x EXCEPT !.delay = NamcoLeft(x.delay, n)]
    OBVIOUS
  <2>8. two = Unheard(b, n)
    BY Zenon, <1>3, <2>6, <2>7 DEF RunNamco, NamcoLeft
  <2>9. PICK c : c = [o EXCEPT !.delay = NamcoLeft(o.delay, l)]
    OBVIOUS
  <2>10. all = Unheard(c, m + n)
    BY Zenon, <1>2, <1>3, <1>6, <2>9 DEF RunNamco, NamcoLeft
  <2>11. NamcoLeft(x.delay, n) = NamcoLeft(o.delay, l)
    <3>1. o.delay \in Nat
      BY Zenon, NamcoFields
    <3>2. NamcoLeft(NamcoLeft(o.delay, m), n) = NamcoLeft(o.delay, m + n)
      BY Zenon, <3>1, NamcoLeftOver
    <3> QED
      BY Zenon, <1>2, <2>5, <3>2
  <2>12. b = [x EXCEPT !.delay = NamcoLeft(o.delay, l)]
    BY Zenon, <2>7, <2>11
  <2>13. b = c
    BY Zenon, <2>4, <2>9, <2>12 DEF NamcoWaits
  <2>14. Parted(Unheard(a, m), Unheard(b, n), Unheard(c, m + n), m, n)
    BY Zenon, <2>13, UnheardCut
  <2> QED
    BY Zenon, <2>2, <2>8, <2>10, <2>14
<1>7. CASE NamcoActive(o) /\ NamcoPlaying(o)
  <2>1. PICK w : w = NamcoWave(o)
    OBVIOUS
  <2>2. PICK y : NamcoFrom(w, o, m, y, one)
    BY Zenon, <1>7, <2>1, NamcoGoes
  <2>3. PICK u : NamcoFrom(w, o, m + n, u, all)
    BY Zenon, <1>2, <1>3, <1>7, <2>1, NamcoGoes
  <2>4. w.level[y] \in Int
    BY Zenon, <2>2, PlaysLeads DEF NamcoFrom
  <2>5. SameNamco(o, x)
    <3>1. /\ NamcoPut(x, o, y, w.level[y], NamcoDelay(o, m)) /\ y \in NamcoStates
          /\ w.level[y] = y.last_amp
      BY Zenon, <1>1, <2>2 DEF NamcoFrom
    <3> QED
      BY SMT, <3>1, NamcoPutIs
  <2>6. NamcoActive(x) /\ NamcoPlaying(x) /\ NamcoPeriod(x) = NamcoPeriod(o)
    BY Zenon, <1>7, <2>5 DEF SameNamco, NamcoActive, NamcoPlaying, NamcoPeriod
  <2>7. NamcoWave(x) = w
    BY Zenon, <2>1, <2>5 DEF NamcoWave, NamcoNext, SameNamco
  <2>8. PICK z : NamcoFrom(w, x, n, z, two)
    BY Zenon, <1>3, <1>4, <2>6, <2>7, NamcoGoes
  <2> QED
    BY Zenon, <1>1, <2>2, <2>3, <2>4, <2>6, <2>8, NamcoGoesOn
<1> QED
  BY Zenon, <1>5, <1>6, <1>7

Vrc7Put(x, o, y, amp, delay) == x = [o EXCEPT !.turn = y.turn, !.last_amp = amp, !.delay = delay]

(* What its wave depends on besides where it is.                           *)
SameVrc7(o, x) ==
  /\ x.kind = o.kind /\ x.output = o.output /\ x.key_on = o.key_on

LEMMA Vrc7PutIs ==
  ASSUME NEW o \in Vrc7State, NEW y \in Vrc7States, NEW amp, amp = y.last_amp, NEW delay, NEW x,
         Vrc7Put(x, o, y, amp, delay)
  PROVE  Vrc7At(x) = y /\ x.last_amp = amp /\ x.delay = delay /\ SameVrc7(o, x)
BY SMT DEF Vrc7Put, Vrc7State, SameVrc7, Vrc7At, Vrc7States

LEMMA Vrc7PutTwice ==
  ASSUME NEW o, NEW x, NEW y, NEW a, NEW b, NEW c, NEW d, NEW e, NEW f,
         Vrc7Put(x, o, a, b, c), Vrc7Put(y, x, d, e, f)
  PROVE  Vrc7Put(y, o, d, e, f)
BY Zenon DEF Vrc7Put

Vrc7From(w, o, n, y, run) ==
  /\ y \in Vrc7States
  /\ PlayedFrom(w, Vrc7At(o), o.last_amp, o.delay, fm_period, n, y, run.deltas)
  /\ Vrc7Put(run.osc, o, y, w.level[y], DelayAfter(o.delay, fm_period, n))
  /\ w.level[y] = y.last_amp

LEMMA Vrc7Goes ==
  ASSUME NEW o \in Vrc7State, NEW n \in Nat, NEW run, run = RunVrc7(o, n)
  PROVE  \E y : Vrc7From(Vrc7Wave(o), o, n, y, run)
<1>1. PICK y \in Vrc7States :
        /\ Plays(Vrc7Wave(o), Vrc7At(o), o.last_amp, o.delay, fm_period, n, y, run.deltas)
        /\ Vrc7Put(run.osc, o, y, Vrc7Wave(o).level[y], DelayAfter(o.delay, fm_period, n))
        /\ Vrc7Wave(o).level[y] = y.last_amp
  <2>1. PICK y \in Vrc7States :
          /\ Plays(Vrc7Wave(o), Vrc7At(o), o.last_amp, o.delay, fm_period, n, y, run.deltas)
          /\ Vrc7Wave(o).level[y] = y.last_amp
          /\ run.osc = [o EXCEPT !.turn = y.turn, !.last_amp = y.last_amp,
                                 !.delay = DelayAfter(o.delay, fm_period, n)]
    BY Zenon, Vrc7Plays
  <2>2. Vrc7Put(run.osc, o, y, y.last_amp, DelayAfter(o.delay, fm_period, n))
    BY Zenon, <2>1 DEF Vrc7Put
  <2> QED
    BY Zenon, <2>1, <2>2
<1>2. IsWave(Vrc7Wave(o)) /\ Vrc7Wave(o).states = Vrc7States
  BY Zenon, Vrc7WaveIs
<1>3. /\ Vrc7At(o) \in Vrc7States /\ o.delay \in Nat /\ o.last_amp \in Int
      /\ fm_period \in Nat \ {0}
  <2>1. Vrc7At(o) \in Vrc7States
    BY SMT DEF Vrc7At, Vrc7States, Vrc7State
  <2>2. \A i \in Nat : i \in Int
    BY SMT
  <2> QED
    BY Zenon, <2>1, <2>2, Vrc7Fields
<1> QED
  BY Zenon, <1>1, <1>2, <1>3 DEF Vrc7From, PlayedFrom

LEMMA Vrc7FromIs ==
  ASSUME NEW o \in Vrc7State, NEW w, NEW n, NEW y, NEW run, NEW x, x = run.osc,
         Vrc7From(w, o, n, y, run)
  PROVE  /\ Vrc7At(x) = y /\ x.last_amp = w.level[y] /\ x.delay = DelayAfter(o.delay, fm_period, n)
         /\ SameVrc7(o, x)
<1>1. y \in Vrc7States
  BY Zenon DEF Vrc7From
<1>2. PICK amp, delay : amp = y.last_amp /\ amp = w.level[y] /\ delay = DelayAfter(o.delay, fm_period, n)
  BY Zenon DEF Vrc7From
<1>3. Vrc7Put(x, o, y, amp, delay)
  BY Zenon, <1>2 DEF Vrc7From
<1>4. amp = y.last_amp
  BY Zenon, <1>2
<1>5. Vrc7At(x) = y /\ x.last_amp = amp /\ x.delay = delay /\ SameVrc7(o, x)
  BY SMT, <1>1, <1>3, <1>4, Vrc7PutIs
<1> QED
  BY Zenon, <1>2, <1>5

LEMMA Vrc7GoesOn ==
  ASSUME NEW o \in Vrc7State, NEW m \in Nat, NEW n \in Nat, NEW w, NEW y, NEW z, NEW u,
         NEW one, NEW two, NEW all, NEW x, x = one.osc,
         Vrc7From(w, o, m, y, one), Vrc7From(w, x, n, z, two), Vrc7From(w, o, m + n, u, all),
         w.level[y] \in Int
  PROVE  Parted(one, two, all, m, n)
<1>1. Vrc7At(x) = y /\ x.last_amp = w.level[y] /\ x.delay = DelayAfter(o.delay, fm_period, m)
  BY SMT, Vrc7FromIs
<1>2. PICK p \in Nat \ {0} : p = fm_period /\ p = fm_period
  BY Zenon DEF Vrc7From, PlayedFrom
<1>3. o.delay \in Nat
  BY Zenon DEF Vrc7From, PlayedFrom
<1>4. DelayAfter(o.delay, fm_period, m) = DelayAfter(o.delay, p, m) /\ DelayAfter(o.delay, fm_period, m + n) = DelayAfter(o.delay, p, m + n)
  BY Zenon, <1>2
<1>5. x.delay = DelayAfter(o.delay, p, m) /\ DelayAfter(x.delay, fm_period, n) = DelayAfter(x.delay, p, n)
  BY Zenon, <1>1, <1>2, <1>4
<1>6. PlayedFrom(w, Vrc7At(o), o.last_amp, o.delay, p, m, y, one.deltas)
  BY Zenon, <1>2 DEF Vrc7From
<1>7. PlayedFrom(w, Vrc7At(o), o.last_amp, o.delay, p, m + n, u, all.deltas)
  BY Zenon, <1>2 DEF Vrc7From
<1>8. PlayedFrom(w, y, w.level[y], DelayAfter(o.delay, p, m), p, n, z, two.deltas)
  <2>1. PlayedFrom(w, Vrc7At(x), x.last_amp, x.delay, p, n, z, two.deltas)
    BY Zenon, <1>2 DEF Vrc7From
  <2> QED
    BY Zenon, <1>1, <1>5, <2>1
<1>9. CutFits(u, z, one.deltas, two.deltas, all.deltas, m, n)
  BY Zenon, <1>6, <1>7, <1>8, WaveCut
<1>10. CutInTime(o.delay, p, m, n)
  BY Zenon, <1>2, <1>3, CutTimes
<1>11. DelayAfter(x.delay, fm_period, n) = DelayAfter(o.delay, fm_period, m + n)
  <2>1. DelayAfter(DelayAfter(o.delay, p, m), p, n) = DelayAfter(o.delay, p, m + n)
    BY Zenon, <1>10 DEF CutInTime
  <2> QED
    BY Zenon, <1>4, <1>5, <2>1
<1>12. Vrc7Put(two.osc, o, z, w.level[z], DelayAfter(x.delay, fm_period, n))
  <2>1. Vrc7Put(x, o, y, w.level[y], DelayAfter(o.delay, fm_period, m))
    BY Zenon DEF Vrc7From
  <2>2. Vrc7Put(two.osc, x, z, w.level[z], DelayAfter(x.delay, fm_period, n))
    BY Zenon DEF Vrc7From
  <2> QED
    BY SMT, <2>1, <2>2, Vrc7PutTwice
<1>13. Vrc7Put(all.osc, o, u, w.level[u], DelayAfter(o.delay, fm_period, m + n))
  BY Zenon DEF Vrc7From
<1>14. two.osc = all.osc
  BY Zenon, <1>9, <1>11, <1>12, <1>13 DEF CutFits, Vrc7Put
<1> QED
  BY Zenon, <1>9, <1>14 DEF CutFits, Parted

LEMMA Vrc7Cut ==
  ASSUME NEW o \in Vrc7State, NEW m \in Nat, NEW n \in Nat, NEW one,
         one = RunVrc7(o, m), NEW two, two = RunVrc7(one.osc, n),
         NEW all, all = RunVrc7(o, m + n)
  PROVE  Parted(one, two, all, m, n)
<1>1. PICK x : x = one.osc
  OBVIOUS
<1>2. PICK l \in Nat : l = m + n
  BY SMT
<1>3. two = RunVrc7(x, n) /\ all = RunVrc7(o, l)
  BY Zenon, <1>1, <1>2
<1>4. x \in Vrc7State
  BY Zenon, <1>1, Vrc7Run
<1>5. PICK w : w = Vrc7Wave(o)
  OBVIOUS
<1>6. PICK y : Vrc7From(w, o, m, y, one)
  BY Zenon, <1>5, Vrc7Goes
<1>7. PICK u : Vrc7From(w, o, m + n, u, all)
  BY Zenon, <1>2, <1>3, <1>5, Vrc7Goes
<1>8. w.level[y] \in Int
  BY Zenon, <1>6, PlaysLeads DEF Vrc7From
<1>9. SameVrc7(o, x)
  BY Zenon, <1>1, <1>6, Vrc7FromIs
<1>10. Vrc7Wave(x) = w
  BY Zenon, <1>5, <1>9 DEF Vrc7Wave, Vrc7Next, SameVrc7
<1>11. PICK z : Vrc7From(w, x, n, z, two)
  BY Zenon, <1>3, <1>4, <1>10, Vrc7Goes
<1> QED
  BY Zenon, <1>1, <1>6, <1>7, <1>8, <1>11, Vrc7GoesOn

-----------------------------------------------------------------------------
(* The squares of the MMC5, whose run is cut at the frame events.  A run   *)
(* that is cut at another clock too goes from event to event as the whole  *)
(* does: before the cut with fewer clocks to come, after it with a square  *)
(* that is another only in the time to the next event.                     *)

Overlaid(a, d, at, t) ==
  [u \in DOMAIN a |-> a[u] + IF u \in at .. t THEN d[u - at] ELSE 0]

LEMMA OverlaidFirst ==
  ASSUME NEW m \in Nat, NEW n \in Nat, NEW a \in Deltas(m), NEW b \in Deltas(n),
         NEW at \in Nat, NEW t \in Nat, at <= t, t <= m, NEW d \in Deltas(t - at)
  PROVE  /\ Overlaid(a, d, at, t) \in Deltas(m)
         /\ Overlaid(Glued(a, b, m, n), d, at, t) = Glued(Overlaid(a, d, at, t), b, m, n)
<1>1. /\ \A u \in 0 .. m : a[u] \in Int
      /\ \A u \in 0 .. n : b[u] \in Int
      /\ \A u \in 0 .. t - at : d[u] \in Int
      /\ DOMAIN a = 0 .. m /\ DOMAIN Glued(a, b, m, n) = 0 .. m + n
  BY Zenon DEF Deltas, Glued
<1>2. ASSUME NEW u \in 0 .. m
      PROVE  a[u] + (IF u \in at .. t THEN d[u - at] ELSE 0) \in Int
  BY SMT, <1>1
<1>3. Overlaid(a, d, at, t) = [u \in 0 .. m |-> a[u] + IF u \in at .. t THEN d[u - at] ELSE 0]
  BY Zenon, <1>1 DEF Overlaid
<1>4. Overlaid(a, d, at, t) \in Deltas(m)
  BY Zenon, <1>2, <1>3 DEF Deltas
<1>5. ASSUME NEW u \in 0 .. m + n
      PROVE  Glued(a, b, m, n)[u] + (IF u \in at .. t THEN d[u - at] ELSE 0)
               = (IF u <= m THEN Overlaid(a, d, at, t)[u] ELSE 0) + IF u >= m THEN b[u - m] ELSE 0
  <2>1. Glued(a, b, m, n)[u] = (IF u <= m THEN a[u] ELSE 0) + IF u >= m THEN b[u - m] ELSE 0
    BY Zenon DEF Glued
  <2>2. u <= m => Overlaid(a, d, at, t)[u] = a[u] + IF u \in at .. t THEN d[u - at] ELSE 0
    BY SMT, <1>3
  <2> QED
    BY SMT, <1>1, <2>1, <2>2
<1> QED
  BY Zenon, <1>1, <1>4, <1>5 DEF Overlaid, Glued

LEMMA OverlaidSecond ==
  ASSUME NEW m \in Nat, NEW n \in Nat, NEW a \in Deltas(m), NEW b \in Deltas(n),
         NEW at \in Nat, NEW t \in Nat, at <= t, t <= n, NEW d \in Deltas(t - at)
  PROVE  /\ Overlaid(b, d, at, t) \in Deltas(n)
         /\ Overlaid(Glued(a, b, m, n), d, m + at, m + t) = Glued(a, Overlaid(b, d, at, t), m, n)
<1>1. /\ \A u \in 0 .. m : a[u] \in Int
      /\ \A u \in 0 .. n : b[u] \in Int
      /\ \A u \in 0 .. t - at : d[u] \in Int
      /\ DOMAIN b = 0 .. n /\ DOMAIN Glued(a, b, m, n) = 0 .. m + n
  BY Zenon DEF Deltas, Glued
<1>2. ASSUME NEW u \in 0 .. n
      PROVE  b[u] + (IF u \in at .. t THEN d[u - at] ELSE 0) \in Int
  BY SMT, <1>1
<1>3. Overlaid(b, d, at, t) = [u \in 0 .. n |-> b[u] + IF u \in at .. t THEN d[u - at] ELSE 0]
  BY Zenon, <1>1 DEF Overlaid
<1>4. Overlaid(b, d, at, t) \in Deltas(n)
  BY Zenon, <1>2, <1>3 DEF Deltas
<1>5. ASSUME NEW u \in 0 .. m + n
      PROVE  Glued(a, b, m, n)[u] + (IF u \in m + at .. m + t THEN d[u - (m + at)] ELSE 0)
               = (IF u <= m THEN a[u] ELSE 0) + IF u >= m THEN Overlaid(b, d, at, t)[u - m] ELSE 0
  <2>1. Glued(a, b, m, n)[u] = (IF u <= m THEN a[u] ELSE 0) + IF u >= m THEN b[u - m] ELSE 0
    BY Zenon DEF Glued
  <2>2. u >= m => /\ u - m \in 0 .. n /\ (u - m) - at = u - (m + at)
                  /\ (u - m \in at .. t <=> u \in m + at .. m + t)
    BY SMT
  <2>3. u >= m => Overlaid(b, d, at, t)[u - m]
                    = b[u - m] + IF u - m \in at .. t THEN d[(u - m) - at] ELSE 0
    BY Zenon, <1>3, <2>2
  <2>4. u >= m => Overlaid(b, d, at, t)[u - m]
                    = b[u - m] + IF u \in m + at .. m + t THEN d[u - (m + at)] ELSE 0
    BY Zenon, <2>2, <2>3
  <2>5. ~(u >= m) => ~(u \in m + at .. m + t)
    BY SMT
  <2>6. /\ u <= m => a[u] \in Int
        /\ u >= m => b[u - m] \in Int
        /\ u \in m + at .. m + t => d[u - (m + at)] \in Int
    <3>1. /\ u <= m => u \in 0 .. m
          /\ u \in m + at .. m + t => u - (m + at) \in 0 .. t - at
      BY SMT
    <3> QED
      BY Zenon, <1>1, <2>2, <3>1
  <2>7. PICK x, y, z : x = a[u] /\ y = b[u - m] /\ z = d[u - (m + at)]
    OBVIOUS
  <2> QED
    BY SMT, <2>1, <2>4, <2>5, <2>6, <2>7
<1> QED
  BY Zenon, <1>1, <1>4, <1>5 DEF Overlaid, Glued

LEMMA OverlaidTwice ==
  ASSUME NEW l \in Nat, NEW a \in Deltas(l), NEW at \in Nat, NEW m \in Nat, NEW t \in Nat,
         at <= m, m <= t, t <= l, NEW d \in Deltas(m - at), NEW e \in Deltas(t - m)
  PROVE  Overlaid(Overlaid(a, d, at, m), e, m, t)
           = Overlaid(a, Glued(d, e, m - at, t - m), at, t)
<1>1. /\ \A u \in 0 .. l : a[u] \in Int
      /\ \A u \in 0 .. m - at : d[u] \in Int
      /\ \A u \in 0 .. t - m : e[u] \in Int
      /\ DOMAIN a = 0 .. l /\ DOMAIN Overlaid(a, d, at, m) = 0 .. l
  BY Zenon DEF Deltas, Overlaid
<1>2. ASSUME NEW u \in 0 .. l
      PROVE  Overlaid(a, d, at, m)[u] + (IF u \in m .. t THEN e[u - m] ELSE 0)
               = a[u] + IF u \in at .. t THEN Glued(d, e, m - at, t - m)[u - at] ELSE 0
  <2>1. Overlaid(a, d, at, m)[u] = a[u] + IF u \in at .. m THEN d[u - at] ELSE 0
    BY Zenon, <1>1 DEF Overlaid
  <2>2. u \in at .. t => /\ u - at \in 0 .. (m - at) + (t - m)
                         /\ (u - at) - (m - at) = u - m
                         /\ (u - at <= m - at <=> u <= m) /\ (u - at >= m - at <=> u >= m)
    BY SMT
  <2>3. u \in at .. t => Glued(d, e, m - at, t - m)[u - at]
                           = (IF u - at <= m - at THEN d[u - at] ELSE 0)
                             + IF u - at >= m - at THEN e[(u - at) - (m - at)] ELSE 0
    BY Zenon, <2>2 DEF Glued
  <2>4. u \in at .. t => Glued(d, e, m - at, t - m)[u - at]
                           = (IF u <= m THEN d[u - at] ELSE 0) + IF u >= m THEN e[u - m] ELSE 0
    BY Zenon, <2>2, <2>3
  <2>5. /\ u \in at .. m => d[u - at] \in Int
        /\ u \in m .. t => e[u - m] \in Int
    <3>1. /\ u \in at .. m => u - at \in 0 .. m - at
          /\ u \in m .. t => u - m \in 0 .. t - m
      BY SMT
    <3> QED
      BY Zenon, <1>1, <3>1
  <2>6. a[u] \in Int
    BY Zenon, <1>1
  <2>7. PICK x, y, z : x = d[u - at] /\ y = e[u - m] /\ z = a[u]
    OBVIOUS
  <2>8. PICK p, q : p = Overlaid(a, d, at, m)[u] /\ q = Glued(d, e, m - at, t - m)[u - at]
    OBVIOUS
  <2>9. /\ p = z + IF u \in at .. m THEN x ELSE 0
        /\ u \in at .. t => q = (IF u <= m THEN x ELSE 0) + IF u >= m THEN y ELSE 0
        /\ z \in Int /\ (u \in at .. m => x \in Int) /\ (u \in m .. t => y \in Int)
    BY Zenon, <2>1, <2>4, <2>5, <2>6, <2>7, <2>8
  <2>10. p + (IF u \in m .. t THEN y ELSE 0) = z + IF u \in at .. t THEN q ELSE 0
    BY SMT, <2>9
  <2> QED
    BY Zenon, <2>7, <2>8, <2>10
<1> QED
  BY Zenon, <1>1, <1>2 DEF Overlaid

(* What is joined to a run.                                                *)
LEMMA RunToIs ==
  ASSUME NEW s, NEW t, NEW l, l = t - s.at, NEW run, run = RunSquare(s.osc, l)
  PROVE  /\ RunTo(s, t).osc = run.osc /\ RunTo(s, t).at = t
         /\ RunTo(s, t).deltas = Overlaid(s.deltas, run.deltas, s.at, t)
BY Zenon DEF RunTo, Joined, Overlaid

LEMMA EventIs ==
  ASSUME NEW s, NEW t
  PROVE  /\ Mmc5Event(s, t).osc = clock_envelope(clock_length(RunTo(s, t).osc))
         /\ Mmc5Event(s, t).at = RunTo(s, t).at
         /\ Mmc5Event(s, t).deltas = RunTo(s, t).deltas
BY Zenon DEF Mmc5Event, RunTo, Joined

-----------------------------------------------------------------------------
(* Two squares that are the same but for the time to the next frame event. *)

Twin(a, b, f, e) == a = [b EXCEPT !.frame_delay = f] /\ b.frame_delay = e

LEMMA TwinFields ==
  ASSUME NEW a \in Mmc5SquareOsc, NEW b \in Mmc5SquareOsc, NEW f, NEW e, Twin(a, b, f, e)
  PROVE  /\ SamePulse(b, a) /\ a.output = b.output /\ a.phase = b.phase
         /\ a.last_amp = b.last_amp /\ a.delay = b.delay /\ a.frame_delay = f
BY SMT DEF Twin, Mmc5SquareOsc, SamePulse

LEMMA TwinPut ==
  ASSUME NEW a, NEW b, NEW f, NEW e, Twin(a, b, f, e), NEW x, NEW y, NEW phase, NEW amp, NEW delay,
         PulsePut(x, a, phase, amp, delay), PulsePut(y, b, phase, amp, delay)
  PROVE  x = [y EXCEPT !.frame_delay = f]
BY Zenon DEF Twin, PulsePut

LEMMA FramePut ==
  ASSUME NEW o \in Mmc5SquareOsc, NEW x, NEW phase, NEW amp, NEW delay,
         PulsePut(x, o, phase, amp, delay)
  PROVE  x.frame_delay = o.frame_delay
BY SMT DEF PulsePut, Mmc5SquareOsc

LEMMA FrameKept ==
  ASSUME NEW o \in Mmc5SquareOsc, NEW n \in Nat, NEW run, run = RunSquare(o, n)
  PROVE  run.osc.frame_delay = o.frame_delay
<1>1. PulsePut(run.osc, o, PulsePhase(o, n), run.osc.last_amp, PulseDelay(o, n))
  BY Zenon, PulseKeeps DEF Pulse, PulseKept
<1> QED
  BY Zenon, <1>1, FramePut

LEMMA TwinRun ==
  ASSUME NEW a \in Mmc5SquareOsc, NEW b \in Mmc5SquareOsc, NEW f, NEW e, Twin(a, b, f, e),
         NEW n \in Nat, NEW x, x = RunSquare(a, n), NEW y, y = RunSquare(b, n)
  PROVE  Twin(x.osc, y.osc, f, e) /\ x.deltas = y.deltas
<1>1. /\ SamePulse(b, a) /\ a.output = b.output /\ a.phase = b.phase
      /\ a.last_amp = b.last_amp /\ a.delay = b.delay
  BY Zenon, TwinFields
<1>2. a \in Pulse /\ b \in Pulse
  BY Zenon DEF Pulse
<1>3. /\ (Audible(a) <=> Audible(b)) /\ duty(a) = duty(b) /\ volume(a) = volume(b)
      /\ timer_period(a) = timer_period(b)
  BY Zenon, <1>1, SamePulseIs DEF SamePulse, timer_period
<1>4. PulsePhase(a, n) = PulsePhase(b, n) /\ PulseDelay(a, n) = PulseDelay(b, n)
  BY Zenon, <1>1, <1>3 DEF PulsePhase, PulseDelay
<1>5. y.osc.frame_delay = e
  BY Zenon, FrameKept DEF Twin
<1>6. PICK phase, delay : phase = PulsePhase(b, n) /\ delay = PulseDelay(b, n)
  OBVIOUS
<1>7. \A amp : PulseKept(x.osc, a, n, amp) /\ PulseKept(y.osc, b, n, amp)
                 => x.osc = [y.osc EXCEPT !.frame_delay = f]
  <2>1. TAKE amp
  <2>2. HAVE PulseKept(x.osc, a, n, amp) /\ PulseKept(y.osc, b, n, amp)
  <2>3. PulsePut(x.osc, a, phase, amp, delay) /\ PulsePut(y.osc, b, phase, amp, delay)
    BY Zenon, <1>4, <1>6, <2>2 DEF PulseKept
  <2> QED
    BY Zenon, <2>3, TwinPut
<1>8. CASE ~b.output
  <2>1. /\ PulseKept(x.osc, a, n, a.last_amp) /\ x.deltas = Silence(n)
        /\ PulseKept(y.osc, b, n, b.last_amp) /\ y.deltas = Silence(n)
    BY SMT, <1>1, <1>8, SquareUnheard
  <2> QED
    BY Zenon, <1>1, <1>5, <1>7, <2>1 DEF Twin
<1>9. CASE b.output /\ ~Audible(b)
  <2>1. PulseKept(x.osc, a, n, 0) /\ x.deltas = First(a, 0, n)
    BY Zenon, <1>1, <1>3, <1>9, SquareSilent
  <2>2. PulseKept(y.osc, b, n, 0) /\ y.deltas = First(b, 0, n)
    BY Zenon, <1>9, SquareSilent
  <2>3. First(a, 0, n) = First(b, 0, n)
    BY Zenon, <1>1 DEF First
  <2> QED
    BY Zenon, <1>5, <1>7, <2>1, <2>2, <2>3 DEF Twin
<1>10. CASE b.output /\ Audible(b)
  <2>1. PICK w : w = SquareWave(b)
    OBVIOUS
  <2>2. SquareWave(a) = w
    BY Zenon, <1>1, <1>3, <2>1 DEF SquareWave, InDuty, SamePulse
  <2>3. PICK u : SquareFrom(w, a, n, u, x)
    BY Zenon, <1>1, <1>2, <1>3, <1>10, <2>2, SquareHeard
  <2>4. PICK v : SquareFrom(w, b, n, v, y)
    BY Zenon, <1>2, <1>10, <2>1, SquareHeard
  <2>5. /\ PlayedFrom(w, b.phase, b.last_amp, b.delay, timer_period(b), n, u, x.deltas)
        /\ PlayedFrom(w, b.phase, b.last_amp, b.delay, timer_period(b), n, v, y.deltas)
    BY Zenon, <1>1, <1>3, <2>3, <2>4 DEF SquareFrom
  <2>6. u = v /\ x.deltas = y.deltas
    BY Zenon, <2>5, PlaysOnce DEF PlayedFrom
  <2>7. PulsePut(x.osc, a, u, w.level[u], delay) /\ PulsePut(y.osc, b, u, w.level[u], delay)
    BY Zenon, <1>4, <1>6, <2>3, <2>4, <2>6 DEF SquareFrom
  <2>8. x.osc = [y.osc EXCEPT !.frame_delay = f]
    BY Zenon, <2>7, TwinPut
  <2> QED
    BY Zenon, <1>5, <2>6, <2>8 DEF Twin
<1> QED
  BY Zenon, <1>8, <1>9, <1>10

(* A frame event does the same to both.                                    *)
LEMMA LengthKept ==
  ASSUME NEW o \in Mmc5SquareOsc
  PROVE  clock_length(o) \in Mmc5SquareOsc /\ clock_length(o).frame_delay = o.frame_delay
<1>1. CASE o.length_counter # 0 /\ ~o.control.halt
  <2>1. PICK length \in Nat : length = o.length_counter - 1
    BY SMT, <1>1 DEF Mmc5SquareOsc
  <2>2. clock_length(o) = [o EXCEPT !.length_counter = length]
    BY Zenon, <1>1, <2>1 DEF clock_length
  <2>3. [o EXCEPT !.length_counter = length] \in Mmc5SquareOsc
    BY Zenon DEF Mmc5SquareOsc
  <2>4. [o EXCEPT !.length_counter = length].frame_delay = o.frame_delay
    BY SMT DEF Mmc5SquareOsc
  <2> QED
    BY Zenon, <2>2, <2>3, <2>4
<1>2. CASE ~(o.length_counter # 0 /\ ~o.control.halt)
  BY Zenon, <1>2 DEF clock_length
<1> QED
  BY Zenon, <1>1, <1>2

LEMMA EnvelopeKept ==
  ASSUME NEW o \in Mmc5SquareOsc
  PROVE  clock_envelope(o).frame_delay = o.frame_delay
BY SMT DEF Mmc5SquareOsc, clock_envelope

LEMMA TwinLength ==
  ASSUME NEW a \in Mmc5SquareOsc, NEW b \in Mmc5SquareOsc, NEW f, NEW e, Twin(a, b, f, e)
  PROVE  Twin(clock_length(a), clock_length(b), f, e)
<1>1. a.length_counter = b.length_counter /\ a.control = b.control
  BY Zenon, TwinFields DEF SamePulse
<1>2. clock_length(b).frame_delay = e
  BY Zenon, LengthKept DEF Twin
<1>3. clock_length(a) = [clock_length(b) EXCEPT !.frame_delay = f]
  BY Zenon, <1>1 DEF Twin, clock_length
<1> QED
  BY Zenon, <1>2, <1>3 DEF Twin

LEMMA TwinEnvelope ==
  ASSUME NEW a \in Mmc5SquareOsc, NEW b \in Mmc5SquareOsc, NEW f, NEW e, Twin(a, b, f, e)
  PROVE  Twin(clock_envelope(a), clock_envelope(b), f, e)
<1>1. /\ a.control = b.control /\ a.envelope = b.envelope
  BY Zenon, TwinFields DEF SamePulse
<1>2. a.written3 = b.written3 /\ a.env_delay = b.env_delay
  BY SMT DEF Twin, Mmc5SquareOsc
<1>3. clock_envelope(b).frame_delay = e
  BY Zenon, EnvelopeKept DEF Twin
<1>4. clock_envelope(a) = [clock_envelope(b) EXCEPT !.frame_delay = f]
  <2>5. PICK low, v : /\ low = b.control.low
                      /\ v = IF b.envelope # 0 THEN b.envelope - 1
                             ELSE IF b.control.halt THEN envelope_top ELSE 0
    OBVIOUS
  <2>6. /\ low = a.control.low
        /\ v = IF a.envelope # 0 THEN a.envelope - 1
               ELSE IF a.control.halt THEN envelope_top ELSE 0
    BY Zenon, <1>1, <2>5
  <2>7. a = [b EXCEPT !.frame_delay = f]
    BY Zenon DEF Twin
  <2>1. CASE b.written3
    <3>1. /\ clock_envelope(b)
               = [b EXCEPT !.written3 = FALSE, !.env_delay = low, !.envelope = envelope_top]
          /\ clock_envelope(a)
               = [a EXCEPT !.written3 = FALSE, !.env_delay = low, !.envelope = envelope_top]
      BY Zenon, <1>2, <2>1, <2>5, <2>6 DEF clock_envelope
    <3> QED
      BY Zenon, <2>7, <3>1
  <2>2. CASE ~b.written3 /\ b.env_delay > 0
    BY Zenon, <1>1, <1>2, <2>2 DEF Twin, clock_envelope
  <2>3. CASE ~b.written3 /\ ~(b.env_delay > 0)
    <3>1. /\ clock_envelope(b) = [b EXCEPT !.env_delay = low, !.envelope = v]
          /\ clock_envelope(a) = [a EXCEPT !.env_delay = low, !.envelope = v]
      BY Zenon, <1>2, <2>3, <2>5, <2>6 DEF clock_envelope
    <3> QED
      BY Zenon, <2>7, <3>1
  <2> QED
    BY Zenon, <2>1, <2>2, <2>3
<1> QED
  BY Zenon, <1>3, <1>4 DEF Twin

LEMMA TwinClocked ==
  ASSUME NEW a \in Mmc5SquareOsc, NEW b \in Mmc5SquareOsc, NEW f, NEW e, Twin(a, b, f, e)
  PROVE  Twin(clock_envelope(clock_length(a)), clock_envelope(clock_length(b)), f, e)
<1>1. clock_length(a) \in Mmc5SquareOsc /\ clock_length(b) \in Mmc5SquareOsc
  BY Zenon, LengthKept
<1>2. PICK x \in Mmc5SquareOsc, y \in Mmc5SquareOsc : x = clock_length(a) /\ y = clock_length(b)
  BY Zenon, <1>1
<1>3. Twin(x, y, f, e)
  BY Zenon, <1>2, TwinLength
<1> QED
  BY Zenon, <1>2, <1>3, TwinEnvelope

-----------------------------------------------------------------------------
(* Until the cut: the same, of a longer buffer.                            *)
Padded(s, r, f, m, n) ==
  /\ s.osc = r.osc /\ s.at = r.at /\ r.osc.frame_delay = f
  /\ s.deltas = Glued(r.deltas, Silence(n), m, n)

(* From the cut on: a twin that plays on what the first part has left.     *)
CarriesOn(s, r, first, f, e, m, n) ==
  /\ Twin(s.osc, r.osc, f, e) /\ s.at = m + r.at
  /\ s.deltas = Glued(first, r.deltas, m, n)

Agree(x, y) == x.osc = y.osc /\ x.at = y.at /\ x.deltas = y.deltas

LEMMA SquareDeltas ==
  ASSUME NEW o \in Mmc5SquareOsc, NEW n \in Nat
  PROVE  RunSquare(o, n).deltas \in Deltas(n)
BY Zenon, PulseRun DEF PulseRan, Pulse

LEMMA SquareRunOf ==
  ASSUME NEW o \in Mmc5SquareOsc, NEW n \in Nat
  PROVE  RunSquare(o, n).osc \in Mmc5SquareOsc
<1>1. PICK x : x = RunSquare(o, n).osc
  OBVIOUS
<1>2. x \in Pulse /\ PulsePut(x, o, PulsePhase(o, n), x.last_amp, PulseDelay(o, n))
  BY Zenon, <1>1, PulseKeeps DEF Pulse, PulseKept
<1>3. x.kind = o.kind
  <2>1. o \in Pulse
    BY Zenon DEF Pulse
  <2>2. SamePulse(o, x)
    BY Zenon, <1>2, <2>1, PulsePutIs
  <2> QED
    BY Zenon, <2>2 DEF SamePulse
<1>4. x \notin SquareOsc
  BY SMT, <1>3 DEF SquareOsc, Mmc5SquareOsc, squares
<1> QED
  BY Zenon, <1>1, <1>2, <1>4 DEF Pulse

LEMMA PaddedRun ==
  ASSUME NEW m \in Nat, NEW n \in Nat, NEW period, NEW s, NEW r \in Reached(m, period), NEW f,
         Padded(s, r, f, m, n), NEW t \in Nat, r.at <= t, t <= m
  PROVE  Padded(RunTo(s, t), RunTo(r, t), f, m, n)
<1>1. r.osc \in Mmc5SquareOsc /\ r.at \in Nat /\ r.deltas \in Deltas(m)
  BY Zenon, ReachedFields
<1>2. s.osc = r.osc /\ s.at = r.at /\ s.deltas = Glued(r.deltas, Silence(n), m, n)
  BY Zenon DEF Padded
<1>3. PICK l \in Nat : l = t - r.at
  BY SMT, <1>1
<1>4. PICK run : run = RunSquare(r.osc, l)
  OBVIOUS
<1>5. /\ RunTo(r, t).osc = run.osc /\ RunTo(r, t).at = t
      /\ RunTo(r, t).deltas = Overlaid(r.deltas, run.deltas, r.at, t)
  BY SMT, <1>3, <1>4, RunToIs
<1>6. /\ RunTo(s, t).osc = run.osc /\ RunTo(s, t).at = t
      /\ RunTo(s, t).deltas = Overlaid(s.deltas, run.deltas, r.at, t)
  BY SMT, <1>2, <1>3, <1>4, RunToIs
<1>7. run.deltas \in Deltas(t - r.at) /\ Silence(n) \in Deltas(n)
  BY Zenon, <1>1, <1>3, <1>4, SquareDeltas, SilentSum
<1>8. Overlaid(Glued(r.deltas, Silence(n), m, n), run.deltas, r.at, t)
        = Glued(Overlaid(r.deltas, run.deltas, r.at, t), Silence(n), m, n)
  BY SMT, <1>1, <1>7, OverlaidFirst
<1>9. run.osc.frame_delay = f
  BY Zenon, <1>1, <1>3, <1>4, FrameKept DEF Padded
<1> QED
  BY Zenon, <1>2, <1>5, <1>6, <1>8, <1>9 DEF Padded

LEMMA ClockedFrame ==
  ASSUME NEW o \in Mmc5SquareOsc
  PROVE  clock_envelope(clock_length(o)).frame_delay = o.frame_delay
<1>1. PICK x \in Mmc5SquareOsc : x = clock_length(o) /\ x.frame_delay = o.frame_delay
  BY Zenon, LengthKept
<1> QED
  BY Zenon, <1>1, EnvelopeKept

LEMMA PaddedEvent ==
  ASSUME NEW m \in Nat, NEW n \in Nat, NEW period \in Nat, NEW s, NEW r \in Reached(m, period),
         NEW f, Padded(s, r, f, m, n), NEW t \in Nat, r.at <= t, t <= m
  PROVE  Padded(Mmc5Event(s, t), Mmc5Event(r, t), f, m, n)
<1>1. PICK x, y : x = RunTo(s, t) /\ y = RunTo(r, t)
  OBVIOUS
<1>2. Padded(x, y, f, m, n)
  BY Zenon, <1>1, PaddedRun
<1>3. y.osc \in Mmc5SquareOsc
  BY Zenon, <1>1, RunsTo, ReachedFields
<1>4. clock_envelope(clock_length(y.osc)).frame_delay = f
  BY Zenon, <1>2, <1>3, ClockedFrame DEF Padded
<1>5. /\ Mmc5Event(s, t).osc = clock_envelope(clock_length(x.osc)) /\ Mmc5Event(s, t).at = x.at
      /\ Mmc5Event(s, t).deltas = x.deltas
      /\ Mmc5Event(r, t).osc = clock_envelope(clock_length(y.osc)) /\ Mmc5Event(r, t).at = y.at
      /\ Mmc5Event(r, t).deltas = y.deltas
  BY Zenon, <1>1, EventIs
<1> QED
  BY Zenon, <1>2, <1>4, <1>5 DEF Padded

LEMMA FollowsRun ==
  ASSUME NEW m \in Nat, NEW n \in Nat, NEW period, NEW s \in Reached(m + n, period),
         NEW other, NEW r \in Reached(n, other), NEW first \in Deltas(m), NEW f, NEW e,
         CarriesOn(s, r, first, f, e, m, n), NEW t \in Nat, r.at <= t, t <= n
  PROVE  CarriesOn(RunTo(s, m + t), RunTo(r, t), first, f, e, m, n)
<1>1. r.osc \in Mmc5SquareOsc /\ r.at \in Nat /\ r.deltas \in Deltas(n)
  BY Zenon, ReachedFields
<1>2. s.osc \in Mmc5SquareOsc
  BY Zenon, ReachedFields
<1>3. Twin(s.osc, r.osc, f, e) /\ s.at = m + r.at /\ s.deltas = Glued(first, r.deltas, m, n)
  BY Zenon DEF CarriesOn
<1>4. PICK l \in Nat : l = t - r.at
  BY SMT, <1>1
<1>5. l = (m + t) - s.at
  BY SMT, <1>1, <1>3, <1>4
<1>6. PICK run, twin : run = RunSquare(r.osc, l) /\ twin = RunSquare(s.osc, l)
  OBVIOUS
<1>7. /\ RunTo(r, t).osc = run.osc /\ RunTo(r, t).at = t
      /\ RunTo(r, t).deltas = Overlaid(r.deltas, run.deltas, r.at, t)
  BY SMT, <1>4, <1>6, RunToIs
<1>8. /\ RunTo(s, m + t).osc = twin.osc /\ RunTo(s, m + t).at = m + t
      /\ RunTo(s, m + t).deltas = Overlaid(s.deltas, twin.deltas, m + r.at, m + t)
  BY SMT, <1>3, <1>5, <1>6, RunToIs
<1>9. Twin(twin.osc, run.osc, f, e) /\ twin.deltas = run.deltas
  BY SMT, <1>1, <1>2, <1>3, <1>4, <1>6, TwinRun
<1>10. run.deltas \in Deltas(t - r.at)
  BY Zenon, <1>1, <1>4, <1>6, SquareDeltas
<1>11. Overlaid(Glued(first, r.deltas, m, n), run.deltas, m + r.at, m + t)
        = Glued(first, Overlaid(r.deltas, run.deltas, r.at, t), m, n)
  BY SMT, <1>1, <1>10, OverlaidSecond
<1> QED
  BY Zenon, <1>3, <1>7, <1>8, <1>9, <1>11 DEF CarriesOn

LEMMA FollowsEvent ==
  ASSUME NEW m \in Nat, NEW n \in Nat, NEW period \in Nat, NEW s \in Reached(m + n, period),
         NEW other \in Nat, NEW r \in Reached(n, other), NEW first \in Deltas(m), NEW f, NEW e,
         CarriesOn(s, r, first, f, e, m, n), NEW t \in Nat, r.at <= t, t <= n
  PROVE  CarriesOn(Mmc5Event(s, m + t), Mmc5Event(r, t), first, f, e, m, n)
<1>1. PICK x, y : x = RunTo(s, m + t) /\ y = RunTo(r, t)
  OBVIOUS
<1>2. CarriesOn(x, y, first, f, e, m, n)
  BY Zenon, <1>1, FollowsRun
<1>3. m + n \in Nat /\ m + t \in Nat /\ s.at <= m + t
  <2>1. r.at \in Nat /\ s.at = m + r.at
    BY Zenon, ReachedFields DEF CarriesOn
  <2> QED
    BY SMT, <2>1
<1>4. y.osc \in Mmc5SquareOsc
  BY Zenon, <1>1, RunsTo, ReachedFields
<1>5. x.osc \in Mmc5SquareOsc
  BY Zenon, <1>1, <1>3, RunsTo, ReachedFields
<1>6. Twin(clock_envelope(clock_length(x.osc)), clock_envelope(clock_length(y.osc)), f, e)
  BY Zenon, <1>2, <1>4, <1>5, TwinClocked DEF CarriesOn
<1>7. /\ Mmc5Event(s, m + t).osc = clock_envelope(clock_length(x.osc))
      /\ Mmc5Event(s, m + t).at = x.at /\ Mmc5Event(s, m + t).deltas = x.deltas
      /\ Mmc5Event(r, t).osc = clock_envelope(clock_length(y.osc)) /\ Mmc5Event(r, t).at = y.at
      /\ Mmc5Event(r, t).deltas = y.deltas
  BY Zenon, <1>1, EventIs
<1> QED
  BY Zenon, <1>2, <1>6, <1>7 DEF CarriesOn

(* Two runs in a row are one.                                              *)
LEMMA RunToTwice ==
  ASSUME NEW l \in Nat, NEW period, NEW s \in Reached(l, period), NEW m \in Nat, NEW t \in Nat,
         s.at <= m, m <= t, t <= l
  PROVE  /\ Agree(RunTo(RunTo(s, m), t), RunTo(s, t))
         /\ Agree(Mmc5Event(RunTo(s, m), t), Mmc5Event(s, t))
<1>1. s.osc \in Mmc5SquareOsc /\ s.at \in Nat /\ s.deltas \in Deltas(l)
  BY Zenon, ReachedFields
<1>2. PICK a \in Nat, b \in Nat : a = m - s.at /\ b = t - m
  BY SMT, <1>1
<1>3. a + b = t - s.at
  BY SMT, <1>1, <1>2
<1>4. PICK one, two, all, mid :
        /\ one = RunSquare(s.osc, a) /\ two = RunSquare(one.osc, b) /\ all = RunSquare(s.osc, a + b)
        /\ mid = RunTo(s, m)
  OBVIOUS
<1>5. two.osc = all.osc /\ all.deltas = Glued(one.deltas, two.deltas, a, b)
  <2>1. s.osc \in Pulse
    BY Zenon, <1>1 DEF Pulse
  <2>2. Parted(one, two, all, a, b)
    BY Zenon, <1>4, <2>1, SquareCut
  <2> QED
    BY Zenon, <2>2 DEF Parted
<1>6. /\ mid.osc = one.osc /\ mid.at = m
      /\ mid.deltas = Overlaid(s.deltas, one.deltas, s.at, m)
  BY SMT, <1>2, <1>4, RunToIs
<1>7. /\ RunTo(mid, t).osc = two.osc /\ RunTo(mid, t).at = t
      /\ RunTo(mid, t).deltas = Overlaid(mid.deltas, two.deltas, m, t)
  BY SMT, <1>2, <1>4, <1>6, RunToIs
<1>8. /\ RunTo(s, t).osc = all.osc /\ RunTo(s, t).at = t
      /\ RunTo(s, t).deltas = Overlaid(s.deltas, all.deltas, s.at, t)
  BY SMT, <1>3, <1>4, RunToIs
<1>9. one.osc \in Mmc5SquareOsc
  BY Zenon, <1>1, <1>2, <1>4, SquareRunOf
<1>10. one.deltas \in Deltas(m - s.at) /\ two.deltas \in Deltas(t - m)
  BY Zenon, <1>1, <1>2, <1>4, <1>9, SquareDeltas
<1>11. Overlaid(Overlaid(s.deltas, one.deltas, s.at, m), two.deltas, m, t)
         = Overlaid(s.deltas, Glued(one.deltas, two.deltas, m - s.at, t - m), s.at, t)
  BY SMT, <1>1, <1>10, OverlaidTwice
<1>12. Agree(RunTo(mid, t), RunTo(s, t))
  BY Zenon, <1>2, <1>5, <1>6, <1>7, <1>8, <1>11 DEF Agree
<1>13. Agree(Mmc5Event(mid, t), Mmc5Event(s, t))
  BY Zenon, <1>12, EventIs DEF Agree
<1> QED
  BY Zenon, <1>4, <1>12, <1>13

LEMMA FollowsAgree ==
  ASSUME NEW x, NEW y, Agree(x, y), NEW r, NEW first, NEW f, NEW e, NEW m, NEW n,
         CarriesOn(x, r, first, f, e, m, n)
  PROVE  CarriesOn(y, r, first, f, e, m, n)
BY Zenon DEF Agree, CarriesOn

-----------------------------------------------------------------------------
(* The events of the parts are those of the whole.                         *)
CutAt(f, p, m, n, e, b, c) ==
  /\ e = DelayAfter(f, p, m) /\ b = Count(f, p, m) /\ c = Count(e, p, n)
  /\ Count(f, p, m + n) = b + c
  /\ DelayAfter(e, p, n) = DelayAfter(f, p, m + n)
  /\ \A k \in Nat : f + (b + k - 1) * p = m + (e + (k - 1) * p)

LEMMA EventsCut ==
  ASSUME NEW o \in Mmc5SquareOsc, NEW x \in Mmc5SquareOsc, NEW m \in Nat, NEW n \in Nat,
         x.frame_delay = DelayAfter(o.frame_delay, mmc5_frame_period, m)
  PROVE  /\ Mmc5Events(o, m + n) = Mmc5Events(o, m) + Mmc5Events(x, n)
         /\ DelayAfter(x.frame_delay, mmc5_frame_period, n)
              = DelayAfter(o.frame_delay, mmc5_frame_period, m + n)
         /\ \A k \in Nat \ {0} : Mmc5At(o, Mmc5Events(o, m) + k) = m + Mmc5At(x, k)
<1>1. PICK f \in Nat, p \in Nat \ {0} : f = o.frame_delay /\ p = mmc5_frame_period
  BY SMT, Mmc5Assumption DEF Mmc5Assumption, Mmc5SquareOsc
<1> DEFINE E == DelayAfter(f, p, m)
           B == Count(f, p, m)
           C == Count(E, p, n)
<1>2. E \in Nat /\ B \in Nat /\ C \in Nat /\ CutAt(f, p, m, n, E, B, C)
  <2>1. /\ E \in Nat /\ B \in Nat /\ C \in Nat
        /\ Count(f, p, m + n) = B + C
        /\ DelayAfter(E, p, n) = DelayAfter(f, p, m + n)
        /\ \A k \in Nat : f + (B + k - 1) * p = m + (E + (k - 1) * p)
    BY Zenon, CutCounts
  <2>2. E = DelayAfter(f, p, m) /\ B = Count(f, p, m) /\ C = Count(E, p, n)
    OBVIOUS
  <2> HIDE DEF E, B, C
  <2> QED
    BY Zenon, <2>1, <2>2 DEF CutAt
<1> HIDE DEF E, B, C
<1>3. PICK e \in Nat, b \in Nat, c \in Nat : CutAt(f, p, m, n, e, b, c)
  BY Zenon, <1>2
<1>4. /\ e = DelayAfter(f, p, m) /\ b = Count(f, p, m) /\ c = Count(e, p, n)
      /\ Count(f, p, m + n) = b + c
      /\ DelayAfter(e, p, n) = DelayAfter(f, p, m + n)
      /\ \A k \in Nat : f + (b + k - 1) * p = m + (e + (k - 1) * p)
  BY Zenon, <1>3 DEF CutAt
<1>5. /\ Mmc5Events(o, m) = b /\ Mmc5Events(x, n) = c /\ Mmc5Events(o, m + n) = b + c
      /\ x.frame_delay = e
  BY Zenon, <1>1, <1>4 DEF Mmc5Events
<1>6. ASSUME NEW k \in Nat \ {0} PROVE Mmc5At(o, b + k) = m + Mmc5At(x, k)
  <2>1. b + k # 0 /\ k # 0 /\ k \in Nat /\ b + k - 1 = (b + k) - 1
    BY SMT
  <2>2. Mmc5At(o, b + k) = f + ((b + k) - 1) * p /\ Mmc5At(x, k) = e + (k - 1) * p
    BY Zenon, <1>1, <1>5, <2>1 DEF Mmc5At
  <2> QED
    BY Zenon, <1>4, <2>1, <2>2
<1> QED
  BY Zenon, <1>1, <1>4, <1>5, <1>6

LEMMA FrameSet ==
  ASSUME NEW o \in Mmc5SquareOsc, NEW e, NEW x, x = [o EXCEPT !.frame_delay = e]
  PROVE  Twin(o, x, o.frame_delay, e)
<1>1. x.frame_delay = e
  BY SMT DEF Mmc5SquareOsc
<1>2. o = [o EXCEPT !.frame_delay = o.frame_delay]
  BY SMT DEF Mmc5SquareOsc
<1>3. \A f : [x EXCEPT !.frame_delay = f] = [o EXCEPT !.frame_delay = f]
  BY Zenon
<1> QED
  BY Zenon, <1>1, <1>2, <1>3 DEF Twin

LEMMA EndIs ==
  ASSUME NEW s, NEW n, NEW run, run = Mmc5RunEnd(s, n)
  PROVE  /\ run.osc = [s.osc EXCEPT !.frame_delay
                                      = DelayAfter(s.osc.frame_delay, mmc5_frame_period, n)]
         /\ run.deltas = s.deltas
BY Zenon DEF Mmc5RunEnd

(* The first part, beside the whole until it ends.                         *)
LEMMA FirstPart ==
  ASSUME NEW o \in Mmc5SquareOsc, NEW m \in Nat \ {0}, NEW n \in Nat,
         NEW g, Mmc5Trace(o, m + n, g), NEW h, Mmc5Trace(o, m, h),
         NEW b, b = Mmc5Events(o, m), b <= Mmc5Events(o, m + n)
  PROVE  Padded(RunTo(g[b], m), RunTo(h[b], m), o.frame_delay, m, n)
<1> DEFINE S == {k \in 0 .. b : Padded(g[k], h[k], o.frame_delay, m, n)}
<1>1. m \in Nat /\ o.period \in Nat /\ m + n \in Nat
  BY SMT DEF Mmc5SquareOsc
<1>2. /\ b \in Nat
      /\ \A k \in 0 .. b : Mmc5At(o, k) \in Nat /\ Mmc5At(o, k) <= m
      /\ \A k \in 1 .. b : Mmc5At(o, k - 1) <= Mmc5At(o, k)
  BY Zenon, <1>1, EventTimes
<1>3. /\ h[0].osc = o /\ h[0].at = 0 /\ h[0].deltas = Silence(m)
      /\ \A k \in 1 .. b : h[k] = Mmc5Event(h[k - 1], Mmc5At(o, k))
  BY Zenon DEF Mmc5Trace
<1>4. /\ g[0].osc = o /\ g[0].at = 0 /\ g[0].deltas = Silence(m + n)
      /\ \A k \in 1 .. Mmc5Events(o, m + n) : g[k] = Mmc5Event(g[k - 1], Mmc5At(o, k))
  BY Zenon DEF Mmc5Trace
<1>5. \A k \in 0 .. b : h[k] \in Reached(m, o.period) /\ h[k].at = Mmc5At(o, k)
  BY Zenon, Mmc5Reached
<1>6. Mmc5Events(o, m + n) \in Nat
  BY Zenon, <1>1, EventTimes
<1>7. 0 \in S
  <2>1. Padded(g[0], h[0], o.frame_delay, m, n)
    BY Zenon, <1>1, <1>3, <1>4, GluedSilence DEF Padded
  <2> QED
    BY Zenon, <1>2, <2>1, Indices
<1>8. ASSUME NEW k \in 1 .. b, k - 1 \in S PROVE k \in S
  <2>1. k \in 0 .. b /\ k - 1 \in 0 .. b
    BY Zenon, <1>2, Indices
  <2>2. k \in 1 .. Mmc5Events(o, m + n)
    BY SMT, <1>2, <1>6
  <2>3. h[k - 1] \in Reached(m, o.period) /\ h[k - 1].at <= Mmc5At(o, k)
    BY Zenon, <1>2, <1>5, <2>1
  <2>4. Padded(Mmc5Event(g[k - 1], Mmc5At(o, k)), Mmc5Event(h[k - 1], Mmc5At(o, k)),
               o.frame_delay, m, n)
    BY Zenon, <1>1, <1>2, <1>8, <2>1, <2>3, PaddedEvent
  <2> QED
    <3>1. g[k] = Mmc5Event(g[k - 1], Mmc5At(o, k)) /\ h[k] = Mmc5Event(h[k - 1], Mmc5At(o, k))
      BY Zenon, <1>3, <1>4, <1>8, <2>2
    <3> QED
      BY Zenon, <2>1, <2>4, <3>1
<1> HIDE DEF S
<1>13. 0 .. b \subseteq S
  BY Zenon, <1>2, <1>7, <1>8, Along
<1>9. b \in S
  BY Zenon, <1>2, <1>13, Indices
<1>10. Padded(g[b], h[b], o.frame_delay, m, n)
  BY Zenon, <1>9 DEF S
<1>11. h[b] \in Reached(m, o.period) /\ h[b].at <= m
  BY Zenon, <1>2, <1>5, Indices
<1>12. m <= m
  BY SMT
<1> QED
  BY Zenon, <1>1, <1>10, <1>11, <1>12, PaddedRun

(* The whole, from the cut on, as it would go on if it were cut there.     *)
Afresh(g, b, m, k) == IF k = 0 THEN RunTo(g[b], m) ELSE g[b + k]

LEMMA AfreshIs ==
  ASSUME NEW o \in Mmc5SquareOsc, NEW x \in Mmc5SquareOsc, NEW m \in Nat \ {0}, NEW n \in Nat,
         x.frame_delay = DelayAfter(o.frame_delay, mmc5_frame_period, m),
         NEW g, Mmc5Trace(o, m + n, g),
         NEW b, b = Mmc5Events(o, m), NEW c, c = Mmc5Events(x, n), NEW k \in 0 .. c
  PROVE  /\ Afresh(g, b, m, k) \in Reached(m + n, o.period)
         /\ \A t \in m .. m + n :
              /\ Agree(RunTo(Afresh(g, b, m, k), t), RunTo(g[b + k], t))
              /\ Agree(Mmc5Event(Afresh(g, b, m, k), t), Mmc5Event(g[b + k], t))
<1>1. m \in Nat /\ o.period \in Nat /\ m + n \in Nat /\ m + n \in Nat \ {0}
  BY SMT DEF Mmc5SquareOsc
<1>2. b \in Nat /\ c \in Nat /\ Mmc5Events(o, m + n) = b + c
  <2>1. b \in Nat
    BY Zenon, <1>1, EventTimes
  <2>2. c \in Nat
    BY Zenon, <1>1, EventTimes
  <2>3. Mmc5Events(o, m + n) = Mmc5Events(o, m) + Mmc5Events(x, n)
    BY SMT, <1>1, EventsCut
  <2> QED
    BY Zenon, <2>1, <2>2, <2>3
<1>3. b \in 0 .. b + c /\ b + k \in 0 .. b + c
  BY SMT, <1>2
<1>4. \A j \in 0 .. b + c : g[j] \in Reached(m + n, o.period) /\ g[j].at = Mmc5At(o, j)
  <2>1. \A j \in 0 .. Mmc5Events(o, m + n) :
          g[j] \in Reached(m + n, o.period) /\ g[j].at = Mmc5At(o, j)
    BY Zenon, <1>1, Mmc5Reached
  <2> QED
    BY Zenon, <1>2, <2>1
<1>5. CASE k = 0
  <2>1. Mmc5At(o, b) <= m
    <3>1. b \in 0 .. b
      BY Zenon, <1>2, Indices
    <3> QED
      BY Zenon, <1>1, <3>1, EventTimes
  <2>2. g[b] \in Reached(m + n, o.period) /\ g[b].at <= m
    BY Zenon, <1>3, <1>4, <2>1
  <2>3. Afresh(g, b, m, k) = RunTo(g[b], m)
    BY Zenon, <1>5 DEF Afresh
  <2>4. RunTo(g[b], m) \in Reached(m + n, o.period)
    BY Zenon, <1>1, <2>2, RunsTo
  <2>5. b + k = b
    BY SMT, <1>2, <1>5
  <2>6. ASSUME NEW t \in m .. m + n
        PROVE  /\ Agree(RunTo(RunTo(g[b], m), t), RunTo(g[b], t))
               /\ Agree(Mmc5Event(RunTo(g[b], m), t), Mmc5Event(g[b], t))
    <3>1. t \in Nat /\ m <= t /\ t <= m + n
      BY SMT, <1>1
    <3> QED
      BY Zenon, <1>1, <2>2, <3>1, RunToTwice
  <2> QED
    BY Zenon, <2>3, <2>4, <2>5, <2>6
<1>6. CASE k # 0
  <2>1. Afresh(g, b, m, k) = g[b + k]
    BY Zenon, <1>6 DEF Afresh
  <2>2. \A s : Agree(s, s)
    BY Zenon DEF Agree
  <2> QED
    BY Zenon, <1>3, <1>4, <2>1, <2>2
<1> QED
  BY Zenon, <1>5, <1>6

LEMMA SecondPart ==
  ASSUME NEW o \in Mmc5SquareOsc, NEW x \in Mmc5SquareOsc, NEW m \in Nat \ {0},
         NEW n \in Nat \ {0},
         x.frame_delay = DelayAfter(o.frame_delay, mmc5_frame_period, m),
         NEW g, Mmc5Trace(o, m + n, g), NEW h, Mmc5Trace(x, n, h),
         NEW b, b = Mmc5Events(o, m), NEW c, c = Mmc5Events(x, n), NEW first \in Deltas(m),
         NEW f, NEW e, CarriesOn(RunTo(g[b], m), h[0], first, f, e, m, n)
  PROVE  CarriesOn(RunTo(g[b + c], m + n), RunTo(h[c], n), first, f, e, m, n)
<1> DEFINE S == {k \in 0 .. c : CarriesOn(Afresh(g, b, m, k), h[k], first, f, e, m, n)}
<1>1. /\ m \in Nat /\ n \in Nat /\ o.period \in Nat /\ x.period \in Nat /\ m + n \in Nat
      /\ n <= n
  BY SMT DEF Mmc5SquareOsc
<1>2. b \in Nat /\ c \in Nat /\ Mmc5Events(o, m + n) = b + c
  <2>1. b \in Nat
    BY Zenon, <1>1, EventTimes
  <2>2. c \in Nat
    BY Zenon, <1>1, EventTimes
  <2>3. Mmc5Events(o, m + n) = Mmc5Events(o, m) + Mmc5Events(x, n)
    BY SMT, <1>1, EventsCut
  <2> QED
    BY Zenon, <2>1, <2>2, <2>3
<1>3. /\ \A k \in 0 .. c : Mmc5At(x, k) \in Nat /\ Mmc5At(x, k) <= n
      /\ \A k \in 1 .. c : Mmc5At(x, k - 1) <= Mmc5At(x, k)
  BY Zenon, <1>1, EventTimes
<1>4. /\ \A k \in 1 .. c : h[k] = Mmc5Event(h[k - 1], Mmc5At(x, k))
      /\ \A k \in 1 .. b + c : g[k] = Mmc5Event(g[k - 1], Mmc5At(o, k))
  BY Zenon, <1>2 DEF Mmc5Trace
<1>5. \A k \in 0 .. c : h[k] \in Reached(n, x.period) /\ h[k].at = Mmc5At(x, k)
  BY Zenon, Mmc5Reached
<1>6. ASSUME NEW k \in 0 .. c
      PROVE  /\ Afresh(g, b, m, k) \in Reached(m + n, o.period)
             /\ \A t \in m .. m + n :
                  /\ Agree(RunTo(Afresh(g, b, m, k), t), RunTo(g[b + k], t))
                  /\ Agree(Mmc5Event(Afresh(g, b, m, k), t), Mmc5Event(g[b + k], t))
  BY Zenon, <1>1, AfreshIs
<1>7. 0 \in S
  <2>1. Afresh(g, b, m, 0) = RunTo(g[b], m)
    BY Zenon DEF Afresh
  <2> QED
    BY Zenon, <1>2, <2>1, Indices
<1>8. ASSUME NEW k \in 1 .. c, k - 1 \in S PROVE k \in S
  <2>1. k \in 0 .. c /\ k - 1 \in 0 .. c /\ k # 0
    BY Zenon, <1>2, Indices
  <2>2. PICK t \in Nat, j \in 0 .. c : t = Mmc5At(x, k) /\ j = k - 1
    BY Zenon, <1>3, <2>1
  <2>3. PICK s, r : s = Afresh(g, b, m, j) /\ r = h[j]
    OBVIOUS
  <2>4. s \in Reached(m + n, o.period) /\ r \in Reached(n, x.period) /\ r.at <= t /\ t <= n
    BY Zenon, <1>3, <1>5, <1>6, <2>1, <2>2, <2>3
  <2>5. CarriesOn(s, r, first, f, e, m, n)
    BY Zenon, <1>8, <2>2, <2>3
  <2>6. CarriesOn(Mmc5Event(s, m + t), Mmc5Event(r, t), first, f, e, m, n)
    BY Zenon, <1>1, <2>4, <2>5, FollowsEvent
  <2>7. m + t \in m .. m + n
    BY SMT, <1>1, <2>4
  <2>8. Agree(Mmc5Event(s, m + t), Mmc5Event(g[b + j], m + t))
    BY Zenon, <1>6, <2>1, <2>2, <2>3, <2>7
  <2>9. /\ b + k \in 1 .. b + c /\ (b + k) - 1 = b + j /\ k \in Nat \ {0}
    BY SMT, <1>2, <2>2
  <2>10. Mmc5At(o, b + k) = m + t
    <3>1. Mmc5At(o, Mmc5Events(o, m) + k) = m + Mmc5At(x, k)
      BY SMT, <1>1, <2>9, EventsCut
    <3> QED
      BY Zenon, <2>2, <3>1
  <2>11. g[b + k] = Mmc5Event(g[b + j], m + t) /\ h[k] = Mmc5Event(r, t)
    <3>1. g[b + k] = Mmc5Event(g[(b + k) - 1], Mmc5At(o, b + k))
      BY Zenon, <1>4, <2>9
    <3>2. h[k] = Mmc5Event(h[k - 1], Mmc5At(x, k))
      BY Zenon, <1>4
    <3> QED
      BY Zenon, <2>2, <2>3, <2>9, <2>10, <3>1, <3>2
  <2>12. CarriesOn(g[b + k], h[k], first, f, e, m, n)
    <3>1. CarriesOn(Mmc5Event(g[b + j], m + t), Mmc5Event(r, t), first, f, e, m, n)
      BY SMTT(30), <2>6, <2>8, FollowsAgree
    <3> QED
      BY Zenon, <2>11, <3>1
  <2>13. Afresh(g, b, m, k) = g[b + k]
    BY Zenon, <2>1 DEF Afresh
  <2> QED
    BY Zenon, <2>1, <2>12, <2>13
<1>9. 0 .. c \subseteq S
  <2> HIDE DEF S
  <2> QED
    BY Zenon, <1>2, <1>7, <1>8, Along
<1>10. c \in 0 .. c
  BY Zenon, <1>2, Indices
<1>11. CarriesOn(Afresh(g, b, m, c), h[c], first, f, e, m, n)
  BY Zenon, <1>9, <1>10
<1>12. h[c] \in Reached(n, x.period) /\ h[c].at <= n
  BY Zenon, <1>3, <1>5, <1>10
<1>13. CarriesOn(RunTo(Afresh(g, b, m, c), m + n), RunTo(h[c], n), first, f, e, m, n)
  BY Zenon, <1>1, <1>6, <1>10, <1>11, <1>12, FollowsRun
<1>14. m + n \in m .. m + n
  BY SMT, <1>1
<1>15. Agree(RunTo(Afresh(g, b, m, c), m + n), RunTo(g[b + c], m + n))
  BY Zenon, <1>6, <1>10, <1>14
<1> QED
  BY SMTT(30), <1>13, <1>15, FollowsAgree

LEMMA GluedNothing ==
  ASSUME NEW m \in Nat, NEW a \in Deltas(m)
  PROVE  Glued(a, Silence(0), m, 0) = a
<1>1. \A t \in 0 .. m : a[t] \in Int
  BY Zenon DEF Deltas
<1>2. ASSUME NEW t \in 0 .. m
      PROVE  (IF t <= m THEN a[t] ELSE 0) + (IF t >= m THEN Silence(0)[t - m] ELSE 0) = a[t]
  <2>1. t >= m => Silence(0)[t - m] = 0
    BY SMT DEF Silence
  <2> QED
    BY SMT, <1>1, <2>1
<1>3. m + 0 = m
  BY SMT
<1>4. Glued(a, Silence(0), m, 0) = [t \in 0 .. m |-> a[t]]
  BY Zenon, <1>2, <1>3 DEF Glued
<1> QED
  BY Zenon, <1>4 DEF Deltas

LEMMA Mmc5SquareCut ==
  ASSUME NEW o \in Mmc5SquareOsc, NEW m \in Nat \ {0}, NEW n \in Nat,
         NEW one, one = RunMmc5Square(o, m), NEW two, two = RunMmc5Square(one.osc, n),
         NEW all, all = RunMmc5Square(o, m + n)
  PROVE  Parted(one, two, all, m, n)
<1>1. PICK x, b, f, e : /\ x = one.osc /\ b = Mmc5Events(o, m) /\ f = o.frame_delay
                        /\ e = DelayAfter(o.frame_delay, mmc5_frame_period, m)
  OBVIOUS
<1>2. x \in Mmc5SquareOsc /\ m \in Nat /\ o.period \in Nat
  <2>1. m \in Nat /\ o.period \in Nat
    BY SMT DEF Mmc5SquareOsc
  <2> QED
    BY Zenon, <1>1, <2>1, Mmc5SquareRun
<1>3. PICK h : Mmc5Trace(o, m, h)
  BY Zenon, Mmc5Cut
<1>4. PICK r : r = RunTo(h[b], m)
  OBVIOUS
<1>5. one = Mmc5RunEnd(r, m)
  BY Zenon, <1>1, <1>3, <1>4 DEF Mmc5Trace
<1>6. /\ one.osc = [r.osc EXCEPT !.frame_delay
                                 = DelayAfter(r.osc.frame_delay, mmc5_frame_period, m)]
      /\ one.deltas = r.deltas
  BY SMT, <1>5, EndIs
<1>7. r.osc \in Mmc5SquareOsc /\ r.deltas \in Deltas(m) /\ b \in Nat /\ r.at = m
  <2>1. b \in Nat /\ Mmc5At(o, b) <= m
    <3>1. b \in Nat
      BY Zenon, <1>1, <1>2, EventTimes
    <3>2. b \in 0 .. b
      BY Zenon, <3>1, Indices
    <3> QED
      BY Zenon, <1>1, <1>2, <3>1, <3>2, EventTimes
  <2>2. h[b] \in Reached(m, o.period) /\ h[b].at <= m
    <3>1. b \in 0 .. b
      BY Zenon, <2>1, Indices
    <3>2. h[b] \in Reached(m, o.period) /\ h[b].at = Mmc5At(o, b)
      BY Zenon, <1>1, <1>3, <3>1, Mmc5Reached
    <3> QED
      BY Zenon, <2>1, <3>2
  <2>3. r \in Reached(m, o.period) /\ Moves(h[b], m, r)
    BY Zenon, <1>2, <1>4, <2>2, RunsTo
  <2> QED
    BY Zenon, <2>1, <2>3, ReachedFields DEF Moves
<1>8. CASE n = 0
  <2>1. two = Unheard(x, 0)
    BY Zenon, <1>1, <1>8 DEF RunMmc5Square
  <2>2. m + n = m
    BY SMT, <1>2, <1>8
  <2>3. all = one /\ one.deltas \in Deltas(m)
    <3>1. one.deltas = r.deltas
      BY Zenon, <1>6
    <3> QED
      BY Zenon, <1>7, <2>2, <3>1
  <2>4. two.osc = x /\ two.deltas = Silence(0)
    BY ZenonT(30), <2>1, UnheardCut
  <2>5. Glued(one.deltas, Silence(0), m, 0) = one.deltas
    BY Zenon, <1>2, <2>3, GluedNothing
  <2> QED
    BY Zenon, <1>1, <1>8, <2>3, <2>4, <2>5 DEF Parted
<1>9. CASE n # 0
  <2>1. n \in Nat \ {0} /\ m + n \in Nat \ {0}
    BY SMT, <1>2, <1>9
  <2>2. PICK g : Mmc5Trace(o, m + n, g)
    BY Zenon, <2>1, Mmc5Cut
  <2>3. PICK k : Mmc5Trace(x, n, k)
    BY Zenon, <1>2, <2>1, Mmc5Cut
  <2>4. one.osc = [r.osc EXCEPT !.frame_delay
                                 = DelayAfter(r.osc.frame_delay, mmc5_frame_period, m)]
        /\ one.deltas = r.deltas
    BY Zenon, <1>6
  <2>5. PICK c : c = Mmc5Events(x, n)
    OBVIOUS
  <2>6. /\ x.frame_delay = e
           => /\ Mmc5Events(o, m + n) = b + c
              /\ DelayAfter(e, mmc5_frame_period, n) = DelayAfter(f, mmc5_frame_period, m + n)
    <3>1. ASSUME x.frame_delay = DelayAfter(o.frame_delay, mmc5_frame_period, m)
          PROVE  /\ Mmc5Events(o, m + n) = Mmc5Events(o, m) + Mmc5Events(x, n)
                 /\ DelayAfter(x.frame_delay, mmc5_frame_period, n)
                      = DelayAfter(o.frame_delay, mmc5_frame_period, m + n)
      BY SMT, <1>2, <3>1, EventsCut
    <3> QED
      BY Zenon, <1>1, <2>5, <3>1
  <2>7. b <= Mmc5Events(o, m + n)
    <3>1. f \in Nat /\ mmc5_frame_period \in Nat \ {0}
      BY SMT, <1>1, Mmc5Assumption DEF Mmc5Assumption, Mmc5SquareOsc
    <3>2. CutInTime(f, mmc5_frame_period, m, n)
      BY Zenon, <1>2, <3>1, CutTimes
    <3>3. PICK p \in Nat, q \in Nat, u \in Nat :
            /\ p = Count(f, mmc5_frame_period, m) /\ u = Count(f, mmc5_frame_period, m + n)
            /\ u = p + q
      BY Zenon, <3>2 DEF CutInTime
    <3>4. p <= u
      BY SMT, <3>3
    <3> QED
      BY Zenon, <1>1, <3>3, <3>4 DEF Mmc5Events
  <2>8. PICK s : s = RunTo(g[b], m)
    OBVIOUS
  <2>9. Padded(s, r, f, m, n)
    BY Zenon, <1>1, <1>3, <1>4, <2>2, <2>7, <2>8, FirstPart
  <2>10. Twin(r.osc, x, f, e)
    <3>1. r.osc.frame_delay = f
      BY Zenon, <2>9 DEF Padded
    <3>2. x = [r.osc EXCEPT !.frame_delay = e]
      BY Zenon, <1>1, <2>4, <3>1
    <3> QED
      BY Zenon, <1>7, <3>1, <3>2, FrameSet
  <2>11. x.frame_delay = e
    BY Zenon, <2>10 DEF Twin
  <2>12. k[0].osc = x /\ k[0].at = 0 /\ k[0].deltas = Silence(n)
    BY Zenon, <2>3 DEF Mmc5Trace
  <2>13. m = m + 0
    BY SMT, <1>2
  <2>14. CarriesOn(s, k[0], r.deltas, f, e, m, n)
    BY Zenon, <1>7, <2>9, <2>10, <2>12, <2>13 DEF Padded, CarriesOn
  <2>15. PICK p, q : p = RunTo(g[b + c], m + n) /\ q = RunTo(k[c], n)
    OBVIOUS
  <2>16. CarriesOn(p, q, r.deltas, f, e, m, n)
    BY Zenon, <1>1, <1>2, <1>7, <2>1, <2>2, <2>3, <2>5, <2>8, <2>11, <2>14, <2>15, SecondPart
  <2>17. all = Mmc5RunEnd(p, m + n) /\ two = Mmc5RunEnd(q, n)
    BY Zenon, <1>1, <2>2, <2>3, <2>5, <2>6, <2>11, <2>15 DEF Mmc5Trace
  <2>18. PICK d : /\ d = DelayAfter(e, mmc5_frame_period, n)
                  /\ d = DelayAfter(f, mmc5_frame_period, m + n)
    BY Zenon, <2>6, <2>11
  <2>19. q.osc \in Mmc5SquareOsc
    <3>1. /\ c \in Nat /\ Mmc5At(x, c) <= n /\ n \in Nat /\ x.period \in Nat
      <4>1. n \in Nat /\ x.period \in Nat
        BY SMT, <1>2 DEF Mmc5SquareOsc
      <4>2. c \in Nat
        BY Zenon, <1>2, <2>5, <4>1, EventTimes
      <4>3. c \in 0 .. c
        BY Zenon, <4>2, Indices
      <4>4. Mmc5At(x, c) <= n
        BY Zenon, <1>2, <2>5, <4>1, <4>3, EventTimes
      <4> QED
        BY Zenon, <4>1, <4>2, <4>4
    <3>2. k[c] \in Reached(n, x.period) /\ k[c].at <= n
      <4>1. c \in 0 .. c
        BY Zenon, <3>1, Indices
      <4>2. \A j \in 0 .. Mmc5Events(x, n) :
              k[j] \in Reached(n, x.period) /\ k[j].at = Mmc5At(x, j)
        BY Zenon, <1>2, <2>1, <2>3, Mmc5Reached
      <4> QED
        BY Zenon, <2>5, <3>1, <4>1, <4>2
    <3> QED
      BY Zenon, <2>15, <3>1, <3>2, RunsTo, ReachedFields
  <2>20. p.osc = [q.osc EXCEPT !.frame_delay = f] /\ q.osc.frame_delay = e
    BY Zenon, <2>16 DEF CarriesOn, Twin
  <2>21. p.osc.frame_delay = f
    BY SMT, <2>19, <2>20 DEF Mmc5SquareOsc
  <2>22. all.osc = [p.osc EXCEPT !.frame_delay = d] /\ all.deltas = p.deltas
    <3>1. /\ all.osc = [p.osc EXCEPT !.frame_delay
                             = DelayAfter(p.osc.frame_delay, mmc5_frame_period, m + n)]
          /\ all.deltas = p.deltas
      BY SMT, <2>17, EndIs
    <3> QED
      BY Zenon, <2>18, <2>21, <3>1
  <2>23. two.osc = [q.osc EXCEPT !.frame_delay = d] /\ two.deltas = q.deltas
    <3>1. /\ two.osc = [q.osc EXCEPT !.frame_delay
                             = DelayAfter(q.osc.frame_delay, mmc5_frame_period, n)]
          /\ two.deltas = q.deltas
      BY SMT, <2>17, EndIs
    <3> QED
      BY Zenon, <2>18, <2>20, <3>1
  <2>24. all.osc = two.osc
    BY Zenon, <2>20, <2>22, <2>23
  <2> QED
    BY Zenon, <2>4, <2>16, <2>22, <2>23, <2>24 DEF CarriesOn, Parted
<1> QED
  BY Zenon, <1>8, <1>9

-----------------------------------------------------------------------------
(* The FDS channel, whose runs go on by one clock at a time: first the     *)
(* wave, clocked until one clock later.                                    *)

(* As far as the end of a pass, if a clock of the wave is due before.      *)
WaveOnce(o, freq, end, p) == IF p.time > end THEN p ELSE WaveClock(o, freq, p)

WaveTrace(o, freq, first, count, end, g) ==
  g[0] = first /\ \A k \in 1 .. count : g[k] = WaveOnce(o, freq, end, g[k - 1])

LEMMA WaveOnceStays ==
  ASSUME NEW o \in FdsState, NEW freq \in 1 .. fract_range, NEW n \in Nat, NEW end \in 0 .. n,
         NEW p \in WaveLoop(n, freq, end)
  PROVE  WaveOnce(o, freq, end, p) \in WaveLoop(n, freq, end)
<1>1. p.time \in Nat
  BY Zenon DEF WaveLoop, WaveState
<1>2. p.time > end \/ (p.time <= end /\ ~(p.time > end))
  BY SMT, <1>1
<1> QED
  BY Zenon, <1>2, WaveClocks DEF WaveOnce

Spans(count, start, end) == count = end - start

WaveRun(o, freq, n, first, start, count, end, g) ==
  /\ WaveTrace(o, freq, first, count, end, g)
  /\ \A k \in 0 .. count : g[k] \in WaveLoop(n, freq, end)
  /\ WaveClocked(o, freq, first, start, end) = g[count]

LEMMA WaveTraced ==
  ASSUME NEW o \in FdsState, NEW freq \in 1 .. fract_range, NEW n \in Nat, NEW end \in 0 .. n,
         NEW start \in 0 .. end, NEW count, Spans(count, start, end),
         NEW first \in WaveLoop(n, freq, end)
  PROVE  \E g : WaveRun(o, freq, n, first, start, count, end, g)
<1> DEFINE D == WaveLoop(n, freq, end)
           next(p) == WaveOnce(o, freq, end, p)
           step == [x \in D \X (0 .. count) |-> next(x[1])]
           Eq(g) == g = [k \in 0 .. count |-> IF k = 0 THEN first ELSE next(g[k - 1])]
<1>1. count \in Nat /\ end \in Nat /\ start \in Nat
  BY SMT DEF Spans
<1>2. ASSUME NEW p \in D PROVE next(p) \in D
  BY Zenon, WaveOnceStays
<1>10. first \in D
  OBVIOUS
<1> HIDE DEF D, next
<1>3. ASSUME NEW d \in D, NEW k \in 0 .. count PROVE step[<<d, k>>] = next(d)
  BY Zenon
<1> HIDE DEF step
<1>4. PICK f \in [0 .. count -> D] : IsLoop(f, first, step, 0 .. count)
  <2>1. Closed(D, step, 0 .. count)
    BY Zenon, <1>2, <1>3 DEF Closed
  <2> QED
    BY Zenon, <1>1, <1>10, <2>1, LoopExists
<1>5. Eq(f)
  <2>1. ASSUME NEW k \in 0 .. count PROVE f[k] = IF k = 0 THEN first ELSE next(f[k - 1])
    <3>1. f[k] = IF k = 0 THEN first ELSE step[<<f[k - 1], k>>]
      BY Zenon, <1>4 DEF IsLoop
    <3>2. k # 0 => f[k - 1] \in D
      BY Zenon, <1>1, <1>4, Indices
    <3> QED
      BY Zenon, <1>3, <3>1, <3>2
  <2> QED
    BY Zenon, <2>1
<1>6. PICK g : Eq(g) /\ WaveClocked(o, freq, first, start, end) = g[count]
  <2>1. Eq(CHOOSE g : Eq(g))
    <3> HIDE DEF Eq
    <3> QED
      BY Zenon, <1>5
  <2>2. WaveClocked(o, freq, first, start, end) = (CHOOSE g : Eq(g))[count]
    BY Zenon DEF WaveClocked, next, WaveOnce, Spans
  <2> HIDE DEF Eq
  <2> QED
    BY Zenon, <2>1, <2>2
<1>7. g[0] = first /\ \A k \in 1 .. count : g[k] = next(g[k - 1])
  BY Zenon, <1>1, <1>6, Indices
<1>8. \A k \in 0 .. count : g[k] \in D
  <2>1. \A k \in 1 .. count : g[k - 1] \in D => g[k] \in D
    BY Zenon, <1>2, <1>7
  <2> QED
    BY Zenon, <1>1, <1>7, <1>10, <2>1, Stays
<1> QED
  BY Zenon, <1>6, <1>7, <1>8 DEF D, next, WaveTrace, WaveRun

(* No further than the end.                                                *)
LEMMA WaveStands ==
  ASSUME NEW o \in FdsState, NEW freq \in 1 .. fract_range, NEW n \in Nat, NEW end \in 0 .. n,
         NEW first \in WaveLoop(n, freq, end)
  PROVE  WaveClocked(o, freq, first, end, end) = first
<1>1. end \in 0 .. end /\ Spans(0, end, end)
  BY SMT DEF Spans
<1>2. PICK g : WaveRun(o, freq, n, first, end, 0, end, g)
  BY Zenon, <1>1, WaveTraced
<1> QED
  BY Zenon, <1>2 DEF WaveRun, WaveTrace

LEMMA WaveOnceIs ==
  ASSUME NEW o \in FdsState, NEW freq \in 1 .. fract_range, NEW n \in Nat, NEW end \in 0 .. n,
         NEW p \in WaveLoop(n, freq, end), p.time >= end
  PROVE  WaveOnce(o, freq, end, WaveOnce(o, freq, end, p)) = WaveOnce(o, freq, end, p)
<1>1. p.time \in Nat
  BY Zenon DEF WaveLoop, WaveState
<1>2. CASE p.time > end
  BY Zenon, <1>2 DEF WaveOnce
<1>3. CASE ~(p.time > end)
  <2>1. p.time <= end
    BY SMT, <1>1, <1>3
  <2>2. WaveOnce(o, freq, end, p) = WaveClock(o, freq, p)
    BY Zenon, <1>3 DEF WaveOnce
  <2>3. PICK q \in WaveLoop(n, freq, end) : q = WaveClock(o, freq, p) /\ q.time >= p.time + 1
    BY Zenon, <2>1, WaveClocks
  <2>4. q.time \in Nat
    BY Zenon DEF WaveLoop, WaveState
  <2>5. q.time > end
    BY SMT, <1>1, <2>3, <2>4
  <2>6. WaveOnce(o, freq, end, q) = q
    BY Zenon, <2>5 DEF WaveOnce
  <2> QED
    BY Zenon, <2>2, <2>3, <2>6
<1> QED
  BY Zenon, <1>2, <1>3

LEMMA WaveLoopGrows ==
  ASSUME NEW freq, NEW n \in Nat, NEW end \in 0 .. n, NEW later \in end .. n,
         NEW p \in WaveLoop(n, freq, end)
  PROVE  p \in WaveLoop(n, freq, later) /\ p.time \in Nat
<1>1. p \in WaveState(n) /\ Due(p.wave_fract, p.delay, freq) /\ p.time - p.delay <= end
  BY Zenon DEF WaveLoop
<1>2. p.time \in Nat /\ p.delay \in Nat \ {0}
  BY Zenon, <1>1 DEF WaveState
<1>3. p.time - p.delay <= later
  BY SMT, <1>1, <1>2
<1> QED
  BY Zenon, <1>1, <1>2, <1>3 DEF WaveLoop

(* One clock further.                                                      *)
LEMMA WaveGoesOn ==
  ASSUME NEW o \in FdsState, NEW freq \in 1 .. fract_range, NEW n \in Nat, NEW end \in 0 .. n,
         end + 1 <= n, NEW start \in 0 .. end, NEW first \in WaveLoop(n, freq, end),
         first.time >= start + 1
  PROVE  WaveClocked(o, freq, first, start, end + 1) =
           WaveOnce(o, freq, end + 1, WaveClocked(o, freq, first, start, end))
<1>1. PICK later \in Nat : later = end + 1 /\ later \in 0 .. n /\ later \in end .. n
  BY SMT
<1>2. PICK count \in Nat : Spans(count, start, end)
  BY SMT DEF Spans
<1>3. PICK more \in Nat : Spans(more, start, later) /\ more = count + 1 /\ more - 1 = count
  BY SMT, <1>1, <1>2 DEF Spans
<1>4. start \in 0 .. later
  BY SMT, <1>1
<1>5. first \in WaveLoop(n, freq, later)
  BY Zenon, <1>1, WaveLoopGrows
<1>6. PICK g : WaveRun(o, freq, n, first, start, count, end, g)
  BY Zenon, <1>2, WaveTraced
<1>7. PICK h : WaveRun(o, freq, n, first, start, more, later, h)
  BY Zenon, <1>1, <1>3, <1>4, <1>5, WaveTraced
<1> USE DEF WaveRun
<1> DEFINE once(p) == WaveOnce(o, freq, later, p)
           Beside(p, q) == q = p \/ (p.time > end /\ q = once(p))
           S == {k \in 0 .. count : Beside(g[k], h[k])}
<1>8. 0 .. count \subseteq S
  <2>1. 0 \in S
    BY Zenon, <1>6, <1>7, Indices DEF WaveTrace
  <2>2. ASSUME NEW k \in 1 .. count, k - 1 \in S PROVE k \in S
    <3>1. k \in 0 .. count /\ k - 1 \in 0 .. count
      BY Zenon, Indices
    <3>2. k \in 1 .. more
      BY SMT, <1>3
    <3>3. PICK p, q : p = g[k - 1] /\ q = h[k - 1]
      OBVIOUS
    <3>4. Beside(p, q)
      BY Zenon, <2>2, <3>3
    <3>5. g[k] = WaveOnce(o, freq, end, p) /\ h[k] = once(q)
      <4>1. g[k] = WaveOnce(o, freq, end, g[k - 1])
        BY Zenon, <1>6 DEF WaveTrace
      <4>2. h[k] = WaveOnce(o, freq, later, h[k - 1])
        BY Zenon, <1>7, <3>2 DEF WaveTrace
      <4> QED
        BY SMT, <3>3, <4>1, <4>2
    <3>6. p \in WaveLoop(n, freq, end) /\ p \in WaveLoop(n, freq, later) /\ p.time \in Nat
      <4>1. g[k - 1] \in WaveLoop(n, freq, end)
        BY Zenon, <1>6, <3>1
      <4>2. p \in WaveLoop(n, freq, end)
        BY SMT, <3>3, <4>1
      <4> QED
        BY Zenon, <1>1, <4>2, WaveLoopGrows
    <3>7. CASE p.time > end
      <4>1. g[k] = p
        BY Zenon, <3>5, <3>7 DEF WaveOnce
      <4>2. p.time >= later
        BY SMT, <1>1, <3>6, <3>7
      <4>3. once(once(p)) = once(p)
        BY Zenon, <1>1, <3>6, <4>2, WaveOnceIs
      <4>4. h[k] = once(p)
        BY Zenon, <3>4, <3>5, <4>3
      <4> QED
        BY Zenon, <3>1, <3>7, <4>1, <4>4
    <3>8. CASE ~(p.time > end)
      <4>1. ~(p.time > later)
        BY SMT, <1>1, <3>6, <3>8
      <4>2. q = p
        BY Zenon, <3>4, <3>8
      <4>3. g[k] = WaveClock(o, freq, p) /\ h[k] = WaveClock(o, freq, p)
        BY Zenon, <3>5, <3>8, <4>1, <4>2 DEF WaveOnce
      <4> QED
        BY Zenon, <3>1, <4>3
    <3> QED
      BY Zenon, <3>7, <3>8
  <2> HIDE DEF S
  <2> QED
    BY Zenon, <2>1, <2>2, Along
<1>9. PICK p \in WaveLoop(n, freq, end) : p = g[count]
  BY Zenon, <1>6, Indices
<1>10. p.time > end /\ p.time \in Nat /\ p \in WaveLoop(n, freq, later)
  <2>1. p.time > end
    BY Zenon, <1>6, <1>9, WaveIsClocked
  <2> QED
    BY Zenon, <1>1, <2>1, WaveLoopGrows
<1>11. p.time >= later
  BY SMT, <1>1, <1>10
<1>12. once(once(p)) = once(p)
  BY Zenon, <1>1, <1>10, <1>11, WaveOnceIs
<1>13. Beside(p, h[count])
  BY Zenon, <1>8, <1>9, Indices
<1>14. h[more] = once(h[count])
  <2>1. more \in 1 .. more
    BY SMT, <1>3
  <2> QED
    BY Zenon, <1>3, <1>7, <2>1 DEF WaveTrace
<1>15. h[more] = once(p)
  BY Zenon, <1>12, <1>13, <1>14
<1> QED
  BY Zenon, <1>1, <1>6, <1>7, <1>9, <1>15

(* The state of the channel by its parts.                                  *)
FixedAs(x, o) ==
  /\ x.kind = o.kind /\ x.client = o.client /\ x.output = o.output /\ x.freq = o.freq
  /\ x.wave_off = o.wave_off /\ x.lfo_off = o.lfo_off /\ x.hold = o.hold
  /\ x.master = o.master /\ x.lfo = o.lfo /\ x.mod_off = o.mod_off
  /\ x.mod_freq = o.mod_freq /\ x.mod_write_pos = o.mod_write_pos
  /\ x.mod_wave = o.mod_wave /\ x.wave = o.wave
UnitsAs(x, o) == x.env = o.env /\ x.sweep = o.sweep
ModsAs(x, o) == x.mod_fract = o.mod_fract /\ x.mod_pos = o.mod_pos /\ x.bias = o.bias
WaveAs(x, o) == x.wave_pos = o.wave_pos /\ x.wave_fract = o.wave_fract /\ x.last_amp = o.last_amp

LEMMA SameFds ==
  ASSUME NEW x \in FdsState, NEW o \in FdsState, FixedAs(x, o), UnitsAs(x, o), ModsAs(x, o),
         WaveAs(x, o)
  PROVE  x = o
BY SMT DEF FdsState, FixedAs, UnitsAs, ModsAs, WaveAs

LEMMA SameStretch ==
  ASSUME NEW n, NEW x \in FdsStretch(n), NEW y \in FdsStretch(n), x.osc = y.osc,
         x.deltas = y.deltas, x.end = y.end, x.sweep_time = y.sweep_time, x.env_time = y.env_time
  PROVE  x = y
BY SMT DEF FdsStretch

LEMMA AsIs ==
  ASSUME NEW o
  PROVE  FixedAs(o, o) /\ UnitsAs(o, o) /\ ModsAs(o, o) /\ WaveAs(o, o)
BY Zenon DEF FixedAs, UnitsAs, ModsAs, WaveAs

LEMMA AsAgain ==
  ASSUME NEW x, NEW y, NEW z
  PROVE  /\ FixedAs(x, y) => FixedAs(y, x)
         /\ FixedAs(x, y) /\ FixedAs(y, z) => FixedAs(x, z)
         /\ UnitsAs(x, y) /\ UnitsAs(y, z) => UnitsAs(x, z)
         /\ ModsAs(x, y) /\ ModsAs(y, z) => ModsAs(x, z)
         /\ WaveAs(x, y) /\ WaveAs(y, z) => WaveAs(x, z)
<1>1. FixedAs(x, y) => FixedAs(y, x)
  BY Zenon DEF FixedAs
<1>2. FixedAs(x, y) /\ FixedAs(y, z) => FixedAs(x, z)
  BY Zenon DEF FixedAs
<1>3. UnitsAs(x, y) /\ UnitsAs(y, z) => UnitsAs(x, z)
  BY Zenon DEF UnitsAs
<1>4. ModsAs(x, y) /\ ModsAs(y, z) => ModsAs(x, z)
  BY Zenon DEF ModsAs
<1>5. WaveAs(x, y) /\ WaveAs(y, z) => WaveAs(x, z)
  BY Zenon DEF WaveAs
<1> QED
  BY Zenon, <1>1, <1>2, <1>3, <1>4, <1>5

(* What two of the same registers have in common.                          *)
LEMMA FixedIs ==
  ASSUME NEW x, NEW o, FixedAs(x, o)
  PROVE  /\ mod_freq(x) = mod_freq(o)
         /\ \A u : UnitPeriod(x, u) = UnitPeriod(o, u) /\ (Idle(x, u) <=> Idle(o, u))
         /\ FdsPlaying(x) <=> FdsPlaying(o)
         /\ x.bias = o.bias /\ x.sweep.gain = o.sweep.gain => Freq(x) = Freq(o)
<1>1. mod_freq(x) = mod_freq(o)
  BY Zenon DEF mod_freq, FixedAs
<1>2. \A u : UnitPeriod(x, u) = UnitPeriod(o, u)
  BY Zenon DEF UnitPeriod, FixedAs
<1>3. \A u : Idle(x, u) <=> Idle(o, u)
  BY Zenon, <1>2 DEF Idle
<1>4. FdsPlaying(x) <=> FdsPlaying(o)
  BY Zenon DEF FdsPlaying, FixedAs
<1>5. ASSUME x.bias = o.bias, x.sweep.gain = o.sweep.gain PROVE Freq(x) = Freq(o)
  <2>1. SignedBias(x) = SignedBias(o)
    BY Zenon, <1>5 DEF SignedBias
  <2>2. x.freq = o.freq
    BY Zenon DEF FixedAs
  <2> QED
    BY Zenon, <1>1, <1>5, <2>1, <2>2 DEF Freq
<1> QED
  BY Zenon, <1>1, <1>2, <1>3, <1>4, <1>5

(* The modulator.                                                          *)
Entered(o, bias) ==
  bias = IF o.mod_wave[o.mod_pos] = 4 THEN 0
         ELSE (o.bias + mod_table[o.mod_wave[o.mod_pos] + 1]) % bias_range
ModsTo(x, o, left) ==
  IF left > 0 THEN x.mod_fract = left /\ x.mod_pos = o.mod_pos /\ x.bias = o.bias
  ELSE /\ x.mod_fract = left + fract_range /\ x.mod_pos = (o.mod_pos + 1) % wave_size
       /\ Entered(o, x.bias)

LEMMA ModFractSet ==
  ASSUME NEW o \in FdsState, NEW fract, NEW x, x = [o EXCEPT !.mod_fract = fract]
  PROVE  /\ FixedAs(x, o) /\ UnitsAs(x, o) /\ WaveAs(x, o)
         /\ x.mod_fract = fract /\ x.mod_pos = o.mod_pos /\ x.bias = o.bias
<1>1. /\ FixedAs([o EXCEPT !.mod_fract = fract], o) /\ UnitsAs([o EXCEPT !.mod_fract = fract], o)
      /\ WaveAs([o EXCEPT !.mod_fract = fract], o)
  BY Zenon DEF FdsState, FixedAs, UnitsAs, WaveAs
<1>2. /\ [o EXCEPT !.mod_fract = fract].mod_fract = fract
      /\ [o EXCEPT !.mod_fract = fract].mod_pos = o.mod_pos
      /\ [o EXCEPT !.mod_fract = fract].bias = o.bias
  BY Zenon DEF FdsState
<1> QED
  BY Zenon, <1>1, <1>2

ModsPut(x, o, fract, pos, bias) ==
  x = [o EXCEPT !.mod_fract = fract, !.mod_pos = pos, !.bias = bias]

LEMMA ModsSet ==
  ASSUME NEW o \in FdsState, NEW fract, NEW pos, NEW bias, NEW x, ModsPut(x, o, fract, pos, bias)
  PROVE  /\ FixedAs(x, o) /\ UnitsAs(x, o) /\ WaveAs(x, o)
         /\ x.mod_fract = fract /\ x.mod_pos = pos /\ x.bias = bias
<1> DEFINE y == [o EXCEPT !.mod_fract = fract, !.mod_pos = pos, !.bias = bias]
<1>1. FixedAs(y, o) /\ UnitsAs(y, o) /\ WaveAs(y, o)
  BY Zenon DEF FdsState, FixedAs, UnitsAs, WaveAs
<1>2. y.mod_fract = fract /\ y.mod_pos = pos /\ y.bias = bias
  BY Zenon DEF FdsState
<1> HIDE DEF y
<1>3. x = y
  BY DEF y, ModsPut
<1> QED
  BY Zenon, <1>1, <1>2, <1>3

LEMMA ModulatedIs ==
  ASSUME NEW o \in FdsState, NEW clocks, NEW x, x = Modulated(o, clocks)
  PROVE  /\ FixedAs(x, o) /\ UnitsAs(x, o) /\ WaveAs(x, o)
         /\ ModsTo(x, o, o.mod_fract - clocks * mod_freq(o))
<1> DEFINE left == o.mod_fract - clocks * mod_freq(o)
           pos == (o.mod_pos + 1) % wave_size
           bias == IF o.mod_wave[o.mod_pos] = 4 THEN 0
                   ELSE (o.bias + mod_table[o.mod_wave[o.mod_pos] + 1]) % bias_range
           fract == left + fract_range
<1>1. x = IF left > 0 THEN [o EXCEPT !.mod_fract = left]
          ELSE [o EXCEPT !.mod_fract = fract, !.mod_pos = pos, !.bias = bias]
  BY Zenon DEF Modulated
<1> HIDE DEF left
<1>2. CASE left > 0
  <2>1. x = [o EXCEPT !.mod_fract = left]
    BY Zenon, <1>1, <1>2
  <2>2. /\ FixedAs(x, o) /\ UnitsAs(x, o) /\ WaveAs(x, o)
        /\ x.mod_fract = left /\ x.mod_pos = o.mod_pos /\ x.bias = o.bias
    BY SMT, <2>1, ModFractSet
  <2> QED
    BY Zenon, <1>2, <2>2 DEF ModsTo, left
<1>3. CASE ~(left > 0)
  <2> HIDE DEF pos, bias, fract
  <2>1. ModsPut(x, o, fract, pos, bias)
    BY Zenon, <1>1, <1>3 DEF ModsPut
  <2>2. /\ FixedAs(x, o) /\ UnitsAs(x, o) /\ WaveAs(x, o)
        /\ x.mod_fract = fract /\ x.mod_pos = pos /\ x.bias = bias
    BY SMT, <2>1, ModsSet
  <2>3. Entered(o, x.bias)
    BY Zenon, <2>2 DEF Entered, bias
  <2> QED
    BY Zenon, <1>3, <2>2, <2>3 DEF ModsTo, left, pos, fract
<1> QED
  BY Zenon, <1>2, <1>3

(* One that stands still has left what it had.                             *)
LEMMA ModsStand ==
  ASSUME NEW o \in FdsState, NEW x
  PROVE  /\ o.mod_fract > 0
         /\ ModsAs(x, o) <=> ModsTo(x, o, o.mod_fract)
<1>1. o.mod_fract > 0
  <2>1. o.mod_fract \in Fraction /\ fract_range \in Nat \ {0}
    BY Zenon, FdsFields, FdsConstants
  <2> QED
    BY SMT, <2>1 DEF Fraction
<1> QED
  BY Zenon, <1>1 DEF ModsAs, ModsTo

(* The wave stands at a clock between two of its own.                      *)
Standing(x, p, freq, end) ==
  /\ x.deltas = p.deltas /\ x.osc.wave_pos = p.wave_pos /\ x.osc.last_amp = p.last_amp
  /\ x.osc.wave_fract = p.wave_fract - (end - (p.time - p.delay)) * freq

WavePut(x, o, p, fract) ==
  x = [o EXCEPT !.wave_pos = p.wave_pos, !.last_amp = p.last_amp, !.wave_fract = fract]

LEMMA WaveSet ==
  ASSUME NEW o \in FdsState, NEW p, NEW fract, NEW x, WavePut(x, o, p, fract)
  PROVE  /\ FixedAs(x, o) /\ UnitsAs(x, o) /\ ModsAs(x, o)
         /\ x.wave_pos = p.wave_pos /\ x.last_amp = p.last_amp /\ x.wave_fract = fract
<1> DEFINE pos == p.wave_pos
           amp == p.last_amp
           y == [o EXCEPT !.wave_pos = pos, !.last_amp = amp, !.wave_fract = fract]
<1>1. x = y
  BY DEF WavePut
<1> HIDE DEF pos, amp
<1>2. FixedAs(y, o) /\ UnitsAs(y, o) /\ ModsAs(y, o)
  BY Zenon DEF FdsState, FixedAs, UnitsAs, ModsAs
<1>3. y.wave_pos = pos /\ y.last_amp = amp /\ y.wave_fract = fract
  BY Zenon DEF FdsState
<1> HIDE DEF y
<1> QED
  BY Zenon, <1>1, <1>2, <1>3 DEF pos, amp

WaveFrom(o, freq, s) == WaveBefore(o, Ceil(o.wave_fract, freq), s)

LEMMA WaveBegins ==
  ASSUME NEW n \in Nat, NEW s \in FdsStretch(n), NEW o \in FdsState, NEW freq \in 1 .. fract_range,
         NEW end \in s.end .. n, NEW first, first = WaveFrom(o, freq, s)
  PROVE  /\ first \in WaveLoop(n, freq, end) /\ first.time >= s.end + 1
         /\ first.deltas = s.deltas /\ first.wave_pos = o.wave_pos /\ first.last_amp = o.last_amp
         /\ first.wave_fract = o.wave_fract /\ first.time - first.delay = s.end
<1>1. s.end \in 0 .. n /\ s.deltas \in Deltas(n)
  BY Zenon DEF FdsStretch
<1>2. o.wave_fract \in Fraction /\ o.wave_pos \in WaveSpot /\ o.last_amp \in Nat
  BY Zenon, FdsFields
<1>3. PICK delay \in Nat \ {0} : delay = Ceil(o.wave_fract, freq) /\ Due(o.wave_fract, delay, freq)
  <2>1. o.wave_fract \in Nat \ {0} /\ freq \in Nat \ {0}
    <3>1. fract_range \in Nat \ {0}
      BY Zenon, FdsConstants
    <3> QED
      BY SMT, <1>2, <3>1 DEF Fraction
  <2> QED
    BY Zenon, <2>1, CeilIs
<1>4. PICK time \in Nat : /\ time = s.end + delay /\ time - delay = s.end /\ time - delay <= end
                          /\ time >= s.end + 1
  BY SMT, <1>1, <1>3
<1>5. first = [wave_pos |-> o.wave_pos, wave_fract |-> o.wave_fract, delay |-> delay,
               last_amp |-> o.last_amp, deltas |-> s.deltas, time |-> time]
  BY Zenon, <1>3, <1>4 DEF WaveFrom, WaveBefore
<1>6. first \in WaveState(n)
  BY SMT, <1>1, <1>2, <1>3, <1>4, <1>5 DEF WaveState
<1>7. /\ first.time = time /\ first.delay = delay /\ first.wave_fract = o.wave_fract
      /\ first.deltas = s.deltas /\ first.wave_pos = o.wave_pos /\ first.last_amp = o.last_amp
  BY SMT, <1>5
<1> QED
  BY Zenon, <1>3, <1>4, <1>6, <1>7 DEF WaveLoop

(* The wave is read from the registers, and the envelope.                  *)
SoundsAs(q, o) == q.wave = o.wave /\ q.env = o.env /\ q.master = o.master

LEMMA SameSound ==
  ASSUME NEW o \in FdsState, NEW q \in FdsState, SoundsAs(q, o), NEW freq \in 1 .. fract_range,
         NEW n \in Nat, NEW end \in 0 .. n, NEW start \in 0 .. end,
         NEW first \in WaveLoop(n, freq, end)
  PROVE  WaveClocked(q, freq, first, start, end) = WaveClocked(o, freq, first, start, end)
<1>1. PICK count \in Nat : Spans(count, start, end)
  BY SMT DEF Spans
<1>2. \A p : WaveOnce(q, freq, end, p) = WaveOnce(o, freq, end, p)
  BY Zenon DEF WaveOnce, WaveClock, SoundsAs
<1>3. PICK g : WaveRun(o, freq, n, first, start, count, end, g)
  BY Zenon, <1>1, WaveTraced
<1>4. PICK h : WaveRun(q, freq, n, first, start, count, end, h)
  BY Zenon, <1>1, WaveTraced
<1>5. /\ g[0] = first /\ \A k \in 1 .. count : g[k] = WaveOnce(o, freq, end, g[k - 1])
      /\ WaveClocked(o, freq, first, start, end) = g[count]
  BY Zenon, <1>3 DEF WaveRun, WaveTrace
<1>6. /\ h[0] = first /\ \A k \in 1 .. count : h[k] = WaveOnce(q, freq, end, h[k - 1])
      /\ WaveClocked(q, freq, first, start, end) = h[count]
  BY Zenon, <1>4 DEF WaveRun, WaveTrace
<1> DEFINE S == {k \in 0 .. count : h[k] = g[k]}
<1>7. 0 \in S
  BY Zenon, <1>5, <1>6, Indices
<1>8. ASSUME NEW k \in 1 .. count, k - 1 \in S PROVE k \in S
  <2>1. h[k - 1] = g[k - 1]
    BY Zenon, <1>8
  <2>2. h[k] = WaveOnce(q, freq, end, h[k - 1]) /\ g[k] = WaveOnce(o, freq, end, g[k - 1])
    BY Zenon, <1>5, <1>6
  <2>3. h[k] = g[k]
    BY Zenon, <1>2, <2>1, <2>2
  <2> QED
    BY Zenon, <2>3, Indices
<1> HIDE DEF S
<1>9. count \in S
  <2>1. 0 .. count \subseteq S
    BY Zenon, <1>7, <1>8, Along
  <2>2. count \in 0 .. count
    BY Zenon, Indices
  <2> QED
    BY Zenon, <2>1, <2>2
<1> QED
  BY Zenon, <1>5, <1>6, <1>9 DEF S

(* A pass.                                                                 *)
Within(t, end) == mod_freq(t.osc) # 0 => end - t.end <= Ceil(t.osc.mod_fract, mod_freq(t.osc))
PassOsc(t, end) == IF mod_freq(t.osc) = 0 THEN t.osc ELSE Modulated(t.osc, end - t.end)
ModLeft(t, end) == t.osc.mod_fract - (end - t.end) * mod_freq(t.osc)

LEMMA PassOscIs ==
  ASSUME NEW n \in Nat, NEW t \in FdsStretch(n), NEW end \in t.end .. n, Within(t, end),
         NEW q, q = PassOsc(t, end)
  PROVE  /\ q \in FdsState /\ FixedAs(q, t.osc) /\ UnitsAs(q, t.osc) /\ WaveAs(q, t.osc)
         /\ ModsTo(q, t.osc, ModLeft(t, end))
<1>1. PICK o \in FdsState : o = t.osc
  BY Zenon, StretchFields
<1>2. PICK clocks \in Nat : clocks = end - t.end
  <2>1. t.end \in 0 .. n
    BY Zenon, StretchFields
  <2> QED
    BY SMT, <2>1
<1>3. CASE mod_freq(o) = 0
  <2>1. q = o
    BY Zenon, <1>1, <1>3 DEF PassOsc
  <2>2. ModLeft(t, end) = o.mod_fract
    <3>1. PICK a \in Nat : a = o.mod_fract
      BY SMT, FdsFields DEF Fraction
    <3>2. a - clocks * 0 = a
      BY SMT
    <3> QED
      BY Zenon, <1>1, <1>2, <1>3, <3>1, <3>2 DEF ModLeft
  <2>3. ModsTo(q, o, o.mod_fract)
    BY Zenon, <2>1, ModsStand, AsIs
  <2> QED
    BY Zenon, <1>1, <2>1, <2>2, <2>3, AsIs
<1>4. CASE mod_freq(o) # 0
  <2>1. q = Modulated(o, clocks)
    BY Zenon, <1>1, <1>2, <1>4 DEF PassOsc
  <2>2. clocks <= Ceil(o.mod_fract, mod_freq(o))
    BY Zenon, <1>1, <1>2, <1>4 DEF Within
  <2>3. q \in FdsState
    BY Zenon, <1>4, <2>1, <2>2, Modulating
  <2>4. /\ FixedAs(q, o) /\ UnitsAs(q, o) /\ WaveAs(q, o)
        /\ ModsTo(q, o, o.mod_fract - clocks * mod_freq(o))
    BY SMT, <2>1, ModulatedIs
  <2>5. ModLeft(t, end) = o.mod_fract - clocks * mod_freq(o)
    BY Zenon, <1>1, <1>2 DEF ModLeft
  <2> QED
    BY Zenon, <1>1, <2>3, <2>4, <2>5
<1> QED
  BY Zenon, <1>3, <1>4

WaveUntil(t, end) ==
  WaveClocked(t.osc, Freq(t.osc), WaveFrom(t.osc, Freq(t.osc), t), t.end, end)

(* A stretch of the run as a pass leaves it.                               *)
PassLeaves(x, t, end) ==
  /\ FixedAs(x.osc, t.osc) /\ UnitsAs(x.osc, t.osc)
  /\ ModsTo(x.osc, t.osc, ModLeft(t, end))
  /\ x.end = end /\ x.sweep_time = t.sweep_time /\ x.env_time = t.env_time
  /\ Freq(t.osc) <= 0 => WaveAs(x.osc, t.osc) /\ x.deltas = t.deltas
  /\ ~(Freq(t.osc) <= 0) => Standing(x, WaveUntil(t, end), Freq(t.osc), end)

EndPut(x, s, o, deltas, end) == x = [s EXCEPT !.end = end, !.deltas = deltas, !.osc = o]

LEMMA EndSet ==
  ASSUME NEW n, NEW s \in FdsStretch(n), NEW o, NEW deltas, NEW end, NEW x,
         EndPut(x, s, o, deltas, end)
  PROVE  /\ x.osc = o /\ x.deltas = deltas /\ x.end = end
         /\ x.sweep_time = s.sweep_time /\ x.env_time = s.env_time
<1> DEFINE y == [s EXCEPT !.end = end, !.deltas = deltas, !.osc = o]
<1>1. /\ y.osc = o /\ y.deltas = deltas /\ y.end = end
      /\ y.sweep_time = s.sweep_time /\ y.env_time = s.env_time
  BY Zenon DEF FdsStretch
<1>2. x = y
  BY DEF EndPut
<1> HIDE DEF y
<1> QED
  BY Zenon, <1>1, <1>2

LEMMA ModsCarry ==
  ASSUME NEW x, NEW q, NEW o, NEW left, ModsAs(x, q), ModsTo(q, o, left)
  PROVE  ModsTo(x, o, left)
BY Zenon DEF ModsAs, ModsTo, Entered

LEMMA PassIs ==
  ASSUME NEW n \in Nat, NEW t \in FdsStretch(n), NEW end \in t.end .. n, Within(t, end),
         NEW x, x = PassTo(t, end)
  PROVE  x \in FdsStretch(n) /\ PassLeaves(x, t, end)
<1>1. PICK o \in FdsState : o = t.osc
  BY Zenon, StretchFields
<1>2. PICK q : q = PassOsc(t, end)
  OBVIOUS
<1>3. /\ q \in FdsState /\ FixedAs(q, o) /\ UnitsAs(q, o) /\ WaveAs(q, o)
      /\ ModsTo(q, o, ModLeft(t, end))
  BY SMT, <1>1, <1>2, PassOscIs
<1>4. PICK freq \in Int : freq = Freq(o) /\ freq <= fract_range
  BY Zenon, FreqIsBounded
<1>5. x = WavePlayed(t, q, freq, end)
  BY Zenon, <1>1, <1>2, <1>4 DEF PassTo, PassOsc
<1>6. x \in FdsStretch(n) /\ Played(t, q, end, x)
  BY Zenon, <1>3, <1>4, <1>5, WaveIsPlayed
<1>7. x.end = end /\ x.sweep_time = t.sweep_time /\ x.env_time = t.env_time
  BY Zenon, <1>6 DEF Played
<1>8. CASE freq <= 0
  <2>1. x = [t EXCEPT !.osc = q, !.end = end]
    BY Zenon, <1>5, <1>8 DEF WavePlayed
  <2>2. x.osc = q /\ x.deltas = t.deltas
    <3>1. [t EXCEPT !.osc = q, !.end = end].osc = q /\ [t EXCEPT !.osc = q, !.end = end].deltas = t.deltas
      BY Zenon DEF FdsStretch
    <3> QED
      BY Zenon, <2>1, <3>1
  <2> QED
    BY Zenon, <1>1, <1>3, <1>4, <1>6, <1>7, <1>8, <2>2 DEF PassLeaves
<1>9. CASE ~(freq <= 0)
  <2>1. freq \in 1 .. fract_range
    <3>1. fract_range \in Nat \ {0}
      BY Zenon, FdsConstants
    <3> QED
      BY SMT, <1>4, <1>9, <3>1
  <2>2. PICK first : first = WaveFrom(o, freq, t)
    OBVIOUS
  <2>3. WaveFrom(q, freq, t) = first
    BY Zenon, <1>3, <2>2 DEF WaveFrom, WaveBefore, WaveAs
  <2>4. first \in WaveLoop(n, freq, end)
    BY SMT, <2>1, <2>2, WaveBegins
  <2>5. t.end \in 0 .. end /\ end \in 0 .. n
    <3>1. t.end \in 0 .. n
      BY Zenon, StretchFields
    <3> QED
      BY SMT, <3>1
  <2>6. PICK p : p = WaveClocked(o, freq, first, t.end, end)
    OBVIOUS
  <2>7. SoundsAs(q, o)
    BY Zenon, <1>3 DEF SoundsAs, FixedAs, UnitsAs
  <2>8. WaveClocked(q, freq, first, t.end, end) = p
    BY Zenon, <1>3, <2>1, <2>4, <2>5, <2>6, <2>7, SameSound
  <2>9. x = WaveAfter(t, q, p, freq, end)
    BY Zenon, <1>5, <1>9, <2>3, <2>8 DEF WavePlayed, WaveFrom
  <2>10. PICK fract, y : fract = p.wave_fract - (end - (p.time - p.delay)) * freq
                         /\ WavePut(y, q, p, fract)
    BY Zenon DEF WavePut
  <2>11. EndPut(x, t, y, p.deltas, end)
    BY Zenon, <2>9, <2>10 DEF WaveAfter, EndPut, WavePut
  <2>12. x.osc = y /\ x.deltas = p.deltas
    BY SMT, <2>11, EndSet
  <2>13. /\ FixedAs(y, q) /\ UnitsAs(y, q) /\ ModsAs(y, q)
         /\ y.wave_pos = p.wave_pos /\ y.last_amp = p.last_amp /\ y.wave_fract = fract
    BY SMT, <1>3, <2>10, WaveSet
  <2>14. FixedAs(y, o) /\ UnitsAs(y, o)
    BY Zenon, <1>3, <2>13, AsAgain
  <2>15. ModsTo(y, o, ModLeft(t, end))
    BY Zenon, <1>3, <2>13, ModsCarry
  <2>16. Standing(x, p, freq, end)
    BY Zenon, <2>10, <2>12, <2>13 DEF Standing
  <2>17. WaveUntil(t, end) = p
    BY Zenon, <1>1, <1>4, <2>2, <2>6 DEF WaveUntil
  <2> QED
    BY Zenon, <1>1, <1>4, <1>6, <1>7, <1>9, <2>12, <2>14, <2>15, <2>16, <2>17 DEF PassLeaves
<1> QED
  BY Zenon, <1>8, <1>9

(* A pass that ends where it begins.                                       *)
LEMMA PassOfNoTime ==
  ASSUME NEW n \in Nat, NEW t \in FdsStretch(n)
  PROVE  PassTo(t, t.end) = t /\ Within(t, t.end)
<1>1. PICK o \in FdsState : o = t.osc
  BY Zenon, StretchFields
<1>2. PICK end \in 0 .. n : end = t.end /\ end \in end .. n /\ end - end = 0 /\ end \in 0 .. end
  <2>1. t.end \in 0 .. n
    BY Zenon, StretchFields
  <2> QED
    BY SMT, <2>1
<1>3. Within(t, end)
  <2>1. ASSUME mod_freq(o) # 0 PROVE 0 <= Ceil(o.mod_fract, mod_freq(o))
    <3>1. mod_freq(o) \in Nat /\ o.mod_fract \in Fraction /\ fract_range \in Nat \ {0}
      BY Zenon, ModFreq, FdsFields, FdsConstants
    <3>2. mod_freq(o) \in Nat \ {0} /\ o.mod_fract \in Nat \ {0}
      BY SMT, <2>1, <3>1 DEF Fraction
    <3>3. PICK c \in Nat \ {0} : c = Ceil(o.mod_fract, mod_freq(o))
      BY Zenon, <3>2, CeilIs
    <3>4. 0 <= c
      BY SMT
    <3> QED
      BY Zenon, <3>3, <3>4
  <2> QED
    BY Zenon, <1>1, <1>2, <2>1 DEF Within
<1>4. PICK x : x = PassTo(t, end)
  OBVIOUS
<1>5. x \in FdsStretch(n) /\ PassLeaves(x, t, end)
  BY SMT, <1>2, <1>3, <1>4, PassIs
<1>6. ModsAs(x.osc, o)
  <2>1. PICK a \in Nat, f \in Nat : a = o.mod_fract /\ f = mod_freq(o)
    <3>1. o.mod_fract \in Fraction /\ fract_range \in Nat \ {0} /\ mod_freq(o) \in Nat
      BY Zenon, ModFreq, FdsFields, FdsConstants
    <3> QED
      BY SMT, <3>1 DEF Fraction
  <2>2. a - 0 * f = a
    BY SMT
  <2>3. ModLeft(t, end) = o.mod_fract
    BY Zenon, <1>1, <1>2, <2>1, <2>2 DEF ModLeft
  <2> QED
    BY Zenon, <1>1, <1>5, <2>3, ModsStand DEF PassLeaves
<1>7. WaveAs(x.osc, o) /\ x.deltas = t.deltas
  <2>1. PICK freq \in Int : freq = Freq(o) /\ freq <= fract_range
    BY Zenon, FreqIsBounded
  <2>2. CASE freq <= 0
    BY Zenon, <1>1, <1>5, <2>1, <2>2 DEF PassLeaves
  <2>3. CASE ~(freq <= 0)
    <3>1. freq \in 1 .. fract_range
      <4>1. fract_range \in Nat \ {0}
        BY Zenon, FdsConstants
      <4> QED
        BY SMT, <2>1, <2>3, <4>1
    <3>2. PICK p : p = WaveFrom(o, freq, t)
      OBVIOUS
    <3>3. /\ p \in WaveLoop(n, freq, end) /\ p.deltas = t.deltas /\ p.wave_pos = o.wave_pos
          /\ p.last_amp = o.last_amp /\ p.wave_fract = o.wave_fract /\ p.time - p.delay = end
      BY SMT, <1>2, <3>1, <3>2, WaveBegins
    <3>4. WaveUntil(t, end) = p
      <4>1. WaveClocked(o, freq, p, end, end) = p
        BY Zenon, <3>1, <3>3, WaveStands
      <4> QED
        BY Zenon, <1>1, <1>2, <2>1, <3>2, <4>1 DEF WaveUntil
    <3>5. Standing(x, p, freq, end)
      BY Zenon, <1>1, <1>5, <2>1, <2>3, <3>4 DEF PassLeaves
    <3>6. p.wave_fract - (end - (p.time - p.delay)) * freq = o.wave_fract
      <4>1. PICK a \in Nat : a = o.wave_fract
        <5>1. o.wave_fract \in Fraction /\ fract_range \in Nat \ {0}
          BY Zenon, FdsFields, FdsConstants
        <5> QED
          BY SMT, <5>1 DEF Fraction
      <4>2. a - 0 * freq = a
        BY SMT
      <4> QED
        BY Zenon, <1>2, <3>3, <4>1, <4>2
    <3> QED
      BY Zenon, <3>3, <3>5, <3>6 DEF Standing, WaveAs
  <2> QED
    BY Zenon, <2>2, <2>3
<1>8. x.osc = o
  <2>1. x.osc \in FdsState /\ FixedAs(x.osc, o) /\ UnitsAs(x.osc, o)
    BY Zenon, <1>1, <1>5, StretchFields DEF PassLeaves
  <2> QED
    BY Zenon, <1>6, <1>7, <2>1, SameFds
<1>9. x = t
  <2>1. /\ x.osc = t.osc /\ x.deltas = t.deltas /\ x.end = t.end /\ x.sweep_time = t.sweep_time
        /\ x.env_time = t.env_time
    BY Zenon, <1>1, <1>2, <1>5, <1>7, <1>8 DEF PassLeaves
  <2> QED
    BY Zenon, <1>5, <2>1, SameStretch
<1> QED
  BY Zenon, <1>2, <1>3, <1>4, <1>9

-----------------------------------------------------------------------------
(* A clock of the channel, in whatever pass.                               *)

FdsLevel(o) == o.wave[o.wave_pos] * Earlier(o.env.gain, gain_top) * master_volumes[o.master]

WaveRests(y, x, freq) ==
  /\ y.osc.wave_fract = x.osc.wave_fract - freq /\ y.osc.wave_pos = x.osc.wave_pos
  /\ y.osc.last_amp = x.osc.last_amp /\ y.deltas = x.deltas

WaveSteps(y, x, freq) ==
  /\ y.osc.wave_fract = x.osc.wave_fract - freq + fract_range
  /\ y.osc.wave_pos = (x.osc.wave_pos + 1) % wave_size /\ y.osc.last_amp = FdsLevel(x.osc)
  /\ y.deltas = Moved(x.deltas, x.end + 1, FdsLevel(x.osc) - x.osc.last_amp)

WaveTicks(y, x, freq) ==
  IF freq <= 0 THEN WaveAs(y.osc, x.osc) /\ y.deltas = x.deltas
  ELSE IF x.osc.wave_fract > freq THEN WaveRests(y, x, freq) ELSE WaveSteps(y, x, freq)

Clocked(y, x) ==
  /\ FixedAs(y.osc, x.osc) /\ UnitsAs(y.osc, x.osc)
  /\ ModsTo(y.osc, x.osc, x.osc.mod_fract - mod_freq(x.osc))
  /\ WaveTicks(y, x, Freq(x.osc))
  /\ y.end = x.end + 1 /\ y.sweep_time = x.sweep_time /\ y.env_time = x.env_time

LEMMA FdsLevelIs ==
  ASSUME NEW o \in FdsState
  PROVE  FdsLevel(o) \in Nat /\ o.last_amp \in Int
<1>1. o.env \in Unit /\ o.wave \in [WaveSpot -> Nat] /\ o.master \in DOMAIN master_volumes
      /\ o.wave_pos \in WaveSpot /\ o.last_amp \in Nat
  BY Zenon, FdsFields
<1>2. o.env.gain \in Gain /\ gain_top \in Gain /\ o.wave[o.wave_pos] \in Nat
  BY Zenon, <1>1, FdsConstants DEF Unit
<1>3. Earlier(o.env.gain, gain_top) \in Gain
  BY Zenon, <1>2 DEF Earlier
<1>4. PICK a \in Nat : a = o.wave[o.wave_pos]
  BY Zenon, <1>2
<1>5. PICK b \in Nat : b = Earlier(o.env.gain, gain_top)
  <2>1. \A g \in Gain : g \in Nat
    BY SMT, FdsConstants DEF Gain
  <2> QED
    BY Zenon, <1>3, <2>1
<1>6. PICK c \in Nat : c = master_volumes[o.master]
  BY Zenon, <1>1, FdsConstants
<1>7. a * b * c \in Nat
  BY SMT
<1>8. o.last_amp \in Int
  BY SMT, <1>1
<1> QED
  BY Zenon, <1>4, <1>5, <1>6, <1>7, <1>8 DEF FdsLevel

LEMMA StandingTicks ==
  ASSUME NEW o \in FdsState, NEW freq \in 1 .. fract_range, NEW n \in Nat, NEW end \in 0 .. n,
         NEW later \in 0 .. n, later = end + 1, NEW a \in WaveLoop(n, freq, end), a.time > end,
         NEW x, Standing(x, a, freq, end), x.end = end, x.osc \in FdsState, SoundsAs(x.osc, o),
         NEW y, Standing(y, WaveOnce(o, freq, later, a), freq, later)
  PROVE  WaveTicks(y, x, freq)
<1>1. /\ a.wave_pos \in WaveSpot /\ a.wave_fract \in Fraction /\ a.delay \in Nat \ {0}
      /\ a.last_amp \in Nat /\ a.deltas \in Deltas(n) /\ a.time \in Nat
      /\ Due(a.wave_fract, a.delay, freq) /\ a.time - a.delay <= end
  BY Zenon DEF WaveLoop, WaveState
<1>2. freq \in Nat /\ ~(freq <= 0) /\ a.delay \in Nat /\ fract_range \in Nat /\ end \in Nat
  <2>1. fract_range \in Nat \ {0}
    BY Zenon, FdsConstants
  <2> QED
    BY SMT, <1>1, <2>1
<1>3. PICK w \in Nat : w = a.wave_fract
  BY SMT, <1>1, <1>2 DEF Fraction
<1>4. PICK v \in Nat : v = a.delay * freq /\ (a.delay - 1) * freq = v - freq
  BY Zenon, <1>2, DelayProducts
<1>5. w <= v /\ v - freq < w
  BY Zenon, <1>1, <1>3, <1>4 DEF Due
<1>6. PICK j \in Nat : j = end - (a.time - a.delay) /\ j <= a.delay - 1 /\ j + 1 = later - (a.time - a.delay)
  BY SMT, <1>1, <1>2
<1>7. PICK z \in Nat : z = j * freq /\ (j + 1) * freq = z + freq
  <2>1. (j + 1) * freq = j * freq + freq /\ j \in Int
    <3>1. j \in Int
      BY SMT
    <3> QED
      BY Zenon, <1>2, <3>1, Products
  <2>2. j * freq \in Nat
    BY SMT, <1>2
  <2> QED
    BY Zenon, <2>1, <2>2
<1>8. /\ x.deltas = a.deltas /\ x.osc.wave_pos = a.wave_pos /\ x.osc.last_amp = a.last_amp
      /\ x.osc.wave_fract = w - z
  BY Zenon, <1>3, <1>6, <1>7 DEF Standing
<1>9. CASE a.time > later
  <2>1. WaveOnce(o, freq, later, a) = a
    BY Zenon, <1>9 DEF WaveOnce
  <2>2. /\ y.deltas = a.deltas /\ y.osc.wave_pos = a.wave_pos /\ y.osc.last_amp = a.last_amp
        /\ y.osc.wave_fract = w - (z + freq)
    BY Zenon, <1>3, <1>6, <1>7, <2>1 DEF Standing
  <2>3. z + freq <= v - freq
    <3>1. j + 1 <= a.delay - 1 /\ j + 1 \in Int /\ a.delay - 1 \in Int
      BY SMT, <1>1, <1>2, <1>6, <1>9
    <3>2. (j + 1) * freq <= (a.delay - 1) * freq
      BY Zenon, <1>2, <3>1, Products
    <3> QED
      BY Zenon, <1>4, <1>7, <3>2
  <2>4. w - z > freq /\ w - (z + freq) = w - z - freq
    BY SMT, <1>2, <1>5, <2>3
  <2>5. WaveRests(y, x, freq)
    BY Zenon, <1>8, <2>2, <2>4 DEF WaveRests
  <2> QED
    BY Zenon, <1>2, <1>8, <2>4, <2>5 DEF WaveTicks
<1>10. CASE ~(a.time > later)
  <2>1. a.time = later /\ j = a.delay - 1
    BY SMT, <1>1, <1>2, <1>6, <1>10
  <2>2. z = v - freq
    BY Zenon, <1>4, <1>7, <2>1
  <2>3. PICK b : b = WaveClock(o, freq, a)
    OBVIOUS
  <2>4. WaveOnce(o, freq, later, a) = b
    BY Zenon, <1>10, <2>3 DEF WaveOnce
  <2>5. a.time <= later
    BY SMT, <2>1, <1>1
  <2>6. b \in WaveLoop(n, freq, later)
    <3>1. later \in end .. n
      BY SMT, <1>2
    <3> QED
      BY Zenon, <2>3, <2>5, <3>1, WaveClocks, WaveLoopGrows
  <2>7. b.time \in Nat /\ b.delay \in Nat \ {0}
    BY Zenon, <2>6 DEF WaveLoop, WaveState
  <2>8. /\ b.wave_pos = (a.wave_pos + 1) % wave_size
        /\ b.wave_fract = a.wave_fract + fract_range - a.delay * freq
        /\ b.time = a.time + b.delay
        /\ b.last_amp = o.wave[a.wave_pos] * Earlier(o.env.gain, gain_top) * master_volumes[o.master]
        /\ b.deltas = [a.deltas EXCEPT ![a.time] = @ + b.last_amp - a.last_amp]
    BY Zenon, <2>3 DEF WaveClock
  <2>9. b.last_amp = FdsLevel(x.osc)
    BY Zenon, <1>8, <2>8 DEF FdsLevel, SoundsAs
  <2>10. b.wave_fract = w - z - freq + fract_range
    <3>1. b.wave_fract = w + fract_range - v
      BY Zenon, <1>3, <1>4, <2>8
    <3> QED
      BY SMT, <1>2, <2>2, <3>1
  <2>11. later - (b.time - b.delay) = 0
    BY SMT, <2>1, <2>7, <2>8
  <2>12. y.osc.wave_fract = b.wave_fract
    <3>1. PICK u \in Int : u = b.wave_fract
      BY SMT, <1>2, <2>10
    <3>2. u - 0 * freq = u
      BY SMT, <1>2
    <3> QED
      BY Zenon, <2>4, <2>11, <3>1, <3>2 DEF Standing
  <2>13. b.deltas = Moved(x.deltas, x.end + 1, FdsLevel(x.osc) - x.osc.last_amp)
    <3>1. PICK d \in Deltas(n), l \in Int, m \in Int :
            d = a.deltas /\ l = b.last_amp /\ m = a.last_amp
      <4>1. b.last_amp \in Int /\ a.last_amp \in Int
        BY SMT, <1>1, <2>9, FdsLevelIs
      <4> QED
        BY Zenon, <1>1, <4>1
    <3>2. [d EXCEPT ![later] = @ + l - m] = Moved(d, later, l - m)
      BY Zenon, MovedBy DEF Moved
    <3>3. b.deltas = [d EXCEPT ![later] = @ + l - m]
      BY Zenon, <2>1, <2>8, <3>1
    <3> QED
      BY Zenon, <1>8, <2>9, <3>1, <3>2, <3>3
  <2>14. y.deltas = b.deltas /\ y.osc.wave_pos = b.wave_pos /\ y.osc.last_amp = b.last_amp
    BY Zenon, <2>4 DEF Standing
  <2>15. WaveSteps(y, x, freq)
    BY Zenon, <1>8, <2>8, <2>9, <2>10, <2>12, <2>13, <2>14 DEF WaveSteps
  <2>16. ~(w - z > freq)
    BY SMT, <1>2, <1>5, <2>2
  <2> QED
    BY Zenon, <1>2, <1>8, <2>15, <2>16 DEF WaveTicks
<1> QED
  BY Zenon, <1>9, <1>10

(* Before the modulator's step it only has less left.                      *)
LEMMA ModStillLeft ==
  ASSUME NEW n \in Nat, NEW t \in FdsStretch(n), NEW end \in t.end .. n, NEW later \in 0 .. n,
         later = end + 1, Within(t, later)
  PROVE  /\ ModLeft(t, end) > 0 /\ Within(t, end)
         /\ ModLeft(t, later) = ModLeft(t, end) - mod_freq(t.osc)
<1>1. PICK o \in FdsState : o = t.osc
  BY Zenon, StretchFields
<1>2. t.end \in 0 .. n
  BY Zenon, StretchFields
<1>3. PICK j \in Nat : j = end - t.end /\ j + 1 = later - t.end
  BY SMT, <1>2
<1>4. PICK a \in Nat, f \in Nat : a = o.mod_fract /\ f = mod_freq(o) /\ a \in Nat \ {0}
  <2>1. o.mod_fract \in Fraction /\ fract_range \in Nat \ {0} /\ mod_freq(o) \in Nat
    BY Zenon, ModFreq, FdsFields, FdsConstants
  <2> QED
    BY SMT, <2>1 DEF Fraction
<1>5. PICK z \in Nat : z = j * f /\ (j + 1) * f = z + f
  <2>1. (j + 1) * f = j * f + f
    <3>1. j \in Int
      BY SMT
    <3> QED
      BY Zenon, <3>1, Products
  <2>2. j * f \in Nat
    BY SMT
  <2> QED
    BY Zenon, <2>1, <2>2
<1>6. ModLeft(t, end) = a - z /\ ModLeft(t, later) = a - (z + f)
  BY Zenon, <1>1, <1>3, <1>4, <1>5 DEF ModLeft
<1>7. a - (z + f) = a - z - f
  BY SMT
<1>8. CASE f = 0
  <2>1. z = 0
    BY SMT, <1>5, <1>8
  <2>2. a - z > 0
    BY SMT, <1>4, <2>1
  <2> QED
    BY Zenon, <1>1, <1>4, <1>6, <1>7, <1>8, <2>2 DEF Within
<1>9. CASE f # 0
  <2>1. f \in Nat \ {0}
    BY SMT, <1>9
  <2>2. PICK c \in Nat \ {0} : c = Ceil(a, f) /\ Due(a, c, f)
    BY Zenon, <1>4, <2>1, CeilIs
  <2>3. j + 1 <= c
    BY Zenon, <1>1, <1>3, <1>4, <1>9, <2>2 DEF Within
  <2>4. j <= c - 1 /\ j <= c /\ j \in Int /\ c - 1 \in Int
    BY SMT, <2>3
  <2>5. j * f <= (c - 1) * f
    BY Zenon, <2>4, Products
  <2>6. PICK v \in Int : v = (c - 1) * f
    BY SMT, <2>4
  <2>7. v < a /\ z <= v
    BY Zenon, <1>5, <2>2, <2>5, <2>6 DEF Due
  <2>8. a - z > 0
    BY SMT, <2>7
  <2>9. Within(t, end)
    BY Zenon, <1>1, <1>3, <1>4, <2>2, <2>4 DEF Within
  <2> QED
    BY Zenon, <1>1, <1>4, <1>6, <1>7, <2>8, <2>9
<1> QED
  BY Zenon, <1>8, <1>9

LEMMA ModsOn ==
  ASSUME NEW x, NEW y, NEW o, NEW left, left > 0, ModsTo(x, o, left), NEW less, ModsTo(y, o, less),
         FixedAs(x, o)
  PROVE  x.mod_fract = left /\ x.bias = o.bias /\ ModsTo(y, x, less)
<1>1. x.mod_fract = left /\ x.mod_pos = o.mod_pos /\ x.bias = o.bias
  BY Zenon DEF ModsTo
<1>2. x.mod_wave = o.mod_wave
  BY Zenon DEF FixedAs
<1>3. Entered(o, y.bias) => Entered(x, y.bias)
  BY Zenon, <1>1, <1>2 DEF Entered
<1> QED
  BY Zenon, <1>1, <1>3 DEF ModsTo

LEMMA PassClocked ==
  ASSUME NEW n \in Nat, NEW t \in FdsStretch(n), NEW end \in t.end .. n, NEW later \in 0 .. n,
         later = end + 1, Within(t, later), NEW x, x = PassTo(t, end), NEW y, y = PassTo(t, later)
  PROVE  x \in FdsStretch(n) /\ y \in FdsStretch(n) /\ x.end = end /\ Clocked(y, x)
<1>1. PICK o \in FdsState : o = t.osc
  BY Zenon, StretchFields
<1>2. PICK freq \in Int : freq = Freq(o) /\ freq <= fract_range
  BY Zenon, FreqIsBounded
<1>3. t.end \in 0 .. n /\ end \in 0 .. n /\ later \in t.end .. n /\ t.end \in 0 .. end
  <2>1. t.end \in 0 .. n
    BY Zenon, StretchFields
  <2> QED
    BY SMT, <2>1
<1>4. PICK left, less : left = ModLeft(t, end) /\ less = ModLeft(t, later)
  OBVIOUS
<1>5. left > 0 /\ Within(t, end) /\ less = left - mod_freq(o)
  BY SMT, <1>1, <1>4, ModStillLeft
<1>6. x \in FdsStretch(n) /\ PassLeaves(x, t, end)
  BY SMT, <1>5, PassIs
<1>7. y \in FdsStretch(n) /\ PassLeaves(y, t, later)
  BY SMT, <1>3, PassIs
<1>8. /\ FixedAs(x.osc, o) /\ UnitsAs(x.osc, o) /\ ModsTo(x.osc, o, left)
      /\ x.end = end /\ x.sweep_time = t.sweep_time /\ x.env_time = t.env_time
      /\ freq <= 0 => WaveAs(x.osc, o) /\ x.deltas = t.deltas
      /\ ~(freq <= 0) => Standing(x, WaveUntil(t, end), freq, end)
  BY Zenon, <1>1, <1>2, <1>4, <1>6 DEF PassLeaves
<1>9. /\ FixedAs(y.osc, o) /\ UnitsAs(y.osc, o) /\ ModsTo(y.osc, o, less)
      /\ y.end = later /\ y.sweep_time = t.sweep_time /\ y.env_time = t.env_time
      /\ freq <= 0 => WaveAs(y.osc, o) /\ y.deltas = t.deltas
      /\ ~(freq <= 0) => Standing(y, WaveUntil(t, later), freq, later)
  BY Zenon, <1>1, <1>2, <1>4, <1>7 DEF PassLeaves
<1>10. x.osc.mod_fract = left /\ x.osc.bias = o.bias /\ ModsTo(y.osc, x.osc, less)
  BY SMT, <1>5, <1>8, <1>9, ModsOn
<1>11. FixedAs(y.osc, x.osc) /\ UnitsAs(y.osc, x.osc)
  <2>1. UnitsAs(o, x.osc)
    BY Zenon, <1>8 DEF UnitsAs
  <2>2. FixedAs(o, x.osc)
    BY Zenon, <1>8, AsAgain
  <2>3. FixedAs(y.osc, x.osc)
    BY Zenon, <1>9, <2>2, AsAgain
  <2>4. UnitsAs(y.osc, x.osc)
    BY Zenon, <1>9, <2>1, AsAgain
  <2> QED
    BY Zenon, <2>3, <2>4
<1>12. mod_freq(x.osc) = mod_freq(o) /\ Freq(x.osc) = freq
  <2>1. x.osc.sweep.gain = o.sweep.gain
    BY Zenon, <1>8 DEF UnitsAs
  <2> QED
    BY Zenon, <1>2, <1>8, <1>10, <2>1, FixedIs
<1>13. ModsTo(y.osc, x.osc, x.osc.mod_fract - mod_freq(x.osc))
  BY Zenon, <1>5, <1>10, <1>12
<1>14. WaveTicks(y, x, freq)
  <2>1. CASE freq <= 0
    <3>1. WaveAs(o, x.osc)
      BY Zenon, <1>8, <2>1 DEF WaveAs
    <3>2. WaveAs(y.osc, x.osc) /\ y.deltas = x.deltas
      BY Zenon, <1>8, <1>9, <2>1, <3>1, AsAgain
    <3> QED
      BY Zenon, <2>1, <3>2 DEF WaveTicks
  <2>2. CASE ~(freq <= 0)
    <3>1. freq \in 1 .. fract_range
      <4>1. fract_range \in Nat \ {0}
        BY Zenon, FdsConstants
      <4> QED
        BY SMT, <1>2, <2>2, <4>1
    <3>2. PICK first : first = WaveFrom(o, freq, t)
      OBVIOUS
    <3>3. first \in WaveLoop(n, freq, end) /\ first.time >= t.end + 1
      BY SMT, <3>1, <3>2, WaveBegins
    <3>4. PICK a \in WaveLoop(n, freq, end) : a = WaveClocked(o, freq, first, t.end, end)
                                              /\ a.time > end
      BY Zenon, <1>3, <3>1, <3>3, WaveIsClocked
    <3>5. WaveUntil(t, end) = a
      BY Zenon, <1>1, <1>2, <3>2, <3>4 DEF WaveUntil
    <3>6. WaveUntil(t, later) = WaveOnce(o, freq, later, a)
      <4>1. end + 1 <= n
        BY SMT, <1>3
      <4>2. WaveClocked(o, freq, first, t.end, end + 1) = WaveOnce(o, freq, end + 1, a)
        BY Zenon, <1>3, <3>1, <3>3, <3>4, <4>1, WaveGoesOn
      <4> QED
        BY Zenon, <1>1, <1>2, <3>2, <4>2 DEF WaveUntil
    <3>7. x.osc \in FdsState /\ SoundsAs(x.osc, o)
      BY Zenon, <1>6, <1>8, StretchFields DEF SoundsAs, FixedAs, UnitsAs
    <3>8. Standing(x, a, freq, end)
      BY Zenon, <1>8, <2>2, <3>5
    <3>9. Standing(y, WaveOnce(o, freq, later, a), freq, later)
      BY Zenon, <1>9, <2>2, <3>6
    <3> QED
      BY SMT, <1>3, <1>8, <3>1, <3>4, <3>7, <3>8, <3>9, StandingTicks
  <2> QED
    BY Zenon, <2>1, <2>2
<1>15. y.end = x.end + 1 /\ y.sweep_time = x.sweep_time /\ y.env_time = x.env_time
  BY Zenon, <1>8, <1>9
<1> QED
  BY Zenon, <1>6, <1>7, <1>8, <1>11, <1>12, <1>13, <1>14, <1>15 DEF Clocked

(* A clock leaves but one state.                                           *)
LEMMA ModsOnce ==
  ASSUME NEW x, NEW y, NEW o, NEW left, ModsTo(x, o, left), ModsTo(y, o, left)
  PROVE  ModsAs(x, y)
<1>1. CASE left > 0
  BY Zenon, <1>1 DEF ModsTo, ModsAs
<1>2. CASE ~(left > 0)
  BY Zenon, <1>2 DEF ModsTo, ModsAs, Entered
<1> QED
  BY Zenon, <1>1, <1>2

LEMMA ClockedOnce ==
  ASSUME NEW n, NEW x \in FdsStretch(n), NEW y \in FdsStretch(n), NEW s, Clocked(x, s), Clocked(y, s)
  PROVE  x = y
<1>1. x.osc \in FdsState /\ y.osc \in FdsState
  BY Zenon DEF FdsStretch
<1>2. PICK o, freq : o = s.osc /\ freq = Freq(s.osc)
  OBVIOUS
<1>3. /\ FixedAs(x.osc, o) /\ UnitsAs(x.osc, o) /\ WaveTicks(x, s, freq)
      /\ ModsTo(x.osc, o, o.mod_fract - mod_freq(o))
  BY Zenon, <1>2 DEF Clocked
<1>4. /\ FixedAs(y.osc, o) /\ UnitsAs(y.osc, o) /\ WaveTicks(y, s, freq)
      /\ ModsTo(y.osc, o, o.mod_fract - mod_freq(o))
  BY Zenon, <1>2 DEF Clocked
<1>5. FixedAs(x.osc, y.osc) /\ UnitsAs(x.osc, y.osc)
  <2>1. UnitsAs(o, y.osc) /\ FixedAs(o, y.osc)
    BY Zenon, <1>4, AsAgain DEF UnitsAs
  <2> QED
    BY Zenon, <1>3, <2>1, AsAgain
<1>6. ModsAs(x.osc, y.osc)
  BY SMT, <1>3, <1>4, ModsOnce
<1>7. WaveAs(x.osc, y.osc) /\ x.deltas = y.deltas
  <2>1. CASE freq <= 0
    <3>1. /\ WaveAs(x.osc, o) /\ x.deltas = s.deltas
          /\ WaveAs(y.osc, o) /\ y.deltas = s.deltas
      BY Zenon, <1>2, <1>3, <1>4, <2>1 DEF WaveTicks
    <3> QED
      BY Zenon, <3>1 DEF WaveAs
  <2>2. CASE ~(freq <= 0) /\ o.wave_fract > freq
    <3>1. WaveRests(x, s, freq) /\ WaveRests(y, s, freq)
      BY Zenon, <1>2, <1>3, <1>4, <2>2 DEF WaveTicks
    <3> QED
      BY Zenon, <3>1 DEF WaveRests, WaveAs
  <2>3. CASE ~(freq <= 0) /\ ~(o.wave_fract > freq)
    <3>1. WaveSteps(x, s, freq) /\ WaveSteps(y, s, freq)
      BY Zenon, <1>2, <1>3, <1>4, <2>3 DEF WaveTicks
    <3> QED
      BY Zenon, <3>1 DEF WaveSteps, WaveAs
  <2> QED
    BY Zenon, <2>1, <2>2, <2>3
<1>8. x.osc = y.osc
  BY Zenon, <1>1, <1>5, <1>6, <1>7, SameFds
<1>9. x.end = y.end /\ x.sweep_time = y.sweep_time /\ x.env_time = y.env_time
  BY Zenon DEF Clocked
<1> QED
  BY Zenon, <1>7, <1>8, <1>9, SameStretch

OneClock(s) == PassTo(s, s.end + 1)

LEMMA ClockIs ==
  ASSUME NEW n \in Nat, NEW s \in FdsStretch(n), s.end < n
  PROVE  OneClock(s) \in FdsStretch(n) /\ Clocked(OneClock(s), s)
<1>1. s.osc \in FdsState /\ s.end \in 0 .. n
  BY Zenon, StretchFields
<1>2. PICK end \in 0 .. n, later \in 0 .. n :
        end = s.end /\ later = end + 1 /\ end \in end .. n /\ later - end = 1
  BY SMT, <1>1
<1>3. Within(s, later)
  <2>1. ASSUME mod_freq(s.osc) # 0 PROVE 1 <= Ceil(s.osc.mod_fract, mod_freq(s.osc))
    <3>1. mod_freq(s.osc) \in Nat /\ s.osc.mod_fract \in Fraction /\ fract_range \in Nat \ {0}
      BY Zenon, <1>1, ModFreq, FdsFields, FdsConstants
    <3>2. mod_freq(s.osc) \in Nat \ {0} /\ s.osc.mod_fract \in Nat \ {0}
      BY SMT, <2>1, <3>1 DEF Fraction
    <3>3. PICK c \in Nat \ {0} : c = Ceil(s.osc.mod_fract, mod_freq(s.osc))
      BY Zenon, <3>2, CeilIs
    <3>4. 1 <= c
      BY SMT
    <3> QED
      BY Zenon, <3>3, <3>4
  <2> QED
    BY Zenon, <1>2, <2>1 DEF Within
<1>4. PICK x, y : x = PassTo(s, end) /\ y = PassTo(s, later)
  OBVIOUS
<1>5. x = s
  BY Zenon, <1>2, <1>4, PassOfNoTime
<1>6. y \in FdsStretch(n) /\ Clocked(y, x)
  BY SMT, <1>2, <1>3, <1>4, PassClocked
<1> QED
  BY Zenon, <1>2, <1>4, <1>5, <1>6 DEF OneClock

LEMMA PassGoesOn ==
  ASSUME NEW n \in Nat, NEW t \in FdsStretch(n), NEW end \in t.end .. n, NEW later \in 0 .. n,
         later = end + 1, Within(t, later)
  PROVE  /\ PassTo(t, end) \in FdsStretch(n) /\ PassTo(t, end).end = end
         /\ PassTo(t, later) = OneClock(PassTo(t, end))
<1>1. PICK x, y : x = PassTo(t, end) /\ y = PassTo(t, later)
  OBVIOUS
<1>2. x \in FdsStretch(n) /\ y \in FdsStretch(n) /\ x.end = end /\ Clocked(y, x)
  BY SMT, <1>1, PassClocked
<1>3. x.end < n
  <2>1. x.end \in 0 .. n
    BY Zenon, <1>2, StretchFields
  <2> QED
    BY SMT, <1>2, <2>1
<1>4. OneClock(x) \in FdsStretch(n) /\ Clocked(OneClock(x), x)
  BY Zenon, <1>2, <1>3, ClockIs
<1>5. y = OneClock(x)
  BY Zenon, <1>2, <1>4, ClockedOnce
<1> QED
  BY Zenon, <1>1, <1>2, <1>5

(* The units, stepped or not.                                              *)
UnitNow(u, time, end) == IF time <= end THEN Stepped(u) ELSE u
TimeNow(o, u, time, end) == time + IF time <= end THEN UnitPeriod(o, u) ELSE 0

UnitsLeave(t, s) ==
  /\ FixedAs(t.osc, s.osc) /\ ModsAs(t.osc, s.osc) /\ WaveAs(t.osc, s.osc)
  /\ t.osc.sweep = UnitNow(s.osc.sweep, s.sweep_time, s.end)
  /\ t.osc.env = UnitNow(s.osc.env, s.env_time, s.end)
  /\ t.sweep_time = TimeNow(s.osc, s.osc.sweep, s.sweep_time, s.end)
  /\ t.env_time = TimeNow(s.osc, s.osc.env, s.env_time, s.end)
  /\ t.deltas = s.deltas /\ t.end = s.end

LEMMA UnitsAre ==
  ASSUME NEW n \in Nat, NEW s \in FdsStretch(n), NEW t, t = UnitsStepped(s)
  PROVE  UnitsLeave(t, s)
<1> DEFINE o == s.osc
           sweep == IF s.sweep_time <= s.end THEN Stepped(o.sweep) ELSE o.sweep
           env == IF s.env_time <= s.end THEN Stepped(o.env) ELSE o.env
           sweep_time == s.sweep_time + IF s.sweep_time <= s.end THEN UnitPeriod(o, o.sweep) ELSE 0
           env_time == s.env_time + IF s.env_time <= s.end THEN UnitPeriod(o, o.env) ELSE 0
           osc2 == [o EXCEPT !.sweep = sweep, !.env = env]
           u == [s EXCEPT !.osc = osc2, !.sweep_time = sweep_time, !.env_time = env_time]
<1>1. o \in FdsState
  BY Zenon, StretchFields
<1>2. t = u
  BY Zenon DEF UnitsStepped, FdsStretch, FdsState
<1>3. /\ sweep = UnitNow(o.sweep, s.sweep_time, s.end) /\ env = UnitNow(o.env, s.env_time, s.end)
      /\ sweep_time = TimeNow(o, o.sweep, s.sweep_time, s.end)
      /\ env_time = TimeNow(o, o.env, s.env_time, s.end)
  BY Zenon DEF UnitNow, TimeNow
<1> HIDE DEF sweep, env, sweep_time, env_time
<1>4. osc2.sweep = sweep /\ osc2.env = env
  BY Zenon, <1>1 DEF FdsState
<1>5. FixedAs(osc2, o) /\ ModsAs(osc2, o) /\ WaveAs(osc2, o)
  BY Zenon, <1>1 DEF FdsState, FixedAs, ModsAs, WaveAs
<1> HIDE DEF osc2
<1>6. /\ u.osc = osc2 /\ u.deltas = s.deltas /\ u.end = s.end /\ u.sweep_time = sweep_time
      /\ u.env_time = env_time
  BY Zenon DEF FdsStretch
<1> HIDE DEF u
<1> QED
  BY Zenon, <1>2, <1>3, <1>4, <1>5, <1>6 DEF UnitsLeave, o

LEMMA NotDue ==
  ASSUME NEW n \in Nat, NEW s \in FdsStretch(n), Timely(s, n),
         s.end < s.sweep_time, s.end < s.env_time
  PROVE  UnitsStepped(s) = s
<1>1. PICK t : t = UnitsStepped(s)
  OBVIOUS
<1>2. t \in FdsStretch(n)
  BY Zenon, <1>1, UnitsAreStepped
<1>3. UnitsLeave(t, s)
  BY SMT, <1>1, UnitsAre
<1>4. s.end \in Nat /\ s.sweep_time \in Nat /\ s.env_time \in Nat
  BY SMT, StretchFields
<1>5. ~(s.sweep_time <= s.end) /\ ~(s.env_time <= s.end) /\ s.sweep_time + 0 = s.sweep_time
      /\ s.env_time + 0 = s.env_time
  BY SMT, <1>4
<1>6. /\ FixedAs(t.osc, s.osc) /\ ModsAs(t.osc, s.osc) /\ WaveAs(t.osc, s.osc)
      /\ t.osc.sweep = s.osc.sweep /\ t.osc.env = s.osc.env
      /\ t.sweep_time = s.sweep_time /\ t.env_time = s.env_time
      /\ t.deltas = s.deltas /\ t.end = s.end
  BY Zenon, <1>3, <1>5 DEF UnitsLeave, UnitNow, TimeNow
<1>7. t.osc = s.osc
  <2>1. t.osc \in FdsState /\ s.osc \in FdsState /\ UnitsAs(t.osc, s.osc)
    BY Zenon, <1>2, <1>6, StretchFields DEF UnitsAs
  <2> QED
    BY Zenon, <1>6, <2>1, SameFds
<1>8. t = s
  BY Zenon, <1>2, <1>6, <1>7, SameStretch
<1> QED
  BY Zenon, <1>1, <1>8

(* A run by the clock.                                                     *)
Tick(s) == OneClock(UnitsStepped(s))

LEMMA TickIsMade ==
  ASSUME NEW n \in Nat, NEW s \in Passed(n), s.end < n
  PROVE  /\ Tick(s) \in Passed(n) /\ Tick(s).end = s.end + 1
         /\ UnitsLeave(UnitsStepped(s), s) /\ Clocked(Tick(s), UnitsStepped(s))
         /\ UnitsStepped(s) \in FdsStretch(n) /\ Later(UnitsStepped(s), n)
<1>1. PICK t, x : t = UnitsStepped(s) /\ x = OneClock(t)
  OBVIOUS
<1>2. s \in FdsStretch(n) /\ Timely(s, n)
  BY Zenon DEF Passed
<1>3. t \in FdsStretch(n) /\ t.end = s.end /\ Timely(t, n) /\ Later(t, n)
  BY Zenon, <1>1, <1>2, UnitsAreStepped
<1>4. UnitsLeave(t, s)
  BY SMT, <1>1, <1>2, UnitsAre
<1>5. x \in FdsStretch(n) /\ Clocked(x, t)
  BY Zenon, <1>1, <1>3, ClockIs
<1>6. /\ FixedAs(x.osc, t.osc) /\ x.osc.sweep = t.osc.sweep /\ x.osc.env = t.osc.env
      /\ x.end = t.end + 1 /\ x.sweep_time = t.sweep_time /\ x.env_time = t.env_time
  BY Zenon, <1>5 DEF Clocked, UnitsAs
<1>7. t.sweep_time \in Nat /\ t.env_time \in Nat /\ t.end \in Nat
  BY SMT, <1>3, StretchFields
<1>8. t.end < t.sweep_time /\ t.end < t.env_time
  BY Zenon, <1>3 DEF Later
<1>9. x.end <= x.sweep_time /\ x.end <= x.env_time
  BY SMT, <1>6, <1>7, <1>8
<1>10. Timely(x, n)
  <2>1. /\ UnitPeriod(x.osc, x.osc.sweep) = UnitPeriod(t.osc, t.osc.sweep)
        /\ UnitPeriod(x.osc, x.osc.env) = UnitPeriod(t.osc, t.osc.env)
    <3>1. \A u : UnitPeriod(x.osc, u) = UnitPeriod(t.osc, u)
      BY SMT, <1>6, FixedIs
    <3> QED
      BY Zenon, <1>6, <3>1
  <2> QED
    BY Zenon, <1>3, <1>6, <1>9, <2>1 DEF Timely, OnTime
<1>11. x \in Passed(n)
  BY Zenon, <1>5, <1>10 DEF Passed
<1> QED
  BY Zenon, <1>1, <1>3, <1>4, <1>5, <1>6, <1>11 DEF Tick

Ticking(g, first, n) ==
  /\ g[0] = first /\ \A k \in 1 .. n : g[k] = Tick(g[k - 1])
  /\ \A k \in 0 .. n : g[k] \in Passed(n) /\ g[k].end = k

LEMMA TicksExist ==
  ASSUME NEW n \in Nat, NEW first \in Passed(n), first.end = 0
  PROVE  \E g : Ticking(g, first, n)
<1> DEFINE D == Passed(n)
           next(s) == IF s.end < n THEN Tick(s) ELSE s
           step == [x \in D \X (0 .. n) |-> next(x[1])]
<1>1. ASSUME NEW s \in D PROVE next(s) \in D
  BY Zenon, TickIsMade
<1>2. first \in D
  OBVIOUS
<1>3. ASSUME NEW s \in D, s.end < n PROVE next(s) = Tick(s) /\ next(s).end = s.end + 1
  BY Zenon, <1>3, TickIsMade
<1> HIDE DEF D, next
<1>4. ASSUME NEW d \in D, NEW k \in 0 .. n PROVE step[<<d, k>>] = next(d)
  BY Zenon
<1> HIDE DEF step
<1>5. PICK g \in [0 .. n -> D] : IsLoop(g, first, step, 0 .. n)
  <2>1. Closed(D, step, 0 .. n)
    BY Zenon, <1>1, <1>4 DEF Closed
  <2> QED
    BY Zenon, <1>2, <2>1, LoopExists
<1>6. g[0] = first
  BY Zenon, <1>5, Indices DEF IsLoop
<1>7. ASSUME NEW k \in 1 .. n PROVE g[k - 1] \in D /\ g[k] = next(g[k - 1])
  <2>1. k \in 0 .. n /\ k # 0 /\ k - 1 \in 0 .. n
    BY Zenon, Indices
  <2>2. g[k] = IF k = 0 THEN first ELSE step[<<g[k - 1], k>>]
    BY Zenon, <1>5, <2>1 DEF IsLoop
  <2> QED
    BY Zenon, <1>4, <1>5, <2>1, <2>2
<1> DEFINE S == {k \in 0 .. n : g[k].end = k}
<1>8. 0 .. n \subseteq S
  <2>1. 0 \in S
    BY Zenon, <1>6, Indices
  <2>2. ASSUME NEW k \in 1 .. n, k - 1 \in S PROVE k \in S
    <3>1. g[k - 1].end = k - 1 /\ g[k] = next(g[k - 1]) /\ g[k - 1] \in D /\ k \in 0 .. n
      BY Zenon, <1>7, <2>2, Indices
    <3>2. g[k - 1].end < n /\ g[k - 1].end + 1 = k
      BY SMT, <3>1
    <3>3. g[k].end = g[k - 1].end + 1
      BY Zenon, <1>3, <3>1, <3>2
    <3> QED
      BY Zenon, <3>1, <3>2, <3>3
  <2> HIDE DEF S
  <2> QED
    BY Zenon, <2>1, <2>2, Along
<1>9. ASSUME NEW k \in 1 .. n PROVE g[k] = Tick(g[k - 1])
  <2>1. g[k - 1].end = k - 1
    BY Zenon, <1>8, Indices
  <2>2. g[k - 1].end < n
    BY SMT, <2>1
  <2> QED
    BY Zenon, <1>3, <1>7, <2>2
<1>10. \A k \in 0 .. n : g[k] \in Passed(n) /\ g[k].end = k
  BY Zenon, <1>5, <1>8 DEF D
<1> QED
  BY Zenon, <1>6, <1>9, <1>10 DEF Ticking

(* A pass is so many clocks.                                               *)
LEMMA PassTicks ==
  ASSUME NEW n \in Nat, NEW g, NEW first, Ticking(g, first, n), NEW e \in 0 .. n, e < n
  PROVE  \E later \in 0 .. n : later > e /\ FdsPass(g[e], n) = g[later]
<1>1. PICK s \in Passed(n) : s = g[e] /\ s.end = e
  BY Zenon DEF Ticking
<1>2. s \in FdsStretch(n) /\ Timely(s, n) /\ s.end < n
  BY Zenon, <1>1 DEF Passed
<1>3. PICK t : t = UnitsStepped(s)
  OBVIOUS
<1>4. t \in FdsStretch(n) /\ t.end = e /\ Timely(t, n) /\ Later(t, n)
  BY Zenon, <1>1, <1>2, <1>3, UnitsAreStepped
<1>5. t.sweep_time \in Nat /\ t.env_time \in Nat
  BY Zenon, <1>4, StretchFields
<1>6. PICK end \in e .. n :
        /\ end = PassEnd(t, n) /\ end >= e + 1 /\ end <= t.sweep_time /\ end <= t.env_time
        /\ Within(t, end)
  <2>1. PICK last : last = PassEnd(t, n)
    OBVIOUS
  <2>2. /\ last \in t.end .. n /\ last <= t.sweep_time /\ last <= t.env_time
        /\ Later(t, n) /\ t.end < n => last >= t.end + 1
        /\ mod_freq(t.osc) # 0 => last - t.end <= Ceil(t.osc.mod_fract, mod_freq(t.osc))
    BY Zenon, <1>4, <2>1, PassEnds
  <2>3. Within(t, last)
    BY Zenon, <2>2 DEF Within
  <2>4. last \in e .. n /\ last >= e + 1
    <3>1. t.end < n
      BY Zenon, <1>4
    <3>2. last >= t.end + 1
      BY Zenon, <1>4, <2>2, <3>1
    <3> QED
      BY Zenon, <1>4, <2>2, <3>2
  <2> QED
    BY Zenon, <2>1, <2>2, <2>3, <2>4
<1>7. PICK len \in Nat : end = e + 1 + len
  <2>1. end - e - 1 \in Nat /\ end = e + 1 + (end - e - 1)
    BY SMT, <1>6
  <2> QED
    BY Zenon, <2>1
<1>8. ASSUME NEW x \in e .. end PROVE Within(t, x)
  <2>1. CASE mod_freq(t.osc) = 0
    BY Zenon, <2>1 DEF Within
  <2>2. CASE mod_freq(t.osc) # 0
    <3>1. PICK o \in FdsState : o = t.osc
      BY Zenon, <1>4, StretchFields
    <3>2. mod_freq(o) \in Nat \ {0} /\ o.mod_fract \in Nat \ {0}
      <4>1. mod_freq(o) \in Nat /\ o.mod_fract \in Fraction /\ fract_range \in Nat \ {0}
        BY Zenon, ModFreq, FdsFields, FdsConstants
      <4> QED
        BY SMT, <2>2, <3>1, <4>1 DEF Fraction
    <3>3. PICK c \in Nat : c = Ceil(o.mod_fract, mod_freq(o))
      BY Zenon, <3>2, CeilIs
    <3>4. end - e <= c
      BY Zenon, <1>4, <1>6, <2>2, <3>1, <3>3 DEF Within
    <3>5. x - e <= c
      BY SMT, <3>4
    <3> QED
      BY Zenon, <1>4, <3>1, <3>3, <3>5 DEF Within
  <2> QED
    BY Zenon, <2>1, <2>2
<1> DEFINE S == {j \in 0 .. len : PassTo(t, e + 1 + j) = g[e + 1 + j]}
<1>9. 0 \in S
  <2>1. e + 1 \in 1 .. n /\ (e + 1) - 1 = e /\ e + 1 + 0 = e + 1
    BY SMT
  <2>2. g[e + 1] = Tick(g[e])
    BY Zenon, <2>1 DEF Ticking
  <2>3. Tick(s) = PassTo(t, e + 1)
    BY Zenon, <1>3, <1>4 DEF Tick, OneClock
  <2> QED
    BY Zenon, <1>1, <2>1, <2>2, <2>3, Indices
<1>10. ASSUME NEW j \in 1 .. len, j - 1 \in S PROVE j \in S
  <2>1. PICK now \in e .. n, later \in 0 .. n :
          /\ now = e + 1 + (j - 1) /\ later = e + 1 + j /\ later = now + 1 /\ later \in e .. end
          /\ later \in 1 .. n /\ later - 1 = now /\ now \in 0 .. n /\ now \in t.end .. n
          /\ now < end
    BY SMT, <1>4, <1>6, <1>7
  <2>2. PICK x : x = g[now] /\ x = PassTo(t, now) /\ x \in Passed(n)
    BY Zenon, <1>10, <2>1 DEF Ticking
  <2>3. Within(t, later)
    BY Zenon, <1>8, <2>1
  <2>4. x.end = now /\ PassTo(t, later) = OneClock(x)
    BY SMT, <1>4, <2>1, <2>2, <2>3, PassGoesOn
  <2>5. x.sweep_time = t.sweep_time /\ x.env_time = t.env_time
    <3>1. now \in e .. end
      BY SMT, <2>1
    <3>2. Within(t, now)
      BY Zenon, <1>8, <3>1
    <3>3. PassLeaves(x, t, now)
      BY SMT, <1>4, <2>1, <2>2, <3>2, PassIs
    <3> QED
      BY Zenon, <3>3 DEF PassLeaves
  <2>6. x.end < x.sweep_time /\ x.end < x.env_time
    BY SMT, <1>5, <1>6, <2>1, <2>4, <2>5
  <2>7. UnitsStepped(x) = x
    BY Zenon, <2>2, <2>6, NotDue DEF Passed
  <2>8. g[later] = Tick(x)
    BY Zenon, <2>1, <2>2 DEF Ticking
  <2>9. PassTo(t, later) = g[later]
    BY Zenon, <2>4, <2>7, <2>8 DEF Tick
  <2> QED
    BY Zenon, <2>1, <2>9, Indices
<1> HIDE DEF S
<1>11. len \in S
  <2>1. 0 .. len \subseteq S
    BY Zenon, <1>9, <1>10, Along
  <2>2. len \in 0 .. len
    BY Zenon, Indices
  <2> QED
    BY Zenon, <2>1, <2>2
<1>12. PassTo(t, end) = g[end]
  BY Zenon, <1>7, <1>11 DEF S
<1>13. FdsPass(s, n) = g[end]
  BY Zenon, <1>3, <1>6, <1>12 DEF FdsPass, PassFrom
<1>14. end \in 0 .. n /\ end > e
  BY SMT, <1>6
<1> QED
  BY Zenon, <1>1, <1>13, <1>14

PassTrace(h, first, n) ==
  /\ h[0] = FdsPass(first, n)
  /\ \A k \in 1 .. n : h[k] = IF h[k - 1].end >= n THEN h[k - 1] ELSE FdsPass(h[k - 1], n)
  /\ FdsPasses(first, n) = h[n]

LEMMA PassesTraced ==
  ASSUME NEW n \in Nat, NEW first \in Passed(n)
  PROVE  \E h : PassTrace(h, first, n)
<1> DEFINE D == Passed(n)
           begun == FdsPass(first, n)
           next(s) == IF s.end >= n THEN s ELSE FdsPass(s, n)
           step == [x \in D \X (0 .. n) |-> next(x[1])]
           Eq(g) == g = [k \in 0 .. n |-> IF k = 0 THEN begun ELSE next(g[k - 1])]
<1>1. ASSUME NEW s \in D PROVE next(s) \in D
  BY Zenon, PassIsMade
<1>2. begun \in D
  BY Zenon, PassIsMade
<1> HIDE DEF D, next, begun
<1>3. ASSUME NEW d \in D, NEW k \in 0 .. n PROVE step[<<d, k>>] = next(d)
  BY Zenon
<1> HIDE DEF step
<1>4. PICK f \in [0 .. n -> D] : IsLoop(f, begun, step, 0 .. n)
  <2>1. Closed(D, step, 0 .. n)
    BY Zenon, <1>1, <1>3 DEF Closed
  <2> QED
    BY Zenon, <1>2, <2>1, LoopExists
<1>5. Eq(f)
  <2>1. ASSUME NEW k \in 0 .. n PROVE f[k] = IF k = 0 THEN begun ELSE next(f[k - 1])
    <3>1. f[k] = IF k = 0 THEN begun ELSE step[<<f[k - 1], k>>]
      BY Zenon, <1>4 DEF IsLoop
    <3>2. k # 0 => f[k - 1] \in D
      BY Zenon, <1>4, Indices
    <3> QED
      BY Zenon, <1>3, <3>1, <3>2
  <2> QED
    BY Zenon, <2>1
<1>6. PICK g : Eq(g) /\ FdsPasses(first, n) = g[n]
  <2>1. Eq(CHOOSE g : Eq(g))
    <3> HIDE DEF Eq
    <3> QED
      BY Zenon, <1>5
  <2>2. FdsPasses(first, n) = (CHOOSE g : Eq(g))[n]
    BY Zenon DEF FdsPasses, next, begun
  <2> HIDE DEF Eq
  <2> QED
    BY Zenon, <2>1, <2>2
<1>7. g[0] = begun /\ \A k \in 1 .. n : g[k] = next(g[k - 1])
  BY Zenon, <1>6, Indices
<1> QED
  BY Zenon, <1>6, <1>7 DEF PassTrace, begun, next

LEMMA PassesTick ==
  ASSUME NEW n \in Nat, n >= 1, NEW first \in Passed(n), NEW g, Ticking(g, first, n)
  PROVE  FdsPasses(first, n) = g[n]
<1>1. PICK h : PassTrace(h, first, n)
  BY Zenon, PassesTraced
<1> DEFINE S == {k \in 0 .. n : \E e \in 0 .. n : h[k] = g[e]}
<1>2. ASSUME NEW e \in 0 .. n PROVE g[e].end = e /\ (e >= n \/ e < n)
  <2>1. e >= n \/ e < n
    BY SMT
  <2> QED
    BY Zenon, <2>1 DEF Ticking
<1>3. 0 \in S
  <2>1. PICK e \in 0 .. n : e = 0 /\ e < n
    BY SMT
  <2>2. \E later \in 0 .. n : FdsPass(g[e], n) = g[later]
    BY Zenon, <2>1, PassTicks
  <2>3. h[0] = FdsPass(g[e], n)
    BY Zenon, <1>1, <2>1 DEF PassTrace, Ticking
  <2> QED
    BY Zenon, <2>2, <2>3, Indices
<1>4. ASSUME NEW k \in 1 .. n, k - 1 \in S PROVE k \in S
  <2>1. PICK e \in 0 .. n : h[k - 1] = g[e]
    BY Zenon, <1>4
  <2>2. h[k] = IF g[e].end >= n THEN g[e] ELSE FdsPass(g[e], n)
    BY Zenon, <1>1, <2>1 DEF PassTrace
  <2>3. \E later \in 0 .. n : h[k] = g[later]
    <3>1. CASE e >= n
      BY Zenon, <1>2, <2>2, <3>1
    <3>2. CASE e < n
      <4>1. ~(e >= n)
        BY SMT, <3>2
      <4>2. \E later \in 0 .. n : FdsPass(g[e], n) = g[later]
        BY Zenon, <3>2, PassTicks
      <4> QED
        BY Zenon, <1>2, <2>2, <4>1, <4>2
    <3> QED
      BY Zenon, <1>2, <3>1, <3>2
  <2> QED
    BY Zenon, <2>3, Indices
<1> HIDE DEF S
<1>5. n \in S
  <2>1. 0 .. n \subseteq S
    BY Zenon, <1>3, <1>4, Along
  <2>2. n \in 0 .. n
    BY Zenon, Indices
  <2> QED
    BY Zenon, <2>1, <2>2
<1>6. PICK e \in 0 .. n : h[n] = g[e]
  BY Zenon, <1>5 DEF S
<1>7. h[n].end = n
  BY Zenon, <1>1, PassesAreMade DEF PassTrace
<1> QED
  BY Zenon, <1>1, <1>2, <1>6, <1>7 DEF PassTrace

-----------------------------------------------------------------------------
(* A part of the run beside the whole, which has more before it and after  *)
(* it: a unit that does not step in the part may in the whole be due at    *)
(* its end only, or step and stay as it is.                                *)

SameUnit(v, u) == v.speed = u.speed /\ v.gain = u.gain /\ v.off = u.off /\ v.up = u.up

UnitBeside(v, soon, o, u, late, d, whole, n) ==
  /\ SameUnit(v, u)
  /\ \/ late = d + soon
     \/ soon = n /\ Idle(o, u) /\ (late = whole \/ Stepped(u) = u)

Rests(o, u, late, whole) == Idle(o, u) => late = whole \/ Stepped(u) = u

LEMMA SteppedIs ==
  ASSUME NEW u \in Unit
  PROVE  \/ /\ Stepped(u).off = TRUE /\ Stepped(u).gain = u.gain /\ Stepped(u).speed = u.speed
            /\ Stepped(u).up = u.up /\ Stepped(u).delay = u.delay /\ Stepped(Stepped(u)) = Stepped(u)
         \/ /\ Stepped(u).off = u.off /\ Stepped(u).gain # u.gain /\ Stepped(u).speed = u.speed
            /\ Stepped(u).up = u.up
<1> DEFINE gain == u.gain + (IF u.up THEN 1 ELSE -1)
           stuck == gain < 0 \/ (u.up /\ gain > gain_top)
           x == [u EXCEPT !.off = TRUE]
           y == [u EXCEPT !.gain = gain]
<1>1. Stepped(u) = IF stuck THEN x ELSE y
  BY Zenon DEF Stepped
<1>2. gain # u.gain
  <2>1. u.gain \in Int
    BY SMT, FdsConstants DEF Unit, Gain
  <2> QED
    BY SMT, <2>1
<1>3. /\ x.off = TRUE /\ x.gain = u.gain /\ x.speed = u.speed /\ x.up = u.up
      /\ x.delay = u.delay /\ x \in Unit
  BY Zenon DEF Unit
<1>4. y.off = u.off /\ y.speed = u.speed /\ y.up = u.up
  BY Zenon DEF Unit
<1>5. y.gain = gain
  BY Zenon DEF Unit
<1>6. stuck => Stepped(x) = x
  <2>1. [x EXCEPT !.off = TRUE] = x
    BY Zenon DEF Unit
  <2>2. stuck => Stepped(x) = [x EXCEPT !.off = TRUE]
    BY Zenon, <1>3 DEF Stepped
  <2> QED
    BY Zenon, <2>1, <2>2
<1> HIDE DEF stuck, gain, x, y
<1> QED
  BY Zenon, <1>1, <1>2, <1>3, <1>4, <1>5, <1>6

LEMMA SteppedAlike ==
  ASSUME NEW u \in Unit, NEW v \in Unit, SameUnit(v, u)
  PROVE  SameUnit(Stepped(v), Stepped(u))
<1> DEFINE gain == u.gain + (IF u.up THEN 1 ELSE -1)
           stuck == gain < 0 \/ (u.up /\ gain > gain_top)
           x(w) == [w EXCEPT !.off = TRUE]
           y(w) == [w EXCEPT !.gain = gain]
<1>1. /\ Stepped(u) = IF stuck THEN x(u) ELSE y(u)
      /\ Stepped(v) = IF stuck THEN x(v) ELSE y(v)
  BY Zenon DEF Stepped, SameUnit
<1>2. \A w \in Unit : /\ x(w).off = TRUE /\ x(w).gain = w.gain /\ x(w).speed = w.speed
                      /\ x(w).up = w.up
                      /\ y(w).off = w.off /\ y(w).gain = gain /\ y(w).speed = w.speed
                      /\ y(w).up = w.up
  BY Zenon DEF Unit
<1> HIDE DEF stuck, gain, x, y
<1>3. SameUnit(x(v), x(u)) /\ SameUnit(y(v), y(u))
  BY Zenon, <1>2 DEF SameUnit
<1> QED
  BY Zenon, <1>1, <1>3

LEMMA UnitsAlike ==
  ASSUME NEW v, NEW u, SameUnit(v, u), NEW x, NEW o, FixedAs(x, o)
  PROVE  UnitPeriod(x, v) = UnitPeriod(o, u) /\ (Idle(x, v) <=> Idle(o, u))
<1>1. UnitPeriod(x, v) = UnitPeriod(o, v)
  BY Zenon, FixedIs
<1>2. UnitPeriod(o, v) = UnitPeriod(o, u)
  BY Zenon DEF UnitPeriod, SameUnit
<1> QED
  BY Zenon, <1>1, <1>2 DEF Idle, SameUnit

LEMMA UnitStaysBeside ==
  ASSUME NEW whole \in Nat, NEW n \in Nat, NEW d \in Nat, d + n <= whole,
         NEW v \in Unit, NEW u \in Unit, NEW x \in FdsState, NEW o \in FdsState, FixedAs(x, o),
         NEW soon \in Nat, NEW late \in Nat, UnitBeside(v, soon, o, u, late, d, whole, n),
         NEW end \in Nat, end < n, NEW now, now = d + end
  PROVE  UnitBeside(UnitNow(v, soon, end), TimeNow(x, v, soon, end), o, UnitNow(u, late, now),
                    TimeNow(o, u, late, now), d, whole, n)
<1>1. SameUnit(v, u)
  BY Zenon DEF UnitBeside
<1>2. PICK p \in Nat : p = UnitPeriod(o, u) /\ p = UnitPeriod(x, v)
  <2>1. UnitPeriod(x, v) = UnitPeriod(o, u)
    BY SMT, <1>1, UnitsAlike
  <2>2. UnitPeriod(o, u) \in Nat
    BY Zenon, UnitPeriodIs
  <2> QED
    BY Zenon, <2>1, <2>2
<1>3. CASE late = d + soon
  <2>1. (late <= now) <=> (soon <= end)
    BY SMT, <1>3
  <2>2. SameUnit(UnitNow(v, soon, end), UnitNow(u, late, now))
    BY Zenon, <1>1, <2>1, SteppedAlike DEF UnitNow
  <2>3. TimeNow(o, u, late, now) = d + TimeNow(x, v, soon, end)
    <3>1. late + p = d + (soon + p) /\ late + 0 = d + (soon + 0)
      BY SMT, <1>3
    <3> QED
      BY Zenon, <1>2, <2>1, <3>1 DEF TimeNow
  <2> QED
    BY Zenon, <2>2, <2>3 DEF UnitBeside
<1>4. CASE soon = n /\ Idle(o, u) /\ (late = whole \/ Stepped(u) = u)
  <2>1. ~(soon <= end) /\ soon + 0 = soon
    BY SMT, <1>4
  <2>2. UnitNow(v, soon, end) = v /\ TimeNow(x, v, soon, end) = soon
    BY Zenon, <2>1 DEF UnitNow, TimeNow
  <2>3. UnitNow(u, late, now) = u /\ (TimeNow(o, u, late, now) = whole \/ Stepped(u) = u)
    <3>1. CASE late = whole
      <4>1. ~(late <= now) /\ late + 0 = late
        BY SMT, <3>1
      <4> QED
        BY Zenon, <3>1, <4>1 DEF UnitNow, TimeNow
    <3>2. CASE Stepped(u) = u
      BY Zenon, <3>2 DEF UnitNow
    <3> QED
      BY Zenon, <1>4, <3>1, <3>2
  <2> QED
    BY Zenon, <1>1, <1>4, <2>2, <2>3 DEF UnitBeside
<1> QED
  BY Zenon, <1>3, <1>4 DEF UnitBeside

LEMMA UnitRests ==
  ASSUME NEW whole \in Nat, NEW u \in Unit, NEW o \in FdsState, NEW late \in Nat,
         Rests(o, u, late, whole), NEW end \in Nat, end < whole
  PROVE  Rests(o, UnitNow(u, late, end), TimeNow(o, u, late, end), whole)
<1>1. CASE late <= end
  <2>1. late # whole
    BY SMT, <1>1
  <2>2. UnitNow(u, late, end) = Stepped(u)
    BY Zenon, <1>1 DEF UnitNow
  <2>3. Idle(o, Stepped(u)) => Stepped(Stepped(u)) = Stepped(u)
    <3>1. CASE Stepped(u) = u
      BY Zenon, <3>1
    <3>2. CASE ~Idle(o, u)
      <4>1. Stepped(u).speed = u.speed
        BY Zenon, UnitSteps
      <4>2. UnitPeriod(o, Stepped(u)) = UnitPeriod(o, u)
        BY Zenon, <4>1 DEF UnitPeriod
      <4>3. Idle(o, Stepped(u)) => Stepped(u).off /\ ~u.off
        BY Zenon, <3>2, <4>2 DEF Idle
      <4> QED
        BY Zenon, <4>3, SteppedIs
    <3> QED
      BY Zenon, <2>1, <3>1, <3>2 DEF Rests
  <2> QED
    BY Zenon, <2>2, <2>3 DEF Rests
<1>2. CASE ~(late <= end)
  <2>1. late + 0 = late
    BY SMT
  <2> QED
    BY Zenon, <1>2, <2>1 DEF UnitNow, TimeNow
<1> QED
  BY Zenon, <1>1, <1>2

Beside(r, s, d, whole, n) ==
  /\ s.end = d + r.end
  /\ FixedAs(r.osc, s.osc) /\ ModsAs(r.osc, s.osc) /\ WaveAs(r.osc, s.osc)
  /\ UnitBeside(r.osc.sweep, r.sweep_time, s.osc, s.osc.sweep, s.sweep_time, d, whole, n)
  /\ UnitBeside(r.osc.env, r.env_time, s.osc, s.osc.env, s.env_time, d, whole, n)

MovedAlike(z, r, y, s) ==
  \/ z.deltas = r.deltas /\ y.deltas = s.deltas
  \/ \E c \in Int : z.deltas = Moved(r.deltas, r.end + 1, c) /\ y.deltas = Moved(s.deltas, s.end + 1, c)

LEMMA UnitsBeside ==
  ASSUME NEW whole \in Nat, NEW n \in Nat, NEW d \in Nat, d + n <= whole,
         NEW r \in FdsStretch(n), NEW s \in FdsStretch(whole), Beside(r, s, d, whole, n), r.end < n,
         NEW z \in FdsStretch(n), UnitsLeave(z, r), NEW y \in FdsStretch(whole), UnitsLeave(y, s)
  PROVE  Beside(z, y, d, whole, n) /\ z.deltas = r.deltas /\ y.deltas = s.deltas
         /\ z.end = r.end /\ y.end = s.end
<1>1. PICK x \in FdsState, o \in FdsState, end \in Nat, now \in Nat :
        x = r.osc /\ o = s.osc /\ end = r.end /\ now = s.end /\ now = d + end
  <2>1. r.end \in Nat /\ s.end \in Nat
    BY SMT, StretchFields
  <2> QED
    BY Zenon, <2>1, StretchFields DEF Beside
<1>2. /\ r.sweep_time \in Nat /\ r.env_time \in Nat /\ s.sweep_time \in Nat /\ s.env_time \in Nat
      /\ x.sweep \in Unit /\ x.env \in Unit /\ o.sweep \in Unit /\ o.env \in Unit
  BY Zenon, <1>1, StretchFields
<1>3. /\ FixedAs(x, o) /\ ModsAs(x, o) /\ WaveAs(x, o)
      /\ UnitBeside(x.sweep, r.sweep_time, o, o.sweep, s.sweep_time, d, whole, n)
      /\ UnitBeside(x.env, r.env_time, o, o.env, s.env_time, d, whole, n)
  BY Zenon, <1>1 DEF Beside
<1>4. /\ FixedAs(z.osc, x) /\ ModsAs(z.osc, x) /\ WaveAs(z.osc, x)
      /\ z.osc.sweep = UnitNow(x.sweep, r.sweep_time, end)
      /\ z.osc.env = UnitNow(x.env, r.env_time, end)
      /\ z.sweep_time = TimeNow(x, x.sweep, r.sweep_time, end)
      /\ z.env_time = TimeNow(x, x.env, r.env_time, end)
      /\ z.deltas = r.deltas /\ z.end = end
  BY Zenon, <1>1 DEF UnitsLeave
<1>5. /\ FixedAs(y.osc, o) /\ ModsAs(y.osc, o) /\ WaveAs(y.osc, o)
      /\ y.osc.sweep = UnitNow(o.sweep, s.sweep_time, now)
      /\ y.osc.env = UnitNow(o.env, s.env_time, now)
      /\ y.sweep_time = TimeNow(o, o.sweep, s.sweep_time, now)
      /\ y.env_time = TimeNow(o, o.env, s.env_time, now)
      /\ y.deltas = s.deltas /\ y.end = now
  BY Zenon, <1>1 DEF UnitsLeave
<1>6. UnitBeside(z.osc.sweep, z.sweep_time, o, y.osc.sweep, y.sweep_time, d, whole, n)
  <2>1. UnitBeside(UnitNow(x.sweep, r.sweep_time, end), TimeNow(x, x.sweep, r.sweep_time, end), o,
                   UnitNow(o.sweep, s.sweep_time, now), TimeNow(o, o.sweep, s.sweep_time, now),
                   d, whole, n)
    <3>1. PICK v \in Unit, u \in Unit, soon \in Nat, late \in Nat :
            v = x.sweep /\ u = o.sweep /\ soon = r.sweep_time /\ late = s.sweep_time
      BY Zenon, <1>2
    <3>2. UnitBeside(v, soon, o, u, late, d, whole, n) /\ end < n
      BY Zenon, <1>1, <1>3, <3>1
    <3>3. UnitBeside(UnitNow(v, soon, end), TimeNow(x, v, soon, end), o, UnitNow(u, late, now),
                     TimeNow(o, u, late, now), d, whole, n)
      BY SMT, <1>1, <1>3, <3>2, UnitStaysBeside
    <3> QED
      BY Zenon, <3>1, <3>3
  <2> QED
    BY Zenon, <1>4, <1>5, <2>1
<1>7. UnitBeside(z.osc.env, z.env_time, o, y.osc.env, y.env_time, d, whole, n)
  <2>1. UnitBeside(UnitNow(x.env, r.env_time, end), TimeNow(x, x.env, r.env_time, end), o,
                   UnitNow(o.env, s.env_time, now), TimeNow(o, o.env, s.env_time, now),
                   d, whole, n)
    <3>1. PICK v \in Unit, u \in Unit, soon \in Nat, late \in Nat :
            v = x.env /\ u = o.env /\ soon = r.env_time /\ late = s.env_time
      BY Zenon, <1>2
    <3>2. UnitBeside(v, soon, o, u, late, d, whole, n) /\ end < n
      BY Zenon, <1>1, <1>3, <3>1
    <3>3. UnitBeside(UnitNow(v, soon, end), TimeNow(x, v, soon, end), o, UnitNow(u, late, now),
                     TimeNow(o, u, late, now), d, whole, n)
      BY SMT, <1>1, <1>3, <3>2, UnitStaysBeside
    <3> QED
      BY Zenon, <3>1, <3>3
  <2> QED
    BY Zenon, <1>4, <1>5, <2>1
<1>8. \A u : Idle(y.osc, u) <=> Idle(o, u)
  BY Zenon, <1>5, FixedIs
<1>9. /\ UnitBeside(z.osc.sweep, z.sweep_time, y.osc, y.osc.sweep, y.sweep_time, d, whole, n)
      /\ UnitBeside(z.osc.env, z.env_time, y.osc, y.osc.env, y.env_time, d, whole, n)
  BY Zenon, <1>6, <1>7, <1>8 DEF UnitBeside
<1>10. FixedAs(z.osc, y.osc) /\ ModsAs(z.osc, y.osc) /\ WaveAs(z.osc, y.osc)
  <2>1. FixedAs(o, y.osc) /\ ModsAs(o, y.osc) /\ WaveAs(o, y.osc)
    BY Zenon, <1>5 DEF FixedAs, ModsAs, WaveAs
  <2>2. FixedAs(x, y.osc) /\ ModsAs(x, y.osc) /\ WaveAs(x, y.osc)
    BY Zenon, <1>3, <2>1, AsAgain
  <2> QED
    BY Zenon, <1>4, <2>2, AsAgain
<1> QED
  BY Zenon, <1>1, <1>4, <1>5, <1>9, <1>10 DEF Beside

LEMMA ModsAlike ==
  ASSUME NEW x, NEW o, ModsAs(x, o), FixedAs(x, o), NEW z, NEW y, NEW left, ModsTo(z, x, left),
         ModsTo(y, o, left)
  PROVE  ModsAs(z, y)
<1>1. x.mod_pos = o.mod_pos /\ x.bias = o.bias /\ x.mod_wave = o.mod_wave
  BY Zenon DEF ModsAs, FixedAs
<1>2. Entered(x, z.bias) <=> Entered(o, z.bias)
  BY Zenon, <1>1 DEF Entered
<1>3. ModsTo(z, o, left)
  BY Zenon, <1>1, <1>2 DEF ModsTo
<1> QED
  BY SMT, <1>3, ModsOnce

LEMMA ClockBeside ==
  ASSUME NEW whole \in Nat, NEW n \in Nat, NEW d \in Nat,
         NEW r \in FdsStretch(n), NEW s \in FdsStretch(whole), Beside(r, s, d, whole, n),
         NEW z \in FdsStretch(n), Clocked(z, r), NEW y \in FdsStretch(whole), Clocked(y, s)
  PROVE  Beside(z, y, d, whole, n) /\ MovedAlike(z, r, y, s)
<1>1. PICK x \in FdsState, o \in FdsState, freq \in Int, f \in Nat :
        x = r.osc /\ o = s.osc /\ freq = Freq(o) /\ f = mod_freq(o)
  BY Zenon, StretchFields, FreqIsBounded, ModFreq
<1>2. /\ FixedAs(x, o) /\ ModsAs(x, o) /\ WaveAs(x, o) /\ s.end = d + r.end
      /\ UnitBeside(x.sweep, r.sweep_time, o, o.sweep, s.sweep_time, d, whole, n)
      /\ UnitBeside(x.env, r.env_time, o, o.env, s.env_time, d, whole, n)
  BY Zenon, <1>1 DEF Beside
<1>3. SameUnit(x.sweep, o.sweep) /\ SameUnit(x.env, o.env)
  BY Zenon, <1>2 DEF UnitBeside
<1>4. mod_freq(x) = f /\ Freq(x) = freq
  BY Zenon, <1>1, <1>2, <1>3, FixedIs DEF ModsAs, SameUnit
<1>5. /\ FixedAs(z.osc, x) /\ UnitsAs(z.osc, x) /\ ModsTo(z.osc, x, x.mod_fract - f)
      /\ WaveTicks(z, r, freq)
      /\ z.end = r.end + 1 /\ z.sweep_time = r.sweep_time /\ z.env_time = r.env_time
  BY Zenon, <1>1, <1>4 DEF Clocked
<1>6. /\ FixedAs(y.osc, o) /\ UnitsAs(y.osc, o) /\ ModsTo(y.osc, o, o.mod_fract - f)
      /\ WaveTicks(y, s, freq)
      /\ y.end = s.end + 1 /\ y.sweep_time = s.sweep_time /\ y.env_time = s.env_time
  BY Zenon, <1>1 DEF Clocked
<1>7. FixedAs(z.osc, y.osc)
  <2>1. FixedAs(o, y.osc)
    BY Zenon, <1>6, AsAgain
  <2>2. FixedAs(x, y.osc)
    BY Zenon, <1>2, <2>1, AsAgain
  <2> QED
    BY Zenon, <1>5, <2>2, AsAgain
<1>8. ModsAs(z.osc, y.osc)
  <2>1. PICK left : left = o.mod_fract - f /\ left = x.mod_fract - f
    BY Zenon, <1>2 DEF ModsAs
  <2>2. ModsTo(z.osc, x, left) /\ ModsTo(y.osc, o, left)
    BY Zenon, <1>5, <1>6, <2>1
  <2> QED
    BY SMT, <1>2, <2>2, ModsAlike
<1>9. \A u : Idle(y.osc, u) <=> Idle(o, u)
  BY Zenon, <1>6, FixedIs
<1>10. /\ UnitBeside(z.osc.sweep, z.sweep_time, y.osc, y.osc.sweep, y.sweep_time, d, whole, n)
       /\ UnitBeside(z.osc.env, z.env_time, y.osc, y.osc.env, y.env_time, d, whole, n)
  BY Zenon, <1>2, <1>5, <1>6, <1>9 DEF UnitBeside, UnitsAs
<1>11. y.end = d + z.end
  <2>1. r.end \in Nat
    BY SMT, StretchFields
  <2> QED
    BY SMT, <1>2, <1>5, <1>6, <2>1
<1>12. FdsLevel(x) = FdsLevel(o)
  <2>1. x.wave = o.wave /\ x.master = o.master
    BY Zenon, <1>2 DEF FixedAs
  <2>2. x.wave_pos = o.wave_pos /\ x.env.gain = o.env.gain
    BY Zenon, <1>2, <1>3 DEF WaveAs, SameUnit
  <2> QED
    BY Zenon, <2>1, <2>2 DEF FdsLevel
<1>13. WaveAs(z.osc, y.osc) /\ MovedAlike(z, r, y, s)
  <2>1. x.wave_fract = o.wave_fract /\ x.wave_pos = o.wave_pos /\ x.last_amp = o.last_amp
    BY Zenon, <1>2 DEF WaveAs
  <2>2. CASE freq <= 0
    <3>1. /\ WaveAs(z.osc, x) /\ z.deltas = r.deltas
          /\ WaveAs(y.osc, o) /\ y.deltas = s.deltas
      BY Zenon, <1>1, <1>5, <1>6, <2>2 DEF WaveTicks
    <3> QED
      BY Zenon, <2>1, <3>1 DEF WaveAs, MovedAlike
  <2>3. CASE ~(freq <= 0) /\ o.wave_fract > freq
    <3>1. WaveRests(z, r, freq) /\ WaveRests(y, s, freq)
      BY Zenon, <1>1, <1>5, <1>6, <2>1, <2>3 DEF WaveTicks
    <3> QED
      BY Zenon, <1>1, <2>1, <3>1 DEF WaveRests, WaveAs, MovedAlike
  <2>4. CASE ~(freq <= 0) /\ ~(o.wave_fract > freq)
    <3>1. WaveSteps(z, r, freq) /\ WaveSteps(y, s, freq)
      BY Zenon, <1>1, <1>5, <1>6, <2>1, <2>4 DEF WaveTicks
    <3>2. WaveAs(z.osc, y.osc)
      BY Zenon, <1>1, <1>12, <2>1, <3>1 DEF WaveSteps, WaveAs
    <3>3. PICK c : c = FdsLevel(o) - o.last_amp
      OBVIOUS
    <3>4. c \in Int
      <4>1. FdsLevel(o) \in Nat /\ o.last_amp \in Int
        BY Zenon, FdsLevelIs
      <4> QED
        BY SMT, <3>3, <4>1
    <3>5. z.deltas = Moved(r.deltas, r.end + 1, c) /\ y.deltas = Moved(s.deltas, s.end + 1, c)
      BY Zenon, <1>1, <1>12, <2>1, <3>1, <3>3 DEF WaveSteps
    <3> QED
      BY Zenon, <3>2, <3>4, <3>5 DEF MovedAlike
  <2> QED
    BY Zenon, <2>2, <2>3, <2>4
<1> QED
  BY Zenon, <1>7, <1>8, <1>10, <1>11, <1>13 DEF Beside

LEMMA TickBeside ==
  ASSUME NEW whole \in Nat, NEW n \in Nat, NEW d \in Nat, d + n <= whole,
         NEW r \in Passed(n), NEW s \in Passed(whole), Beside(r, s, d, whole, n), r.end < n
  PROVE  Beside(Tick(r), Tick(s), d, whole, n) /\ MovedAlike(Tick(r), r, Tick(s), s)
<1>1. r \in FdsStretch(n) /\ s \in FdsStretch(whole)
  BY Zenon DEF Passed
<1>2. s.end < whole
  <2>1. r.end \in Nat /\ s.end = d + r.end
    BY SMT, <1>1, StretchFields DEF Beside
  <2> QED
    BY SMT, <2>1
<1>3. PICK w, t, z, y :
        w = UnitsStepped(r) /\ t = UnitsStepped(s) /\ z = Tick(r) /\ y = Tick(s)
  OBVIOUS
<1>4. /\ z \in FdsStretch(n) /\ UnitsLeave(w, r) /\ Clocked(z, w) /\ w \in FdsStretch(n)
  BY Zenon, <1>3, TickIsMade DEF Passed
<1>5. /\ y \in FdsStretch(whole) /\ UnitsLeave(t, s) /\ Clocked(y, t) /\ t \in FdsStretch(whole)
  BY Zenon, <1>2, <1>3, TickIsMade DEF Passed
<1>6. /\ Beside(w, t, d, whole, n) /\ w.deltas = r.deltas /\ t.deltas = s.deltas
      /\ w.end = r.end /\ t.end = s.end
  BY SMT, <1>1, <1>4, <1>5, UnitsBeside
<1>7. Beside(z, y, d, whole, n) /\ MovedAlike(z, w, y, t)
  BY Zenon, <1>4, <1>5, <1>6, ClockBeside
<1> QED
  BY Zenon, <1>3, <1>6, <1>7 DEF MovedAlike

LEMMA TicksBeside ==
  ASSUME NEW whole \in Nat, NEW n \in Nat, NEW d \in Nat, d + n <= whole,
         NEW first, NEW g, Ticking(g, first, whole), NEW begin, NEW a, Ticking(a, begin, n),
         Beside(a[0], g[d], d, whole, n)
  PROVE  /\ \A k \in 0 .. n : Beside(a[k], g[d + k], d, whole, n)
         /\ \A k \in 1 .. n : MovedAlike(a[k], a[k - 1], g[d + k], g[d + (k - 1)])
<1>1. ASSUME NEW k \in 1 .. n, Beside(a[k - 1], g[d + (k - 1)], d, whole, n)
      PROVE  /\ Beside(a[k], g[d + k], d, whole, n)
             /\ MovedAlike(a[k], a[k - 1], g[d + k], g[d + (k - 1)])
  <2>1. PICK i \in 0 .. n, j \in 0 .. whole, later \in 1 .. whole :
          i = k - 1 /\ j = d + (k - 1) /\ later = d + k /\ later - 1 = j /\ i < n
    BY SMT
  <2>2. PICK r \in Passed(n), s \in Passed(whole) : r = a[i] /\ s = g[j] /\ r.end = i
    BY Zenon DEF Ticking
  <2>3. a[k] = Tick(r) /\ g[later] = Tick(s)
    BY Zenon, <2>1, <2>2 DEF Ticking
  <2>4. Beside(r, s, d, whole, n) /\ r.end < n
    BY Zenon, <1>1, <2>1, <2>2
  <2>5. Beside(Tick(r), Tick(s), d, whole, n) /\ MovedAlike(Tick(r), r, Tick(s), s)
    BY Zenon, <2>4, TickBeside
  <2> QED
    BY Zenon, <2>1, <2>2, <2>3, <2>5
<1> DEFINE S == {k \in 0 .. n : Beside(a[k], g[d + k], d, whole, n)}
<1>2. 0 \in S
  <2>1. d + 0 = d
    BY SMT
  <2> QED
    BY Zenon, <2>1, Indices
<1>3. ASSUME NEW k \in 1 .. n, k - 1 \in S PROVE k \in S
  BY Zenon, <1>1, <1>3, Indices
<1>4. 0 .. n \subseteq S
  <2> HIDE DEF S
  <2> QED
    BY Zenon, <1>2, <1>3, Along
<1>5. \A k \in 1 .. n : k - 1 \in S
  BY Zenon, <1>4, Indices
<1> QED
  BY Zenon, <1>1, <1>4, <1>5

(* The units of the whole.                                                 *)
Resting(s, whole) ==
  /\ Rests(s.osc, s.osc.sweep, s.sweep_time, whole)
  /\ Rests(s.osc, s.osc.env, s.env_time, whole)

LEMMA TickRests ==
  ASSUME NEW whole \in Nat, NEW s \in Passed(whole), s.end < whole, Resting(s, whole)
  PROVE  Resting(Tick(s), whole)
<1>1. PICK t, y : t = UnitsStepped(s) /\ y = Tick(s)
  OBVIOUS
<1>2. UnitsLeave(t, s) /\ Clocked(y, t)
  BY Zenon, <1>1, TickIsMade
<1>3. PICK o \in FdsState, end \in Nat : o = s.osc /\ end = s.end
  <2>1. s \in FdsStretch(whole)
    BY Zenon DEF Passed
  <2>2. s.end \in Nat
    BY SMT, <2>1, StretchFields
  <2> QED
    BY Zenon, <2>1, <2>2, StretchFields
<1>4. /\ FixedAs(y.osc, t.osc) /\ FixedAs(t.osc, o)
      /\ y.osc.sweep = UnitNow(o.sweep, s.sweep_time, end)
      /\ y.osc.env = UnitNow(o.env, s.env_time, end)
      /\ y.sweep_time = TimeNow(o, o.sweep, s.sweep_time, end)
      /\ y.env_time = TimeNow(o, o.env, s.env_time, end)
  BY Zenon, <1>2, <1>3 DEF UnitsLeave, Clocked, UnitsAs
<1>5. \A u : Idle(y.osc, u) <=> Idle(o, u)
  BY Zenon, <1>4, FixedIs, AsAgain
<1>6. s.sweep_time \in Nat /\ s.env_time \in Nat /\ o.sweep \in Unit /\ o.env \in Unit
  BY Zenon, <1>3, StretchFields DEF Passed
<1>7. Rests(o, UnitNow(o.sweep, s.sweep_time, end), TimeNow(o, o.sweep, s.sweep_time, end), whole)
  <2>1. Rests(o, o.sweep, s.sweep_time, whole)
    BY Zenon, <1>3 DEF Resting
  <2> QED
    BY Zenon, <1>3, <1>6, <2>1, UnitRests
<1>8. Rests(o, UnitNow(o.env, s.env_time, end), TimeNow(o, o.env, s.env_time, end), whole)
  <2>1. Rests(o, o.env, s.env_time, whole)
    BY Zenon, <1>3 DEF Resting
  <2> QED
    BY Zenon, <1>3, <1>6, <2>1, UnitRests
<1>9. Resting(y, whole)
  BY Zenon, <1>4, <1>5, <1>7, <1>8 DEF Resting, Rests
<1> QED
  BY Zenon, <1>1, <1>9

LEMMA TicksRest ==
  ASSUME NEW whole \in Nat, NEW first, NEW g, Ticking(g, first, whole), Resting(first, whole)
  PROVE  \A k \in 0 .. whole : Resting(g[k], whole)
<1> DEFINE S == {k \in 0 .. whole : Resting(g[k], whole)}
<1>1. 0 \in S
  BY Zenon, Indices DEF Ticking
<1>2. ASSUME NEW k \in 1 .. whole, k - 1 \in S PROVE k \in S
  <2>1. PICK j \in 0 .. whole : j = k - 1 /\ j < whole
    BY SMT
  <2>2. PICK s \in Passed(whole) : s = g[j] /\ s.end = j
    BY Zenon DEF Ticking
  <2>3. g[k] = Tick(s)
    BY Zenon, <2>1, <2>2 DEF Ticking
  <2>4. Resting(s, whole)
    BY Zenon, <1>2, <2>1, <2>2
  <2>5. Resting(g[k], whole)
    BY Zenon, <2>1, <2>2, <2>3, <2>4, TickRests
  <2> QED
    BY Zenon, <2>5, Indices
<1> HIDE DEF S
<1>3. 0 .. whole \subseteq S
  BY Zenon, <1>1, <1>2, Along
<1> QED
  BY Zenon, <1>3 DEF S

(* The first part begins, the second begins, and both end beside the whole.*)
LEMMA FdsFirstIs ==
  ASSUME NEW o \in FdsState, NEW n \in Nat, NEW first, first = FdsFirst(o, n)
  PROVE  /\ first \in Passed(n) /\ first.osc = o /\ first.end = 0 /\ first.deltas = Silence(n)
         /\ first.sweep_time = IF Idle(o, o.sweep) THEN n ELSE o.sweep.delay
         /\ first.env_time = IF Idle(o, o.env) THEN n ELSE o.env.delay
         /\ Resting(first, n)
<1>1. first \in Passed(n)
  BY Zenon, FdsBegins, FdsFields DEF LedPassed
<1>2. /\ first.osc = o /\ first.end = 0 /\ first.deltas = Silence(n)
      /\ first.sweep_time = IF Idle(o, o.sweep) THEN n ELSE o.sweep.delay
      /\ first.env_time = IF Idle(o, o.env) THEN n ELSE o.env.delay
  <2> DEFINE sweep_time == IF Idle(o, o.sweep) THEN n ELSE o.sweep.delay
             env_time == IF Idle(o, o.env) THEN n ELSE o.env.delay
  <2>1. first = [osc |-> o, deltas |-> Silence(n), end |-> 0, sweep_time |-> sweep_time,
                 env_time |-> env_time]
    BY Zenon DEF FdsFirst
  <2> HIDE DEF sweep_time, env_time
  <2>2. /\ first.osc = o /\ first.end = 0 /\ first.deltas = Silence(n)
        /\ first.sweep_time = sweep_time /\ first.env_time = env_time
    BY SMT, <2>1
  <2> QED
    BY Zenon, <2>2 DEF sweep_time, env_time
<1> QED
  BY Zenon, <1>1, <1>2 DEF Resting, Rests

LEMMA FirstBeside ==
  ASSUME NEW o \in FdsState, NEW m \in Nat, NEW n \in Nat, NEW a, a = FdsFirst(o, m),
         NEW g, g = FdsFirst(o, m + n)
  PROVE  Beside(a, g, 0, m + n, m)
<1>1. m + n \in Nat /\ 0 + 0 = 0 /\ o.sweep.delay \in Nat /\ o.env.delay \in Nat
  BY SMT, FdsFields DEF Unit
<1>2. /\ a.osc = o /\ a.end = 0
      /\ a.sweep_time = IF Idle(o, o.sweep) THEN m ELSE o.sweep.delay
      /\ a.env_time = IF Idle(o, o.env) THEN m ELSE o.env.delay
  BY SMT, FdsFirstIs
<1>3. /\ g.osc = o /\ g.end = 0
      /\ g.sweep_time = IF Idle(o, o.sweep) THEN m + n ELSE o.sweep.delay
      /\ g.env_time = IF Idle(o, o.env) THEN m + n ELSE o.env.delay
  BY SMT, <1>1, FdsFirstIs
<1>4. 0 + o.sweep.delay = o.sweep.delay /\ 0 + o.env.delay = o.env.delay
  BY SMT, <1>1
<1>5. SameUnit(o.sweep, o.sweep) /\ SameUnit(o.env, o.env)
  BY Zenon DEF SameUnit
<1>6. UnitBeside(o.sweep, a.sweep_time, o, o.sweep, g.sweep_time, 0, m + n, m)
  BY Zenon, <1>2, <1>3, <1>4, <1>5 DEF UnitBeside
<1>7. UnitBeside(o.env, a.env_time, o, o.env, g.env_time, 0, m + n, m)
  BY Zenon, <1>2, <1>3, <1>4, <1>5 DEF UnitBeside
<1> QED
  BY Zenon, <1>1, <1>2, <1>3, <1>6, <1>7, AsIs DEF Beside

Delayed(x, o, sweep_delay, env_delay) ==
  /\ FixedAs(x, o) /\ ModsAs(x, o) /\ WaveAs(x, o)
  /\ SameUnit(x.sweep, o.sweep) /\ x.sweep.delay = sweep_delay
  /\ SameUnit(x.env, o.env) /\ x.env.delay = env_delay

LEMMA RunEndIs ==
  ASSUME NEW n \in Nat, NEW s \in FdsStretch(n), NEW x, x = FdsRunEnd(s, n).osc
  PROVE  Delayed(x, s.osc, s.sweep_time - n, s.env_time - n) /\ FdsRunEnd(s, n).deltas = s.deltas
<1> DEFINE o == s.osc
           late == s.sweep_time - n
           later == s.env_time - n
           sweep == [o.sweep EXCEPT !.delay = late]
           env == [o.env EXCEPT !.delay = later]
           y == [o EXCEPT !.sweep = sweep, !.env = env]
<1>1. o \in FdsState /\ o.sweep \in Unit /\ o.env \in Unit
  BY Zenon, StretchFields
<1>2. x = [o EXCEPT !.sweep.delay = late, !.env.delay = later] /\ FdsRunEnd(s, n).deltas = s.deltas
  BY Zenon DEF FdsRunEnd
<1>3. [o EXCEPT !.sweep.delay = late, !.env.delay = later] = y
  BY Zenon, <1>1 DEF FdsState
<1> HIDE DEF late, later
<1>4. SameUnit(sweep, o.sweep) /\ sweep.delay = late /\ SameUnit(env, o.env) /\ env.delay = later
  BY Zenon, <1>1 DEF Unit, SameUnit
<1> HIDE DEF sweep, env
<1>5. FixedAs(y, o) /\ ModsAs(y, o) /\ WaveAs(y, o)
  BY Zenon, <1>1 DEF FdsState, FixedAs, ModsAs, WaveAs
<1>6. y.sweep = sweep /\ y.env = env
  BY Zenon, <1>1 DEF FdsState
<1> HIDE DEF y
<1> QED
  BY Zenon, <1>2, <1>3, <1>4, <1>5, <1>6 DEF Delayed, late, later

LEMMA UnitBegins ==
  ASSUME NEW m \in Nat, NEW n \in Nat, NEW v, NEW r, NEW u, NEW x, NEW o, FixedAs(x, o),
         SameUnit(v, r), NEW soon \in Nat, NEW late \in Nat,
         UnitBeside(r, soon, o, u, late, 0, m + n, m), Rests(o, u, late, m + n),
         NEW time, time = IF Idle(x, v) THEN n ELSE soon - m
  PROVE  UnitBeside(v, time, o, u, late, m, m + n, n)
<1>1. SameUnit(v, u)
  BY Zenon DEF UnitBeside, SameUnit
<1>2. Idle(x, v) <=> Idle(o, u)
  BY Zenon, <1>1, UnitsAlike
<1>3. CASE Idle(o, u)
  <2>1. time = n /\ (late = m + n \/ Stepped(u) = u)
    BY Zenon, <1>2, <1>3 DEF Rests
  <2> QED
    BY Zenon, <1>1, <1>3, <2>1 DEF UnitBeside
<1>4. CASE ~Idle(o, u)
  <2>1. late = 0 + soon /\ time = soon - m
    BY Zenon, <1>2, <1>4 DEF UnitBeside
  <2>2. late = m + time
    BY SMT, <2>1
  <2> QED
    BY Zenon, <1>1, <2>2 DEF UnitBeside
<1> QED
  BY Zenon, <1>3, <1>4

LEMMA SecondBeside ==
  ASSUME NEW m \in Nat, NEW n \in Nat, NEW a \in Passed(m), NEW s \in Passed(m + n),
         Beside(a, s, 0, m + n, m), s.end = m, Resting(s, m + n),
         NEW x \in FdsState, x = FdsRunEnd(a, m).osc, NEW b, b = FdsFirst(x, n)
  PROVE  Beside(b, s, m, m + n, n)
<1>1. a \in FdsStretch(m) /\ s \in FdsStretch(m + n) /\ m + n \in Nat
  BY SMT DEF Passed
<1>2. a.sweep_time \in Nat /\ a.env_time \in Nat /\ s.sweep_time \in Nat /\ s.env_time \in Nat
  BY Zenon, <1>1, StretchFields
<1>3. Delayed(x, a.osc, a.sweep_time - m, a.env_time - m)
  BY SMT, <1>1, RunEndIs
<1>4. /\ b.osc = x /\ b.end = 0
      /\ b.sweep_time = IF Idle(x, x.sweep) THEN n ELSE x.sweep.delay
      /\ b.env_time = IF Idle(x, x.env) THEN n ELSE x.env.delay
  BY SMT, FdsFirstIs
<1>5. /\ FixedAs(x, a.osc) /\ ModsAs(x, a.osc) /\ WaveAs(x, a.osc)
      /\ SameUnit(x.sweep, a.osc.sweep) /\ x.sweep.delay = a.sweep_time - m
      /\ SameUnit(x.env, a.osc.env) /\ x.env.delay = a.env_time - m
  BY Zenon, <1>3 DEF Delayed
<1>6. /\ FixedAs(a.osc, s.osc) /\ ModsAs(a.osc, s.osc) /\ WaveAs(a.osc, s.osc)
      /\ UnitBeside(a.osc.sweep, a.sweep_time, s.osc, s.osc.sweep, s.sweep_time, 0, m + n, m)
      /\ UnitBeside(a.osc.env, a.env_time, s.osc, s.osc.env, s.env_time, 0, m + n, m)
  BY Zenon DEF Beside
<1>7. FixedAs(x, s.osc) /\ ModsAs(x, s.osc) /\ WaveAs(x, s.osc)
  BY Zenon, <1>5, <1>6, AsAgain
<1>8. UnitBeside(x.sweep, b.sweep_time, s.osc, s.osc.sweep, s.sweep_time, m, m + n, n)
  <2>1. b.sweep_time = IF Idle(x, x.sweep) THEN n ELSE a.sweep_time - m
    BY Zenon, <1>4, <1>5
  <2>2. Rests(s.osc, s.osc.sweep, s.sweep_time, m + n)
    BY Zenon DEF Resting
  <2> QED
    BY SMT, <1>2, <1>5, <1>6, <1>7, <2>1, <2>2, UnitBegins
<1>9. UnitBeside(x.env, b.env_time, s.osc, s.osc.env, s.env_time, m, m + n, n)
  <2>1. b.env_time = IF Idle(x, x.env) THEN n ELSE a.env_time - m
    BY Zenon, <1>4, <1>5
  <2>2. Rests(s.osc, s.osc.env, s.env_time, m + n)
    BY Zenon DEF Resting
  <2> QED
    BY SMT, <1>2, <1>5, <1>6, <1>7, <2>1, <2>2, UnitBegins
<1>10. s.end = m + b.end
  BY SMT, <1>4
<1> QED
  BY Zenon, <1>4, <1>7, <1>8, <1>9, <1>10 DEF Beside

(* What is kept of a unit.                                                 *)
Settle(u) == [u EXCEPT !.delay = IF u.off THEN 0 ELSE @]

SettledUnit(v, u) == SameUnit(v, u) /\ (~u.off => v.delay = u.delay)

LEMMA SettleIs ==
  ASSUME NEW v \in Unit, NEW u \in Unit, SettledUnit(v, u)
  PROVE  Settle(v) = Settle(u) /\ Settle(u) \in Unit
<1>1. \A w \in Unit : /\ Settle(w) \in Unit
                      /\ Settle(w).delay = IF w.off THEN 0 ELSE w.delay
                      /\ Settle(w).speed = w.speed /\ Settle(w).gain = w.gain
                      /\ Settle(w).off = w.off /\ Settle(w).up = w.up
  <2> TAKE w \in Unit
  <2> DEFINE delay == IF w.off THEN 0 ELSE w.delay
  <2>1. Settle(w) = [w EXCEPT !.delay = delay]
    BY Zenon DEF Settle, Unit
  <2>2. delay \in Nat
    <3>1. w.delay \in Nat /\ 0 \in Nat
      BY SMT DEF Unit
    <3> QED
      BY Zenon, <3>1
  <2> HIDE DEF delay
  <2>3. /\ [w EXCEPT !.delay = delay] \in Unit /\ [w EXCEPT !.delay = delay].delay = delay
        /\ [w EXCEPT !.delay = delay].speed = w.speed /\ [w EXCEPT !.delay = delay].gain = w.gain
        /\ [w EXCEPT !.delay = delay].off = w.off /\ [w EXCEPT !.delay = delay].up = w.up
    BY Zenon, <2>2 DEF Unit
  <2> QED
    BY Zenon, <2>1, <2>3 DEF delay
<1>2. PICK x \in Unit, y \in Unit : x = Settle(v) /\ y = Settle(u)
  BY Zenon, <1>1
<1>3. /\ x.delay = y.delay /\ x.speed = y.speed /\ x.gain = y.gain /\ x.off = y.off /\ x.up = y.up
  <2>1. SameUnit(v, u) /\ (~u.off => v.delay = u.delay)
    BY Zenon DEF SettledUnit
  <2>2. v.speed = u.speed /\ v.gain = u.gain /\ v.off = u.off /\ v.up = u.up
    BY Zenon, <2>1 DEF SameUnit
  <2>3. x.delay = y.delay
    <3>1. x.delay = IF v.off THEN 0 ELSE v.delay
      BY Zenon, <1>1, <1>2
    <3>2. y.delay = IF u.off THEN 0 ELSE u.delay
      BY Zenon, <1>1, <1>2
    <3> QED
      BY Zenon, <2>1, <2>2, <3>1, <3>2
  <2>4. x.speed = v.speed /\ x.gain = v.gain /\ x.off = v.off /\ x.up = v.up
    BY Zenon, <1>1, <1>2
  <2>5. y.speed = u.speed /\ y.gain = u.gain /\ y.off = u.off /\ y.up = u.up
    BY Zenon, <1>1, <1>2
  <2> QED
    BY Zenon, <2>2, <2>3, <2>4, <2>5
<1>4. x = y
  BY SMT, <1>3 DEF Unit
<1> QED
  BY Zenon, <1>2, <1>4

LEMMA SettledIs ==
  ASSUME NEW x \in FdsState, NEW y \in FdsState, FixedAs(x, y), ModsAs(x, y), WaveAs(x, y),
         SettledUnit(x.sweep, y.sweep), SettledUnit(x.env, y.env)
  PROVE  Settled(x) = Settled(y)
<1>1. \A o \in FdsState : Settled(o) = [o EXCEPT !.env = Settle(o.env), !.sweep = Settle(o.sweep)]
  <2> TAKE o \in FdsState
  <2> DEFINE env == Settle(o.env)
             sweep == Settle(o.sweep)
             l == [o EXCEPT !.env.delay = IF o.env.off THEN 0 ELSE @,
                            !.sweep.delay = IF o.sweep.off THEN 0 ELSE @]
  <2>1. Settled(o) = l
    BY Zenon DEF Settled
  <2>2. l = [o EXCEPT !.env = env, !.sweep = sweep]
    BY Zenon DEF FdsState, Settle
  <2> QED
    BY Zenon, <2>1, <2>2
<1>2. x.sweep \in Unit /\ x.env \in Unit /\ y.sweep \in Unit /\ y.env \in Unit
  BY Zenon, FdsFields
<1>3. PICK sweep \in Unit, env \in Unit : /\ sweep = Settle(x.sweep) /\ sweep = Settle(y.sweep)
                                          /\ env = Settle(x.env) /\ env = Settle(y.env)
  BY Zenon, <1>2, SettleIs
<1>4. [x EXCEPT !.env = env, !.sweep = sweep] = [y EXCEPT !.env = env, !.sweep = sweep]
  <2> DEFINE put(o) == [o EXCEPT !.env = env, !.sweep = sweep]
  <2>1. \A o \in FdsState : /\ put(o) \in FdsState /\ put(o).env = env /\ put(o).sweep = sweep
                            /\ FixedAs(put(o), o) /\ ModsAs(put(o), o) /\ WaveAs(put(o), o)
    <3> TAKE o \in FdsState
    <3>1. put(o) \in FdsState
      BY Zenon DEF FdsState
    <3>2. put(o).env = env /\ put(o).sweep = sweep
      BY Zenon DEF FdsState
    <3>3. FixedAs(put(o), o) /\ ModsAs(put(o), o) /\ WaveAs(put(o), o)
      BY Zenon DEF FdsState, FixedAs, ModsAs, WaveAs
    <3> QED
      BY Zenon, <3>1, <3>2, <3>3
  <2>2. PICK p \in FdsState, q \in FdsState :
          /\ p = put(x) /\ q = put(y) /\ UnitsAs(p, q)
          /\ FixedAs(p, x) /\ ModsAs(p, x) /\ WaveAs(p, x)
          /\ FixedAs(q, y) /\ ModsAs(q, y) /\ WaveAs(q, y)
    <3> HIDE DEF put
    <3> QED
      BY Zenon, <2>1 DEF UnitsAs
  <2>3. FixedAs(y, q) /\ ModsAs(y, q) /\ WaveAs(y, q)
    BY Zenon, <2>2 DEF FixedAs, ModsAs, WaveAs
  <2>4. FixedAs(p, q) /\ ModsAs(p, q) /\ WaveAs(p, q)
    <3>1. FixedAs(p, y) /\ ModsAs(p, y) /\ WaveAs(p, y)
      BY Zenon, <2>2, AsAgain
    <3>2. FixedAs(p, q)
      BY Zenon, <2>3, <3>1, AsAgain
    <3>3. ModsAs(p, q) /\ WaveAs(p, q)
      BY Zenon, <2>3, <3>1, AsAgain
    <3> QED
      BY Zenon, <3>2, <3>3
  <2>5. p = q
    BY Zenon, <2>2, <2>4, SameFds
  <2> QED
    BY Zenon, <2>2, <2>5
<1> QED
  BY Zenon, <1>1, <1>3, <1>4

LEMMA UnitEnds ==
  ASSUME NEW m \in Nat, NEW n \in Nat, NEW r, NEW o, NEW u \in Unit, NEW soon \in Nat, NEW late \in Nat,
         UnitBeside(r, soon, o, u, late, m, m + n, n),
         NEW x, SameUnit(x, r), x.delay = soon - n,
         NEW y, SameUnit(y, u), y.delay = late - (m + n)
  PROVE  SettledUnit(x, y)
<1>1. SameUnit(x, y)
  BY Zenon DEF UnitBeside, SameUnit
<1>2. CASE late = m + soon
  <2>1. x.delay = y.delay
    BY SMT, <1>2
  <2> QED
    BY Zenon, <1>1, <2>1 DEF SettledUnit
<1>3. CASE soon = n /\ late = m + n
  <2>1. x.delay = y.delay
    BY SMT, <1>3
  <2> QED
    BY Zenon, <1>1, <2>1 DEF SettledUnit
<1>4. CASE Stepped(u) = u
  <2>1. u.off
    BY Zenon, <1>4, SteppedIs
  <2>2. y.off
    BY Zenon, <2>1 DEF SameUnit
  <2> QED
    BY Zenon, <1>1, <2>2 DEF SettledUnit
<1> QED
  BY Zenon, <1>2, <1>3, <1>4 DEF UnitBeside

LEMMA EndsSettled ==
  ASSUME NEW m \in Nat, NEW n \in Nat, NEW b \in Passed(n), NEW s \in Passed(m + n),
         Beside(b, s, m, m + n, n), NEW x \in FdsState, x = FdsRunEnd(b, n).osc,
         NEW y \in FdsState, y = FdsRunEnd(s, m + n).osc
  PROVE  Settled(x) = Settled(y)
<1>1. b \in FdsStretch(n) /\ s \in FdsStretch(m + n) /\ m + n \in Nat
  BY SMT DEF Passed
<1>2. /\ b.sweep_time \in Nat /\ b.env_time \in Nat /\ s.sweep_time \in Nat /\ s.env_time \in Nat
      /\ s.osc.sweep \in Unit /\ s.osc.env \in Unit
  BY Zenon, <1>1, StretchFields
<1>3. Delayed(x, b.osc, b.sweep_time - n, b.env_time - n)
  BY SMT, <1>1, RunEndIs
<1>4. Delayed(y, s.osc, s.sweep_time - (m + n), s.env_time - (m + n))
  BY SMT, <1>1, RunEndIs
<1>5. /\ FixedAs(x, b.osc) /\ ModsAs(x, b.osc) /\ WaveAs(x, b.osc)
      /\ SameUnit(x.sweep, b.osc.sweep) /\ x.sweep.delay = b.sweep_time - n
      /\ SameUnit(x.env, b.osc.env) /\ x.env.delay = b.env_time - n
  BY Zenon, <1>3 DEF Delayed
<1>6. /\ FixedAs(y, s.osc) /\ ModsAs(y, s.osc) /\ WaveAs(y, s.osc)
      /\ SameUnit(y.sweep, s.osc.sweep) /\ y.sweep.delay = s.sweep_time - (m + n)
      /\ SameUnit(y.env, s.osc.env) /\ y.env.delay = s.env_time - (m + n)
  BY Zenon, <1>4 DEF Delayed
<1>7. /\ FixedAs(b.osc, s.osc) /\ ModsAs(b.osc, s.osc) /\ WaveAs(b.osc, s.osc)
      /\ UnitBeside(b.osc.sweep, b.sweep_time, s.osc, s.osc.sweep, s.sweep_time, m, m + n, n)
      /\ UnitBeside(b.osc.env, b.env_time, s.osc, s.osc.env, s.env_time, m, m + n, n)
  BY Zenon DEF Beside
<1>8. SettledUnit(x.sweep, y.sweep)
  <2>1. b.sweep_time \in Nat /\ s.sweep_time \in Nat /\ s.osc.sweep \in Unit
    BY Zenon, <1>2
  <2>2. SameUnit(x.sweep, b.osc.sweep) /\ x.sweep.delay = b.sweep_time - n
    BY Zenon, <1>5
  <2>3. SameUnit(y.sweep, s.osc.sweep) /\ y.sweep.delay = s.sweep_time - (m + n)
    BY Zenon, <1>6
  <2>4. UnitBeside(b.osc.sweep, b.sweep_time, s.osc, s.osc.sweep, s.sweep_time, m, m + n, n)
    BY Zenon, <1>7
  <2> QED
    BY SMTT(30), <2>1, <2>2, <2>3, <2>4, UnitEnds
<1>9. SettledUnit(x.env, y.env)
  <2>1. b.env_time \in Nat /\ s.env_time \in Nat /\ s.osc.env \in Unit
    BY Zenon, <1>2
  <2>2. SameUnit(x.env, b.osc.env) /\ x.env.delay = b.env_time - n
    BY Zenon, <1>5
  <2>3. SameUnit(y.env, s.osc.env) /\ y.env.delay = s.env_time - (m + n)
    BY Zenon, <1>6
  <2>4. UnitBeside(b.osc.env, b.env_time, s.osc, s.osc.env, s.env_time, m, m + n, n)
    BY Zenon, <1>7
  <2> QED
    BY SMTT(30), <2>1, <2>2, <2>3, <2>4, UnitEnds
<1>10. FixedAs(x, y) /\ ModsAs(x, y) /\ WaveAs(x, y)
  <2>1. FixedAs(s.osc, y) /\ ModsAs(s.osc, y) /\ WaveAs(s.osc, y)
    BY Zenon, <1>6 DEF FixedAs, ModsAs, WaveAs
  <2>2. FixedAs(b.osc, y) /\ ModsAs(b.osc, y) /\ WaveAs(b.osc, y)
    BY Zenon, <1>7, <2>1, AsAgain
  <2>3. FixedAs(x, y)
    BY Zenon, <1>5, <2>2, AsAgain
  <2>4. ModsAs(x, y)
    BY Zenon, <1>5, <2>2, AsAgain
  <2>5. WaveAs(x, y)
    BY Zenon, <1>5, <2>2, AsAgain
  <2> QED
    BY Zenon, <2>3, <2>4, <2>5
<1> QED
  BY Zenon, <1>8, <1>9, <1>10, SettledIs

LEMMA TicksFixed ==
  ASSUME NEW n \in Nat, NEW first, NEW g, Ticking(g, first, n)
  PROVE  \A k \in 0 .. n : FixedAs(g[k].osc, first.osc)
<1> DEFINE S == {k \in 0 .. n : FixedAs(g[k].osc, first.osc)}
<1>1. 0 \in S
  BY Zenon, Indices, AsIs DEF Ticking
<1>2. ASSUME NEW k \in 1 .. n, k - 1 \in S PROVE k \in S
  <2>1. PICK j \in 0 .. n : j = k - 1 /\ j < n
    BY SMT
  <2>2. PICK s \in Passed(n) : s = g[j] /\ s.end = j
    BY Zenon DEF Ticking
  <2>3. g[k] = Tick(s)
    BY Zenon, <2>1, <2>2 DEF Ticking
  <2>4. PICK t : t = UnitsStepped(s) /\ UnitsLeave(t, s) /\ Clocked(g[k], t)
    BY Zenon, <2>1, <2>2, <2>3, TickIsMade
  <2>5. FixedAs(t.osc, s.osc) /\ FixedAs(g[k].osc, t.osc)
    BY Zenon, <2>4 DEF UnitsLeave, Clocked
  <2>6. FixedAs(s.osc, first.osc)
    BY Zenon, <1>2, <2>1, <2>2
  <2>7. FixedAs(g[k].osc, first.osc)
    BY Zenon, <2>5, <2>6, AsAgain
  <2> QED
    BY Zenon, <2>7, Indices
<1> HIDE DEF S
<1>3. 0 .. n \subseteq S
  BY Zenon, <1>1, <1>2, Along
<1> QED
  BY Zenon, <1>3 DEF S

(* The output moves alike in the part and in the whole.                    *)
LEMMA FrontMoved ==
  ASSUME NEW m \in Nat, NEW n \in Nat, NEW q \in Deltas(n), NEW r, r.deltas \in Deltas(m),
         NEW later \in 0 .. m, later = r.end + 1, NEW s, s.deltas = Glued(r.deltas, q, m, n),
         s.end + 1 = later, NEW z, NEW y, MovedAlike(z, r, y, s)
  PROVE  y.deltas = Glued(z.deltas, q, m, n)
<1>1. CASE z.deltas = r.deltas /\ y.deltas = s.deltas
  BY Zenon, <1>1
<1>2. CASE \E c \in Int : /\ z.deltas = Moved(r.deltas, r.end + 1, c)
                          /\ y.deltas = Moved(s.deltas, s.end + 1, c)
  <2>1. PICK c \in Int : z.deltas = Moved(r.deltas, later, c) /\ y.deltas = Moved(s.deltas, later, c)
    BY Zenon, <1>2
  <2>2. PICK f \in Deltas(m) : f = r.deltas
    BY Zenon
  <2>3. Glued(Moved(f, later, c), q, m, n) = Moved(Glued(f, q, m, n), later, c)
    BY Zenon, GluedMoved
  <2> QED
    BY Zenon, <2>1, <2>2, <2>3
<1> QED
  BY Zenon, <1>1, <1>2 DEF MovedAlike

LEMMA BackMoved ==
  ASSUME NEW m \in Nat, NEW n \in Nat, NEW p \in Deltas(m), NEW r, r.deltas \in Deltas(n),
         NEW later \in 0 .. n, later = r.end + 1, NEW s, s.deltas = Glued(p, r.deltas, m, n),
         s.end + 1 = m + later, NEW z, NEW y, MovedAlike(z, r, y, s)
  PROVE  y.deltas = Glued(p, z.deltas, m, n)
<1>1. CASE z.deltas = r.deltas /\ y.deltas = s.deltas
  BY Zenon, <1>1
<1>2. CASE \E c \in Int : /\ z.deltas = Moved(r.deltas, r.end + 1, c)
                          /\ y.deltas = Moved(s.deltas, s.end + 1, c)
  <2>1. PICK c \in Int : /\ z.deltas = Moved(r.deltas, later, c)
                         /\ y.deltas = Moved(s.deltas, m + later, c)
    BY Zenon, <1>2
  <2>2. PICK f \in Deltas(n) : f = r.deltas
    BY Zenon
  <2>3. Glued(p, Moved(f, later, c), m, n) = Moved(Glued(p, f, m, n), m + later, c)
    BY ZenonT(30), GluedMoved
  <2> QED
    BY Zenon, <2>1, <2>2, <2>3
<1> QED
  BY Zenon, <1>1, <1>2 DEF MovedAlike

LEMMA FrontGlued ==
  ASSUME NEW m \in Nat, NEW n \in Nat, NEW first, NEW g, Ticking(g, first, m + n), NEW begin, NEW a,
         Ticking(a, begin, m), Beside(a[0], g[0], 0, m + n, m), a[0].deltas = Silence(m),
         g[0].deltas = Silence(m + n)
  PROVE  Beside(a[m], g[m], 0, m + n, m) /\ g[m].deltas = Glued(a[m].deltas, Silence(n), m, n)
<1>1. m + n \in Nat /\ 0 \in Nat /\ 0 + m <= m + n
  BY SMT
<1>2. \A k \in 0 .. m : 0 + k = k /\ k \in 0 .. m + n
  BY SMT
<1>3. /\ \A k \in 0 .. m : Beside(a[k], g[k], 0, m + n, m)
      /\ \A k \in 1 .. m : MovedAlike(a[k], a[k - 1], g[k], g[k - 1])
  <2>1. /\ \A k \in 0 .. m : Beside(a[k], g[0 + k], 0, m + n, m)
        /\ \A k \in 1 .. m : MovedAlike(a[k], a[k - 1], g[0 + k], g[0 + (k - 1)])
    BY Zenon, <1>1, TicksBeside
  <2>2. \A k \in 1 .. m : k \in 0 .. m /\ k - 1 \in 0 .. m
    BY Zenon, Indices
  <2> QED
    BY Zenon, <1>2, <2>1, <2>2
<1> DEFINE S == {k \in 0 .. m : g[k].deltas = Glued(a[k].deltas, Silence(n), m, n)}
<1>4. 0 \in S
  BY Zenon, GluedSilence, Indices
<1>5. ASSUME NEW k \in 1 .. m, k - 1 \in S PROVE k \in S
  <2>1. PICK j \in 0 .. m : j = k - 1 /\ k = j + 1 /\ k \in 0 .. m
    BY SMT
  <2>2. a[j].end = j /\ g[j].end = j /\ a[j].deltas \in Deltas(m)
    BY Zenon, <1>2, StretchFields DEF Ticking, Passed
  <2>3. g[j].deltas = Glued(a[j].deltas, Silence(n), m, n)
    BY Zenon, <1>5, <2>1
  <2>4. MovedAlike(a[k], a[j], g[k], g[j])
    BY Zenon, <1>3, <2>1
  <2>5. k = a[j].end + 1 /\ g[j].end + 1 = k
    BY Zenon, <2>1, <2>2
  <2>6. Silence(n) \in Deltas(n)
    BY Zenon, SilentSum
  <2>7. g[k].deltas = Glued(a[k].deltas, Silence(n), m, n)
    BY SMT, <2>1, <2>2, <2>3, <2>4, <2>5, <2>6, FrontMoved
  <2> QED
    BY Zenon, <2>1, <2>7
<1>6. m \in S
  <2> HIDE DEF S
  <2>1. 0 .. m \subseteq S
    BY Zenon, <1>4, <1>5, Along
  <2>2. m \in 0 .. m
    BY Zenon, Indices
  <2> QED
    BY Zenon, <2>1, <2>2
<1>7. Beside(a[m], g[m], 0, m + n, m)
  BY Zenon, <1>3, Indices
<1>8. g[m].deltas = Glued(a[m].deltas, Silence(n), m, n)
  BY Zenon, <1>6
<1> QED
  BY Zenon, <1>7, <1>8

LEMMA BackGlued ==
  ASSUME NEW m \in Nat, NEW n \in Nat, NEW first, NEW g, Ticking(g, first, m + n), NEW begin, NEW b,
         Ticking(b, begin, n), Beside(b[0], g[m], m, m + n, n), b[0].deltas = Silence(n),
         NEW p \in Deltas(m), g[m].deltas = Glued(p, Silence(n), m, n)
  PROVE  /\ Beside(b[n], g[m + n], m, m + n, n)
         /\ g[m + n].deltas = Glued(p, b[n].deltas, m, n)
<1>1. m + n \in Nat /\ m + n <= m + n /\ m + 0 = m
  BY SMT
<1>2. \A k \in 0 .. n : m + k \in 0 .. m + n
  BY SMT
<1>3. /\ \A k \in 0 .. n : Beside(b[k], g[m + k], m, m + n, n)
      /\ \A k \in 1 .. n : MovedAlike(b[k], b[k - 1], g[m + k], g[m + (k - 1)])
  BY Zenon, <1>1, TicksBeside
<1> DEFINE S == {k \in 0 .. n : g[m + k].deltas = Glued(p, b[k].deltas, m, n)}
<1>4. 0 \in S
  BY Zenon, <1>1, Indices
<1>5. ASSUME NEW k \in 1 .. n, k - 1 \in S PROVE k \in S
  <2>1. PICK j \in 0 .. n : j = k - 1 /\ k = j + 1 /\ k \in 0 .. n /\ (m + j) + 1 = m + k
    BY SMT
  <2>2. b[j].end = j /\ g[m + j].end = m + j /\ b[j].deltas \in Deltas(n)
    BY Zenon, <1>2, StretchFields DEF Ticking, Passed
  <2>3. g[m + j].deltas = Glued(p, b[j].deltas, m, n)
    BY Zenon, <1>5, <2>1
  <2>4. MovedAlike(b[k], b[j], g[m + k], g[m + j])
    BY Zenon, <1>3, <2>1
  <2>5. k = b[j].end + 1 /\ g[m + j].end + 1 = m + k
    BY Zenon, <2>1, <2>2
  <2>6. g[m + k].deltas = Glued(p, b[k].deltas, m, n)
    BY SMT, <2>1, <2>2, <2>3, <2>4, <2>5, BackMoved
  <2> QED
    BY Zenon, <2>1, <2>6
<1>6. n \in S
  <2> HIDE DEF S
  <2>1. 0 .. n \subseteq S
    BY Zenon, <1>4, <1>5, Along
  <2>2. n \in 0 .. n
    BY Zenon, Indices
  <2> QED
    BY Zenon, <2>1, <2>2
<1>7. Beside(b[n], g[m + n], m, m + n, n)
  BY Zenon, <1>3, Indices
<1>8. g[m + n].deltas = Glued(p, b[n].deltas, m, n)
  BY Zenon, <1>6
<1> QED
  BY Zenon, <1>7, <1>8

(* A run that is cut.                                                      *)
RunTicks(run, o, n, g) == Ticking(g, FdsFirst(o, n), n) /\ run = FdsRunEnd(g[n], n)

LEMMA FdsTicks ==
  ASSUME NEW o \in FdsState, FdsPlaying(o), NEW n \in Nat, n >= 1, NEW run, run = RunFds(o, n)
  PROVE  \E g : RunTicks(run, o, n, g)
<1>1. PICK first : first = FdsFirst(o, n)
  OBVIOUS
<1>2. first \in Passed(n) /\ first.end = 0
  BY SMT, <1>1, FdsFirstIs
<1>3. PICK g : Ticking(g, first, n)
  BY Zenon, <1>2, TicksExist
<1>4. FdsPasses(first, n) = g[n]
  BY Zenon, <1>2, <1>3, PassesTick
<1>5. run = FdsRunEnd(FdsPasses(FdsFirst(o, n), n), n)
  BY Zenon DEF RunFds, FdsFirst
<1> QED
  BY Zenon, <1>1, <1>3, <1>4, <1>5 DEF RunTicks

FdsParted(one, two, all, m, n) ==
  Settled(two.osc) = Settled(all.osc) /\ all.deltas = Glued(one.deltas, two.deltas, m, n)

LEMMA FdsPlayingCut ==
  ASSUME NEW o \in FdsState, FdsPlaying(o), NEW m \in Nat, m >= 1, NEW n \in Nat, n >= 1,
         NEW one, one = RunFds(o, m), NEW two, two = RunFds(one.osc, n),
         NEW all, all = RunFds(o, m + n)
  PROVE  FdsParted(one, two, all, m, n)
<1>1. m + n \in Nat /\ m + n >= 1 /\ m \in 0 .. m + n /\ m + n \in 0 .. m + n /\ m \in 0 .. m
      /\ n \in 0 .. n /\ 0 \in 0 .. m /\ 0 \in 0 .. n /\ 0 \in 0 .. m + n
  BY SMT
<1>2. PICK g : RunTicks(all, o, m + n, g)
  BY SMT, <1>1, FdsTicks
<1>3. PICK a : RunTicks(one, o, m, a)
  BY SMT, FdsTicks
<1>4. PICK begun, begin : begun = FdsFirst(o, m) /\ begin = FdsFirst(o, m + n)
  OBVIOUS
<1>5. /\ Ticking(g, begin, m + n) /\ g[0] = begin /\ all = FdsRunEnd(g[m + n], m + n)
      /\ Ticking(a, begun, m) /\ a[0] = begun /\ one = FdsRunEnd(a[m], m)
  BY Zenon, <1>2, <1>3, <1>4 DEF RunTicks, Ticking
<1>6. begun.deltas = Silence(m) /\ begun.osc = o
  BY SMT, <1>4, FdsFirstIs
<1>7. begin.deltas = Silence(m + n) /\ Resting(begin, m + n)
  BY SMT, <1>1, <1>4, FdsFirstIs
<1>8. Beside(begun, begin, 0, m + n, m)
  BY SMT, <1>4, FirstBeside
<1>9. Beside(a[m], g[m], 0, m + n, m) /\ g[m].deltas = Glued(a[m].deltas, Silence(n), m, n)
  <2>1. Beside(a[0], g[0], 0, m + n, m) /\ a[0].deltas = Silence(m) /\ g[0].deltas = Silence(m + n)
    BY Zenon, <1>5, <1>6, <1>7, <1>8
  <2>2. Ticking(g, begin, m + n) /\ Ticking(a, begun, m)
    BY Zenon, <1>5
  <2> QED
    BY SMT, <2>1, <2>2, FrontGlued
<1>10. /\ a[m] \in Passed(m) /\ a[m].end = m
       /\ g[m] \in Passed(m + n) /\ g[m].end = m
       /\ g[m + n] \in Passed(m + n) /\ g[m + n].end = m + n
  BY Zenon, <1>1, <1>5 DEF Ticking
<1>11. Resting(g[m], m + n)
  BY Zenon, <1>1, <1>5, <1>7, TicksRest
<1>12. PICK x \in FdsState : x = one.osc /\ x = FdsRunEnd(a[m], m).osc
  BY Zenon, <1>5, FdsRun
<1>13. a[m] \in FdsStretch(m) /\ g[m + n] \in FdsStretch(m + n)
  BY Zenon, <1>10 DEF Passed
<1>14. one.deltas = a[m].deltas /\ a[m].deltas \in Deltas(m)
  BY Zenon, <1>5, <1>13, RunEndIs, StretchFields
<1>15. FdsPlaying(x)
  <2>1. Delayed(x, a[m].osc, a[m].sweep_time - m, a[m].env_time - m)
    BY SMT, <1>12, <1>13, RunEndIs
  <2>2. FixedAs(x, a[m].osc)
    BY Zenon, <2>1 DEF Delayed
  <2>3. FixedAs(a[m].osc, o)
    BY Zenon, <1>1, <1>5, <1>6, TicksFixed
  <2>4. FixedAs(x, o)
    BY Zenon, <2>2, <2>3, AsAgain
  <2> QED
    BY Zenon, <2>4, FixedIs
<1>16. two = RunFds(x, n)
  BY Zenon, <1>12
<1>17. PICK b : RunTicks(two, x, n, b)
  BY SMT, <1>15, <1>16, FdsTicks
<1>18. PICK again : again = FdsFirst(x, n)
  OBVIOUS
<1>19. Ticking(b, again, n) /\ b[0] = again /\ two = FdsRunEnd(b[n], n)
  BY Zenon, <1>17, <1>18 DEF RunTicks, Ticking
<1>20. again.deltas = Silence(n)
  BY SMT, <1>18, FdsFirstIs
<1>21. Beside(again, g[m], m, m + n, n)
  BY SMT, <1>9, <1>10, <1>11, <1>12, <1>18, SecondBeside
<1>22. Beside(b[n], g[m + n], m, m + n, n) /\ g[m + n].deltas = Glued(a[m].deltas, b[n].deltas, m, n)
  <2>1. Beside(b[0], g[m], m, m + n, n) /\ b[0].deltas = Silence(n)
    BY Zenon, <1>19, <1>20, <1>21
  <2>2. Ticking(g, begin, m + n) /\ Ticking(b, again, n)
    BY Zenon, <1>5, <1>19
  <2>3. a[m].deltas \in Deltas(m) /\ g[m].deltas = Glued(a[m].deltas, Silence(n), m, n)
    BY Zenon, <1>9, <1>14
  <2> QED
    BY SMT, <2>1, <2>2, <2>3, BackGlued
<1>23. b[n] \in Passed(n) /\ b[n] \in FdsStretch(n)
  BY Zenon, <1>1, <1>19 DEF Ticking, Passed
<1>24. all.deltas = Glued(one.deltas, two.deltas, m, n)
  <2>1. two.deltas = b[n].deltas
    BY Zenon, <1>19, <1>23, RunEndIs
  <2>2. all.deltas = g[m + n].deltas
    BY Zenon, <1>1, <1>5, <1>13, RunEndIs
  <2> QED
    BY Zenon, <1>14, <1>22, <2>1, <2>2
<1>25. Settled(two.osc) = Settled(all.osc)
  <2>1. PICK y \in FdsState : y = two.osc /\ y = FdsRunEnd(b[n], n).osc
    BY Zenon, <1>16, <1>19, FdsRun
  <2>2. PICK z \in FdsState : z = all.osc /\ z = FdsRunEnd(g[m + n], m + n).osc
    BY Zenon, <1>1, <1>5, FdsRun
  <2>3. Settled(y) = Settled(z)
    BY SMT, <1>10, <1>22, <1>23, <2>1, <2>2, EndsSettled
  <2> QED
    BY Zenon, <2>1, <2>2, <2>3
<1> QED
  BY Zenon, <1>24, <1>25 DEF FdsParted

(* A run of no time steps the units that are due, which then stay as they  *)
(* are, or the channel is restless.                                        *)
LEMMA UnitOfNoTime ==
  ASSUME NEW o \in FdsState, NEW u \in Unit, Idle(o, u) \/ u.delay = 0 => Stepped(u) = u,
         NEW time, time = IF Idle(o, u) THEN 0 ELSE u.delay,
         NEW v, SameUnit(v, UnitNow(u, time, 0)), v.delay = TimeNow(o, u, time, 0) - 0
  PROVE  SettledUnit(v, u)
<1>1. u.delay \in Nat
  BY Zenon DEF Unit
<1>2. CASE time <= 0
  <2>1. Stepped(u) = u
    BY SMT, <1>1, <1>2
  <2>2. u.off
    BY Zenon, <2>1, SteppedIs
  <2>3. UnitNow(u, time, 0) = u
    BY Zenon, <2>1 DEF UnitNow
  <2> QED
    BY Zenon, <2>2, <2>3 DEF SettledUnit
<1>3. CASE ~(time <= 0)
  <2>1. ~Idle(o, u) /\ time = u.delay
    BY SMT, <1>3
  <2>2. UnitNow(u, time, 0) = u /\ TimeNow(o, u, time, 0) = time + 0
    BY Zenon, <1>3 DEF UnitNow, TimeNow
  <2>3. u.delay + 0 - 0 = u.delay
    BY SMT, <1>1
  <2>4. v.delay = u.delay
    BY SMT, <2>1, <2>2, <1>1
  <2> QED
    BY Zenon, <2>2, <2>4 DEF SettledUnit
<1> QED
  BY Zenon, <1>2, <1>3

LEMMA FdsOfNoTime ==
  ASSUME NEW o \in FdsState, FdsPlaying(o), ~Restless(o), NEW run, run = RunFds(o, 0)
  PROVE  Settled(run.osc) = Settled(o) /\ run.deltas = Silence(0)
<1>1. 0 \in Nat /\ 0 \in 0 .. 0
  BY SMT
<1>2. PICK first : first = FdsFirst(o, 0)
  OBVIOUS
<1>3. /\ first \in Passed(0) /\ first.osc = o /\ first.end = 0 /\ first.deltas = Silence(0)
      /\ first.sweep_time = IF Idle(o, o.sweep) THEN 0 ELSE o.sweep.delay
      /\ first.env_time = IF Idle(o, o.env) THEN 0 ELSE o.env.delay
  BY SMT, <1>1, <1>2, FdsFirstIs
<1>4. first \in FdsStretch(0) /\ Timely(first, 0)
  BY Zenon, <1>3 DEF Passed
<1>5. PICK t : t = UnitsStepped(first)
  OBVIOUS
<1>6. t \in FdsStretch(0) /\ t.end = 0 /\ Timely(t, 0)
  BY Zenon, <1>1, <1>3, <1>4, <1>5, UnitsAreStepped
<1>7. UnitsLeave(t, first)
  BY SMT, <1>1, <1>4, <1>5, UnitsAre
<1>8. FdsPasses(first, 0) = t
  <2>1. PICK h : PassTrace(h, first, 0)
    BY Zenon, <1>1, <1>3, PassesTraced
  <2>2. FdsPasses(first, 0) = PassTo(t, PassEnd(t, 0))
    BY Zenon, <1>5, <2>1 DEF PassTrace, FdsPass, PassFrom
  <2>3. PassEnd(t, 0) = t.end
    <3>1. PassEnd(t, 0) \in t.end .. 0
      BY Zenon, <1>1, <1>6, PassEnds
    <3> QED
      BY SMT, <1>6, <3>1
  <2> QED
    BY Zenon, <1>1, <1>6, <2>2, <2>3, PassOfNoTime
<1>9. run = FdsRunEnd(t, 0)
  BY Zenon, <1>2, <1>8 DEF RunFds, FdsFirst
<1>10. PICK x \in FdsState : x = run.osc
  BY Zenon, <1>1, FdsRun
<1>11. /\ Delayed(x, t.osc, t.sweep_time - 0, t.env_time - 0)
       /\ run.deltas = t.deltas
  BY SMT, <1>1, <1>6, <1>9, <1>10, RunEndIs
<1>12. /\ FixedAs(t.osc, o) /\ ModsAs(t.osc, o) /\ WaveAs(t.osc, o)
       /\ t.osc.sweep = UnitNow(o.sweep, first.sweep_time, 0)
       /\ t.osc.env = UnitNow(o.env, first.env_time, 0)
       /\ t.sweep_time = TimeNow(o, o.sweep, first.sweep_time, 0)
       /\ t.env_time = TimeNow(o, o.env, first.env_time, 0)
       /\ t.deltas = Silence(0)
  BY Zenon, <1>3, <1>7 DEF UnitsLeave
<1>13. /\ FixedAs(x, t.osc) /\ ModsAs(x, t.osc) /\ WaveAs(x, t.osc)
       /\ SameUnit(x.sweep, t.osc.sweep) /\ x.sweep.delay = t.sweep_time - 0
       /\ SameUnit(x.env, t.osc.env) /\ x.env.delay = t.env_time - 0
  BY Zenon, <1>11 DEF Delayed
<1>14. FixedAs(x, o) /\ ModsAs(x, o) /\ WaveAs(x, o)
  BY Zenon, <1>12, <1>13, AsAgain
<1>15. o.sweep \in Unit /\ o.env \in Unit
  BY Zenon, FdsFields
<1>16. /\ Idle(o, o.sweep) \/ o.sweep.delay = 0 => Stepped(o.sweep) = o.sweep
       /\ Idle(o, o.env) \/ o.env.delay = 0 => Stepped(o.env) = o.env
  BY Zenon DEF Restless
<1>17. SettledUnit(x.sweep, o.sweep)
  BY SMT, <1>3, <1>12, <1>13, <1>15, <1>16, UnitOfNoTime
<1>18. SettledUnit(x.env, o.env)
  BY SMT, <1>3, <1>12, <1>13, <1>15, <1>16, UnitOfNoTime
<1>19. Settled(x) = Settled(o)
  BY Zenon, <1>14, <1>17, <1>18, SettledIs
<1> QED
  BY Zenon, <1>10, <1>11, <1>12, <1>19

LEMMA FdsDeltas ==
  ASSUME NEW o \in FdsState, NEW n \in Nat, NEW run, run = RunFds(o, n)
  PROVE  run.deltas \in Deltas(n)
<1>1. CASE ~FdsPlaying(o)
  <2>1. run = Unheard(o, n)
    BY Zenon, <1>1 DEF RunFds
  <2>2. run.deltas = Silence(n)
    BY Zenon, <2>1, UnheardCut
  <2> QED
    BY Zenon, <2>2, SilentSum
<1>2. CASE FdsPlaying(o)
  <2>1. PICK first, s : first = FdsFirst(o, n) /\ s = FdsPasses(first, n)
    OBVIOUS
  <2>2. first \in Passed(n)
    BY SMT, <2>1, FdsFirstIs
  <2>3. s \in FdsStretch(n)
    BY Zenon, <2>1, <2>2, PassesAreMade DEF Passed
  <2>4. run = FdsRunEnd(s, n)
    BY Zenon, <1>2, <2>1 DEF RunFds, FdsFirst
  <2>5. run.deltas = s.deltas
    BY Zenon, <2>3, <2>4, RunEndIs
  <2> QED
    BY Zenon, <2>3, <2>5, StretchFields
<1> QED
  BY Zenon, <1>1, <1>2

LEMMA FdsCut ==
  ASSUME NEW o \in FdsState, NEW m \in Nat, m >= 1, NEW n \in Nat, NEW one, one = RunFds(o, m),
         NEW two, two = RunFds(one.osc, n), NEW all, all = RunFds(o, m + n)
  PROVE  FdsParted(one, two, all, m, n) \/ (n = 0 /\ Restless(one.osc))
<1>1. CASE ~FdsPlaying(o)
  <2>1. one = Unheard(o, m) /\ all = Unheard(o, m + n)
    BY Zenon, <1>1 DEF RunFds
  <2>2. one.osc = o
    BY Zenon, <2>1, UnheardCut
  <2>3. two = Unheard(o, n)
    BY Zenon, <1>1, <2>2 DEF RunFds
  <2>4. Parted(Unheard(o, m), Unheard(o, n), Unheard(o, m + n), m, n)
    BY Zenon, UnheardCut
  <2> QED
    BY Zenon, <2>1, <2>3, <2>4 DEF Parted, FdsParted
<1>2. CASE FdsPlaying(o) /\ n >= 1
  BY SMT, <1>2, FdsPlayingCut
<1>3. CASE n = 0 /\ ~Restless(one.osc)
  <2>1. PICK x \in FdsState : x = one.osc
    BY Zenon, FdsRun
  <2>2. m + 0 = m
    BY SMT
  <2>3. one = all
    BY Zenon, <1>3, <2>2
  <2>4. one.deltas \in Deltas(m)
    BY SMT, FdsDeltas
  <2>5. CASE FdsPlaying(x)
    <3>1. Settled(two.osc) = Settled(x) /\ two.deltas = Silence(0)
      BY SMT, <1>3, <2>1, <2>5, FdsOfNoTime
    <3>2. Glued(one.deltas, Silence(0), m, 0) = one.deltas
      BY Zenon, <2>4, GluedNothing
    <3> QED
      BY Zenon, <1>3, <2>1, <2>3, <3>1, <3>2 DEF FdsParted
  <2>6. CASE ~FdsPlaying(x)
    <3>1. two = Unheard(x, 0)
      BY Zenon, <1>3, <2>1, <2>6 DEF RunFds
    <3>2. two.osc = x /\ two.deltas = Silence(0)
      <4>1. 0 \in Nat
        BY SMT
      <4> QED
        BY Zenon, <3>1, <4>1, UnheardCut
    <3>3. Glued(one.deltas, Silence(0), m, 0) = one.deltas
      BY Zenon, <2>4, GluedNothing
    <3> QED
      BY Zenon, <1>3, <2>1, <2>3, <3>2, <3>3 DEF FdsParted
  <2> QED
    BY Zenon, <2>5, <2>6
<1>4. n >= 1 \/ n = 0
  BY SMT
<1> QED
  BY Zenon, <1>1, <1>2, <1>3, <1>4

-----------------------------------------------------------------------------
(* All the oscillators.                                                    *)

LEMMA NotApproximated ==
  ASSUME NEW o, ~Approximated(o)
  PROVE  /\ o.kind = "triangle" => o.output
         /\ o.kind = "vrc6_saw" => o.rate # 0
BY Zenon DEF Approximated

LEMMA PartedIsSame ==
  ASSUME NEW o, NEW m, NEW n, NEW one, one = Run(o, m), NEW two, two = Run(one.osc, n),
         NEW all, all = Run(o, m + n), Kept(two.osc) = Kept(all.osc),
         all.deltas = Glued(one.deltas, two.deltas, m, n)
  PROVE  SameRun(o, m, n)
<1>1. PICK then : then = Joint(one, two, m, n)
  OBVIOUS
<1>2. then.osc = two.osc /\ then.deltas = Glued(one.deltas, two.deltas, m, n)
  BY Zenon, <1>1 DEF Joint, Glued
<1>3. Then(o, m, n) = then
  BY Zenon, <1>1 DEF Then, Onward
<1> QED
  BY Zenon, <1>2, <1>3 DEF SameRun, Same

(* But for the FDS, nothing is seen of the cut but a run of no time may    *)
(* step a unit of it.                                                      *)
LEMMA CutIsSame ==
  ASSUME NEW o \in States, ~Approximated(o), o.kind # "fds", NEW m \in Nat \ {0}, NEW n \in Nat
  PROVE  SameRun(o, m, n)
<1>1. PICK one, two, all : one = Run(o, m) /\ two = Run(one.osc, n) /\ all = Run(o, m + n)
  OBVIOUS
<1>2. m \in Nat /\ m \in Nat \ {0} /\ m > 0
  BY SMT
<1>3. one.osc.kind = o.kind
  BY Zenon, <1>1, <1>2, OscRun DEF OscRan
<1>4. ASSUME Parted(one, two, all, m, n) PROVE SameRun(o, m, n)
  <2>1. two.osc = all.osc /\ all.deltas = Glued(one.deltas, two.deltas, m, n)
    BY Zenon, <1>4 DEF Parted
  <2> QED
    BY SMT, <1>1, <2>1, PartedIsSame
<1>5. CASE o.kind \in squares /\ o \in SquareOsc
  <2>1. o \in Pulse
    BY Zenon, <1>5 DEF Pulse
  <2>2. one = RunSquare(o, m) /\ two = RunSquare(one.osc, n) /\ all = RunSquare(o, m + n)
    BY Zenon, <1>1, <1>3, <1>5, RunOf
  <2>3. Parted(one, two, all, m, n)
    BY SMT, <1>2, <2>1, <2>2, SquareCut
  <2> QED
    BY <1>4, <2>3
<1>6. CASE o.kind = "triangle" /\ o \in TriangleOsc
  <2>1. one = RunTriangle(o, m) /\ two = RunTriangle(one.osc, n) /\ all = RunTriangle(o, m + n)
    BY Zenon, <1>1, <1>3, <1>6, RunOf
  <2>2. o.output
    BY Zenon, <1>6, NotApproximated
  <2>3. Parted(one, two, all, m, n)
    BY SMT, <1>2, <1>6, <2>1, <2>2, TriangleCut
  <2> QED
    BY <1>4, <2>3
<1>7. CASE o.kind = "noise" /\ o \in NoiseOsc
  <2>1. one = RunNoise(o, m) /\ two = RunNoise(one.osc, n) /\ all = RunNoise(o, m + n)
    BY Zenon, <1>1, <1>3, <1>7, RunOf
  <2>2. Parted(one, two, all, m, n)
    BY SMT, <1>2, <1>7, <2>1, NoiseCut
  <2> QED
    BY <1>4, <2>2
<1>8. CASE o.kind = "mmc5_square" /\ o \in Mmc5SquareOsc
  <2>1. /\ one = RunMmc5Square(o, m) /\ two = RunMmc5Square(one.osc, n)
        /\ all = RunMmc5Square(o, m + n)
    BY Zenon, <1>1, <1>3, <1>8, RunOf
  <2>2. Parted(one, two, all, m, n)
    BY SMT, <1>2, <1>8, <2>1, Mmc5SquareCut
  <2> QED
    BY <1>4, <2>2
<1>9. CASE o.kind = "mmc5_pcm"
  <2>1. one = Unheard(o, m) /\ two = Unheard(one.osc, n) /\ all = Unheard(o, m + n)
    BY Zenon, <1>1, <1>3, <1>9, RunOf
  <2>2. one.osc = o
    BY Zenon, <2>1, <1>2, UnheardCut
  <2>3. Parted(one, two, all, m, n)
    BY Zenon, <1>2, <2>1, <2>2, UnheardCut
  <2> QED
    BY <1>4, <2>3
<1>10. CASE o.kind = "vrc6_square" /\ o \in Vrc6SquareOsc
  <2>1. /\ one = RunVrc6Square(o, m) /\ two = RunVrc6Square(one.osc, n)
        /\ all = RunVrc6Square(o, m + n)
    BY Zenon, <1>1, <1>3, <1>10, RunOf
  <2>2. Parted(one, two, all, m, n)
    BY SMT, <1>2, <1>10, <2>1, Vrc6SquareCut
  <2> QED
    BY <1>4, <2>2
<1>11. CASE o.kind = "vrc6_saw" /\ o \in SawOsc
  <2>1. one = RunSaw(o, m) /\ two = RunSaw(one.osc, n) /\ all = RunSaw(o, m + n)
    BY Zenon, <1>1, <1>3, <1>11, RunOf
  <2>2. o.rate # 0
    BY Zenon, <1>11, NotApproximated
  <2>3. Parted(one, two, all, m, n)
    BY SMT, <1>2, <1>11, <2>1, <2>2, SawCut
  <2> QED
    BY <1>4, <2>3
<1>12. CASE o.kind = "fme7" /\ o \in Fme7Osc
  <2>1. one = RunFme7(o, m) /\ two = RunFme7(one.osc, n) /\ all = RunFme7(o, m + n)
    BY Zenon, <1>1, <1>3, <1>12, RunOf
  <2>2. Parted(one, two, all, m, n)
    BY SMT, <1>2, <1>12, <2>1, Fme7Cut
  <2> QED
    BY <1>4, <2>2
<1>13. CASE o.kind = "namco" /\ o \in NamcoOsc
  <2>1. one = RunNamco(o, m) /\ two = RunNamco(one.osc, n) /\ all = RunNamco(o, m + n)
    BY Zenon, <1>1, <1>3, <1>13, RunOf
  <2>2. Parted(one, two, all, m, n)
    BY SMT, <1>2, <1>13, <2>1, NamcoCut
  <2> QED
    BY <1>4, <2>2
<1>14. CASE o.kind = "vrc7" /\ o \in Vrc7State
  <2>1. one = RunVrc7(o, m) /\ two = RunVrc7(one.osc, n) /\ all = RunVrc7(o, m + n)
    BY Zenon, <1>1, <1>3, <1>14, RunOf
  <2>2. Parted(one, two, all, m, n)
    BY SMT, <1>2, <1>14, <2>1, Vrc7Cut
  <2> QED
    BY <1>4, <2>2
<1> QED
  BY Zenon, <1>5, <1>6, <1>7, <1>8, <1>9, <1>10, <1>11, <1>12, <1>13, <1>14, KindOf

LEMMA FdsCutIsSame ==
  ASSUME NEW o \in States, o.kind = "fds", NEW m \in Nat \ {0}, NEW n \in Nat
  PROVE  SameRun(o, m, n) \/ (n = 0 /\ Restless(Run(o, m).osc))
<1>1. PICK one, two, all : one = Run(o, m) /\ two = Run(one.osc, n) /\ all = Run(o, m + n)
  OBVIOUS
<1>2. m \in Nat /\ m > 0 /\ m >= 1
  BY SMT
<1>3. OscRan(o, m, one)
  BY Zenon, <1>1, <1>2, OscRun
<1>4. one.osc.kind = "fds"
  BY Zenon, <1>3 DEF OscRan
<1>5. o \in FdsState
  BY Zenon, Sorts
<1>6. one = RunFds(o, m) /\ two = RunFds(one.osc, n) /\ all = RunFds(o, m + n)
  BY Zenon, <1>1, <1>4, RunOf
<1>7. CASE n = 0 /\ Restless(one.osc)
  BY Zenon, <1>1, <1>7
<1>8. CASE FdsParted(one, two, all, m, n)
  <2>1. two.osc.kind = "fds" /\ all.osc.kind = "fds"
    <3>1. one.osc \in FdsState /\ m + n \in Nat
      BY SMT, <1>2, <1>5, <1>6, FdsRun
    <3>2. two.osc \in FdsState /\ all.osc \in FdsState
      BY Zenon, <1>5, <1>6, <3>1, FdsRun
    <3> QED
      BY Zenon, <3>2 DEF FdsState
  <2>2. Kept(two.osc) = Kept(all.osc)
    BY Zenon, <1>8, <2>1 DEF Kept, FdsParted
  <2>3. all.deltas = Glued(one.deltas, two.deltas, m, n)
    BY Zenon, <1>8 DEF FdsParted
  <2> QED
    BY SMT, <1>1, <2>2, <2>3, PartedIsSame
<1>9. FdsParted(one, two, all, m, n) \/ (n = 0 /\ Restless(one.osc))
  BY SMT, <1>2, <1>5, <1>6, FdsCut
<1> QED
  BY Zenon, <1>7, <1>8, <1>9

(* Cut anywhere, not only after its first clock.                           *)
CutsAnywhere ==
  ~Approximated(osc) =>
    \A m \in Nat \ {0}, n \in Nat :
      \/ SameRun(osc, m, n)
      \/ n = 0 /\ osc.kind = "fds" /\ Restless(Run(osc, m).osc)

LEMMA CutIs ==
  ASSUME OscInv
  PROVE  CutsAnywhere
<1>1. osc \in States
  BY Zenon DEF OscInv
<1> QED
  BY Zenon, <1>1, CutIsSame, FdsCutIsSame DEF CutsAnywhere

(* Where a run is cut, after however many clocks, is neither heard nor     *)
(* seen in the oscillator, except where the code says that it only         *)
(* approximates, and where a call at the very clock of the last one makes  *)
(* the FDS step a unit early.                                              *)
THEOREM OscsCutAnywhere == Spec => []CutsAnywhere
<1>1. OscInv => CutsAnywhere
  BY Zenon, CutIs
<1> QED
  BY <1>1, OscInvariant, PTL

(* In particular after its first clock, as the runs check it: time frames, *)
(* calls and frame events have no effect but their own.                    *)
THEOREM OscsCut == Spec => []CutsHaveNoEffect
<1>1. CutsAnywhere => CutsHaveNoEffect
  <2>1. \A n \in {1, Longest - 1} \cup (IF osc.kind \in Unskipped THEN {0} ELSE {}) : n \in Nat
    BY SMT, RunAssumption DEF RunAssumption
  <2>2. 1 \in Nat \ {0}
    BY SMT
  <2> QED
    BY Zenon, <2>1, <2>2 DEF CutsAnywhere, CutsHaveNoEffect
<1> QED
  BY <1>1, OscsCutAnywhere, PTL

=============================================================================
