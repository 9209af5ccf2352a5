----------------------------- MODULE OscsProofs -----------------------------
(***************************************************************************)
(* The oscillators, for all registers' values, runs of any length and any  *)
(* number of bits of the noise register.                                   *)
(***************************************************************************)
EXTENDS Oscs, Arithmetic, SequenceTheorems

(* What the oscillators are made of.                                       *)
Control == [duty_select : 0 .. 3, halt : BOOLEAN, constant : BOOLEAN, low : 0 .. envelope_top]
Sweep == [enabled : BOOLEAN, delay : Nat, negate : BOOLEAN, shift : Nat]
Register == 1 .. two_to[noise_bits] - 1
Delay == {d \in Nat : d < delay_range}

SquareOsc ==
  [kind : squares, output : BOOLEAN, delay : Nat, last_amp : Nat, phase : 0 .. phase_range - 1,
   period : 0 .. period_range - 1, length_counter : Nat, control : Control, written3 : BOOLEAN,
   envelope : 0 .. envelope_top, env_delay : Nat, sweep_delay : Nat, written1 : BOOLEAN,
   sweep : Sweep]

Mmc5SquareOsc ==
  [kind : {"mmc5_square"}, output : BOOLEAN, delay : Nat, last_amp : Nat,
   phase : 0 .. phase_range - 1, period : 0 .. period_range - 1, length_counter : Nat,
   control : Control, written3 : BOOLEAN, envelope : 0 .. envelope_top, env_delay : Nat,
   sweep : Sweep, frame_delay : 0 .. mmc5_frame_period, enabled : BOOLEAN]

TriangleOsc ==
  [kind : {"triangle"}, output : BOOLEAN, delay : Nat, last_amp : Nat,
   phase : 1 .. tri_range * 2, period : 0 .. period_range - 1, length_counter : Nat,
   control : Control, written3 : BOOLEAN, linear_counter : Nat, linear_load : Nat]

NoiseOsc ==
  [kind : {"noise"}, output : BOOLEAN, delay : Nat, last_amp : Nat, noise : Register,
   mode : BOOLEAN, period : NoisePeriods, length_counter : Nat, control : Control,
   written3 : BOOLEAN, envelope : 0 .. envelope_top, env_delay : Nat]

PcmOsc ==
  [kind : {"mmc5_pcm"}, output : BOOLEAN, delay : Nat, last_amp : Nat, irq_flag : BOOLEAN,
   irq_enabled : BOOLEAN, read_mode : BOOLEAN, line : BOOLEAN, dropped : BOOLEAN]

Vrc6SquareOsc ==
  [kind : {"vrc6_square"}, output : BOOLEAN, delay : Delay, last_amp : Nat,
   phase : 0 .. vrc6_phases - 1, period : Vrc6Periods, enabled : BOOLEAN, volume : Nat,
   gate : BOOLEAN, duty : 0 .. vrc6_phases - 2]

SawOsc ==
  [kind : {"vrc6_saw"}, output : BOOLEAN, delay : Delay, last_amp : Nat, phase : 1 .. 7,
   period : Vrc6Periods, enabled : BOOLEAN, amp : 0 .. amp_range - 1, rate : 0 .. amp_range - 1]

Fme7Osc ==
  [kind : {"fme7"}, output : BOOLEAN, delay : Delay, last_amp : Nat, phase : {0, 1},
   period : Fme7Periods, tone_off : BOOLEAN, envelope : BOOLEAN, volume : Nat]

NamcoOsc ==
  [kind : {"namco"}, output : BOOLEAN, delay : Nat, last_amp : Nat,
   wave_pos : 0 .. LargestWave - 1, rank : NamcoRanks, active : Nat \ {0}, wave_on : BOOLEAN,
   volume : Nat, freq : NamcoFreqs, wave_size : WaveSizes, wave : [0 .. LargestWave - 1 -> Nat]]

Vrc7State ==
  [kind : {"vrc7"}, output : BOOLEAN, delay : Nat, last_amp : Nat, turn : {0, 1},
   key_on : BOOLEAN]

Deltas(n) == [0 .. n -> Int]

-----------------------------------------------------------------------------
(* Numbers.                                                                *)

LEMMA TwoTo ==
  /\ two_to \in [Nat -> Nat \ {0}] /\ two_to[0] = 1
  /\ \A n \in Nat : two_to[n + 1] = 2 * two_to[n]
<1> DEFINE step == [x \in (Nat \ {0}) \X Nat |-> 2 * x[1]]
<1>1. ASSUME NEW d \in Nat \ {0}, NEW k \in Nat
      PROVE  step[<<d, k>>] = 2 * d
  BY SMT
<1> HIDE DEF step
<1>2. Closed(Nat \ {0}, step, Nat)
  <2>1. \A d \in Nat \ {0} : 2 * d \in Nat \ {0}
    BY SMT
  <2> QED
    BY Zenon, <1>1, <2>1 DEF Closed
<1>3. PICK f \in [Nat -> Nat \ {0}] : IsLoop(f, 1, step, Nat)
  <2>1. 1 \in Nat \ {0}
    BY SMT
  <2> QED
    BY Zenon, <1>2, <2>1, RecursionExists
<1>4. f = [n \in Nat |-> IF n = 0 THEN 1 ELSE 2 * f[n - 1]]
  <2>1. ASSUME NEW n \in Nat PROVE f[n] = IF n = 0 THEN 1 ELSE 2 * f[n - 1]
    <3>1. n # 0 => n - 1 \in Nat
      BY SMT
    <3> QED
      BY Zenon, <1>1, <1>3, <3>1 DEF IsLoop
  <2> QED
    BY Zenon, <2>1
<1>5. two_to = [n \in Nat |-> IF n = 0 THEN 1 ELSE 2 * two_to[n - 1]]
  BY Zenon, <1>4 DEF two_to
<1>6. two_to[0] = 1 /\ \A n \in Nat : two_to[n + 1] = 2 * two_to[n]
  <2>1. \A n \in Nat : n + 1 \in Nat /\ n + 1 # 0 /\ (n + 1) - 1 = n
    BY SMT
  <2>2. 0 \in Nat
    BY SMT
  <2> QED
    BY Zenon, <1>5, <2>1, <2>2
<1>7. ASSUME NEW n \in Nat PROVE two_to[n] \in Nat \ {0}
  <2> DEFINE S == {k \in Nat : two_to[k] \in Nat \ {0}}
  <2>1. 0 \in S
    BY SMT, <1>6
  <2>2. ASSUME NEW k \in S PROVE k + 1 \in S
    BY SMT, <1>6
  <2>3. S = Nat
    <3>1. S \in SUBSET Nat
      OBVIOUS
    <3> HIDE DEF S
    <3> QED
      BY Zenon, <2>1, <2>2, <3>1, Induction
  <2> QED
    BY Zenon, <2>3
<1> QED
  BY Zenon, <1>5, <1>6, <1>7

(* The transitions of a run, and the time to the next one after it.        *)
LEMMA Counting ==
  ASSUME NEW d \in Nat, NEW p \in Nat \ {0}, NEW n \in Nat
  PROVE  /\ Count(d, p, n) \in Nat /\ DelayAfter(d, p, n) \in Nat
         /\ n <= d => Count(d, p, n) = 0 /\ DelayAfter(d, p, n) = d - n
         /\ n > d => Count(d, p, n) >= 1 /\ DelayAfter(d, p, n) < p
<1>1. CASE n <= d
  <2>1. Count(d, p, n) = 0
    BY SMT, <1>1 DEF Count
  <2>2. 0 * p = 0
    BY SMT
  <2>3. DelayAfter(d, p, n) = d + 0 - n
    BY Zenon, <2>1, <2>2 DEF DelayAfter
  <2> QED
    BY SMT, <1>1, <2>1, <2>3
<1>2. CASE n > d
  <2>1. PICK x \in Nat : x = n - d + p - 1 /\ x >= p
    BY SMT, <1>2
  <2>2. PICK c \in Int : c = x \div p /\ c * p <= x /\ x < c * p + p
    <3>1. x \in Int
      BY SMT
    <3> QED
      BY Zenon, <3>1, Division
  <2>3. PICK C \in Int : C = c * p
    BY SMT
  <2>4. c >= 1
    <3>1. CASE c <= 0
      <4>1. C <= 0 * p /\ 0 * p = 0
        <5>1. 0 \in Int /\ p \in Nat
          BY SMT
        <5>2. 0 * p = 0
          BY SMT
        <5> QED
          BY Zenon, <2>3, <3>1, <5>1, <5>2, Products
      <4> QED
        BY SMT, <2>1, <2>2, <2>3, <4>1
    <3> QED
      BY SMT, <3>1
  <2>5. Count(d, p, n) = c
    BY Zenon, <1>2, <2>1, <2>2 DEF Count
  <2>6. DelayAfter(d, p, n) = d + C - n
    BY Zenon, <2>3, <2>5 DEF DelayAfter
  <2>7. d + C - n \in Nat /\ d + C - n < p
    BY SMT, <2>1, <2>2, <2>3
  <2>8. c \in Nat
    BY SMT, <2>4
  <2>9. ~(n <= d)
    BY SMT, <1>2
  <2> QED
    BY Zenon, <2>4, <2>5, <2>6, <2>7, <2>8, <2>9
<1> QED
  BY SMT, <1>1, <1>2

LEMMA DeltaAdded ==
  ASSUME NEW n \in Nat, NEW deltas \in Deltas(n), NEW t, NEW d \in Int
  PROVE  [deltas EXCEPT ![t] = @ + d] \in Deltas(n)
<1>1. CASE t \in 0 .. n
  <2>1. deltas[t] + d \in Int
    BY SMT, <1>1 DEF Deltas
  <2> QED
    BY Zenon, <2>1 DEF Deltas
<1>2. CASE t \notin 0 .. n
  BY Zenon, <1>2 DEF Deltas
<1> QED
  BY Zenon, <1>1, <1>2

LEMMA Firsts ==
  ASSUME NEW n \in Nat, NEW amp \in Int, NEW o, o.last_amp \in Int
  PROVE  /\ Silence(n) \in Deltas(n) /\ First(o, amp, n) \in Deltas(n)
         /\ amp = o.last_amp => First(o, amp, n) = Silence(n)
<1>1. 0 \in 0 .. n /\ 0 \in Int /\ amp - o.last_amp \in Int
      /\ (amp = o.last_amp => amp - o.last_amp = 0)
  BY SMT
<1>2. Silence(n) \in Deltas(n) /\ Silence(n)[0] = 0
  BY Zenon, <1>1 DEF Silence, Deltas
<1>3. First(o, amp, n) \in Deltas(n)
  BY Zenon, <1>1, <1>2 DEF First, Deltas
<1>4. amp = o.last_amp => First(o, amp, n) = Silence(n)
  BY Zenon, <1>1, <1>2 DEF First, Deltas
<1> QED
  BY Zenon, <1>2, <1>3, <1>4

-----------------------------------------------------------------------------
(* The squares, those of the MMC5 too.                                     *)

Pulse == SquareOsc \cup Mmc5SquareOsc

SquareLoop(o, n) ==
  [phase : 0 .. phase_range - 1, delta : {volume(o), -volume(o)}, deltas : Deltas(n)]

SquarePasses(o, first, n) ==
  LET Pass(p, t) == SquarePass(o, p, t)
  IN  Passes(Pass, first, o.delay, timer_period(o), n)

LEMMA PulseFields ==
  ASSUME NEW o \in Pulse
  PROVE  /\ o.phase \in 0 .. phase_range - 1 /\ o.delay \in Nat /\ o.last_amp \in Nat
         /\ timer_period(o) \in Nat \ {0} /\ volume(o) \in Nat
BY SMT, OscAssumption DEF Pulse, SquareOsc, Mmc5SquareOsc, Control, OscAssumption, timer_period,
                          volume

(* The loop of a square that is heard.                                     *)
LEMMA SquareLoops ==
  ASSUME NEW o \in Pulse, NEW n \in Nat, NEW first \in SquareLoop(o, n)
  PROVE  LET count == Count(o.delay, timer_period(o), n)
         IN  \E f \in [0 .. count -> SquareLoop(o, n)] :
               /\ f[0] = first
               /\ \A k \in 1 .. count :
                    f[k] = SquarePass(o, f[k - 1], o.delay + (k - 1) * timer_period(o))
               /\ SquarePasses(o, first, n) = f[count]
<1> DEFINE count == Count(o.delay, timer_period(o), n)
           D == SquareLoop(o, n)
           at(k) == o.delay + (k - 1) * timer_period(o)
           step == [x \in D \X (0 .. count) |-> SquarePass(o, x[1], at(x[2]))]
           Eq(g) == g = [k \in 0 .. count |-> IF k = 0 THEN first
                                              ELSE SquarePass(o, g[k - 1], at(k))]
<1>1. count \in Nat
  BY Zenon, Counting, PulseFields
<1>2. ASSUME NEW p \in D, NEW t PROVE SquarePass(o, p, t) \in D
  <2>1. /\ volume(o) \in Int /\ p.phase \in 0 .. phase_range - 1 /\ p.deltas \in Deltas(n)
        /\ p.delta \in {volume(o), -volume(o)} /\ p.delta \in Int
        /\ -p.delta \in {volume(o), -volume(o)} /\ -p.delta \in Int
    BY SMT, PulseFields DEF SquareLoop
  <2>2. (p.phase + 1) % phase_range \in 0 .. phase_range - 1
    BY SMT, <2>1 DEF phase_range
  <2>3. [p.deltas EXCEPT ![t] = @ + -p.delta] \in Deltas(n)
        /\ [p.deltas EXCEPT ![t] = @ + p.delta] \in Deltas(n)
    BY Zenon, <2>1, DeltaAdded
  <2> QED
    BY Zenon, <2>1, <2>2, <2>3 DEF SquarePass, SquareLoop
<1> HIDE DEF D, at, count
<1>3. ASSUME NEW d \in D, NEW k \in 0 .. count
      PROVE  step[<<d, k>>] = SquarePass(o, d, at(k))
  BY Zenon
<1> HIDE DEF step
<1>4. PICK f \in [0 .. count -> D] : IsLoop(f, first, step, 0 .. count)
  <2>1. Closed(D, step, 0 .. count)
    BY Zenon, <1>2, <1>3 DEF Closed
  <2> QED
    BY Zenon, <1>1, <2>1, LoopExists DEF D
<1>5. Eq(f)
  <2>1. ASSUME NEW k \in 0 .. count
        PROVE  f[k] = IF k = 0 THEN first ELSE SquarePass(o, f[k - 1], at(k))
    <3>1. f[k] = IF k = 0 THEN first ELSE step[<<f[k - 1], k>>]
      BY Zenon, <1>4 DEF IsLoop
    <3>2. k # 0 => f[k - 1] \in D
      BY Zenon, <1>1, <1>4, Indices
    <3> QED
      BY Zenon, <1>3, <3>1, <3>2
  <2> QED
    BY Zenon, <2>1
<1>6. PICK g : Eq(g) /\ SquarePasses(o, first, n) = g[count]
  <2>1. Eq(CHOOSE g : Eq(g))
    <3> HIDE DEF Eq
    <3> QED
      BY Zenon, <1>5
  <2>2. SquarePasses(o, first, n) = (CHOOSE g : Eq(g))[count]
    BY Zenon DEF SquarePasses, Passes, count, at
  <2> HIDE DEF Eq
  <2> QED
    BY Zenon, <2>1, <2>2
<1>7. g[0] = first /\ \A k \in 1 .. count : g[k] = SquarePass(o, g[k - 1], at(k))
  BY Zenon, <1>1, <1>6, Indices
<1>8. \A k \in 0 .. count : g[k] \in D
  <2>1. first \in D
    BY DEF D
  <2>2. \A k \in 1 .. count : g[k - 1] \in D => g[k] \in D
    BY Zenon, <1>2, <1>7
  <2> QED
    BY Zenon, <1>1, <1>7, <2>1, <2>2, Stays
<1>9. g \in [0 .. count -> D]
  BY Zenon, <1>6, <1>8
<1> QED
  BY Zenon, <1>6, <1>7, <1>9 DEF D, at, count

LEMMA PulseMoved ==
  ASSUME NEW o \in Pulse, NEW phase \in 0 .. phase_range - 1, NEW amp \in Nat, NEW delay \in Nat
  PROVE  LET moved == [o EXCEPT !.phase = phase, !.last_amp = amp, !.delay = delay]
         IN  /\ o \in SquareOsc => moved \in SquareOsc
             /\ o \in Mmc5SquareOsc => moved \in Mmc5SquareOsc
             /\ amp = o.last_amp => moved = [o EXCEPT !.phase = phase, !.delay = delay]
             /\ moved = [[o EXCEPT !.phase = phase, !.delay = delay] EXCEPT !.last_amp = amp]
             /\ moved.last_amp = amp /\ moved.phase = phase /\ moved.delay = delay
             /\ moved.output = o.output
<1> DEFINE moved == [o EXCEPT !.phase = phase, !.last_amp = amp, !.delay = delay]
<1>1. CASE o \in SquareOsc
  <2>1. o \notin Mmc5SquareOsc
    BY SMT, <1>1 DEF SquareOsc, Mmc5SquareOsc, squares
  <2>2. moved \in SquareOsc
    BY Zenon, <1>1 DEF SquareOsc
  <2>3. /\ amp = o.last_amp => moved = [o EXCEPT !.phase = phase, !.delay = delay]
        /\ moved = [[o EXCEPT !.phase = phase, !.delay = delay] EXCEPT !.last_amp = amp]
    BY Zenon, <1>1 DEF SquareOsc
  <2>4. /\ moved.last_amp = amp /\ moved.phase = phase /\ moved.delay = delay
        /\ moved.output = o.output
    BY SMT, <1>1 DEF SquareOsc
  <2> QED
    BY Zenon, <1>1, <2>1, <2>2, <2>3, <2>4
<1>2. CASE o \in Mmc5SquareOsc
  <2>1. o \notin SquareOsc
    BY SMT, <1>2 DEF SquareOsc, Mmc5SquareOsc, squares
  <2>2. moved \in Mmc5SquareOsc
    BY Zenon, <1>2 DEF Mmc5SquareOsc
  <2>3. /\ amp = o.last_amp => moved = [o EXCEPT !.phase = phase, !.delay = delay]
        /\ moved = [[o EXCEPT !.phase = phase, !.delay = delay] EXCEPT !.last_amp = amp]
    BY Zenon, <1>2 DEF Mmc5SquareOsc
  <2>4. /\ moved.last_amp = amp /\ moved.phase = phase /\ moved.delay = delay
        /\ moved.output = o.output
    BY SMT, <1>2 DEF Mmc5SquareOsc
  <2> QED
    BY Zenon, <1>2, <2>1, <2>2, <2>3, <2>4
<1> QED
  BY Zenon, <1>1, <1>2 DEF Pulse

(* What a run of a square leaves, whether it is heard, silent or muted: a  *)
(* phase and a time that do not depend on that, and a level that it has    *)
(* marked.                                                                 *)
PulsePhase(o, n) == (o.phase + Count(o.delay, timer_period(o), n)) % phase_range
PulseDelay(o, n) == DelayAfter(o.delay, timer_period(o), n)

PulseRan(o, n, run) ==
  /\ \E amp \in Nat :
       /\ run.osc = [o EXCEPT !.phase = PulsePhase(o, n), !.last_amp = amp,
                              !.delay = PulseDelay(o, n)]
       /\ ~run.marks => run.deltas = Silence(n) /\ amp = o.last_amp
  /\ run.deltas \in Deltas(n) /\ run.marks \in BOOLEAN

LEMMA PulseRun ==
  ASSUME NEW o \in Pulse, NEW n \in Nat
  PROVE  PulseRan(o, n, RunSquare(o, n))
<1> DEFINE period == timer_period(o)
           count == Count(o.delay, period, n)
           run == RunSquare(o, n)
<1>1. /\ count \in Nat /\ PulseDelay(o, n) \in Nat
      /\ o.delay \in Nat /\ o.last_amp \in Nat /\ volume(o) \in Nat
      /\ o.phase \in 0 .. phase_range - 1
  BY Zenon, PulseFields, Counting DEF PulseDelay
<1>2. PulsePhase(o, n) \in 0 .. phase_range - 1
  <2>1. \A c \in Nat : (o.phase + c) % phase_range \in 0 .. phase_range - 1
    BY SMT, <1>1 DEF phase_range
  <2> QED
    BY Zenon, <1>1, <2>1 DEF PulsePhase
<1>3. maintain_phase(o, n) = [o EXCEPT !.phase = PulsePhase(o, n), !.delay = PulseDelay(o, n)]
  BY Zenon DEF maintain_phase, PulsePhase, PulseDelay
<1>4. Silence(n) \in Deltas(n) /\ \A amp \in Nat : First(o, amp, n) \in Deltas(n)
  <2>1. \A amp \in Nat : amp \in Int
    BY SMT
  <2>2. o.last_amp \in Int
    BY SMT, <1>1
  <2> QED
    BY Zenon, <2>1, <2>2, Firsts
<1>5. CASE ~o.output
  <2>1. /\ run.osc = maintain_phase(o, n) /\ run.deltas = Silence(n)
        /\ run.marks = FALSE
    BY Zenon, <1>5 DEF RunSquare, Unheard
  <2>2. maintain_phase(o, n) = [o EXCEPT !.phase = PulsePhase(o, n), !.last_amp = o.last_amp,
                                         !.delay = PulseDelay(o, n)]
    BY Zenon, <1>1, <1>2, <1>3, PulseMoved
  <2> QED
    BY Zenon, <1>1, <1>4, <2>1, <2>2 DEF PulseRan
<1>6. CASE o.output /\ ~Audible(o)
  <2>1. /\ run.osc = [maintain_phase(o, n) EXCEPT !.last_amp = 0]
        /\ run.deltas = First(o, 0, n) /\ run.marks \in BOOLEAN
        /\ run.marks \/ o.last_amp = 0
    BY Zenon, <1>6 DEF RunSquare
  <2>2. 0 \in Nat /\ 0 \in Int /\ o.last_amp \in Int
    BY SMT, <1>1
  <2>3. o.last_amp = 0 => First(o, 0, n) = Silence(n)
    BY Zenon, <2>2, Firsts
  <2>4. [maintain_phase(o, n) EXCEPT !.last_amp = 0]
          = [o EXCEPT !.phase = PulsePhase(o, n), !.last_amp = 0, !.delay = PulseDelay(o, n)]
    BY Zenon, <1>1, <1>2, <1>3, <2>2, PulseMoved
  <2>5. First(o, 0, n) \in Deltas(n)
    BY Zenon, <1>4, <2>2
  <2> QED
    BY Zenon, <2>1, <2>2, <2>3, <2>4, <2>5 DEF PulseRan
<1>7. CASE o.output /\ Audible(o)
  <2> DEFINE amp == SquareAmp(o)
             first == [phase |-> o.phase, delta |-> amp * 2 - volume(o), deltas |-> First(o, amp, n)]
  <2>1. amp \in Nat /\ amp * 2 - volume(o) \in {volume(o), -volume(o)}
    BY SMT, <1>1 DEF SquareAmp
  <2>2. first \in SquareLoop(o, n)
    BY Zenon, <1>1, <1>4, <2>1 DEF SquareLoop
  <2> HIDE DEF first, count
  <2>3. PICK f \in [0 .. count -> SquareLoop(o, n)] :
          /\ f[0] = first
          /\ \A k \in 1 .. count : f[k] = SquarePass(o, f[k - 1], o.delay + (k - 1) * period)
          /\ SquarePasses(o, first, n) = f[count]
    BY Zenon, <2>2, SquareLoops DEF count
  <2>4. f[count] \in SquareLoop(o, n) /\ 0 \in 0 .. count /\ count \in 0 .. count
    <3>1. 0 \in 0 .. count /\ count \in 0 .. count
      BY SMT, <1>1
    <3> QED
      BY Zenon, <2>3, <3>1
  <2>5. f[count].phase = PulsePhase(o, n)
    <3> DEFINE S == {k \in 0 .. count : f[k].phase = (o.phase + k) % phase_range}
    <3>1. 0 \in S
      <4>1. o.phase = (o.phase + 0) % phase_range
        BY SMT, <1>1 DEF phase_range
      <4>2. first.phase = o.phase
        BY Zenon DEF first
      <4> QED
        BY Zenon, <2>3, <2>4, <4>1, <4>2
    <3>2. ASSUME NEW k \in 1 .. count, k - 1 \in S PROVE k \in S
      <4>0. \A p, t : SquarePass(o, p, t).phase = (p.phase + 1) % phase_range
        BY Zenon DEF SquarePass
      <4>1. f[k].phase = (f[k - 1].phase + 1) % phase_range
        BY Zenon, <2>3, <4>0
      <4>2. k \in 0 .. count /\ k \in Int
        BY SMT, <1>1
      <4>3. (((o.phase + (k - 1)) % phase_range) + 1) % phase_range = (o.phase + k) % phase_range
        <5>1. PICK x \in Int : x = o.phase + (k - 1) /\ x + 1 = o.phase + k
          BY SMT, <1>1, <4>2
        <5>2. ((x % phase_range) + 1) % phase_range = (x + 1) % phase_range
          BY SMT DEF phase_range
        <5> QED
          BY Zenon, <5>1, <5>2
      <4> QED
        BY Zenon, <3>2, <4>1, <4>2, <4>3
    <3>3. 0 .. count \subseteq S
      <4> HIDE DEF S
      <4> QED
        BY Zenon, <1>1, <3>1, <3>2, Along
    <3> QED
      BY Zenon, <2>4, <3>3 DEF PulsePhase, count
  <2> DEFINE level == (f[count].delta + volume(o)) \div 2
  <2>6. level \in Nat
    <3>1. f[count].delta \in {volume(o), -volume(o)}
      BY Zenon, <2>4 DEF SquareLoop
    <3> QED
      BY SMT, <1>1, <3>1
  <2>7. /\ run.osc = [o EXCEPT !.phase = f[count].phase, !.last_amp = level,
                               !.delay = PulseDelay(o, n)]
        /\ run.deltas = f[count].deltas /\ run.marks = TRUE
    <3>1. RunSquare(o, n) = PlaySquare(o, n)
      BY Zenon, <1>7 DEF RunSquare
    <3>2. /\ PlaySquare(o, n).osc =
               [o EXCEPT !.phase = SquarePasses(o, first, n).phase,
                         !.last_amp = (SquarePasses(o, first, n).delta + volume(o)) \div 2,
                         !.delay = PulseDelay(o, n)]
          /\ PlaySquare(o, n).deltas = SquarePasses(o, first, n).deltas
          /\ PlaySquare(o, n).marks = TRUE
      BY Zenon DEF PlaySquare, SquarePasses, Passes, first, PulseDelay
    <3> QED
      BY Zenon, <2>3, <3>1, <3>2
  <2>8. f[count].deltas \in Deltas(n)
    BY Zenon, <2>4 DEF SquareLoop
  <2> HIDE DEF level
  <2> QED
    BY Zenon, <2>5, <2>6, <2>7, <2>8 DEF PulseRan
<1> QED
  BY Zenon, <1>5, <1>6, <1>7

-----------------------------------------------------------------------------
(* The noise.                                                              *)

NoiseLoop(o, n) == [noise : Register, delta : {volume(o), -volume(o)}, deltas : Deltas(n)]

NoisePasses(o, first, n) ==
  LET Pass(p, t) == NoisePass(o, p, t)
  IN  Passes(Pass, first, o.delay, o.period, n)

LEMMA NoiseFields ==
  ASSUME NEW o \in NoiseOsc
  PROVE  /\ o.noise \in Register /\ o.delay \in Nat /\ o.last_amp \in Nat
         /\ o.period \in Nat \ {0} /\ volume(o) \in Nat /\ o.mode \in BOOLEAN
<1>1. o.noise \in Register /\ o.mode \in BOOLEAN
  BY Zenon DEF NoiseOsc
<1>2. /\ o.delay \in Nat /\ o.last_amp \in Nat /\ o.period \in Nat \ {0}
      /\ o.control \in Control /\ o.envelope \in 0 .. envelope_top
  BY Zenon, OscAssumption DEF NoiseOsc, OscAssumption
<1>3. volume(o) \in Nat
  BY SMT, <1>2, OscAssumption DEF Control, OscAssumption, volume
<1> QED
  BY Zenon, <1>1, <1>2, <1>3

(* A shift of the register, by whichever tap, never leaves 0 in it.        *)
LEMMA ShiftedStays ==
  ASSUME NEW noise \in Register, NEW tap \in {1, mode_tap}
  PROVE  Shifted(noise, tap) \in Register
<1>1. PICK h \in Nat \ {0} : h = two_to[noise_bits - 1] /\ two_to[noise_bits] = 2 * h
  <2>1. noise_bits - 1 \in Nat /\ (noise_bits - 1) + 1 = noise_bits
    BY SMT, OscAssumption DEF OscAssumption
  <2> QED
    BY Zenon, <2>1, TwoTo
<1>2. PICK w \in Nat \ {0} : w = two_to[tap] /\ w >= 2
  <2>1. tap - 1 \in Nat /\ (tap - 1) + 1 = tap /\ tap \in Nat
    BY SMT, OscAssumption DEF OscAssumption
  <2>2. PICK v \in Nat \ {0} : two_to[tap] = 2 * v
    BY Zenon, <2>1, TwoTo
  <2> QED
    BY SMT, <2>2
<1>3. noise \in 1 .. 2 * h - 1
  BY Zenon, <1>1 DEF Register
<1>4. PICK bit \in Int : bit = Bit(noise, tap) /\ bit \in {0, 1} /\ (noise = 1 => bit = 0)
  <2>1. PICK q \in Int : q = noise \div w /\ q * w <= noise /\ noise < q * w + w
    <3>1. noise \in Int
      BY SMT, <1>3
    <3> QED
      BY Zenon, <3>1, Division
  <2>2. q % 2 \in {0, 1} /\ q % 2 \in Int /\ (q = 0 => q % 2 = 0)
    BY SMT
  <2>3. noise = 1 => q = 0
    <3>1. ASSUME noise = 1 PROVE 0 * w <= 1 /\ 1 < 0 * w + w /\ 0 \in Int /\ 1 \in Int
      BY SMT, <1>2
    <3> QED
      BY Zenon, <2>1, <3>1, Quotient
  <2> QED
    BY Zenon, <1>2, <2>1, <2>2, <2>3 DEF Bit
<1>5. Bit(noise, 0) = noise % 2
  <2>1. noise \div 1 = noise
    BY SMT, <1>3
  <2> QED
    BY Zenon, <2>1, TwoTo DEF Bit
<1>6. PICK fed \in {0, 1} : fed = (Bit(noise, tap) + Bit(noise, 0)) % 2 /\ (noise = 1 => fed = 1)
  <2>1. /\ (bit + (noise % 2)) % 2 \in {0, 1}
        /\ noise = 1 => (bit + (noise % 2)) % 2 = 1
    BY SMT, <1>3, <1>4
  <2> QED
    BY Zenon, <1>4, <1>5, <2>1
<1>7. (noise \div 2) + fed * h \in 1 .. 2 * h - 1
  <2>1. CASE fed = 0
    <3>1. 0 * h = 0 /\ noise # 1
      BY SMT, <1>6, <2>1
    <3>2. (noise \div 2) + 0 \in 1 .. 2 * h - 1
      BY SMT, <1>3, <3>1
    <3> QED
      BY Zenon, <2>1, <3>1, <3>2
  <2>2. CASE fed = 1
    <3>1. 1 * h = h
      BY SMT
    <3>2. (noise \div 2) + h \in 1 .. 2 * h - 1
      BY SMT, <1>3
    <3> QED
      BY Zenon, <2>2, <3>1, <3>2
  <2> QED
    BY Zenon, <2>1, <2>2
<1> QED
  BY Zenon, <1>1, <1>6, <1>7 DEF Shifted, Register

(* The loop of a noise that is heard.                                      *)
LEMMA NoiseLoops ==
  ASSUME NEW o \in NoiseOsc, NEW n \in Nat, NEW first \in NoiseLoop(o, n)
  PROVE  LET count == Count(o.delay, o.period, n)
         IN  \E f \in [0 .. count -> NoiseLoop(o, n)] :
               /\ f[0] = first
               /\ \A k \in 1 .. count :
                    f[k] = NoisePass(o, f[k - 1], o.delay + (k - 1) * o.period)
               /\ NoisePasses(o, first, n) = f[count]
<1> DEFINE count == Count(o.delay, o.period, n)
           D == NoiseLoop(o, n)
           at(k) == o.delay + (k - 1) * o.period
           step == [x \in D \X (0 .. count) |-> NoisePass(o, x[1], at(x[2]))]
           Eq(g) == g = [k \in 0 .. count |-> IF k = 0 THEN first
                                              ELSE NoisePass(o, g[k - 1], at(k))]
<1>1. count \in Nat
  BY Zenon, Counting, NoiseFields
<1>2. ASSUME NEW p \in D, NEW t PROVE NoisePass(o, p, t) \in D
  <2>1. /\ volume(o) \in Int /\ p.noise \in Register /\ p.deltas \in Deltas(n)
        /\ p.delta \in {volume(o), -volume(o)} /\ p.delta \in Int
        /\ -p.delta \in {volume(o), -volume(o)} /\ -p.delta \in Int
    BY SMT, NoiseFields DEF NoiseLoop
  <2>2. Shifted(p.noise, IF o.mode THEN mode_tap ELSE 1) \in Register
    BY Zenon, <2>1, ShiftedStays
  <2>3. [p.deltas EXCEPT ![t] = @ + -p.delta] \in Deltas(n)
        /\ [p.deltas EXCEPT ![t] = @ + p.delta] \in Deltas(n)
    BY Zenon, <2>1, DeltaAdded
  <2> QED
    BY Zenon, <2>1, <2>2, <2>3 DEF NoisePass, NoiseLoop
<1> HIDE DEF D, at, count
<1>3. ASSUME NEW d \in D, NEW k \in 0 .. count
      PROVE  step[<<d, k>>] = NoisePass(o, d, at(k))
  BY Zenon
<1> HIDE DEF step
<1>4. PICK f \in [0 .. count -> D] : IsLoop(f, first, step, 0 .. count)
  <2>1. Closed(D, step, 0 .. count)
    BY Zenon, <1>2, <1>3 DEF Closed
  <2> QED
    BY Zenon, <1>1, <2>1, LoopExists DEF D
<1>5. Eq(f)
  <2>1. ASSUME NEW k \in 0 .. count
        PROVE  f[k] = IF k = 0 THEN first ELSE NoisePass(o, f[k - 1], at(k))
    <3>1. f[k] = IF k = 0 THEN first ELSE step[<<f[k - 1], k>>]
      BY Zenon, <1>4 DEF IsLoop
    <3>2. k # 0 => f[k - 1] \in D
      BY Zenon, <1>1, <1>4, Indices
    <3> QED
      BY Zenon, <1>3, <3>1, <3>2
  <2> QED
    BY Zenon, <2>1
<1>6. PICK g : Eq(g) /\ NoisePasses(o, first, n) = g[count]
  <2>1. Eq(CHOOSE g : Eq(g))
    <3> HIDE DEF Eq
    <3> QED
      BY Zenon, <1>5
  <2>2. NoisePasses(o, first, n) = (CHOOSE g : Eq(g))[count]
    BY Zenon DEF NoisePasses, Passes, count, at
  <2> HIDE DEF Eq
  <2> QED
    BY Zenon, <2>1, <2>2
<1>7. g[0] = first /\ \A k \in 1 .. count : g[k] = NoisePass(o, g[k - 1], at(k))
  BY Zenon, <1>1, <1>6, Indices
<1>8. \A k \in 0 .. count : g[k] \in D
  <2>1. first \in D
    BY DEF D
  <2>2. \A k \in 1 .. count : g[k - 1] \in D => g[k] \in D
    BY Zenon, <1>2, <1>7
  <2> QED
    BY Zenon, <1>1, <1>7, <2>1, <2>2, Stays
<1>9. g \in [0 .. count -> D]
  BY Zenon, <1>6, <1>8
<1> QED
  BY Zenon, <1>6, <1>7, <1>9 DEF D, at, count

(* Without an output, the time to the next shift.                          *)
LEMMA NoiseSkipped ==
  ASSUME NEW o \in NoiseOsc, NEW n \in Nat \ {0}
  PROVE  \E delay \in Nat :
           /\ SkipNoise(o, n) = [o EXCEPT !.delay = delay]
           /\ o.delay < 2 * o.period => delay = DelayAfter(o.delay, o.period, n)
<1>1. o.delay \in Nat /\ o.period \in Nat \ {0} /\ n \in Nat
  BY Zenon, NoiseFields
<1> DEFINE delay(count) == o.delay + count * o.period - n
<1>2. PICK late \in Int : late = n - o.delay + o.period - 1
  BY SMT, <1>1
<1>3. PICK count \in Int :
        /\ count = IF late >= 0 THEN late \div o.period ELSE -((-late) \div o.period)
        /\ late >= 0 => count = Count(o.delay, o.period, n)
        /\ late < 0 => delay(count) \in Nat /\ (o.delay < 2 * o.period => count = 0)
  <2>1. CASE n > o.delay
    <3>1. late >= 0 /\ ~(late < 0) /\ late \in Int
      BY SMT, <1>1, <1>2, <2>1
    <3>2. late \div o.period \in Int
      BY Zenon, <1>1, <3>1, Division
    <3> QED
      BY Zenon, <1>2, <2>1, <3>1, <3>2 DEF Count
  <2>2. CASE ~(n > o.delay) /\ late >= 0
    <3>1. late < o.period /\ ~(late < 0) /\ 0 * o.period = 0 /\ 0 \in Int
      BY SMT, <1>1, <1>2, <2>2
    <3>2. 0 * o.period <= late /\ late < 0 * o.period + o.period
      BY SMT, <1>1, <2>2, <3>1
    <3>3. late \div o.period = 0
      BY Zenon, <1>1, <3>1, <3>2, Quotient
    <3> QED
      BY Zenon, <2>2, <3>1, <3>3 DEF Count
  <2>3. CASE late < 0
    <3>1. PICK early \in Int : early = -late /\ early > 0 /\ ~(late >= 0)
                               /\ early = o.delay - n - o.period + 1
      BY SMT, <1>1, <1>2, <2>3
    <3>2. PICK q \in Int : q = early \div o.period /\ q * o.period <= early
                           /\ early < q * o.period + o.period
      BY Zenon, <1>1, <3>1, Division
    <3>3. PICK c \in Int : c = -q /\ (q = 0 => c = 0)
      BY SMT
    <3>4. PICK Q \in Int : Q = q * o.period /\ c * o.period = -Q
      <4>1. q * o.period \in Int /\ (-q) * o.period = -(q * o.period)
        BY SMT, <1>1
      <4> QED
        BY Zenon, <3>3, <4>1
    <3>5. delay(c) \in Nat
      <4>1. o.delay + -Q - n \in Nat
        BY SMT, <1>1, <3>1, <3>2, <3>4
      <4> QED
        BY Zenon, <3>4, <4>1
    <3>6. ASSUME o.delay < 2 * o.period PROVE c = 0
      <4>1. 0 * o.period <= early /\ early < 0 * o.period + o.period /\ 0 \in Int
        <5>1. 0 * o.period = 0
          BY SMT, <1>1
        <5> QED
          BY SMT, <1>1, <3>1, <3>6, <5>1
      <4>2. q = 0
        BY Zenon, <1>1, <3>1, <3>2, <4>1, Quotient
      <4> QED
        BY Zenon, <3>3, <4>2
    <3>7. c = IF late >= 0 THEN late \div o.period ELSE -((-late) \div o.period)
      BY Zenon, <3>1, <3>2, <3>3
    <3> QED
      BY Zenon, <3>1, <3>5, <3>6, <3>7
  <2> QED
    BY SMT, <2>1, <2>2, <2>3
<1>4. SkipNoise(o, n) = [o EXCEPT !.delay = delay(count)]
  BY Zenon, <1>2, <1>3 DEF SkipNoise
<1>5. delay(Count(o.delay, o.period, n)) = DelayAfter(o.delay, o.period, n)
      /\ DelayAfter(o.delay, o.period, n) \in Nat
  BY Zenon, <1>1, Counting DEF DelayAfter
<1>6. CASE late >= 0
  BY Zenon, <1>3, <1>4, <1>5, <1>6
<1>7. CASE late < 0
  <2>1. ASSUME o.delay < 2 * o.period PROVE delay(count) = DelayAfter(o.delay, o.period, n)
    <3>1. n <= o.delay
      BY SMT, <1>1, <1>2, <1>7
    <3>2. DelayAfter(o.delay, o.period, n) = o.delay - n
      BY Zenon, <1>1, <3>1, Counting
    <3>3. delay(0) = o.delay - n
      <4>1. 0 * o.period = 0
        BY SMT, <1>1
      <4>2. o.delay + 0 - n = o.delay - n
        BY SMT, <1>1
      <4> QED
        BY Zenon, <4>1, <4>2
    <3> QED
      BY Zenon, <1>3, <1>7, <2>1, <3>2, <3>3
  <2> QED
    BY Zenon, <1>3, <1>4, <1>7, <2>1
<1> QED
  BY SMT, <1>6, <1>7

NoiseDelay(o, n) == DelayAfter(o.delay, o.period, n)

(* What a run of a noise leaves: a register that is not 0, a level that it *)
(* has marked, and a time that depends on the output only if it is hurried.*)
NoiseRan(o, n, run) ==
  /\ \E noise \in Register, amp \in Nat, delay \in Nat :
       /\ run.osc = [o EXCEPT !.noise = noise, !.last_amp = amp, !.delay = delay]
       /\ ~run.marks => run.deltas = Silence(n) /\ amp = o.last_amp
       /\ ~Hurried(o) => delay = NoiseDelay(o, n)
  /\ run.deltas \in Deltas(n) /\ run.marks \in BOOLEAN

LEMMA NoiseRun ==
  ASSUME NEW o \in NoiseOsc, NEW n \in Nat \ {0}
  PROVE  NoiseRan(o, n, RunNoise(o, n))
<1> DEFINE count == Count(o.delay, o.period, n)
           run == RunNoise(o, n)
<1>1. /\ count \in Nat /\ NoiseDelay(o, n) \in Nat /\ o.noise \in Register
      /\ o.delay \in Nat /\ o.last_amp \in Nat /\ volume(o) \in Nat
      /\ o.last_amp \in Int /\ o.period \in Nat \ {0}
  <2>1. n \in Nat
    OBVIOUS
  <2>2. \A amp \in Nat : amp \in Int
    BY SMT
  <2> QED
    BY Zenon, <2>1, <2>2, NoiseFields, Counting DEF NoiseDelay
<1>2. /\ n \in Nat /\ Silence(n) \in Deltas(n)
      /\ \A amp \in Nat : First(o, amp, n) \in Deltas(n)
      /\ \A amp \in Nat : amp = o.last_amp => First(o, amp, n) = Silence(n)
  <2>1. \A amp \in Nat : amp \in Int
    BY SMT
  <2>2. n \in Nat
    OBVIOUS
  <2> QED
    BY Zenon, <1>1, <2>1, <2>2, Firsts
<1>3. CASE ~o.output
  <2>1. PICK delay \in Nat :
          /\ SkipNoise(o, n) = [o EXCEPT !.delay = delay]
          /\ o.delay < 2 * o.period => delay = DelayAfter(o.delay, o.period, n)
    BY Zenon, NoiseSkipped
  <2>2. run.osc = SkipNoise(o, n) /\ run.deltas = Silence(n) /\ run.marks = FALSE
    BY Zenon, <1>3 DEF RunNoise, Unheard
  <2>3. run.osc = [o EXCEPT !.noise = o.noise, !.last_amp = o.last_amp, !.delay = delay]
    <3>1. [o EXCEPT !.delay = delay]
            = [o EXCEPT !.noise = o.noise, !.last_amp = o.last_amp, !.delay = delay]
      BY Zenon DEF NoiseOsc
    <3> QED
      BY Zenon, <2>1, <2>2, <3>1
  <2>4. ~Hurried(o) => delay = NoiseDelay(o, n)
    <3>1. o.kind = "noise"
      BY Zenon DEF NoiseOsc
    <3>2. ~(o.delay >= 2 * o.period) => o.delay < 2 * o.period
      BY SMT, <1>1
    <3> QED
      BY Zenon, <1>3, <2>1, <3>1, <3>2 DEF Hurried, NoiseDelay
  <2> QED
    BY Zenon, <1>1, <1>2, <2>1, <2>2, <2>3, <2>4 DEF NoiseRan
<1>4. CASE o.output /\ volume(o) = 0
  <2> DEFINE noise == IF n > o.delay /\ ~o.mode THEN Shifted(o.noise, 1) ELSE o.noise
  <2>1. noise \in Register
    BY Zenon, <1>1, ShiftedStays
  <2>2. /\ run.osc = [o EXCEPT !.noise = noise, !.last_amp = 0, !.delay = NoiseDelay(o, n)]
        /\ run.deltas = First(o, 0, n) /\ run.marks \in BOOLEAN
        /\ run.marks \/ 0 = o.last_amp
    BY Zenon, <1>4 DEF RunNoise, SilentNoise, NoiseDelay
  <2>3. 0 \in Nat
    BY SMT
  <2>4. run.deltas \in Deltas(n) /\ (~run.marks => run.deltas = Silence(n) /\ 0 = o.last_amp)
    BY Zenon, <1>2, <2>2, <2>3
  <2> HIDE DEF noise
  <2> QED
    BY Zenon, <1>1, <2>1, <2>2, <2>3, <2>4 DEF NoiseRan
<1>5. CASE o.output /\ volume(o) # 0
  <2> DEFINE amp == (o.noise % 2) * volume(o)
             first == [noise |-> o.noise, delta |-> amp * 2 - volume(o),
                       deltas |-> First(o, amp, n)]
  <2>1. /\ amp \in Nat /\ amp * 2 - volume(o) \in {volume(o), -volume(o)}
        /\ ((amp * 2 - volume(o)) + volume(o)) \div 2 = amp
    <3>1. o.noise \in Int
      BY SMT, <1>1 DEF Register
    <3>2. CASE o.noise % 2 = 0
      <4>1. 0 * volume(o) = 0
        BY SMT, <1>1
      <4>2. /\ 0 \in Nat /\ 0 * 2 - volume(o) \in {volume(o), -volume(o)}
            /\ ((0 * 2 - volume(o)) + volume(o)) \div 2 = 0
        BY SMT, <1>1
      <4> QED
        BY Zenon, <3>2, <4>1, <4>2
    <3>3. CASE o.noise % 2 = 1
      <4>1. 1 * volume(o) = volume(o)
        BY SMT, <1>1
      <4>2. /\ volume(o) * 2 - volume(o) \in {volume(o), -volume(o)}
            /\ ((volume(o) * 2 - volume(o)) + volume(o)) \div 2 = volume(o)
        BY SMT, <1>1
      <4> QED
        BY Zenon, <1>1, <3>3, <4>1, <4>2
    <3> QED
      BY SMT, <3>1, <3>2, <3>3
  <2>2. first \in NoiseLoop(o, n)
    <3>1. First(o, amp, n) \in Deltas(n)
      BY Zenon, <1>2, <2>1
    <3> QED
      BY Zenon, <1>1, <2>1, <3>1 DEF NoiseLoop
  <2>3. first.deltas = First(o, amp, n) /\ (first.delta + volume(o)) \div 2 = amp
    BY Zenon, <2>1
  <2> HIDE DEF first, count
  <2>4. PICK f \in [0 .. count -> NoiseLoop(o, n)] :
          /\ f[0] = first
          /\ \A k \in 1 .. count : f[k] = NoisePass(o, f[k - 1], o.delay + (k - 1) * o.period)
          /\ NoisePasses(o, first, n) = f[count]
    BY Zenon, <1>2, <2>2, NoiseLoops DEF count
  <2> DEFINE last == f[count]
             level == (last.delta + volume(o)) \div 2
  <2>5. last \in NoiseLoop(o, n)
    BY Zenon, <1>1, <2>4, Indices
  <2>6. level \in Nat
    <3>1. last.delta \in {volume(o), -volume(o)}
      BY Zenon, <2>5 DEF NoiseLoop
    <3> QED
      BY SMT, <1>1, <3>1
  <2>7. /\ run.osc = [o EXCEPT !.noise = last.noise, !.last_amp = level,
                               !.delay = NoiseDelay(o, n)]
        /\ run.deltas = last.deltas /\ run.marks \in BOOLEAN
        /\ ~run.marks => ~(count > 0) /\ amp = o.last_amp
    <3>1. run = PlayNoise(o, n)
      BY Zenon, <1>5 DEF RunNoise
    <3>2. /\ PlayNoise(o, n).osc =
               [o EXCEPT !.noise = NoisePasses(o, first, n).noise,
                         !.last_amp = (NoisePasses(o, first, n).delta + volume(o)) \div 2,
                         !.delay = NoiseDelay(o, n)]
          /\ PlayNoise(o, n).deltas = NoisePasses(o, first, n).deltas
          /\ PlayNoise(o, n).marks \in BOOLEAN
          /\ ~PlayNoise(o, n).marks => ~(count > 0) /\ amp = o.last_amp
      BY Zenon DEF PlayNoise, NoisePasses, Passes, first, NoiseDelay, count
    <3> QED
      BY Zenon, <2>4, <3>1, <3>2
  <2>8. last.deltas \in Deltas(n) /\ last.noise \in Register
    BY Zenon, <2>5 DEF NoiseLoop
  <2>9. ~run.marks => last.deltas = Silence(n) /\ level = o.last_amp
    <3>1. ASSUME ~run.marks PROVE last = first /\ amp = o.last_amp
      <4>1. ~(count > 0) => count = 0
        BY SMT, <1>1
      <4> QED
        BY Zenon, <2>4, <2>7, <3>1, <4>1
    <3>2. ASSUME ~run.marks PROVE last.deltas = First(o, amp, n) /\ level = amp
      BY Zenon, <2>3, <3>1, <3>2
    <3> HIDE DEF last, level, amp
    <3> QED
      BY Zenon, <1>2, <2>1, <3>1, <3>2
  <2> HIDE DEF last, level
  <2> QED
    BY Zenon, <1>1, <2>6, <2>7, <2>8, <2>9 DEF NoiseRan
<1> QED
  BY Zenon, <1>3, <1>4, <1>5

-----------------------------------------------------------------------------
(* The triangle.                                                           *)

TriangleLoop(n) == [phase : 1 .. tri_range, volume : {-1, 1}, deltas : Deltas(n)]

TrianglePasses(o, first, n) == Passes(TrianglePass, first, o.delay, o.period + 1, n)

LEMMA TriangleFields ==
  ASSUME NEW o \in TriangleOsc
  PROVE  /\ o.phase \in 1 .. tri_range * 2 /\ o.delay \in Nat /\ o.last_amp \in Nat
         /\ o.period + 1 \in Nat \ {0} /\ calc_amp(o) \in Nat /\ tri_range \in Nat \ {0}
<1>1. o.phase \in 1 .. tri_range * 2 /\ o.delay \in Nat /\ o.last_amp \in Nat
  BY Zenon DEF TriangleOsc
<1>2. o.period + 1 \in Nat \ {0} /\ tri_range \in Nat \ {0}
  BY SMT, OscAssumption DEF TriangleOsc, OscAssumption
<1>3. calc_amp(o) \in Nat
  BY SMT, <1>1, <1>2 DEF calc_amp
<1> QED
  BY Zenon, <1>1, <1>2, <1>3

(* The loop of a triangle that is heard.                                   *)
LEMMA TriangleLoops ==
  ASSUME NEW o \in TriangleOsc, NEW n \in Nat, NEW first \in TriangleLoop(n)
  PROVE  LET count == Count(o.delay, (o.period + 1), n)
         IN  \E f \in [0 .. count -> TriangleLoop(n)] :
               /\ f[0] = first
               /\ \A k \in 1 .. count :
                    f[k] = TrianglePass(f[k - 1], o.delay + (k - 1) * (o.period + 1))
               /\ TrianglePasses(o, first, n) = f[count]
<1> DEFINE count == Count(o.delay, (o.period + 1), n)
           D == TriangleLoop(n)
           at(k) == o.delay + (k - 1) * (o.period + 1)
           step == [x \in D \X (0 .. count) |-> TrianglePass(x[1], at(x[2]))]
           Eq(g) == g = [k \in 0 .. count |-> IF k = 0 THEN first
                                              ELSE TrianglePass(g[k - 1], at(k))]
<1>1. count \in Nat
  BY Zenon, Counting, TriangleFields
<1>2. ASSUME NEW p \in D, NEW t PROVE TrianglePass(p, t) \in D
  <2>1. /\ p.phase \in 1 .. tri_range /\ p.deltas \in Deltas(n) /\ p.volume \in {-1, 1}
    BY Zenon DEF TriangleLoop
  <2>2. /\ p.volume \in Int /\ -p.volume \in {-1, 1} /\ tri_range \in 1 .. tri_range
        /\ p.phase # 1 => p.phase - 1 \in 1 .. tri_range
    BY SMT, <2>1, TriangleFields
  <2>3. [p.deltas EXCEPT ![t] = @ + p.volume] \in Deltas(n)
    BY Zenon, <2>1, <2>2, DeltaAdded
  <2>4. CASE p.phase = 1
    BY Zenon, <2>1, <2>2, <2>4 DEF TrianglePass, TriangleLoop
  <2>5. CASE p.phase # 1
    <3>1. TrianglePass(p, t) = [p EXCEPT !.phase = p.phase - 1,
                                         !.deltas = [p.deltas EXCEPT ![t] = @ + p.volume]]
      BY Zenon, <2>5 DEF TrianglePass, TriangleLoop
    <3> QED
      BY Zenon, <2>2, <2>3, <2>5, <3>1 DEF TriangleLoop
  <2> QED
    BY Zenon, <2>4, <2>5
<1> HIDE DEF D, at, count
<1>3. ASSUME NEW d \in D, NEW k \in 0 .. count
      PROVE  step[<<d, k>>] = TrianglePass(d, at(k))
  BY Zenon
<1> HIDE DEF step
<1>4. PICK f \in [0 .. count -> D] : IsLoop(f, first, step, 0 .. count)
  <2>1. Closed(D, step, 0 .. count)
    BY Zenon, <1>2, <1>3 DEF Closed
  <2> QED
    BY Zenon, <1>1, <2>1, LoopExists DEF D
<1>5. Eq(f)
  <2>1. ASSUME NEW k \in 0 .. count
        PROVE  f[k] = IF k = 0 THEN first ELSE TrianglePass(f[k - 1], at(k))
    <3>1. f[k] = IF k = 0 THEN first ELSE step[<<f[k - 1], k>>]
      BY Zenon, <1>4 DEF IsLoop
    <3>2. k # 0 => f[k - 1] \in D
      BY Zenon, <1>1, <1>4, Indices
    <3> QED
      BY Zenon, <1>3, <3>1, <3>2
  <2> QED
    BY Zenon, <2>1
<1>6. PICK g : Eq(g) /\ TrianglePasses(o, first, n) = g[count]
  <2>1. Eq(CHOOSE g : Eq(g))
    <3> HIDE DEF Eq
    <3> QED
      BY Zenon, <1>5
  <2>2. TrianglePasses(o, first, n) = (CHOOSE g : Eq(g))[count]
    BY Zenon DEF TrianglePasses, Passes, count, at
  <2> HIDE DEF Eq
  <2> QED
    BY Zenon, <2>1, <2>2
<1>7. g[0] = first /\ \A k \in 1 .. count : g[k] = TrianglePass(g[k - 1], at(k))
  BY Zenon, <1>1, <1>6, Indices
<1>8. \A k \in 0 .. count : g[k] \in D
  <2>1. first \in D
    BY DEF D
  <2>2. \A k \in 1 .. count : g[k - 1] \in D => g[k] \in D
    BY Zenon, <1>2, <1>7
  <2> QED
    BY Zenon, <1>1, <1>7, <2>1, <2>2, Stays
<1>9. g \in [0 .. count -> D]
  BY Zenon, <1>6, <1>8
<1> QED
  BY Zenon, <1>6, <1>7, <1>9 DEF D, at, count

TriangleDelay(o, n) == IF Sounding(o) THEN DelayAfter(o.delay, o.period + 1, n) ELSE 0

(* What a run of a triangle leaves: a phase and a time within their        *)
(* ranges, and a level that it has marked.                                 *)
TriangleRan(o, n, run) ==
  /\ \E phase \in 1 .. tri_range * 2, amp \in Nat :
       /\ run.osc = [o EXCEPT !.phase = phase, !.last_amp = amp, !.delay = TriangleDelay(o, n)]
       /\ ~run.marks => run.deltas = Silence(n) /\ amp = o.last_amp
  /\ run.deltas \in Deltas(n) /\ run.marks \in BOOLEAN /\ TriangleDelay(o, n) \in Nat

LEMMA TriangleRun ==
  ASSUME NEW o \in TriangleOsc, NEW n \in Nat
  PROVE  TriangleRan(o, n, RunTriangle(o, n))
<1> DEFINE period == o.period + 1
           count == Count(o.delay, period, n)
           amp == calc_amp(o)
           run == RunTriangle(o, n)
<1>1. /\ count \in Nat /\ TriangleDelay(o, n) \in Nat /\ o.phase \in 1 .. tri_range * 2
      /\ o.last_amp \in Nat /\ o.last_amp \in Int /\ amp \in Nat /\ tri_range \in Nat \ {0}
  <2>1. \A x \in Nat : x \in Int
    BY SMT
  <2>2. 0 \in Nat
    BY SMT
  <2> QED
    BY Zenon, <2>1, <2>2, TriangleFields, Counting DEF TriangleDelay
<1>2. /\ Silence(n) \in Deltas(n) /\ First(o, amp, n) \in Deltas(n)
      /\ amp = o.last_amp => First(o, amp, n) = Silence(n)
  <2>1. amp \in Int
    BY SMT, <1>1
  <2> HIDE DEF amp
  <2> QED
    BY Zenon, <1>1, <2>1, Firsts
<1>3. CASE ~o.output
  <2> DEFINE phase == IF Sounding(o) /\ n > o.delay
                      THEN ((o.phase + 1 - count) % (tri_range * 2)) + 1 ELSE o.phase
  <2>1. phase \in 1 .. tri_range * 2
    <3>1. PICK x \in Int : x = o.phase + 1 - count
      BY SMT, <1>1
    <3>2. (x % (tri_range * 2)) + 1 \in 1 .. tri_range * 2
      BY SMT, <1>1
    <3> QED
      BY Zenon, <1>1, <3>1, <3>2
  <2>2. SkipTriangle(o, n)
          = [o EXCEPT !.phase = phase, !.last_amp = o.last_amp, !.delay = TriangleDelay(o, n)]
    <3>1. CASE Sounding(o)
      <4>1. SkipTriangle(o, n) = [o EXCEPT !.phase = phase, !.delay = TriangleDelay(o, n)]
        BY Zenon, <3>1 DEF SkipTriangle, TriangleDelay
      <4> HIDE DEF phase
      <4> QED
        BY Zenon, <4>1 DEF TriangleOsc
    <3>2. CASE ~Sounding(o)
      <4>1. SkipTriangle(o, n) = [o EXCEPT !.delay = TriangleDelay(o, n)] /\ phase = o.phase
        BY Zenon, <3>2 DEF SkipTriangle, TriangleDelay
      <4> HIDE DEF phase
      <4> QED
        BY Zenon, <4>1 DEF TriangleOsc
    <3> QED
      BY Zenon, <3>1, <3>2
  <2>3. run.osc = SkipTriangle(o, n) /\ run.deltas = Silence(n) /\ run.marks = FALSE
    BY Zenon, <1>3 DEF RunTriangle, Unheard
  <2> HIDE DEF phase
  <2> QED
    BY Zenon, <1>1, <1>2, <2>1, <2>2, <2>3 DEF TriangleRan
<1>4. CASE o.output /\ ~Sounding(o)
  <2>1. run.osc = [o EXCEPT !.last_amp = amp, !.delay = 0] /\ TriangleDelay(o, n) = 0
    BY Zenon, <1>4 DEF RunTriangle, TriangleDelay
  <2>2. /\ run.deltas = First(o, amp, n) /\ run.marks \in BOOLEAN
        /\ ~run.marks => amp = o.last_amp
    BY Zenon, <1>4 DEF RunTriangle
  <2> HIDE DEF amp
  <2>3. run.osc = [o EXCEPT !.phase = o.phase, !.last_amp = amp, !.delay = TriangleDelay(o, n)]
    BY Zenon, <2>1 DEF TriangleOsc
  <2>4. ~run.marks => run.deltas = Silence(n)
    BY Zenon, <1>2, <2>2
  <2> QED
    BY Zenon, <1>1, <1>2, <2>2, <2>3, <2>4 DEF TriangleRan
<1>5. CASE o.output /\ Sounding(o)
  <2> DEFINE falling == o.phase > tri_range
             first == [phase |-> IF falling THEN o.phase - tri_range ELSE o.phase,
                       volume |-> IF falling THEN -1 ELSE 1, deltas |-> First(o, amp, n)]
  <2>1. first \in TriangleLoop(n)
    <3>1. /\ (IF falling THEN o.phase - tri_range ELSE o.phase) \in 1 .. tri_range
          /\ (IF falling THEN -1 ELSE 1) \in {-1, 1}
      BY SMT, <1>1
    <3> QED
      BY Zenon, <1>2, <3>1 DEF TriangleLoop
  <2>2. /\ (IF first.volume < 0 THEN first.phase + tri_range ELSE first.phase) = o.phase
        /\ first.deltas = First(o, amp, n)
    <3>1. CASE falling
      <4>1. -1 < 0 /\ (o.phase - tri_range) + tri_range = o.phase
        BY SMT, <1>1
      <4>2. first.volume = -1 /\ first.phase = o.phase - tri_range
        BY Zenon, <3>1
      <4> HIDE DEF falling
      <4> QED
        BY Zenon, <4>1, <4>2
    <3>2. CASE ~falling
      <4>1. ~(1 < 0)
        BY SMT
      <4>2. first.volume = 1 /\ first.phase = o.phase
        BY Zenon, <3>2
      <4> HIDE DEF falling
      <4> QED
        BY Zenon, <4>1, <4>2
    <3> QED
      BY Zenon, <3>1, <3>2
  <2> HIDE DEF first, count
  <2>3. PICK f \in [0 .. count -> TriangleLoop(n)] :
          /\ f[0] = first
          /\ \A k \in 1 .. count : f[k] = TrianglePass(f[k - 1], o.delay + (k - 1) * period)
          /\ TrianglePasses(o, first, n) = f[count]
    BY Zenon, <2>1, TriangleLoops DEF count
  <2> DEFINE last == f[count]
             phase == IF last.volume < 0 THEN last.phase + tri_range ELSE last.phase
             after == [o EXCEPT !.phase = phase, !.delay = TriangleDelay(o, n)]
  <2>4. last \in TriangleLoop(n)
    BY Zenon, <1>1, <2>3, Indices
  <2>5. phase \in 1 .. tri_range * 2 /\ last.deltas \in Deltas(n)
    <3>1. last.phase \in 1 .. tri_range /\ last.deltas \in Deltas(n)
      BY Zenon, <2>4 DEF TriangleLoop
    <3> HIDE DEF last
    <3> QED
      BY SMT, <1>1, <3>1
  <2>6. /\ run.osc = [after EXCEPT !.last_amp = calc_amp(after)]
        /\ run.deltas = last.deltas /\ run.marks \in BOOLEAN
        /\ ~run.marks => ~(count > 0) /\ amp = o.last_amp
    <3>1. run = PlayTriangle(o, n)
      BY Zenon, <1>5 DEF RunTriangle
    <3>2. TriangleDelay(o, n) = DelayAfter(o.delay, period, n)
      BY Zenon, <1>5 DEF TriangleDelay
    <3>3. LET end == TrianglePasses(o, first, n)
              left == [o EXCEPT !.phase = IF end.volume < 0 THEN end.phase + tri_range
                                          ELSE end.phase,
                                !.delay = DelayAfter(@, period, n)]
          IN  /\ PlayTriangle(o, n).osc = [left EXCEPT !.last_amp = calc_amp(left)]
              /\ PlayTriangle(o, n).deltas = end.deltas
              /\ PlayTriangle(o, n).marks \in BOOLEAN
              /\ ~PlayTriangle(o, n).marks => ~(count > 0) /\ amp = o.last_amp
      BY Zenon DEF PlayTriangle, TrianglePasses, first, count
    <3> QED
      BY Zenon, <2>3, <3>1, <3>2, <3>3
  <2> HIDE DEF phase, amp, last
  <2>7. after \in TriangleOsc /\ after.phase = phase
    BY Zenon, <1>1, <2>5 DEF TriangleOsc
  <2>8. [after EXCEPT !.last_amp = calc_amp(after)]
          = [o EXCEPT !.phase = phase, !.last_amp = calc_amp(after), !.delay = TriangleDelay(o, n)]
    <3> DEFINE level == calc_amp(after)
    <3> HIDE DEF level
    <3>1. [after EXCEPT !.last_amp = level]
            = [o EXCEPT !.phase = phase, !.last_amp = level, !.delay = TriangleDelay(o, n)]
      BY Zenon DEF TriangleOsc
    <3> QED
      BY Zenon, <3>1 DEF level
  <2>9. ~run.marks => run.deltas = Silence(n) /\ calc_amp(after) = o.last_amp
    <3>1. ASSUME ~run.marks PROVE last = first /\ amp = o.last_amp
      <4>1. ~(count > 0) => count = 0
        BY SMT, <1>1
      <4> QED
        BY Zenon, <2>3, <2>6, <3>1, <4>1 DEF last
    <3>2. ASSUME ~run.marks PROVE run.deltas = First(o, amp, n) /\ after.phase = o.phase
      <4>1. last = first
        BY Zenon, <3>1, <3>2
      <4>2. phase = o.phase
        BY Zenon, <2>2, <4>1 DEF phase
      <4> QED
        BY Zenon, <2>2, <2>6, <2>7, <4>1, <4>2
    <3> HIDE DEF after
    <3>3. after.phase = o.phase => calc_amp(after) = calc_amp(o)
      BY Zenon DEF calc_amp
    <3> QED
      BY Zenon, <1>2, <3>1, <3>2, <3>3 DEF amp
  <2>10. calc_amp(after) \in Nat
    BY Zenon, <2>7, TriangleFields
  <2>11. run.osc = [o EXCEPT !.phase = phase, !.last_amp = calc_amp(after),
                             !.delay = TriangleDelay(o, n)]
    BY Zenon, <2>6, <2>8
  <2>12. run.deltas \in Deltas(n)
    BY Zenon, <2>5, <2>6 DEF last
  <2> DEFINE level == calc_amp(after)
  <2> HIDE DEF after, level
  <2>13. /\ run.osc = [o EXCEPT !.phase = phase, !.last_amp = level, !.delay = TriangleDelay(o, n)]
         /\ level \in Nat /\ (~run.marks => run.deltas = Silence(n) /\ level = o.last_amp)
    BY Zenon, <2>9, <2>10, <2>11 DEF level
  <2> QED
    BY Zenon, <1>1, <2>5, <2>6, <2>12, <2>13 DEF TriangleRan
<1> QED
  BY Zenon, <1>3, <1>4, <1>5

-----------------------------------------------------------------------------
(* The squares of the VRC6.                                                *)

LEMMA DeltaMoved ==
  ASSUME NEW n \in Nat, NEW deltas \in Deltas(n), NEW t, NEW a \in Int, NEW b \in Int
  PROVE  [deltas EXCEPT ![t] = @ + a - b] \in Deltas(n)
<1>1. CASE t \in 0 .. n
  <2>1. deltas[t] + a - b \in Int
    BY SMT, <1>1 DEF Deltas
  <2> QED
    BY Zenon, <2>1 DEF Deltas
<1>2. CASE t \notin 0 .. n
  BY Zenon, <1>2 DEF Deltas
<1> QED
  BY Zenon, <1>1, <1>2

(* A delay that a period written to a chip leaves fits into 16 bits.       *)
LEMMA DelayFits ==
  ASSUME NEW d \in Delay, NEW p \in Nat \ {0}, NEW n \in Nat, p <= delay_range
  PROVE  DelayAfter(d, p, n) \in Delay
<1>1. d \in Nat /\ d < delay_range /\ delay_range \in Nat
  BY Zenon, ExpansionAssumption DEF Delay, ExpansionAssumption
<1>2. PICK after \in Nat : /\ after = DelayAfter(d, p, n)
                           /\ n <= d => after = d - n
                           /\ n > d => after < p
  BY Zenon, <1>1, Counting
<1>3. after < delay_range
  BY SMT, <1>1, <1>2
<1> QED
  BY Zenon, <1>2, <1>3 DEF Delay

Vrc6Loop(n) == [phase : 0 .. vrc6_phases - 1, last_amp : Nat, deltas : Deltas(n)]

Vrc6Passes(o, first, n) ==
  LET Pass(p, t) == Vrc6Pass(o, p, t)
  IN  Passes(Pass, first, o.delay, o.period + 1, n)

LEMMA Vrc6Fields ==
  ASSUME NEW o \in Vrc6SquareOsc
  PROVE  /\ o.phase \in 0 .. vrc6_phases - 1 /\ o.delay \in Delay /\ o.last_amp \in Nat
         /\ o.delay \in Nat /\ 0 \in Delay /\ o.delay % delay_range = o.delay
         /\ o.period + 1 \in Nat \ {0} /\ o.period + 1 <= delay_range /\ vrc6_phases \in Nat \ {0}
         /\ o.volume \in Nat /\ Vrc6Amp(o) \in Nat
<1>1. /\ o.phase \in 0 .. vrc6_phases - 1 /\ o.delay \in Delay /\ o.last_amp \in Nat
      /\ o.period \in Vrc6Periods /\ o.volume \in Nat
  BY Zenon DEF Vrc6SquareOsc
<1>2. o.delay \in Nat /\ o.delay < delay_range /\ delay_range \in Nat
  BY Zenon, <1>1, ExpansionAssumption DEF Delay, ExpansionAssumption
<1>3. /\ o.period \in Nat /\ (o.period + 1) * 2 <= delay_range /\ vrc6_phases \in Nat \ {0}
  <2>1. Vrc6Periods \subseteq Nat /\ vrc6_phases \in Nat \ {0, 1}
        /\ \A period \in Vrc6Periods : (period + 1) * 2 <= delay_range
    BY Zenon, ExpansionAssumption DEF ExpansionAssumption
  <2> QED
    BY Zenon, <1>1, <2>1
<1>4. o.period + 1 \in Nat \ {0} /\ o.period + 1 <= delay_range
  BY SMT, <1>2, <1>3
<1>5. o.delay % delay_range = o.delay /\ 0 \in Nat /\ 0 < delay_range
  BY SMT, <1>2
<1>6. Vrc6Amp(o) \in Nat
  BY SMT, <1>1 DEF Vrc6Amp, Vrc6Volume
<1> QED
  BY Zenon, <1>1, <1>2, <1>3, <1>4, <1>5, <1>6 DEF Delay

(* The loop of a square that is heard.                                     *)
LEMMA Vrc6Loops ==
  ASSUME NEW o \in Vrc6SquareOsc, NEW n \in Nat, NEW first \in Vrc6Loop(n)
  PROVE  LET count == Count(o.delay, (o.period + 1), n)
         IN  \E f \in [0 .. count -> Vrc6Loop(n)] :
               /\ f[0] = first
               /\ \A k \in 1 .. count :
                    f[k] = Vrc6Pass(o, f[k - 1], o.delay + (k - 1) * (o.period + 1))
               /\ Vrc6Passes(o, first, n) = f[count]
<1> DEFINE count == Count(o.delay, (o.period + 1), n)
           D == Vrc6Loop(n)
           at(k) == o.delay + (k - 1) * (o.period + 1)
           step == [x \in D \X (0 .. count) |-> Vrc6Pass(o, x[1], at(x[2]))]
           Eq(g) == g = [k \in 0 .. count |-> IF k = 0 THEN first
                                              ELSE Vrc6Pass(o, g[k - 1], at(k))]
<1>1. count \in Nat
  BY Zenon, Counting, Vrc6Fields
<1>2. ASSUME NEW p \in D, NEW t PROVE Vrc6Pass(o, p, t) \in D
  <2> DEFINE phase == (p.phase + 1) % vrc6_phases
             delta == IF phase = 0 THEN o.volume ELSE IF phase = o.duty + 1 THEN -o.volume ELSE 0
  <2>1. /\ p.phase \in 0 .. vrc6_phases - 1 /\ p.deltas \in Deltas(n) /\ p.last_amp \in Nat
    BY Zenon DEF Vrc6Loop
  <2>2. phase \in 0 .. vrc6_phases - 1
    BY SMT, <2>1, Vrc6Fields
  <2> HIDE DEF phase
  <2>3. delta \in Int /\ 0 \in Nat
    BY SMT, Vrc6Fields
  <2> HIDE DEF delta
  <2>4. [p.deltas EXCEPT ![t] = @ + delta] \in Deltas(n)
    BY Zenon, <2>1, <2>3, DeltaAdded
  <2> QED
    BY Zenon, <2>1, <2>2, <2>3, <2>4, Vrc6Fields DEF Vrc6Pass, Vrc6Loop, phase, delta
<1> HIDE DEF D, at, count
<1>3. ASSUME NEW d \in D, NEW k \in 0 .. count
      PROVE  step[<<d, k>>] = Vrc6Pass(o, d, at(k))
  BY Zenon
<1> HIDE DEF step
<1>4. PICK f \in [0 .. count -> D] : IsLoop(f, first, step, 0 .. count)
  <2>1. Closed(D, step, 0 .. count)
    BY Zenon, <1>2, <1>3 DEF Closed
  <2> QED
    BY Zenon, <1>1, <2>1, LoopExists DEF D
<1>5. Eq(f)
  <2>1. ASSUME NEW k \in 0 .. count
        PROVE  f[k] = IF k = 0 THEN first ELSE Vrc6Pass(o, f[k - 1], at(k))
    <3>1. f[k] = IF k = 0 THEN first ELSE step[<<f[k - 1], k>>]
      BY Zenon, <1>4 DEF IsLoop
    <3>2. k # 0 => f[k - 1] \in D
      BY Zenon, <1>1, <1>4, Indices
    <3> QED
      BY Zenon, <1>3, <3>1, <3>2
  <2> QED
    BY Zenon, <2>1
<1>6. PICK g : Eq(g) /\ Vrc6Passes(o, first, n) = g[count]
  <2>1. Eq(CHOOSE g : Eq(g))
    <3> HIDE DEF Eq
    <3> QED
      BY Zenon, <1>5
  <2>2. Vrc6Passes(o, first, n) = (CHOOSE g : Eq(g))[count]
    BY Zenon DEF Vrc6Passes, Passes, count, at
  <2> HIDE DEF Eq
  <2> QED
    BY Zenon, <2>1, <2>2
<1>7. g[0] = first /\ \A k \in 1 .. count : g[k] = Vrc6Pass(o, g[k - 1], at(k))
  BY Zenon, <1>1, <1>6, Indices
<1>8. \A k \in 0 .. count : g[k] \in D
  <2>1. first \in D
    BY DEF D
  <2>2. \A k \in 1 .. count : g[k - 1] \in D => g[k] \in D
    BY Zenon, <1>2, <1>7
  <2> QED
    BY Zenon, <1>1, <1>7, <2>1, <2>2, Stays
<1>9. g \in [0 .. count -> D]
  BY Zenon, <1>6, <1>8
<1> QED
  BY Zenon, <1>6, <1>7, <1>9 DEF D, at, count

Vrc6Delay(o, n) == DelayAfter(o.delay, o.period + 1, n)

(* The run of a square that is heard, as its loop goes.                    *)
Vrc6Trace(o, n, f) ==
  LET count == Count(o.delay, o.period + 1, n)
  IN  /\ f \in [0 .. count -> Vrc6Loop(n)]
      /\ f[0].phase = o.phase /\ f[0].last_amp = Vrc6Amp(o) /\ f[0].deltas = First(o, Vrc6Amp(o), n)
      /\ \A k \in 1 .. count : \E t : f[k] = Vrc6Pass(o, f[k - 1], t)
      /\ RunVrc6Square(o, n).osc = [o EXCEPT !.phase = f[count].phase,
                                             !.last_amp = f[count].last_amp,
                                             !.delay = Vrc6Delay(o, n)]
      /\ RunVrc6Square(o, n).deltas = f[count].deltas

LEMMA Vrc6Numbers ==
  ASSUME NEW o \in Vrc6SquareOsc, NEW n \in Nat
  PROVE  LET amp == Vrc6Amp(o)
         IN  /\ Count(o.delay, o.period + 1, n) \in Nat /\ Vrc6Delay(o, n) \in Delay
             /\ amp \in Nat /\ Silence(n) \in Deltas(n) /\ First(o, amp, n) \in Deltas(n)
             /\ amp = o.last_amp => First(o, amp, n) = Silence(n)
<1>1. \A x \in Nat : x \in Int
  BY SMT
<1> QED
  BY Zenon, <1>1, Vrc6Fields, Counting, DelayFits, Firsts DEF Vrc6Delay

LEMMA Vrc6Heard ==
  ASSUME NEW o \in Vrc6SquareOsc, NEW n \in Nat, o.output, Vrc6Playing(o)
  PROVE  \E f : Vrc6Trace(o, n, f)
<1> DEFINE amp == Vrc6Amp(o)
           first == [phase |-> o.phase, last_amp |-> amp, deltas |-> First(o, amp, n)]
           count == Count(o.delay, o.period + 1, n)
<1>1. first \in Vrc6Loop(n)
  BY Zenon, Vrc6Fields, Vrc6Numbers DEF Vrc6Loop
<1>2. LET end == Vrc6Passes(o, first, n)
      IN  /\ RunVrc6Square(o, n).osc = [o EXCEPT !.phase = end.phase, !.last_amp = end.last_amp,
                                                 !.delay = Vrc6Delay(o, n)]
          /\ RunVrc6Square(o, n).deltas = end.deltas
  BY Zenon DEF RunVrc6Square, Vrc6Passes, Passes, Vrc6Delay
<1>6. first.phase = o.phase /\ first.last_amp = amp /\ first.deltas = First(o, amp, n)
  BY Zenon
<1> HIDE DEF first
<1>3. PICK f \in [0 .. count -> Vrc6Loop(n)] :
        /\ f[0] = first
        /\ \A k \in 1 .. count : f[k] = Vrc6Pass(o, f[k - 1], o.delay + (k - 1) * (o.period + 1))
        /\ Vrc6Passes(o, first, n) = f[count]
  BY Zenon, <1>1, Vrc6Loops
<1>4. f[0].phase = o.phase /\ f[0].last_amp = amp /\ f[0].deltas = First(o, amp, n)
  BY Zenon, <1>3, <1>6
<1>5. Vrc6Trace(o, n, f)
  BY Zenon, <1>2, <1>3, <1>4 DEF Vrc6Trace
<1> QED
  BY Zenon, <1>5

(* That a run marks what it writes to the buffer.                          *)
RunIsMarked(o, n, run) ==
  /\ ~run.marks => run.deltas = Silence(n) /\ run.osc.last_amp = o.last_amp
  /\ run.deltas \in Deltas(n) /\ run.marks \in BOOLEAN

LEMMA Vrc6Run ==
  ASSUME NEW o \in Vrc6SquareOsc, NEW n \in Nat
  PROVE  /\ RunVrc6Square(o, n).osc \in Vrc6SquareOsc
         /\ RunIsMarked(o, n, RunVrc6Square(o, n))
<1> DEFINE amp == Vrc6Amp(o)
           run == RunVrc6Square(o, n)
<1>1. CASE ~o.output
  <2>1. run.osc = o /\ run.deltas = Silence(n) /\ run.marks = FALSE
    BY Zenon, <1>1 DEF RunVrc6Square, Unheard
  <2> QED
    BY Zenon, <2>1, Vrc6Numbers DEF RunIsMarked
<1>2. CASE o.output /\ ~Vrc6Playing(o)
  <2>1. /\ run.osc = [o EXCEPT !.delay = 0, !.last_amp = amp]
        /\ run.deltas = First(o, amp, n) /\ run.marks \in BOOLEAN
        /\ ~run.marks => amp = o.last_amp
    BY Zenon, <1>2 DEF RunVrc6Square
  <2>2. amp \in Nat /\ 0 \in Delay
    BY Zenon, Vrc6Fields
  <2>3. run.deltas \in Deltas(n) /\ (~run.marks => run.deltas = Silence(n))
    BY Zenon, <2>1, Vrc6Numbers
  <2> HIDE DEF amp
  <2>4. /\ [o EXCEPT !.delay = 0, !.last_amp = amp] \in Vrc6SquareOsc
        /\ [o EXCEPT !.delay = 0, !.last_amp = amp].last_amp = amp
    BY Zenon, <2>2 DEF Vrc6SquareOsc
  <2> QED
    BY Zenon, <2>1, <2>3, <2>4 DEF RunIsMarked
<1>3. CASE o.output /\ Vrc6Playing(o)
  <2>1. PICK f : Vrc6Trace(o, n, f)
    BY Zenon, <1>3, Vrc6Heard
  <2> DEFINE count == Count(o.delay, o.period + 1, n)
             last == f[count]
             first == f[0]
  <2>2. /\ last \in Vrc6Loop(n) /\ first.deltas = First(o, amp, n) /\ first.last_amp = amp
        /\ count = 0 => last = first
    <3>1. f \in [0 .. count -> Vrc6Loop(n)] /\ count \in Nat
      BY Zenon, <2>1, Vrc6Numbers DEF Vrc6Trace
    <3>2. first.deltas = First(o, amp, n) /\ first.last_amp = amp
      BY Zenon, <2>1 DEF Vrc6Trace
    <3> HIDE DEF count
    <3> QED
      BY Zenon, <3>1, <3>2, Indices
  <2>3. /\ run.osc = [o EXCEPT !.phase = last.phase, !.last_amp = last.last_amp,
                               !.delay = Vrc6Delay(o, n)]
        /\ run.deltas = last.deltas
    BY Zenon, <2>1 DEF Vrc6Trace
  <2>4. run.marks \in BOOLEAN /\ (~run.marks => amp = o.last_amp /\ ~(n > o.delay))
    BY Zenon, <1>3 DEF RunVrc6Square
  <2>5. last.phase \in 0 .. vrc6_phases - 1 /\ last.last_amp \in Nat /\ last.deltas \in Deltas(n)
    BY Zenon, <2>2 DEF Vrc6Loop
  <2>6. ~run.marks => last = first /\ amp = o.last_amp
    <3>1. ~(n > o.delay) => count = 0
      BY Zenon DEF Count
    <3> HIDE DEF count, last, first
    <3> QED
      BY Zenon, <2>2, <2>4, <3>1
  <2> HIDE DEF last, first
  <2>7. run.osc \in Vrc6SquareOsc /\ run.osc.last_amp = last.last_amp
    <3> DEFINE phase == last.phase
               level == last.last_amp
               delay == Vrc6Delay(o, n)
               moved == [o EXCEPT !.phase = phase, !.last_amp = level, !.delay = delay]
    <3>1. phase \in 0 .. vrc6_phases - 1 /\ level \in Nat /\ delay \in Delay
      BY Zenon, <2>5, Vrc6Numbers
    <3>2. run.osc = moved
      BY Zenon, <2>3
    <3> HIDE DEF phase, level, delay
    <3>3. moved \in Vrc6SquareOsc /\ moved.last_amp = level
      BY Zenon, <3>1 DEF Vrc6SquareOsc
    <3> QED
      BY Zenon, <3>2, <3>3 DEF level
  <2>8. ~run.marks => run.deltas = Silence(n) /\ run.osc.last_amp = o.last_amp
    BY Zenon, <2>2, <2>3, <2>6, <2>7, Vrc6Numbers
  <2> QED
    BY Zenon, <2>3, <2>4, <2>5, <2>7, <2>8 DEF RunIsMarked
<1> QED
  BY Zenon, <1>1, <1>2, <1>3

-----------------------------------------------------------------------------
(* The saw.                                                                *)

SawLoop(n) ==
  [phase : 1 .. 7, amp : 0 .. amp_range - 1, last_amp : Nat, deltas : Deltas(n)]

SawPeriod(o) == (o.period + 1) * 2

SawPasses(o, first, n) ==
  LET Pass(p, t) == SawPass(o, p, t)
  IN  Passes(Pass, first, o.delay, SawPeriod(o), n)

LEMMA SawFields ==
  ASSUME NEW o \in SawOsc
  PROVE  /\ o.phase \in 1 .. 7 /\ o.delay \in Delay /\ o.last_amp \in Nat
         /\ o.delay \in Nat /\ 0 \in Delay /\ o.delay % delay_range = o.delay
         /\ SawPeriod(o) \in Nat \ {0} /\ SawPeriod(o) <= delay_range
         /\ o.amp \in 0 .. amp_range - 1 /\ o.rate \in 0 .. amp_range - 1
         /\ amp_range \in Nat \ {0} /\ amp_step \in Nat \ {0}
<1>1. /\ o.phase \in 1 .. 7 /\ o.delay \in Delay /\ o.last_amp \in Nat
      /\ o.period \in Vrc6Periods /\ o.amp \in 0 .. amp_range - 1 /\ o.rate \in 0 .. amp_range - 1
  BY Zenon DEF SawOsc
<1>2. o.delay \in Nat /\ o.delay < delay_range /\ delay_range \in Nat
  BY Zenon, <1>1, ExpansionAssumption DEF Delay, ExpansionAssumption
<1>3. o.period \in Nat /\ (o.period + 1) * 2 <= delay_range
  <2>1. Vrc6Periods \subseteq Nat /\ \A period \in Vrc6Periods : (period + 1) * 2 <= delay_range
    BY Zenon, ExpansionAssumption DEF ExpansionAssumption
  <2> QED
    BY Zenon, <1>1, <2>1
<1>4. SawPeriod(o) \in Nat \ {0} /\ SawPeriod(o) <= delay_range
  BY SMT, <1>2, <1>3 DEF SawPeriod
<1>5. o.delay % delay_range = o.delay /\ 0 \in Nat /\ 0 < delay_range
  BY SMT, <1>2
<1>6. amp_range \in Nat \ {0} /\ amp_step \in Nat \ {0}
  BY Zenon, ExpansionAssumption DEF ExpansionAssumption
<1> QED
  BY Zenon, <1>1, <1>2, <1>4, <1>5, <1>6 DEF Delay

(* The level of the output.                                                *)
LEMMA SawLevel ==
  ASSUME NEW amp \in 0 .. amp_range - 1
  PROVE  amp \div amp_step \in Nat /\ amp \div amp_step \in Int
<1>1. amp \in Int /\ amp >= 0 /\ amp_step \in Nat \ {0}
  BY SMT, ExpansionAssumption DEF ExpansionAssumption
<1>2. PICK q \in Int : q = amp \div amp_step /\ amp < q * amp_step + amp_step
  BY Zenon, <1>1, Division
<1>3. q >= 0
  <2>1. CASE q < 0
    <3>1. (q + 1) * amp_step <= 0 * amp_step /\ (q + 1) * amp_step = q * amp_step + amp_step
      <4>1. q + 1 \in Int /\ 0 \in Int /\ q + 1 <= 0 /\ amp_step \in Nat
        BY SMT, <1>1, <2>1
      <4> QED
        BY Zenon, <4>1, Products
    <3>2. 0 * amp_step = 0
      BY SMT, <1>1
    <3>3. PICK x \in Int : x = q * amp_step + amp_step
      BY SMT, <1>1
    <3>4. x <= 0 /\ amp < x
      BY Zenon, <1>2, <3>1, <3>2, <3>3
    <3> QED
      BY SMT, <1>1, <3>4
  <2> QED
    BY SMT, <2>1
<1>4. q \in Nat
  BY SMT, <1>3
<1> QED
  BY Zenon, <1>2, <1>4

(* The loop of a saw that is heard.                                        *)
LEMMA SawLoops ==
  ASSUME NEW o \in SawOsc, NEW n \in Nat, NEW first \in SawLoop(n)
  PROVE  LET count == Count(o.delay, SawPeriod(o), n)
         IN  \E f \in [0 .. count -> SawLoop(n)] :
               /\ f[0] = first
               /\ \A k \in 1 .. count :
                    f[k] = SawPass(o, f[k - 1], o.delay + (k - 1) * SawPeriod(o))
               /\ SawPasses(o, first, n) = f[count]
<1> DEFINE count == Count(o.delay, SawPeriod(o), n)
           D == SawLoop(n)
           at(k) == o.delay + (k - 1) * SawPeriod(o)
           step == [x \in D \X (0 .. count) |-> SawPass(o, x[1], at(x[2]))]
           Eq(g) == g = [k \in 0 .. count |-> IF k = 0 THEN first
                                              ELSE SawPass(o, g[k - 1], at(k))]
<1>1. count \in Nat
  BY Zenon, Counting, SawFields
<1>2. ASSUME NEW p \in D, NEW t PROVE SawPass(o, p, t) \in D
  <2> DEFINE amp == IF p.phase = 1 THEN 0 ELSE p.amp
             level == amp \div amp_step
             phase == IF p.phase = 1 THEN 7 ELSE p.phase - 1
             next == (amp + o.rate) % amp_range
             deltas == [p.deltas EXCEPT ![t] = @ + level - p.last_amp]
  <2>1. /\ p.phase \in 1 .. 7 /\ p.deltas \in Deltas(n) /\ p.last_amp \in Nat
        /\ p.amp \in 0 .. amp_range - 1
    BY Zenon DEF SawLoop
  <2>2. /\ amp \in 0 .. amp_range - 1 /\ next \in 0 .. amp_range - 1
        /\ phase \in 1 .. 7 /\ p.last_amp \in Int
    <3>1. amp \in 0 .. amp_range - 1
      BY SMT, <2>1, SawFields
    <3> HIDE DEF amp
    <3>2. next \in 0 .. amp_range - 1
      BY SMT, <3>1, SawFields
    <3>3. phase \in 1 .. 7 /\ p.last_amp \in Int
      BY SMT, <2>1
    <3> QED
      BY Zenon, <3>1, <3>2, <3>3
  <2> HIDE DEF amp
  <2>3. level \in Nat /\ level \in Int
    BY Zenon, <2>2, SawLevel
  <2>4. deltas \in Deltas(n)
    <3> HIDE DEF level
    <3> QED
      BY Zenon, <2>1, <2>2, <2>3, DeltaMoved
  <2>5. SawPass(o, p, t) = [phase |-> phase, amp |-> next, last_amp |-> level,
                            deltas |-> deltas]
    BY Zenon DEF SawPass, amp
  <2> HIDE DEF level, phase, next, deltas
  <2> QED
    BY SMT, <2>2, <2>3, <2>4, <2>5 DEF SawLoop
<1> HIDE DEF D, at, count
<1>3. ASSUME NEW d \in D, NEW k \in 0 .. count
      PROVE  step[<<d, k>>] = SawPass(o, d, at(k))
  BY Zenon
<1> HIDE DEF step
<1>4. PICK f \in [0 .. count -> D] : IsLoop(f, first, step, 0 .. count)
  <2>1. Closed(D, step, 0 .. count)
    BY Zenon, <1>2, <1>3 DEF Closed
  <2> QED
    BY Zenon, <1>1, <2>1, LoopExists DEF D
<1>5. Eq(f)
  <2>1. ASSUME NEW k \in 0 .. count
        PROVE  f[k] = IF k = 0 THEN first ELSE SawPass(o, f[k - 1], at(k))
    <3>1. f[k] = IF k = 0 THEN first ELSE step[<<f[k - 1], k>>]
      BY Zenon, <1>4 DEF IsLoop
    <3>2. k # 0 => f[k - 1] \in D
      BY Zenon, <1>1, <1>4, Indices
    <3> QED
      BY Zenon, <1>3, <3>1, <3>2
  <2> QED
    BY Zenon, <2>1
<1>6. PICK g : Eq(g) /\ SawPasses(o, first, n) = g[count]
  <2>1. Eq(CHOOSE g : Eq(g))
    <3> HIDE DEF Eq
    <3> QED
      BY Zenon, <1>5
  <2>2. SawPasses(o, first, n) = (CHOOSE g : Eq(g))[count]
    BY Zenon DEF SawPasses, Passes, count, at
  <2> HIDE DEF Eq
  <2> QED
    BY Zenon, <2>1, <2>2
<1>7. g[0] = first /\ \A k \in 1 .. count : g[k] = SawPass(o, g[k - 1], at(k))
  BY Zenon, <1>1, <1>6, Indices
<1>8. \A k \in 0 .. count : g[k] \in D
  <2>1. first \in D
    BY DEF D
  <2>2. \A k \in 1 .. count : g[k - 1] \in D => g[k] \in D
    BY Zenon, <1>2, <1>7
  <2> QED
    BY Zenon, <1>1, <1>7, <2>1, <2>2, Stays
<1>9. g \in [0 .. count -> D]
  BY Zenon, <1>6, <1>8
<1> QED
  BY Zenon, <1>6, <1>7, <1>9 DEF D, at, count

SawDelay(o, n) == DelayAfter(o.delay, SawPeriod(o), n)
SawStill(o) == ~o.enabled \/ (o.rate = 0 /\ o.amp = 0)

(* The run of a saw that is heard, as its loop goes.                       *)
SawTrace(o, n, f) ==
  LET count == Count(o.delay, SawPeriod(o), n)
  IN  /\ f \in [0 .. count -> SawLoop(n)]
      /\ f[0].phase = o.phase /\ f[0].amp = o.amp
      /\ \A k \in 1 .. count : \E t : f[k] = SawPass(o, f[k - 1], t)
      /\ RunSaw(o, n).osc = [o EXCEPT !.phase = f[count].phase, !.amp = f[count].amp,
                                      !.last_amp = f[count].last_amp, !.delay = SawDelay(o, n)]
      /\ RunSaw(o, n).deltas = f[count].deltas /\ RunSaw(o, n).marks = TRUE

LEMMA SawHeard ==
  ASSUME NEW o \in SawOsc, NEW n \in Nat, o.output, ~SawStill(o)
  PROVE  \E f : SawTrace(o, n, f)
<1> DEFINE first == [phase |-> o.phase, amp |-> o.amp, last_amp |-> o.last_amp,
                     deltas |-> Silence(n)]
           count == Count(o.delay, SawPeriod(o), n)
<1>1. o.last_amp \in Int /\ o.last_amp \in Nat
  BY SMT, SawFields
<1>2. Silence(n) \in Deltas(n)
  BY Zenon, <1>1, Firsts
<1>3. first \in SawLoop(n)
  BY Zenon, <1>1, <1>2, SawFields DEF SawLoop
<1>4. LET end == SawPasses(o, first, n)
      IN  /\ RunSaw(o, n).osc = [o EXCEPT !.phase = end.phase, !.amp = end.amp,
                                          !.last_amp = end.last_amp, !.delay = SawDelay(o, n)]
          /\ RunSaw(o, n).deltas = end.deltas /\ RunSaw(o, n).marks = TRUE
  BY Zenon DEF RunSaw, SawPasses, SawPeriod, Passes, SawDelay, SawStill
<1>5. first.phase = o.phase /\ first.amp = o.amp
  BY Zenon
<1> HIDE DEF first
<1>6. PICK f \in [0 .. count -> SawLoop(n)] :
        /\ f[0] = first
        /\ \A k \in 1 .. count : f[k] = SawPass(o, f[k - 1], o.delay + (k - 1) * SawPeriod(o))
        /\ SawPasses(o, first, n) = f[count]
  BY Zenon, <1>3, SawLoops
<1>7. f[0].phase = o.phase /\ f[0].amp = o.amp
  BY Zenon, <1>5, <1>6
<1>8. SawTrace(o, n, f)
  BY Zenon, <1>4, <1>6, <1>7 DEF SawTrace
<1> QED
  BY Zenon, <1>8

LEMMA SawRun ==
  ASSUME NEW o \in SawOsc, NEW n \in Nat
  PROVE  RunSaw(o, n).osc \in SawOsc /\ RunIsMarked(o, n, RunSaw(o, n))
<1> DEFINE count == Count(o.delay, SawPeriod(o), n)
           level == o.amp \div amp_step
           run == RunSaw(o, n)
<1>1. /\ count \in Nat /\ o.phase \in 1 .. 7 /\ DelayAfter(o.delay, SawPeriod(o), n) \in Delay
      /\ o.last_amp \in Nat /\ o.last_amp \in Int /\ o.amp \in 0 .. amp_range - 1
      /\ level \in Nat /\ level \in Int /\ 0 \in Delay
  <2>1. \A x \in Nat : x \in Int
    BY SMT
  <2> QED
    BY Zenon, <2>1, SawFields, Counting, DelayFits, SawLevel
<1> HIDE DEF level
<1>2. Silence(n) \in Deltas(n) /\ First(o, level, n) \in Deltas(n)
  BY Zenon, <1>1, Firsts
<1>3. CASE ~o.output
  <2>1. run.osc = o /\ run.deltas = Silence(n) /\ run.marks = FALSE
    BY Zenon, <1>3 DEF RunSaw, Unheard
  <2> QED
    BY Zenon, <1>2, <2>1 DEF RunIsMarked
<1>4. CASE o.output /\ SawStill(o)
  <2>1. /\ run.osc = [o EXCEPT !.delay = 0, !.last_amp = level]
        /\ run.deltas = First(o, level, n) /\ run.marks = TRUE
    BY Zenon, <1>4 DEF RunSaw, level, SawStill
  <2>2. [o EXCEPT !.delay = 0, !.last_amp = level] \in SawOsc
    BY Zenon, <1>1 DEF SawOsc
  <2> QED
    BY Zenon, <1>2, <2>1, <2>2 DEF RunIsMarked
<1>5. CASE o.output /\ ~SawStill(o)
  <2>1. PICK f : SawTrace(o, n, f)
    BY Zenon, <1>5, SawHeard
  <2> DEFINE last == f[count]
  <2>2. f \in [0 .. count -> SawLoop(n)]
    BY Zenon, <2>1 DEF SawTrace
  <2>3. last \in SawLoop(n)
    <3> HIDE DEF count
    <3> QED
      BY Zenon, <1>1, <2>2, Indices
  <2>4. /\ run.osc = [o EXCEPT !.phase = last.phase, !.amp = last.amp,
                               !.last_amp = last.last_amp, !.delay = SawDelay(o, n)]
        /\ run.deltas = last.deltas /\ run.marks = TRUE
    BY Zenon, <2>1 DEF SawTrace
  <2>5. /\ last.phase \in 1 .. 7 /\ last.amp \in 0 .. amp_range - 1 /\ last.last_amp \in Nat
        /\ last.deltas \in Deltas(n)
    BY Zenon, <2>3 DEF SawLoop
  <2> HIDE DEF last
  <2>6. run.osc \in SawOsc
    BY Zenon, <1>1, <2>4, <2>5 DEF SawOsc, SawDelay
  <2> QED
    BY Zenon, <2>4, <2>5, <2>6 DEF RunIsMarked
<1> QED
  BY Zenon, <1>3, <1>4, <1>5

-----------------------------------------------------------------------------
(* The squares of the FME-7.                                               *)

Fme7Loop(n) == [phase : {0, 1}, deltas : Deltas(n)]

Fme7Pass(o, p, t) ==
  [phase |-> 1 - p.phase,
   deltas |-> [p.deltas EXCEPT ![t] = @ + Fme7Volume(o) * (1 - 2 * p.phase)]]

Fme7Passes(o, first, n) ==
  LET Pass(p, t) == Fme7Pass(o, p, t)
  IN  Passes(Pass, first, o.delay, Fme7Period(o), n)

LEMMA Fme7Fields ==
  ASSUME NEW o \in Fme7Osc
  PROVE  /\ o.phase \in {0, 1} /\ o.delay \in Delay /\ o.last_amp \in Nat
         /\ o.delay \in Nat /\ o.delay % delay_range = o.delay
         /\ Fme7Period(o) \in Nat \ {0} /\ delay_range \in Nat \ {0} /\ Fme7Volume(o) \in Nat
         /\ \A phase \in {0, 1} : /\ phase * Fme7Volume(o) \in Nat
                                  /\ Fme7Volume(o) * (1 - 2 * phase) \in Int
<1>1. /\ o.phase \in {0, 1} /\ o.delay \in Delay /\ o.last_amp \in Nat
      /\ o.period \in Fme7Periods /\ o.volume \in Nat
  BY Zenon DEF Fme7Osc
<1>2. o.delay \in Nat /\ o.delay < delay_range /\ delay_range \in Nat
  BY Zenon, <1>1, ExpansionAssumption DEF Delay, ExpansionAssumption
<1>3. o.period \in Nat /\ period_factor \in Nat \ {0}
  <2>1. Fme7Periods \subseteq Nat /\ period_factor \in Nat \ {0}
    BY Zenon, ExpansionAssumption DEF ExpansionAssumption
  <2> QED
    BY Zenon, <1>1, <2>1
<1>4. Fme7Period(o) \in Nat \ {0}
  <2>1. PICK p \in Nat \ {0} : p = IF o.period = 0 THEN 1 ELSE o.period
    BY SMT, <1>3
  <2>2. p * period_factor \in Nat \ {0}
    BY SMT, <1>3
  <2> QED
    BY Zenon, <2>1, <2>2 DEF Fme7Period
<1>5. o.delay % delay_range = o.delay /\ delay_range \in Nat \ {0}
  BY SMT, <1>2
<1>6. PICK v \in Nat : v = Fme7Volume(o)
  <2>1. 0 \in Nat
    BY SMT
  <2> QED
    BY Zenon, <1>1, <2>1 DEF Fme7Volume
<1>7. \A phase \in {0, 1} : phase * v \in Nat /\ v * (1 - 2 * phase) \in Int
  BY SMT
<1> QED
  BY Zenon, <1>1, <1>2, <1>4, <1>5, <1>6, <1>7

(* The loop of a square that is heard or silent.                           *)
LEMMA Fme7Loops ==
  ASSUME NEW o \in Fme7Osc, NEW n \in Nat, NEW first \in Fme7Loop(n)
  PROVE  LET count == Count(o.delay, Fme7Period(o), n)
         IN  \E f \in [0 .. count -> Fme7Loop(n)] :
               /\ f[0] = first
               /\ \A k \in 1 .. count :
                    f[k] = Fme7Pass(o, f[k - 1], o.delay + (k - 1) * Fme7Period(o))
               /\ Fme7Passes(o, first, n) = f[count]
<1> DEFINE count == Count(o.delay, Fme7Period(o), n)
           D == Fme7Loop(n)
           at(k) == o.delay + (k - 1) * Fme7Period(o)
           step == [x \in D \X (0 .. count) |-> Fme7Pass(o, x[1], at(x[2]))]
           Eq(g) == g = [k \in 0 .. count |-> IF k = 0 THEN first
                                              ELSE Fme7Pass(o, g[k - 1], at(k))]
<1>1. count \in Nat
  BY Zenon, Counting, Fme7Fields
<1>2. ASSUME NEW p \in D, NEW t PROVE Fme7Pass(o, p, t) \in D
  <2>1. p.phase \in {0, 1} /\ p.deltas \in Deltas(n)
    BY Zenon DEF Fme7Loop
  <2>2. 1 - p.phase \in {0, 1}
    BY SMT, <2>1
  <2>3. [p.deltas EXCEPT ![t] = @ + Fme7Volume(o) * (1 - 2 * p.phase)] \in Deltas(n)
    BY Zenon, <2>1, Fme7Fields, DeltaAdded
  <2> QED
    BY Zenon, <2>2, <2>3 DEF Fme7Pass, Fme7Loop
<1> HIDE DEF D, at, count
<1>3. ASSUME NEW d \in D, NEW k \in 0 .. count
      PROVE  step[<<d, k>>] = Fme7Pass(o, d, at(k))
  BY Zenon
<1> HIDE DEF step
<1>4. PICK f \in [0 .. count -> D] : IsLoop(f, first, step, 0 .. count)
  <2>1. Closed(D, step, 0 .. count)
    BY Zenon, <1>2, <1>3 DEF Closed
  <2> QED
    BY Zenon, <1>1, <2>1, LoopExists DEF D
<1>5. Eq(f)
  <2>1. ASSUME NEW k \in 0 .. count
        PROVE  f[k] = IF k = 0 THEN first ELSE Fme7Pass(o, f[k - 1], at(k))
    <3>1. f[k] = IF k = 0 THEN first ELSE step[<<f[k - 1], k>>]
      BY Zenon, <1>4 DEF IsLoop
    <3>2. k # 0 => f[k - 1] \in D
      BY Zenon, <1>1, <1>4, Indices
    <3> QED
      BY Zenon, <1>3, <3>1, <3>2
  <2> QED
    BY Zenon, <2>1
<1>6. PICK g : Eq(g) /\ Fme7Passes(o, first, n) = g[count]
  <2>1. Eq(CHOOSE g : Eq(g))
    <3> HIDE DEF Eq
    <3> QED
      BY Zenon, <1>5
  <2>2. Fme7Passes(o, first, n) = (CHOOSE g : Eq(g))[count]
    BY Zenon DEF Fme7Passes, Passes, count, at
  <2> HIDE DEF Eq
  <2> QED
    BY Zenon, <2>1, <2>2
<1>7. g[0] = first /\ \A k \in 1 .. count : g[k] = Fme7Pass(o, g[k - 1], at(k))
  BY Zenon, <1>1, <1>6, Indices
<1>8. \A k \in 0 .. count : g[k] \in D
  <2>1. first \in D
    BY DEF D
  <2>2. \A k \in 1 .. count : g[k - 1] \in D => g[k] \in D
    BY Zenon, <1>2, <1>7
  <2> QED
    BY Zenon, <1>1, <1>7, <2>1, <2>2, Stays
<1>9. g \in [0 .. count -> D]
  BY Zenon, <1>6, <1>8
<1> QED
  BY Zenon, <1>6, <1>7, <1>9 DEF D, at, count

Fme7Delay(o, n) == DelayAfter(o.delay, Fme7Period(o), n) % delay_range

(* The run of a square that has an output, as its loop goes.               *)
Fme7Trace(o, n, f) ==
  LET count == Count(o.delay, Fme7Period(o), n)
  IN  /\ f \in [0 .. count -> Fme7Loop(n)]
      /\ f[0].phase = o.phase /\ f[0].deltas = First(o, o.phase * Fme7Volume(o), n)
      /\ \A k \in 1 .. count : \E t : f[k] = Fme7Pass(o, f[k - 1], t)
      /\ RunFme7(o, n).osc = [o EXCEPT !.phase = f[count].phase,
                                       !.last_amp = f[count].phase * Fme7Volume(o),
                                       !.delay = Fme7Delay(o, n)]
      /\ RunFme7(o, n).deltas = f[count].deltas

LEMMA Fme7Heard ==
  ASSUME NEW o \in Fme7Osc, NEW n \in Nat, o.output
  PROVE  \E f : Fme7Trace(o, n, f)
<1> DEFINE amp == o.phase * Fme7Volume(o)
           first == [phase |-> o.phase, deltas |-> First(o, amp, n)]
           count == Count(o.delay, Fme7Period(o), n)
<1>1. o.last_amp \in Int /\ o.phase \in {0, 1} /\ amp \in Int
  <2>1. \A x \in Nat : x \in Int
    BY SMT
  <2> QED
    BY Zenon, <2>1, Fme7Fields
<1>2. First(o, amp, n) \in Deltas(n)
  <2> HIDE DEF amp
  <2> QED
    BY Zenon, <1>1, Firsts
<1>3. first \in Fme7Loop(n)
  BY Zenon, <1>1, <1>2 DEF Fme7Loop
<1>4. LET end == Fme7Passes(o, first, n)
      IN  /\ RunFme7(o, n).osc = [o EXCEPT !.phase = end.phase,
                                           !.last_amp = end.phase * Fme7Volume(o),
                                           !.delay = Fme7Delay(o, n)]
          /\ RunFme7(o, n).deltas = end.deltas
  BY Zenon DEF RunFme7, Fme7Passes, Fme7Pass, Passes, Fme7Delay
<1>5. first.phase = o.phase /\ first.deltas = First(o, amp, n)
  BY Zenon
<1> HIDE DEF first
<1>6. PICK f \in [0 .. count -> Fme7Loop(n)] :
        /\ f[0] = first
        /\ \A k \in 1 .. count : f[k] = Fme7Pass(o, f[k - 1], o.delay + (k - 1) * Fme7Period(o))
        /\ Fme7Passes(o, first, n) = f[count]
  BY Zenon, <1>3, Fme7Loops
<1>7. f[0].phase = o.phase /\ f[0].deltas = First(o, amp, n)
  BY Zenon, <1>5, <1>6
<1>8. Fme7Trace(o, n, f)
  BY Zenon, <1>4, <1>6, <1>7 DEF Fme7Trace
<1> QED
  BY Zenon, <1>8

LEMMA Fme7Run ==
  ASSUME NEW o \in Fme7Osc, NEW n \in Nat
  PROVE  RunFme7(o, n).osc \in Fme7Osc /\ RunIsMarked(o, n, RunFme7(o, n))
<1> DEFINE period == Fme7Period(o)
           loud == Fme7Volume(o)
           count == Count(o.delay, period, n)
           amp == o.phase * loud
           after == DelayAfter(o.delay, period, n) % delay_range
           run == RunFme7(o, n)
<1>1. /\ count \in Nat /\ o.phase \in {0, 1} /\ o.last_amp \in Nat /\ o.last_amp \in Int
      /\ amp \in Nat /\ amp \in Int
  <2>1. \A x \in Nat : x \in Int
    BY SMT
  <2> QED
    BY Zenon, <2>1, Fme7Fields, Counting
<1>2. after \in Delay
  <2>1. PICK d \in Nat : d = DelayAfter(o.delay, period, n)
    BY Zenon, Fme7Fields, Counting
  <2>2. d % delay_range \in Nat /\ d % delay_range < delay_range
    BY SMT, Fme7Fields
  <2> QED
    BY Zenon, <2>1, <2>2 DEF Delay
<1> HIDE DEF after
<1>3. /\ Silence(n) \in Deltas(n) /\ First(o, amp, n) \in Deltas(n)
      /\ amp = o.last_amp => First(o, amp, n) = Silence(n)
  <2> HIDE DEF amp
  <2> QED
    BY Zenon, <1>1, Firsts
<1>4. CASE ~o.output
  <2>1. run.osc = o /\ run.deltas = Silence(n) /\ run.marks = FALSE
    BY Zenon, <1>4 DEF RunFme7, Unheard
  <2> QED
    BY Zenon, <1>3, <2>1 DEF RunIsMarked
<1>5. CASE o.output
  <2>1. PICK f : Fme7Trace(o, n, f)
    BY Zenon, <1>5, Fme7Heard
  <2> DEFINE last == f[count]
             level == last.phase * loud
  <2>2. /\ f \in [0 .. count -> Fme7Loop(n)]
        /\ f[0].deltas = First(o, amp, n) /\ f[0].phase * loud = amp
    BY Zenon, <2>1 DEF Fme7Trace
  <2>3. ~(n > o.delay) => count = 0
    BY Zenon DEF Count
  <2>4. last \in Fme7Loop(n) /\ (count = 0 => last.deltas = First(o, amp, n) /\ level = amp)
    <3> HIDE DEF count, amp
    <3> QED
      BY Zenon, <1>1, <2>2, Indices
  <2>5. /\ run.osc = [o EXCEPT !.phase = last.phase, !.last_amp = level, !.delay = after]
        /\ run.deltas = last.deltas
    BY Zenon, <2>1 DEF Fme7Trace, after, Fme7Delay
  <2>6. last.phase \in {0, 1} /\ last.deltas \in Deltas(n)
    BY Zenon, <2>4 DEF Fme7Loop
  <2>7. level \in Nat
    BY Zenon, <2>6, Fme7Fields
  <2>8. run.marks \in BOOLEAN /\ (~run.marks => amp = o.last_amp /\ ~(n > o.delay))
    BY Zenon, <1>5 DEF RunFme7
  <2>9. ~run.marks => run.deltas = First(o, amp, n) /\ level = amp /\ amp = o.last_amp
    <3> HIDE DEF count, last, level, amp, run
    <3> QED
      BY Zenon, <2>3, <2>4, <2>5, <2>8
  <2> HIDE DEF last, level, amp
  <2>10. run.osc \in Fme7Osc /\ run.osc.last_amp = level
    BY Zenon, <1>1, <1>2, <2>5, <2>6, <2>7 DEF Fme7Osc
  <2>11. ~run.marks => run.deltas = Silence(n) /\ run.osc.last_amp = o.last_amp
    BY Zenon, <1>3, <2>9, <2>10
  <2> QED
    BY Zenon, <2>5, <2>6, <2>8, <2>10, <2>11 DEF RunIsMarked
<1> QED
  BY Zenon, <1>4, <1>5

-----------------------------------------------------------------------------
(* The channels of the Namco chip.                                         *)

NamcoHeard == {o \in NamcoOsc : NamcoPlaying(o)}
NamcoLoop(n) == [wave_pos : 0 .. LargestWave - 1, last_amp : Nat, deltas : Deltas(n)]

NamcoPasses(o, first, n) ==
  LET Pass(p, t) == NamcoPass(o, p, t)
  IN  Passes(Pass, first, o.delay, NamcoPeriod(o), n)

LEMMA WavesFit ==
  LargestWave \in Nat \ {0} /\ LargestWave \in WaveSizes
  /\ \A size \in WaveSizes : size \in Nat \ {0} /\ size <= LargestWave
<1>1. WaveSizes \subseteq Nat \ {0} /\ \E largest \in WaveSizes : \A size \in WaveSizes : size <= largest
  BY Zenon, ExpansionAssumption DEF ExpansionAssumption
<1>2. LargestWave \in WaveSizes /\ \A size \in WaveSizes : size <= LargestWave
  BY Zenon, <1>1 DEF LargestWave
<1> QED
  BY Zenon, <1>1, <1>2

LEMMA NamcoFields ==
  ASSUME NEW o \in NamcoOsc
  PROVE  /\ o.wave_pos \in 0 .. LargestWave - 1 /\ o.delay \in Nat /\ o.last_amp \in Nat
         /\ o.wave_size \in WaveSizes /\ o.volume \in Nat /\ o.active \in Nat \ {0}
         /\ o.freq \in NamcoFreqs /\ o.wave \in [0 .. LargestWave - 1 -> Nat]
BY Zenon DEF NamcoOsc

(* A channel that is heard has a period.                                   *)
LEMMA NamcoPeriods ==
  ASSUME NEW o \in NamcoHeard
  PROVE  o \in NamcoOsc /\ o.delay \in Nat /\ NamcoPeriod(o) \in Nat \ {0}
<1>1. o \in NamcoOsc /\ o.freq >= least_freq * o.active
  BY Zenon DEF NamcoHeard, NamcoPlaying
<1>2. /\ o.freq \in Nat /\ o.freq <= low_period /\ low_period \in Nat
      /\ o.active \in Nat \ {0} /\ least_freq \in Nat \ {0} /\ freq_scale \in Nat \ {0}
  <2>1. NamcoFreqs \subseteq Nat /\ low_period \in Nat /\ \A freq \in NamcoFreqs : freq <= low_period
        /\ least_freq \in Nat \ {0} /\ freq_scale \in Nat \ {0}
    BY Zenon, ExpansionAssumption DEF ExpansionAssumption
  <2> QED
    BY Zenon, <1>1, <2>1, NamcoFields
<1>3. o.freq \in Nat \ {0}
  <2>1. PICK x \in Nat \ {0} : x = least_freq * o.active
    BY SMT, <1>2
  <2>2. o.freq >= x
    BY Zenon, <1>1, <2>1
  <2> QED
    BY SMT, <1>2, <2>2
<1>4. PICK q \in Nat \ {0} : q = low_period \div o.freq
  <2>1. low_period \in Int
    BY SMT, <1>2
  <2>2. PICK q \in Int : q = low_period \div o.freq /\ low_period < q * o.freq + o.freq
    BY Zenon, <1>3, <2>1, Division
  <2>3. q >= 1
    <3>1. CASE q <= 0
      <4>1. q * o.freq <= 0 * o.freq
        <5>1. 0 \in Int /\ o.freq \in Nat
          BY SMT, <1>2
        <5> QED
          BY Zenon, <1>2, <3>1, <5>1, Products
      <4>2. 0 * o.freq = 0
        BY SMT, <1>2
      <4>3. PICK x \in Int : x = q * o.freq
        BY SMT, <1>2
      <4>4. x <= 0 /\ low_period < x + o.freq
        BY Zenon, <2>2, <4>1, <4>2, <4>3
      <4> QED
        BY SMT, <1>2, <4>4
    <3> QED
      BY SMT, <3>1
  <2>4. q \in Nat \ {0}
    BY SMT, <2>3
  <2> QED
    BY Zenon, <2>2, <2>4
<1>5. NamcoPeriod(o) \in Nat \ {0}
  <2>1. PICK x \in Nat \ {0} : x = q * freq_scale
    BY SMT, <1>2
  <2>2. x * o.active \in Nat \ {0}
    BY SMT, <1>2
  <2> QED
    BY Zenon, <1>4, <2>1, <2>2 DEF NamcoPeriod
<1> QED
  BY Zenon, <1>1, <1>5, NamcoFields

(* The loop of a channel that is heard.                                    *)
LEMMA NamcoLoops ==
  ASSUME NEW o \in NamcoHeard, NEW n \in Nat, NEW first \in NamcoLoop(n)
  PROVE  LET count == Count(o.delay, NamcoPeriod(o), n)
         IN  \E f \in [0 .. count -> NamcoLoop(n)] :
               /\ f[0] = first
               /\ \A k \in 1 .. count :
                    f[k] = NamcoPass(o, f[k - 1], o.delay + (k - 1) * NamcoPeriod(o))
               /\ NamcoPasses(o, first, n) = f[count]
<1> DEFINE count == Count(o.delay, NamcoPeriod(o), n)
           D == NamcoLoop(n)
           at(k) == o.delay + (k - 1) * NamcoPeriod(o)
           step == [x \in D \X (0 .. count) |-> NamcoPass(o, x[1], at(x[2]))]
           Eq(g) == g = [k \in 0 .. count |-> IF k = 0 THEN first
                                              ELSE NamcoPass(o, g[k - 1], at(k))]
<1>1. count \in Nat
  BY Zenon, Counting, NamcoPeriods
<1>2. ASSUME NEW p \in D, NEW t PROVE NamcoPass(o, p, t) \in D
  <2> DEFINE amp == o.wave[p.wave_pos] * o.volume
             pos == IF p.wave_pos + 1 >= o.wave_size THEN 0 ELSE p.wave_pos + 1
             deltas == [p.deltas EXCEPT ![t] = @ + amp - p.last_amp]
  <2>1. /\ p.wave_pos \in 0 .. LargestWave - 1 /\ p.deltas \in Deltas(n) /\ p.last_amp \in Nat
        /\ p.last_amp \in Int
    <3>1. \A x \in Nat : x \in Int
      BY SMT
    <3> QED
      BY Zenon, <3>1 DEF NamcoLoop
  <2>2. amp \in Nat /\ amp \in Int
    <3>1. o.wave[p.wave_pos] \in Nat /\ o.volume \in Nat
      BY Zenon, <2>1, NamcoPeriods, NamcoFields
    <3> QED
      BY SMT, <3>1
  <2>3. pos \in 0 .. LargestWave - 1
    <3>1. o.wave_size \in Nat \ {0} /\ o.wave_size <= LargestWave /\ LargestWave \in Nat \ {0}
      BY Zenon, NamcoPeriods, NamcoFields, WavesFit
    <3> QED
      BY SMT, <2>1, <3>1
  <2> HIDE DEF amp
  <2>4. deltas \in Deltas(n)
    BY Zenon, <2>1, <2>2, DeltaMoved
  <2>5. NamcoPass(o, p, t) = [wave_pos |-> pos, last_amp |-> amp, deltas |-> deltas]
    BY Zenon DEF NamcoPass, amp
  <2> HIDE DEF pos, deltas
  <2> QED
    BY SMT, <2>2, <2>3, <2>4, <2>5 DEF NamcoLoop
<1> HIDE DEF D, at, count
<1>3. ASSUME NEW d \in D, NEW k \in 0 .. count
      PROVE  step[<<d, k>>] = NamcoPass(o, d, at(k))
  BY Zenon
<1> HIDE DEF step
<1>4. PICK f \in [0 .. count -> D] : IsLoop(f, first, step, 0 .. count)
  <2>1. Closed(D, step, 0 .. count)
    BY Zenon, <1>2, <1>3 DEF Closed
  <2> QED
    BY Zenon, <1>1, <2>1, LoopExists DEF D
<1>5. Eq(f)
  <2>1. ASSUME NEW k \in 0 .. count
        PROVE  f[k] = IF k = 0 THEN first ELSE NamcoPass(o, f[k - 1], at(k))
    <3>1. f[k] = IF k = 0 THEN first ELSE step[<<f[k - 1], k>>]
      BY Zenon, <1>4 DEF IsLoop
    <3>2. k # 0 => f[k - 1] \in D
      BY Zenon, <1>1, <1>4, Indices
    <3> QED
      BY Zenon, <1>3, <3>1, <3>2
  <2> QED
    BY Zenon, <2>1
<1>6. PICK g : Eq(g) /\ NamcoPasses(o, first, n) = g[count]
  <2>1. Eq(CHOOSE g : Eq(g))
    <3> HIDE DEF Eq
    <3> QED
      BY Zenon, <1>5
  <2>2. NamcoPasses(o, first, n) = (CHOOSE g : Eq(g))[count]
    BY Zenon DEF NamcoPasses, Passes, count, at
  <2> HIDE DEF Eq
  <2> QED
    BY Zenon, <2>1, <2>2
<1>7. g[0] = first /\ \A k \in 1 .. count : g[k] = NamcoPass(o, g[k - 1], at(k))
  BY Zenon, <1>1, <1>6, Indices
<1>8. \A k \in 0 .. count : g[k] \in D
  <2>1. first \in D
    BY DEF D
  <2>2. \A k \in 1 .. count : g[k - 1] \in D => g[k] \in D
    BY Zenon, <1>2, <1>7
  <2> QED
    BY Zenon, <1>1, <1>7, <2>1, <2>2, Stays
<1>9. g \in [0 .. count -> D]
  BY Zenon, <1>6, <1>8
<1> QED
  BY Zenon, <1>6, <1>7, <1>9 DEF D, at, count

LEMMA NamcoRun ==
  ASSUME NEW o \in NamcoOsc, NEW n \in Nat
  PROVE  RunNamco(o, n).osc \in NamcoOsc /\ RunIsMarked(o, n, RunNamco(o, n))
<1> DEFINE period == NamcoPeriod(o)
           count == Count(o.delay, period, n)
           after == DelayAfter(o.delay, period, n)
           run == RunNamco(o, n)
<1>1. /\ o.wave_pos \in 0 .. LargestWave - 1 /\ o.last_amp \in Nat /\ o.last_amp \in Int
      /\ o.delay \in Nat /\ Silence(n) \in Deltas(n)
  <2>1. \A x \in Nat : x \in Int
    BY SMT
  <2> QED
    BY Zenon, <2>1, NamcoFields, Firsts
<1>2. CASE ~NamcoActive(o)
  <2>1. run.osc = o /\ run.deltas = Silence(n) /\ run.marks = FALSE
    BY Zenon, <1>2 DEF RunNamco, Unheard
  <2> QED
    BY Zenon, <1>1, <2>1 DEF RunIsMarked
<1>3. CASE NamcoActive(o) /\ ~NamcoPlaying(o)
  <2> DEFINE left == IF o.delay < n THEN 0 ELSE o.delay - n
  <2>1. left \in Nat
    BY SMT, <1>1
  <2>2. run.osc = [o EXCEPT !.delay = left] /\ run.deltas = Silence(n) /\ run.marks = FALSE
    BY Zenon, <1>3 DEF RunNamco, Unheard
  <2> HIDE DEF left
  <2>3. run.osc \in NamcoOsc /\ run.osc.last_amp = o.last_amp
    BY Zenon, <2>1, <2>2 DEF NamcoOsc
  <2> QED
    BY Zenon, <1>1, <2>2, <2>3 DEF RunIsMarked
<1>4. CASE NamcoActive(o) /\ NamcoPlaying(o)
  <2>1. o \in NamcoHeard
    BY Zenon, <1>4 DEF NamcoHeard
  <2>2. count \in Nat /\ after \in Nat
    BY Zenon, <2>1, NamcoPeriods, Counting
  <2> DEFINE first == [wave_pos |-> o.wave_pos, last_amp |-> o.last_amp, deltas |-> Silence(n)]
  <2>3. first \in NamcoLoop(n)
    BY Zenon, <1>1 DEF NamcoLoop
  <2>4. first.deltas = Silence(n) /\ first.last_amp = o.last_amp
    BY Zenon
  <2> HIDE DEF first, count, after
  <2>5. PICK f \in [0 .. count -> NamcoLoop(n)] :
          /\ f[0] = first
          /\ \A k \in 1 .. count : f[k] = NamcoPass(o, f[k - 1], o.delay + (k - 1) * period)
          /\ NamcoPasses(o, first, n) = f[count]
    BY Zenon, <2>1, <2>3, NamcoLoops DEF count
  <2> DEFINE last == f[count]
  <2>6. last \in NamcoLoop(n)
    BY Zenon, <2>2, <2>5, Indices
  <2>7. /\ run.osc = [o EXCEPT !.wave_pos = last.wave_pos, !.last_amp = last.last_amp,
                               !.delay = after]
        /\ run.deltas = last.deltas /\ run.marks \in BOOLEAN
        /\ ~run.marks => ~(n > o.delay)
    <3>1. LET end == NamcoPasses(o, first, n)
          IN  /\ run.osc = [o EXCEPT !.wave_pos = end.wave_pos, !.last_amp = end.last_amp,
                                     !.delay = after]
              /\ run.deltas = end.deltas
      BY Zenon, <1>4 DEF RunNamco, NamcoPasses, Passes, first, after
    <3>2. run.marks = (n > o.delay)
      BY Zenon, <1>4 DEF RunNamco
    <3>3. run.marks \in BOOLEAN /\ (~run.marks => ~(n > o.delay))
      <4>1. (n > o.delay) \in BOOLEAN
        BY SMT, <1>1
      <4> QED
        BY Zenon, <3>2, <4>1
    <3> QED
      BY Zenon, <2>5, <3>1, <3>3
  <2>8. /\ last.wave_pos \in 0 .. LargestWave - 1 /\ last.last_amp \in Nat
        /\ last.deltas \in Deltas(n)
    BY Zenon, <2>6 DEF NamcoLoop
  <2>9. ~run.marks => last = first
    <3>1. ~(n > o.delay) => count = 0
      BY Zenon DEF Count, count
    <3> QED
      BY Zenon, <2>5, <2>7, <3>1
  <2> HIDE DEF last
  <2>10. run.osc \in NamcoOsc /\ run.osc.last_amp = last.last_amp
    BY Zenon, <2>2, <2>7, <2>8 DEF NamcoOsc
  <2>11. ~run.marks => run.deltas = Silence(n) /\ run.osc.last_amp = o.last_amp
    BY Zenon, <2>4, <2>7, <2>9, <2>10
  <2> QED
    BY Zenon, <2>7, <2>8, <2>10, <2>11 DEF RunIsMarked
<1> QED
  BY Zenon, <1>2, <1>3, <1>4

-----------------------------------------------------------------------------
(* The VRC7.                                                               *)

Vrc7Loop(n) == [turn : {0, 1}, last_amp : Nat, deltas : Deltas(n)]

Vrc7Passes(o, first, n) ==
  LET Pass(p, t) == Vrc7Pass(o, p, t)
  IN  Passes(Pass, first, o.delay, fm_period, n)

LEMMA Vrc7Fields ==
  ASSUME NEW o \in Vrc7State
  PROVE  /\ o.turn \in {0, 1} /\ o.delay \in Nat /\ o.last_amp \in Nat
         /\ fm_period \in Nat \ {0}
BY Zenon, Vrc7Assumption DEF Vrc7State, Vrc7Assumption

(* The loop of the synthesizer.                                            *)
LEMMA Vrc7Loops ==
  ASSUME NEW o \in Vrc7State, NEW n \in Nat, NEW first \in Vrc7Loop(n)
  PROVE  LET count == Count(o.delay, fm_period, n)
         IN  \E f \in [0 .. count -> Vrc7Loop(n)] :
               /\ f[0] = first
               /\ \A k \in 1 .. count :
                    f[k] = Vrc7Pass(o, f[k - 1], o.delay + (k - 1) * fm_period)
               /\ Vrc7Passes(o, first, n) = f[count]
<1> DEFINE count == Count(o.delay, fm_period, n)
           D == Vrc7Loop(n)
           at(k) == o.delay + (k - 1) * fm_period
           step == [x \in D \X (0 .. count) |-> Vrc7Pass(o, x[1], at(x[2]))]
           Eq(g) == g = [k \in 0 .. count |-> IF k = 0 THEN first
                                              ELSE Vrc7Pass(o, g[k - 1], at(k))]
<1>1. count \in Nat
  BY Zenon, Counting, Vrc7Fields
<1>2. ASSUME NEW p \in D, NEW t PROVE Vrc7Pass(o, p, t) \in D
  <2> DEFINE amp == OpllAmp(o.key_on, p.turn)
             deltas == [p.deltas EXCEPT ![t] = @ + amp - p.last_amp]
             turn == 1 - p.turn
  <2>1. p.turn \in {0, 1} /\ p.deltas \in Deltas(n) /\ p.last_amp \in Nat /\ p.last_amp \in Int
    <3>1. \A x \in Nat : x \in Int
      BY SMT
    <3> QED
      BY Zenon, <3>1 DEF Vrc7Loop
  <2>2. turn \in {0, 1} /\ amp \in Nat /\ amp \in Int
    BY SMT, <2>1 DEF OpllAmp
  <2> HIDE DEF amp
  <2>3. deltas \in Deltas(n)
    BY Zenon, <2>1, <2>2, DeltaMoved
  <2>4. Vrc7Pass(o, p, t) = [turn |-> turn, last_amp |-> amp, deltas |-> deltas]
    BY Zenon DEF Vrc7Pass, amp
  <2> HIDE DEF turn, deltas
  <2> QED
    BY SMT, <2>2, <2>3, <2>4 DEF Vrc7Loop
<1> HIDE DEF D, at, count
<1>3. ASSUME NEW d \in D, NEW k \in 0 .. count
      PROVE  step[<<d, k>>] = Vrc7Pass(o, d, at(k))
  BY Zenon
<1> HIDE DEF step
<1>4. PICK f \in [0 .. count -> D] : IsLoop(f, first, step, 0 .. count)
  <2>1. Closed(D, step, 0 .. count)
    BY Zenon, <1>2, <1>3 DEF Closed
  <2> QED
    BY Zenon, <1>1, <2>1, LoopExists DEF D
<1>5. Eq(f)
  <2>1. ASSUME NEW k \in 0 .. count
        PROVE  f[k] = IF k = 0 THEN first ELSE Vrc7Pass(o, f[k - 1], at(k))
    <3>1. f[k] = IF k = 0 THEN first ELSE step[<<f[k - 1], k>>]
      BY Zenon, <1>4 DEF IsLoop
    <3>2. k # 0 => f[k - 1] \in D
      BY Zenon, <1>1, <1>4, Indices
    <3> QED
      BY Zenon, <1>3, <3>1, <3>2
  <2> QED
    BY Zenon, <2>1
<1>6. PICK g : Eq(g) /\ Vrc7Passes(o, first, n) = g[count]
  <2>1. Eq(CHOOSE g : Eq(g))
    <3> HIDE DEF Eq
    <3> QED
      BY Zenon, <1>5
  <2>2. Vrc7Passes(o, first, n) = (CHOOSE g : Eq(g))[count]
    BY Zenon DEF Vrc7Passes, Passes, count, at
  <2> HIDE DEF Eq
  <2> QED
    BY Zenon, <2>1, <2>2
<1>7. g[0] = first /\ \A k \in 1 .. count : g[k] = Vrc7Pass(o, g[k - 1], at(k))
  BY Zenon, <1>1, <1>6, Indices
<1>8. \A k \in 0 .. count : g[k] \in D
  <2>1. first \in D
    BY DEF D
  <2>2. \A k \in 1 .. count : g[k - 1] \in D => g[k] \in D
    BY Zenon, <1>2, <1>7
  <2> QED
    BY Zenon, <1>1, <1>7, <2>1, <2>2, Stays
<1>9. g \in [0 .. count -> D]
  BY Zenon, <1>6, <1>8
<1> QED
  BY Zenon, <1>6, <1>7, <1>9 DEF D, at, count

LEMMA Vrc7Run ==
  ASSUME NEW o \in Vrc7State, NEW n \in Nat
  PROVE  /\ RunVrc7(o, n).osc \in Vrc7State /\ RunVrc7(o, n).marks = FALSE
         /\ RunVrc7(o, n).osc.delay = DelayAfter(o.delay, fm_period, n)
<1> DEFINE count == Count(o.delay, fm_period, n)
           after == DelayAfter(o.delay, fm_period, n)
           run == RunVrc7(o, n)
           first == [turn |-> o.turn, last_amp |-> o.last_amp, deltas |-> Silence(n)]
<1>1. /\ count \in Nat /\ after \in Nat /\ o.turn \in {0, 1} /\ o.last_amp \in Nat
      /\ Silence(n) \in Deltas(n)
  <2>1. \A x \in Nat : x \in Int
    BY SMT
  <2> QED
    BY Zenon, <2>1, Vrc7Fields, Counting, Firsts
<1>2. first \in Vrc7Loop(n)
  BY Zenon, <1>1 DEF Vrc7Loop
<1> HIDE DEF first, count, after
<1>3. PICK f \in [0 .. count -> Vrc7Loop(n)] :
        /\ f[0] = first
        /\ \A k \in 1 .. count : f[k] = Vrc7Pass(o, f[k - 1], o.delay + (k - 1) * fm_period)
        /\ Vrc7Passes(o, first, n) = f[count]
  BY Zenon, <1>2, Vrc7Loops DEF count
<1> DEFINE last == f[count]
<1>4. last \in Vrc7Loop(n)
  BY Zenon, <1>1, <1>3, Indices
<1>5. /\ run.osc = [o EXCEPT !.turn = last.turn, !.last_amp = last.last_amp, !.delay = after]
      /\ run.marks = FALSE
  <2>1. LET end == Vrc7Passes(o, first, n)
        IN  /\ run.osc = [o EXCEPT !.turn = end.turn, !.last_amp = end.last_amp, !.delay = after]
            /\ run.marks = FALSE
    BY Zenon DEF RunVrc7, Vrc7Passes, Passes, first, after
  <2> QED
    BY Zenon, <1>3, <2>1
<1>6. last.turn \in {0, 1} /\ last.last_amp \in Nat
  BY Zenon, <1>4 DEF Vrc7Loop
<1> HIDE DEF last
<1>7. run.osc \in Vrc7State /\ run.osc.delay = after
  BY Zenon, <1>1, <1>5, <1>6 DEF Vrc7State
<1> QED
  BY Zenon, <1>5, <1>7 DEF after

-----------------------------------------------------------------------------
(* A state that was saved and loaded.  The run of it goes through the same *)
(* transitions; its deltas differ.                                         *)

LEMMA LoadedIs ==
  ASSUME NEW o \in Vrc6SquareOsc \cup SawOsc \cup Fme7Osc
  PROVE  Loaded(o) = [o EXCEPT !.last_amp = 0]
<1>1. ASSUME o.delay % delay_range = o.delay,
             (IF o.kind = "vrc6_saw" /\ o.phase = 0 THEN 1 ELSE o.phase) = o.phase,
             [o EXCEPT !.delay = o.delay, !.last_amp = 0, !.phase = o.phase]
               = [o EXCEPT !.last_amp = 0]
      PROVE  Loaded(o) = [o EXCEPT !.last_amp = 0]
  BY Zenon, <1>1 DEF Loaded
<1>2. CASE o \in Vrc6SquareOsc
  <2>1. [o EXCEPT !.delay = o.delay, !.last_amp = 0, !.phase = o.phase] = [o EXCEPT !.last_amp = 0]
    BY Zenon, <1>2 DEF Vrc6SquareOsc
  <2>2. o.kind = "vrc6_square"
    BY Zenon, <1>2 DEF Vrc6SquareOsc
  <2>3. (IF o.kind = "vrc6_saw" /\ o.phase = 0 THEN 1 ELSE o.phase) = o.phase
    BY Zenon, <2>2
  <2> QED
    BY Zenon, <1>1, <1>2, <2>1, <2>3, Vrc6Fields
<1>3. CASE o \in SawOsc
  <2>1. [o EXCEPT !.delay = o.delay, !.last_amp = 0, !.phase = o.phase] = [o EXCEPT !.last_amp = 0]
    BY Zenon, <1>3 DEF SawOsc
  <2>2. o.phase # 0
    BY SMT, <1>3, SawFields
  <2>3. (IF o.kind = "vrc6_saw" /\ o.phase = 0 THEN 1 ELSE o.phase) = o.phase
    BY Zenon, <2>2
  <2> QED
    BY Zenon, <1>1, <1>3, <2>1, <2>3, SawFields
<1>4. CASE o \in Fme7Osc
  <2>1. [o EXCEPT !.delay = o.delay, !.last_amp = 0, !.phase = o.phase] = [o EXCEPT !.last_amp = 0]
    BY Zenon, <1>4 DEF Fme7Osc
  <2>2. o.kind = "fme7"
    BY Zenon, <1>4 DEF Fme7Osc
  <2>3. (IF o.kind = "vrc6_saw" /\ o.phase = 0 THEN 1 ELSE o.phase) = o.phase
    BY Zenon, <2>2
  <2> QED
    BY Zenon, <1>1, <1>4, <2>1, <2>3, Fme7Fields
<1> QED
  BY Zenon, <1>2, <1>3, <1>4

LEMMA Vrc6PlaysOn ==
  ASSUME osc \in Vrc6SquareOsc, NEW n \in Nat
  PROVE  PlaysOn(RunVrc6Square(Loaded(osc), n), RunVrc6Square(osc, n), n)
<1> DEFINE l == [osc EXCEPT !.last_amp = 0]
           period == osc.period + 1
           count == Count(osc.delay, period, n)
<1>1. l \in Vrc6SquareOsc /\ Loaded(osc) = l
  <2>1. 0 \in Nat
    BY SMT
  <2>2. l \in Vrc6SquareOsc
    BY Zenon, <2>1 DEF Vrc6SquareOsc
  <2> QED
    BY Zenon, <2>2, LoadedIs
<1>2. /\ l.output = osc.output /\ l.delay = osc.delay /\ l.phase = osc.phase
      /\ l.period = osc.period /\ l.enabled = osc.enabled /\ l.volume = osc.volume
      /\ l.gate = osc.gate /\ l.duty = osc.duty /\ osc.kind = "vrc6_square"
  BY Zenon DEF Vrc6SquareOsc
<1>3. [l EXCEPT !.last_amp = osc.last_amp] = osc
  BY Zenon DEF Vrc6SquareOsc
<1>4. \A x, y, z : [l EXCEPT !.phase = x, !.last_amp = y, !.delay = z]
                     = [osc EXCEPT !.phase = x, !.last_amp = y, !.delay = z]
  BY Zenon DEF Vrc6SquareOsc
<1>5. \A o \in Vrc6SquareOsc : [o EXCEPT !.last_amp = o.last_amp] = o
  BY Zenon DEF Vrc6SquareOsc
<1> HIDE DEF l
<1>6. SUFFICES LET loaded == RunVrc6Square(l, n).osc
                   on == RunVrc6Square(osc, n).osc
               IN  \/ loaded = on
                   \/ ~osc.output /\ loaded = l /\ on = osc
  <2>1. RunVrc6Square(osc, n).osc \in Vrc6SquareOsc
    BY Zenon, Vrc6Run
  <2>2. osc.kind # "vrc7"
    BY Zenon, <1>2
  <2> QED
    BY Zenon, <1>1, <1>3, <1>5, <1>6, <2>1, <2>2 DEF PlaysOn
<1>7. CASE ~osc.output
  BY Zenon, <1>2, <1>7 DEF RunVrc6Square, Unheard
<1>8. Vrc6Amp(l) = Vrc6Amp(osc) /\ (Vrc6Playing(l) <=> Vrc6Playing(osc))
  BY Zenon, <1>2 DEF Vrc6Amp, Vrc6Volume, Vrc6Playing
<1>9. CASE osc.output /\ ~Vrc6Playing(osc)
  <2> DEFINE amp == Vrc6Amp(osc)
  <2>1. RunVrc6Square(l, n).osc = [l EXCEPT !.delay = 0, !.last_amp = amp]
        /\ RunVrc6Square(osc, n).osc = [osc EXCEPT !.delay = 0, !.last_amp = amp]
    BY Zenon, <1>2, <1>8, <1>9 DEF RunVrc6Square
  <2> HIDE DEF amp
  <2>2. [l EXCEPT !.delay = 0, !.last_amp = amp] = [osc EXCEPT !.delay = 0, !.last_amp = amp]
    BY Zenon DEF l, Vrc6SquareOsc
  <2> QED
    BY Zenon, <2>1, <2>2
<1>10. CASE osc.output /\ Vrc6Playing(osc)
  <2>1. PICK f : Vrc6Trace(osc, n, f)
    BY Zenon, <1>10, Vrc6Heard
  <2>2. PICK g : Vrc6Trace(l, n, g)
    BY Zenon, <1>1, <1>2, <1>8, <1>10, Vrc6Heard
  <2> DEFINE S == {k \in 0 .. count : f[k].phase = g[k].phase /\ f[k].last_amp = g[k].last_amp}
  <2>3. /\ count \in Nat
        /\ f[0].phase = osc.phase /\ f[0].last_amp = Vrc6Amp(osc)
        /\ \A k \in 1 .. count : \E t : f[k] = Vrc6Pass(osc, f[k - 1], t)
        /\ RunVrc6Square(osc, n).osc
             = [osc EXCEPT !.phase = f[count].phase, !.last_amp = f[count].last_amp,
                           !.delay = Vrc6Delay(osc, n)]
    BY Zenon, <2>1, Vrc6Numbers DEF Vrc6Trace
  <2>4. /\ g[0].phase = l.phase /\ g[0].last_amp = Vrc6Amp(l)
        /\ \A k \in 1 .. count : \E t : g[k] = Vrc6Pass(l, g[k - 1], t)
        /\ RunVrc6Square(l, n).osc
             = [l EXCEPT !.phase = g[count].phase, !.last_amp = g[count].last_amp,
                         !.delay = Vrc6Delay(osc, n)]
    <3>1. Count(l.delay, l.period + 1, n) = count /\ Vrc6Delay(l, n) = Vrc6Delay(osc, n)
      BY Zenon, <1>2 DEF Vrc6Delay
    <3> HIDE DEF count
    <3> QED
      BY Zenon, <2>2, <3>1 DEF Vrc6Trace
  <2> HIDE DEF count
  <2>6. 0 \in S
    BY Zenon, <1>2, <1>8, <2>3, <2>4, Indices
  <2>7. ASSUME NEW k \in 1 .. count, k - 1 \in S PROVE k \in S
    <3>1. f[k - 1].phase = g[k - 1].phase /\ f[k - 1].last_amp = g[k - 1].last_amp
      BY Zenon, <2>7
    <3>2. PICK t : f[k] = Vrc6Pass(osc, f[k - 1], t)
      BY Zenon, <2>3
    <3>3. PICK u : g[k] = Vrc6Pass(l, g[k - 1], u)
      BY Zenon, <2>4
    <3>4. k \in 0 .. count
      BY Zenon, <2>3, Indices
    <3>5. /\ Vrc6Pass(osc, f[k - 1], t).phase = Vrc6Pass(l, g[k - 1], u).phase
          /\ Vrc6Pass(osc, f[k - 1], t).last_amp = Vrc6Pass(l, g[k - 1], u).last_amp
      BY Zenon, <1>2, <3>1 DEF Vrc6Pass
    <3>6. f[k].phase = g[k].phase /\ f[k].last_amp = g[k].last_amp
      BY Zenon, <3>2, <3>3, <3>5
    <3> QED
      BY Zenon, <3>4, <3>6
  <2>8. count \in S
    <3> HIDE DEF S
    <3> QED
      BY Zenon, <2>3, <2>6, <2>7, Along, Indices
  <2> QED
    BY Zenon, <1>4, <2>3, <2>4, <2>8
<1> QED
  BY Zenon, <1>7, <1>9, <1>10

LEMMA Fme7PlaysOn ==
  ASSUME osc \in Fme7Osc, NEW n \in Nat
  PROVE  PlaysOn(RunFme7(Loaded(osc), n), RunFme7(osc, n), n)
<1> DEFINE l == [osc EXCEPT !.last_amp = 0]
           count == Count(osc.delay, Fme7Period(osc), n)
<1>1. l \in Fme7Osc /\ Loaded(osc) = l
  <2>1. 0 \in Nat
    BY SMT
  <2>2. l \in Fme7Osc
    BY Zenon, <2>1 DEF Fme7Osc
  <2> QED
    BY Zenon, <2>2, LoadedIs
<1>2. /\ l.output = osc.output /\ l.delay = osc.delay /\ l.phase = osc.phase
      /\ l.period = osc.period /\ l.tone_off = osc.tone_off /\ l.volume = osc.volume
      /\ l.envelope = osc.envelope /\ osc.kind = "fme7"
  BY Zenon DEF Fme7Osc
<1>3. [l EXCEPT !.last_amp = osc.last_amp] = osc
  BY Zenon DEF Fme7Osc
<1>4. \A x, y, z : [l EXCEPT !.phase = x, !.last_amp = y, !.delay = z]
                     = [osc EXCEPT !.phase = x, !.last_amp = y, !.delay = z]
  BY Zenon DEF Fme7Osc
<1>5. \A o \in Fme7Osc : [o EXCEPT !.last_amp = o.last_amp] = o
  BY Zenon DEF Fme7Osc
<1> HIDE DEF l
<1>6. SUFFICES LET loaded == RunFme7(l, n).osc
                   on == RunFme7(osc, n).osc
               IN  \/ loaded = on
                   \/ ~osc.output /\ loaded = l /\ on = osc
  <2>1. RunFme7(osc, n).osc \in Fme7Osc
    BY Zenon, Fme7Run
  <2>2. osc.kind # "vrc7"
    BY Zenon, <1>2
  <2> QED
    BY Zenon, <1>1, <1>3, <1>5, <1>6, <2>1, <2>2 DEF PlaysOn
<1>7. CASE ~osc.output
  BY Zenon, <1>2, <1>7 DEF RunFme7, Unheard
<1>8. Fme7Volume(l) = Fme7Volume(osc) /\ Fme7Period(l) = Fme7Period(osc)
  BY Zenon, <1>2 DEF Fme7Volume, Fme7Period
<1>9. CASE osc.output
  <2>1. PICK f : Fme7Trace(osc, n, f)
    BY Zenon, <1>9, Fme7Heard
  <2>2. PICK g : Fme7Trace(l, n, g)
    BY Zenon, <1>1, <1>2, <1>9, Fme7Heard
  <2> DEFINE S == {k \in 0 .. count : f[k].phase = g[k].phase}
  <2>3. /\ count \in Nat /\ f[0].phase = osc.phase
        /\ \A k \in 1 .. count : \E t : f[k] = Fme7Pass(osc, f[k - 1], t)
        /\ RunFme7(osc, n).osc
             = [osc EXCEPT !.phase = f[count].phase, !.last_amp = f[count].phase * Fme7Volume(osc),
                           !.delay = Fme7Delay(osc, n)]
    BY Zenon, <2>1, Fme7Fields, Counting DEF Fme7Trace
  <2>4. /\ g[0].phase = l.phase
        /\ \A k \in 1 .. count : \E t : g[k] = Fme7Pass(l, g[k - 1], t)
        /\ RunFme7(l, n).osc
             = [l EXCEPT !.phase = g[count].phase, !.last_amp = g[count].phase * Fme7Volume(osc),
                         !.delay = Fme7Delay(osc, n)]
    <3>1. Count(l.delay, Fme7Period(l), n) = count /\ Fme7Delay(l, n) = Fme7Delay(osc, n)
      BY Zenon, <1>2, <1>8 DEF Fme7Delay
    <3> HIDE DEF count
    <3> QED
      BY Zenon, <1>8, <2>2, <3>1 DEF Fme7Trace
  <2> HIDE DEF count
  <2>5. 0 \in S
    BY Zenon, <1>2, <2>3, <2>4, Indices
  <2>6. ASSUME NEW k \in 1 .. count, k - 1 \in S PROVE k \in S
    <3>1. f[k - 1].phase = g[k - 1].phase
      BY Zenon, <2>6
    <3>2. PICK t : f[k] = Fme7Pass(osc, f[k - 1], t)
      BY Zenon, <2>3
    <3>3. PICK u : g[k] = Fme7Pass(l, g[k - 1], u)
      BY Zenon, <2>4
    <3>4. k \in 0 .. count
      BY Zenon, <2>3, Indices
    <3>5. Fme7Pass(osc, f[k - 1], t).phase = Fme7Pass(l, g[k - 1], u).phase
      BY Zenon, <3>1 DEF Fme7Pass
    <3>6. f[k].phase = g[k].phase
      BY Zenon, <3>2, <3>3, <3>5
    <3> QED
      BY Zenon, <3>4, <3>6
  <2>7. count \in S
    <3> HIDE DEF S
    <3> QED
      BY Zenon, <2>3, <2>5, <2>6, Along, Indices
  <2> QED
    BY Zenon, <1>4, <2>3, <2>4, <2>7
<1> QED
  BY Zenon, <1>7, <1>9

LEMMA SawPlaysOn ==
  ASSUME osc \in SawOsc, NEW n \in Nat
  PROVE  PlaysOn(RunSaw(Loaded(osc), n), RunSaw(osc, n), n)
<1> DEFINE l == [osc EXCEPT !.last_amp = 0]
           count == Count(osc.delay, SawPeriod(osc), n)
<1>1. l \in SawOsc /\ Loaded(osc) = l
  <2>1. 0 \in Nat
    BY SMT
  <2>2. l \in SawOsc
    BY Zenon, <2>1 DEF SawOsc
  <2> QED
    BY Zenon, <2>2, LoadedIs
<1>2. /\ l.output = osc.output /\ l.delay = osc.delay /\ l.phase = osc.phase
      /\ l.period = osc.period /\ l.enabled = osc.enabled /\ l.amp = osc.amp
      /\ l.rate = osc.rate /\ osc.kind = "vrc6_saw"
  BY Zenon DEF SawOsc
<1>3. [l EXCEPT !.last_amp = osc.last_amp] = osc
  BY Zenon DEF SawOsc
<1>4. \A x, y, z : [l EXCEPT !.delay = x, !.last_amp = y] = [osc EXCEPT !.delay = x, !.last_amp = y]
  BY Zenon DEF SawOsc
<1>5. \A o \in SawOsc : [o EXCEPT !.last_amp = o.last_amp] = o
  BY Zenon DEF SawOsc
<1> HIDE DEF l
<1>7. osc.kind # "vrc7"
  BY Zenon, <1>2
<1>8. CASE ~osc.output
  <2>1. RunSaw(l, n).osc = l /\ RunSaw(osc, n).osc = osc
    BY Zenon, <1>2, <1>8 DEF RunSaw, Unheard
  <2> QED
    BY Zenon, <1>1, <1>3, <1>7, <1>8, <2>1 DEF PlaysOn
<1>9. CASE osc.output /\ SawStill(osc)
  <2> DEFINE level == osc.amp \div amp_step
  <2>1. RunSaw(l, n).osc = [l EXCEPT !.delay = 0, !.last_amp = level]
        /\ RunSaw(osc, n).osc = [osc EXCEPT !.delay = 0, !.last_amp = level]
    BY Zenon, <1>2, <1>9 DEF RunSaw, SawStill
  <2>2. RunSaw(l, n).osc = RunSaw(osc, n).osc
    BY Zenon, <1>4, <2>1
  <2>3. RunSaw(osc, n).osc \in SawOsc
    BY Zenon, SawRun
  <2> QED
    BY Zenon, <1>1, <1>5, <1>7, <2>2, <2>3 DEF PlaysOn
<1>10. CASE osc.output /\ ~SawStill(osc)
  <2>1. PICK f : SawTrace(osc, n, f)
    BY Zenon, <1>10, SawHeard
  <2>2. PICK g : SawTrace(l, n, g)
    BY Zenon, <1>1, <1>2, <1>10, SawHeard DEF SawStill
  <2> DEFINE S == {k \in 0 .. count : /\ f[k].phase = g[k].phase /\ f[k].amp = g[k].amp
                                      /\ k # 0 => f[k].last_amp = g[k].last_amp}
  <2>3. /\ count \in Nat /\ f[0].phase = osc.phase /\ f[0].amp = osc.amp
        /\ \A k \in 1 .. count : \E t : f[k] = SawPass(osc, f[k - 1], t)
        /\ RunSaw(osc, n).osc
             = [osc EXCEPT !.phase = f[count].phase, !.amp = f[count].amp,
                           !.last_amp = f[count].last_amp, !.delay = SawDelay(osc, n)]
    BY Zenon, <2>1, SawFields, Counting DEF SawTrace
  <2>4. /\ g[0].phase = l.phase /\ g[0].amp = l.amp
        /\ \A k \in 1 .. count : \E t : g[k] = SawPass(l, g[k - 1], t)
        /\ RunSaw(l, n).osc
             = [l EXCEPT !.phase = g[count].phase, !.amp = g[count].amp,
                         !.last_amp = g[count].last_amp, !.delay = SawDelay(osc, n)]
    <3>1. Count(l.delay, SawPeriod(l), n) = count /\ SawDelay(l, n) = SawDelay(osc, n)
      BY Zenon, <1>2 DEF SawDelay, SawPeriod
    <3> HIDE DEF count
    <3> QED
      BY Zenon, <2>2, <3>1 DEF SawTrace
  <2>5. osc.output /\ n > osc.delay => count # 0
    <3>1. n > osc.delay => count >= 1
      BY Zenon, SawFields, Counting
    <3> HIDE DEF count
    <3> QED
      BY SMT, <3>1
  <2> HIDE DEF count
  <2>6. 0 \in S
    BY Zenon, <1>2, <2>3, <2>4, Indices
  <2>7. ASSUME NEW k \in 1 .. count, k - 1 \in S PROVE k \in S
    <3>1. f[k - 1].phase = g[k - 1].phase /\ f[k - 1].amp = g[k - 1].amp
      BY Zenon, <2>7
    <3>2. PICK t : f[k] = SawPass(osc, f[k - 1], t)
      BY Zenon, <2>3
    <3>3. PICK u : g[k] = SawPass(l, g[k - 1], u)
      BY Zenon, <2>4
    <3>4. k \in 0 .. count
      BY Zenon, <2>3, Indices
    <3>5. /\ SawPass(osc, f[k - 1], t).phase = SawPass(l, g[k - 1], u).phase
          /\ SawPass(osc, f[k - 1], t).amp = SawPass(l, g[k - 1], u).amp
          /\ SawPass(osc, f[k - 1], t).last_amp = SawPass(l, g[k - 1], u).last_amp
      BY Zenon, <1>2, <3>1 DEF SawPass
    <3>6. f[k].phase = g[k].phase /\ f[k].amp = g[k].amp /\ f[k].last_amp = g[k].last_amp
      BY Zenon, <3>2, <3>3, <3>5
    <3> QED
      BY Zenon, <3>4, <3>6
  <2>8. count \in S
    <3> HIDE DEF S
    <3> QED
      BY Zenon, <2>3, <2>6, <2>7, Along, Indices
  <2> DEFINE x == f[count].phase
             a == f[count].amp
             y == f[count].last_amp
             v == g[count].last_amp
             z == SawDelay(osc, n)
  <2>9. /\ RunSaw(osc, n).osc = [osc EXCEPT !.phase = x, !.amp = a, !.last_amp = y, !.delay = z]
        /\ RunSaw(l, n).osc = [l EXCEPT !.phase = x, !.amp = a, !.last_amp = v, !.delay = z]
        /\ count # 0 => y = v
    BY Zenon, <2>3, <2>4, <2>8
  <2> HIDE DEF x, a, y, v, z
  <2>10. /\ [RunSaw(l, n).osc EXCEPT !.last_amp = RunSaw(osc, n).osc.last_amp] = RunSaw(osc, n).osc
         /\ RunSaw(osc, n).osc.last_amp = y /\ RunSaw(l, n).osc.last_amp = v
    <3> DEFINE on == [osc EXCEPT !.phase = x, !.amp = a, !.last_amp = y, !.delay = z]
               loaded == [l EXCEPT !.phase = x, !.amp = a, !.last_amp = v, !.delay = z]
    <3>1. /\ [loaded EXCEPT !.last_amp = on.last_amp] = on
          /\ on.last_amp = y /\ loaded.last_amp = v
      BY Zenon DEF SawOsc, l
    <3> QED
      BY Zenon, <2>9, <3>1
  <2> QED
    BY Zenon, <1>1, <1>7, <2>5, <2>9, <2>10 DEF PlaysOn
<1> QED
  BY Zenon, <1>8, <1>9, <1>10

-----------------------------------------------------------------------------
(* The squares of the MMC5, whose run is cut at the frame events.          *)

LEMMA LengthClocked ==
  ASSUME NEW o, o.length_counter \in Nat
  PROVE  \E length \in Nat : /\ clock_length(o) = [o EXCEPT !.length_counter = length]
                                \/ clock_length(o) = o
<1>1. CASE o.length_counter # 0 /\ ~o.control.halt
  <2>1. o.length_counter - 1 \in Nat
    BY SMT, <1>1
  <2>2. clock_length(o) = [o EXCEPT !.length_counter = o.length_counter - 1]
    BY Zenon, <1>1 DEF clock_length
  <2> QED
    BY Zenon, <2>1, <2>2
<1>2. CASE ~(o.length_counter # 0 /\ ~o.control.halt)
  <2>1. clock_length(o) = o
    BY Zenon, <1>2 DEF clock_length
  <2> QED
    BY Zenon, <2>1
<1> QED
  BY Zenon, <1>1, <1>2

LEMMA EnvelopeClocked ==
  ASSUME NEW o, o.control \in Control, o.envelope \in 0 .. envelope_top, o.env_delay \in Nat
  PROVE  \E envelope \in 0 .. envelope_top, delay \in Nat :
           \/ clock_envelope(o)
                = [o EXCEPT !.written3 = FALSE, !.env_delay = delay, !.envelope = envelope]
           \/ clock_envelope(o) = [o EXCEPT !.env_delay = delay]
           \/ clock_envelope(o) = [o EXCEPT !.env_delay = delay, !.envelope = envelope]
<1>1. /\ o.control.low \in Nat /\ envelope_top \in 0 .. envelope_top /\ 0 \in 0 .. envelope_top
      /\ o.env_delay > 0 => o.env_delay - 1 \in Nat
      /\ o.envelope # 0 => o.envelope - 1 \in 0 .. envelope_top
  BY SMT, OscAssumption DEF OscAssumption, Control
<1>2. CASE o.written3
  <2>1. clock_envelope(o)
          = [o EXCEPT !.written3 = FALSE, !.env_delay = o.control.low, !.envelope = envelope_top]
    BY Zenon, <1>2 DEF clock_envelope
  <2> QED
    BY Zenon, <1>1, <2>1
<1>3. CASE ~o.written3 /\ o.env_delay > 0
  <2>1. clock_envelope(o) = [o EXCEPT !.env_delay = o.env_delay - 1]
    BY Zenon, <1>3 DEF clock_envelope
  <2> QED
    BY Zenon, <1>1, <1>3, <2>1
<1>4. CASE ~o.written3 /\ ~(o.env_delay > 0)
  <2> DEFINE envelope == IF o.envelope # 0 THEN o.envelope - 1
                         ELSE IF o.control.halt THEN envelope_top ELSE 0
  <2>1. clock_envelope(o) = [o EXCEPT !.env_delay = o.control.low, !.envelope = envelope]
    BY Zenon, <1>4 DEF clock_envelope
  <2>2. envelope \in 0 .. envelope_top
    BY Zenon, <1>1
  <2> QED
    BY Zenon, <1>1, <2>1, <2>2
<1> QED
  BY Zenon, <1>2, <1>3, <1>4

(* A frame event of the MMC5: it leaves the square's timing alone.         *)
LEMMA Mmc5Clocked ==
  ASSUME NEW o \in Mmc5SquareOsc
  PROVE  LET clocked == clock_envelope(clock_length(o))
         IN  /\ clocked \in Mmc5SquareOsc
             /\ clocked.phase = o.phase /\ clocked.delay = o.delay /\ clocked.period = o.period
<1> DEFINE l == clock_length(o)
           e == clock_envelope(l)
<1>1. /\ l \in Mmc5SquareOsc
      /\ l.phase = o.phase /\ l.delay = o.delay /\ l.period = o.period
  <2>1. o.length_counter \in Nat
    BY Zenon DEF Mmc5SquareOsc
  <2>2. PICK length \in Nat : l = [o EXCEPT !.length_counter = length] \/ l = o
    BY Zenon, <2>1, LengthClocked
  <2> HIDE DEF l
  <2>3. LET x == [o EXCEPT !.length_counter = length]
        IN  x \in Mmc5SquareOsc /\ x.phase = o.phase /\ x.delay = o.delay /\ x.period = o.period
    BY Zenon DEF Mmc5SquareOsc
  <2> QED
    BY Zenon, <2>2, <2>3
<1>2. /\ e \in Mmc5SquareOsc
      /\ e.phase = l.phase /\ e.delay = l.delay /\ e.period = l.period
  <2> HIDE DEF l
  <2>1. l.control \in Control /\ l.envelope \in 0 .. envelope_top /\ l.env_delay \in Nat
    BY Zenon, <1>1 DEF Mmc5SquareOsc
  <2>2. PICK envelope \in 0 .. envelope_top, delay \in Nat :
           \/ e = [l EXCEPT !.written3 = FALSE, !.env_delay = delay, !.envelope = envelope]
           \/ e = [l EXCEPT !.env_delay = delay]
           \/ e = [l EXCEPT !.env_delay = delay, !.envelope = envelope]
    BY Zenon, <2>1, EnvelopeClocked
  <2> HIDE DEF e
  <2> DEFINE ok(x) == /\ x \in Mmc5SquareOsc
                      /\ x.phase = l.phase /\ x.delay = l.delay /\ x.period = l.period
  <2>3. ok([l EXCEPT !.written3 = FALSE, !.env_delay = delay, !.envelope = envelope])
    BY Zenon, <1>1 DEF Mmc5SquareOsc
  <2>4. ok([l EXCEPT !.env_delay = delay])
    BY Zenon, <1>1 DEF Mmc5SquareOsc
  <2>5. ok([l EXCEPT !.env_delay = delay, !.envelope = envelope])
    BY Zenon, <1>1 DEF Mmc5SquareOsc
  <2> QED
    BY Zenon, <2>2, <2>3, <2>4, <2>5
<1> QED
  BY Zenon, <1>1, <1>2

(* A run that has come to some clock.                                      *)
Stretch(n) == [osc : Mmc5SquareOsc, at : Nat, marks : BOOLEAN, deltas : Deltas(n)]

Reached(n, period) ==
  {s \in Stretch(n) : (~s.marks => s.deltas = Silence(n)) /\ s.osc.period = period}

(* The square of r is where that of s has come to at the clock t.          *)
Moves(s, t, r) ==
  /\ r.at = t
  /\ r.osc.phase = PulsePhase(s.osc, t - s.at) /\ r.osc.delay = PulseDelay(s.osc, t - s.at)

LEMMA RunsTo ==
  ASSUME NEW n \in Nat, NEW period \in Nat, NEW s \in Reached(n, period), NEW t \in Nat, s.at <= t
  PROVE  RunTo(s, t) \in Reached(n, period) /\ Moves(s, t, RunTo(s, t))
<1> DEFINE m == t - s.at
           run == RunSquare(s.osc, m)
<1>0. /\ s.osc \in Mmc5SquareOsc /\ s.at \in Nat /\ s.marks \in BOOLEAN
      /\ s.deltas \in Deltas(n) /\ (~s.marks => s.deltas = Silence(n)) /\ s.osc.period = period
  BY Zenon DEF Reached, Stretch
<1>1. m \in Nat
  BY SMT, <1>0
<1>2. s.osc \in Mmc5SquareOsc /\ s.osc \in Pulse
  BY Zenon, <1>0 DEF Pulse
<1>3. PulseRan(s.osc, m, run)
  BY Zenon, <1>1, <1>2, PulseRun
<1>4. PICK amp \in Nat :
        /\ run.osc = [s.osc EXCEPT !.phase = PulsePhase(s.osc, m), !.last_amp = amp,
                                   !.delay = PulseDelay(s.osc, m)]
        /\ ~run.marks => run.deltas = Silence(m)
  BY Zenon, <1>3 DEF PulseRan
<1>5. run.deltas \in Deltas(m) /\ run.marks \in BOOLEAN
  BY Zenon, <1>3 DEF PulseRan
<1>6. /\ PulsePhase(s.osc, m) \in 0 .. phase_range - 1 /\ PulseDelay(s.osc, m) \in Nat
  <2>1. /\ s.osc.phase \in 0 .. phase_range - 1
        /\ Count(s.osc.delay, timer_period(s.osc), m) \in Nat
        /\ PulseDelay(s.osc, m) \in Nat
    BY Zenon, <1>1, <1>2, PulseFields, Counting DEF PulseDelay
  <2>2. \A c \in Nat : (s.osc.phase + c) % phase_range \in 0 .. phase_range - 1
    BY SMT, <2>1 DEF phase_range
  <2> QED
    BY Zenon, <2>1, <2>2 DEF PulsePhase
<1> DEFINE phase == PulsePhase(s.osc, m)
           delay == PulseDelay(s.osc, m)
           moved == [s.osc EXCEPT !.phase = phase, !.last_amp = amp, !.delay = delay]
<1>7. /\ moved \in Mmc5SquareOsc /\ moved.phase = phase /\ moved.delay = delay
      /\ moved.period = s.osc.period
  <2>1. phase \in 0 .. phase_range - 1 /\ delay \in Nat
    BY Zenon, <1>6
  <2> HIDE DEF phase, delay
  <2> QED
    BY Zenon, <1>2, <2>1 DEF Mmc5SquareOsc
<1>8. /\ RunTo(s, t).osc = run.osc /\ RunTo(s, t).at = t
      /\ RunTo(s, t).marks = (s.marks \/ run.marks)
      /\ RunTo(s, t).deltas
           = [u \in DOMAIN s.deltas |->
                s.deltas[u] + IF u \in s.at .. t THEN run.deltas[u - s.at] ELSE 0]
  BY Zenon DEF RunTo, Joined
<1> HIDE DEF run
<1>9. RunTo(s, t).deltas \in Deltas(n)
  <2>1. ASSUME NEW u \in 0 .. n
        PROVE  s.deltas[u] + (IF u \in s.at .. t THEN run.deltas[u - s.at] ELSE 0) \in Int
    <3>1. u \in s.at .. t => u - s.at \in 0 .. m
      BY SMT, <1>0
    <3> HIDE DEF m
    <3>2. (IF u \in s.at .. t THEN run.deltas[u - s.at] ELSE 0) \in Int
      <4>1. 0 \in Int
        BY SMT
      <4> QED
        BY Zenon, <1>5, <3>1, <4>1 DEF Deltas
    <3>3. s.deltas[u] \in Int
      BY Zenon, <1>0 DEF Deltas
    <3> QED
      BY SMT, <3>2, <3>3
  <2>2. DOMAIN s.deltas = 0 .. n
    BY Zenon, <1>0 DEF Deltas
  <2> QED
    BY Zenon, <1>8, <2>1, <2>2 DEF Deltas
<1>10. ASSUME ~RunTo(s, t).marks PROVE RunTo(s, t).deltas = Silence(n)
  <2>1. s.deltas = Silence(n) /\ run.deltas = Silence(m)
    BY Zenon, <1>0, <1>4, <1>8, <1>10
  <2>2. ASSUME NEW u \in 0 .. n
        PROVE  s.deltas[u] + (IF u \in s.at .. t THEN run.deltas[u - s.at] ELSE 0) = 0
    <3>1. u \in s.at .. t => u - s.at \in 0 .. m
      BY SMT, <1>0
    <3> HIDE DEF m
    <3>2. (IF u \in s.at .. t THEN run.deltas[u - s.at] ELSE 0) = 0
      BY Zenon, <2>1, <3>1 DEF Silence
    <3>3. s.deltas[u] = 0 /\ 0 + 0 = 0
      <4>1. s.deltas[u] = 0
        BY Zenon, <2>1 DEF Silence
      <4> QED
        BY SMT, <4>1
    <3> QED
      BY Zenon, <3>2, <3>3
  <2>3. DOMAIN s.deltas = 0 .. n
    BY Zenon, <1>0 DEF Deltas
  <2> QED
    BY Zenon, <1>8, <2>2, <2>3 DEF Silence
<1>11. RunTo(s, t).marks \in BOOLEAN
  BY Zenon, <1>0, <1>5, <1>8
<1>12. RunTo(s, t).osc = moved
  BY Zenon, <1>4, <1>8
<1> HIDE DEF moved
<1> QED
  <2>1. RunTo(s, t) \in Stretch(n)
    <3> DEFINE o == RunTo(s, t).osc
               marks == RunTo(s, t).marks
               deltas == RunTo(s, t).deltas
    <3>1. RunTo(s, t) = [osc |-> o, at |-> t, marks |-> marks, deltas |-> deltas]
      BY Zenon DEF RunTo, Joined
    <3>2. o \in Mmc5SquareOsc /\ marks \in BOOLEAN /\ deltas \in Deltas(n)
      BY Zenon, <1>7, <1>9, <1>11, <1>12
    <3> HIDE DEF o, marks, deltas
    <3> QED
      BY SMT, <3>1, <3>2 DEF Stretch
  <2>2. RunTo(s, t) \in Reached(n, period)
    BY Zenon, <1>0, <1>7, <1>10, <1>12, <2>1 DEF Reached
  <2>3. Moves(s, t, RunTo(s, t))
    BY Zenon, <1>7, <1>8, <1>12 DEF Moves
  <2> QED
    BY Zenon, <2>2, <2>3

Mmc5Events(o, n) == Count(o.frame_delay, mmc5_frame_period, n)
Mmc5At(o, k) == IF k = 0 THEN 0 ELSE o.frame_delay + (k - 1) * mmc5_frame_period
Mmc5Event(s, t) == [RunTo(s, t) EXCEPT !.osc = clock_envelope(clock_length(@))]

LEMMA EventTimes ==
  ASSUME NEW o \in Mmc5SquareOsc, NEW n \in Nat
  PROVE  /\ Mmc5Events(o, n) \in Nat
         /\ \A k \in 0 .. Mmc5Events(o, n) : Mmc5At(o, k) \in Nat /\ Mmc5At(o, k) <= n
         /\ \A k \in 1 .. Mmc5Events(o, n) : Mmc5At(o, k - 1) <= Mmc5At(o, k)
<1> DEFINE events == Mmc5Events(o, n)
           d == o.frame_delay
           p == mmc5_frame_period
<1>1. d \in Nat /\ p \in Nat \ {0}
  <2>1. p \in Nat \ {0} /\ d \in 0 .. mmc5_frame_period
    BY Zenon, Mmc5Assumption DEF Mmc5Assumption, Mmc5SquareOsc
  <2> QED
    BY SMT, <2>1
<1> HIDE DEF d, p
<1>2. /\ events \in Nat
      /\ n <= d => events = 0
      /\ n > d => d + events * p - n < p
  <2>1. events = Count(d, p, n) /\ DelayAfter(d, p, n) = d + events * p - n
    BY Zenon DEF Mmc5Events, DelayAfter, d, p
  <2> QED
    BY Zenon, <1>1, <2>1, Counting
<1> HIDE DEF events
<1>3. ASSUME NEW k \in 1 .. events PROVE Mmc5At(o, k) = d + (k - 1) * p
  <2>1. k # 0
    BY SMT
  <2> QED
    BY Zenon, <2>1 DEF Mmc5At, d, p
<1>4. Mmc5At(o, 0) = 0
  BY Zenon DEF Mmc5At
<1>5. ASSUME NEW k \in 1 .. events
      PROVE  /\ Mmc5At(o, k) \in Nat /\ Mmc5At(o, k) <= n
             /\ k # 1 => Mmc5At(o, k - 1) \in Nat /\ Mmc5At(o, k - 1) <= Mmc5At(o, k)
  <2>1. k - 1 \in Nat /\ k - 1 \in Int /\ events - 1 \in Int /\ k - 1 <= events - 1 /\ p \in Nat
        /\ 0 \in Int /\ 0 <= k - 1 /\ k \in Int /\ events \in Int
    BY SMT, <1>1, <1>2
  <2>2. PICK x \in Int : x = (k - 1) * p
    BY SMT, <1>1
  <2>3. PICK y \in Int : y = (events - 1) * p
    BY SMT, <1>1, <1>2
  <2>4. PICK z \in Int : z = events * p
    BY SMT, <1>1, <1>2
  <2>5. x <= y /\ 0 * p <= x
    BY Zenon, <2>1, <2>2, <2>3, Products
  <2>6. 0 * p = 0
    BY SMT, <1>1
  <2>7. z = y + p
    <3>1. ((events - 1) + 1) * p = (events - 1) * p + p
      BY Zenon, <2>1, Products
    <3>2. (events - 1) + 1 = events
      BY SMT, <2>1
    <3> QED
      BY Zenon, <2>3, <2>4, <3>1, <3>2
  <2>8. 0 <= x
    BY Zenon, <2>5, <2>6
  <2>9. n > d
    BY SMT, <1>1, <1>2
  <2>10. d + z - n < p
    BY Zenon, <1>2, <2>4, <2>9
  <2>11. d + x \in Nat /\ d + x <= n
    BY SMT, <1>1, <2>5, <2>7, <2>8, <2>10
  <2>12. Mmc5At(o, k) = d + x
    BY Zenon, <1>3, <2>2
  <2>13. ASSUME k # 1 PROVE Mmc5At(o, k - 1) \in Nat /\ Mmc5At(o, k - 1) <= Mmc5At(o, k)
    <3>1. k - 1 \in 1 .. events /\ (k - 1) - 1 \in Int /\ 0 <= (k - 1) - 1
          /\ (k - 1) - 1 <= k - 1
      BY SMT, <2>1, <2>13
    <3>2. PICK w \in Int : w = ((k - 1) - 1) * p
      BY SMT, <1>1
    <3>3. 0 * p <= w /\ w <= x
      BY Zenon, <2>1, <2>2, <3>1, <3>2, Products
    <3>4. 0 <= w
      BY Zenon, <2>6, <3>3
    <3>5. d + w \in Nat /\ d + w <= d + x
      BY SMT, <1>1, <3>3, <3>4
    <3>6. Mmc5At(o, k - 1) = d + w
      BY Zenon, <1>3, <3>1, <3>2
    <3> QED
      BY Zenon, <2>12, <3>5, <3>6
  <2> QED
    BY Zenon, <2>11, <2>12, <2>13
<1>6. 0 \in Nat /\ 0 <= n /\ \A x \in Nat : 0 <= x
  BY SMT
<1>7. \A k \in 0 .. events : Mmc5At(o, k) \in Nat /\ Mmc5At(o, k) <= n
  BY Zenon, <1>2, <1>4, <1>5, <1>6, Indices
<1>8. ASSUME NEW k \in 1 .. events PROVE Mmc5At(o, k - 1) <= Mmc5At(o, k)
  <2>1. CASE k = 1
    <3>1. k - 1 = 0
      BY SMT, <2>1
    <3> QED
      BY Zenon, <1>4, <1>5, <1>6, <3>1
  <2> QED
    BY Zenon, <1>5, <2>1
<1> QED
  BY Zenon, <1>2, <1>7, <1>8 DEF events

Mmc5Loop(o, n, g) ==
  g = [k \in 0 .. Mmc5Events(o, n) |->
         IF k = 0 THEN [osc |-> o, at |-> 0, marks |-> FALSE, deltas |-> Silence(n)]
         ELSE Mmc5Event(g[k - 1], o.frame_delay + (k - 1) * mmc5_frame_period)]

LEMMA Mmc5Loops ==
  ASSUME NEW o \in Mmc5SquareOsc, NEW n \in Nat
  PROVE  \E g : Mmc5Loop(o, n, g)
<1> DEFINE first == [osc |-> o, at |-> 0, marks |-> FALSE, deltas |-> Silence(n)]
           next(s, k) == Mmc5Event(s, o.frame_delay + (k - 1) * mmc5_frame_period)
           Eq(m, g) == g = [k \in 0 .. m |-> IF k = 0 THEN first ELSE next(g[k - 1], k)]
           S == {m \in Nat : \E g : Eq(m, g)}
<1> HIDE DEF first, next
<1>1. 0 \in S
  <2> DEFINE g == [k \in 0 .. 0 |-> first]
  <2>1. \A k \in 0 .. 0 : k = 0
    BY SMT
  <2>2. 0 \in Nat
    BY SMT
  <2>3. Eq(0, g)
    BY Zenon, <2>1
  <2> HIDE DEF g
  <2> QED
    BY Zenon, <2>2, <2>3
<1>2. ASSUME NEW m \in S PROVE m + 1 \in S
  <2>1. PICK f : Eq(m, f)
    BY Zenon
  <2> DEFINE g == [k \in 0 .. m + 1 |-> IF k = m + 1 THEN next(f[m], k) ELSE f[k]]
  <2>2. m \in Nat
    BY Zenon
  <2>3. /\ m + 1 \in Nat /\ m \in 0 .. m + 1 /\ m # m + 1 /\ (m + 1) - 1 = m /\ m + 1 # 0
        /\ \A k \in 0 .. m + 1 : k # m + 1 => k \in 0 .. m
        /\ \A k \in 0 .. m : k # 0 => k - 1 \in 0 .. m + 1 /\ k - 1 # m + 1
    BY SMT, <2>2
  <2>4. ASSUME NEW k \in 0 .. m + 1 PROVE g[k] = IF k = 0 THEN first ELSE next(g[k - 1], k)
    <3>1. CASE k = m + 1
      <4>1. g[k] = next(f[m], k) /\ g[m] = f[m]
        BY Zenon, <2>3, <3>1
      <4> QED
        BY Zenon, <2>3, <3>1, <4>1
    <3>2. CASE k # m + 1
      <4>1. g[k] = f[k] /\ k \in 0 .. m
        BY Zenon, <2>3, <3>2
      <4>2. k # 0 => g[k - 1] = f[k - 1]
        BY Zenon, <2>3, <4>1
      <4>3. f[k] = IF k = 0 THEN first ELSE next(f[k - 1], k)
        BY Zenon, <2>1, <4>1
      <4> QED
        BY Zenon, <4>1, <4>2, <4>3
    <3> QED
      BY Zenon, <3>1, <3>2
  <2>5. g = [k \in 0 .. m + 1 |-> g[k]]
    BY Zenon
  <2>6. Eq(m + 1, g)
    <3> HIDE DEF g
    <3> QED
      BY Zenon, <2>4, <2>5
  <2> HIDE DEF g, Eq
  <2> QED
    BY Zenon, <2>3, <2>6
<1>3. Mmc5Events(o, n) \in S
  <2>1. S \in SUBSET Nat
    BY Zenon
  <2> HIDE DEF S
  <2>2. S = Nat
    BY Zenon, <1>1, <1>2, <2>1, Induction
  <2> QED
    BY Zenon, <2>2, EventTimes
<1>4. PICK g : Eq(Mmc5Events(o, n), g)
  BY Zenon, <1>3
<1>5. Mmc5Loop(o, n, g)
  BY Zenon, <1>4 DEF Mmc5Loop, first, next
<1> QED
  BY Zenon, <1>5

(* A run, as it goes from event to event.                                  *)
Mmc5Trace(o, n, g) ==
  LET events == Mmc5Events(o, n)
  IN  /\ g[0].osc = o /\ g[0].at = 0 /\ g[0].marks = FALSE /\ g[0].deltas = Silence(n)
      /\ g[0] \in Stretch(n)
      /\ \A k \in 1 .. events : g[k] = Mmc5Event(g[k - 1], Mmc5At(o, k))
      /\ RunMmc5Square(o, n) = Mmc5RunEnd(RunTo(g[events], n), n)

LEMMA Mmc5Cut ==
  ASSUME NEW o \in Mmc5SquareOsc, NEW n \in Nat \ {0}
  PROVE  \E g : Mmc5Trace(o, n, g)
<1>0. n \in Nat /\ n # 0
  BY SMT
<1>1. Mmc5Loop(o, n, CHOOSE g : Mmc5Loop(o, n, g))
  BY Zenon, <1>0, Mmc5Loops
<1>2. PICK g : /\ Mmc5Loop(o, n, g)
               /\ RunMmc5Square(o, n) = Mmc5RunEnd(RunTo(g[Mmc5Events(o, n)], n), n)
  <2> DEFINE h == CHOOSE g : Mmc5Loop(o, n, g)
  <2>1. RunMmc5Square(o, n) = Mmc5RunEnd(RunTo(h[Mmc5Events(o, n)], n), n)
    BY Zenon, <1>0 DEF RunMmc5Square, Mmc5Loop, Mmc5Events, Mmc5Event
  <2> HIDE DEF h
  <2> QED
    BY Zenon, <1>1, <2>1 DEF h
<1>3. /\ g[0] = [osc |-> o, at |-> 0, marks |-> FALSE, deltas |-> Silence(n)]
      /\ \A k \in 1 .. Mmc5Events(o, n) : g[k] = Mmc5Event(g[k - 1], Mmc5At(o, k))
  <2>1. Mmc5Events(o, n) \in Nat
    BY Zenon, <1>0, EventTimes
  <2> DEFINE E == Mmc5Events(o, n)
  <2>2. \A k \in 0 .. E :
           g[k] = IF k = 0 THEN [osc |-> o, at |-> 0, marks |-> FALSE, deltas |-> Silence(n)]
                  ELSE Mmc5Event(g[k - 1], o.frame_delay + (k - 1) * mmc5_frame_period)
    BY Zenon, <1>2 DEF Mmc5Loop
  <2> HIDE DEF E
  <2>3. /\ g[0] = [osc |-> o, at |-> 0, marks |-> FALSE, deltas |-> Silence(n)]
        /\ \A k \in 1 .. E : g[k] = Mmc5Event(g[k - 1], Mmc5At(o, k))
    BY Zenon, <2>1, <2>2, Indices DEF Mmc5At, E
  <2> QED
    BY Zenon, <2>3 DEF E
<1>4. /\ g[0].osc = o /\ g[0].at = 0 /\ g[0].marks = FALSE /\ g[0].deltas = Silence(n)
      /\ g[0] \in Stretch(n)
  <2> DEFINE first == [osc |-> o, at |-> 0, marks |-> FALSE, deltas |-> Silence(n)]
  <2>1. /\ first.osc = o /\ first.at = 0 /\ first.marks = FALSE /\ first.deltas = Silence(n)
    BY Zenon
  <2>2. Silence(n) \in Deltas(n) /\ 0 \in Nat /\ FALSE \in BOOLEAN
    <3>1. o.last_amp \in Nat /\ (\A x \in Nat : x \in Int) /\ 0 \in Nat
      BY SMT DEF Mmc5SquareOsc
    <3> QED
      BY Zenon, <1>0, <3>1, Firsts
  <2>3. first \in Stretch(n)
    <3> DEFINE deltas == Silence(n)
    <3>1. deltas \in Deltas(n)
      BY Zenon, <2>2
    <3> HIDE DEF deltas
    <3>2. [osc |-> o, at |-> 0, marks |-> FALSE, deltas |-> deltas] \in Stretch(n)
      BY SMT, <3>1 DEF Stretch
    <3> QED
      BY Zenon, <3>2 DEF deltas
  <2>4. g[0] = first
    BY Zenon, <1>3
  <2> HIDE DEF first
  <2> QED
    BY Zenon, <2>1, <2>3, <2>4
<1> QED
  BY Zenon, <1>2, <1>3, <1>4 DEF Mmc5Trace

LEMMA ReachedFields ==
  ASSUME NEW n, NEW period, NEW s \in Reached(n, period)
  PROVE  /\ s.osc \in Mmc5SquareOsc /\ s.at \in Nat /\ s.marks \in BOOLEAN
         /\ s.deltas \in Deltas(n) /\ (~s.marks => s.deltas = Silence(n)) /\ s.osc.period = period
         /\ s \in Stretch(n)
BY Zenon DEF Reached, Stretch

LEMMA EventReached ==
  ASSUME NEW n \in Nat, NEW period \in Nat, NEW s \in Reached(n, period), NEW t \in Nat, s.at <= t
  PROVE  LET next == Mmc5Event(s, t)
         IN  next \in Reached(n, period) /\ Moves(s, t, next)
<1> DEFINE r == RunTo(s, t)
           next == Mmc5Event(s, t)
<1>1. r \in Reached(n, period) /\ Moves(s, t, r)
  BY Zenon, RunsTo
<1> HIDE DEF r
<1>3. r.osc \in Mmc5SquareOsc /\ r \in Stretch(n)
  BY Zenon, <1>1, ReachedFields
<1> DEFINE o == clock_envelope(clock_length(r.osc))
<1>4. /\ o \in Mmc5SquareOsc /\ o.phase = r.osc.phase /\ o.delay = r.osc.delay
      /\ o.period = r.osc.period
  BY Zenon, <1>3, Mmc5Clocked
<1>5. next = [r EXCEPT !.osc = o]
  BY Zenon DEF Mmc5Event, r
<1> HIDE DEF next, o
<1>6. next \in Stretch(n)
  BY Zenon, <1>3, <1>4, <1>5 DEF Stretch
<1>7. next.osc = o /\ next.at = r.at /\ next.marks = r.marks /\ next.deltas = r.deltas
  BY Zenon, <1>3, <1>5 DEF Stretch
<1>8. next \in Reached(n, period)
  BY Zenon, <1>1, <1>4, <1>6, <1>7, ReachedFields DEF Reached
<1> QED
  BY Zenon, <1>1, <1>4, <1>7, <1>8 DEF next, Moves

LEMMA Mmc5Reached ==
  ASSUME NEW o \in Mmc5SquareOsc, NEW n \in Nat \ {0}, NEW g, Mmc5Trace(o, n, g)
  PROVE  \A k \in 0 .. Mmc5Events(o, n) :
           g[k] \in Reached(n, o.period) /\ g[k].at = Mmc5At(o, k)
<1> DEFINE events == Mmc5Events(o, n)
           S == {k \in 0 .. events : g[k] \in Reached(n, o.period) /\ g[k].at = Mmc5At(o, k)}
<1>0. n \in Nat /\ 0 \in Nat
  BY SMT
<1>1. /\ events \in Nat
      /\ \A k \in 0 .. events : Mmc5At(o, k) \in Nat /\ Mmc5At(o, k) <= n
      /\ \A k \in 1 .. events : Mmc5At(o, k - 1) <= Mmc5At(o, k)
  BY Zenon, <1>0, EventTimes
<1>2. /\ g[0].osc = o /\ g[0].at = 0 /\ g[0].marks = FALSE /\ g[0].deltas = Silence(n)
      /\ g[0] \in Stretch(n)
      /\ \A k \in 1 .. events : g[k] = Mmc5Event(g[k - 1], Mmc5At(o, k))
  BY Zenon DEF Mmc5Trace
<1> HIDE DEF events
<1>3. 0 \in S
  <2>1. Mmc5At(o, 0) = 0
    BY Zenon DEF Mmc5At
  <2>2. g[0] \in Reached(n, o.period)
    BY Zenon, <1>2 DEF Reached
  <2> QED
    BY Zenon, <1>1, <1>2, <2>1, <2>2, Indices
<1>4. ASSUME NEW k \in 1 .. events, k - 1 \in S PROVE k \in S
  <2>1. g[k - 1] \in Reached(n, o.period) /\ g[k - 1].at = Mmc5At(o, k - 1)
    BY Zenon, <1>4
  <2>2. k \in 0 .. events /\ Mmc5At(o, k) \in Nat /\ g[k - 1].at <= Mmc5At(o, k)
    BY Zenon, <1>1, <2>1, Indices
  <2>4. o.period \in Nat
    BY SMT, OscAssumption DEF OscAssumption, Mmc5SquareOsc
  <2>3. /\ Mmc5Event(g[k - 1], Mmc5At(o, k)) \in Reached(n, o.period)
        /\ Moves(g[k - 1], Mmc5At(o, k), Mmc5Event(g[k - 1], Mmc5At(o, k)))
    BY Zenon, <1>0, <2>1, <2>2, <2>4, EventReached
  <2> QED
    BY Zenon, <1>2, <2>2, <2>3 DEF Moves
<1>5. 0 .. events \subseteq S
  <2> HIDE DEF S
  <2> QED
    BY Zenon, <1>1, <1>3, <1>4, Along
<1> QED
  BY Zenon, <1>5 DEF events

(* The square at the end of a run.                                         *)
LEMMA Mmc5SquareRun ==
  ASSUME NEW o \in Mmc5SquareOsc, NEW n \in Nat \ {0}
  PROVE  /\ RunMmc5Square(o, n).osc \in Mmc5SquareOsc
         /\ RunMmc5Square(o, n).marks \in BOOLEAN
         /\ ~RunMmc5Square(o, n).marks => RunMmc5Square(o, n).deltas = Silence(n)
<1> DEFINE events == Mmc5Events(o, n)
<1>0. n \in Nat
  BY SMT
<1>1. PICK g : Mmc5Trace(o, n, g)
  BY Zenon, Mmc5Cut
<1>2. /\ events \in 0 .. events /\ Mmc5At(o, events) <= n
      /\ g[events] \in Reached(n, o.period) /\ g[events].at = Mmc5At(o, events)
  <2>1. events \in Nat
    BY Zenon, <1>0, EventTimes
  <2>2. events \in 0 .. events
    <3> HIDE DEF events
    <3> QED
      BY Zenon, <2>1, Indices
  <2> QED
    BY Zenon, <1>0, <1>1, <2>2, EventTimes, Mmc5Reached
<1> DEFINE s == RunTo(g[events], n)
<1>3. s \in Reached(n, o.period)
  <2>1. o.period \in Nat
    BY SMT, OscAssumption DEF OscAssumption, Mmc5SquareOsc
  <2>2. g[events].at <= n
    BY Zenon, <1>2
  <2> QED
    BY Zenon, <1>0, <1>2, <2>1, <2>2, RunsTo
<1>4. RunMmc5Square(o, n) = Mmc5RunEnd(s, n)
  BY Zenon, <1>1 DEF Mmc5Trace
<1> HIDE DEF s
<1> DEFINE next == DelayAfter(s.osc.frame_delay, mmc5_frame_period, n)
<1>5. /\ RunMmc5Square(o, n).osc = [s.osc EXCEPT !.frame_delay = next]
      /\ RunMmc5Square(o, n).deltas = s.deltas /\ RunMmc5Square(o, n).marks = s.marks
  <2>1. /\ Mmc5RunEnd(s, n).osc = [s.osc EXCEPT !.frame_delay = next]
        /\ Mmc5RunEnd(s, n).deltas = s.deltas /\ Mmc5RunEnd(s, n).marks = s.marks
    BY Zenon DEF Mmc5RunEnd
  <2> HIDE DEF next
  <2> QED
    BY Zenon, <1>4, <2>1
<1>6. s.osc \in Mmc5SquareOsc
  BY Zenon, <1>3, ReachedFields
<1>7. next \in 0 .. mmc5_frame_period
  <2>1. s.osc.frame_delay \in 0 .. mmc5_frame_period /\ mmc5_frame_period \in Nat \ {0}
    BY Zenon, <1>6, Mmc5Assumption DEF Mmc5SquareOsc, Mmc5Assumption
  <2>2. s.osc.frame_delay \in Nat
    BY SMT, <2>1
  <2>3. /\ next \in Nat
        /\ n <= s.osc.frame_delay => next = s.osc.frame_delay - n
        /\ n > s.osc.frame_delay => next < mmc5_frame_period
    BY Zenon, <1>0, <2>1, <2>2, Counting
  <2> HIDE DEF next
  <2> QED
    BY SMT, <1>0, <2>1, <2>2, <2>3
<1> HIDE DEF next
<1>8. [s.osc EXCEPT !.frame_delay = next] \in Mmc5SquareOsc
  BY Zenon, <1>6, <1>7 DEF Mmc5SquareOsc
<1> QED
  <2>1. s.marks \in BOOLEAN /\ (~s.marks => s.deltas = Silence(n))
    BY Zenon, <1>3, ReachedFields
  <2> QED
    BY Zenon, <1>5, <1>8, <2>1

(* What its time depends on.                                               *)
Timed(a, b) == a.phase = b.phase /\ a.delay = b.delay /\ a.period = b.period

InTime(a, b, m) ==
  PulsePhase(a, m) = PulsePhase(b, m) /\ PulseDelay(a, m) = PulseDelay(b, m)

LEMMA TimedPulses ==
  ASSUME NEW a \in Mmc5SquareOsc, NEW b \in Mmc5SquareOsc, Timed(a, b), NEW m \in Nat
  PROVE  InTime(a, b, m)
BY Zenon DEF InTime, Timed, PulsePhase, PulseDelay, timer_period

LEMMA Mmc5InStep ==
  ASSUME NEW a \in Mmc5SquareOsc, NEW b \in Mmc5SquareOsc, NEW n \in Nat \ {0},
         Timed(a, b), a.frame_delay = b.frame_delay
  PROVE  /\ RunMmc5Square(a, n).osc.phase = RunMmc5Square(b, n).osc.phase
         /\ RunMmc5Square(a, n).osc.delay = RunMmc5Square(b, n).osc.delay
<1> DEFINE events == Mmc5Events(a, n)
<1>0. n \in Nat /\ a.period \in Nat
  BY SMT, OscAssumption DEF OscAssumption, Mmc5SquareOsc
<1>1. events = Mmc5Events(b, n) /\ \A k : Mmc5At(a, k) = Mmc5At(b, k)
  BY Zenon DEF Mmc5Events, Mmc5At
<1>2. PICK g : Mmc5Trace(a, n, g)
  BY Zenon, Mmc5Cut
<1>3. PICK h : Mmc5Trace(b, n, h)
  BY Zenon, Mmc5Cut
<1>4. /\ g[0].osc = a
      /\ \A k \in 1 .. events : g[k] = Mmc5Event(g[k - 1], Mmc5At(a, k))
      /\ RunMmc5Square(a, n) = Mmc5RunEnd(RunTo(g[events], n), n)
  BY Zenon, <1>2 DEF Mmc5Trace
<1>5. /\ h[0].osc = b
      /\ \A k \in 1 .. events : h[k] = Mmc5Event(h[k - 1], Mmc5At(a, k))
      /\ RunMmc5Square(b, n) = Mmc5RunEnd(RunTo(h[events], n), n)
  <2> HIDE DEF events
  <2> QED
    BY Zenon, <1>1, <1>3 DEF Mmc5Trace
<1>6. /\ events \in Nat
      /\ \A k \in 0 .. events : Mmc5At(a, k) \in Nat /\ Mmc5At(a, k) <= n
      /\ \A k \in 1 .. events : Mmc5At(a, k - 1) <= Mmc5At(a, k)
  BY Zenon, <1>0, EventTimes
<1>7. \A k \in 0 .. events : /\ g[k] \in Reached(n, a.period) /\ g[k].at = Mmc5At(a, k)
                              /\ h[k] \in Reached(n, a.period) /\ h[k].at = Mmc5At(a, k)
  <2>1. \A k \in 0 .. events : g[k] \in Reached(n, a.period) /\ g[k].at = Mmc5At(a, k)
    BY Zenon, <1>2, Mmc5Reached
  <2>2. \A k \in 0 .. events : h[k] \in Reached(n, b.period) /\ h[k].at = Mmc5At(b, k)
    <3>1. \A k \in 0 .. Mmc5Events(b, n) : h[k] \in Reached(n, b.period) /\ h[k].at = Mmc5At(b, k)
      BY Zenon, <1>3, Mmc5Reached
    <3> HIDE DEF events
    <3> QED
      BY Zenon, <1>1, <3>1
  <2>3. a.period = b.period
    BY Zenon DEF Timed
  <2> HIDE DEF events
  <2> QED
    BY Zenon, <1>1, <2>1, <2>2, <2>3
<1> HIDE DEF events
<1> DEFINE S == {k \in 0 .. events : Timed(g[k].osc, h[k].osc)}
<1>8. 0 \in S
  BY Zenon, <1>4, <1>5, <1>6, Indices
<1>9. ASSUME NEW k \in 1 .. events, k - 1 \in S PROVE k \in S
  <2> DEFINE t == Mmc5At(a, k)
             from == Mmc5At(a, k - 1)
  <2>1. /\ k \in 0 .. events /\ k - 1 \in 0 .. events /\ t \in Nat /\ from <= t
        /\ Timed(g[k - 1].osc, h[k - 1].osc)
    BY Zenon, <1>6, <1>9, Indices
  <2>2. /\ g[k - 1] \in Reached(n, a.period) /\ g[k - 1].at = from
        /\ h[k - 1] \in Reached(n, a.period) /\ h[k - 1].at = from
    BY Zenon, <1>7, <2>1
  <2>3. g[k] = Mmc5Event(g[k - 1], t) /\ h[k] = Mmc5Event(h[k - 1], t)
    BY Zenon, <1>4, <1>5
  <2> HIDE DEF t, from
  <2>4. g[k].osc.phase = PulsePhase(g[k - 1].osc, t - from)
        /\ g[k].osc.delay = PulseDelay(g[k - 1].osc, t - from)
    <3>1. Moves(g[k - 1], t, Mmc5Event(g[k - 1], t))
      BY Zenon, <1>0, <2>1, <2>2, EventReached
    <3> QED
      BY Zenon, <2>2, <2>3, <3>1 DEF Moves
  <2>5. h[k].osc.phase = PulsePhase(h[k - 1].osc, t - from)
        /\ h[k].osc.delay = PulseDelay(h[k - 1].osc, t - from)
    <3>1. Moves(h[k - 1], t, Mmc5Event(h[k - 1], t))
      BY Zenon, <1>0, <2>1, <2>2, EventReached
    <3> QED
      BY Zenon, <2>2, <2>3, <3>1 DEF Moves
  <2>6. /\ PulsePhase(g[k - 1].osc, t - from) = PulsePhase(h[k - 1].osc, t - from)
        /\ PulseDelay(g[k - 1].osc, t - from) = PulseDelay(h[k - 1].osc, t - from)
    <3>1. /\ g[k - 1].osc \in Mmc5SquareOsc /\ h[k - 1].osc \in Mmc5SquareOsc
          /\ from \in Nat
      <4>1. g[k - 1].at \in Nat /\ g[k - 1].osc \in Mmc5SquareOsc /\ h[k - 1].osc \in Mmc5SquareOsc
        BY Zenon, <2>2, ReachedFields
      <4> QED
        BY Zenon, <2>2, <4>1
    <3>2. t - from \in Nat
      BY SMT, <2>1, <3>1
    <3>3. InTime(g[k - 1].osc, h[k - 1].osc, t - from)
      BY Zenon, <2>1, <3>1, <3>2, TimedPulses
    <3> QED
      BY Zenon, <3>3 DEF InTime
  <2>7. g[k].osc.period = a.period /\ h[k].osc.period = a.period
    BY Zenon, <1>7, <2>1 DEF Reached
  <2>8. Timed(g[k].osc, h[k].osc)
    BY Zenon, <2>4, <2>5, <2>6, <2>7 DEF Timed
  <2> QED
    BY Zenon, <2>1, <2>8
<1>10. events \in S
  <2> HIDE DEF S
  <2> QED
    BY Zenon, <1>6, <1>8, <1>9, Along, Indices
<1> DEFINE from == Mmc5At(a, events)
           x == RunTo(g[events], n)
           y == RunTo(h[events], n)
<1>11. /\ g[events] \in Reached(n, a.period) /\ g[events].at = from
       /\ h[events] \in Reached(n, a.period) /\ h[events].at = from /\ from <= n
       /\ Timed(g[events].osc, h[events].osc)
  BY Zenon, <1>6, <1>7, <1>10
<1>12. /\ x.osc.phase = PulsePhase(g[events].osc, n - from)
       /\ x.osc.delay = PulseDelay(g[events].osc, n - from) /\ x.osc \in Mmc5SquareOsc
  <2>1. Moves(g[events], n, x) /\ x \in Reached(n, a.period)
    <3>1. g[events].at <= n
      BY Zenon, <1>11
    <3> QED
      BY Zenon, <1>0, <1>11, <3>1, RunsTo
  <2> HIDE DEF x, from
  <2>2. x.osc \in Mmc5SquareOsc
    BY Zenon, <2>1, ReachedFields
  <2> QED
    BY Zenon, <1>11, <2>1, <2>2 DEF Moves
<1>13. /\ y.osc.phase = PulsePhase(h[events].osc, n - from)
       /\ y.osc.delay = PulseDelay(h[events].osc, n - from) /\ y.osc \in Mmc5SquareOsc
  <2>1. Moves(h[events], n, y) /\ y \in Reached(n, a.period)
    <3>1. h[events].at <= n
      BY Zenon, <1>11
    <3> QED
      BY Zenon, <1>0, <1>11, <3>1, RunsTo
  <2> HIDE DEF y, from
  <2>2. y.osc \in Mmc5SquareOsc
    BY Zenon, <2>1, ReachedFields
  <2> QED
    BY Zenon, <1>11, <2>1, <2>2 DEF Moves
<1> HIDE DEF x, y, from
<1>14. x.osc.phase = y.osc.phase /\ x.osc.delay = y.osc.delay
  <2>1. /\ g[events].osc \in Mmc5SquareOsc /\ h[events].osc \in Mmc5SquareOsc
        /\ from \in Nat
    <3>1. g[events].at \in Nat /\ g[events].osc \in Mmc5SquareOsc /\ h[events].osc \in Mmc5SquareOsc
      BY Zenon, <1>11, ReachedFields
    <3> QED
      BY Zenon, <1>11, <3>1
  <2>2. n - from \in Nat
    BY SMT, <1>0, <1>11, <2>1
  <2>3. InTime(g[events].osc, h[events].osc, n - from)
    BY Zenon, <1>11, <2>1, <2>2, TimedPulses
  <2> QED
    BY Zenon, <1>12, <1>13, <2>3 DEF InTime
<1>15. /\ RunMmc5Square(a, n).osc.phase = x.osc.phase
       /\ RunMmc5Square(a, n).osc.delay = x.osc.delay
  <2> DEFINE next == DelayAfter(x.osc.frame_delay, mmc5_frame_period, n)
  <2>1. Mmc5RunEnd(x, n).osc = [x.osc EXCEPT !.frame_delay = next]
    BY Zenon DEF Mmc5RunEnd
  <2> HIDE DEF next
  <2>2. RunMmc5Square(a, n).osc = [x.osc EXCEPT !.frame_delay = next]
    BY Zenon, <1>4, <2>1 DEF x
  <2> QED
    BY Zenon, <1>12, <2>2 DEF Mmc5SquareOsc
<1>16. /\ RunMmc5Square(b, n).osc.phase = y.osc.phase
       /\ RunMmc5Square(b, n).osc.delay = y.osc.delay
  <2> DEFINE next == DelayAfter(y.osc.frame_delay, mmc5_frame_period, n)
  <2>1. Mmc5RunEnd(y, n).osc = [y.osc EXCEPT !.frame_delay = next]
    BY Zenon DEF Mmc5RunEnd
  <2> HIDE DEF next
  <2>2. RunMmc5Square(b, n).osc = [y.osc EXCEPT !.frame_delay = next]
    BY Zenon, <1>5, <2>1 DEF y
  <2> QED
    BY Zenon, <1>13, <2>2 DEF Mmc5SquareOsc
<1> QED
  BY Zenon, <1>14, <1>15, <1>16

-----------------------------------------------------------------------------
(* The FDS.                                                                *)

FreqsOf(highs) ==
  {freq \in Nat : \E high \in highs, low \in 0 .. low_range - 1 : freq = high * low_range + low}
Gain == 0 .. 4 * gain_unit - 1
WaveSpot == 0 .. wave_size - 1
WriteSpot == {pos \in WaveSpot : pos % 2 = 0}
Fraction == 1 .. fract_range

Unit == [delay : Nat, speed : Nat \ {0}, gain : Gain, off : BOOLEAN, up : BOOLEAN]

FdsState ==
  [kind : {"fds"}, client : DOMAIN FdsClients, output : BOOLEAN, last_amp : Nat,
   env : Unit, sweep : Unit, freq : FreqsOf(FreqHighs), wave_off : BOOLEAN, lfo_off : BOOLEAN,
   hold : BOOLEAN, master : DOMAIN master_volumes, lfo : 0 .. low_range - 1, mod_off : BOOLEAN,
   mod_freq : FreqsOf(ModHighs), bias : 0 .. bias_range - 1, mod_pos : WaveSpot,
   mod_write_pos : WriteSpot, mod_wave : [WaveSpot -> 0 .. 7], mod_fract : Fraction,
   wave : [WaveSpot -> Nat], wave_pos : WaveSpot, wave_fract : Fraction]

LEMMA FdsConstants ==
  /\ low_range \in Nat \ {0} /\ wave_size \in Nat /\ wave_size >= 2 /\ wave_size % 2 = 0
  /\ fract_range \in Nat \ {0} /\ bias_range \in Nat /\ wave_steps \in Nat /\ wave_steps >= 4
  /\ bias_range = 2 * wave_steps
  /\ gain_unit \in Nat \ {0} /\ gain_top \in Gain /\ lfo_tempo \in Nat \ {0}
  /\ 1 \in DOMAIN master_volumes /\ \A i \in DOMAIN master_volumes : master_volumes[i] \in Nat
  /\ 0 \in FreqHighs /\ 0 \in ModHighs /\ FreqHighs \subseteq Nat /\ ModHighs \subseteq Nat
<1>1. /\ wave_size \in Nat \ {0} /\ wave_size % 2 = 0
      /\ fract_range \in Nat \ {0} /\ bias_range \in Nat /\ bias_range >= 8 /\ bias_range % 2 = 0
      /\ gain_unit \in Nat \ {0} /\ lfo_tempo \in Nat \ {0}
      /\ master_volumes \in Seq(Nat) /\ Len(master_volumes) = 4
      /\ FreqHighs \subseteq Nat /\ ModHighs \subseteq Nat /\ 0 \in FreqHighs /\ 0 \in ModHighs
  BY Zenon, FdsAssumption DEF FdsAssumption
<1>2. low_range \in Nat \ {0}
  BY Zenon, RunAssumption DEF RunAssumption
<1>3. wave_size >= 2
  BY SMT, <1>1
<1>4. wave_steps \in Nat /\ wave_steps >= 4 /\ bias_range = 2 * wave_steps
  BY SMT, <1>1 DEF wave_steps
<1>5. gain_top \in Gain
  BY SMT, <1>1 DEF gain_top, Gain
<1>6. 1 \in DOMAIN master_volumes /\ \A i \in DOMAIN master_volumes : master_volumes[i] \in Nat
  <2>1. /\ DOMAIN master_volumes = 1 .. Len(master_volumes)
        /\ \A i \in 1 .. Len(master_volumes) : master_volumes[i] \in Nat
    BY Zenon, <1>1, LenProperties, ElementOfSeq
  <2>2. 1 \in 1 .. 4
    BY SMT
  <2> QED
    BY Zenon, <1>1, <2>1, <2>2
<1> QED
  BY Zenon, <1>1, <1>2, <1>3, <1>4, <1>5, <1>6

LEMMA Divided ==
  ASSUME NEW a \in Int, NEW b \in Int, a <= b, NEW u \in Nat \ {0}
  PROVE  a \div u <= b \div u
<1>1. PICK q \in Int : q = a \div u /\ q * u <= a
  BY Zenon, Division
<1>2. PICK r \in Int : r = b \div u /\ b < r * u + u
  BY Zenon, Division
<1>3. CASE q <= r
  BY Zenon, <1>1, <1>2, <1>3
<1>4. CASE q > r
  <2>1. r + 1 \in Int /\ r + 1 <= q /\ u \in Nat
    BY SMT, <1>4
  <2>2. (r + 1) * u <= q * u /\ (r + 1) * u = r * u + u /\ r * u \in Int /\ q * u \in Int
    BY Zenon, <2>1, Products
  <2>3. PICK x \in Int : x = r * u
    BY Zenon, <2>2
  <2>4. PICK y \in Int : y = q * u
    BY Zenon, <2>2
  <2>5. x + u <= y /\ y <= a /\ b < x + u
    BY Zenon, <1>1, <1>2, <2>2, <2>3, <2>4
  <2> QED
    BY SMT, <2>5
<1> QED
  BY SMT, <1>3, <1>4

LEMMA Remainder ==
  ASSUME NEW a \in Int, NEW u \in Nat \ {0}
  PROVE  a % u \in 0 .. u - 1
BY SMT

(* The frequencies.                                                        *)
LEMMA FreqParts ==
  ASSUME NEW highs \in SUBSET Nat, NEW freq \in FreqsOf(highs)
  PROVE  /\ freq \in Nat
         /\ \E high \in highs :
              /\ freq <= (high + 1) * low_range - 1 /\ (high + 1) * low_range - 1 \in Nat
              /\ freq \div low_range = high
<1>1. PICK high \in highs, low \in 0 .. low_range - 1 : freq = high * low_range + low
  BY Zenon DEF FreqsOf
<1>2. low_range \in Nat \ {0} /\ high \in Int /\ high \in Nat /\ low_range \in Nat
  BY SMT, FdsConstants
<1>3. PICK x \in Nat : x = high * low_range
  BY SMT, <1>2
<1>4. freq = x + low
  BY Zenon, <1>1, <1>3
<1>5. freq \in Nat /\ freq \in Int /\ x <= freq /\ freq < x + low_range
  BY SMT, <1>2, <1>3, <1>4
<1>6. freq \div low_range = high
  BY Zenon, <1>2, <1>3, <1>5, Quotient
<1>7. (high + 1) * low_range = high * low_range + low_range
  BY Zenon, <1>2, Products
<1>8. PICK y \in Nat : y = (high + 1) * low_range /\ y = x + low_range
  <2>1. x + low_range \in Nat
    BY SMT, <1>2, <1>3
  <2> QED
    BY Zenon, <1>3, <1>7, <2>1
<1>9. freq <= y - 1 /\ y - 1 \in Nat
  BY SMT, <1>2, <1>5, <1>8
<1> QED
  BY Zenon, <1>5, <1>6, <1>8, <1>9

LEMMA FreqWritten ==
  ASSUME NEW highs \in SUBSET Nat, NEW freq \in FreqsOf(highs)
  PROVE  /\ \A low \in 0 .. low_range - 1 : LowWritten(freq, low) \in FreqsOf(highs)
         /\ \A high \in highs : HighWritten(freq, high) \in FreqsOf(highs)
<1>1. freq \in Nat /\ freq \div low_range \in highs
  BY Zenon, FreqParts
<1>2. freq % low_range \in 0 .. low_range - 1
  <2>1. freq \in Int
    BY SMT, <1>1
  <2> QED
    BY Zenon, <2>1, Remainder, FdsConstants
<1>3. ASSUME NEW high \in highs, NEW low \in 0 .. low_range - 1
      PROVE  high * low_range + low \in FreqsOf(highs)
  <2>1. high * low_range + low \in Nat
    <3>1. high \in Nat /\ low_range \in Nat /\ low \in Nat
      BY SMT, FdsConstants
    <3>2. PICK x \in Nat : x = high * low_range
      BY SMT, <3>1
    <3>3. x + low \in Nat
      BY SMT, <3>1
    <3> QED
      BY Zenon, <3>2, <3>3
  <2> QED
    BY Zenon, <2>1 DEF FreqsOf
<1> QED
  BY Zenon, <1>1, <1>2, <1>3 DEF LowWritten, HighWritten

LEMMA FreqBounds ==
  /\ \A freq \in FreqsOf(FreqHighs) : freq \in Nat /\ Highest(freq) <= fract_range
  /\ \A freq \in FreqsOf(ModHighs) : freq \in Nat /\ freq <= fract_range
<1>1. ASSUME NEW freq \in FreqsOf(FreqHighs)
      PROVE  freq \in Nat /\ Highest(freq) <= fract_range
  <2>1. FreqHighs \in SUBSET Nat
    BY Zenon, FdsConstants
  <2>2. PICK high \in FreqHighs :
          freq <= (high + 1) * low_range - 1 /\ (high + 1) * low_range - 1 \in Nat
    BY Zenon, <2>1, FreqParts
  <2>3. freq \in Nat
    BY Zenon, <2>1, FreqParts
  <2>4. PICK top \in Nat : top = (high + 1) * low_range - 1 /\ freq <= top
    BY Zenon, <2>2
  <2>5. Highest(top) <= fract_range
    BY Zenon, <2>4, FdsFreqAssumption DEF FdsFreqAssumption
  <2>6. PICK K \in Nat : K = 3 * wave_steps + 1
    BY SMT, FdsConstants
  <2>7. freq \in Int /\ top \in Int /\ wave_steps \in Nat \ {0}
    <3>1. wave_steps \in Nat /\ wave_steps >= 4
      BY Zenon, FdsConstants
    <3> QED
      BY SMT, <2>3, <3>1
  <2>15. K \in Nat /\ freq <= top
    BY Zenon, <2>4, <2>6
  <2>8. freq * K <= top * K /\ freq * K \in Int /\ top * K \in Int
    BY Zenon, <2>7, <2>15, Products
  <2>9. (freq * K) \div wave_steps <= (top * K) \div wave_steps
    BY Zenon, <2>7, <2>8, Divided
  <2>10. PICK x \in Int : x = (freq * K) \div wave_steps
    BY Zenon, <2>7, <2>8, Division
  <2>11. PICK y \in Int : y = (top * K) \div wave_steps
    BY Zenon, <2>7, <2>8, Division
  <2>12. Highest(freq) = freq + x /\ Highest(top) = top + y /\ x <= y
    BY Zenon, <2>6, <2>9, <2>10, <2>11 DEF Highest
  <2>13. top + y <= fract_range /\ fract_range \in Nat
    BY Zenon, <2>5, <2>12, FdsConstants
  <2>14. freq + x <= fract_range
    BY SMT, <2>3, <2>4, <2>10, <2>11, <2>12, <2>13
  <2> QED
    BY Zenon, <2>3, <2>12, <2>14
<1>2. ASSUME NEW freq \in FreqsOf(ModHighs)
      PROVE  freq \in Nat /\ freq <= fract_range
  <2>1. ModHighs \in SUBSET Nat
    BY Zenon, FdsConstants
  <2>2. PICK high \in ModHighs :
          freq <= (high + 1) * low_range - 1 /\ (high + 1) * low_range - 1 \in Nat
    BY Zenon, <2>1, FreqParts
  <2>3. PICK top \in Nat : top = (high + 1) * low_range - 1 /\ freq <= top
    BY Zenon, <2>2
  <2>4. top <= fract_range /\ fract_range \in Nat
    BY Zenon, <2>3, FdsFreqAssumption, FdsConstants DEF FdsFreqAssumption
  <2>5. freq \in Nat
    BY Zenon, <2>1, FreqParts
  <2>6. freq <= fract_range
    BY SMT, <2>3, <2>4, <2>5
  <2> QED
    BY Zenon, <2>5, <2>6
<1> QED
  BY Zenon, <1>1, <1>2

(* The waves' positions.                                                   *)
LEMMA Spots ==
  /\ \A pos \in WaveSpot : (pos + 1) % wave_size \in WaveSpot /\ (pos + 2) % wave_size \in WaveSpot
  /\ \A pos \in WriteSpot : /\ pos \in WaveSpot /\ pos + 1 \in WaveSpot
                            /\ (pos + 2) % wave_size \in WriteSpot
  /\ 0 \in WaveSpot /\ 4 % wave_size \in WriteSpot
<1>1. wave_size \in Nat /\ wave_size >= 2 /\ wave_size % 2 = 0 /\ wave_size \in Nat \ {0}
  BY SMT, FdsConstants
<1>2. \A x \in Int : x % wave_size \in WaveSpot
  BY Zenon, <1>1, Remainder DEF WaveSpot
<1>3. \A pos \in WaveSpot : pos + 1 \in Int /\ pos + 2 \in Int
  BY SMT, <1>1 DEF WaveSpot
<1>4. \A x \in Nat : x < wave_size => x % wave_size = x
  BY SMT, <1>1
<1>5. wave_size % wave_size = 0 /\ 0 \in WaveSpot /\ 0 \in WriteSpot
  <2>1. wave_size % wave_size = 0
    BY SMT, <1>1
  <2>2. 0 \in WaveSpot /\ 0 \in WriteSpot
    BY SMT, <1>1 DEF WaveSpot, WriteSpot
  <2> QED
    BY Zenon, <2>1, <2>2
<1>6. ASSUME NEW pos \in WriteSpot
      PROVE  pos \in WaveSpot /\ pos + 1 \in WaveSpot /\ (pos + 2) % wave_size \in WriteSpot
  <2>1. pos \in WaveSpot /\ pos \in 0 .. wave_size - 1 /\ pos % 2 = 0
    BY Zenon DEF WriteSpot, WaveSpot
  <2>2. pos + 1 \in 0 .. wave_size - 1 /\ (pos + 2 = wave_size \/ pos + 2 < wave_size)
        /\ (pos + 2) % 2 = 0 /\ pos + 2 \in Nat
    <3>1. PICK h \in Nat : pos = 2 * h
      <4>1. pos \div 2 \in Nat /\ pos = 2 * (pos \div 2)
        BY SMT, <2>1
      <4> QED
        BY Zenon, <4>1
    <3>2. PICK w \in Nat : wave_size = 2 * w
      <4>1. wave_size \div 2 \in Nat /\ wave_size = 2 * (wave_size \div 2)
        BY SMT, <1>1
      <4> QED
        BY Zenon, <4>1
    <3>3. h + 1 <= w
      BY SMT, <1>1, <2>1, <3>1, <3>2
    <3>4. (2 * (h + 1)) % 2 = 0 /\ pos + 2 = 2 * (h + 1)
      BY SMT, <3>1
    <3>5. pos + 2 <= wave_size
      BY SMT, <3>1, <3>2, <3>3
    <3>6. (pos + 2) % 2 = 0
      BY Zenon, <3>4
    <3>7. pos + 1 \in 0 .. wave_size - 1 /\ (pos + 2 = wave_size \/ pos + 2 < wave_size)
          /\ pos + 2 \in Nat
      BY SMT, <1>1, <2>1, <3>5
    <3> QED
      BY Zenon, <3>6, <3>7
  <2>3. pos + 2 < wave_size => pos + 2 \in WriteSpot
    <3>1. pos + 2 < wave_size => pos + 2 \in 0 .. wave_size - 1
      BY SMT, <1>1, <2>2
    <3> QED
      BY Zenon, <2>2, <3>1 DEF WriteSpot, WaveSpot
  <2>4. (pos + 2) % wave_size \in WriteSpot
    BY Zenon, <1>4, <1>5, <2>2, <2>3
  <2> QED
    BY Zenon, <2>1, <2>2, <2>4 DEF WaveSpot
<1>7. 4 % wave_size \in WriteSpot
  <2>1. CASE wave_size = 2
    BY SMT, <2>1 DEF WriteSpot, WaveSpot
  <2>2. CASE wave_size = 4
    BY SMT, <2>2 DEF WriteSpot, WaveSpot
  <2>3. CASE wave_size > 4
    <3>1. 4 \in Nat /\ 4 < wave_size /\ 4 \in WriteSpot
      BY SMT, <1>1, <2>3 DEF WriteSpot, WaveSpot
    <3>2. 4 % wave_size = 4
      BY SMT, <1>1, <2>3
    <3> QED
      BY SMT, <3>1, <3>2
  <2> QED
    BY SMT, <1>1, <2>1, <2>2, <2>3
<1> QED
  BY Zenon, <1>2, <1>3, <1>5, <1>6, <1>7

(* Registers.                                                              *)
LEMMA UnitIsWritten ==
  ASSUME NEW u \in Unit, NEW w \in FdsWrites, w.off \in BOOLEAN, w.up \in BOOLEAN, w.value \in Gain
  PROVE  UnitWritten(u, w) \in Unit
<1>1. w.value + 1 \in Nat \ {0}
  BY SMT, FdsConstants DEF Gain
<1> DEFINE gain == IF w.off THEN w.value ELSE u.gain
           speed == IF w.off THEN u.speed ELSE w.value + 1
<1>2. gain \in Gain /\ speed \in Nat \ {0}
  BY Zenon, <1>1 DEF Unit
<1>3. UnitWritten(u, w) = [u EXCEPT !.off = w.off, !.up = w.up, !.gain = gain, !.speed = speed]
  BY Zenon DEF UnitWritten, Unit
<1> HIDE DEF gain, speed
<1> QED
  BY Zenon, <1>2, <1>3 DEF Unit

LEMMA WriteKinds ==
  ASSUME NEW w \in FdsWrites
  PROVE  \/ w.reg = "wave" /\ w.pos \in WaveSpot /\ w.value \in Nat
         \/ w.reg \in {"env", "sweep"} /\ w.off \in BOOLEAN /\ w.up \in BOOLEAN /\ w.value \in Gain
         \/ w.reg \in {"freq_low", "mod_low"} /\ w.value \in 0 .. low_range - 1
         \/ w.reg = "freq_high" /\ w.value \in FreqHighs /\ w.off \in BOOLEAN /\ w.lfo_off \in BOOLEAN
         \/ w.reg = "mod_high" /\ w.value \in ModHighs /\ w.off \in BOOLEAN
         \/ w.reg = "bias" /\ w.value \in 0 .. bias_range - 1
         \/ w.reg = "mod_wave" /\ w.value \in 0 .. 7
         \/ w.reg = "volume" /\ w.hold \in BOOLEAN /\ w.master \in DOMAIN master_volumes
         \/ w.reg = "lfo" /\ w.value \in 0 .. low_range - 1
<1>1. \/ w \in [reg : {"wave"}, pos : 0 .. wave_size - 1, value : Nat]
      \/ w \in [reg : {"env", "sweep"}, off : BOOLEAN, up : BOOLEAN, value : 0 .. 4 * gain_unit - 1]
      \/ w \in [reg : {"freq_low", "mod_low"}, value : 0 .. low_range - 1]
      \/ w \in [reg : {"freq_high"}, value : FreqHighs, off : BOOLEAN, lfo_off : BOOLEAN]
      \/ w \in [reg : {"mod_high"}, value : ModHighs, off : BOOLEAN]
      \/ w \in [reg : {"bias"}, value : 0 .. bias_range - 1]
      \/ w \in [reg : {"mod_wave"}, value : 0 .. 7]
      \/ w \in [reg : {"volume"}, hold : BOOLEAN, master : DOMAIN master_volumes]
      \/ w \in [reg : {"lfo"}, value : 0 .. low_range - 1]
  BY Zenon DEF FdsWrites
<1>2. w \in [reg : {"wave"}, pos : 0 .. wave_size - 1, value : Nat] =>
        w.reg = "wave" /\ w.pos \in WaveSpot /\ w.value \in Nat
  BY Zenon DEF WaveSpot
<1>3. w \in [reg : {"env", "sweep"}, off : BOOLEAN, up : BOOLEAN, value : 0 .. 4 * gain_unit - 1] =>
        w.reg \in {"env", "sweep"} /\ w.off \in BOOLEAN /\ w.up \in BOOLEAN /\ w.value \in Gain
  BY Zenon DEF Gain
<1> QED
  BY Zenon, <1>1, <1>2, <1>3

LEMMA FdsFields ==
  ASSUME NEW o \in FdsState
  PROVE  /\ o.client \in DOMAIN FdsClients /\ o.output \in BOOLEAN /\ o.last_amp \in Nat
         /\ o.env \in Unit /\ o.sweep \in Unit /\ o.freq \in FreqsOf(FreqHighs)
         /\ o.master \in DOMAIN master_volumes /\ o.lfo \in 0 .. low_range - 1
         /\ o.mod_off \in BOOLEAN /\ o.lfo_off \in BOOLEAN /\ o.mod_freq \in FreqsOf(ModHighs)
         /\ o.bias \in 0 .. bias_range - 1 /\ o.mod_pos \in WaveSpot
         /\ o.mod_write_pos \in WriteSpot /\ o.mod_wave \in [WaveSpot -> 0 .. 7]
         /\ o.mod_fract \in Fraction /\ o.wave \in [WaveSpot -> Nat] /\ o.wave_pos \in WaveSpot
         /\ o.wave_fract \in Fraction /\ o.kind = "fds"
BY Zenon DEF FdsState

LEMMA ModWaveIsWritten ==
  ASSUME NEW o \in FdsState, NEW entry \in 0 .. 7
  PROVE  ModWaveWritten(o, entry) \in FdsState
<1> DEFINE spot == o.mod_write_pos
           wave1 == [o.mod_wave EXCEPT ![spot] = entry]
           wave2 == [wave1 EXCEPT ![spot + 1] = entry]
           pos == (o.mod_pos + 2) % wave_size
           next == (spot + 2) % wave_size
<1>1. pos \in WaveSpot /\ next \in WriteSpot /\ wave2 \in [WaveSpot -> 0 .. 7]
  <2>1. o.mod_pos \in WaveSpot /\ spot \in WriteSpot /\ o.mod_wave \in [WaveSpot -> 0 .. 7]
    BY Zenon, FdsFields
  <2> HIDE DEF spot
  <2>2. wave1 \in [WaveSpot -> 0 .. 7]
    BY Zenon, <2>1
  <2> HIDE DEF wave1
  <2>3. wave2 \in [WaveSpot -> 0 .. 7]
    BY Zenon, <2>2
  <2> QED
    BY Zenon, <2>1, <2>3, Spots
<1>2. CASE ~o.mod_off
  BY Zenon, <1>2 DEF ModWaveWritten
<1>3. CASE o.mod_off
  <2>1. ModWaveWritten(o, entry)
          = [o EXCEPT !.mod_wave = wave2, !.mod_write_pos = next, !.mod_pos = pos]
    BY Zenon, <1>3 DEF ModWaveWritten, FdsState
  <2> HIDE DEF wave2, next, pos
  <2>2. [o EXCEPT !.mod_wave = wave2, !.mod_write_pos = next, !.mod_pos = pos] \in FdsState
    BY Zenon, <1>1 DEF FdsState
  <2> QED
    BY Zenon, <2>1, <2>2
<1> QED
  BY Zenon, <1>2, <1>3

LEMMA RegisterWritten ==
  ASSUME NEW o \in FdsState, NEW w \in FdsWrites
  PROVE  FdsWritten(o, w) \in FdsState
<1> DEFINE now == FdsWritten(o, w)
<1>0. FreqHighs \in SUBSET Nat /\ ModHighs \in SUBSET Nat
  BY Zenon, FdsConstants
<1>1. CASE w.reg = "wave" /\ w.pos \in WaveSpot /\ w.value \in Nat
  <2>1. FdsWritten(o, w) = IF o.hold THEN [o EXCEPT !.wave[w.pos] = w.value] ELSE o
    BY SMT, <1>1 DEF FdsWritten
  <2>2. [o.wave EXCEPT ![w.pos] = w.value] \in [WaveSpot -> Nat]
    BY Zenon, <1>1, FdsFields
  <2>3. [o EXCEPT !.wave[w.pos] = w.value] \in FdsState
    <3> DEFINE wave == [o.wave EXCEPT ![w.pos] = w.value]
    <3>1. [o EXCEPT !.wave[w.pos] = w.value] = [o EXCEPT !.wave = wave]
      BY Zenon DEF FdsState
    <3> HIDE DEF wave
    <3>2. wave \in [WaveSpot -> Nat]
      BY Zenon, <2>2 DEF wave
    <3>3. [o EXCEPT !.wave = wave] \in FdsState
      BY Zenon, <3>2 DEF FdsState
    <3> QED
      BY Zenon, <3>1, <3>3
  <2> QED
    BY Zenon, <2>1, <2>3
<1>2. CASE w.reg \in {"env", "sweep"} /\ w.off \in BOOLEAN /\ w.up \in BOOLEAN /\ w.value \in Gain
  <2>1. /\ w.reg = "env" => FdsWritten(o, w) = [o EXCEPT !.env = UnitWritten(@, w)]
        /\ w.reg = "sweep" => FdsWritten(o, w) = [o EXCEPT !.sweep = UnitWritten(@, w)]
    BY SMT DEF FdsWritten
  <2> DEFINE env == UnitWritten(o.env, w)
             sweep == UnitWritten(o.sweep, w)
  <2>2. env \in Unit /\ sweep \in Unit
    <3>1. o.env \in Unit /\ o.sweep \in Unit
      BY Zenon, FdsFields
    <3> QED
      BY Zenon, <1>2, <3>1, UnitIsWritten
  <2>3. /\ [o EXCEPT !.env = UnitWritten(@, w)] = [o EXCEPT !.env = env]
        /\ [o EXCEPT !.sweep = UnitWritten(@, w)] = [o EXCEPT !.sweep = sweep]
    BY Zenon DEF FdsState
  <2> HIDE DEF env, sweep
  <2>4. [o EXCEPT !.env = env] \in FdsState /\ [o EXCEPT !.sweep = sweep] \in FdsState
    BY Zenon, <2>2 DEF FdsState
  <2> QED
    BY Zenon, <1>2, <2>1, <2>3, <2>4
<1>3. CASE w.reg \in {"freq_low", "mod_low"} /\ w.value \in 0 .. low_range - 1
  <2> DEFINE freq == LowWritten(o.freq, w.value)
             mod == LowWritten(o.mod_freq, w.value)
  <2>1. /\ w.reg = "freq_low" => FdsWritten(o, w) = [o EXCEPT !.freq = LowWritten(@, w.value)]
        /\ w.reg = "mod_low" => FdsWritten(o, w) = [o EXCEPT !.mod_freq = LowWritten(@, w.value)]
    BY SMT DEF FdsWritten
  <2>2. freq \in FreqsOf(FreqHighs) /\ mod \in FreqsOf(ModHighs)
    BY Zenon, <1>0, <1>3, FreqWritten, FdsFields
  <2>3. /\ [o EXCEPT !.freq = LowWritten(@, w.value)] = [o EXCEPT !.freq = freq]
        /\ [o EXCEPT !.mod_freq = LowWritten(@, w.value)] = [o EXCEPT !.mod_freq = mod]
    BY Zenon DEF FdsState
  <2> HIDE DEF freq, mod
  <2>4. [o EXCEPT !.freq = freq] \in FdsState /\ [o EXCEPT !.mod_freq = mod] \in FdsState
    BY Zenon, <2>2 DEF FdsState
  <2> QED
    BY Zenon, <1>3, <2>1, <2>3, <2>4
<1>4. CASE w.reg = "freq_high" /\ w.value \in FreqHighs /\ w.off \in BOOLEAN /\ w.lfo_off \in BOOLEAN
  <2> DEFINE freq == HighWritten(o.freq, w.value)
  <2>1. FdsWritten(o, w) = [o EXCEPT !.freq = HighWritten(@, w.value), !.wave_off = w.off,
                                     !.lfo_off = w.lfo_off]
    BY SMT, <1>4 DEF FdsWritten
  <2>2. freq \in FreqsOf(FreqHighs)
    BY Zenon, <1>0, <1>4, FreqWritten, FdsFields
  <2>3. FdsWritten(o, w) = [o EXCEPT !.freq = freq, !.wave_off = w.off, !.lfo_off = w.lfo_off]
    BY Zenon, <2>1 DEF FdsState
  <2> HIDE DEF freq
  <2>4. [o EXCEPT !.freq = freq, !.wave_off = w.off, !.lfo_off = w.lfo_off] \in FdsState
    BY Zenon, <1>4, <2>2 DEF FdsState
  <2> QED
    BY Zenon, <2>3, <2>4
<1>5. CASE w.reg = "mod_high" /\ w.value \in ModHighs /\ w.off \in BOOLEAN
  <2> DEFINE mod == HighWritten(o.mod_freq, w.value)
  <2>1. FdsWritten(o, w) = [o EXCEPT !.mod_freq = HighWritten(@, w.value), !.mod_off = w.off]
    BY SMT, <1>5 DEF FdsWritten
  <2>2. mod \in FreqsOf(ModHighs)
    BY Zenon, <1>0, <1>5, FreqWritten, FdsFields
  <2>3. FdsWritten(o, w) = [o EXCEPT !.mod_freq = mod, !.mod_off = w.off]
    BY Zenon, <2>1 DEF FdsState
  <2> HIDE DEF mod
  <2>4. [o EXCEPT !.mod_freq = mod, !.mod_off = w.off] \in FdsState
    BY Zenon, <1>5, <2>2 DEF FdsState
  <2> QED
    BY Zenon, <2>3, <2>4
<1>6. CASE w.reg = "bias" /\ w.value \in 0 .. bias_range - 1
  <2> DEFINE pos == o.mod_write_pos
  <2>1. FdsWritten(o, w) = [o EXCEPT !.mod_pos = pos, !.bias = w.value]
    BY SMT, <1>6 DEF FdsWritten
  <2>2. pos \in WaveSpot
    BY Zenon, FdsFields, Spots
  <2> HIDE DEF pos
  <2>3. [o EXCEPT !.mod_pos = pos, !.bias = w.value] \in FdsState
    BY Zenon, <1>6, <2>2 DEF FdsState
  <2> QED
    BY Zenon, <2>1, <2>3
<1>7. CASE w.reg = "mod_wave" /\ w.value \in 0 .. 7
  <2>1. FdsWritten(o, w) = ModWaveWritten(o, w.value)
    BY SMT, <1>7 DEF FdsWritten
  <2> QED
    BY Zenon, <1>7, <2>1, ModWaveIsWritten
<1>8. CASE w.reg = "volume" /\ w.hold \in BOOLEAN /\ w.master \in DOMAIN master_volumes
  <2>1. FdsWritten(o, w) = [o EXCEPT !.hold = w.hold, !.master = w.master]
    BY SMT, <1>8 DEF FdsWritten
  <2>2. [o EXCEPT !.hold = w.hold, !.master = w.master] \in FdsState
    BY Zenon, <1>8 DEF FdsState
  <2> QED
    BY Zenon, <2>1, <2>2
<1>9. CASE w.reg = "lfo" /\ w.value \in 0 .. low_range - 1
  <2>1. FdsWritten(o, w) = [o EXCEPT !.lfo = w.value]
    BY SMT, <1>9 DEF FdsWritten
  <2>2. [o EXCEPT !.lfo = w.value] \in FdsState
    BY Zenon, <1>9 DEF FdsState
  <2> QED
    BY Zenon, <2>1, <2>2
<1> QED
  BY Zenon, <1>1, <1>2, <1>3, <1>4, <1>5, <1>6, <1>7, <1>8, <1>9, WriteKinds

LEMMA FdsReset ==
  ASSUME NEW client \in DOMAIN FdsClients, NEW output \in BOOLEAN
  PROVE  ResetFds(client, output) \in FdsState
<1>1. /\ 0 \in Gain /\ 0 \in Nat /\ 1 \in Nat \ {0} /\ 0 \in 0 .. bias_range - 1 /\ 0 \in 0 .. 7
      /\ low_range - 1 \in 0 .. low_range - 1 /\ fract_range \in Fraction
  BY SMT, FdsConstants DEF Gain, Fraction
<1>2. 0 \in FreqsOf(FreqHighs) /\ 0 \in FreqsOf(ModHighs)
  <2>1. 0 * low_range + 0 = 0 /\ 0 \in 0 .. low_range - 1
    BY SMT, FdsConstants
  <2> QED
    BY Zenon, <1>1, <2>1, FdsConstants DEF FreqsOf
<1>3. ResetUnit \in Unit
  BY Zenon, <1>1 DEF ResetUnit, Unit
<1> DEFINE silent == [i \in 0 .. wave_size - 1 |-> 0]
           spot == 4 % wave_size
           last == low_range - 1
<1>4. silent \in [WaveSpot -> Nat] /\ silent \in [WaveSpot -> 0 .. 7]
  BY Zenon, <1>1 DEF WaveSpot
<1>5. spot \in WriteSpot /\ spot \in WaveSpot /\ 0 \in WaveSpot
  BY Zenon, Spots
<1>6. 1 \in DOMAIN master_volumes
  BY Zenon, FdsConstants
<1>7. last \in 0 .. low_range - 1
  BY Zenon, <1>1
<1>8. ResetFds(client, output) =
        [kind |-> "fds", client |-> client, output |-> output, last_amp |-> 0,
         env |-> ResetUnit, sweep |-> ResetUnit,
         freq |-> 0, wave_off |-> TRUE, lfo_off |-> TRUE, hold |-> FALSE, master |-> 1,
         lfo |-> last, mod_off |-> TRUE, mod_freq |-> 0, bias |-> 0,
         mod_pos |-> spot, mod_write_pos |-> spot, mod_wave |-> silent,
         mod_fract |-> fract_range, wave |-> silent, wave_pos |-> 0, wave_fract |-> fract_range]
  BY Zenon DEF ResetFds
<1> HIDE DEF silent, spot, last
<1> QED
  BY SMT, <1>1, <1>2, <1>3, <1>4, <1>5, <1>6, <1>7, <1>8 DEF FdsState

(* The writes that set the chip up.                                        *)
LEMMA FdsBegun ==
  ASSUME NEW client \in DOMAIN FdsClients
  PROVE  AllWritten(ResetFds(client, FALSE), FdsClients[client].setup) \in FdsState
<1> DEFINE first == ResetFds(client, FALSE)
           writes == FdsClients[client].setup
           count == Len(writes)
           step == [x \in FdsState \X (1 .. count) |-> FdsWritten(x[1], writes[x[2]])]
           Eq(g) == g = [i \in 0 .. count |-> IF i = 0 THEN first
                                              ELSE FdsWritten(g[i - 1], writes[i])]
<1>1. writes \in Seq(FdsWrites)
  BY Zenon, FdsClientsAssumption DEF FdsClientsAssumption
<1>2. first \in FdsState
  BY Zenon, FdsReset
<1> HIDE DEF first, writes
<1>3. count \in Nat /\ \A i \in 1 .. count : writes[i] \in FdsWrites
  BY Zenon, <1>1, LenProperties, ElementOfSeq
<1> HIDE DEF count
<1>4. ASSUME NEW d \in FdsState, NEW i \in 1 .. count
      PROVE  step[<<d, i>>] = FdsWritten(d, writes[i]) /\ step[<<d, i>>] \in FdsState
  <2>1. step[<<d, i>>] = FdsWritten(d, writes[i])
    BY Zenon
  <2>2. FdsWritten(d, writes[i]) \in FdsState
    BY Zenon, <1>3, RegisterWritten
  <2> HIDE DEF step
  <2> QED
    BY Zenon, <2>1, <2>2
<1> HIDE DEF step
<1>5. PICK f \in [0 .. count -> FdsState] : IsLoop(f, first, step, 0 .. count)
  <2>1. Closed(FdsState, step, 0 .. count)
    BY Zenon, <1>3, <1>4, Indices DEF Closed
  <2> QED
    BY Zenon, <1>2, <1>3, <2>1, LoopExists
<1>6. Eq(f)
  <2>1. ASSUME NEW i \in 0 .. count
        PROVE  f[i] = IF i = 0 THEN first ELSE FdsWritten(f[i - 1], writes[i])
    <3>1. f[i] = IF i = 0 THEN first ELSE step[<<f[i - 1], i>>]
      BY Zenon, <1>5 DEF IsLoop
    <3>2. i # 0 => f[i - 1] \in FdsState /\ i \in 1 .. count
      BY Zenon, <1>3, <1>5, Indices
    <3> QED
      BY Zenon, <1>4, <3>1, <3>2
  <2> QED
    BY Zenon, <2>1
<1>7. PICK g : Eq(g) /\ AllWritten(first, writes) = g[count]
  <2>1. Eq(CHOOSE g : Eq(g))
    <3> HIDE DEF Eq
    <3> QED
      BY Zenon, <1>6
  <2>2. AllWritten(first, writes) = (CHOOSE g : Eq(g))[count]
    BY Zenon DEF AllWritten, count
  <2> HIDE DEF Eq
  <2> QED
    BY Zenon, <2>1, <2>2
<1>8. g[0] = first /\ \A i \in 1 .. count : g[i] = FdsWritten(g[i - 1], writes[i])
  BY Zenon, <1>3, <1>7, Indices
<1>9. \A i \in 0 .. count : g[i] \in FdsState
  <2>1. \A i \in 1 .. count : g[i - 1] \in FdsState => g[i] \in FdsState
    BY Zenon, <1>3, <1>8, RegisterWritten
  <2> QED
    BY Zenon, <1>2, <1>3, <1>8, <2>1, Stays
<1>10. AllWritten(first, writes) \in FdsState
  BY Zenon, <1>3, <1>7, <1>9, Indices
<1> QED
  BY Zenon, <1>10 DEF first, writes

(* The wave.                                                               *)

Due(fract, delay, freq) == fract <= delay * freq /\ (delay - 1) * freq < fract

WaveState(n) ==
  [wave_pos : WaveSpot, wave_fract : Fraction, delay : Nat \ {0}, last_amp : Nat,
   deltas : Deltas(n), time : Nat]

WaveLoop(n, freq, end) ==
  {p \in WaveState(n) : Due(p.wave_fract, p.delay, freq) /\ p.time - p.delay <= end}

LEMMA CeilIs ==
  ASSUME NEW a \in Nat \ {0}, NEW b \in Nat \ {0}
  PROVE  Ceil(a, b) \in Nat \ {0} /\ Due(a, Ceil(a, b), b)
<1>1. PICK x \in Int : x = a + b - 1 /\ x - b < a /\ a <= x
  BY SMT
<1>2. PICK q \in Int : q = x \div b /\ q * b <= x /\ x < q * b + b
  BY Zenon, <1>1, Division
<1>3. PICK y \in Int : y = q * b
  BY SMT, <1>2
<1>4. y <= x /\ x < y + b
  BY Zenon, <1>2, <1>3
<1>5. q \in Nat \ {0}
  <2>1. CASE q <= 0
    <3>1. q * b <= 0 * b /\ 0 * b = 0
      <4>1. 0 \in Int /\ b \in Nat
        BY SMT
      <4>2. 0 * b = 0
        BY SMT
      <4> QED
        BY Zenon, <1>2, <2>1, <4>1, <4>2, Products
    <3>2. y <= 0
      BY Zenon, <1>3, <3>1
    <3> QED
      BY SMT, <1>1, <1>4, <3>2
  <2>2. CASE q > 0
    BY SMT, <2>2
  <2> QED
    BY SMT, <2>1, <2>2
<1>6. (q - 1) * b = y - b
  <2>1. 1 \in Int /\ b \in Nat
    BY SMT
  <2>2. (q - 1) * b = q * b - 1 * b
    BY Zenon, <1>2, <2>1, Products
  <2>3. 1 * b = b
    BY SMT
  <2> QED
    BY Zenon, <1>3, <2>2, <2>3
<1>7. a <= y /\ y - b < a
  BY SMT, <1>1, <1>3, <1>4
<1>8. Ceil(a, b) = q
  BY Zenon, <1>1, <1>2 DEF Ceil
<1> QED
  BY Zenon, <1>3, <1>5, <1>6, <1>7, <1>8 DEF Due

LEMMA DelayProducts ==
  ASSUME NEW delay \in Nat, NEW freq \in Nat
  PROVE  \E x \in Nat : x = delay * freq /\ (delay - 1) * freq = x - freq
<1>1. PICK x \in Nat : x = delay * freq
  BY SMT
<1>2. delay \in Int /\ 1 \in Int
  BY SMT
<1>3. (delay - 1) * freq = delay * freq - 1 * freq
  BY Zenon, <1>2, Products
<1>4. 1 * freq = freq
  BY SMT
<1> QED
  BY Zenon, <1>1, <1>3, <1>4

(* The time to the wave's next clock is found without a division.          *)
LEMMA NextClock ==
  ASSUME NEW freq \in 1 .. fract_range, NEW now \in Fraction, NEW delay \in Nat \ {0},
         Due(now, delay, freq)
  PROVE  LET fract == now + fract_range - delay * freq
             least == fract_range \div freq
             next == IF fract > least * freq THEN least + 1 ELSE least
         IN  fract \in Fraction /\ next \in Nat \ {0} /\ Due(fract, next, freq)
<1> DEFINE fract == now + fract_range - delay * freq
           least == fract_range \div freq
           next == IF fract > least * freq THEN least + 1 ELSE least
<1>1. /\ fract_range \in Int /\ freq \in Nat /\ freq \in Nat \ {0} /\ delay \in Nat
      /\ now \in Int /\ now >= 1 /\ now <= fract_range /\ freq <= fract_range /\ delay \in Int
  <2>1. fract_range \in Nat \ {0}
    BY Zenon, FdsConstants
  <2> QED
    BY SMT, <2>1 DEF Fraction
<1>2. PICK x \in Nat : x = delay * freq /\ (delay - 1) * freq = x - freq
  BY Zenon, <1>1, DelayProducts
<1>3. now <= x /\ x - freq < now
  BY Zenon, <1>2 DEF Due
<1>4. PICK fr \in Int : fr = fract /\ fr = now + fract_range - x
  <2>1. now + fract_range - x \in Int
    BY SMT, <1>1
  <2>2. fract = now + fract_range - x
    BY Zenon, <1>2
  <2> HIDE DEF fract
  <2> QED
    BY Zenon, <2>1, <2>2
<1>5. fr >= 1 /\ fr <= fract_range /\ fr > fract_range - freq
  BY SMT, <1>1, <1>3, <1>4
<1>6. PICK m \in Int : m = least /\ m * freq <= fract_range /\ fract_range < m * freq + freq
  BY Zenon, <1>1, Division
<1>7. PICK z \in Int : z = m * freq
  BY SMT, <1>1
<1>8. z <= fract_range /\ fract_range < z + freq
  BY Zenon, <1>6, <1>7
<1>9. m \in Nat \ {0}
  <2>1. CASE m <= 0
    <3>1. 0 \in Int /\ 0 * freq = 0
      BY SMT, <1>1
    <3>2. m * freq <= 0 * freq
      BY Zenon, <1>1, <2>1, <3>1, Products
    <3>3. z <= 0
      BY Zenon, <1>7, <3>1, <3>2
    <3> QED
      BY SMT, <1>1, <1>8, <3>3
  <2>2. CASE m > 0
    BY SMT, <2>2
  <2> QED
    BY SMT, <2>1, <2>2
<1>10. (m - 1) * freq = z - freq /\ (m + 1) * freq = z + freq /\ (m + 1) - 1 = m
  <2>1. m \in Nat /\ m \in Int /\ (m + 1) - 1 = m
    BY SMT, <1>9
  <2>2. PICK v \in Nat : v = m * freq /\ (m - 1) * freq = v - freq
    BY Zenon, <1>1, <2>1, DelayProducts
  <2>3. (m + 1) * freq = m * freq + freq
    BY Zenon, <1>1, <2>1, Products
  <2> QED
    BY Zenon, <1>7, <2>1, <2>2, <2>3
<1>11. fract \in Fraction
  <2>1. fr \in 1 .. fract_range
    BY SMT, <1>1, <1>5
  <2> HIDE DEF fract
  <2> QED
    BY Zenon, <1>4, <2>1 DEF Fraction
<1>12. next = IF fr > z THEN m + 1 ELSE m
  <2> HIDE DEF fract, least
  <2> QED
    BY Zenon, <1>4, <1>6, <1>7
<1> HIDE DEF fract, least, next
<1>13. next \in Nat \ {0} /\ Due(fr, next, freq)
  <2>1. CASE fr > z
    <3>1. fr <= z + freq /\ z < fr /\ m + 1 \in Nat \ {0}
      BY SMT, <1>1, <1>5, <1>8, <1>9, <2>1
    <3>2. next = m + 1
      BY Zenon, <1>12, <2>1
    <3>3. Due(fr, m + 1, freq)
      BY Zenon, <1>7, <1>10, <3>1 DEF Due
    <3> QED
      BY Zenon, <3>1, <3>2, <3>3
  <2>2. CASE ~(fr > z)
    <3>1. fr <= z /\ z - freq < fr
      BY SMT, <1>1, <1>5, <1>8, <2>2
    <3>2. next = m
      BY Zenon, <1>12, <2>2
    <3>3. Due(fr, m, freq)
      BY Zenon, <1>7, <1>10, <3>1 DEF Due
    <3> QED
      BY Zenon, <1>9, <3>2, <3>3
  <2> QED
    BY Zenon, <2>1, <2>2
<1>14. fract \in Fraction /\ next \in Nat \ {0} /\ Due(fract, next, freq)
  BY Zenon, <1>4, <1>11, <1>13
<1> QED
  BY Zenon, <1>14 DEF fract, least, next

LEMMA WaveClocks ==
  ASSUME NEW o \in FdsState, NEW freq \in 1 .. fract_range, NEW n \in Nat, NEW end \in 0 .. n,
         NEW p \in WaveLoop(n, freq, end)
  PROVE  p.time <= end => /\ WaveClock(o, freq, p) \in WaveLoop(n, freq, end)
                          /\ WaveClock(o, freq, p).time >= p.time + 1
<1> SUFFICES ASSUME p.time <= end
             PROVE  /\ WaveClock(o, freq, p) \in WaveLoop(n, freq, end)
                    /\ WaveClock(o, freq, p).time >= p.time + 1
  OBVIOUS
<1> DEFINE amp == o.wave[p.wave_pos] * Earlier(o.env.gain, gain_top) * master_volumes[o.master]
           pos == (p.wave_pos + 1) % wave_size
           fract == p.wave_fract + fract_range - p.delay * freq
           least == fract_range \div freq
           next == IF fract > least * freq THEN least + 1 ELSE least
           deltas == [p.deltas EXCEPT ![p.time] = @ + amp - p.last_amp]
           time == p.time + next
<1>1. /\ p.wave_pos \in WaveSpot /\ p.wave_fract \in Fraction /\ p.delay \in Nat \ {0}
      /\ p.last_amp \in Nat /\ p.deltas \in Deltas(n) /\ p.time \in Nat
      /\ Due(p.wave_fract, p.delay, freq)
  BY Zenon DEF WaveLoop, WaveState
<1>2. fract \in Fraction /\ next \in Nat \ {0} /\ Due(fract, next, freq)
  BY Zenon, <1>1, NextClock
<1>3. pos \in WaveSpot
  BY Zenon, <1>1, Spots
<1>4. amp \in Nat
  <2>1. o.env \in Unit /\ o.wave \in [WaveSpot -> Nat] /\ o.master \in DOMAIN master_volumes
    BY Zenon, FdsFields
  <2>2. o.env.gain \in Gain /\ gain_top \in Gain /\ o.wave[p.wave_pos] \in Nat
    BY Zenon, <1>1, <2>1, FdsConstants DEF Unit
  <2>3. Earlier(o.env.gain, gain_top) \in Gain
    BY Zenon, <2>2 DEF Earlier
  <2>4. PICK a \in Nat : a = o.wave[p.wave_pos]
    BY Zenon, <2>2
  <2>5. PICK b \in Nat : b = Earlier(o.env.gain, gain_top)
    <3>1. \A g \in Gain : g \in Nat
      BY SMT, FdsConstants DEF Gain
    <3> QED
      BY Zenon, <2>3, <3>1
  <2>6. PICK c \in Nat : c = master_volumes[o.master]
    BY Zenon, <2>1, FdsConstants
  <2>7. a * b * c \in Nat
    BY SMT
  <2> QED
    BY Zenon, <2>4, <2>5, <2>6, <2>7
<1> HIDE DEF amp, pos, fract, least, next
<1>5. deltas \in Deltas(n)
  <2>1. PICK d \in Int : d = amp - p.last_amp
    BY SMT, <1>1, <1>4
  <2>2. p.time \in 0 .. n
    BY SMT, <1>1
  <2>3. p.deltas[p.time] \in Int
    BY Zenon, <1>1, <2>2 DEF Deltas
  <2>4. p.deltas[p.time] + amp - p.last_amp \in Int
    BY SMT, <1>1, <1>4, <2>3
  <2> QED
    BY Zenon, <1>1, <2>4 DEF Deltas
<1>6. time \in Nat /\ time - next = p.time /\ time >= p.time + 1
  BY SMT, <1>1, <1>2
<1> HIDE DEF deltas, time
<1>7. WaveClock(o, freq, p) =
        [wave_pos |-> pos, wave_fract |-> fract, delay |-> next, last_amp |-> amp,
         deltas |-> deltas, time |-> time]
  BY Zenon DEF WaveClock, amp, pos, fract, least, next, deltas, time
<1>8. WaveClock(o, freq, p) \in WaveState(n)
  BY SMT, <1>1, <1>2, <1>3, <1>4, <1>5, <1>6, <1>7 DEF WaveState
<1>9. /\ WaveClock(o, freq, p).wave_fract = fract /\ WaveClock(o, freq, p).delay = next
      /\ WaveClock(o, freq, p).time = time
  BY SMT, <1>7
<1> QED
  BY Zenon, <1>2, <1>6, <1>8, <1>9 DEF WaveLoop

LEMMA WaveIsClocked ==
  ASSUME NEW o \in FdsState, NEW freq \in 1 .. fract_range, NEW n \in Nat, NEW end \in 0 .. n,
         NEW start \in 0 .. end, NEW first \in WaveLoop(n, freq, end), first.time >= start + 1
  PROVE  /\ WaveClocked(o, freq, first, start, end) \in WaveLoop(n, freq, end)
         /\ WaveClocked(o, freq, first, start, end).time > end
<1> DEFINE count == end - start
           D == WaveLoop(n, freq, end)
           next(p) == IF p.time > end THEN p ELSE WaveClock(o, freq, p)
           step == [x \in D \X (0 .. count) |-> next(x[1])]
           Eq(g) == g = [k \in 0 .. count |-> IF k = 0 THEN first ELSE next(g[k - 1])]
<1>1. count \in Nat /\ end \in Nat /\ start \in Nat
  BY SMT
<1>2. ASSUME NEW p \in D PROVE next(p) \in D
  <2>1. p.time \in Nat
    BY Zenon DEF WaveLoop, WaveState
  <2>2. p.time > end \/ p.time <= end
    BY SMT, <1>1, <2>1
  <2> QED
    BY Zenon, <2>2, WaveClocks
<1> HIDE DEF D, next, count
<1>3. ASSUME NEW d \in D, NEW k \in 0 .. count PROVE step[<<d, k>>] = next(d)
  BY Zenon
<1> HIDE DEF step
<1>4. PICK f \in [0 .. count -> D] : IsLoop(f, first, step, 0 .. count)
  <2>1. Closed(D, step, 0 .. count)
    BY Zenon, <1>2, <1>3 DEF Closed
  <2> QED
    BY Zenon, <1>1, <2>1, LoopExists DEF D
<1>5. Eq(f)
  <2>1. ASSUME NEW k \in 0 .. count PROVE f[k] = IF k = 0 THEN first ELSE next(f[k - 1])
    <3>1. f[k] = IF k = 0 THEN first ELSE step[<<f[k - 1], k>>]
      BY Zenon, <1>4 DEF IsLoop
    <3>2. k # 0 => f[k - 1] \in D
      BY Zenon, <1>1, <1>4, Indices
    <3> QED
      BY Zenon, <1>3, <3>1, <3>2
  <2> QED
    BY Zenon, <2>1
<1>6. PICK g : Eq(g) /\ WaveClocked(o, freq, first, start, end) = g[count]
  <2>1. Eq(CHOOSE g : Eq(g))
    <3> HIDE DEF Eq
    <3> QED
      BY Zenon, <1>5
  <2>2. WaveClocked(o, freq, first, start, end) = (CHOOSE g : Eq(g))[count]
    BY Zenon DEF WaveClocked, count, next
  <2> HIDE DEF Eq
  <2> QED
    BY Zenon, <2>1, <2>2
<1>7. g[0] = first /\ \A k \in 1 .. count : g[k] = next(g[k - 1])
  BY Zenon, <1>1, <1>6, Indices
<1>8. \A k \in 0 .. count : g[k] \in D
  <2>1. first \in D
    BY DEF D
  <2>2. \A k \in 1 .. count : g[k - 1] \in D => g[k] \in D
    BY Zenon, <1>2, <1>7
  <2> QED
    BY Zenon, <1>1, <1>7, <2>1, <2>2, Stays
<1> DEFINE S == {k \in 0 .. count : g[k].time > end \/ g[k].time >= start + k + 1}
<1>9. 0 .. count \subseteq S
  <2>1. 0 \in S
    <3>1. start + 0 + 1 = start + 1
      BY SMT, <1>1
    <3> QED
      BY Zenon, <1>1, <1>7, <3>1, Indices
  <2>2. ASSUME NEW k \in 1 .. count, k - 1 \in S PROVE k \in S
    <3>1. g[k] = next(g[k - 1]) /\ g[k - 1] \in D /\ k \in 0 .. count
      BY Zenon, <1>1, <1>7, <1>8, Indices
    <3>2. g[k - 1].time \in Nat
      BY Zenon, <3>1 DEF D, WaveLoop, WaveState
    <3>3. CASE g[k - 1].time > end
      BY Zenon, <3>1, <3>3 DEF next
    <3>4. CASE ~(g[k - 1].time > end)
      <4>1. g[k - 1].time <= end
        BY SMT, <1>1, <3>2, <3>4
      <4>2. g[k] = WaveClock(o, freq, g[k - 1]) /\ g[k] \in D
        BY Zenon, <1>8, <3>1, <3>4 DEF next
      <4>3. WaveClock(o, freq, g[k - 1]).time >= g[k - 1].time + 1
        BY Zenon, <3>1, <4>1, WaveClocks DEF D
      <4>4. g[k - 1].time >= start + (k - 1) + 1
        BY Zenon, <2>2, <3>4
      <4>5. g[k].time \in Nat
        BY Zenon, <4>2 DEF D, WaveLoop, WaveState
      <4>6. g[k].time >= g[k - 1].time + 1
        BY Zenon, <4>2, <4>3
      <4>7. g[k].time >= start + k + 1
        BY SMT, <1>1, <3>2, <4>4, <4>5, <4>6
      <4> QED
        BY Zenon, <3>1, <4>7
    <3> QED
      BY Zenon, <3>3, <3>4
  <2> HIDE DEF S
  <2> QED
    BY Zenon, <1>1, <2>1, <2>2, Along
<1>10. g[count] \in D /\ g[count].time > end
  <2>1. count \in 0 .. count
    BY Zenon, <1>1, Indices
  <2>2. g[count] \in D /\ (g[count].time > end \/ g[count].time >= start + count + 1)
    BY Zenon, <1>8, <1>9, <2>1
  <2>3. g[count].time \in Nat
    BY Zenon, <2>2 DEF D, WaveLoop, WaveState
  <2>4. start + count + 1 = end + 1
    BY SMT, <1>1 DEF count
  <2>5. g[count].time > end
    BY SMT, <1>1, <2>2, <2>3, <2>4
  <2> QED
    BY Zenon, <2>2, <2>5
<1> QED
  BY Zenon, <1>6, <1>10 DEF D

(* The wave's frequency and the modulator.                                 *)

LEMMA FactorIsBounded ==
  ASSUME NEW bias \in Int, bias < wave_steps, NEW gain \in Gain
  PROVE  Factor(bias, gain) \in Int /\ Factor(bias, gain) <= 3 * wave_steps + 1
<1>1. PICK W \in Nat : W = wave_steps /\ bias < W /\ W >= 4
  BY Zenon, FdsConstants
<1>2. gain_unit \in Nat \ {0} /\ gain \in Nat /\ gain <= 4 * gain_unit
  <2>1. gain_unit \in Nat \ {0}
    BY Zenon, FdsConstants
  <2> QED
    BY SMT, <2>1 DEF Gain
<1>3. PICK x \in Int : x = bias * gain
  BY SMT, <1>2
<1>4. PICK q \in Int : q = x \div gain_unit /\ q * gain_unit <= x
  BY Zenon, <1>2, <1>3, Division
<1>5. q <= 4 * W - 4
  <2>1. PICK G \in Nat : G = 4 * gain_unit
    BY SMT, <1>2
  <2>2. bias * gain <= (W - 1) * gain
    <3>1. bias <= W - 1 /\ W - 1 \in Int
      BY SMT, <1>1
    <3> QED
      BY Zenon, <1>2, <3>1, Products
  <2>3. gain * (W - 1) <= G * (W - 1)
    <3>1. W - 1 \in Nat /\ gain <= G /\ gain \in Int /\ G \in Int
      BY SMT, <1>1, <1>2, <2>1
    <3> QED
      BY Zenon, <3>1, Products
  <2>4. (W - 1) * gain = gain * (W - 1) /\ G * (W - 1) = (4 * W - 4) * gain_unit
    <3>1. W - 1 \in Int /\ gain \in Int /\ gain_unit \in Int
      BY SMT, <1>1, <1>2
    <3>2. \A a, b \in Int : a * b = b * a
      BY SMT
    <3>3. \A a, b \in Int : (4 * b) * a = (4 * a) * b
      BY SMT
    <3>4. 4 * (W - 1) = 4 * W - 4
      BY SMT
    <3> QED
      BY Zenon, <2>1, <3>1, <3>2, <3>3, <3>4
  <2>5. PICK t \in Int : t = 4 * W - 4
    BY SMT
  <2>6. PICK y \in Int : y = t * gain_unit
    BY SMT, <1>2
  <2>7. PICK u \in Int : u = (W - 1) * gain
    BY SMT, <1>2
  <2>8. x <= u /\ u <= y
    BY Zenon, <1>3, <2>2, <2>3, <2>4, <2>5, <2>6, <2>7
  <2>9. x <= y
    BY SMT, <2>8
  <2>10. x \div gain_unit <= y \div gain_unit
    BY Zenon, <1>2, <2>9, Divided
  <2>11. y \div gain_unit = t
    <3>1. t * gain_unit <= y /\ y < t * gain_unit + gain_unit
      <4>1. y <= y /\ y < y + gain_unit
        BY SMT, <1>2
      <4> QED
        BY Zenon, <2>6, <4>1
    <3> QED
      BY Zenon, <1>2, <3>1, Quotient
  <2>12. q <= t
    BY Zenon, <1>4, <2>10, <2>11
  <2> QED
    BY Zenon, <2>5, <2>12
<1>6. PICK r \in Int : r = Rounded(x, bias) /\ r <= 4 * W - 2
  <2> DEFINE e == IF x % gain_unit = 0 THEN 0 ELSE IF bias < 0 THEN -1 ELSE 2
  <2>1. e \in Int /\ e <= 2
    BY SMT
  <2>2. Rounded(x, bias) = q + e
    BY Zenon, <1>4 DEF Rounded
  <2> HIDE DEF e
  <2>3. q + e \in Int /\ q + e <= 4 * W - 2
    BY SMT, <1>5, <2>1
  <2> QED
    BY Zenon, <2>2, <2>3
<1>7. PICK a \in Int : a = WrappedAbove(r) /\ a <= 3 * W + 1
  <2> DEFINE v == IF r > 3 * W + 1 THEN r - (4 * W + 2) ELSE r
  <2>1. v \in Int /\ v <= 3 * W + 1
    BY SMT, <1>6
  <2>2. WrappedAbove(r) = v
    BY Zenon, <1>1 DEF WrappedAbove
  <2> HIDE DEF v
  <2> QED
    BY Zenon, <2>1, <2>2
<1>8. WrappedBelow(a) \in Int /\ WrappedBelow(a) <= 3 * W + 1
  <2> DEFINE v == IF a < -W THEN a + 4 * W ELSE a
  <2>1. v \in Int /\ v <= 3 * W + 1
    BY SMT, <1>7
  <2>2. WrappedBelow(a) = v
    BY Zenon, <1>1 DEF WrappedBelow
  <2> HIDE DEF v
  <2> QED
    BY Zenon, <2>1, <2>2
<1>9. Factor(bias, gain) = WrappedBelow(a)
  BY Zenon, <1>3, <1>6, <1>7 DEF Factor
<1> QED
  BY Zenon, <1>1, <1>8, <1>9

LEMMA FreqIsBounded ==
  ASSUME NEW o \in FdsState
  PROVE  Freq(o) \in Int /\ Freq(o) <= fract_range
<1>1. o.freq \in Nat /\ o.freq \in Int /\ Highest(o.freq) <= fract_range
  <2>1. o.freq \in Nat /\ Highest(o.freq) <= fract_range
    BY Zenon, FdsFields, FreqBounds
  <2> QED
    BY SMT, <2>1
<1>2. PICK W \in Nat \ {0} : W = wave_steps
  <2>1. wave_steps \in Nat /\ wave_steps >= 4
    BY Zenon, FdsConstants
  <2>2. wave_steps \in Nat \ {0}
    BY SMT, <2>1
  <2> QED
    BY Zenon, <2>2
<1>3. PICK K \in Int : K = 3 * W + 1 /\ K >= 0
  BY SMT
<1>4. PICK factor \in Int : factor = Factor(SignedBias(o), o.sweep.gain) /\ factor <= K
  <2>1. o.sweep \in Unit /\ o.bias \in 0 .. bias_range - 1
    BY Zenon, FdsFields
  <2>2. o.sweep.gain \in Gain
    BY Zenon, <2>1 DEF Unit
  <2>3. bias_range = 2 * W
    BY Zenon, <1>2, FdsConstants
  <2>4. SignedBias(o) = IF o.bias < W THEN o.bias ELSE o.bias - bias_range
    BY Zenon, <1>2 DEF SignedBias
  <2>5. SignedBias(o) \in Int /\ SignedBias(o) < W
    BY SMT, <2>1, <2>3, <2>4
  <2> QED
    BY Zenon, <1>2, <1>3, <2>2, <2>5, FactorIsBounded
<1>5. PICK x \in Int : x = o.freq * factor
  BY SMT, <1>1
<1>6. PICK y \in Int : y = o.freq * K
  BY SMT, <1>1
<1>7. 0 <= y /\ x <= y
  <2>1. \A b \in Int : o.freq * b = b * o.freq
    BY SMT, <1>1
  <2>2. factor * o.freq <= K * o.freq /\ 0 * o.freq <= K * o.freq
    <3>1. 0 \in Int /\ 0 <= K
      BY SMT, <1>3
    <3> QED
      BY Zenon, <1>1, <1>3, <1>4, <3>1, Products
  <2>3. 0 * o.freq = 0
    BY SMT, <1>1
  <2> QED
    BY Zenon, <1>5, <1>6, <2>1, <2>2, <2>3
<1>8. PICK v \in Int : v = x \div W
  BY Zenon, <1>5, Division
<1>9. PICK z \in Int : z = y \div W
  BY Zenon, <1>6, Division
<1>10. v <= z /\ 0 <= z
  <2>1. x \div W <= y \div W
    BY Zenon, <1>7, Divided
  <2>2. 0 \in Int /\ 0 \div W = 0
    BY SMT
  <2>3. 0 \div W <= y \div W
    BY Zenon, <1>7, <2>2, Divided
  <2> QED
    BY Zenon, <1>8, <1>9, <2>1, <2>2, <2>3
<1>11. Highest(o.freq) = o.freq + z
  BY Zenon, <1>2, <1>3, <1>6, <1>9 DEF Highest
<1>12. fract_range \in Int /\ o.freq + z <= fract_range
  <2>1. fract_range \in Nat \ {0} /\ o.freq + z <= fract_range
    BY Zenon, <1>1, <1>11, FdsConstants
  <2> QED
    BY SMT, <2>1
<1>13. o.freq <= fract_range /\ o.freq + v <= fract_range /\ o.freq + v \in Int
  BY SMT, <1>1, <1>10, <1>12
<1>14. Freq(o) = o.freq \/ Freq(o) = o.freq + v
  BY Zenon, <1>2, <1>4, <1>5, <1>8 DEF Freq
<1> QED
  BY Zenon, <1>1, <1>13, <1>14

(* What a pass leaves as it is.                                            *)
Units(o) == <<o.env, o.sweep, o.lfo, o.lfo_off>>

LEMMA ModFreq ==
  ASSUME NEW o \in FdsState
  PROVE  mod_freq(o) \in Nat /\ mod_freq(o) <= fract_range
<1>1. o.mod_freq \in Nat /\ o.mod_freq <= fract_range
  BY Zenon, FdsFields, FreqBounds
<1>2. 0 \in Nat /\ 0 <= fract_range
  <2>1. fract_range \in Nat \ {0}
    BY Zenon, FdsConstants
  <2> QED
    BY SMT, <2>1
<1> QED
  BY Zenon, <1>1, <1>2 DEF mod_freq

LEMMA Modulating ==
  ASSUME NEW o \in FdsState, mod_freq(o) # 0, NEW clocks \in Nat,
         clocks <= Ceil(o.mod_fract, mod_freq(o))
  PROVE  Modulated(o, clocks) \in FdsState /\ Units(Modulated(o, clocks)) = Units(o)
<1> DEFINE left == o.mod_fract - clocks * mod_freq(o)
           entry == o.mod_wave[o.mod_pos]
           pos == (o.mod_pos + 1) % wave_size
           bias == IF entry = 4 THEN 0 ELSE (o.bias + mod_table[entry + 1]) % bias_range
           fract == left + fract_range
<1>1. PICK f \in Nat \ {0} : f = mod_freq(o) /\ f <= fract_range
  <2>1. mod_freq(o) \in Nat /\ mod_freq(o) <= fract_range
    BY Zenon, ModFreq
  <2>2. mod_freq(o) \in Nat \ {0}
    BY SMT, <2>1
  <2> QED
    BY Zenon, <2>1, <2>2
<1>2. o.mod_fract \in 1 .. fract_range /\ o.mod_fract \in Nat \ {0} /\ fract_range \in Nat
  <2>1. o.mod_fract \in 1 .. fract_range /\ fract_range \in Nat
    BY Zenon, FdsFields, FdsConstants DEF Fraction
  <2> QED
    BY SMT, <2>1
<1>3. PICK C \in Nat \ {0} : C = Ceil(o.mod_fract, f) /\ (C - 1) * f < o.mod_fract /\ clocks <= C
  BY Zenon, <1>1, <1>2, CeilIs DEF Due
<1>4. PICK x \in Nat : x = clocks * f
  BY SMT
<1>5. PICK y \in Nat : y = C * f /\ (C - 1) * f = y - f
  <2>1. C \in Nat /\ f \in Nat
    BY SMT
  <2> QED
    BY Zenon, <2>1, DelayProducts
<1>6. x <= y /\ y - f < o.mod_fract
  <2>1. clocks \in Int /\ C \in Int /\ f \in Nat
    BY SMT
  <2>2. clocks * f <= C * f
    BY Zenon, <1>3, <2>1, Products
  <2> QED
    BY Zenon, <1>3, <1>4, <1>5, <2>2
<1>7. left = o.mod_fract - x
  BY Zenon, <1>1, <1>4
<1>8. PICK l \in Int : l = left /\ (l > 0 => l \in 1 .. fract_range)
                       /\ (~(l > 0) => l + fract_range \in 1 .. fract_range)
  <2> HIDE DEF left
  <2>1. o.mod_fract - x \in Int
        /\ (o.mod_fract - x > 0 => o.mod_fract - x \in 1 .. fract_range)
        /\ (~(o.mod_fract - x > 0) => o.mod_fract - x + fract_range \in 1 .. fract_range)
    BY SMT, <1>1, <1>2, <1>6
  <2> QED
    BY Zenon, <1>7, <2>1
<1>9. pos \in WaveSpot
  BY Zenon, FdsFields, Spots
<1>10. bias \in 0 .. bias_range - 1
  <2>1. entry \in 0 .. 7 /\ o.bias \in 0 .. bias_range - 1
    BY Zenon, FdsFields
  <2> HIDE DEF entry
  <2>2. bias_range \in Nat \ {0} /\ 0 \in 0 .. bias_range - 1 /\ o.bias \in Int
    BY SMT, <2>1, FdsConstants
  <2>3. mod_table[entry + 1] \in Int
    BY SMT, <2>1 DEF mod_table
  <2>4. o.bias + mod_table[entry + 1] \in Int
    BY SMT, <2>2, <2>3
  <2>5. (o.bias + mod_table[entry + 1]) % bias_range \in 0 .. bias_range - 1
    BY Zenon, <2>2, <2>4, Remainder
  <2> QED
    BY Zenon, <2>2, <2>5
<1>11. Modulated(o, clocks) =
         IF left > 0 THEN [o EXCEPT !.mod_fract = left]
         ELSE [o EXCEPT !.mod_fract = fract, !.mod_pos = pos, !.bias = bias]
  BY Zenon DEF Modulated, FdsState
<1>12. fract = l + fract_range
  BY Zenon, <1>8
<1> HIDE DEF left, entry, pos, bias, fract
<1>13. left > 0 => left \in Fraction
  BY Zenon, <1>8 DEF Fraction
<1>14. ~(left > 0) => fract \in Fraction
  BY Zenon, <1>8, <1>12 DEF Fraction
<1>15. CASE left > 0
  <2>1. [o EXCEPT !.mod_fract = left] \in FdsState /\ Units([o EXCEPT !.mod_fract = left]) = Units(o)
    BY Zenon, <1>13, <1>15 DEF FdsState, Units
  <2> QED
    BY Zenon, <1>11, <1>15, <2>1
<1>16. CASE ~(left > 0)
  <2> DEFINE m == [o EXCEPT !.mod_fract = fract, !.mod_pos = pos, !.bias = bias]
  <2>1. m \in FdsState /\ Units(m) = Units(o)
    BY Zenon, <1>9, <1>10, <1>14, <1>16 DEF FdsState, Units
  <2> QED
    BY Zenon, <1>11, <1>16, <2>1
<1> QED
  BY Zenon, <1>15, <1>16

(* The wave of a pass.                                                     *)
FdsStretch(n) ==
  [osc : FdsState, deltas : Deltas(n), end : 0 .. n, sweep_time : Nat, env_time : Nat]

Played(s, o, end, next) ==
  /\ next.end = end /\ next.sweep_time = s.sweep_time /\ next.env_time = s.env_time
  /\ Units(next.osc) = Units(o)

LEMMA WaveIsPlayed ==
  ASSUME NEW n \in Nat, NEW s \in FdsStretch(n), NEW o \in FdsState,
         NEW freq \in Int, freq <= fract_range, NEW end \in s.end .. n
  PROVE  LET next == WavePlayed(s, o, freq, end)
         IN  next \in FdsStretch(n) /\ Played(s, o, end, next)
<1> DEFINE next == WavePlayed(s, o, freq, end)
<1>1. s.end \in 0 .. n /\ s.deltas \in Deltas(n) /\ s.sweep_time \in Nat /\ s.env_time \in Nat
  BY Zenon DEF FdsStretch
<1>2. end \in 0 .. n /\ end \in Int /\ s.end \in 0 .. end /\ s.end \in Nat /\ n \in Int
  BY SMT, <1>1
<1>3. CASE freq <= 0
  <2>1. next = [s EXCEPT !.osc = o, !.end = end]
    BY Zenon, <1>3 DEF WavePlayed
  <2> HIDE DEF next
  <2>2. [s EXCEPT !.osc = o, !.end = end] \in FdsStretch(n)
        /\ Played(s, o, end, [s EXCEPT !.osc = o, !.end = end])
    BY Zenon, <1>2 DEF FdsStretch, Played
  <2>3. next \in FdsStretch(n) /\ Played(s, o, end, next)
    BY Zenon, <2>1, <2>2
  <2> QED
    BY Zenon, <2>3 DEF next
<1>4. CASE ~(freq <= 0)
  <2>1. freq \in 1 .. fract_range /\ freq \in Nat \ {0} /\ freq \in Nat
    <3>1. fract_range \in Nat \ {0}
      BY Zenon, FdsConstants
    <3> QED
      BY SMT, <1>4, <3>1
  <2> DEFINE delay == Ceil(o.wave_fract, freq)
             first == WaveBefore(o, delay, s)
             p == WaveClocked(o, freq, first, s.end, end)
             fract == p.wave_fract - (end - (p.time - p.delay)) * freq
             osc2 == [o EXCEPT !.wave_pos = p.wave_pos, !.last_amp = p.last_amp, !.wave_fract = fract]
  <2>2. o.wave_fract \in Fraction /\ o.wave_pos \in WaveSpot /\ o.last_amp \in Nat
    BY Zenon, FdsFields
  <2>3. delay \in Nat \ {0} /\ Due(o.wave_fract, delay, freq)
    <3>1. o.wave_fract \in Nat \ {0}
      <4>1. fract_range \in Nat \ {0}
        BY Zenon, FdsConstants
      <4> QED
        BY SMT, <2>2, <4>1 DEF Fraction
    <3> QED
      BY Zenon, <2>1, <3>1, CeilIs
  <2> HIDE DEF delay
  <2> DEFINE time == s.end + delay
  <2>4. time \in Nat /\ time - delay = s.end /\ time - delay <= end /\ time >= s.end + 1
    BY SMT, <1>2, <2>3
  <2> HIDE DEF time
  <2>5. first = [wave_pos |-> o.wave_pos, wave_fract |-> o.wave_fract, delay |-> delay,
                 last_amp |-> o.last_amp, deltas |-> s.deltas, time |-> time]
    BY Zenon DEF WaveBefore, time
  <2> HIDE DEF first
  <2>6. first \in WaveState(n)
    BY SMT, <1>1, <2>2, <2>3, <2>4, <2>5 DEF WaveState
  <2>7. first.time = time /\ first.delay = delay /\ first.wave_fract = o.wave_fract
    BY SMT, <2>5
  <2>8. first \in WaveLoop(n, freq, end) /\ first.time >= s.end + 1
    BY Zenon, <2>3, <2>4, <2>6, <2>7 DEF WaveLoop
  <2>9. p \in WaveLoop(n, freq, end) /\ p.time > end
    BY Zenon, <1>2, <2>1, <2>8, WaveIsClocked
  <2>10. next = [s EXCEPT !.end = end, !.deltas = p.deltas, !.osc = osc2]
    BY Zenon, <1>4 DEF WavePlayed, WaveAfter, first, delay
  <2> HIDE DEF p
  <2>11. /\ p.wave_pos \in WaveSpot /\ p.wave_fract \in Fraction /\ p.delay \in Nat \ {0}
         /\ p.last_amp \in Nat /\ p.deltas \in Deltas(n) /\ p.time \in Nat
         /\ Due(p.wave_fract, p.delay, freq) /\ p.time - p.delay <= end
    BY Zenon, <2>9 DEF WaveLoop, WaveState
  <2>12. PICK j \in Nat : j = end - (p.time - p.delay) /\ j <= p.delay - 1
    BY SMT, <1>2, <2>9, <2>11
  <2>13. PICK x \in Nat : x = j * freq
    BY SMT, <2>1
  <2>14. PICK y \in Int : y = (p.delay - 1) * freq
    BY SMT, <2>1, <2>11
  <2>15. x <= y /\ y < p.wave_fract
    <3>1. j \in Int /\ p.delay - 1 \in Int
      BY SMT, <2>11
    <3>2. j * freq <= (p.delay - 1) * freq
      BY Zenon, <2>1, <2>12, <3>1, Products
    <3> QED
      BY Zenon, <2>11, <2>13, <2>14, <3>2 DEF Due
  <2>16. fract = p.wave_fract - x
    BY Zenon, <2>12, <2>13
  <2> HIDE DEF fract
  <2>17. fract \in Fraction
    <3>1. fract_range \in Nat \ {0}
      BY Zenon, FdsConstants
    <3> QED
      BY SMT, <2>11, <2>15, <2>16, <3>1 DEF Fraction
  <2>18. osc2 \in FdsState /\ Units(osc2) = Units(o)
    BY Zenon, <2>11, <2>17 DEF FdsState, Units
  <2> HIDE DEF osc2
  <2> DEFINE after == [s EXCEPT !.end = end, !.deltas = p.deltas, !.osc = osc2]
  <2>19. after \in FdsStretch(n) /\ Played(s, o, end, after)
    <3> DEFINE deltas == p.deltas
    <3>1. deltas \in Deltas(n)
      BY Zenon, <2>11
    <3> HIDE DEF deltas
    <3>2. LET a == [s EXCEPT !.end = end, !.deltas = deltas, !.osc = osc2]
          IN  /\ a \in FdsStretch(n) /\ a.end = end /\ a.sweep_time = s.sweep_time
              /\ a.env_time = s.env_time /\ a.osc = osc2
      BY Zenon, <1>2, <2>18, <3>1 DEF FdsStretch
    <3> QED
      BY Zenon, <2>18, <3>2 DEF Played, deltas
  <2>20. next = after
    BY Zenon, <2>10
  <2> HIDE DEF next, after
  <2>21. next \in FdsStretch(n) /\ Played(s, o, end, next)
    BY Zenon, <2>19, <2>20
  <2> QED
    BY Zenon, <2>21 DEF next
<1> QED
  BY Zenon, <1>3, <1>4

(* The units, the end of a pass, and a pass.                               *)

LEMMA UnitSteps ==
  ASSUME NEW u \in Unit
  PROVE  Stepped(u) \in Unit /\ Stepped(u).speed = u.speed
<1> DEFINE gain == u.gain + (IF u.up THEN 1 ELSE -1)
<1>1. u.gain \in Gain /\ gain_unit \in Nat \ {0}
  BY Zenon, FdsConstants DEF Unit
<1>2. ~(gain < 0 \/ (u.up /\ gain > gain_top)) => gain \in Gain
  BY SMT, <1>1 DEF Gain, gain_top
<1>3. Stepped(u) = IF gain < 0 \/ (u.up /\ gain > gain_top) THEN [u EXCEPT !.off = TRUE]
                   ELSE [u EXCEPT !.gain = gain]
  BY Zenon DEF Stepped
<1>4. [u EXCEPT !.off = TRUE] \in Unit /\ [u EXCEPT !.off = TRUE].speed = u.speed
  BY Zenon DEF Unit
<1> HIDE DEF gain
<1>5. gain \in Gain => [u EXCEPT !.gain = gain] \in Unit /\ [u EXCEPT !.gain = gain].speed = u.speed
  BY Zenon DEF Unit
<1> QED
  BY Zenon, <1>2, <1>3, <1>4, <1>5

LEMMA UnitPeriodIs ==
  ASSUME NEW o \in FdsState, NEW u \in Unit
  PROVE  UnitPeriod(o, u) \in Nat
<1>1. o.lfo \in 0 .. low_range - 1 /\ low_range \in Nat \ {0} /\ lfo_tempo \in Nat \ {0}
      /\ u.speed \in Nat \ {0}
  BY Zenon, FdsFields, FdsConstants DEF Unit
<1>2. o.lfo \in Nat /\ lfo_tempo \in Nat /\ u.speed \in Nat /\ 0 \in Nat
  BY SMT, <1>1
<1>3. o.lfo * lfo_tempo \in Nat
  BY SMT, <1>2
<1>4. \A a, b \in Nat : a * b \in Nat
  BY SMT
<1>5. o.lfo * lfo_tempo * u.speed \in Nat
  BY Zenon, <1>2, <1>3, <1>4
<1> QED
  BY Zenon, <1>2, <1>5 DEF UnitPeriod

(* A unit steps no earlier than now and, if in the run, at a period.       *)
OnTime(o, u, time, end, n) == end <= time /\ (time < n => UnitPeriod(o, u) \in Nat \ {0})

Timely(s, n) ==
  /\ OnTime(s.osc, s.osc.sweep, s.sweep_time, s.end, n)
  /\ OnTime(s.osc, s.osc.env, s.env_time, s.end, n)

Later(s, n) == s.end < n => s.end < s.sweep_time /\ s.end < s.env_time

LEMMA StretchFields ==
  ASSUME NEW n \in Nat, NEW s \in FdsStretch(n)
  PROVE  /\ s.osc \in FdsState /\ s.deltas \in Deltas(n) /\ s.end \in 0 .. n
         /\ s.sweep_time \in Nat /\ s.env_time \in Nat
         /\ s.osc.sweep \in Unit /\ s.osc.env \in Unit
BY Zenon, FdsFields DEF FdsStretch

(* The time of a unit after its step, if that is due.                      *)
LEMMA TimeMoves ==
  ASSUME NEW n \in Nat, NEW o \in FdsState, NEW u \in Unit, NEW time \in Nat, NEW end \in 0 .. n,
         OnTime(o, u, time, end, n)
  PROVE  LET later == time + IF time <= end THEN UnitPeriod(o, u) ELSE 0
         IN  later \in Nat /\ OnTime(o, u, later, end, n) /\ (end < n => end < later)
<1>1. PICK p \in Nat : p = UnitPeriod(o, u)
  BY Zenon, UnitPeriodIs
<1>2. end <= time /\ (time < n => p \in Nat \ {0})
  BY Zenon, <1>1 DEF OnTime
<1> DEFINE later == time + IF time <= end THEN p ELSE 0
<1>3. later \in Nat /\ end <= later /\ (later < n => p \in Nat \ {0}) /\ (end < n => end < later)
  BY SMT, <1>2
<1> QED
  BY Zenon, <1>1, <1>3 DEF OnTime

LEMMA SamePeriod ==
  ASSUME NEW o \in FdsState, NEW p \in FdsState, p.lfo = o.lfo, p.lfo_off = o.lfo_off,
         NEW u \in Unit, NEW v \in Unit, v.speed = u.speed,
         NEW n \in Nat, NEW time \in Nat, NEW end \in 0 .. n, OnTime(o, u, time, end, n)
  PROVE  OnTime(p, v, time, end, n)
<1>1. UnitPeriod(p, v) = UnitPeriod(o, u)
  BY Zenon DEF UnitPeriod
<1> QED
  BY Zenon, <1>1 DEF OnTime

LEMMA UnitsAreStepped ==
  ASSUME NEW n \in Nat, NEW s \in FdsStretch(n), Timely(s, n)
  PROVE  LET t == UnitsStepped(s)
         IN  t \in FdsStretch(n) /\ t.end = s.end /\ Timely(t, n) /\ Later(t, n)
<1> DEFINE o == s.osc
           sweep == IF s.sweep_time <= s.end THEN Stepped(o.sweep) ELSE o.sweep
           env == IF s.env_time <= s.end THEN Stepped(o.env) ELSE o.env
           sweep_time == s.sweep_time + IF s.sweep_time <= s.end THEN UnitPeriod(o, o.sweep) ELSE 0
           env_time == s.env_time + IF s.env_time <= s.end THEN UnitPeriod(o, o.env) ELSE 0
           osc2 == [o EXCEPT !.sweep = sweep, !.env = env]
           t == UnitsStepped(s)
           u == [s EXCEPT !.osc = osc2, !.sweep_time = sweep_time, !.env_time = env_time]
<1>1. /\ o \in FdsState /\ s.end \in 0 .. n /\ s.sweep_time \in Nat /\ s.env_time \in Nat
      /\ o.sweep \in Unit /\ o.env \in Unit
  BY Zenon, StretchFields
<1>2. sweep \in Unit /\ sweep.speed = o.sweep.speed /\ env \in Unit /\ env.speed = o.env.speed
  BY Zenon, <1>1, UnitSteps
<1>3. OnTime(o, o.sweep, s.sweep_time, s.end, n) /\ OnTime(o, o.env, s.env_time, s.end, n)
  BY Zenon DEF Timely
<1>4. /\ sweep_time \in Nat /\ OnTime(o, o.sweep, sweep_time, s.end, n)
      /\ (s.end < n => s.end < sweep_time)
  BY Zenon, <1>1, <1>3, TimeMoves
<1>5. /\ env_time \in Nat /\ OnTime(o, o.env, env_time, s.end, n) /\ (s.end < n => s.end < env_time)
  BY Zenon, <1>1, <1>3, TimeMoves
<1>6. t = u
  BY Zenon DEF UnitsStepped, FdsStretch, FdsState
<1> HIDE DEF sweep, env, sweep_time, env_time
<1>7. /\ osc2 \in FdsState /\ osc2.sweep = sweep /\ osc2.env = env /\ osc2.lfo = o.lfo
      /\ osc2.lfo_off = o.lfo_off
  BY Zenon, <1>1, <1>2 DEF FdsState
<1> HIDE DEF osc2
<1>8. /\ u \in FdsStretch(n) /\ u.end = s.end /\ u.osc = osc2 /\ u.sweep_time = sweep_time
      /\ u.env_time = env_time
  BY Zenon, <1>4, <1>5, <1>7 DEF FdsStretch
<1> HIDE DEF o, u, t
<1>9. OnTime(osc2, sweep, sweep_time, s.end, n) /\ OnTime(osc2, env, env_time, s.end, n)
  BY Zenon, <1>1, <1>2, <1>4, <1>5, <1>7, SamePeriod
<1>10. t \in FdsStretch(n) /\ t.end = s.end /\ Timely(t, n) /\ Later(t, n)
  BY Zenon, <1>4, <1>5, <1>6, <1>7, <1>8, <1>9 DEF Timely, Later
<1> QED
  BY Zenon, <1>10 DEF t

LEMMA PassEnds ==
  ASSUME NEW n \in Nat, NEW s \in FdsStretch(n), Timely(s, n)
  PROVE  /\ PassEnd(s, n) \in s.end .. n /\ PassEnd(s, n) <= s.sweep_time
         /\ PassEnd(s, n) <= s.env_time
         /\ Later(s, n) /\ s.end < n => PassEnd(s, n) >= s.end + 1
         /\ mod_freq(s.osc) # 0 =>
              PassEnd(s, n) - s.end \in Nat
              /\ PassEnd(s, n) - s.end <= Ceil(s.osc.mod_fract, mod_freq(s.osc))
<1> DEFINE next == Earlier(n, Earlier(s.env_time, s.sweep_time))
<1>1. s.osc \in FdsState /\ s.end \in 0 .. n /\ s.sweep_time \in Nat /\ s.env_time \in Nat
  BY Zenon, StretchFields
<1>2. s.end <= s.sweep_time /\ s.end <= s.env_time
  BY Zenon DEF Timely, OnTime
<1>3. Later(s, n) /\ s.end < n => s.end < s.sweep_time /\ s.end < s.env_time
  BY Zenon DEF Later
<1>4. /\ next \in s.end .. n /\ next <= s.sweep_time /\ next <= s.env_time
      /\ Later(s, n) /\ s.end < n => next >= s.end + 1
  BY SMT, <1>1, <1>2, <1>3 DEF Earlier
<1>5. CASE mod_freq(s.osc) = 0
  <2>1. PassEnd(s, n) = next
    BY Zenon, <1>5 DEF PassEnd
  <2> QED
    BY Zenon, <1>4, <1>5, <2>1
<1>6. CASE mod_freq(s.osc) # 0
  <2>1. PICK f \in Nat \ {0} : f = mod_freq(s.osc)
    <3>1. mod_freq(s.osc) \in Nat
      BY Zenon, <1>1, ModFreq
    <3> QED
      BY SMT, <1>6, <3>1
  <2>2. s.osc.mod_fract \in Nat \ {0}
    <3>1. s.osc.mod_fract \in Fraction /\ fract_range \in Nat \ {0}
      BY Zenon, <1>1, FdsFields, FdsConstants
    <3> QED
      BY SMT, <3>1 DEF Fraction
  <2>3. PICK c \in Nat \ {0} : c = Ceil(s.osc.mod_fract, f)
    BY Zenon, <2>2, CeilIs
  <2>4. PassEnd(s, n) = Earlier(next, s.end + c)
    BY Zenon, <1>6, <2>1, <2>3 DEF PassEnd
  <2> HIDE DEF next
  <2>5. PICK x \in Int : x = Earlier(next, s.end + c) /\ x \in s.end .. n /\ x <= s.sweep_time
          /\ x <= s.env_time /\ (Later(s, n) /\ s.end < n => x >= s.end + 1)
          /\ x - s.end \in Nat /\ x - s.end <= c
    BY SMT, <1>1, <1>4 DEF Earlier
  <2> QED
    BY Zenon, <2>1, <2>3, <2>4, <2>5
<1> QED
  BY Zenon, <1>5, <1>6

Passed(n) == {s \in FdsStretch(n) : Timely(s, n)}

LEMMA PassIsMade ==
  ASSUME NEW n \in Nat, NEW s \in Passed(n)
  PROVE  /\ FdsPass(s, n) \in Passed(n) /\ FdsPass(s, n).end >= s.end
         /\ s.end < n => FdsPass(s, n).end >= s.end + 1
<1> DEFINE t == UnitsStepped(s)
           end == PassEnd(t, n)
           o == IF mod_freq(t.osc) = 0 THEN t.osc ELSE Modulated(t.osc, end - t.end)
           freq == Freq(t.osc)
           next == WavePlayed(t, o, freq, end)
<1>1. FdsPass(s, n) = next
  BY Zenon DEF FdsPass, PassFrom, PassTo
<1>2. s \in FdsStretch(n) /\ Timely(s, n)
  BY Zenon DEF Passed
<1>3. t \in FdsStretch(n) /\ t.end = s.end /\ Timely(t, n) /\ Later(t, n)
  BY Zenon, <1>2, UnitsAreStepped
<1> HIDE DEF t
<1>4. /\ t.osc \in FdsState /\ t.end \in 0 .. n /\ t.sweep_time \in Nat /\ t.env_time \in Nat
      /\ t.osc.sweep \in Unit /\ t.osc.env \in Unit
  BY Zenon, <1>3, StretchFields
<1>5. /\ end \in t.end .. n /\ end <= t.sweep_time /\ end <= t.env_time
      /\ (s.end < n => end >= s.end + 1)
      /\ (mod_freq(t.osc) # 0 =>
            end - t.end \in Nat /\ end - t.end <= Ceil(t.osc.mod_fract, mod_freq(t.osc)))
  BY Zenon, <1>3, PassEnds
<1> HIDE DEF end
<1>6. o \in FdsState /\ Units(o) = Units(t.osc)
  <2>1. CASE mod_freq(t.osc) = 0
    BY Zenon, <1>4, <2>1
  <2>2. CASE mod_freq(t.osc) # 0
    <3>1. PICK clocks \in Nat : clocks = end - t.end
      BY Zenon, <1>5, <2>2
    <3>2. clocks <= Ceil(t.osc.mod_fract, mod_freq(t.osc))
      BY Zenon, <1>5, <2>2, <3>1
    <3>3. Modulated(t.osc, clocks) \in FdsState /\ Units(Modulated(t.osc, clocks)) = Units(t.osc)
      BY Zenon, <1>4, <2>2, <3>2, Modulating
    <3>4. o = Modulated(t.osc, clocks)
      BY Zenon, <2>2, <3>1
    <3> QED
      BY Zenon, <3>3, <3>4
  <2> QED
    BY Zenon, <2>1, <2>2
<1> HIDE DEF o
<1>7. freq \in Int /\ freq <= fract_range
  BY Zenon, <1>4, FreqIsBounded
<1> HIDE DEF freq
<1>8. next \in FdsStretch(n) /\ Played(t, o, end, next)
  BY Zenon, <1>3, <1>5, <1>6, <1>7, WaveIsPlayed
<1> HIDE DEF next
<1>9. /\ next.end = end /\ next.sweep_time = t.sweep_time /\ next.env_time = t.env_time
      /\ next.osc \in FdsState /\ Units(next.osc) = Units(t.osc)
  BY Zenon, <1>6, <1>8, StretchFields DEF Played
<1>10. /\ next.osc.env = t.osc.env /\ next.osc.sweep = t.osc.sweep
       /\ next.osc.lfo = t.osc.lfo /\ next.osc.lfo_off = t.osc.lfo_off
  <2> DEFINE a1 == next.osc.env  a2 == next.osc.sweep  a3 == next.osc.lfo  a4 == next.osc.lfo_off
             b1 == t.osc.env  b2 == t.osc.sweep  b3 == t.osc.lfo  b4 == t.osc.lfo_off
  <2>1. <<a1, a2, a3, a4>> = <<b1, b2, b3, b4>>
    BY Zenon, <1>9 DEF Units
  <2> HIDE DEF a1, a2, a3, a4, b1, b2, b3, b4
  <2>2. a1 = b1 /\ a2 = b2 /\ a3 = b3 /\ a4 = b4
    BY SMT, <2>1
  <2> QED
    BY Zenon, <2>2 DEF a1, a2, a3, a4, b1, b2, b3, b4
<1>11. next.osc.sweep \in Unit /\ next.osc.env \in Unit /\ end \in 0 .. n
  <2>1. end \in 0 .. n
    BY SMT, <1>4, <1>5
  <2> QED
    BY Zenon, <1>4, <1>10, <2>1
<1>12. OnTime(t.osc, t.osc.sweep, t.sweep_time, end, n) /\ OnTime(t.osc, t.osc.env, t.env_time, end, n)
  BY Zenon, <1>3, <1>5 DEF Timely, OnTime
<1>13. OnTime(next.osc, next.osc.sweep, t.sweep_time, end, n)
       /\ OnTime(next.osc, next.osc.env, t.env_time, end, n)
  <2>1. /\ UnitPeriod(next.osc, next.osc.sweep) = UnitPeriod(t.osc, t.osc.sweep)
        /\ UnitPeriod(next.osc, next.osc.env) = UnitPeriod(t.osc, t.osc.env)
    BY Zenon, <1>10 DEF UnitPeriod
  <2> QED
    BY Zenon, <1>12, <2>1 DEF OnTime
<1>14. next \in Passed(n)
  BY Zenon, <1>8, <1>9, <1>13 DEF Passed, Timely
<1>15. end >= s.end
  BY SMT, <1>3, <1>4, <1>5
<1> QED
  BY Zenon, <1>1, <1>5, <1>9, <1>14, <1>15

(* The passes of a run.                                                    *)
LEMMA PassesAreMade ==
  ASSUME NEW n \in Nat, NEW first \in Passed(n)
  PROVE  FdsPasses(first, n) \in Passed(n) /\ FdsPasses(first, n).end = n
<1> DEFINE D == Passed(n)
           begun == FdsPass(first, n)
           next(s) == IF s.end >= n THEN s ELSE FdsPass(s, n)
           step == [x \in D \X (0 .. n) |-> next(x[1])]
           Eq(g) == g = [k \in 0 .. n |-> IF k = 0 THEN begun ELSE next(g[k - 1])]
<1>1. ASSUME NEW s \in D PROVE s.end \in 0 .. n
  BY Zenon, StretchFields DEF Passed
<1>2. ASSUME NEW s \in D PROVE next(s) \in D
  BY Zenon, PassIsMade
<1>3. begun \in D
  BY Zenon, PassIsMade
<1>4. ASSUME NEW s \in D, ~(s.end >= n) PROVE FdsPass(s, n).end >= s.end + 1
  <2>1. s.end < n
    BY SMT, <1>1, <1>4
  <2> QED
    BY Zenon, <2>1, PassIsMade
<1> HIDE DEF D, next, begun
<1>5. ASSUME NEW d \in D, NEW k \in 0 .. n PROVE step[<<d, k>>] = next(d)
  BY Zenon
<1> HIDE DEF step
<1>6. PICK f \in [0 .. n -> D] : IsLoop(f, begun, step, 0 .. n)
  <2>1. Closed(D, step, 0 .. n)
    BY Zenon, <1>2, <1>5 DEF Closed
  <2> QED
    BY Zenon, <1>3, <2>1, LoopExists
<1>7. Eq(f)
  <2>1. ASSUME NEW k \in 0 .. n PROVE f[k] = IF k = 0 THEN begun ELSE next(f[k - 1])
    <3>1. f[k] = IF k = 0 THEN begun ELSE step[<<f[k - 1], k>>]
      BY Zenon, <1>6 DEF IsLoop
    <3>2. k # 0 => f[k - 1] \in D
      BY Zenon, <1>6, Indices
    <3> QED
      BY Zenon, <1>5, <3>1, <3>2
  <2> QED
    BY Zenon, <2>1
<1>8. PICK g : Eq(g) /\ FdsPasses(first, n) = g[n]
  <2>1. Eq(CHOOSE g : Eq(g))
    <3> HIDE DEF Eq
    <3> QED
      BY Zenon, <1>7
  <2>2. FdsPasses(first, n) = (CHOOSE g : Eq(g))[n]
    BY Zenon DEF FdsPasses, next, begun
  <2> HIDE DEF Eq
  <2> QED
    BY Zenon, <2>1, <2>2
<1>9. g[0] = begun /\ \A k \in 1 .. n : g[k] = next(g[k - 1])
  BY Zenon, <1>8, Indices
<1>10. \A k \in 0 .. n : g[k] \in D
  <2>1. \A k \in 1 .. n : g[k - 1] \in D => g[k] \in D
    BY Zenon, <1>2, <1>9
  <2> QED
    BY Zenon, <1>3, <1>9, <2>1, Stays
<1> DEFINE S == {k \in 0 .. n : g[k].end >= k}
<1>11. 0 .. n \subseteq S
  <2>1. 0 \in S
    <3>1. g[0].end \in 0 .. n /\ 0 \in 0 .. n
      BY Zenon, <1>1, <1>10, Indices
    <3>2. g[0].end >= 0
      BY SMT, <3>1
    <3> QED
      BY Zenon, <3>1, <3>2
  <2>2. ASSUME NEW k \in 1 .. n, k - 1 \in S PROVE k \in S
    <3>1. /\ g[k] = next(g[k - 1]) /\ g[k - 1] \in D /\ g[k] \in D /\ k \in 0 .. n
          /\ k - 1 \in 0 .. n
      BY Zenon, <1>9, <1>10, Indices
    <3>2. g[k - 1].end \in 0 .. n /\ g[k].end \in 0 .. n /\ g[k - 1].end >= k - 1
      BY Zenon, <1>1, <2>2, <3>1
    <3>3. CASE g[k - 1].end >= n
      <4>1. g[k] = g[k - 1]
        BY Zenon, <3>1, <3>3 DEF next
      <4>2. g[k - 1].end >= k
        BY SMT, <3>2, <3>3
      <4> QED
        BY Zenon, <3>1, <4>1, <4>2
    <3>4. CASE ~(g[k - 1].end >= n)
      <4>1. g[k] = FdsPass(g[k - 1], n)
        BY Zenon, <3>1, <3>4 DEF next
      <4>2. g[k].end >= g[k - 1].end + 1
        BY Zenon, <1>4, <3>1, <3>4, <4>1
      <4>3. g[k].end >= k
        BY SMT, <3>2, <4>2
      <4> QED
        BY Zenon, <3>1, <4>3
    <3> QED
      BY Zenon, <3>3, <3>4
  <2> HIDE DEF S
  <2> QED
    BY Zenon, <2>1, <2>2, Along
<1>12. g[n] \in D /\ g[n].end = n
  <2>1. n \in 0 .. n
    BY Zenon, Indices
  <2>2. g[n] \in D /\ g[n].end >= n /\ g[n].end \in 0 .. n
    BY Zenon, <1>1, <1>10, <1>11, <2>1
  <2>3. g[n].end = n
    BY SMT, <2>2
  <2> QED
    BY Zenon, <2>2, <2>3
<1> QED
  BY Zenon, <1>8, <1>12 DEF D

(* A run of the channel.                                                   *)
LEMMA FdsRun ==
  ASSUME NEW o \in FdsState, NEW n \in Nat
  PROVE  /\ RunFds(o, n).osc \in FdsState /\ RunFds(o, n).marks \in BOOLEAN
         /\ ~RunFds(o, n).marks => RunFds(o, n).deltas = Silence(n)
<1>1. CASE ~FdsPlaying(o)
  <2>1. RunFds(o, n) = Unheard(o, n)
    BY Zenon, <1>1 DEF RunFds
  <2>2. Unheard(o, n).osc = o /\ Unheard(o, n).marks = FALSE /\ Unheard(o, n).deltas = Silence(n)
    BY SMT DEF Unheard
  <2> QED
    BY Zenon, <2>1, <2>2
<1>2. CASE FdsPlaying(o)
  <2> DEFINE sweep_time == IF Idle(o, o.sweep) THEN n ELSE o.sweep.delay
             env_time == IF Idle(o, o.env) THEN n ELSE o.env.delay
             first == [osc |-> o, deltas |-> Silence(n), end |-> 0,
                       sweep_time |-> sweep_time, env_time |-> env_time]
             last == FdsPasses(first, n)
             run == FdsRunEnd(last, n)
  <2>1. o.sweep \in Unit /\ o.env \in Unit
    BY Zenon, FdsFields
  <2>2. sweep_time \in Nat /\ env_time \in Nat
    BY Zenon, <2>1 DEF Unit
  <2>3. OnTime(o, o.sweep, sweep_time, 0, n)
    <3>1. ~(n < n) /\ 0 <= sweep_time
      BY SMT, <2>2
    <3>2. UnitPeriod(o, o.sweep) # 0 => UnitPeriod(o, o.sweep) \in Nat \ {0}
      <4>1. UnitPeriod(o, o.sweep) \in Nat
        BY Zenon, <2>1, UnitPeriodIs
      <4> QED
        BY SMT, <4>1
    <3> QED
      BY Zenon, <3>1, <3>2 DEF OnTime, Idle
  <2>4. OnTime(o, o.env, env_time, 0, n)
    <3>1. ~(n < n) /\ 0 <= env_time
      BY SMT, <2>2
    <3>2. UnitPeriod(o, o.env) # 0 => UnitPeriod(o, o.env) \in Nat \ {0}
      <4>1. UnitPeriod(o, o.env) \in Nat
        BY Zenon, <2>1, UnitPeriodIs
      <4> QED
        BY SMT, <4>1
    <3> QED
      BY Zenon, <3>1, <3>2 DEF OnTime, Idle
  <2> HIDE DEF sweep_time, env_time
  <2>5. first \in FdsStretch(n)
    <3>1. 0 \in 0 .. n /\ 0 \in Int
      BY SMT
    <3>2. Silence(n) \in Deltas(n)
      BY Zenon, <3>1 DEF Silence, Deltas
    <3> QED
      BY SMT, <2>2, <3>1, <3>2 DEF FdsStretch
  <2>6. /\ first.osc = o /\ first.end = 0 /\ first.sweep_time = sweep_time
        /\ first.env_time = env_time
    BY SMT
  <2> HIDE DEF first
  <2>7. first \in Passed(n)
    BY Zenon, <2>3, <2>4, <2>5, <2>6 DEF Passed, Timely
  <2>8. last \in Passed(n) /\ last.end = n
    BY Zenon, <2>7, PassesAreMade
  <2>9. RunFds(o, n) = run
    BY Zenon, <1>2 DEF RunFds, first, sweep_time, env_time
  <2> HIDE DEF last
  <2>10. last \in FdsStretch(n) /\ n <= last.sweep_time /\ n <= last.env_time
    BY Zenon, <2>8 DEF Passed, Timely, OnTime
  <2>11. /\ last.osc \in FdsState /\ last.sweep_time \in Nat /\ last.env_time \in Nat
         /\ last.osc.sweep \in Unit /\ last.osc.env \in Unit
    BY Zenon, <2>10, StretchFields
  <2>12. last.sweep_time - n \in Nat /\ last.env_time - n \in Nat
    BY SMT, <2>10, <2>11
  <2> DEFINE late == last.sweep_time - n
             later == last.env_time - n
             sweep == [last.osc.sweep EXCEPT !.delay = late]
             env == [last.osc.env EXCEPT !.delay = later]
             osc2 == [last.osc EXCEPT !.sweep = sweep, !.env = env]
  <2>13. sweep \in Unit /\ env \in Unit
    <3> HIDE DEF late, later
    <3>1. late \in Nat /\ later \in Nat
      BY Zenon, <2>12 DEF late, later
    <3> QED
      BY Zenon, <2>11, <3>1 DEF Unit
  <2>14. [last.osc EXCEPT !.sweep.delay = late, !.env.delay = later] = osc2
    BY Zenon, <2>11 DEF FdsState
  <2>15. osc2 \in FdsState
    <3> HIDE DEF sweep, env
    <3> QED
      BY Zenon, <2>11, <2>13 DEF FdsState
  <2>16. run.osc = [last.osc EXCEPT !.sweep.delay = late, !.env.delay = later] /\ run.marks = TRUE
    BY Zenon DEF FdsRunEnd
  <2> HIDE DEF run
  <2> QED
    BY Zenon, <2>9, <2>14, <2>15, <2>16
<1> QED
  BY Zenon, <1>1, <1>2

-----------------------------------------------------------------------------
(* All of them.                                                            *)

States ==
  UNION {SquareOsc, TriangleOsc, NoiseOsc, Mmc5SquareOsc, PcmOsc, Vrc6SquareOsc, SawOsc, Fme7Osc,
         NamcoOsc, FdsState, Vrc7State}

LEMMA Sorts ==
  ASSUME NEW o \in States
  PROVE  /\ o.kind \in squares => o \in SquareOsc
         /\ o.kind = "triangle" => o \in TriangleOsc
         /\ o.kind = "noise" => o \in NoiseOsc
         /\ o.kind = "mmc5_square" => o \in Mmc5SquareOsc
         /\ o.kind = "mmc5_pcm" => o \in PcmOsc
         /\ o.kind = "vrc6_square" => o \in Vrc6SquareOsc
         /\ o.kind = "vrc6_saw" => o \in SawOsc
         /\ o.kind = "fme7" => o \in Fme7Osc
         /\ o.kind = "namco" => o \in NamcoOsc
         /\ o.kind = "fds" => o \in FdsState
         /\ o.kind = "vrc7" => o \in Vrc7State
<1>1. \/ o \in SquareOsc \/ o \in TriangleOsc \/ o \in NoiseOsc \/ o \in Mmc5SquareOsc
      \/ o \in PcmOsc \/ o \in Vrc6SquareOsc \/ o \in SawOsc \/ o \in Fme7Osc \/ o \in NamcoOsc
      \/ o \in FdsState \/ o \in Vrc7State
  BY Zenon DEF States
<1>2. /\ o \in SquareOsc => o.kind = "square1" \/ o.kind = "square2"
      /\ o \in TriangleOsc => o.kind = "triangle"
      /\ o \in NoiseOsc => o.kind = "noise"
  BY Zenon DEF SquareOsc, TriangleOsc, NoiseOsc, squares
<1>3. /\ o \in Mmc5SquareOsc => o.kind = "mmc5_square"
      /\ o \in PcmOsc => o.kind = "mmc5_pcm"
      /\ o \in FdsState => o.kind = "fds"
      /\ o \in Vrc7State => o.kind = "vrc7"
  BY Zenon DEF Mmc5SquareOsc, PcmOsc, FdsState, Vrc7State
<1>4. /\ o \in Vrc6SquareOsc => o.kind = "vrc6_square"
      /\ o \in SawOsc => o.kind = "vrc6_saw"
      /\ o \in Fme7Osc => o.kind = "fme7"
      /\ o \in NamcoOsc => o.kind = "namco"
  BY Zenon DEF Vrc6SquareOsc, SawOsc, Fme7Osc, NamcoOsc
<1>5. o.kind \in squares <=> o.kind = "square1" \/ o.kind = "square2"
  BY Zenon DEF squares
<1> QED
  BY SMT, <1>1, <1>2, <1>3, <1>4, <1>5

LEMMA KindOf ==
  ASSUME NEW o \in States
  PROVE  \/ o.kind \in squares /\ o \in SquareOsc
         \/ o.kind = "triangle" /\ o \in TriangleOsc
         \/ o.kind = "noise" /\ o \in NoiseOsc
         \/ o.kind = "mmc5_square" /\ o \in Mmc5SquareOsc
         \/ o.kind = "mmc5_pcm" /\ o \in PcmOsc
         \/ o.kind = "vrc6_square" /\ o \in Vrc6SquareOsc
         \/ o.kind = "vrc6_saw" /\ o \in SawOsc
         \/ o.kind = "fme7" /\ o \in Fme7Osc
         \/ o.kind = "namco" /\ o \in NamcoOsc
         \/ o.kind = "fds" /\ o \in FdsState
         \/ o.kind = "vrc7" /\ o \in Vrc7State
<1>1. \/ o \in SquareOsc \/ o \in TriangleOsc \/ o \in NoiseOsc \/ o \in Mmc5SquareOsc
      \/ o \in PcmOsc \/ o \in Vrc6SquareOsc \/ o \in SawOsc \/ o \in Fme7Osc \/ o \in NamcoOsc
      \/ o \in FdsState \/ o \in Vrc7State
  BY Zenon DEF States
<1>2. /\ o \in SquareOsc => o.kind \in squares
      /\ o \in TriangleOsc => o.kind = "triangle"
      /\ o \in NoiseOsc => o.kind = "noise"
  BY Zenon DEF SquareOsc, TriangleOsc, NoiseOsc
<1>3. /\ o \in Mmc5SquareOsc => o.kind = "mmc5_square"
      /\ o \in PcmOsc => o.kind = "mmc5_pcm"
      /\ o \in FdsState => o.kind = "fds"
      /\ o \in Vrc7State => o.kind = "vrc7"
  BY Zenon DEF Mmc5SquareOsc, PcmOsc, FdsState, Vrc7State
<1>4. /\ o \in Vrc6SquareOsc => o.kind = "vrc6_square"
      /\ o \in SawOsc => o.kind = "vrc6_saw"
      /\ o \in Fme7Osc => o.kind = "fme7"
      /\ o \in NamcoOsc => o.kind = "namco"
  BY Zenon DEF Vrc6SquareOsc, SawOsc, Fme7Osc, NamcoOsc
<1> QED
  BY Zenon, <1>1, <1>2, <1>3, <1>4

(* Which run it is.                                                        *)
LEMMA RunOf ==
  ASSUME NEW o, NEW n
  PROVE  /\ o.kind \in squares => Run(o, n) = RunSquare(o, n)
         /\ o.kind = "triangle" => Run(o, n) = RunTriangle(o, n)
         /\ o.kind = "noise" => Run(o, n) = RunNoise(o, n)
         /\ o.kind = "mmc5_square" => Run(o, n) = RunMmc5Square(o, n)
         /\ o.kind = "mmc5_pcm" => Run(o, n) = Unheard(o, n)
         /\ o.kind = "vrc6_square" => Run(o, n) = RunVrc6Square(o, n)
         /\ o.kind = "vrc6_saw" => Run(o, n) = RunSaw(o, n)
         /\ o.kind = "fme7" => Run(o, n) = RunFme7(o, n)
         /\ o.kind = "namco" => Run(o, n) = RunNamco(o, n)
         /\ o.kind = "fds" => Run(o, n) = RunFds(o, n)
         /\ o.kind = "vrc7" => Run(o, n) = RunVrc7(o, n)
<1>1. o.kind \in NesKinds => Run(o, n) = NesRun(o, n)
  BY SMT DEF Run, NesKinds, Mmc5Kinds, ExpansionKinds, Vrc6Kinds, squares
<1>2. o.kind \in Mmc5Kinds => Run(o, n) = Mmc5Run(o, n)
  BY SMT DEF Run, NesKinds, Mmc5Kinds, ExpansionKinds, Vrc6Kinds, squares
<1>3. o.kind \in ExpansionKinds => Run(o, n) = ExpansionRun(o, n)
  BY SMT DEF Run, NesKinds, Mmc5Kinds, ExpansionKinds, Vrc6Kinds, squares
<1>4. o.kind = "fds" => Run(o, n) = RunFds(o, n)
  BY SMT DEF Run, NesKinds, Mmc5Kinds, ExpansionKinds, Vrc6Kinds, squares
<1>5. o.kind = "vrc7" => Run(o, n) = RunVrc7(o, n)
  BY SMT DEF Run, NesKinds, Mmc5Kinds, ExpansionKinds, Vrc6Kinds, squares
<1>6. /\ o.kind \in squares => NesRun(o, n) = RunSquare(o, n)
      /\ o.kind = "triangle" => NesRun(o, n) = RunTriangle(o, n)
      /\ o.kind = "noise" => NesRun(o, n) = RunNoise(o, n)
  BY SMT DEF NesRun, squares
<1>7. /\ o.kind = "mmc5_square" => Mmc5Run(o, n) = RunMmc5Square(o, n)
      /\ o.kind = "mmc5_pcm" => Mmc5Run(o, n) = Unheard(o, n)
  BY SMT DEF Mmc5Run
<1>8. /\ o.kind = "vrc6_square" => ExpansionRun(o, n) = RunVrc6Square(o, n)
      /\ o.kind = "vrc6_saw" => ExpansionRun(o, n) = RunSaw(o, n)
      /\ o.kind = "fme7" => ExpansionRun(o, n) = RunFme7(o, n)
      /\ o.kind = "namco" => ExpansionRun(o, n) = RunNamco(o, n)
  BY SMT DEF ExpansionRun
<1>9. /\ o.kind \in squares => o.kind \in NesKinds
      /\ o.kind = "triangle" => o.kind \in NesKinds
      /\ o.kind = "noise" => o.kind \in NesKinds
      /\ o.kind = "mmc5_square" => o.kind \in Mmc5Kinds
      /\ o.kind = "mmc5_pcm" => o.kind \in Mmc5Kinds
      /\ o.kind = "vrc6_square" => o.kind \in ExpansionKinds
      /\ o.kind = "vrc6_saw" => o.kind \in ExpansionKinds
      /\ o.kind = "fme7" => o.kind \in ExpansionKinds
      /\ o.kind = "namco" => o.kind \in ExpansionKinds
  BY Zenon DEF NesKinds, Mmc5Kinds, ExpansionKinds, Vrc6Kinds
<1> QED
  BY Zenon, <1>1, <1>2, <1>3, <1>4, <1>5, <1>6, <1>7, <1>8, <1>9

LEMMA SquareStays ==
  ASSUME NEW o \in SquareOsc, NEW n \in Nat
  PROVE  LET run == RunSquare(o, n)
         IN  run.osc \in SquareOsc /\ run.osc.kind = o.kind /\ RunIsMarked(o, n, run)
<1> DEFINE run == RunSquare(o, n)
           phase == PulsePhase(o, n)
           delay == PulseDelay(o, n)
<1>0. o \in Pulse
  BY Zenon DEF Pulse
<1>1. PulseRan(o, n, run)
  BY Zenon, <1>0, PulseRun
<1>2. phase \in 0 .. phase_range - 1 /\ delay \in Nat
  <2>1. /\ o.phase \in 0 .. phase_range - 1 /\ Count(o.delay, timer_period(o), n) \in Nat
        /\ delay \in Nat
    BY Zenon, <1>0, PulseFields, Counting DEF PulseDelay
  <2>2. \A c \in Nat : (o.phase + c) % phase_range \in 0 .. phase_range - 1
    BY SMT, <2>1 DEF phase_range
  <2> QED
    BY Zenon, <2>1, <2>2 DEF PulsePhase
<1>3. PICK amp \in Nat :
        /\ run.osc = [o EXCEPT !.phase = phase, !.last_amp = amp, !.delay = delay]
        /\ ~run.marks => run.deltas = Silence(n) /\ amp = o.last_amp
  BY Zenon, <1>1 DEF PulseRan
<1>4. run.deltas \in Deltas(n) /\ run.marks \in BOOLEAN
  BY Zenon, <1>1 DEF PulseRan
<1> HIDE DEF run, phase, delay
<1>5. LET moved == [o EXCEPT !.phase = phase, !.last_amp = amp, !.delay = delay]
      IN  moved \in SquareOsc /\ moved.kind = o.kind /\ moved.last_amp = amp
  BY Zenon, <1>2 DEF SquareOsc
<1>6. run.osc \in SquareOsc /\ run.osc.kind = o.kind /\ RunIsMarked(o, n, run)
  BY Zenon, <1>3, <1>4, <1>5 DEF RunIsMarked
<1> QED
  BY Zenon, <1>6 DEF run

LEMMA TriangleStays ==
  ASSUME NEW o \in TriangleOsc, NEW n \in Nat
  PROVE  LET run == RunTriangle(o, n)
         IN  run.osc \in TriangleOsc /\ RunIsMarked(o, n, run)
<1> DEFINE run == RunTriangle(o, n)
           delay == TriangleDelay(o, n)
<1>1. TriangleRan(o, n, run)
  BY Zenon, TriangleRun
<1>2. PICK phase \in 1 .. tri_range * 2, amp \in Nat :
        /\ run.osc = [o EXCEPT !.phase = phase, !.last_amp = amp, !.delay = delay]
        /\ ~run.marks => run.deltas = Silence(n) /\ amp = o.last_amp
  BY Zenon, <1>1 DEF TriangleRan
<1>3. run.deltas \in Deltas(n) /\ run.marks \in BOOLEAN /\ delay \in Nat
  BY Zenon, <1>1 DEF TriangleRan
<1> HIDE DEF run, delay
<1>4. LET moved == [o EXCEPT !.phase = phase, !.last_amp = amp, !.delay = delay]
      IN  moved \in TriangleOsc /\ moved.last_amp = amp
  BY Zenon, <1>3 DEF TriangleOsc
<1>5. run.osc \in TriangleOsc /\ RunIsMarked(o, n, run)
  BY Zenon, <1>2, <1>3, <1>4 DEF RunIsMarked
<1> QED
  BY Zenon, <1>5 DEF run

LEMMA NoiseStays ==
  ASSUME NEW o \in NoiseOsc, NEW n \in Nat \ {0}
  PROVE  LET run == RunNoise(o, n)
         IN  run.osc \in NoiseOsc /\ RunIsMarked(o, n, run)
<1> DEFINE run == RunNoise(o, n)
<1>1. NoiseRan(o, n, run)
  BY Zenon, NoiseRun
<1>2. PICK noise \in Register, amp \in Nat, delay \in Nat :
        /\ run.osc = [o EXCEPT !.noise = noise, !.last_amp = amp, !.delay = delay]
        /\ ~run.marks => run.deltas = Silence(n) /\ amp = o.last_amp
  BY Zenon, <1>1 DEF NoiseRan
<1>3. run.deltas \in Deltas(n) /\ run.marks \in BOOLEAN
  BY Zenon, <1>1 DEF NoiseRan
<1> HIDE DEF run
<1>4. LET moved == [o EXCEPT !.noise = noise, !.last_amp = amp, !.delay = delay]
      IN  moved \in NoiseOsc /\ moved.last_amp = amp
  BY Zenon DEF NoiseOsc
<1>5. run.osc \in NoiseOsc /\ RunIsMarked(o, n, run)
  BY Zenon, <1>2, <1>3, <1>4 DEF RunIsMarked
<1> QED
  BY Zenon, <1>5 DEF run

(* A run of any of them.                                                   *)
OscRan(o, n, run) ==
  /\ run.osc \in States /\ run.osc.kind = o.kind
  /\ o.kind # "vrc7" => Marked(run, n)
  /\ o.kind \in NesKinds => RunIsMarked(o, n, run)
  /\ o.kind = "mmc5_pcm" => run.osc = o

LEMMA Apart ==
  ASSUME NEW kind
  PROVE  /\ kind \in {"mmc5_square", "vrc6_square", "vrc6_saw", "fme7", "namco", "fds", "vrc7",
                      "mmc5_pcm"} => kind \notin NesKinds
         /\ kind \in squares \cup {"triangle", "noise", "mmc5_square", "vrc6_square", "vrc6_saw",
                                  "fme7", "namco", "fds", "vrc7"} => kind # "mmc5_pcm"
BY SMT DEF NesKinds, squares

LEMMA OscRun ==
  ASSUME NEW o \in States, NEW n \in Nat, n > 0 \/ o.kind \in Unskipped
  PROVE  OscRan(o, n, Run(o, n))
<1> DEFINE run == Run(o, n)
<1> SUFFICES OscRan(o, n, run)
  OBVIOUS
<1>1. n > 0 => n \in Nat \ {0}
  BY SMT
<1>2. /\ squares \subseteq NesKinds /\ "triangle" \in NesKinds /\ "noise" \in NesKinds
      /\ "mmc5_square" \in Mmc5Kinds
  BY Zenon DEF NesKinds, Mmc5Kinds
<1>3. ASSUME o.kind \in NesKinds \cup {"mmc5_square"} PROVE n \in Nat \ {0}
  BY Zenon, <1>1, <1>2, <1>3 DEF Unskipped
<1>4. ASSUME RunIsMarked(o, n, run) PROVE Marked(run, n)
  BY Zenon, <1>4 DEF RunIsMarked, Marked
<1>5. CASE o.kind \in squares /\ o \in SquareOsc
  <2>1. run = RunSquare(o, n)
    BY Zenon, <1>5, RunOf
  <2>3. RunSquare(o, n).osc \in SquareOsc /\ RunIsMarked(o, n, RunSquare(o, n)) /\ RunSquare(o, n).osc.kind = o.kind
    BY Zenon, <1>5, SquareStays
  <2> HIDE DEF run
  <2>4. run.osc \in SquareOsc /\ RunIsMarked(o, n, run) /\ run.osc.kind = o.kind
    BY Zenon, <2>1, <2>3
  <2>5. run.osc \in States
    BY Zenon, <2>4 DEF States
  <2>6. o.kind # "mmc5_pcm"
    BY Zenon, <1>5, Apart
  <2> QED
    BY Zenon, <1>4, <2>4, <2>5, <2>6 DEF OscRan
<1>6. CASE o.kind = "triangle" /\ o \in TriangleOsc
  <2>1. run = RunTriangle(o, n)
    BY Zenon, <1>6, RunOf
  <2>3. RunTriangle(o, n).osc \in TriangleOsc /\ RunIsMarked(o, n, RunTriangle(o, n))
    BY Zenon, <1>6, TriangleStays
  <2> HIDE DEF run
  <2>4. run.osc \in TriangleOsc /\ RunIsMarked(o, n, run)
    BY Zenon, <2>1, <2>3
  <2>5. run.osc \in States /\ run.osc.kind = o.kind
    BY Zenon, <2>4, <1>6 DEF States, TriangleOsc
  <2>6. o.kind # "mmc5_pcm"
    BY Zenon, <1>6, Apart
  <2> QED
    BY Zenon, <1>4, <2>4, <2>5, <2>6 DEF OscRan
<1>7. CASE o.kind = "noise" /\ o \in NoiseOsc
  <2>1. run = RunNoise(o, n)
    BY Zenon, <1>7, RunOf
  <2>2. n \in Nat \ {0}
    BY Zenon, <1>2, <1>3, <1>7
  <2>3. RunNoise(o, n).osc \in NoiseOsc /\ RunIsMarked(o, n, RunNoise(o, n))
    BY Zenon, <1>7, <2>2, NoiseStays
  <2> HIDE DEF run
  <2>4. run.osc \in NoiseOsc /\ RunIsMarked(o, n, run)
    BY Zenon, <2>1, <2>3
  <2>5. run.osc \in States /\ run.osc.kind = o.kind
    BY Zenon, <2>4, <1>7 DEF States, NoiseOsc
  <2>6. o.kind # "mmc5_pcm"
    BY Zenon, <1>7, Apart
  <2> QED
    BY Zenon, <1>4, <2>4, <2>5, <2>6 DEF OscRan
<1>8. CASE o.kind = "mmc5_square" /\ o \in Mmc5SquareOsc
  <2>1. run = RunMmc5Square(o, n)
    BY Zenon, <1>8, RunOf
  <2>2. n \in Nat \ {0}
    BY Zenon, <1>2, <1>3, <1>8
  <2>3. RunMmc5Square(o, n).osc \in Mmc5SquareOsc /\ Marked(RunMmc5Square(o, n), n)
    BY Zenon, <1>8, <2>2, Mmc5SquareRun DEF Marked
  <2> HIDE DEF run
  <2>4. run.osc \in Mmc5SquareOsc /\ Marked(run, n)
    BY Zenon, <2>1, <2>3
  <2>5. run.osc \in States /\ run.osc.kind = o.kind
    BY Zenon, <2>4, <1>8 DEF States, Mmc5SquareOsc
  <2>6. o.kind \notin NesKinds /\ o.kind # "mmc5_pcm"
    BY Zenon, <1>8, Apart
  <2> QED
    BY Zenon, <2>4, <2>5, <2>6 DEF OscRan
<1>9. CASE o.kind = "mmc5_pcm" /\ o \in PcmOsc
  <2>1. run = Unheard(o, n)
    BY Zenon, <1>9, RunOf
  <2>3. Unheard(o, n).osc = o /\ Marked(Unheard(o, n), n)
    BY Zenon DEF Unheard, Marked
  <2> HIDE DEF run
  <2>4. run.osc = o /\ Marked(run, n)
    BY Zenon, <2>1, <2>3
  <2>5. run.osc \in States /\ run.osc.kind = o.kind
    BY Zenon, <2>4
  <2>6. o.kind \notin NesKinds
    BY Zenon, <1>9, Apart
  <2> QED
    BY Zenon, <2>4, <2>5, <2>6 DEF OscRan
<1>10. CASE o.kind = "vrc6_square" /\ o \in Vrc6SquareOsc
  <2>1. run = RunVrc6Square(o, n)
    BY Zenon, <1>10, RunOf
  <2>3. RunVrc6Square(o, n).osc \in Vrc6SquareOsc /\ RunIsMarked(o, n, RunVrc6Square(o, n))
    BY Zenon, <1>10, Vrc6Run
  <2> HIDE DEF run
  <2>4. run.osc \in Vrc6SquareOsc /\ RunIsMarked(o, n, run)
    BY Zenon, <2>1, <2>3
  <2>5. run.osc \in States /\ run.osc.kind = o.kind
    BY Zenon, <2>4, <1>10 DEF States, Vrc6SquareOsc
  <2>6. o.kind \notin NesKinds /\ o.kind # "mmc5_pcm"
    BY Zenon, <1>10, Apart
  <2> QED
    BY Zenon, <1>4, <2>4, <2>5, <2>6 DEF OscRan
<1>11. CASE o.kind = "vrc6_saw" /\ o \in SawOsc
  <2>1. run = RunSaw(o, n)
    BY Zenon, <1>11, RunOf
  <2>3. RunSaw(o, n).osc \in SawOsc /\ RunIsMarked(o, n, RunSaw(o, n))
    BY Zenon, <1>11, SawRun
  <2> HIDE DEF run
  <2>4. run.osc \in SawOsc /\ RunIsMarked(o, n, run)
    BY Zenon, <2>1, <2>3
  <2>5. run.osc \in States /\ run.osc.kind = o.kind
    BY Zenon, <2>4, <1>11 DEF States, SawOsc
  <2>6. o.kind \notin NesKinds /\ o.kind # "mmc5_pcm"
    BY Zenon, <1>11, Apart
  <2> QED
    BY Zenon, <1>4, <2>4, <2>5, <2>6 DEF OscRan
<1>12. CASE o.kind = "fme7" /\ o \in Fme7Osc
  <2>1. run = RunFme7(o, n)
    BY Zenon, <1>12, RunOf
  <2>3. RunFme7(o, n).osc \in Fme7Osc /\ RunIsMarked(o, n, RunFme7(o, n))
    BY Zenon, <1>12, Fme7Run
  <2> HIDE DEF run
  <2>4. run.osc \in Fme7Osc /\ RunIsMarked(o, n, run)
    BY Zenon, <2>1, <2>3
  <2>5. run.osc \in States /\ run.osc.kind = o.kind
    BY Zenon, <2>4, <1>12 DEF States, Fme7Osc
  <2>6. o.kind \notin NesKinds /\ o.kind # "mmc5_pcm"
    BY Zenon, <1>12, Apart
  <2> QED
    BY Zenon, <1>4, <2>4, <2>5, <2>6 DEF OscRan
<1>13. CASE o.kind = "namco" /\ o \in NamcoOsc
  <2>1. run = RunNamco(o, n)
    BY Zenon, <1>13, RunOf
  <2>3. RunNamco(o, n).osc \in NamcoOsc /\ RunIsMarked(o, n, RunNamco(o, n))
    BY Zenon, <1>13, NamcoRun
  <2> HIDE DEF run
  <2>4. run.osc \in NamcoOsc /\ RunIsMarked(o, n, run)
    BY Zenon, <2>1, <2>3
  <2>5. run.osc \in States /\ run.osc.kind = o.kind
    BY Zenon, <2>4, <1>13 DEF States, NamcoOsc
  <2>6. o.kind \notin NesKinds /\ o.kind # "mmc5_pcm"
    BY Zenon, <1>13, Apart
  <2> QED
    BY Zenon, <1>4, <2>4, <2>5, <2>6 DEF OscRan
<1>14. CASE o.kind = "fds" /\ o \in FdsState
  <2>1. run = RunFds(o, n)
    BY Zenon, <1>14, RunOf
  <2>3. RunFds(o, n).osc \in FdsState /\ Marked(RunFds(o, n), n)
    BY Zenon, <1>14, FdsRun DEF Marked
  <2> HIDE DEF run
  <2>4. run.osc \in FdsState /\ Marked(run, n)
    BY Zenon, <2>1, <2>3
  <2>5. run.osc \in States /\ run.osc.kind = o.kind
    BY Zenon, <2>4, <1>14 DEF States, FdsState
  <2>6. o.kind \notin NesKinds /\ o.kind # "mmc5_pcm"
    BY Zenon, <1>14, Apart
  <2> QED
    BY Zenon, <2>4, <2>5, <2>6 DEF OscRan
<1>15. CASE o.kind = "vrc7" /\ o \in Vrc7State
  <2>1. run = RunVrc7(o, n)
    BY Zenon, <1>15, RunOf
  <2>3. RunVrc7(o, n).osc \in Vrc7State
    BY Zenon, <1>15, Vrc7Run
  <2> HIDE DEF run
  <2>4. run.osc \in Vrc7State
    BY Zenon, <2>1, <2>3
  <2>5. run.osc \in States /\ run.osc.kind = o.kind
    BY Zenon, <2>4, <1>15 DEF States, Vrc7State
  <2>6. o.kind \notin NesKinds /\ o.kind # "mmc5_pcm"
    BY Zenon, <1>15, Apart
  <2> QED
    BY Zenon, <2>4, <2>5, <2>6, <1>15 DEF OscRan
<1> QED
  BY Zenon, <1>5, <1>6, <1>7, <1>8, <1>9, <1>10, <1>11, <1>12, <1>13, <1>14, <1>15, KindOf

-----------------------------------------------------------------------------
(* The calls: each leaves an oscillator of the same sort.                  *)

(* What all calls of Nes_Apu leave alone.                                  *)
Alike(o, x) == x.kind = o.kind /\ x.last_amp = o.last_amp

LEMMA SquareSet ==
  ASSUME NEW o \in SquareOsc
  PROVE  /\ \A length \in Nat : LET x == [o EXCEPT !.length_counter = length]
                                IN  x \in SquareOsc /\ Alike(o, x)
         /\ \A c \in Control : LET x == [o EXCEPT !.control = c] IN x \in SquareOsc /\ Alike(o, x)
         /\ \A w \in Sweep : LET x == [o EXCEPT !.sweep = w, !.written1 = TRUE]
                             IN  x \in SquareOsc /\ Alike(o, x)
         /\ \A p \in 0 .. period_range - 1 : LET x == [o EXCEPT !.period = p]
                                             IN  x \in SquareOsc /\ Alike(o, x)
BY Zenon DEF SquareOsc, Alike

LEMMA TriangleSet ==
  ASSUME NEW o \in TriangleOsc
  PROVE  /\ \A length \in Nat : LET x == [o EXCEPT !.length_counter = length]
                                IN  x \in TriangleOsc /\ Alike(o, x)
         /\ \A c \in Control, load \in Nat :
              LET x == [o EXCEPT !.control = c, !.linear_load = load]
              IN  x \in TriangleOsc /\ Alike(o, x)
         /\ \A p \in 0 .. period_range - 1 : LET x == [o EXCEPT !.period = p]
                                             IN  x \in TriangleOsc /\ Alike(o, x)
BY Zenon DEF TriangleOsc, Alike

LEMMA NoiseSet ==
  ASSUME NEW o \in NoiseOsc
  PROVE  /\ \A length \in Nat : LET x == [o EXCEPT !.length_counter = length]
                                IN  x \in NoiseOsc /\ Alike(o, x)
         /\ \A c \in Control : LET x == [o EXCEPT !.control = c] IN x \in NoiseOsc /\ Alike(o, x)
         /\ \A p \in NoisePeriods, mode \in BOOLEAN :
              LET x == [o EXCEPT !.period = p, !.mode = mode] IN x \in NoiseOsc /\ Alike(o, x)
BY Zenon DEF NoiseOsc, Alike

NesOsc == SquareOsc \cup TriangleOsc \cup NoiseOsc

(* x is of the same sort of oscillator as o.                               *)
LikeSort(o, x) ==
  /\ o \in SquareOsc => x \in SquareOsc
  /\ o \in TriangleOsc => x \in TriangleOsc
  /\ o \in NoiseOsc => x \in NoiseOsc
  /\ Alike(o, x)

LEMMA LengthSet ==
  ASSUME NEW o \in NesOsc, NEW length \in Nat
  PROVE  LikeSort(o, [o EXCEPT !.length_counter = length])
<1>1. o \in SquareOsc \/ o \in TriangleOsc \/ o \in NoiseOsc
  BY Zenon DEF NesOsc
<1> QED
  BY Zenon, <1>1, SquareSet, TriangleSet, NoiseSet DEF LikeSort

LEMMA LengthIsClocked ==
  ASSUME NEW o \in NesOsc
  PROVE  LikeSort(o, clock_length(o))
<1>1. o.length_counter \in Nat
  BY Zenon DEF NesOsc, SquareOsc, TriangleOsc, NoiseOsc
<1>2. CASE o.length_counter # 0 /\ ~o.control.halt
  <2>1. o.length_counter - 1 \in Nat
    BY SMT, <1>1, <1>2
  <2>2. clock_length(o) = [o EXCEPT !.length_counter = o.length_counter - 1]
    BY Zenon, <1>2 DEF clock_length
  <2>3. LikeSort(o, [o EXCEPT !.length_counter = o.length_counter - 1])
    BY Zenon, <2>1, LengthSet
  <2> QED
    BY Zenon, <2>2, <2>3
<1>3. CASE ~(o.length_counter # 0 /\ ~o.control.halt)
  <2>1. clock_length(o) = o
    BY Zenon, <1>3 DEF clock_length
  <2> QED
    BY Zenon, <2>1 DEF LikeSort, Alike
<1> QED
  BY Zenon, <1>2, <1>3

(* The target of a sweep is not negative.                                  *)
LEMMA SweepTargetIs ==
  ASSUME NEW o \in SquareOsc, o.sweep.shift # 0, o.period >= min_period,
         SweepTarget(o) < period_range
  PROVE  SweepTarget(o) \in 0 .. period_range - 1
<1>1. o.period \in 0 .. period_range - 1 /\ o.sweep \in Sweep
  BY Zenon DEF SquareOsc
<1>2. o.sweep.shift \in Nat /\ o.sweep.negate \in BOOLEAN
  BY Zenon, <1>1 DEF Sweep
<1>3. min_period \in Nat \ {0} /\ period_range \in Nat
  BY SMT, OscAssumption DEF OscAssumption
<1>4. o.period \in Nat \ {0} /\ o.period \in Int
  BY SMT, <1>1, <1>3
<1>5. PICK d \in Nat \ {0} : d = two_to[o.sweep.shift] /\ d >= 2
  <2>1. o.sweep.shift - 1 \in Nat /\ (o.sweep.shift - 1) + 1 = o.sweep.shift
    BY SMT, <1>2
  <2>2. PICK h \in Nat \ {0} : h = two_to[o.sweep.shift - 1]
    BY Zenon, <2>1, TwoTo
  <2>3. two_to[o.sweep.shift] = 2 * h
    BY Zenon, <2>1, <2>2, TwoTo
  <2>4. 2 * h \in Nat \ {0} /\ 2 * h >= 2
    BY SMT
  <2> QED
    BY Zenon, <2>3, <2>4
<1>6. PICK q \in Int : q = o.period \div d /\ q * d <= o.period /\ o.period < q * d + d
  BY Zenon, <1>4, <1>5, Division
<1>7. q >= 0 /\ 2 * q <= o.period
  <2>1. q >= 0
    <3>1. 0 \div d = 0 /\ 0 \in Int /\ 0 <= o.period
      BY SMT, <1>4, <1>5
    <3>2. 0 \div d <= o.period \div d
      BY Zenon, <1>4, <3>1, Divided
    <3> QED
      BY Zenon, <1>6, <3>1, <3>2
  <2>2. 2 \in Int /\ d \in Int /\ q \in Nat
    BY SMT, <2>1
  <2>3. 2 * q <= d * q
    BY Zenon, <1>5, <2>2, Products
  <2>4. d * q = q * d /\ 2 * q \in Int /\ q * d \in Int
    BY SMT, <2>2
  <2>5. PICK x \in Int : x = q * d
    BY Zenon, <2>4
  <2>6. PICK y \in Int : y = 2 * q
    BY Zenon, <2>4
  <2>7. y <= x /\ x <= o.period
    BY Zenon, <1>6, <2>3, <2>4, <2>5, <2>6
  <2>8. y <= o.period
    BY SMT, <1>4, <2>7
  <2> QED
    BY Zenon, <2>1, <2>6, <2>8
<1>8. SweepTarget(o) = o.period + (IF ~o.sweep.negate THEN q
                                   ELSE IF o.kind = "square1" THEN -1 - q ELSE -q)
  BY Zenon, <1>5, <1>6 DEF SweepTarget
<1>9. \/ SweepTarget(o) = o.period + q \/ SweepTarget(o) = o.period + (-1 - q)
      \/ SweepTarget(o) = o.period + (-q)
  BY Zenon, <1>8
<1> DEFINE target == SweepTarget(o)
<1>10. /\ target < period_range
       /\ target = o.period + q \/ target = o.period + (-1 - q) \/ target = o.period + (-q)
  BY Zenon, <1>9
<1> HIDE DEF target
<1>11. target \in 0 .. period_range - 1
  BY SMT, <1>3, <1>4, <1>7, <1>10
<1> QED
  BY Zenon, <1>11 DEF target

LEMMA SweepIsClocked ==
  ASSUME NEW o \in SquareOsc
  PROVE  clock_sweep(o) \in SquareOsc /\ Alike(o, clock_sweep(o))
<1> DEFINE period == IF Sweeping(o) /\ o.period >= min_period /\ SweepTarget(o) < period_range
                     THEN SweepTarget(o) ELSE o.period
           delay == IF o.sweep_delay = 0 \/ o.written1 THEN o.sweep.delay ELSE o.sweep_delay - 1
           x == [o EXCEPT !.period = period, !.written1 = FALSE, !.sweep_delay = delay]
<1>1. o.period \in 0 .. period_range - 1 /\ o.sweep \in Sweep /\ o.sweep_delay \in Nat
  BY Zenon DEF SquareOsc
<1>2. period \in 0 .. period_range - 1
  BY Zenon, <1>1, SweepTargetIs DEF Sweeping
<1>3. delay \in Nat
  <2>1. o.sweep.delay \in Nat
    BY Zenon, <1>1 DEF Sweep
  <2> QED
    BY SMT, <1>1, <2>1
<1>4. clock_sweep(o) = x
  BY Zenon DEF clock_sweep
<1> HIDE DEF period, delay
<1>5. x \in SquareOsc /\ Alike(o, x)
  BY Zenon, <1>2, <1>3 DEF SquareOsc, Alike
<1> QED
  BY Zenon, <1>4, <1>5

LEMMA EnvelopeIsClocked ==
  ASSUME NEW o \in SquareOsc \cup NoiseOsc
  PROVE  LikeSort(o, clock_envelope(o))
<1>1. o.control \in Control /\ o.envelope \in 0 .. envelope_top /\ o.env_delay \in Nat
  BY Zenon DEF SquareOsc, NoiseOsc
<1>2. PICK envelope \in 0 .. envelope_top, delay \in Nat :
         \/ clock_envelope(o)
              = [o EXCEPT !.written3 = FALSE, !.env_delay = delay, !.envelope = envelope]
         \/ clock_envelope(o) = [o EXCEPT !.env_delay = delay]
         \/ clock_envelope(o) = [o EXCEPT !.env_delay = delay, !.envelope = envelope]
  BY Zenon, <1>1, EnvelopeClocked
<1> DEFINE x1 == [o EXCEPT !.written3 = FALSE, !.env_delay = delay, !.envelope = envelope]
           x2 == [o EXCEPT !.env_delay = delay]
           x3 == [o EXCEPT !.env_delay = delay, !.envelope = envelope]
<1>3. o \notin TriangleOsc
  <2>1. o.kind \in squares \/ o.kind = "noise"
    BY Zenon DEF SquareOsc, NoiseOsc
  <2>2. o.kind # "triangle"
    BY SMT, <2>1 DEF squares
  <2> QED
    BY Zenon, <2>2 DEF TriangleOsc
<1>4. o \in SquareOsc =>
        /\ x1 \in SquareOsc /\ Alike(o, x1) /\ x2 \in SquareOsc /\ Alike(o, x2)
        /\ x3 \in SquareOsc /\ Alike(o, x3)
  BY Zenon DEF SquareOsc, Alike
<1>5. o \in NoiseOsc =>
        /\ x1 \in NoiseOsc /\ Alike(o, x1) /\ x2 \in NoiseOsc /\ Alike(o, x2)
        /\ x3 \in NoiseOsc /\ Alike(o, x3)
  BY Zenon DEF NoiseOsc, Alike
<1>6. clock_envelope(o) = x1 \/ clock_envelope(o) = x2 \/ clock_envelope(o) = x3
  BY Zenon, <1>2
<1> HIDE DEF x1, x2, x3
<1>7. LikeSort(o, x1) /\ LikeSort(o, x2) /\ LikeSort(o, x3)
  BY Zenon, <1>3, <1>4, <1>5 DEF LikeSort
<1> QED
  BY Zenon, <1>6, <1>7

LEMMA LinearIsClocked ==
  ASSUME NEW o \in TriangleOsc
  PROVE  clock_linear_counter(o) \in TriangleOsc /\ Alike(o, clock_linear_counter(o))
<1> DEFINE linear == IF o.written3 THEN o.linear_load
                     ELSE IF o.linear_counter # 0 THEN o.linear_counter - 1 ELSE 0
           written == o.written3 /\ o.control.halt
           x == [o EXCEPT !.linear_counter = linear, !.written3 = written]
<1>1. /\ o.linear_load \in Nat /\ o.linear_counter \in Nat /\ o.written3 \in BOOLEAN
      /\ o.control \in Control
  BY Zenon DEF TriangleOsc
<1>2. linear \in Nat
  BY SMT, <1>1
<1>3. written \in BOOLEAN
  <2>1. o.control.halt \in BOOLEAN
    BY Zenon, <1>1 DEF Control
  <2> QED
    BY Zenon, <1>1, <2>1
<1>4. clock_linear_counter(o) = x
  BY Zenon DEF clock_linear_counter
<1> HIDE DEF linear, written
<1>5. x \in TriangleOsc /\ Alike(o, x)
  BY Zenon, <1>2, <1>3 DEF TriangleOsc, Alike
<1> QED
  BY Zenon, <1>4, <1>5

(* As Nes_Apu::reset leaves them.                                          *)
WasReset(kind, linear, output) ==
  LET r == [Reset(kind, linear) EXCEPT !.output = output]
  IN  /\ Reset(kind, linear) \in NesOsc /\ Reset(kind, linear).kind = kind
      /\ r \in NesOsc /\ r.kind = kind
      /\ linear = FALSE => Reset(kind, linear).last_amp = 0 /\ r.last_amp = 0

LEMMA NesReset ==
  ASSUME NEW kind \in NesKinds, NEW linear \in BOOLEAN, NEW output \in BOOLEAN
  PROVE  WasReset(kind, linear, output)
<1> DEFINE r == [Reset(kind, linear) EXCEPT !.output = output]
           ok(x) == x.kind = kind /\ (linear = FALSE => x.last_amp = 0)
<1>1. /\ 0 \in Nat /\ 1 \in Nat /\ 0 \in 0 .. 3 /\ 0 \in 0 .. envelope_top
      /\ 0 \in 0 .. period_range - 1 /\ phase_range - 1 \in 0 .. phase_range - 1
      /\ 1 \in 1 .. tri_range * 2 /\ tri_range - 1 \in Nat
  BY SMT, OscAssumption DEF OscAssumption, phase_range
<1>2. ResetControl \in Control
  BY SMT, <1>1 DEF ResetControl, Control
<1>3. kind \in squares \/ kind = "triangle" \/ kind = "noise"
  BY Zenon DEF NesKinds
<1>4. CASE kind \in squares
  <2> DEFINE phase == phase_range - 1
             sweep == [enabled |-> FALSE, delay |-> 0, negate |-> FALSE, shift |-> 0]
             s == [kind |-> kind, output |-> FALSE, delay |-> 0, last_amp |-> 0, phase |-> phase,
                   period |-> 0, length_counter |-> 0, control |-> ResetControl, written3 |-> TRUE,
                   envelope |-> 0, env_delay |-> 0, sweep_delay |-> 0, written1 |-> TRUE,
                   sweep |-> sweep]
  <2>1. Reset(kind, linear) = s
    <3>1. kind # "triangle" /\ kind # "noise"
      BY SMT, <1>4 DEF squares
    <3> QED
      BY Zenon, <1>4, <3>1 DEF Reset
  <2>2. sweep \in Sweep
    BY SMT, <1>1 DEF Sweep
  <2> HIDE DEF phase, sweep
  <2>3. phase \in 0 .. phase_range - 1
    BY Zenon, <1>1 DEF phase
  <2>4. s \in SquareOsc /\ ok(s)
    BY SMT, <1>1, <1>2, <1>4, <2>2, <2>3 DEF SquareOsc
  <2> HIDE DEF s
  <2>5. [s EXCEPT !.output = output] \in SquareOsc /\ ok([s EXCEPT !.output = output])
    BY Zenon, <2>4 DEF SquareOsc
  <2> QED
    BY Zenon, <2>1, <2>4, <2>5 DEF NesOsc, WasReset
<1>5. CASE kind = "triangle"
  <2> DEFINE amp == IF linear THEN tri_range - 1 ELSE 0
             s == [kind |-> kind, output |-> FALSE, delay |-> 0, last_amp |-> amp, phase |-> 1,
                   period |-> 0, length_counter |-> 0, control |-> ResetControl, written3 |-> TRUE,
                   linear_counter |-> 0, linear_load |-> 1]
  <2>1. Reset(kind, linear) = s
    BY SMT, <1>5 DEF Reset, squares
  <2>2. amp \in Nat /\ (linear = FALSE => amp = 0)
    BY Zenon, <1>1
  <2> HIDE DEF amp
  <2>4. s \in TriangleOsc /\ ok(s)
    BY SMT, <1>1, <1>2, <1>5, <2>2 DEF TriangleOsc
  <2> HIDE DEF s
  <2>5. [s EXCEPT !.output = output] \in TriangleOsc /\ ok([s EXCEPT !.output = output])
    BY Zenon, <2>4 DEF TriangleOsc
  <2> QED
    BY Zenon, <2>1, <2>4, <2>5 DEF NesOsc, WasReset
<1>6. CASE kind = "noise"
  <2> DEFINE noise == two_to[noise_bits - 1]
             period == CHOOSE p \in NoisePeriods : \A q \in NoisePeriods : p <= q
             s == [kind |-> kind, output |-> FALSE, delay |-> 0, last_amp |-> 0,
                   noise |-> noise, mode |-> FALSE, period |-> period,
                   length_counter |-> 0, control |-> ResetControl, written3 |-> TRUE,
                   envelope |-> 0, env_delay |-> 0]
  <2>1. Reset(kind, linear) = s
    BY SMT, <1>6 DEF Reset, squares
  <2>2. noise \in Register
    <3>1. noise_bits - 1 \in Nat /\ (noise_bits - 1) + 1 = noise_bits
      BY SMT, OscAssumption DEF OscAssumption
    <3>2. noise \in Nat \ {0} /\ two_to[noise_bits] = 2 * noise
      BY Zenon, <3>1, TwoTo
    <3> HIDE DEF noise
    <3> QED
      BY SMT, <3>2 DEF Register
  <2>3. period \in NoisePeriods
    <3>1. NoisePeriods \in SUBSET (Nat \ {0}) /\ NoisePeriods # {}
      BY Zenon, OscAssumption DEF OscAssumption
    <3>2. \E p \in NoisePeriods : \A q \in NoisePeriods : p <= q
      BY Zenon, <3>1, Least
    <3> QED
      BY Zenon, <3>2
  <2> HIDE DEF noise, period
  <2>4. s \in NoiseOsc /\ ok(s)
    BY SMT, <1>1, <1>2, <1>6, <2>2, <2>3 DEF NoiseOsc
  <2> HIDE DEF s
  <2>5. [s EXCEPT !.output = output] \in NoiseOsc /\ ok([s EXCEPT !.output = output])
    BY Zenon, <2>4 DEF NoiseOsc
  <2> QED
    BY Zenon, <2>1, <2>4, <2>5 DEF NesOsc, WasReset
<1> QED
  BY Zenon, <1>3, <1>4, <1>5, <1>6

-----------------------------------------------------------------------------
(* The inductive invariant.  In it, what the theorems need beyond the      *)
(* types: only the 2A03 mixes nonlinearly, and then a level other than 0   *)
(* was reached in the same time frame.                                     *)

OscInv ==
  /\ osc \in States /\ osc.kind \in Kinds
  /\ nonlinear \in BOOLEAN
  /\ nonlinear => osc.kind \in NesKinds /\ (osc.last_amp # 0 => modified)
  /\ LineFollowsFlag

(* What a call that does not mark may make of the oscillator.              *)
Fits(x) ==
  /\ x \in States /\ x.kind = osc.kind
  /\ nonlinear => x.last_amp = osc.last_amp \/ x.last_amp = 0
  /\ osc.kind = "mmc5_pcm" => x.line = (x.irq_flag \/ x.dropped)

LEMMA Fitting ==
  ASSUME OscInv, Fits(osc'), UNCHANGED <<nonlinear, modified>>
  PROVE  OscInv'
<1>1. nonlinear' = nonlinear /\ modified' = modified
  OBVIOUS
<1>2. osc' \in States /\ osc'.kind = osc.kind /\ osc'.kind \in Kinds
      /\ (nonlinear => osc'.last_amp = osc.last_amp \/ osc'.last_amp = 0)
      /\ (osc.kind = "mmc5_pcm" => osc'.line = (osc'.irq_flag \/ osc'.dropped))
  BY Zenon DEF Fits, OscInv
<1>3. LineFollowsFlag'
  BY Zenon, <1>2 DEF LineFollowsFlag
<1>4. nonlinear' \in BOOLEAN
      /\ (nonlinear' => osc'.kind \in NesKinds /\ (osc'.last_amp # 0 => modified'))
  <2>1. nonlinear \in BOOLEAN /\ (nonlinear => osc.kind \in NesKinds)
    BY Zenon DEF OscInv
  <2>0. (nonlinear' <=> nonlinear) /\ (modified' <=> modified)
    BY SMT, <1>1
  <2>2. nonlinear' \in BOOLEAN /\ (nonlinear' => osc'.kind \in NesKinds)
    <3>1. nonlinear' \in BOOLEAN
      BY SMT, <1>1, <2>1
    <3> QED
      BY Zenon, <1>2, <2>0, <2>1, <3>1
  <2>3. ASSUME nonlinear', osc'.last_amp # 0 PROVE modified'
    <3>1. nonlinear /\ osc'.last_amp = osc.last_amp
      BY Zenon, <1>2, <2>0, <2>3
    <3>2. osc.last_amp # 0
      BY Zenon, <2>3, <3>1
    <3>3. modified
      BY Zenon, <3>1, <3>2 DEF OscInv
    <3> QED
      BY Zenon, <2>0, <3>3
  <2> QED
    BY Zenon, <2>2, <2>3
<1> QED
  BY Zenon, <1>2, <1>3, <1>4 DEF OscInv

(* Which of the 2A03's it is.                                              *)
LEMMA NesSorts ==
  ASSUME NEW o \in States, o.kind \in NesKinds
  PROVE  /\ \/ /\ o.kind \in squares /\ o.kind # "triangle" /\ o.kind # "noise"
               /\ o \in SquareOsc /\ o \notin TriangleOsc /\ o \notin NoiseOsc
            \/ /\ o.kind = "triangle" /\ o.kind \notin squares /\ o.kind # "noise"
               /\ o \in TriangleOsc /\ o \notin SquareOsc /\ o \notin NoiseOsc
            \/ /\ o.kind = "noise" /\ o.kind \notin squares /\ o.kind # "triangle"
               /\ o \in NoiseOsc /\ o \notin SquareOsc /\ o \notin TriangleOsc
         /\ o.kind # "mmc5_pcm" /\ o \in NesOsc
<1>1. o.kind \in squares \/ o.kind = "triangle" \/ o.kind = "noise"
  BY Zenon DEF NesKinds
<1>2. /\ o.kind \in squares => o.kind # "triangle" /\ o.kind # "noise"
      /\ o.kind = "triangle" => o.kind \notin squares /\ o.kind # "noise"
      /\ o.kind = "noise" => o.kind \notin squares /\ o.kind # "triangle"
      /\ o.kind # "mmc5_pcm"
  BY SMT, <1>1 DEF squares
<1>3. /\ o \in SquareOsc => o.kind \in squares
      /\ o \in TriangleOsc => o.kind = "triangle"
      /\ o \in NoiseOsc => o.kind = "noise"
  BY Zenon DEF SquareOsc, TriangleOsc, NoiseOsc
<1>4. /\ o.kind \in squares => o \in SquareOsc
      /\ o.kind = "triangle" => o \in TriangleOsc
      /\ o.kind = "noise" => o \in NoiseOsc
  BY Zenon, Sorts
<1> QED
  BY Zenon, <1>1, <1>2, <1>3, <1>4 DEF NesOsc

LEMMA NesFits ==
  ASSUME OscInv, osc.kind \in NesKinds, LikeSort(osc, osc')
  PROVE  Fits(osc')
<1>1. osc \in States
  BY Zenon DEF OscInv
<1>2. osc.kind # "mmc5_pcm"
      /\ (osc \in SquareOsc \/ osc \in TriangleOsc \/ osc \in NoiseOsc)
  BY Zenon, <1>1, NesSorts
<1>3. osc' \in SquareOsc \/ osc' \in TriangleOsc \/ osc' \in NoiseOsc
  BY Zenon, <1>2 DEF LikeSort
<1>4. osc' \in States
  BY Zenon, <1>3 DEF States
<1> QED
  BY Zenon, <1>2, <1>4 DEF Fits, LikeSort, Alike

(* A frame event.                                                          *)
LEMMA FrameClockFits ==
  ASSUME osc \in States, osc.kind \in NesKinds, NEW half \in BOOLEAN, FrameClock(half)
  PROVE  LikeSort(osc, osc')
<1> DEFINE length == IF half THEN clock_length(osc) ELSE osc
           sweep == IF half /\ osc.kind \in squares THEN clock_sweep(length) ELSE length
           last == IF osc.kind = "triangle" THEN clock_linear_counter(sweep)
                   ELSE clock_envelope(sweep)
<1>1. osc' = last
  BY Zenon DEF FrameClock
<1>2. LikeSort(osc, length)
  <2>1. LikeSort(osc, clock_length(osc))
    BY Zenon, NesSorts, LengthIsClocked
  <2>2. LikeSort(osc, osc)
    BY Zenon DEF LikeSort, Alike
  <2> QED
    BY Zenon, <2>1, <2>2
<1> HIDE DEF length
<1>3. CASE osc.kind \in squares /\ osc.kind # "triangle" /\ osc \in SquareOsc
           /\ osc \notin TriangleOsc /\ osc \notin NoiseOsc
  <2>1. length \in SquareOsc /\ Alike(osc, length)
    BY Zenon, <1>2, <1>3 DEF LikeSort
  <2>2. clock_sweep(length) \in SquareOsc /\ Alike(length, clock_sweep(length))
    BY Zenon, <2>1, SweepIsClocked
  <2>3. sweep \in SquareOsc /\ Alike(osc, sweep)
    BY Zenon, <2>1, <2>2 DEF Alike
  <2> HIDE DEF sweep
  <2>4. last = clock_envelope(sweep)
    BY Zenon, <1>3
  <2> HIDE DEF last
  <2>5. LikeSort(sweep, clock_envelope(sweep))
    BY Zenon, <2>3, EnvelopeIsClocked
  <2>6. last \in SquareOsc /\ Alike(osc, last)
    BY Zenon, <2>3, <2>4, <2>5 DEF LikeSort, Alike
  <2> QED
    BY Zenon, <1>1, <1>3, <2>6 DEF LikeSort
<1>4. CASE osc.kind = "triangle" /\ osc.kind \notin squares /\ osc \in TriangleOsc
           /\ osc \notin SquareOsc /\ osc \notin NoiseOsc
  <2>1. sweep = length
    BY Zenon, <1>4
  <2>2. sweep \in TriangleOsc /\ Alike(osc, sweep)
    BY Zenon, <1>2, <1>4, <2>1 DEF LikeSort
  <2> HIDE DEF sweep
  <2>3. last = clock_linear_counter(sweep)
    BY Zenon, <1>4
  <2> HIDE DEF last
  <2>4. clock_linear_counter(sweep) \in TriangleOsc /\ Alike(sweep, clock_linear_counter(sweep))
    BY Zenon, <2>2, LinearIsClocked
  <2>5. last \in TriangleOsc /\ Alike(osc, last)
    BY Zenon, <2>2, <2>3, <2>4 DEF Alike
  <2> QED
    BY Zenon, <1>1, <1>4, <2>5 DEF LikeSort
<1>5. CASE osc.kind = "noise" /\ osc.kind \notin squares /\ osc.kind # "triangle"
           /\ osc \in NoiseOsc /\ osc \notin SquareOsc /\ osc \notin TriangleOsc
  <2>1. sweep = length
    BY Zenon, <1>5
  <2>2. sweep \in NoiseOsc /\ Alike(osc, sweep)
    BY Zenon, <1>2, <1>5, <2>1 DEF LikeSort
  <2> HIDE DEF sweep
  <2>3. last = clock_envelope(sweep)
    BY Zenon, <1>5
  <2> HIDE DEF last
  <2>4. LikeSort(sweep, clock_envelope(sweep))
    BY Zenon, <2>2, EnvelopeIsClocked
  <2>5. last \in NoiseOsc /\ Alike(osc, last)
    BY Zenon, <2>2, <2>3, <2>4 DEF LikeSort, Alike
  <2> QED
    BY Zenon, <1>1, <1>5, <2>5 DEF LikeSort
<1> QED
  BY Zenon, <1>3, <1>4, <1>5, NesSorts

(* The calls.                                                              *)
LEMMA NesWritesFit ==
  ASSUME osc \in States, osc.kind \in NesKinds,
         \/ WriteControl \/ WriteLinear \/ WriteSweep \/ WritePeriodLow \/ WriteNoise
         \/ WriteLength \/ Disable
  PROVE  LikeSort(osc, osc') /\ UNCHANGED <<nonlinear, modified>>
<1>1. \/ /\ osc.kind \in squares /\ osc.kind # "triangle" /\ osc.kind # "noise"
         /\ osc \in SquareOsc /\ osc \notin TriangleOsc /\ osc \notin NoiseOsc
      \/ /\ osc.kind = "triangle" /\ osc.kind \notin squares /\ osc.kind # "noise"
         /\ osc \in TriangleOsc /\ osc \notin SquareOsc /\ osc \notin NoiseOsc
      \/ /\ osc.kind = "noise" /\ osc.kind \notin squares /\ osc.kind # "triangle"
         /\ osc \in NoiseOsc /\ osc \notin SquareOsc /\ osc \notin TriangleOsc
  BY Zenon, NesSorts
<1>2. osc \in NesOsc /\ osc.length_counter \in Nat
  BY Zenon, <1>1 DEF NesOsc, SquareOsc, TriangleOsc, NoiseOsc
<1>3. /\ \A p \in Periods : p \in 0 .. period_range - 1
      /\ \A c \in Controls : c \in Control
      /\ \A w \in Sweeps : w \in Sweep
      /\ \A l \in LinearLoads : l \in Nat
  BY Zenon, OscAssumption DEF OscAssumption, Control, Sweep
<1>4. \A l \in LengthLoads : l \in Nat
  <2>1. \A l \in LengthLoads : l \in Nat \ {0}
    BY Zenon, OscAssumption DEF OscAssumption
  <2> QED
    BY SMT, <2>1
<1>5. ASSUME WriteControl PROVE LikeSort(osc, osc') /\ UNCHANGED <<nonlinear, modified>>
  <2>1. PICK c \in Control : osc.kind # "triangle" /\ osc' = [osc EXCEPT !.control = c]
                             /\ UNCHANGED <<nonlinear, modified>>
    BY Zenon, <1>3, <1>5 DEF WriteControl, Write
  <2>2. osc \in SquareOsc \/ osc \in NoiseOsc
    BY Zenon, <1>1, <2>1
  <2> QED
    BY Zenon, <1>1, <2>1, <2>2, SquareSet, NoiseSet DEF LikeSort
<1>6. ASSUME WriteLinear PROVE LikeSort(osc, osc') /\ UNCHANGED <<nonlinear, modified>>
  <2>1. PICK c \in Control, load \in Nat :
          /\ osc.kind = "triangle" /\ osc' = [osc EXCEPT !.control = c, !.linear_load = load]
          /\ UNCHANGED <<nonlinear, modified>>
    BY Zenon, <1>3, <1>6 DEF WriteLinear, Write
  <2>2. osc \in TriangleOsc /\ osc \notin SquareOsc /\ osc \notin NoiseOsc
    BY Zenon, <1>1, <2>1
  <2> QED
    BY Zenon, <2>1, <2>2, TriangleSet DEF LikeSort
<1>7. ASSUME WriteSweep PROVE LikeSort(osc, osc') /\ UNCHANGED <<nonlinear, modified>>
  <2>1. PICK w \in Sweep :
          /\ osc.kind \in squares /\ osc' = [osc EXCEPT !.sweep = w, !.written1 = TRUE]
          /\ UNCHANGED <<nonlinear, modified>>
    BY Zenon, <1>3, <1>7 DEF WriteSweep, Write
  <2>2. osc \in SquareOsc /\ osc \notin TriangleOsc /\ osc \notin NoiseOsc
    BY Zenon, <1>1, <2>1
  <2> QED
    BY Zenon, <2>1, <2>2, SquareSet DEF LikeSort
<1>8. ASSUME WritePeriodLow PROVE LikeSort(osc, osc') /\ UNCHANGED <<nonlinear, modified>>
  <2>1. PICK p \in 0 .. period_range - 1 :
          /\ osc.kind # "noise" /\ osc' = [osc EXCEPT !.period = p]
          /\ UNCHANGED <<nonlinear, modified>>
    BY Zenon, <1>3, <1>8 DEF WritePeriodLow, Write
  <2>2. osc \in SquareOsc \/ osc \in TriangleOsc
    BY Zenon, <1>1, <2>1
  <2> QED
    BY Zenon, <1>1, <2>1, <2>2, SquareSet, TriangleSet DEF LikeSort
<1>9. ASSUME WriteNoise PROVE LikeSort(osc, osc') /\ UNCHANGED <<nonlinear, modified>>
  <2>1. PICK p \in NoisePeriods, mode \in BOOLEAN :
          /\ osc.kind = "noise" /\ osc' = [osc EXCEPT !.period = p, !.mode = mode]
          /\ UNCHANGED <<nonlinear, modified>>
    BY Zenon, <1>9 DEF WriteNoise, Write
  <2>2. osc \in NoiseOsc /\ osc \notin SquareOsc /\ osc \notin TriangleOsc
    BY Zenon, <1>1, <2>1
  <2> QED
    BY Zenon, <2>1, <2>2, NoiseSet DEF LikeSort
<1>10. ASSUME WriteLength PROVE LikeSort(osc, osc') /\ UNCHANGED <<nonlinear, modified>>
  <2> DEFINE loaded(l) == [osc EXCEPT !.length_counter = l, !.written3 = TRUE]
             phase == phase_range - 1
  <2>1. PICK l \in Nat :
          IF osc.kind = "noise" THEN Write(loaded(l))
          ELSE \E p \in {q \in Periods : q % low_range = osc.period % low_range} :
                 Write(IF osc.kind = "triangle" THEN [loaded(l) EXCEPT !.period = p]
                       ELSE [loaded(l) EXCEPT !.period = p, !.phase = phase])
    BY Zenon, <1>2, <1>4, <1>10 DEF WriteLength
  <2>2. phase \in 0 .. phase_range - 1
    BY SMT DEF phase_range
  <2> HIDE DEF phase
  <2>3. CASE osc.kind = "noise" /\ osc \in NoiseOsc /\ osc \notin SquareOsc /\ osc \notin TriangleOsc
    <3>1. osc' = loaded(l) /\ UNCHANGED <<nonlinear, modified>>
      BY Zenon, <2>1, <2>3 DEF Write
    <3>2. loaded(l) \in NoiseOsc /\ Alike(osc, loaded(l))
      BY Zenon, <2>3 DEF NoiseOsc, Alike
    <3> QED
      BY Zenon, <2>3, <3>1, <3>2 DEF LikeSort
  <2>4. CASE /\ osc.kind = "triangle" /\ osc.kind # "noise" /\ osc \in TriangleOsc
             /\ osc \notin SquareOsc /\ osc \notin NoiseOsc
    <3>1. PICK p \in Periods :
            osc' = [loaded(l) EXCEPT !.period = p] /\ UNCHANGED <<nonlinear, modified>>
      BY Zenon, <2>1, <2>4 DEF Write
    <3>2. p \in 0 .. period_range - 1
      BY Zenon, <1>3
    <3>3. LET x == [loaded(l) EXCEPT !.period = p] IN x \in TriangleOsc /\ Alike(osc, x)
      BY Zenon, <2>4, <3>2 DEF TriangleOsc, Alike
    <3> QED
      BY Zenon, <2>4, <3>1, <3>3 DEF LikeSort
  <2>5. CASE /\ osc.kind # "triangle" /\ osc.kind # "noise" /\ osc \in SquareOsc
             /\ osc \notin TriangleOsc /\ osc \notin NoiseOsc
    <3>1. PICK p \in Periods :
            osc' = [loaded(l) EXCEPT !.period = p, !.phase = phase]
            /\ UNCHANGED <<nonlinear, modified>>
      BY Zenon, <2>1, <2>5 DEF Write
    <3>2. p \in 0 .. period_range - 1
      BY Zenon, <1>3
    <3>3. LET x == [loaded(l) EXCEPT !.period = p, !.phase = phase]
          IN  x \in SquareOsc /\ Alike(osc, x)
      BY Zenon, <2>2, <2>5, <3>2 DEF SquareOsc, Alike
    <3> QED
      BY Zenon, <2>5, <3>1, <3>3 DEF LikeSort
  <2> QED
    BY Zenon, <1>1, <2>3, <2>4, <2>5
<1>11. ASSUME Disable PROVE LikeSort(osc, osc') /\ UNCHANGED <<nonlinear, modified>>
  <2>1. 0 \in Nat
    BY SMT
  <2>2. LikeSort(osc, [osc EXCEPT !.length_counter = 0])
    BY Zenon, <1>2, <2>1, LengthSet
  <2> QED
    BY Zenon, <1>11, <2>2 DEF Disable, Write
<1> QED
  BY Zenon, <1>5, <1>6, <1>7, <1>8, <1>9, <1>10, <1>11

LEMMA NesCallsKeep ==
  ASSUME OscInv, NesCalls
  PROVE  OscInv'
<1>1. osc \in States /\ osc.kind \in NesKinds /\ nonlinear \in BOOLEAN /\ osc.kind \in Kinds
  BY Zenon DEF OscInv, NesCalls
<1>2. osc.kind # "mmc5_pcm" /\ osc \in NesOsc /\ osc.output \in BOOLEAN
  <2>1. osc.kind # "mmc5_pcm" /\ osc \in NesOsc
    BY Zenon, <1>1, NesSorts
  <2> QED
    BY Zenon, <2>1 DEF NesOsc, SquareOsc, TriangleOsc, NoiseOsc
<1>3. ASSUME NEW half \in BOOLEAN, FrameClock(half) PROVE OscInv'
  <2>1. LikeSort(osc, osc')
    BY Zenon, <1>1, <1>3, FrameClockFits
  <2>2. UNCHANGED <<nonlinear, modified>>
    BY Zenon, <1>3 DEF FrameClock
  <2> QED
    BY Zenon, <1>1, <2>1, <2>2, NesFits, Fitting
<1>4. ASSUME \/ WriteControl \/ WriteLinear \/ WriteSweep \/ WritePeriodLow \/ WriteNoise
             \/ WriteLength \/ Disable
      PROVE  OscInv'
  <2>1. LikeSort(osc, osc') /\ UNCHANGED <<nonlinear, modified>>
    BY Zenon, <1>1, <1>4, NesWritesFit
  <2> QED
    BY Zenon, <1>1, <2>1, NesFits, Fitting
<1>5. ASSUME ResetAll PROVE OscInv'
  <2> DEFINE linear == ~nonlinear
             r == [Reset(osc.kind, linear) EXCEPT !.output = osc.output]
  <2>1. osc' = r /\ UNCHANGED <<nonlinear, modified>>
    BY Zenon, <1>5 DEF ResetAll, Write
  <2>2. linear \in BOOLEAN /\ (nonlinear => linear = FALSE)
    BY SMT
  <2> HIDE DEF linear
  <2>3. r \in NesOsc /\ r.kind = osc.kind /\ (nonlinear => r.last_amp = 0)
    <3>1. osc.kind \in NesKinds /\ linear \in BOOLEAN /\ osc.output \in BOOLEAN
      BY Zenon, <1>1, <1>2, <2>2
    <3>2. r \in NesOsc /\ r.kind = osc.kind /\ (linear = FALSE => r.last_amp = 0)
      <4>1. WasReset(osc.kind, linear, osc.output)
        BY Zenon, <3>1, NesReset
      <4> QED
        BY Zenon, <4>1 DEF WasReset
    <3> QED
      BY Zenon, <2>2, <3>2
  <2> HIDE DEF r
  <2>4. r \in States
    BY Zenon, <2>3 DEF NesOsc, States
  <2>5. Fits(osc')
    BY Zenon, <1>2, <2>1, <2>3, <2>4 DEF Fits
  <2> QED
    BY Zenon, <2>1, <2>5, Fitting
<1>6. ASSUME NesEndFrame PROVE OscInv'
  <2> DEFINE z == [osc EXCEPT !.last_amp = 0]
  <2>1. /\ osc' = (IF nonlinear THEN z ELSE osc)
        /\ modified' = FALSE /\ nonlinear' = nonlinear
    BY Zenon, <1>6 DEF NesEndFrame
  <2>2. z \in NesOsc /\ z.kind = osc.kind /\ z.last_amp = 0
    <3>1. 0 \in Nat
      BY SMT
    <3>2. /\ osc \in SquareOsc => z \in SquareOsc /\ z.kind = osc.kind /\ z.last_amp = 0
          /\ osc \in TriangleOsc => z \in TriangleOsc /\ z.kind = osc.kind /\ z.last_amp = 0
          /\ osc \in NoiseOsc => z \in NoiseOsc /\ z.kind = osc.kind /\ z.last_amp = 0
      BY Zenon, <3>1 DEF SquareOsc, TriangleOsc, NoiseOsc
    <3> HIDE DEF z
    <3> QED
      BY Zenon, <1>2, <3>2 DEF NesOsc
  <2> HIDE DEF z
  <2>3. osc' \in NesOsc /\ osc'.kind = osc.kind /\ (nonlinear => osc'.last_amp = 0)
    BY Zenon, <1>2, <2>1, <2>2
  <2>4. osc' \in States
    BY Zenon, <2>3 DEF NesOsc, States
  <2>5. LineFollowsFlag'
    BY Zenon, <1>2, <2>3 DEF LineFollowsFlag
  <2> QED
    BY Zenon, <1>1, <2>1, <2>3, <2>4, <2>5 DEF OscInv
<1> QED
  BY Zenon, <1>3, <1>4, <1>5, <1>6 DEF NesCalls

LEMMA RunKeeps ==
  ASSUME OscInv, NEW n \in RunLengths, RunOn(n)
  PROVE  OscInv'
<1> DEFINE run == Run(osc, n)
<1>1. osc \in States /\ osc.kind \in Kinds /\ nonlinear \in BOOLEAN /\ n \in Nat
      /\ (n > 0 \/ osc.kind \in Unskipped)
  BY Zenon, RunAssumption DEF OscInv, RunOn, RunAssumption
<1>2. OscRan(osc, n, run)
  BY Zenon, <1>1, OscRun
<1>3. osc' = run.osc /\ modified' = (modified \/ run.marks) /\ nonlinear' = nonlinear
  BY Zenon DEF RunOn, Leave
<1> HIDE DEF run
<1>4. /\ osc' \in States /\ osc'.kind = osc.kind /\ osc'.kind \in Kinds
      /\ osc.kind = "mmc5_pcm" => osc' = osc
      /\ osc.kind \in NesKinds => (~run.marks => osc'.last_amp = osc.last_amp)
  BY Zenon, <1>1, <1>2, <1>3 DEF OscRan, RunIsMarked
<1>5. (nonlinear' <=> nonlinear) /\ nonlinear' \in BOOLEAN
      /\ (modified => modified') /\ (run.marks => modified')
  <2> DEFINE marks == run.marks
  <2>1. modified' = (modified \/ marks)
    BY Zenon, <1>3
  <2> HIDE DEF marks
  <2>2. (modified => modified') /\ (marks => modified')
    BY Zenon, <2>1
  <2>3. (nonlinear' <=> nonlinear) /\ nonlinear' \in BOOLEAN
    BY SMT, <1>1, <1>3
  <2> QED
    BY Zenon, <2>2, <2>3 DEF marks
<1>6. LineFollowsFlag'
  <2>1. ASSUME osc'.kind = "mmc5_pcm" PROVE osc'.line = (osc'.irq_flag \/ osc'.dropped)
    <3>1. osc' = osc /\ osc.kind = "mmc5_pcm"
      BY Zenon, <1>4, <2>1
    <3>2. osc.line = (osc.irq_flag \/ osc.dropped)
      BY Zenon, <3>1 DEF OscInv, LineFollowsFlag
    <3> QED
      BY Zenon, <3>1, <3>2
  <2> QED
    BY Zenon, <2>1 DEF LineFollowsFlag
<1>7. ASSUME nonlinear', osc'.last_amp # 0 PROVE modified'
  <2>1. CASE run.marks
    BY Zenon, <1>5, <2>1
  <2>2. CASE ~run.marks
    <3>1. nonlinear /\ osc.kind \in NesKinds
      BY Zenon, <1>5, <1>7 DEF OscInv
    <3>2. osc.last_amp # 0
      BY Zenon, <1>4, <1>7, <2>2, <3>1
    <3>3. modified
      BY Zenon, <3>1, <3>2 DEF OscInv
    <3> QED
      BY Zenon, <1>5, <3>3
  <2> QED
    BY Zenon, <2>1, <2>2
<1>8. nonlinear' => osc'.kind \in NesKinds
  BY Zenon, <1>4, <1>5 DEF OscInv
<1> QED
  BY Zenon, <1>4, <1>5, <1>6, <1>7, <1>8 DEF OscInv

(* The calls of the other chips, whose mixing is linear.                   *)
LEMMA OthersKeep ==
  ASSUME OscInv, osc.kind \notin NesKinds, osc' \in States, osc'.kind = osc.kind,
         nonlinear' = nonlinear,
         osc.kind = "mmc5_pcm" => osc'.line = (osc'.irq_flag \/ osc'.dropped)
  PROVE  OscInv'
<1>1. osc.kind \in Kinds /\ nonlinear \in BOOLEAN /\ ~nonlinear
  BY Zenon DEF OscInv
<1>2. nonlinear' \in BOOLEAN /\ ~nonlinear'
  BY SMT, <1>1
<1>3. LineFollowsFlag'
  BY Zenon DEF LineFollowsFlag
<1>4. osc'.kind \in Kinds
  BY Zenon, <1>1
<1> QED
  BY Zenon, <1>2, <1>3, <1>4 DEF OscInv

LEMMA UnlikeNes ==
  ASSUME NEW kind \in {"mmc5_square", "mmc5_pcm", "vrc6_square", "vrc6_saw", "fme7", "namco",
                       "fds", "vrc7"}
  PROVE  kind \notin NesKinds
BY SMT DEF NesKinds, squares

LEMMA FrameEnds ==
  ASSUME OscInv, osc.kind \notin NesKinds, EndOfFrame
  PROVE  OscInv'
<1>1. osc' = osc /\ nonlinear' = nonlinear
  BY Zenon DEF EndOfFrame
<1>2. osc \in States /\ (osc.kind = "mmc5_pcm" => osc.line = (osc.irq_flag \/ osc.dropped))
  BY Zenon DEF OscInv, LineFollowsFlag
<1>3. osc.kind = "mmc5_pcm" => osc'.line = (osc'.irq_flag \/ osc'.dropped)
  BY Zenon, <1>1, <1>2
<1>4. osc' \in States /\ osc'.kind = osc.kind
  BY Zenon, <1>1, <1>2
<1> QED
  BY Zenon, <1>1, <1>3, <1>4, OthersKeep

-----------------------------------------------------------------------------
(* The MMC5.                                                               *)

LEMMA Mmc5SquareIsReset ==
  ASSUME NEW sweep \in Sweep, NEW output \in BOOLEAN
  PROVE  ResetMmc5Square(sweep, output) \in Mmc5SquareOsc
<1> DEFINE phase == phase_range - 1
<1>1. /\ 0 \in Nat /\ 0 \in 0 .. 3 /\ 0 \in 0 .. envelope_top
      /\ 0 \in 0 .. period_range - 1 /\ phase \in 0 .. phase_range - 1
      /\ 1 \in 0 .. mmc5_frame_period
  BY SMT, OscAssumption, Mmc5Assumption DEF OscAssumption, Mmc5Assumption, phase_range
<1>2. ResetControl \in Control
  BY SMT, <1>1 DEF ResetControl, Control
<1> HIDE DEF phase
<1>3. [kind |-> "mmc5_square", output |-> output, delay |-> 0, last_amp |-> 0,
       phase |-> phase, period |-> 0, length_counter |-> 0, control |-> ResetControl,
       written3 |-> TRUE, envelope |-> 0, env_delay |-> 0, sweep |-> sweep,
       frame_delay |-> 1, enabled |-> FALSE] \in Mmc5SquareOsc
  BY SMT, <1>1, <1>2 DEF Mmc5SquareOsc
<1> QED
  BY Zenon, <1>3 DEF ResetMmc5Square, phase

LEMMA Mmc5SquareIsWritten ==
  ASSUME osc \in Mmc5SquareOsc, WriteMmc5Square
  PROVE  osc' \in Mmc5SquareOsc /\ nonlinear' = nonlinear
<1>1. /\ \A p \in Periods : p \in 0 .. period_range - 1
      /\ \A c \in Controls : c \in Control
  BY Zenon, OscAssumption DEF OscAssumption, Control
<1>2. osc.length_counter \in Nat /\ 0 \in Nat /\ \A l \in LengthLoads : l \in Nat
  <2>1. \A l \in LengthLoads : l \in Nat \ {0}
    BY Zenon, OscAssumption DEF OscAssumption
  <2>2. 0 \in Nat /\ \A l \in LengthLoads : l \in Nat
    BY SMT, <2>1
  <2> QED
    BY Zenon, <2>2 DEF Mmc5SquareOsc
<1>3. ASSUME NEW c \in Controls, Write([osc EXCEPT !.control = c])
      PROVE  osc' \in Mmc5SquareOsc /\ nonlinear' = nonlinear
  <2>1. c \in Control
    BY Zenon, <1>1
  <2>2. [osc EXCEPT !.control = c] \in Mmc5SquareOsc
    BY Zenon, <2>1 DEF Mmc5SquareOsc
  <2> QED
    BY Zenon, <1>3, <2>2 DEF Write
<1>4. ASSUME NEW p \in Periods, Write([osc EXCEPT !.period = p])
      PROVE  osc' \in Mmc5SquareOsc /\ nonlinear' = nonlinear
  <2>1. p \in 0 .. period_range - 1
    BY Zenon, <1>1
  <2>2. [osc EXCEPT !.period = p] \in Mmc5SquareOsc
    BY Zenon, <2>1 DEF Mmc5SquareOsc
  <2> QED
    BY Zenon, <1>4, <2>2 DEF Write
<1>5. ASSUME NEW p \in Periods, NEW l \in LengthLoads,
             Write([osc EXCEPT !.period = p, !.written3 = TRUE, !.phase = phase_range - 1,
                               !.length_counter = IF osc.enabled THEN l ELSE @])
      PROVE  osc' \in Mmc5SquareOsc /\ nonlinear' = nonlinear
  <2> DEFINE phase == phase_range - 1
             length == IF osc.enabled THEN l ELSE osc.length_counter
             x == [osc EXCEPT !.period = p, !.written3 = TRUE, !.phase = phase,
                              !.length_counter = length]
  <2>1. p \in 0 .. period_range - 1
    BY Zenon, <1>1
  <2>2. phase \in 0 .. phase_range - 1
    BY SMT DEF phase_range
  <2>3. length \in Nat
    BY Zenon, <1>2
  <2>4. osc' = x /\ nonlinear' = nonlinear
    BY Zenon, <1>5 DEF Write
  <2> HIDE DEF phase, length
  <2>5. x \in Mmc5SquareOsc
    BY Zenon, <2>1, <2>2, <2>3 DEF Mmc5SquareOsc
  <2> QED
    BY Zenon, <2>4, <2>5
<1>6. ASSUME NEW on \in BOOLEAN,
             Write([osc EXCEPT !.enabled = on, !.length_counter = IF on THEN @ ELSE 0])
      PROVE  osc' \in Mmc5SquareOsc /\ nonlinear' = nonlinear
  <2> DEFINE length == IF on THEN osc.length_counter ELSE 0
             x == [osc EXCEPT !.enabled = on, !.length_counter = length]
  <2>1. length \in Nat
    BY Zenon, <1>2
  <2>2. osc' = x /\ nonlinear' = nonlinear
    BY Zenon, <1>6 DEF Write
  <2> HIDE DEF length
  <2>3. x \in Mmc5SquareOsc
    BY Zenon, <2>1 DEF Mmc5SquareOsc
  <2> QED
    BY Zenon, <2>2, <2>3
<1> QED
  BY Zenon, <1>3, <1>4, <1>5, <1>6 DEF WriteMmc5Square

(* The line as the flag.                                                   *)
Follows(o) == o.line = (o.irq_flag \/ o.dropped)

LEMMA IrqIsUpdated ==
  ASSUME NEW o \in PcmOsc, Follows(o), NEW flag \in BOOLEAN
  PROVE  update_irq(o, flag) \in PcmOsc /\ Follows(update_irq(o, flag))
<1> DEFINE line == IF flag # o.irq_flag THEN flag ELSE o.line
           dropped == o.dropped /\ flag = o.irq_flag
           x == [o EXCEPT !.irq_flag = flag, !.line = line, !.dropped = dropped]
<1>1. o.irq_flag \in BOOLEAN /\ o.line \in BOOLEAN /\ o.dropped \in BOOLEAN
  BY Zenon DEF PcmOsc
<1>2. o.line = (o.irq_flag \/ o.dropped)
  BY Zenon DEF Follows
<1>3. line \in BOOLEAN /\ dropped \in BOOLEAN /\ line = (flag \/ dropped)
  BY SMT, <1>1, <1>2
<1>4. update_irq(o, flag) = x
  BY Zenon DEF update_irq
<1> HIDE DEF line, dropped
<1>5. x \in PcmOsc /\ x.line = line /\ x.irq_flag = flag /\ x.dropped = dropped
  BY Zenon, <1>3 DEF PcmOsc
<1> HIDE DEF x
<1>6. Follows(x)
  BY SMT, <1>3, <1>5 DEF Follows
<1> QED
  BY Zenon, <1>4, <1>5, <1>6

LEMMA PcmIsReset ==
  ASSUME NEW line \in BOOLEAN, NEW output \in BOOLEAN
  PROVE  ResetPcm(line, output) \in PcmOsc /\ Follows(ResetPcm(line, output))
<1> DEFINE level == (low_range - 1) * 16
           r == [kind |-> "mmc5_pcm", output |-> output, delay |-> 0, last_amp |-> level,
                 irq_flag |-> FALSE, irq_enabled |-> FALSE, read_mode |-> FALSE,
                 line |-> line, dropped |-> line]
<1>1. level \in Nat /\ 0 \in Nat
  BY SMT, RunAssumption DEF RunAssumption
<1>2. ResetPcm(line, output) = r
  BY Zenon DEF ResetPcm
<1> HIDE DEF level
<1>3. r \in PcmOsc /\ r.line = line /\ r.irq_flag = FALSE /\ r.dropped = line
  BY SMT, <1>1 DEF PcmOsc
<1> HIDE DEF r
<1>4. Follows(r)
  BY SMT, <1>3 DEF Follows
<1> QED
  BY Zenon, <1>2, <1>3, <1>4

LEMMA PcmCallsKeep ==
  ASSUME osc \in PcmOsc, Follows(osc), PcmCalls
  PROVE  osc' \in PcmOsc /\ Follows(osc') /\ nonlinear' = nonlinear
<1>1. osc.irq_enabled \in BOOLEAN /\ osc.output \in BOOLEAN /\ osc.line \in BOOLEAN
  BY Zenon DEF PcmOsc
<1>2. ASSUME NEW data \in DacLoads, WriteDac(data)
      PROVE  osc' \in PcmOsc /\ Follows(osc') /\ nonlinear' = nonlinear
  <2>1. CASE data = 0
    <3>1. osc' = update_irq(osc, osc.irq_enabled) /\ nonlinear' = nonlinear
      BY Zenon, <1>2, <2>1 DEF WriteDac, Write
    <3> QED
      BY Zenon, <1>1, <3>1, IrqIsUpdated
  <2>2. CASE data # 0
    <3> DEFINE level == data * 16
               x == [osc EXCEPT !.last_amp = level]
    <3>1. osc' = x /\ nonlinear' = nonlinear
      BY Zenon, <1>2, <2>2 DEF WriteDac
    <3>2. level \in Nat
      <4>1. data \in 0 .. low_range - 1 /\ low_range \in Nat \ {0}
        BY Zenon, Mmc5Assumption, RunAssumption DEF Mmc5Assumption, RunAssumption
      <4> QED
        BY SMT, <4>1
    <3> HIDE DEF level
    <3>3. /\ x \in PcmOsc /\ x.line = osc.line /\ x.irq_flag = osc.irq_flag
          /\ x.dropped = osc.dropped
      BY Zenon, <3>2 DEF PcmOsc
    <3> HIDE DEF x
    <3>4. Follows(x)
      BY Zenon, <3>3 DEF Follows
    <3> QED
      BY Zenon, <3>1, <3>3, <3>4
  <2> QED
    BY Zenon, <2>1, <2>2
<1>3. ASSUME WritePcmMode PROVE osc' \in PcmOsc /\ Follows(osc') /\ nonlinear' = nonlinear
  <2>1. PICK read_mode \in BOOLEAN, irq_enabled \in BOOLEAN :
          /\ osc' = [osc EXCEPT !.read_mode = read_mode, !.irq_enabled = irq_enabled]
          /\ nonlinear' = nonlinear
    BY Zenon, <1>3 DEF WritePcmMode, Write
  <2> DEFINE x == [osc EXCEPT !.read_mode = read_mode, !.irq_enabled = irq_enabled]
  <2>2. /\ x \in PcmOsc /\ x.line = osc.line /\ x.irq_flag = osc.irq_flag
        /\ x.dropped = osc.dropped
    BY Zenon DEF PcmOsc
  <2>3. osc' = x
    BY Zenon, <2>1
  <2> HIDE DEF x
  <2>4. Follows(x)
    BY Zenon, <2>2 DEF Follows
  <2> QED
    BY Zenon, <2>1, <2>2, <2>3, <2>4
<1>4. ASSUME read_irq_status PROVE osc' \in PcmOsc /\ Follows(osc') /\ nonlinear' = nonlinear
  <2>1. osc' = update_irq(osc, FALSE) /\ nonlinear' = nonlinear /\ FALSE \in BOOLEAN
    BY Zenon, <1>4 DEF read_irq_status, Write
  <2> QED
    BY Zenon, <2>1, IrqIsUpdated
<1>5. ASSUME PcmReset PROVE osc' \in PcmOsc /\ Follows(osc') /\ nonlinear' = nonlinear
  <2>1. osc' = ResetPcm(osc.line, osc.output) /\ nonlinear' = nonlinear
    BY Zenon, <1>5 DEF PcmReset
  <2> QED
    BY Zenon, <1>1, <2>1, PcmIsReset
<1> QED
  BY Zenon, <1>2, <1>3, <1>4, <1>5 DEF PcmCalls

LEMMA Mmc5CallsKeep ==
  ASSUME OscInv, Mmc5Calls
  PROVE  OscInv'
<1>1. osc \in States
  BY Zenon DEF OscInv
<1>2. CASE PcmCalls
  <2>1. osc.kind = "mmc5_pcm" /\ osc.kind \notin NesKinds
    BY Zenon, <1>2, UnlikeNes DEF PcmCalls
  <2>2. osc \in PcmOsc /\ Follows(osc)
    BY Zenon, <1>1, <2>1, Sorts DEF OscInv, LineFollowsFlag, Follows
  <2>3. osc' \in PcmOsc /\ Follows(osc') /\ nonlinear' = nonlinear
    BY Zenon, <1>2, <2>2, PcmCallsKeep
  <2>4. osc' \in States /\ osc'.kind = osc.kind
    BY Zenon, <2>1, <2>3 DEF States, PcmOsc
  <2>5. osc'.line = (osc'.irq_flag \/ osc'.dropped)
    BY Zenon, <2>3 DEF Follows
  <2> QED
    BY Zenon, <2>1, <2>3, <2>4, <2>5, OthersKeep
<1>3. CASE /\ osc.kind = "mmc5_square"
           /\ WriteMmc5Square \/ Write(ResetMmc5Square(osc.sweep, osc.output))
  <2>1. osc.kind = "mmc5_square" /\ osc.kind \notin NesKinds /\ osc.kind # "mmc5_pcm"
    BY Zenon, <1>3, UnlikeNes, Apart
  <2>2. osc \in Mmc5SquareOsc
    BY Zenon, <1>1, <2>1, Sorts
  <2>3. osc' \in Mmc5SquareOsc /\ nonlinear' = nonlinear
    <3>1. CASE WriteMmc5Square
      BY Zenon, <2>2, <3>1, Mmc5SquareIsWritten
    <3>2. CASE Write(ResetMmc5Square(osc.sweep, osc.output))
      <4>1. osc.sweep \in Sweep /\ osc.output \in BOOLEAN
        BY Zenon, <2>2 DEF Mmc5SquareOsc
      <4> QED
        BY Zenon, <3>2, <4>1, Mmc5SquareIsReset DEF Write
    <3> QED
      BY Zenon, <1>3, <3>1, <3>2
  <2>4. osc' \in States /\ osc'.kind = osc.kind
    BY Zenon, <2>1, <2>3 DEF States, Mmc5SquareOsc
  <2> QED
    BY Zenon, <2>1, <2>3, <2>4, OthersKeep
<1>4. CASE osc.kind \in Mmc5Kinds /\ EndOfFrame
  <2>1. osc.kind \notin NesKinds
    BY Zenon, <1>4, UnlikeNes DEF Mmc5Kinds
  <2> QED
    BY Zenon, <1>4, <2>1, FrameEnds
<1> QED
  BY Zenon, <1>2, <1>3, <1>4 DEF Mmc5Calls

-----------------------------------------------------------------------------
(* The chips of the cartridges.                                            *)

LEMMA Registers ==
  /\ 0 \in Nat /\ 0 \in Delay /\ 0 \in Vrc6Periods /\ 0 \in Fme7Periods /\ 0 \in NamcoFreqs
  /\ 1 \in 0 .. vrc6_phases - 1 /\ 0 \in 0 .. vrc6_phases - 2 /\ 0 \in 0 .. amp_range - 1
  /\ \A v \in Volumes : v \in Nat
  /\ \A d \in Vrc6Duties : d \in 0 .. vrc6_phases - 2
  /\ \A r \in SawRates : r \in 0 .. amp_range - 1
  /\ \A a \in NamcoActives : a \in Nat \ {0}
  /\ \A s \in Samples : s \in Nat
<1>1. /\ vrc6_phases \in Nat \ {0, 1} /\ amp_range \in Nat \ {0} /\ delay_range \in Nat
      /\ 0 \in Vrc6Periods /\ 0 \in Fme7Periods /\ 0 \in NamcoFreqs
      /\ \A period \in Vrc6Periods : (period + 1) * 2 <= delay_range
      /\ \A v \in Volumes : v \in Nat
      /\ \A d \in Vrc6Duties : d \in 0 .. vrc6_phases - 2
      /\ \A r \in SawRates : r \in 0 .. amp_range - 1
      /\ \A a \in NamcoActives : a \in Nat \ {0}
      /\ \A s \in Samples : s \in Nat
  BY Zenon, ExpansionAssumption DEF ExpansionAssumption
<1>2. (0 + 1) * 2 <= delay_range
  BY Zenon, <1>1
<1>3. 0 < delay_range /\ 0 \in Nat
  BY SMT, <1>1, <1>2
<1>4. 1 \in 0 .. vrc6_phases - 1 /\ 0 \in 0 .. vrc6_phases - 2 /\ 0 \in 0 .. amp_range - 1
  BY SMT, <1>1
<1> QED
  BY Zenon, <1>1, <1>3, <1>4 DEF Delay

LEMMA Vrc6IsReset ==
  ASSUME NEW kind \in Vrc6Kinds, NEW output \in BOOLEAN
  PROVE  /\ kind = "vrc6_saw" => ResetVrc6(kind, output) \in SawOsc
         /\ kind = "vrc6_square" => ResetVrc6(kind, output) \in Vrc6SquareOsc
<1> DEFINE saw == [kind |-> kind, output |-> output, delay |-> 0, last_amp |-> 0, phase |-> 1,
                   period |-> 0, enabled |-> FALSE, amp |-> 0, rate |-> 0]
           square == [kind |-> kind, output |-> output, delay |-> 0, last_amp |-> 0, phase |-> 1,
                      period |-> 0, enabled |-> FALSE, volume |-> 0, gate |-> FALSE, duty |-> 0]
<1>1. kind = "vrc6_saw" => saw \in SawOsc
  <2>1. 1 \in 1 .. 7
    BY SMT
  <2> QED
    BY SMT, <2>1, Registers DEF SawOsc
<1>2. kind = "vrc6_square" => square \in Vrc6SquareOsc
  BY SMT, Registers DEF Vrc6SquareOsc
<1>3. kind = "vrc6_square" => kind # "vrc6_saw"
  BY SMT
<1>4. ResetVrc6(kind, output) = IF kind = "vrc6_saw" THEN saw ELSE square
  BY Zenon DEF ResetVrc6
<1> QED
  BY Zenon, <1>1, <1>2, <1>3, <1>4

LEMMA Fme7IsReset ==
  ASSUME NEW output \in BOOLEAN
  PROVE  ResetFme7(output) \in Fme7Osc
<1>1. [kind |-> "fme7", output |-> output, delay |-> 0, last_amp |-> 0, phase |-> 0, period |-> 0,
       tone_off |-> FALSE, envelope |-> FALSE, volume |-> 0] \in Fme7Osc
  BY SMT, Registers DEF Fme7Osc
<1> QED
  BY Zenon, <1>1 DEF ResetFme7

LEMMA NamcoIsReset ==
  ASSUME NEW rank \in NamcoRanks, NEW output \in BOOLEAN
  PROVE  ResetNamco(rank, output) \in NamcoOsc
<1> DEFINE wave == [i \in 0 .. LargestWave - 1 |-> 0]
<1>1. LargestWave \in Nat \ {0} /\ LargestWave \in WaveSizes
  BY Zenon, WavesFit
<1>2. wave \in [0 .. LargestWave - 1 -> Nat]
  BY Zenon, Registers
<1>3. 0 \in 0 .. LargestWave - 1 /\ 1 \in Nat \ {0}
  BY SMT, <1>1
<1> HIDE DEF wave
<1>4. [kind |-> "namco", output |-> output, delay |-> 0, last_amp |-> 0, wave_pos |-> 0,
       rank |-> rank, active |-> 1, wave_on |-> FALSE, volume |-> 0, freq |-> 0,
       wave_size |-> LargestWave, wave |-> wave] \in NamcoOsc
  BY SMT, <1>1, <1>2, <1>3, Registers DEF NamcoOsc
<1> QED
  BY Zenon, <1>4 DEF ResetNamco, wave

(* Register writes.                                                        *)
LEMMA Vrc6SquareIsWritten ==
  ASSUME osc \in Vrc6SquareOsc, WriteVrc6 \/ WriteVrc6Period
  PROVE  osc' \in Vrc6SquareOsc /\ nonlinear' = nonlinear
<1>0. osc.kind = "vrc6_square" /\ osc.kind # "vrc6_saw"
  <2>1. osc.kind = "vrc6_square"
    BY Zenon DEF Vrc6SquareOsc
  <2> QED
    BY SMT, <2>1
<1>1. CASE WriteVrc6
  <2>1. PICK v \in Volumes, d \in Vrc6Duties, gate \in BOOLEAN :
          /\ osc' = [osc EXCEPT !.volume = v, !.duty = d, !.gate = gate]
          /\ nonlinear' = nonlinear
    BY Zenon, <1>0, <1>1 DEF WriteVrc6, Write
  <2>2. v \in Nat /\ d \in 0 .. vrc6_phases - 2
    BY Zenon, Registers
  <2>3. [osc EXCEPT !.volume = v, !.duty = d, !.gate = gate] \in Vrc6SquareOsc
    BY Zenon, <2>2 DEF Vrc6SquareOsc
  <2> QED
    BY Zenon, <2>1, <2>3
<1>2. CASE WriteVrc6Period
  <2>1. PICK p \in Vrc6Periods, enabled \in BOOLEAN :
          /\ \/ osc' = [osc EXCEPT !.period = p]
             \/ osc' = [osc EXCEPT !.period = p, !.enabled = enabled]
          /\ nonlinear' = nonlinear
    BY Zenon, <1>2 DEF WriteVrc6Period, Write, Low, High
  <2>2. /\ [osc EXCEPT !.period = p] \in Vrc6SquareOsc
        /\ [osc EXCEPT !.period = p, !.enabled = enabled] \in Vrc6SquareOsc
    BY Zenon DEF Vrc6SquareOsc
  <2> QED
    BY Zenon, <2>1, <2>2
<1> QED
  BY Zenon, <1>1, <1>2

LEMMA SawIsWritten ==
  ASSUME osc \in SawOsc, WriteVrc6 \/ WriteVrc6Period
  PROVE  osc' \in SawOsc /\ nonlinear' = nonlinear
<1>0. osc.kind = "vrc6_saw" /\ osc.kind # "vrc6_square"
  <2>1. osc.kind = "vrc6_saw"
    BY Zenon DEF SawOsc
  <2> QED
    BY SMT, <2>1
<1>1. CASE WriteVrc6
  <2>1. PICK rate \in SawRates : osc' = [osc EXCEPT !.rate = rate] /\ nonlinear' = nonlinear
    BY Zenon, <1>0, <1>1 DEF WriteVrc6, Write
  <2>2. rate \in 0 .. amp_range - 1
    BY Zenon, Registers
  <2>3. [osc EXCEPT !.rate = rate] \in SawOsc
    BY Zenon, <2>2 DEF SawOsc
  <2> QED
    BY Zenon, <2>1, <2>3
<1>2. CASE WriteVrc6Period
  <2>1. PICK p \in Vrc6Periods, enabled \in BOOLEAN :
          /\ \/ osc' = [osc EXCEPT !.period = p]
             \/ osc' = [osc EXCEPT !.period = p, !.enabled = enabled]
          /\ nonlinear' = nonlinear
    BY Zenon, <1>2 DEF WriteVrc6Period, Write, Low, High
  <2>2. /\ [osc EXCEPT !.period = p] \in SawOsc
        /\ [osc EXCEPT !.period = p, !.enabled = enabled] \in SawOsc
    BY Zenon DEF SawOsc
  <2> QED
    BY Zenon, <2>1, <2>2
<1> QED
  BY Zenon, <1>1, <1>2

LEMMA Fme7IsWritten ==
  ASSUME osc \in Fme7Osc, WriteFme7
  PROVE  osc' \in Fme7Osc /\ nonlinear' = nonlinear
<1>1. ASSUME NEW p \in Fme7Periods, Write([osc EXCEPT !.period = p])
      PROVE  osc' \in Fme7Osc /\ nonlinear' = nonlinear
  <2>1. [osc EXCEPT !.period = p] \in Fme7Osc
    BY Zenon DEF Fme7Osc
  <2> QED
    BY Zenon, <1>1, <2>1 DEF Write
<1>2. ASSUME NEW tone_off \in BOOLEAN, Write([osc EXCEPT !.tone_off = tone_off])
      PROVE  osc' \in Fme7Osc /\ nonlinear' = nonlinear
  <2>1. [osc EXCEPT !.tone_off = tone_off] \in Fme7Osc
    BY Zenon DEF Fme7Osc
  <2> QED
    BY Zenon, <1>2, <2>1 DEF Write
<1>3. ASSUME NEW v \in Volumes, NEW envelope \in BOOLEAN,
             Write([osc EXCEPT !.volume = v, !.envelope = envelope])
      PROVE  osc' \in Fme7Osc /\ nonlinear' = nonlinear
  <2>1. v \in Nat
    BY Zenon, Registers
  <2>2. [osc EXCEPT !.volume = v, !.envelope = envelope] \in Fme7Osc
    BY Zenon, <2>1 DEF Fme7Osc
  <2> QED
    BY Zenon, <1>3, <2>2 DEF Write
<1> QED
  BY Zenon, <1>1, <1>2, <1>3 DEF WriteFme7, Low, High

LEMMA NamcoIsWritten ==
  ASSUME osc \in NamcoOsc, WriteNamco
  PROVE  osc' \in NamcoOsc /\ nonlinear' = nonlinear
<1>0. /\ osc.wave \in [0 .. LargestWave - 1 -> Nat] /\ osc.volume \in Nat
      /\ DOMAIN osc.wave = 0 .. LargestWave - 1
  BY Zenon DEF NamcoOsc
<1>1. ASSUME NEW freq \in NamcoFreqs, Write([osc EXCEPT !.freq = freq])
      PROVE  osc' \in NamcoOsc /\ nonlinear' = nonlinear
  <2>1. [osc EXCEPT !.freq = freq] \in NamcoOsc
    BY Zenon DEF NamcoOsc
  <2> QED
    BY Zenon, <1>1, <2>1 DEF Write
<1>2. ASSUME NEW freq \in NamcoFreqs, NEW size \in WaveSizes, NEW wave_on \in BOOLEAN,
             Write([osc EXCEPT !.freq = freq, !.wave_size = size, !.wave_on = wave_on])
      PROVE  osc' \in NamcoOsc /\ nonlinear' = nonlinear
  <2>1. [osc EXCEPT !.freq = freq, !.wave_size = size, !.wave_on = wave_on] \in NamcoOsc
    BY Zenon DEF NamcoOsc
  <2> QED
    BY Zenon, <1>2, <2>1 DEF Write
<1>3. ASSUME NEW v \in Volumes \cup {osc.volume}, NEW active \in NamcoActives,
             Write([osc EXCEPT !.volume = v, !.active = active])
      PROVE  osc' \in NamcoOsc /\ nonlinear' = nonlinear
  <2>1. v \in Nat /\ active \in Nat \ {0}
    BY Zenon, <1>0, Registers
  <2>2. [osc EXCEPT !.volume = v, !.active = active] \in NamcoOsc
    BY Zenon, <2>1 DEF NamcoOsc
  <2> QED
    BY Zenon, <1>3, <2>2 DEF Write
<1>4. ASSUME NEW i \in DOMAIN osc.wave, NEW sample \in Samples,
             Write([osc EXCEPT !.wave[i] = sample])
      PROVE  osc' \in NamcoOsc /\ nonlinear' = nonlinear
  <2> DEFINE wave == [osc.wave EXCEPT ![i] = sample]
  <2>1. wave \in [0 .. LargestWave - 1 -> Nat]
    BY Zenon, <1>0, Registers
  <2>2. [osc EXCEPT !.wave[i] = sample] = [osc EXCEPT !.wave = wave]
    BY Zenon DEF NamcoOsc
  <2> HIDE DEF wave
  <2>3. [osc EXCEPT !.wave = wave] \in NamcoOsc
    BY Zenon, <2>1 DEF NamcoOsc
  <2> QED
    BY Zenon, <1>4, <2>2, <2>3 DEF Write
<1> QED
  BY Zenon, <1>1, <1>2, <1>3, <1>4 DEF WriteNamco, Low, High

LEMMA ExpansionCallsKeep ==
  ASSUME OscInv, ExpansionCalls
  PROVE  OscInv'
<1>1. osc \in States /\ osc.kind \in ExpansionKinds
  BY Zenon DEF OscInv, ExpansionCalls, ExpansionKinds
<1>2. osc.kind \in {"vrc6_square", "vrc6_saw", "fme7", "namco"}
  BY Zenon, <1>1 DEF ExpansionKinds, Vrc6Kinds
<1>3. osc.kind \notin NesKinds /\ osc.kind # "mmc5_pcm"
  BY Zenon, <1>2, UnlikeNes, Apart
<1>4. CASE EndOfFrame
  BY Zenon, <1>3, <1>4, FrameEnds
<1>5. CASE osc.kind = "vrc6_square" /\ ~EndOfFrame
  <2>0. osc.kind # "fme7" /\ osc.kind # "namco" /\ osc.kind \in Vrc6Kinds
    BY SMT, <1>5 DEF Vrc6Kinds
  <2>1. osc \in Vrc6SquareOsc
    BY Zenon, <1>1, <1>5, Sorts
  <2>2. osc.output \in BOOLEAN /\ 0 \in Nat
    BY Zenon, <2>1, Registers DEF Vrc6SquareOsc
  <2>3. WriteVrc6 \/ WriteVrc6Period \/ ResetExpansion \/ LoadState
    BY Zenon, <1>5, <2>0 DEF ExpansionCalls
  <2>4. osc' \in Vrc6SquareOsc /\ nonlinear' = nonlinear
    <3>1. CASE WriteVrc6 \/ WriteVrc6Period
      BY Zenon, <2>1, <3>1, Vrc6SquareIsWritten
    <3>2. CASE ResetExpansion
      <4>1. osc' = ResetVrc6(osc.kind, osc.output) /\ nonlinear' = nonlinear
        BY Zenon, <2>0, <3>2 DEF ResetExpansion, Write
      <4> QED
        BY Zenon, <1>5, <2>0, <2>2, <4>1, Vrc6IsReset
    <3>3. CASE LoadState
      <4>1. Loaded(osc) = [osc EXCEPT !.last_amp = 0]
        BY Zenon, <2>1, LoadedIs
      <4>2. [osc EXCEPT !.last_amp = 0] \in Vrc6SquareOsc
        BY Zenon, <2>1, <2>2 DEF Vrc6SquareOsc
      <4> QED
        BY Zenon, <3>3, <4>1, <4>2 DEF LoadState, Write
    <3> QED
      BY Zenon, <2>3, <3>1, <3>2, <3>3
  <2>5. osc' \in States /\ osc'.kind = osc.kind
    BY Zenon, <1>5, <2>4 DEF States, Vrc6SquareOsc
  <2> QED
    BY Zenon, <1>3, <2>4, <2>5, OthersKeep
<1>6. CASE osc.kind = "vrc6_saw" /\ ~EndOfFrame
  <2>0. osc.kind # "fme7" /\ osc.kind # "namco" /\ osc.kind \in Vrc6Kinds
    BY SMT, <1>6 DEF Vrc6Kinds
  <2>1. osc \in SawOsc
    BY Zenon, <1>1, <1>6, Sorts
  <2>2. osc.output \in BOOLEAN /\ 0 \in Nat
    BY Zenon, <2>1, Registers DEF SawOsc
  <2>3. WriteVrc6 \/ WriteVrc6Period \/ ResetExpansion \/ LoadState
    BY Zenon, <1>6, <2>0 DEF ExpansionCalls
  <2>4. osc' \in SawOsc /\ nonlinear' = nonlinear
    <3>1. CASE WriteVrc6 \/ WriteVrc6Period
      BY Zenon, <2>1, <3>1, SawIsWritten
    <3>2. CASE ResetExpansion
      <4>1. osc' = ResetVrc6(osc.kind, osc.output) /\ nonlinear' = nonlinear
        BY Zenon, <2>0, <3>2 DEF ResetExpansion, Write
      <4> QED
        BY Zenon, <1>6, <2>0, <2>2, <4>1, Vrc6IsReset
    <3>3. CASE LoadState
      <4>1. Loaded(osc) = [osc EXCEPT !.last_amp = 0]
        BY Zenon, <2>1, LoadedIs
      <4>2. [osc EXCEPT !.last_amp = 0] \in SawOsc
        BY Zenon, <2>1, <2>2 DEF SawOsc
      <4> QED
        BY Zenon, <3>3, <4>1, <4>2 DEF LoadState, Write
    <3> QED
      BY Zenon, <2>3, <3>1, <3>2, <3>3
  <2>5. osc' \in States /\ osc'.kind = osc.kind
    BY Zenon, <1>6, <2>4 DEF States, SawOsc
  <2> QED
    BY Zenon, <1>3, <2>4, <2>5, OthersKeep
<1>7. CASE osc.kind = "fme7" /\ ~EndOfFrame
  <2>0. osc.kind \notin Vrc6Kinds /\ osc.kind # "namco"
    BY SMT, <1>7 DEF Vrc6Kinds
  <2>1. osc \in Fme7Osc
    BY Zenon, <1>1, <1>7, Sorts
  <2>2. osc.output \in BOOLEAN /\ 0 \in Nat
    BY Zenon, <2>1, Registers DEF Fme7Osc
  <2>3. WriteFme7 \/ ResetExpansion \/ LoadState
    BY Zenon, <1>7, <2>0 DEF ExpansionCalls
  <2>4. osc' \in Fme7Osc /\ nonlinear' = nonlinear
    <3>1. CASE WriteFme7
      BY Zenon, <2>1, <3>1, Fme7IsWritten
    <3>2. CASE ResetExpansion
      <4>1. osc' = ResetFme7(osc.output) /\ nonlinear' = nonlinear
        BY Zenon, <1>7, <3>2 DEF ResetExpansion, Write
      <4> QED
        BY Zenon, <2>2, <4>1, Fme7IsReset
    <3>3. CASE LoadState
      <4>1. Loaded(osc) = [osc EXCEPT !.last_amp = 0]
        BY Zenon, <2>1, LoadedIs
      <4>2. [osc EXCEPT !.last_amp = 0] \in Fme7Osc
        BY Zenon, <2>1, <2>2 DEF Fme7Osc
      <4> QED
        BY Zenon, <3>3, <4>1, <4>2 DEF LoadState, Write
    <3> QED
      BY Zenon, <2>3, <3>1, <3>2, <3>3
  <2>5. osc' \in States /\ osc'.kind = osc.kind
    BY Zenon, <1>7, <2>4 DEF States, Fme7Osc
  <2> QED
    BY Zenon, <1>3, <2>4, <2>5, OthersKeep
<1>8. CASE osc.kind = "namco" /\ ~EndOfFrame
  <2>0. osc.kind \notin Vrc6Kinds /\ osc.kind # "fme7"
    BY SMT, <1>8 DEF Vrc6Kinds
  <2>1. osc \in NamcoOsc
    BY Zenon, <1>1, <1>8, Sorts
  <2>2. osc.output \in BOOLEAN /\ osc.rank \in NamcoRanks
    BY Zenon, <2>1 DEF NamcoOsc
  <2>3. WriteNamco \/ ResetExpansion
    BY Zenon, <1>8, <2>0 DEF ExpansionCalls, LoadState
  <2>4. osc' \in NamcoOsc /\ nonlinear' = nonlinear
    <3>1. CASE WriteNamco
      BY Zenon, <2>1, <3>1, NamcoIsWritten
    <3>2. CASE ResetExpansion
      <4>1. osc' = ResetNamco(osc.rank, osc.output) /\ nonlinear' = nonlinear
        BY Zenon, <1>8, <2>0, <3>2 DEF ResetExpansion, Write
      <4> QED
        BY Zenon, <2>2, <4>1, NamcoIsReset
    <3> QED
      BY Zenon, <2>3, <3>1, <3>2
  <2>5. osc' \in States /\ osc'.kind = osc.kind
    BY Zenon, <1>8, <2>4 DEF States, NamcoOsc
  <2> QED
    BY Zenon, <1>3, <2>4, <2>5, OthersKeep
<1> QED
  BY Zenon, <1>2, <1>4, <1>5, <1>6, <1>7, <1>8

-----------------------------------------------------------------------------
(* The FDS and the VRC7.                                                   *)

LEMMA FdsCallsKeep ==
  ASSUME OscInv, FdsCalls
  PROVE  OscInv'
<1>1. osc \in States /\ osc.kind = "fds"
  BY Zenon DEF OscInv, FdsCalls
<1>2. osc \in FdsState /\ osc.kind \notin NesKinds /\ osc.kind # "mmc5_pcm"
  BY Zenon, <1>1, Sorts, UnlikeNes, Apart
<1>3. osc.client \in DOMAIN FdsClients /\ osc.output \in BOOLEAN
  BY Zenon, <1>2 DEF FdsState
<1>4. ASSUME osc' \in FdsState, nonlinear' = nonlinear
      PROVE  OscInv'
  <2>1. osc' \in States /\ osc'.kind = osc.kind
    BY Zenon, <1>1, <1>4 DEF States, FdsState
  <2> QED
    BY Zenon, <1>2, <1>4, <2>1, OthersKeep
<1>5. ASSUME NEW n \in RunLengths, FdsWrite(n)
      PROVE  OscInv'
  <2> DEFINE run == RunFds(osc, n)
  <2>1. PICK w \in FdsClients[osc.client].writes : osc' = FdsWritten(run.osc, w)
    BY Zenon, <1>5 DEF FdsWrite, WriteAfter
  <2>2. nonlinear' = nonlinear
    BY Zenon, <1>5 DEF FdsWrite, WriteAfter
  <2>3. w \in FdsWrites
    <3>1. FdsClients[osc.client].writes \in SUBSET FdsWrites
      BY Zenon, <1>3, FdsClientsAssumption DEF FdsClientsAssumption
    <3> QED
      BY Zenon, <3>1
  <2>4. n \in Nat
    BY Zenon, RunAssumption DEF RunAssumption
  <2>5. run.osc \in FdsState
    BY Zenon, <1>2, <2>4, FdsRun
  <2> HIDE DEF run
  <2>6. FdsWritten(run.osc, w) \in FdsState
    BY Zenon, <2>3, <2>5, RegisterWritten
  <2> QED
    BY Zenon, <1>4, <2>1, <2>2, <2>6
<1>6. ASSUME Write(ResetFds(osc.client, osc.output))
      PROVE  OscInv'
  <2>1. ResetFds(osc.client, osc.output) \in FdsState
    BY Zenon, <1>3, FdsReset
  <2> QED
    BY Zenon, <1>4, <1>6, <2>1 DEF Write
<1>7. ASSUME EndOfFrame PROVE OscInv'
  BY Zenon, <1>2, <1>7, FrameEnds
<1> QED
  BY Zenon, <1>5, <1>6, <1>7 DEF FdsCalls

LEMMA Vrc7IsReset ==
  ASSUME NEW output \in BOOLEAN
  PROVE  ResetVrc7(output) \in Vrc7State
<1>1. 0 \in Nat /\ 0 \in {0, 1}
  BY SMT
<1>2. [kind |-> "vrc7", output |-> output, delay |-> 0, last_amp |-> 0, turn |-> 0,
       key_on |-> FALSE] \in Vrc7State
  BY SMT, <1>1 DEF Vrc7State
<1> QED
  BY Zenon, <1>2 DEF ResetVrc7

LEMMA Vrc7CallsKeep ==
  ASSUME OscInv, Vrc7Calls
  PROVE  OscInv'
<1>1. osc \in States /\ osc.kind = "vrc7"
  BY Zenon DEF OscInv, Vrc7Calls
<1>2. osc \in Vrc7State /\ osc.kind \notin NesKinds /\ osc.kind # "mmc5_pcm"
  BY Zenon, <1>1, Sorts, UnlikeNes, Apart
<1>3. osc.output \in BOOLEAN /\ osc.delay \in Nat /\ osc.key_on \in BOOLEAN
  BY Zenon, <1>2 DEF Vrc7State
<1>4. ASSUME NEW x \in Vrc7State, Write(x)
      PROVE  OscInv'
  <2>1. osc' \in States /\ osc'.kind = osc.kind /\ nonlinear' = nonlinear
    BY Zenon, <1>1, <1>4 DEF States, Vrc7State, Write
  <2> QED
    BY Zenon, <1>2, <2>1, OthersKeep
<1>5. ASSUME WriteKeyOn PROVE OscInv'
  <2>1. PICK on \in BOOLEAN : Write([osc EXCEPT !.key_on = on])
    BY Zenon, <1>5 DEF WriteKeyOn
  <2>2. [osc EXCEPT !.key_on = on] \in Vrc7State
    BY Zenon, <1>2 DEF Vrc7State
  <2> QED
    BY Zenon, <1>4, <2>1, <2>2
<1>6. ASSUME Write(ResetVrc7(osc.output)) PROVE OscInv'
  <2>1. ResetVrc7(osc.output) \in Vrc7State
    BY Zenon, <1>3, Vrc7IsReset
  <2> QED
    BY Zenon, <1>4, <1>6, <2>1
<1>7. ASSUME Write(Vrc7Loaded(osc)) PROVE OscInv'
  <2> DEFINE r == ResetVrc7(osc.output)
  <2>1. r \in Vrc7State
    BY Zenon, <1>3, Vrc7IsReset
  <2>2. Vrc7Loaded(osc) = [r EXCEPT !.delay = osc.delay, !.key_on = osc.key_on]
    BY Zenon DEF Vrc7Loaded
  <2> HIDE DEF r
  <2>3. [r EXCEPT !.delay = osc.delay, !.key_on = osc.key_on] \in Vrc7State
    BY Zenon, <1>3, <2>1 DEF Vrc7State
  <2> QED
    BY Zenon, <1>4, <1>7, <2>2, <2>3
<1>8. ASSUME EndOfFrame PROVE OscInv'
  BY Zenon, <1>2, <1>8, FrameEnds
<1> QED
  BY Zenon, <1>5, <1>6, <1>7, <1>8 DEF Vrc7Calls

-----------------------------------------------------------------------------
(* set_output.                                                             *)

(* x is o with another output.                                             *)
Switched(o, x) ==
  /\ x \in States /\ x.kind = o.kind /\ x.last_amp = o.last_amp
  /\ o.kind = "mmc5_pcm" => x.line = o.line /\ x.irq_flag = o.irq_flag /\ x.dropped = o.dropped

LEMMA OutputIsSet ==
  ASSUME NEW o \in States, NEW on \in BOOLEAN
  PROVE  Switched(o, [o EXCEPT !.output = on])
<1> DEFINE x == [o EXCEPT !.output = on]
<1>1. /\ o \in SquareOsc => x \in SquareOsc /\ x.kind = o.kind /\ x.last_amp = o.last_amp
      /\ o \in TriangleOsc => x \in TriangleOsc /\ x.kind = o.kind /\ x.last_amp = o.last_amp
      /\ o \in NoiseOsc => x \in NoiseOsc /\ x.kind = o.kind /\ x.last_amp = o.last_amp
  BY Zenon DEF SquareOsc, TriangleOsc, NoiseOsc
<1>2. /\ o \in Mmc5SquareOsc => x \in Mmc5SquareOsc /\ x.kind = o.kind /\ x.last_amp = o.last_amp
      /\ o \in Vrc6SquareOsc => x \in Vrc6SquareOsc /\ x.kind = o.kind /\ x.last_amp = o.last_amp
      /\ o \in SawOsc => x \in SawOsc /\ x.kind = o.kind /\ x.last_amp = o.last_amp
      /\ o \in Fme7Osc => x \in Fme7Osc /\ x.kind = o.kind /\ x.last_amp = o.last_amp
  BY Zenon DEF Mmc5SquareOsc, Vrc6SquareOsc, SawOsc, Fme7Osc
<1>3. /\ o \in NamcoOsc => x \in NamcoOsc /\ x.kind = o.kind /\ x.last_amp = o.last_amp
      /\ o \in FdsState => x \in FdsState /\ x.kind = o.kind /\ x.last_amp = o.last_amp
      /\ o \in Vrc7State => x \in Vrc7State /\ x.kind = o.kind /\ x.last_amp = o.last_amp
  BY Zenon DEF NamcoOsc, FdsState, Vrc7State
<1>4. o \in PcmOsc =>
        /\ x \in PcmOsc /\ x.kind = o.kind /\ x.last_amp = o.last_amp
        /\ x.line = o.line /\ x.irq_flag = o.irq_flag /\ x.dropped = o.dropped
  BY Zenon DEF PcmOsc
<1> HIDE DEF x
<1>5. \/ o \in SquareOsc \/ o \in TriangleOsc \/ o \in NoiseOsc \/ o \in Mmc5SquareOsc
      \/ o \in PcmOsc \/ o \in Vrc6SquareOsc \/ o \in SawOsc \/ o \in Fme7Osc \/ o \in NamcoOsc
      \/ o \in FdsState \/ o \in Vrc7State
  BY Zenon DEF States
<1>6. x \in States /\ x.kind = o.kind /\ x.last_amp = o.last_amp
  BY Zenon, <1>1, <1>2, <1>3, <1>4, <1>5 DEF States
<1>7. o.kind = "mmc5_pcm" => o \in PcmOsc
  BY Zenon, Sorts
<1> QED
  BY Zenon, <1>4, <1>6, <1>7 DEF Switched, x

LEMMA SetOutputKeeps ==
  ASSUME OscInv, SetOutput
  PROVE  OscInv'
<1> DEFINE on == ~osc.output
<1>1. osc' = [osc EXCEPT !.output = on] /\ UNCHANGED <<nonlinear, modified>>
  BY Zenon DEF SetOutput, Write
<1>2. osc \in States /\ (osc.kind = "mmc5_pcm" => osc.line = (osc.irq_flag \/ osc.dropped))
  BY Zenon DEF OscInv, LineFollowsFlag
<1>3. on \in BOOLEAN
  BY SMT
<1> HIDE DEF on
<1>4. Switched(osc, osc')
  BY Zenon, <1>1, <1>2, <1>3, OutputIsSet
<1>5. osc.kind = "mmc5_pcm" => osc'.line = (osc'.irq_flag \/ osc'.dropped)
  <2>1. osc.kind = "mmc5_pcm" => osc'.line = osc.line /\ osc'.irq_flag = osc.irq_flag
                                 /\ osc'.dropped = osc.dropped
    BY Zenon, <1>4 DEF Switched
  <2> QED
    BY Zenon, <1>2, <2>1
<1>6. Fits(osc')
  BY Zenon, <1>4, <1>5 DEF Fits, Switched
<1> QED
  BY Zenon, <1>1, <1>6, Fitting

-----------------------------------------------------------------------------
(* The beginning, and every step.                                          *)

LEMMA Begun == Init => OscInv
<1>1. ASSUME NesInit PROVE OscInv
  <2> DEFINE linear == ~nonlinear
  <2>1. PICK kind \in Kinds \cap NesKinds : osc = Reset(kind, linear)
    BY Zenon, <1>1 DEF NesInit
  <2>2. linear \in BOOLEAN /\ (nonlinear => linear = FALSE)
    BY SMT
  <2> HIDE DEF linear
  <2>3. kind \in NesKinds /\ kind \in Kinds /\ FALSE \in BOOLEAN
    BY Zenon
  <2>4. WasReset(kind, linear, FALSE)
    BY Zenon, <2>2, <2>3, NesReset
  <2>5. osc \in NesOsc /\ osc.kind = kind /\ (linear = FALSE => osc.last_amp = 0)
    BY Zenon, <2>1, <2>4 DEF WasReset
  <2>6. osc \in States
    BY Zenon, <2>5 DEF States, NesOsc
  <2>7. LineFollowsFlag
    BY Zenon, <2>3, <2>5, <2>6, NesSorts DEF LineFollowsFlag
  <2>8. nonlinear \in BOOLEAN
    BY Zenon, <1>1 DEF NesInit
  <2> QED
    BY Zenon, <2>2, <2>3, <2>5, <2>6, <2>7, <2>8 DEF OscInv
<1>2. ASSUME nonlinear = FALSE, osc \in States, osc.kind \in Kinds,
             osc.kind = "mmc5_pcm" => osc.line = (osc.irq_flag \/ osc.dropped)
      PROVE  OscInv
  <2>1. nonlinear = FALSE
    BY Zenon, <1>2
  <2>2. nonlinear \in BOOLEAN /\ ~nonlinear
    BY Zenon, <2>1
  <2> QED
    BY Zenon, <1>2, <2>2 DEF OscInv, LineFollowsFlag
<1>3. ASSUME Mmc5Init PROVE OscInv
  <2>0. nonlinear = FALSE
    BY Zenon, <1>3 DEF Mmc5Init
  <2>1. CASE "mmc5_square" \in Kinds /\ \E sweep \in Sweeps : osc = ResetMmc5Square(sweep, FALSE)
    <3>1. PICK sweep \in Sweeps : osc = ResetMmc5Square(sweep, FALSE)
      BY Zenon, <2>1
    <3>2. sweep \in Sweep /\ FALSE \in BOOLEAN
      BY Zenon, OscAssumption DEF OscAssumption, Sweep
    <3>3. osc \in Mmc5SquareOsc
      BY Zenon, <3>1, <3>2, Mmc5SquareIsReset
    <3>4. osc \in States /\ osc.kind = "mmc5_square"
      BY Zenon, <3>3 DEF States, Mmc5SquareOsc
    <3>5. osc.kind \in Kinds /\ osc.kind # "mmc5_pcm"
      BY Zenon, <2>1, <3>4, Apart
    <3> QED
      BY Zenon, <1>2, <2>0, <3>4, <3>5
  <2>2. CASE "mmc5_pcm" \in Kinds /\ osc = ResetPcm(FALSE, FALSE)
    <3>1. FALSE \in BOOLEAN
      BY Zenon
    <3>2. osc \in PcmOsc /\ Follows(osc)
      BY Zenon, <2>2, <3>1, PcmIsReset
    <3>3. osc \in States /\ osc.kind = "mmc5_pcm"
      BY Zenon, <3>2 DEF States, PcmOsc
    <3>4. osc.kind \in Kinds
      BY Zenon, <2>2, <3>3
    <3> QED
      BY Zenon, <1>2, <2>0, <3>2, <3>3, <3>4 DEF Follows
  <2> QED
    BY Zenon, <1>3, <2>1, <2>2 DEF Mmc5Init
<1>4. ASSUME ExpansionInit PROVE OscInv
  <2>0. nonlinear = FALSE
    BY Zenon, <1>4 DEF ExpansionInit
  <2>1. FALSE \in BOOLEAN
    BY Zenon
  <2>2. osc \in States /\ osc.kind \in Kinds /\ osc.kind # "mmc5_pcm"
    <3>1. CASE \E kind \in Vrc6Kinds \cap Kinds : osc = ResetVrc6(kind, FALSE)
      <4>1. PICK kind \in Vrc6Kinds : kind \in Kinds /\ osc = ResetVrc6(kind, FALSE)
        BY Zenon, <3>1
      <4>2. kind = "vrc6_square" \/ kind = "vrc6_saw"
        BY Zenon DEF Vrc6Kinds
      <4>3. \/ kind = "vrc6_square" /\ osc \in Vrc6SquareOsc
            \/ kind = "vrc6_saw" /\ osc \in SawOsc
        BY Zenon, <2>1, <4>1, <4>2, Vrc6IsReset
      <4>4. osc \in States /\ osc.kind = kind
        BY Zenon, <4>3 DEF States, Vrc6SquareOsc, SawOsc
      <4>5. kind # "mmc5_pcm"
        BY Zenon, <4>2, Apart
      <4> QED
        BY Zenon, <4>1, <4>4, <4>5
    <3>2. CASE "fme7" \in Kinds /\ osc = ResetFme7(FALSE)
      <4>1. osc \in Fme7Osc
        BY Zenon, <2>1, <3>2, Fme7IsReset
      <4>2. osc \in States /\ osc.kind = "fme7"
        BY Zenon, <4>1 DEF States, Fme7Osc
      <4> QED
        BY Zenon, <3>2, <4>2, Apart
    <3>3. CASE "namco" \in Kinds /\ \E rank \in NamcoRanks : osc = ResetNamco(rank, FALSE)
      <4>1. osc \in NamcoOsc
        BY Zenon, <2>1, <3>3, NamcoIsReset
      <4>2. osc \in States /\ osc.kind = "namco"
        BY Zenon, <4>1 DEF States, NamcoOsc
      <4> QED
        BY Zenon, <3>3, <4>2, Apart
    <3> QED
      BY Zenon, <1>4, <3>1, <3>2, <3>3 DEF ExpansionInit
  <2> QED
    BY Zenon, <1>2, <2>0, <2>2
<1>5. ASSUME FdsInit PROVE OscInv
  <2>1. PICK client \in DOMAIN FdsClients :
          osc = AllWritten(ResetFds(client, FALSE), FdsClients[client].setup)
    BY Zenon, <1>5 DEF FdsInit
  <2>2. osc \in FdsState
    BY Zenon, <2>1, FdsBegun
  <2>3. osc \in States /\ osc.kind = "fds" /\ osc.kind # "mmc5_pcm"
    BY Zenon, <2>2, Apart DEF States, FdsState
  <2>4. osc.kind \in Kinds /\ nonlinear = FALSE
    BY Zenon, <1>5, <2>3 DEF FdsInit
  <2> QED
    BY Zenon, <1>2, <2>3, <2>4
<1>6. ASSUME Vrc7Init PROVE OscInv
  <2>1. osc = ResetVrc7(FALSE) /\ "vrc7" \in Kinds /\ nonlinear = FALSE /\ FALSE \in BOOLEAN
    BY Zenon, <1>6 DEF Vrc7Init
  <2>2. osc \in Vrc7State
    BY Zenon, <2>1, Vrc7IsReset
  <2>3. osc \in States /\ osc.kind = "vrc7"
    BY Zenon, <2>2 DEF States, Vrc7State
  <2>4. osc.kind \in Kinds /\ osc.kind # "mmc5_pcm"
    BY Zenon, <2>1, <2>3, Apart
  <2> QED
    BY Zenon, <1>2, <2>1, <2>3, <2>4
<1> QED
  BY Zenon, <1>1, <1>3, <1>4, <1>5, <1>6 DEF Init

LEMMA StepKeeps == OscInv /\ [Next]_vars => OscInv'
<1> SUFFICES ASSUME OscInv, [Next]_vars PROVE OscInv'
  OBVIOUS
<1>1. ASSUME NEW n \in RunLengths, RunOn(n) PROVE OscInv'
  BY Zenon, <1>1, RunKeeps
<1>2. ASSUME UNCHANGED vars PROVE OscInv'
  <2>1. osc' = osc /\ nonlinear' = nonlinear /\ modified' = modified
    BY Zenon, <1>2 DEF vars
  <2>2. /\ osc \in States
        /\ osc.kind = "mmc5_pcm" => osc.line = (osc.irq_flag \/ osc.dropped)
    BY Zenon DEF OscInv, LineFollowsFlag
  <2>3. osc.kind = "mmc5_pcm" => osc'.line = (osc'.irq_flag \/ osc'.dropped)
    BY Zenon, <2>1, <2>2
  <2>4. Fits(osc')
    BY Zenon, <2>1, <2>2, <2>3 DEF Fits
  <2> QED
    BY Zenon, <2>1, <2>4, Fitting
<1> QED
  BY Zenon, <1>1, <1>2, NesCallsKeep, Mmc5CallsKeep, ExpansionCallsKeep, FdsCallsKeep,
     Vrc7CallsKeep, SetOutputKeeps DEF Next

(* The oscillator is always one of its sort.                               *)
LEMMA OscInvariant == Spec => []OscInv
BY Begun, StepKeeps, PTL DEF Spec

-----------------------------------------------------------------------------
(* What follows from the invariant.                                        *)

LEMMA TypesHold ==
  ASSUME OscInv
  PROVE  TypeOK
<1>1. osc \in States /\ osc.kind \in Kinds
  BY Zenon DEF OscInv
<1>2. /\ osc.kind \in squares => osc \in SquareOsc
      /\ osc.kind = "triangle" => osc \in TriangleOsc
      /\ osc.kind = "noise" => osc \in NoiseOsc
      /\ osc.kind = "mmc5_square" => osc \in Mmc5SquareOsc
      /\ osc.kind = "vrc6_square" => osc \in Vrc6SquareOsc
      /\ osc.kind = "vrc6_saw" => osc \in SawOsc
      /\ osc.kind = "fme7" => osc \in Fme7Osc
      /\ osc.kind = "namco" => osc \in NamcoOsc
      /\ osc.kind = "fds" => osc \in FdsState
  BY Zenon, <1>1, Sorts
<1>3. \/ osc \in SquareOsc \/ osc \in TriangleOsc \/ osc \in NoiseOsc \/ osc \in Mmc5SquareOsc
      \/ osc \in PcmOsc \/ osc \in Vrc6SquareOsc \/ osc \in SawOsc \/ osc \in Fme7Osc
      \/ osc \in NamcoOsc \/ osc \in FdsState \/ osc \in Vrc7State
  BY Zenon, <1>1 DEF States
<1>4. \A d \in Delay : d \in Nat
  BY Zenon DEF Delay
<1>5. osc.output \in BOOLEAN /\ osc.last_amp \in Nat
  <2>1. osc \in SquareOsc \/ osc \in TriangleOsc \/ osc \in NoiseOsc \/ osc \in Mmc5SquareOsc =>
          osc.output \in BOOLEAN /\ osc.last_amp \in Nat
    BY Zenon DEF SquareOsc, TriangleOsc, NoiseOsc, Mmc5SquareOsc
  <2>2. osc \in PcmOsc \/ osc \in Vrc6SquareOsc \/ osc \in SawOsc \/ osc \in Fme7Osc =>
          osc.output \in BOOLEAN /\ osc.last_amp \in Nat
    BY Zenon DEF PcmOsc, Vrc6SquareOsc, SawOsc, Fme7Osc
  <2>3. osc \in NamcoOsc \/ osc \in FdsState \/ osc \in Vrc7State =>
          osc.output \in BOOLEAN /\ osc.last_amp \in Nat
    BY Zenon DEF NamcoOsc, FdsState, Vrc7State
  <2> QED
    BY Zenon, <1>3, <2>1, <2>2, <2>3
<1>6. osc.kind # "fds" => osc.delay \in Nat
  <2>1. osc \in SquareOsc \/ osc \in TriangleOsc \/ osc \in NoiseOsc \/ osc \in Mmc5SquareOsc =>
          osc.delay \in Nat
    BY Zenon DEF SquareOsc, TriangleOsc, NoiseOsc, Mmc5SquareOsc
  <2>2. osc \in PcmOsc \/ osc \in Vrc6SquareOsc \/ osc \in SawOsc \/ osc \in Fme7Osc =>
          osc.delay \in Nat
    BY Zenon, <1>4 DEF PcmOsc, Vrc6SquareOsc, SawOsc, Fme7Osc
  <2>3. /\ osc \in NamcoOsc \/ osc \in Vrc7State => osc.delay \in Nat
        /\ osc \in FdsState => osc.kind = "fds"
    BY Zenon DEF NamcoOsc, FdsState, Vrc7State
  <2> QED
    BY Zenon, <1>3, <2>1, <2>2, <2>3
<1>7. /\ osc.kind \in NesKinds => osc.length_counter \in Nat
      /\ osc.kind \in squares => osc.phase \in 0 .. phase_range - 1
      /\ osc.kind = "triangle" => osc.phase \in 1 .. tri_range * 2
      /\ osc.kind \in squares \cup {"triangle"} => osc.period \in 0 .. period_range - 1
  BY Zenon, <1>2 DEF SquareOsc, TriangleOsc, NoiseOsc, NesKinds
<1>8. /\ osc.kind = "vrc6_square" => osc.phase \in 0 .. vrc6_phases - 1
      /\ osc.kind = "vrc6_saw" => osc.phase \in 1 .. 7 /\ osc.amp \in 0 .. amp_range - 1
      /\ osc.kind = "fme7" => osc.phase \in {0, 1}
      /\ osc.kind = "namco" => osc.wave_pos \in DOMAIN osc.wave
      /\ osc.kind = "mmc5_square" =>
           osc.phase \in 0 .. phase_range - 1 /\ osc.frame_delay \in 0 .. mmc5_frame_period
  BY Zenon, <1>2 DEF Vrc6SquareOsc, SawOsc, Fme7Osc, NamcoOsc, Mmc5SquareOsc
<1>9. osc.kind = "fds" =>
        /\ osc.wave_fract \in 1 .. fract_range /\ osc.mod_fract \in 1 .. fract_range
        /\ osc.env.delay \in Nat /\ osc.sweep.delay \in Nat
        /\ osc.bias \in 0 .. bias_range - 1 /\ osc.mod_write_pos \in DOMAIN osc.mod_wave
  <2>1. osc \in FdsState =>
          /\ osc.wave_fract \in 1 .. fract_range /\ osc.mod_fract \in 1 .. fract_range
          /\ osc.env \in Unit /\ osc.sweep \in Unit
          /\ osc.bias \in 0 .. bias_range - 1 /\ osc.mod_write_pos \in WriteSpot
          /\ DOMAIN osc.mod_wave = WaveSpot
    BY Zenon DEF FdsState, Fraction
  <2>2. \A u \in Unit : u.delay \in Nat
    BY Zenon DEF Unit
  <2>3. \A pos \in WriteSpot : pos \in WaveSpot
    BY Zenon DEF WriteSpot
  <2> QED
    BY Zenon, <1>2, <2>1, <2>2, <2>3
<1> QED
  BY Zenon, <1>1, <1>5, <1>6, <1>7, <1>8, <1>9 DEF TypeOK

LEMMA LengthsAre == \A n \in Lengths : n \in Nat \ {0} /\ n \in Nat /\ n > 0
<1>1. 1 \in Nat \ {0} /\ Longest \in Nat \ {0}
  BY SMT, RunAssumption DEF RunAssumption
<1>2. \A n \in Nat \ {0} : n \in Nat /\ n > 0
  BY SMT
<1> QED
  BY Zenon, <1>1, <1>2 DEF Lengths

LEMMA NoiseIsNotZero ==
  ASSUME OscInv
  PROVE  NoiseNeverStuck
<1>1. osc \in States
  BY Zenon DEF OscInv
<1>2. osc.kind = "noise" => osc \in NoiseOsc
  BY Zenon, <1>1, Sorts
<1> QED
  BY Zenon, <1>2 DEF NoiseNeverStuck, NoiseOsc, Register

LEMMA WritersMark ==
  ASSUME OscInv
  PROVE  DeltasAreMarked
<1>1. osc \in States
  BY Zenon DEF OscInv
<1>2. ASSUME NEW n \in Lengths, osc.kind # "vrc7" PROVE Marked(Run(osc, n), n)
  <2>1. n \in Nat /\ n > 0
    BY Zenon, LengthsAre
  <2>2. OscRan(osc, n, Run(osc, n))
    BY Zenon, <1>1, <2>1, OscRun
  <2> QED
    BY Zenon, <1>2, <2>2 DEF OscRan
<1>3. Zeroed # 0 => modified
  <2>1. ASSUME Zeroed # 0 PROVE modified
    <3>1. nonlinear /\ -osc.last_amp # 0
      BY Zenon, <2>1 DEF Zeroed
    <3>2. osc.last_amp # 0
      BY SMT, <3>1
    <3> QED
      BY Zenon, <3>1, <3>2 DEF OscInv
  <2> QED
    BY Zenon, <2>1
<1> QED
  BY Zenon, <1>2, <1>3 DEF DeltasAreMarked

LEMMA SavedPlaysOn ==
  ASSUME OscInv
  PROVE  LoadedPlaysOn
<1>1. osc \in States
  BY Zenon DEF OscInv
<1> SUFFICES ASSUME osc.kind \in {"vrc7"} \cup (ExpansionKinds \ {"namco"}), NEW n \in Lengths
             PROVE  PlaysOn(Run(IF osc.kind = "vrc7" THEN Vrc7Loaded(osc) ELSE Loaded(osc), n),
                            Run(osc, n), n)
  BY Zenon DEF LoadedPlaysOn
<1>2. n \in Nat
  BY Zenon, LengthsAre
<1>3. \/ osc.kind = "vrc7"
      \/ osc.kind = "vrc6_square" /\ osc.kind # "vrc7"
      \/ osc.kind = "vrc6_saw" /\ osc.kind # "vrc7"
      \/ osc.kind = "fme7" /\ osc.kind # "vrc7"
  BY SMT DEF ExpansionKinds, Vrc6Kinds
<1>4. CASE osc.kind = "vrc7"
  <2> DEFINE l == Vrc7Loaded(osc)
             r == ResetVrc7(osc.output)
  <2>1. osc \in Vrc7State
    BY Zenon, <1>1, <1>4, Sorts
  <2>2. osc.output \in BOOLEAN /\ osc.delay \in Nat /\ osc.key_on \in BOOLEAN
    BY Zenon, <2>1 DEF Vrc7State
  <2>3. r \in Vrc7State
    BY Zenon, <2>2, Vrc7IsReset
  <2>4. l = [r EXCEPT !.delay = osc.delay, !.key_on = osc.key_on]
    BY Zenon DEF Vrc7Loaded
  <2> HIDE DEF l, r
  <2>5. l \in Vrc7State /\ l.kind = "vrc7" /\ l.delay = osc.delay
    BY Zenon, <2>2, <2>3, <2>4 DEF Vrc7State
  <2>6. Run(l, n) = RunVrc7(l, n) /\ Run(osc, n) = RunVrc7(osc, n)
    BY Zenon, <1>4, <2>5, RunOf
  <2>7. /\ RunVrc7(l, n).osc.delay = DelayAfter(l.delay, fm_period, n)
        /\ RunVrc7(osc, n).osc.delay = DelayAfter(osc.delay, fm_period, n)
    BY Zenon, <1>2, <2>1, <2>5, Vrc7Run
  <2>8. Run(l, n).osc.delay = Run(osc, n).osc.delay
    BY Zenon, <2>5, <2>6, <2>7
  <2>9. PlaysOn(Run(l, n), Run(osc, n), n)
    BY Zenon, <1>4, <2>8 DEF PlaysOn
  <2> QED
    BY Zenon, <1>4, <2>9 DEF l
<1>5. CASE osc.kind = "vrc6_square" /\ osc.kind # "vrc7"
  <2>1. osc \in Vrc6SquareOsc
    BY Zenon, <1>1, <1>5, Sorts
  <2>2. Loaded(osc) = [osc EXCEPT !.last_amp = 0]
    BY Zenon, <2>1, LoadedIs
  <2>3. Loaded(osc).kind = "vrc6_square"
    BY Zenon, <2>1, <2>2, <1>5 DEF Vrc6SquareOsc
  <2>4. Run(Loaded(osc), n) = RunVrc6Square(Loaded(osc), n) /\ Run(osc, n) = RunVrc6Square(osc, n)
    BY Zenon, <1>5, <2>3, RunOf
  <2> QED
    BY Zenon, <1>2, <1>5, <2>1, <2>4, Vrc6PlaysOn
<1>6. CASE osc.kind = "vrc6_saw" /\ osc.kind # "vrc7"
  <2>1. osc \in SawOsc
    BY Zenon, <1>1, <1>6, Sorts
  <2>2. Loaded(osc) = [osc EXCEPT !.last_amp = 0]
    BY Zenon, <2>1, LoadedIs
  <2>3. Loaded(osc).kind = "vrc6_saw"
    BY Zenon, <2>1, <2>2, <1>6 DEF SawOsc
  <2>4. Run(Loaded(osc), n) = RunSaw(Loaded(osc), n) /\ Run(osc, n) = RunSaw(osc, n)
    BY Zenon, <1>6, <2>3, RunOf
  <2> QED
    BY Zenon, <1>2, <1>6, <2>1, <2>4, SawPlaysOn
<1>7. CASE osc.kind = "fme7" /\ osc.kind # "vrc7"
  <2>1. osc \in Fme7Osc
    BY Zenon, <1>1, <1>7, Sorts
  <2>2. Loaded(osc) = [osc EXCEPT !.last_amp = 0]
    BY Zenon, <2>1, LoadedIs
  <2>3. Loaded(osc).kind = "fme7"
    BY Zenon, <2>1, <2>2, <1>7 DEF Fme7Osc
  <2>4. Run(Loaded(osc), n) = RunFme7(Loaded(osc), n) /\ Run(osc, n) = RunFme7(osc, n)
    BY Zenon, <1>7, <2>3, RunOf
  <2> QED
    BY Zenon, <1>2, <1>7, <2>1, <2>4, Fme7PlaysOn
<1> QED
  BY Zenon, <1>3, <1>4, <1>5, <1>6, <1>7

-----------------------------------------------------------------------------
(* Heard or muted.                                                         *)

(* What does not depend on the output.                                     *)
LEMMA HeardOrMuted ==
  /\ osc \in SquareOsc =>
       /\ Heard(TRUE) \in SquareOsc /\ Heard(FALSE) \in SquareOsc
       /\ Heard(TRUE).kind = osc.kind /\ Heard(FALSE).kind = osc.kind
       /\ Timed(Heard(TRUE), Heard(FALSE))
  /\ osc \in Mmc5SquareOsc =>
       /\ Heard(TRUE) \in Mmc5SquareOsc /\ Heard(FALSE) \in Mmc5SquareOsc
       /\ Heard(TRUE).kind = osc.kind /\ Heard(FALSE).kind = osc.kind
       /\ Timed(Heard(TRUE), Heard(FALSE))
       /\ Heard(TRUE).frame_delay = Heard(FALSE).frame_delay
  /\ osc \in TriangleOsc =>
       /\ Heard(TRUE) \in TriangleOsc /\ Heard(FALSE) \in TriangleOsc
       /\ Heard(TRUE).kind = osc.kind /\ Heard(FALSE).kind = osc.kind
       /\ Heard(TRUE).delay = Heard(FALSE).delay /\ Heard(TRUE).period = Heard(FALSE).period
       /\ Heard(TRUE).length_counter = Heard(FALSE).length_counter
       /\ Heard(TRUE).linear_counter = Heard(FALSE).linear_counter
  /\ osc \in NoiseOsc =>
       /\ Heard(TRUE) \in NoiseOsc /\ Heard(FALSE) \in NoiseOsc
       /\ Heard(TRUE).kind = osc.kind /\ Heard(FALSE).kind = osc.kind
       /\ Heard(TRUE).delay = Heard(FALSE).delay /\ Heard(TRUE).period = Heard(FALSE).period
       /\ Heard(TRUE).output
  /\ osc \in PcmOsc =>
       /\ Heard(TRUE).kind = osc.kind /\ Heard(FALSE).kind = osc.kind
       /\ Heard(TRUE).delay = osc.delay /\ Heard(FALSE).delay = osc.delay
<1>1. TRUE \in BOOLEAN /\ FALSE \in BOOLEAN
  OBVIOUS
<1>2. osc \in SquareOsc =>
       /\ Heard(TRUE) \in SquareOsc /\ Heard(FALSE) \in SquareOsc
       /\ Heard(TRUE).kind = osc.kind /\ Heard(FALSE).kind = osc.kind
       /\ Timed(Heard(TRUE), Heard(FALSE))
  BY Zenon, <1>1 DEF Heard, SquareOsc, Timed
<1>3. osc \in Mmc5SquareOsc =>
       /\ Heard(TRUE) \in Mmc5SquareOsc /\ Heard(FALSE) \in Mmc5SquareOsc
       /\ Heard(TRUE).kind = osc.kind /\ Heard(FALSE).kind = osc.kind
       /\ Timed(Heard(TRUE), Heard(FALSE))
       /\ Heard(TRUE).frame_delay = Heard(FALSE).frame_delay
  BY Zenon, <1>1 DEF Heard, Mmc5SquareOsc, Timed
<1>4. osc \in TriangleOsc =>
       /\ Heard(TRUE) \in TriangleOsc /\ Heard(FALSE) \in TriangleOsc
       /\ Heard(TRUE).kind = osc.kind /\ Heard(FALSE).kind = osc.kind
       /\ Heard(TRUE).delay = Heard(FALSE).delay /\ Heard(TRUE).period = Heard(FALSE).period
       /\ Heard(TRUE).length_counter = Heard(FALSE).length_counter
       /\ Heard(TRUE).linear_counter = Heard(FALSE).linear_counter
  BY Zenon, <1>1 DEF Heard, TriangleOsc
<1>5. osc \in NoiseOsc =>
       /\ Heard(TRUE) \in NoiseOsc /\ Heard(FALSE) \in NoiseOsc
       /\ Heard(TRUE).kind = osc.kind /\ Heard(FALSE).kind = osc.kind
       /\ Heard(TRUE).delay = Heard(FALSE).delay /\ Heard(TRUE).period = Heard(FALSE).period
       /\ Heard(TRUE).output
  BY Zenon, <1>1 DEF Heard, NoiseOsc
<1>6. osc \in PcmOsc =>
       /\ Heard(TRUE).kind = osc.kind /\ Heard(FALSE).kind = osc.kind
       /\ Heard(TRUE).delay = osc.delay /\ Heard(FALSE).delay = osc.delay
  BY Zenon DEF Heard, PcmOsc
<1> QED
  BY Zenon, <1>2, <1>3, <1>4, <1>5, <1>6

LEMMA SquareInStep ==
  ASSUME NEW a \in SquareOsc, NEW b \in SquareOsc, NEW n \in Nat, Timed(a, b)
  PROVE  /\ RunSquare(a, n).osc.phase = RunSquare(b, n).osc.phase
         /\ RunSquare(a, n).osc.delay = RunSquare(b, n).osc.delay
<1>1. a \in Pulse /\ b \in Pulse
  BY Zenon DEF Pulse
<1>2. PulsePhase(a, n) = PulsePhase(b, n) /\ PulseDelay(a, n) = PulseDelay(b, n)
  BY Zenon DEF Timed, PulsePhase, PulseDelay, timer_period
<1>3. ASSUME NEW o \in SquareOsc
      PROVE  /\ RunSquare(o, n).osc.phase = PulsePhase(o, n)
             /\ RunSquare(o, n).osc.delay = PulseDelay(o, n)
  <2> DEFINE run == RunSquare(o, n)
             phase == PulsePhase(o, n)
             delay == PulseDelay(o, n)
  <2>1. o \in Pulse
    BY Zenon DEF Pulse
  <2>2. PulseRan(o, n, run)
    BY Zenon, <2>1, PulseRun
  <2>3. PICK amp \in Nat :
          run.osc = [o EXCEPT !.phase = phase, !.last_amp = amp, !.delay = delay]
    BY Zenon, <2>2 DEF PulseRan
  <2> HIDE DEF run, phase, delay
  <2>4. run.osc.phase = phase /\ run.osc.delay = delay
    BY Zenon, <2>3 DEF SquareOsc
  <2> QED
    BY Zenon, <2>4 DEF run, phase, delay
<1> QED
  BY Zenon, <1>2, <1>3

LEMMA TriangleInStep ==
  ASSUME NEW a \in TriangleOsc, NEW b \in TriangleOsc, NEW n \in Nat,
         a.delay = b.delay, a.period = b.period, a.length_counter = b.length_counter,
         a.linear_counter = b.linear_counter
  PROVE  RunTriangle(a, n).osc.delay = RunTriangle(b, n).osc.delay
<1>1. TriangleDelay(a, n) = TriangleDelay(b, n)
  BY Zenon DEF TriangleDelay, Sounding
<1>2. ASSUME NEW o \in TriangleOsc
      PROVE  RunTriangle(o, n).osc.delay = TriangleDelay(o, n)
  <2> DEFINE run == RunTriangle(o, n)
             delay == TriangleDelay(o, n)
  <2>1. TriangleRan(o, n, run)
    BY Zenon, TriangleRun
  <2>2. PICK phase \in 1 .. tri_range * 2, amp \in Nat :
          run.osc = [o EXCEPT !.phase = phase, !.last_amp = amp, !.delay = delay]
    BY Zenon, <2>1 DEF TriangleRan
  <2> HIDE DEF run, delay
  <2>3. run.osc.delay = delay
    BY Zenon, <2>2 DEF TriangleOsc
  <2> QED
    BY Zenon, <2>3 DEF run, delay
<1> QED
  BY Zenon, <1>1, <1>2

LEMMA NoiseInStep ==
  ASSUME NEW a \in NoiseOsc, NEW b \in NoiseOsc, NEW n \in Nat \ {0},
         a.delay = b.delay, a.period = b.period, ~Hurried(a), ~Hurried(b)
  PROVE  RunNoise(a, n).osc.delay = RunNoise(b, n).osc.delay
<1>1. NoiseDelay(a, n) = NoiseDelay(b, n)
  BY Zenon DEF NoiseDelay
<1>2. ASSUME NEW o \in NoiseOsc, ~Hurried(o)
      PROVE  RunNoise(o, n).osc.delay = NoiseDelay(o, n)
  <2> DEFINE run == RunNoise(o, n)
  <2>1. NoiseRan(o, n, run)
    BY Zenon, NoiseRun
  <2>2. PICK noise \in Register, amp \in Nat, delay \in Nat :
          /\ run.osc = [o EXCEPT !.noise = noise, !.last_amp = amp, !.delay = delay]
          /\ delay = NoiseDelay(o, n)
    BY Zenon, <1>2, <2>1 DEF NoiseRan
  <2> HIDE DEF run
  <2>3. run.osc.delay = delay
    BY Zenon, <2>2 DEF NoiseOsc
  <2> QED
    BY Zenon, <2>2, <2>3 DEF run
<1> QED
  BY Zenon, <1>1, <1>2

LEMMA MutedKeepTime ==
  ASSUME OscInv
  PROVE  MutingKeepsTime
<1> SUFFICES ASSUME osc.kind \in NesKinds \cup Mmc5Kinds, NEW n \in Lengths
             PROVE  InStep(Run(Heard(TRUE), n), Run(Heard(FALSE), n))
  BY Zenon DEF MutingKeepsTime
<1>1. osc \in States /\ n \in Nat \ {0} /\ n \in Nat
  BY Zenon, LengthsAre DEF OscInv
<1>2. osc.kind \in squares \/ osc.kind \in {"triangle", "noise", "mmc5_square", "mmc5_pcm"}
  BY Zenon DEF NesKinds, Mmc5Kinds
<1>3. osc.kind \in {"triangle", "noise", "mmc5_pcm"} => osc.kind \notin Pulses
  BY SMT DEF Pulses, squares
<1>4. CASE osc.kind \in squares
  <2>1. osc \in SquareOsc
    BY Zenon, <1>1, <1>4, Sorts
  <2>2. /\ Heard(TRUE) \in SquareOsc /\ Heard(FALSE) \in SquareOsc
        /\ Heard(TRUE).kind = osc.kind /\ Heard(FALSE).kind = osc.kind
        /\ Timed(Heard(TRUE), Heard(FALSE))
    BY Zenon, <2>1, HeardOrMuted
  <2>3. /\ Run(Heard(TRUE), n) = RunSquare(Heard(TRUE), n)
        /\ Run(Heard(FALSE), n) = RunSquare(Heard(FALSE), n)
    BY Zenon, <1>4, <2>2, RunOf
  <2>4. /\ RunSquare(Heard(TRUE), n).osc.phase = RunSquare(Heard(FALSE), n).osc.phase
        /\ RunSquare(Heard(TRUE), n).osc.delay = RunSquare(Heard(FALSE), n).osc.delay
    BY Zenon, <1>1, <2>2, SquareInStep
  <2> QED
    BY Zenon, <2>3, <2>4 DEF InStep
<1>5. CASE osc.kind = "mmc5_square"
  <2>1. osc \in Mmc5SquareOsc
    BY Zenon, <1>1, <1>5, Sorts
  <2>2. /\ Heard(TRUE) \in Mmc5SquareOsc /\ Heard(FALSE) \in Mmc5SquareOsc
        /\ Heard(TRUE).kind = osc.kind /\ Heard(FALSE).kind = osc.kind
        /\ Timed(Heard(TRUE), Heard(FALSE))
        /\ Heard(TRUE).frame_delay = Heard(FALSE).frame_delay
    BY Zenon, <2>1, HeardOrMuted
  <2>3. /\ Run(Heard(TRUE), n) = RunMmc5Square(Heard(TRUE), n)
        /\ Run(Heard(FALSE), n) = RunMmc5Square(Heard(FALSE), n)
    BY Zenon, <1>5, <2>2, RunOf
  <2>4. /\ RunMmc5Square(Heard(TRUE), n).osc.phase = RunMmc5Square(Heard(FALSE), n).osc.phase
        /\ RunMmc5Square(Heard(TRUE), n).osc.delay = RunMmc5Square(Heard(FALSE), n).osc.delay
    BY Zenon, <1>1, <2>2, Mmc5InStep
  <2> QED
    BY Zenon, <2>3, <2>4 DEF InStep
<1>6. CASE osc.kind = "triangle"
  <2>1. osc \in TriangleOsc
    BY Zenon, <1>1, <1>6, Sorts
  <2>2. /\ Heard(TRUE) \in TriangleOsc /\ Heard(FALSE) \in TriangleOsc
        /\ Heard(TRUE).kind = osc.kind /\ Heard(FALSE).kind = osc.kind
        /\ Heard(TRUE).delay = Heard(FALSE).delay /\ Heard(TRUE).period = Heard(FALSE).period
        /\ Heard(TRUE).length_counter = Heard(FALSE).length_counter
        /\ Heard(TRUE).linear_counter = Heard(FALSE).linear_counter
    BY Zenon, <2>1, HeardOrMuted
  <2>3. /\ Run(Heard(TRUE), n) = RunTriangle(Heard(TRUE), n)
        /\ Run(Heard(FALSE), n) = RunTriangle(Heard(FALSE), n)
    BY Zenon, <1>6, <2>2, RunOf
  <2>4. RunTriangle(Heard(TRUE), n).osc.delay = RunTriangle(Heard(FALSE), n).osc.delay
    BY Zenon, <1>1, <2>2, TriangleInStep
  <2> QED
    BY Zenon, <1>3, <1>6, <2>3, <2>4 DEF InStep
<1>7. CASE osc.kind = "noise"
  <2>1. osc \in NoiseOsc
    BY Zenon, <1>1, <1>7, Sorts
  <2>2. /\ Heard(TRUE) \in NoiseOsc /\ Heard(FALSE) \in NoiseOsc
        /\ Heard(TRUE).kind = osc.kind /\ Heard(FALSE).kind = osc.kind
        /\ Heard(TRUE).delay = Heard(FALSE).delay /\ Heard(TRUE).period = Heard(FALSE).period
        /\ Heard(TRUE).output
    BY Zenon, <2>1, HeardOrMuted
  <2>3. /\ Run(Heard(TRUE), n) = RunNoise(Heard(TRUE), n)
        /\ Run(Heard(FALSE), n) = RunNoise(Heard(FALSE), n)
    BY Zenon, <1>7, <2>2, RunOf
  <2>4. ~Hurried(Heard(TRUE))
    BY Zenon, <2>2 DEF Hurried
  <2>5. ~Hurried(Heard(FALSE)) =>
          RunNoise(Heard(TRUE), n).osc.delay = RunNoise(Heard(FALSE), n).osc.delay
    BY Zenon, <1>1, <2>2, <2>4, NoiseInStep
  <2> QED
    BY Zenon, <1>3, <1>7, <2>3, <2>5 DEF InStep
<1>8. CASE osc.kind = "mmc5_pcm"
  <2>1. osc \in PcmOsc
    BY Zenon, <1>1, <1>8, Sorts
  <2>2. /\ Heard(TRUE).kind = osc.kind /\ Heard(FALSE).kind = osc.kind
        /\ Heard(TRUE).delay = osc.delay /\ Heard(FALSE).delay = osc.delay
    BY Zenon, <2>1, HeardOrMuted
  <2>3. /\ Run(Heard(TRUE), n) = Unheard(Heard(TRUE), n)
        /\ Run(Heard(FALSE), n) = Unheard(Heard(FALSE), n)
    BY Zenon, <1>8, <2>2, RunOf
  <2>4. Run(Heard(TRUE), n).osc.delay = Run(Heard(FALSE), n).osc.delay
    <3>1. /\ Unheard(Heard(TRUE), n).osc = Heard(TRUE)
          /\ Unheard(Heard(FALSE), n).osc = Heard(FALSE)
      BY Zenon DEF Unheard
    <3> QED
      BY Zenon, <2>2, <2>3, <3>1
  <2> QED
    BY Zenon, <1>3, <1>8, <2>4 DEF InStep
<1> QED
  BY Zenon, <1>2, <1>4, <1>5, <1>6, <1>7, <1>8

-----------------------------------------------------------------------------
(* For registers of any values, runs of any lengths and any calls between  *)
(* them, every phase stays within the wave, every time to the next         *)
(* transition is a natural number, and what is kept in a register of some  *)
(* bits stays within these: what the checks that are commented out in      *)
(* Nes_Fds_Apu::run_until were about, and what the other chips rely on     *)
(* when they index their waves.                                            *)
THEOREM OscsTypes == Spec => []TypeOK
BY OscInvariant, TypesHold, PTL

(* Whoever changes the output marks the buffer with set_modified, of all   *)
(* chips whose run_until can: a buffer taken for silent is.                *)
THEOREM OscsMark == Spec => []DeltasAreMarked
BY OscInvariant, WritersMark, PTL

(* A channel of the 2A03 or the MMC5 whose output was 0 for a while is in  *)
(* step with one that was always heard, events of the MMC5's frame         *)
(* sequencer and all.                                                      *)
THEOREM OscsKeepTime == Spec => []MutingKeepsTime
BY OscInvariant, MutedKeepTime, PTL

(* save_state and load_state of the cartridges' chips.                     *)
THEOREM OscsPlayOn == Spec => []LoadedPlaysOn
BY OscInvariant, SavedPlaysOn, PTL

(* The MMC5's interrupt line, whatever reset, writes and reads come        *)
(* between.                                                                *)
THEOREM OscsLine == Spec => []LineFollowsFlag
<1>1. OscInv => LineFollowsFlag
  BY Zenon DEF OscInv
<1> QED
  BY <1>1, OscInvariant, PTL

(* The noise register, however many bits it has and whichever of them is   *)
(* tapped, never becomes 0, from where it could not leave.                 *)
THEOREM OscsNoise == Spec => []NoiseNeverStuck
BY OscInvariant, NoiseIsNotZero, PTL
=============================================================================
