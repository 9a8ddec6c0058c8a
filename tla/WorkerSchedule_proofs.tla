----------------------- MODULE WorkerSchedule_proofs -----------------------
(***************************************************************************)
(* A worker overtakes a ready class a bounded number of times, for every   *)
(* number of batch capabilities.  The proof is a potential: Left(c) bounds *)
(* the work that can still be done before class c is served, and what c    *)
(* has seen so far plus what is left never exceeds the bound.              *)
(***************************************************************************)
EXTENDS WorkerSchedule, TLAPS

Batches == 0..(N - 1)

\* Positions from s to c in the rotation.
Dist(s, c) == IF c >= s THEN c - s ELSE c + N - s

\* Work that may still be done before a capability has its turn, d positions
\* from where the next or the current scan starts.
Potential(p, first, o, d) ==
    IF p = "batch"
    THEN IF o <= d THEN 2 * (d - o)
         ELSE IF o < N THEN 2 * (N - o + d) ELSE 2 * d + 1
    ELSE IF p # "single" /\ first THEN 2 * d ELSE 2 * d + 1

Left(c) == Potential(pc, prefer, offset, Dist(cursor % N, c))

\* The same for single work.
LeftSingle ==
    IF pc = "batch" \/ (pc \in {"begin", "idle"} /\ prefer) THEN 1 ELSE 0

\* The inductive invariant.
Inv ==
    /\ TypeOK
    /\ pc = "batch" => start = cursor % N
    /\ \A c \in Classes : c \notin ready => overtaken[c] = 0
    /\ overtaken[Single] + LeftSingle <= 1
    /\ \A c \in Batches : overtaken[c] + Left(c) <= 2 * N - 1

-----------------------------------------------------------------------------
\* Remainders of the numbers the rotation meets.
LEMMA Remainders ==
    ASSUME NEW a \in Nat
    PROVE  /\ a % N \in Batches
           /\ a < N => a % N = a
           /\ a >= N /\ a < 2 * N => a % N = a - N
<1> USE ScheduleAssumption
<1>1. a % N \in Batches
  BY SMT DEF Batches
<1>2. a < N => a % N = a
  BY SMT
<1>3. a >= N /\ a < 2 * N => a % N = a - N
  BY SMT
<1> QED
  BY <1>1, <1>2, <1>3

\* A distance lies within the rotation.
LEMMA DistRange ==
    ASSUME NEW s \in Batches, NEW c \in Batches
    PROVE  Dist(s, c) \in Batches
BY ScheduleAssumption DEF Dist, Batches

\* The potential never exceeds the bound, so a class that becomes ready has
\* room for it.
LEMMA PotentialBound ==
    ASSUME NEW p, NEW first \in BOOLEAN, NEW o \in 0..N, NEW n \in Nat,
           NEW c \in Batches
    PROVE  Potential(p, first, o, Dist(n % N, c)) \in 0..(2 * N - 1)
<1> DEFINE d == Dist(n % N, c)
<1>1. d \in 0..(N - 1)
  BY Remainders, DistRange, Zenon DEF Batches
<1> HIDE DEF d
<1>2. Potential(p, first, o, d) \in 0..(2 * N - 1)
  BY <1>1, ScheduleAssumption DEF Potential
<1> QED
  BY <1>2 DEF d

\* Work for position k of a scan, in front of c, is paid by the potential.
LEMMA PaidBatch ==
    ASSUME NEW s \in Batches, NEW k \in Batches, NEW c \in Batches,
           NEW i \in Nat, i = (s + k) % N, i # c, NEW p \in BOOLEAN
    PROVE  Potential("begin", FALSE, 0, Dist(((i + 1) % N) % N, c)) + 1
              <= Potential("batch", p, k, Dist(s, c))
<1>1. /\ s \in 0..(N - 1) /\ k \in 0..(N - 1) /\ c \in 0..(N - 1)
      /\ N \in Nat /\ N > 0
  BY ScheduleAssumption DEF Batches
<1>2. i = IF s + k < N THEN s + k ELSE s + k - N
  BY <1>1, Remainders
<1>3. (i + 1) % N = IF i + 1 < N THEN i + 1 ELSE 0
  BY <1>1, <1>2, Remainders
<1>4. ((i + 1) % N) % N = IF i + 1 < N THEN i + 1 ELSE 0
  <2>1. (IF i + 1 < N THEN i + 1 ELSE 0) \in Nat
    BY <1>1, <1>2
  <2> QED
    BY <1>1, <1>2, <1>3, <2>1, Remainders
<1> DEFINE n == IF i + 1 < N THEN i + 1 ELSE 0
<1>5. Potential("begin", FALSE, 0, Dist(n, c)) + 1 <= Potential("batch", p, k, Dist(s, c))
  BY <1>1, <1>2 DEF Potential, Dist
<1> QED
  BY <1>4, <1>5, Zenon

\* The invariant holds at the start.
LEMMA InvInit == Init => Inv
<1> SUFFICES ASSUME Init PROVE Inv
  OBVIOUS
<1>1. cursor \in Nat /\ prefer \in BOOLEAN
  BY ScheduleAssumption DEF Init
<1>2. TypeOK
  BY <1>1, ScheduleAssumption DEF Init, TypeOK, Classes
<1>3. \A c \in Batches : overtaken[c] = 0 /\ Left(c) \in 0..(2 * N - 1)
  <2>1. ASSUME NEW c \in Batches PROVE Left(c) \in 0..(2 * N - 1)
    BY <1>2, PotentialBound DEF TypeOK, Left
  <2>2. ASSUME NEW c \in Batches PROVE overtaken[c] = 0
    BY ScheduleAssumption DEF Init, Classes, Batches
  <2> QED
    BY <2>1, <2>2
<1>4. overtaken[Single] = 0
  BY ScheduleAssumption DEF Init, Classes, Single
<1> QED
  BY <1>2, <1>3, <1>4, ScheduleAssumption DEF Init, Inv, LeftSingle, Classes

\* The history keeps its type.
LEMMA ServedType ==
    ASSUME overtaken \in [Classes -> Nat], NEW c, Served(c)
    PROVE  overtaken' \in [Classes -> Nat]
BY DEF Served

\* Every step keeps the types and the start of a scan.
LEMMA TypeStep ==
    ASSUME TypeOK, Next
    PROVE  TypeOK'
<1> USE ScheduleAssumption DEF TypeOK, schedule, Classes
<1>1. ASSUME NEW c \in Classes, Appear(c) \/ Vanish(c) PROVE TypeOK'
  <2>1. overtaken' \in [Classes -> Nat]
    BY <1>1 DEF Appear, Vanish
  <2>2. ready' \subseteq Classes
    BY <1>1, Zenon DEF Appear, Vanish
  <2>3. UNCHANGED <<cursor, prefer, pc, start, offset>>
    BY <1>1, Zenon DEF Appear, Vanish
  <2> QED
    BY <2>1, <2>2, <2>3
<1>2. cursor % N \in 0..(N - 1)
  BY Remainders, Zenon DEF Batches
<1>3. ASSUME Begin PROVE TypeOK'
  <2>1. start' \in {start, cursor % N} /\ offset' \in {offset, 0}
    BY <1>3, Zenon DEF Begin, StartScan
  <2>2. start' \in 0..(N - 1) /\ offset' \in 0..N
    BY <1>2, <2>1
  <2>3. /\ pc' \in {"begin", "batch", "single", "idle"}
        /\ UNCHANGED <<ready, cursor, prefer, overtaken>>
    BY <1>3, Zenon DEF Begin, StartScan
  <2> QED
    BY <2>2, <2>3
<1>4. ASSUME TryBatch PROVE TypeOK'
  <2>1. /\ (start + offset) % N \in Nat
        /\ (((start + offset) % N) + 1) % N \in Nat
    BY Remainders DEF Batches
  <2>2. cursor' \in Nat
    BY <1>4, <2>1 DEF TryBatch, Advance
  <2>3. overtaken' \in [Classes -> Nat]
    <3>1. Served((start + offset) % N) \/ UNCHANGED overtaken
      BY <1>4, Zenon DEF TryBatch
    <3> QED
      BY <3>1, ServedType, Zenon
  <2>4. offset' \in 0..N
    <3>1. offset < N /\ offset' \in {offset, offset + 1}
      BY <1>4, Zenon DEF TryBatch
    <3> QED
      BY <3>1
  <2>5. /\ pc' \in {"begin", "batch", "single", "idle"} /\ prefer' \in BOOLEAN
        /\ UNCHANGED <<ready, start>>
    BY <1>4, Zenon DEF TryBatch
  <2> QED
    BY <2>2, <2>3, <2>4, <2>5
<1>5. CASE ScanEmpty
  BY <1>5 DEF ScanEmpty
<1>6. ASSUME TrySingle PROVE TypeOK'
  <2>1. overtaken' \in [Classes -> Nat]
    BY <1>6, ServedType, Zenon DEF TrySingle
  <2>2. start' \in 0..(N - 1) /\ offset' \in 0..N
    BY <1>2, <1>6 DEF TrySingle, StartScan
  <2>3. pc' \in {"begin", "batch", "single", "idle"} /\ prefer' \in BOOLEAN
    BY <1>6, Zenon DEF TrySingle, StartScan
  <2> QED
    BY <1>6, <2>1, <2>2, <2>3, SMTT(60) DEF TrySingle
<1>7. CASE Wait
  BY <1>7 DEF Wait
<1> QED
  BY <1>1, <1>3, <1>4, <1>5, <1>6, <1>7, Zenon DEF Next, WorkerStep

\* A class that is not ready has not been overtaken.
LEMMA UnreadyStep ==
    ASSUME Inv, Next
    PROVE  \A c \in Classes : c \notin ready' => overtaken'[c] = 0
<1> USE DEF Inv, TypeOK
<1>1. ASSUME NEW e \in Classes, Appear(e) \/ Vanish(e)
      PROVE  \A c \in Classes : c \notin ready' => overtaken'[c] = 0
  BY <1>1 DEF Appear, Vanish
<1>2. ASSUME WorkerStep
      PROVE  \A c \in Classes : c \notin ready' => overtaken'[c] = 0
  BY <1>2 DEF WorkerStep, Begin, TryBatch, ScanEmpty, TrySingle, Wait, Served
<1> QED
  BY <1>1, <1>2 DEF Next

\* Single work is next after every piece of batch work.
LEMMA SingleStep ==
    ASSUME Inv, Next
    PROVE  overtaken'[Single] + LeftSingle' <= 1
<1> USE ScheduleAssumption DEF Inv, TypeOK, LeftSingle
<1>1. Single \in Classes /\ overtaken[Single] \in Nat
  BY DEF Single, Classes
<1>2. ASSUME NEW e \in Classes, Appear(e) \/ Vanish(e)
      PROVE  overtaken'[Single] + LeftSingle' <= 1
  BY <1>1, <1>2 DEF Appear, Vanish, schedule
<1>3. CASE Begin
  BY <1>1, <1>3 DEF Begin, StartScan, schedule
<1>4. ASSUME TryBatch PROVE overtaken'[Single] + LeftSingle' <= 1
  <2>1. \/ /\ pc' = "begin" /\ prefer' = FALSE
           /\ overtaken'[Single] \in {0, overtaken[Single] + 1}
        \/ pc' = pc /\ overtaken' = overtaken
    BY <1>1, <1>4 DEF TryBatch, Served, schedule
  <2> QED
    BY <1>1, <1>4, <2>1 DEF TryBatch
<1>5. CASE ScanEmpty
  BY <1>1, <1>5 DEF ScanEmpty, schedule
<1>6. ASSUME TrySingle PROVE overtaken'[Single] + LeftSingle' <= 1
  <2>1. overtaken'[Single] = 0
    BY <1>1, <1>6 DEF TrySingle, Served
  <2> QED
    BY <2>1
<1>7. CASE Wait
  BY <1>1, <1>7 DEF Wait, schedule
<1> QED
  BY <1>2, <1>3, <1>4, <1>5, <1>6, <1>7 DEF Next, WorkerStep

\* A scan starts where the cursor points.
LEMMA ScanStep ==
    ASSUME Inv, Next
    PROVE  pc' = "batch" => start' = cursor' % N
<1> USE DEF Inv
<1>1. ASSUME NEW e \in Classes, Appear(e) \/ Vanish(e)
      PROVE  pc' = "batch" => start' = cursor' % N
  BY <1>1, Zenon DEF Appear, Vanish, schedule
<1>2. ASSUME WorkerStep
      PROVE  pc' = "batch" => start' = cursor' % N
  BY <1>2, Zenon DEF WorkerStep, Begin, StartScan, TryBatch, ScanEmpty, TrySingle,
                     Wait, schedule
<1> QED
  BY <1>1, <1>2 DEF Next

\* Work done for others while c is ready is taken from the potential of c.
LEMMA BatchStep ==
    ASSUME Inv, Next, TypeOK', NEW c \in Batches
    PROVE  overtaken'[c] + Left(c)' <= 2 * N - 1
<1> DEFINE d == Dist(cursor % N, c)
           Goal == overtaken'[c] + Left(c)' <= 2 * N - 1
<1>0. /\ Left(c) \in 0..(2 * N - 1)
      /\ Left(c)' \in 0..(2 * N - 1)
  <2>1. /\ prefer \in BOOLEAN /\ offset \in 0..N /\ cursor \in Nat
        /\ prefer' \in BOOLEAN /\ offset' \in 0..N /\ cursor' \in Nat
    BY DEF Inv, TypeOK
  <2> QED
    BY <2>1, PotentialBound DEF Left
<1>1. /\ N \in Nat /\ N > 0 /\ d \in 0..(N - 1)
      /\ c \in Classes /\ c # Single /\ overtaken[c] \in Nat
  <2>1. N \in Nat /\ N > 0 /\ c \in Classes /\ c # Single
    BY ScheduleAssumption DEF Batches, Classes, Single
  <2>2. d \in 0..(N - 1)
    BY Remainders, DistRange, Zenon DEF Inv, TypeOK, Batches
  <2> QED
    BY <2>1, <2>2 DEF Inv, TypeOK
<1>2. /\ overtaken[c] + Potential(pc, prefer, offset, d) <= 2 * N - 1
      /\ offset \in 0..N /\ prefer \in BOOLEAN
      /\ pc \in {"begin", "batch", "single", "idle"}
      /\ start \in Batches
  BY DEF Inv, Left, TypeOK, Batches
<1>3. Left(c)' = Potential(pc', prefer', offset', Dist(cursor' % N, c))
  BY DEF Left
<1>4. overtaken'[c] = 0 => Goal
  BY <1>0, <1>1
<1>5. ASSUME cursor' = cursor, overtaken' = overtaken,
             Potential(pc', prefer', offset', d) <= Potential(pc, prefer, offset, d)
      PROVE  Goal
  <2>1. Left(c)' = Potential(pc', prefer', offset', d)
    BY <1>3, <1>5
  <2>2. Left(c) = Potential(pc, prefer, offset, d)
    BY DEF Left
  <2> HIDE DEF d
  <2> QED
    BY <1>0, <1>1, <1>2, <1>5, <2>1, <2>2
<1> HIDE DEF Goal, d
<1>6. ASSUME NEW e \in Classes, Appear(e) \/ Vanish(e) PROVE Goal
  <2>1. UNCHANGED <<cursor, prefer, pc, offset>>
    BY <1>6, Zenon DEF Appear, Vanish, schedule
  <2>2. overtaken'[c] = 0 \/ overtaken' = overtaken \/ overtaken'[c] = overtaken[c]
    BY <1>1, <1>6 DEF Appear, Vanish, Inv, TypeOK
  <2>3. Left(c)' = Left(c)
    BY <1>3, <2>1 DEF Left
  <2> QED
    BY <1>4, <2>2, <2>3 DEF Goal, Inv
<1>7. ASSUME Begin PROVE Goal
  <2>1. /\ cursor' = cursor /\ overtaken' = overtaken /\ prefer' = prefer
        /\ pc = "begin"
        /\ \/ prefer /\ pc' = "batch" /\ offset' = 0
           \/ ~prefer /\ pc' = "single"
    BY <1>7, Zenon DEF Begin, StartScan, schedule
  <2>2. Potential(pc', prefer', offset', d) <= Potential(pc, prefer, offset, d)
    BY <1>1, <2>1 DEF Potential
  <2> QED
    BY <1>5, <2>1, <2>2
<1>8. ASSUME ScanEmpty PROVE Goal
  <2>1. /\ cursor' = cursor /\ overtaken' = overtaken /\ prefer' = prefer
        /\ pc = "batch" /\ offset = N
        /\ \/ prefer /\ pc' = "single"
           \/ ~prefer /\ pc' = "idle"
    BY <1>8, Zenon DEF ScanEmpty, schedule
  <2>2. Potential(pc', prefer', offset', d) <= Potential(pc, prefer, offset, d)
    BY <1>1, <2>1 DEF Potential
  <2> QED
    BY <1>5, <2>1, <2>2
<1>9. ASSUME Wait PROVE Goal
  <2>1. /\ cursor' = cursor /\ overtaken' = overtaken /\ prefer' = prefer
        /\ pc = "idle" /\ pc' = "begin"
    BY <1>9, Zenon DEF Wait, schedule
  <2>2. Potential(pc', prefer', offset', d) <= Potential(pc, prefer, offset, d)
    BY <1>1, <2>1 DEF Potential
  <2> QED
    BY <1>5, <2>1, <2>2
<1>10. ASSUME TrySingle PROVE Goal
  <2>1. CASE Single \in ready
    <3>1. /\ cursor' = cursor /\ pc = "single" /\ pc' = "begin" /\ prefer' = TRUE
          /\ Served(Single)
      BY <1>10, <2>1, Zenon DEF TrySingle
    <3>2. overtaken'[c] \in {0, overtaken[c] + 1}
      BY <1>1, <3>1 DEF Served
    <3>3. Left(c)' = 2 * d
      BY <1>1, <1>3, <3>1 DEF Potential, d
    <3>4. overtaken[c] + 2 * d + 1 <= 2 * N - 1
      BY <1>1, <1>2, <3>1 DEF Potential
    <3> QED
      BY <1>1, <3>2, <3>3, <3>4 DEF Goal
  <2>2. CASE Single \notin ready
    <3>1. /\ cursor' = cursor /\ overtaken' = overtaken /\ prefer' = prefer
          /\ pc = "single"
          /\ \/ prefer /\ pc' = "idle"
             \/ ~prefer /\ pc' = "batch" /\ offset' = 0
      BY <1>10, <2>2, Zenon DEF TrySingle, StartScan
    <3>2. Potential(pc', prefer', offset', d) <= Potential(pc, prefer, offset, d)
      BY <1>1, <3>1 DEF Potential
    <3> QED
      BY <1>5, <3>1, <3>2
  <2> QED
    BY <2>1, <2>2
<1>11. ASSUME TryBatch PROVE Goal
  <2> DEFINE s == cursor % N
             i == (s + offset) % N
  <2>1. /\ pc = "batch" /\ start = s /\ offset < N
    BY <1>11, Zenon DEF TryBatch, Inv
  <2>2. s \in Batches /\ offset \in Batches /\ i \in Nat
    BY <1>1, <1>2, <2>1, Remainders DEF Batches, Inv, TypeOK
  <2>3. i = c => overtaken'[c] = 0
    <3>1. ASSUME i = c PROVE Served(c) \/ (c \notin ready /\ overtaken' = overtaken)
      BY <1>11, <2>1, <3>1, Zenon DEF TryBatch
    <3> QED
      BY <1>1, <3>1 DEF Served, Inv
  <2>4. ASSUME i # c, i \in ready PROVE Goal
    <3>1. /\ Served(i) /\ cursor' = (i + 1) % N /\ prefer' = FALSE /\ pc' = "begin"
      BY <1>11, <2>1, <2>4, Zenon DEF TryBatch, Advance
    <3>2. overtaken'[c] \in {0, overtaken[c] + 1}
      BY <1>1, <3>1 DEF Served
    <3> DEFINE P == Potential("begin", FALSE, 0, Dist(((i + 1) % N) % N, c))
               Q == Potential("batch", prefer, offset, Dist(s, c))
    <3>3. P + 1 <= Q
      <4> HIDE DEF s
      <4> QED
        BY <1>2, <2>2, <2>4, PaidBatch, Zenon
    <3>4. Left(c)' = P
      BY <1>3, <3>1 DEF Potential
    <3>5. overtaken[c] + Q <= 2 * N - 1
      BY <1>2, <2>1 DEF d
    <3>6. P \in 0..(2 * N - 1) /\ Q \in 0..(2 * N - 1)
      BY <1>0, <2>1, <3>4, Zenon DEF Left
    <3> HIDE DEF P, Q
    <3> QED
      BY <1>1, <3>2, <3>3, <3>4, <3>5, <3>6 DEF Goal
  <2>5. ASSUME i # c, i \notin ready PROVE Goal
    <3>1. /\ cursor' = cursor /\ overtaken' = overtaken /\ prefer' = prefer
          /\ pc' = "batch" /\ offset' = offset + 1
      BY <1>11, <2>1, <2>5, Zenon DEF TryBatch, schedule
    <3>2. offset # d
      <4>1. s + d = c \/ s + d = c + N
        BY <2>2, <1>1 DEF d, Dist, Batches
      <4>2. d \in Nat /\ s \in Nat /\ s + d \in Nat
        BY <1>1, <2>2 DEF Batches
      <4>3. (s + d) % N = c
        <5> HIDE DEF s
        <5> QED
          BY <1>1, <4>1, <4>2, Remainders DEF Batches
      <4> QED
        BY <2>5, <4>3
    <3>3. Potential(pc', prefer', offset', d) <= Potential(pc, prefer, offset, d)
      BY <1>1, <1>2, <2>1, <3>1, <3>2 DEF Potential
    <3> QED
      BY <1>5, <3>1, <3>3
  <2> QED
    BY <1>4, <2>3, <2>4, <2>5
<1> QED
  BY <1>6, <1>7, <1>8, <1>9, <1>10, <1>11 DEF Next, WorkerStep, Goal

\* The invariant is inductive.
LEMMA InvNext == Inv /\ [Next]_vars => Inv'
<1>1. ASSUME Inv, Next PROVE Inv'
  <2>1. TypeOK'
    BY <1>1, TypeStep DEF Inv
  <2>2. (pc = "batch" => start = cursor % N)'
    BY <1>1, ScanStep
  <2>3. (\A c \in Classes : c \notin ready => overtaken[c] = 0)'
    BY <1>1, UnreadyStep
  <2>4. (overtaken[Single] + LeftSingle <= 1)'
    BY <1>1, SingleStep
  <2>5. (\A c \in Batches : overtaken[c] + Left(c) <= 2 * N - 1)'
    <3> SUFFICES ASSUME NEW c \in Batches
                 PROVE  overtaken'[c] + Left(c)' <= 2 * N - 1
      BY DEF Batches
    <3> QED
      BY <1>1, <2>1, BatchStep
  <2> QED
    BY <2>1, <2>2, <2>3, <2>4, <2>5, Zenon DEF Inv
<1>2. ASSUME Inv, UNCHANGED vars PROVE Inv'
  BY <1>2, Zenon DEF Inv, vars, schedule, TypeOK, Left, LeftSingle
<1> QED
  BY <1>1, <1>2

\* For every number of capabilities and of workers: while a class stays ready, a
\* pass of processWorkerWork does work for others only up to the bound.
THEOREM OvertakingIsBounded == Spec => []OvertakingBounded
<1>1. Inv => OvertakingBounded
  <2> SUFFICES ASSUME Inv PROVE OvertakingBounded
    OBVIOUS
  <2>1. Single \in Classes /\ \A c \in Batches : c \in Classes
    BY ScheduleAssumption DEF Single, Classes, Batches
  <2>2. overtaken[Single] <= 1
    BY <2>1 DEF Inv, TypeOK, LeftSingle
  <2>3. ASSUME NEW c \in Batches PROVE overtaken[c] <= 2 * N - 1
    <3>1. Left(c) \in 0..(2 * N - 1) /\ overtaken[c] \in Nat
      BY <2>1, PotentialBound DEF Inv, TypeOK, Left
    <3> QED
      BY <3>1, ScheduleAssumption DEF Inv
  <2> QED
    BY <2>2, <2>3 DEF OvertakingBounded, Batches
<1> QED
  BY <1>1, InvInit, InvNext, PTL DEF Spec

=============================================================================
