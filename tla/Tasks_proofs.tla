---------------------------- MODULE Tasks_proofs ----------------------------
(***************************************************************************)
(* Proofs about Tasks for any list of tasks and any width of the int: the  *)
(* difference that tasksrun computes never wraps, although the clock does, *)
(* and follows the time that has really passed.                            *)
(***************************************************************************)
EXTENDS Tasks, TLAPS

(* What a pass that reads the clock now compares with the interval. *)
Elapsed(t) == Int32(wall - lasttime[t])

(* Elapsed is the time since the last attempt, give or take the steps of   *)
(* the clock and the second that may pass within a call.                   *)
FollowsInv ==
    \A t \in Proper :
        /\ age[t] <= Elapsed(t) + back[t]
        /\ gap[t] = Far \/ Elapsed(t) <= gap[t] + 1 + forth[t]

(* A task that the pass has looked at. *)
Seen(t) == i = 0 \/ t < i

(* Elapsed is bounded: at the last pass that has looked at the task it was *)
(* below the interval, or the clock has run since its start.               *)
BoundedInv ==
    \A t \in Proper : \E c \in Boot \union {Interval[t]} :
        Elapsed(t) <= c + down + forth[t] + (IF Seen(t) THEN 0 ELSE MaxDown)

(* Within a pass the clock ticks once at most. *)
PassInv ==
    i # 0 => /\ down <= 1
             /\ down = 1 => ~fresh
             /\ wall = Int32(now + down)
             /\ \A t \in Proper :
                    t < i => age[t] <= Interval[t] - 1 + down + back[t]

(* After a pass the next second is the only one a task may be late.        *)
LateInv ==
    \A t \in Proper : fresh => age[t] <= Interval[t] + back[t]

TasksInv ==
    /\ TypeOK
    /\ \A t \in Proper : interval[t] = Interval[t]
    /\ FollowsInv /\ BoundedInv /\ PassInv /\ LateInv /\ Timely

-----------------------------------------------------------------------------
(* Arithmetic of the int. *)

LEMMA Division ==
    ASSUME NEW m \in Nat \ {0}, NEW n \in Int
    PROVE  /\ n \div m \in Int /\ n % m \in 0 .. m - 1
           /\ n = m * (n \div m) + (n % m)
  OBVIOUS

(* Remainders that differ by a multiple of m are the same. *)
LEMMA SameRemainder ==
    ASSUME NEW m \in Nat \ {0}, NEW k \in Int,
           NEW r \in 0 .. m - 1, NEW s \in 0 .. m - 1, r = m * k + s
    PROVE  r = s
<1>1. k < 1
  <2>1. k >= 1 => m * k >= m
    OBVIOUS
  <2>2. QED
    BY <2>1
<1>2. k > -1
  <2>1. k <= -1 => m * k <= -m
    OBVIOUS
  <2>2. QED
    BY <2>1
<1>3. QED
  BY <1>1, <1>2

LEMMA AddMultiple ==
    ASSUME NEW m \in Nat \ {0}, NEW k \in Int, NEW n \in Int
    PROVE  (n + m * k) % m = n % m
<1> DEFINE q == (n + m * k) \div m
           p == n \div m
           r == (n + m * k) % m
           s == n % m
<1>1. q \in Int /\ r \in 0 .. m - 1 /\ n + m * k = m * q + r
  <2>1. \A a \in Int : /\ a \div m \in Int /\ a % m \in 0 .. m - 1
                        /\ a = m * (a \div m) + (a % m)
    BY Division
  <2>2. n + m * k \in Int
    OBVIOUS
  <2>3. QED
    BY <2>1, <2>2, Zenon
<1>2. p \in Int /\ s \in 0 .. m - 1 /\ n = m * p + s
  BY Division
<1> HIDE DEF p, q, r, s
<1>3. r = m * (p + k - q) + s
  BY <1>1, <1>2
<1>4. r = s
  BY <1>1, <1>2, <1>3, SameRemainder
<1>5. QED
  BY <1>4 DEF r, s

(* The int has its range, is the number itself within that, and wraps the  *)
(* same whether a sum is taken in one step or in two.                      *)
LEMMA Int32Range ==
    ASSUME NEW n \in Int
    PROVE  Int32(n) \in Ints
  BY TasksAssumption, Division DEF TasksAssumption, Int32, Ints

LEMMA Int32Fits ==
    ASSUME NEW n \in Ints
    PROVE  Int32(n) = n
<1> DEFINE m == 2 * Half
           a == n + Half
<1>1. /\ Half \in Nat \ {0} /\ m \in Nat \ {0} /\ n \in Int
      /\ a \in 0 .. m - 1
  BY TasksAssumption DEF TasksAssumption, Ints
<1>2. a = a % m
  <2> HIDE DEF m, a
  <2>1. /\ a \div m \in Int /\ a % m \in 0 .. m - 1
        /\ a = m * (a \div m) + (a % m)
    BY <1>1, Division
  <2>2. QED
    BY <1>1, <2>1, SameRemainder
<1>3. Int32(n) = a - Half
  BY <1>2 DEF Int32
<1>4. QED
  BY <1>1, <1>3

LEMMA Int32Sum ==
    ASSUME NEW a \in Int, NEW b \in Int
    PROVE  Int32(Int32(a) + b) = Int32(a + b)
<1> DEFINE m == 2 * Half
           k == (a + Half) \div m
           r == (a + Half) % m
<1>1. Half \in Nat \ {0} /\ m \in Nat \ {0}
  BY TasksAssumption DEF TasksAssumption
<1>2. k \in Int /\ r \in Int /\ a + Half = m * k + r
  <2>1. a + Half \in Int
    BY <1>1
  <2> HIDE DEF m
  <2>2. QED
    BY <1>1, <2>1, Division
<1>3. Int32(a) + b + Half = a + b + Half + m * (-k)
  <2>1. Int32(a) = r - Half
    BY DEF Int32
  <2> HIDE DEF m, k, r
  <2>2. m * (-k) = -(m * k)
    BY <1>1, <1>2
  <2>3. QED
    BY <1>1, <1>2, <2>1, <2>2
<1>4. (Int32(a) + b + Half) % m = (a + b + Half) % m
  <2> HIDE DEF m, k, r
  <2>1. a + b + Half \in Int /\ -k \in Int
    BY <1>1, <1>2
  <2>2. QED
    BY <1>1, <1>3, <2>1, AddMultiple
<1>5. QED
  BY <1>4 DEF Int32

(* A difference follows its clock, as long as it stays within the range.   *)
LEMMA Follows ==
    ASSUME NEW w \in Int, NEW l \in Int, NEW n \in Int,
           Int32(w - l) + n \in Ints
    PROVE  Int32(Int32(w + n) - l) = Int32(w - l) + n
<1>1. Int32(Int32(w + n) - l) = Int32(w + n - l)
  <2>1. Int32(w + n) \in Int
    BY Int32Range, TasksAssumption DEF TasksAssumption, Ints
  <2>2. /\ Int32(w + n) - l = Int32(w + n) + (-l) /\ -l \in Int
        /\ w + n - l = w + n + (-l) /\ w + n \in Int
    BY <2>1
  <2>3. QED
    BY <2>2, Int32Sum
<1>2. Int32(Int32(w - l) + n) = Int32(w - l + n)
  BY Int32Sum
<1>3. w + n - l = w - l + n
  OBVIOUS
<1>4. QED
  BY <1>1, <1>2, <1>3, Int32Fits

-----------------------------------------------------------------------------
(* The invariant holds at first, and each action keeps it. *)

LEMMA Types ==
    ASSUME TypeOK
    PROVE  /\ NTasks \in Nat \ {0} /\ Half \in Nat \ {0} /\ Boot \subseteq Nat
           /\ MaxShift \in Nat /\ MaxDown \in Nat /\ Far \in Nat
           /\ Proper \subseteq Tasks /\ Tasks \subseteq Nat \ {0}
           /\ wall \in Int /\ now \in Int /\ down \in 0 .. MaxDown
           /\ \A t \in Proper :
                  /\ lasttime[t] \in Int /\ Elapsed(t) \in Ints
                  /\ Elapsed(t) \in Int
                  /\ Interval[t] \in Nat
                  /\ gap[t] \in 0 .. Far /\ age[t] \in 0 .. Far
                  /\ back[t] \in 0 .. MaxShift /\ forth[t] \in 0 .. MaxShift
<1>1. /\ NTasks \in Nat \ {0} /\ Half \in Nat \ {0} /\ Boot \subseteq Nat
      /\ MaxShift \in Nat /\ MaxDown \in Nat /\ Far \in Nat
      /\ Interval \in [Tasks -> Nat]
  BY TasksAssumption DEF TasksAssumption
<1>2. Proper \subseteq Tasks /\ Tasks \subseteq Nat \ {0}
  BY <1>1 DEF Proper, Tasks
<1>3. wall \in Int /\ now \in Int /\ lasttime \in [Tasks -> Int]
  BY <1>1 DEF TypeOK, Ints
<1>4. ASSUME NEW t \in Proper
      PROVE  Elapsed(t) \in Ints /\ Elapsed(t) \in Int
  <2>1. wall - lasttime[t] \in Int
    BY <1>2, <1>3
  <2>2. QED
    BY <1>1, <2>1, Int32Range DEF Elapsed, Ints
<1>5. QED
  BY <1>1, <1>2, <1>3, <1>4 DEF TypeOK

(* mqtt_tasksinit leaves a number in every interval, set or not. *)
LEMMA InitType ==
    ASSUME Init
    PROVE  TypeOK /\ \A t \in Proper : interval[t] = Interval[t]
<1>1. interval \in [Tasks -> Ints] /\ \A t \in Proper : interval[t] = Interval[t]
  <2>1. PICK g \in [NoInterval -> Garbage] :
            interval = [t \in Tasks |-> IF t \in NoInterval THEN g[t]
                                                          ELSE Interval[t]]
    BY DEF Init
  <2>2. /\ \A t \in NoInterval : g[t] \in Ints
        /\ \A t \in Tasks : Interval[t] \in Ints
    <3>1. Garbage \subseteq Ints /\ Interval \in [Tasks -> 0 .. Half - 1]
      BY TasksAssumption DEF TasksAssumption
    <3>2. 0 .. Half - 1 \subseteq Ints
      BY TasksAssumption DEF TasksAssumption, Ints
    <3>3. QED
      BY <3>1, <3>2
  <2>3. \A t \in Tasks : interval[t] \in Ints
    BY <2>1, <2>2
  <2>4. QED
    BY <2>1, <2>3 DEF Proper
<1>2. TypeOK
  <2>1. /\ Half \in Nat \ {0} /\ NTasks \in Nat \ {0} /\ Boot \subseteq 0 .. Half - 1
        /\ MaxShift \in Nat /\ MaxDown \in Nat /\ Far \in Nat
    BY TasksAssumption DEF TasksAssumption
  <2>2. wall \in Ints /\ now \in Ints /\ 0 \in Ints
    BY <2>1 DEF Init, Ints
  <2>3. /\ i = 0 /\ down = 0 /\ running = FALSE /\ fresh = FALSE
        /\ lasttime = [t \in Tasks |-> 0]
        /\ gap = [t \in Proper |-> Far] /\ age = [t \in Proper |-> 0]
        /\ back = [t \in Proper |-> 0] /\ forth = [t \in Proper |-> 0]
    BY DEF Init
  <2>4. lasttime \in [Tasks -> Ints] /\ i \in 0 .. NTasks /\ down \in 0 .. MaxDown
    BY <2>1, <2>2, <2>3
  <2>5. /\ gap \in [Proper -> 0 .. Far] /\ age \in [Proper -> 0 .. Far]
        /\ back \in [Proper -> 0 .. MaxShift] /\ forth \in [Proper -> 0 .. MaxShift]
    BY <2>1, <2>3
  <2>6. running \in BOOLEAN /\ fresh \in BOOLEAN
    BY <2>3, Zenon
  <2>7. QED
    BY <1>1, <2>2, <2>4, <2>5, <2>6, Zenon DEF TypeOK
<1>3. QED
  BY <1>1, <1>2

LEMMA InitInv ==
    ASSUME Margin, Init
    PROVE  TasksInv
<1>1. TypeOK /\ \A t \in Proper : interval[t] = Interval[t]
  BY InitType
<1>2. ASSUME NEW t \in Proper
      PROVE  Elapsed(t) = wall /\ wall \in Boot
  <2>1. wall \in Ints /\ lasttime[t] = 0 /\ wall - 0 = wall
    BY <1>1, Types DEF Init, TypeOK, Ints
  <2>2. QED
    BY <2>1, Int32Fits DEF Elapsed, Init
<1>3. QED
  BY <1>1, <1>2, TasksAssumption
     DEF TasksAssumption, TasksInv, Init, FollowsInv, BoundedInv, Seen, PassInv, LateInv,
         Timely, Margin

(* Elapsed moves with the clock, outside a pass or not. *)
LEMMA ElapsedMoves ==
    ASSUME TypeOK, NEW t \in Proper, NEW n \in Int,
           wall' = Int32(wall + n), lasttime' = lasttime,
           Elapsed(t) + n \in Ints
    PROVE  Elapsed(t)' = Elapsed(t) + n
  BY Types, Follows DEF Elapsed

(* How far Elapsed is from the ends of the int. *)
LEMMA Room ==
    ASSUME Margin, TasksInv, NEW t \in Proper
    PROVE  /\ Elapsed(t) >= - back[t]
           /\ Elapsed(t) <= Half - 2 - MaxDown - MaxShift + down + forth[t]
                                + (IF i = 0 THEN 0 ELSE MaxDown)
           /\ MaxShift < Half
<1>1. TypeOK
  BY DEF TasksInv
<1>2. PICK c \in Boot \union {Interval[t]} :
          Elapsed(t) <= c + down + forth[t] + (IF Seen(t) THEN 0 ELSE MaxDown)
  BY DEF TasksInv, BoundedInv
<1>3. c + MaxDown + MaxShift + 1 < Half /\ c \in Nat
  BY <1>1, Types DEF Margin
<1>4. i = 0 => Seen(t)
  BY DEF Seen
<1>5. Elapsed(t) <= Half - 2 - MaxDown - MaxShift + down + forth[t]
                        + (IF i = 0 THEN 0 ELSE MaxDown)
  BY <1>1, <1>2, <1>3, <1>4, Types
<1>6. Elapsed(t) >= - back[t]
  BY <1>1, Types DEF TasksInv, FollowsInv
<1>7. QED
  BY <1>1, <1>3, <1>5, <1>6, Types

(* The loop index goes through the tasks and ends at 0. *)
LEMMA NextIndex ==
    ASSUME NEW N \in Nat, NEW n \in 0 .. N
    PROVE  (n + 1) % (N + 1) = IF n = N THEN 0 ELSE n + 1
<1> DEFINE m == N + 1
           a == n + 1
           b == IF n = N THEN 0 ELSE n + 1
           k == IF n = N THEN 1 ELSE 0
<1>1. m \in Nat \ {0} /\ a \in Int /\ b \in 0 .. m - 1 /\ k \in Int
      /\ a = b + m * k
  OBVIOUS
<1>2. b % m = b
  <2> HIDE DEF m, a, b, k
  <2>1. /\ b \div m \in Int /\ b % m \in 0 .. m - 1 /\ b \in Int
        /\ b = m * (b \div m) + (b % m)
    BY <1>1, Division
  <2>2. QED
    BY <1>1, <2>1, SameRemainder
<1>3. a % m = b % m
  <2> HIDE DEF m, a, b, k
  <2>1. b \in Int
    BY <1>1
  <2>2. QED
    BY <1>1, <2>1, AddMultiple
<1>4. QED
  BY <1>2, <1>3

LEMMA TypeStep ==
    ASSUME TypeOK, [Next]_vars
    PROVE  TypeOK'
<1> USE Types
<1>1. CASE Enter
  BY <1>1 DEF Enter, TypeOK, histvars
<1>2. ASSUME i # 0, EndOfRound
      PROVE  i' \in 0 .. NTasks /\ fresh' \in BOOLEAN
             /\ UNCHANGED <<wall, interval, running, down, now>>
  BY <1>2, NextIndex DEF EndOfRound, TypeOK
<1>3. CASE Skip \/ Complain
  BY <1>2, <1>3 DEF Skip, Complain, TypeOK, histvars
<1>4. CASE Attempt
  <2>1. /\ gap' \in [Proper -> 0 .. Far] /\ age' \in [Proper -> 0 .. Far]
        /\ back' \in [Proper -> 0 .. MaxShift] /\ forth' \in [Proper -> 0 .. MaxShift]
    BY <1>4 DEF Attempt, Restart, Zeroed
  <2>2. lasttime' \in [Tasks -> Ints]
    BY <1>4 DEF Attempt, TypeOK
  <2>3. QED
    BY <1>2, <1>4, <2>1, <2>2 DEF Attempt, TypeOK
<1>5. CASE Tick
  <2>1. wall' \in Ints
    BY <1>5, Int32Range DEF Tick
  <2>2. \A n \in 0 .. Far : Capped(n) \in 0 .. Far
    BY DEF Capped
  <2>3. gap' \in [Proper -> 0 .. Far]
    BY <1>5, <2>2 DEF Tick
  <2>4. age' \in [Proper -> 0 .. Far]
    BY <1>5, <2>2 DEF Tick
  <2>5. down' \in 0 .. MaxDown
    BY <1>5 DEF Tick
  <2>6. fresh' \in BOOLEAN
    BY <1>5, Zenon DEF Tick
  <2>7. QED
    BY <1>5, <2>1, <2>3, <2>4, <2>5, <2>6 DEF Tick, TypeOK
<1>6. CASE \E n \in 1 .. MaxShift : StepBack(n) \/ StepForth(n)
  <2>1. PICK n \in 1 .. MaxShift : StepBack(n) \/ StepForth(n)
    BY <1>6
  <2>2. wall' \in Ints
    BY <2>1, Int32Range DEF StepBack, StepForth
  <2>3. QED
    BY <2>1, <2>2 DEF StepBack, StepForth, TypeOK
<1>7. CASE Switch
  BY <1>7 DEF Switch, TypeOK, histvars
<1>8. CASE UNCHANGED vars
  BY <1>8 DEF vars, clockvars, histvars, TypeOK
<1>9. QED
  BY <1>1, <1>3, <1>4, <1>5, <1>6, <1>7, <1>8 DEF Next

(* A second passes: Elapsed counts it, age if the device is in RUNING, and *)
(* within a pass there is no second one.                                   *)
LEMMA TickInv ==
    ASSUME Margin, TasksInv, Tick, TypeOK'
    PROVE  TasksInv'
<1>1. TypeOK
  BY DEF TasksInv
<1>2. /\ down \in Nat /\ down < MaxDown /\ down' = down + 1 /\ fresh' = FALSE
      /\ i' = i /\ (i # 0 => fresh /\ down = 0)
      /\ now' = now /\ back' = back /\ forth' = forth
      /\ wall' = Int32(wall + 1) /\ lasttime' = lasttime /\ interval' = interval
  BY <1>1, Types DEF Tick, TasksInv, PassInv
<1>3. ASSUME NEW t \in Proper
      PROVE  /\ Elapsed(t)' = Elapsed(t) + 1
             /\ gap'[t] = Far \/ gap'[t] = gap[t] + 1
             /\ gap[t] = Far => gap'[t] = Far
             /\ age'[t] \in Int
             /\ age'[t] = age[t] \/ (fresh /\ age'[t] <= age[t] + 1)
             /\ Seen(t)' = Seen(t)
  <2>1. Elapsed(t) + 1 \in Ints
    BY <1>1, <1>2, Room, Types DEF Ints
  <2>2. Elapsed(t)' = Elapsed(t) + 1
    BY <1>1, <1>2, <2>1, ElapsedMoves
  <2>3. /\ gap'[t] = Capped(gap[t])
        /\ age'[t] = IF running THEN Capped(age[t]) ELSE age[t]
        /\ running => fresh
    BY DEF Tick
  <2>4. Seen(t)' = Seen(t)
    BY <1>2 DEF Seen
  <2>5. QED
    BY <1>1, <2>2, <2>3, <2>4, Types DEF Capped
<1>4. FollowsInv'
  <2>1. SUFFICES ASSUME NEW t \in Proper
                 PROVE  /\ age'[t] <= Elapsed(t)' + back'[t]
                        /\ \/ gap'[t] = Far
                           \/ Elapsed(t)' <= gap'[t] + 1 + forth'[t]
    BY DEF FollowsInv
  <2>2. /\ age[t] <= Elapsed(t) + back[t]
        /\ gap[t] = Far \/ Elapsed(t) <= gap[t] + 1 + forth[t]
    BY DEF TasksInv, FollowsInv
  <2>3. /\ age[t] \in Int /\ Elapsed(t) \in Int /\ back[t] \in Int
        /\ gap[t] \in Int /\ forth[t] \in Int
    BY <1>1, Types
  <2>4. QED
    BY <1>2, <1>3, <2>2, <2>3
<1>5. BoundedInv'
  <2>1. SUFFICES ASSUME NEW t \in Proper
                 PROVE  \E c \in Boot \union {Interval[t]} :
                            Elapsed(t)' <= c + down' + forth'[t]
                                             + (IF Seen(t)' THEN 0 ELSE MaxDown)
    BY DEF BoundedInv
  <2>2. PICK c \in Boot \union {Interval[t]} :
            Elapsed(t) <= c + down + forth[t] + (IF Seen(t) THEN 0 ELSE MaxDown)
    BY DEF TasksInv, BoundedInv
  <2>3. QED
    BY <1>1, <1>2, <1>3, <2>2, Types
<1>6. PassInv'
  <2>1. SUFFICES ASSUME i # 0
                 PROVE  /\ down' <= 1 /\ fresh' = FALSE
                        /\ wall' = Int32(now + down')
                        /\ \A t \in Proper : t < i =>
                               age'[t] <= Interval[t] - 1 + down' + back[t]
    BY <1>2 DEF PassInv
  <2>2. wall = Int32(now + 0) /\ down' = 1
    BY <1>2, <2>1 DEF TasksInv, PassInv
  <2>3. wall' = Int32(now + down')
    BY <1>1, <1>2, <2>2, Int32Sum, Types
  <2>4. ASSUME NEW t \in Proper, t < i
        PROVE  age'[t] <= Interval[t] - 1 + down' + back[t]
    <3>1. age[t] <= Interval[t] - 1 + 0 + back[t]
      BY <1>2, <2>1, <2>4 DEF TasksInv, PassInv
    <3>2. age[t] \in Int /\ back[t] \in Int /\ Interval[t] \in Int
      BY <1>1, Types
    <3>3. QED
      BY <1>3, <2>2, <3>1, <3>2
  <2>5. QED
    BY <1>2, <2>2, <2>3, <2>4
<1>7. Timely'
  <2>1. SUFFICES ASSUME NEW t \in Proper
                 PROVE  age'[t] <= Interval[t] + 1 + back'[t]
    BY DEF Timely
  <2>2. /\ age[t] <= Interval[t] + 1 + back[t]
        /\ fresh => age[t] <= Interval[t] + back[t]
    BY DEF TasksInv, LateInv, Timely
  <2>3. age[t] \in Int /\ back[t] \in Int /\ Interval[t] \in Int
    BY <1>1, Types
  <2>4. QED
    BY <1>2, <1>3, <2>2, <2>3
<1>8. QED
  BY <1>2, <1>4, <1>5, <1>6, <1>7 DEF TasksInv, LateInv

(* A step of the clock moves Elapsed by as much as it adds to the history. *)
LEMMA ShiftInv ==
    ASSUME Margin, TasksInv, TypeOK', NEW n \in 1 .. MaxShift,
           StepBack(n) \/ StepForth(n)
    PROVE  TasksInv'
<1>1. TypeOK
  BY DEF TasksInv
<1>2. /\ i = 0 /\ i' = 0 /\ down' = down /\ fresh' = fresh
      /\ lasttime' = lasttime /\ interval' = interval
      /\ gap' = gap /\ age' = age
  BY DEF StepBack, StepForth
<1>3. ASSUME NEW t \in Proper
      PROVE  \E m \in Int :
                 /\ Elapsed(t)' = Elapsed(t) + m
                 /\ \/ m >= 0 /\ forth'[t] = forth[t] + m /\ back'[t] = back[t]
                    \/ m < 0 /\ back'[t] = back[t] - m /\ forth'[t] = forth[t]
  <2>1. /\ Elapsed(t) \in Int /\ back[t] \in 0 .. MaxShift
        /\ forth[t] \in 0 .. MaxShift /\ down \in 0 .. MaxDown /\ n \in Int
        /\ MaxShift \in Nat /\ MaxDown \in Nat /\ Half \in Nat /\ wall \in Int
    BY <1>1, Types
  <2>2. /\ Elapsed(t) >= - back[t] /\ MaxShift < Half
        /\ Elapsed(t) <= Half - 2 - MaxDown - MaxShift + down + forth[t]
    BY <1>2, <2>1, Room
  <2>3. CASE StepBack(n)
    <3>1. /\ wall' = Int32(wall - n) /\ back[t] + n <= MaxShift
          /\ back'[t] = back[t] + n /\ forth' = forth
      BY <2>3 DEF StepBack
    <3>2. Elapsed(t) + (-n) \in Ints /\ wall - n = wall + (-n) /\ -n \in Int
      BY <2>1, <2>2, <3>1 DEF Ints
    <3>3. Elapsed(t)' = Elapsed(t) + (-n)
      BY <1>1, <1>2, <3>1, <3>2, ElapsedMoves
    <3>4. WITNESS -n \in Int
    <3>5. QED
      BY <2>1, <3>1, <3>3
  <2>4. CASE StepForth(n)
    <3>1. /\ wall' = Int32(wall + n) /\ forth[t] + n <= MaxShift
          /\ forth'[t] = forth[t] + n /\ back' = back
      BY <2>4 DEF StepForth
    <3>2. Elapsed(t) + n \in Ints
      BY <2>1, <2>2, <3>1 DEF Ints
    <3>3. Elapsed(t)' = Elapsed(t) + n
      BY <1>1, <1>2, <2>1, <3>1, <3>2, ElapsedMoves
    <3>4. WITNESS n \in Int
    <3>5. QED
      BY <2>1, <3>1, <3>3
  <2>5. QED
    BY <2>3, <2>4
<1>4. ASSUME NEW t \in Proper
      PROVE  /\ age'[t] <= Elapsed(t)' + back'[t]
             /\ gap'[t] = Far \/ Elapsed(t)' <= gap'[t] + 1 + forth'[t]
             /\ \E c \in Boot \union {Interval[t]} :
                    Elapsed(t)' <= c + down' + forth'[t]
             /\ age'[t] <= Interval[t] + 1 + back'[t]
             /\ fresh' => age'[t] <= Interval[t] + back'[t]
  <2>1. /\ age[t] <= Elapsed(t) + back[t]
        /\ gap[t] = Far \/ Elapsed(t) <= gap[t] + 1 + forth[t]
        /\ age[t] <= Interval[t] + 1 + back[t]
        /\ fresh => age[t] <= Interval[t] + back[t]
    BY DEF TasksInv, FollowsInv, LateInv, Timely
  <2>2. PICK c \in Boot \union {Interval[t]} :
            Elapsed(t) <= c + down + forth[t] + (IF Seen(t) THEN 0 ELSE MaxDown)
    BY DEF TasksInv, BoundedInv
  <2>3. /\ age[t] \in Int /\ Elapsed(t) \in Int /\ back[t] \in Int
        /\ gap[t] \in Int /\ forth[t] \in Int /\ Interval[t] \in Int
        /\ c \in Int /\ down \in Int /\ Seen(t)
    BY <1>1, <1>2, Types DEF Seen
  <2>4. PICK m \in Int :
            /\ Elapsed(t)' = Elapsed(t) + m
            /\ \/ m >= 0 /\ forth'[t] = forth[t] + m /\ back'[t] = back[t]
               \/ m < 0 /\ back'[t] = back[t] - m /\ forth'[t] = forth[t]
    BY <1>3
  <2>5. Elapsed(t)' <= c + down' + forth'[t]
    BY <1>2, <2>2, <2>3, <2>4
  <2>6. QED
    BY <1>2, <2>1, <2>3, <2>4, <2>5
<1>5. FollowsInv' /\ LateInv' /\ Timely'
  BY <1>4 DEF FollowsInv, LateInv, Timely
<1>6. BoundedInv' /\ PassInv'
  <2>1. \A t \in Proper : Seen(t)'
    BY <1>2 DEF Seen
  <2>2. ASSUME NEW t \in Proper, NEW c \in Boot \union {Interval[t]},
               Elapsed(t)' <= c + down' + forth'[t]
        PROVE  Elapsed(t)' <= c + down' + forth'[t] + 0
    <3>1. c \in Int /\ down' \in Int /\ forth'[t] \in Int
      BY <1>1, <1>2, Types DEF TypeOK
    <3>2. QED
      BY <2>2, <3>1
  <2>3. QED
    BY <1>2, <1>4, <2>1, <2>2 DEF BoundedInv, PassInv
<1>7. QED
  BY <1>2, <1>5, <1>6 DEF TasksInv

(* A pass begins: nothing has been looked at, and the clock has been read. *)
LEMMA EnterInv ==
    ASSUME Margin, TasksInv, Enter, TypeOK'
    PROVE  TasksInv'
<1>1. TypeOK
  BY DEF TasksInv
<1>2. /\ i = 0 /\ i' = 1 /\ down' = 0 /\ now' = wall /\ wall' = wall
      /\ lasttime' = lasttime /\ interval' = interval /\ fresh' = fresh
      /\ gap' = gap /\ age' = age /\ back' = back /\ forth' = forth
  BY DEF Enter, histvars
<1>3. \A t \in Proper : Elapsed(t)' = Elapsed(t)
  BY <1>2 DEF Elapsed
<1>4. FollowsInv' /\ LateInv' /\ Timely'
  BY <1>2, <1>3 DEF TasksInv, FollowsInv, LateInv, Timely
<1>5. BoundedInv'
  <2>1. SUFFICES ASSUME NEW t \in Proper
                 PROVE  \E c \in Boot \union {Interval[t]} :
                            Elapsed(t)' <= c + down' + forth'[t]
                                             + (IF Seen(t)' THEN 0 ELSE MaxDown)
    BY DEF BoundedInv
  <2>2. PICK c \in Boot \union {Interval[t]} :
            Elapsed(t) <= c + down + forth[t] + (IF Seen(t) THEN 0 ELSE MaxDown)
    BY DEF TasksInv, BoundedInv
  <2>3. Seen(t) /\ ~Seen(t)'
    BY <1>1, <1>2, Types DEF Seen
  <2>4. /\ c \in Int /\ down \in 0 .. MaxDown /\ forth[t] \in Int
        /\ Elapsed(t) \in Int /\ MaxDown \in Int
    BY <1>1, Types
  <2>5. Elapsed(t)' <= c + down' + forth'[t] + MaxDown
    BY <1>2, <1>3, <2>2, <2>3, <2>4
  <2>6. QED
    BY <2>3, <2>5
<1>6. PassInv'
  <2>1. wall' = Int32(now' + down')
    BY <1>1, <1>2, Int32Fits, Types DEF TypeOK
  <2>2. \A t \in Proper : ~(t < i')
    BY <1>1, <1>2, Types
  <2>3. QED
    BY <1>2, <2>1, <2>2 DEF PassInv
<1>7. QED
  BY <1>2, <1>4, <1>5, <1>6 DEF TasksInv

LEMMA SwitchInv ==
    ASSUME TasksInv, Switch \/ UNCHANGED vars, TypeOK'
    PROVE  TasksInv'
<1>1. /\ i' = i /\ down' = down /\ now' = now /\ wall' = wall
      /\ lasttime' = lasttime /\ interval' = interval /\ (fresh' => fresh)
      /\ gap' = gap /\ age' = age /\ back' = back /\ forth' = forth
  <2>1. CASE Switch
    BY <2>1 DEF Switch, histvars
  <2>2. CASE UNCHANGED vars
    BY <2>2 DEF vars, clockvars, histvars
  <2>3. QED
    BY <2>1, <2>2
<1>2. \A t \in Proper : Elapsed(t)' = Elapsed(t) /\ Seen(t)' = Seen(t)
  BY <1>1 DEF Elapsed, Seen
<1>3. QED
  BY <1>1, <1>2
     DEF TasksInv, FollowsInv, BoundedInv, PassInv, LateInv, Timely

-----------------------------------------------------------------------------
(* A round of the loop. *)

(* What the pass compares with the interval, by what Elapsed is now. *)
LEMMA Compared ==
    ASSUME Margin, TasksInv, i # 0, NEW t \in Proper
    PROVE  Int32(now - lasttime[t]) = Elapsed(t) - down
<1>1. TypeOK
  BY DEF TasksInv
<1>2. down \in 0 .. 1 /\ wall = Int32(now + down)
  BY <1>1, Types DEF TasksInv, PassInv
<1>3. now \in Ints /\ now \in Int /\ wall \in Int /\ lasttime[t] \in Int
  BY <1>1, Types DEF TypeOK
<1>4. now = Int32(wall + (-down))
  <2>1. Int32(wall + (-down)) = Int32((now + down) + (-down))
    BY <1>2, <1>3, Int32Sum
  <2>2. (now + down) + (-down) = now
    BY <1>2, <1>3
  <2>3. QED
    BY <1>3, <2>1, <2>2, Int32Fits
<1>5. Elapsed(t) + (-down) \in Ints
  <2>1. /\ Elapsed(t) \in Ints /\ Half \in Nat /\ MaxShift \in Nat
        /\ back[t] \in 0 .. MaxShift
    BY <1>1, Types
  <2>2. Elapsed(t) >= - back[t] /\ MaxShift < Half
    BY Room
  <2>3. QED
    BY <1>2, <2>1, <2>2 DEF Ints
<1>6. Int32(Int32(wall + (-down)) - lasttime[t]) = Elapsed(t) + (-down)
  BY <1>2, <1>3, <1>5, Follows DEF Elapsed
<1>7. Elapsed(t) + (-down) = Elapsed(t) - down
  BY <1>1, <1>2, Types
<1>8. QED
  BY <1>4, <1>6, <1>7

(* A round that leaves the other tasks alone, and after which the task it  *)
(* has looked at is in time.                                               *)
LEMMA RoundInv ==
    ASSUME TasksInv, TypeOK', i # 0, EndOfRound,
           \A t \in Proper : t # i =>
               /\ Elapsed(t)' = Elapsed(t)
               /\ gap'[t] = gap[t] /\ age'[t] = age[t]
               /\ back'[t] = back[t] /\ forth'[t] = forth[t],
           i \in Proper =>
               /\ age'[i] <= Int32(wall - lasttime'[i]) + back'[i]
               /\ \/ gap'[i] = Far
                  \/ Int32(wall - lasttime'[i]) <= gap'[i] + 1 + forth'[i]
               /\ Int32(wall - lasttime'[i]) <= Interval[i] + down + forth'[i]
               /\ age'[i] <= Interval[i] - 1 + down + back'[i]
    PROVE  TasksInv'
<1>1. TypeOK
  BY DEF TasksInv
<1>2. /\ i \in 1 .. NTasks /\ i' = (IF i = NTasks THEN 0 ELSE i + 1)
      /\ NTasks \in Nat
      /\ wall' = wall /\ interval' = interval /\ down' = down /\ now' = now
      /\ (fresh' => fresh \/ i = NTasks)
  BY <1>1, Types, NextIndex DEF EndOfRound, TypeOK
<1>3. /\ down \in 0 .. 1 /\ (down = 1 => ~fresh) /\ wall = Int32(now + down)
      /\ \A t \in Proper : t < i => age[t] <= Interval[t] - 1 + down + back[t]
  BY <1>1, Types DEF TasksInv, PassInv
<1>4. ASSUME NEW t \in Proper
      PROVE  /\ t \in 1 .. NTasks /\ MaxDown \in Int
             /\ age[t] \in Int /\ Elapsed(t) \in Int /\ back[t] \in Int
             /\ gap[t] \in Int /\ forth[t] \in Int /\ Interval[t] \in Int
             /\ age'[t] \in Int /\ back'[t] \in Int /\ forth'[t] \in Int
             /\ Elapsed(t)' \in Int
             /\ Seen(t)' <=> t <= i
             /\ Seen(t) <=> t < i
             /\ t = i => Elapsed(t)' = Int32(wall - lasttime'[t])
  <2>1. /\ t \in 1 .. NTasks /\ MaxDown \in Int /\ MaxShift \in Nat /\ Far \in Nat
        /\ age[t] \in Int /\ Elapsed(t) \in Int /\ back[t] \in Int
        /\ gap[t] \in Int /\ forth[t] \in Int /\ Interval[t] \in Int
    BY <1>1, Types DEF Tasks
  <2>2. age'[t] \in Int /\ back'[t] \in Int /\ forth'[t] \in Int
    BY <2>1 DEF TypeOK
  <2>3. Elapsed(t)' \in Int
    <3>1. lasttime'[t] \in Ints /\ wall' \in Ints
      BY <2>1 DEF TypeOK, Proper
    <3>2. wall' \in Int /\ lasttime'[t] \in Int /\ Half \in Nat
      BY <1>1, <3>1, Types DEF Ints
    <3>3. QED
      BY <3>2, Int32Range DEF Elapsed, Ints
  <2>4. /\ Seen(t)' <=> t <= i
        /\ Seen(t) <=> t < i
    BY <1>2, <2>1 DEF Seen
  <2>5. t = i => Elapsed(t)' = Int32(wall - lasttime'[t])
    BY <1>2 DEF Elapsed
  <2>6. QED
    BY <2>1, <2>2, <2>3, <2>4, <2>5
<1>5. FollowsInv'
  <2>1. SUFFICES ASSUME NEW t \in Proper
                 PROVE  /\ age'[t] <= Elapsed(t)' + back'[t]
                        /\ \/ gap'[t] = Far
                           \/ Elapsed(t)' <= gap'[t] + 1 + forth'[t]
    BY DEF FollowsInv
  <2>2. CASE t = i
    BY <1>4, <2>2
  <2>3. CASE t # i
    BY <1>4, <2>3 DEF TasksInv, FollowsInv
  <2>4. QED
    BY <2>2, <2>3
<1>6. BoundedInv'
  <2>1. SUFFICES ASSUME NEW t \in Proper
                 PROVE  \E c \in Boot \union {Interval[t]} :
                            Elapsed(t)' <= c + down' + forth'[t]
                                             + (IF Seen(t)' THEN 0 ELSE MaxDown)
    BY DEF BoundedInv
  <2>2. CASE t = i
    <3>1. Seen(t)' /\ Elapsed(t)' <= Interval[t] + down + forth'[t]
      BY <1>4, <2>2
    <3>2. Elapsed(t)' <= Interval[t] + down' + forth'[t] + 0
      BY <1>2, <1>3, <1>4, <3>1
    <3>3. QED
      BY <3>1, <3>2
  <2>3. CASE t # i
    <3>1. PICK c \in Boot \union {Interval[t]} :
              Elapsed(t) <= c + down + forth[t] + (IF Seen(t) THEN 0 ELSE MaxDown)
      BY DEF TasksInv, BoundedInv
    <3>2. Seen(t)' <=> Seen(t)
      BY <1>2, <1>4, <2>3
    <3>3. QED
      BY <1>2, <2>3, <3>1, <3>2
  <2>4. QED
    BY <2>2, <2>3
<1>7. ASSUME NEW t \in Proper, t <= i
      PROVE  age'[t] <= Interval[t] - 1 + down + back'[t]
  <2>1. CASE t = i
    BY <2>1
  <2>2. CASE t # i
    BY <1>2, <1>3, <1>4, <1>7, <2>2
  <2>3. QED
    BY <2>1, <2>2
<1>8. PassInv'
  <2>1. SUFFICES ASSUME i' # 0
                 PROVE  /\ down' <= 1 /\ (down' = 1 => ~fresh')
                        /\ wall' = Int32(now' + down')
                        /\ \A t \in Proper : t < i' =>
                               age'[t] <= Interval[t] - 1 + down' + back'[t]
    BY DEF PassInv
  <2>2. i # NTasks /\ i' = i + 1
    BY <1>2, <2>1
  <2>3. \A t \in Proper : t < i' => t <= i
    BY <1>2, <1>4, <2>2
  <2>4. QED
    BY <1>2, <1>3, <1>7, <2>2, <2>3
<1>9. LateInv'
  <2>1. SUFFICES ASSUME NEW t \in Proper, fresh'
                 PROVE  age'[t] <= Interval[t] + back'[t]
    BY DEF LateInv
  <2>2. CASE t <= i
    BY <1>3, <1>4, <1>7, <2>2
  <2>3. CASE ~(t <= i)
    <3>1. fresh /\ t # i
      BY <1>2, <1>4, <2>1, <2>3
    <3>2. QED
      BY <3>1 DEF TasksInv, LateInv
  <2>4. QED
    BY <2>2, <2>3
<1>10. Timely'
  <2>1. SUFFICES ASSUME NEW t \in Proper
                 PROVE  age'[t] <= Interval[t] + 1 + back'[t]
    BY DEF Timely
  <2>2. CASE t = i
    BY <1>3, <1>4, <2>2
  <2>3. CASE t # i
    BY <1>4, <2>3 DEF TasksInv, Timely
  <2>4. QED
    BY <2>2, <2>3
<1>11. QED
  BY <1>2, <1>5, <1>6, <1>8, <1>9, <1>10 DEF TasksInv

(* A task that is not due stays as it is: Elapsed is below the interval.   *)
LEMMA SkipInv ==
    ASSUME Margin, TasksInv, Skip \/ Complain, TypeOK'
    PROVE  TasksInv'
<1>1. TypeOK
  BY DEF TasksInv
<1>2. /\ i # 0 /\ EndOfRound /\ wall' = wall /\ lasttime' = lasttime
      /\ gap' = gap /\ age' = age /\ back' = back /\ forth' = forth
      /\ (i \in Proper => ~Due(i))
  BY DEF Skip, Complain, EndOfRound, histvars, Proper
<1>3. \A t \in Proper : Elapsed(t)' = Elapsed(t)
  BY <1>2 DEF Elapsed
<1>4. ASSUME i \in Proper
      PROVE  /\ age'[i] <= Int32(wall - lasttime'[i]) + back'[i]
             /\ \/ gap'[i] = Far
                \/ Int32(wall - lasttime'[i]) <= gap'[i] + 1 + forth'[i]
             /\ Int32(wall - lasttime'[i]) <= Interval[i] + down + forth'[i]
             /\ age'[i] <= Interval[i] - 1 + down + back'[i]
  <2>1. Int32(wall - lasttime'[i]) = Elapsed(i)
    BY <1>2 DEF Elapsed
  <2>2. ~(Elapsed(i) - down >= Interval[i])
    BY <1>2, <1>4, Compared DEF Due, TasksInv
  <2>3. /\ age[i] <= Elapsed(i) + back[i]
        /\ gap[i] = Far \/ Elapsed(i) <= gap[i] + 1 + forth[i]
    BY <1>4 DEF TasksInv, FollowsInv
  <2>4. /\ age[i] \in Int /\ Elapsed(i) \in Int /\ back[i] \in Int
        /\ gap[i] \in Int /\ forth[i] \in Nat /\ Interval[i] \in Int /\ down \in Int
    BY <1>1, <1>4, Types
  <2>5. QED
    BY <1>2, <2>1, <2>2, <2>3, <2>4
<1>5. QED
  BY <1>2, <1>3, <1>4, RoundInv

(* A task that is attempted starts from what has passed since the clock    *)
(* was read, a second at most.                                             *)
LEMMA AttemptInv ==
    ASSUME Margin, TasksInv, Attempt, TypeOK'
    PROVE  TasksInv'
<1>1. TypeOK
  BY DEF TasksInv
<1>2. i # 0 /\ EndOfRound /\ wall' = wall
  BY DEF Attempt, EndOfRound
<1>3. ASSUME NEW t \in Proper, t # i
      PROVE  /\ Elapsed(t)' = Elapsed(t)
             /\ gap'[t] = gap[t] /\ age'[t] = age[t]
             /\ back'[t] = back[t] /\ forth'[t] = forth[t]
  <2>1. lasttime'[t] = lasttime[t]
    BY <1>1, <1>3, Types DEF Attempt, TypeOK
  <2>2. QED
    BY <1>2, <1>3, <2>1 DEF Attempt, Restart, Zeroed, Elapsed
<1>4. ASSUME i \in Proper
      PROVE  /\ age'[i] <= Int32(wall - lasttime'[i]) + back'[i]
             /\ \/ gap'[i] = Far
                \/ Int32(wall - lasttime'[i]) <= gap'[i] + 1 + forth'[i]
             /\ Int32(wall - lasttime'[i]) <= Interval[i] + down + forth'[i]
             /\ age'[i] <= Interval[i] - 1 + down + back'[i]
  <2>1. /\ lasttime'[i] = now /\ gap'[i] = 0 /\ age'[i] = 0
        /\ back'[i] = 0 /\ forth'[i] = 0
    BY <1>1, <1>4, Types DEF Attempt, Restart, Zeroed, TypeOK
  <2>2. down \in 0 .. 1 /\ wall = Int32(now + down)
    BY <1>1, <1>2, Types DEF TasksInv, PassInv
  <2>3. Int32(wall - now) = down
    <3>1. /\ now - now = 0 /\ now \in Int /\ down \in Int
          /\ MaxShift \in Nat /\ Half \in Nat /\ MaxShift < Half
          /\ Interval[i] \in 1 .. Far /\ MaxDown \in Nat
          /\ Interval[i] + MaxDown + MaxShift + 1 < Half /\ Far \in Nat
      BY <1>1, <1>4, Room, Types DEF Margin
    <3>2. 0 \in Ints /\ 0 + down \in Ints
      BY <2>2, <3>1 DEF Ints
    <3>3. Int32(now - now) = 0
      BY <3>1, <3>2, Int32Fits
    <3>4. Int32(Int32(now + down) - now) = 0 + down
      BY <3>1, <3>2, <3>3, Follows
    <3>5. QED
      BY <2>2, <3>1, <3>4
  <2>4. Interval[i] \in 1 .. Far /\ Far \in Nat
    BY <1>1, <1>4, Types DEF Margin
  <2>5. QED
    BY <2>1, <2>2, <2>3, <2>4
<1>5. QED
  BY <1>2, <1>3, <1>4, RoundInv

-----------------------------------------------------------------------------
(* Whatever is wrong with other tasks and whatever the clock does within   *)
(* Margin, the difference that tasksrun computes does not wrap.            *)
THEOREM TasksInvariant ==
    ASSUME Margin
    PROVE  Spec => []TasksInv
<1>1. Init => TasksInv
  BY InitInv
<1>2. ASSUME TasksInv, [Next]_vars
      PROVE  TasksInv'
  <2>1. TypeOK'
    BY <1>2, TypeStep DEF TasksInv
  <2>2. CASE Enter
    BY <1>2, <2>1, <2>2, EnterInv
  <2>3. CASE Skip \/ Complain
    BY <1>2, <2>1, <2>3, SkipInv
  <2>4. CASE Attempt
    BY <1>2, <2>1, <2>4, AttemptInv
  <2>5. CASE Tick
    BY <1>2, <2>1, <2>5, TickInv
  <2>6. CASE \E n \in 1 .. MaxShift : StepBack(n) \/ StepForth(n)
    BY <1>2, <2>1, <2>6, ShiftInv
  <2>7. CASE Switch \/ UNCHANGED vars
    BY <1>2, <2>1, <2>7, SwitchInv
  <2>8. QED
    BY <1>2, <2>2, <2>3, <2>4, <2>5, <2>6, <2>7 DEF Next
<1>3. QED
  BY <1>1, <1>2, PTL DEF Spec

(* What tasksrun keeps are values of its int, without any Margin. *)
THEOREM TypeCorrect == Spec => []TypeOK
<1>1. Init => TypeOK
  BY InitType
<1>2. QED
  BY <1>1, TypeStep, PTL DEF Spec

(* A complete task is attempted in time, over disconnections, steps of the *)
(* clock and its wrap, for any interval and any width of the int.          *)
THEOREM NeverLate ==
    ASSUME Margin
    PROVE  Spec => []Timely
  BY TasksInvariant, PTL DEF TasksInv

(* And never before its interval is over. *)
THEOREM NeverEarly ==
    ASSUME Margin
    PROVE  Spec => []Spaced
<1>1. ASSUME TasksInv
      PROVE  Spaced
  <2>1. SUFFICES ASSUME i \in Proper, Due(i)
                 PROVE  gap[i] >= Interval[i] - 1 - forth[i]
    BY DEF Spaced
  <2>2. TypeOK /\ i # 0
    BY <1>1, <2>1, Types DEF TasksInv
  <2>3. Elapsed(i) - down >= Interval[i]
    BY <1>1, <2>1, <2>2, Compared DEF Due, TasksInv
  <2>4. gap[i] = Far \/ Elapsed(i) <= gap[i] + 1 + forth[i]
    BY <1>1, <2>1 DEF TasksInv, FollowsInv
  <2>5. /\ gap[i] \in Int /\ Elapsed(i) \in Int /\ forth[i] \in Nat
        /\ down \in Nat /\ Interval[i] \in 1 .. Far /\ Far \in Nat
    BY <2>1, <2>2, Types DEF Margin
  <2>6. QED
    BY <2>3, <2>4, <2>5
<1>2. QED
  BY <1>1, TasksInvariant, PTL
=============================================================================
