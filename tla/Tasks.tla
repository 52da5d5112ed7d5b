-------------------------------- MODULE Tasks --------------------------------
(***************************************************************************)
(* The periodic tasks of a device: mqtt_tasksinit and mqtt_tasksrun, and   *)
(* their copies opcua_tasksinit and opcua_tasksrun.  The FSM calls         *)
(* tasksrun every 10 us in its RUNING branch; the function reads the wall  *)
(* clock once into an int32 and attempts the tasks that are due.           *)
(*                                                                         *)
(* time() is a wall clock that an administrator or NTP may step; the int32 *)
(* has 2 * Half values here.  Whether an attempt succeeds makes no         *)
(* difference to the task times: the result of m_pub is ignored.           *)
(***************************************************************************)
EXTENDS Integers

CONSTANTS
    NTasks,         \* taskstot
    Interval,       \* the "interval" of each task, in seconds
    NoInterval,     \* tasks without that setting
    Garbage,        \* what malloc may have left in tasksintervalls
    Malformed,      \* tasks without "pubtopic" or "payloadfmt"
    Half,           \* 2 ^ 31, the half of the values of an int32
    Boot,           \* readings of the wall clock at the start
    MaxShift,       \* bound: seconds the clock is stepped between attempts
    MaxDown,        \* bound: seconds between two passes outside RUNING
    Far             \* bound: the history variables stop counting here

Tasks == 1 .. NTasks

Ints == - Half .. Half - 1

ASSUME TasksAssumption ==
    /\ NTasks \in Nat \ {0}
    /\ Interval \in [Tasks -> 0 .. Half - 1]
    /\ NoInterval \subseteq Tasks /\ Malformed \subseteq Tasks
    /\ Garbage \subseteq Ints
    /\ Half \in Nat \ {0}
    /\ Boot \subseteq 0 .. Half - 1
    /\ MaxShift \in Nat /\ MaxDown \in Nat /\ Far \in Nat

(* The tasks that are configured completely. *)
Proper == Tasks \ (NoInterval \union Malformed)

(* The value that an int32 takes.  The difference in tasksrun overflows a  *)
(* signed int; the repository builds without optimisation, and the         *)
(* machine's subtraction wraps.                                            *)
Int32(n) == ((n + Half) % (2 * Half)) - Half

VARIABLES
    wall,           \* time(), as an int32
    interval,       \* tasksintervalls
    running,        \* the state of the device is RUNING
    i,              \* loop index of tasksrun, 0 outside it
    now,            \* the local variable of tasksrun
    lasttime,       \* taskslasttimels
    fresh,          \* tasksrun has ended since the clock last ticked
    down,           \* seconds since tasksrun was last called
    gap,            \* history: seconds since the last attempt of each task
    age,            \* history: those of them spent in RUNING
    back, forth     \* history: seconds the clock was stepped meanwhile

clockvars == <<wall, running, fresh, down>>
histvars  == <<gap, age, back, forth>>
vars      == <<clockvars, interval, i, now, lasttime, histvars>>

TypeOK ==
    /\ wall \in Ints
    /\ interval \in [Tasks -> Ints]
    /\ running \in BOOLEAN
    /\ i \in 0 .. NTasks
    /\ now \in Ints
    /\ lasttime \in [Tasks -> Ints]
    /\ fresh \in BOOLEAN
    /\ down \in 0 .. MaxDown
    /\ gap \in [Proper -> 0 .. Far]
    /\ age \in [Proper -> 0 .. Far]
    /\ back \in [Proper -> 0 .. MaxShift]
    /\ forth \in [Proper -> 0 .. MaxShift]

(* mqtt_tasksinit: the times are 0, that is 1970; an interval that is not  *)
(* set stays what the memory holds.                                        *)
Init ==
    /\ wall \in Boot
    /\ \E g \in [NoInterval -> Garbage] :
           interval = [t \in Tasks |-> IF t \in NoInterval THEN g[t]
                                                         ELSE Interval[t]]
    /\ running = FALSE
    /\ i = 0
    /\ now = 0
    /\ lasttime = [t \in Tasks |-> 0]
    /\ fresh = FALSE
    /\ down = 0
    /\ gap = [t \in Proper |-> Far]
    /\ age = [t \in Proper |-> 0]
    /\ back = [t \in Proper |-> 0]
    /\ forth = [t \in Proper |-> 0]

-----------------------------------------------------------------------------
(* The RUNING branch of the FSM calls tasksrun. *)
Enter ==
    /\ running
    /\ i = 0
    /\ now' = wall
    /\ i' = 1
    /\ down' = 0
    /\ UNCHANGED <<wall, interval, running, fresh, lasttime, histvars>>

(* Mutant: the task waits one second more. *)
DueAfter(t) == Int32(now - lasttime[t]) > interval[t]

(* now - taskslasttimels[i] < tasksintervalls[i] is false. *)
Due(t) == Int32(now - lasttime[t]) >= interval[t]

(* Mutant: "i <= taskstot" in the loop. *)
EndOfRoundLate ==
    /\ i' = (i + 1) % (NTasks + 2)
    /\ fresh' = (fresh \/ i = NTasks)
    /\ UNCHANGED <<wall, interval, running, down, now>>

EndOfRound ==
    /\ i' = (i + 1) % (NTasks + 1)
    /\ fresh' = (fresh \/ i = NTasks)
    /\ UNCHANGED <<wall, interval, running, down, now>>

Skip ==
    /\ i # 0
    /\ ~Due(i)
    /\ EndOfRound
    /\ UNCHANGED <<lasttime, histvars>>

(* The result of config_setting_lookup_string is NULL: the task keeps its  *)
(* time, and is looked at again in the next pass.                          *)
Complain ==
    /\ i # 0
    /\ Due(i)
    /\ i \in Malformed
    /\ EndOfRound
    /\ UNCHANGED <<lasttime, histvars>>

(* The histories of a task start again with an attempt. *)
Zeroed(h, t) == [u \in Proper |-> IF u = t THEN 0 ELSE h[u]]

Restart(t) ==
    /\ gap' = Zeroed(gap, t) /\ age' = Zeroed(age, t)
    /\ back' = Zeroed(back, t) /\ forth' = Zeroed(forth, t)

(* Mutant: the schedule is kept, what was missed is made up for. *)
AttemptOnSchedule ==
    /\ i # 0
    /\ Due(i)
    /\ i \notin Malformed
    /\ lasttime' = [lasttime EXCEPT ![i] = Int32(@ + interval[i])]
    /\ Restart(i)
    /\ EndOfRound

(* The task is published, or tried to be; its time is now either way. *)
Attempt ==
    /\ i # 0
    /\ Due(i)
    /\ i \notin Malformed
    /\ lasttime' = [lasttime EXCEPT ![i] = now]
    /\ Restart(i)
    /\ EndOfRound

-----------------------------------------------------------------------------
(* The environment. *)

Capped(n) == IF n < Far THEN n + 1 ELSE Far

(* A second passes.  tasksrun is called every 10 us and takes less than a  *)
(* second: a call ends between two ticks while the device is in RUNING,    *)
(* and a tick may fall into a call.                                        *)
Tick ==
    /\ running \/ i # 0 => fresh
    /\ down < MaxDown
    /\ wall' = Int32(wall + 1)
    /\ fresh' = FALSE
    /\ down' = down + 1
    /\ gap' = [t \in Proper |-> Capped(gap[t])]
    /\ age' = [t \in Proper |-> IF running THEN Capped(age[t])
                                             ELSE age[t]]
    /\ UNCHANGED <<interval, running, i, now, lasttime, back, forth>>

(* The clock is stepped, outside the few microseconds of a call. *)
StepBack(n) ==
    /\ i = 0
    /\ \A t \in Proper : back[t] + n <= MaxShift
    /\ wall' = Int32(wall - n)
    /\ back' = [t \in Proper |-> back[t] + n]
    /\ UNCHANGED <<interval, running, i, now, lasttime, fresh, down, gap, age, forth>>

StepForth(n) ==
    /\ i = 0
    /\ \A t \in Proper : forth[t] + n <= MaxShift
    /\ wall' = Int32(wall + n)
    /\ forth' = [t \in Proper |-> forth[t] + n]
    /\ UNCHANGED <<interval, running, i, now, lasttime, fresh, down, gap, age, back>>

(* The callbacks of MQTT move the device out of RUNING, the FSM back. *)
Switch ==
    /\ running' = ~running
    /\ fresh' = (fresh /\ running)
    /\ UNCHANGED <<wall, interval, i, now, lasttime, down, histvars>>

-----------------------------------------------------------------------------
Next ==
    \/ Enter \/ Skip \/ Complain \/ Attempt
    \/ Tick
    \/ \E n \in 1 .. MaxShift : StepBack(n) \/ StepForth(n)
    \/ Switch

Spec == Init /\ [][Next]_vars

-----------------------------------------------------------------------------
(* The time that a device spends in RUNING between two attempts of a task  *)
(* exceeds the interval by one second at most (the second that may pass    *)
(* after now was read), and by what the clock was stepped back: across     *)
(* disconnections, steps of the clock, the wrap of the int32 in 2038, and  *)
(* whatever is wrong with the other tasks of the list.                     *)
Timely == \A t \in Proper : age[t] <= Interval[t] + 1 + back[t]

(* A task is not attempted sooner than the interval after the last time,   *)
(* less that same second and what the clock was stepped forth: a long      *)
(* disconnection does not end in a burst.                                  *)
Spaced ==
    (i \in Proper /\ Due(i)) => gap[i] >= Interval[i] - 1 - forth[i]
-----------------------------------------------------------------------------
(* What the two need: the seconds that the intervals, the absences and the *)
(* steps of the clock add up to fit into the int, and the clock does not   *)
(* start just before its wrap (lasttime starts in 1970).  A task with an   *)
(* interval of 0 asks for an attempt in every pass, and a pass that the    *)
(* clock ticks in costs it one second more than Timely allows.  Far is no  *)
(* closer than an interval.                                                *)
Margin ==
    \A t \in Proper :
        /\ Interval[t] \in 1 .. Far
        /\ \A c \in Boot \union {Interval[t]} : c + MaxDown + MaxShift + 1 < Half
=============================================================================
