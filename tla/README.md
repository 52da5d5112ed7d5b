# TLA+ models of zhbox

zhbox connects devices to a cloud by MQTT: a C daemon on libevent (one loop, on
the main thread), libmosquitto (one loop thread per connection), libconfig,
open62541 and OpenSSL. This directory holds TLA+ modules for the parts of it
that keep state, TLC configurations that check them on small instances, and
proofs for TLAPS. Paths of source files are below `src/src/` where only a name is given.

    tlasany M.tla                                  parse
    tlc -workers 2 -config MCX_y.cfg MCX.tla       check one instance
    tlapm X_proofs.tla                             check the proofs

## 1. Inventory

### Components

| component | source | state | operations |
|---|---|---|---|
| process control | `src/src/main.c`, `src/src/pidfile.c` | the pid file (path, inode, contents, flock), signal disposition, the event loop | `main` with `-s`/`-S`, `check_pid`, `read_pid`, `remove_pid`, `write_pid`, `termination` |
| registry of objects | `src/src/zhbox.c`, the `*_new`/`*_init`/`*_free` of `N_*.c` | `northarray`, `southarray`, heap blocks, armed timers, loop threads | `zhbox_init`, `zhbox_destory`, init and free of every object |
| direct device (general, Aliyun) | `N_general.c`, `N_ali.c`, `mqtt.c` | `state`, `isconnected`, `count`; the session of libmosquitto | the FSM callback, `mqtt_cb_on_connect`, `mqtt_cb_on_disconnect`, `mqtt_suballtopic`, `mqtt_sub`, `mqtt_pub` |
| Aliyun gateway and OPC UA subdevices | `N_ali.c` | `state` of the gateway (with `TOPOGET`) and of each subdevice (`INIT`, `LOGOUTED`, `LOGINED`) | their FSM callbacks, `alink_rcvhandle` |
| periodic tasks | `mqtt.c`, `S_opcua.c` | `taskslasttimels`, `tasksintervalls` | `*_tasksinit`, `*_tasksrun` |
| template expansion | `obj.c`, the `*_getvar` | buffer, length, pointer into the template | `obj_stringexpansion`, `m_getvar` |
| configuration | libconfig lookups in every init | the members they fill | `getsetstr`, `getsetint`, `getsetbool`, the lists |
| general gateway, Modbus subdevice | `N_general.c`, `N_ali.c` | - | stubs |
| OPC UA client | `S_opcua.c` | a client that is created and never connected | the init, the tasks; its FSM is a TODO |
| passwords and signatures | `hmac*` in `N_ali.c` | none | pure functions |
| logging | the macros of `l.h` | none | output |

### How they interact

`main` checks and rewrites the pid file, initialises the registry, and hands the
main thread to `event_base_dispatch`. The registry initialises each north device
of `northls`, which arms one timer. From then on everything on the main thread is
a timer callback: read `this->state`, run one branch, write the next state, arm
the timer again. The first branch of a north device starts the loop thread of
libmosquitto, which calls `on_connect`, `on_disconnect` and `on_message`; these
write the very fields the timer callbacks read and write, without a lock, and
the `on_message` of a gateway writes the state of its subdevices. `SIGTERM` ends
the loop; `zhbox_destory` then joins the loop threads and frees the objects.

### What is hard here, and what correctness means

| component | hard | correct when |
|---|---|---|
| process control | steps between check, unlink, truncate, lock and write; crashes between any two; a pid used again; a signal before the loop runs | one zhbox at a time; the file names it; the next zhbox starts after a crash; a stop stops |
| registry and classes | structs that inherit by their first members and are read through one another; methods called in the middle of an init; failure half-way through a list; arrays with room for one; freeing one device while the threads of others run | no member is read before it is written; nothing freed is pointed at; everything is freed, once |
| direct device | two threads write one field; each `switch` acts on a stale read; both threads dial, each on its own timeouts | the topics are subscribed on the session in use; a live connection is recorded as such; the device gets back to `RUNING`, and in what time |
| gateway | the same, and two FSMs in one callback thread whose common fate is decided on the other; answers that get lost with a connection | a `LOGINED` subdevice is logged in on this connection; in the end all are |
| tasks | a wall clock that steps; an int32; disconnections; other tasks of the list that lack a setting | neither late nor early |
| expansion | what follows a reference; the end of the template; a buffer used again | the text is the meaning of the template, and nothing else is read or shown |

PROJECT.json lists every hazard with its line and the properties that bear on it.

## 2. Modules

| module | models | composed with |
|---|---|---|
| `MqttDevice` | a direct device, its two threads, libmosquitto and the broker as far as the FSM can tell | - |
| `AliGateway` | the gateway and its subdevices, and the cloud | EXTENDS `MqttDevice`, whose branches and callbacks it reuses as they are |
| `RetryTimer` | the timeouts of a direct device against a broker and a library with times of their own | EXTENDS `MqttDevice`; each of its steps but the passing of a second is one of `MqttDevice` |
| `SingleInstance` | abstract: at most one zhbox, which stays until it is gone | implemented by `ZhboxProcess` |
| `ZhboxProcess` | `main` and the pid file, one step per system call, any number of invocations | refines `SingleInstance` |
| `Tasks` | the schedule of the periodic tasks | - |
| `ObjectClasses` | the classes as tables: the layout of each struct, the variables of each `m_getvar`, the steps of each `*_new` and `*_init` | - |
| `Registry` | init and destruction of all objects | EXTENDS `ObjectClasses`, whose programs it runs |
| `StrExpan` | `obj_stringexpansion` and the lookup of variables | its instance takes the variables from `ObjectClasses` |
| `MqttDevice_proofs`, `RetryTimer_proofs`, `AliGateway_proofs`, `ZhboxProcess_proofs`, `Tasks_proofs`, `ObjectClasses_proofs`, `Registry_proofs`, `StrExpan_proofs` | theorems and lemmas | EXTEND their module and TLAPS; `RetryTimer_proofs` also extends `MqttDevice_proofs`, `Registry_proofs` also `ObjectClasses_proofs` |
| `MC*` | instances for TLC | EXTEND their module |

Definitions keep the names of the code where they have one (`RUNING`,
`suballtopic`, `northarray`). Operators marked *Mutant* are variants of the
definition behind them with a plausible bug; no specification uses them, they
show that a property can fail.

### MqttDevice

State: `state`, `isconnected` are the fields; `pc` and `topic` say where the main
thread is in the callback; `looping`, `conn`, `cb` are the loop thread, the socket
and the callback that is due; `subreq`, `subs` are the subscriptions on their way
and at the broker; `missed` is a history variable, `faults` counts towards a bound.

A callback is split at every library call and every write of a shared field. The
`switch` reads `state` once (`Enter*`); what the branch writes at its end
(`SetReconnecting`, `SetRuning`) is a step of its own, so that callbacks of
the loop thread fall in between. Abstractions, and why they lose nothing:

- the length of the timeouts (10 s, 10 us, ...) is left to `RetryTimer`: here an armed
  timer may fire at any time, which allows more interleavings than the code;
- `mosquitto_connect_async` and `mosquitto_reconnect_async` close the socket they
  find and dial (`Redial`); the call may fail, and the code goes on either way;
- the guards `this->mosq != mosq` of the callbacks are never true with one client
  per object; `ret < 0` behind `m_sub` and `m_pub` is never true because the
  errors of libmosquitto are positive; the `exit(1)` for an expansion of length
  <= 0 cannot be reached because the length counts the NUL. All are left out;
- of the errors of `mosquitto_subscribe` only `MOSQ_ERR_NO_CONN` is modelled;
- `NTopics` counts the entries of `subtopics` up to the first that is not a string: the
  loop of `mqtt_suballtopic` ends there;
- the library dials again by itself only when its loop thread finds no live socket
  and is not in a callback (`AutoReconnect`);
- `count`, which numbers messages, is not modelled: no branch depends on it.

### RetryTimer

Every callback of the FSM arms its timer again: 1 s after the init, 5 s after the first
dial, 10 s after a retry, at once after `CONNECTED` and in `RUNING`. libmosquitto closes
the socket it finds whenever the FSM dials, sleeps 1 s before it dials again by itself,
and its loop thread notices a closed socket when its `select` returns, after at most
`Keepalive`. `timer`, `asleep`, `age` and `since` count seconds; `Tick` is the only step that
is not one of `MqttDevice`, and it does not pass over a step that is due (`Urgent`).
`Latency` is the longest time the broker takes for a CONNECT.

What comes out: with `Latency` below 10 s a device is back in `RUNING` on a live
connection within 30 s of the last fault or within `Keepalive` + 10 s, whichever is
longer (proved). With the keepalive of 60 s of the configurations under `test/` that is
70 s, and TLC has a behaviour that takes all of them: a loop thread that waits on the old
socket does not see that it was closed. With
`Latency` of 10 s or more there is no bound at all: each retry of the FSM cuts off the
handshake of the one before, and the device may never connect to a broker that answers
every CONNECT.

### AliGateway

`sub` is the state of the subdevices, `cur` the one whose callback runs, `rcv` the
index of the loop in `alink_rcvhandle`; `topo`, `reply`, `loginq`, `cloud` are the
requests and answers of the two exchanges with the cloud. The publishes have
QoS 2: libmosquitto keeps them across connections, so they are never lost, only
late. The answer of the cloud is lost with the connection of a clean session, or
if nobody has subscribed to its topic yet. Nothing in the code moves a subdevice
from `LOGINED` to `RUNING`, and nothing subscribes the `subtopics` a subdevice reads at
`N_ali.c:419`.

### ZhboxProcess

`file` is the inode the path names, `text` what an inode holds, `lock` its flock;
`got` is the pid an invocation has read. `Init` ranges over everything an
earlier run can leave. `read_pid` on an empty file returns its uninitialised local:
any value. `Kill` does to the target what `SIGTERM` does at its place in
`main` (default action before `signal`, nothing before the loop runs, the end of
the loop in `dispatch`), and with a pid of 0 hits the caller. `Crash` is possible
anywhere. The two forks of `daemonize` end parents
that do nothing more, so that an invocation keeps one identity; what they change is
when the command is over for whoever gave it: with `mode` `"daemon"` (`Daemonize`)
the terminal is free and the pid not yet written. `Reap` is what the kernel does for a
process that is gone. `-s` together with `-S` acts as `-S`.

`Overlap` bounds the commands that are given and not completed (`Pending`), and
`Waits` says what completed means. With `Overlap` 1 and `Waits` TRUE commands are given
one after the other, each when the pid file of the one before is written or its process
gone, while the processes that already run are stopped, crash and leave at any
moment. With `Waits` FALSE the next command is given as soon as the shell has its
prompt back, which is how scripts and people do it.

### Tasks

`wall` is `time()` as an int of `2 * Half` values; `Tick`, `StepBack` and `StepForth`
move it. `Skip` (not due), `Complain` (no `pubtopic` or `payloadfmt`: the time stays as it
is) and `Attempt` are the outcomes of one round of the loop. An interval that is not
set stays what `malloc` left (`NoInterval`, `Garbage`): the init ignores the result of that
lookup.
`now - lasttime` wraps: the subtraction is signed, and the repository's build
(no `-O` in `CMakeLists.txt`) compiles it to the wrapping instruction. The clock is
stepped outside the few microseconds of a call, and a call ends
between two seconds; both are assumptions on a machine that is not stalled.

### ObjectClasses

A class is a struct, a table of variables and a program. `Layout` lists the members of
the structs in order: a struct inherits by beginning with the members of another, and
`At(struct, attrs)` is where code that knows `struct` finds a member. Code of one class
runs on objects of another: `alidirectgatewaydevmqtt_getvar` takes a gateway for a
direct device, `mqtt_init` everything for an `mqtt_t`. A step of a program says what
it reads (`use`), writes (`set`), allocates, whether it may end the init, and
whether it arms the timer; `getsetstr` and its kin are `Read`, `strdup` is `Strdup`,
`m_strexpan` reads the members its template's variables show, through the struct that
the object's `m_getvar` believes in. `NorthUses`, `AliSubUses` and `AliSubNorthUses` are
what the callbacks read later: the timer callback, the methods it calls
(`MqttMethodUses`), the callbacks of libmosquitto on the loop thread (`MqttCallbackUses`), those
of a subdevice also from the gateway behind `vnorthptr`. A `*_new` clears its struct; `New` lists
as written only the members whose zero the code relies on, among them `m_onpub`, which
`mqtt_cb_on_pub` tests and calls and which nothing else writes. A `*_new` that leaves
one of them out violates `FieldsDefined`. A setting that nothing uses is in the programs all the same, since the
init ends when it is missing.

### Registry

`InitStep` takes the next step of the program of the object in the making,
`SkipStep` goes by one that is for a list that is empty (`Taken`), and
`InitFails` ends `main` there with -1. Only an Aliyun gateway looks for a `southls`
(`South`). A block of memory is `<<device, subdevice, what>>`. A
gateway's timer is armed before its subdevices are made (`EnterSouth`, `HoldSub`,
`HoldGateway`). Storing the second pointer into an array for one is undefined: the
allocator's slack takes it (glibc's smallest block has room for three) or something is
corrupted, and the model has both. So has it for the two `*_new` that end without a
return (`NoReturn`).

### StrExpan

One step per round of the loop. A template is a sequence of items: plain
characters, references, and a `{` with a letter behind it that has no `}` of its own
(`Open`): `strchr` then takes the `}` of a later reference, and the text between
vanishes, or returns NULL and the pointer is anywhere (`wild`). The position after a reference is copied without a look
at it (`CopyNext`), be it another reference or the NUL. `ByteAt` gives the bytes behind
the template, up to a bound, any value. `m_getvar` compares by `strncmp` with the
length of the *key*, so a key that abbreviates names finds the first of them; the
tables of the code contain no name that is a proper prefix of an earlier one (the
assumption of the module, which TLC evaluates on the names of `ObjectClasses`). A variable that only a `properties` section of
a configuration declares (`{WifiSwitch}` in the tests) is not found: the text is
empty.

## 3. Runs

### Passing

| run | instance | shows |
|---|---|---|
| `mqtt_clean` | 2 topics, clean session, 3 faults | subscriptions, reports and loop start are right in every interleaving of the two threads; the device returns to `RUNING` |
| `gateway_two` | 2 subdevices, 1 topic, 1 fault | subscriptions and logins belong to the connection in use; the exchange ends with both logged in once no `on_connect` is overwritten |
| `retry_race` | 2 topics, clean session, 4 faults, `Latency` 9, `Keepalive` 60, `Recovery` 70 | the retries of the FSM and of the library do not starve each other: 70 s after the last fault the device runs |
| `process_serial` | 3 invocations, `Overlap` 1, `Waits` | at most one runs, the file names it, refinement of `SingleInstance`; whatever a crash left, a start that finds no zhbox running runs, unless the file is empty or its pid is another program's |
| `tasks_wall` | 3 tasks (one without interval, one without topic, one of 3 s), `Half` 16, steps of 1 s, 3 s away | punctuality of the third across disconnections, steps and the wrap, whatever the others do |
| `registry_two` | lists of 0 to 2 devices of all kinds, with and without tasks, gateways with 0 to 2 subdevices | members are written, by an init or by a `memset` that is relied upon, before an init or a callback reads them; threads and timers never outlive objects; everything is freed once except what no free names |
| `strexpan_spaced` | all templates of up to 4 items, fresh and used buffers, the variables of a subdevice and its gateway | spaced templates expand to their meaning; nothing stale shows; nothing is written behind the returned length |

### Violations: what the repository says and the code does not do

| run | property | what happens |
|---|---|---|
| `mqtt_subscribed` | `EventuallySubscribed` | a reconnection inside `mqtt_suballtopic` is overwritten with `RUNING` and leaves the new session without subscriptions |
| `process_race` | `AtMostOneRunning` | the first start has given the prompt back and not yet written its pid; the second finds no file, and both run |
| `process_stop` | `StopStops` | the join of a loop thread that nobody told to end |
| `registry_arrays` | `StoredInside` | the second device of a list is stored behind the array |
| `strexpan_overread` | `StaysInTemplate` | a template that ends in a reference is read beyond its end |

These are statements of the repository: each is quoted with its line in the
findings of PROJECT.json.

Other divergences the models have in their steps, without a run of their own:

- `on_connect` ignores `rc`: a refused connection is logged and recorded as made
  until the library reports the loss (`OnConnect`, `src/src/mqtt.c:131`).
- A loss inside the `CONNECTED` branch is overwritten like a reconnection: tasks run
  with `isconnected = 0` until the next report (`SetRuning`). The gateway loses
  reports in `TOPOGET` too (`TopoDone`), hence the premise of `EventuallyLogined`.
- No statement leads a subdevice from `LOGINED` to `RUNING`, where its tasks would
  run, against the comment at `src/src/N_ali.c:422`.
- `read_pid` of an empty file returns an uninitialised local, against its comment
  at `src/src/pidfile.c:44` (`ReadPid`). A crash between `O_TRUNC` and the write leaves
  such a file, and when the local happens to be the pid of a live process the
  next start is refused with "was already run" although no zhbox runs; so it is, by design of
  the pid file, when another program has got the pid of the crashed zhbox. `RestartAfterCrash` ranges
  over every left-over file and has these two outcomes as its exceptions: it is violated when
  either is struck out.
- `aligatewaysubdevopcua_free`, which the comment at `src/src/N_ali.c:392`
  names, is never called: `aligatewaydevmqtt_free` frees the struct of a subdevice alone,
  not its `clientid` and not its `UA_Client`. `DestroyComplete` lists what stays allocated.
- `hmacmd5` is a TODO: with that `signmethod` the password is the unsigned text
  (`N_ali.c:174`, `N_ali.c:632`) and the `sign` of a subdevice is empty (`N_ali.c:332`).
- No init of a subdevice sets `usr` and `pwd`, which its `{usr}` and `{pwd}` would show;
  the templates of the code do not use them (`AliSubUses`).
- Of two adjacent references the second is copied as text, and the length that is
  sent for a payload counts the NUL (`CopyNext`, `Finish`); `SpacedExpands` states the
  templates and the text that are right and says nothing of the others.

### Bounds

- `MaxFaults`: failed calls, refusals and losses. Three let a fault hit the recovery
  of the recovery of a device. The gateway has one: a loss in any branch, with the
  recovery from it; redialling, which also cuts connections, costs no fault.
  For liveness the bound also says that the network is eventually stable.
- `Latency` 9, `Keepalive` 60: the largest latency under which there is a bound, and the
  keepalive of the configurations under `test/`. Four faults let a loss come in every
  phase of the recovery from another. The theorem covers every number of faults and all
  values within `TimingBounds`.
- `NTopics` 2: a loss between two rounds of the subscription loop, with topics on
  both sides. `NSubs` 2: one subdevice logs in while the loop thread resets the
  other.
- `Procs` 3: one that runs, one that crashes, one that starts. The proofs cover any
  finite number.
- `Half` 16: an interval of 3 with steps and absences does not itself reach the sign bit; `Boot` includes a value
  just before the wrap, `Garbage` the two ends of the int and 0. `Far` is larger than every bound the properties compare with.
- `MaxNorth` 2 and 2 subdevices: one object before and one behind another in each array.
- `MaxItems` 4 holds two adjacent references with text on either side; `Size` 14 is more than
  the longest expansion of such a template with what is read behind it.
- The theorems cover every value of these constants within the hypotheses they name
  (`TimingBounds`, `Margin`, `Roomy`); the instances satisfy the hypotheses, which TLC
  evaluates as an ASSUME of `MCRetryTimer`, `MCTasks` and `MCStrExpan`.

`CHECK_DEADLOCK FALSE` is given where the system really stops: all processes gone,
the expansion done, the registry stopped or failed.

### Fairness

- `MqttDevice`: weak fairness of the main thread (a callback always re-arms its
  timer and never blocks), of the loop thread and of the broker. It
  means that a handshake completes before the 10 s retry of the FSM cuts it off;
  `RetryTimer`, which has no fairness but seconds, shows that this holds of a broker that
  answers within 9 s and of no slower one.
- `AliGateway`: the same, and strong fairness of each subdevice's `EnterLogin`: the
  main thread is enabled and disabled by other callbacks all the time, but libevent
  runs timers in the order they become due, so each gets its turn.
- `ZhboxProcess`: weak fairness of each process in `main`; a process is scheduled.
- No fairness for faults, crashes, signals, the clock or the start of a loop thread.

## 4. Proofs

`MqttDevice_proofs`, from `DeviceAssumption` alone (any number of topics, either kind
of session, any bound on faults):
`TypeCorrect`, `Subscription`, `Reporting`, `NoRedial`, `SingleLoopStart`, each from
`DeviceInvariant`. The properties are not inductive: that a device in `RUNING`
is subscribed depends on how the FSM got there. The invariant adds
(a) before the loop thread exists, the state is one of the first branch and there
is no socket that could report; (b) while `suball` runs, what the callbacks have
not disturbed is subscribed up to `topic`; (c) which states the callbacks can leave under
each `pc`; (d) a live session whose callback has been delivered is recorded
as connected. The proof has one step per action.

`RetryTimer_proofs`, from `TimingBounds` (`Latency` < 10, `Recovery` at least 30 and at
least `Keepalive` + 10) and the assumptions of the modules: `TimedImplements` (a step of `RetryTimer` is
one of `MqttDevice` or leaves its variables alone), with it `TimedSubscription` (what
is proved of `MqttDevice` holds of the timed device), `TimerTypeCorrect` and `Recovers`. A
recovery goes through phases, each with a bound of its own: the loop thread finds the
socket gone, sleeps, dials, the broker answers, the callback is delivered, the timer
fires. `Remaining` adds up what is left of them in each state, and the invariant
`DeadlineInv` is that `since` and `Remaining` together stay within `Recovery` until the
device has recovered; the invariant of
`MqttDevice_proofs` excludes the states in which a phase could be missed. One lemma
per action shows that it pays for the second it takes.

`ZhboxProcess_proofs`, from `ProcessAssumption`, `Overlap = 1` and `Waits`, for any finite set
of processes: `TypeCorrect`, `PidfileCorrect`, `MutualExclusion`, and `Refinement`
(`Spec => Single!Spec`), from `ProcessInvariant`. The invariant says at each
place between check and unlink what that place has established about the file and
that nobody else is running; `Overlap = 1` with `Waits` is what makes "nobody else" stay
true, and `process_race` shows that without it the theorem is false.

`Flock` in the same module needs neither of the two: from `LockInvariant` (whoever
writes holds the lock of the inode it has opened) it follows that no two processes
write one inode at once, however many commands race.

`Registry_proofs`, from `RegistryAssumption` alone (any list of devices, any `southls`),
has three invariants, since the properties depend on different things:

- `RegistryInvariant` gives `OnlyHeldArmed`, that the event loop runs no callback of an
  object that is not in its array. While a list is being worked off, the armed timers are
  those of the objects that are held already and of the one in the making; a failure
  anywhere ends the process before the loop starts; that is what `ArmedInv` follows through
  the two nested loops. It does not depend on what the steps of a class are.
- `BlockInvariant` gives `LoopsOnLiveObjects` (`ThreadsOnLive`) and `DestroysAll`
  (`DestroyComplete`), `TypeInv` within it `TypeCorrect`. Here the tables matter:
  `ObjectClasses_proofs` goes through the programs and shows for each class that its
  steps allocate nothing but the blocks of the class, and that when all of them have been
  taken, whatever lists are empty, everything that the `*_free` of the class gives back has been
  allocated (`DirectProgram`, `AliProgram`, `GatewayProgram`, `SubProgram`). The invariant
  says how far the object in the making has come (`MakingInv`), that a gateway in work keeps
  what is made for it (`GatewayInv`), that the devices before it are complete and stay so until
  `zhbox_destory` comes to them (`CompleteInv`, `FreedInv`), and that every block has an
  owner that will free it or is one of those known to be left over (`LiveInv`).
- `MembersDefined` (`FieldsDefined`) has one hypothesis, `TablesInOrder`: in the program of each
  class no step reads a member before a step has written it, and the members that the
  callbacks read, those of libmosquitto included, are written at its end, for every choice of lists that are empty. It is a closed
  formula about the tables, with no constant in it; it compares names of
  variables letter by letter, which the provers cannot, and TLC evaluates it (an ASSUME of
  `MCStrExpan`). The theorem is what leads from there to any number of devices: `FieldInv`
  says that objects are made one at a time, that a step writes to the one in work alone, and
  that what is complete keeps its members.

`Tasks_proofs`, from `TasksAssumption` and `Margin`, for any list of tasks, any steps of the
clock and any width of the int: `NeverLate` (`Timely`), `NeverEarly` (`Spaced`), and without
`Margin` `TypeCorrect`. `Elapsed` is the difference that `tasksrun` computes. The clock wraps,
and the difference may not: `FollowsInv` says that it is the time since the last attempt
up to the steps of the clock, `BoundedInv` why it stays below `Half` (every pass looks at every
task), `PassInv` what has been established of the tasks that a pass has already looked at.
`Margin` asks that an interval, an absence and the steps add up to less than `Half` seconds,
68 years in the code; that the clock does not start just before its wrap, because `lasttime`
starts in 1970; and for an interval of at least 1. The last is needed: with an interval of 0
`Timely` is false by a second, as TLC shows for a task that is not the last of the list.

`StrExpan_proofs`, from `StrExpanAssumption` and `Roomy`, for any variables, keys and templates:
`TypeCorrect`, `NothingStaleIsRead` (`NothingStale`), `LengthIsTheLast` (`WritesWithinLength`)
and `SpacedTemplatesExpand` (`SpacedExpands`), from `StrExpanInvariant`. `Roomy` says that the
buffer holds `MaxItems` of the longest value, what is read behind the template, and the NUL; no
code checks that, and without it the code writes behind its buffer. The invariant says that what is in
front of the write position is the expansion of the items read so far (`SpacedInv`,
`BufferInv`), and that the room that is left suffices for what may still come (`RoomInv`). The meaning of
a template (`Expansion`) is a fold of the community modules. Its equation for one
more item (`FlattenNext`) and the smallest match of `m_getvar` (`GetvarMeaning`) need
induction: the lemma `Induction` states it for a set instead of an operator and derives it
from the well-foundedness of the naturals.

`AliGateway_proofs`, from `DeviceAssumption` and `GatewayAssumption` (any number of
topics and subdevices, either kind of session, any bound on faults):
`GatewayTypeCorrect`, `GatewaySubscription` and `LoginCurrency`, each from
`GatewayInvariant`. The properties speak of a gateway at rest in `RUNING`; the
invariant follows the way there: `SubscribeInv` says what the session has been
handed at each place of the `CONNECTED` and `TOPOGET` branches, `ExchangeInv` that
from the publication of the request on there is always the request, the answer, or
the loop of `alink_rcvhandle` between a subdevice and a login that is out of
date, and that a subdevice in its `LOGOUTED` branch has its request on this connection
before `LOGINED` is written. `BranchInv` bounds what the callbacks can have made of the
state meanwhile. The run checks the same properties with one fault only.

Only model-checked: everything about liveness (`EventuallyRuning`,
`EventuallyLogined`, `RestartAfterCrash`; TLAPS does not prove liveness under fairness), and
the hypothesis `TablesInOrder`. Every invariant of a passing run is a theorem.

## 5. Not modelled

- the values of settings, the texts of messages, requests and signatures: no step
  depends on them;
- logging, which is output only;
- the digests of `hmac*`, pure functions of OpenSSL (that they fail is `Sign`);
- the timeouts of the gateway and its subdevices: `AliGateway` lets their timers fire at any
  time, so its safety holds with any timeouts; only how long a login takes is left open;
- `opcua_fsm_cb` (a TODO that nothing registers) and what the stubs of the general
  gateway and the Modbus subdevice would do;
- the handlers of incoming messages other than the topology answer, which only log;
- `count` and the message ids: no step reads them, no reply is matched with them;
- the sizes of the buffers, whose bound no code looks at: `WritesWithinLength` says
  which length a bound would have to compare with;
- memory inside the libraries, and the redirections of `daemonize`.

## 6. Plan

Order: the session of a device first, since every other function of zhbox
goes through it, then what runs on it (gateway, tasks), the process around it, and
the two helpers that act on memory.

Done: the modules, runs and theorems above. Left:

1. The timeouts of a gateway: how long a login takes after a loss.
2. A gateway run on a persistent session (`CleanSession = FALSE`), where the broker
   keeps the topology answer and the subscriptions.
3. The refinement of an abstract schedule by `Tasks`: one attempt per interval.
