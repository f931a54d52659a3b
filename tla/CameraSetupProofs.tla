-------------------------- MODULE CameraSetupProofs --------------------------
(***************************************************************************)
(* The configuration of the camera, for any number of timers and any       *)
(* periods: FiresOnTime of the tasks that start timers, and from it what   *)
(* goes over the wire and when the camera is ready.                        *)
(***************************************************************************)
EXTENDS CameraSetup, SequenceTheorems, TLAPS

Timer == [period: Nat, cnt: Nat, flags: Flags,
          callback: {"NULL", "send_next_message", "close_door"}]

TimersType ==
  /\ timers \in [TimerId -> Timer] /\ flags \in Flags
  /\ timers_cant \in 1..TIMERS_MAX_CANT
  /\ since \in [TimerId -> Nat] /\ fired \in [TimerId -> Nat]

\* A timer in its life after timerStart, or before.
Counts(x) ==
  /\ timers[x].period = 0 => fired[x] = 0 /\ ~timers[x].flags.running
  /\ fired[x] \in {0, timers[x].period}
  /\ timers[x].flags.running => timers[x].cnt = since[x] /\ since[x] < timers[x].period

\* A timer has no period but the one its owner gives it.
Owned(x) ==
  \/ timers[x].period = 0
  \/ x = id.I2C_FIFO_timer /\ timers[x].period = MessagePeriod
  \/ x = id.led_timer /\ timers[x].period = DOOR_PERIOD

\* Half-way through timerStart: once the store of step 2 has stopped the timer
\* it stays stopped, in memory and in the byte that is loaded, and no tick
\* counts it.
Halfway(x, ticks, n) ==
  /\ n >= 3 => ~timers[x].flags.running
  /\ n \in {6, 8, 11} => ~flags.running
  /\ n >= 5 => timers[x].cnt = 0
  /\ n >= 10 => timers[x].period = ticks

Label == {"none", "I2C_FIFO_init", "timerStart", "I2C_End_Routine", "empty_callback",
          "OV7670_Config", "fill", "advance", "OV7670_run", "timerGetId", "loop"}

ControlType ==
  /\ pc \in [TaskStart: Label \X Nat, Task2: Label \X Nat]
  /\ id \in [I2C_FIFO_timer: Nat, led_timer: Nat]

Before == At("TaskStart", "I2C_FIFO_init", 0)

\* Task2 begins when TaskStart has done with timers, and both have their own.
TwoOwners ==
  /\ Before \/ id.I2C_FIFO_timer < timers_cant
  /\ IF pc.Task2[1] \in {"none", "timerGetId"}
     THEN id.led_timer = TIMER_INVALID_ID
     ELSE id.led_timer < timers_cant /\ id.led_timer # id.I2C_FIFO_timer
  /\ pc.Task2[1] = "none" \/ pc.TaskStart[1] = "OV7670_run"

\* A timer no one has taken yet has no period.
NotTaken(x) == x >= timers_cant \/ Before => timers[x].period = 0

Starting ==
  \A n \in 1..timerStartSteps :
    /\ At("TaskStart", "timerStart", n) => Halfway(id.I2C_FIFO_timer, MessagePeriod, n)
    /\ At("Task2", "timerStart", n) => Halfway(id.led_timer, DOOR_PERIOD, n)

TimersInv ==
  /\ TimersType /\ ControlType /\ TwoOwners /\ Starting
  /\ \A x \in TimerId : Counts(x) /\ Owned(x) /\ NotTaken(x)

-----------------------------------------------------------------------------
(* timerStart *)

\* One step of timerStart: it changes no other timer, keeps the timer counting
\* as it should, and brings it a step further.
LEMMA StartStep ==
  ASSUME TimersType, NEW x \in TimerId, NEW ticks \in Nat \ {0},
         NEW mode \in {"single", "periodic"},
         NEW callback \in {"send_next_message", "close_door"},
         NEW n \in 1..timerStartSteps, timerStart(x, ticks, mode, callback, n),
         Counts(x), timers[x].period \in {0, ticks}, Halfway(x, ticks, n)
  PROVE  /\ TimersType' /\ UNCHANGED <<timers_cant, fired>>
         /\ \A y \in TimerId \ {x} : timers'[y] = timers[y] /\ since'[y] = since[y]
         /\ Counts(x)' /\ timers'[x].period \in {0, ticks}
         /\ n < timerStartSteps => Halfway(x, ticks, n + 1)'
<1>1. /\ timers[x] \in Timer /\ timers[x].flags \in Flags /\ timers \in [TimerId -> Timer]
      /\ flags \in Flags /\ since \in [TimerId -> Nat] /\ fired \in [TimerId -> Nat]
      /\ UNCHANGED <<timers_cant, fired>> /\ timers_cant \in 1..TIMERS_MAX_CANT
  BY DEF TimersType, Timer, timerStart
<1>2. ASSUME NEW t \in Timer, timers' = [timers EXCEPT ![x] = t], UNCHANGED <<flags, since>>
      PROVE  /\ TimersType' /\ timers'[x] = t
             /\ \A y \in TimerId \ {x} : timers'[y] = timers[y] /\ since'[y] = since[y]
  BY <1>1, <1>2 DEF TimersType
\* A byte with `running' clear, stored.
<1>3. ASSUME NEW f \in Flags, ~f.running, UNCHANGED <<flags, since>>,
             timers' = [timers EXCEPT ![x]["flags"] = f]
      PROVE  /\ TimersType' /\ Counts(x)' /\ timers'[x].flags = f
             /\ timers'[x].period = timers[x].period /\ timers'[x].cnt = timers[x].cnt
             /\ \A y \in TimerId \ {x} : timers'[y] = timers[y] /\ since'[y] = since[y]
  <2> DEFINE t == [timers[x] EXCEPT !["flags"] = f]
  <2>1. t \in Timer /\ t.flags = f /\ t.period = timers[x].period /\ t.cnt = timers[x].cnt
    BY <1>1 DEF Timer
  <2>2. timers' = [timers EXCEPT ![x] = t]
    BY <1>3
  <2> HIDE DEF t
  <2>3. /\ TimersType' /\ timers'[x] = t
        /\ \A y \in TimerId \ {x} : timers'[y] = timers[y] /\ since'[y] = since[y]
    BY <1>2, <1>3, <2>1, <2>2
  <2>4. Counts(x)'
    BY <1>1, <1>3, <2>1, <2>3 DEF Counts
  <2>5. QED
    BY <2>1, <2>3, <2>4
\* Another field of a timer that does not run, stored.
<1>4. ASSUME ~timers[x].flags.running, UNCHANGED <<flags, since>>,
             NEW field \in {"callback", "cnt", "period"}, NEW value,
             field = "callback" => value = callback, field = "cnt" => value = 0,
             field = "period" => value = ticks,
             timers' = [timers EXCEPT ![x][field] = value]
      PROVE  /\ TimersType' /\ Counts(x)' /\ timers'[x].flags = timers[x].flags
             /\ timers'[x].period = IF field = "period" THEN ticks ELSE timers[x].period
             /\ timers'[x].cnt = IF field = "cnt" THEN 0 ELSE timers[x].cnt
             /\ \A y \in TimerId \ {x} : timers'[y] = timers[y] /\ since'[y] = since[y]
  <2> DEFINE t == [timers[x] EXCEPT ![field] = value]
  <2>1. /\ t \in Timer /\ t.flags = timers[x].flags
        /\ t.period = IF field = "period" THEN ticks ELSE timers[x].period
        /\ t.cnt = IF field = "cnt" THEN 0 ELSE timers[x].cnt
    BY <1>1, <1>4 DEF Timer
  <2>2. timers' = [timers EXCEPT ![x] = t]
    BY <1>4
  <2> HIDE DEF t
  <2>3. /\ TimersType' /\ timers'[x] = t
        /\ \A y \in TimerId \ {x} : timers'[y] = timers[y] /\ since'[y] = since[y]
    BY <1>2, <1>4, <2>1, <2>2
  <2>4. Counts(x)'
    BY <1>1, <1>4, <2>1, <2>3 DEF Counts
  <2>5. QED
    BY <2>1, <2>3, <2>4
<1>5. CASE n \in {1, 5, 7, 10} /\ Load(x)
  <2>1. flags' = timers[x].flags /\ UNCHANGED <<timers, since>>
    BY <1>5 DEF Load
  <2>2. TimersType' /\ Counts(x)'
    BY <1>1, <2>1 DEF TimersType, Counts
  <2>3. Halfway(x, ticks, n + 1)'
    BY <1>5, <2>1 DEF Halfway
  <2>4. QED
    BY <1>1, <2>1, <2>2, <2>3
<1>6. CASE n = 2 /\ StoreFlag(x, "running", FALSE)
  <2> DEFINE f == [flags EXCEPT !["running"] = FALSE]
  <2>1. f \in Flags /\ ~f.running
    BY <1>1 DEF Flags
  <2>2. timers' = [timers EXCEPT ![x]["flags"] = f] /\ UNCHANGED <<flags, since>>
    BY <1>6 DEF StoreFlag, Store
  <2> HIDE DEF f
  <2>3. /\ TimersType' /\ Counts(x)' /\ timers'[x].flags = f
        /\ timers'[x].period = timers[x].period /\ timers'[x].cnt = timers[x].cnt
        /\ \A y \in TimerId \ {x} : timers'[y] = timers[y] /\ since'[y] = since[y]
    BY <1>3, <2>1, <2>2
  <2>4. n + 1 = 3 /\ Halfway(x, ticks, 3)'
    BY <1>6, <2>1, <2>3 DEF Halfway
  <2>5. QED
    BY <1>1, <2>3, <2>4
<1>7. CASE \/ n = 3 /\ Store(x, "callback", callback)
           \/ n = 4 /\ Store(x, "cnt", 0)
           \/ n = 9 /\ Store(x, "period", ticks)
  <2>1. PICK field \in {"callback", "cnt", "period"}, value \in {callback, 0, ticks} :
          /\ timers' = [timers EXCEPT ![x][field] = value] /\ UNCHANGED <<flags, since>>
          /\ field = "callback" => n = 3 /\ value = callback
          /\ field = "cnt" => n = 4 /\ value = 0
          /\ field = "period" => n = 9 /\ value = ticks
    BY <1>7 DEF Store
  <2>2. ~timers[x].flags.running
    BY <1>7 DEF Halfway
  <2>3. /\ TimersType' /\ Counts(x)' /\ timers'[x].flags = timers[x].flags
        /\ timers'[x].period = IF field = "period" THEN ticks ELSE timers[x].period
        /\ timers'[x].cnt = IF field = "cnt" THEN 0 ELSE timers[x].cnt
        /\ \A y \in TimerId \ {x} : timers'[y] = timers[y] /\ since'[y] = since[y]
    BY <1>4, <2>1, <2>2
  <2>4. Halfway(x, ticks, n + 1)'
    BY <1>7, <2>1, <2>2, <2>3 DEF Halfway
  <2>5. QED
    BY <1>1, <2>3, <2>4
<1>8. CASE \/ n = 6 /\ StoreFlag(x, "expired", FALSE)
           \/ n = 8 /\ StoreFlag(x, "mode", mode)
  <2>1. PICK f \in Flags : ~f.running /\ timers' = [timers EXCEPT ![x]["flags"] = f]
    <3>1. ~flags.running
      BY <1>8 DEF Halfway
    <3>2. CASE n = 6 /\ StoreFlag(x, "expired", FALSE)
      <4>1. [flags EXCEPT !["expired"] = FALSE] \in Flags
            /\ ~[flags EXCEPT !["expired"] = FALSE].running
        BY <1>1, <3>1 DEF Flags
      <4>2. QED
        BY <3>2, <4>1 DEF StoreFlag, Store
    <3>3. CASE n = 8 /\ StoreFlag(x, "mode", mode)
      <4>1. [flags EXCEPT !["mode"] = mode] \in Flags
            /\ ~[flags EXCEPT !["mode"] = mode].running
        BY <1>1, <3>1 DEF Flags
      <4>2. QED
        BY <3>3, <4>1 DEF StoreFlag, Store
    <3>4. QED
      BY <1>8, <3>2, <3>3
  <2>2. UNCHANGED <<flags, since>>
    BY <1>8 DEF StoreFlag, Store
  <2>3. /\ TimersType' /\ Counts(x)' /\ timers'[x].flags = f
        /\ timers'[x].period = timers[x].period /\ timers'[x].cnt = timers[x].cnt
        /\ \A y \in TimerId \ {x} : timers'[y] = timers[y] /\ since'[y] = since[y]
    BY <1>3, <2>1, <2>2
  <2>4. Halfway(x, ticks, n + 1)'
    <3>1. n = 6 \/ n = 8
      BY <1>8
    <3>2. timers'[x].cnt = 0 /\ ~timers'[x].flags.running
      BY <2>1, <2>3, <3>1 DEF Halfway
    <3>3. CASE n = 6
      BY <3>2, <3>3 DEF Halfway
    <3>4. CASE n = 8
      BY <3>2, <3>4 DEF Halfway
    <3>5. QED
      BY <3>1, <3>3, <3>4
  <2>5. QED
    BY <1>1, <2>3, <2>4
<1>9. CASE n = 11 /\ Enable(x)
  <2> DEFINE f == [flags EXCEPT !.running = TRUE]
             t == [timers[x] EXCEPT !.flags = f]
  <2>1. f \in Flags
    BY <1>1 DEF Flags
  <2> HIDE DEF f
  <2>2. t \in Timer /\ t.period = timers[x].period /\ t.cnt = timers[x].cnt
    BY <1>1, <2>1 DEF Timer
  <2>3. timers' = [timers EXCEPT ![x] = t] /\ since' = [since EXCEPT ![x] = 0] /\ UNCHANGED flags
    BY <1>9 DEF Enable, f
  <2> HIDE DEF t
  <2>4. /\ TimersType' /\ timers'[x] = t /\ since'[x] = 0
        /\ \A y \in TimerId \ {x} : timers'[y] = timers[y] /\ since'[y] = since[y]
    BY <1>1, <2>2, <2>3 DEF TimersType
  <2>5. timers[x].cnt = 0 /\ timers[x].period = ticks
    BY <1>9 DEF Halfway
  <2>6. Counts(x)'
    BY <1>1, <2>2, <2>4, <2>5 DEF Counts
  <2>7. QED
    BY <1>1, <1>9, <2>2, <2>4, <2>5, <2>6 DEF timerStartSteps
<1>10. QED
  BY <1>5, <1>6, <1>7, <1>8, <1>9 DEF timerStart

-----------------------------------------------------------------------------
(* timer_isr *)

\* A timer that expires or is counted is still a timer, with its period.
LEMMA ExpiredIsTimer ==
  ASSUME NEW t \in Timer
  PROVE  /\ Expired(t) \in Timer /\ Expired(t).period = t.period /\ Expired(t).cnt = 0
         /\ Counted(t) \in Timer /\ Counted(t).period = t.period
         /\ Counted(t).cnt = t.cnt + 1 /\ Counted(t).flags = t.flags
<1>1. t.flags \in Flags
  BY DEF Timer
<1> DEFINE f == [t.flags EXCEPT !.running = FALSE]
           g == [f EXCEPT !.expired = TRUE]
           u == [t EXCEPT !.cnt = 0]
           v == [u EXCEPT !.flags.running = FALSE]
<1>2. f \in Flags /\ g \in Flags
  BY <1>1 DEF Flags
<1>3. u \in Timer /\ u.period = t.period /\ u.cnt = 0 /\ u.flags = t.flags
  BY DEF Timer
<1>4. v = [u EXCEPT !.flags = f]
  BY <1>3
<1>5. v \in Timer /\ v.period = t.period /\ v.cnt = 0 /\ v.flags = f
  <2> HIDE DEF u, v, f
  <2>1. QED
    BY <1>2, <1>3, <1>4 DEF Timer
<1>6. Expired(t) = u \/ Expired(t) = [v EXCEPT !.flags = g]
  <2>1. [t EXCEPT !.cnt = 0, !.flags.running = FALSE, !.flags.expired = TRUE]
        = [v EXCEPT !.flags.expired = TRUE]
    OBVIOUS
  <2>2. [v EXCEPT !.flags.expired = TRUE] = [v EXCEPT !.flags = g]
    BY <1>5
  <2>3. QED
    BY <2>1, <2>2 DEF Expired
<1>7. Expired(t) \in Timer /\ Expired(t).period = t.period /\ Expired(t).cnt = 0
  <2> HIDE DEF v, g
  <2>1. QED
    BY <1>2, <1>3, <1>5, <1>6 DEF Timer
<1>8. /\ Counted(t) \in Timer /\ Counted(t).period = t.period
      /\ Counted(t).cnt = t.cnt + 1 /\ Counted(t).flags = t.flags
  BY DEF Counted, Timer
<1>9. QED
  BY <1>7, <1>8

\* A tick fires a timer exactly at the end of its period and does not touch one
\* that does not run.
LEMMA IsrStep ==
  ASSUME TimersType, timer_isr, NEW x \in TimerId, Counts(x),
         x >= timers_cant => timers[x].period = 0
  PROVE  /\ Counts(x)' /\ timers'[x] \in Timer /\ timers'[x].period = timers[x].period
         /\ ~timers[x].flags.running => timers'[x] = timers[x]
<1>1. /\ timers[x] \in Timer /\ timers[x].period \in Nat /\ timers[x].cnt \in Nat
      /\ since[x] \in Nat /\ x \in Nat /\ timers_cant \in Nat
  BY TimersAssumption DEF TimersType, Timer, TimerId
<1>2. /\ timers'[x] = IF x \in Due THEN Expired(timers[x])
                      ELSE IF x \in Running THEN Counted(timers[x]) ELSE timers[x]
      /\ fired'[x] = IF x \in Due THEN since[x] + 1 ELSE fired[x]
      /\ since'[x] = IF x \in Running \ Due THEN since[x] + 1 ELSE 0
  BY DEF timer_isr
<1>3. x \in Running <=> timers[x].flags.running
  BY <1>1 DEF Running, Counts
<1>4. CASE x \in Due
  <2>1. x \in Running /\ timers[x].flags.running /\ timers[x].cnt + 1 >= timers[x].period
    BY <1>3, <1>4 DEF Due
  <2>2. since[x] + 1 = timers[x].period
    BY <1>1, <2>1 DEF Counts
  <2>3. /\ timers'[x] \in Timer /\ timers'[x].period = timers[x].period /\ timers'[x].cnt = 0
        /\ fired'[x] = timers[x].period /\ since'[x] = 0
    BY <1>1, <1>2, <1>4, <2>2, ExpiredIsTimer
  <2>4. timers[x].period > 0
    BY <1>1, <2>2
  <2>5. QED
    BY <1>1, <2>1, <2>3, <2>4 DEF Counts
<1>5. CASE x \in Running \ Due
  <2>1. timers[x].flags.running /\ timers[x].cnt + 1 < timers[x].period
    BY <1>1, <1>3, <1>5 DEF Due
  <2>2. /\ timers'[x] \in Timer /\ timers'[x].period = timers[x].period
        /\ timers'[x].cnt = timers[x].cnt + 1 /\ fired'[x] = fired[x] /\ since'[x] = since[x] + 1
    BY <1>1, <1>2, <1>5, ExpiredIsTimer
  <2>3. QED
    BY <1>1, <2>1, <2>2 DEF Counts
<1>6. CASE x \notin Running
  <2>1. x \notin Due /\ ~timers[x].flags.running
    BY <1>3, <1>6 DEF Due
  <2>2. timers'[x] = timers[x] /\ fired'[x] = fired[x]
    BY <1>2, <1>6, <2>1
  <2>3. QED
    BY <1>1, <2>1, <2>2 DEF Counts
<1>7. QED
  BY <1>4, <1>5, <1>6

\* timer_isr keeps the types if it keeps the timers.
LEMMA IsrType ==
  ASSUME TimersType, timer_isr, \A x \in TimerId : timers'[x] \in Timer
  PROVE  TimersType' /\ UNCHANGED <<timers_cant, flags>>
BY DEF TimersType, timer_isr

-----------------------------------------------------------------------------
(* timerGetId *)

\* timerGetId takes the next timer and changes no period.
LEMMA TakeIdStep ==
  ASSUME TimersType, TakeId, \A x \in TimerId : Counts(x),
         \A x \in TimerId : x >= timers_cant => timers[x].period = 0
  PROVE  /\ TimersType' /\ timers_cant' = timers_cant + 1 /\ timers_cant \in TimerId
         /\ timerGetId = timers_cant
         /\ \A x \in TimerId : Counts(x)' /\ timers'[x].period = timers[x].period
<1>1. /\ timers_cant \in Nat /\ timers_cant \in TimerId /\ timers_cant' = timers_cant + 1
      /\ timers_cant' \in 1..TIMERS_MAX_CANT /\ timerGetId = timers_cant
      /\ timers[timers_cant] \in Timer /\ timers[timers_cant].flags \in Flags
      /\ UNCHANGED <<flags, since, fired>>
  BY TimersAssumption DEF TimersType, TakeId, TimerId, timerGetId, Timer
<1> DEFINE f == [timers[timers_cant].flags EXCEPT !.running = FALSE]
           t == [timers[timers_cant] EXCEPT !.flags = f]
<1>2. f \in Flags /\ ~f.running
  BY <1>1 DEF Flags
<1> HIDE DEF f
<1>3. t \in Timer /\ t.period = timers[timers_cant].period /\ t.flags = f
  BY <1>1, <1>2 DEF Timer
<1>4. timers' = [timers EXCEPT ![timers_cant] = t]
  BY DEF TakeId, f
<1> HIDE DEF t
<1>5. TimersType' /\ timers'[timers_cant] = t
  BY <1>1, <1>3, <1>4 DEF TimersType
<1>6. ASSUME NEW x \in TimerId PROVE Counts(x)' /\ timers'[x].period = timers[x].period
  <2>1. CASE x = timers_cant
    BY <1>1, <1>2, <1>3, <1>5, <2>1 DEF Counts
  <2>2. CASE x # timers_cant
    <3>1. timers'[x] = timers[x]
      BY <1>4, <2>2 DEF TimersType
    <3>2. QED
      BY <1>1, <3>1 DEF Counts
  <2>3. QED
    BY <2>1, <2>2
<1>7. QED
  BY <1>1, <1>5, <1>6

-----------------------------------------------------------------------------
(* The tasks *)

\* What a step does to the control of the tasks.
LEMMA GotoMoves ==
  ASSUME ControlType, NEW label \in Label, NEW n \in Nat
  PROVE  /\ Goto("TaskStart", label, n) =>
              /\ pc' \in [TaskStart: Label \X Nat, Task2: Label \X Nat]
              /\ pc'.TaskStart = <<label, n>> /\ pc'.Task2 = pc.Task2
         /\ Goto("Task2", label, n) =>
              /\ pc' \in [TaskStart: Label \X Nat, Task2: Label \X Nat]
              /\ pc'.Task2 = <<label, n>> /\ pc'.TaskStart = pc.TaskStart
BY DEF ControlType, Goto

\* A step that leaves the timers alone and goes from one label to another where
\* no timer is being started.
LEMMA NoTimerStep ==
  ASSUME TimersInv, UNCHANGED <<timerVars, id>>, ControlType', TwoOwners',
         ~Before', \A n \in 1..timerStartSteps :
                     /\ ~At("TaskStart", "timerStart", n)'
                     /\ ~At("Task2", "timerStart", n)' \/ n = 1
  PROVE  TimersInv'
<1>1. TimersType' /\ \A x \in TimerId : Counts(x)' /\ Owned(x)' /\ NotTaken(x)'
  BY DEF TimersInv, timerVars, TimersType, Counts, Owned, NotTaken
<1>2. Starting'
  BY DEF Starting, Halfway
<1>3. QED
  BY <1>1, <1>2 DEF TimersInv

\* No timer is started with a period of zero.
LEMMA PeriodsPositive == MessagePeriod \in Nat \ {0} /\ DOOR_PERIOD \in Nat \ {0}
BY SetupAssumption DEF MessagePeriod

\* An id that has been taken is of a timer.
LEMMA TakenIsTimer ==
  ASSUME TimersType, NEW x \in Nat, x < timers_cant PROVE x \in TimerId
BY TimersAssumption DEF TimersType, TimerId

\* I2C_FIFO_init takes a timer that nobody has started.
LEMMA FifoInitKeeps == TimersInv /\ I2C_FIFO_init => TimersInv'
<1> SUFFICES ASSUME TimersInv, I2C_FIFO_init PROVE TimersInv'
  OBVIOUS
<1>1. /\ TimersType /\ ControlType /\ Before /\ TakeId
      /\ id' = [id EXCEPT !.I2C_FIFO_timer = timerGetId]
      /\ Goto("TaskStart", "timerStart", 1)
      /\ \A x \in TimerId : Counts(x) /\ timers[x].period = 0
  BY DEF TimersInv, I2C_FIFO_init, Before, NotTaken
<1>2. pc.TaskStart = <<"I2C_FIFO_init", 0>> /\ pc.Task2[1] = "none"
  BY <1>1 DEF Before, At, TimersInv, TwoOwners
<1>3. id.led_timer = TIMER_INVALID_ID
  BY <1>2 DEF TimersInv, TwoOwners
<1>4. /\ TimersType' /\ timers_cant' = timers_cant + 1 /\ timers_cant \in TimerId
      /\ timerGetId = timers_cant
      /\ \A x \in TimerId : Counts(x)' /\ timers'[x].period = 0
  BY <1>1, TakeIdStep
<1>5. /\ pc' \in [TaskStart: Label \X Nat, Task2: Label \X Nat]
      /\ pc'.TaskStart = <<"timerStart", 1>> /\ pc'.Task2 = pc.Task2
  BY <1>1, GotoMoves DEF Label
<1>6. /\ id' \in [I2C_FIFO_timer: Nat, led_timer: Nat]
      /\ id'.I2C_FIFO_timer = timers_cant /\ id'.led_timer = TIMER_INVALID_ID
      /\ timers_cant \in Nat
  BY <1>1, <1>3, <1>4 DEF ControlType, TimersType
<1>7. ControlType' /\ TwoOwners'
  BY <1>2, <1>4, <1>5, <1>6 DEF ControlType, TwoOwners
<1>8. Starting'
  <2> SUFFICES ASSUME NEW n \in 1..timerStartSteps
               PROVE  /\ At("TaskStart", "timerStart", n)'
                         => Halfway(id.I2C_FIFO_timer, MessagePeriod, n)'
                      /\ ~At("Task2", "timerStart", n)'
    BY DEF Starting
  <2>1. At("TaskStart", "timerStart", n)' => n = 1
    BY <1>5 DEF At
  <2>2. pc'.Task2[1] = "none"
    BY <1>2, <1>5
  <2>3. QED
    BY <2>1, <2>2 DEF Halfway, At
<1>9. \A x \in TimerId : Counts(x)' /\ Owned(x)' /\ NotTaken(x)'
  BY <1>4 DEF Owned, NotTaken
<1>10. QED
  BY <1>4, <1>7, <1>8, <1>9 DEF TimersInv

\* A step of timerStart keeps what is said of the other timers.
LEMMA OthersKept ==
  ASSUME TimersInv, NEW x \in TimerId, UNCHANGED <<timers_cant, fired, id>>, ~Before',
         \A y \in TimerId \ {x} : timers'[y] = timers[y] /\ since'[y] = since[y]
  PROVE  \A y \in TimerId \ {x} : Counts(y)' /\ Owned(y)' /\ NotTaken(y)'
BY DEF TimersInv, Counts, Owned, NotTaken

\* TaskStart starts the timer of the queue, one store at a time.
LEMMA StartFifoKeeps == TimersInv /\ StartFifoTimer => TimersInv'
<1> SUFFICES ASSUME TimersInv, StartFifoTimer PROVE TimersInv'
  OBVIOUS
<1>1. PICK n \in 1..timerStartSteps :
        /\ At("TaskStart", "timerStart", n)
        /\ timerStart(id.I2C_FIFO_timer, MessagePeriod, "periodic", "send_next_message", n)
        /\ IF n < timerStartSteps THEN Goto("TaskStart", "timerStart", n + 1)
                                  ELSE Goto("TaskStart", "I2C_End_Routine", 0)
        /\ UNCHANGED id
  BY DEF StartFifoTimer
<1>2. TimersType /\ ControlType /\ TwoOwners /\ Starting
  BY DEF TimersInv
<1>3. /\ pc.TaskStart = <<"timerStart", n>> /\ pc.Task2[1] = "none" /\ ~Before
      /\ id.led_timer = TIMER_INVALID_ID
  BY <1>1, <1>2 DEF At, Before, TwoOwners
<1>4. PICK x \in TimerId : x = id.I2C_FIFO_timer /\ x < timers_cant /\ x # id.led_timer
  BY <1>2, <1>3, TakenIsTimer, TimersAssumption DEF ControlType, TwoOwners, TimerId
<1>5. Counts(x) /\ timers[x].period \in {0, MessagePeriod}
  BY <1>4 DEF TimersInv, Owned
<1>6. Halfway(x, MessagePeriod, n)
  BY <1>1, <1>2, <1>4 DEF Starting
<1>7. /\ TimersType' /\ UNCHANGED <<timers_cant, fired>>
      /\ \A y \in TimerId \ {x} : timers'[y] = timers[y] /\ since'[y] = since[y]
      /\ Counts(x)' /\ timers'[x].period \in {0, MessagePeriod}
      /\ n < timerStartSteps => Halfway(x, MessagePeriod, n + 1)'
  BY <1>1, <1>2, <1>4, <1>5, <1>6, PeriodsPositive, StartStep
<1>8. /\ pc' \in [TaskStart: Label \X Nat, Task2: Label \X Nat] /\ pc'.Task2 = pc.Task2
      /\ \/ n < timerStartSteps /\ pc'.TaskStart = <<"timerStart", n + 1>>
         \/ pc'.TaskStart = <<"I2C_End_Routine", 0>>
  <2>1. n \in Nat /\ n + 1 \in Nat /\ "timerStart" \in Label /\ "I2C_End_Routine" \in Label
    BY DEF timerStartSteps, Label
  <2>2. CASE n < timerStartSteps
    BY <1>1, <1>2, <2>1, <2>2, GotoMoves
  <2>3. CASE ~(n < timerStartSteps)
    BY <1>1, <1>2, <2>1, <2>3, GotoMoves
  <2>4. QED
    BY <2>2, <2>3
<1>9. ~Before' /\ ControlType' /\ TwoOwners'
  <2>1. pc'.TaskStart[1] # "I2C_FIFO_init" /\ pc'.Task2[1] = "none"
    BY <1>3, <1>8
  <2>2. ~Before'
    BY <2>1 DEF Before, At
  <2>3. ControlType' /\ TwoOwners'
    BY <1>1, <1>2, <1>3, <1>7, <1>8, <2>1, <2>2 DEF ControlType, TwoOwners
  <2>4. QED
    BY <2>2, <2>3
<1>10. Starting'
  <2> SUFFICES ASSUME NEW k \in 1..timerStartSteps
               PROVE  /\ At("TaskStart", "timerStart", k)'
                         => Halfway(id.I2C_FIFO_timer, MessagePeriod, k)'
                      /\ ~At("Task2", "timerStart", k)'
    BY DEF Starting
  <2>1. At("TaskStart", "timerStart", k)' => k = n + 1 /\ n < timerStartSteps
    BY <1>8 DEF At
  <2>2. ~At("Task2", "timerStart", k)'
    BY <1>3, <1>8 DEF At
  <2>3. QED
    BY <1>1, <1>4, <1>7, <2>1, <2>2
<1>11. \A y \in TimerId : Counts(y)' /\ Owned(y)' /\ NotTaken(y)'
  <2>1. Owned(x)' /\ NotTaken(x)'
    BY <1>1, <1>2, <1>4, <1>7, <1>9 DEF Owned, NotTaken, TimersType, TimerId
  <2>2. \A y \in TimerId \ {x} : Counts(y)' /\ Owned(y)' /\ NotTaken(y)'
    BY <1>1, <1>4, <1>7, <1>9, OthersKept
  <2>3. QED
    BY <1>7, <2>1, <2>2
<1>12. QED
  BY <1>7, <1>9, <1>10, <1>11 DEF TimersInv

\* Task2 starts the door timer, or starts it again while it runs.
LEMMA StartDoorKeeps == TimersInv /\ StartDoorTimer => TimersInv'
<1> SUFFICES ASSUME TimersInv, StartDoorTimer PROVE TimersInv'
  OBVIOUS
<1>1. PICK n \in 1..timerStartSteps :
        /\ At("Task2", "timerStart", n)
        /\ timerStart(id.led_timer, DOOR_PERIOD, "single", "close_door", n)
        /\ IF n < timerStartSteps THEN Goto("Task2", "timerStart", n + 1)
                                  ELSE Goto("Task2", "loop", 0)
        /\ UNCHANGED id
  BY DEF StartDoorTimer
<1>2. TimersType /\ ControlType /\ TwoOwners /\ Starting
  BY DEF TimersInv
<1>3. pc.Task2 = <<"timerStart", n>> /\ pc.TaskStart[1] = "OV7670_run" /\ ~Before
  BY <1>1, <1>2 DEF At, Before, TwoOwners
<1>4. PICK x \in TimerId : x = id.led_timer /\ x < timers_cant /\ x # id.I2C_FIFO_timer
  BY <1>2, <1>3, TakenIsTimer DEF ControlType, TwoOwners
<1>5. Counts(x) /\ timers[x].period \in {0, DOOR_PERIOD}
  BY <1>4 DEF TimersInv, Owned
<1>6. Halfway(x, DOOR_PERIOD, n)
  BY <1>1, <1>2, <1>4 DEF Starting
<1>7. /\ TimersType' /\ UNCHANGED <<timers_cant, fired>>
      /\ \A y \in TimerId \ {x} : timers'[y] = timers[y] /\ since'[y] = since[y]
      /\ Counts(x)' /\ timers'[x].period \in {0, DOOR_PERIOD}
      /\ n < timerStartSteps => Halfway(x, DOOR_PERIOD, n + 1)'
  BY <1>1, <1>2, <1>4, <1>5, <1>6, PeriodsPositive, StartStep
<1>8. /\ pc' \in [TaskStart: Label \X Nat, Task2: Label \X Nat] /\ pc'.TaskStart = pc.TaskStart
      /\ \/ n < timerStartSteps /\ pc'.Task2 = <<"timerStart", n + 1>>
         \/ pc'.Task2 = <<"loop", 0>>
  <2>1. n \in Nat /\ n + 1 \in Nat /\ "timerStart" \in Label /\ "loop" \in Label
    BY DEF timerStartSteps, Label
  <2>2. CASE n < timerStartSteps
    BY <1>1, <1>2, <2>1, <2>2, GotoMoves
  <2>3. CASE ~(n < timerStartSteps)
    BY <1>1, <1>2, <2>1, <2>3, GotoMoves
  <2>4. QED
    BY <2>2, <2>3
<1>9. ~Before' /\ ControlType' /\ TwoOwners'
  <2>1. pc'.TaskStart[1] = "OV7670_run" /\ pc'.Task2[1] \in {"timerStart", "loop"}
    BY <1>3, <1>8
  <2>2. ~Before'
    BY <2>1 DEF Before, At
  <2>3. ControlType' /\ TwoOwners'
    BY <1>1, <1>2, <1>3, <1>4, <1>7, <1>8, <2>1, <2>2 DEF ControlType, TwoOwners
  <2>4. QED
    BY <2>2, <2>3
<1>10. Starting'
  <2> SUFFICES ASSUME NEW k \in 1..timerStartSteps
               PROVE  /\ ~At("TaskStart", "timerStart", k)'
                      /\ At("Task2", "timerStart", k)'
                         => Halfway(id.led_timer, DOOR_PERIOD, k)'
    BY DEF Starting
  <2>1. At("Task2", "timerStart", k)' => k = n + 1 /\ n < timerStartSteps
    BY <1>8 DEF At
  <2>2. ~At("TaskStart", "timerStart", k)'
    BY <1>3, <1>8 DEF At
  <2>3. QED
    BY <1>1, <1>4, <1>7, <2>1, <2>2
<1>11. \A y \in TimerId : Counts(y)' /\ Owned(y)' /\ NotTaken(y)'
  <2>1. Owned(x)' /\ NotTaken(x)'
    BY <1>1, <1>2, <1>4, <1>7, <1>9 DEF Owned, NotTaken, TimersType, TimerId
  <2>2. \A y \in TimerId \ {x} : Counts(y)' /\ Owned(y)' /\ NotTaken(y)'
    BY <1>1, <1>4, <1>7, <1>9, OthersKept
  <2>3. QED
    BY <1>7, <2>1, <2>2
<1>12. QED
  BY <1>7, <1>9, <1>10, <1>11 DEF TimersInv

\* Task2 takes a timer of its own.
LEMMA GetLedKeeps == TimersInv /\ GetLedTimer => TimersInv'
<1> SUFFICES ASSUME TimersInv, GetLedTimer PROVE TimersInv'
  OBVIOUS
<1>1. /\ TimersType /\ ControlType /\ TwoOwners /\ TakeId
      /\ id' = [id EXCEPT !.led_timer = timerGetId] /\ Goto("Task2", "loop", 0)
      /\ \A x \in TimerId : Counts(x) /\ Owned(x) /\ NotTaken(x)
      /\ \A x \in TimerId : x >= timers_cant => timers[x].period = 0
  BY DEF TimersInv, GetLedTimer, NotTaken
<1>2. pc.Task2 = <<"timerGetId", 0>>
  BY DEF GetLedTimer, At
<1>3. id.led_timer = TIMER_INVALID_ID /\ id.led_timer \notin TimerId
      /\ pc.TaskStart[1] = "OV7670_run" /\ ~Before
      /\ id.I2C_FIFO_timer < timers_cant
  BY <1>1, <1>2, TimersAssumption DEF TwoOwners, Before, At, TimerId
<1>4. /\ TimersType' /\ timers_cant' = timers_cant + 1 /\ timers_cant \in TimerId
      /\ timerGetId = timers_cant
      /\ \A x \in TimerId : Counts(x)' /\ timers'[x].period = timers[x].period
  BY <1>1, TakeIdStep
<1>5. /\ pc' \in [TaskStart: Label \X Nat, Task2: Label \X Nat]
      /\ pc'.Task2 = <<"loop", 0>> /\ pc'.TaskStart = pc.TaskStart
  BY <1>1, GotoMoves DEF Label
<1>6. /\ id' \in [I2C_FIFO_timer: Nat, led_timer: Nat] /\ timers_cant \in Nat
      /\ id'.led_timer = timers_cant /\ id'.I2C_FIFO_timer = id.I2C_FIFO_timer
      /\ id.I2C_FIFO_timer \in Nat
  BY <1>1, <1>4 DEF ControlType, TimersType
<1>7. ~Before' /\ ControlType' /\ TwoOwners'
  <2>1. ~Before'
    BY <1>3, <1>5 DEF Before, At
  <2>2. QED
    BY <1>3, <1>4, <1>5, <1>6, <2>1 DEF ControlType, TwoOwners
<1>8. Starting'
  BY <1>3, <1>5 DEF Starting, At
<1>9. ASSUME NEW x \in TimerId PROVE Counts(x)' /\ Owned(x)' /\ NotTaken(x)'
  <2>1. Owned(x)'
    <3>1. CASE timers[x].period = 0
      BY <1>4, <3>1 DEF Owned
    <3>2. CASE timers[x].period # 0
      BY <1>1, <1>3, <1>4, <1>6, <3>2 DEF Owned
    <3>3. QED
      BY <3>1, <3>2
  <2>2. NotTaken(x)'
    BY <1>1, <1>4, <1>6, <1>7 DEF NotTaken, TimerId
  <2>3. QED
    BY <1>4, <2>1, <2>2
<1>10. QED
  BY <1>4, <1>7, <1>8, <1>9 DEF TimersInv

\* In the middle of timerStart a tick leaves the timer as it is: from the third
\* step on it does not run.
LEMMA TickKeeps == TimersInv /\ Tick => TimersInv'
<1> SUFFICES ASSUME TimersInv, Tick PROVE TimersInv'
  OBVIOUS
<1>1. TimersType /\ timer_isr /\ UNCHANGED <<id, pc>>
  BY DEF TimersInv, Tick
<1>2. ASSUME NEW x \in TimerId
      PROVE  /\ Counts(x)' /\ timers'[x] \in Timer /\ timers'[x].period = timers[x].period
             /\ ~timers[x].flags.running => timers'[x] = timers[x]
  <2>1. Counts(x) /\ (x >= timers_cant => timers[x].period = 0)
    BY DEF TimersInv, NotTaken
  <2>2. QED
    BY <1>1, <2>1, IsrStep
<1>3. TimersType' /\ UNCHANGED <<timers_cant, flags>>
  BY <1>1, <1>2, IsrType
<1>4. ControlType' /\ TwoOwners'
  BY <1>1, <1>3 DEF TimersInv, ControlType, TwoOwners, Before, At
<1>5. \A x \in TimerId : Counts(x)' /\ Owned(x)' /\ NotTaken(x)'
  BY <1>1, <1>2, <1>3 DEF TimersInv, Owned, NotTaken, Before, At
<1>6. ASSUME NEW x \in TimerId, NEW ticks, NEW n \in 1..timerStartSteps, Halfway(x, ticks, n)
      PROVE  Halfway(x, ticks, n)'
  <2>1. CASE n >= 3
    BY <1>2, <1>3, <1>6, <2>1 DEF Halfway
  <2>2. CASE ~(n >= 3)
    BY <2>2 DEF Halfway, timerStartSteps
  <2>3. QED
    BY <2>1, <2>2
<1>7. Starting'
  <2> SUFFICES ASSUME NEW n \in 1..timerStartSteps
               PROVE  /\ At("TaskStart", "timerStart", n)
                         => Halfway(id.I2C_FIFO_timer, MessagePeriod, n)'
                      /\ At("Task2", "timerStart", n)
                         => Halfway(id.led_timer, DOOR_PERIOD, n)'
    BY <1>1 DEF Starting, At
  <2>1. CASE At("TaskStart", "timerStart", n)
    <3>1. pc.TaskStart = <<"timerStart", n>> /\ pc.Task2[1] = "none"
      BY <2>1 DEF At, TimersInv, TwoOwners
    <3>2. ~Before /\ ~At("Task2", "timerStart", n)
      BY <3>1 DEF Before, At
    <3>3. PICK x \in TimerId : x = id.I2C_FIFO_timer
      BY <1>1, <3>2, TakenIsTimer DEF TimersInv, ControlType, TwoOwners
    <3>4. Halfway(x, MessagePeriod, n)
      BY <2>1, <3>3 DEF TimersInv, Starting
    <3>5. Halfway(x, MessagePeriod, n)'
      BY <1>6, <3>4
    <3>6. QED
      BY <1>1, <3>2, <3>3, <3>5
  <2>2. CASE At("Task2", "timerStart", n)
    <3>1. pc.Task2 = <<"timerStart", n>> /\ pc.TaskStart[1] = "OV7670_run"
      BY <2>2 DEF At, TimersInv, TwoOwners
    <3>2. ~At("TaskStart", "timerStart", n)
      BY <3>1 DEF At
    <3>3. PICK x \in TimerId : x = id.led_timer
      BY <1>1, <3>1, TakenIsTimer DEF TimersInv, ControlType, TwoOwners
    <3>4. Halfway(x, DOOR_PERIOD, n)
      BY <2>2, <3>3 DEF TimersInv, Starting
    <3>5. Halfway(x, DOOR_PERIOD, n)'
      BY <1>6, <3>4
    <3>6. QED
      BY <1>1, <3>2, <3>3, <3>5
  <2>3. QED
    BY <2>1, <2>2
<1>8. QED
  BY <1>3, <1>4, <1>5, <1>7 DEF TimersInv

\* The other steps of TaskStart.
LEMMA QueueingKeeps ==
  ASSUME TimersInv,
         \/ I2C_End_Routine \/ I2C_FIFO_empty_callback \/ CreateTask2
         \/ \E m \in DOMAIN OV7670_init : OV7670_Config(m) \/ FillCell(m) \/ AdvanceTail(m)
  PROVE  TimersInv'
<1>1. ControlType /\ TwoOwners
  BY DEF TimersInv
<1>2. ASSUME NEW from \in Label \ {"I2C_FIFO_init", "OV7670_run"}, NEW n \in Nat,
             At("TaskStart", from, n),
             NEW to \in Label \ {"I2C_FIFO_init", "timerStart"}, NEW k \in Nat,
             Goto("TaskStart", to, k), UNCHANGED <<timerVars, id>>
      PROVE  TimersInv'
  <2>1. pc.TaskStart = <<from, n>> /\ pc.Task2[1] = "none" /\ ~Before
    BY <1>1, <1>2 DEF At, TwoOwners, Before
  <2>2. /\ pc' \in [TaskStart: Label \X Nat, Task2: Label \X Nat]
        /\ pc'.TaskStart = <<to, k>> /\ pc'.Task2 = pc.Task2
    BY <1>1, <1>2, GotoMoves
  <2>3. ~Before' /\ ControlType' /\ TwoOwners'
    <3>1. ~Before'
      BY <2>2 DEF Before, At
    <3>2. QED
      BY <1>1, <1>2, <2>1, <2>2, <3>1 DEF ControlType, TwoOwners, timerVars
  <2>4. \A j \in 1..timerStartSteps :
          ~At("TaskStart", "timerStart", j)' /\ ~At("Task2", "timerStart", j)'
    BY <2>1, <2>2 DEF At
  <2>5. QED
    BY <1>2, <2>3, <2>4, NoTimerStep
<1>3. CASE I2C_End_Routine
  BY <1>2, <1>3 DEF I2C_End_Routine, Label
<1>4. CASE I2C_FIFO_empty_callback
  BY <1>2, <1>4 DEF I2C_FIFO_empty_callback, Label
<1>5. ASSUME NEW m \in DOMAIN OV7670_init, OV7670_Config(m) \/ FillCell(m) \/ AdvanceTail(m)
      PROVE  TimersInv'
  <2>1. m \in Nat /\ m + 1 \in Nat
    BY DEF OV7670_init
  <2>2. CASE OV7670_Config(m)
    BY <1>2, <2>1, <2>2 DEF OV7670_Config, Label
  <2>3. CASE FillCell(m)
    BY <1>2, <2>1, <2>3 DEF FillCell, Label
  <2>4. CASE AdvanceTail(m)
    BY <1>2, <2>1, <2>4 DEF AdvanceTail, Label
  <2>5. QED
    BY <1>5, <2>2, <2>3, <2>4
<1>6. CASE CreateTask2
  <2>1. /\ pc' = [TaskStart |-> <<"OV7670_run", 0>>, Task2 |-> <<"timerGetId", 0>>]
        /\ UNCHANGED <<timerVars, id>> /\ pc.TaskStart[1] = "OV7670_Config"
    BY <1>6 DEF CreateTask2, At
  <2>2. pc.Task2[1] = "none" /\ ~Before /\ ~Before'
    BY <1>1, <2>1 DEF TwoOwners, Before, At
  <2>3. ControlType'
    BY <1>1, <2>1 DEF ControlType, Label
  <2>4. TwoOwners'
    BY <1>1, <2>1, <2>2 DEF TwoOwners, timerVars
  <2>5. \A j \in 1..timerStartSteps :
          ~At("TaskStart", "timerStart", j)' /\ ~At("Task2", "timerStart", j)'
    BY <2>1 DEF At
  <2>6. QED
    BY <2>1, <2>2, <2>3, <2>4, <2>5, NoTimerStep
<1>7. QED
  BY <1>3, <1>4, <1>5, <1>6

\* Opening the door leaves the timers alone.
LEMMA OpenDoorKeeps == TimersInv /\ OpenDoor => TimersInv'
<1> SUFFICES ASSUME TimersInv, OpenDoor PROVE TimersInv'
  OBVIOUS
<1>1. /\ ControlType /\ TwoOwners /\ pc.Task2 = <<"loop", 0>>
      /\ Goto("Task2", "timerStart", 1) /\ UNCHANGED <<timerVars, id>>
  BY DEF TimersInv, OpenDoor, At
<1>2. pc.TaskStart[1] = "OV7670_run" /\ ~Before
  BY <1>1 DEF TwoOwners, Before, At
<1>3. /\ pc' \in [TaskStart: Label \X Nat, Task2: Label \X Nat]
      /\ pc'.Task2 = <<"timerStart", 1>> /\ pc'.TaskStart = pc.TaskStart
  BY <1>1, GotoMoves DEF Label
<1>4. ~Before'
  BY <1>2, <1>3 DEF Before, At
<1>5. ControlType' /\ TwoOwners'
  BY <1>1, <1>2, <1>3, <1>4 DEF ControlType, TwoOwners, timerVars
<1>6. \A n \in 1..timerStartSteps :
        ~At("TaskStart", "timerStart", n)' /\ (~At("Task2", "timerStart", n)' \/ n = 1)
  BY <1>2, <1>3 DEF At
<1>7. QED
  BY <1>1, <1>4, <1>5, <1>6, NoTimerStep

-----------------------------------------------------------------------------
(* The theorems *)

\* The strengthening of FiresOnTime that every step keeps.
THEOREM TimersInvariant == Spec => []TimersInv
<1>1. Init => TimersInv
  <2> SUFFICES ASSUME Init PROVE TimersInv
    OBVIOUS
  <2>1. NoFlags \in Flags /\ ~NoFlags.running
    BY DEF NoFlags, Flags
  <2>2. TimersType
    BY <2>1, TimersAssumption DEF Init, TimersInit, TimersType, Timer
  <2>3. /\ pc = [TaskStart |-> <<"I2C_FIFO_init", 0>>, Task2 |-> <<"none", 0>>]
        /\ id = [I2C_FIFO_timer |-> TIMER_INVALID_ID, led_timer |-> TIMER_INVALID_ID]
    BY DEF Init
  <2>4. ControlType /\ Before
    BY <2>3, TimersAssumption DEF ControlType, Label, Before, At
  <2>5. TwoOwners
    BY <2>3, <2>4 DEF TwoOwners
  <2>6. Starting
    BY <2>3 DEF Starting, At
  <2>7. ASSUME NEW x \in TimerId PROVE Counts(x) /\ Owned(x) /\ NotTaken(x)
    <3>1. /\ timers[x].period = 0 /\ fired[x] = 0 /\ timers[x].flags = NoFlags
      BY DEF Init, TimersInit
    <3>2. QED
      BY <2>1, <3>1 DEF Counts, Owned, NotTaken
  <2>8. QED
    BY <2>2, <2>4, <2>5, <2>6, <2>7 DEF TimersInv
<1>2. TimersInv /\ [Next]_vars => TimersInv'
  <2> SUFFICES ASSUME TimersInv, [Next]_vars PROVE TimersInv'
    OBVIOUS
  <2>1. CASE TaskStart
    BY <2>1, FifoInitKeeps, StartFifoKeeps, QueueingKeeps DEF TaskStart
  <2>2. CASE Task2
    BY <2>2, GetLedKeeps, OpenDoorKeeps, StartDoorKeeps DEF Task2
  <2>3. CASE Tick
    BY <2>3, TickKeeps
  <2>4. CASE I2C0_IRQHandler \/ UNCHANGED vars
    <3>1. UNCHANGED <<timers, timers_cant, flags, since, fired, id, pc>>
      BY <2>4 DEF I2C0_IRQHandler, vars, timerVars, taskVars
    <3>2. QED
      BY <3>1 DEF TimersInv, TimersType, ControlType, TwoOwners, Starting, Counts, Owned,
                  NotTaken, Before, At, Halfway
  <2>5. QED
    BY <2>1, <2>2, <2>3, <2>4 DEF Next
<1>3. QED
  BY <1>1, <1>2, PTL DEF Spec

\* timer.c: for any number of timers and any periods, no timer fires early or
\* late, wherever a tick cuts the timerStart that starts it or starts it again.
THEOREM TimersFireOnTime == Spec => []FiresOnTime
<1>1. TimersInv => FiresOnTime
  BY DEF TimersInv, Counts, FiresOnTime, Running
<1>2. QED
  BY <1>1, TimersInvariant, PTL

-----------------------------------------------------------------------------
(* The messages on the wire *)

FifoTimer == timers[id.I2C_FIFO_timer]

SetupTypes ==
  /\ fifo \in [cell: [0..I2C_FIFO_SIZE - 1 -> Seq(Nat)], head: 0..5, tail: 0..5,
              callback: {NoCall, "I2C_finished_callback"}]
  /\ i2c_com \in [queue: Seq(Nat), count: 0..2, end_routine: {NoCall, "end_routine_callback"}]
  /\ bus \in [taken: BOOLEAN, D: Nat]
  /\ wire \in Seq(Nat) /\ aged \in BOOLEAN /\ moved \in 0..TICK_STEPS
  /\ ov7670_state \in {"not_initialized", "busy", "ready"}

\* Where TaskStart can be.
Places ==
  \/ Before
  \/ pc.TaskStart[1] \in {"timerStart", "I2C_End_Routine", "empty_callback", "OV7670_run"}
  \/ pc.TaskStart[1] = "OV7670_Config" /\ pc.TaskStart[2] \in 1..6
  \/ pc.TaskStart[1] \in {"fill", "advance"} /\ pc.TaskStart[2] \in 1..5

\* Messages TaskStart has queued when it is at p.
Queued(p) ==
  IF p[1] \in {"OV7670_Config", "fill", "advance"} THEN p[2] - 1
  ELSE IF p[1] = "OV7670_run" THEN 5 ELSE 0

\* The queue holds the table up to its tail; behind a fill, one more cell of it.
TableQueued ==
  /\ fifo.tail = Queued(pc.TaskStart) /\ fifo.head <= fifo.tail
  /\ \A i \in 0..4 : i < fifo.tail \/ At("TaskStart", "advance", i + 1)
                   => fifo.cell[i] = OV7670_init[i + 1]

\* Steps TaskStart has done since it started the timer, when it is at p.
Done(p) ==
  IF p[1] = "I2C_End_Routine" THEN 0
  ELSE IF p[1] = "empty_callback" THEN 1
  ELSE IF p[1] = "OV7670_Config" THEN 3 * p[2] - 1
  ELSE IF p[1] = "fill" THEN 3 * p[2] ELSE 3 * p[2] + 1

\* The first message is not sent before the last one is queued: TaskStart is
\* ahead of the ticks the timer has counted.
QueuedInTime ==
  pc.TaskStart[1] # "OV7670_run" =>
    /\ fifo.head = 0 /\ bus.D = NoByte /\ ov7670_state # "ready"
    /\ ~Before /\ FifoTimer.flags.running =>
         /\ pc.TaskStart[1] # "timerStart"
         /\ TICK_STEPS * FifoTimer.cnt + moved <= Done(pc.TaskStart) + TICK_STEPS

\* Only the timer of the queue sends messages.
OneSender ==
  \A x \in TimerId :
    timers[x].callback = "send_next_message" => ~Before /\ x = id.I2C_FIFO_timer

\* Between two messages; and in a message, which is ahead of its timer: at most
\* one tick has come for every byte.
Idle == ~bus.taken /\ ~aged /\ Len(wire) = 5 * fifo.head

Sending ==
  /\ bus.taken /\ fifo.head \in 1..5 /\ i2c_com.queue = OV7670_init[fifo.head]
  /\ Len(wire) = 5 * fifo.head - 4 + i2c_com.count
  /\ bus.D = AllMessages[Len(wire) + 1]
  /\ FifoTimer.cnt <= i2c_com.count + (IF aged THEN 1 ELSE 0)
  /\ ov7670_state # "ready"

OnWire ==
  /\ \A i \in 1..Len(wire) : wire[i] = AllMessages[i]
  /\ bus.D = NoByte => Idle
  /\ bus.D # NoByte => Sending
  /\ ov7670_state = "ready" => fifo.head = 5

SetupInv == SetupTypes /\ Places /\ TableQueued /\ QueuedInTime /\ OneSender /\ OnWire

\* A message of the table: a register and a value, both bytes.
LEMMA TableEntries ==
  /\ Len(OV7670_init) = 5 /\ DOMAIN OV7670_init = 1..5
  /\ \A h \in 1..5 : /\ OV7670_init[h] \in Seq(Nat) /\ Len(OV7670_init[h]) = 2
                     /\ OV7670_init[h][1] \in Nat /\ OV7670_init[h][1] < NoByte
                     /\ OV7670_init[h][2] \in Nat /\ OV7670_init[h][2] < NoByte
BY DEF OV7670_init, NoByte

\* The same, of one message.
LEMMA TableEntry ==
  ASSUME NEW h \in 1..5
  PROVE  /\ OV7670_init[h] \in Seq(Nat)
         /\ OV7670_init[h][1] \in Nat /\ OV7670_init[h][1] # NoByte
         /\ OV7670_init[h][2] \in Nat /\ OV7670_init[h][2] # NoByte
<1>1. /\ OV7670_init[h] \in Seq(Nat)
      /\ OV7670_init[h][1] \in Nat /\ OV7670_init[h][1] < NoByte
      /\ OV7670_init[h][2] \in Nat /\ OV7670_init[h][2] < NoByte
  BY TableEntries, Zenon
<1>2. QED
  BY <1>1 DEF NoByte

\* Where the symbols of message h are in AllMessages.
LEMMA MessagePlaces ==
  /\ AllMessages \in Seq(Nat) /\ Len(AllMessages) = 25
  /\ \A i \in 1..25 : AllMessages[i] \in Nat
  /\ \A h \in 1..5 : /\ AllMessages[5 * h - 4] = START
                     /\ AllMessages[5 * h - 3] = Address
                     /\ AllMessages[5 * h - 2] = OV7670_init[h][1]
                     /\ AllMessages[5 * h - 1] = OV7670_init[h][2]
                     /\ AllMessages[5 * h] = STOP
<1>1. ASSUME NEW i \in 1..25
      PROVE  AllMessages[i] = Message(1 + (i - 1) \div 5)[1 + ((i - 1) % 5)]
  BY TableEntries DEF AllMessages
<1>2. ASSUME NEW h \in 1..5, NEW k \in 1..5
      PROVE  AllMessages[5 * h - 5 + k] = Message(h)[k]
  <2>1. PICK i \in 1..25 : i = 5 * h - 5 + k
    OBVIOUS
  <2>2. 1 + (i - 1) \div 5 = h /\ 1 + ((i - 1) % 5) = k
    BY <2>1
  <2>3. QED
    BY <1>1, <2>1, <2>2
<1>3. ASSUME NEW h \in 1..5
      PROVE  /\ AllMessages[5 * h - 4] = START
             /\ AllMessages[5 * h - 3] = Address
             /\ AllMessages[5 * h - 2] = OV7670_init[h][1]
             /\ AllMessages[5 * h - 1] = OV7670_init[h][2]
             /\ AllMessages[5 * h] = STOP
  <2>1. /\ 5 * h - 4 = 5 * h - 5 + 1 /\ 5 * h - 3 = 5 * h - 5 + 2
        /\ 5 * h - 2 = 5 * h - 5 + 3 /\ 5 * h - 1 = 5 * h - 5 + 4 /\ 5 * h = 5 * h - 5 + 5
    OBVIOUS
  <2>2. QED
    BY <1>2, <2>1 DEF Message
<1>4. /\ AllMessages \in Seq(Nat) /\ Len(AllMessages) = 25
      /\ \A i \in 1..25 : AllMessages[i] \in Nat
  <2>1. ASSUME NEW i \in 1..25 PROVE AllMessages[i] \in Nat
    <3>1. PICK h \in 1..5, k \in 1..5 : i = 5 * h - 5 + k
      <4>1. 1 + (i - 1) \div 5 \in 1..5 /\ 1 + ((i - 1) % 5) \in 1..5
            /\ i = 5 * (1 + (i - 1) \div 5) - 5 + (1 + ((i - 1) % 5))
        OBVIOUS
      <4>2. QED
        BY <4>1
    <3>2. Message(h)[k] \in Nat
      <4>1. k = 1 \/ k = 2 \/ k = 3 \/ k = 4 \/ k = 5
        OBVIOUS
      <4>2. /\ Message(h)[1] = START /\ Message(h)[2] = Address
            /\ Message(h)[3] = OV7670_init[h][1] /\ Message(h)[4] = OV7670_init[h][2]
            /\ Message(h)[5] = STOP
        BY DEF Message
      <4>3. START \in Nat /\ Address \in Nat /\ STOP \in Nat
        BY DEF START, Address, STOP
      <4>4. QED
        BY <4>1, <4>2, <4>3, TableEntries
    <3>3. QED
      BY <1>2, <3>1, <3>2
  <2>2. AllMessages = [i \in 1..25 |-> AllMessages[i]]
    BY TableEntries DEF AllMessages
  <2>3. QED
    BY <2>1, <2>2
<1>5. QED
  BY <1>3, <1>4

\* The pace: a tick counted costs TaskStart TICK_STEPS steps.
LEMMA Pace ==
  /\ TICK_STEPS * 0 = 0
  /\ \A c \in Nat : TICK_STEPS * c \in Nat /\ TICK_STEPS * (c + 1) = TICK_STEPS * c + TICK_STEPS
  /\ \A c \in Nat : c + 1 >= I2C_PERIOD => TICK_STEPS * c > 17
<1>1. TICK_STEPS \in Nat /\ I2C_PERIOD \in Nat /\ I2C_PERIOD >= 4
      /\ TICK_STEPS * (I2C_PERIOD - 1) > 17
  BY SetupAssumption, PaceAssumption, TableEntries
<1>2. ASSUME NEW c \in Nat, c + 1 >= I2C_PERIOD PROVE TICK_STEPS * c > 17
  <2>1. PICK d \in Nat : c = (I2C_PERIOD - 1) + d
    <3>1. c - (I2C_PERIOD - 1) \in Nat /\ c = (I2C_PERIOD - 1) + (c - (I2C_PERIOD - 1))
      BY <1>1, <1>2
    <3>2. QED
      BY <3>1
  <2>2. TICK_STEPS * c = TICK_STEPS * (I2C_PERIOD - 1) + TICK_STEPS * d
    BY <1>1, <2>1
  <2>3. TICK_STEPS * d \in Nat
    BY <1>1
  <2>4. QED
    BY <1>1, <2>2, <2>3
<1>3. QED
  BY <1>1, <1>2

\* Once taken, the timer of the queue is one of the timers, and only runs with its period.
LEMMA FifoTimerIsTimer ==
  ASSUME TimersInv, ~Before
  PROVE  /\ id.I2C_FIFO_timer \in TimerId /\ FifoTimer \in Timer /\ FifoTimer.cnt \in Nat
         /\ FifoTimer.flags.running \in BOOLEAN
         /\ FifoTimer.flags.running => FifoTimer.period = I2C_PERIOD
<1>1. /\ TimersType /\ ControlType /\ TwoOwners
      /\ id.I2C_FIFO_timer \in Nat /\ id.I2C_FIFO_timer < timers_cant
  BY DEF TimersInv, TwoOwners, ControlType
<1>2. PICK x \in TimerId : x = id.I2C_FIFO_timer
  BY <1>1, TakenIsTimer
<1>3. timers[x] \in Timer
  BY <1>1 DEF TimersType
<1>4. timers[x].flags.running => timers[x].period = I2C_PERIOD
  <2>1. timers[x].flags.running => timers[x].period # 0
    BY DEF TimersInv, Counts
  <2>2. x # id.led_timer
    BY <1>1, <1>2, TimersAssumption DEF TwoOwners, TimerId
  <2>3. QED
    BY <1>2, <2>1, <2>2 DEF TimersInv, Owned, MessagePeriod
<1>5. QED
  BY <1>2, <1>3, <1>4 DEF FifoTimer, Timer, Flags

\* A step of TaskStart before its last one: what holds after it if the queue is
\* right, its timer as it was and TaskStart one step further.
LEMMA QueueStep ==
  ASSUME TimersInv, SetupInv, pc.TaskStart[1] \notin {"OV7670_run", "I2C_FIFO_init", "timerStart"},
         UNCHANGED <<timers, id, bus, wire, aged>>,
         moved' = IF moved < TICK_STEPS THEN moved + 1 ELSE moved,
         SetupTypes', Places', TableQueued', fifo'.head = fifo.head, ov7670_state' # "ready",
         pc'.TaskStart[1] \notin {"I2C_FIFO_init", "timerStart"},
         \/ pc'.TaskStart[1] = "OV7670_run"
         \/ Done(pc.TaskStart) \in Nat /\ Done(pc.TaskStart)' = Done(pc.TaskStart) + 1
  PROVE  SetupInv'
<1>1. ~Before /\ ~Before'
  BY DEF Before, At
<1>2. OneSender'
  BY <1>1 DEF SetupInv, OneSender
<1>3. fifo'.head = 0 /\ bus'.D = NoByte
  BY DEF SetupInv, QueuedInTime
<1>4. OnWire'
  BY <1>3 DEF SetupInv, OnWire, Idle
<1>5. QueuedInTime'
  <2> SUFFICES ASSUME pc'.TaskStart[1] # "OV7670_run", FifoTimer'.flags.running
               PROVE  TICK_STEPS * FifoTimer'.cnt + moved' <= Done(pc.TaskStart)' + TICK_STEPS
    BY <1>3 DEF QueuedInTime
  <2>1. FifoTimer' = FifoTimer
    BY DEF FifoTimer
  <2>2. TICK_STEPS * FifoTimer.cnt + moved <= Done(pc.TaskStart) + TICK_STEPS
    BY <1>1, <2>1 DEF SetupInv, QueuedInTime
  <2>3. moved \in Nat /\ TICK_STEPS \in Nat /\ moved' \in Nat /\ moved' <= moved + 1
    BY SetupAssumption DEF SetupInv, SetupTypes
  <2>4. PICK d \in Nat : d = Done(pc.TaskStart) /\ Done(pc.TaskStart)' = d + 1
    OBVIOUS
  <2>5. QED
    <3>1. PICK a \in Nat : a = TICK_STEPS * FifoTimer.cnt
      BY <1>1, FifoTimerIsTimer, Pace
    <3>2. a + moved' <= d + 1 + TICK_STEPS
      BY <2>2, <2>3, <2>4, <3>1
    <3>3. QED
      BY <2>1, <2>4, <3>1, <3>2
<1>6. QED
  BY <1>2, <1>4, <1>5 DEF SetupInv

\* moved counts up to TICK_STEPS.
LEMMA MovedType ==
  ASSUME moved \in 0..TICK_STEPS, moved' = IF moved < TICK_STEPS THEN moved + 1 ELSE moved
  PROVE  moved' \in 0..TICK_STEPS
BY SetupAssumption

\* The steps of OV7670_Init that set the callbacks.
LEMMA CallbacksKeep ==
  ASSUME TimersInv, SetupInv, I2C_End_Routine \/ I2C_FIFO_empty_callback
  PROVE  SetupInv'
<1>1. ControlType /\ SetupTypes /\ TableQueued /\ QueuedInTime
  BY DEF TimersInv, SetupInv
<1>2. CASE I2C_End_Routine
  <2>1. /\ pc.TaskStart = <<"I2C_End_Routine", 0>> /\ Goto("TaskStart", "empty_callback", 0)
        /\ i2c_com' = [i2c_com EXCEPT !.end_routine = "end_routine_callback"]
        /\ moved' = IF moved < TICK_STEPS THEN moved + 1 ELSE moved
        /\ UNCHANGED <<timers, id, bus, wire, aged, fifo, ov7670_state>>
    BY <1>2 DEF I2C_End_Routine, At, Quick, timerVars
  <2>2. pc'.TaskStart = <<"empty_callback", 0>>
    BY <1>1, <2>1, GotoMoves DEF Label
  <2>3. SetupTypes'
    BY <1>1, <2>1, MovedType DEF SetupTypes
  <2>4. Places' /\ TableQueued'
    BY <1>1, <2>1, <2>2 DEF Places, TableQueued, Queued, At
  <2>5. Done(pc.TaskStart) = 0 /\ Done(pc.TaskStart)' = 1
    BY <2>1, <2>2 DEF Done
  <2>6. ov7670_state' # "ready"
    BY <1>1, <2>1 DEF QueuedInTime
  <2>7. QED
    BY <2>1, <2>2, <2>3, <2>4, <2>5, <2>6, QueueStep
<1>3. CASE I2C_FIFO_empty_callback
  <2>1. /\ pc.TaskStart = <<"empty_callback", 0>> /\ Goto("TaskStart", "OV7670_Config", 1)
        /\ fifo' = [fifo EXCEPT !.callback = "I2C_finished_callback"]
        /\ moved' = IF moved < TICK_STEPS THEN moved + 1 ELSE moved
        /\ UNCHANGED <<timers, id, bus, wire, aged, i2c_com, ov7670_state>>
    BY <1>3 DEF I2C_FIFO_empty_callback, At, Quick, timerVars
  <2>2. pc'.TaskStart = <<"OV7670_Config", 1>>
    BY <1>1, <2>1, GotoMoves DEF Label
  <2>3. SetupTypes' /\ fifo'.head = fifo.head /\ fifo'.tail = fifo.tail /\ fifo'.cell = fifo.cell
    BY <1>1, <2>1, MovedType DEF SetupTypes
  <2>4. Places' /\ TableQueued'
    BY <1>1, <2>1, <2>2, <2>3 DEF Places, TableQueued, Queued, At
  <2>5. Done(pc.TaskStart) = 1 /\ Done(pc.TaskStart)' = 2
    BY <2>1, <2>2 DEF Done
  <2>6. ov7670_state' # "ready"
    BY <1>1, <2>1 DEF QueuedInTime
  <2>7. QED
    BY <2>1, <2>2, <2>3, <2>4, <2>5, <2>6, QueueStep
<1>4. QED
  BY <1>2, <1>3

\* One message: the state of the camera, the cell, the index; and the end of it.
LEMMA MessagesKeep ==
  ASSUME TimersInv, SetupInv,
         \/ CreateTask2
         \/ \E m \in DOMAIN OV7670_init : OV7670_Config(m) \/ FillCell(m) \/ AdvanceTail(m)
  PROVE  SetupInv'
<1>1. /\ ControlType /\ SetupTypes /\ Places /\ TableQueued /\ QueuedInTime
      /\ I2C_FIFO_SIZE \in Nat /\ I2C_FIFO_SIZE > 5
  BY SetupAssumption, PaceAssumption, TableEntries DEF TimersInv, SetupInv
<1>2. ASSUME NEW m \in 1..5, OV7670_Config(m) PROVE SetupInv'
  <2>1. /\ pc.TaskStart = <<"OV7670_Config", m>> /\ Goto("TaskStart", "fill", m)
        /\ moved' = IF moved < TICK_STEPS THEN moved + 1 ELSE moved
        /\ ov7670_state' = "busy"
        /\ UNCHANGED <<timers, id, bus, wire, aged, fifo, i2c_com>>
    BY <1>2 DEF OV7670_Config, At, Quick, timerVars
  <2>2. pc'.TaskStart = <<"fill", m>>
    BY <1>1, <2>1, GotoMoves DEF Label
  <2>3. SetupTypes'
    BY <1>1, <2>1, MovedType DEF SetupTypes
  <2>4. Places' /\ TableQueued'
    BY <1>1, <2>1, <2>2 DEF Places, TableQueued, Queued, At
  <2>5. Done(pc.TaskStart) = 3 * m - 1 /\ Done(pc.TaskStart)' = 3 * m
    BY <2>1, <2>2 DEF Done
  <2>6. QED
    BY <2>1, <2>2, <2>3, <2>4, <2>5, QueueStep
<1>3. ASSUME NEW m \in 1..5, FillCell(m) PROVE SetupInv'
  <2>1. /\ pc.TaskStart = <<"fill", m>> /\ Goto("TaskStart", "advance", m)
        /\ moved' = IF moved < TICK_STEPS THEN moved + 1 ELSE moved
        /\ fifo' = [fifo EXCEPT !.cell[fifo.tail] = OV7670_init[m]]
        /\ UNCHANGED <<timers, id, bus, wire, aged, i2c_com, ov7670_state>>
    BY <1>3 DEF FillCell, At, Quick, timerVars
  <2>2. pc'.TaskStart = <<"advance", m>>
    BY <1>1, <2>1, GotoMoves DEF Label
  <2>3. fifo.tail = m - 1 /\ m - 1 \in 0..I2C_FIFO_SIZE - 1
    BY <1>1, <2>1 DEF TableQueued, Queued
  <2>4. /\ fifo'.head = fifo.head /\ fifo'.tail = fifo.tail /\ fifo'.callback = fifo.callback
        /\ fifo'.cell = [fifo.cell EXCEPT ![m - 1] = OV7670_init[m]]
    BY <1>1, <2>1, <2>3 DEF SetupTypes
  <2>5. SetupTypes'
    <3>1. fifo'.cell \in [0..I2C_FIFO_SIZE - 1 -> Seq(Nat)]
      BY <1>1, <2>3, <2>4, TableEntries DEF SetupTypes
    <3>2. fifo' \in [cell: [0..I2C_FIFO_SIZE - 1 -> Seq(Nat)], head: 0..5, tail: 0..5,
                    callback: {NoCall, "I2C_finished_callback"}]
      <4>1. fifo' = [cell |-> fifo'.cell, head |-> fifo.head, tail |-> fifo.tail,
                     callback |-> fifo.callback]
        BY <1>1, <2>1 DEF SetupTypes
      <4>2. QED
        BY <1>1, <3>1, <4>1 DEF SetupTypes
    <3>3. QED
      BY <1>1, <2>1, <3>2, MovedType DEF SetupTypes
  <2>6. Places'
    BY <2>2 DEF Places
  <2>7. TableQueued'
    <3>1. fifo'.tail = Queued(pc.TaskStart)' /\ fifo'.head <= fifo'.tail
      BY <1>1, <2>2, <2>3, <2>4 DEF TableQueued, Queued
    <3>2. ASSUME NEW i \in 0..4, i < fifo'.tail \/ At("TaskStart", "advance", i + 1)'
          PROVE  fifo'.cell[i] = OV7670_init[i + 1]
      <4>1. i < m - 1 \/ i = m - 1
        BY <2>2, <2>3, <2>4, <3>2 DEF At
      <4>2. i \in 0..I2C_FIFO_SIZE - 1 /\ fifo.cell \in [0..I2C_FIFO_SIZE - 1 -> Seq(Nat)]
        BY <1>1 DEF SetupTypes
      <4>3. CASE i < m - 1
        <5>1. fifo.cell[i] = OV7670_init[i + 1]
          BY <1>1, <2>3, <4>3 DEF TableQueued
        <5>2. i # m - 1
          BY <4>3
        <5>3. fifo'.cell[i] = fifo.cell[i]
          BY <2>4, <4>2, <5>2
        <5>4. QED
          BY <5>1, <5>3
      <4>4. CASE i = m - 1
        <5>1. fifo'.cell[i] = OV7670_init[m]
          BY <2>4, <4>2, <4>4
        <5>2. i + 1 = m
          BY <4>4
        <5>3. QED
          BY <5>1, <5>2
      <4>5. QED
        BY <4>1, <4>3, <4>4
    <3>3. QED
      BY <3>1, <3>2 DEF TableQueued
  <2>8. Done(pc.TaskStart) = 3 * m /\ Done(pc.TaskStart)' = 3 * m + 1
    BY <2>1, <2>2 DEF Done
  <2>9. ov7670_state' # "ready"
    BY <1>1, <2>1 DEF QueuedInTime
  <2>10. QED
    BY <2>1, <2>2, <2>4, <2>5, <2>6, <2>7, <2>8, <2>9, QueueStep
<1>4. ASSUME NEW m \in 1..5, AdvanceTail(m) PROVE SetupInv'
  <2>1. /\ pc.TaskStart = <<"advance", m>> /\ Goto("TaskStart", "OV7670_Config", m + 1)
        /\ moved' = IF moved < TICK_STEPS THEN moved + 1 ELSE moved
        /\ fifo' = [fifo EXCEPT !.tail = Next1(@),
                                !.head = IF @ = Next1(fifo.tail) THEN Next1(@) ELSE @]
        /\ UNCHANGED <<timers, id, bus, wire, aged, i2c_com, ov7670_state>>
    BY <1>4 DEF AdvanceTail, At, Quick, timerVars
  <2>2. pc'.TaskStart = <<"OV7670_Config", m + 1>>
    BY <1>1, <2>1, GotoMoves DEF Label
  <2>3. fifo.tail = m - 1 /\ fifo.head = 0 /\ Next1(fifo.tail) = m
    BY <1>1, <2>1 DEF TableQueued, Queued, QueuedInTime, Next1
  <2>4. fifo' = [cell |-> fifo.cell, head |-> 0, tail |-> m, callback |-> fifo.callback]
    <3>1. fifo.head # Next1(fifo.tail)
      BY <2>3
    <3>2. fifo' = [fifo EXCEPT !.tail = m, !.head = fifo.head]
      BY <2>1, <2>3, <3>1
    <3>3. fifo = [cell |-> fifo.cell, head |-> 0, tail |-> fifo.tail, callback |-> fifo.callback]
      BY <1>1, <2>3 DEF SetupTypes
    <3>4. QED
      BY <2>3, <3>2, <3>3
  <2>5. /\ fifo'.head = fifo.head /\ fifo'.tail = m /\ fifo'.cell = fifo.cell
        /\ SetupTypes'
    <3>1. fifo'.head = fifo.head /\ fifo'.tail = m /\ fifo'.cell = fifo.cell
      BY <2>3, <2>4
    <3>2. fifo' \in [cell: [0..I2C_FIFO_SIZE - 1 -> Seq(Nat)], head: 0..5, tail: 0..5,
                    callback: {NoCall, "I2C_finished_callback"}]
      BY <1>1, <2>4 DEF SetupTypes
    <3>3. QED
      BY <1>1, <2>1, <3>1, <3>2, MovedType DEF SetupTypes
  <2>6. Places'
    BY <2>2 DEF Places
  <2>7. TableQueued'
    <3>1. fifo'.tail = Queued(pc.TaskStart)' /\ fifo'.head <= fifo'.tail
      BY <2>2, <2>3, <2>5 DEF Queued
    <3>2. ASSUME NEW i \in 0..4, i < fifo'.tail \/ At("TaskStart", "advance", i + 1)'
          PROVE  fifo'.cell[i] = OV7670_init[i + 1]
      <4>1. i < m - 1 \/ i + 1 = m
        BY <2>2, <2>5, <3>2 DEF At
      <4>2. i < fifo.tail \/ At("TaskStart", "advance", i + 1)
        BY <2>1, <2>3, <4>1 DEF At
      <4>3. QED
        BY <1>1, <2>5, <4>2 DEF TableQueued
    <3>3. QED
      BY <3>1, <3>2 DEF TableQueued
  <2>8. Done(pc.TaskStart) = 3 * m + 1 /\ Done(pc.TaskStart)' = 3 * m + 2
    BY <2>1, <2>2 DEF Done
  <2>9. ov7670_state' # "ready"
    BY <1>1, <2>1 DEF QueuedInTime
  <2>10. QED
    BY <2>1, <2>2, <2>5, <2>6, <2>7, <2>8, <2>9, QueueStep
<1>5. CASE CreateTask2
  <2>1. /\ pc.TaskStart = <<"OV7670_Config", 6>> /\ pc'.TaskStart = <<"OV7670_run", 0>>
        /\ moved' = IF moved < TICK_STEPS THEN moved + 1 ELSE moved
        /\ UNCHANGED <<timers, id, bus, wire, aged, fifo, i2c_com, ov7670_state>>
    <3>1. Len(OV7670_init) + 1 = 6
      BY TableEntries
    <3>2. pc.TaskStart = <<"OV7670_Config", Len(OV7670_init) + 1>>
      BY <1>5 DEF CreateTask2, At
    <3>3. pc' = [TaskStart |-> <<"OV7670_run", 0>>, Task2 |-> <<"timerGetId", 0>>]
      BY <1>5 DEF CreateTask2
    <3>4. /\ moved' = IF moved < TICK_STEPS THEN moved + 1 ELSE moved
          /\ UNCHANGED <<timers, id, bus, wire, aged, fifo, i2c_com, ov7670_state>>
      BY <1>5 DEF CreateTask2, Quick, timerVars
    <3>5. QED
      BY <3>1, <3>2, <3>3, <3>4
  <2>2. SetupTypes'
    BY <1>1, <2>1, MovedType DEF SetupTypes
  <2>3. Places' /\ TableQueued'
    BY <1>1, <2>1 DEF Places, TableQueued, Queued, At
  <2>4. ov7670_state' # "ready"
    BY <1>1, <2>1 DEF QueuedInTime
  <2>5. QED
    BY <2>1, <2>2, <2>3, <2>4, QueueStep
<1>6. QED
  BY <1>2, <1>3, <1>4, <1>5, TableEntries

\* What timerGetId leaves as it was in every timer, and what it clears.
LEMMA TakeIdKeeps ==
  ASSUME TimersType, TakeId
  PROVE  /\ \A x \in TimerId : timers'[x].callback = timers[x].callback
                            /\ timers'[x].cnt = timers[x].cnt
         /\ timers_cant \in TimerId /\ ~timers'[timers_cant].flags.running
<1>1. timers_cant \in TimerId /\ timers \in [TimerId -> Timer]
      /\ timers' = [timers EXCEPT ![timers_cant].flags.running = FALSE]
  BY TimersAssumption DEF TimersType, TakeId, TimerId
<1>2. PICK c \in TimerId : c = timers_cant
  BY <1>1
<1>3. timers[c] \in Timer /\ timers[c].flags \in Flags
  BY <1>1 DEF Timer
<1> DEFINE f == [timers[c].flags EXCEPT !.running = FALSE]
           t == [timers[c] EXCEPT !.flags = f]
<1>4. ~f.running
  BY <1>3 DEF Flags
<1> HIDE DEF f
<1>5. t.flags = f /\ t.callback = timers[c].callback /\ t.cnt = timers[c].cnt
  BY <1>3 DEF Timer
<1>6. timers' = [timers EXCEPT ![c] = t]
  BY <1>1, <1>2 DEF f
<1> HIDE DEF t
<1>7. timers'[c] = t /\ \A x \in TimerId \ {c} : timers'[x] = timers[x]
  BY <1>1, <1>6
<1>8. QED
  BY <1>1, <1>2, <1>4, <1>5, <1>7

\* What a step of timerStart does to the callback and, the last one, to the count.
LEMMA StartCallback ==
  ASSUME TimersType, NEW x \in TimerId, NEW ticks, NEW mode, NEW callback,
         NEW n \in 1..timerStartSteps, timerStart(x, ticks, mode, callback, n)
  PROVE  /\ timers'[x].callback \in {timers[x].callback, callback}
         /\ n = 1 => timers' = timers
         /\ n = timerStartSteps => timers'[x].cnt = timers[x].cnt
<1>1. timers \in [TimerId -> Timer] /\ timers[x] \in Timer
  BY DEF TimersType
<1>2. ASSUME NEW t, timers' = [timers EXCEPT ![x] = t] PROVE timers'[x] = t
  BY <1>1, <1>2
<1>3. CASE n \in {1, 5, 7, 10} /\ Load(x)
  BY <1>3 DEF Load, timerStartSteps
<1>4. ASSUME NEW value, NEW field \in {"callback", "cnt", "period", "flags"},
             field = "callback" => value = callback, Store(x, field, value)
      PROVE  timers'[x].callback \in {timers[x].callback, callback}
  <2> DEFINE t == [timers[x] EXCEPT ![field] = value]
  <2>1. t.callback \in {timers[x].callback, callback}
    BY <1>1, <1>4 DEF Timer
  <2>2. timers' = [timers EXCEPT ![x] = t]
    BY <1>4 DEF Store
  <2> HIDE DEF t
  <2>3. QED
    BY <1>2, <2>1, <2>2
<1>5. CASE n = 11 /\ Enable(x)
  <2> DEFINE f == [flags EXCEPT !.running = TRUE]
             t == [timers[x] EXCEPT !.flags = f]
  <2> HIDE DEF f
  <2>1. t.callback = timers[x].callback /\ t.cnt = timers[x].cnt
    BY <1>1 DEF Timer
  <2>2. timers' = [timers EXCEPT ![x] = t]
    BY <1>5 DEF Enable, f
  <2> HIDE DEF t
  <2>3. timers'[x] = t
    BY <1>2, <2>2
  <2>4. QED
    BY <1>5, <2>1, <2>3
<1>6. CASE n \in {2, 6, 8} /\ \E value : Store(x, "flags", value)
  BY <1>4, <1>6 DEF timerStartSteps
<1>7. CASE n = 3 /\ Store(x, "callback", callback)
  BY <1>4, <1>7 DEF timerStartSteps
<1>8. CASE n = 4 /\ Store(x, "cnt", 0)
  BY <1>4, <1>8 DEF timerStartSteps
<1>9. CASE n = 9 /\ Store(x, "period", ticks)
  BY <1>4, <1>9 DEF timerStartSteps
<1>10. QED
  BY <1>3, <1>5, <1>6, <1>7, <1>8, <1>9 DEF timerStart, StoreFlag

\* A step of Task2: it leaves the queue's timer and everything about messages
\* alone, and takes no callback but its own.
LEMMA DoorStep ==
  ASSUME TimersInv, SetupInv, pc.TaskStart[1] = "OV7670_run", pc'.TaskStart = pc.TaskStart,
         UNCHANGED <<fifo, i2c_com, bus, ov7670_state, wire, aged, moved>>,
         id'.I2C_FIFO_timer = id.I2C_FIFO_timer,
         timers'[id.I2C_FIFO_timer].cnt = FifoTimer.cnt,
         \A x \in TimerId : timers'[x].callback \in {timers[x].callback, "close_door"}
  PROVE  SetupInv'
<1>1. ~Before /\ ~Before'
  BY DEF Before, At
<1>2. SetupTypes' /\ Places' /\ QueuedInTime'
  BY DEF SetupInv, SetupTypes, Places, QueuedInTime
<1>3. TableQueued'
  BY DEF SetupInv, TableQueued, Queued, At
<1>4. OneSender'
  BY <1>1 DEF SetupInv, OneSender
<1>5. FifoTimer'.cnt = FifoTimer.cnt
  BY DEF FifoTimer
<1>6. OnWire'
  BY <1>5 DEF SetupInv, OnWire, Idle, Sending
<1>7. QED
  BY <1>2, <1>3, <1>4, <1>6 DEF SetupInv

\* Task2 and its door timer do not disturb the messages.
LEMMA Task2Keeps == TimersInv /\ SetupInv /\ Task2 => SetupInv'
<1> SUFFICES ASSUME TimersInv, SetupInv, Task2 PROVE SetupInv'
  OBVIOUS
<1>1. TimersType /\ ControlType /\ TwoOwners
  BY DEF TimersInv
<1>2. pc.Task2[1] \in {"timerGetId", "loop", "timerStart"} /\ pc.TaskStart[1] = "OV7670_run"
  BY <1>1 DEF Task2, GetLedTimer, OpenDoor, StartDoorTimer, At, TwoOwners
<1>3. ~Before
  BY <1>2 DEF Before, At
<1>4. UNCHANGED <<fifo, i2c_com, bus, ov7670_state, wire, aged, moved>>
  BY DEF Task2, GetLedTimer, OpenDoor, StartDoorTimer, camVars
<1>5. id.I2C_FIFO_timer \in TimerId
  BY <1>3, FifoTimerIsTimer
<1>6. CASE GetLedTimer
  <2>1. TakeId /\ id' = [id EXCEPT !.led_timer = timerGetId] /\ Goto("Task2", "loop", 0)
    BY <1>6 DEF GetLedTimer
  <2>2. pc'.TaskStart = pc.TaskStart /\ id'.I2C_FIFO_timer = id.I2C_FIFO_timer
    BY <1>1, <2>1, GotoMoves DEF Label, ControlType
  <2>3. QED
    BY <1>1, <1>2, <1>4, <1>5, <2>1, <2>2, TakeIdKeeps, DoorStep DEF FifoTimer
<1>7. CASE OpenDoor
  <2>1. UNCHANGED <<timers, id>> /\ Goto("Task2", "timerStart", 1)
    BY <1>7 DEF OpenDoor, timerVars
  <2>2. pc'.TaskStart = pc.TaskStart
    BY <1>1, <2>1, GotoMoves DEF Label
  <2>3. QED
    BY <1>2, <1>4, <2>1, <2>2, DoorStep DEF FifoTimer
<1>8. CASE StartDoorTimer
  <2>1. PICK n \in 1..timerStartSteps :
          /\ At("Task2", "timerStart", n)
          /\ timerStart(id.led_timer, DOOR_PERIOD, "single", "close_door", n)
          /\ \/ Goto("Task2", "timerStart", n + 1)
             \/ Goto("Task2", "loop", 0)
          /\ UNCHANGED id
    BY <1>8 DEF StartDoorTimer
  <2>2. pc.Task2 = <<"timerStart", n>>
    BY <2>1 DEF At
  <2>3. PICK x \in TimerId : x = id.led_timer /\ x # id.I2C_FIFO_timer
    BY <1>1, <2>2, TakenIsTimer DEF TwoOwners, ControlType
  <2>4. Counts(x) /\ timers[x].period \in {0, DOOR_PERIOD} /\ Halfway(x, DOOR_PERIOD, n)
    BY <2>1, <2>3 DEF TimersInv, Owned, Starting
  <2>5. \A y \in TimerId \ {x} : timers'[y] = timers[y]
    BY <1>1, <2>1, <2>3, <2>4, PeriodsPositive, StartStep
  <2>6. timers'[x].callback \in {timers[x].callback, "close_door"}
    BY <1>1, <2>1, <2>3, StartCallback
  <2>7. pc'.TaskStart = pc.TaskStart
    <3>1. n \in Nat /\ n + 1 \in Nat
      BY DEF timerStartSteps
    <3>2. QED
      BY <1>1, <2>1, <3>1, GotoMoves DEF Label
  <2>8. QED
    BY <1>2, <1>4, <1>5, <2>1, <2>3, <2>5, <2>6, <2>7, DoorStep DEF FifoTimer
<1>9. QED
  BY <1>6, <1>7, <1>8 DEF Task2

\* Until its timer is started nothing is queued or sent.
LEMMA TimerSetupStep ==
  ASSUME TimersInv, SetupInv, pc.TaskStart[1] \in {"I2C_FIFO_init", "timerStart"},
         pc'.TaskStart[1] \in {"timerStart", "I2C_End_Routine"},
         Quick, UNCHANGED <<fifo, i2c_com, ov7670_state>>, OneSender',
         FifoTimer'.flags.running =>
           pc'.TaskStart[1] = "I2C_End_Routine" /\ FifoTimer'.cnt = 0
  PROVE  SetupInv'
<1>1. /\ SetupTypes /\ TableQueued /\ QueuedInTime /\ OnWire
      /\ UNCHANGED <<bus, wire, aged, fifo, i2c_com, ov7670_state>>
      /\ moved' = IF moved < TICK_STEPS THEN moved + 1 ELSE moved
  BY DEF SetupInv, Quick
<1>2. SetupTypes' /\ moved' <= TICK_STEPS /\ moved' \in Nat
  BY <1>1, MovedType, SetupAssumption DEF SetupTypes
<1>3. Places' /\ TableQueued'
  BY <1>1 DEF Places, TableQueued, Queued, At
<1>4. fifo'.head = 0 /\ bus'.D = NoByte /\ ov7670_state' # "ready"
  BY <1>1 DEF QueuedInTime
<1>5. OnWire'
  BY <1>1, <1>4 DEF OnWire, Idle
<1>6. QueuedInTime'
  <2> SUFFICES ASSUME FifoTimer'.flags.running
               PROVE  TICK_STEPS * FifoTimer'.cnt + moved' <= Done(pc.TaskStart)' + TICK_STEPS
    BY <1>4 DEF QueuedInTime
  <2>1. Done(pc.TaskStart)' = 0 /\ TICK_STEPS * FifoTimer'.cnt = 0
    BY Pace DEF Done
  <2>2. QED
    BY <1>2, <2>1, SetupAssumption
<1>7. QED
  BY <1>2, <1>3, <1>5, <1>6 DEF SetupInv

\* I2C_FIFO_init: the timer that is taken does not run.
LEMMA FifoInitSetup == TimersInv /\ SetupInv /\ I2C_FIFO_init => SetupInv'
<1> SUFFICES ASSUME TimersInv, SetupInv, I2C_FIFO_init PROVE SetupInv'
  OBVIOUS
<1>1. /\ TimersType /\ ControlType /\ Before /\ TakeId /\ pc.TaskStart = <<"I2C_FIFO_init", 0>>
      /\ id' = [id EXCEPT !.I2C_FIFO_timer = timerGetId] /\ Goto("TaskStart", "timerStart", 1)
      /\ Quick /\ UNCHANGED <<fifo, i2c_com, ov7670_state>>
  BY DEF TimersInv, I2C_FIFO_init, Before, At
<1>2. pc'.TaskStart = <<"timerStart", 1>>
  BY <1>1, GotoMoves DEF Label
<1>3. timerGetId = timers_cant /\ id'.I2C_FIFO_timer = timers_cant
  <2>1. timerGetId = timers_cant
    BY <1>1, TimersAssumption DEF TakeId, timerGetId, TimersType
  <2>2. QED
    BY <1>1, <2>1 DEF ControlType
<1>4. ~FifoTimer'.flags.running
  BY <1>1, <1>3, TakeIdKeeps DEF FifoTimer
<1>5. OneSender'
  BY <1>1, TakeIdKeeps DEF SetupInv, OneSender
<1>6. QED
  BY <1>1, <1>2, <1>4, <1>5, TimerSetupStep

\* timerStart, by TaskStart: the timer runs after the last store only, from zero.
LEMMA StartFifoSetup == TimersInv /\ SetupInv /\ StartFifoTimer => SetupInv'
<1> SUFFICES ASSUME TimersInv, SetupInv, StartFifoTimer PROVE SetupInv'
  OBVIOUS
<1>1. PICK n \in 1..timerStartSteps :
        /\ At("TaskStart", "timerStart", n)
        /\ timerStart(id.I2C_FIFO_timer, MessagePeriod, "periodic", "send_next_message", n)
        /\ IF n < timerStartSteps THEN Goto("TaskStart", "timerStart", n + 1)
                                  ELSE Goto("TaskStart", "I2C_End_Routine", 0)
        /\ Quick /\ UNCHANGED <<id, fifo, i2c_com, ov7670_state>>
  BY DEF StartFifoTimer
<1>2. TimersType /\ ControlType /\ QueuedInTime /\ OneSender
  BY DEF TimersInv, SetupInv
<1>3. pc.TaskStart = <<"timerStart", n>> /\ ~Before
  BY <1>1 DEF At, Before
<1>4. PICK x \in TimerId : x = id.I2C_FIFO_timer /\ timers[x] = FifoTimer
  BY <1>3, FifoTimerIsTimer DEF FifoTimer
<1>5. Counts(x) /\ timers[x].period \in {0, MessagePeriod} /\ Halfway(x, MessagePeriod, n)
  <2>1. x # id.led_timer
    BY <1>2, <1>3, <1>4, TimersAssumption DEF TimersInv, TwoOwners, TimerId
  <2>2. QED
    BY <1>1, <1>4, <2>1 DEF TimersInv, Owned, Starting
<1>6. /\ \A y \in TimerId \ {x} : timers'[y] = timers[y]
      /\ n < timerStartSteps => Halfway(x, MessagePeriod, n + 1)'
  BY <1>1, <1>2, <1>4, <1>5, PeriodsPositive, StartStep
<1>7. /\ timers'[x].callback \in {timers[x].callback, "send_next_message"}
      /\ n = 1 => timers' = timers
      /\ n = timerStartSteps => timers'[x].cnt = timers[x].cnt
  BY <1>1, <1>2, <1>4, StartCallback
<1>8. pc'.TaskStart = IF n < timerStartSteps THEN <<"timerStart", n + 1>>
                                             ELSE <<"I2C_End_Routine", 0>>
  <2>1. n \in Nat /\ n + 1 \in Nat
    BY DEF timerStartSteps
  <2>2. CASE n < timerStartSteps
    BY <1>1, <1>2, <2>1, <2>2, GotoMoves DEF Label
  <2>3. CASE ~(n < timerStartSteps)
    BY <1>1, <1>2, <2>1, <2>3, GotoMoves DEF Label
  <2>4. QED
    BY <2>2, <2>3
<1>9. pc'.TaskStart[1] \in {"timerStart", "I2C_End_Routine"} /\ ~Before'
  BY <1>8 DEF Before, At
<1>10. FifoTimer' = timers'[x] /\ id'.I2C_FIFO_timer = x
  BY <1>1, <1>4 DEF FifoTimer
<1>11. OneSender'
  BY <1>2, <1>4, <1>6, <1>9, <1>10 DEF OneSender
<1>12. FifoTimer'.flags.running => pc'.TaskStart[1] = "I2C_End_Routine" /\ FifoTimer'.cnt = 0
  <2>1. CASE n = 1
    BY <1>2, <1>3, <1>4, <1>7, <1>10, <2>1 DEF QueuedInTime
  <2>2. CASE n > 1 /\ n < timerStartSteps
    <3>1. n + 1 >= 3
      BY <2>2 DEF timerStartSteps
    <3>2. ~timers'[x].flags.running
      BY <1>6, <2>2, <3>1 DEF Halfway
    <3>3. QED
      BY <1>10, <3>2
  <2>3. CASE n = timerStartSteps
    <3>1. timers[x].cnt = 0
      BY <1>5, <2>3 DEF Halfway, timerStartSteps
    <3>2. pc'.TaskStart[1] = "I2C_End_Routine"
      BY <1>8, <2>3 DEF timerStartSteps
    <3>3. QED
      BY <1>7, <1>10, <2>3, <3>1, <3>2
  <2>4. QED
    BY <2>1, <2>2, <2>3 DEF timerStartSteps
<1>13. QED
  BY <1>1, <1>3, <1>9, <1>11, <1>12, TimerSetupStep

\* What a tick does to a timer, due or not.
LEMMA IsrKeeps ==
  ASSUME TimersType, timer_isr, NEW x \in TimerId
  PROVE  /\ timers'[x].callback = timers[x].callback
         /\ timers'[x].cnt \in {0, timers[x].cnt, timers[x].cnt + 1}
         /\ timers'[x].flags.running => timers[x].flags.running
         /\ x \in Due => timers'[x].cnt = 0
<1>1. timers[x] \in Timer /\ timers[x].flags \in Flags
  BY DEF TimersType, Timer
<1>2. timers'[x] = IF x \in Due THEN Expired(timers[x])
                   ELSE IF x \in Running THEN Counted(timers[x]) ELSE timers[x]
  BY DEF timer_isr
<1>3. ASSUME NEW t \in Timer
      PROVE  /\ Counted(t).callback = t.callback /\ Expired(t).callback = t.callback
             /\ Expired(t).flags.running => t.flags.running
  BY DEF Counted, Expired, Timer, Flags
<1>4. QED
  BY <1>1, <1>2, <1>3, ExpiredIsTimer

\* When the queue's timer fires the table is queued and no message is on the wire.
LEMMA FiresBetweenMessages ==
  ASSUME TimersInv, SetupInv, Tick, "send_next_message" \in Callbacks
  PROVE  /\ pc.TaskStart[1] = "OV7670_run" /\ bus.D = NoByte
         /\ FifoTimer'.cnt = 0
<1>1. PICK x \in Due : timers[x].callback = "send_next_message"
  BY DEF Callbacks
<1>2. /\ x \in TimerId /\ timers[x].flags.running /\ timers[x].cnt + 1 >= timers[x].period
      /\ TimersType /\ timer_isr /\ UNCHANGED id
  BY <1>1 DEF Due, Running, TimersInv, Tick
<1>3. x = id.I2C_FIFO_timer /\ ~Before /\ timers[x] = FifoTimer
  BY <1>1, <1>2 DEF SetupInv, OneSender, FifoTimer
<1>4. PICK c \in Nat : c = FifoTimer.cnt /\ c + 1 >= I2C_PERIOD
  BY <1>2, <1>3, FifoTimerIsTimer
<1>5. FifoTimer'.cnt = 0
  BY <1>1, <1>2, <1>3, IsrKeeps DEF FifoTimer
<1>6. pc.TaskStart[1] = "OV7670_run"
  <2> SUFFICES ASSUME pc.TaskStart[1] # "OV7670_run" PROVE FALSE
    OBVIOUS
  <2>1. /\ pc.TaskStart[1] # "timerStart" /\ moved = TICK_STEPS
        /\ TICK_STEPS * c + TICK_STEPS <= Done(pc.TaskStart) + TICK_STEPS
    BY <1>2, <1>3, <1>4 DEF SetupInv, QueuedInTime, Tick
  <2>2. Done(pc.TaskStart) \in 0..17
    <3>1. \/ pc.TaskStart[1] \in {"I2C_End_Routine", "empty_callback"}
          \/ pc.TaskStart[1] = "OV7670_Config" /\ pc.TaskStart[2] \in 1..6
          \/ pc.TaskStart[1] \in {"fill", "advance"} /\ pc.TaskStart[2] \in 1..5
      BY <1>3, <2>1 DEF SetupInv, Places
    <3>2. QED
      BY <3>1 DEF Done
  <2>3. PICK d \in 0..17 : d = Done(pc.TaskStart)
    BY <2>2
  <2>4. PICK a \in Nat : a = TICK_STEPS * c
    BY Pace
  <2>5. a > 17 /\ a + TICK_STEPS <= d + TICK_STEPS
    BY <1>4, <2>1, <2>3, <2>4, Pace
  <2>6. QED
    BY <2>5, SetupAssumption
<1>7. bus.D = NoByte
  <2> SUFFICES ASSUME bus.D # NoByte PROVE FALSE
    OBVIOUS
  <2>1. c <= i2c_com.count /\ i2c_com.count \in 0..2
    BY <1>4 DEF SetupInv, OnWire, Sending, SetupTypes, Tick
  <2>2. I2C_PERIOD \in Nat /\ I2C_PERIOD >= 4
    BY SetupAssumption, PaceAssumption
  <2>3. QED
    BY <1>4, <2>1, <2>2
<1>8. QED
  BY <1>5, <1>6, <1>7

\* The timer fires and the queue is not empty: the next message starts.
LEMMA SendKeeps ==
  ASSUME SetupInv, ~aged, pc.TaskStart[1] = "OV7670_run", bus.D = NoByte,
         FifoTimer'.cnt = 0, ~I2C_FIFO_is_empty, send_next_message, aged' = FALSE, moved' = 0,
         UNCHANGED <<ov7670_state, id, pc>>, OneSender'
  PROVE  SetupInv'
<1>1. /\ SetupTypes /\ TableQueued /\ OnWire /\ Idle /\ fifo.tail = 5
      /\ I2C_FIFO_SIZE \in Nat /\ I2C_FIFO_SIZE > 5
  BY SetupAssumption, PaceAssumption, TableEntries
     DEF SetupInv, OnWire, TableQueued, Queued
<1>2. PICK h \in 1..5 : h = fifo.head + 1
  <2>1. PICK g \in 0..5 : g = fifo.head
    BY <1>1 DEF SetupTypes
  <2>2. g # 5
    BY <1>1, <2>1 DEF I2C_FIFO_is_empty
  <2>3. g + 1 \in 1..5
    BY <2>2
  <2>4. QED
    BY <2>1, <2>3
<1>3. fifo.cell[fifo.head] = OV7670_init[h] /\ Next1(fifo.head) = h
  <2>1. PICK g \in 0..4 : g = fifo.head /\ h = g + 1
    <3>1. PICK f \in 0..5 : f = fifo.head
      BY <1>1 DEF SetupTypes
    <3>2. f \in 0..4 /\ h = f + 1
      BY <1>2, <3>1
    <3>3. QED
      BY <3>1, <3>2
  <2>2. fifo.cell[g] = OV7670_init[g + 1]
    BY <1>1 DEF TableQueued
  <2>3. (g + 1) % I2C_FIFO_SIZE = g + 1
    BY <1>1
  <2>4. QED
    BY <2>1, <2>2, <2>3 DEF Next1
<1>4. /\ fifo' = [fifo EXCEPT !.head = h]
      /\ i2c_com' = [i2c_com EXCEPT !.queue = OV7670_init[h], !.count = 0]
      /\ bus' = [taken |-> TRUE, D |-> Address]
      /\ wire' = Append(wire, START)
  BY <1>1, <1>3 DEF send_next_message, Idle
<1>5. /\ fifo'.head = h /\ fifo'.tail = 5 /\ fifo'.cell = fifo.cell
      /\ i2c_com'.queue = OV7670_init[h] /\ i2c_com'.count = 0
      /\ bus'.taken /\ bus'.D = Address /\ bus'.D # NoByte
  BY <1>1, <1>4 DEF SetupTypes, Address, NoByte
<1>6. SetupTypes'
  <2>1. /\ fifo' \in [cell: [0..I2C_FIFO_SIZE - 1 -> Seq(Nat)], head: 0..5, tail: 0..5,
                     callback: {NoCall, "I2C_finished_callback"}]
    <3>1. fifo' = [cell |-> fifo.cell, head |-> h, tail |-> fifo.tail, callback |-> fifo.callback]
      BY <1>1, <1>4 DEF SetupTypes
    <3>2. h \in 0..5
      OBVIOUS
    <3>3. QED
      BY <1>1, <3>1, <3>2 DEF SetupTypes
  <2>2. i2c_com' \in [queue: Seq(Nat), count: 0..2, end_routine: {NoCall, "end_routine_callback"}]
    <3>1. i2c_com' = [queue |-> OV7670_init[h], count |-> 0, end_routine |-> i2c_com.end_routine]
      BY <1>1, <1>4 DEF SetupTypes
    <3>2. QED
      <4>1. OV7670_init[h] \in Seq(Nat)
        BY TableEntry
      <4>2. i2c_com.end_routine \in {NoCall, "end_routine_callback"}
        BY <1>1 DEF SetupTypes
      <4>3. QED
        BY <3>1, <4>1, <4>2
  <2>3. bus' \in [taken: BOOLEAN, D: Nat] /\ wire' \in Seq(Nat) /\ moved' \in 0..TICK_STEPS
    BY <1>1, <1>4, SetupAssumption DEF SetupTypes, Address, START
  <2>4. QED
    BY <1>1, <2>1, <2>2, <2>3 DEF SetupTypes
<1>7. Places' /\ QueuedInTime'
  BY DEF Places, QueuedInTime
<1>8. TableQueued'
  BY <1>1, <1>2, <1>5 DEF TableQueued, Queued, At
<1>9. Len(wire) = 5 * h - 5 /\ Len(wire') = 5 * h - 4 /\ wire'[5 * h - 4] = START
      /\ \A i \in 1..Len(wire) : wire'[i] = wire[i]
  <2>1. wire \in Seq(Nat) /\ START \in Nat
    BY <1>1 DEF SetupTypes, START
  <2>2. Len(wire) = 5 * h - 5
    <3>1. PICK g \in 0..5 : g = fifo.head
      BY <1>1 DEF SetupTypes
    <3>2. Len(wire) = 5 * g /\ h = g + 1
      BY <1>1, <1>2, <3>1 DEF Idle
    <3>3. QED
      BY <3>2
  <2>3. /\ Len(wire') = Len(wire) + 1 /\ wire'[Len(wire) + 1] = START
        /\ \A i \in 1..Len(wire) : wire'[i] = wire[i]
    BY <1>4, <2>1
  <2>4. Len(wire) + 1 = 5 * h - 4
    BY <2>2
  <2>5. QED
    BY <2>2, <2>3, <2>4
<1>10. \A i \in 1..Len(wire') : wire'[i] = AllMessages[i]
  <2> SUFFICES ASSUME NEW i \in 1..Len(wire') PROVE wire'[i] = AllMessages[i]
    OBVIOUS
  <2>1. CASE i \in 1..Len(wire)
    BY <1>1, <1>9, <2>1 DEF OnWire
  <2>2. CASE i = 5 * h - 4
    BY <1>9, <2>2, MessagePlaces
  <2>3. QED
    BY <1>9, <2>1, <2>2
<1>11. ov7670_state # "ready"
  BY <1>1, <1>2 DEF OnWire
<1>12. Sending'
  <2>1. Len(wire') = 5 * fifo'.head - 4 + i2c_com'.count
    BY <1>5, <1>9
  <2>2. bus'.D = AllMessages[Len(wire') + 1]
    <3>1. Len(wire') + 1 = 5 * h - 3
      BY <1>9
    <3>2. QED
      BY <1>5, <3>1, MessagePlaces
  <2>3. FifoTimer'.cnt <= i2c_com'.count + (IF aged' THEN 1 ELSE 0)
    BY <1>5
  <2>4. QED
    BY <1>5, <1>11, <2>1, <2>2, <2>3 DEF Sending
<1>13. OnWire'
  BY <1>5, <1>10, <1>11, <1>12 DEF OnWire
<1>14. QED
  BY <1>6, <1>7, <1>8, <1>13 DEF SetupInv

\* A tick: it starts a message, or finds TaskStart or the message ahead of the timer.
LEMMA TickSetup == TimersInv /\ SetupInv /\ Tick => SetupInv'
<1> SUFFICES ASSUME TimersInv, SetupInv, Tick PROVE SetupInv'
  OBVIOUS
<1>1. /\ TimersType /\ timer_isr /\ ~aged /\ aged' = (bus.D # NoByte) /\ moved' = 0
      /\ UNCHANGED <<ov7670_state, id, pc>> /\ (moved = TICK_STEPS \/ pc.TaskStart[1] = "OV7670_run")
  BY DEF TimersInv, Tick
<1>2. OneSender'
  BY <1>1, IsrKeeps DEF SetupInv, OneSender, Before, At
<1>3. CASE "send_next_message" \in Callbacks /\ ~I2C_FIFO_is_empty
  BY <1>1, <1>2, <1>3, FiresBetweenMessages, SendKeeps DEF Tick
<1>4. CASE ~("send_next_message" \in Callbacks /\ ~I2C_FIFO_is_empty)
  <2>1. UNCHANGED <<fifo, i2c_com, bus, wire>>
    BY <1>4 DEF Tick, send_next_message
  <2>2. SetupTypes'
    BY <1>1, <2>1, SetupAssumption DEF SetupInv, SetupTypes
  <2>3. Places' /\ TableQueued'
    BY <1>1, <2>1 DEF SetupInv, Places, TableQueued, Before, At
  <2>4. ASSUME ~Before
        PROVE  /\ FifoTimer'.cnt \in {0, FifoTimer.cnt, FifoTimer.cnt + 1} /\ FifoTimer.cnt \in Nat
               /\ FifoTimer'.flags.running => FifoTimer.flags.running
    <3>1. PICK x \in TimerId : x = id.I2C_FIFO_timer /\ x = id'.I2C_FIFO_timer
      BY <1>1, <2>4, FifoTimerIsTimer
    <3>2. FifoTimer.cnt \in Nat
      BY <2>4, FifoTimerIsTimer
    <3>3. QED
      BY <1>1, <3>1, <3>2, IsrKeeps DEF FifoTimer
  <2>5. QueuedInTime'
    <3> SUFFICES ASSUME pc.TaskStart[1] # "OV7670_run", ~Before, FifoTimer'.flags.running
                 PROVE  /\ pc.TaskStart[1] # "timerStart"
                        /\ TICK_STEPS * FifoTimer'.cnt + 0 <= Done(pc.TaskStart) + TICK_STEPS
      BY <1>1, <2>1 DEF SetupInv, QueuedInTime, Before, At
    <3>1. /\ pc.TaskStart[1] # "timerStart" /\ moved = TICK_STEPS
          /\ TICK_STEPS * FifoTimer.cnt + moved <= Done(pc.TaskStart) + TICK_STEPS
      BY <1>1, <2>4 DEF SetupInv, QueuedInTime
    <3>2. PICK a \in Nat, b \in Nat :
            /\ a = TICK_STEPS * FifoTimer.cnt /\ b = TICK_STEPS * FifoTimer'.cnt
            /\ b <= a + TICK_STEPS
      <4>1. PICK c \in Nat : c = FifoTimer.cnt /\ FifoTimer'.cnt \in {0, c, c + 1}
        BY <2>4
      <4>2. /\ TICK_STEPS * c \in Nat /\ TICK_STEPS * 0 = 0
            /\ TICK_STEPS * (c + 1) = TICK_STEPS * c + TICK_STEPS /\ TICK_STEPS \in Nat
        BY Pace, SetupAssumption
      <4>3. QED
        BY <4>1, <4>2
    <3>3. PICK d : d = Done(pc.TaskStart) + TICK_STEPS
      OBVIOUS
    <3>4. a + TICK_STEPS <= d
      BY <3>1, <3>2, <3>3
    <3>5. Done(pc.TaskStart) \in Nat
      BY <3>1 DEF SetupInv, Places, Done
    <3>6. b + 0 <= d
      BY <3>2, <3>3, <3>4, <3>5, SetupAssumption
    <3>7. QED
      BY <3>1, <3>2, <3>3, <3>6
  <2>6. OnWire'
    <3>1. CASE bus.D = NoByte
      BY <1>1, <2>1, <3>1 DEF SetupInv, OnWire, Idle
    <3>2. CASE bus.D # NoByte
      <4>1. Sending /\ pc.TaskStart[1] = "OV7670_run"
        BY <3>2 DEF SetupInv, OnWire, QueuedInTime
      <4>2. PICK c \in Nat, k \in 0..2 :
              c = FifoTimer.cnt /\ FifoTimer'.cnt \in {0, c, c + 1} /\ k = i2c_com.count /\ c <= k
        <5>1. ~Before
          BY <4>1 DEF Before, At
        <5>2. QED
          BY <1>1, <2>4, <4>1, <5>1 DEF SetupInv, SetupTypes, Sending
      <4>3. FifoTimer'.cnt <= i2c_com'.count + (IF aged' THEN 1 ELSE 0)
        <5>1. i2c_com'.count = k /\ aged'
          BY <1>1, <2>1, <3>2, <4>2
        <5>2. FifoTimer'.cnt <= k + 1
          BY <4>2
        <5>3. QED
          BY <5>1, <5>2
      <4>4. Sending'
        BY <1>1, <2>1, <4>1, <4>3 DEF Sending
      <4>5. QED
        BY <1>1, <2>1, <3>2, <4>4 DEF SetupInv, OnWire
    <3>3. QED
      BY <3>1, <3>2
  <2>7. QED
    BY <1>2, <2>2, <2>3, <2>5, <2>6 DEF SetupInv
<1>5. QED
  BY <1>3, <1>4

\* The end of a byte: the next one, or the end of the message.
LEMMA ByteKeeps == TimersInv /\ SetupInv /\ I2C0_IRQHandler => SetupInv'
<1> SUFFICES ASSUME TimersInv, SetupInv, I2C0_IRQHandler PROVE SetupInv'
  OBVIOUS
<1>1. /\ SetupTypes /\ TableQueued /\ OnWire /\ Sending /\ bus.D # NoByte
      /\ pc.TaskStart[1] = "OV7670_run" /\ ~aged'
      /\ UNCHANGED <<timers, fifo, id, pc, moved>>
  BY DEF SetupInv, OnWire, QueuedInTime, I2C0_IRQHandler, timerVars, taskVars
<1>2. Places' /\ TableQueued' /\ OneSender'
  BY <1>1 DEF SetupInv, Places, TableQueued, OneSender, Before, At
<1>3. QueuedInTime'
  BY <1>1 DEF QueuedInTime
<1>4. PICK h \in 1..5 : h = fifo.head /\ i2c_com.queue = OV7670_init[h]
  BY <1>1 DEF Sending
<1>5. PICK k \in 0..2 : k = i2c_com.count
  BY <1>1 DEF SetupTypes
<1>6. /\ wire \in Seq(Nat) /\ Len(wire) = 5 * h - 4 + k
      /\ bus.D \in Nat /\ bus.D = AllMessages[Len(wire) + 1]
      /\ \A i \in 1..Len(wire) : wire[i] = AllMessages[i]
  BY <1>1, <1>4, <1>5 DEF SetupTypes, Sending, OnWire
<1>7. Left = 2 - k
  BY <1>4, <1>5, TableEntries DEF Left
<1>8. CASE Left > 0
  <2>1. k + 1 \in 1..2
    BY <1>7, <1>8
  <2>2. /\ bus' = [bus EXCEPT !.D = OV7670_init[h][k + 1]]
        /\ i2c_com' = [i2c_com EXCEPT !.count = k + 1]
        /\ wire' = Append(wire, bus.D) /\ UNCHANGED ov7670_state
    BY <1>4, <1>5, <1>8 DEF I2C0_IRQHandler
  <2>3. OV7670_init[h][k + 1] \in Nat /\ OV7670_init[h][k + 1] # NoByte
    <3>1. k + 1 = 1 \/ k + 1 = 2
      BY <2>1
    <3>2. /\ OV7670_init[h][1] \in Nat /\ OV7670_init[h][1] # NoByte
          /\ OV7670_init[h][2] \in Nat /\ OV7670_init[h][2] # NoByte
      BY TableEntry
    <3>3. QED
      BY <3>1, <3>2
  <2>4. /\ bus'.taken /\ bus'.D = OV7670_init[h][k + 1] /\ i2c_com'.count = k + 1
        /\ i2c_com'.queue = OV7670_init[h]
    BY <1>1, <1>4, <2>2 DEF SetupTypes, Sending
  <2>5. /\ wire' \in Seq(Nat) /\ Len(wire') = Len(wire) + 1 /\ wire'[Len(wire) + 1] = bus.D
        /\ \A i \in 1..Len(wire) : wire'[i] = wire[i]
    BY <1>6, <2>2
  <2>6. SetupTypes'
    <3>1. bus' \in [taken: BOOLEAN, D: Nat]
      BY <1>1, <2>2, <2>3 DEF SetupTypes
    <3>2. i2c_com' \in [queue: Seq(Nat), count: 0..2, end_routine: {NoCall, "end_routine_callback"}]
      <4>1. k + 1 \in 0..2
        BY <2>1
      <4>2. QED
        BY <1>1, <2>2, <4>1 DEF SetupTypes
    <3>3. QED
      <4>1. aged' \in BOOLEAN /\ UNCHANGED <<fifo, moved, ov7670_state>>
        BY <1>1, <2>2 DEF I2C0_IRQHandler
      <4>2. QED
        BY <1>1, <2>5, <3>1, <3>2, <4>1 DEF SetupTypes
  <2>7. \A i \in 1..Len(wire') : wire'[i] = AllMessages[i]
    <3> SUFFICES ASSUME NEW i \in 1..Len(wire') PROVE wire'[i] = AllMessages[i]
      OBVIOUS
    <3>1. i \in 1..Len(wire) \/ i = Len(wire) + 1
      BY <1>6, <2>5
    <3>2. QED
      BY <1>6, <2>5, <3>1
  <2>8. bus'.D = AllMessages[Len(wire') + 1]
    <3>1. Len(wire') + 1 = 5 * h - 2 + k
      BY <1>6, <2>5
    <3>2. CASE k = 0
      <4>1. Len(wire') + 1 = 5 * h - 2 /\ k + 1 = 1
        BY <3>1, <3>2
      <4>2. QED
        BY <2>4, <4>1, MessagePlaces
    <3>3. CASE k = 1
      <4>1. Len(wire') + 1 = 5 * h - 1 /\ k + 1 = 2
        BY <3>1, <3>3
      <4>2. QED
        BY <2>4, <4>1, MessagePlaces
    <3>4. QED
      BY <2>1, <3>2, <3>3
  <2>9. FifoTimer'.cnt <= i2c_com'.count + (IF aged' THEN 1 ELSE 0)
    <3>1. FifoTimer'.cnt = FifoTimer.cnt /\ FifoTimer.cnt <= k + (IF aged THEN 1 ELSE 0)
      BY <1>1, <1>5 DEF FifoTimer, Sending
    <3>2. FifoTimer'.cnt <= k + 1
      <4>1. FifoTimer.cnt \in Nat
        BY <1>1, FifoTimerIsTimer DEF Before, At
      <4>2. QED
        BY <3>1, <4>1
    <3>3. QED
      BY <1>1, <2>4, <3>2
  <2>10. Sending'
    <3>1. Len(wire') = 5 * h - 4 + (k + 1)
      BY <1>6, <2>5
    <3>2. QED
      BY <1>1, <1>4, <2>2, <2>4, <2>8, <2>9, <3>1 DEF Sending
  <2>11. OnWire'
    BY <1>1, <2>2, <2>3, <2>4, <2>7, <2>10 DEF OnWire
  <2>12. QED
    BY <1>2, <1>3, <2>6, <2>11 DEF SetupInv
<1>9. CASE Left = 0
  <2>1. /\ k = 2 /\ bus' = [taken |-> FALSE, D |-> NoByte] /\ wire' = wire \o <<bus.D, STOP>>
        /\ ov7670_state' = end_routine /\ UNCHANGED i2c_com
    <3>1. k = 2
      BY <1>7, <1>9
    <3>2. ~(Left > 0)
      BY <1>9
    <3>3. QED
      BY <3>1, <3>2 DEF I2C0_IRQHandler
  <2>2. Len(wire) = 5 * h - 2 /\ Len(wire) + 1 = 5 * h - 1 /\ Len(wire) + 2 = 5 * h
    BY <1>6, <2>1
  <2>3. /\ wire' \in Seq(Nat) /\ Len(wire') = Len(wire) + 2
        /\ wire'[Len(wire) + 1] = bus.D /\ wire'[Len(wire) + 2] = STOP
        /\ \A i \in 1..Len(wire) : wire'[i] = wire[i]
    BY <1>6, <2>1 DEF STOP
  <2>4. SetupTypes'
    <3>1. bus' \in [taken: BOOLEAN, D: Nat] /\ aged' \in BOOLEAN
      <4>1. NoByte \in Nat
        BY DEF NoByte
      <4>2. aged' = FALSE
        BY DEF I2C0_IRQHandler
      <4>3. QED
        BY <2>1, <4>1, <4>2
    <3>2. ov7670_state' \in {"not_initialized", "busy", "ready"}
      BY <1>1, <2>1 DEF SetupTypes, end_routine
    <3>3. QED
      BY <1>1, <2>1, <2>3, <3>1, <3>2 DEF SetupTypes
  <2>5. \A i \in 1..Len(wire') : wire'[i] = AllMessages[i]
    <3> SUFFICES ASSUME NEW i \in 1..Len(wire') PROVE wire'[i] = AllMessages[i]
      OBVIOUS
    <3>1. i \in 1..Len(wire) \/ i = Len(wire) + 1 \/ i = Len(wire) + 2
      BY <1>6, <2>3
    <3>2. AllMessages[Len(wire) + 2] = STOP
      BY <2>2, MessagePlaces
    <3>3. QED
      BY <1>6, <2>3, <3>1, <3>2
  <2>6. Idle'
    BY <1>1, <1>4, <2>1, <2>2, <2>3 DEF Idle
  <2>7. ov7670_state' = "ready" => fifo'.head = 5
    BY <1>1, <2>1 DEF end_routine, I2C_FIFO_is_empty, TableQueued, Queued, Sending
  <2>8. OnWire'
    BY <2>1, <2>5, <2>6, <2>7 DEF OnWire
  <2>9. QED
    BY <1>2, <1>3, <2>4, <2>8 DEF SetupInv
<1>10. QED
  BY <1>7, <1>8, <1>9

-----------------------------------------------------------------------------

\* The strengthening of WireCarriesTable and ReadyMeansConfigured: TaskStart
\* stays ahead of the queue's timer, and each message of its own.
THEOREM SetupInvariant == Spec => []SetupInv
<1>1. Init => SetupInv
  <2> SUFFICES ASSUME Init PROVE SetupInv
    OBVIOUS
  <2>1. /\ fifo = [cell |-> [i \in 0..I2C_FIFO_SIZE - 1 |-> <<>>],
                 head |-> 0, tail |-> 0, callback |-> NoCall]
        /\ i2c_com = [queue |-> <<>>, count |-> 0, end_routine |-> NoCall]
        /\ bus = [taken |-> FALSE, D |-> NoByte] /\ wire = <<>> /\ ~aged /\ aged \in BOOLEAN
        /\ moved = 0 /\ ov7670_state = "not_initialized" /\ pc.TaskStart = <<"I2C_FIFO_init", 0>>
        /\ \A x \in TimerId : timers[x].callback = "NULL"
    BY DEF Init, TimersInit
  <2>2. SetupTypes
    BY <2>1, SetupAssumption DEF SetupTypes, NoByte
  <2>3. Before /\ Places /\ TableQueued
    BY <2>1 DEF Before, Places, TableQueued, Queued, At
  <2>4. QueuedInTime /\ OneSender /\ OnWire
    BY <2>1, <2>3 DEF QueuedInTime, OneSender, OnWire, Idle
  <2>5. QED
    BY <2>2, <2>3, <2>4 DEF SetupInv
<1>2. TimersInv /\ SetupInv /\ [Next]_vars => SetupInv'
  <2> SUFFICES ASSUME TimersInv, SetupInv, [Next]_vars PROVE SetupInv'
    OBVIOUS
  <2>1. CASE TaskStart
    BY <2>1, FifoInitSetup, StartFifoSetup, CallbacksKeep, MessagesKeep DEF TaskStart
  <2>2. CASE Task2
    BY <2>2, Task2Keeps
  <2>3. CASE Tick
    BY <2>3, TickSetup
  <2>4. CASE I2C0_IRQHandler
    BY <2>4, ByteKeeps
  <2>5. CASE UNCHANGED vars
    <3>1. UNCHANGED <<fifo, i2c_com, bus, ov7670_state, wire, aged, moved, id, pc, timers>>
      BY <2>5 DEF vars, timerVars, camVars, taskVars
    <3>2. SetupTypes' /\ Places' /\ TableQueued'
      BY <3>1 DEF SetupInv, SetupTypes, Places, TableQueued, Before, At
    <3>3. QueuedInTime' /\ OneSender' /\ OnWire'
      BY <3>1 DEF SetupInv, QueuedInTime, OneSender, OnWire, Idle, Sending, FifoTimer, Before, At
    <3>4. QED
      BY <3>2, <3>3 DEF SetupInv
  <2>6. QED
    BY <2>1, <2>2, <2>3, <2>4, <2>5 DEF Next
<1>3. QED
  BY <1>1, <1>2, TimersInvariant, PTL DEF Spec

\* I2C_Driver.c: whatever the tick cuts, the wire carries the messages of the
\* table whole and in order, if the queue has room for them and their period is
\* longer than a message.
THEOREM WireAlwaysCarriesTable == Spec => []WireCarriesTable
<1>1. SetupInv => WireCarriesTable
  <2> SUFFICES ASSUME SetupInv PROVE WireCarriesTable
    OBVIOUS
  <2>1. wire \in Seq(Nat) /\ \A i \in 1..Len(wire) : wire[i] = AllMessages[i]
    BY DEF SetupInv, SetupTypes, OnWire
  <2>2. Len(wire) <= 25
    <3>1. PICK h \in 0..5, k \in 0..2 : h = fifo.head /\ k = i2c_com.count
      BY DEF SetupInv, SetupTypes
    <3>2. Len(wire) = 5 * h \/ Len(wire) = 5 * h - 4 + k
      BY <3>1 DEF SetupInv, OnWire, Idle, Sending
    <3>3. QED
      BY <3>2
  <2>3. PICK n \in Nat : n = Len(wire) /\ n <= 25
    BY <2>1, <2>2
  <2>4. /\ SubSeq(AllMessages, 1, n) \in Seq(Nat) /\ Len(SubSeq(AllMessages, 1, n)) = n
        /\ \A i \in 1..n : SubSeq(AllMessages, 1, n)[i] = AllMessages[i]
    <3>1. n \in Int /\ 1 \in Int /\ \A i \in 1..n : AllMessages[i] \in Nat
      <4>1. \A i \in 1..25 : AllMessages[i] \in Nat
        BY MessagePlaces
      <4>2. \A i \in 1..n : i \in 1..25
        BY <2>3
      <4>3. \A i \in 1..n : AllMessages[i] \in Nat
        BY <4>1, <4>2
      <4>4. n \in Int /\ 1 \in Int
        OBVIOUS
      <4>5. QED
        BY <4>3, <4>4
    <3>2. /\ SubSeq(AllMessages, 1, n) \in Seq(Nat)
          /\ Len(SubSeq(AllMessages, 1, n)) = IF 1 <= n THEN n - 1 + 1 ELSE 0
          /\ \A i \in 1..n - 1 + 1 : SubSeq(AllMessages, 1, n)[i] = AllMessages[1 + i - 1]
      BY <3>1, SubSeqProperties
    <3>3. n - 1 + 1 = n /\ \A i \in 1..n : 1 + i - 1 = i
      OBVIOUS
    <3>4. QED
      BY <3>2, <3>3
  <2>5. wire = SubSeq(AllMessages, 1, n)
    BY <2>1, <2>3, <2>4, SeqEqual
  <2>6. QED
    BY <2>2, <2>3, <2>5, MessagePlaces DEF WireCarriesTable
<1>2. QED
  BY <1>1, SetupInvariant, PTL

\* I2C_FIFO_end_routine_callback: the camera is not said to be ready while a
\* message waits, is on its way or has yet to be queued.
THEOREM ReadyAfterConfiguration == Spec => []ReadyMeansConfigured
<1>1. SetupInv => ReadyMeansConfigured
  <2> SUFFICES ASSUME SetupInv, ov7670_state = "ready"
               PROVE  wire = AllMessages /\ pc.TaskStart[1] = "OV7670_run"
    BY DEF ReadyMeansConfigured
  <2>1. pc.TaskStart[1] = "OV7670_run"
    BY DEF SetupInv, QueuedInTime
  <2>2. Idle /\ fifo.head = 5
    BY DEF SetupInv, OnWire, Sending
  <2>3. /\ wire \in Seq(Nat) /\ Len(wire) = 25
        /\ \A i \in 1..25 : wire[i] = AllMessages[i]
    BY <2>2 DEF SetupInv, SetupTypes, OnWire, Idle
  <2>4. wire = AllMessages
    BY <2>3, MessagePlaces, SeqEqual
  <2>5. QED
    BY <2>1, <2>4
<1>2. QED
  BY <1>1, SetupInvariant, PTL
=============================================================================
