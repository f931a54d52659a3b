----------------------------- MODULE CameraSetup -----------------------------
(***************************************************************************)
(* How the camera gets its configuration.  OV7670_Init, in TaskStart,      *)
(* queues one I2C message per register (I2C_FIFO_driver.c); the queue's    *)
(* timer starts one message every I2C_PERIOD ticks, without asking whether *)
(* the last one has ended; the I2C interrupt (I2C_Driver.c) sends it byte  *)
(* by byte, and its end with an empty queue makes the camera ready.        *)
(*                                                                         *)
(* Task2, which TaskStart creates afterwards, restarts its door timer      *)
(* (main.c) whenever it opens the door.                                    *)
(*                                                                         *)
(* Time: at 58.6 kHz a byte takes less than a tick, so that at most one    *)
(* tick comes while it is on the wire; TaskStart, the only task then, does *)
(* at least TICK_STEPS of the steps below between two ticks, which are     *)
(* 120,000 cycles apart.  Task2 may be preempted for any number of ticks.  *)
(***************************************************************************)
EXTENDS Timers

CONSTANTS I2C_FIFO_SIZE,
          I2C_PERIOD,      \* ticks between two messages
          DOOR_PERIOD,     \* ticks the door stays open
          TICK_STEPS       \* steps of TaskStart between two ticks, at least

ASSUME SetupAssumption ==
  /\ I2C_FIFO_SIZE \in Nat \ {0} /\ I2C_PERIOD \in Nat \ {0}
  /\ DOOR_PERIOD \in Nat \ {0} /\ TICK_STEPS \in Nat

\* Register and value of each message.
OV7670_init == << <<17, 15>>, <<21, 32>>, <<50, 246>>, <<23, 19>>, <<24, 1>> >>

\* The queue holds the whole table; a message, three bytes, ends within its
\* period; TaskStart queues all of them before the timer starts the first.
ASSUME PaceAssumption ==
  /\ I2C_FIFO_SIZE > Len(OV7670_init)
  /\ I2C_PERIOD >= 4
  /\ TICK_STEPS * (I2C_PERIOD - 1) > 3 * Len(OV7670_init) + 2

Address == 66               \* 0x21 << 1, to be written
START   == 256              \* conditions on the wire, no bytes
STOP    == 257
NoByte  == 258
NoCall  == "NULL"

VARIABLES fifo,             \* the queue of messages and its callback
          i2c_com,          \* the message being sent, bytes taken from it
          bus,              \* the I2C module: bus taken, byte being sent
          ov7670_state,
          door, id, pc,     \* the door LED, timer ids and control of the tasks
          aged,             \* a tick has come since the byte began
          moved,            \* steps of TaskStart since the last tick
          wire              \* history: what went over the wire

camVars  == <<fifo, i2c_com, bus, ov7670_state, wire>>
taskVars == <<door, id, pc>>
vars     == <<timerVars, camVars, taskVars, aged, moved>>

Init ==
  /\ TimersInit
  /\ fifo = [cell |-> [i \in 0..I2C_FIFO_SIZE - 1 |-> <<>>],
             head |-> 0, tail |-> 0, callback |-> NoCall]
  /\ i2c_com = [queue |-> <<>>, count |-> 0, end_routine |-> NoCall]
  /\ bus = [taken |-> FALSE, D |-> NoByte]
  /\ ov7670_state = "not_initialized"
  /\ door = "closed"
  /\ id = [I2C_FIFO_timer |-> TIMER_INVALID_ID, led_timer |-> TIMER_INVALID_ID]
  /\ pc = [TaskStart |-> <<"I2C_FIFO_init", 0>>, Task2 |-> <<"none", 0>>]
  /\ aged = FALSE /\ moved = 0
  /\ wire = <<>>

I2C_FIFO_is_empty == fifo.head = fifo.tail

-----------------------------------------------------------------------------
(* TaskStart: OV7670_Init *)

At(task, label, n) == pc[task] = <<label, n>>

Goto(task, label, n) == pc' = [pc EXCEPT ![task] = <<label, n>>]

\* A step of TaskStart that leaves the wire alone.
Quick ==
  /\ moved' = IF moved < TICK_STEPS THEN moved + 1 ELSE moved
  /\ UNCHANGED <<bus, wire, door, aged>>

I2C_FIFO_init ==
  /\ At("TaskStart", "I2C_FIFO_init", 0)
  /\ id' = [id EXCEPT !.I2C_FIFO_timer = timerGetId] /\ TakeId
  /\ Goto("TaskStart", "timerStart", 1)
  /\ Quick /\ UNCHANGED <<fifo, i2c_com, ov7670_state>>

\* Mutant: a message may be started before the last one has ended.
MessagePeriodShort == 2

MessagePeriod == I2C_PERIOD

StartFifoTimer ==
  \E n \in 1..timerStartSteps :
    /\ At("TaskStart", "timerStart", n)
    /\ timerStart(id.I2C_FIFO_timer, MessagePeriod, "periodic", "send_next_message", n)
    /\ IF n < timerStartSteps THEN Goto("TaskStart", "timerStart", n + 1)
                              ELSE Goto("TaskStart", "I2C_End_Routine", 0)
    /\ Quick /\ UNCHANGED <<id, fifo, i2c_com, ov7670_state>>

I2C_End_Routine ==
  /\ At("TaskStart", "I2C_End_Routine", 0)
  /\ i2c_com' = [i2c_com EXCEPT !.end_routine = "end_routine_callback"]
  /\ Goto("TaskStart", "empty_callback", 0)
  /\ Quick /\ UNCHANGED <<timerVars, id, fifo, ov7670_state>>

I2C_FIFO_empty_callback ==
  /\ At("TaskStart", "empty_callback", 0)
  /\ fifo' = [fifo EXCEPT !.callback = "I2C_finished_callback"]
  /\ Goto("TaskStart", "OV7670_Config", 1)
  /\ Quick /\ UNCHANGED <<timerVars, id, i2c_com, ov7670_state>>

OV7670_Config(m) ==
  /\ At("TaskStart", "OV7670_Config", m) /\ m <= Len(OV7670_init)
  /\ ov7670_state' = "busy"
  /\ Goto("TaskStart", "fill", m)
  /\ Quick /\ UNCHANGED <<timerVars, id, fifo, i2c_com>>

\* I2C_FIFO_new_message: the cell, ...
FillCell(m) ==
  /\ At("TaskStart", "fill", m)
  /\ fifo' = [fifo EXCEPT !.cell[fifo.tail] = OV7670_init[m]]
  /\ Goto("TaskStart", "advance", m)
  /\ Quick /\ UNCHANGED <<timerVars, id, i2c_com, ov7670_state>>

Next1(i) == (i + 1) % I2C_FIFO_SIZE

\* ... then the index; a full queue loses its oldest message.
AdvanceTail(m) ==
  /\ At("TaskStart", "advance", m)
  /\ fifo' = [fifo EXCEPT !.tail = Next1(@),
                          !.head = IF @ = Next1(fifo.tail) THEN Next1(@) ELSE @]
  /\ Goto("TaskStart", "OV7670_Config", m + 1)
  /\ Quick /\ UNCHANGED <<timerVars, id, i2c_com, ov7670_state>>

\* OV7670_Init returns and TaskStart creates Task2.
CreateTask2 ==
  /\ At("TaskStart", "OV7670_Config", Len(OV7670_init) + 1)
  /\ pc' = [TaskStart |-> <<"OV7670_run", 0>>, Task2 |-> <<"timerGetId", 0>>]
  /\ Quick /\ UNCHANGED <<timerVars, id, fifo, i2c_com, ov7670_state>>

TaskStart ==
  \/ I2C_FIFO_init \/ StartFifoTimer \/ I2C_End_Routine
  \/ I2C_FIFO_empty_callback \/ CreateTask2
  \/ \E m \in DOMAIN OV7670_init : OV7670_Config(m) \/ FillCell(m) \/ AdvanceTail(m)

-----------------------------------------------------------------------------
(* Task2: the door *)

GetLedTimer ==
  /\ At("Task2", "timerGetId", 0)
  /\ id' = [id EXCEPT !.led_timer = timerGetId] /\ TakeId
  /\ Goto("Task2", "loop", 0)
  /\ UNCHANGED <<camVars, door, aged, moved>>

OpenDoor ==
  /\ At("Task2", "loop", 0)
  /\ door' = "open"
  /\ Goto("Task2", "timerStart", 1)
  /\ UNCHANGED <<timerVars, camVars, id, aged, moved>>

StartDoorTimer ==
  \E n \in 1..timerStartSteps :
    /\ At("Task2", "timerStart", n)
    /\ timerStart(id.led_timer, DOOR_PERIOD, "single", "close_door", n)
    /\ IF n < timerStartSteps THEN Goto("Task2", "timerStart", n + 1)
                              ELSE Goto("Task2", "loop", 0)
    /\ UNCHANGED <<camVars, door, id, aged, moved>>

Task2 == GetLedTimer \/ OpenDoor \/ StartDoorTimer

-----------------------------------------------------------------------------
(* Interrupts.  They have one priority and do not nest. *)

\* I2C_FIFO_send_next_message, which runs I2C_Communication_Config.
send_next_message ==
  IF I2C_FIFO_is_empty
  THEN UNCHANGED <<fifo, i2c_com, bus, wire>>
  ELSE /\ fifo' = [fifo EXCEPT !.head = Next1(@)]
       /\ i2c_com' = [i2c_com EXCEPT !.queue = fifo.cell[fifo.head], !.count = 0]
       /\ bus' = [taken |-> TRUE, D |-> Address]
       /\ wire' = IF bus.taken THEN wire ELSE Append(wire, START)

Tick ==
  /\ ~aged /\ (moved = TICK_STEPS \/ pc.TaskStart[1] = "OV7670_run")
  /\ timer_isr
  /\ IF "send_next_message" \in Callbacks
     THEN send_next_message ELSE UNCHANGED <<fifo, i2c_com, bus, wire>>
  /\ door' = IF "close_door" \in Callbacks THEN "closed" ELSE door
  /\ aged' = (bus.D # NoByte)
  /\ moved' = 0
  /\ UNCHANGED <<ov7670_state, id, pc>>

\* Bytes of the message still to be sent.
Left == Len(i2c_com.queue) - i2c_com.count

\* Mutant: the end of any message makes the camera ready.
end_routine_eager ==
  IF fifo.callback = NoCall THEN ov7670_state ELSE "ready"

\* I2C_FIFO_end_routine_callback and I2C_finished_callback.
end_routine ==
  IF I2C_FIFO_is_empty /\ fifo.callback # NoCall THEN "ready" ELSE ov7670_state

\* A byte is over.  Acknowledgements are not looked at, and no message asks for
\* bytes to be read.
I2C0_IRQHandler ==
  /\ bus.D # NoByte
  /\ \/ /\ Left > 0
        /\ bus' = [bus EXCEPT !.D = i2c_com.queue[i2c_com.count + 1]]
        /\ i2c_com' = [i2c_com EXCEPT !.count = @ + 1]
        /\ wire' = Append(wire, bus.D)
        /\ UNCHANGED ov7670_state
     \/ /\ Left = 0
        /\ bus' = [taken |-> FALSE, D |-> NoByte]
        /\ wire' = wire \o <<bus.D, STOP>>
        /\ ov7670_state' = end_routine
        /\ UNCHANGED i2c_com
  /\ aged' = FALSE
  /\ UNCHANGED <<timerVars, fifo, taskVars, moved>>

Next == TaskStart \/ Task2 \/ Tick \/ I2C0_IRQHandler

Spec == Init /\ [][Next]_vars

\* Ticks recur, a byte ends, and TaskStart, which has nothing to wait for here,
\* goes on.
FairSpec == Spec /\ WF_vars(Tick) /\ WF_vars(I2C0_IRQHandler) /\ WF_vars(TaskStart)

-----------------------------------------------------------------------------

Message(m) == <<START, Address, OV7670_init[m][1], OV7670_init[m][2], STOP>>

\* What the wire is to carry: the messages one after the other, five symbols each.
AllMessages ==
  [i \in 1..5 * Len(OV7670_init) |-> Message(1 + (i - 1) \div 5)[1 + ((i - 1) % 5)]]

\* The wire carries the messages of the table in their order, each whole and
\* once, although nothing makes the timer wait for the end of a message.
WireCarriesTable ==
  /\ Len(wire) <= Len(AllMessages)
  /\ wire = SubSeq(AllMessages, 1, Len(wire))

\* The camera is ready, and may be asked for a picture, only when every message
\* has been queued and its last byte has left.
ReadyMeansConfigured ==
  ov7670_state = "ready" => wire = AllMessages /\ pc.TaskStart[1] = "OV7670_run"

\* The camera becomes ready and stays so.
CameraBecomesReady == <>[](ov7670_state = "ready")
=============================================================================
