------------------------------- MODULE Timers -------------------------------
(***************************************************************************)
(* The software timers of timer.c.  timer_isr, the hook of the 1 ms tick,  *)
(* counts every running timer and runs the callback of one whose period is *)
(* over.  timerStart is called by a task and may be cut by a tick between  *)
(* any two of its stores.  mode, running and expired are bits of one byte: *)
(* a store to one of them loads the byte, changes it and stores it back.   *)
(***************************************************************************)
EXTENDS Naturals, Sequences

CONSTANTS TIMERS_MAX_CANT, TIMER_INVALID_ID

ASSUME TimersAssumption ==
  /\ TIMERS_MAX_CANT \in Nat \ {0}
  /\ TIMER_INVALID_ID \in Nat /\ TIMER_INVALID_ID >= TIMERS_MAX_CANT

VARIABLES timers, timers_cant,
          flags,     \* the byte of bits timerStart has loaded
          since,     \* history: ticks since a timer was started or fired
          fired      \* history: ticks a timer took the last time it fired

timerVars == <<timers, timers_cant, flags, since, fired>>

TimerId == 0..TIMERS_MAX_CANT - 1
Flags   == [mode : {"single", "periodic"}, running : BOOLEAN, expired : BOOLEAN]

NoFlags == [mode |-> "single", running |-> FALSE, expired |-> FALSE]

TimersInit ==
  /\ timers = [id \in TimerId |->
                 [period |-> 0, cnt |-> 0, callback |-> "NULL", flags |-> NoFlags]]
  /\ timers_cant = 1           \* TIMER_ID_INTERNAL is taken
  /\ flags = NoFlags
  /\ since = [id \in TimerId |-> 0] /\ fired = [id \in TimerId |-> 0]

timerGetId ==
  IF timers_cant >= TIMERS_MAX_CANT THEN TIMER_INVALID_ID ELSE timers_cant

TakeId ==
  /\ timers_cant < TIMERS_MAX_CANT
  /\ timers_cant' = timers_cant + 1
  /\ timers' = [timers EXCEPT ![timers_cant].flags.running = FALSE]
  /\ UNCHANGED <<flags, since, fired>>

-----------------------------------------------------------------------------
(* timerStart(id, ticks, mode, callback), one store at a time *)

Load(id)         == flags' = timers[id].flags /\ UNCHANGED <<timers, since>>
Store(id, field, value) ==
  /\ timers' = [timers EXCEPT ![id][field] = value]
  /\ UNCHANGED <<flags, since>>
StoreFlag(id, bit, value) == Store(id, "flags", [flags EXCEPT ![bit] = value])

\* The timer is enabled: its time begins.
Enable(id) ==
  /\ timers' = [timers EXCEPT ![id].flags = [flags EXCEPT !.running = TRUE]]
  /\ since' = [since EXCEPT ![id] = 0]
  /\ UNCHANGED flags

timerStartSteps == 11

\* Mutant: the timer is configured while it runs.
timerStartRunning(id, ticks, mode, callback, n) ==
  /\ id < timers_cant
  /\ \/ n \in {1, 5, 7, 10} /\ Load(id)
     \/ n = 2  /\ UNCHANGED <<timers, flags, since>>
     \/ n = 3  /\ Store(id, "callback", callback)
     \/ n = 4  /\ Store(id, "cnt", 0)
     \/ n = 6  /\ StoreFlag(id, "expired", FALSE)
     \/ n = 8  /\ StoreFlag(id, "mode", mode)
     \/ n = 9  /\ Store(id, "period", ticks)
     \/ n = 11 /\ Enable(id)
  /\ UNCHANGED <<timers_cant, fired>>

\* The guard on id is the code's.  It never refuses a call here: both callers
\* pass an id they have got from timerGetId.  So it is with the guard on mode.
timerStart(id, ticks, mode, callback, n) ==
  /\ id < timers_cant
  /\ \/ n \in {1, 5, 7, 10} /\ Load(id)
     \/ n = 2  /\ StoreFlag(id, "running", FALSE)
     \/ n = 3  /\ Store(id, "callback", callback)
     \/ n = 4  /\ Store(id, "cnt", 0)
     \/ n = 6  /\ StoreFlag(id, "expired", FALSE)
     \/ n = 8  /\ StoreFlag(id, "mode", mode)
     \/ n = 9  /\ Store(id, "period", ticks)
     \/ n = 11 /\ Enable(id)
  /\ UNCHANGED <<timers_cant, fired>>

-----------------------------------------------------------------------------
(* The tick *)

Running == {id \in TimerId : id < timers_cant /\ timers[id].flags.running}
Due     == {id \in Running : timers[id].cnt + 1 >= timers[id].period}

Callbacks == {timers[id].callback : id \in Due}

\* Mutant: a periodic timer stops too.
ExpiredOnce(timer) ==
  [timer EXCEPT !.cnt = 0, !.flags.running = FALSE, !.flags.expired = TRUE]

Counted(timer) == [timer EXCEPT !.cnt = @ + 1]
Expired(timer) ==
  IF timer.flags.mode = "single"
  THEN [timer EXCEPT !.cnt = 0, !.flags.running = FALSE, !.flags.expired = TRUE]
  ELSE [timer EXCEPT !.cnt = 0]

\* All of it but the callbacks.
timer_isr ==
  /\ timers' = [id \in TimerId |-> IF id \in Due THEN Expired(timers[id])
                                   ELSE IF id \in Running THEN Counted(timers[id])
                                   ELSE timers[id]]
  /\ fired' = [id \in TimerId |-> IF id \in Due THEN since[id] + 1 ELSE fired[id]]
  /\ since' = [id \in TimerId |-> IF id \in Running \ Due THEN since[id] + 1 ELSE 0]
  /\ UNCHANGED <<timers_cant, flags>>

-----------------------------------------------------------------------------

\* A timer fires when its period is over, counted from the return of the
\* timerStart that started it or from the last time it fired: a tick in the
\* middle of timerStart neither fires it early nor makes it lose a tick.
FiresOnTime ==
  \A id \in TimerId : /\ fired[id] \in {0, timers[id].period}
                      /\ id \in Running => since[id] < timers[id].period
=============================================================================
