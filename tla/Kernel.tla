------------------------------- MODULE Kernel -------------------------------
(***************************************************************************)
(* The uC/OS-III services the application uses, down to the ready lists,   *)
(* the pend lists, priority inheritance through mutex groups and the       *)
(* context switch of the Cortex-M port.                                    *)
(*                                                                         *)
(* `os' holds the kernel's global variables.  Each kernel function is an   *)
(* operator from a value of `os' to the next; it runs with interrupts      *)
(* disabled, so a service is one step.  A service that readies or blocks a *)
(* task calls OSSched() after interrupts have been enabled again: that is  *)
(* a step of its own, and interrupts may come before it.  OSSched() only   *)
(* requests the switch (PendSV), which runs when no interrupt is left.     *)
(*                                                                         *)
(* All interrupts have one priority and do not nest.  The port interrupts  *)
(* of the application post semaphores without OSIntEnter() and OSIntExit():*)
(* the post itself calls OSSched() from the handler.                       *)
(*                                                                         *)
(* No pend has a timeout and no wait is aborted, so no task's priority is  *)
(* lowered while it waits.  The kernel's own tasks (tick, timer,           *)
(* statistics) use none of these objects and are left out.                 *)
(***************************************************************************)
EXTENDS Naturals, FiniteSets, SequencesExt

CONSTANTS Mutexes, Sems, \* the kernel objects
          MaxNest,       \* bound: depth a task nests a mutex
          MaxCtr         \* bound: posts counted in a semaphore

Nothing == "nothing"       \* OS_TASK_PEND_ON_NOTHING

ASSUME KernelAssumption ==
  /\ Mutexes \cap Sems = {} /\ Nothing \notin Mutexes \cup Sems
  /\ MaxNest \in Nat \ {0} /\ MaxCtr \in Nat \ {0}

Rtos == INSTANCE Rtos

Idle    == "OSIdleTask"
AppTask == Rtos!Task
NoTask  == Rtos!NoTask
Task    == AppTask \cup {Idle}

OS_CFG_PRIO_MAX == 6       \* 32 in os_cfg.h; one above the idle task's
Priority == 0..OS_CFG_PRIO_MAX - 1

BasePrio == [t \in Task |-> IF t = Idle THEN OS_CFG_PRIO_MAX - 1
                                        ELSE Rtos!Prio[t]]

VARIABLES os,        \* the kernel's global variables and control blocks
          pc,        \* a task is in its own code or about to call OSSched
          lockers    \* the tasks that use mutexes, fixed by the program

vars == <<os, pc, lockers>>

\* Each base priority has one task.
FirstReady(p) ==
  LET at == {t \in Task : BasePrio[t] = p}
  IN IF at = {} THEN <<>> ELSE <<CHOOSE t \in at : TRUE>>

Init ==
  /\ os = [Prio     |-> BasePrio,
           PendOn   |-> [t \in Task |-> Nothing],
           RdyList  |-> [p \in Priority |-> FirstReady(p)],
           PrioTbl  |-> {BasePrio[t] : t \in Task},
           Owner    |-> [m \in Mutexes |-> NoTask],
           Nesting  |-> [m \in Mutexes |-> 0],
           MutexGrp |-> [t \in Task |-> {}],
           Ctr      |-> [s \in Sems |-> 0],
           PendList |-> [o \in Mutexes \cup Sems |-> <<>>],
           TCBCur     |-> "TaskStart", PrioCur     |-> BasePrio["TaskStart"],
           TCBHighRdy |-> "TaskStart", PrioHighRdy |-> BasePrio["TaskStart"],
           PendSV   |-> FALSE]
  /\ pc = [t \in Task |-> "task"]
  /\ lockers \in SUBSET AppTask

-----------------------------------------------------------------------------
(* Ready list and priority table.  OSPrioTbl, a bitmap, is the set of its  *)
(* bits.                                                                   *)

OS_PrioInsert(k, p) == [k EXCEPT !.PrioTbl = @ \cup {p}]
OS_PrioRemove(k, p) == [k EXCEPT !.PrioTbl = @ \ {p}]
OS_PrioGetHighest(k) == Min(k.PrioTbl)

OS_RdyListInsertHead(k, t) == [k EXCEPT !.RdyList[k.Prio[t]] = <<t>> \o @]
OS_RdyListInsertTail(k, t) == [k EXCEPT !.RdyList[k.Prio[t]] = Append(@, t)]

OS_RdyListInsert(k, t) ==
  LET k1 == OS_PrioInsert(k, k.Prio[t]) IN
  IF k.Prio[t] = k.PrioCur THEN OS_RdyListInsertTail(k1, t)
                           ELSE OS_RdyListInsertHead(k1, t)

OS_RdyListRemove(k, t) ==
  LET p  == k.Prio[t]
      k1 == [k EXCEPT !.RdyList[p] = RemoveFirst(@, t)]
  IN IF k1.RdyList[p] = <<>> THEN OS_PrioRemove(k1, p) ELSE k1

OS_RdyListMoveHeadToTail(k, p) ==
  [k EXCEPT !.RdyList[p] = Append(Tail(@), Head(@))]

\* Mutant: OSTCBHighRdyPtr is only written when there is something to switch.
OSSchedLazy(k) ==
  LET p == OS_PrioGetHighest(k)
      t == Head(k.RdyList[p])
  IN IF t = k.TCBCur THEN k
     ELSE [k EXCEPT !.PrioHighRdy = p, !.TCBHighRdy = t, !.PendSV = TRUE]

\* Outside the tick interrupt OSIntNestingCtr is zero, so OSSched does its work
\* in a port interrupt too.  OSIntExit ends the tick interrupt the same way.
OSSched(k) ==
  LET p == OS_PrioGetHighest(k)
      t == Head(k.RdyList[p])
  IN [k EXCEPT !.PrioHighRdy = p, !.TCBHighRdy = t, !.PendSV = @ \/ t # k.TCBCur]

-----------------------------------------------------------------------------
(* Pend lists *)

\* Behind every waiting task that is at least as urgent.
OS_PendListInsertPrio(k, o, t) ==
  LET before == SelectInSeq(k.PendList[o], LAMBDA u : k.Prio[t] < k.Prio[u])
      place  == IF before = 0 THEN Len(k.PendList[o]) + 1 ELSE before
  IN [k EXCEPT !.PendList[o] = InsertAt(@, place, t)]

\* Mutant: a waiting task whose priority has changed keeps its place.
OS_PendListKeepPlace(k, t) == k

OS_PendListChangePrio(k, t) ==
  LET o == k.PendOn[t] IN
  IF Len(k.PendList[o]) > 1
  THEN OS_PendListInsertPrio([k EXCEPT !.PendList[o] = RemoveFirst(@, t)], o, t)
  ELSE k

\* The current task waits.
OS_Pend(k, o) ==
  LET t  == k.TCBCur
      k1 == OS_RdyListRemove([k EXCEPT !.PendOn[t] = o], t)
  IN OS_PendListInsertPrio(k1, o, t)

\* Task t, which waits on o, is made ready.
OS_Post(k, o, t) ==
  LET k1 == [k EXCEPT !.PendList[o] = RemoveFirst(@, t), !.PendOn[t] = Nothing]
  IN OS_RdyListInsert(k1, t)

-----------------------------------------------------------------------------
(* Priority inheritance *)

OS_MutexGrpAdd(k, t, m)    == [k EXCEPT !.MutexGrp[t] = @ \cup {m}]
OS_MutexGrpRemove(k, t, m) == [k EXCEPT !.MutexGrp[t] = @ \ {m}]

\* The priority of the most urgent task that waits on a mutex of t.
OS_MutexGrpPrioFindHighest(k, t) ==
  Min({OS_CFG_PRIO_MAX - 1} \cup
      {k.Prio[Head(k.PendList[m])] : m \in {n \in k.MutexGrp[t] : k.PendList[n] # <<>>}})

\* One turn of the loop: t gets the more urgent priority p.  The owner of the
\* mutex t waits for follows, unless it is urgent enough.
RaiseTask(k, t, p) ==
  LET o     == k.PendOn[t]
      ready == OS_PrioInsert([OS_RdyListRemove(k, t) EXCEPT !.Prio[t] = p], p)
      waits == OS_PendListChangePrio([k EXCEPT !.Prio[t] = p], t)
  IN IF o = Nothing
     THEN << IF t = k.TCBCur THEN OS_RdyListInsertHead(ready, t)
                             ELSE OS_RdyListInsertTail(ready, t), NoTask >>
     ELSE << waits, IF o \in Mutexes /\ k.Prio[k.Owner[o]] > p
                    THEN k.Owner[o] ELSE NoTask >>

RaiseNext(turn, p) ==
  IF turn[2] = NoTask THEN turn ELSE RaiseTask(turn[1], turn[2], p)

\* No task is raised twice and Idle owns nothing: a turn for each of the other
\* tasks.
OS_TaskChangePrio(k, t, p) ==
  RaiseNext(RaiseNext(RaiseNext(<<k, t>>, p), p), p)[1]

\* Mutant: back to the base priority, whoever still waits for another mutex.
DisinheritAll(k, t) ==
  LET p == BasePrio[t]
      k1 == OS_PrioInsert([OS_RdyListRemove(k, t) EXCEPT !.Prio[t] = p], p)
  IN IF p > k.Prio[t]
     THEN [OS_RdyListInsertTail(k1, t) EXCEPT !.PrioCur = p]
     ELSE k

\* Mutant: an inherited priority is kept.
DisinheritNever(k, t) == k

\* The caller gives a mutex away: what it inherited through it is over.
Disinherit(k, t) ==
  LET p == Min({BasePrio[t], OS_MutexGrpPrioFindHighest(k, t)})
      k1 == OS_PrioInsert([OS_RdyListRemove(k, t) EXCEPT !.Prio[t] = p], p)
  IN IF k.Prio[t] # BasePrio[t] /\ p > k.Prio[t]
     THEN [OS_RdyListInsertTail(k1, t) EXCEPT !.PrioCur = p]
     ELSE k

-----------------------------------------------------------------------------
(* Services called by the running task.  A task runs its own code unless a *)
(* switch is due, which comes first.                                       *)

Running(t) == os.TCBCur = t /\ ~os.PendSV /\ pc[t] = "task"

\* The service ends, or leaves the critical section and goes on to OSSched.
Return(k)           == os' = k /\ UNCHANGED <<pc, lockers>>
ThenSched(t, k)     == os' = k /\ pc' = [pc EXCEPT ![t] = "sched"] /\ UNCHANGED lockers

OSMutexPend(t, m) ==
  /\ Running(t) /\ t \in lockers
  /\ \/ /\ os.Nesting[m] = 0
        /\ Return(OS_MutexGrpAdd([os EXCEPT !.Owner[m] = t, !.Nesting[m] = 1], t, m))
     \/ /\ os.Nesting[m] \in 1..MaxNest - 1 /\ os.Owner[m] = t
        /\ Return([os EXCEPT !.Nesting[m] = @ + 1])
     \/ /\ os.Nesting[m] > 0 /\ os.Owner[m] # t
        /\ LET owner == os.Owner[m]
               k     == IF os.Prio[owner] > os.Prio[t]
                        THEN OS_TaskChangePrio(os, owner, os.Prio[t]) ELSE os
           IN ThenSched(t, OS_Pend(k, m))

\* Mutant: the new owner's nesting counter is not set.
HandOverUncounted(k, m) ==
  LET u == Head(k.PendList[m])
  IN OS_Post(OS_MutexGrpAdd([k EXCEPT !.Owner[m] = u], u, m), m, u)

\* The mutex goes to the head of its pend list.
HandOver(k, m) ==
  LET u == Head(k.PendList[m])
  IN OS_Post(OS_MutexGrpAdd([k EXCEPT !.Owner[m] = u, !.Nesting[m] = 1], u, m), m, u)

\* A post by a task that is not the owner returns an error.
OSMutexPost(t, m) ==
  /\ Running(t) /\ os.Owner[m] = t
  /\ LET k == OS_MutexGrpRemove([os EXCEPT !.Nesting[m] = 0], t, m) IN
     \/ /\ os.Nesting[m] > 1
        /\ Return([os EXCEPT !.Nesting[m] = @ - 1])
     \/ /\ os.Nesting[m] = 1 /\ os.PendList[m] = <<>>
        /\ Return([k EXCEPT !.Owner[m] = NoTask])
     \/ /\ os.Nesting[m] = 1 /\ os.PendList[m] # <<>>
        /\ ThenSched(t, HandOver(Disinherit(k, t), m))

\* A pend that may not block returns an error when there is nothing to take.
OSSemPend(t, s) ==
  /\ Running(t)
  /\ \/ os.Ctr[s] > 0 /\ Return([os EXCEPT !.Ctr[s] = @ - 1])
     \/ os.Ctr[s] = 0 /\ ThenSched(t, OS_Pend(os, s))

PostNext(k, s) ==
  IF k.PendList[s] = <<>> THEN k ELSE OS_Post(k, s, Head(k.PendList[s]))

\* OS_OPT_POST_1 or OS_OPT_POST_ALL, with somebody waiting: one turn, or one
\* for each task that can wait.
OS_SemPost(k, s, all) ==
  IF all THEN PostNext(PostNext(PostNext(k, s), s), s) ELSE PostNext(k, s)

OSSemPost(t, s, all) ==
  /\ Running(t)
  /\ \/ /\ os.PendList[s] = <<>> /\ os.Ctr[s] < MaxCtr
        /\ Return([os EXCEPT !.Ctr[s] = @ + 1])
     \/ /\ os.PendList[s] # <<>>
        /\ ThenSched(t, OS_SemPost(os, s, all))

\* The last call of a service.
CallSched(t) ==
  /\ os.TCBCur = t /\ ~os.PendSV /\ pc[t] = "sched"
  /\ os' = OSSched(os)
  /\ pc' = [pc EXCEPT ![t] = "task"]
  /\ UNCHANGED lockers

-----------------------------------------------------------------------------
(* Exceptions *)

\* A port interrupt posts a semaphore.
PORT_IRQHandler(s, all) ==
  \/ /\ os.PendList[s] = <<>> /\ os.Ctr[s] < MaxCtr
     /\ Return([os EXCEPT !.Ctr[s] = @ + 1])
  \/ /\ os.PendList[s] # <<>>
     /\ Return(OSSched(OS_SemPost(os, s, all)))

\* The running task's time quantum may have ended (sliced).
OS_SchedRoundRobin(k, sliced) ==
  IF sliced /\ Len(k.RdyList[k.PrioCur]) > 1
  THEN OS_RdyListMoveHeadToTail(k, k.PrioCur) ELSE k

SysTick_Handler(sliced) == Return(OSSched(OS_SchedRoundRobin(os, sliced)))

\* The lowest priority: it waits for every other interrupt.
PendSV_Handler ==
  /\ os.PendSV
  /\ Return([os EXCEPT !.TCBCur = os.TCBHighRdy, !.PrioCur = os.PrioHighRdy,
                       !.PendSV = FALSE])

Next ==
  \/ \E t \in AppTask :
       \/ \E m \in Mutexes : OSMutexPend(t, m) \/ OSMutexPost(t, m)
       \/ \E s \in Sems : OSSemPend(t, s)
       \/ \E s \in Sems, all \in BOOLEAN : OSSemPost(t, s, all)
       \/ CallSched(t)
  \/ \E s \in Sems, all \in BOOLEAN : PORT_IRQHandler(s, all)
  \/ \E sliced \in BOOLEAN : SysTick_Handler(sliced)
  \/ PendSV_Handler

Spec == Init /\ [][Next]_vars

-----------------------------------------------------------------------------
(* Properties *)

Ready(t)   == os.PendOn[t] = Nothing
Waiting(o) == ToSet(os.PendList[o])

(* A task executes its own code only while it is ready and no ready task is *)
(* more urgent, whatever interrupts came between a service and its call of  *)
(* OSSched, between OSSched and the switch, or without OSIntEnter.          *)
RunsMostUrgent ==
  \A t \in Task :
    Running(t) => Ready(t) /\ \A u \in Task : Ready(u) => os.Prio[t] <= os.Prio[u]

(* A task has exactly the priority of the most urgent of itself and the     *)
(* tasks that wait, through whatever chain of mutexes, for one it owns:     *)
(* none is inherited too late, lost while another mutex is still waited     *)
(* for, or kept too long.                                                   *)
PriorityInherited ==
  \A t \in Task :
    os.Prio[t] = Min({BasePrio[t]} \cup
      UNION {{os.Prio[u] : u \in Waiting(m)} : m \in {n \in Mutexes : os.Owner[n] = t}})

(* The lists agree with the control blocks: each task is in the one list    *)
(* its state names, at its current priority; pend lists are in priority     *)
(* order, also after a waiting task has inherited a priority; OSPrioTbl     *)
(* marks the lists in use; a mutex is in the group of its owner only.       *)
ListsConsistent ==
  /\ \A p \in Priority :
       /\ ToSet(os.RdyList[p]) = {t \in Task : Ready(t) /\ os.Prio[t] = p}
       /\ IsInjective(os.RdyList[p])
       /\ p \in os.PrioTbl <=> os.RdyList[p] # <<>>
  /\ \A o \in Mutexes \cup Sems :
       /\ Waiting(o) = {t \in Task : os.PendOn[t] = o}
       /\ \A i, j \in DOMAIN os.PendList[o] :
            i < j => os.Prio[os.PendList[o][i]] <= os.Prio[os.PendList[o][j]]
  /\ \A t \in Task : os.MutexGrp[t] = {m \in Mutexes : os.Owner[m] = t}

(* Two ready tasks never have the same priority, although round robin       *)
(* scheduling is switched on and priorities are inherited: the order of the *)
(* application's steps never depends on time quanta.                        *)
NoTimeSlicing == \A p \in Priority : Len(os.RdyList[p]) <= 1

Client == INSTANCE RtosClient WITH
  mutexes <- [m \in Mutexes |-> [owner |-> os.Owner[m], nest |-> os.Nesting[m],
                               wait  |-> Waiting(m)]],
  sems    <- [s \in Sems |-> [ctr |-> os.Ctr[s], wait |-> Waiting(s)]]

(* With the mutexes used by Task2 and Task3 only, as in main.c, the kernel  *)
(* behaves as Rtos says and SecuritySystem assumes: fixed priorities, sets  *)
(* of waiting tasks, services in one step.                                  *)
ImplementsRtos ==
  /\ Client!ClientInit
  /\ [][lockers \subseteq {"Task2", "Task3"} => Client!ClientNext]_(Client!objects)
=============================================================================
