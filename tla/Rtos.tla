-------------------------------- MODULE Rtos --------------------------------
(***************************************************************************)
(* The uC/OS-III services the application calls: counting semaphores and   *)
(* recursive mutexes, and the strictly preemptive priority scheduler.      *)
(*                                                                         *)
(* A kernel object is a record; a pend or a post is an operator that       *)
(* returns the object's next value.  A pend never waits: it either obtains *)
(* the object or adds the caller to the object's pend list (`wait'), and   *)
(* the caller's program counter moves past the call.  A task in a pend     *)
(* list is not ready, so it executes nothing until a post takes it out of  *)
(* the list, exactly as OSSched() resumes it after the call.               *)
(*                                                                         *)
(* Ready lists, priority inheritance and the context switch are in module  *)
(* Kernel, which is proved to behave as stated here (ImplementsRtos): the  *)
(* only mutex owner that is ever raised is Task3, to the priority of the   *)
(* blocked Task2, and no task has a priority between the two.              *)
(***************************************************************************)
EXTENDS Naturals

Task == {"TaskStart", "Task2", "Task3"}

\* TASKSTART_PRIO, TASK2_PRIO, TASK3_PRIO: a smaller number is more urgent.
Prio == [t \in Task |-> CASE t = "TaskStart" -> 2
                          [] t = "Task2"     -> 3
                          [] t = "Task3"     -> 4]

NoTask == "none"

\* The head of a pend list: the waiting task with the highest priority.
First(wait) == CHOOSE t \in wait : \A u \in wait : Prio[t] <= Prio[u]

-----------------------------------------------------------------------------
(* Semaphores *)

Sem == [ctr : Nat, wait : SUBSET Task]

NewSem == [ctr |-> 0, wait |-> {}]

OSSemPend(s, t) ==
  IF s.ctr > 0 THEN [s EXCEPT !.ctr = @ - 1]
               ELSE [s EXCEPT !.wait = @ \cup {t}]

\* OS_OPT_POST_1 readies the first waiting task, OS_OPT_POST_ALL all of them;
\* with nobody waiting either one counts one post.
OSSemPost1(s) ==
  IF s.wait = {} THEN [s EXCEPT !.ctr = @ + 1]
                 ELSE [s EXCEPT !.wait = @ \ {First(@)}]

OSSemPostAll(s) ==
  IF s.wait = {} THEN [s EXCEPT !.ctr = @ + 1]
                 ELSE [s EXCEPT !.wait = {}]

-----------------------------------------------------------------------------
(* Mutexes *)

Mutex == [owner : Task \cup {NoTask}, nest : Nat, wait : SUBSET Task]

NewMutex == [owner |-> NoTask, nest |-> 0, wait |-> {}]

\* The owner of a mutex that pends on it again only nests deeper.
OSMutexPend(m, t) ==
  IF m.nest = 0 THEN [m EXCEPT !.owner = t, !.nest = 1]
  ELSE IF m.owner = t THEN [m EXCEPT !.nest = @ + 1]
  ELSE [m EXCEPT !.wait = @ \cup {t}]

\* A post by a task that is not the owner is refused.  The last post of the
\* owner hands the mutex to the first waiting task.
OSMutexPost(m, t) ==
  IF m.owner # t THEN m
  ELSE IF m.nest > 1 THEN [m EXCEPT !.nest = @ - 1]
  ELSE IF m.wait = {} THEN [m EXCEPT !.owner = NoTask, !.nest = 0]
  ELSE [m EXCEPT !.owner = First(m.wait), !.nest = 1, !.wait = @ \ {First(@)}]
=============================================================================
