----------------------------- MODULE RtosClient -----------------------------
(***************************************************************************)
(* How SecuritySystem uses the kernel: its tasks call the services of Rtos *)
(* one at a time, each only while no task of a higher priority is ready,   *)
(* and interrupts post semaphores at any time.  The kernel proper (module  *)
(* Kernel) is shown to behave like this.                                   *)
(***************************************************************************)
EXTENDS Rtos

VARIABLES mutexes, sems      \* the kernel objects, by name

objects == <<mutexes, sems>>

ClientInit ==
  /\ mutexes = [m \in DOMAIN mutexes |-> NewMutex]
  /\ sems = [s \in DOMAIN sems |-> NewSem]

Ready(t) ==
  /\ \A m \in DOMAIN mutexes : t \notin mutexes[m].wait
  /\ \A s \in DOMAIN sems : t \notin sems[s].wait

Runs(t) == Ready(t) /\ \A u \in Task : Ready(u) => Prio[t] <= Prio[u]

PostSem(s) ==
  /\ \/ sems' = [sems EXCEPT ![s] = OSSemPost1(@)]
     \/ sems' = [sems EXCEPT ![s] = OSSemPostAll(@)]
  /\ UNCHANGED mutexes

Call(t) ==
  \/ \E m \in DOMAIN mutexes :
       /\ \/ mutexes' = [mutexes EXCEPT ![m] = OSMutexPend(@, t)]
          \/ mutexes' = [mutexes EXCEPT ![m] = OSMutexPost(@, t)]
       /\ UNCHANGED sems
  \/ \E s \in DOMAIN sems :
       \/ sems' = [sems EXCEPT ![s] = OSSemPend(@, t)] /\ UNCHANGED mutexes
       \/ PostSem(s)

ClientNext ==
  \/ \E t \in Task : Runs(t) /\ Call(t)
  \/ \E s \in DOMAIN sems : PostSem(s)
=============================================================================
