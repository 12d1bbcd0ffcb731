------------------------------ MODULE MutexAbs ------------------------------
(***************************************************************************)
(* What the mutex service promises, without scheduler, priorities, queues, *)
(* time or system calls: who holds a mutex, who waits for it, and whether  *)
(* its holder has faulted.  A held mutex passes straight to a waiter; it   *)
(* becomes free only when nobody waits; after a fault nobody holds it      *)
(* again; and a task waits for one mutex at a time.                        *)
(***************************************************************************)
CONSTANTS Task, Mutex, None

VARIABLES
  holder,    \* the task that holds each mutex, or None
  waiters,   \* the tasks that wait for each mutex
  dead       \* whether the holder of a mutex has faulted

absVars == <<holder, waiters, dead>>

Init ==
  /\ holder = [m \in Mutex |-> None]
  /\ waiters = [m \in Mutex |-> {}]
  /\ dead = [m \in Mutex |-> FALSE]

WaitsNowhere(t) == \A m \in Mutex : t \notin waiters[m]

\* t takes a free mutex.
Acquire(t, m) ==
  /\ WaitsNowhere(t) /\ holder[m] = None /\ ~dead[m]
  /\ holder' = [holder EXCEPT ![m] = t]
  /\ UNCHANGED <<waiters, dead>>

\* t begins to wait for a mutex another task holds.
Wait(t, m) ==
  /\ WaitsNowhere(t) /\ holder[m] \notin {None, t} /\ ~dead[m]
  /\ waiters' = [waiters EXCEPT ![m] = @ \cup {t}]
  /\ UNCHANGED <<holder, dead>>

\* t stops waiting, without the mutex: a timeout, a signal or a fault.
Leave(t, m) ==
  /\ t \in waiters[m]
  /\ waiters' = [waiters EXCEPT ![m] = @ \ {t}]
  /\ UNCHANGED <<holder, dead>>

\* The holder passes the mutex to the waiter t.
HandOff(t, m) ==
  /\ holder[m] # None /\ t \in waiters[m]
  /\ holder' = [holder EXCEPT ![m] = t]
  /\ waiters' = [waiters EXCEPT ![m] = @ \ {t}]
  /\ UNCHANGED dead

\* The holder gives up a mutex nobody waits for.
Release(m) ==
  /\ holder[m] # None /\ waiters[m] = {}
  /\ holder' = [holder EXCEPT ![m] = None]
  /\ UNCHANGED <<waiters, dead>>

\* The holder has faulted.
Poison(m) ==
  /\ holder[m] # None
  /\ holder' = [holder EXCEPT ![m] = None]
  /\ dead' = [dead EXCEPT ![m] = TRUE]
  /\ UNCHANGED waiters

Next == \E m \in Mutex :
  \/ Release(m)
  \/ Poison(m)
  \/ \E t \in Task : Acquire(t, m) \/ Wait(t, m) \/ Leave(t, m) \/ HandOff(t, m)

Spec == Init /\ [][Next]_absVars
=============================================================================
