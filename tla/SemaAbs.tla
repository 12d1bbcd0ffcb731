------------------------------ MODULE SemaAbs -------------------------------
(***************************************************************************)
(* What counting semaphores promise, without scheduler, priorities, time   *)
(* or system calls: every pend that is told it succeeded consumed a token, *)
(* one of the initial ones or one that was posted, no token is consumed    *)
(* twice or lost, and a token is kept back only when nobody waits for it.  *)
(***************************************************************************)
EXTENDS Naturals

CONSTANTS Task, Sema, InitValue, MaxValue

VARIABLES
  tokens,    \* the tokens each semaphore holds
  waiters,   \* the tasks that wait for one
  outcome    \* what the last pend of a task came to

absVars == <<tokens, waiters, outcome>>

Ended == {"GRANTED", "FAILED"}

Init ==
  /\ tokens = InitValue
  /\ waiters = [s \in Sema |-> {}]
  /\ outcome = [t \in Task |-> "NONE"]

WaitsNowhere(t) == \A s \in Sema : t \notin waiters[s]

\* The pend of t comes to `result`, while p, going on with something else,
\* forgets what its own came to.
Outcome(t, result, p) ==
  outcome' = [u \in Task |-> IF u = t THEN result
                             ELSE IF u = p /\ outcome[p] \in Ended THEN "NONE"
                             ELSE outcome[u]]

\* t finds a token.
Take(t, s) ==
  /\ WaitsNowhere(t) /\ tokens[s] > 0
  /\ tokens' = [tokens EXCEPT ![s] = @ - 1]
  /\ Outcome(t, "GRANTED", t)
  /\ UNCHANGED waiters

\* t finds none, and gives up or waits.
Refuse(t, s) ==
  /\ WaitsNowhere(t) /\ tokens[s] = 0
  /\ Outcome(t, "FAILED", t)
  /\ UNCHANGED <<tokens, waiters>>

Wait(t, s) ==
  /\ WaitsNowhere(t) /\ tokens[s] = 0
  /\ waiters' = [waiters EXCEPT ![s] = @ \cup {t}]
  /\ Outcome(t, "WAITING", t)
  /\ UNCHANGED tokens

\* p posts a token: a waiter gets it, or it is kept as long as there is room.
Give(p, s, t) ==
  /\ t \in waiters[s]
  /\ waiters' = [waiters EXCEPT ![s] = @ \ {t}]
  /\ Outcome(t, "GRANTED", p)
  /\ UNCHANGED tokens

Keep(p, s) ==
  /\ waiters[s] = {} /\ tokens[s] < MaxValue[s]
  /\ tokens' = [tokens EXCEPT ![s] = @ + 1]
  /\ Outcome(p, IF outcome[p] \in Ended THEN "NONE" ELSE outcome[p], p)
  /\ UNCHANGED waiters

\* t stops waiting without a token, by time or because p interrupts it.
Leave(p, t, s) ==
  /\ t \in waiters[s]
  /\ waiters' = [waiters EXCEPT ![s] = @ \ {t}]
  /\ Outcome(t, "FAILED", p)
  /\ UNCHANGED tokens

\* p goes on with something else.
GoOn(p) ==
  /\ outcome[p] \in Ended
  /\ outcome' = [outcome EXCEPT ![p] = "NONE"]
  /\ UNCHANGED <<tokens, waiters>>

Next == \E p \in Task :
  \/ GoOn(p)
  \/ \E s \in Sema :
       \/ Take(p, s) \/ Refuse(p, s) \/ Wait(p, s) \/ Keep(p, s)
       \/ \E t \in Task : Give(p, s, t) \/ Leave(p, t, s)

Spec == Init /\ [][Next]_absVars
=============================================================================
