------------------------------- MODULE MRMAbs -------------------------------
(***************************************************************************)
(* What most-recent-message objects promise, without buffers, leases or    *)
(* handles: a reader gets the value published last and finds it unchanged  *)
(* for as long as it holds the reference, whatever is published meanwhile; *)
(* an object goes away only when nobody holds one.                         *)
(***************************************************************************)
EXTENDS Naturals

CONSTANTS Task, Slot, Ref, Payload, None

VARIABLES
  latest,   \* the value each object offers
  held      \* for each task, object and reference: its value, and how often
            \* the task got it

absVars == <<latest, held>>

NotHeld == [value |-> None, count |-> 0]

Init ==
  /\ latest = [s \in Slot |-> None]
  /\ held = [x \in Task \X Slot \X Ref |-> NotHeld]

Publish(s, v) ==
  /\ latest' = [latest EXCEPT ![s] = v]
  /\ UNCHANGED held

Get(t, s, r) ==
  /\ latest[s] # None
  /\ held[<<t, s, r>>].value \in {None, latest[s]}
  /\ held' = [held EXCEPT ![<<t, s, r>>] =
                            [value |-> latest[s], count |-> @.count + 1]]
  /\ UNCHANGED latest

Unget(t, s, r) ==
  /\ held[<<t, s, r>>].count > 0
  /\ held' = [held EXCEPT ![<<t, s, r>>] =
                IF @.count = 1 THEN NotHeld
                ELSE [value |-> @.value, count |-> @.count - 1]]
  /\ UNCHANGED latest

\* t is terminated.
Leave(t) ==
  /\ held' = [x \in Task \X Slot \X Ref |-> IF x[1] = t THEN NotHeld ELSE held[x]]
  /\ UNCHANGED latest

Withdraw(s) ==
  /\ \A t \in Task, r \in Ref : held[<<t, s, r>>] = NotHeld
  /\ latest' = [latest EXCEPT ![s] = None]
  /\ UNCHANGED held

Next ==
  \/ \E s \in Slot, v \in Payload : Publish(s, v)
  \/ \E t \in Task, s \in Slot, r \in Ref : Get(t, s, r) \/ Unget(t, s, r)
  \/ \E t \in Task : Leave(t)
  \/ \E s \in Slot : Withdraw(s)

Spec == Init /\ [][Next]_absVars
=============================================================================
