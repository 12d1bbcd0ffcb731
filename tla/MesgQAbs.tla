------------------------------ MODULE MesgQAbs -------------------------------
(***************************************************************************)
(* What a bounded message queue promises, without waits, wake-ups or a     *)
(* scheduler.  Messages leave in the order they came, except those put at  *)
(* the front; a receiver gets a message straight from its sender only when *)
(* no older one is there.  A broadcast reserves the slot of a mailbox for  *)
(* its readers: each of them reads it once, and the last one empties it.   *)
(***************************************************************************)
EXTENDS Sequences, Naturals

CONSTANTS Queue, Reader, Mesg

VARIABLES
  size,      \* how many messages each queue has room for
  content,   \* the messages in each queue
  readers,   \* for whom a broadcast reserves its slot
  got        \* the message each task received last

vars == <<size, content, readers, got>>

Init == /\ size \in [Queue -> Nat \ {0}]
        /\ content = [q \in Queue |-> <<>>]
        /\ readers = [q \in Queue |-> {}]
        /\ got \in [Reader -> Mesg]

Room(q) == Len(content[q]) < size[q]
Open(q) == readers[q] = {}

Put(q, m) ==
  /\ Open(q) /\ Room(q)
  /\ \/ content' = [content EXCEPT ![q] = Append(@, m)]
     \/ content' = [content EXCEPT ![q] = <<m>> \o @]
  /\ UNCHANGED <<readers, got>>

Overwrite(q, m) ==
  /\ Open(q) /\ size[q] = 1
  /\ content' = [content EXCEPT ![q] = <<m>>]
  /\ UNCHANGED <<readers, got>>

\* From sender to receiver, past an empty queue.
Pass(t, q, m) ==
  /\ Open(q) /\ content[q] = <<>>
  /\ got' = [got EXCEPT ![t] = m]
  /\ UNCHANGED <<content, readers>>

Take(t, q) ==
  /\ Open(q) /\ content[q] # <<>>
  /\ got' = [got EXCEPT ![t] = Head(content[q])]
  /\ content' = [content EXCEPT ![q] = Tail(@)]
  /\ UNCHANGED readers

Broadcast(q, m, to) ==
  /\ Open(q) /\ content[q] = <<>> /\ size[q] = 1 /\ to # {}
  /\ content' = [content EXCEPT ![q] = <<m>>]
  /\ readers' = [readers EXCEPT ![q] = to]
  /\ UNCHANGED got

Read(t, q) ==
  /\ t \in readers[q]
  /\ got' = [got EXCEPT ![t] = Head(content[q])]
  /\ readers' = [readers EXCEPT ![q] = @ \ {t}]
  /\ content' = IF readers[q] = {t} THEN [content EXCEPT ![q] = <<>>] ELSE content

Reset(q) ==
  /\ Open(q)
  /\ content' = [content EXCEPT ![q] = <<>>]
  /\ UNCHANGED <<readers, got>>

Next ==
  \/ \E q \in Queue :
       \/ \E m \in Mesg :
            \/ Put(q, m) \/ Overwrite(q, m)
            \/ \E t \in Reader : Pass(t, q, m)
            \/ \E to \in SUBSET Reader : Broadcast(q, m, to)
       \/ \E t \in Reader : Take(t, q) \/ Read(t, q)
       \/ Reset(q)

Spec == Init /\ [][Next /\ UNCHANGED size]_vars
=============================================================================
