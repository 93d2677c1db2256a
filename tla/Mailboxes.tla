----------------------------- MODULE Mailboxes -----------------------------
(***************************************************************************)
(* What the packet rings promise: a task posts slots to its outbox, the    *)
(* kernel moves the oldest entry of an outbox to the end of another task's *)
(* inbox (in a slot of the recipient's), and only the owner of an inbox    *)
(* takes its first entry or exchanges it with a later one.  The entries of *)
(* a task never exceed its table.                                          *)
(***************************************************************************)
EXTENDS Integers, Sequences

CONSTANTS Tasks, Size

VARIABLES outbox, inbox

mailVars == <<outbox, inbox>>

Fits(t) == Len(outbox[t]) + Len(inbox[t]) < Size

Init == /\ outbox = [t \in Tasks |-> << >>]
        /\ inbox = [t \in Tasks |-> << >>]

Post(t, s) == /\ Fits(t)
              /\ outbox' = [outbox EXCEPT ![t] = Append(@, s)]
              /\ UNCHANGED inbox

Deliver(t, u, s) == /\ t # u
                    /\ outbox[t] # << >>
                    /\ Fits(u)
                    /\ outbox' = [outbox EXCEPT ![t] = Tail(@)]
                    /\ inbox' = [inbox EXCEPT ![u] = Append(@, s)]

Take(t) == /\ inbox[t] # << >>
           /\ inbox' = [inbox EXCEPT ![t] = Tail(@)]
           /\ UNCHANGED outbox

Exchange(t, k) == /\ inbox' = [inbox EXCEPT
                                 ![t] = [@ EXCEPT ![1] = inbox[t][k],
                                                  ![k] = inbox[t][1]]]
                  /\ UNCHANGED outbox

Next == \E t \in Tasks :
            \/ \E s \in 0 .. Size - 1 : Post(t, s)
            \/ \E u \in Tasks, s \in 0 .. Size - 1 : Deliver(t, u, s)
            \/ Take(t)
            \/ \E k \in 1 .. Len(inbox[t]) : Exchange(t, k)

Spec == Init /\ [][Next]_mailVars
=============================================================================
