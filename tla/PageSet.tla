------------------------------- MODULE PageSet -------------------------------
(***************************************************************************)
(* What the physical memory manager promises: a page is free or it has     *)
(* exactly one owner.  Which free page is handed out is not promised.      *)
(***************************************************************************)
CONSTANT Pages

VARIABLES free, owned

Init == free = {} /\ owned = {}

(* a page that nobody had comes under management                           *)
Add(p) == /\ p \notin free \cup owned
          /\ free' = free \cup {p}
          /\ UNCHANGED owned

Take(p) == /\ p \in free
           /\ free' = free \ {p}
           /\ owned' = owned \cup {p}

Give(p) == /\ p \in owned
           /\ free' = free \cup {p}
           /\ owned' = owned \ {p}

Next == \E p \in Pages : Add(p) \/ Take(p) \/ Give(p)

Spec == Init /\ [][Next]_<<free, owned>>
=============================================================================
