------------------------- MODULE OrderlyHibernation --------------------------
(***************************************************************************)
(* What a network of Node Hibernators promises: of the nodes that coordinate *)
(* with each other, one at a time goes down, and never more of them than    *)
(* consensus can spare.                                                     *)
(***************************************************************************)
EXTENDS Naturals, FiniteSets

CONSTANTS
    Nodes,
    Coordinated,    \* the pairs that hear each other
    MaxDown

VARIABLES
    going,      \* the nodes on their way down, settling time included
    asleep      \* the nodes that are down and have not come back up yet

vars == <<going, asleep>>

Init == going = {} /\ asleep = {}

Circle(n) == {m \in Nodes : <<n, m>> \in Coordinated}

Begin(n) ==
    /\ n \notin going \cup asleep
    /\ going \cap Circle(n) = {}
    /\ Cardinality(asleep \cap Circle(n)) < MaxDown
    /\ going' = going \cup {n}
    /\ UNCHANGED asleep

Settle(n) ==
    /\ n \in going
    /\ going' = going \ {n}
    /\ asleep' = asleep \cup {n}

\* A node that cannot be taken down is given up.
GiveUp(n) ==
    /\ n \in going
    /\ going' = going \ {n}
    /\ UNCHANGED asleep

WakeUp(n) ==
    /\ n \in asleep
    /\ asleep' = asleep \ {n}
    /\ UNCHANGED going

Next == \E n \in Nodes : Begin(n) \/ Settle(n) \/ GiveUp(n) \/ WakeUp(n)

Spec == Init /\ [][Next]_vars

==============================================================================
