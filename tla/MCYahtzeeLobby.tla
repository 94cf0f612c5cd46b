---------------------------- MODULE MCYahtzeeLobby ----------------------------
(* Model-checking instances of YahtzeeLobby.  In some behaviours all pages play   *)
(* but read what they are sent soon; in the others two at a time do, and let up   *)
(* to MaxInbox messages wait.                                                     *)
EXTENDS YahtzeeLobby, TLC

VARIABLE crowded    \* It never changes.

mcvars == <<vars, crowded>>

MCInit == Init /\ crowded \in BOOLEAN

ReadSoon == \A c \in Clients : Len(inbox[c]) <= 2

MCNext ==
    /\ Next
    /\ IF crowded THEN ReadSoon' ELSE Cardinality(connected') <= 2
    /\ UNCHANGED crowded

MCSpec == MCInit /\ [][MCNext]_mcvars

Symmetry == Permutations(Clients) \cup Permutations(Names)
===============================================================================
