------------------------------- MODULE AnswerPipe -------------------------------
(* What an answer stream promises, without chunks, buffers and heartbeats: the   *)
(* page gets what the API has sent, in order, some time after it was sent, and is *)
(* told how it ended.  Being told "done" means having all of it only when the API *)
(* said so itself: when its response just ended, the last event may be missing.    *)
(* ChatStream implements this specification.                                        *)
EXTENDS Integers, Sequences

CONSTANT Events

VARIABLES
    sent,       \* the events the API has sent, the last of them perhaps in part
    shown,      \* the events the page has
    source,     \* "open", "done" when the API has said so, "closed" when its
                \* response ended without that, or "broken"
    outcome     \* "open", what the page was told: "done" or "failed", or that it "left"

vars == <<sent, shown, source, outcome>>

Init == sent = <<>> /\ shown = <<>> /\ source = "open" /\ outcome = "open"

Send(e) ==
    /\ outcome = "open" /\ source = "open"
    /\ sent' = Append(sent, e)
    /\ UNCHANGED <<shown, source, outcome>>

SourceEnds ==
    /\ outcome = "open" /\ source = "open"
    /\ \/ source' \in {"done", "closed", "broken"} /\ UNCHANGED sent
       \/ source' = "closed" /\ \E e \in Events : sent' = Append(sent, e)
    /\ UNCHANGED <<shown, outcome>>

\* The page is brought to the first n events.
CatchUp(n) == n \in Len(shown)..Len(sent) /\ shown' = SubSeq(sent, 1, n)

Show ==
    /\ outcome = "open"
    /\ \E n \in 0..Len(sent) : CatchUp(n)
    /\ UNCHANGED <<sent, source, outcome>>

EndDone ==
    /\ outcome = "open" /\ outcome' = "done"
    /\ \/ source = "done" /\ CatchUp(Len(sent))
       \/ source = "closed" /\ (CatchUp(Len(sent)) \/ CatchUp(Len(sent) - 1))
    /\ UNCHANGED <<sent, source>>

EndFailed ==
    /\ outcome = "open" /\ outcome' = "failed"
    /\ source = "broken" \/ (source = "open" /\ sent = <<>>)
    /\ UNCHANGED <<sent, shown, source>>

Leave ==
    /\ outcome = "open" /\ outcome' = "left"
    /\ UNCHANGED <<sent, shown, source>>

Next ==
    \/ \E e \in Events : Send(e)
    \/ SourceEnds
    \/ Show
    \/ EndDone
    \/ EndFailed
    \/ Leave

Spec == Init /\ [][Next]_vars
===============================================================================
