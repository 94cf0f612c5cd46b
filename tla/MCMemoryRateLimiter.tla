------------------------- MODULE MCMemoryRateLimiter -------------------------
(* Two questions a "minute" of two ticks, three a "day" of five, and one further *)
(* endpoint with a limit of one; or one request that a visitor sends, and the    *)
(* address it is counted under.                                                  *)
EXTENDS MemoryRateLimiter, ClientIp

CONSTANT Other

MCOtherKeys == {Other}
MCLimit == (Chat :> 2) @@ (ChatDay :> 3) @@ (Other :> 1)
MCWindow == (Chat :> 2) @@ (ChatDay :> 5) @@ (Other :> 2)

VARIABLE request    \* what the visitor sends, or None in a behaviour about the
                    \* limiter; it never changes

mcvars == <<vars, request>>

MCInit == Init /\ request \in Sent \cup {None}

MCNext == request = None /\ Next /\ UNCHANGED request

MCSpec == MCInit /\ [][MCNext]_mcvars

Symmetry == Permutations(Calls)

-------------------------------------------------------------------------------

\* Behind Apache every request is counted under the address Apache saw, whatever
\* headers it brings, so no visitor uses up another's limit or escapes their own
\* (clientIp).
CountedUnderOwnAddress == request # None => IsCountedUnderOwnAddress(request)
==============================================================================
