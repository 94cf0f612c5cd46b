----------------------------- MODULE SlidingWindow -----------------------------
(* Abstract specification of a rate limit: per key, a call passes exactly when *)
(* fewer than the limit have passed within the window that ends now.  It keeps  *)
(* every call that ever passed; MemoryRateLimiter, which forgets, implements it. *)
EXTENDS Naturals, FiniteSets

CONSTANTS Calls, Keys, Limit, Window, None

VARIABLES
    now,
    at,          \* call -> the time it was made
    admitted,    \* key -> the calls that have passed
    refusedBy    \* call -> the key that refused it, or None

vars == <<now, at, admitted, refusedBy>>

Init ==
    /\ now = 0
    /\ at = [c \in Calls |-> 0]
    /\ admitted = [k \in Keys |-> {}]
    /\ refusedBy = [c \in Calls |-> None]

Full(k) == Cardinality({c \in admitted[k] : now < at[c] + Window[k]}) >= Limit[k]

\* A call is made that some keys count, each of which has room; it is refused for
\* a key that is full, or for none.
Call(c, by) ==
    /\ refusedBy[c] = None /\ \A k \in Keys : c \notin admitted[k]
    /\ at' = [at EXCEPT ![c] = now]
    /\ refusedBy' = [refusedBy EXCEPT ![c] = by]
    /\ \A k \in Keys : \/ admitted'[k] = admitted[k]
                       \/ admitted'[k] = admitted[k] \cup {c} /\ ~Full(k)
    /\ by \in Keys => Full(by) /\ admitted'[by] = admitted[by]
    /\ by = None => \E k \in Keys : admitted'[k] # admitted[k]
    /\ UNCHANGED now

Tick == now' = now + 1 /\ UNCHANGED <<at, admitted, refusedBy>>

Next == Tick \/ \E c \in Calls, by \in Keys \cup {None} : Call(c, by)

Spec == Init /\ [][Next]_vars
===============================================================================
