-------------------------------- MODULE Quota --------------------------------
(***************************************************************************)
(* What the relay's rate limiter promises: requests that name a device are *)
(* counted window by window, and the step that counts one is the step that  *)
(* decides about it.  The counts of a window are there until the window is  *)
(* over and a grace period with it, unless the store loses everything.      *)
(* There are no keys, TTLs or handlers between two calls here.  RateLimit   *)
(* implements this module.                                                  *)
(***************************************************************************)
EXTENDS Integers

CONSTANTS
    Request,    \* requests that may be under way at once
    Route,      \* what they ask for
    Limit,      \* Limit[r]: how many requests of a window it takes to refuse r
    Window,     \* the windows there are
    Width,      \* how long each is
    Grace       \* how long counts are kept after it

VARIABLES
    now,        \* the time
    used,       \* used[w]: the requests counted in the window w
    place,      \* place[q]: how far the request q is
    route,      \* route[q]: what it asks for
    win,        \* win[q]: the window it belongs to
    back        \* back[q]: when it was told to come back

reqVars == <<place, route, win, back>>
vars == <<now, used, reqVars>>

Init ==
    /\ now = 0
    /\ used = [w \in Window |-> 0]
    /\ place = [q \in Request |-> "idle"]
    /\ route \in [Request -> Route]
    /\ win = [q \in Request |-> 0]
    /\ back = [q \in Request |-> 0]

\* A request belongs to the window it comes in.
Ask(q, r) ==
    /\ place[q] = "idle"
    /\ place' = [place EXCEPT ![q] = "asked"]
    /\ route' = [route EXCEPT ![q] = r]
    /\ win' = [win EXCEPT ![q] = now \div Width]
    /\ UNCHANGED <<now, used, back>>

\* It is counted, and its number in the window decides.
Judge(q) ==
    LET n == used[win[q]] + 1 IN
    /\ place[q] = "asked"
    /\ used' = [used EXCEPT ![win[q]] = n]
    /\ place' = [place EXCEPT ![q] = IF n > Limit[route[q]] THEN "refused" ELSE "passed"]
    /\ UNCHANGED <<now, route, win, back>>

\* A refused request is told to come back in a later window, not more than a
\* window from now.
Tell(q) ==
    /\ place[q] = "refused"
    /\ place' = [place EXCEPT ![q] = "told"]
    /\ \E t \in now + 1 .. now + Width :
          /\ t \div Width > win[q]
          /\ back' = [back EXCEPT ![q] = t]
    /\ UNCHANGED <<now, used, route, win>>

\* The request is over: it passed, its refusal is out, or it was lost; only
\* one that was to pass or was lost ends without an answer of the limiter.
End(q) ==
    /\ place[q] # "idle"
    /\ place' = [place EXCEPT ![q] = "idle"]
    /\ \E r \in Route : route' = [route EXCEPT ![q] = r]
    /\ win' = [win EXCEPT ![q] = 0]
    /\ back' = [back EXCEPT ![q] = 0]
    /\ UNCHANGED <<now, used>>

\* Time passes; counts of windows that are long over may go, no others.
Advance ==
    /\ now' = now + 1
    /\ \E S \in SUBSET {w \in Window : (w + 1) * Width + Grace =< now'} :
          used' = [w \in Window |-> IF w \in S THEN 0 ELSE used[w]]
    /\ UNCHANGED reqVars

\* The store loses everything.
Wipe ==
    /\ used' = [w \in Window |-> 0]
    /\ UNCHANGED <<now, reqVars>>

Next ==
    \/ \E q \in Request, r \in Route : Ask(q, r)
    \/ \E q \in Request : Judge(q)
    \/ \E q \in Request : Tell(q)
    \/ \E q \in Request : End(q)
    \/ Advance
    \/ Wipe

Spec == Init /\ [][Next]_vars

=============================================================================
