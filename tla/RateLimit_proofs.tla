-------------------------- MODULE RateLimit_proofs --------------------------
(* Proofs about the rate limiter.                                            *)
EXTENDS RateLimit, Division, FiniteSetTheorems

-----------------------------------------------------------------------------
(* Windows                                                                   *)

\* Products of the width are monotone in the window.
LEMMA Product ==
    ASSUME NEW w \in Nat
    PROVE  /\ w * Width \in Nat
           /\ (w + 1) * Width = w * Width + Width
           /\ Close(w) \in Nat
           /\ Close(w) = w * Width + Width + Slack
BY TimeAssumption, Z3T(30) DEF Close

\* The clock is in a window of the model, and past its beginning.
LEMMA ClockWindow ==
    ASSUME clock \in 0 .. MaxTime
    PROVE  /\ WindowOf(clock) \in Window
           /\ WindowOf(clock) * Width =< clock
<1>1. clock \in Nat /\ MaxTime \in Nat /\ clock =< MaxTime /\ Width \in Nat \ {0}
  BY TimeAssumption, BoundAssumption
<1>2. clock \div Width =< MaxTime \div Width
  BY <1>1, QuotientMonotone
<1>3. /\ clock \div Width \in Nat
      /\ MaxTime \div Width \in Nat
      /\ clock = Width * (clock \div Width) + (clock % Width)
      /\ clock % Width \in 0 .. Width - 1
  BY <1>1, DivMod
<1> DEFINE q == clock \div Width
<1>4. q * Width =< clock
  <2> HIDE DEF q
  <2> SUFFICES ASSUME q \in Nat, clock = Width * q + (clock % Width),
                      clock % Width \in 0 .. Width - 1
               PROVE  q * Width =< clock
    BY <1>3 DEF q
  <2> QED
    BY <1>1, Z3T(30)
<1> QED
  BY <1>2, <1>3, <1>4 DEF WindowOf, Window

LEMMA WindowIsNat == Window \subseteq Nat
BY DEF Window

LEMMA AnyRouteIsRoute == AnyRoute \in Route
BY LimitAssumption DEF AnyRoute

\* A rejected request is told at most a window.
LEMMA RetryBounds ==
    ASSUME clock \in 0 .. MaxTime
    PROVE  /\ RetryAfter \in 1 .. Width
           /\ clock + RetryAfter \in 0 .. MaxTime + Width
<1>1. clock \in Nat /\ Width \in Nat \ {0} /\ clock % Width \in 0 .. Width - 1
  BY TimeAssumption, DivMod
<1> QED
  BY <1>1, BoundAssumption DEF RetryAfter

-----------------------------------------------------------------------------
(* Types                                                                     *)

LEMMA InitTypeOK == Init => TypeOK
<1>1. 0 \in Window
  <2>1. MaxTime \div Width \in Nat
    BY BoundAssumption, TimeAssumption, DivMod
  <2> QED
    BY <2>1 DEF Window, WindowOf
<1> QED
  BY <1>1, AnyRouteIsRoute, BoundAssumption, TimeAssumption
     DEF Init, TypeOK, None, Place

\* A handler that leaves resets its locals to values of their types.
LEMMA LeaveType ==
    ASSUME TypeOK, NEW h \in Handler, Leave(h)
    PROVE  /\ pc' \in [Handler -> Place]
           /\ route' \in [Handler -> Route]
           /\ win' \in [Handler -> Window]
           /\ cur' \in [Handler -> Nat]
           /\ retry' \in [Handler -> 0 .. MaxTime + Width]
<1>1. 0 \in Window
  <2>1. MaxTime \div Width \in Nat
    BY BoundAssumption, TimeAssumption, DivMod
  <2> QED
    BY <2>1 DEF Window, WindowOf
<1>2. 0 \in 0 .. MaxTime + Width
  BY BoundAssumption, TimeAssumption
<1> QED
  BY <1>1, <1>2, AnyRouteIsRoute DEF TypeOK, Leave, Place

LEMMA NextTypeOK == TypeOK /\ [Next]_vars => TypeOK'
<1> SUFFICES ASSUME TypeOK, [Next]_vars
             PROVE  TypeOK'
  OBVIOUS
<1>1. ASSUME NEW h \in Handler, NEW r \in Route, NEW t \in Token, Begin(h, r, t)
      PROVE  TypeOK'
  <2>1. WindowOf(clock) \in Window
    BY ClockWindow DEF TypeOK
  <2>2. arrived' \in [Window -> 0 .. MaxArrive]
    <3>1. arrived[WindowOf(clock)] + 1 \in 0 .. MaxArrive
      BY <1>1, <2>1, BoundAssumption DEF TypeOK, Begin
    <3> QED
      BY <1>1, <2>1, <3>1 DEF TypeOK, Begin
  <2> QED
    BY <1>1, <2>1, <2>2 DEF TypeOK, Begin, keyVars, Place
<1>2. ASSUME NEW h \in Handler, Incr(h)
      PROVE  TypeOK'
  BY <1>2 DEF TypeOK, Incr, Place
<1>3. ASSUME NEW h \in Handler, SetExpiry(h)
      PROVE  TypeOK'
  <2>1. clock + TimeToLive \in Nat
    BY TimeAssumption, BoundAssumption DEF TypeOK, TimeToLive
  <2> QED
    BY <1>3, <2>1 DEF TypeOK, SetExpiry, histVars, Place, None
<1>4. ASSUME NEW h \in Handler, Admit(h)
      PROVE  TypeOK'
  <2>1. admitted' \in [Window -> [Route -> Nat]]
    BY <1>4 DEF TypeOK, Admit
  <2> QED
    BY <1>4, <2>1, LeaveType DEF TypeOK, Admit, keyVars
<1>5. ASSUME NEW h \in Handler, Reject(h)
      PROVE  TypeOK'
  BY <1>5, RetryBounds DEF TypeOK, Reject, keyVars, histVars, Place
<1>6. ASSUME NEW h \in Handler, Answer(h)
      PROVE  TypeOK'
  BY <1>6, LeaveType DEF TypeOK, Answer, keyVars, histVars
<1>7. ASSUME NEW h \in Handler, Fails(h)
      PROVE  TypeOK'
  BY <1>7, LeaveType DEF TypeOK, Fails, keyVars
<1>8. CASE RedisRestart
  BY <1>8 DEF TypeOK, RedisRestart, reqVars, None
<1>9. CASE Tick
  BY <1>9, BoundAssumption DEF TypeOK, Tick, reqVars, histVars, None
<1>10. CASE UNCHANGED vars
  BY <1>10 DEF TypeOK, vars, keyVars, reqVars, histVars
<1> QED
  BY <1>1, <1>2, <1>3, <1>4, <1>5, <1>6, <1>7, <1>8, <1>9, <1>10 DEF Next

\* Every reachable state of the middleware is well typed; Retry-After is never
\* more than a window.
THEOREM TypeCorrect == Spec => []TypeOK
<1> QED
  BY InitTypeOK, NextTypeOK, PTL DEF Spec

-----------------------------------------------------------------------------
(* Clients that wait as they are told                                        *)

\* A request took its window before now.
StartInv == \A h \in Handler : win[h] * Width =< clock

LEMMA InitStart == Init => StartInv
<1>1. 0 * Width = 0
  BY TimeAssumption
<1> QED
  BY <1>1 DEF Init, StartInv

LEMMA NextStart == TypeOK /\ StartInv /\ [Next]_vars => StartInv'
<1> SUFFICES ASSUME TypeOK, StartInv, [Next]_vars, NEW k \in Handler
             PROVE  win'[k] * Width =< clock'
  BY DEF StartInv
<1>1. clock' \in Nat /\ clock \in Nat /\ clock =< clock'
  <2>1. clock' = clock \/ clock' = clock + 1
    BY Zenon DEF Next, Begin, Incr, SetExpiry, Admit, Reject, Answer, Fails,
                 RedisRestart, Tick, vars
  <2> QED
    BY <2>1 DEF TypeOK
<1>2. \/ win'[k] = win[k]
      \/ win'[k] = 0
      \/ win'[k] = WindowOf(clock)
  <2>1. ASSUME NEW h \in Handler, NEW r \in Route, NEW t \in Token, Begin(h, r, t)
        PROVE  win'[k] = win[k] \/ win'[k] = WindowOf(clock)
    BY <2>1 DEF TypeOK, Begin
  <2>2. ASSUME NEW h \in Handler, Leave(h)
        PROVE  win'[k] = win[k] \/ win'[k] = 0
    BY <2>2 DEF TypeOK, Leave
  <2>3. \/ UNCHANGED win
        \/ \E h \in Handler : Leave(h)
        \/ \E h \in Handler, r \in Route, t \in Token : Begin(h, r, t)
    BY Zenon DEF Next, Incr, SetExpiry, Admit, Reject, Answer, Fails,
                 RedisRestart, Tick, vars, reqVars
  <2> QED
    BY <2>1, <2>2, <2>3
<1>3. win[k] * Width =< clock /\ win[k] * Width \in Nat
  BY WindowIsNat, Product DEF TypeOK, StartInv
<1>4. WindowOf(clock) * Width =< clock /\ WindowOf(clock) * Width \in Nat
  BY ClockWindow, WindowIsNat, Product DEF TypeOK
<1>5. 0 * Width = 0
  BY TimeAssumption
<1>6. ASSUME NEW x \in Nat, x =< clock
      PROVE  x =< clock'
  BY <1>1, <1>6
<1> QED
  BY <1>1, <1>2, <1>3, <1>4, <1>5, <1>6

\* The clock plus Retry-After is the beginning of the window after the clock's.
LEMMA RetryIsNextWindow ==
    ASSUME clock \in 0 .. MaxTime
    PROVE  WindowOf(clock + RetryAfter) = WindowOf(clock) + 1
<1> DEFINE q == clock \div Width
           r == clock % Width
<1>1. clock \in Nat /\ Width \in Nat \ {0}
  BY TimeAssumption
<1>2. q \in Nat /\ r \in 0 .. Width - 1 /\ clock = Width * q + r
  BY <1>1, DivMod
<1> HIDE DEF q, r
<1>3. clock + (Width - r) = Width * (q + 1)
  BY <1>1, <1>2, Z3T(30)
<1>4. (Width * (q + 1)) \div Width = q + 1
  BY <1>1, <1>2, QuotientOfMultiple
<1> QED
  BY <1>3, <1>4 DEF WindowOf, RetryAfter, q, r

LEMMA NextRetry ==
    TypeOK /\ StartInv /\ RetryInNewWindow /\ [Next]_vars => RetryInNewWindow'
<1> SUFFICES ASSUME TypeOK, StartInv, RetryInNewWindow, [Next]_vars,
                    NEW k \in Handler, pc'[k] = "told"
             PROVE  WindowOf(retry'[k]) > win'[k]
  BY DEF RetryInNewWindow, WindowOf
<1>1. ASSUME NEW h \in Handler, Reject(h), h = k
      PROVE  WindowOf(retry'[k]) > win'[k]
  <2>1. win[k] \in Nat /\ clock \in Nat /\ Width \in Nat \ {0}
    <3>1. win[k] \in Window /\ clock \in Nat
      BY DEF TypeOK
    <3> QED
      BY <3>1, WindowIsNat, TimeAssumption
  <2>2. win'[k] = win[k] /\ retry'[k] = clock + RetryAfter
    BY <1>1 DEF TypeOK, Reject
  <2>3. (Width * win[k]) \div Width =< clock \div Width
    <3>1. win[k] * Width =< clock /\ win[k] * Width = Width * win[k]
          /\ Width * win[k] \in Nat
      BY <2>1, Product, Z3T(30) DEF StartInv
    <3> QED
      BY <2>1, <3>1, QuotientMonotone
  <2>4. (Width * win[k]) \div Width = win[k]
    BY <2>1, QuotientOfMultiple
  <2>5. WindowOf(clock + RetryAfter) = WindowOf(clock) + 1
    BY RetryIsNextWindow DEF TypeOK
  <2>6. clock \div Width \in Nat
    BY <2>1, DivMod
  <2> QED
    BY <2>1, <2>2, <2>3, <2>4, <2>5, <2>6 DEF WindowOf
<1>2. CASE pc[k] = "told" /\ win'[k] = win[k] /\ retry'[k] = retry[k]
  BY <1>2 DEF RetryInNewWindow, WindowOf
<1>3. \/ \E h \in Handler : Reject(h) /\ h = k
      \/ pc[k] = "told" /\ win'[k] = win[k] /\ retry'[k] = retry[k]
  <2>1. ASSUME NEW h \in Handler, NEW r \in Route, NEW t \in Token, Begin(h, r, t)
        PROVE  h # k
    BY <2>1 DEF TypeOK, Begin
  <2>2. ASSUME NEW h \in Handler, Incr(h) \/ SetExpiry(h) \/ Leave(h)
        PROVE  h # k
    BY <2>2 DEF TypeOK, Incr, SetExpiry, Leave
  <2>3. ASSUME NEW h \in Handler, NEW r \in Route, NEW t \in Token, Begin(h, r, t)
        PROVE  pc[k] = "told" /\ win'[k] = win[k] /\ retry'[k] = retry[k]
    BY <2>1, <2>3 DEF TypeOK, Begin
  <2>4. ASSUME NEW h \in Handler, Incr(h) \/ SetExpiry(h) \/ Leave(h)
        PROVE  pc[k] = "told" /\ win'[k] = win[k] /\ retry'[k] = retry[k]
    BY <2>2, <2>4 DEF TypeOK, Incr, SetExpiry, Leave
  <2>5. ASSUME NEW h \in Handler, Reject(h), h # k
        PROVE  pc[k] = "told" /\ win'[k] = win[k] /\ retry'[k] = retry[k]
    BY <2>5 DEF TypeOK, Reject
  <2>6. CASE UNCHANGED reqVars
    BY <2>6 DEF reqVars
  <2>7. \/ UNCHANGED reqVars
        \/ \E h \in Handler : Incr(h) \/ SetExpiry(h) \/ Leave(h) \/ Reject(h)
        \/ \E h \in Handler, r \in Route, t \in Token : Begin(h, r, t)
    BY Zenon DEF Next, Admit, Answer, Fails, RedisRestart, Tick, vars
  <2> QED
    BY <2>3, <2>4, <2>5, <2>6, <2>7
<1> QED
  BY <1>1, <1>2, <1>3

\* A client that waits for Retry-After comes back in a later window, whatever
\* the width of a window and however long its request took.
THEOREM RetryIsLater == Spec => []RetryInNewWindow
<1>1. Init => RetryInNewWindow
  BY DEF Init, RetryInNewWindow
<1> QED
  BY <1>1, InitStart, NextStart, NextRetry, TypeCorrect, PTL DEF Spec

-----------------------------------------------------------------------------
(* Counters without a TTL                                                    *)

LEMMA NextUntimed ==
    TypeOK /\ UntimedIsAttended /\ [Next]_vars => UntimedIsAttended'
<1> SUFFICES ASSUME TypeOK, UntimedIsAttended, [Next]_vars,
                    NEW w \in Window \ orphan', count'[w] > 0, expiry'[w] = None
             PROVE  \E h \in Handler : pc'[h] = "expire" /\ win'[h] = w
  BY DEF UntimedIsAttended
<1>1. ASSUME NEW h \in Handler, NEW r \in Route, NEW t \in Token, Begin(h, r, t)
      PROVE  \E k \in Handler : pc'[k] = "expire" /\ win'[k] = w
  BY <1>1 DEF TypeOK, UntimedIsAttended, Begin, keyVars
<1>2. ASSUME NEW h \in Handler, Incr(h)
      PROVE  \E k \in Handler : pc'[k] = "expire" /\ win'[k] = w
  <2>1. CASE w = win[h] /\ count[w] = 0
    <3>1. pc'[h] = "expire" /\ win'[h] = w
      BY <1>2, <2>1 DEF TypeOK, Incr, First
    <3> QED
      BY <3>1
  <2>2. CASE count[w] > 0
    BY <1>2, <2>2 DEF TypeOK, UntimedIsAttended, Incr
  <2>3. (w = win[h] /\ count[w] = 0) \/ count[w] > 0
    BY <1>2 DEF TypeOK, Incr
  <2> QED
    BY <2>1, <2>2, <2>3
<1>3. ASSUME NEW h \in Handler, SetExpiry(h)
      PROVE  \E k \in Handler : pc'[k] = "expire" /\ win'[k] = w
  <2>1. count[w] > 0 /\ w \notin orphan
    BY <1>3 DEF SetExpiry, histVars
  <2>2. w # win[h]
    <3>1. clock + TimeToLive # None
      BY TimeAssumption DEF TypeOK, TimeToLive, None
    <3> QED
      BY <1>3, <2>1, <3>1 DEF TypeOK, SetExpiry
  <2>3. expiry[w] = None
    BY <1>3, <2>2 DEF TypeOK, SetExpiry
  <2>4. PICK k \in Handler : pc[k] = "expire" /\ win[k] = w
    BY <2>1, <2>3 DEF UntimedIsAttended
  <2>5. pc'[k] = "expire" /\ win'[k] = w
    BY <1>3, <2>2, <2>4 DEF TypeOK, SetExpiry
  <2> QED
    BY <2>5
<1>4. ASSUME NEW h \in Handler, Leave(h), UNCHANGED keyVars, orphan \subseteq orphan',
             pc[h] = "expire" => win[h] \in orphan'
      PROVE  \E k \in Handler : pc'[k] = "expire" /\ win'[k] = w
  <2>1. PICK k \in Handler : pc[k] = "expire" /\ win[k] = w
    BY <1>4, Zenon DEF UntimedIsAttended, keyVars
  <2>2. k # h
    BY <1>4, <2>1
  <2>3. pc'[k] = "expire" /\ win'[k] = w
    BY <1>4, <2>1, <2>2 DEF TypeOK, Leave
  <2> QED
    BY <2>3
<1>5. ASSUME NEW h \in Handler, Reject(h)
      PROVE  \E k \in Handler : pc'[k] = "expire" /\ win'[k] = w
  BY <1>5 DEF TypeOK, UntimedIsAttended, Reject, keyVars, histVars
<1>6. CASE RedisRestart
  BY <1>6 DEF RedisRestart
<1>7. CASE Tick
  <2>1. count[w] > 0 /\ expiry[w] = None /\ w \notin orphan /\ UNCHANGED reqVars
    BY <1>7 DEF TypeOK, Tick, Gone, histVars
  <2> QED
    BY <2>1 DEF UntimedIsAttended, reqVars
<1>8. CASE UNCHANGED vars
  BY <1>8 DEF UntimedIsAttended, vars, keyVars, reqVars, histVars
<1>9. ASSUME NEW h \in Handler, Admit(h) \/ Answer(h) \/ Fails(h)
      PROVE  \E k \in Handler : pc'[k] = "expire" /\ win'[k] = w
  <2>1. Leave(h) /\ UNCHANGED keyVars /\ orphan \subseteq orphan'
        /\ (pc[h] = "expire" => win[h] \in orphan')
    BY <1>9 DEF Admit, Answer, Fails, histVars
  <2> QED
    BY <1>4, <2>1
<1> QED
  BY <1>1, <1>2, <1>3, <1>5, <1>6, <1>7, <1>8, <1>9 DEF Next

\* A counter that would stay for ever is one whose first handler was lost
\* between INCR and EXPIRE.
THEOREM CountersGetTTL == Spec => []UntimedIsAttended
<1>1. Init => UntimedIsAttended
  BY DEF Init, UntimedIsAttended
<1> QED
  BY <1>1, NextUntimed, TypeCorrect, PTL DEF Spec

-----------------------------------------------------------------------------
(* No count without a request                                                *)

\* The requests of a window that have not called INCR yet.
Waiting(w) == {h \in Handler : pc[h] = "incr" /\ win[h] = w}

\* A window's counter and the requests still to count are covered by requests
\* that arrived; so is every value INCR returned.
CountInv ==
    /\ \A w \in Window : count[w] + Cardinality(Waiting(w)) =< arrived[w]
    /\ \A h \in Handler : pc[h] \in {"expire", "check"} => cur[h] =< arrived[win[h]]

\* Subsets of the handlers are finite, and what one handler adds or takes.
LEMMA Finite ==
    ASSUME NEW S \in SUBSET Handler
    PROVE  /\ IsFiniteSet(S)
           /\ Cardinality(S) \in Nat
           /\ \A T \in SUBSET S : Cardinality(T) =< Cardinality(S)
           /\ \A h \in S : Cardinality(S \ {h}) = Cardinality(S) - 1
           /\ \A h \in Handler \ S : Cardinality(S \cup {h}) = Cardinality(S) + 1
<1>1. IsFiniteSet(S)
  BY HandlerAssumption, FS_Subset
<1>2. Cardinality(S) \in Nat
  BY <1>1, FS_CardinalityType
<1>3. \A T \in SUBSET S : Cardinality(T) =< Cardinality(S)
  BY <1>1, FS_Subset
<1>4. \A h \in S : Cardinality(S \ {h}) = Cardinality(S) - 1
  BY <1>1, FS_RemoveElement
<1>5. \A h \in Handler \ S : Cardinality(S \cup {h}) = Cardinality(S) + 1
  BY <1>1, FS_AddElement
<1> QED
  BY <1>1, <1>2, <1>3, <1>4, <1>5

LEMMA InitCount == Init => CountInv
<1> SUFFICES ASSUME Init
             PROVE  CountInv
  OBVIOUS
<1>1. ASSUME NEW w \in Window
      PROVE  count[w] + Cardinality(Waiting(w)) =< arrived[w]
  <2>1. Waiting(w) = {}
    BY DEF Init, Waiting
  <2> QED
    BY <2>1, FS_EmptySet DEF Init
<1> QED
  BY <1>1 DEF Init, CountInv

\* Steps after which no window has more to count.
LEMMA NoMoreWaiting ==
    ASSUME TypeOK, TypeOK', CountInv, UNCHANGED arrived,
           \A w \in Window : count'[w] =< count[w] /\ Waiting(w)' \subseteq Waiting(w)
    PROVE  \A w \in Window : count'[w] + Cardinality(Waiting(w)') =< arrived'[w]
<1> SUFFICES ASSUME NEW w \in Window
             PROVE  count'[w] + Cardinality(Waiting(w)') =< arrived'[w]
  OBVIOUS
<1>1. Waiting(w) \subseteq Handler
  BY DEF Waiting
<1>2. /\ Cardinality(Waiting(w)) \in Nat
      /\ Cardinality(Waiting(w)') =< Cardinality(Waiting(w))
      /\ Cardinality(Waiting(w)') \in Nat
  BY <1>1, Finite
<1>3. count[w] \in Nat /\ count'[w] \in Nat /\ arrived[w] \in Nat
  BY DEF TypeOK
<1> QED
  BY <1>2, <1>3 DEF CountInv

LEMMA NextCount == TypeOK /\ TypeOK' /\ CountInv /\ [Next]_vars => CountInv'
<1> SUFFICES ASSUME TypeOK, TypeOK', CountInv, [Next]_vars
             PROVE  CountInv'
  OBVIOUS
<1>1. ASSUME NEW h \in Handler, NEW r \in Route, NEW t \in Token, Begin(h, r, t)
      PROVE  CountInv'
  <2> DEFINE v == WindowOf(clock)
  <2>1. v \in Window
    BY ClockWindow DEF TypeOK
  <2>2. ASSUME NEW w \in Window
        PROVE  count'[w] + Cardinality(Waiting(w)') =< arrived'[w]
    <3>1. Waiting(w) \subseteq Handler /\ h \notin Waiting(w)
      BY <1>1 DEF Waiting, Begin
    <3>2. Waiting(w)' = IF w = v THEN Waiting(w) \cup {h} ELSE Waiting(w)
      <4>1. \A k \in Handler : /\ pc'[k] = IF k = h THEN "incr" ELSE pc[k]
                               /\ win'[k] = IF k = h THEN v ELSE win[k]
        BY <1>1 DEF TypeOK, Begin
      <4> HIDE DEF v
      <4> QED
        BY <3>1, <4>1 DEF Waiting
    <3>3. /\ Cardinality(Waiting(w)) \in Nat
          /\ Cardinality(Waiting(w) \cup {h}) = Cardinality(Waiting(w)) + 1
      BY <3>1, Finite
    <3>4. arrived'[w] = IF w = v THEN arrived[w] + 1 ELSE arrived[w]
      BY <1>1 DEF TypeOK, Begin
    <3>5. count'[w] = count[w] /\ count[w] \in Nat /\ arrived[w] \in Nat
      BY <1>1 DEF TypeOK, Begin, keyVars
    <3>6. count[w] + Cardinality(Waiting(w)) =< arrived[w]
      BY DEF CountInv
    <3> HIDE DEF v
    <3> QED
      BY <3>2, <3>3, <3>4, <3>5, <3>6
  <2>3. ASSUME NEW k \in Handler, pc'[k] \in {"expire", "check"}
        PROVE  cur'[k] =< arrived'[win'[k]]
    <3>1. k # h /\ pc'[k] = pc[k] /\ win'[k] = win[k] /\ cur'[k] = cur[k]
      BY <1>1, <2>3 DEF TypeOK, Begin
    <3>2. cur[k] =< arrived[win[k]]
      BY <2>3, <3>1 DEF CountInv
    <3>3. arrived[win[k]] =< arrived'[win[k]]
      BY <1>1 DEF TypeOK, Begin
    <3>4. cur[k] \in Nat /\ arrived[win[k]] \in Nat /\ arrived'[win[k]] \in Nat
      BY DEF TypeOK
    <3> QED
      BY <3>1, <3>2, <3>3, <3>4
  <2> QED
    BY <2>2, <2>3 DEF CountInv
<1>2. ASSUME NEW h \in Handler, Incr(h)
      PROVE  CountInv'
  <2>1. PICK v \in Window : v = win[h]
    BY DEF TypeOK
  <2>4. arrived' = arrived
    BY <1>2 DEF Incr
  <2>2. ASSUME NEW w \in Window
        PROVE  count'[w] + Cardinality(Waiting(w)') =< arrived'[w]
    <3>1. Waiting(w) \subseteq Handler
      BY DEF Waiting
    <3>2. Waiting(w)' = Waiting(w) \ {h}
      <4>1. \A k \in Handler : /\ pc'[k] = "incr" <=> pc[k] = "incr" /\ k # h
                               /\ win'[k] = win[k]
        BY <1>2 DEF TypeOK, Incr
      <4> QED
        BY <3>1, <4>1 DEF Waiting
    <3>3. h \in Waiting(w) <=> w = v
      BY <1>2, <2>1 DEF Waiting, Incr
    <3>4. /\ Cardinality(Waiting(w)) \in Nat
          /\ w = v => Cardinality(Waiting(w) \ {h}) = Cardinality(Waiting(w)) - 1
          /\ w # v => Waiting(w) \ {h} = Waiting(w)
      BY <3>1, <3>3, Finite
    <3>5. count'[w] = IF w = v THEN count[w] + 1 ELSE count[w]
      BY <1>2, <2>1 DEF TypeOK, Incr
    <3>6. count[w] \in Nat /\ arrived[w] \in Nat
      BY DEF TypeOK
    <3>7. count[w] + Cardinality(Waiting(w)) =< arrived[w]
      BY DEF CountInv
    <3> QED
      BY <2>4, <3>2, <3>4, <3>5, <3>6, <3>7
  <2>3. ASSUME NEW k \in Handler, pc'[k] \in {"expire", "check"}
        PROVE  cur'[k] =< arrived'[win'[k]]
    <3>1. CASE k = h
      <4>1. cur'[k] = count'[v] /\ win'[k] = v
        BY <1>2, <2>1, <3>1 DEF TypeOK, Incr
      <4>2. count'[v] + Cardinality(Waiting(v)') =< arrived'[v]
        BY <2>2
      <4>3. Cardinality(Waiting(v)') \in Nat
        <5>1. Waiting(v)' \in SUBSET Handler
          BY DEF Waiting
        <5> QED
          BY <5>1, Finite
      <4>4. count'[v] \in Nat /\ arrived'[v] \in Nat
        BY DEF TypeOK
      <4> QED
        BY <4>1, <4>2, <4>3, <4>4
    <3>2. CASE k # h
      BY <1>2, <2>3, <3>2 DEF TypeOK, CountInv, Incr
    <3> QED
      BY <3>1, <3>2
  <2> QED
    BY <2>2, <2>3 DEF CountInv
<1>3. ASSUME NEW h \in Handler, SetExpiry(h)
      PROVE  CountInv'
  <2>1. \A w \in Window : count'[w] =< count[w] /\ Waiting(w)' \subseteq Waiting(w)
    BY <1>3 DEF TypeOK, SetExpiry, Waiting
  <2>2. UNCHANGED arrived
    BY <1>3 DEF SetExpiry, histVars
  <2>3. \A w \in Window : count'[w] + Cardinality(Waiting(w)') =< arrived'[w]
    BY <2>1, <2>2, NoMoreWaiting
  <2>4. \A k \in Handler : /\ pc'[k] \in {"expire", "check"} => pc[k] \in {"expire", "check"}
                           /\ cur'[k] = cur[k]
                           /\ win'[k] = win[k]
    BY <1>3 DEF TypeOK, SetExpiry
  <2> QED
    BY <2>2, <2>3, <2>4, Zenon DEF CountInv
<1>4. ASSUME NEW h \in Handler, Leave(h), UNCHANGED <<count, arrived>>
      PROVE  CountInv'
  <2>1. \A w \in Window : count'[w] =< count[w] /\ Waiting(w)' \subseteq Waiting(w)
    BY <1>4 DEF TypeOK, Leave, Waiting
  <2>2. \A w \in Window : count'[w] + Cardinality(Waiting(w)') =< arrived'[w]
    BY <1>4, <2>1, NoMoreWaiting
  <2>3. \A k \in Handler :
           pc'[k] \in {"expire", "check"} =>
              pc[k] \in {"expire", "check"} /\ cur'[k] = cur[k] /\ win'[k] = win[k]
    BY <1>4 DEF TypeOK, Leave
  <2> QED
    BY <1>4, <2>2, <2>3, Zenon DEF CountInv
<1>5. ASSUME NEW h \in Handler, Reject(h)
      PROVE  CountInv'
  <2>1. \A w \in Window : count'[w] =< count[w] /\ Waiting(w)' \subseteq Waiting(w)
    BY <1>5 DEF TypeOK, Reject, keyVars, Waiting
  <2>2. UNCHANGED arrived
    BY <1>5 DEF Reject, histVars
  <2>3. \A w \in Window : count'[w] + Cardinality(Waiting(w)') =< arrived'[w]
    BY <2>1, <2>2, NoMoreWaiting
  <2>4. \A k \in Handler : /\ pc'[k] \in {"expire", "check"} => pc[k] \in {"expire", "check"}
                           /\ cur'[k] = cur[k]
                           /\ win'[k] = win[k]
    BY <1>5 DEF TypeOK, Reject
  <2> QED
    BY <2>2, <2>3, <2>4, Zenon DEF CountInv
<1>6. CASE RedisRestart \/ Tick
  <2>1. UNCHANGED <<reqVars, arrived>>
    BY <1>6 DEF RedisRestart, Tick, histVars
  <2>2. \A w \in Window : count'[w] =< count[w] /\ Waiting(w)' \subseteq Waiting(w)
    <3>1. \A w \in Window : count'[w] = 0 \/ count'[w] = count[w]
      BY <1>6 DEF RedisRestart, Tick
    <3>2. \A w \in Window : Waiting(w)' = Waiting(w)
      BY <2>1 DEF reqVars, Waiting
    <3>3. \A w \in Window : count[w] \in Nat
      BY DEF TypeOK
    <3> QED
      BY <3>1, <3>2, <3>3
  <2>3. \A w \in Window : count'[w] + Cardinality(Waiting(w)') =< arrived'[w]
    BY <2>1, <2>2, NoMoreWaiting
  <2> QED
    BY <2>1, <2>3 DEF CountInv, reqVars
<1>7. CASE UNCHANGED vars
  BY <1>7 DEF CountInv, Waiting, vars, keyVars, reqVars, histVars
<1>8. ASSUME NEW h \in Handler, Admit(h) \/ Answer(h) \/ Fails(h)
      PROVE  CountInv'
  <2>1. Leave(h) /\ UNCHANGED <<count, arrived>>
    BY <1>8 DEF Admit, Answer, Fails, keyVars, histVars
  <2> QED
    BY <1>4, <2>1
<1> QED
  BY <1>1, <1>2, <1>3, <1>5, <1>6, <1>7, <1>8 DEF Next

LEMMA NextCause ==
    TypeOK /\ TypeOK' /\ CountInv /\ RejectedForCause /\ [Next]_vars
        => RejectedForCause'
<1> SUFFICES ASSUME TypeOK, TypeOK', CountInv, RejectedForCause, [Next]_vars,
                    NEW k \in Handler, pc'[k] = "told"
             PROVE  arrived'[win'[k]] > Limit[route'[k]]
  BY DEF RejectedForCause
<1>1. ASSUME NEW h \in Handler, Reject(h)
      PROVE  arrived'[win'[k]] > Limit[route'[k]]
  <2>1. UNCHANGED <<win, route, arrived>>
    BY <1>1 DEF Reject, histVars
  <2>2. CASE k = h
    <3>1. cur[k] > Limit[route[k]] /\ cur[k] =< arrived[win[k]]
      BY <1>1, <2>2 DEF Reject, Over, CountInv
    <3>2. cur[k] \in Nat /\ Limit[route[k]] \in Nat /\ arrived[win[k]] \in Nat
      BY LimitAssumption DEF TypeOK
    <3> QED
      BY <2>1, <3>1, <3>2
  <2>3. CASE k # h
    BY <1>1, <2>1, <2>3 DEF TypeOK, Reject, RejectedForCause
  <2> QED
    BY <2>2, <2>3
<1>2. ASSUME NEW h \in Handler, NEW r \in Route, NEW t \in Token, Begin(h, r, t)
      PROVE  arrived'[win'[k]] > Limit[route'[k]]
  <2>1. k # h /\ pc[k] = "told" /\ win'[k] = win[k] /\ route'[k] = route[k]
    BY <1>2 DEF TypeOK, Begin
  <2>2. arrived[win[k]] > Limit[route[k]]
    BY <2>1 DEF RejectedForCause
  <2>3. arrived'[win[k]] >= arrived[win[k]]
    BY <1>2 DEF TypeOK, Begin
  <2>4. /\ arrived[win[k]] \in Nat /\ arrived'[win[k]] \in Nat
        /\ Limit[route[k]] \in Nat
    BY LimitAssumption DEF TypeOK
  <2> QED
    BY <2>1, <2>2, <2>3, <2>4
<1>3. ASSUME NEW h \in Handler, Incr(h) \/ SetExpiry(h) \/ Leave(h), UNCHANGED arrived
      PROVE  arrived'[win'[k]] > Limit[route'[k]]
  <2>1. k # h /\ pc[k] = "told" /\ win'[k] = win[k] /\ route'[k] = route[k]
    BY <1>3 DEF TypeOK, Incr, SetExpiry, Leave
  <2> QED
    BY <1>3, <2>1 DEF RejectedForCause
<1>4. CASE UNCHANGED <<reqVars, arrived>>
  BY <1>4 DEF RejectedForCause, reqVars
<1>5. \/ UNCHANGED <<reqVars, arrived>>
      \/ \E h \in Handler : (Incr(h) \/ SetExpiry(h) \/ Leave(h)) /\ UNCHANGED arrived
      \/ \E h \in Handler : Reject(h)
      \/ \E h \in Handler, r \in Route, t \in Token : Begin(h, r, t)
  BY Zenon DEF Next, Incr, SetExpiry, Admit, Answer, Fails, RedisRestart, Tick,
               vars, histVars
<1> QED
  BY <1>1, <1>2, <1>3, <1>4, <1>5

\* No request is turned away unless more requests than the limit of its route,
\* each naming the device, with its token or on a path that needs none, arrived
\* in its window, for any number of concurrent requests and failures.
THEOREM RejectionsHaveCause == Spec => []RejectedForCause
<1>1. Init => RejectedForCause
  BY DEF Init, RejectedForCause
<1> QED
  BY <1>1, InitCount, NextCount, NextCause, TypeCorrect, PTL DEF Spec

-----------------------------------------------------------------------------
(* The limit                                                                 *)

\* No key goes before the end of its window and Slack.
KeyInv == \A w \in Window : expiry[w] # None => expiry[w] >= Close(w)

LEMMA NextKey == TypeOK /\ StartInv /\ KeyInv /\ [Next]_vars => KeyInv'
<1> SUFFICES ASSUME TypeOK, StartInv, KeyInv, [Next]_vars,
                    NEW w \in Window, expiry'[w] # None
             PROVE  expiry'[w] >= Close(w)
  BY DEF KeyInv, Close
<1>1. ASSUME NEW h \in Handler, SetExpiry(h)
      PROVE  expiry'[w] >= Close(w)
  <2>1. CASE w = win[h]
    <3>1. expiry'[w] = clock + TimeToLive
      BY <1>1, <2>1 DEF TypeOK, SetExpiry
    <3>2. w * Width =< clock
      BY <2>1 DEF StartInv
    <3>3. w * Width \in Nat /\ Close(w) = w * Width + Width + Slack
      BY WindowIsNat, Product
    <3>4. clock \in Nat
      BY DEF TypeOK
    <3> QED
      BY <3>1, <3>2, <3>3, <3>4, TimeAssumption DEF TimeToLive
  <2>2. CASE w # win[h]
    BY <1>1, <2>2 DEF TypeOK, SetExpiry, KeyInv
  <2> QED
    BY <2>1, <2>2
<1>2. CASE expiry'[w] = expiry[w] \/ expiry'[w] = None
  BY <1>2 DEF KeyInv
<1>3. \/ expiry'[w] = expiry[w] \/ expiry'[w] = None
      \/ \E h \in Handler : SetExpiry(h)
  BY Zenon DEF Next, Begin, Incr, Admit, Reject, Answer, Fails, RedisRestart, Tick,
               vars, keyVars
<1> QED
  BY <1>1, <1>2, <1>3

\* Requests of w that will pass and count for r.
Eligible(w, r) ==
    {h \in Handler : /\ pc[h] \in {"expire", "check"}
                     /\ win[h] = w
                     /\ ~Over(cur[h], route[h])
                     /\ Limit[route[h]] =< Limit[r]}

\* Those that passed or will.
Passed(w, r) == admitted[w][r] + Cardinality(Eligible(w, r))

\* They are within the limit, and while the key must be there, within the
\* counter: then one more INCR either is over the limit or adds one to both.
LimitInv ==
    \A w \in Window \ lost, r \in Route :
        /\ Passed(w, r) =< Limit[r]
        /\ clock < Close(w) => Passed(w, r) =< count[w]

LEMMA PassedIsNat ==
    ASSUME TypeOK, NEW w \in Window, NEW r \in Route
    PROVE  Passed(w, r) \in Nat /\ Limit[r] \in Nat /\ count[w] \in Nat
<1>1. Cardinality(Eligible(w, r)) \in Nat
  <2>1. Eligible(w, r) \in SUBSET Handler
    BY DEF Eligible
  <2> QED
    BY <2>1, Finite
<1>2. admitted[w][r] \in Nat /\ Limit[r] \in Nat /\ count[w] \in Nat
  BY LimitAssumption DEF TypeOK
<1> QED
  BY <1>1, <1>2 DEF Passed

\* What holds of a window and a route after a step that adds nobody, when the
\* counter stays or the key could go.
LEMMA Kept ==
    ASSUME TypeOK, TypeOK', LimitInv, NEW w \in Window \ lost, NEW r \in Route,
           Eligible(w, r)' \subseteq Eligible(w, r),
           admitted'[w][r] = admitted[w][r],
           clock' < Close(w) => clock < Close(w) /\ count'[w] >= count[w]
    PROVE  /\ Passed(w, r)' =< Limit[r]
           /\ clock' < Close(w) => Passed(w, r)' =< count'[w]
<1>1. Eligible(w, r) \in SUBSET Handler
  BY DEF Eligible
<1>2. Cardinality(Eligible(w, r)') =< Cardinality(Eligible(w, r))
      /\ Cardinality(Eligible(w, r)) \in Nat
  BY <1>1, Finite
<1>3. Cardinality(Eligible(w, r)') \in Nat
  <2>1. Eligible(w, r)' \in SUBSET Handler
    BY <1>1
  <2> QED
    BY <2>1, Finite
<1>4. admitted[w][r] \in Nat /\ Limit[r] \in Nat
      /\ count[w] \in Nat /\ count'[w] \in Nat
  BY LimitAssumption DEF TypeOK
<1>5. Passed(w, r)' =< Passed(w, r) /\ Passed(w, r)' \in Nat /\ Passed(w, r) \in Nat
  BY <1>2, <1>3, <1>4 DEF Passed
<1>6. /\ Passed(w, r) =< Limit[r]
      /\ clock < Close(w) => Passed(w, r) =< count[w]
  BY DEF LimitInv
<1>7. Passed(w, r)' =< Limit[r]
  BY <1>4, <1>5, <1>6
<1>8. ASSUME clock' < Close(w)
      PROVE  Passed(w, r)' =< count'[w]
  <2>1. Passed(w, r) =< count[w] /\ count'[w] >= count[w]
    BY <1>6, <1>8
  <2> QED
    BY <2>1, <1>4, <1>5
<1> QED
  BY <1>7, <1>8

\* Steps that touch neither the keys, nor the clock, nor what passed.
LEMMA KeptAll ==
    ASSUME TypeOK, TypeOK', LimitInv,
           UNCHANGED <<clock, count, admitted, lost>>,
           \A w \in Window, r \in Route : Eligible(w, r)' \subseteq Eligible(w, r)
    PROVE  LimitInv'
<1> SUFFICES ASSUME NEW w \in Window \ lost, NEW r \in Route
             PROVE  /\ Passed(w, r)' =< Limit[r]
                    /\ clock' < Close(w) => Passed(w, r)' =< count'[w]
  BY DEF LimitInv, Close
<1>1. count[w] \in Nat
  BY DEF TypeOK
<1>2. /\ Eligible(w, r)' \subseteq Eligible(w, r)
      /\ admitted'[w][r] = admitted[w][r]
      /\ clock' < Close(w) => clock < Close(w) /\ count'[w] >= count[w]
  BY <1>1
<1> QED
  BY <1>2, Kept

LEMMA InitLimit == Init => KeyInv /\ LimitInv
<1> SUFFICES ASSUME Init
             PROVE  KeyInv /\ LimitInv
  OBVIOUS
<1>1. KeyInv
  BY DEF Init, KeyInv
<1>2. ASSUME NEW w \in Window, NEW r \in Route
      PROVE  Passed(w, r) = 0 /\ count[w] = 0 /\ Limit[r] \in Nat
  <2>1. Eligible(w, r) = {}
    BY DEF Init, Eligible
  <2> QED
    BY <2>1, FS_EmptySet, LimitAssumption DEF Init, Passed
<1>3. LimitInv
  BY <1>2 DEF LimitInv
<1> QED
  BY <1>1, <1>3

\* INCR, in time and of the window looked at: one more on both sides.
LEMMA IncrLimit ==
    ASSUME TypeOK, TypeOK', LimitInv, NEW h \in Handler, Incr(h),
           NEW w \in Window \ lost', NEW r \in Route, w = win[h]
    PROVE  /\ Passed(w, r)' =< Limit[r]
           /\ clock' < Close(w) => Passed(w, r)' =< count'[w]
<1>1. /\ w \notin lost
      /\ clock < Close(w) /\ clock' = clock
      /\ count'[w] = count[w] + 1
      /\ cur'[h] = count[w] + 1
      /\ admitted' = admitted
  <2>1. clock \in Nat /\ Close(w) \in Nat
    BY WindowIsNat, Product DEF TypeOK
  <2>2. w \notin lost /\ ~(clock >= Close(w))
    BY DEF Incr
  <2>3. clock < Close(w)
    BY <2>1, <2>2
  <2> QED
    BY <2>2, <2>3 DEF TypeOK, Incr
<1>2. Eligible(w, r) \in SUBSET Handler /\ h \notin Eligible(w, r)
  BY DEF Eligible, Incr
<1>3. \A k \in Handler \ {h} :
         pc'[k] = pc[k] /\ win'[k] = win[k] /\ cur'[k] = cur[k] /\ route'[k] = route[k]
  BY DEF TypeOK, Incr
<1>4. Eligible(w, r)' \subseteq Eligible(w, r) \cup {h}
  BY <1>3 DEF Eligible, Over
<1>5. Passed(w, r) \in Nat /\ Limit[r] \in Nat /\ count[w] \in Nat
      /\ Passed(w, r) =< Limit[r] /\ Passed(w, r) =< count[w]
  BY <1>1, PassedIsNat DEF LimitInv
<1>6. CASE h \in Eligible(w, r)'
  <2>1. count[w] + 1 =< Limit[r]
    <3>1. ~(cur'[h] > Limit[route'[h]]) /\ Limit[route'[h]] =< Limit[r]
      BY <1>6 DEF Eligible, Over
    <3>2. Limit[route'[h]] \in Nat
      BY LimitAssumption DEF TypeOK
    <3> QED
      BY <1>1, <1>5, <3>1, <3>2
  <2>2. Cardinality(Eligible(w, r)') =< Cardinality(Eligible(w, r)) + 1
        /\ Cardinality(Eligible(w, r)') \in Nat
        /\ Cardinality(Eligible(w, r)) \in Nat
    <3>1. Eligible(w, r) \cup {h} \in SUBSET Handler
          /\ Eligible(w, r)' \in SUBSET Handler
      BY <1>2, <1>4
    <3>2. Cardinality(Eligible(w, r) \cup {h}) = Cardinality(Eligible(w, r)) + 1
      BY <1>2, Finite
    <3>3. Cardinality(Eligible(w, r)') =< Cardinality(Eligible(w, r) \cup {h})
      BY <1>4, <3>1, Finite
    <3> QED
      BY <1>2, <3>1, <3>2, <3>3, Finite
  <2>3. Passed(w, r)' =< Passed(w, r) + 1 /\ Passed(w, r)' \in Nat
    <3>1. admitted[w][r] \in Nat
      BY DEF TypeOK
    <3> QED
      BY <1>1, <2>2, <3>1 DEF Passed
  <2> QED
    BY <1>1, <1>5, <2>1, <2>3
<1>7. CASE h \notin Eligible(w, r)'
  <2>1. Eligible(w, r)' \subseteq Eligible(w, r)
    BY <1>4, <1>7
  <2>2. count'[w] >= count[w] /\ admitted'[w][r] = admitted[w][r]
    BY <1>1, <1>5
  <2> QED
    BY <1>1, <2>1, <2>2, Kept
<1> QED
  BY <1>6, <1>7

\* next(): a request that was to pass has passed.
LEMMA AdmitLimit ==
    ASSUME TypeOK, TypeOK', LimitInv, NEW h \in Handler, Admit(h)
    PROVE  LimitInv'
<1> SUFFICES ASSUME NEW w \in Window \ lost, NEW r \in Route
             PROVE  /\ Passed(w, r)' =< Limit[r]
                    /\ clock' < Close(w) => Passed(w, r)' =< count'[w]
  BY DEF LimitInv, Close, Admit
<1>1. clock' = clock /\ count' = count
  BY DEF Admit, keyVars
<1>2. \A k \in Handler \ {h} :
         pc'[k] = pc[k] /\ win'[k] = win[k] /\ cur'[k] = cur[k] /\ route'[k] = route[k]
  BY DEF TypeOK, Admit, Leave
<1>3. Eligible(w, r) \in SUBSET Handler /\ Eligible(w, r)' \subseteq Eligible(w, r) \ {h}
  <2>1. pc'[h] = "idle"
    BY DEF TypeOK, Admit, Leave
  <2> QED
    BY <1>2, <2>1 DEF Eligible, Over
<1>4. CASE w = win[h] /\ Limit[route[h]] =< Limit[r]
  <2>1. h \in Eligible(w, r)
    BY <1>4 DEF Eligible, Admit
  <2>2. admitted'[w][r] = admitted[w][r] + 1 /\ admitted[w][r] \in Nat
    BY <1>4 DEF TypeOK, Admit
  <2>3. Cardinality(Eligible(w, r)') =< Cardinality(Eligible(w, r)) - 1
        /\ Cardinality(Eligible(w, r)') \in Nat
        /\ Cardinality(Eligible(w, r)) \in Nat
    <3>1. Eligible(w, r) \ {h} \in SUBSET Handler /\ Eligible(w, r)' \in SUBSET Handler
      BY <1>3
    <3>2. Cardinality(Eligible(w, r) \ {h}) = Cardinality(Eligible(w, r)) - 1
      BY <1>3, <2>1, Finite
    <3>3. Cardinality(Eligible(w, r)') =< Cardinality(Eligible(w, r) \ {h})
      BY <1>3, <3>1, Finite
    <3> QED
      BY <1>3, <3>1, <3>2, <3>3, Finite
  <2>4. Passed(w, r)' =< Passed(w, r) /\ Passed(w, r)' \in Nat
    BY <2>2, <2>3 DEF Passed
  <2>5. Passed(w, r) \in Nat /\ Limit[r] \in Nat /\ count[w] \in Nat
    BY PassedIsNat
  <2>6. Passed(w, r) =< Limit[r] /\ (clock < Close(w) => Passed(w, r) =< count[w])
    BY DEF LimitInv
  <2> QED
    BY <1>1, <2>4, <2>5, <2>6
<1>5. CASE ~(w = win[h] /\ Limit[route[h]] =< Limit[r])
  <2>1. admitted'[w][r] = admitted[w][r]
    BY <1>5 DEF TypeOK, Admit
  <2>2. count[w] \in Nat
    BY DEF TypeOK
  <2>3. clock' < Close(w) => clock < Close(w) /\ count'[w] >= count[w]
    BY <1>1, <2>2
  <2> QED
    BY <1>3, <2>1, <2>3, Kept
<1> QED
  BY <1>4, <1>5

LEMMA NextLimit ==
    TypeOK /\ TypeOK' /\ KeyInv /\ LimitInv /\ [Next]_vars => LimitInv'
<1> SUFFICES ASSUME TypeOK, TypeOK', KeyInv, LimitInv, [Next]_vars
             PROVE  LimitInv'
  OBVIOUS
<1>1. ASSUME NEW h \in Handler, NEW r \in Route, NEW t \in Token, Begin(h, r, t)
      PROVE  LimitInv'
  <2>1. \A k \in Handler :
           pc'[k] \in {"expire", "check"} =>
              pc[k] = pc'[k] /\ win'[k] = win[k] /\ cur'[k] = cur[k] /\ route'[k] = route[k]
    BY <1>1 DEF TypeOK, Begin
  <2>2. \A w \in Window, q \in Route : Eligible(w, q)' \subseteq Eligible(w, q)
    BY <2>1 DEF Eligible, Over
  <2>3. UNCHANGED <<clock, count, admitted, lost>>
    BY <1>1 DEF Begin, keyVars
  <2> QED
    BY <2>2, <2>3, KeptAll
<1>2. ASSUME NEW h \in Handler, Incr(h)
      PROVE  LimitInv'
  <2> SUFFICES ASSUME NEW w \in Window \ lost', NEW r \in Route
               PROVE  /\ Passed(w, r)' =< Limit[r]
                      /\ clock' < Close(w) => Passed(w, r)' =< count'[w]
    BY DEF LimitInv, Close
  <2>1. CASE w = win[h]
    BY <1>2, <2>1, IncrLimit
  <2>2. CASE w # win[h]
    <3>1. w \notin lost /\ clock' = clock /\ count'[w] = count[w] /\ admitted' = admitted
      BY <1>2, <2>2 DEF TypeOK, Incr
    <3>2. Eligible(w, r)' \subseteq Eligible(w, r)
      <4>1. \A k \in Handler \ {h} : /\ pc'[k] = pc[k] /\ win'[k] = win[k]
                                     /\ cur'[k] = cur[k] /\ route'[k] = route[k]
        BY <1>2 DEF TypeOK, Incr
      <4>2. win'[h] # w
        BY <1>2, <2>2 DEF TypeOK, Incr
      <4> QED
        BY <4>1, <4>2 DEF Eligible, Over
    <3>3. count'[w] >= count[w]
      BY <3>1 DEF TypeOK
    <3> QED
      BY <3>1, <3>2, <3>3, Kept
  <2> QED
    BY <2>1, <2>2
<1>3. ASSUME NEW h \in Handler, SetExpiry(h)
      PROVE  LimitInv'
  <2>1. \A k \in Handler :
           /\ pc'[k] \in {"expire", "check"} => pc[k] \in {"expire", "check"}
           /\ win'[k] = win[k] /\ cur'[k] = cur[k] /\ route'[k] = route[k]
    BY <1>3 DEF TypeOK, SetExpiry
  <2>2. \A w \in Window, q \in Route : Eligible(w, q)' \subseteq Eligible(w, q)
    BY <2>1 DEF Eligible, Over
  <2>3. UNCHANGED <<clock, count, admitted, lost>>
    BY <1>3 DEF SetExpiry, histVars
  <2> QED
    BY <2>2, <2>3, KeptAll
<1>4. ASSUME NEW h \in Handler, Admit(h)
      PROVE  LimitInv'
  BY <1>4, AdmitLimit
<1>5. ASSUME NEW h \in Handler, Reject(h)
      PROVE  LimitInv'
  <2>1. \A k \in Handler :
           /\ pc'[k] \in {"expire", "check"} => pc[k] \in {"expire", "check"}
           /\ win'[k] = win[k] /\ cur'[k] = cur[k] /\ route'[k] = route[k]
    BY <1>5 DEF TypeOK, Reject
  <2>2. \A w \in Window, q \in Route : Eligible(w, q)' \subseteq Eligible(w, q)
    BY <2>1 DEF Eligible, Over
  <2>3. UNCHANGED <<clock, count, admitted, lost>>
    BY <1>5 DEF Reject, keyVars, histVars
  <2> QED
    BY <2>2, <2>3, KeptAll
<1>6. ASSUME NEW h \in Handler, Answer(h) \/ Fails(h)
      PROVE  LimitInv'
  <2>1. Leave(h) /\ UNCHANGED <<clock, count, admitted, lost>>
    BY <1>6 DEF Answer, Fails, keyVars, histVars
  <2>2. \A k \in Handler :
           pc'[k] \in {"expire", "check"} =>
              pc[k] = pc'[k] /\ win'[k] = win[k] /\ cur'[k] = cur[k] /\ route'[k] = route[k]
    BY <2>1 DEF TypeOK, Leave
  <2>3. \A w \in Window, q \in Route : Eligible(w, q)' \subseteq Eligible(w, q)
    BY <2>2 DEF Eligible, Over
  <2> QED
    BY <2>1, <2>3, KeptAll
<1>7. CASE RedisRestart
  <2> SUFFICES ASSUME NEW w \in Window \ lost', NEW r \in Route
               PROVE  /\ Passed(w, r)' =< Limit[r]
                      /\ clock' < Close(w) => Passed(w, r)' =< count'[w]
    BY DEF LimitInv, Close
  <2>1. w \notin lost /\ clock' = clock /\ admitted' = admitted /\ UNCHANGED reqVars
    BY <1>7 DEF RedisRestart
  <2>2. count'[w] >= count[w]
    BY <1>7 DEF TypeOK, RedisRestart
  <2>3. Eligible(w, r)' \subseteq Eligible(w, r)
    BY <2>1 DEF Eligible, Over, reqVars
  <2> QED
    BY <2>1, <2>2, <2>3, Kept
<1>8. CASE Tick
  <2> SUFFICES ASSUME NEW w \in Window \ lost, NEW r \in Route
               PROVE  /\ Passed(w, r)' =< Limit[r]
                      /\ clock' < Close(w) => Passed(w, r)' =< count'[w]
    BY <1>8 DEF LimitInv, Close, Tick, histVars
  <2>1. admitted' = admitted /\ UNCHANGED reqVars
    BY <1>8 DEF Tick, histVars
  <2>2. Eligible(w, r)' \subseteq Eligible(w, r)
    BY <2>1 DEF Eligible, Over, reqVars
  <2>3. ASSUME clock' < Close(w)
        PROVE  clock < Close(w) /\ count'[w] >= count[w]
    <3>1. clock' = clock + 1 /\ clock \in Nat /\ count[w] \in Nat /\ expiry[w] \in Nat
      BY <1>8 DEF TypeOK, Tick
    <3>2. Close(w) \in Nat
      BY WindowIsNat, Product
    <3>3. clock < Close(w)
      BY <2>3, <3>1, <3>2
    <3>4. ~Gone(w, clock + 1)
      <4>1. expiry[w] # None => expiry[w] >= Close(w)
        BY DEF KeyInv
      <4> QED
        BY <2>3, <3>1, <3>2, <4>1 DEF Gone
    <3>5. count'[w] = count[w]
      BY <1>8, <3>4 DEF Tick
    <3> QED
      BY <3>1, <3>3, <3>5
  <2> QED
    BY <2>1, <2>2, <2>3, Kept
<1>9. CASE UNCHANGED vars
  <2>1. UNCHANGED <<clock, count, admitted, lost, reqVars>>
    BY <1>9 DEF vars, keyVars, histVars
  <2>2. \A w \in Window, q \in Route : Eligible(w, q)' \subseteq Eligible(w, q)
    BY <2>1 DEF Eligible, Over, reqVars
  <2> QED
    BY <2>1, <2>2, KeptAll
<1> QED
  BY <1>1, <1>2, <1>3, <1>4, <1>5, <1>6, <1>7, <1>8, <1>9 DEF Next

\* In a window that Redis did not forget, no more requests pass than the
\* limit of their route, for any limits, widths and numbers of requests.
THEOREM WindowIsLimited == Spec => []WindowLimit
<1>1. TypeOK /\ LimitInv => WindowLimit
  <2> SUFFICES ASSUME TypeOK, LimitInv, NEW w \in Window \ lost, NEW r \in Route
               PROVE  admitted[w][r] =< Limit[r]
    BY DEF WindowLimit
  <2>1. Cardinality(Eligible(w, r)) \in Nat
    <3>1. Eligible(w, r) \in SUBSET Handler
      BY DEF Eligible
    <3> QED
      BY <3>1, Finite
  <2>2. admitted[w][r] \in Nat /\ Limit[r] \in Nat
    BY LimitAssumption DEF TypeOK
  <2>3. admitted[w][r] + Cardinality(Eligible(w, r)) =< Limit[r]
    BY DEF LimitInv, Passed
  <2> QED
    BY <2>1, <2>2, <2>3
<1> QED
  BY <1>1, InitStart, InitLimit, NextStart, NextKey, NextLimit, TypeCorrect, PTL DEF Spec

-----------------------------------------------------------------------------
(* The middleware is a limiter of one step                                   *)

\* The stages when one handler moves.
LEMMA OneMoves ==
    ASSUME NEW h \in Handler,
           \A g \in Handler \ {h} :
              pc'[g] = pc[g] /\ cur'[g] = cur[g] /\ route'[g] = route[g]
    PROVE  [g \in Handler |-> Stage(g)]'
              = [[g \in Handler |-> Stage(g)] EXCEPT ![h] = Stage(h)']
<1>1. \A g \in Handler \ {h} : Stage(g)' = Stage(g)
  BY DEF Stage, Over
<1> HIDE DEF Stage
<1> QED
  BY <1>1

\* ... and when none does.
LEMMA NoneMoves ==
    ASSUME UNCHANGED reqVars
    PROVE  UNCHANGED Allowance!reqVars
<1>1. \A g \in Handler : Stage(g)' = Stage(g)
  BY DEF Stage, Over, reqVars
<1>2. [g \in Handler |-> Stage(g)]' = [g \in Handler |-> Stage(g)]
  BY <1>1
<1> QED
  BY <1>2 DEF Allowance!reqVars, reqVars

LEMMA InitAllowance == Init => Allowance!Init
<1> SUFFICES ASSUME Init
             PROVE  Allowance!Init
  OBVIOUS
<1>1. [g \in Handler |-> Stage(g)] = [g \in Handler |-> "idle"]
  BY DEF Init, Stage
<1>2. route \in [Handler -> Route]
  BY AnyRouteIsRoute DEF Init
<1> QED
  BY <1>1, <1>2 DEF Init, Allowance!Init

\* INCR decides.
LEMMA IncrJudges ==
    ASSUME TypeOK, NEW h \in Handler, Incr(h)
    PROVE  Allowance!Judge(h)
<1> DEFINE n == count[win[h]] + 1
<1>1. /\ pc[h] = "incr"
      /\ count' = [count EXCEPT ![win[h]] = n]
      /\ pc'[h] \in {"expire", "check"} /\ cur'[h] = n /\ route' = route
      /\ \A g \in Handler \ {h} : pc'[g] = pc[g] /\ cur'[g] = cur[g]
      /\ UNCHANGED <<clock, win, retry>>
  BY DEF Incr, TypeOK
<1>2. Stage(h) = "asked"
  BY <1>1 DEF Stage
<1>3. Stage(h)' = IF n > Limit[route[h]] THEN "refused" ELSE "passed"
  BY <1>1 DEF Stage, Over
<1>4. [g \in Handler |-> Stage(g)]' = [[g \in Handler |-> Stage(g)] EXCEPT ![h] = Stage(h)']
  BY <1>1, OneMoves
<1> HIDE DEF Stage
<1> QED
  BY <1>1, <1>2, <1>3, <1>4 DEF Allowance!Judge

\* A handler that leaves ends its request.
LEMMA LeaveEnds ==
    ASSUME TypeOK, NEW h \in Handler, pc[h] # "idle", Leave(h), UNCHANGED <<clock, keyVars>>
    PROVE  Allowance!End(h)
<1>1. /\ pc'[h] = "idle"
      /\ \A g \in Handler \ {h} : pc'[g] = pc[g] /\ cur'[g] = cur[g] /\ route'[g] = route[g]
      /\ route' = [route EXCEPT ![h] = AnyRoute]
      /\ win' = [win EXCEPT ![h] = 0]
      /\ retry' = [retry EXCEPT ![h] = 0]
      /\ UNCHANGED <<clock, count>>
  BY DEF Leave, TypeOK, keyVars
<1>2. Stage(h) # "idle"
  BY DEF Stage, TypeOK, Place
<1>3. Stage(h)' = "idle"
  BY <1>1 DEF Stage
<1>4. [g \in Handler |-> Stage(g)]' = [[g \in Handler |-> Stage(g)] EXCEPT ![h] = Stage(h)']
  BY <1>1, OneMoves
<1> HIDE DEF Stage
<1> QED
  BY <1>1, <1>2, <1>3, <1>4, AnyRouteIsRoute DEF Allowance!End

\* A 429 names a time in a later window, at most a window away.
LEMMA RejectTells ==
    ASSUME TypeOK, RetryInNewWindow', NEW h \in Handler, Reject(h)
    PROVE  Allowance!Tell(h)
<1>1. /\ pc[h] = "check" /\ Over(cur[h], route[h]) /\ pc'[h] = "told"
      /\ retry' = [retry EXCEPT ![h] = clock + RetryAfter]
      /\ \A g \in Handler \ {h} : pc'[g] = pc[g]
      /\ UNCHANGED <<clock, count, route, win, cur>>
  BY DEF Reject, TypeOK, keyVars
<1>2. Stage(h) = "refused"
  BY <1>1 DEF Stage
<1>3. Stage(h)' = "told"
  BY <1>1 DEF Stage
<1>4. [g \in Handler |-> Stage(g)]' = [[g \in Handler |-> Stage(g)] EXCEPT ![h] = Stage(h)']
  BY <1>1, OneMoves
<1>5. clock + RetryAfter \in clock + 1 .. clock + Width
  BY RetryBounds, TimeAssumption, BoundAssumption DEF TypeOK
<1>6. (clock + RetryAfter) \div Width > win[h]
  <2>1. retry'[h] = clock + RetryAfter
    BY <1>1 DEF TypeOK
  <2> QED
    BY <1>1, <2>1 DEF RetryInNewWindow, WindowOf
<1> HIDE DEF Stage, RetryAfter
<1> QED
  BY <1>1, <1>2, <1>3, <1>4, <1>5, <1>6 DEF Allowance!Tell

\* The keys Redis drops at a tick are those of windows that are long over.
LEMMA TickAdvances ==
    ASSUME TypeOK, KeyInv, Tick
    PROVE  Allowance!Advance
<1> DEFINE S == {w \in Window : Gone(w, clock + 1)}
<1>1. S \in SUBSET {w \in Window : (w + 1) * Width + Slack =< clock'}
  <2> SUFFICES ASSUME NEW w \in Window, Gone(w, clock + 1)
               PROVE  Close(w) =< clock'
    BY DEF Close
  <2>1. clock' = clock + 1 /\ clock \in Nat /\ expiry[w] \in Nat /\ Close(w) \in Nat
    BY WindowIsNat, Product DEF Tick, TypeOK
  <2>2. Close(w) =< expiry[w] /\ expiry[w] =< clock + 1
    BY <2>1 DEF KeyInv, Gone
  <2> QED
    BY <2>1, <2>2
<1>2. count' = [w \in Window |-> IF w \in S THEN 0 ELSE count[w]]
  BY DEF Tick
<1>3. UNCHANGED Allowance!reqVars
  BY NoneMoves DEF Tick
<1>4. clock' = clock + 1
  BY DEF Tick
<1> HIDE DEF S
<1> QED
  BY <1>1, <1>2, <1>3, <1>4 DEF Allowance!Advance

LEMMA NextAllowance ==
    TypeOK /\ KeyInv /\ RetryInNewWindow' /\ [Next]_vars => [Allowance!Next]_Allowance!vars
<1> SUFFICES ASSUME TypeOK, KeyInv, RetryInNewWindow', [Next]_vars
             PROVE  [Allowance!Next]_Allowance!vars
  OBVIOUS
<1>1. ASSUME NEW h \in Handler, NEW r \in Route, NEW t \in Token, Begin(h, r, t)
      PROVE  Allowance!Next
  <2>1. /\ pc[h] = "idle" /\ pc'[h] = "incr"
        /\ route' = [route EXCEPT ![h] = r]
        /\ win' = [win EXCEPT ![h] = clock \div Width]
        /\ \A g \in Handler \ {h} : pc'[g] = pc[g] /\ route'[g] = route[g]
        /\ UNCHANGED <<clock, count, cur, retry>>
    BY <1>1 DEF Begin, TypeOK, keyVars, WindowOf
  <2>2. Stage(h) = "idle" /\ Stage(h)' = "asked"
    BY <2>1 DEF Stage
  <2>3. [g \in Handler |-> Stage(g)]' = [[g \in Handler |-> Stage(g)] EXCEPT ![h] = Stage(h)']
    BY <2>1, OneMoves
  <2>4. Allowance!Ask(h, r)
    <3> HIDE DEF Stage
    <3> QED
      BY <2>1, <2>2, <2>3 DEF Allowance!Ask
  <2> QED
    BY <2>4 DEF Allowance!Next
<1>2. ASSUME NEW h \in Handler, Incr(h)
      PROVE  Allowance!Next
  BY <1>2, IncrJudges DEF Allowance!Next
<1>3. ASSUME NEW h \in Handler, SetExpiry(h)
      PROVE  UNCHANGED Allowance!vars
  <2>1. /\ pc[h] = "expire" /\ pc'[h] = "check"
        /\ \A g \in Handler \ {h} : pc'[g] = pc[g]
        /\ UNCHANGED <<clock, count, route, win, cur, retry>>
    BY <1>3 DEF SetExpiry, TypeOK
  <2>2. \A g \in Handler : Stage(g)' = Stage(g)
    BY <2>1 DEF Stage, Over
  <2>3. [g \in Handler |-> Stage(g)]' = [g \in Handler |-> Stage(g)]
    BY <2>2
  <2> QED
    BY <2>1, <2>3 DEF Allowance!vars, Allowance!reqVars
<1>4. ASSUME NEW h \in Handler, Admit(h) \/ Answer(h) \/ Fails(h)
      PROVE  Allowance!Next
  <2>1. pc[h] # "idle" /\ Leave(h) /\ UNCHANGED <<clock, keyVars>>
    BY <1>4 DEF Admit, Answer, Fails
  <2> QED
    BY <2>1, LeaveEnds DEF Allowance!Next
<1>5. ASSUME NEW h \in Handler, Reject(h)
      PROVE  Allowance!Next
  BY <1>5, RejectTells DEF Allowance!Next
<1>6. CASE RedisRestart
  <2>1. Allowance!Wipe
    BY <1>6, NoneMoves DEF RedisRestart, Allowance!Wipe
  <2> QED
    BY <2>1 DEF Allowance!Next
<1>7. CASE Tick
  BY <1>7, TickAdvances DEF Allowance!Next
<1>8. CASE UNCHANGED vars
  BY <1>8, NoneMoves DEF vars, keyVars, Allowance!vars
<1> QED
  BY <1>1, <1>2, <1>3, <1>4, <1>5, <1>6, <1>7, <1>8 DEF Next

\* The middleware, with its two calls to Redis, late and lost handlers and
\* counters that Redis drops, counts and decides in one step and keeps counts
\* as long as it says (rate_limit_middleware.ts:54-107).
THEOREM LimiterIsAQuota == Spec => ImplementsQuota
<1>1. Init => RetryInNewWindow /\ KeyInv
  BY InitLimit DEF Init, RetryInNewWindow
<1> QED
  BY <1>1, TypeCorrect, InitStart, NextStart, NextRetry, NextKey, InitAllowance, NextAllowance, PTL
     DEF Spec, ImplementsQuota, Allowance!Spec

=============================================================================
