-------------------------- MODULE Sessions_proofs --------------------------
(* Proofs about module Sessions.                                             *)
EXTENDS Sessions, Division, FiniteSetTheorems

-----------------------------------------------------------------------------
\* Types

LEMMA TypeInit == Init => TypeOK
BY TimeAssumption, DriftAssumption, BoundAssumption DEF Init, TypeOK, Place, Service

\* The first read of a request keeps the types, whatever account it found.
LEMMA ArriveType ==
    ASSUME TypeOK,
           NEW h \in Handler, NEW p \in Phone, NEW kind, NEW l \in Place,
           NEW a \in Account \cup {None},
           l \in {"save", "mint", "created", "known", "verified"} => a \in Account,
           Arrive(h, p, kind, l, a), raced' \in [Phone -> Nat]
    PROVE  TypeOK'
BY DEF Arrive, TypeOK, Place, timeVars, rowVars, callVars

LEMMA MadeTokens ==
    ASSUME NEW a \in Account, NEW t \in Nat
    PROVE  SessionToken(a, t) \in Token /\ DeviceToken(a, t) \in Token
BY SecretAssumption DEF SessionToken, DeviceToken, Token

\* A step of a handler keeps the types.
LEMMA HandlerType ==
    ASSUME TypeOK, NEW h \in Handler,
           \/ \E p \in Phone : RegisterNew(h, p)
           \/ \E p \in Phone : RegisterKnown(h, p)
           \/ \E a \in Account : RegisterInsert(h, a)
           \/ \E p \in Phone, a \in Account : LoginKnown(h, p, a)
           \/ \E p \in Phone : LoginUnknown(h, p)
           \/ \E p \in Phone, a \in Account, code \in Code : VerifyFind(h, p, a, code)
           \/ \E p \in Phone, code \in Code : VerifyDenied(h, p, code)
           \/ VerifySave(h)
           \/ Mint(h)
           \/ Answer(h)
           \/ HandlerFails(h)
    PROVE  TypeOK'
<1>1. ASSUME NEW p \in Phone, RegisterNew(h, p)
      PROVE  TypeOK'
  <2>1. raced' \in [Phone -> Nat]
    BY <1>1 DEF TypeOK, RegisterNew
  <2> QED
    BY <1>1, <2>1, ArriveType DEF RegisterNew, Place
<1>2. ASSUME NEW p \in Phone, RegisterKnown(h, p)
      PROVE  TypeOK'
  BY <1>2, ArriveType DEF RegisterKnown, Place, TypeOK
<1>3. ASSUME NEW a \in Account, RegisterInsert(h, a)
      PROVE  TypeOK'
  BY <1>3 DEF TypeOK, RegisterInsert, Place, timeVars, cliVars, callVars, histVars
<1>4. ASSUME NEW p \in Phone, NEW a \in Account, LoginKnown(h, p, a)
      PROVE  TypeOK'
  BY <1>4, ArriveType DEF LoginKnown, Place, TypeOK
<1>5. ASSUME NEW p \in Phone, LoginUnknown(h, p)
      PROVE  TypeOK'
  BY <1>5, ArriveType DEF LoginUnknown, Place, TypeOK
<1>6. ASSUME NEW p \in Phone, NEW a \in Account, NEW code \in Code, VerifyFind(h, p, a, code)
      PROVE  TypeOK'
  BY <1>6, ArriveType DEF VerifyFind, Place, TypeOK
<1>7. ASSUME NEW p \in Phone, NEW code \in Code, VerifyDenied(h, p, code)
      PROVE  TypeOK'
  BY <1>7, ArriveType DEF VerifyDenied, Place, TypeOK
<1>8. ASSUME VerifySave(h)
      PROVE  TypeOK'
  BY <1>8 DEF TypeOK, VerifySave, Place, timeVars, cliVars, callVars, histVars
<1>9. ASSUME Mint(h)
      PROVE  TypeOK'
  <2>1. clock \in Nat
    BY TimeAssumption DEF TypeOK
  <2> QED
    BY <1>9, <2>1 DEF TypeOK, Mint, Place, timeVars, rowVars, cliVars, callVars, histVars
<1>10. ASSUME Answer(h)
       PROVE  TypeOK'
  <2> DEFINE p == who[h]
  <2>1. p \in Phone
    BY <1>10 DEF Answer, TypeOK
  <2>2. step' \in [Phone -> {"register", "login", "verify", "in"}]
    BY <1>10, <2>1 DEF Answer, After, TypeOK
  <2>3. held' \in [Phone -> SUBSET Token]
    <3>1. pc[h] = "verified" => Tokens(h) \subseteq Token
      BY MadeTokens DEF TypeOK, Tokens
    <3> QED
      BY <1>10, <2>1, <3>1 DEF Answer, TypeOK
  <2>4. waits' \in [Phone -> Handler \cup {None}]
    BY <1>10, <2>1 DEF Answer, TypeOK
  <2>5. named' \in [Phone -> SUBSET Account]
    BY <1>10, <2>1 DEF Answer, TypeOK
  <2>6. /\ pc' \in [Handler -> Place]
        /\ who' \in [Handler -> Phone \cup {None}]
        /\ acc' \in [Handler -> Account \cup {None}]
        /\ made' \in [Handler -> Nat]
        /\ \A g \in Handler :
              /\ pc'[g] # "idle" => who'[g] \in Phone
              /\ pc'[g] \in {"save", "mint", "created", "known", "verified"} =>
                    acc'[g] \in Account
    BY <1>10 DEF Answer, Forget, TypeOK, Place
  <2> QED
    BY <1>10, <2>2, <2>3, <2>4, <2>5, <2>6
       DEF Answer, TypeOK, timeVars, rowVars, callVars
<1>11. ASSUME HandlerFails(h)
       PROVE  TypeOK'
  BY <1>11, BoundAssumption
     DEF TypeOK, HandlerFails, Forget, Place, timeVars, rowVars, callVars, histVars
<1> QED
  BY <1>1, <1>2, <1>3, <1>4, <1>5, <1>6, <1>7, <1>8, <1>9, <1>10, <1>11

LEMMA TypeStep == TypeOK /\ [Next]_vars => TypeOK'
<1> SUFFICES ASSUME TypeOK, [Next]_vars
             PROVE  TypeOK'
  OBVIOUS
<1>1. ASSUME NEW p \in Phone, GiveUp(p)
      PROVE  TypeOK'
  BY <1>1, BoundAssumption
     DEF TypeOK, GiveUp, Place, timeVars, rowVars, hVars, callVars, histVars
<1>2. ASSUME NEW p \in Phone, LogInAgain(p)
      PROVE  TypeOK'
  BY <1>2 DEF TypeOK, LogInAgain, timeVars, rowVars, hVars, callVars, histVars
<1>3. ASSUME NEW p \in Phone, Discover(p)
      PROVE  TypeOK'
  BY <1>3 DEF TypeOK, Discover, RowsOf, timeVars, rowVars, hVars, cliVars, callVars
<1>4. ASSUME NEW c \in Call, NEW p \in Phone, NEW s \in Service, NEW tok \in held[p],
             Send(c, p, s, tok)
      PROVE  TypeOK'
  BY <1>4 DEF TypeOK, Send, timeVars, rowVars, hVars, cliVars, histVars
<1>5. ASSUME NEW c \in Call, Admit(c) \/ Refuse(c) \/ Done(c)
      PROVE  TypeOK'
  BY <1>5 DEF TypeOK, Admit, Refuse, Done, Service, timeVars, rowVars, hVars, cliVars,
              histVars
<1>6. CASE Tick
  BY <1>6, TimeAssumption
     DEF TypeOK, Tick, rowVars, hVars, cliVars, callVars, histVars
<1>7. CASE UNCHANGED vars
  BY <1>7 DEF TypeOK, vars, timeVars, rowVars, hVars, cliVars, callVars, histVars
<1> QED
  BY <1>1, <1>2, <1>3, <1>4, <1>5, <1>6, <1>7, HandlerType DEF Next

\* Every reachable state of the handlers, the clients, their tokens and the
\* two middleware is well typed; a request past its read has its account.
THEOREM TypeCorrect == Spec => []TypeOK
BY TypeInit, TypeStep, PTL DEF Spec

-----------------------------------------------------------------------------
\* One account for a phone

\* The rows of a phone and those about to be inserted: one for the first
\* registration that found none, and one for each that overlapped another.
TableInv ==
    \A p \in Phone :
        /\ IsFiniteSet(RowsOf(p))
        /\ Cardinality(RowsOf(p)) + Cardinality(Inserting(p)) =< 1 + raced[p]

LEMMA InsertingIsFinite ==
    \A p \in Phone : IsFiniteSet(Inserting(p)) /\ Cardinality(Inserting(p)) \in Nat
<1> SUFFICES ASSUME NEW p \in Phone
             PROVE  IsFiniteSet(Inserting(p)) /\ Cardinality(Inserting(p)) \in Nat
  OBVIOUS
<1>1. Inserting(p) \subseteq Handler
  BY DEF Inserting
<1> QED
  BY <1>1, FiniteAssumption, FS_Subset, FS_CardinalityType

\* The table of a phone as it is, with no more handlers about to insert and no
\* fewer races, is within the count.
LEMMA TableKept ==
    ASSUME TypeOK, TableInv, NEW p \in Phone,
           RowsOf(p)' = RowsOf(p), Inserting(p)' \subseteq Inserting(p), raced'[p] = raced[p]
    PROVE  /\ IsFiniteSet(RowsOf(p)')
           /\ Cardinality(RowsOf(p)') + Cardinality(Inserting(p)') =< 1 + raced'[p]
<1>1. /\ IsFiniteSet(RowsOf(p)) /\ Cardinality(RowsOf(p)) \in Nat
      /\ Cardinality(RowsOf(p)) + Cardinality(Inserting(p)) =< 1 + raced[p]
  BY FS_CardinalityType DEF TableInv
<1>2. /\ Cardinality(Inserting(p)') =< Cardinality(Inserting(p))
      /\ Cardinality(Inserting(p)') \in Nat /\ Cardinality(Inserting(p)) \in Nat
  BY InsertingIsFinite, FS_Subset, FS_CardinalityType
<1>3. raced[p] \in Nat
  BY DEF TypeOK
<1> QED
  BY <1>1, <1>2, <1>3

\* Handlers and answers name accounts of the phone they were asked about.
NameInv ==
    /\ \A h \in Handler : acc[h] # None => who[h] \in Phone /\ phone[acc[h]] = who[h]
    /\ \A p \in Phone : named[p] \subseteq RowsOf(p)

\* A first read that does not lead to an insert.
LEMMA ArriveTable ==
    ASSUME TypeOK, TableInv,
           NEW h \in Handler, NEW p \in Phone, NEW kind, NEW l \in Place \ {"insert"},
           NEW a \in Account \cup {None}, a # None => a \in RowsOf(p),
           Arrive(h, p, kind, l, a), UNCHANGED raced
    PROVE  TableInv' /\ (NameInv => NameInv')
<1>1. ASSUME NEW q \in Phone
      PROVE  RowsOf(q)' = RowsOf(q) /\ Inserting(q)' \subseteq Inserting(q)
  BY DEF Arrive, TypeOK, RowsOf, Inserting, rowVars
<1>2. TableInv'
  BY <1>1, TableKept DEF TableInv
<1>3. NameInv => NameInv'
  BY DEF Arrive, TypeOK, NameInv, RowsOf, rowVars
<1> QED
  BY <1>2, <1>3

\* A step of a handler keeps the table and the names.
LEMMA HandlerTable ==
    ASSUME TypeOK, TableInv, NameInv, NEW h \in Handler,
           \/ \E p \in Phone : RegisterNew(h, p)
           \/ \E p \in Phone : RegisterKnown(h, p)
           \/ \E a \in Account : RegisterInsert(h, a)
           \/ \E p \in Phone, a \in Account : LoginKnown(h, p, a)
           \/ \E p \in Phone : LoginUnknown(h, p)
           \/ \E p \in Phone, a \in Account, code \in Code : VerifyFind(h, p, a, code)
           \/ \E p \in Phone, code \in Code : VerifyDenied(h, p, code)
           \/ VerifySave(h)
           \/ Mint(h)
           \/ Answer(h)
           \/ HandlerFails(h)
    PROVE  TableInv' /\ NameInv'
<1>1. ASSUME NEW p \in Phone, RegisterNew(h, p)
      PROVE  TableInv' /\ NameInv'
  <2>1. /\ pc[h] = "idle" /\ RowsOf(p) = {}
        /\ pc' = [pc EXCEPT ![h] = "insert"]
        /\ who' = [who EXCEPT ![h] = p]
        /\ acc' = [acc EXCEPT ![h] = None]
        /\ phone' = phone /\ named' = named
        /\ raced' = [raced EXCEPT ![p] = IF Inserting(p) = {} THEN @ ELSE @ + 1]
    BY <1>1 DEF RegisterNew, Arrive, rowVars
  <2>2. RowsOf(p)' = {} /\ IsFiniteSet({}) /\ Cardinality({}) = 0
    BY <2>1, FS_EmptySet DEF RowsOf
  <2>3. Inserting(p)' = Inserting(p) \cup {h} /\ h \notin Inserting(p)
    BY <2>1 DEF TypeOK, Inserting
  <2>4. /\ Cardinality(Inserting(p)') = Cardinality(Inserting(p)) + 1
        /\ Cardinality(Inserting(p)) \in Nat
        /\ Inserting(p) = {} => Cardinality(Inserting(p)) = 0
    BY <2>3, InsertingIsFinite, FS_AddElement, FS_EmptySet
  <2>5. raced[p] \in Nat /\ Cardinality(Inserting(p)) =< 1 + raced[p]
    <3>1. Cardinality(RowsOf(p)) = 0
      BY <2>1, FS_EmptySet
    <3>2. /\ Cardinality(RowsOf(p)) + Cardinality(Inserting(p)) =< 1 + raced[p]
          /\ raced[p] \in Nat
      BY DEF TableInv, TypeOK
    <3> QED
      BY <2>4, <3>1, <3>2
  <2>6. raced'[p] = IF Inserting(p) = {} THEN raced[p] ELSE raced[p] + 1
    BY <2>1 DEF TypeOK
  <2>7. /\ IsFiniteSet(RowsOf(p)')
        /\ Cardinality(RowsOf(p)') + Cardinality(Inserting(p)') =< 1 + raced'[p]
    BY <2>2, <2>4, <2>5, <2>6
  <2>8. ASSUME NEW q \in Phone, q # p
        PROVE  RowsOf(q)' = RowsOf(q) /\ Inserting(q)' \subseteq Inserting(q)
               /\ raced'[q] = raced[q]
    BY <2>1, <2>8 DEF TypeOK, RowsOf, Inserting
  <2>9. TableInv'
    BY <2>7, <2>8, TableKept DEF TableInv
  <2>10. NameInv'
    BY <2>1 DEF TypeOK, NameInv, RowsOf
  <2> QED
    BY <2>9, <2>10
<1>2. ASSUME NEW p \in Phone, RegisterKnown(h, p)
      PROVE  TableInv' /\ NameInv'
  BY <1>2, ArriveTable DEF RegisterKnown, Place
<1>3. ASSUME NEW a \in Account, RegisterInsert(h, a)
      PROVE  TableInv' /\ NameInv'
  <2>1. /\ pc[h] = "insert" /\ phone[a] = None /\ who[h] \in Phone
        /\ pc' = [pc EXCEPT ![h] = "created"]
        /\ acc' = [acc EXCEPT ![h] = a]
        /\ phone' = [phone EXCEPT ![a] = who[h]]
        /\ named' = named /\ who' = who /\ raced' = raced
    BY <1>3 DEF RegisterInsert, TypeOK, cliVars, histVars
  <2>2. \A p \in Phone : RowsOf(p)' = IF p = who[h] THEN RowsOf(p) \cup {a} ELSE RowsOf(p)
    BY <2>1, NoneAssumption DEF RowsOf, TypeOK
  <2>3. TableInv'
    <3>0. PICK p \in Phone : p = who[h]
      BY <2>1
    <3>1. RowsOf(p)' = RowsOf(p) \cup {a} /\ a \notin RowsOf(p)
      BY <3>0, <2>1, <2>2, NoneAssumption DEF RowsOf
    <3>2. Inserting(p)' = Inserting(p) \ {h} /\ h \in Inserting(p)
      BY <3>0, <2>1 DEF TypeOK, Inserting
    <3>3. /\ IsFiniteSet(RowsOf(p)')
          /\ Cardinality(RowsOf(p)') = Cardinality(RowsOf(p)) + 1
          /\ Cardinality(RowsOf(p)) \in Nat
      BY <3>0, <3>1, FS_AddElement, FS_CardinalityType DEF TableInv
    <3>4. /\ Cardinality(Inserting(p)') = Cardinality(Inserting(p)) - 1
          /\ Cardinality(Inserting(p)) \in Nat
      BY <3>2, InsertingIsFinite, FS_RemoveElement
    <3>5. /\ Cardinality(RowsOf(p)) + Cardinality(Inserting(p)) =< 1 + raced[p]
          /\ raced'[p] = raced[p] /\ raced[p] \in Nat
      BY <2>1 DEF TableInv, TypeOK
    <3>6. Cardinality(RowsOf(p)') + Cardinality(Inserting(p)') =< 1 + raced'[p]
      BY <3>3, <3>4, <3>5
    <3>7. ASSUME NEW q \in Phone, q # p
          PROVE  RowsOf(q)' = RowsOf(q) /\ Inserting(q)' \subseteq Inserting(q)
                 /\ raced'[q] = raced[q]
      <4>1. RowsOf(q)' = RowsOf(q)
        BY <3>0, <2>2, <3>7
      <4>2. Inserting(q)' \subseteq Inserting(q) /\ raced'[q] = raced[q]
        BY <3>0, <3>7, <2>1 DEF TypeOK, Inserting
      <4> QED
        BY <4>1, <4>2
    <3> QED
      BY <3>3, <3>6, <3>7, TableKept DEF TableInv
  <2>4. NameInv'
    <3>1. \A g \in Handler : acc'[g] # None =>
                               who'[g] \in Phone /\ phone'[acc'[g]] = who'[g]
      <4> SUFFICES ASSUME NEW g \in Handler, acc'[g] # None
                   PROVE  who'[g] \in Phone /\ phone'[acc'[g]] = who'[g]
        OBVIOUS
      <4>1. CASE g = h
        BY <4>1, <2>1 DEF TypeOK
      <4>2. CASE g # h /\ acc[g] # a
        BY <4>2, <2>1 DEF TypeOK, NameInv
      <4>3. CASE g # h /\ acc[g] = a
        BY <4>3, <2>1, NoneAssumption DEF TypeOK, NameInv
      <4> QED
        BY <4>1, <4>2, <4>3
    <3>2. \A p \in Phone : named'[p] \subseteq RowsOf(p)'
      BY <2>1, <2>2 DEF NameInv
    <3> QED
      BY <3>1, <3>2 DEF NameInv, RowsOf
  <2> QED
    BY <2>3, <2>4
<1>4. ASSUME NEW p \in Phone, NEW a \in Account, LoginKnown(h, p, a)
      PROVE  TableInv' /\ NameInv'
  BY <1>4, ArriveTable DEF LoginKnown, Place
<1>5. ASSUME NEW p \in Phone, LoginUnknown(h, p)
      PROVE  TableInv' /\ NameInv'
  BY <1>5, ArriveTable DEF LoginUnknown, Place
<1>6. ASSUME NEW p \in Phone, NEW a \in Account, NEW code \in Code, VerifyFind(h, p, a, code)
      PROVE  TableInv' /\ NameInv'
  BY <1>6, ArriveTable DEF VerifyFind, Place
<1>7. ASSUME NEW p \in Phone, NEW code \in Code, VerifyDenied(h, p, code)
      PROVE  TableInv' /\ NameInv'
  BY <1>7, ArriveTable DEF VerifyDenied, Place
<1>8. ASSUME VerifySave(h) \/ Mint(h)
      PROVE  TableInv' /\ NameInv'
  <2>1. ASSUME NEW q \in Phone
        PROVE  RowsOf(q)' = RowsOf(q) /\ Inserting(q)' \subseteq Inserting(q)
               /\ raced'[q] = raced[q]
    BY <1>8 DEF VerifySave, Mint, TypeOK, RowsOf, Inserting, rowVars, histVars
  <2>2. TableInv'
    BY <2>1, TableKept DEF TableInv
  <2>3. NameInv'
    BY <1>8 DEF VerifySave, Mint, TypeOK, NameInv, RowsOf, rowVars, histVars
  <2> QED
    BY <2>2, <2>3
<1>9. ASSUME Answer(h)
      PROVE  TableInv' /\ NameInv'
  <2>1. /\ pc' = [pc EXCEPT ![h] = "idle"]
        /\ who' = [who EXCEPT ![h] = None]
        /\ acc' = [acc EXCEPT ![h] = None]
        /\ phone' = phone /\ raced' = raced
        /\ who[h] \in Phone
        /\ named' = [named EXCEPT ![who[h]] = IF acc[h] = None THEN @ ELSE @ \cup {acc[h]}]
    BY <1>9 DEF Answer, Forget, TypeOK, rowVars
  <2>2. TableInv'
    <3>1. ASSUME NEW q \in Phone
          PROVE  RowsOf(q)' = RowsOf(q) /\ Inserting(q)' \subseteq Inserting(q)
                 /\ raced'[q] = raced[q]
      BY <2>1 DEF TypeOK, RowsOf, Inserting
    <3> QED
      BY <3>1, TableKept DEF TableInv
  <2>3. \A g \in Handler : acc'[g] # None =>
                             who'[g] \in Phone /\ phone'[acc'[g]] = who'[g]
    BY <2>1 DEF TypeOK, NameInv
  <2>4. \A p \in Phone : named'[p] \subseteq RowsOf(p)'
    BY <2>1 DEF TypeOK, NameInv, RowsOf
  <2> QED
    BY <2>2, <2>3, <2>4 DEF NameInv
<1>10. ASSUME HandlerFails(h)
       PROVE  TableInv' /\ NameInv'
  <2>1. ASSUME NEW q \in Phone
        PROVE  RowsOf(q)' = RowsOf(q) /\ Inserting(q)' \subseteq Inserting(q)
               /\ raced'[q] = raced[q]
    BY <1>10 DEF HandlerFails, Forget, TypeOK, RowsOf, Inserting, rowVars, histVars
  <2>2. TableInv'
    BY <2>1, TableKept DEF TableInv
  <2>3. NameInv'
    BY <1>10 DEF HandlerFails, Forget, TypeOK, NameInv, RowsOf, rowVars, histVars
  <2> QED
    BY <2>2, <2>3
<1> QED
  BY <1>1, <1>2, <1>3, <1>4, <1>5, <1>6, <1>7, <1>8, <1>9, <1>10

LEMMA TableStep == TypeOK /\ TableInv /\ NameInv /\ [Next]_vars => TableInv' /\ NameInv'
<1> SUFFICES ASSUME TypeOK, TableInv, NameInv, [Next]_vars
             PROVE  TableInv' /\ NameInv'
  OBVIOUS
<1>1. ASSUME NEW p \in Phone, Discover(p)
      PROVE  TableInv' /\ NameInv'
  BY <1>1 DEF Discover, TypeOK, TableInv, NameInv, RowsOf, Inserting, rowVars, hVars
<1>2. ASSUME UNCHANGED <<rowVars, hVars, histVars>>
      PROVE  TableInv' /\ NameInv'
  BY <1>2 DEF TableInv, NameInv, RowsOf, Inserting, rowVars, hVars, histVars
<1>3. ASSUME NEW p \in Phone, GiveUp(p) \/ LogInAgain(p)
      PROVE  TableInv' /\ NameInv'
  BY <1>3, <1>2 DEF GiveUp, LogInAgain
<1>4. ASSUME NEW c \in Call, NEW p \in Phone, NEW s \in Service, NEW tok \in held[p],
             Send(c, p, s, tok)
      PROVE  TableInv' /\ NameInv'
  BY <1>4, <1>2 DEF Send
<1>5. ASSUME NEW c \in Call, Admit(c) \/ Refuse(c) \/ Done(c)
      PROVE  TableInv' /\ NameInv'
  BY <1>5, <1>2 DEF Admit, Refuse, Done
<1>6. CASE Tick \/ UNCHANGED vars
  BY <1>6, <1>2 DEF Tick, vars
<1> QED
  BY <1>1, <1>3, <1>4, <1>5, <1>6, HandlerTable DEF Next

LEMMA TableInit == Init => TableInv
<1> SUFFICES ASSUME Init, NEW p \in Phone
             PROVE  /\ IsFiniteSet(RowsOf(p))
                    /\ Cardinality(RowsOf(p)) + Cardinality(Inserting(p)) =< 1 + raced[p]
  BY DEF TableInv
<1>1. RowsOf(p) = {} /\ Inserting(p) = {} /\ raced[p] = 0
  BY NoneAssumption DEF Init, RowsOf, Inserting
<1> QED
  BY <1>1, FS_EmptySet

\* A phone has at most one account more than registrations that overlapped
\* another one, and all answers about the phone name one of these, for any
\* number of clients, handlers and retries.
THEOREM OneAccount == Spec => []OneAccountPerPhone
<1>1. Init => NameInv
  BY NoneAssumption DEF Init, NameInv
<1>2. TypeOK /\ TableInv /\ NameInv => OneAccountPerPhone
  <2> SUFFICES ASSUME TypeOK, TableInv, NameInv, NEW p \in Phone
               PROVE  /\ Cardinality(RowsOf(p)) =< 1 + raced[p]
                      /\ named[p] \subseteq RowsOf(p)
    BY DEF OneAccountPerPhone
  <2>1. Cardinality(RowsOf(p)) \in Nat /\ Cardinality(Inserting(p)) \in Nat
    BY InsertingIsFinite, FS_CardinalityType DEF TableInv
  <2> QED
    BY <2>1 DEF TableInv, NameInv, TypeOK
<1> QED
  BY <1>1, <1>2, TableInit, TypeCorrect, TableStep, PTL DEF Spec

-----------------------------------------------------------------------------
\* Tokens and their owners

\* The token was made by this system, some time ago, for the owner of p.
Owns(p, tok) ==
    /\ phone[tok.of] = p
    /\ verified[tok.of]
    /\ tok.born =< clock
    /\ tok.key = IF tok.kind = "account" THEN IdentitySecret ELSE DeviceSecret

OwnerInv ==
    /\ \A h \in Handler : pc[h] \in {"mint", "verified"} => verified[acc[h]]
    /\ \A h \in Handler : pc[h] = "verified" => made[h] =< clock
    /\ \A p \in Phone : \A tok \in held[p] : Owns(p, tok)
    /\ \A c \in Call : cpc[c] # "idle" => Owns(by[c], token[c])
    /\ \A c \in Call : cpc[c] = "admitted" => token[c].key = SecretOf(to[c])

\* What a token says stays true: rows stay, flags stay up, time goes on.
LEMMA OwnsStays ==
    ASSUME NEW p \in Phone, NEW tok \in Token, Owns(p, tok),
           clock \in Nat, clock' \in Nat, clock =< clock',
           phone'[tok.of] = phone[tok.of],
           verified[tok.of] => verified'[tok.of]
    PROVE  Owns(p, tok)'
BY DEF Owns, Token

\* Steps that touch neither tokens nor requests with them.
LEMMA OwnerKept ==
    ASSUME TypeOK, TypeOK', OwnerInv,
           clock =< clock',
           \A a \in Account : phone[a] # None => phone'[a] = phone[a],
           \A a \in Account : verified[a] => verified'[a],
           UNCHANGED <<held, callVars>>,
           \A h \in Handler : pc'[h] \in {"mint", "verified"} => verified'[acc'[h]],
           \A h \in Handler : pc'[h] = "verified" => made'[h] =< clock'
    PROVE  OwnerInv'
<1>1. clock \in Nat /\ clock' \in Nat
  BY TimeAssumption DEF TypeOK
<1>2. ASSUME NEW p \in Phone, NEW tok \in Token, Owns(p, tok)
      PROVE  Owns(p, tok)'
  <2>1. tok.of \in Account /\ phone[tok.of] # None
    BY <1>2, NoneAssumption DEF Owns, Token
  <2> QED
    BY <1>1, <1>2, <2>1, OwnsStays
<1>3. \A p \in Phone : \A tok \in held'[p] : Owns(p, tok)'
  BY <1>2 DEF OwnerInv, TypeOK
<1>4. \A c \in Call : cpc'[c] # "idle" => Owns(by[c], token[c])'
  BY <1>2 DEF OwnerInv, TypeOK, callVars
<1> QED
  BY <1>3, <1>4 DEF OwnerInv, callVars, SecretOf, Owns

\* A first read: the handler has made nothing yet.
LEMMA ArriveOwner ==
    ASSUME TypeOK, TypeOK', OwnerInv,
           NEW h \in Handler, NEW p \in Phone, NEW kind,
           NEW l \in Place \ {"mint", "verified"}, NEW a \in Account \cup {None},
           Arrive(h, p, kind, l, a)
    PROVE  OwnerInv'
<1>1. /\ clock =< clock'
      /\ UNCHANGED <<phone, verified, held, callVars>>
  BY TimeAssumption DEF Arrive, TypeOK, timeVars, rowVars
<1>2. \A g \in Handler : pc'[g] \in {"mint", "verified"} => verified'[acc'[g]]
  BY DEF Arrive, TypeOK, OwnerInv, rowVars
<1>3. \A g \in Handler : pc'[g] = "verified" => made'[g] =< clock'
  BY DEF Arrive, TypeOK, OwnerInv, timeVars
<1> QED
  BY <1>1, <1>2, <1>3, OwnerKept

\* A step of a handler keeps what tokens say.
LEMMA HandlerOwner ==
    ASSUME TypeOK, TypeOK', NameInv, OwnerInv, NEW h \in Handler,
           \/ \E p \in Phone : RegisterNew(h, p)
           \/ \E p \in Phone : RegisterKnown(h, p)
           \/ \E a \in Account : RegisterInsert(h, a)
           \/ \E p \in Phone, a \in Account : LoginKnown(h, p, a)
           \/ \E p \in Phone : LoginUnknown(h, p)
           \/ \E p \in Phone, a \in Account, code \in Code : VerifyFind(h, p, a, code)
           \/ \E p \in Phone, code \in Code : VerifyDenied(h, p, code)
           \/ VerifySave(h)
           \/ Mint(h)
           \/ Answer(h)
           \/ HandlerFails(h)
    PROVE  OwnerInv'
<1>1. ASSUME NEW p \in Phone,
             \/ RegisterNew(h, p) \/ RegisterKnown(h, p) \/ LoginUnknown(h, p)
             \/ \E code \in Code : VerifyDenied(h, p, code)
      PROVE  OwnerInv'
  BY <1>1, ArriveOwner DEF RegisterNew, RegisterKnown, LoginUnknown, VerifyDenied, Place
<1>2. ASSUME NEW p \in Phone, NEW a \in Account,
             LoginKnown(h, p, a) \/ \E code \in Code : VerifyFind(h, p, a, code)
      PROVE  OwnerInv'
  BY <1>2, ArriveOwner DEF LoginKnown, VerifyFind, Place
<1>0. clock =< clock
  BY TimeAssumption DEF TypeOK
<1>3. ASSUME NEW a \in Account, RegisterInsert(h, a)
      PROVE  OwnerInv'
  <2>1. /\ clock' = clock /\ verified' = verified /\ UNCHANGED <<held, callVars>>
        /\ \A b \in Account : phone[b] # None => phone'[b] = phone[b]
    BY <1>3 DEF RegisterInsert, TypeOK, timeVars, cliVars
  <2>2. \A g \in Handler : pc'[g] \in {"mint", "verified"} =>
                              verified'[acc'[g]] /\ (pc'[g] = "verified" => made'[g] =< clock')
    BY <1>3, <2>1 DEF RegisterInsert, TypeOK, OwnerInv
  <2> QED
    BY <1>0, <2>1, <2>2, OwnerKept
<1>4. ASSUME VerifySave(h)
      PROVE  OwnerInv'
  <2>1. /\ clock' = clock /\ phone' = phone /\ UNCHANGED <<held, callVars>>
        /\ \A b \in Account : verified[b] => verified'[b]
    BY <1>4 DEF VerifySave, TypeOK, timeVars, cliVars
  <2>2. \A g \in Handler : pc'[g] \in {"mint", "verified"} =>
                              verified'[acc'[g]] /\ (pc'[g] = "verified" => made'[g] =< clock')
    BY <1>4, <2>1 DEF VerifySave, TypeOK, OwnerInv
  <2> QED
    BY <1>0, <2>1, <2>2, OwnerKept
<1>5. ASSUME Mint(h)
      PROVE  OwnerInv'
  <2>1. /\ clock' = clock /\ phone' = phone /\ verified' = verified
        /\ UNCHANGED <<held, callVars>>
    BY <1>5 DEF Mint, timeVars, rowVars, cliVars
  <2>2. \A g \in Handler : pc'[g] \in {"mint", "verified"} =>
                              verified'[acc'[g]] /\ (pc'[g] = "verified" => made'[g] =< clock')
    BY <1>5, <1>0, <2>1 DEF Mint, TypeOK, OwnerInv
  <2> QED
    BY <1>0, <2>1, <2>2, OwnerKept
<1>6. ASSUME Answer(h)
      PROVE  OwnerInv'
  <2>1. /\ clock' = clock /\ phone' = phone /\ verified' = verified
        /\ UNCHANGED callVars
        /\ who[h] \in Phone
        /\ pc' = [pc EXCEPT ![h] = "idle"]
        /\ acc' = [acc EXCEPT ![h] = None]
        /\ made' = [made EXCEPT ![h] = 0]
    BY <1>6 DEF Answer, Forget, TypeOK, timeVars, rowVars
  <2>2. \A p \in Phone : \A tok \in held'[p] : Owns(p, tok)
    <3> SUFFICES ASSUME NEW p \in Phone, NEW tok \in held'[p]
                 PROVE  Owns(p, tok)
      OBVIOUS
    <3>1. CASE tok \in held[p]
      BY <3>1 DEF OwnerInv
    <3>2. CASE tok \notin held[p]
      <4>1. p = who[h] /\ pc[h] = "verified" /\ tok \in Tokens(h)
        BY <3>2, <1>6 DEF Answer, TypeOK
      <4>2. acc[h] \in Account /\ phone[acc[h]] = p /\ verified[acc[h]] /\ made[h] =< clock
        BY <4>1, NoneAssumption DEF TypeOK, NameInv, OwnerInv
      <4> QED
        BY <4>1, <4>2 DEF Tokens, SessionToken, DeviceToken, Owns
    <3> QED
      BY <3>1, <3>2
  <2>3. /\ \A p \in Phone : \A tok \in held'[p] : Owns(p, tok)'
        /\ \A c \in Call : cpc'[c] # "idle" => Owns(by[c], token[c])'
    BY <2>1, <2>2 DEF Owns, OwnerInv, callVars
  <2>4. \A g \in Handler : /\ pc'[g] \in {"mint", "verified"} => verified'[acc'[g]]
                           /\ pc'[g] = "verified" => made'[g] =< clock'
    BY <2>1 DEF TypeOK, OwnerInv
  <2> QED
    BY <2>1, <2>3, <2>4 DEF OwnerInv, callVars, SecretOf
<1>7. ASSUME HandlerFails(h)
      PROVE  OwnerInv'
  <2>1. /\ clock' = clock /\ phone' = phone /\ verified' = verified
        /\ UNCHANGED <<held, callVars>>
    BY <1>7 DEF HandlerFails, timeVars, rowVars
  <2>2. \A g \in Handler : pc'[g] \in {"mint", "verified"} =>
                              verified'[acc'[g]] /\ (pc'[g] = "verified" => made'[g] =< clock')
    BY <1>7, <2>1 DEF HandlerFails, Forget, TypeOK, OwnerInv
  <2> QED
    BY <1>0, <2>1, <2>2, OwnerKept
<1> QED
  BY <1>1, <1>2, <1>3, <1>4, <1>5, <1>6, <1>7

LEMMA OwnerStep == TypeOK /\ NameInv /\ OwnerInv /\ [Next]_vars => OwnerInv'
<1> SUFFICES ASSUME TypeOK, NameInv, OwnerInv, [Next]_vars
             PROVE  OwnerInv'
  OBVIOUS
<1>0. TypeOK' /\ clock =< clock
  BY TypeStep, TimeAssumption DEF TypeOK
<1>1. ASSUME UNCHANGED <<timeVars, rowVars, hVars, held, callVars>>
      PROVE  OwnerInv'
  BY <1>1 DEF OwnerInv, Owns, SecretOf, timeVars, rowVars, hVars, callVars
<1>2. ASSUME NEW p \in Phone, GiveUp(p) \/ LogInAgain(p) \/ Discover(p)
      PROVE  OwnerInv'
  BY <1>2, <1>1 DEF GiveUp, LogInAgain, Discover, cliVars
<1>3. ASSUME NEW c \in Call, NEW p \in Phone, NEW s \in Service, NEW tok \in held[p],
             Send(c, p, s, tok)
      PROVE  OwnerInv'
  <2>1. Owns(p, tok)
    BY DEF OwnerInv
  <2> QED
    BY <1>3, <2>1
       DEF Send, TypeOK, OwnerInv, Owns, SecretOf, timeVars, rowVars, hVars, cliVars
<1>4. ASSUME NEW c \in Call, Admit(c) \/ Refuse(c) \/ Done(c)
      PROVE  OwnerInv'
  BY <1>4 DEF Admit, Refuse, Done, Accepts, Signed, TypeOK, OwnerInv, Owns, SecretOf,
              timeVars, rowVars, hVars, cliVars
<1>5. CASE Tick
  <2>1. clock =< clock' /\ UNCHANGED <<rowVars, hVars, held, callVars>>
    BY <1>5, TimeAssumption DEF Tick, TypeOK, cliVars
  <2>2. \A g \in Handler : pc[g] = "verified" => made[g] =< clock'
    BY <2>1, <1>0, TimeAssumption DEF OwnerInv, TypeOK
  <2> QED
    BY <1>0, <2>1, <2>2, OwnerKept DEF rowVars, hVars, OwnerInv
<1>6. CASE UNCHANGED vars
  BY <1>6, <1>1 DEF vars, cliVars
<1> QED
  BY <1>0, <1>2, <1>3, <1>4, <1>5, <1>6, HandlerOwner DEF Next

Inv == TypeOK /\ TableInv /\ NameInv /\ OwnerInv

LEMMA Invariant == Spec => []Inv
<1>1. Init => NameInv /\ OwnerInv
  BY NoneAssumption DEF Init, NameInv, OwnerInv
<1> QED
  BY <1>1, TableInit, TypeInit, TypeStep, TableStep, OwnerStep, PTL DEF Spec, Inv

\* A request that a service lets pass acts as an account, or at the relay as
\* the device of an account, that is verified and its sender's.
THEOREM OwnerActs == Spec => []ActsAsOwner
<1>1. TypeOK /\ OwnerInv => ActsAsOwner
  BY SecretAssumption, NoneAssumption
     DEF TypeOK, OwnerInv, Owns, ActsAsOwner, SecretOf, Token, Service
<1> QED
  BY <1>1, Invariant, PTL DEF Inv

-----------------------------------------------------------------------------
\* Clients on their way

\* What verification makes for the account a at the time t.
Pair(a, t) == {SessionToken(a, t), DeviceToken(a, t)}

\* Wherever lost answers, lost handlers and overlapping requests leave a
\* client, it is on its way: the handler it waits for works on its request, a
\* code is asked of it only when there is an account the code is good for, and
\* once it is in it holds the two tokens of one verified account of its own,
\* made at one time.
OnItsWay ==
    \A p \in Phone :
        /\ waits[p] # None => pc[waits[p]] # "idle" /\ who[waits[p]] = p
        /\ step[p] = "verify" => RowsOf(p) # {}
        /\ step[p] = "in" =>
              \E a \in RowsOf(p), t \in 0 .. clock : verified[a] /\ held[p] = Pair(a, t)

WaitInv ==
    \A p \in Phone : waits[p] # None => pc[waits[p]] # "idle" /\ who[waits[p]] = p

\* An answer that leads to the code, and a client that was led there, come
\* from a row.
CodeInv ==
    /\ \A h \in Handler : pc[h] \in {"created", "known", "denied"} => RowsOf(who[h]) # {}
    /\ \A p \in Phone : step[p] = "verify" => RowsOf(p) # {}

PairInv ==
    \A p \in Phone :
        /\ held[p] # {} => \E a \in Account, t \in Nat : held[p] = Pair(a, t)
        /\ step[p] = "in" => held[p] # {}

WayInv == WaitInv /\ CodeInv /\ PairInv

\* A first read; the answer "denied" comes only to a client at its code.
LEMMA ArriveWay ==
    ASSUME TypeOK, WayInv,
           NEW h \in Handler, NEW p \in Phone, NEW kind,
           NEW l \in Place \ {"idle"}, NEW a \in Account \cup {None},
           l \in {"created", "known", "denied"} => RowsOf(p) # {},
           Arrive(h, p, kind, l, a)
    PROVE  WayInv'
<1>1. WaitInv'
  BY NoneAssumption DEF Arrive, TypeOK, WayInv, WaitInv
<1>2. CodeInv'
  BY DEF Arrive, TypeOK, WayInv, CodeInv, RowsOf, rowVars
<1>3. PairInv'
  BY DEF Arrive, WayInv, PairInv
<1> QED
  BY <1>1, <1>2, <1>3 DEF WayInv

\* A step of a handler keeps clients on their way.
LEMMA HandlerWay ==
    ASSUME TypeOK, WayInv, NEW h \in Handler,
           \/ \E p \in Phone : RegisterNew(h, p)
           \/ \E p \in Phone : RegisterKnown(h, p)
           \/ \E a \in Account : RegisterInsert(h, a)
           \/ \E p \in Phone, a \in Account : LoginKnown(h, p, a)
           \/ \E p \in Phone : LoginUnknown(h, p)
           \/ \E p \in Phone, a \in Account, code \in Code : VerifyFind(h, p, a, code)
           \/ \E p \in Phone, code \in Code : VerifyDenied(h, p, code)
           \/ VerifySave(h)
           \/ Mint(h)
           \/ Answer(h)
           \/ HandlerFails(h)
    PROVE  WayInv'
<1>1. ASSUME NEW p \in Phone, RegisterNew(h, p) \/ RegisterKnown(h, p) \/ LoginUnknown(h, p)
      PROVE  WayInv'
  BY <1>1, ArriveWay DEF RegisterNew, RegisterKnown, LoginUnknown, Place
<1>2. ASSUME NEW p \in Phone, NEW a \in Account,
             LoginKnown(h, p, a) \/ \E code \in Code : VerifyFind(h, p, a, code)
      PROVE  WayInv'
  <2>1. RowsOf(p) # {}
    BY <1>2 DEF LoginKnown, VerifyFind
  <2> QED
    BY <1>2, <2>1, ArriveWay DEF LoginKnown, VerifyFind, Place
<1>3. ASSUME NEW p \in Phone, NEW code \in Code, VerifyDenied(h, p, code)
      PROVE  WayInv'
  <2>1. RowsOf(p) # {}
    BY <1>3 DEF VerifyDenied, Arrive, WayInv, CodeInv
  <2> QED
    BY <1>3, <2>1, ArriveWay DEF VerifyDenied, Place
<1>4. ASSUME NEW a \in Account, RegisterInsert(h, a)
      PROVE  WayInv'
  <2>1. /\ phone[a] = None /\ who[h] \in Phone
        /\ pc' = [pc EXCEPT ![h] = "created"]
        /\ phone' = [phone EXCEPT ![a] = who[h]]
        /\ UNCHANGED <<who, step, waits, held>>
    BY <1>4 DEF RegisterInsert, TypeOK, cliVars
  <2>2. WaitInv'
    BY <2>1 DEF TypeOK, WayInv, WaitInv
  <2>3. \A p \in Phone : RowsOf(p) \subseteq RowsOf(p)'
    BY <2>1, NoneAssumption DEF RowsOf, TypeOK
  <2>4. a \in RowsOf(who[h])'
    BY <2>1 DEF RowsOf, TypeOK
  <2>5. CodeInv'
    <3>1. \A g \in Handler : pc'[g] \in {"created", "known", "denied"} =>
                               \E x \in Account : phone'[x] = who'[g]
      <4> SUFFICES ASSUME NEW g \in Handler, pc'[g] \in {"created", "known", "denied"}
                   PROVE  \E x \in Account : phone'[x] = who'[g]
        OBVIOUS
      <4>1. CASE g = h
        BY <4>1, <2>1, <2>4 DEF RowsOf
      <4>2. CASE g # h
        <5>1. pc[g] = pc'[g] /\ who[g] \in Phone /\ RowsOf(who[g]) # {}
          BY <4>2, <2>1 DEF TypeOK, WayInv, CodeInv
        <5>2. PICK x \in Account : phone[x] = who[g]
          BY <5>1 DEF RowsOf
        <5>3. x # a
          BY <2>1, <5>1, <5>2, NoneAssumption
        <5> QED
          BY <2>1, <4>2, <5>2, <5>3 DEF TypeOK
      <4> QED
        BY <4>1, <4>2
    <3>2. \A p \in Phone : step'[p] = "verify" => RowsOf(p)' # {}
      BY <2>1, <2>3 DEF WayInv, CodeInv
    <3> QED
      BY <3>1, <3>2 DEF CodeInv, RowsOf
  <2>6. PairInv'
    BY <2>1 DEF WayInv, PairInv
  <2> QED
    BY <2>2, <2>5, <2>6 DEF WayInv
<1>5. ASSUME VerifySave(h) \/ Mint(h)
      PROVE  WayInv'
  <2>1. /\ pc[h] \in {"save", "mint"}
        /\ \E l \in {"mint", "verified"} : pc' = [pc EXCEPT ![h] = l]
        /\ UNCHANGED <<who, phone, step, waits, held>>
    BY <1>5 DEF VerifySave, Mint, rowVars, cliVars
  <2>2. WaitInv'
    BY <2>1 DEF TypeOK, WayInv, WaitInv
  <2>3. CodeInv'
    BY <2>1 DEF TypeOK, WayInv, CodeInv, RowsOf
  <2>4. PairInv'
    BY <2>1 DEF WayInv, PairInv
  <2> QED
    BY <2>2, <2>3, <2>4 DEF WayInv
<1>6. ASSUME Answer(h)
      PROVE  WayInv'
  <2> DEFINE p == who[h]
  <2>1. /\ p \in Phone /\ pc[h] # "idle"
        /\ pc' = [pc EXCEPT ![h] = "idle"]
        /\ who' = [who EXCEPT ![h] = None]
        /\ phone' = phone
        /\ \A q \in Phone \ {p} : waits'[q] = waits[q] /\ step'[q] = step[q] /\ held'[q] = held[q]
    BY <1>6 DEF Answer, Forget, TypeOK, rowVars
  <2>2. CASE waits[p] # h
    <3>1. UNCHANGED <<waits, step, held>>
      BY <1>6, <2>1, <2>2 DEF Answer, TypeOK
    <3>2. WaitInv'
      BY <2>1, <2>2, <3>1 DEF TypeOK, WayInv, WaitInv
    <3>3. CodeInv' /\ PairInv'
      BY <2>1, <3>1 DEF TypeOK, WayInv, CodeInv, PairInv, RowsOf
    <3> QED
      BY <3>2, <3>3 DEF WayInv
  <2>3. CASE waits[p] = h
    <3>1. /\ waits'[p] = None
          /\ step'[p] = After(pc[h])
          /\ held'[p] = IF pc[h] = "verified" THEN Tokens(h) ELSE held[p]
          /\ pc[h] \in {"created", "conflict", "known", "unknown", "denied", "verified"}
      BY <1>6, <2>1, <2>3 DEF Answer, TypeOK
    <3>2. WaitInv'
      BY <2>1, <3>1 DEF TypeOK, WayInv, WaitInv
    <3>3. CodeInv'
      <4>1. \A g \in Handler : pc'[g] \in {"created", "known", "denied"} =>
                                 \E x \in Account : phone'[x] = who'[g]
        BY <2>1 DEF TypeOK, WayInv, CodeInv, RowsOf
      <4>2. step'[p] = "verify" => pc[h] \in {"created", "known", "denied"}
        BY <3>1 DEF After
      <4>3. \A q \in Phone : step'[q] = "verify" => \E x \in Account : phone'[x] = q
        BY <2>1, <4>2 DEF WayInv, CodeInv, RowsOf
      <4> QED
        BY <4>1, <4>3 DEF CodeInv, RowsOf
    <3>4. PairInv'
      <4>1. /\ held'[p] # {} => \E a \in Account, t \in Nat : held'[p] = Pair(a, t)
            /\ step'[p] = "in" => held'[p] # {}
        <5>1. CASE pc[h] = "verified"
          <6>1. acc[h] \in Account /\ made[h] \in Nat
            BY <5>1 DEF TypeOK
          <6>2. held'[p] = Pair(acc[h], made[h])
            BY <3>1, <5>1 DEF Tokens, Pair
          <6> QED
            BY <6>1, <6>2 DEF Pair
        <5>2. CASE pc[h] # "verified"
          <6>1. held'[p] = held[p] /\ step'[p] # "in"
            BY <3>1, <5>2 DEF After
          <6> QED
            BY <2>1, <6>1 DEF WayInv, PairInv
        <5> QED
          BY <5>1, <5>2
      <4> QED
        BY <2>1, <4>1 DEF WayInv, PairInv
    <3> QED
      BY <3>2, <3>3, <3>4 DEF WayInv
  <2> QED
    BY <2>2, <2>3
<1>7. ASSUME HandlerFails(h)
      PROVE  WayInv'
  <2>1. /\ pc' = [pc EXCEPT ![h] = "idle"]
        /\ who' = [who EXCEPT ![h] = None]
        /\ waits' = [p \in Phone |-> IF waits[p] = h THEN None ELSE waits[p]]
        /\ UNCHANGED <<phone, step, held>>
    BY <1>7 DEF HandlerFails, Forget, rowVars
  <2>2. WaitInv'
    BY <2>1 DEF TypeOK, WayInv, WaitInv
  <2>3. CodeInv' /\ PairInv'
    BY <2>1 DEF TypeOK, WayInv, CodeInv, PairInv, RowsOf
  <2> QED
    BY <2>2, <2>3 DEF WayInv
<1> QED
  BY <1>1, <1>2, <1>3, <1>4, <1>5, <1>6, <1>7

LEMMA WayStep == TypeOK /\ WayInv /\ [Next]_vars => WayInv'
<1> SUFFICES ASSUME TypeOK, WayInv, [Next]_vars
             PROVE  WayInv'
  OBVIOUS
<1>1. ASSUME UNCHANGED <<phone, hVars, cliVars>>
      PROVE  WayInv'
  BY <1>1 DEF WayInv, WaitInv, CodeInv, PairInv, RowsOf, hVars, cliVars
<1>2. ASSUME NEW p \in Phone, GiveUp(p)
      PROVE  WayInv'
  BY <1>2 DEF GiveUp, TypeOK, WayInv, WaitInv, CodeInv, PairInv, RowsOf, rowVars, hVars
<1>3. ASSUME NEW p \in Phone, LogInAgain(p)
      PROVE  WayInv'
  BY <1>3 DEF LogInAgain, TypeOK, WayInv, WaitInv, CodeInv, PairInv, RowsOf, rowVars, hVars
<1>4. ASSUME NEW p \in Phone, Discover(p)
      PROVE  WayInv'
  BY <1>4, <1>1 DEF Discover, rowVars
<1>5. ASSUME NEW c \in Call, NEW p \in Phone, NEW s \in Service, NEW tok \in held[p],
             Send(c, p, s, tok)
      PROVE  WayInv'
  BY <1>5, <1>1 DEF Send, rowVars
<1>6. ASSUME NEW c \in Call, Admit(c) \/ Refuse(c) \/ Done(c)
      PROVE  WayInv'
  BY <1>6, <1>1 DEF Admit, Refuse, Done, rowVars
<1>7. CASE Tick \/ UNCHANGED vars
  BY <1>7, <1>1 DEF Tick, vars, rowVars
<1> QED
  BY <1>2, <1>3, <1>4, <1>5, <1>6, <1>7, HandlerWay DEF Next

\* The safety half of "every client gets in" (auth_controller.ts register,
\* login, verify): no client waits for a handler that forgot it, is asked for a
\* code that cannot help it, or is in with tokens that do not belong together.
THEOREM ClientsOnTheirWay == Spec => []OnItsWay
<1>1. Init => WayInv
  BY DEF Init, WayInv, WaitInv, CodeInv, PairInv
<1>2. Inv /\ WayInv => OnItsWay
  <2> SUFFICES ASSUME Inv, WayInv, NEW p \in Phone, step[p] = "in"
               PROVE  \E a \in RowsOf(p), t \in 0 .. clock : verified[a] /\ held[p] = Pair(a, t)
    BY DEF OnItsWay, WayInv, WaitInv, CodeInv
  <2>1. PICK a \in Account, t \in Nat : held[p] = Pair(a, t)
    BY DEF WayInv, PairInv
  <2>2. SessionToken(a, t) \in held[p]
    BY <2>1 DEF Pair
  <2>3. Owns(p, SessionToken(a, t))
    BY <2>2 DEF Inv, OwnerInv
  <2>4. phone[a] = p /\ verified[a] /\ t =< clock
    BY <2>3 DEF Owns, SessionToken
  <2>5. a \in RowsOf(p) /\ t \in 0 .. clock
    BY <2>4, TimeAssumption DEF RowsOf, Inv, TypeOK
  <2> QED
    BY <2>1, <2>4, <2>5
<1> QED
  BY <1>1, <1>2, Invariant, WayStep, PTL DEF Spec, Inv

-----------------------------------------------------------------------------
\* Ages in seconds and in ticks

\* Two times whose seconds differ by at most m differ by less than m + 1
\* seconds.
LEMMA AtMost ==
    ASSUME NEW x \in Nat, NEW y \in Nat, NEW m \in Nat, Seconds(x) - Seconds(y) =< m
    PROVE  x - y < (m + 1) * Sec
<1> DEFINE q == x \div Sec
           r == x % Sec
           p == y \div Sec
           s == y % Sec
<1>1. /\ x = Sec * q + r /\ y = Sec * p + s
      /\ q \in Nat /\ p \in Nat /\ r \in 0 .. Sec - 1 /\ s \in 0 .. Sec - 1
  BY DivMod, TimeAssumption
<1>2. q - p =< m
  BY DEF Seconds
<1>3. Sec \in Nat \ {0}
  BY TimeAssumption
<1> HIDE DEF q, r, p, s
<1>4. Sec * (m + 1 - (q - p)) >= Sec
  <2>1. m + 1 - (q - p) \in Int /\ m + 1 - (q - p) >= 1
    BY <1>1, <1>2
  <2> QED
    BY <2>1, <1>3, Multiple
<1>5. (m + 1) * Sec - (x - y) = Sec * (m + 1 - (q - p)) - (r - s)
  BY <1>1, <1>3, Z3T(30)
<1>6. r - s < Sec
  BY <1>1, <1>3
<1> QED
  BY <1>1, <1>3, <1>4, <1>5, <1>6, Z3T(30)

\* Two times whose seconds differ by more than m differ by more than m
\* seconds.
LEMMA MoreThan ==
    ASSUME NEW x \in Nat, NEW y \in Nat, NEW m \in Nat, Seconds(x) - Seconds(y) > m
    PROVE  x - y > m * Sec
<1> DEFINE q == x \div Sec
           r == x % Sec
           p == y \div Sec
           s == y % Sec
<1>1. /\ x = Sec * q + r /\ y = Sec * p + s
      /\ q \in Nat /\ p \in Nat /\ r \in 0 .. Sec - 1 /\ s \in 0 .. Sec - 1
  BY DivMod, TimeAssumption
<1>2. q - p > m
  BY DEF Seconds
<1>3. Sec \in Nat \ {0}
  BY TimeAssumption
<1> HIDE DEF q, r, p, s
<1>4. Sec * (q - p - m) >= Sec
  <2>1. q - p - m \in Int /\ q - p - m >= 1
    BY <1>1, <1>2
  <2> QED
    BY <2>1, <1>3, Multiple
<1>5. (x - y) - m * Sec = Sec * (q - p - m) + (r - s)
  BY <1>1, <1>3, Z3T(30)
<1>6. s - r < Sec
  BY <1>1, <1>3
<1> QED
  BY <1>1, <1>3, <1>4, <1>5, <1>6, Z3T(30)

\* What a service compares are numbers.
LEMMA Times ==
    ASSUME TypeOK, NEW c \in Call, cpc[c] # "idle"
    PROVE  /\ Now(to[c]) \in Nat /\ token[c].born \in Nat
           /\ Seconds(Now(to[c])) \in Nat /\ Seconds(token[c].born) \in Nat
           /\ MaxAge[to[c]] \in Nat /\ Skew \in Nat
<1>1. Now(to[c]) \in Nat /\ token[c].born \in Nat
  BY TimeAssumption, DriftAssumption DEF TypeOK, Now, Token, Service
<1>2. \A x \in Nat : Seconds(x) \in Nat
  BY DivMod, TimeAssumption DEF Seconds
<1> QED
  BY <1>1, <1>2, TimeAssumption DEF TypeOK

\* A step that changes the place of a request from "sent" to l.
LEMMA Leaves ==
    ASSUME TypeOK, [Next]_vars, NEW c \in Call, cpc[c] = "sent", cpc'[c] # "sent"
    PROVE  /\ cpc'[c] = "admitted" => Accepts(to[c], token[c])
           /\ cpc'[c] = "refused" => ~Accepts(to[c], token[c])
<1>1. CASE UNCHANGED cpc
  BY <1>1
<1>2. ASSUME NEW d \in Call, Admit(d) \/ Refuse(d) \/ Done(d)
      PROVE  /\ cpc'[c] = "admitted" => Accepts(to[c], token[c])
             /\ cpc'[c] = "refused" => ~Accepts(to[c], token[c])
  BY <1>2 DEF Admit, Refuse, Done, TypeOK
<1>3. ASSUME NEW d \in Call, NEW p \in Phone, NEW s \in Service, NEW tok \in held[p],
             Send(d, p, s, tok)
      PROVE  cpc'[c] = "sent"
  BY <1>3 DEF Send, TypeOK
<1>4. ~UNCHANGED cpc =>
         \/ \E d \in Call : Admit(d) \/ Refuse(d) \/ Done(d)
         \/ \E d \in Call, p \in Phone, s \in Service : \E tok \in held[p] : Send(d, p, s, tok)
  BY DEF Next, RegisterNew, RegisterKnown, RegisterInsert, LoginKnown, LoginUnknown,
         VerifyFind, VerifyDenied, VerifySave, Mint, Answer, HandlerFails, GiveUp,
         LogInAgain, Discover, Tick, Arrive, vars, callVars
<1> QED
  BY <1>1, <1>2, <1>3, <1>4

\* A request passes only if its token is less than a second older than
\* MAX_TOKEN_AGE_SECONDS and dated less than a second beyond the tolerance,
\* in whatever part of their seconds it was made and read.
THEOREM InTime == Spec => AdmittedInTime
<1>1. ASSUME TypeOK, [Next]_vars, NEW c \in Call, cpc[c] = "sent", cpc'[c] = "admitted"
      PROVE  /\ Age(c) < (MaxAge[to[c]] + 1) * Sec
             /\ -Age(c) < (Skew + 1) * Sec
  <2>1. InDate(to[c], token[c])
    BY <1>1, Leaves DEF Accepts
  <2>2. /\ Seconds(Now(to[c])) - Seconds(token[c].born) =< MaxAge[to[c]]
        /\ Seconds(token[c].born) - Seconds(Now(to[c])) =< Skew
    BY <2>1, <1>1, Times DEF InDate
  <2>3. /\ Now(to[c]) - token[c].born < (MaxAge[to[c]] + 1) * Sec
        /\ token[c].born - Now(to[c]) < (Skew + 1) * Sec
    BY <2>2, <1>1, Times, AtMost
  <2>4. -Age(c) = token[c].born - Now(to[c])
    BY <1>1, Times DEF Age
  <2> QED
    BY <2>3, <2>4 DEF Age
<1>2. Inv /\ [Next]_vars => [\A c \in Call : cpc[c] = "sent" /\ cpc'[c] = "admitted" =>
                               /\ Age(c) < (MaxAge[to[c]] + 1) * Sec
                               /\ -Age(c) < (Skew + 1) * Sec]_vars
  BY <1>1 DEF Inv
<1> QED
  BY <1>2, Invariant, PTL DEF Spec, AdmittedInTime

\* A token of the service's own is refused only when it is older than
\* MAX_TOKEN_AGE_SECONDS, or when the relay's clock is behind by more than the
\* tolerance.
THEOREM ForCause == Spec => RefusedForCause
<1>1. ASSUME Inv, [Next]_vars, NEW c \in Call, cpc[c] = "sent", cpc'[c] = "refused"
      PROVE  \/ token[c].key # SecretOf(to[c])
             \/ Age(c) > MaxAge[to[c]] * Sec
             \/ to[c] = "relay" /\ -ahead > Skew * Sec
  <2>1. ~InDate(to[c], token[c]) \/ token[c].key # SecretOf(to[c])
    BY <1>1, Leaves DEF Accepts, Signed, Inv
  <2>2. CASE Seconds(Now(to[c])) - Seconds(token[c].born) > MaxAge[to[c]]
    BY <2>2, <1>1, Times, MoreThan DEF Inv, Age
  <2>3. CASE Seconds(token[c].born) - Seconds(Now(to[c])) > Skew
    <3>1. token[c].born - Now(to[c]) > Skew * Sec
      BY <2>3, <1>1, Times, MoreThan DEF Inv
    <3>2. token[c].born =< clock /\ clock \in Nat /\ ahead \in Int /\ Skew * Sec \in Nat
      BY <1>1, TimeAssumption, DriftAssumption DEF Inv, TypeOK, OwnerInv, Owns
    <3>3. to[c] # "identity"
      BY <3>1, <3>2, <1>1, Times DEF Now, Inv
    <3> QED
      BY <3>1, <3>2, <3>3, <1>1, Times DEF Now, Inv, TypeOK, Service
  <2> QED
    BY <2>1, <2>2, <2>3, <1>1, Times DEF InDate, Inv
<1>2. Inv /\ [Next]_vars => [\A c \in Call : cpc[c] = "sent" /\ cpc'[c] = "refused" =>
                               \/ token[c].key # SecretOf(to[c])
                               \/ Age(c) > MaxAge[to[c]] * Sec
                               \/ to[c] = "relay" /\ -ahead > Skew * Sec]_vars
  BY <1>1
<1> QED
  BY <1>2, Invariant, PTL DEF Spec, RefusedForCause

=============================================================================
