--------------------------- MODULE Accounts_proofs ---------------------------
(***************************************************************************)
(* The safety properties of Accounts, for any accounts, usernames, bodies   *)
(* and any number of concurrent handlers.                                   *)
(*                                                                          *)
(* Five inductive invariants, each resting on the ones before it (the last  *)
(* part, that fields are registers, needs the first two):                   *)
(*   TypeInv    the types, and what a handler at each of its steps holds;   *)
(*   RowInv     which accounts have a row, a token, a profile and the flag; *)
(*   FieldInv   what an update knows of the fields no concurrent update     *)
(*              sends: they are as it read them, or as it saved them;       *)
(*   RelyInv    a visibility the owner relies on is the one in the row, and *)
(*              no update under way is to change it;                        *)
(*   SeenInv    the history of a reader covers what is relied on now.        *)
(***************************************************************************)
EXTENDS Accounts, TLAPS

\* The locals of a handler that runs.
RegisterOK(r) == rPc[r] = "insert" => rPhone[r] \in Phone
VerifyOK(v)   == vPc[v] # "idle" => vAcc[v] \in Account
UpdateOK(u)   ==
    /\ uPc[u] # "idle" => uAcc[u] \in Account /\ body[u] \in Update
    /\ uPc[u] \in {"check", "name"} => "name" \in DOMAIN body[u]
    /\ uPc[u] = "save" /\ copy[u] # None => profile[uAcc[u]] # None
ReadOK(g)     ==
    /\ gPc[g] # "idle" => gAcc[g] \in Account
    /\ gPc[g] = "account" => gKind[g] = "wallet"
    /\ gPc[g] = "profile" => gKind[g] # "wallet"

LocalsOK ==
    /\ \A r \in Register : RegisterOK(r)
    /\ \A v \in Verify : VerifyOK(v)
    /\ \A u \in Updater : UpdateOK(u)
    /\ \A g \in Reader : ReadOK(g)

TypeInv == TypeOK /\ LocalsOK

RowInv ==
    /\ \A v \in Verify : vPc[v] # "idle" => Exists(vAcc[v])
    /\ \A v \in Verify : vPc[v] = "token" => verified[vAcc[v]]
    /\ \A a \in tokens : Exists(a) /\ verified[a]
    /\ \A a \in Account : profile[a] # None => a \in tokens
    /\ \A u \in Updater : uPc[u] # "idle" => uAcc[u] \in tokens
    /\ \A g \in Reader : gPc[g] # "idle" => verified[gAcc[g]]

\* Updates of one account that run at the same time know of each other.
RivalsKnown ==
    \A u, v \in Updater :
        u # v /\ uPc[u] # "idle" /\ uPc[v] # "idle" /\ uAcc[u] = uAcc[v]
            => DOMAIN body[v] \subseteq rivals[u]

NameKnown ==
    \A u \in Updater : "name" \in DOMAIN body[u] \ rivals[u] =>
        /\ uPc[u] \in {"check", "name"} => name[uAcc[u]] = oldName[u]
        /\ uPc[u] \in {"profile", "save", "answer"} => name[uAcc[u]] = body[u].name

CopyKnown ==
    \A u \in Updater : uPc[u] = "save" /\ copy[u] # None =>
        \A c \in Column \ rivals[u] : profile[uAcc[u]][c] = copy[u][c]

SavedKnown ==
    \A u \in Updater : uPc[u] = "answer" =>
        /\ profile[uAcc[u]] # None
        /\ \A c \in (Column \cap DOMAIN body[u]) \ rivals[u] :
              profile[uAcc[u]][c] = body[u][c]

FieldInv == RivalsKnown /\ NameKnown /\ CopyKnown /\ SavedKnown

RelyInv ==
    \A a \in Account : relied[a] # None =>
        /\ profile[a] # None /\ profile[a].vis = relied[a]
        /\ \A u \in Updater : uPc[u] # "idle" /\ uAcc[u] = a => "vis" \notin DOMAIN body[u]

\* The readers that need a profile open to everybody.
Shows(g) ==
    \/ gPc[g] = "account"
    \/ gPc[g] = "answer" /\ (gKind[g] = "wallet" \/ (gKind[g] = "get" /\ shown[g] # {}))

SeenInv ==
    /\ \A g \in Reader : gPc[g] # "idle" => relied[gAcc[g]] \in during[g]
    /\ \A g \in Reader : gPc[g] = "answer" /\ gKind[g] = "get" => during[g] # {"private"}
    /\ \A g \in Reader : Shows(g) => ~(during[g] \subseteq {"contacts", "private"})

-----------------------------------------------------------------------------
\* What a save makes of a profile row is a profile row, also when only the
\* dirty columns are written.
LEMMA AssignType ==
    ASSUME NEW base \in Profile, NEW b \in Update, NEW cols,
           cols \subseteq Column \cap DOMAIN b
    PROVE  Assign(base, b, cols) \in Profile
<1>1. "vis" \in cols => b.vis \in Visibility
  BY UpdateAssumption
<1>2. "wallets" \in cols => b.wallets \subseteq Wallet
  BY UpdateAssumption
<1>3. "details" \in cols => b.details \in Detail
  BY UpdateAssumption
<1>4. /\ base.vis \in Visibility /\ base.wallets \subseteq Wallet
      /\ base.details \in Detail \cup {None}
  BY DEF Profile
<1>5. Assign(base, b, cols) =
          [vis |-> IF "vis" \in cols THEN b.vis ELSE base.vis,
           wallets |-> IF "wallets" \in cols THEN b.wallets ELSE base.wallets,
           details |-> IF "details" \in cols THEN b.details ELSE base.details]
  BY DEF Assign, Column
<1> QED BY <1>1, <1>2, <1>3, <1>4, <1>5 DEF Profile

LEMMA SavedType ==
    ASSUME NEW row, NEW old, NEW b \in Update, old # None => row \in Profile
    PROVE  Saved(row, old, b) \in Profile
<1>1. NewProfile \in Profile
  BY DEF NewProfile, Profile, Visibility
<1>2. Dirty(b, old) \subseteq Column \cap DOMAIN b
  BY DEF Dirty
<1> QED BY <1>1, <1>2, AssignType DEF Saved

LEMMA NoProfile == None \notin Profile
  BY NoneAssumption


-----------------------------------------------------------------------------
LEMMA TypeInit == Init => TypeInv
BY DEF Init, TypeInv, TypeOK, LocalsOK, RegisterOK, VerifyOK, UpdateOK, ReadOK, NoBody

\* Handlers of the other kinds, and their locals, are left alone.
LEMMA RegistersRest ==
    ASSUME LocalsOK, UNCHANGED regVars PROVE \A r \in Register : RegisterOK(r)'
BY Zenon DEF LocalsOK, RegisterOK, regVars

LEMMA VerifiesRest ==
    ASSUME LocalsOK, UNCHANGED verVars PROVE \A v \in Verify : VerifyOK(v)'
BY Zenon DEF LocalsOK, VerifyOK, verVars

LEMMA UpdatesRest ==
    ASSUME LocalsOK, UNCHANGED <<updVars, profile>> PROVE \A u \in Updater : UpdateOK(u)'
BY Zenon DEF LocalsOK, UpdateOK, updVars

LEMMA ReadersRest ==
    ASSUME LocalsOK, UNCHANGED getVars PROVE \A g \in Reader : ReadOK(g)'
BY Zenon DEF LocalsOK, ReadOK, getVars

\* What is relied on, and what readers saw of it.
LEMMA RelyType ==
    ASSUME TypeInv, NEW a \in Account, NEW x \in Visibility \cup {None}, Rely(a, x)
    PROVE  /\ relied' \in [Account -> Visibility \cup {None}]
           /\ during' \in [Reader -> SUBSET (Visibility \cup {None})]
BY DEF Rely, TypeInv, TypeOK

LEMMA UpdateForgetType ==
    ASSUME TypeInv, NEW u \in Updater, UpdateForget(u), UNCHANGED profile
    PROVE  /\ uPc' \in [Updater -> {"idle", "check", "name", "profile", "save", "answer"}]
           /\ uAcc' \in [Updater -> Account \cup {None}]
           /\ body' \in [Updater -> Update \cup {NoBody}]
           /\ oldName' \in [Updater -> Name \cup {None}]
           /\ copy' \in [Updater -> Profile \cup {None}]
           /\ rivals' \in [Updater -> SUBSET Field]
           /\ \A v \in Updater : UpdateOK(v)'
<1>1. /\ uPc' \in [Updater -> {"idle", "check", "name", "profile", "save", "answer"}]
      /\ uAcc' \in [Updater -> Account \cup {None}]
      /\ body' \in [Updater -> Update \cup {NoBody}]
  BY DEF UpdateForget, TypeInv, TypeOK
<1>2. /\ oldName' \in [Updater -> Name \cup {None}]
      /\ copy' \in [Updater -> Profile \cup {None}]
      /\ rivals' \in [Updater -> SUBSET Field]
  BY DEF UpdateForget, TypeInv, TypeOK
<1>3. ASSUME NEW v \in Updater PROVE UpdateOK(v)'
  <2>1. CASE v = u
    BY <2>1 DEF UpdateForget, UpdateOK, TypeInv, TypeOK
  <2>2. CASE v # u
    BY <2>2 DEF UpdateForget, UpdateOK, TypeInv, TypeOK, LocalsOK
  <2> QED BY <2>1, <2>2
<1> QED BY <1>1, <1>2, <1>3

LEMMA ReadEndType ==
    ASSUME TypeInv, NEW g \in Reader, ReadEnd(g)
    PROVE  /\ gPc' \in [Reader -> {"idle", "profile", "account", "answer"}]
           /\ gKind' \in [Reader -> {"get", "me", "search", "wallet", "phone"}]
           /\ gAcc' \in [Reader -> Account \cup {None}]
           /\ shown' \in [Reader -> SUBSET Wallet]
           /\ detail' \in [Reader -> Detail \cup {None}]
           /\ during' \in [Reader -> SUBSET (Visibility \cup {None})]
           /\ \A h \in Reader : ReadOK(h)'
BY DEF ReadEnd, TypeInv, TypeOK, LocalsOK, ReadOK

LEMMA TypeStep == TypeInv /\ [Next]_vars => TypeInv'
<1> SUFFICES ASSUME TypeInv, [Next]_vars PROVE TypeInv'
  OBVIOUS
<1>0. TypeOK /\ LocalsOK
  BY DEF TypeInv
<1>1. ASSUME NEW r \in Register, NEW p \in Phone, NEW n \in Name \cup {None},
             RegisterCheck(r, p, n)
      PROVE  TypeInv'
  <2>1. TypeOK'
    BY <1>0, <1>1 DEF TypeOK, RegisterCheck, rowVars, verVars, updVars, getVars
  <2>2. \A s \in Register : RegisterOK(s)'
    BY <1>0, <1>1 DEF TypeOK, LocalsOK, RegisterOK, RegisterCheck
  <2> QED
    BY <1>0, <1>1, <2>1, <2>2, VerifiesRest, UpdatesRest, ReadersRest
    DEF TypeInv, LocalsOK, RegisterCheck, rowVars
<1>2. ASSUME NEW r \in Register, RegisterForget(r), UNCHANGED <<verified, profile, tokens,
                                                     verVars, updVars, getVars>>,
             phone' \in [Account -> Phone \cup {None}],
             name' \in [Account -> Name \cup {None}]
      PROVE  TypeInv'
  <2>1. TypeOK'
    BY <1>0, <1>2 DEF TypeOK, RegisterForget, verVars, updVars, getVars
  <2>2. \A s \in Register : RegisterOK(s)'
    BY <1>0, <1>2 DEF TypeOK, LocalsOK, RegisterOK, RegisterForget
  <2> QED
    BY <1>0, <1>2, <2>1, <2>2, VerifiesRest, UpdatesRest, ReadersRest DEF TypeInv, LocalsOK
<1>3. ASSUME NEW r \in Register, NEW a \in Account, RegisterInsert(r, a) PROVE TypeInv'
  BY <1>0, <1>2, <1>3 DEF TypeOK, RegisterInsert
<1>4. ASSUME NEW r \in Register, RegisterFails(r) PROVE TypeInv'
  BY <1>0, <1>2, <1>4 DEF TypeOK, RegisterFails, rowVars
<1>5. ASSUME NEW v \in Verify, NEW a \in Account, VerifyFind(v, a) PROVE TypeInv'
  <2>1. TypeOK'
    BY <1>0, <1>5 DEF TypeOK, VerifyFind, rowVars, regVars, updVars, getVars
  <2>2. \A w \in Verify : VerifyOK(w)'
    BY <1>0, <1>5 DEF TypeOK, LocalsOK, VerifyOK, VerifyFind
  <2> QED
    BY <1>0, <1>5, <2>1, <2>2, RegistersRest, UpdatesRest, ReadersRest
    DEF TypeInv, LocalsOK, VerifyFind, rowVars
<1>6. ASSUME NEW v \in Verify, VerifyForget(v), UNCHANGED <<phone, name, profile, regVars,
                                                             updVars, getVars>>,
             verified' \in [Account -> BOOLEAN], tokens' \subseteq Account
      PROVE  TypeInv'
  <2>1. TypeOK'
    BY <1>0, <1>6 DEF TypeOK, VerifyForget, regVars, updVars, getVars
  <2>2. \A w \in Verify : VerifyOK(w)'
    BY <1>0, <1>6 DEF TypeOK, LocalsOK, VerifyOK, VerifyForget
  <2> QED
    BY <1>0, <1>6, <2>1, <2>2, RegistersRest, UpdatesRest, ReadersRest DEF TypeInv, LocalsOK
<1>7. ASSUME NEW v \in Verify, VerifySave(v) PROVE TypeInv'
  <2>1. vAcc[v] \in Account
    BY <1>0, <1>7 DEF LocalsOK, VerifyOK, VerifySave
  <2>2. verified' \in [Account -> BOOLEAN] /\ vPc' \in [Verify -> {"idle", "save", "token"}]
    BY <1>0, <1>7, <2>1 DEF TypeOK, VerifySave
  <2>3. TypeOK'
    BY <1>0, <1>7, <2>2 DEF TypeOK, VerifySave, regVars, updVars, getVars
  <2>4. \A w \in Verify : VerifyOK(w)'
    BY <1>0, <1>7 DEF TypeOK, LocalsOK, VerifyOK, VerifySave
  <2> QED
    BY <1>0, <1>7, <2>3, <2>4, RegistersRest, UpdatesRest, ReadersRest
    DEF TypeInv, LocalsOK, VerifySave
<1>25. ASSUME NEW v \in Verify, VerifyToken(v) PROVE TypeInv'
  <2>1. vAcc[v] \in Account
    BY <1>0, <1>25 DEF LocalsOK, VerifyOK, VerifyToken
  <2> QED BY <1>0, <1>6, <1>25, <2>1 DEF TypeOK, VerifyToken
<1>8. ASSUME NEW v \in Verify, VerifyFails(v) PROVE TypeInv'
  BY <1>0, <1>6, <1>8 DEF TypeOK, VerifyFails, rowVars
<1>9. ASSUME NEW u \in Updater, NEW a \in Account, NEW b \in Update, UpdateBegin(u, a, b)
      PROVE  TypeInv'
  <2>1. DOMAIN b \subseteq Field /\ \A w \in Updater : DOMAIN body[w] \subseteq Field
    BY <1>0, UpdateAssumption DEF TypeOK, NoBody
  <2>2. rivals' \in [Updater -> SUBSET Field]
    BY <1>0, <1>9, <2>1 DEF TypeOK, UpdateBegin, Rivals
  <2>3. /\ uPc' \in [Updater -> {"idle", "check", "name", "profile", "save", "answer"}]
        /\ uAcc' \in [Updater -> Account \cup {None}]
        /\ body' \in [Updater -> Update \cup {NoBody}]
        /\ oldName' \in [Updater -> Name \cup {None}]
    BY <1>0, <1>9 DEF TypeOK, UpdateBegin
  <2>6. /\ relied' \in [Account -> Visibility \cup {None}]
        /\ during' \in [Reader -> SUBSET (Visibility \cup {None})]
    BY <1>0, <1>9, RelyType DEF TypeOK, UpdateBegin
  <2>4. TypeOK'
    BY <1>0, <1>9, <2>2, <2>3, <2>6 DEF TypeOK, UpdateBegin, rowVars, regVars, verVars
  <2>5. \A v \in Updater : UpdateOK(v)'
    BY <1>0, <1>9 DEF TypeOK, LocalsOK, UpdateOK, UpdateBegin, rowVars
  <2>7. \A g \in Reader : ReadOK(g)'
    BY <1>0, <1>9, Zenon DEF LocalsOK, ReadOK, UpdateBegin
  <2> QED
    BY <1>0, <1>9, <2>4, <2>5, <2>7, RegistersRest, VerifiesRest
    DEF TypeInv, LocalsOK, UpdateBegin
<1>10. \* An update takes a step: only its place and its copy change.
       ASSUME NEW u \in Updater, uPc[u] # "idle",
              NEW next \in {"name", "profile", "save", "answer"},
              uPc' = [uPc EXCEPT ![u] = next],
              next = "name" => uPc[u] = "check",
              UNCHANGED <<phone, verified, tokens, regVars, verVars, uAcc, body, oldName,
                          rivals, relied, getVars>>,
              name' \in [Account -> Name \cup {None}],
              profile' \in [Account -> Profile \cup {None}],
              \A a \in Account : profile[a] # None => profile'[a] # None,
              copy' \in [Updater -> Profile \cup {None}],
              \A v \in Updater : v # u => copy'[v] = copy[v],
              next = "save" => copy'[u] = profile'[uAcc[u]]
       PROVE  TypeInv'
  <2>1. uPc' \in [Updater -> {"idle", "check", "name", "profile", "save", "answer"}]
    BY <1>0, <1>10 DEF TypeOK
  <2>2. TypeOK'
    BY <1>0, <1>10, <2>1, Zenon DEF TypeOK, regVars, verVars, getVars
  <2>3. \A v \in Updater : UpdateOK(v)'
    BY <1>0, <1>10 DEF TypeOK, LocalsOK, UpdateOK
  <2> QED
    BY <1>0, <1>10, <2>2, <2>3, RegistersRest, VerifiesRest, ReadersRest
    DEF TypeInv, LocalsOK
<1>11. ASSUME NEW u \in Updater, UpdateCheckName(u) PROVE TypeInv'
  BY <1>0, <1>10, <1>11 DEF TypeOK, UpdateCheckName, rowVars
<1>12. ASSUME NEW u \in Updater, UpdateSaveName(u) PROVE TypeInv'
  <2>1. body[u] \in Update /\ body[u].name \in Name
    BY <1>0, <1>12, UpdateAssumption DEF LocalsOK, UpdateOK, UpdateSaveName
  <2>2. name' \in [Account -> Name \cup {None}]
    BY <1>0, <1>12, <2>1, ZenonT(60) DEF TypeOK, UpdateSaveName
  <2> QED BY <1>0, <1>10, <1>12, <2>2 DEF TypeOK, UpdateSaveName
<1>13. ASSUME NEW u \in Updater, UpdateReadProfile(u) PROVE TypeInv'
  <2>1. profile[uAcc[u]] \in Profile \cup {None}
    BY <1>0, <1>13 DEF TypeOK, LocalsOK, UpdateOK, UpdateReadProfile
  <2>2. copy' \in [Updater -> Profile \cup {None}]
    BY <1>0, <1>13, <2>1 DEF TypeOK, UpdateReadProfile
  <2> QED BY <1>0, <1>10, <1>13, <2>2 DEF TypeOK, UpdateReadProfile, rowVars
<1>14. ASSUME NEW u \in Updater, UpdateSaveProfile(u) PROVE TypeInv'
  <2>1. /\ uAcc[u] \in Account /\ body[u] \in Update
        /\ copy[u] # None => profile[uAcc[u]] # None
    BY <1>0, <1>14 DEF LocalsOK, UpdateOK, UpdateSaveProfile
  <2>2. Saved(profile[uAcc[u]], copy[u], body[u]) \in Profile
    BY <1>0, <2>1, SavedType DEF TypeOK
  <2>3. profile' = [profile EXCEPT ![uAcc[u]] = Saved(profile[uAcc[u]], copy[u], body[u])]
    BY <1>14 DEF UpdateSaveProfile
  <2>4. /\ profile'[uAcc[u]] \in Profile
        /\ profile' \in [Account -> Profile \cup {None}]
        /\ \A a \in Account : a # uAcc[u] => profile'[a] = profile[a]
    BY <1>0, <2>1, <2>2, <2>3 DEF TypeOK
  <2>6. \A a \in Account : profile[a] # None => profile'[a] # None
    BY <2>4, NoProfile
  <2> QED
    BY <1>0, <1>10, <1>14, <2>4, <2>6 DEF TypeOK, UpdateSaveProfile
<1>15. ASSUME NEW u \in Updater, UpdateForget(u),
              UNCHANGED <<rowVars, regVars, verVars, gPc, gKind, gAcc, shown, detail>>,
              relied' \in [Account -> Visibility \cup {None}],
              during' \in [Reader -> SUBSET (Visibility \cup {None})]
       PROVE  TypeInv'
  <2>1. TypeOK'
    BY <1>0, <1>15, UpdateForgetType DEF TypeInv, TypeOK, rowVars, regVars, verVars
  <2>2. \A v \in Updater : UpdateOK(v)'
    BY <1>0, <1>15, UpdateForgetType DEF TypeInv, rowVars
  <2>3. \A g \in Reader : ReadOK(g)'
    BY <1>0, <1>15, Zenon DEF LocalsOK, ReadOK
  <2> QED
    BY <1>0, <1>15, <2>1, <2>2, <2>3, RegistersRest, VerifiesRest DEF TypeInv, LocalsOK
<1>28. ASSUME NEW u \in Updater, UpdateAnswer(u) PROVE TypeInv'
  <2>1. uAcc[u] \in Account /\ body[u] \in Update
    BY <1>0, <1>28 DEF LocalsOK, UpdateOK, UpdateAnswer
  <2>2. /\ relied' \in [Account -> Visibility \cup {None}]
        /\ during' \in [Reader -> SUBSET (Visibility \cup {None})]
    BY <1>0, <1>28, <2>1, RelyType, UpdateAssumption DEF TypeOK, UpdateAnswer
  <2> QED BY <1>15, <1>28, <2>2 DEF UpdateAnswer
<1>16. ASSUME NEW u \in Updater, UpdateFails(u) PROVE TypeInv'
  BY <1>0, <1>15, <1>16 DEF UpdateFails, TypeOK, getVars
<1>17. \* A reader takes a step.
       ASSUME NEW g \in Reader, NEW next \in {"profile", "account", "answer"},
              gPc' = [gPc EXCEPT ![g] = next],
              UNCHANGED <<rowVars, regVars, verVars, updVars>>,
              gKind' \in [Reader -> {"get", "me", "search", "wallet", "phone"}],
              gAcc' \in [Reader -> Account \cup {None}],
              gAcc'[g] \in Account,
              next = "account" => gKind'[g] = "wallet",
              next = "profile" => gKind'[g] # "wallet",
              \A h \in Reader : h # g => gAcc'[h] = gAcc[h] /\ gKind'[h] = gKind[h],
              shown' \in [Reader -> SUBSET Wallet],
              detail' \in [Reader -> Detail \cup {None}],
              during' \in [Reader -> SUBSET (Visibility \cup {None})]
       PROVE  TypeInv'
  <2>1. gPc' \in [Reader -> {"idle", "profile", "account", "answer"}]
    BY <1>0, <1>17 DEF TypeOK
  <2>2. TypeOK'
    BY <1>0, <1>17, <2>1, Zenon DEF TypeOK, rowVars, regVars, verVars, updVars
  <2>3. \A h \in Reader : ReadOK(h)'
    BY <1>0, <1>17 DEF TypeOK, LocalsOK, ReadOK
  <2> QED
    BY <1>0, <1>17, <2>2, <2>3, RegistersRest, VerifiesRest, UpdatesRest
    DEF TypeInv, LocalsOK, rowVars
<1>18. ASSUME NEW g \in Reader, NEW k \in {"get", "search"}, NEW n \in Name,
              NEW a \in Account, FindByName(g, k, n, a)
       PROVE  TypeInv'
  <2>1. during' \in [Reader -> SUBSET (Visibility \cup {None})]
    BY <1>0, <1>18 DEF TypeOK, FindByName
  <2>2. /\ gKind' \in [Reader -> {"get", "me", "search", "wallet", "phone"}]
        /\ gAcc' \in [Reader -> Account \cup {None}]
        /\ gAcc'[g] \in Account /\ gKind'[g] # "wallet"
        /\ \A h \in Reader : h # g => gAcc'[h] = gAcc[h] /\ gKind'[h] = gKind[h]
    BY <1>0, <1>18 DEF TypeOK, FindByName
  <2> QED BY <1>0, <1>17, <1>18, <2>1, <2>2 DEF TypeOK, FindByName
<1>19. ASSUME NEW g \in Reader, ReadProfile(g) PROVE TypeInv'
  <2>1. gAcc[g] \in Account
    BY <1>0, <1>19 DEF LocalsOK, ReadOK, ReadProfile
  <2>2. ShowsWallets(gKind[g], profile[gAcc[g]]) =>
            profile[gAcc[g]].wallets \in SUBSET Wallet
    BY <1>0, <2>1, NoneAssumption DEF TypeOK, ShowsWallets, Vis, Profile, Visibility
  <2>3. shown' \in [Reader -> SUBSET Wallet]
    BY <1>0, <1>19, <2>2 DEF TypeOK, ReadProfile
  <2>4. detail' \in [Reader -> Detail \cup {None}]
    BY <1>0, <1>19, <2>1 DEF TypeOK, ReadProfile, Profile
  <2> QED BY <1>0, <1>17, <1>19, <2>1, <2>3, <2>4 DEF TypeOK, ReadProfile
<1>20. ASSUME NEW g \in Reader, ReadEnd(g), UNCHANGED <<rowVars, regVars, verVars, updVars>>
       PROVE  TypeInv'
  <2>1. TypeOK'
    BY <1>0, <1>20, ReadEndType DEF TypeInv, TypeOK, rowVars, regVars, verVars, updVars
  <2> QED
    BY <1>0, <1>20, <2>1, ReadEndType, RegistersRest, VerifiesRest, UpdatesRest
    DEF TypeInv, LocalsOK, rowVars
<1>21. ASSUME NEW g \in Reader, ReadHidden(g) \/ ReadAnswer(g) PROVE TypeInv'
  BY <1>20, <1>21 DEF ReadHidden, ReadAnswer
<1>22. ASSUME NEW g \in Reader, NEW w \in Wallet, NEW a \in Account, FindByWallet(g, w, a)
       PROVE  TypeInv'
  <2>1. during' \in [Reader -> SUBSET (Visibility \cup {None})]
    BY <1>0, <1>22 DEF TypeOK, FindByWallet
  <2>3. detail' \in [Reader -> Detail \cup {None}]
    <3>1. profile[a] \in Profile
      BY <1>0, <1>22, NoneAssumption DEF TypeOK, FindByWallet, Vis, Visibility
    <3> QED BY <1>0, <1>22, <3>1 DEF TypeOK, FindByWallet, Profile
  <2>2. /\ gKind' \in [Reader -> {"get", "me", "search", "wallet", "phone"}]
        /\ gAcc' \in [Reader -> Account \cup {None}]
        /\ gAcc'[g] \in Account /\ gKind'[g] = "wallet"
        /\ \A h \in Reader : h # g => gAcc'[h] = gAcc[h] /\ gKind'[h] = gKind[h]
    BY <1>0, <1>22 DEF TypeOK, FindByWallet
  <2> QED BY <1>0, <1>17, <1>22, <2>1, <2>2, <2>3 DEF TypeOK, FindByWallet
<1>26. ASSUME NEW g \in Reader, NEW p \in Phone, NEW a \in Account, FindByPhone(g, p, a)
       PROVE  TypeInv'
  <2>1. during' \in [Reader -> SUBSET (Visibility \cup {None})]
    BY <1>0, <1>26 DEF TypeOK, FindByPhone
  <2>2. /\ gKind' \in [Reader -> {"get", "me", "search", "wallet", "phone"}]
        /\ gAcc' \in [Reader -> Account \cup {None}]
        /\ gAcc'[g] \in Account
        /\ \A h \in Reader : h # g => gAcc'[h] = gAcc[h] /\ gKind'[h] = gKind[h]
    BY <1>0, <1>26 DEF TypeOK, FindByPhone
  <2> QED BY <1>0, <1>17, <1>26, <2>1, <2>2 DEF TypeOK, FindByPhone
<1>27. ASSUME NEW g \in Reader, NEW a \in Account, FindOwn(g, a)
       PROVE  TypeInv'
  <2>1. during' \in [Reader -> SUBSET (Visibility \cup {None})]
    BY <1>0, <1>27 DEF TypeOK, FindOwn
  <2>2. /\ gKind' \in [Reader -> {"get", "me", "search", "wallet", "phone"}]
        /\ gAcc' \in [Reader -> Account \cup {None}]
        /\ gAcc'[g] \in Account /\ gKind'[g] # "wallet"
        /\ \A h \in Reader : h # g => gAcc'[h] = gAcc[h] /\ gKind'[h] = gKind[h]
    BY <1>0, <1>27 DEF TypeOK, FindOwn
  <2> QED BY <1>0, <1>17, <1>27, <2>1, <2>2 DEF TypeOK, FindOwn
<1>23. ASSUME NEW g \in Reader, PreloadAccount(g) PROVE TypeInv'
  <2>1. gAcc[g] \in Account
    BY <1>0, <1>23 DEF LocalsOK, ReadOK, PreloadAccount
  <2> QED BY <1>0, <1>17, <1>23, <2>1 DEF TypeOK, PreloadAccount
<1>24. CASE UNCHANGED vars
  <2>1. TypeOK'
    BY <1>0, <1>24, Zenon DEF TypeOK, vars, rowVars, regVars, verVars, updVars, getVars
  <2> QED
    BY <1>0, <1>24, <2>1, RegistersRest, VerifiesRest, UpdatesRest, ReadersRest
    DEF TypeInv, LocalsOK, vars, rowVars
<1> QED
  BY <1>1, <1>3, <1>4, <1>5, <1>7, <1>8, <1>9, <1>11, <1>12, <1>13, <1>14, <1>16, <1>18,
     <1>19, <1>21, <1>22, <1>23, <1>24, <1>25, <1>26, <1>27, <1>28, Zenon
  DEF Next

\* Every reachable state of the two tables and their handlers is well typed;
\* in particular a profile row is complete, also after an UPDATE that wrote the
\* dirty columns only.
THEOREM TypeCorrect == Spec => []TypeOK
<1>1. Spec => []TypeInv
  BY TypeInit, TypeStep, PTL DEF Spec
<1> QED BY <1>1, PTL DEF TypeInv

-----------------------------------------------------------------------------
\* The steps of each kind of handler, and what they leave alone.
RegisterStep(r) ==
    \/ \E p \in Phone, n \in Name \cup {None} : RegisterCheck(r, p, n)
    \/ \E a \in Account : RegisterInsert(r, a)
    \/ RegisterFails(r)

VerifyStep(v) ==
    \/ \E a \in Account : VerifyFind(v, a)
    \/ VerifySave(v) \/ VerifyToken(v) \/ VerifyFails(v)

UpdateStep(u) ==
    \/ \E a \in Account, b \in Update : UpdateBegin(u, a, b)
    \/ UpdateCheckName(u) \/ UpdateSaveName(u) \/ UpdateReadProfile(u)
    \/ UpdateSaveProfile(u) \/ UpdateAnswer(u) \/ UpdateFails(u)

ReadStep(g) ==
    \/ \E k \in {"get", "search"}, n \in Name, a \in Account : FindByName(g, k, n, a)
    \/ \E w \in Wallet, a \in Account : FindByWallet(g, w, a)
    \/ \E p \in Phone, a \in Account : FindByPhone(g, p, a)
    \/ \E a \in Account : FindOwn(g, a)
    \/ ReadProfile(g) \/ ReadHidden(g) \/ PreloadAccount(g) \/ ReadAnswer(g)

LEMMA StepKinds ==
    ASSUME [Next]_vars
    PROVE  \/ \E r \in Register : RegisterStep(r)
           \/ \E v \in Verify : VerifyStep(v)
           \/ \E u \in Updater : UpdateStep(u)
           \/ \E g \in Reader : ReadStep(g)
           \/ UNCHANGED vars
BY Zenon DEF Next, RegisterStep, VerifyStep, UpdateStep, ReadStep

LEMMA RegisterFrame ==
    ASSUME NEW r \in Register, RegisterStep(r)
    PROVE  UNCHANGED <<verified, profile, tokens, verVars, updVars, getVars>>
BY Zenon DEF RegisterStep, RegisterCheck, RegisterInsert, RegisterFails, rowVars

LEMMA VerifyFrame ==
    ASSUME NEW v \in Verify, VerifyStep(v)
    PROVE  UNCHANGED <<phone, name, profile, regVars, updVars, getVars>>
BY Zenon DEF VerifyStep, VerifyFind, VerifySave, VerifyToken, VerifyFails, rowVars, verVars

LEMMA UpdateFrame ==
    ASSUME NEW u \in Updater, UpdateStep(u)
    PROVE  UNCHANGED <<phone, verified, tokens, regVars, verVars, gPc, gKind, gAcc, shown,
                       detail>>
BY Zenon DEF UpdateStep, UpdateBegin, UpdateCheckName, UpdateSaveName, UpdateReadProfile,
       UpdateSaveProfile, UpdateAnswer, UpdateFails, rowVars, getVars

LEMMA ReadFrame ==
    ASSUME NEW g \in Reader, ReadStep(g)
    PROVE  UNCHANGED <<rowVars, regVars, verVars, updVars>>
BY Zenon DEF ReadStep, FindByName, FindByWallet, FindByPhone, FindOwn, ReadProfile,
             ReadHidden, PreloadAccount, ReadAnswer

-----------------------------------------------------------------------------
\* Rows, tokens and the flag

LEMMA RowInit == Init => RowInv
BY DEF Init, RowInv, Exists

\* A row, once inserted, stays, and so do its flag and its tokens.
LEMMA RowsGrow ==
    ASSUME TypeInv, [Next]_vars
    PROVE  /\ \A a \in Account : (Exists(a) => Exists(a)') /\ (verified[a] => verified'[a])
           /\ tokens \subseteq tokens'
<1>1. ASSUME NEW r \in Register, RegisterStep(r)
      PROVE  \A a \in Account : Exists(a) => Exists(a)'
  <2>1. ASSUME NEW a \in Account, RegisterInsert(r, a)
        PROVE  \A b \in Account : Exists(b) => Exists(b)'
    <3>1. rPhone[r] # None /\ phone' = [phone EXCEPT ![a] = rPhone[r]]
      BY <2>1, NoneAssumption DEF RegisterInsert, TypeInv, LocalsOK, RegisterOK
    <3> QED BY <3>1 DEF Exists, TypeInv, TypeOK
  <2> QED
    BY <1>1, <2>1, Zenon DEF RegisterStep, RegisterCheck, RegisterFails, rowVars, Exists
<1>2. ASSUME NEW v \in Verify, VerifyStep(v)
      PROVE  (\A a \in Account : verified[a] => verified'[a]) /\ tokens \subseteq tokens'
  BY <1>2 DEF VerifyStep, VerifyFind, VerifySave, VerifyToken, VerifyFails, rowVars,
              TypeInv, TypeOK
<1>3. CASE \E r \in Register : RegisterStep(r)
  BY <1>1, <1>3, RegisterFrame
<1>4. CASE \E v \in Verify : VerifyStep(v)
  BY <1>2, <1>4, VerifyFrame DEF Exists
<1>5. CASE \E u \in Updater : UpdateStep(u)
  BY <1>5, UpdateFrame DEF Exists
<1>6. CASE (\E g \in Reader : ReadStep(g)) \/ UNCHANGED vars
  BY <1>6, ReadFrame DEF Exists, vars, rowVars
<1> QED BY <1>3, <1>4, <1>5, <1>6, StepKinds

LEMMA RowStep == TypeInv /\ RowInv /\ [Next]_vars => RowInv'
<1> SUFFICES ASSUME TypeInv, RowInv, [Next]_vars PROVE RowInv'
  OBVIOUS
<1>0. /\ \A a \in Account : (Exists(a) => Exists(a)') /\ (verified[a] => verified'[a])
      /\ tokens \subseteq tokens'
  BY RowsGrow
<1>a. TypeOK /\ LocalsOK
  BY DEF TypeInv
<1>b. ASSUME NEW v \in Verify, vPc'[v] # "idle"
      PROVE  \/ vPc[v] # "idle" /\ vAcc'[v] = vAcc[v]
             \/ vPc'[v] = "save" /\ \E a \in Account : VerifyFind(v, a)
  <2>1. ASSUME NEW w \in Verify, NEW a \in Account, VerifyFind(w, a)
        PROVE  \/ vPc[v] # "idle" /\ vAcc'[v] = vAcc[v]
               \/ vPc'[v] = "save" /\ \E b \in Account : VerifyFind(v, b)
    BY <1>a, <1>b, <2>1 DEF VerifyFind, TypeOK
  <2>2. ASSUME NEW w \in Verify, VerifySave(w) \/ VerifyForget(w)
        PROVE  vPc[v] # "idle" /\ vAcc'[v] = vAcc[v]
    BY <1>a, <1>b, <2>2 DEF VerifySave, VerifyForget, TypeOK
  <2>3. CASE UNCHANGED verVars
    BY <1>b, <2>3 DEF verVars
  <2>4. ASSUME NEW w \in Verify, VerifyStep(w)
        PROVE  \/ vPc[v] # "idle" /\ vAcc'[v] = vAcc[v]
               \/ vPc'[v] = "save" /\ \E a \in Account : VerifyFind(v, a)
    BY <2>1, <2>2, <2>4, Zenon DEF VerifyStep, VerifyToken, VerifyFails
  <2> QED
    BY <2>3, <2>4, StepKinds, RegisterFrame, UpdateFrame, ReadFrame DEF vars
<1>1. ASSUME NEW v \in Verify, vPc'[v] # "idle" PROVE Exists(vAcc[v])'
  <2>1. CASE vPc[v] # "idle" /\ vAcc'[v] = vAcc[v]
    <3>1. vAcc[v] \in Account /\ Exists(vAcc[v])
      BY <1>a, <2>1 DEF LocalsOK, VerifyOK, RowInv
    <3> QED BY <1>0, <2>1, <3>1 DEF Exists
  <2>2. ASSUME NEW a \in Account, VerifyFind(v, a) PROVE Exists(vAcc[v])'
    <3>1. Exists(a) /\ vAcc'[v] = a
      BY <1>a, <2>2 DEF VerifyFind, TypeOK
    <3> QED BY <1>0, <3>1 DEF Exists
  <2> QED BY <1>1, <1>b, <2>1, <2>2
<1>6. ASSUME NEW v \in Verify, vPc'[v] = "token" PROVE verified'[vAcc'[v]]
  <2>1. vPc[v] # "idle" /\ vAcc'[v] = vAcc[v] /\ vAcc[v] \in Account
    BY <1>6, <1>a, <1>b DEF LocalsOK, VerifyOK
  <2>2. CASE vPc[v] = "token"
    BY <1>0, <2>1, <2>2 DEF RowInv
  <2>3. CASE vPc[v] # "token"
    <3>1. ASSUME NEW w \in Verify, VerifyStep(w) PROVE VerifySave(v)
      BY <1>6, <1>a, <2>3, <3>1
      DEF VerifyStep, VerifyFind, VerifySave, VerifyToken, VerifyFails, VerifyForget, TypeOK
    <3>2. ~UNCHANGED verVars
      BY <1>6, <2>3 DEF verVars
    <3>3. VerifySave(v)
      BY <3>1, <3>2, StepKinds, RegisterFrame, UpdateFrame, ReadFrame DEF vars
    <3> QED BY <1>a, <2>1, <3>3 DEF VerifySave, TypeOK
  <2> QED BY <2>2, <2>3
<1>2. ASSUME NEW a \in tokens' PROVE (Exists(a) /\ verified[a])'
  <2>1. a \in tokens \/ \E v \in Verify : VerifyToken(v) /\ a = vAcc[v]
    <3>1. ASSUME NEW v \in Verify, VerifyStep(v)
          PROVE  a \in tokens \/ (VerifyToken(v) /\ a = vAcc[v])
      BY <1>2, <3>1 DEF VerifyStep, VerifyFind, VerifySave, VerifyToken, VerifyFails, rowVars
    <3>2. CASE UNCHANGED tokens
      BY <1>2, <3>2
    <3> QED
      BY <3>1, <3>2, StepKinds, RegisterFrame, UpdateFrame, ReadFrame DEF vars, rowVars
  <2>2. CASE a \in tokens
    <3>1. a \in Account /\ Exists(a) /\ verified[a]
      BY <1>a, <2>2 DEF TypeOK, RowInv
    <3> QED BY <1>0, <3>1
  <2>3. ASSUME NEW v \in Verify, VerifyToken(v), a = vAcc[v]
        PROVE  (Exists(a) /\ verified[a])'
    <3>1. a \in Account /\ Exists(a) /\ verified[a]
      BY <1>a, <2>3 DEF LocalsOK, VerifyOK, RowInv, VerifyToken
    <3> QED BY <1>0, <3>1
  <2> QED BY <2>1, <2>2, <2>3
<1>3. ASSUME NEW a \in Account, profile'[a] # None PROVE a \in tokens'
  <2>1. profile[a] # None \/ \E u \in Updater : uPc[u] # "idle" /\ a = uAcc[u]
    <3>1. ASSUME NEW u \in Updater, UpdateSaveProfile(u)
          PROVE  profile[a] # None \/ (uPc[u] # "idle" /\ a = uAcc[u])
      BY <1>3, <1>a, <3>1 DEF UpdateSaveProfile, TypeOK
    <3>2. CASE UNCHANGED profile
      BY <1>3, <3>2
    <3>3. ASSUME NEW u \in Updater, UpdateStep(u)
          PROVE  UNCHANGED profile \/ UpdateSaveProfile(u)
      BY <3>3, Zenon
      DEF UpdateStep, UpdateBegin, UpdateCheckName, UpdateSaveName, UpdateReadProfile,
          UpdateAnswer, UpdateFails, rowVars
    <3> QED
      BY <3>1, <3>2, <3>3, StepKinds, RegisterFrame, VerifyFrame, ReadFrame
      DEF vars, rowVars
  <2> QED BY <1>0, <2>1 DEF RowInv
<1>4. ASSUME NEW u \in Updater, uPc'[u] # "idle" PROVE uAcc'[u] \in tokens'
  <2>1. \/ uPc[u] # "idle" /\ uAcc'[u] = uAcc[u]
        \/ \E a \in tokens : uAcc'[u] = a
    <3>1. ASSUME NEW v \in Updater, NEW a \in Account, NEW b \in Update, UpdateBegin(v, a, b)
          PROVE  (uPc[u] # "idle" /\ uAcc'[u] = uAcc[u]) \/ \E c \in tokens : uAcc'[u] = c
      BY <1>4, <1>a, <3>1 DEF UpdateBegin, Admitted, TypeOK
    <3>2. ASSUME NEW v \in Updater, UpdateAnswer(v) \/ UpdateFails(v)
          PROVE  uPc[u] # "idle" /\ uAcc'[u] = uAcc[u]
      BY <1>4, <1>a, <3>2 DEF UpdateAnswer, UpdateFails, UpdateForget, TypeOK
    <3>3. ASSUME NEW v \in Updater,
                 UpdateCheckName(v) \/ UpdateSaveName(v) \/ UpdateReadProfile(v)
                 \/ UpdateSaveProfile(v)
          PROVE  uPc[u] # "idle" /\ uAcc'[u] = uAcc[u]
      BY <1>4, <1>a, <3>3
      DEF UpdateCheckName, UpdateSaveName, UpdateReadProfile, UpdateSaveProfile, TypeOK
    <3>4. CASE UNCHANGED updVars
      BY <1>4, <3>4 DEF updVars
    <3>5. ASSUME NEW v \in Updater, UpdateStep(v)
          PROVE  (uPc[u] # "idle" /\ uAcc'[u] = uAcc[u]) \/ \E a \in tokens : uAcc'[u] = a
      BY <3>1, <3>2, <3>3, <3>5, Zenon DEF UpdateStep
    <3> QED
      BY <3>4, <3>5, StepKinds, RegisterFrame, VerifyFrame, ReadFrame DEF vars
  <2> QED BY <1>0, <2>1 DEF RowInv
<1>5. ASSUME NEW g \in Reader, gPc'[g] # "idle" PROVE verified'[gAcc'[g]]
  <2>1. \/ gPc[g] # "idle" /\ gAcc'[g] = gAcc[g]
        \/ gAcc'[g] \in Account /\ verified[gAcc'[g]]
    <3>1. ASSUME NEW h \in Reader, NEW k, NEW n \in Name, NEW a \in Account,
                 FindByName(h, k, n, a)
          PROVE  (gPc[g] # "idle" /\ gAcc'[g] = gAcc[g])
                 \/ (gAcc'[g] \in Account /\ verified[gAcc'[g]])
      BY <1>5, <1>a, <3>1 DEF FindByName, Matches, TypeOK
    <3>2. ASSUME NEW h \in Reader, NEW w \in Wallet, NEW a \in Account, FindByWallet(h, w, a)
          PROVE  (gPc[g] # "idle" /\ gAcc'[g] = gAcc[g])
                 \/ (gAcc'[g] \in Account /\ verified[gAcc'[g]])
      <4>1. profile[a] # None
        BY <3>2, NoneAssumption DEF FindByWallet, Vis, Visibility
      <4>2. verified[a]
        BY <4>1 DEF RowInv
      <4> QED BY <1>5, <1>a, <3>2, <4>2 DEF FindByWallet, TypeOK
    <3>6. ASSUME NEW h \in Reader, NEW p \in Phone, NEW a \in Account, FindByPhone(h, p, a)
          PROVE  (gPc[g] # "idle" /\ gAcc'[g] = gAcc[g])
                 \/ (gAcc'[g] \in Account /\ verified[gAcc'[g]])
      BY <1>5, <1>a, <3>6 DEF FindByPhone, TypeOK
    <3>7. ASSUME NEW h \in Reader, NEW a \in Account, FindOwn(h, a)
          PROVE  (gPc[g] # "idle" /\ gAcc'[g] = gAcc[g])
                 \/ (gAcc'[g] \in Account /\ verified[gAcc'[g]])
      <4>1. verified[a]
        BY <3>7 DEF FindOwn, Admitted, RowInv
      <4> QED BY <1>5, <1>a, <3>7, <4>1 DEF FindOwn, TypeOK
    <3>3. ASSUME NEW h \in Reader,
                 ReadProfile(h) \/ PreloadAccount(h) \/ ReadEnd(h)
          PROVE  gPc[g] # "idle" /\ gAcc'[g] = gAcc[g]
      BY <1>5, <1>a, <3>3 DEF ReadProfile, PreloadAccount, ReadEnd, TypeOK
    <3>4. CASE UNCHANGED <<gPc, gAcc>>
      BY <1>5, <3>4
    <3>5. ASSUME NEW h \in Reader, ReadStep(h)
          PROVE  (gPc[g] # "idle" /\ gAcc'[g] = gAcc[g])
                 \/ (gAcc'[g] \in Account /\ verified[gAcc'[g]])
      BY <3>1, <3>2, <3>3, <3>5, <3>6, <3>7, Zenon DEF ReadStep, ReadHidden, ReadAnswer
    <3> QED
      BY <3>4, <3>5, StepKinds, RegisterFrame, VerifyFrame, UpdateFrame DEF vars, getVars
  <2>2. CASE gPc[g] # "idle" /\ gAcc'[g] = gAcc[g]
    BY <1>0, <1>a, <2>2 DEF RowInv, LocalsOK, ReadOK
  <2> QED BY <1>0, <2>1, <2>2
<1> QED BY <1>1, <1>2, <1>3, <1>4, <1>5, <1>6 DEF RowInv

\* No search answers with an account that is not verified, for any handlers and
\* any order of registrations, verifications and updates.
THEOREM FoundVerified == Spec => []FoundAreVerified
<1>1. Spec => [](TypeInv /\ RowInv)
  BY TypeInit, RowInit, TypeStep, RowStep, PTL DEF Spec
<1>2. RowInv => FoundAreVerified
  BY DEF RowInv, FoundAreVerified
<1> QED BY <1>1, <1>2, PTL

-----------------------------------------------------------------------------
\* What concurrent updates do to each other's fields

\* An UPDATE leaves the columns that were not sent as they are.
LEMMA SavedKeeps ==
    ASSUME NEW row, NEW old, NEW b, old # None, NEW c \in Column, c \notin DOMAIN b
    PROVE  Saved(row, old, b)[c] = row[c]
BY DEF Saved, Assign, Dirty

\* A sent column is stored, also when it is not dirty, provided the row still
\* is as the copy was.
LEMMA SavedSets ==
    ASSUME NEW row, NEW old, NEW b, NEW c \in Column \cap DOMAIN b,
           old # None => row[c] = old[c]
    PROVE  Saved(row, old, b)[c] = b[c]
BY DEF Saved, Assign, Dirty

LEMMA FieldInit == Init => FieldInv
BY DEF Init, FieldInv, RivalsKnown, NameKnown, CopyKnown, SavedKnown, NoBody

\* A registration does not touch the username of an account with a token.
LEMMA RegisterLeavesNames ==
    ASSUME TypeInv, RowInv, NEW r \in Register, RegisterStep(r)
    PROVE  \A a \in tokens : name'[a] = name[a]
<1>1. ASSUME NEW a \in Account, RegisterInsert(r, a)
      PROVE  \A b \in tokens : name'[b] = name[b]
  BY <1>1 DEF RegisterInsert, RowInv, TypeInv, TypeOK
<1> QED
  BY <1>1, Zenon DEF RegisterStep, RegisterCheck, RegisterFails, rowVars

LEMMA FieldStep == TypeInv /\ RowInv /\ FieldInv /\ [Next]_vars => FieldInv'
<1> SUFFICES ASSUME TypeInv, RowInv, FieldInv, [Next]_vars PROVE FieldInv'
  OBVIOUS
<1>a. TypeOK /\ LocalsOK
  BY DEF TypeInv
<1>b. \A u \in Updater : uPc[u] # "idle" =>
          /\ uAcc[u] \in Account /\ uAcc[u] \in tokens /\ body[u] \in Update
          /\ uPc[u] \in {"check", "name"} => "name" \in DOMAIN body[u]
          /\ uPc[u] = "save" /\ copy[u] # None => profile[uAcc[u]] # None
  BY <1>a DEF LocalsOK, UpdateOK, RowInv
<1>1. \* No update takes a step.
      ASSUME UNCHANGED <<updVars, profile>>,
             \A a \in tokens : name'[a] = name[a]
      PROVE  FieldInv'
  <2>1. RivalsKnown' /\ CopyKnown' /\ SavedKnown'
    BY <1>1, Zenon DEF FieldInv, RivalsKnown, CopyKnown, SavedKnown, updVars
  <2>2. NameKnown'
    <3>1. SUFFICES ASSUME NEW u \in Updater, "name" \in DOMAIN body[u] \ rivals[u],
                          uPc[u] # "idle"
                   PROVE  /\ uPc[u] \in {"check", "name"} => name'[uAcc[u]] = oldName[u]
                          /\ uPc[u] \in {"profile", "save", "answer"}
                                => name'[uAcc[u]] = body[u].name
      BY <1>1 DEF NameKnown, updVars
    <3>2. name'[uAcc[u]] = name[uAcc[u]]
      BY <1>1, <1>b, <3>1
    <3> QED BY <3>1, <3>2 DEF FieldInv, NameKnown
  <2> QED BY <2>1, <2>2 DEF FieldInv
<1>2. ASSUME NEW u \in Updater, NEW a \in Account, NEW b \in Update, UpdateBegin(u, a, b)
      PROVE  FieldInv'
  <2>1. /\ uPc' = [uPc EXCEPT ![u] = IF "name" \in DOMAIN b THEN "check" ELSE "profile"]
        /\ uAcc' = [uAcc EXCEPT ![u] = a]
        /\ body' = [body EXCEPT ![u] = b]
        /\ oldName' = [oldName EXCEPT ![u] = name[a]]
        /\ UNCHANGED <<name, profile, copy>>
        /\ uPc[u] = "idle"
    BY <1>2 DEF UpdateBegin, rowVars
  <2>2. /\ uAcc'[u] = a /\ body'[u] = b /\ oldName'[u] = name[a]
        /\ uPc'[u] = IF "name" \in DOMAIN b THEN "check" ELSE "profile"
        /\ \A v \in Updater : v # u => /\ uPc'[v] = uPc[v] /\ uAcc'[v] = uAcc[v]
                                       /\ body'[v] = body[v] /\ oldName'[v] = oldName[v]
    BY <1>a, <2>1 DEF TypeOK
  <2>3. \A v \in Updater : v # u => rivals[v] \subseteq rivals'[v]
    BY <1>2 DEF UpdateBegin
  <2>4. \A v \in Updater : v # u /\ uPc[v] # "idle" /\ uAcc[v] = a =>
            DOMAIN body[v] \subseteq rivals'[u] /\ DOMAIN b \subseteq rivals'[v]
    BY <1>2 DEF UpdateBegin, Rivals
  <2>5. RivalsKnown'
    <3>1. SUFFICES ASSUME NEW v \in Updater, NEW w \in Updater, v # w, uPc'[v] # "idle",
                          uPc'[w] # "idle", uAcc'[v] = uAcc'[w]
                   PROVE  DOMAIN body'[w] \subseteq rivals'[v]
      BY DEF RivalsKnown
    <3>2. CASE v # u /\ w # u
      <4>1. DOMAIN body[w] \subseteq rivals[v]
        BY <2>2, <3>1, <3>2 DEF FieldInv, RivalsKnown
      <4> QED BY <2>2, <2>3, <3>2, <4>1
    <3>3. CASE v = u
      BY <2>2, <2>4, <3>1, <3>3
    <3>4. CASE w = u
      BY <2>2, <2>4, <3>1, <3>4
    <3> QED BY <3>2, <3>3, <3>4
  <2>6. NameKnown'
    <3>1. SUFFICES ASSUME NEW v \in Updater, "name" \in DOMAIN body'[v] \ rivals'[v]
                   PROVE  /\ uPc'[v] \in {"check", "name"} => name[uAcc'[v]] = oldName'[v]
                          /\ uPc'[v] \in {"profile", "save", "answer"}
                                => name[uAcc'[v]] = body'[v].name
      BY <2>1 DEF NameKnown
    <3>2. CASE v = u
      BY <2>2, <3>1, <3>2
    <3>3. CASE v # u
      BY <2>2, <2>3, <3>1, <3>3 DEF FieldInv, NameKnown
    <3> QED BY <3>2, <3>3
  <2>7. CopyKnown'
    BY <2>1, <2>2, <2>3 DEF FieldInv, CopyKnown
  <2>8. SavedKnown'
    BY <2>1, <2>2, <2>3 DEF FieldInv, SavedKnown
  <2> QED BY <2>5, <2>6, <2>7, <2>8 DEF FieldInv
<1>3. \* A step of an update that keeps what it was sent and knows its rivals.
      ASSUME NEW u \in Updater, uPc[u] # "idle",
             UNCHANGED <<uAcc, body, oldName, rivals>>,
             uPc' = [uPc EXCEPT ![u] = uPc'[u]]
      PROVE  /\ \A v \in Updater : v # u => uPc'[v] = uPc[v]
             /\ RivalsKnown'
             /\ \A v \in Updater :
                   v # u /\ uPc[v] # "idle" /\ uAcc[v] = uAcc[u]
                       => DOMAIN body[u] \subseteq rivals[v]
  <2>1. \A v \in Updater : v # u => uPc'[v] = uPc[v]
    BY <1>3, <1>a DEF TypeOK
  <2>2. RivalsKnown'
    <3>1. SUFFICES ASSUME NEW v \in Updater, NEW w \in Updater, v # w, uPc'[v] # "idle",
                          uPc'[w] # "idle", uAcc[v] = uAcc[w]
                   PROVE  DOMAIN body[w] \subseteq rivals[v]
      BY <1>3, Zenon DEF RivalsKnown
    <3>2. uPc[v] # "idle" /\ uPc[w] # "idle"
      BY <1>3, <2>1, <3>1
    <3> QED BY <3>1, <3>2 DEF FieldInv, RivalsKnown
  <2> QED BY <1>3, <2>1, <2>2 DEF FieldInv, RivalsKnown
<1>4. ASSUME NEW u \in Updater, UpdateCheckName(u) PROVE FieldInv'
  <2>1. /\ uPc[u] = "check" /\ uPc' = [uPc EXCEPT ![u] = "name"]
        /\ UNCHANGED <<name, profile, uAcc, body, oldName, copy, rivals>>
    BY <1>4 DEF UpdateCheckName, rowVars
  <2>2. uPc'[u] = "name" /\ RivalsKnown' /\ \A v \in Updater : v # u => uPc'[v] = uPc[v]
    BY <1>3, <1>a, <2>1 DEF TypeOK
  <2>3. NameKnown'
    BY <2>1, <2>2 DEF FieldInv, NameKnown
  <2>4. CopyKnown' /\ SavedKnown'
    BY <2>1, <2>2 DEF FieldInv, CopyKnown, SavedKnown
  <2> QED BY <2>2, <2>3, <2>4 DEF FieldInv
<1>5. ASSUME NEW u \in Updater, UpdateSaveName(u) PROVE FieldInv'
  <2> DEFINE a == uAcc[u]
             n == body[u].name
  <2>1. /\ uPc[u] = "name" /\ uPc' = [uPc EXCEPT ![u] = "profile"]
        /\ name' = [name EXCEPT ![a] = IF n = oldName[u] THEN @ ELSE n]
        /\ UNCHANGED <<profile, uAcc, body, oldName, copy, rivals>>
    BY <1>5 DEF UpdateSaveName
  <2>2. a \in Account /\ "name" \in DOMAIN body[u]
    BY <1>b, <2>1
  <2>3. /\ uPc'[u] = "profile" /\ RivalsKnown'
        /\ \A v \in Updater : v # u => uPc'[v] = uPc[v]
        /\ \A v \in Updater : v # u /\ uPc[v] # "idle" /\ uAcc[v] = a
              => DOMAIN body[u] \subseteq rivals[v]
    BY <1>3, <1>a, <2>1 DEF TypeOK
  <2> HIDE DEF a, n
  <2>4. /\ name'[a] = IF n = oldName[u] THEN name[a] ELSE n
        /\ \A c \in Account : c # a => name'[c] = name[c]
    BY <1>a, <2>1, <2>2 DEF TypeOK
  <2>5. NameKnown'
    <3>1. SUFFICES ASSUME NEW v \in Updater, "name" \in DOMAIN body[v] \ rivals[v],
                          uPc'[v] # "idle"
                   PROVE  /\ uPc'[v] \in {"check", "name"} => name'[uAcc[v]] = oldName[v]
                          /\ uPc'[v] \in {"profile", "save", "answer"}
                                => name'[uAcc[v]] = body[v].name
      BY <2>1 DEF NameKnown
    <3>2. CASE v = u
      BY <2>1, <2>3, <2>4, <3>1, <3>2 DEF FieldInv, NameKnown, a, n
    <3>3. CASE v # u
      <4>1. uPc'[v] = uPc[v] /\ uAcc[v] \in Account /\ uAcc[v] # a
        BY <1>b, <2>2, <2>3, <3>1, <3>3
      <4>2. name'[uAcc[v]] = name[uAcc[v]]
        BY <2>4, <4>1
      <4> QED BY <3>1, <4>1, <4>2 DEF FieldInv, NameKnown
    <3> QED BY <3>2, <3>3
  <2>6. CopyKnown' /\ SavedKnown'
    BY <2>1, <2>3 DEF FieldInv, CopyKnown, SavedKnown
  <2> QED BY <2>3, <2>5, <2>6 DEF FieldInv
<1>6. ASSUME NEW u \in Updater, UpdateReadProfile(u) PROVE FieldInv'
  <2>1. /\ uPc[u] = "profile" /\ uPc' = [uPc EXCEPT ![u] = "save"]
        /\ copy' = [copy EXCEPT ![u] = profile[uAcc[u]]]
        /\ UNCHANGED <<name, profile, uAcc, body, oldName, rivals>>
    BY <1>6 DEF UpdateReadProfile, rowVars
  <2>2. uPc'[u] = "save" /\ RivalsKnown' /\ \A v \in Updater : v # u => uPc'[v] = uPc[v]
    BY <1>3, <1>a, <2>1 DEF TypeOK
  <2>3. copy'[u] = profile[uAcc[u]] /\ \A v \in Updater : v # u => copy'[v] = copy[v]
    BY <1>a, <2>1 DEF TypeOK
  <2>4. NameKnown'
    BY <2>1, <2>2 DEF FieldInv, NameKnown
  <2>5. CopyKnown'
    BY <2>1, <2>2, <2>3 DEF FieldInv, CopyKnown
  <2>6. SavedKnown'
    BY <2>1, <2>2 DEF FieldInv, SavedKnown
  <2> QED BY <2>2, <2>4, <2>5, <2>6 DEF FieldInv
<1>7. ASSUME NEW u \in Updater, UpdateSaveProfile(u) PROVE FieldInv'
  <2> DEFINE a == uAcc[u]
             new == Saved(profile[a], copy[u], body[u])
  <2>1. /\ uPc[u] = "save" /\ uPc' = [uPc EXCEPT ![u] = "answer"]
        /\ copy[u] = None => profile[a] = None
        /\ profile' = [profile EXCEPT ![a] = new]
        /\ UNCHANGED <<name, uAcc, body, oldName, copy, rivals>>
    BY <1>7 DEF UpdateSaveProfile
  <2>2. a \in Account /\ body[u] \in Update /\ (copy[u] # None => profile[a] # None)
    BY <1>b, <2>1
  <2>3. new \in Profile /\ new # None
    BY <1>a, <2>2, SavedType, NoProfile DEF TypeOK
  <2>4. /\ uPc'[u] = "answer" /\ RivalsKnown'
        /\ \A v \in Updater : v # u => uPc'[v] = uPc[v]
        /\ \A v \in Updater : v # u /\ uPc[v] # "idle" /\ uAcc[v] = a
              => DOMAIN body[u] \subseteq rivals[v]
    BY <1>3, <1>a, <2>1 DEF TypeOK
  <2>5. \* What another update of the account does not know to be sent stays.
        \A c \in Column : profile[a] # None /\ c \notin DOMAIN body[u]
            => new[c] = profile[a][c]
    BY <2>1, SavedKeeps
  <2>6. \* What was sent and no rival sent is stored.
        \A c \in (Column \cap DOMAIN body[u]) \ rivals[u] : new[c] = body[u][c]
    BY <2>1, SavedSets DEF FieldInv, CopyKnown
  <2> HIDE DEF a, new
  <2>7. profile'[a] = new /\ \A b \in Account : b # a => profile'[b] = profile[b]
    BY <1>a, <2>1, <2>2 DEF TypeOK
  <2>8. NameKnown'
    BY <2>1, <2>4 DEF FieldInv, NameKnown
  <2>9. CopyKnown'
    <3>1. SUFFICES ASSUME NEW v \in Updater, uPc'[v] = "save", copy[v] # None,
                          NEW c \in Column \ rivals[v]
                   PROVE  profile'[uAcc[v]][c] = copy[v][c]
      BY <2>1 DEF CopyKnown
    <3>2. /\ v # u /\ uPc[v] = "save" /\ uAcc[v] \in Account /\ profile[uAcc[v]] # None
          /\ profile[uAcc[v]][c] = copy[v][c]
      BY <1>b, <2>4, <3>1 DEF FieldInv, CopyKnown
    <3>3. CASE uAcc[v] = a
      BY <2>4, <2>5, <2>7, <3>1, <3>2, <3>3
    <3>4. CASE uAcc[v] # a
      BY <2>7, <3>2, <3>4
    <3> QED BY <3>3, <3>4
  <2>10. SavedKnown'
    <3>1. SUFFICES ASSUME NEW v \in Updater, uPc'[v] = "answer"
                   PROVE  /\ profile'[uAcc[v]] # None
                          /\ \A c \in (Column \cap DOMAIN body[v]) \ rivals[v] :
                                profile'[uAcc[v]][c] = body[v][c]
      BY <2>1 DEF SavedKnown
    <3>2. CASE v = u
      BY <2>3, <2>6, <2>7, <3>2 DEF a
    <3>3. CASE v # u
      <4>1. /\ uPc[v] = "answer" /\ uAcc[v] \in Account /\ profile[uAcc[v]] # None
            /\ \A c \in (Column \cap DOMAIN body[v]) \ rivals[v] :
                  profile[uAcc[v]][c] = body[v][c]
        BY <1>b, <2>4, <3>1, <3>3 DEF FieldInv, SavedKnown
      <4>2. CASE uAcc[v] = a
        BY <2>3, <2>4, <2>5, <2>7, <3>3, <4>1, <4>2
      <4>3. CASE uAcc[v] # a
        BY <2>7, <4>1, <4>3
      <4> QED BY <4>2, <4>3
    <3> QED BY <3>2, <3>3
  <2> QED BY <2>4, <2>8, <2>9, <2>10 DEF FieldInv
<1>8. ASSUME NEW u \in Updater, UpdateAnswer(u) \/ UpdateFails(u) PROVE FieldInv'
  <2>1. UpdateForget(u) /\ UNCHANGED <<name, profile>>
    BY <1>8 DEF UpdateAnswer, UpdateFails, rowVars
  <2>2. /\ uPc'[u] = "idle" /\ body'[u] = NoBody
        /\ \A v \in Updater : v # u =>
              /\ uPc'[v] = uPc[v] /\ uAcc'[v] = uAcc[v] /\ body'[v] = body[v]
              /\ oldName'[v] = oldName[v] /\ copy'[v] = copy[v] /\ rivals'[v] = rivals[v]
    BY <1>a, <2>1 DEF UpdateForget, TypeOK
  <2>3. RivalsKnown' /\ NameKnown'
    BY <2>1, <2>2 DEF FieldInv, RivalsKnown, NameKnown, NoBody
  <2>4. CopyKnown' /\ SavedKnown'
    BY <2>1, <2>2 DEF FieldInv, CopyKnown, SavedKnown
  <2> QED BY <2>3, <2>4 DEF FieldInv
<1>9. CASE \E r \in Register : RegisterStep(r)
  BY <1>1, <1>9, RegisterFrame, RegisterLeavesNames
<1>10. CASE (\E v \in Verify : VerifyStep(v)) \/ (\E g \in Reader : ReadStep(g))
            \/ UNCHANGED vars
  BY <1>1, <1>10, VerifyFrame, ReadFrame, Zenon DEF vars, rowVars
<1>11. CASE \E u \in Updater : UpdateStep(u)
  BY <1>2, <1>4, <1>5, <1>6, <1>7, <1>8, <1>11, Zenon DEF UpdateStep
<1> QED BY <1>9, <1>10, <1>11, StepKinds

\* An update that is about to answer has every field it sent stored, unless a
\* concurrent update of the account sent it too: for any number of updates.
THEOREM FieldsStay == Spec => []SentFieldsStored
<1>1. Spec => [](TypeInv /\ RowInv /\ FieldInv)
  BY TypeInit, RowInit, FieldInit, TypeStep, RowStep, FieldStep, PTL DEF Spec
<1>2. TypeInv /\ FieldInv => SentFieldsStored
  <2>1. SUFFICES ASSUME TypeInv, FieldInv, NEW u \in Updater, uPc[u] = "answer",
                        NEW f \in DOMAIN body[u] \ rivals[u]
                 PROVE  Held(uAcc[u], f) = body[u][f]
    BY DEF SentFieldsStored
  <2>2. f \in Column \cup {"name"}
    BY <2>1, UpdateAssumption DEF TypeInv, LocalsOK, UpdateOK, Field
  <2>3. CASE f = "name"
    BY <2>1, <2>3 DEF FieldInv, NameKnown, Held
  <2>4. CASE f # "name"
    BY <2>1, <2>2, <2>4 DEF FieldInv, SavedKnown, Held
  <2> QED BY <2>3, <2>4
<1> QED BY <1>1, <1>2, PTL

-----------------------------------------------------------------------------
\* What a reader may show

LEMMA RelyInit == Init => RelyInv
BY DEF Init, RelyInv

LEMMA RelyStep == TypeInv /\ FieldInv /\ RelyInv /\ [Next]_vars => RelyInv'
<1> SUFFICES ASSUME TypeInv, FieldInv, RelyInv, [Next]_vars PROVE RelyInv'
  OBVIOUS
<1>a. TypeOK /\ LocalsOK
  BY DEF TypeInv
<1>1. ASSUME UNCHANGED <<profile, updVars>> PROVE RelyInv'
  BY <1>1, Zenon DEF RelyInv, updVars
<1>2. ASSUME NEW u \in Updater, NEW a \in Account, NEW b \in Update, UpdateBegin(u, a, b)
      PROVE  RelyInv'
  <2>1. /\ UNCHANGED profile
        /\ relied'[a] = IF "vis" \in DOMAIN b THEN None ELSE relied[a]
        /\ \A c \in Account : c # a => relied'[c] = relied[c]
    BY <1>2, <1>a DEF UpdateBegin, Rely, rowVars, TypeOK
  <2>2. /\ uAcc'[u] = a /\ body'[u] = b
        /\ \A v \in Updater : v # u => /\ uPc'[v] = uPc[v] /\ uAcc'[v] = uAcc[v]
                                       /\ body'[v] = body[v]
    BY <1>2, <1>a DEF UpdateBegin, TypeOK
  <2> QED BY <2>1, <2>2 DEF RelyInv
<1>3. \* An update of other fields, or of an account nothing is relied on.
      ASSUME NEW u \in Updater, uPc[u] # "idle", UNCHANGED <<uAcc, body, relied>>,
             \A v \in Updater : v # u => uPc'[v] = uPc[v],
             \A a \in Account : relied[a] # None =>
                 profile'[a] # None /\ profile'[a].vis = profile[a].vis
      PROVE  RelyInv'
  BY <1>3 DEF RelyInv
<1>4. ASSUME NEW u \in Updater,
             UpdateCheckName(u) \/ UpdateSaveName(u) \/ UpdateReadProfile(u)
      PROVE  RelyInv'
  <2>1. /\ uPc[u] # "idle" /\ UNCHANGED <<uAcc, body, relied, profile>>
        /\ \A v \in Updater : v # u => uPc'[v] = uPc[v]
    BY <1>4, <1>a
    DEF UpdateCheckName, UpdateSaveName, UpdateReadProfile, rowVars, TypeOK
  <2> QED BY <1>3, <2>1 DEF RelyInv
<1>5. ASSUME NEW u \in Updater, UpdateSaveProfile(u) PROVE RelyInv'
  <2> DEFINE a == uAcc[u]
  <2>1. /\ uPc[u] = "save" /\ UNCHANGED <<uAcc, body, relied>>
        /\ copy[u] = None => profile[a] = None
        /\ profile' = [profile EXCEPT ![a] = Saved(profile[a], copy[u], body[u])]
        /\ \A v \in Updater : v # u => uPc'[v] = uPc[v]
    BY <1>5, <1>a DEF UpdateSaveProfile, TypeOK
  <2>2. a \in Account /\ body[u] \in Update /\ (copy[u] # None => profile[a] # None)
    BY <1>a, <2>1 DEF LocalsOK, UpdateOK
  <2>3. Saved(profile[a], copy[u], body[u]) # None
    BY <1>a, <2>2, SavedType, NoProfile DEF TypeOK
  <2>4. relied[a] # None =>
            Saved(profile[a], copy[u], body[u])["vis"] = profile[a]["vis"]
    <3>1. SUFFICES ASSUME relied[a] # None
                   PROVE  Saved(profile[a], copy[u], body[u])["vis"] = profile[a]["vis"]
      OBVIOUS
    <3>2. profile[a] # None /\ "vis" \notin DOMAIN body[u]
      BY <2>1, <2>2, <3>1 DEF RelyInv
    <3> QED BY <2>1, <3>2, SavedKeeps DEF Column
  <2>5. \A c \in Account : relied[c] # None =>
            profile'[c] # None /\ profile'[c].vis = profile[c].vis
    BY <1>a, <2>1, <2>2, <2>3, <2>4 DEF RelyInv, TypeOK
  <2> HIDE DEF a
  <2> QED BY <1>3, <2>1, <2>5
<1>6. ASSUME NEW u \in Updater, UpdateForget(u), UNCHANGED profile
      PROVE  /\ uPc'[u] = "idle"
             /\ \A v \in Updater : v # u => /\ uPc'[v] = uPc[v] /\ uAcc'[v] = uAcc[v]
                                            /\ body'[v] = body[v]
  BY <1>6, <1>a DEF UpdateForget, TypeOK
<1>7. ASSUME NEW u \in Updater, UpdateFails(u) PROVE RelyInv'
  BY <1>6, <1>7 DEF UpdateFails, rowVars, RelyInv
<1>8. ASSUME NEW u \in Updater, UpdateAnswer(u) PROVE RelyInv'
  <2> DEFINE a == uAcc[u]
  <2>1. /\ uPc[u] = "answer" /\ UNCHANGED profile
        /\ uPc'[u] = "idle"
        /\ \A v \in Updater : v # u => /\ uPc'[v] = uPc[v] /\ uAcc'[v] = uAcc[v]
                                       /\ body'[v] = body[v]
    BY <1>6, <1>8 DEF UpdateAnswer, rowVars
  <2>2. a \in Account
    BY <1>a, <2>1 DEF LocalsOK, UpdateOK
  <2>3. /\ \A c \in Account : c # a => relied'[c] = relied[c]
        /\ relied'[a] = IF "vis" \in DOMAIN body[u] \ rivals[u] THEN body[u].vis
                        ELSE relied[a]
    BY <1>8, <1>a, <2>2 DEF UpdateAnswer, Rely, TypeOK
  <2>4. "vis" \in DOMAIN body[u] \ rivals[u] =>
            /\ profile[a] # None /\ profile[a].vis = body[u].vis
            /\ \A v \in Updater : v # u /\ uPc[v] # "idle" /\ uAcc[v] = a =>
                  "vis" \notin DOMAIN body[v]
    BY <2>1 DEF FieldInv, SavedKnown, RivalsKnown, Column
  <2> HIDE DEF a
  <2> QED BY <2>1, <2>3, <2>4 DEF RelyInv
<1>9. CASE \E u \in Updater : UpdateStep(u)
  BY <1>2, <1>4, <1>5, <1>7, <1>8, <1>9, Zenon DEF UpdateStep
<1>10. CASE (\E r \in Register : RegisterStep(r)) \/ (\E v \in Verify : VerifyStep(v))
            \/ (\E g \in Reader : ReadStep(g)) \/ UNCHANGED vars
  BY <1>1, <1>10, RegisterFrame, VerifyFrame, ReadFrame, Zenon DEF vars, rowVars
<1> QED BY <1>9, <1>10, StepKinds

LEMMA SeenInit == Init => SeenInv
BY DEF Init, SeenInv, Shows

LEMMA SeenStep == TypeInv /\ RelyInv /\ SeenInv /\ [Next]_vars => SeenInv'
<1> SUFFICES ASSUME TypeInv, RelyInv, SeenInv, [Next]_vars PROVE SeenInv'
  OBVIOUS
<1>a. TypeOK /\ LocalsOK
  BY DEF TypeInv
<1>b. \A a \in Account : relied[a] # None => Vis(profile[a]) = relied[a]
  BY DEF RelyInv, Vis
<1>1. ASSUME UNCHANGED <<relied, getVars>> PROVE SeenInv'
  BY <1>1, Zenon DEF SeenInv, Shows, getVars
<1>2. ASSUME NEW a \in Account, NEW x, Rely(a, x), UNCHANGED <<gPc, gKind, gAcc, shown>>
      PROVE  SeenInv'
  <2>1. \A g \in Reader : during[g] \subseteq during'[g]
    BY <1>2 DEF Rely
  <2>2. \A g \in Reader : gPc[g] # "idle" => relied'[gAcc[g]] \in during'[g]
    <3>1. SUFFICES ASSUME NEW g \in Reader, gPc[g] # "idle"
                   PROVE  relied'[gAcc[g]] \in during'[g]
      OBVIOUS
    <3>2. gAcc[g] \in Account /\ relied[gAcc[g]] \in during[g]
      BY <1>a, <3>1 DEF LocalsOK, ReadOK, SeenInv
    <3> QED BY <1>2, <1>a, <3>2 DEF Rely, TypeOK
  <2>3. \A g \in Reader : gPc[g] = "answer" /\ gKind[g] = "get" =>
            during[g] # {"private"} /\ during[g] # {}
    BY DEF SeenInv
  <2>4. \A g \in Reader : Shows(g)' => ~(during'[g] \subseteq {"contacts", "private"})
    <3>1. \A g \in Reader : Shows(g)' = Shows(g)
      BY <1>2 DEF Shows
    <3> QED BY <2>1, <3>1 DEF SeenInv
  <2>5. \A g \in Reader : (gPc[g] = "answer" /\ gKind[g] = "get")' => during'[g] # {"private"}
    BY <1>2, <2>1, <2>3
  <2> QED BY <1>2, <2>2, <2>4, <2>5 DEF SeenInv
<1>3. \* A reader takes a step; the others are as they were.
      ASSUME NEW g \in Reader, UNCHANGED relied,
             \A h \in Reader : h # g => /\ gPc'[h] = gPc[h] /\ gKind'[h] = gKind[h]
                                        /\ gAcc'[h] = gAcc[h] /\ shown'[h] = shown[h]
                                        /\ during'[h] = during[h],
             gPc'[g] # "idle" => relied[gAcc'[g]] \in during'[g],
             gPc'[g] = "answer" /\ gKind'[g] = "get" => during'[g] # {"private"},
             Shows(g)' => ~(during'[g] \subseteq {"contacts", "private"})
      PROVE  SeenInv'
  <2>1. \A h \in Reader : h # g => Shows(h)' = Shows(h)
    BY <1>3 DEF Shows
  <2> QED BY <1>3, <2>1 DEF SeenInv
<1>4. ASSUME NEW g \in Reader, NEW k \in {"get", "search"}, NEW n \in Name, NEW a \in Account,
             FindByName(g, k, n, a)
      PROVE  SeenInv'
  BY <1>3, <1>4, <1>a DEF FindByName, updVars, TypeOK, Shows
<1>5. ASSUME NEW g \in Reader, NEW w \in Wallet, NEW a \in Account, FindByWallet(g, w, a)
      PROVE  SeenInv'
  <2>1. relied[a] \notin {"contacts", "private"}
    BY <1>5, <1>b, NoneAssumption DEF FindByWallet, Visibility
  <2>2. /\ UNCHANGED <<relied, shown>>
        /\ gPc'[g] = "account" /\ gAcc'[g] = a /\ during'[g] = {relied[a]}
        /\ \A h \in Reader : h # g => /\ gPc'[h] = gPc[h] /\ gKind'[h] = gKind[h]
                                      /\ gAcc'[h] = gAcc[h] /\ during'[h] = during[h]
    BY <1>5, <1>a DEF FindByWallet, updVars, TypeOK
  <2> QED BY <1>3, <2>1, <2>2
<1>12. ASSUME NEW g \in Reader, NEW p \in Phone, NEW a \in Account, FindByPhone(g, p, a)
       PROVE  SeenInv'
  BY <1>3, <1>12, <1>a DEF FindByPhone, updVars, TypeOK, Shows
<1>13. ASSUME NEW g \in Reader, NEW a \in Account, FindOwn(g, a)
       PROVE  SeenInv'
  BY <1>3, <1>13, <1>a DEF FindOwn, updVars, TypeOK, Shows
<1>6. ASSUME NEW g \in Reader, ReadProfile(g) PROVE SeenInv'
  <2>1. /\ relied[gAcc[g]] \in during[g] /\ gAcc[g] \in Account
        /\ gKind[g] # "wallet"
    BY <1>6, <1>a DEF ReadProfile, SeenInv, LocalsOK, ReadOK
  <2>2. gKind[g] = "get" => Vis(profile[gAcc[g]]) # "private"
    BY <1>6 DEF ReadProfile, Hidden
  <2>3. /\ UNCHANGED <<relied, gKind, gAcc, during>>
        /\ gPc'[g] = "answer"
        /\ gKind[g] = "get" /\ shown'[g] # {} => Vis(profile[gAcc[g]]) = "public"
        /\ \A h \in Reader : h # g => gPc'[h] = gPc[h] /\ shown'[h] = shown[h]
    BY <1>6, <1>a DEF ReadProfile, ShowsWallets, updVars, TypeOK
  <2>4. gKind[g] = "get" => during[g] # {"private"}
    BY <1>b, <2>1, <2>2, NoneAssumption DEF Visibility
  <2>5. Shows(g)' => ~(during[g] \subseteq {"contacts", "private"})
    <3>1. SUFFICES ASSUME Shows(g)' PROVE relied[gAcc[g]] \notin {"contacts", "private"}
      BY <2>1
    <3>2. Vis(profile[gAcc[g]]) = "public"
      BY <2>1, <2>3, <3>1 DEF Shows
    <3> QED BY <1>b, <2>1, <3>2, NoneAssumption DEF Visibility
  <2> QED BY <1>3, <2>1, <2>3, <2>4, <2>5
<1>7. ASSUME NEW g \in Reader, PreloadAccount(g) PROVE SeenInv'
  <2>1. /\ UNCHANGED <<relied, gKind, gAcc, shown, during>>
        /\ gPc[g] = "account" /\ gPc' = [gPc EXCEPT ![g] = "answer"]
    BY <1>7 DEF PreloadAccount, updVars
  <2>2. gKind[g] # "get" /\ Shows(g)
    BY <2>1, <1>a DEF LocalsOK, ReadOK, Shows
  <2> QED BY <1>3, <2>1, <2>2, <1>a DEF SeenInv, TypeOK
<1>8. ASSUME NEW g \in Reader, ReadEnd(g), UNCHANGED relied PROVE SeenInv'
  BY <1>3, <1>8, <1>a DEF ReadEnd, TypeOK, Shows
<1>9. ASSUME NEW g \in Reader, ReadStep(g) PROVE SeenInv'
  BY <1>4, <1>5, <1>6, <1>7, <1>8, <1>9, <1>12, <1>13, Zenon
  DEF ReadStep, ReadHidden, ReadAnswer, updVars
<1>10. ASSUME NEW u \in Updater, UpdateStep(u) PROVE SeenInv'
  <2>1. ASSUME NEW a \in Account, NEW b \in Update, UpdateBegin(u, a, b) PROVE SeenInv'
    BY <1>2, <2>1, Zenon DEF UpdateBegin
  <2>2. ASSUME UpdateAnswer(u) PROVE SeenInv'
    <3>1. uAcc[u] \in Account
      BY <2>2, <1>a DEF UpdateAnswer, LocalsOK, UpdateOK
    <3> QED BY <1>2, <2>2, <3>1, Zenon DEF UpdateAnswer
  <2>3. \/ \E a \in Account, b \in Update : UpdateBegin(u, a, b)
        \/ UpdateAnswer(u)
        \/ UNCHANGED <<relied, getVars>>
    BY <1>10, Zenon
    DEF UpdateStep, UpdateCheckName, UpdateSaveName, UpdateReadProfile, UpdateSaveProfile,
        UpdateFails
  <2> QED BY <1>1, <2>1, <2>2, <2>3
<1>11. CASE (\E r \in Register : RegisterStep(r)) \/ (\E v \in Verify : VerifyStep(v))
            \/ UNCHANGED vars
  BY <1>1, <1>11, RegisterFrame, VerifyFrame, Zenon DEF vars, updVars
<1> QED BY <1>9, <1>10, <1>11, StepKinds

\* get does not answer for a profile whose owner relied on "private" all the
\* while, and neither it shows wallets nor the wallet search finds one of a
\* profile whose owner relied on "contacts" or "private", for any updates.
THEOREM VisibilityRespected == Spec => []AnswersRespectVisibility
<1>1. Spec => [](TypeInv /\ RowInv /\ FieldInv /\ RelyInv /\ SeenInv)
  BY TypeInit, RowInit, FieldInit, RelyInit, SeenInit,
     TypeStep, RowStep, FieldStep, RelyStep, SeenStep, PTL DEF Spec
<1>2. SeenInv => AnswersRespectVisibility
  BY DEF SeenInv, Shows, AnswersRespectVisibility
<1> QED BY <1>1, <1>2, PTL

-----------------------------------------------------------------------------
\* Each field a register of its own

LEMMA RegistersInit == Init => Registers!Init
<1> SUFFICES ASSUME Init PROVE Registers!Init
  OBVIOUS
<1>1. {a \in Account : Exists(a)} = {}
  BY DEF Init, Exists
<1>2. \A a \in Account :
          Fields(a) = [f \in Field |-> IF f = "name" THEN None ELSE NewProfile[f]]
  BY DEF Init, Fields
<1>3. \A u \in Updater : State(u) = "idle" /\ Done(u) = {}
  BY DEF Init, State, Done, NoBody
<1>4. uAcc = [u \in Updater |-> None] /\ body = [u \in Updater |-> << >>]
  BY DEF Init, NoBody
<1> QED BY <1>1, <1>2, <1>3, <1>4 DEF Registers!Init

\* The fields of an account are those of its two rows.
LEMMA FieldsStand ==
    ASSUME NEW a \in Account, name'[a] = name[a], profile'[a] = profile[a]
    PROVE  Fields(a)' = Fields(a)
BY DEF Fields

LEMMA NameIsField == ASSUME NEW a \in Account PROVE Fields(a)["name"] = name[a]
BY DEF Fields, Field

\* A step of the update u is seen at u only.
LEMMA OneUpdateMoves ==
    ASSUME NEW u \in Updater, NEW s, NEW D, State(u)' = s, Done(u)' = D,
           \A v \in Updater \ {u} : /\ uPc'[v] = uPc[v] /\ body'[v] = body[v]
                                    /\ oldName'[v] = oldName[v] /\ copy'[v] = copy[v]
    PROVE  /\ [v \in Updater |-> State(v)]' = [[v \in Updater |-> State(v)] EXCEPT ![u] = s]
           /\ [v \in Updater |-> Done(v)]' = [[v \in Updater |-> Done(v)] EXCEPT ![u] = D]
<1>1. \A v \in Updater \ {u} : State(v)' = State(v) /\ Done(v)' = Done(v)
  BY DEF State, Done
<1> QED BY <1>1

\* Handlers that do not update and do not register leave the registers alone.
LEMMA RegistersStand ==
    ASSUME UNCHANGED <<phone, name, profile, updVars>>
    PROVE  UNCHANGED Registers!vars
<1>1. \A a \in Account : Fields(a)' = Fields(a) /\ (Exists(a)' = Exists(a))
  BY FieldsStand DEF Exists
<1>2. \A u \in Updater : State(u)' = State(u) /\ Done(u)' = Done(u)
  BY DEF State, Done, updVars
<1>3. uAcc' = uAcc /\ body' = body
  BY DEF updVars
<1> QED BY <1>1, <1>2, <1>3 DEF Registers!vars, Registers!updVars

LEMMA EnterStep ==
    ASSUME TypeInv, NEW r \in Register, NEW a \in Account, RegisterInsert(r, a)
    PROVE  Registers!Enter(a, rName[r])
<1> DEFINE n == rName[r]
<1>1. /\ rPhone[r] \in Phone /\ None \notin Phone /\ ~Exists(a)
      /\ phone' = [phone EXCEPT ![a] = rPhone[r]] /\ name' = [name EXCEPT ![a] = n]
      /\ UNCHANGED <<profile, updVars>>
  BY NoneAssumption DEF RegisterInsert, TypeInv, LocalsOK, RegisterOK
<1>2. {b \in Account : Exists(b)}' = {b \in Account : Exists(b)} \cup {a}
  BY <1>1 DEF Exists, TypeInv, TypeOK
<1>3. n = None \/ \A b \in Account \ {a} : [c \in Account |-> Fields(c)][b]["name"] # n
  BY NameIsField DEF RegisterInsert, NameFree
<1>4. [b \in Account |-> Fields(b)]'
        = [[b \in Account |-> Fields(b)] EXCEPT
              ![a] = [f \in Field |-> IF f \in {"name"} THEN [name |-> n][f] ELSE @[f]]]
  <2>1. \A b \in Account \ {a} : Fields(b)' = Fields(b)
    BY <1>1, FieldsStand DEF TypeInv, TypeOK
  <2>2. Fields(a)' = [f \in Field |-> IF f \in {"name"} THEN [name |-> n][f] ELSE Fields(a)[f]]
    BY <1>1 DEF Fields, TypeInv, TypeOK
  <2> QED BY <2>1, <2>2
<1>5. UNCHANGED <<[u \in Updater |-> State(u)], uAcc, body, [u \in Updater |-> Done(u)]>>
  BY <1>1 DEF updVars, State, Done
<1> QED BY <1>1, <1>2, <1>3, <1>4, <1>5
        DEF Registers!Enter, Registers!Unused, Registers!Set, Registers!updVars

LEMMA BeginStep ==
    ASSUME TypeInv, RowInv, NEW u \in Updater, NEW a \in Account, NEW b \in Update,
           UpdateBegin(u, a, b)
    PROVE  Registers!Begin(u, a, b)
<1> DEFINE D == Done(u)'
<1>1. /\ uPc[u] = "idle" /\ a \in tokens /\ UNCHANGED <<phone, name, profile>>
      /\ uPc' = [uPc EXCEPT ![u] = IF "name" \in DOMAIN b THEN "check" ELSE "profile"]
      /\ uAcc' = [uAcc EXCEPT ![u] = a] /\ body' = [body EXCEPT ![u] = b]
      /\ oldName' = [oldName EXCEPT ![u] = name[a]] /\ copy' = copy
  BY DEF UpdateBegin, Admitted, rowVars
<1>2. a \in {c \in Account : Exists(c)}
  BY <1>1 DEF RowInv
<1>3. State(u) = "idle" /\ State(u)' = "open"
  BY <1>1 DEF State, TypeInv, TypeOK
<1>4. D \in SUBSET {f \in DOMAIN b : [c \in Account |-> Fields(c)][a][f] = b[f]}
  <2>1. body'[u] = b /\ oldName'[u] = name[a] /\ uPc'[u] \in {"check", "profile"}
        /\ ("name" \in DOMAIN b => uPc'[u] = "check")
    BY <1>1 DEF TypeInv, TypeOK
  <2>2. \A f \in D : f = "name" /\ f \in DOMAIN b /\ b["name"] = name[a]
    BY <2>1 DEF Done
  <2> QED BY <2>2, NameIsField
<1>5. \A v \in Updater \ {u} : /\ uPc'[v] = uPc[v] /\ body'[v] = body[v]
                               /\ oldName'[v] = oldName[v] /\ copy'[v] = copy[v]
  BY <1>1 DEF TypeInv, TypeOK
<1> HIDE DEF D
<1>6. /\ [v \in Updater |-> State(v)]' = [[v \in Updater |-> State(v)] EXCEPT ![u] = "open"]
      /\ [v \in Updater |-> Done(v)]' = [[v \in Updater |-> Done(v)] EXCEPT ![u] = D]
  BY <1>3, <1>5, OneUpdateMoves DEF D
<1>7. UNCHANGED <<{c \in Account : Exists(c)}, [c \in Account |-> Fields(c)]>>
  BY <1>1 DEF Exists, Fields
<1> QED BY <1>1, <1>2, <1>3, <1>4, <1>6, <1>7 DEF Registers!Begin

\* The steps that set fields: S of them, with what the update sent.
LEMMA WriteStep ==
    ASSUME TypeInv, NEW u \in Updater, NEW S, NEW s \in {"open", "ok"},
           State(u) = "open", State(u)' = s,
           S \subseteq DOMAIN body[u] \ Done(u), Done(u)' = Done(u) \cup S,
           "name" \in S => NameFree(body[u].name, uAcc[u]),
           s = "ok" => Done(u)' = DOMAIN body[u],
           UNCHANGED <<phone, uAcc, body>>,
           \A v \in Updater \ {u} : /\ uPc'[v] = uPc[v] /\ oldName'[v] = oldName[v]
                                    /\ copy'[v] = copy[v],
           \A a \in Account \ {uAcc[u]} : name'[a] = name[a] /\ profile'[a] = profile[a],
           Fields(uAcc[u])' = [f \in Field |-> IF f \in S THEN body[u][f]
                                               ELSE Fields(uAcc[u])[f]]
    PROVE  Registers!Write(u, s)
<1> DEFINE a == uAcc[u]
           D == Done(u)'
<1>1. a \in Account
  BY DEF TypeInv, LocalsOK, UpdateOK, State
<1>2. /\ [v \in Updater |-> State(v)]' = [[v \in Updater |-> State(v)] EXCEPT ![u] = s]
      /\ [v \in Updater |-> Done(v)]' = [[v \in Updater |-> Done(v)] EXCEPT ![u] = D]
  BY OneUpdateMoves
<1>3. [c \in Account |-> Fields(c)]'
        = [[c \in Account |-> Fields(c)] EXCEPT
              ![a] = [f \in Field |-> IF f \in S THEN body[u][f] ELSE @[f]]]
  <2>1. \A c \in Account \ {a} : Fields(c)' = Fields(c)
    BY FieldsStand
  <2> QED BY <1>1, <2>1
<1>4. "name" \in S => \/ body[u]["name"] = None
                      \/ \A c \in Account \ {a} :
                            [d \in Account |-> Fields(d)][c]["name"] # body[u]["name"]
  BY NameIsField DEF NameFree
<1>5. UNCHANGED {c \in Account : Exists(c)}
  BY DEF Exists
<1>6. /\ [v \in Updater |-> State(v)][u] = "open"
      /\ [v \in Updater |-> Done(v)][u] = Done(u)
      /\ D = Done(u) \cup S
  OBVIOUS
<1> HIDE DEF D
<1>7. \E T \in SUBSET (DOMAIN body[u] \ [v \in Updater |-> Done(v)][u]) :
          /\ [v \in Updater |-> Done(v)]' =
                [[v \in Updater |-> Done(v)] EXCEPT ![u] = @ \cup T]
          /\ "name" \in T => Registers!Unused(body[u]["name"], uAcc[u])
          /\ s = "ok" => [v \in Updater |-> Done(v)][u] \cup T = DOMAIN body[u]
          /\ Registers!Set(uAcc[u], T, body[u])
  <2> S \in SUBSET (DOMAIN body[u] \ [v \in Updater |-> Done(v)][u])
    BY <1>6
  <2> WITNESS S \in SUBSET (DOMAIN body[u] \ [v \in Updater |-> Done(v)][u])
  <2>1. [v \in Updater |-> Done(v)]' = [[v \in Updater |-> Done(v)] EXCEPT ![u] = @ \cup S]
    BY <1>2, <1>6
  <2>2. "name" \in S => Registers!Unused(body[u]["name"], uAcc[u])
    BY <1>4 DEF Registers!Unused
  <2>3. s = "ok" => [v \in Updater |-> Done(v)][u] \cup S = DOMAIN body[u]
    BY <1>6 DEF D
  <2>4. Registers!Set(uAcc[u], S, body[u])
    BY <1>3 DEF Registers!Set
  <2> QED BY <2>1, <2>2, <2>3, <2>4
<1> QED BY <1>2, <1>5, <1>6, <1>7 DEF Registers!Write

LEMMA EndStep ==
    ASSUME TypeInv, NEW u \in Updater, uPc[u] # "idle", UpdateForget(u),
           UNCHANGED <<phone, name, profile>>
    PROVE  Registers!End(u)
<1>1. /\ uPc' = [uPc EXCEPT ![u] = "idle"] /\ uAcc' = [uAcc EXCEPT ![u] = None]
      /\ body' = [body EXCEPT ![u] = << >>]
      /\ oldName' = [oldName EXCEPT ![u] = None] /\ copy' = [copy EXCEPT ![u] = None]
  BY DEF UpdateForget, NoBody
<1>2. State(u) # "idle" /\ State(u)' = "idle"
  BY <1>1 DEF State, TypeInv, TypeOK
<1>3. Done(u)' = {}
  BY <1>1 DEF Done, TypeInv, TypeOK
<1>4. \A v \in Updater \ {u} : /\ uPc'[v] = uPc[v] /\ body'[v] = body[v]
                               /\ oldName'[v] = oldName[v] /\ copy'[v] = copy[v]
  BY <1>1 DEF TypeInv, TypeOK
<1>5. /\ [v \in Updater |-> State(v)]' = [[v \in Updater |-> State(v)] EXCEPT ![u] = "idle"]
      /\ [v \in Updater |-> Done(v)]' = [[v \in Updater |-> Done(v)] EXCEPT ![u] = {}]
  BY <1>2, <1>3, <1>4, OneUpdateMoves
<1>6. UNCHANGED <<{c \in Account : Exists(c)}, [c \in Account |-> Fields(c)]>>
  BY DEF Exists, Fields
<1> QED BY <1>1, <1>2, <1>5, <1>6 DEF Registers!End

\* The body of a running update is one of those clients send.
LEMMA BodyFields ==
    ASSUME TypeInv, NEW u \in Updater, uPc[u] # "idle"
    PROVE  /\ uAcc[u] \in Account /\ body[u] \in Update
           /\ DOMAIN body[u] \subseteq Column \cup {"name"}
           /\ "name" \in DOMAIN body[u] => body[u].name \in Name
BY UpdateAssumption DEF TypeInv, LocalsOK, UpdateOK, Field

LEMMA SaveNameStep ==
    ASSUME TypeInv, NEW u \in Updater, UpdateSaveName(u)
    PROVE  Registers!Write(u, "open")
<1> DEFINE a == uAcc[u]
           b == body[u]
           S == IF b.name = oldName[u] THEN {} ELSE {"name"}
<1>1. /\ uPc[u] = "name" /\ (b.name = oldName[u] \/ NameFree(b.name, a))
      /\ name' = [name EXCEPT ![a] = IF b.name = oldName[u] THEN @ ELSE b.name]
      /\ uPc' = [uPc EXCEPT ![u] = "profile"]
      /\ UNCHANGED <<phone, profile, uAcc, body, oldName, copy>>
  BY DEF UpdateSaveName
<1>2. a \in Account /\ "name" \in DOMAIN b
  BY <1>1 DEF TypeInv, LocalsOK, UpdateOK
<1>3. State(u) = "open" /\ State(u)' = "open"
  BY <1>1 DEF State, TypeInv, TypeOK
<1>4. Done(u)' = {"name"} /\ Done(u) = {"name"} \ S
  BY <1>1, <1>2 DEF Done, TypeInv, TypeOK
<1>5. Fields(a)' = [f \in Field |-> IF f \in S THEN b[f] ELSE Fields(a)[f]]
  BY <1>1, <1>2 DEF Fields, TypeInv, TypeOK
<1>6. \A c \in Account \ {a} : name'[c] = name[c] /\ profile'[c] = profile[c]
  BY <1>1 DEF TypeInv, TypeOK
<1>7. \A v \in Updater \ {u} : /\ uPc'[v] = uPc[v] /\ oldName'[v] = oldName[v]
                               /\ copy'[v] = copy[v]
  BY <1>1 DEF TypeInv, TypeOK
<1>8. S \subseteq DOMAIN b \ Done(u) /\ Done(u)' = Done(u) \cup S
      /\ ("name" \in S => NameFree(b.name, a))
  BY <1>1, <1>2, <1>4
<1> HIDE DEF S
<1> QED BY <1>1, <1>3, <1>5, <1>6, <1>7, <1>8, WriteStep

LEMMA ReadProfileStep ==
    ASSUME TypeInv, NEW u \in Updater, UpdateReadProfile(u)
    PROVE  Registers!Write(u, "open")
<1> DEFINE a == uAcc[u]
           b == body[u]
           S == Done(u)' \ Done(u)
<1>1. /\ uPc[u] = "profile"
      /\ copy' = [copy EXCEPT ![u] = profile[a]]
      /\ uPc' = [uPc EXCEPT ![u] = "save"]
      /\ UNCHANGED <<phone, name, profile, uAcc, body, oldName>>
  BY DEF UpdateReadProfile, rowVars
<1>2. a \in Account
  BY <1>1, BodyFields
<1>3. State(u) = "open" /\ State(u)' = "open"
  BY <1>1 DEF State, TypeInv, TypeOK
<1>4. /\ Done(u) = DOMAIN b \cap {"name"}
      /\ Done(u)' = DOMAIN b \cap ({"name"} \cup
                        IF profile[a] = None THEN {} ELSE Column \ Dirty(b, profile[a]))
  BY <1>1 DEF Done, TypeInv, TypeOK
<1>5. /\ S \subseteq DOMAIN b \ Done(u) /\ Done(u)' = Done(u) \cup S /\ "name" \notin S
      /\ \A f \in S : f \in Column /\ profile[a] # None /\ b[f] = profile[a][f]
  BY <1>4 DEF Dirty, Column
<1>6. Fields(a)' = Fields(a)
  BY <1>1, <1>2, FieldsStand
<1>7. Fields(a)' = [f \in Field |-> IF f \in S THEN b[f] ELSE Fields(a)[f]]
  <2>1. \A f \in S : Fields(a)[f] = b[f]
    BY <1>5 DEF Fields, Field, Column
  <2>2. Fields(a) = [f \in Field |-> Fields(a)[f]]
    BY DEF Fields
  <2> HIDE DEF S
  <2> QED BY <1>6, <2>1, <2>2
<1>8. \A v \in Updater \ {u} : /\ uPc'[v] = uPc[v] /\ oldName'[v] = oldName[v]
                               /\ copy'[v] = copy[v]
  BY <1>1 DEF TypeInv, TypeOK
<1> HIDE DEF S
<1> QED BY <1>1, <1>3, <1>5, <1>7, <1>8, WriteStep

LEMMA SaveProfileStep ==
    ASSUME TypeInv, NEW u \in Updater, UpdateSaveProfile(u)
    PROVE  Registers!Write(u, "ok")
<1> DEFINE a == uAcc[u]
           b == body[u]
           S == Column \cap DOMAIN b \cap (IF copy[u] = None THEN Column ELSE Dirty(b, copy[u]))
           row == Saved(profile[a], copy[u], b)
<1>1. /\ uPc[u] = "save"
      /\ copy[u] = None => profile[a] = None
      /\ copy[u] # None => profile[a] # None
      /\ profile' = [profile EXCEPT ![a] = row]
      /\ uPc' = [uPc EXCEPT ![u] = "answer"]
      /\ UNCHANGED <<phone, name, uAcc, body, oldName, copy>>
  BY DEF UpdateSaveProfile, TypeInv, LocalsOK, UpdateOK
<1>2. /\ a \in Account /\ b \in Update
      /\ DOMAIN b \subseteq Column \cup {"name"}
  BY <1>1, BodyFields
<1>3. State(u) = "open" /\ State(u)' = "ok"
  BY <1>1 DEF State, TypeInv, TypeOK
<1>4. Done(u)' = DOMAIN b
  BY <1>1, <1>2 DEF Done, TypeInv, TypeOK
<1>5. Done(u) = DOMAIN b \ S
  BY <1>1, <1>2 DEF Done, Dirty, Column
<1>6. Fields(a)' = [f \in Field |-> IF f \in S THEN b[f] ELSE Fields(a)[f]]
  <2>1. row \in Profile /\ row # None /\ profile'[a] = row
    <3>1. row \in Profile
      BY <1>1, <1>2, SavedType DEF TypeInv, TypeOK
    <3> QED BY <1>1, <1>2, <3>1, NoProfile DEF TypeInv, TypeOK
  <2>2. \A c \in Column : row[c] = IF c \in S THEN b[c] ELSE Fields(a)[c]
    <3>1. CASE copy[u] = None
      BY <1>1, <3>1 DEF Saved, Assign, Fields, NewProfile, Field, Column
    <3>2. CASE copy[u] # None
      BY <1>1, <3>2 DEF Saved, Assign, Fields, Dirty, Field, Column
    <3> QED BY <3>1, <3>2
  <2>3. Fields(a)' = [f \in Field |-> IF f = "name" THEN name[a] ELSE row[f]]
    BY <1>1, <2>1 DEF Fields
  <2>4. Fields(a)["name"] = name[a] /\ "name" \notin S
    BY <1>2, NameIsField DEF Column
  <2> HIDE DEF S, row
  <2> QED BY <2>2, <2>3, <2>4 DEF Field
<1>7. \A c \in Account \ {a} : name'[c] = name[c] /\ profile'[c] = profile[c]
  BY <1>1 DEF TypeInv, TypeOK
<1>8. \A v \in Updater \ {u} : /\ uPc'[v] = uPc[v] /\ oldName'[v] = oldName[v]
                               /\ copy'[v] = copy[v]
  BY <1>1 DEF TypeInv, TypeOK
<1>9. S \subseteq DOMAIN b \ Done(u) /\ Done(u)' = Done(u) \cup S /\ "name" \notin S
  BY <1>4, <1>5 DEF Column
<1> HIDE DEF S
<1> QED BY <1>1, <1>3, <1>4, <1>6, <1>7, <1>8, <1>9, WriteStep

\* Every step is a step of the registers or leaves them alone.
LEMMA RegistersStep == TypeInv /\ RowInv /\ [Next]_vars => [Registers!Next]_Registers!vars
<1> SUFFICES ASSUME TypeInv, RowInv, [Next]_vars PROVE [Registers!Next]_Registers!vars
  OBVIOUS
<1>1. ASSUME NEW r \in Register, RegisterStep(r) PROVE [Registers!Next]_Registers!vars
  <2>1. ASSUME NEW a \in Account, RegisterInsert(r, a) PROVE Registers!Next
    <3>1. rName[r] \in Name \cup {None}
      BY DEF TypeInv, TypeOK
    <3> QED BY <2>1, <3>1, EnterStep DEF Registers!Next
  <2>2. ASSUME NEW p \in Phone, NEW n \in Name \cup {None}, RegisterCheck(r, p, n)
        PROVE  UNCHANGED Registers!vars
    BY <2>2, RegistersStand DEF RegisterCheck, rowVars
  <2>3. ASSUME RegisterFails(r) PROVE UNCHANGED Registers!vars
    BY <2>3, RegistersStand DEF RegisterFails, rowVars
  <2> QED BY <1>1, <2>1, <2>2, <2>3 DEF RegisterStep
<1>2. ASSUME NEW u \in Updater, UpdateStep(u) PROVE [Registers!Next]_Registers!vars
  <2>1. ASSUME NEW a \in Account, NEW b \in Update, UpdateBegin(u, a, b) PROVE Registers!Next
    BY <2>1, BeginStep DEF Registers!Next
  <2>2. ASSUME UpdateCheckName(u) PROVE UNCHANGED Registers!vars
    <3>1. /\ uPc[u] = "check" /\ uPc' = [uPc EXCEPT ![u] = "name"]
          /\ UNCHANGED <<phone, name, profile, uAcc, body, oldName, copy>>
      BY <2>2 DEF UpdateCheckName, rowVars
    <3>2. \A v \in Updater : State(v)' = State(v) /\ Done(v)' = Done(v)
      BY <3>1 DEF State, Done, TypeInv, TypeOK
    <3>3. UNCHANGED <<{a \in Account : Exists(a)}, [a \in Account |-> Fields(a)]>>
      BY <3>1 DEF Exists, Fields
    <3> QED BY <3>1, <3>2, <3>3 DEF Registers!vars, Registers!updVars
  <2>3. ASSUME UpdateSaveName(u) PROVE Registers!Next
    BY <2>3, SaveNameStep DEF Registers!Next
  <2>4. ASSUME UpdateReadProfile(u) PROVE Registers!Next
    BY <2>4, ReadProfileStep DEF Registers!Next
  <2>5. ASSUME UpdateSaveProfile(u) PROVE Registers!Next
    BY <2>5, SaveProfileStep DEF Registers!Next
  <2>6. ASSUME UpdateAnswer(u) \/ UpdateFails(u) PROVE Registers!Next
    <3>1. uPc[u] # "idle" /\ UpdateForget(u) /\ UNCHANGED <<phone, name, profile>>
      BY <2>6 DEF UpdateAnswer, UpdateFails, rowVars
    <3> QED BY <3>1, EndStep DEF Registers!Next
  <2> QED BY <1>2, <2>1, <2>2, <2>3, <2>4, <2>5, <2>6 DEF UpdateStep
<1>3. CASE (\E v \in Verify : VerifyStep(v)) \/ (\E g \in Reader : ReadStep(g))
           \/ UNCHANGED vars
  <2>1. UNCHANGED <<phone, name, profile, updVars>>
    BY <1>3, VerifyFrame, ReadFrame DEF vars, rowVars
  <2> QED BY <2>1, RegistersStand
<1> QED BY <1>1, <1>2, <1>3, StepKinds

\* Each field of an account is a register: an update sets each field it sends
\* at one moment and touches no other, for any number of updates of any bodies,
\* with rows that are read whole, compared with a copy and saved awaits later
\* (profile_controller.ts:79-142).
THEOREM FieldsAreRegisters == Spec => ImplementsFields
<1>1. Spec => [](TypeInv /\ RowInv)
  BY TypeInit, RowInit, TypeStep, RowStep, PTL DEF Spec
<1> QED BY <1>1, RegistersInit, RegistersStep, PTL
        DEF Spec, ImplementsFields, Registers!Spec

=============================================================================
