------------------------------ MODULE Accounts ------------------------------
(***************************************************************************)
(* The identity service's accounts and profiles tables and the handlers     *)
(* that work on them.                                                       *)
(*                                                                          *)
(*   identity/app/controllers/auth_controller.ts        register, verify    *)
(*   identity/app/controllers/profile_controller.ts     update, get         *)
(*   identity/app/controllers/discovery_controller.ts   searchByUsername,   *)
(*                   searchByWalletAddress, discoverByPhoneHashes           *)
(*   identity/app/middleware/session_auth_middleware.ts handle              *)
(*                                                                          *)
(* Every awaited statement is an action.  Lucid's save() writes the columns *)
(* whose value differs from the copy the handler read, and nothing when     *)
(* there are none.  Of an account the model keeps the phone hash, the       *)
(* username and the verified flag, of a profile the visibility, the wallets *)
(* and, as one column, its details: display name, biography and avatar.     *)
(*                                                                          *)
(* Not covered: login, one read that changes nothing; refresh, which        *)
(* answers 501; the age of tokens.                                          *)
(***************************************************************************)
EXTENDS Integers, FiniteSets

CONSTANTS
    Account,    \* account ids, drawn by the database
    Phone,      \* phone hashes
    Name,       \* usernames as they are written
    Lower,      \* LOWER(username)
    Wallet,     \* wallet addresses, in lower case
    Detail,     \* display names, biographies, avatars
    Update,     \* the bodies clients PUT to /v1/profile: the fields they send
    Register, Verify, Updater, Reader,  \* handlers that may run at once
    None        \* no account, phone, name, profile, details

Visibility == {"public", "contacts", "private"}
Profile    == [vis : Visibility, wallets : SUBSET Wallet, details : Detail \cup {None}]
Column     == {"vis", "wallets", "details"}
Field      == Column \cup {"name"}

ASSUME NoneAssumption   ==
    None \notin Account \cup Phone \cup Name \cup Visibility \cup Profile \cup Detail
ASSUME LowerAssumption  == Lower \in [Name -> Name]
ASSUME UpdateAssumption ==
    \A b \in Update :
        /\ DOMAIN b \subseteq Field
        /\ "name" \in DOMAIN b => b.name \in Name
        /\ "vis" \in DOMAIN b => b.vis \in Visibility
        /\ "wallets" \in DOMAIN b => b.wallets \subseteq Wallet
        /\ "details" \in DOMAIN b => b.details \in Detail

VARIABLES
    phone,      \* phone[a]: the phone hash of a's row, None when there is no row
    name,       \* name[a]: its username, or None
    verified,   \* verified[a]: its verified column
    profile,    \* profile[a]: its profile row, or None
    tokens,     \* the accounts for which a session token was issued
    rPc, rPhone, rName,     \* register handlers: place, payload
    vPc, vAcc,              \* verify handlers: place, the account they read
    uPc, uAcc, body,        \* update handlers: place, account, payload
    oldName,    \* oldName[u]: the username in u's copy of the account
    copy,       \* copy[u]: u's copy of the profile, or None
    rivals,     \* rivals[u]: history, fields sent by updates of u's account
                \* that ran at the same time as u
    relied,     \* relied[a]: history, the visibility the last update of it was
                \* answered 200 for; None when there is none, or an update that
                \* sends it has begun since, or two overlapped
    gPc, gKind, gAcc,       \* readers: place, which handler, the account found
    shown,      \* shown[g]: the wallets g answers with
    detail,     \* detail[g]: the details it answers with, or None
    during      \* during[g]: history, what relied[gAcc[g]] was while g ran

rowVars == <<phone, name, verified, profile, tokens>>
regVars == <<rPc, rPhone, rName>>
verVars == <<vPc, vAcc>>
updVars == <<uPc, uAcc, body, oldName, copy, rivals, relied>>
getVars == <<gPc, gKind, gAcc, shown, detail, during>>
vars == <<rowVars, regVars, verVars, updVars, getVars>>

NoBody   == << >>
Exists(a) == phone[a] # None
Vis(p)   == IF p = None THEN None ELSE p.vis

TypeOK ==
    /\ phone \in [Account -> Phone \cup {None}]
    /\ name \in [Account -> Name \cup {None}]
    /\ verified \in [Account -> BOOLEAN]
    /\ profile \in [Account -> Profile \cup {None}]
    /\ tokens \subseteq Account
    /\ rPc \in [Register -> {"idle", "insert"}]
    /\ rPhone \in [Register -> Phone \cup {None}]
    /\ rName \in [Register -> Name \cup {None}]
    /\ vPc \in [Verify -> {"idle", "save", "token"}]
    /\ vAcc \in [Verify -> Account \cup {None}]
    /\ uPc \in [Updater -> {"idle", "check", "name", "profile", "save", "answer"}]
    /\ uAcc \in [Updater -> Account \cup {None}]
    /\ body \in [Updater -> Update \cup {NoBody}]
    /\ oldName \in [Updater -> Name \cup {None}]
    /\ copy \in [Updater -> Profile \cup {None}]
    /\ rivals \in [Updater -> SUBSET Field]
    /\ relied \in [Account -> Visibility \cup {None}]
    /\ gPc \in [Reader -> {"idle", "profile", "account", "answer"}]
    /\ gKind \in [Reader -> {"get", "me", "search", "wallet", "phone"}]
    /\ gAcc \in [Reader -> Account \cup {None}]
    /\ shown \in [Reader -> SUBSET Wallet]
    /\ detail \in [Reader -> Detail \cup {None}]
    /\ during \in [Reader -> SUBSET (Visibility \cup {None})]

\* Empty tables.
Init ==
    /\ phone = [a \in Account |-> None]
    /\ name = [a \in Account |-> None]
    /\ verified = [a \in Account |-> FALSE]
    /\ profile = [a \in Account |-> None]
    /\ tokens = {}
    /\ rPc = [r \in Register |-> "idle"]
    /\ rPhone = [r \in Register |-> None]
    /\ rName = [r \in Register |-> None]
    /\ vPc = [v \in Verify |-> "idle"]
    /\ vAcc = [v \in Verify |-> None]
    /\ uPc = [u \in Updater |-> "idle"]
    /\ uAcc = [u \in Updater |-> None]
    /\ body = [u \in Updater |-> NoBody]
    /\ oldName = [u \in Updater |-> None]
    /\ copy = [u \in Updater |-> None]
    /\ rivals = [u \in Updater |-> {}]
    /\ relied = [a \in Account |-> None]
    /\ gPc = [g \in Reader |-> "idle"]
    /\ gKind = [g \in Reader |-> "get"]
    /\ gAcc = [g \in Reader |-> None]
    /\ shown = [g \in Reader |-> {}]
    /\ detail = [g \in Reader |-> None]
    /\ during = [g \in Reader |-> {}]

-----------------------------------------------------------------------------
\* POST /v1/auth/register

\* findBy phoneHash; a row of this phone means 409.
RegisterCheck(r, p, n) ==
    /\ rPc[r] = "idle"
    /\ \A a \in Account : phone[a] # p
    /\ rPc' = [rPc EXCEPT ![r] = "insert"]
    /\ rPhone' = [rPhone EXCEPT ![r] = p]
    /\ rName' = [rName EXCEPT ![r] = n]
    /\ UNCHANGED <<rowVars, verVars, updVars, getVars>>

RegisterForget(r) ==
    /\ rPc' = [rPc EXCEPT ![r] = "idle"]
    /\ rPhone' = [rPhone EXCEPT ![r] = None]
    /\ rName' = [rName EXCEPT ![r] = None]

\* unique(username), on usernames as they are written.
NameFree(n, a) == n = None \/ \A b \in Account \ {a} : name[b] # n

\* INSERT INTO accounts; phone_hash is indexed but not unique.
RegisterInsert(r, a) ==
    /\ rPc[r] = "insert"
    /\ ~Exists(a)
    /\ NameFree(rName[r], a)
    /\ phone' = [phone EXCEPT ![a] = rPhone[r]]
    /\ name' = [name EXCEPT ![a] = rName[r]]
    /\ RegisterForget(r)
    /\ UNCHANGED <<verified, profile, tokens, verVars, updVars, getVars>>

\* The username is taken, or the handler is lost.
RegisterFails(r) ==
    /\ rPc[r] = "insert"
    /\ RegisterForget(r)
    /\ UNCHANGED <<rowVars, verVars, updVars, getVars>>

-----------------------------------------------------------------------------
\* POST /v1/auth/verify

\* findBy phoneHash picks any row of the phone; the code is valid (what the
\* gateway says is up to it; a wrong code changes nothing).
VerifyFind(v, a) ==
    /\ vPc[v] = "idle"
    /\ Exists(a)
    /\ vPc' = [vPc EXCEPT ![v] = "save"]
    /\ vAcc' = [vAcc EXCEPT ![v] = a]
    /\ UNCHANGED <<rowVars, regVars, updVars, getVars>>

VerifyForget(v) ==
    /\ vPc' = [vPc EXCEPT ![v] = "idle"]
    /\ vAcc' = [vAcc EXCEPT ![v] = None]

\* Mutant of VerifySave: the flag is assigned and not saved.
VerifySave_NoSave(v) ==
    /\ vPc[v] = "save"
    /\ vPc' = [vPc EXCEPT ![v] = "token"]
    /\ UNCHANGED <<rowVars, regVars, vAcc, updVars, getVars>>

\* save() writes the verified column.
VerifySave(v) ==
    /\ vPc[v] = "save"
    /\ verified' = [verified EXCEPT ![vAcc[v]] = TRUE]
    /\ vPc' = [vPc EXCEPT ![v] = "token"]
    /\ UNCHANGED <<phone, name, profile, tokens, regVars, vAcc, updVars, getVars>>

\* generateSessionToken and the answer.
VerifyToken(v) ==
    /\ vPc[v] = "token"
    /\ tokens' = tokens \cup {vAcc[v]}
    /\ VerifyForget(v)
    /\ UNCHANGED <<phone, name, verified, profile, regVars, updVars, getVars>>

\* The handler is lost, or no token can be made; a flag that was saved stays.
VerifyFails(v) ==
    /\ vPc[v] # "idle"
    /\ VerifyForget(v)
    /\ UNCHANGED <<rowVars, regVars, updVars, getVars>>

-----------------------------------------------------------------------------
\* PUT /v1/profile

Rivals(u, a) == {v \in Updater \ {u} : uPc[v] # "idle" /\ uAcc[v] = a}

\* SessionAuthMiddleware lets a request pass as the account its token was
\* issued for.
Admitted(a) == a \in tokens

\* The owner of a may rely on the visibility x; its readers see that.
Rely(a, x) ==
    /\ relied' = [relied EXCEPT ![a] = x]
    /\ during' = [g \in Reader |-> IF gAcc[g] = a THEN during[g] \cup {x} ELSE during[g]]

\* The account is read.
UpdateBegin(u, a, b) ==
    /\ uPc[u] = "idle"
    /\ Admitted(a)
    /\ uPc' = [uPc EXCEPT ![u] = IF "name" \in DOMAIN b THEN "check" ELSE "profile"]
    /\ uAcc' = [uAcc EXCEPT ![u] = a]
    /\ body' = [body EXCEPT ![u] = b]
    /\ oldName' = [oldName EXCEPT ![u] = name[a]]
    /\ rivals' = [v \in Updater |->
                     IF v = u THEN UNION {DOMAIN body[w] : w \in Rivals(u, a)}
                     ELSE IF v \in Rivals(u, a) THEN rivals[v] \cup DOMAIN b
                     ELSE rivals[v]]
    /\ Rely(a, IF "vis" \in DOMAIN b THEN None ELSE relied[a])
    /\ UNCHANGED <<rowVars, regVars, verVars, copy, gPc, gKind, gAcc, shown, detail>>

UpdateForget(u) ==
    /\ uPc' = [uPc EXCEPT ![u] = "idle"]
    /\ uAcc' = [uAcc EXCEPT ![u] = None]
    /\ body' = [body EXCEPT ![u] = NoBody]
    /\ oldName' = [oldName EXCEPT ![u] = None]
    /\ copy' = [copy EXCEPT ![u] = None]
    /\ rivals' = [rivals EXCEPT ![u] = {}]

\* No other account has the username, whatever the case of its letters.
UpdateCheckName(u) ==
    /\ uPc[u] = "check"
    /\ \A b \in Account \ {uAcc[u]} :
          name[b] # None => Lower[name[b]] # Lower[body[u].name]
    /\ uPc' = [uPc EXCEPT ![u] = "name"]
    /\ UNCHANGED <<rowVars, regVars, verVars, uAcc, body, oldName, copy, rivals, relied,
                   getVars>>

\* account.save(): an UPDATE when the username differs from the copy's.
UpdateSaveName(u) ==
    LET a == uAcc[u]  n == body[u].name IN
    /\ uPc[u] = "name"
    /\ n = oldName[u] \/ NameFree(n, a)
    /\ name' = [name EXCEPT ![a] = IF n = oldName[u] THEN @ ELSE n]
    /\ uPc' = [uPc EXCEPT ![u] = "profile"]
    /\ UNCHANGED <<phone, verified, profile, tokens, regVars, verVars, uAcc, body,
                   oldName, copy, rivals, relied, getVars>>

UpdateReadProfile(u) ==
    /\ uPc[u] = "profile"
    /\ copy' = [copy EXCEPT ![u] = profile[uAcc[u]]]
    /\ uPc' = [uPc EXCEPT ![u] = "save"]
    /\ UNCHANGED <<rowVars, regVars, verVars, uAcc, body, oldName, rivals, relied, getVars>>

\* The columns of base with those of b in cols replaced.
Assign(base, b, cols) == [c \in Column |-> IF c \in cols THEN b[c] ELSE base[c]]

\* The columns of b that differ from the copy.
Dirty(b, old) == {c \in Column \cap DOMAIN b : b[c] # old[c]}

\* The defaults of the table.
NewProfile == [vis |-> "public", wallets |-> {}, details |-> None]

\* Mutants of Saved: the whole copy is written back; the visibility has no
\* default.
Saved_WholeRow(row, old, b) ==
    IF old = None THEN Assign(NewProfile, b, Column \cap DOMAIN b)
    ELSE Assign(old, b, Column \cap DOMAIN b)

Saved_NoDefault(row, old, b) ==
    IF old = None THEN Assign([NewProfile EXCEPT !.vis = None], b, Column \cap DOMAIN b)
    ELSE Assign(row, b, Dirty(b, old))

\* What profile.save() makes of the row: an INSERT with the defaults of the
\* table for columns not sent, or an UPDATE of the dirty columns.
Saved(row, old, b) ==
    IF old = None THEN Assign(NewProfile, b, Column \cap DOMAIN b)
    ELSE Assign(row, b, Dirty(b, old))

UpdateSaveProfile(u) ==
    LET a == uAcc[u] IN
    /\ uPc[u] = "save"
    /\ copy[u] = None => profile[a] = None
    /\ profile' = [profile EXCEPT ![a] = Saved(@, copy[u], body[u])]
    /\ uPc' = [uPc EXCEPT ![u] = "answer"]
    /\ UNCHANGED <<phone, name, verified, tokens, regVars, verVars, uAcc, body, oldName,
                   copy, rivals, relied, getVars>>

\* 200: the owner relies on a visibility it sent and no rival did.
UpdateAnswer(u) ==
    LET a == uAcc[u] IN
    /\ uPc[u] = "answer"
    /\ Rely(a, IF "vis" \in DOMAIN body[u] \ rivals[u] THEN body[u].vis ELSE relied[a])
    /\ UpdateForget(u)
    /\ UNCHANGED <<rowVars, regVars, verVars, gPc, gKind, gAcc, shown, detail>>

\* 409 for a username that is taken, 500 for a unique constraint, also for a
\* second INSERT of one profile, or the handler is lost: a username that was
\* saved stays.
UpdateFails(u) ==
    /\ uPc[u] \notin {"idle", "answer"}
    /\ UpdateForget(u)
    /\ UNCHANGED <<rowVars, regVars, verVars, relied, getVars>>

-----------------------------------------------------------------------------
\* GET /v1/discovery/username/:username and GET /v1/profile/:username

\* LOWER(username) = LOWER(?) AND verified
Matches(a, n) == name[a] # None /\ Lower[name[a]] = Lower[n] /\ verified[a]

\* first(): any of the accounts that match.
FindByName(g, kind, n, a) ==
    /\ gPc[g] = "idle"
    /\ Matches(a, n)
    /\ gPc' = [gPc EXCEPT ![g] = "profile"]
    /\ gKind' = [gKind EXCEPT ![g] = kind]
    /\ gAcc' = [gAcc EXCEPT ![g] = a]
    /\ during' = [during EXCEPT ![g] = {relied[a]}]
    /\ UNCHANGED <<rowVars, regVars, verVars, updVars, shown, detail>>

\* GET /v1/profile/me: the account of the session token.
FindOwn(g, a) ==
    /\ gPc[g] = "idle"
    /\ Admitted(a)
    /\ Exists(a)
    /\ gPc' = [gPc EXCEPT ![g] = "profile"]
    /\ gKind' = [gKind EXCEPT ![g] = "me"]
    /\ gAcc' = [gAcc EXCEPT ![g] = a]
    /\ during' = [during EXCEPT ![g] = {relied[a]}]
    /\ UNCHANGED <<rowVars, regVars, verVars, updVars, shown, detail>>

\* The answer was sent, or there is none.
ReadEnd(g) ==
    /\ gPc' = [gPc EXCEPT ![g] = "idle"]
    /\ gKind' = [gKind EXCEPT ![g] = "get"]
    /\ gAcc' = [gAcc EXCEPT ![g] = None]
    /\ shown' = [shown EXCEPT ![g] = {}]
    /\ detail' = [detail EXCEPT ![g] = None]
    /\ during' = [during EXCEPT ![g] = {}]

\* Mutant of Hidden: the wrong visibility is hidden.
Hidden_Contacts(kind, p) == kind = "get" /\ Vis(p) = "contacts"

\* get answers 404 for a private profile; searchByUsername does not look.
Hidden(kind, p) == kind = "get" /\ Vis(p) = "private"

\* get shows the wallets of a public profile only, me those of any, to their
\* owner; the other answers have none.
ShowsWallets(kind, p) ==
    \/ kind = "get" /\ Vis(p) = "public"
    \/ kind = "me" /\ p # None

\* Read the profile of the account found.  get, me and searchByUsername show the
\* details of any profile they answer with, of a "contacts" profile too.
ReadProfile(g) ==
    LET p == profile[gAcc[g]] IN
    /\ gPc[g] = "profile"
    /\ ~Hidden(gKind[g], p)
    /\ gPc' = [gPc EXCEPT ![g] = "answer"]
    /\ shown' = [shown EXCEPT ![g] =
                    IF ShowsWallets(gKind[g], p) THEN p.wallets ELSE {}]
    /\ detail' = [detail EXCEPT ![g] = IF p = None THEN None ELSE p.details]
    /\ UNCHANGED <<rowVars, regVars, verVars, updVars, gKind, gAcc, during>>

\* 404 for a hidden profile.
ReadHidden(g) ==
    /\ gPc[g] = "profile"
    /\ Hidden(gKind[g], profile[gAcc[g]])
    /\ ReadEnd(g)
    /\ UNCHANGED <<rowVars, regVars, verVars, updVars>>

\* GET /v1/discovery/wallet/:address: any public profile with the wallet; the
\* verified flag is not looked at.
FindByWallet(g, w, a) ==
    /\ gPc[g] = "idle"
    /\ Vis(profile[a]) = "public"
    /\ w \in profile[a].wallets
    /\ gPc' = [gPc EXCEPT ![g] = "account"]
    /\ gKind' = [gKind EXCEPT ![g] = "wallet"]
    /\ gAcc' = [gAcc EXCEPT ![g] = a]
    /\ detail' = [detail EXCEPT ![g] = profile[a].details]
    /\ during' = [during EXCEPT ![g] = {relied[a]}]
    /\ UNCHANGED <<rowVars, regVars, verVars, updVars, shown>>

\* POST /v1/discovery/phone: one read finds the verified accounts of the
\* phones asked for; a is any of them.
FindByPhone(g, p, a) ==
    /\ gPc[g] = "idle"
    /\ phone[a] = p
    /\ verified[a]
    /\ gPc' = [gPc EXCEPT ![g] = "answer"]
    /\ gKind' = [gKind EXCEPT ![g] = "phone"]
    /\ gAcc' = [gAcc EXCEPT ![g] = a]
    /\ during' = [during EXCEPT ![g] = {relied[a]}]
    /\ UNCHANGED <<rowVars, regVars, verVars, updVars, shown, detail>>

\* preload('account')
PreloadAccount(g) ==
    /\ gPc[g] = "account"
    /\ Exists(gAcc[g])
    /\ gPc' = [gPc EXCEPT ![g] = "answer"]
    /\ UNCHANGED <<rowVars, regVars, verVars, updVars, gKind, gAcc, shown, detail, during>>

ReadAnswer(g) ==
    /\ gPc[g] = "answer"
    /\ ReadEnd(g)
    /\ UNCHANGED <<rowVars, regVars, verVars, updVars>>

-----------------------------------------------------------------------------
Next ==
    \/ \E r \in Register, p \in Phone, n \in Name \cup {None} : RegisterCheck(r, p, n)
    \/ \E r \in Register, a \in Account : RegisterInsert(r, a)
    \/ \E r \in Register : RegisterFails(r)
    \/ \E v \in Verify, a \in Account : VerifyFind(v, a)
    \/ \E v \in Verify : VerifySave(v)
    \/ \E v \in Verify : VerifyToken(v)
    \/ \E v \in Verify : VerifyFails(v)
    \/ \E u \in Updater, a \in Account, b \in Update : UpdateBegin(u, a, b)
    \/ \E u \in Updater : UpdateCheckName(u)
    \/ \E u \in Updater : UpdateSaveName(u)
    \/ \E u \in Updater : UpdateReadProfile(u)
    \/ \E u \in Updater : UpdateSaveProfile(u)
    \/ \E u \in Updater : UpdateAnswer(u)
    \/ \E u \in Updater : UpdateFails(u)
    \/ \E g \in Reader, kind \in {"get", "search"}, n \in Name, a \in Account :
          FindByName(g, kind, n, a)
    \/ \E g \in Reader, a \in Account : FindOwn(g, a)
    \/ \E g \in Reader : ReadProfile(g)
    \/ \E g \in Reader : ReadHidden(g)
    \/ \E g \in Reader, w \in Wallet, a \in Account : FindByWallet(g, w, a)
    \/ \E g \in Reader, p \in Phone, a \in Account : FindByPhone(g, p, a)
    \/ \E g \in Reader : PreloadAccount(g)
    \/ \E g \in Reader : ReadAnswer(g)

Spec == Init /\ [][Next]_vars

-----------------------------------------------------------------------------
\* Safety

\* What an account stores in a field.
Held(a, f) == IF f = "name" THEN name[a] ELSE profile[a][f]

\* An update that is about to answer 200 has every field it sent stored,
\* unless an update of the same account that ran at the same time sent that
\* field too: updates of different fields do not undo each other, although each
\* reads a whole row and saves it later.
SentFieldsStored ==
    \A u \in Updater : uPc[u] = "answer" =>
        \A f \in DOMAIN body[u] \ rivals[u] :
            Held(uAcc[u], f) = body[u][f]

\* No search answers with an account that is not verified; the wallet search
\* does not look at the flag and relies on a profile having been written with
\* a session token.
FoundAreVerified ==
    \A g \in Reader : gPc[g] = "answer" => verified[gAcc[g]]

\* Readers respect the visibility its owner relies on: one whose last update was
\* answered 200, with no update of it under way since.  get does not answer for a
\* profile that was private in this sense all the while it ran; only of one that
\* was neither "contacts" nor "private" all the while does it show wallets, and
\* the wallet search find it.  An update of other fields that read the row before
\* and saves it after must not bring an older visibility back.
AnswersRespectVisibility ==
    \A g \in Reader : gPc[g] = "answer" =>
        /\ gKind[g] = "get" => during[g] # {"private"}
        /\ gKind[g] = "wallet" \/ (gKind[g] = "get" /\ shown[g] # {}) =>
              ~(during[g] \subseteq {"contacts", "private"})

-----------------------------------------------------------------------------
\* The promise: each field a register of its own

\* The fields of a; without a profile row, those a new row will have.
Fields(a) ==
    [f \in Field |-> IF f = "name" THEN name[a]
                     ELSE IF profile[a] = None THEN NewProfile[f] ELSE profile[a][f]]

State(u) ==
    IF uPc[u] = "idle" THEN "idle" ELSE IF uPc[u] = "answer" THEN "ok" ELSE "open"

\* The fields the update u has set: the username once it is saved, or from the
\* beginning when it is the one u read; a column once it is saved, or from the
\* moment u read a row that has its value.
Done(u) ==
    LET b == body[u]
        n == IF uPc[u] \in {"profile", "save", "answer"} \/ b["name"] = oldName[u]
             THEN {"name"} ELSE {}
        c == IF uPc[u] = "answer" THEN Column
             ELSE IF uPc[u] = "save" /\ copy[u] # None THEN Column \ Dirty(b, copy[u])
             ELSE {}
    IN  DOMAIN b \cap ((IF "name" \in DOMAIN b THEN n ELSE {}) \cup c)

Registers == INSTANCE Fields WITH
    Client <- Updater,
    Body <- Update,
    Blank <- [f \in Field |-> IF f = "name" THEN None ELSE NewProfile[f]],
    Nobody <- None,
    entered <- {a \in Account : Exists(a)},
    value <- [a \in Account |-> Fields(a)],
    state <- [u \in Updater |-> State(u)],
    acc <- uAcc,
    sent <- body,
    done <- [u \in Updater |-> Done(u)]

\* Updates that read an account and a profile row and save their copies awaits
\* later set each field they send once, at one moment of their own (module
\* Fields), and touch no other: what overlapping updates leave in a field is
\* what one of them sent, and a column that was not saved because it had not
\* changed was as sent when the row was read.
ImplementsFields == Registers!Spec

-----------------------------------------------------------------------------
\* What a comment of the source says, and the code does not do

\* models/profile.ts:81-85, "contacts": Profile details visible only to mutual
\* contacts.  Discovery returns basic info (username + identity key only).
\* "private": Profile is hidden from all discovery mechanisms.
VisibilityAsDocumented ==
    \A g \in Reader : gPc[g] = "answer" /\ gKind[g] # "me" =>
        /\ during[g] # {"private"}
        /\ detail[g] # None => ~(during[g] \subseteq {"contacts", "private"})

=============================================================================
