------------------------------ MODULE Sessions ------------------------------
(***************************************************************************)
(* How the owner of a phone gets into the system and uses it: registration, *)
(* login and verification on the identity service, the two tokens that      *)
(* verification answers with, and the middleware of the identity and of the *)
(* relay service that let requests with such tokens pass.                   *)
(*                                                                          *)
(*   identity/app/controllers/auth_controller.ts       register, login,     *)
(*                                                     verify               *)
(*   identity/app/controllers/discovery_controller.ts  discoverByPhoneHashes *)
(*   identity/app/middleware/session_auth_middleware.ts                     *)
(*   relay/app/middleware/device_auth_middleware.ts                         *)
(*                                                                          *)
(* The two services share no store: what the relay knows about a device is  *)
(* in the token.  Each has a clock of its own, which it reads in whole      *)
(* seconds; time here is finer.  Clients send one request at a time and     *)
(* give it up after a while, when its handler may still be running.         *)
(*                                                                          *)
(* Not covered: usernames and profiles (module Accounts), malformed tokens, *)
(* refresh (it answers 501), /health, which asks for no token (RateLimit).  *)
(***************************************************************************)
EXTENDS Integers, FiniteSets

CONSTANTS
    Account,    \* rows the accounts table may come to have
    Phone,      \* phone hashes, one client for each
    Handler,    \* requests the identity service may work on at once
    Call,       \* requests with a token that may be under way at once
    Code,       \* the codes a client may send
    Bypass,     \* DEV_SMS_BYPASS_CODE, or None
    Development,    \* NODE_ENV is "development"
    Secret,         \* secrets
    IdentitySecret, \* IDENTITY_SESSION_SECRET
    DeviceSecret,   \* DEVICE_AUTH_SECRET of the identity service
    RelaySecret,    \* DEVICE_AUTH_SECRET of the relay, or None
    Sec,        \* ticks in a second
    MaxAge,     \* MaxAge[s]: MAX_TOKEN_AGE_SECONDS of the service s
    Skew,       \* how far in the future a token may be dated, in seconds
    Drift,      \* by how many ticks the relay's clock may be ahead
    Start,      \* the time at first
    MaxTime,    \* bound: the clock stops here
    MaxFail,    \* bound: requests given up and handlers lost
    None

Service == {"identity", "relay"}

ASSUME NoneAssumption   == None \notin Account \cup Phone \cup Handler \cup Code \cup Secret
ASSUME FiniteAssumption == IsFiniteSet(Handler)
ASSUME CodeAssumption   == Bypass \in Code \cup {None} /\ Development \in BOOLEAN
\* env.ts: the two secrets are distinct; DEVICE_AUTH_SECRET must match.
ASSUME SecretAssumption ==
    /\ IdentitySecret \in Secret /\ DeviceSecret \in Secret
    /\ IdentitySecret # DeviceSecret
    /\ RelaySecret \in {DeviceSecret, None}
ASSUME TimeAssumption   ==
    /\ Sec \in Nat \ {0}
    /\ MaxAge \in [Service -> Nat] /\ Skew \in Nat
    /\ Start \in Nat /\ MaxTime \in Nat /\ Start =< MaxTime
ASSUME DriftAssumption  == Drift \subseteq Int /\ \A d \in Drift : Start + d \in Nat
ASSUME BoundAssumption  == MaxFail \in Nat

VARIABLES
    clock,      \* the time, and the identity service's clock
    ahead,      \* by how much the relay's clock is ahead of it
    phone,      \* phone[a]: accounts.phone_hash, None when there is no row
    verified,   \* verified[a]: accounts.verified
    pc,         \* pc[h]: where the handler stands
    who,        \* who[h]: payload.phoneHash
    acc,        \* acc[h]: account
    made,       \* made[h]: the time at which it made the two tokens
    step,       \* step[p]: what the client of p asks for next
    waits,      \* waits[p]: the handler whose answer it waits for, or None
    held,       \* held[p]: the tokens it has, none or one of each kind
    cpc,        \* cpc[c]: where the request with a token stands
    by,         \* by[c]: whose request it is
    to,         \* to[c]: which service it goes to
    token,      \* token[c]: the bearer token
    fails,      \* failures so far
    named,      \* named[p]: history, accounts some answer named for p
    raced       \* raced[p]: history, registrations of p that found no row of p
                \* while another one was about to insert it

timeVars == <<clock, ahead>>
rowVars  == <<phone, verified>>
hVars    == <<pc, who, acc, made>>
cliVars  == <<step, waits, held>>
callVars == <<cpc, by, to, token>>
histVars == <<named, raced>>
vars     == <<timeVars, rowVars, hVars, cliVars, callVars, fails, histVars>>

-----------------------------------------------------------------------------
\* Tokens: {id}.{timestamp}.{hmac}.  The id is that of an account or of its
\* device (device_id is a database default, a uuid of the row's own); key is
\* the secret of the hmac, born the time it was made at.

Token == [kind : {"account", "device"}, of : Account, key : Secret, born : Nat]

SessionToken(a, t) == [kind |-> "account", of |-> a, key |-> IdentitySecret, born |-> t]
DeviceToken(a, t)  == [kind |-> "device", of |-> a, key |-> DeviceSecret, born |-> t]

\* Math.floor(Date.now() / 1000)
Seconds(t) == t \div Sec

\* Date.now() of a service
Now(s) == IF s = "identity" THEN clock ELSE clock + ahead

\* The secret a service checks tokens with; without one it accepts none.
SecretOf(s) == IF s = "identity" THEN IdentitySecret ELSE RelaySecret

\* Mutants of InDate: the limit itself is refused; the tolerance is granted at
\* both ends.
InDate_AtLimit(s, tok) ==
    /\ Seconds(Now(s)) - Seconds(tok.born) < MaxAge[s]
    /\ Seconds(tok.born) =< Seconds(Now(s)) + Skew
InDate_Lenient(s, tok) ==
    /\ Seconds(Now(s)) - Seconds(tok.born) =< MaxAge[s] + Skew
    /\ Seconds(tok.born) =< Seconds(Now(s)) + Skew

\* verifyToken, the time stamp: neither too old nor dated too far ahead.
InDate(s, tok) ==
    /\ Seconds(Now(s)) - Seconds(tok.born) =< MaxAge[s]
    /\ Seconds(tok.born) =< Seconds(Now(s)) + Skew

\* Mutant of Signed: every hmac will do.
Signed_Any(s, tok) == SecretOf(s) # None

\* verifyToken, the hmac.
Signed(s, tok) == tok.key = SecretOf(s)

\* verifyToken
Accepts(s, tok) == InDate(s, tok) /\ Signed(s, tok)

-----------------------------------------------------------------------------
RowsOf(p) == {a \in Account : phone[a] = p}

\* The registrations of p between their read and their INSERT.
Inserting(p) == {h \in Handler : pc[h] = "insert" /\ who[h] = p}

Place == {"idle", "insert", "save", "mint",
          "created", "conflict", "known", "unknown", "denied", "verified"}

\* A handler in the middle of a request knows its phone, one past its read of
\* the table its account.
TypeOK ==
    /\ clock \in Start .. MaxTime /\ ahead \in Drift
    /\ phone \in [Account -> Phone \cup {None}]
    /\ verified \in [Account -> BOOLEAN]
    /\ pc \in [Handler -> Place]
    /\ who \in [Handler -> Phone \cup {None}]
    /\ acc \in [Handler -> Account \cup {None}]
    /\ made \in [Handler -> Nat]
    /\ step \in [Phone -> {"register", "login", "verify", "in"}]
    /\ waits \in [Phone -> Handler \cup {None}]
    /\ held \in [Phone -> SUBSET Token]
    /\ cpc \in [Call -> {"idle", "sent", "admitted", "refused"}]
    /\ by \in [Call -> Phone \cup {None}]
    /\ to \in [Call -> Service]
    /\ token \in [Call -> Token \cup {None}]
    /\ fails \in 0 .. MaxFail
    /\ named \in [Phone -> SUBSET Account]
    /\ raced \in [Phone -> Nat]
    /\ \A h \in Handler :
          /\ pc[h] # "idle" => who[h] \in Phone
          /\ pc[h] \in {"save", "mint", "created", "known", "verified"} => acc[h] \in Account
    /\ \A c \in Call : cpc[c] # "idle" => by[c] \in Phone /\ token[c] \in Token

Init ==
    /\ clock = Start
    /\ ahead \in Drift
    /\ phone = [a \in Account |-> None]
    /\ verified = [a \in Account |-> FALSE]
    /\ pc = [h \in Handler |-> "idle"]
    /\ who = [h \in Handler |-> None]
    /\ acc = [h \in Handler |-> None]
    /\ made = [h \in Handler |-> 0]
    /\ step \in [Phone -> {"register", "login"}]
    /\ waits = [p \in Phone |-> None]
    /\ held = [p \in Phone |-> {}]
    /\ cpc = [c \in Call |-> "idle"]
    /\ by = [c \in Call |-> None]
    /\ to = [c \in Call |-> "identity"]
    /\ token = [c \in Call |-> None]
    /\ fails = 0
    /\ named = [p \in Phone |-> {}]
    /\ raced = [p \in Phone |-> 0]

-----------------------------------------------------------------------------
\* Requests to the identity service

\* The client of p sends a request of the kind it is at, h takes it and stands
\* at l with the account a after the first read of the table.
Arrive(h, p, kind, l, a) ==
    /\ pc[h] = "idle"
    /\ step[p] = kind
    /\ waits[p] = None
    /\ pc' = [pc EXCEPT ![h] = l]
    /\ who' = [who EXCEPT ![h] = p]
    /\ acc' = [acc EXCEPT ![h] = a]
    /\ waits' = [waits EXCEPT ![p] = h]
    /\ UNCHANGED <<timeVars, rowVars, made, step, held, callVars, fails, named>>

\* Mutant of RegisterNew: the table is not looked at.
RegisterNew_Blind(h, p) ==
    /\ Arrive(h, p, "register", "insert", None)
    /\ raced' = [raced EXCEPT ![p] = IF Inserting(p) = {} THEN @ ELSE @ + 1]

\* register: findBy phoneHash finds no row.
RegisterNew(h, p) ==
    /\ RowsOf(p) = {}
    /\ Arrive(h, p, "register", "insert", None)
    /\ raced' = [raced EXCEPT ![p] = IF Inserting(p) = {} THEN @ ELSE @ + 1]

\* It finds one: 409.
RegisterKnown(h, p) ==
    /\ RowsOf(p) # {}
    /\ Arrive(h, p, "register", "conflict", None)
    /\ UNCHANGED raced

\* Mutant of RegisterInsert: the id of the new row is not read back.
RegisterInsert_NoId(h, a) ==
    /\ pc[h] = "insert"
    /\ phone[a] = None
    /\ phone' = [phone EXCEPT ![a] = who[h]]
    /\ pc' = [pc EXCEPT ![h] = "created"]
    /\ UNCHANGED <<timeVars, verified, who, acc, made, cliVars, callVars, fails, histVars>>

\* Account.create: phone_hash is not unique.
RegisterInsert(h, a) ==
    /\ pc[h] = "insert"
    /\ phone[a] = None
    /\ phone' = [phone EXCEPT ![a] = who[h]]
    /\ pc' = [pc EXCEPT ![h] = "created"]
    /\ acc' = [acc EXCEPT ![h] = a]
    /\ UNCHANGED <<timeVars, verified, who, made, cliVars, callVars, fails, histVars>>

\* Mutant of LoginKnown: accounts that are not verified yet are not found.
LoginKnown_Verified(h, p, a) ==
    /\ a \in RowsOf(p) /\ verified[a]
    /\ Arrive(h, p, "login", "known", a)
    /\ UNCHANGED raced

\* login: findBy phoneHash, any row of the phone.
LoginKnown(h, p, a) ==
    /\ a \in RowsOf(p)
    /\ Arrive(h, p, "login", "known", a)
    /\ UNCHANGED raced

\* No row: 404.
LoginUnknown(h, p) ==
    /\ RowsOf(p) = {}
    /\ Arrive(h, p, "login", "unknown", None)
    /\ UNCHANGED raced

\* validateSmsCode: the gateway is not there yet, only the bypass is.
ValidCode(code) == Development /\ Bypass # None /\ code = Bypass

\* verify: findBy phoneHash, any row of the phone, and a code that is good.
VerifyFind(h, p, a, code) ==
    /\ a \in RowsOf(p)
    /\ ValidCode(code)
    /\ Arrive(h, p, "verify", "save", a)
    /\ UNCHANGED raced

\* 401: no row, or a wrong code.
VerifyDenied(h, p, code) ==
    /\ RowsOf(p) = {} \/ ~ValidCode(code)
    /\ Arrive(h, p, "verify", "denied", None)
    /\ UNCHANGED raced

\* Mutant of VerifySave: the flag is assigned and not saved.
VerifySave_NoSave(h) ==
    /\ pc[h] = "save"
    /\ pc' = [pc EXCEPT ![h] = "mint"]
    /\ UNCHANGED <<timeVars, rowVars, who, acc, made, cliVars, callVars, fails, histVars>>

\* account.save()
VerifySave(h) ==
    /\ pc[h] = "save"
    /\ verified' = [verified EXCEPT ![acc[h]] = TRUE]
    /\ pc' = [pc EXCEPT ![h] = "mint"]
    /\ UNCHANGED <<timeVars, phone, who, acc, made, cliVars, callVars, fails, histVars>>

\* generateSessionToken and generateDeviceToken
Mint(h) ==
    /\ pc[h] = "mint"
    /\ made' = [made EXCEPT ![h] = clock]
    /\ pc' = [pc EXCEPT ![h] = "verified"]
    /\ UNCHANGED <<timeVars, rowVars, who, acc, cliVars, callVars, fails, histVars>>

Forget(h) ==
    /\ pc' = [pc EXCEPT ![h] = "idle"]
    /\ who' = [who EXCEPT ![h] = None]
    /\ acc' = [acc EXCEPT ![h] = None]
    /\ made' = [made EXCEPT ![h] = 0]

\* What the client does after each answer: after 201 or the 200 of login it
\* enters its code, 409 means login and 404 registration.
After(l) ==
    CASE l \in {"created", "known", "denied"} -> "verify"
      [] l = "conflict" -> "login"
      [] l = "unknown"  -> "register"
      [] l = "verified" -> "in"

Tokens(h) == {SessionToken(acc[h], made[h]), DeviceToken(acc[h], made[h])}

\* The answer; it reaches the client if that still waits for it.
Answer(h) ==
    LET p == who[h]  heard == waits[p] = h IN
    /\ pc[h] \in {"created", "conflict", "known", "unknown", "denied", "verified"}
    /\ step' = [step EXCEPT ![p] = IF heard THEN After(pc[h]) ELSE @]
    /\ held' = [held EXCEPT ![p] = IF heard /\ pc[h] = "verified" THEN Tokens(h) ELSE @]
    /\ waits' = [waits EXCEPT ![p] = IF heard THEN None ELSE @]
    /\ named' = [named EXCEPT ![p] = IF acc[h] = None THEN @ ELSE @ \cup {acc[h]}]
    /\ Forget(h)
    /\ UNCHANGED <<timeVars, rowVars, callVars, fails, raced>>

\* The handler is lost, or its statement fails; rows that were written stay.
HandlerFails(h) ==
    /\ fails < MaxFail
    /\ pc[h] \in {"insert", "save", "mint"}
    /\ fails' = fails + 1
    /\ waits' = [p \in Phone |-> IF waits[p] = h THEN None ELSE waits[p]]
    /\ Forget(h)
    /\ UNCHANGED <<timeVars, rowVars, step, held, callVars, histVars>>

\* The client gives its request up; the handler goes on.
GiveUp(p) ==
    /\ fails < MaxFail
    /\ waits[p] # None
    /\ fails' = fails + 1
    /\ waits' = [waits EXCEPT ![p] = None]
    /\ UNCHANGED <<timeVars, rowVars, hVars, step, held, callVars, histVars>>

\* There is no refresh: the client logs in again.
LogInAgain(p) ==
    /\ step[p] = "in"
    /\ step' = [step EXCEPT ![p] = "login"]
    /\ UNCHANGED <<timeVars, rowVars, hVars, waits, held, callVars, fails, histVars>>

\* discoverByPhoneHashes: one read, all verified rows of the phone.
Discover(p) ==
    /\ named' = [named EXCEPT ![p] = @ \cup {a \in RowsOf(p) : verified[a]}]
    /\ UNCHANGED <<timeVars, rowVars, hVars, cliVars, callVars, fails, raced>>

-----------------------------------------------------------------------------
\* Requests with a token

\* The client of p sends one of its tokens to a service.
Send(c, p, s, tok) ==
    /\ cpc[c] = "idle"
    /\ tok \in held[p]
    /\ cpc' = [cpc EXCEPT ![c] = "sent"]
    /\ by' = [by EXCEPT ![c] = p]
    /\ to' = [to EXCEPT ![c] = s]
    /\ token' = [token EXCEPT ![c] = tok]
    /\ UNCHANGED <<timeVars, rowVars, hVars, cliVars, fails, histVars>>

\* The middleware of the service lets it pass ...
Admit(c) ==
    /\ cpc[c] = "sent"
    /\ Accepts(to[c], token[c])
    /\ cpc' = [cpc EXCEPT ![c] = "admitted"]
    /\ UNCHANGED <<timeVars, rowVars, hVars, cliVars, by, to, token, fails, histVars>>

\* ... or answers 401.
Refuse(c) ==
    /\ cpc[c] = "sent"
    /\ ~Accepts(to[c], token[c])
    /\ cpc' = [cpc EXCEPT ![c] = "refused"]
    /\ UNCHANGED <<timeVars, rowVars, hVars, cliVars, by, to, token, fails, histVars>>

\* The controller is done.
Done(c) ==
    /\ cpc[c] \in {"admitted", "refused"}
    /\ cpc' = [cpc EXCEPT ![c] = "idle"]
    /\ by' = [by EXCEPT ![c] = None]
    /\ to' = [to EXCEPT ![c] = "identity"]
    /\ token' = [token EXCEPT ![c] = None]
    /\ UNCHANGED <<timeVars, rowVars, hVars, cliVars, fails, histVars>>

\* Time passes, and the relay's clock may be set.
Tick ==
    /\ clock < MaxTime
    /\ clock' = clock + 1
    /\ ahead' \in Drift
    /\ UNCHANGED <<rowVars, hVars, cliVars, callVars, fails, histVars>>

-----------------------------------------------------------------------------
Next ==
    \/ \E h \in Handler, p \in Phone : RegisterNew(h, p)
    \/ \E h \in Handler, p \in Phone : RegisterKnown(h, p)
    \/ \E h \in Handler, a \in Account : RegisterInsert(h, a)
    \/ \E h \in Handler, p \in Phone, a \in Account : LoginKnown(h, p, a)
    \/ \E h \in Handler, p \in Phone : LoginUnknown(h, p)
    \/ \E h \in Handler, p \in Phone, a \in Account, code \in Code : VerifyFind(h, p, a, code)
    \/ \E h \in Handler, p \in Phone, code \in Code : VerifyDenied(h, p, code)
    \/ \E h \in Handler : VerifySave(h)
    \/ \E h \in Handler : Mint(h)
    \/ \E h \in Handler : Answer(h)
    \/ \E h \in Handler : HandlerFails(h)
    \/ \E p \in Phone : GiveUp(p)
    \/ \E p \in Phone : LogInAgain(p)
    \/ \E p \in Phone : Discover(p)
    \/ \E c \in Call, p \in Phone, s \in Service : \E tok \in held[p] : Send(c, p, s, tok)
    \/ \E c \in Call : Admit(c)
    \/ \E c \in Call : Refuse(c)
    \/ \E c \in Call : Done(c)
    \/ Tick

Spec == Init /\ [][Next]_vars

-----------------------------------------------------------------------------
\* Safety

\* A phone has one account, and at most one more for each registration that
\* looked for a row while another one was about to insert it: nothing else, be
\* it a retry, a request that was given up or a handler that comes late, makes
\* a second account, and every answer of register, login, verify and discovery
\* names one of these.  (phone_hash is not unique; register looks for a row and
\* inserts awaits later; verify and login take any row.)
OneAccountPerPhone ==
    \A p \in Phone :
        /\ Cardinality(RowsOf(p)) =< 1 + raced[p]
        /\ named[p] \subseteq RowsOf(p)

\* A request that a service lets pass acts as an account, or at the relay as
\* the device of an account, that is verified and belongs to the phone of the
\* client that sent it, although neither service looks at the accounts and the
\* tokens of both have one form.
ActsAsOwner ==
    \A c \in Call : cpc[c] = "admitted" =>
        /\ token[c].kind = IF to[c] = "identity" THEN "account" ELSE "device"
        /\ phone[token[c].of] = by[c]
        /\ verified[token[c].of]

\* By the clock of the service, how long ago the token was made, in ticks.
Age(c) == Now(to[c]) - token[c].born

\* The time stamp and the clock are rounded to seconds one by one; all the same
\* a request passes only when its token is less than a second older than
\* MAX_TOKEN_AGE_SECONDS, and dated less than a second beyond the tolerance.
AdmittedInTime ==
    [][\A c \in Call : cpc[c] = "sent" /\ cpc'[c] = "admitted" =>
          /\ Age(c) < (MaxAge[to[c]] + 1) * Sec
          /\ -Age(c) < (Skew + 1) * Sec]_vars

\* A token of the service's own is refused only when it is older than
\* MAX_TOKEN_AGE_SECONDS, what expiresIn said, or when the service's clock is
\* behind by more than the tolerance: a device can poll as soon as it is
\* verified.
RefusedForCause ==
    [][\A c \in Call : cpc[c] = "sent" /\ cpc'[c] = "refused" =>
          \/ token[c].key # SecretOf(to[c])
          \/ Age(c) > MaxAge[to[c]] * Sec
          \/ to[c] = "relay" /\ -ahead > Skew * Sec]_vars

-----------------------------------------------------------------------------
\* Liveness: handlers go on, clients try again until they are in and at last
\* enter the right code.

Work(h) ==
    \/ \E a \in Account : RegisterInsert(h, a)
    \/ VerifySave(h)
    \/ Mint(h)
    \/ Answer(h)

Try(p) ==
    \E h \in Handler :
        \/ RegisterNew(h, p)
        \/ RegisterKnown(h, p)
        \/ \E a \in Account : LoginKnown(h, p, a)
        \/ LoginUnknown(h, p)
        \/ \E a \in Account : VerifyFind(h, p, a, Bypass)

FairSpec ==
    /\ Spec
    /\ \A h \in Handler : WF_vars(Work(h))
    /\ \A p \in Phone : SF_vars(Try(p))

\* Wherever a client is left by answers that were lost, by handlers that died
\* half-way or by a registration of which it never heard, the answers of
\* register and login lead it on until it has its tokens.
GetsIn == \A p \in Phone : step[p] # "in" ~> step[p] = "in" /\ held[p] # {}

=============================================================================
