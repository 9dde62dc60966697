------------------------------- MODULE Fields -------------------------------
(***************************************************************************)
(* What PUT /v1/profile promises to clients that change one account at the  *)
(* same time: each field of an account is a register of its own.  An update *)
(* sets each field it sends at one moment between its beginning and its     *)
(* end, possibly each at another moment; an update that is answered has set *)
(* all of them, one that fails may have set some.  Nobody else sets a field *)
(* but the registration that entered the account.                           *)
(*                                                                          *)
(* There are no rows, columns, copies or statements here.  Accounts         *)
(* implements this module.                                                  *)
(***************************************************************************)
EXTENDS Integers

CONSTANTS
    Account,    \* the accounts there may be
    Client,     \* updates that may be under way at once
    Field,      \* the fields of an account, "name" among them
    Body,       \* the updates clients send: values for some of the fields
    Name,       \* usernames
    Blank,      \* the fields of an account nobody has set
    Nobody      \* no name, no account

VARIABLES
    entered,    \* the accounts that were registered
    value,      \* value[a][f]: what is in the field f of a
    state,      \* state[u]: "idle", "open", or "ok" when 200 is all that is left
    acc,        \* acc[u]: the account the update u is of, or Nobody
    sent,       \* sent[u]: its fields and what to set them to
    done        \* done[u]: those it has set

updVars == <<state, acc, sent, done>>
vars == <<entered, value, updVars>>

Init ==
    /\ entered = {}
    /\ value = [a \in Account |-> Blank]
    /\ state = [u \in Client |-> "idle"]
    /\ acc = [u \in Client |-> Nobody]
    /\ sent = [u \in Client |-> << >>]
    /\ done = [u \in Client |-> {}]

\* The fields in S of a are set as b says.
Set(a, S, b) ==
    value' = [value EXCEPT ![a] = [f \in Field |-> IF f \in S THEN b[f] ELSE @[f]]]

\* No other account has the name n.
Unused(n, a) == n = Nobody \/ \A b \in Account \ {a} : value[b]["name"] # n

\* An account is registered, with a username or without one.
Enter(a, n) ==
    /\ a \notin entered
    /\ Unused(n, a)
    /\ entered' = entered \cup {a}
    /\ Set(a, {"name"}, [name |-> n])
    /\ UNCHANGED updVars

\* An update begins; a field that is as it wants it may count as set.
Begin(u, a, b) ==
    /\ state[u] = "idle"
    /\ a \in entered
    /\ state' = [state EXCEPT ![u] = "open"]
    /\ acc' = [acc EXCEPT ![u] = a]
    /\ sent' = [sent EXCEPT ![u] = b]
    /\ \E S \in SUBSET {f \in DOMAIN b : value[a][f] = b[f]} :
          done' = [done EXCEPT ![u] = S]
    /\ UNCHANGED <<entered, value>>

\* It sets some of its fields, each once; with all of them set it may be ok.
Write(u, s) ==
    /\ state[u] = "open"
    /\ state' = [state EXCEPT ![u] = s]
    /\ \E S \in SUBSET (DOMAIN sent[u] \ done[u]) :
          /\ done' = [done EXCEPT ![u] = @ \cup S]
          /\ "name" \in S => Unused(sent[u]["name"], acc[u])
          /\ s = "ok" => done[u] \cup S = DOMAIN sent[u]
          /\ Set(acc[u], S, sent[u])
    /\ UNCHANGED <<entered, acc, sent>>

\* It ends: with 200 when it is ok, with an error or not at all otherwise.
End(u) ==
    /\ state[u] # "idle"
    /\ state' = [state EXCEPT ![u] = "idle"]
    /\ acc' = [acc EXCEPT ![u] = Nobody]
    /\ sent' = [sent EXCEPT ![u] = << >>]
    /\ done' = [done EXCEPT ![u] = {}]
    /\ UNCHANGED <<entered, value>>

Next ==
    \/ \E a \in Account, n \in Name \cup {Nobody} : Enter(a, n)
    \/ \E u \in Client, a \in Account, b \in Body : Begin(u, a, b)
    \/ \E u \in Client, s \in {"open", "ok"} : Write(u, s)
    \/ \E u \in Client : End(u)

Spec == Init /\ [][Next]_vars

=============================================================================
