------------------------------- MODULE Mailbox -------------------------------
(***************************************************************************)
(* What the relay's message queue promises to those who use it, without the *)
(* way it keeps the promise: one copy of each message with a time to live,  *)
(* and polls that are not atomic but owe their device what was there all    *)
(* along.  There are no inbox references here, no clean-up, no second TTL   *)
(* and no failed handlers.  MessageQueue implements this module.            *)
(*                                                                          *)
(* The promise is made for messages sent once.  For an id that is sent      *)
(* again the mailbox keeps the latest copy, and a poll may miss it.         *)
(***************************************************************************)
EXTENDS Integers, Sequences

CONSTANTS
    MsgId,      \* message ids
    Device,     \* device ids
    Recipient,  \* the device each message is for
    Reader,     \* polls that may run at once
    TTL         \* how long a copy is kept

VARIABLES
    clock,
    copy,       \* copy[m]: the date of the copy of m that is kept, or 0
    until,      \* until[m]: when that copy goes away, 0 when there is none
    puts,       \* puts[m]: how often m was stored
    open,       \* open[p]: the poll p is under way
    dev,        \* dev[p]: for which device
    owed,       \* owed[p]: the messages its answer has to contain
    got,        \* got[p]: what it read so far
    delivered   \* the messages some poll has answered with

boxVars  == <<copy, until, puts>>
pollVars == <<open, dev, got>>
vars     == <<clock, boxVars, pollVars, owed, delivered>>

Kept(m) == until[m] # 0
In(q)   == {q[i].id : i \in DOMAIN q}

Init ==
    /\ clock = 1
    /\ copy = [m \in MsgId |-> 0]
    /\ until = [m \in MsgId |-> 0]
    /\ puts = [m \in MsgId |-> 0]
    /\ open = [p \in Reader |-> FALSE]
    /\ dev \in [Reader -> Device]
    /\ owed = [p \in Reader |-> {}]
    /\ got = [p \in Reader |-> <<>>]
    /\ delivered = {}

-----------------------------------------------------------------------------
\* The messages in S are no longer there, or no longer sent once.
NoLongerOwed(S) == owed' = [p \in Reader |-> owed[p] \ S]

\* A copy dated `at`, in the past, is kept from now on.
Put(m, at) ==
    /\ at \in 1 .. clock
    /\ copy' = [copy EXCEPT ![m] = at]
    /\ until' = [until EXCEPT ![m] = clock + TTL]
    /\ puts' = [puts EXCEPT ![m] = @ + 1]
    /\ NoLongerOwed({m})
    /\ UNCHANGED <<clock, pollVars, delivered>>

\* The copies of the messages in S go away, and only those.
Remove(S) ==
    /\ copy' = [m \in MsgId |-> IF m \in S THEN 0 ELSE copy[m]]
    /\ until' = [m \in MsgId |-> IF m \in S THEN 0 ELSE until[m]]
    /\ NoLongerOwed(S)
    /\ UNCHANGED <<puts, pollVars, delivered>>

\* A device that received m acknowledges it.
Destroy(m) ==
    /\ m \in delivered
    /\ Remove({m})
    /\ UNCHANGED clock

\* Time passes; the copies whose time has come go away, none earlier.
Advance ==
    /\ clock' = clock + 1
    /\ Remove({m \in MsgId : until[m] <= clock'})

\* The store forgets everything.
Wipe ==
    /\ Remove(MsgId)
    /\ UNCHANGED clock

-----------------------------------------------------------------------------
\* A poll for d begins: it owes all messages sent once that are kept now.
Open(p, d) ==
    /\ ~open[p]
    /\ open' = [open EXCEPT ![p] = TRUE]
    /\ dev' = [dev EXCEPT ![p] = d]
    /\ owed' = [owed EXCEPT ![p] =
                   {m \in MsgId : Recipient[m] = d /\ Kept(m) /\ puts[m] = 1}]
    /\ UNCHANGED <<clock, boxVars, got, delivered>>

\* It reads a message of its device that is kept now, each at most once.
Take(p, m) ==
    /\ open[p]
    /\ Recipient[m] = dev[p]
    /\ Kept(m)
    /\ m \notin In(got[p])
    /\ got' = [got EXCEPT ![p] = Append(@, [id |-> m, enqueuedAt |-> copy[m]])]
    /\ UNCHANGED <<clock, boxVars, open, dev, owed, delivered>>

\* Messages sent once come in the order of their dates.
InOrder(q) ==
    \A i, j \in DOMAIN q :
        i < j /\ puts[q[i].id] = 1 /\ puts[q[j].id] = 1
            => q[i].enqueuedAt <= q[j].enqueuedAt

Leave(p) ==
    /\ open[p]
    /\ open' = [open EXCEPT ![p] = FALSE]
    /\ dev' \in [Reader -> Device]
    /\ \A r \in Reader \ {p} : dev'[r] = dev[r]
    /\ owed' = [owed EXCEPT ![p] = {}]
    /\ got' = [got EXCEPT ![p] = <<>>]
    /\ UNCHANGED <<clock, boxVars>>

\* It answers: everything it owes is there, in order.
Close(p) ==
    /\ owed[p] \subseteq In(got[p])
    /\ InOrder(got[p])
    /\ delivered' = delivered \cup In(got[p])
    /\ Leave(p)

\* It ends without an answer.
Abort(p) ==
    /\ Leave(p)
    /\ UNCHANGED delivered

Next ==
    \/ \E m \in MsgId, at \in 1 .. clock : Put(m, at)
    \/ \E m \in MsgId : Destroy(m)
    \/ Advance
    \/ Wipe
    \/ \E p \in Reader, d \in Device : Open(p, d)
    \/ \E p \in Reader, m \in MsgId : Take(p, m)
    \/ \E p \in Reader : Close(p)
    \/ \E p \in Reader : Abort(p)

Spec == Init /\ [][Next]_vars

=============================================================================
