---------------------------- MODULE MailPromise ----------------------------
(***************************************************************************)
(* What the mail queue promises the reader of the mails: a notice is       *)
(* mailed at most once, together with at most MaxItems - 1 others, all of  *)
(* them for the one user the mail goes to.  Mailed means that SMTP said    *)
(* so: a call it answers with an error may be repeated, under the same     *)
(* Message-ID.                                                             *)
(***************************************************************************)
EXTENDS Naturals, FiniteSets

CONSTANTS
    Tasks,        \* the notices that may be mailed
    Recipient,    \* Recipient[t]: the user t is for
    MaxItems

VARIABLE mailed   \* mailed[t]: how often t has been mailed

Init == mailed = [t \in Tasks |-> 0]

Mail(S) ==
    /\ S # {} /\ \A t \in S : mailed[t] = 0
    /\ Cardinality(S) <= MaxItems
    /\ \A t, u \in S : Recipient[t] = Recipient[u]
    /\ mailed' = [t \in Tasks |-> IF t \in S THEN 1 ELSE mailed[t]]

Next == \E S \in SUBSET Tasks : Mail(S)

Spec == Init /\ [][Next]_mailed
=============================================================================
