--------------------------- MODULE MCEmailBatches ---------------------------
(* Mail for two users, under the quota of one configuration or another.    *)
EXTENDS EmailBatches, TLC

CONSTANTS ann, ben, t1, t2, t3

MCOneTask == t1 :> ann
MCRecipient == (t1 :> ann) @@ (t2 :> ann)
MCTwoUsers == (t1 :> ann) @@ (t3 :> ben)

Layer(scope, period, limit) == [scope |-> scope, period |-> period, limit |-> limit]

\* Little is asked for: the day allows one mail, the minute any number.
MCPlanning == <<Layer("site", 2, 1), Layer("purpose", 1, 1)>>

\* The day allows two mails, a minute one, and a user gets one a day.
MCSending == <<Layer("site", 3, 2), Layer("site", 1, 1), Layer("purpose", 1, 1), Layer("recipient", 3, 1)>>
=============================================================================
