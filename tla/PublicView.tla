----------------------------- MODULE PublicView -----------------------------
(***************************************************************************)
(* What a reader of the site is promised about every moderated item,       *)
(* whatever requests, locks and revisions it takes.  "shown" is the        *)
(* content on the page, "endorsed" the last content a reviewer or the      *)
(* policy approved.  Once an item has endorsed content it is never again   *)
(* without content for want of a review: it leaves the page only when an   *)
(* operator withholds it, to return unchanged, or when it is removed.      *)
(***************************************************************************)
EXTENDS Naturals

CONSTANTS
    Items,
    Contents,
    None        \* no content; not one of Contents

VARIABLES phase, shown, endorsed

view == <<phase, shown, endorsed>>

Phases == {"none", "waiting", "unreviewed", "reviewed", "refused", "withheld", "gone"}

Init ==
    /\ phase = [i \in Items |-> "none"]
    /\ shown = [i \in Items |-> None]
    /\ endorsed = [i \in Items |-> None]

\* Content no item shows or ever had endorsed.
Fresh(x) == \A i \in Items : x # shown[i] /\ x # endorsed[i]

Show(i, p, x) == phase' = [phase EXCEPT ![i] = p] /\ shown' = [shown EXCEPT ![i] = x]

\* New content goes on the page before it is reviewed.
Publish(i, x) ==
    /\ phase[i] \in {"none", "waiting", "unreviewed", "reviewed", "refused"}
    /\ Fresh(x)
    /\ Show(i, "unreviewed", x)
    /\ UNCHANGED endorsed

\* Content is approved: it is new, or it was on the page waiting for this.
Endorse(i, x) ==
    /\ phase[i] \in {"none", "waiting", "unreviewed", "reviewed", "refused"}
    /\ Fresh(x) \/ (phase[i] = "unreviewed" /\ shown[i] = x)
    /\ Show(i, "reviewed", x)
    /\ endorsed' = [endorsed EXCEPT ![i] = x]

\* Only an item nothing was ever endorsed of waits with an empty page.
Await(i) ==
    /\ phase[i] \in {"none", "waiting", "unreviewed", "refused"}
    /\ endorsed[i] = None
    /\ Show(i, "waiting", None)
    /\ UNCHANGED endorsed

\* Unreviewed content is refused or replaced: the page returns to what was endorsed.
FallBack(i) ==
    /\ phase[i] = "unreviewed" /\ endorsed[i] # None
    /\ Show(i, "reviewed", endorsed[i])
    /\ UNCHANGED endorsed

Refuse(i) ==
    /\ phase[i] \in {"waiting", "unreviewed"} /\ endorsed[i] = None
    /\ Show(i, "refused", None)
    /\ UNCHANGED endorsed

Each(S, p, content) ==
    /\ phase' = [i \in Items |-> IF i \in S THEN p ELSE phase[i]]
    /\ shown' = [i \in Items |-> IF i \in S THEN content[i] ELSE shown[i]]
    /\ UNCHANGED endorsed

Nothing == [i \in Items |-> None]

Withhold(S) == (\A i \in S : phase[i] = "reviewed") /\ Each(S, "withheld", Nothing)

Restore(S) == (\A i \in S : phase[i] = "withheld") /\ Each(S, "reviewed", endorsed)

\* An item goes with everything written below it.
Remove(S) == (\A i \in S : phase[i] \notin {"none", "gone"}) /\ Each(S, "gone", Nothing)

Next ==
    \/ \E i \in Items :
        \/ \E x \in Contents : Publish(i, x) \/ Endorse(i, x)
        \/ Await(i) \/ FallBack(i) \/ Refuse(i)
    \/ \E S \in SUBSET Items : Withhold(S) \/ Restore(S) \/ Remove(S)

Spec == Init /\ [][Next]_view
=============================================================================
