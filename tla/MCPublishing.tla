---------------------------- MODULE MCPublishing ----------------------------
(***************************************************************************)
(* What follows the approval of a moment or a comment: the publication of  *)
(* its pictures and the dispatch of its notification events.  They share   *)
(* no state and are checked side by side: each behaviour is one of either. *)
(***************************************************************************)
EXTENDS MCMomentImages, NotificationDispatch, TLC

CONSTANTS a, b, q1, q2, like, reply, ann, ben

\* A like, for the owner of its root, and a reply whose metadata names the one who wrote it
\* and another user.
MCRecipients == (like :> <<ann>>) @@ (reply :> <<ben, ann>>)
MCExplicit == {reply}
MCActor == (like :> NoEvent) @@ (reply :> ben)

VARIABLE part

publishingVars == <<part, vars, dispatchVars>>

InImages == part = "images" /\ UNCHANGED <<part, dispatchVars>>
InDispatch == part = "dispatch" /\ UNCHANGED <<part, vars>>

PublishingInit == part \in {"images", "dispatch"} /\ Init /\ DispatchInit

\* Nothing in the dispatcher relates one notice to another: the notice of the reply is read and
\* deleted, that of the like is left alone.
ReadsOneNotice == inbox'[<<like, ann>>] \in {"none", "unread"}

\* Handlers and pictures are alike: a request that comes takes the first handler that is
\* free, and if the first save uploads one picture, it is the first.
InTurn ==
    /\ At(q1, "idle") /\ At(q2, "idle") => proc'[q2] = Idle
    /\ uploads = 0 => objects' # {Staged(1, b)}

PublishingNext ==
    \/ InImages /\ Next /\ InTurn
    \/ InDispatch /\ DispatchNext /\ ReadsOneNotice

\* Fairness and DispatchFairness, each for its own behaviours.
PublishingFairness ==
    /\ \A p \in Procs : WF_publishingVars(InImages /\ Publishing(p))
    /\ \A p \in Requests : WF_publishingVars(InImages /\ Handling(p))
    /\ \A p \in Recoverers : WF_publishingVars(InImages /\ Recover(p))
    /\ SF_publishingVars(InImages /\ CleanupList)
    /\ WF_publishingVars(InImages /\ CleanupDelete)
    /\ \A w \in Workers : /\ WF_publishingVars(InDispatch /\ LeasePendingEvents(w))
                          /\ WF_publishingVars(InDispatch /\ Work(w))
    /\ \A e \in SiteEvents : WF_publishingVars(InDispatch /\ LeaseRunsOut(e))

PublishingSpec == PublishingInit /\ [][PublishingNext]_publishingVars /\ PublishingFairness
=============================================================================
