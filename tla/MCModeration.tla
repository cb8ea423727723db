---------------------------- MODULE MCModeration ----------------------------
(* One moment and one comment below it. *)
EXTENDS Moderation, TLC

CONSTANTS moment, comment

MCItems == {moment, comment}
MCParent == (moment :> NoItem) @@ (comment :> moment)
MCMoments == {moment}

\* Or the comment alone, its moment being out of the picture.
MCItem == {comment}
MCRoot == comment :> NoItem
MCNone == {}

Symmetry == Permutations(Clients) \cup Permutations(Keys)
=============================================================================
