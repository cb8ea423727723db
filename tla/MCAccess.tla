------------------------------ MODULE MCAccess --------------------------------
(***************************************************************************)
(* Who may act and what is acted upon, checked side by side: each          *)
(* behaviour is one of the moderated tree of a moment and its comment, of  *)
(* the login methods, of the sessions, of the rate limit of a caller or of *)
(* the pictures of an article, which share no state, and leaves the others *)
(* in their initial state.                                                 *)
(***************************************************************************)
EXTENDS MCModeration, LoginMethods, Sessions, RateLimits, ArticleAssets

CONSTANTS u1, u2, i1, i2, f1, f2, m1, m2, p1, p2, e1, e2

VARIABLE part

accessVars == <<part, vars, loginVars, sessionVars, limitVars, articleVars>>

\* An identity on each of two platforms.
Platforms == (i1 :> "github") @@ (i2 :> "qq")

\* The longest ban lasts as long as bans are remembered.
Ladder == <<1, 2, 3>>

\* Requests, keys, pictures, users and the like are alike. Only one component moves, so that
\* sets of different components may be permuted together.
Flip(S) == CHOOSE f \in Permutations(S) : \E x \in S : f[x] # x

FlipObjects == Flip(Clients) @@ Flip(Images) @@ Flip(Users) @@ Flip(Members) @@ Flip(Visits)
FlipActors == Flip(Keys) @@ Flip(Editors) @@ Flip(Flows) @@ Flip(Calls) @@ Flip(Routes)

Alike == {[x \in Clients |-> x]} \cup {FlipObjects, FlipActors, FlipObjects @@ FlipActors}

EditorsAtWork == {e \in Editors : Editing(e)}

InTemp == objects \cap ({"temp"} \X Images)

\* Bounds of the exploration: once two requests have met on a picture, those under way
\* finish, nothing else begins and nothing is uploaded or put into the trash, and once they
\* have met on each, nothing is left to check. One save is taken back, and none once two
\* requests have met; until its copies are back requests begin one after the other.
ArticleNextBounded ==
    /\ tangled # Images
    /\ ArticleNext
    /\ \/ tangled = {} /\ (withdrawn = {} \/ EditorsAtWork = {})
       \/ EditorsAtWork' \subseteq EditorsAtWork
    /\ tangled # {} => InTemp' \subseteq InTemp /\ (article'.row = "trashed" => article.row = "trashed")
    /\ tangled \cup withdrawn # {} => withdrawn' \subseteq withdrawn

AccessInit ==
    /\ part \in {"tree", "logins", "sessions", "limits", "articles"}
    /\ Init /\ LoginInit /\ SessionInit /\ LimitInit /\ ArticleInit

AccessNext ==
    /\ UNCHANGED part
    /\ \/ /\ part = "tree" /\ Next
          /\ UNCHANGED <<loginVars, sessionVars, limitVars, articleVars>>
       \/ /\ part = "logins" /\ LoginNext
          /\ UNCHANGED <<vars, sessionVars, limitVars, articleVars>>
       \/ /\ part = "sessions" /\ SessionNext
          /\ UNCHANGED <<vars, loginVars, limitVars, articleVars>>
       \/ /\ part = "limits" /\ LimitNext
          /\ UNCHANGED <<vars, loginVars, sessionVars, articleVars>>
       \/ /\ part = "articles" /\ ArticleNextBounded
          /\ UNCHANGED <<vars, loginVars, sessionVars, limitVars>>

AccessSpec == AccessInit /\ [][AccessNext]_accessVars
=============================================================================
