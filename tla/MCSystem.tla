------------------------------- MODULE MCSystem -------------------------------
(***************************************************************************)
(* The safety of the parts that need no run of their own: reviews, designs,*)
(* hearts, the shops' data, lists, images, shop matching, social logins and*)
(* the way of a request to its handler.  What the parts share is an        *)
(* external step of each module, so a behaviour is one of a single part.   *)
(***************************************************************************)
EXTENDS
  Review, Design, ShopWish, ShopSync, Listing, ImageStore, Matching,
  SocialLogin, Http, TLC

CONSTANTS
  c1, c2             \* calls

VARIABLE part

(* The first shop is the farthest; limits and radii in proportion. *)
MCDistance == 1 :> 2 @@ 2 :> 1 @@ 3 :> 1
MCPolicy ==
  [type \in {"CLOSE", "BALANCED", "WIDE", "CHEAP"} |->
     IF type = "CLOSE" THEN [radius |-> 1, limit |-> 1] ELSE [radius |-> 2, limit |-> 2]]

(* All is set, what must be, or the secret is missing. *)
MCEnvironments ==
  LET all == Required \union {"SMS_WEBHOOK_KEY", "DESIGN_ADMIN_KEY", "SHOP_SYNC_ADMIN_KEY"} IN
  {all, Required, all \ {"JWT_ACCESS_SECRET"}}

MCVars ==
  <<part, reviewVars, designVars, wishVars, syncVars, listVars, imageVars,
    matchingVars, loginVars, httpVars>>

-----------------------------------------------------------------------------
(* Every part is symmetric in the two calls, and in the images. *)
MCSymmetry == Permutations({c1, c2}) \union Permutations(Images)

MCInit ==
  /\ part \in {"review", "design", "wish", "sync", "list", "image",
              "matching", "login", "http"}
  /\ ReviewInit /\ DesignInit /\ WishInit /\ SyncInit /\ ListInit /\ ImageInit
  /\ MatchingInit /\ LoginInit /\ HttpInit
  /\ part # "sync" => listing = <<>>
  /\ part # "list" => list = "designs" /\ walk.size = 1 /\ \A i \in RowIds : rowTime[i] = 1
  /\ part # "http" => environment = Required
  /\ \A s \in Candidates : listed[s] <=> part = "matching"

MCNext ==
  /\ UNCHANGED part
  /\ IF part = "review" THEN ReviewNext ELSE UNCHANGED reviewVars
  /\ IF part = "design" THEN DesignNext ELSE UNCHANGED designVars
  /\ IF part = "wish" THEN WishNext ELSE UNCHANGED wishVars
  /\ IF part = "sync" THEN SyncNext ELSE UNCHANGED syncVars
  /\ IF part = "list" THEN ListNext ELSE UNCHANGED listVars
  /\ IF part = "image" THEN ImageNext ELSE UNCHANGED imageVars
  /\ IF part = "matching" THEN MatchingNext ELSE UNCHANGED matchingVars
  /\ IF part = "login" THEN LoginNext ELSE UNCHANGED loginVars
  /\ IF part = "http" THEN HttpNext ELSE UNCHANGED httpVars

MCSpec == MCInit /\ [][MCNext]_MCVars

-----------------------------------------------------------------------------
(* All parts keep their types: locks are held by who is at work, lists of  *)
(* what is left are not empty, and the like.                               *)
SystemTypeOK ==
  /\ ReviewTypeOK /\ DesignTypeOK /\ WishTypeOK /\ SyncTypeOK /\ ListTypeOK
  /\ ImageTypeOK /\ MatchingTypeOK /\ LoginTypeOK /\ HttpTypeOK

=============================================================================
