-------------------------------- MODULE Design --------------------------------
(***************************************************************************)
(* The design catalogue: administrators create, change and delete designs  *)
(* and their tags, users look at them and put them on their wish list      *)
(* (DesignController, DesignService, DesignAdminService,                   *)
(* PrismaDesignRepository).                                                *)
(*                                                                         *)
(* Creating and changing are REPEATABLE READ transactions; their rows      *)
(* appear when SaveDesign commits.  The statements of a wish are each      *)
(* committed at once.  A call may come again after it has been answered.   *)
(***************************************************************************)
EXTENDS FiniteSets

CONSTANTS
  Designs,       \* ids
  Tags,          \* names
  OldTags,       \* those the catalogue starts with
  Fans,          \* users
  AdminCalls, WishCalls,
  NoDesign, NoTag

ASSUME DesignAssumption ==
  /\ OldTags \subseteq Tags /\ Fans # {}
  /\ NoDesign \notin Designs /\ NoTag \notin Tags

VARIABLES
  designs,     \* rows of designs
  deleted,     \* ids that are used up
  tags,        \* rows of tags
  designTags,  \* the tags of each design
  wishes,      \* rows of wish_designs
  admin,       \* admin[c]: a call of an administrator
  wish         \* wish[c]: a call of a user

designVars == <<designs, deleted, tags, designTags, wishes, admin, wish>>

-----------------------------------------------------------------------------
Replies == {"none", "ok", "notFound", "error"}

(* gone: at some time of the call there was no such design. *)
AdminRecord ==
  [pc : {"answered", "select", "insert"},
   op : {"create", "retag", "edit"},
   design : Designs \union {NoDesign},
   names : SUBSET Tags,                 \* dto.tags
   resolved : SUBSET Tags,              \* those whose id is known
   inserted : SUBSET Tags,              \* those this transaction inserted
   tag : Tags \union {NoTag},           \* the one being inserted
   reading : BOOLEAN,                   \* the snapshot is fixed
   snapshot : SUBSET Tags,
   gone : BOOLEAN, reply : Replies]

(* undone: while the call ran the wish was taken back or the design went. *)
WishRecord ==
  [pc : {"answered", "select", "insert", "remove", "count", "increment"},
   op : {"wish", "unwish", "view"},
   design : Designs \union {NoDesign}, fan : Fans,
   gone : BOOLEAN, undone : BOOLEAN, reply : Replies]

DesignTypeOK ==
  /\ designs \in SUBSET Designs
  /\ deleted \in SUBSET (Designs \ designs)
  /\ tags \in SUBSET Tags
  /\ designTags \in [Designs -> SUBSET tags]
  /\ wishes \in SUBSET (designs \X Fans)
  /\ admin \in [AdminCalls -> AdminRecord]
  /\ wish \in [WishCalls -> WishRecord]

NewAdmin(op, d, ns) ==
  [pc |-> "select", op |-> op, design |-> d, names |-> ns, resolved |-> {},
   inserted |-> {}, tag |-> NoTag, reading |-> FALSE, snapshot |-> {},
   gone |-> d \notin designs, reply |-> "none"]

NewWish(pc, op, d, u) ==
  [pc |-> pc, op |-> op, design |-> d, fan |-> u,
   gone |-> d \notin designs, undone |-> FALSE,
   reply |-> IF pc = "answered" THEN "notFound" ELSE "none"]

DesignInit ==
  /\ designs = {} /\ deleted = {} /\ wishes = {}
  /\ tags = OldTags
  /\ designTags = [d \in Designs |-> {}]
  /\ admin = [c \in AdminCalls |->
       [NewAdmin("edit", NoDesign, {}) EXCEPT !.pc = "answered"]]
  /\ wish = [c \in WishCalls |->
       [NewWish("answered", "view", NoDesign, CHOOSE u \in Fans : TRUE)
          EXCEPT !.reply = "none"]]

-----------------------------------------------------------------------------
AdminTo(c, r) == admin' = [admin EXCEPT ![c] = r]

(* Rolled back or committed; of the call only the answer is kept. *)
AnswerAdmin(c, reply) ==
  AdminTo(c, [NewAdmin("edit", NoDesign, {}) EXCEPT
    !.pc = "answered", !.reply = reply, !.gone = admin[c].gone])

Pending == UNION {admin[c].inserted : c \in AdminCalls}

(* createDesign, updateDesign with a validated body. *)
BeginCreateDesign(c, ns) ==
  /\ admin[c].pc = "answered"
  /\ AdminTo(c, NewAdmin("create", NoDesign, ns))
  /\ UNCHANGED <<designs, deleted, tags, designTags, wishes, wish>>

BeginUpdateDesign(c, op, d, ns) ==
  /\ admin[c].pc = "answered"
  /\ op = "edit" => ns = {}
  /\ AdminTo(c, NewAdmin(op, d, ns))
  /\ UNCHANGED <<designs, deleted, tags, designTags, wishes, wish>>

(* The SELECT of tag.upsert; the first one of a transaction fixes its      *)
(* snapshot.                                                               *)
SelectTag(c, t) ==
  LET r == admin[c]
      seen == IF r.reading THEN r.snapshot ELSE tags
  IN /\ r.pc = "select"
     /\ t \in r.names \ r.resolved
     /\ AdminTo(c, IF t \in seen
          THEN [r EXCEPT !.reading = TRUE, !.snapshot = seen,
                         !.resolved = @ \union {t}]
          ELSE [r EXCEPT !.reading = TRUE, !.snapshot = seen,
                         !.pc = "insert", !.tag = t])
     /\ UNCHANGED <<designs, deleted, tags, designTags, wishes, wish>>

(* The INSERT of tag.upsert; it waits for another transaction's insert of  *)
(* the same name.                                                          *)
InsertTag(c) ==
  LET r == admin[c] IN
  /\ r.pc = "insert"
  /\ r.tag \notin tags \union Pending
  /\ AdminTo(c, [r EXCEPT !.pc = "select", !.resolved = @ \union {r.tag},
                          !.inserted = @ \union {r.tag}])
  /\ UNCHANGED <<designs, deleted, tags, designTags, wishes, wish>>

(* P2002, and findUniqueOrThrow reads the snapshot again, which is older   *)
(* than the row: P2025.  The service takes that for a missing design.      *)
RereadTag(c) ==
  LET r == admin[c] IN
  /\ r.pc = "insert"
  /\ r.tag \in tags
  /\ AnswerAdmin(c, IF r.op = "create" THEN "error" ELSE "notFound")
  /\ UNCHANGED <<designs, deleted, tags, designTags, wishes, wish>>

(* design.create or design.update, and the commit.                         *)
SaveDesign(c) ==
  LET r == admin[c] IN
  /\ r.pc = "select" /\ r.names = r.resolved
  /\ \/ /\ r.op = "create"
        /\ \E d \in Designs \ (designs \union deleted) :
             /\ designs' = designs \union {d}
             /\ designTags' = [designTags EXCEPT ![d] = r.names]
        /\ tags' = tags \union r.inserted
        /\ AnswerAdmin(c, "ok")
     \/ /\ r.op # "create" /\ r.design \in designs
        /\ designTags' = [designTags EXCEPT ![r.design] =
                            IF r.op = "edit" THEN @ ELSE r.names]
        /\ tags' = tags \union r.inserted
        /\ AnswerAdmin(c, "ok")
        /\ UNCHANGED designs
     \/ /\ r.op # "create" /\ r.design \notin designs
        /\ AnswerAdmin(c, "notFound")
        /\ UNCHANGED <<designs, designTags, tags>>
  /\ UNCHANGED <<deleted, wishes, wish>>

(* Any statement can fail, also as the victim of a deadlock between two    *)
(* that insert the same names.                                             *)
AbortDesign(c) ==
  /\ admin[c].pc # "answered"
  /\ AnswerAdmin(c, "error")
  /\ UNCHANGED <<designs, deleted, tags, designTags, wishes, wish>>

(* deleteDesign: one statement, with the cascades.                         *)
DeleteDesign(d) ==
  /\ d \in designs
  /\ designs' = designs \ {d}
  /\ deleted' = deleted \union {d}
  /\ designTags' = [designTags EXCEPT ![d] = {}]
  /\ wishes' = {w \in wishes : w[1] # d}
  /\ admin' = [c \in AdminCalls |-> [admin[c] EXCEPT !.gone = @ \/ admin[c].design = d]]
  /\ wish' = [c \in WishCalls |-> [wish[c] EXCEPT !.gone = @ \/ wish[c].design = d,
                                                 !.undone = @ \/ wish[c].design = d]]
  /\ UNCHANGED tags

-----------------------------------------------------------------------------
WishTo(c, r) == wish' = [wish EXCEPT ![c] = r]

(* Of the call only the answer is kept. *)
AnswerWish(c, reply) ==
  WishTo(c, [NewWish("answered", "view", NoDesign, wish[c].fan) EXCEPT
    !.reply = reply, !.gone = wish[c].gone])

(* existsById of createWish and deleteWish, findDetailById of              *)
(* getDesignDetail: 404 if there is no such design.                        *)
FindDesign(c, op, d, u) ==
  LET first == [wish |-> "select", unwish |-> "remove", view |-> "increment"] IN
  /\ wish[c].pc = "answered"
  /\ WishTo(c, IF d \in designs THEN NewWish(first[op], op, d, u)
               ELSE NewWish("answered", "view", NoDesign, u))
  /\ UNCHANGED <<designs, deleted, tags, designTags, wishes, admin>>

(* incrementViewCount and isWishedByUser; P2025 if the design is gone. *)
IncrementViews(c) ==
  /\ wish[c].pc = "increment"
  /\ AnswerWish(c, IF wish[c].design \in designs THEN "ok" ELSE "notFound")
  /\ UNCHANGED <<designs, deleted, tags, designTags, wishes, admin>>

(* The two statements of wishDesign.upsert. *)
SelectWish(c) ==
  LET r == wish[c]
      there == <<r.design, r.fan>> \in wishes
  IN /\ r.pc = "select"
     /\ WishTo(c, [r EXCEPT !.pc = IF there THEN "count" ELSE "insert"])
     /\ UNCHANGED <<designs, deleted, tags, designTags, wishes, admin>>

(* Variant: any failure of the upsert counts as success. *)
InsertWishOrNot(c) ==
  LET r == wish[c] IN
  /\ r.pc = "insert"
  /\ WishTo(c, [r EXCEPT !.pc = "count"])
  /\ wishes' \in {wishes, wishes \union ({<<r.design, r.fan>>} \cap (designs \X Fans))}
  /\ UNCHANGED <<designs, deleted, tags, designTags, admin>>

(* P2003 without the design: 404.  P2002 for a wish that is there by now   *)
(* is success.                                                             *)
InsertWish(c) ==
  LET r == wish[c] IN
  /\ r.pc = "insert"
  /\ IF r.design \in designs
     THEN /\ wishes' = wishes \union {<<r.design, r.fan>>}
          /\ WishTo(c, [r EXCEPT !.pc = "count"])
     ELSE /\ AnswerWish(c, "notFound")
          /\ UNCHANGED wishes
  /\ UNCHANGED <<designs, deleted, tags, designTags, admin>>

(* deleteMany; no row is no error. *)
RemoveWish(c) ==
  LET r == wish[c] IN
  /\ r.pc = "remove"
  /\ wishes' = wishes \ {<<r.design, r.fan>>}
  /\ wish' = [x \in WishCalls |->
       IF x = c THEN [r EXCEPT !.pc = "count"]
       ELSE [wish[x] EXCEPT !.undone = @ \/ (wish[x].design = r.design /\ wish[x].fan = r.fan)]]
  /\ UNCHANGED <<designs, deleted, tags, designTags, admin>>

(* wishDesign.count and the answer. *)
CountWishes(c) ==
  /\ wish[c].pc = "count"
  /\ AnswerWish(c, "ok")
  /\ UNCHANGED <<designs, deleted, tags, designTags, wishes, admin>>

(* A statement fails, or the server dies. *)
FailWish(c) ==
  /\ wish[c].pc # "answered"
  /\ AnswerWish(c, "error")
  /\ UNCHANGED <<designs, deleted, tags, designTags, wishes, admin>>

-----------------------------------------------------------------------------
DesignNext ==
  \/ \E c \in AdminCalls :
       \/ \E ns \in SUBSET Tags :
            \/ BeginCreateDesign(c, ns)
            \/ \E op \in {"retag", "edit"}, d \in Designs : BeginUpdateDesign(c, op, d, ns)
       \/ \E t \in Tags : SelectTag(c, t)
       \/ InsertTag(c) \/ RereadTag(c) \/ SaveDesign(c) \/ AbortDesign(c)
  \/ \E d \in Designs : DeleteDesign(d)
  \/ \E c \in WishCalls :
       \/ \E op \in {"wish", "unwish", "view"}, d \in Designs, u \in Fans :
            FindDesign(c, op, d, u)
       \/ IncrementViews(c) \/ SelectWish(c) \/ InsertWish(c) \/ RemoveWish(c)
       \/ CountWishes(c) \/ FailWish(c)

DesignSpec == DesignInit /\ [][DesignNext]_designVars

-----------------------------------------------------------------------------
(* A wish that is about to be answered with success is there               *)
(* unless it was taken back or the design deleted meanwhile, however many  *)
(* taps overlapped (design.repository.ts:301).                             *)
WishedIsWished ==
  \A c \in WishCalls :
    LET r == wish[c] IN
    r.op = "wish" /\ r.pc = "count" /\ ~r.undone
      => <<r.design, r.fan>> \in wishes

(* A user is told that a design does not exist only if it did not.         *)
MissingForUsersIsTrue == \A c \in WishCalls : wish[c].reply = "notFound" => wish[c].gone

(* What a user is told of a wish is true when it is told.                  *)
WishAnswersTrue == WishedIsWished /\ MissingForUsersIsTrue

(* The same for an administrator (design-admin.service.test.ts:145 ties    *)
(* P2025 to a missing design).  Violated.                                  *)
MissingForAdminsIsTrue == \A c \in AdminCalls : admin[c].reply = "notFound" => admin[c].gone

=============================================================================
