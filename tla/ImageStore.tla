------------------------------ MODULE ImageStore ------------------------------
(***************************************************************************)
(* The images in S3: uploads (ImageController, ImageService), the rows     *)
(* that name them, and the nightly clean-up (image.scheduler.ts).          *)
(*                                                                         *)
(* Time is in hours of UTC.  A key carries the UTC date of its upload; the *)
(* job runs at 02:00 in Seoul and lists the keys of the date that was      *)
(* there two days before.                                                  *)
(***************************************************************************)
EXTENDS Integers

CONSTANTS
  Images,    \* files
  Uploads,   \* requests handled at a time
  Cleanups,  \* runs of the job, one for each instance of the server
  Hours,     \* hours of the day at which things happen
  MaxDay     \* bound on the days

ASSUME ImageAssumption ==
  /\ Hours \subseteq 0..23 /\ 17 \in Hours
  /\ MaxDay \in Nat

VARIABLES
  now,
  store,        \* objects in the bucket
  given,        \* those whose URL a client has
  uploadedAt,   \* when the request that brings the file began
  requestedAt,  \* when a row of request_images first named it
  shownAt,      \* when a profile or a design first named it
  upload,       \* upload[c]: where a request stands
  cleanup       \* cleanup[r]: where a run stands

imageVars ==
  <<now, store, given, uploadedAt, requestedAt, shownAt, upload, cleanup>>

-----------------------------------------------------------------------------
Times == 0..(24 * MaxDay + 23)
Never == -1

ImageTypeOK ==
  /\ now \in Times
  /\ store \in SUBSET Images /\ given \in SUBSET Images
  /\ uploadedAt \in [Images -> Times \union {Never}]
  /\ requestedAt \in [Images -> Times \union {Never}]
  /\ shownAt \in [Images -> Times \union {Never}]
  /\ upload \in [Uploads -> [pc : {"idle", "put", "refused"},
                             files : SUBSET Images, left : SUBSET Images]]
  /\ \A c \in Uploads : upload[c].pc = "put" => upload[c].left # {}
  /\ cleanup \in [Cleanups -> [pc : {"idle", "find", "delete"},
                               keys : SUBSET Images]]

ImageInit ==
  /\ now = 0
  /\ store = {} /\ given = {}
  /\ uploadedAt = [i \in Images |-> Never]
  /\ requestedAt = uploadedAt /\ shownAt = uploadedAt
  /\ upload = [c \in Uploads |-> [pc |-> "idle", files |-> {}, left |-> {}]]
  /\ cleanup = [r \in Cleanups |-> [pc |-> "idle", keys |-> {}]]

-----------------------------------------------------------------------------
(* new Date().toISOString().split('T')[0] *)
UtcDate(t) == t \div 24

(* Variant: the clean-up takes yesterday's images. *)
YesterdaysDate(t) == (t + 9) \div 24 - 1

(* getTargetDate(2). *)
TargetDate(t) == (t + 9) \div 24 - 2

(* The first run that lists images of date d: the hour at which it begins. *)
CleanupHour(d) == 24 * (d + 2) - 9 + 2

UploadTo(c, pc, files, left) ==
  upload' = [upload EXCEPT ![c] = [pc |-> pc, files |-> files, left |-> left]]

CleanupTo(r, pc, keys) ==
  cleanup' = [cleanup EXCEPT ![r] = [pc |-> pc, keys |-> keys]]

-----------------------------------------------------------------------------
(* uploadImages looks at all signatures first; one bad file refuses all.   *)
BeginUpload(c, files, bad) ==
  /\ upload[c].pc # "put"
  /\ files # {} /\ \A i \in files : uploadedAt[i] = Never
  /\ uploadedAt' = [i \in Images |-> IF i \in files THEN now ELSE uploadedAt[i]]
  /\ IF bad = {} THEN UploadTo(c, "put", files, files)
     ELSE UploadTo(c, "refused", files, {})
  /\ UNCHANGED <<now, store, given, requestedAt, shownAt, cleanup>>

(* PutObject of the next file; after the last one the client gets the URLs. *)
PutImage(c, i) ==
  LET u == upload[c] IN
  /\ u.pc = "put" /\ i \in u.left
  /\ store' = store \union {i}
  /\ IF u.left = {i}
     THEN given' = given \union u.files /\ UploadTo(c, "idle", {}, {})
     ELSE UploadTo(c, "put", u.files, u.left \ {i}) /\ UNCHANGED given
  /\ UNCHANGED <<now, uploadedAt, requestedAt, shownAt, cleanup>>

(* PutObject fails: PhotoUploadFailedError; what was put before stays. *)
FailUpload(c) ==
  /\ upload[c].pc = "put"
  /\ UploadTo(c, "idle", {}, {})
  /\ UNCHANGED <<now, store, given, uploadedAt, requestedAt, shownAt, cleanup>>

(* A client sends the URL with an estimate request (EstimateRequest, Save): *)
(* nobody looks whether the object is still there.                          *)
RequestWith(i) ==
  /\ i \in given /\ requestedAt[i] = Never
  /\ requestedAt' = [requestedAt EXCEPT ![i] = now]
  /\ UNCHANGED <<now, store, given, uploadedAt, shownAt, upload, cleanup>>

(* Or as profile picture (Account, UpdateUser), or of a design (Design). *)
ShowWith(i) ==
  /\ i \in given /\ shownAt[i] = Never
  /\ shownAt' = [shownAt EXCEPT ![i] = now]
  /\ UNCHANGED <<now, store, given, uploadedAt, requestedAt, upload, cleanup>>

-----------------------------------------------------------------------------
(* ListObjectsV2 of the target date, page by page; nothing to do without   *)
(* objects.                                                                *)
ListKeys(r) ==
  LET keys == {i \in store : UtcDate(uploadedAt[i]) = TargetDate(now)} IN
  /\ cleanup[r].pc = "idle"
  /\ (now + 9) % 24 = 2
  /\ keys # {}
  /\ CleanupTo(r, "find", keys)
  /\ UNCHANGED <<now, store, given, uploadedAt, requestedAt, shownAt, upload>>

(* requestImage.findMany: what no row names is to be deleted. *)
FindUnused(r) ==
  /\ cleanup[r].pc = "find"
  /\ CleanupTo(r, "delete", {i \in cleanup[r].keys : requestedAt[i] = Never})
  /\ UNCHANGED <<now, store, given, uploadedAt, requestedAt, shownAt, upload>>

(* DeleteObjects of a chunk; some may fail, one by one. *)
DeleteChunk(r) ==
  /\ cleanup[r].pc = "delete"
  /\ \E chunk \in SUBSET cleanup[r].keys :
       /\ chunk # {}
       /\ CleanupTo(r, "delete", cleanup[r].keys \ chunk)
       /\ \E failed \in SUBSET chunk : store' = store \ (chunk \ failed)
  /\ UNCHANGED <<now, given, uploadedAt, requestedAt, shownAt, upload>>

(* All chunks are done, a call failed or the server died: nothing tries    *)
(* this date again.                                                        *)
EndCleanup(r) ==
  /\ cleanup[r].pc # "idle"
  /\ CleanupTo(r, "idle", {})
  /\ UNCHANGED <<now, store, given, uploadedAt, requestedAt, shownAt, upload>>

Tick ==
  /\ \E t \in Times :
       /\ t > now /\ t % 24 \in Hours
       /\ \A x \in now + 1..t - 1 : x % 24 \notin Hours
       /\ now' = t
  /\ UNCHANGED <<store, given, uploadedAt, requestedAt, shownAt, upload, cleanup>>

-----------------------------------------------------------------------------
ImageNext ==
  \/ \E c \in Uploads :
       \/ \E files \in SUBSET Images : \E bad \in SUBSET files : BeginUpload(c, files, bad)
       \/ \E i \in Images : PutImage(c, i)
       \/ FailUpload(c)
  \/ \E i \in Images : RequestWith(i) \/ ShowWith(i)
  \/ \E r \in Cleanups : ListKeys(r) \/ FindUnused(r) \/ DeleteChunk(r) \/ EndCleanup(r)
  \/ Tick

ImageSpec == ImageInit /\ [][ImageNext]_imageVars

-----------------------------------------------------------------------------
(* The day and a half a client has: an image is not deleted within         *)
(* seventeen hours of its upload, though the key has the date of UTC and   *)
(* the job that of Seoul.                                                  *)
FreshImagesStay == \A i \in store \ store' : now - uploadedAt[i] > 17

(* An image whose request was stored before the night in which the job     *)
(* looks for it is never deleted, whenever the runs are held up and        *)
(* however many there are (image.scheduler.ts:24).                         *)
RequestedImagesStay ==
  \A i \in Images :
    requestedAt[i] # Never /\ requestedAt[i] < CleanupHour(UtcDate(uploadedAt[i]))
      => i \in store

(* An upload refused for a file that is no image leaves nothing in the     *)
(* bucket (image.service.ts:70).                                           *)
RefusedLeavesNothing ==
  \A c \in Uploads : upload[c].pc = "refused" => upload[c].files \cap store = {}

(* The bucket holds what it should, whatever uploads, requests and runs of *)
(* the job overlap.                                                        *)
BucketIsRight ==
  [][FreshImagesStay /\ RequestedImagesStay' /\ RefusedLeavesNothing']_imageVars

(* What RequestedImagesStay says of requests, for pictures of profiles and *)
(* designs, which the job takes for unused.  Violated.                     *)
ShownImagesStay ==
  \A i \in Images :
    shownAt[i] # Never /\ shownAt[i] < CleanupHour(UtcDate(uploadedAt[i]))
      => i \in store
=============================================================================
