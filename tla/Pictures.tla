------------------------------- MODULE Pictures -------------------------------
(***************************************************************************)
(* Pictures of users and services.  The picture lies in a bucket, its      *)
(* address in a document; a new one is uploaded, then the one the document *)
(* named at the beginning is deleted, then the document is written.        *)
(***************************************************************************)
EXTENDS Handlers, FiniteSets

CONSTANTS
  Portrayed,    \* users, who may have a profile picture
  Illustrated,  \* services, which may have an image
  Objects,      \* bound: objects uploaded in one behaviour
  NoPicture

ASSUME PictureAssumption ==
  /\ Portrayed \cap Illustrated = {}
  /\ NoPicture \notin Objects

VARIABLES
  picture,  \* the address in a document: profilePicture or imageUrl
  bucket,   \* objects that lie in the bucket
  used      \* objects that were ever uploaded; every upload has a name of its own

pictureVars == <<picture, bucket, used>>

Owners == Portrayed \cup Illustrated

\* old: the address read at the beginning; new: the one to write.
PictureLocal ==
  [todo : Seq({"upload", "delete", "write"}) \ {<<>>}, owner : Owners,
   old : Objects \cup {NoPicture}, new : Objects \cup {NoPicture}]

PicturesTypeOK ==
  /\ picture \in [Owners -> Objects \cup {NoPicture}]
  /\ bucket \subseteq used
  /\ used \subseteq Objects

PicturesInit ==
  /\ picture = [o \in Owners |-> NoPicture]
  /\ bucket = {}
  /\ used = {}

(* A faulty variant of Delete, which reads the address again; the specification
   does not use it. *)
DeleteCurrent(r) ==
  /\ At(r, "delete")
  /\ bucket' = bucket \ {picture[request[r].owner]}
  /\ Advance(r)
  /\ UNCHANGED <<picture, used>>

-----------------------------------------------------------------------------
ReplaceSteps(old) ==
  <<"upload">> \o (IF old = NoPicture THEN <<>> ELSE <<"delete">>) \o <<"write">>

PictureRequest(r, o, todo) ==
  /\ Accept(r, [todo |-> todo, owner |-> o, old |-> picture[o], new |-> NoPicture])
  /\ UNCHANGED pictureVars

UploadProfilePicture(r, u) == PictureRequest(r, u, ReplaceSteps(picture[u]))
UploadServiceImage(r, s) == PictureRequest(r, s, ReplaceSteps(picture[s]))

DeleteServiceImage(r, s) ==
  /\ picture[s] # NoPicture
  /\ PictureRequest(r, s, <<"delete", "write">>)

Upload(r) ==
  /\ At(r, "upload")
  /\ \E x \in Objects \ used :
       /\ used' = used \cup {x}
       /\ bucket' = bucket \cup {x}
       /\ Continues(r, Rest([request[r] EXCEPT !.new = x]))
  /\ UNCHANGED picture

\* Deleting what is no longer there is no error.
Delete(r) ==
  /\ At(r, "delete")
  /\ bucket' = bucket \ {request[r].old}
  /\ Advance(r)
  /\ UNCHANGED <<picture, used>>

\* The old image of a service may fail to be deleted; the handler goes on.
DeleteFails(r) ==
  /\ At(r, "delete")
  /\ request[r].owner \in Illustrated
  /\ request[r].new # NoPicture
  /\ Advance(r)
  /\ UNCHANGED pictureVars

WritePicture(r) ==
  /\ At(r, "write")
  /\ picture' = [picture EXCEPT ![request[r].owner] = request[r].new]
  /\ Advance(r)
  /\ UNCHANGED <<bucket, used>>

OfPicture(r) == request[r] # Idle /\ "owner" \in DOMAIN request[r]

PictureFails(r) == OfPicture(r) /\ Cut(r) /\ UNCHANGED pictureVars

ImageRequests(r, s) == UploadServiceImage(r, s) \/ DeleteServiceImage(r, s)

PortraitRequests(r) == \E u \in Portrayed : UploadProfilePicture(r, u)

PictureGoesOn(r) ==
  Upload(r) \/ Delete(r) \/ DeleteFails(r) \/ WritePicture(r) \/ PictureFails(r)

-----------------------------------------------------------------------------
(* Properties.                                                              *)

\* Whichever uploads and deletions overlap, a document names a picture that is in
\* the bucket, unless a handler that read this address is yet to write another one
\* or was cut short (uploadProfilePicture, uploadServiceImage, deleteServiceImage).
PictureIsThere ==
  \A o \in Owners :
    \/ picture[o] \in bucket \cup {NoPicture}
    \/ \E r \in Requests :
         At(r, "write") /\ request[r].owner = o /\ request[r].old = picture[o]
    \/ faults > 0
=============================================================================
