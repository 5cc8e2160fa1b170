------------------------------ MODULE Storefront ------------------------------
(***************************************************************************)
(* What the salon shows of itself: the catalogue, and the pictures of its  *)
(* services and of the people in it.  The handlers of both interleave; an  *)
(* image belongs to a service that is in the catalogue.                    *)
(***************************************************************************)
EXTENDS Catalogue, Pictures

ASSUME ImagesAssumption == Illustrated = Services

vars == <<handlerVars, catalogueVars, pictureVars>>

StorefrontTypeOK ==
  /\ HandlersTypeOK /\ CatalogueTypeOK /\ PicturesTypeOK
  /\ request \in [Requests -> {Idle} \cup CatalogueLocal \cup PictureLocal]

Init == HandlersInit /\ CatalogueInit /\ PicturesInit

PicturesNext ==
  \E r \in Requests :
    \/ PortraitRequests(r)
    \/ \E v \in Services : service[v] # NoService /\ ImageRequests(r, v)
    \/ PictureGoesOn(r)

Next ==
  \/ CatalogueNext /\ UNCHANGED pictureVars
  \/ PicturesNext /\ UNCHANGED catalogueVars

Spec == Init /\ [][Next]_vars
=============================================================================
