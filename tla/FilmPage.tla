-------------------------------- MODULE FilmPage --------------------------------
(***************************************************************************)
(* What stands behind the page of a film: reviews and ratings of           *)
(* ugc_service, the caches of async_api, the profiles of the authors.      *)
(*                                                                         *)
(* The four keep their state in different collections, keys and databases  *)
(* and read each other only through calls whose answers they do not wait   *)
(* on, so a behaviour gives its requests to one of them (`part`).          *)
(***************************************************************************)
EXTENDS UgcReviews, UgcRatings, ContentCache, Profiles

CONSTANT Parts \* of {"reviews", "ratings", "content", "profiles"}

VARIABLE part \* whose requests come in this behaviour

vars == <<part, reviewVars, ratingVars, cacheVars, profileVars>>

TypeOK == ReviewsTypeOK /\ RatingsTypeOK /\ CacheTypeOK /\ ProfilesTypeOK /\ part \in Parts

Init ==
  /\ part \in Parts
  /\ ReviewsInit /\ RatingsInit /\ CacheInit /\ ProfilesInit
  /\ part # "content" => kind = "film" \* else it does not matter

ReviewStep  == part = "reviews" /\ ReviewsNext /\ UNCHANGED <<ratingVars, cacheVars, profileVars>>
RatingStep  == part = "ratings" /\ RatingsNext /\ UNCHANGED <<reviewVars, cacheVars, profileVars>>
ContentStep == part = "content" /\ CacheNext /\ UNCHANGED <<reviewVars, ratingVars, profileVars>>
ProfileStep == part = "profiles" /\ ProfilesNext /\ UNCHANGED <<reviewVars, ratingVars, cacheVars>>

Next == (ReviewStep \/ RatingStep \/ ContentStep \/ ProfileStep) /\ UNCHANGED part

Spec == Init /\ [][Next]_vars /\ RatingsFairness
=============================================================================
