------------------------------- MODULE MCFilmPage -------------------------------
(***************************************************************************)
(* The page of a film on a small instance for TLC.                         *)
(***************************************************************************)
EXTENDS FilmPage

\* The TTL of a name is twice that of a document.
CacheTtl == [film |-> 1, list |-> 1, person |-> 1, name |-> 2]
=============================================================================
