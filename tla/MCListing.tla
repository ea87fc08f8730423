------------------------------- MODULE MCListing -------------------------------
(***************************************************************************)
(* Small instances of Listing.                                             *)
(***************************************************************************)
EXTENDS Listing, TLC

\* A plain listing with one and with two rows a page, a collapsed one, and
\* collapsed ones that filter.
Everything == [collapse |-> FALSE, since |-> 0, label |-> None, limit |-> 1]
SomeRequests ==
  {Everything,
   [Everything EXCEPT !.limit = 2],
   [Everything EXCEPT !.collapse = TRUE],
   [Everything EXCEPT !.collapse = TRUE, !.since = 2],
   [Everything EXCEPT !.collapse = TRUE, !.label = "a"]}

RootOrFirst == {None, 1}
=============================================================================
