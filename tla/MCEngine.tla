----------------------------- MODULE MCEngine -------------------------------
(***************************************************************************)
(* One match, kicking off at 19:00, and two markets of the catalog, one of *)
(* them composite.  The match may be moved forward by 40 minutes.  The     *)
(* instants: beyond the horizon, a day before, ten minutes before, in      *)
(* play, after the match, past the deadline on the next day, and past the  *)
(* listing on the day after.                                               *)
(***************************************************************************)
EXTENDS Engine

The(slug) == CHOOSE d \in classAMarkets : d.slug = slug
MCDefs == <<The(<<"home-win", 0, 0>>), The(<<"btts", 0, 0>>)>>

MCStartTimes == {1140, 1100}
MCInstants == {-19860, -300, 1130, 1190, 1255, 1940, 2900}
=============================================================================
