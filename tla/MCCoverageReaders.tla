------------------------- MODULE MCCoverageReaders -------------------------
(* Three requests, two of them from the feed, against two generations, two  *)
(* mutations and two worker cycles.                                         *)
EXTENDS CoverageReaders

CONSTANTS audit, feedA, feedB

MCReader == {audit, feedA, feedB}
MCFeed == {feedA, feedB}
=============================================================================
