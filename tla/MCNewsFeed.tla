----------------------------- MODULE MCNewsFeed ----------------------------
(***************************************************************************)
(* Three articles.  MCRegrouped: the two newer are a group under a name    *)
(* they inherited, then all are one.  MCJoined: all are one.  MCParted:    *)
(* all are one, but the two older were taken apart before the page was     *)
(* opened; in the next generation these two are all that is left.          *)
(*                                                                         *)
(* Or four: the oldest was taken out of a group of all before, so what is  *)
(* left of it is a group of three that can be split and joined pair by     *)
(* pair.  MCFallenApart: in each of two generations another three are a    *)
(* group, in the third nothing is.                                         *)
(***************************************************************************)
EXTENDS NewsFeed, SequencesExt

CONSTANTS all, filtered

\* The groups that joining along the edges gives, none with a rejected pair.
MCGroups(g, rejected) ==
  LET Join(parts, edge) ==
        LET whole == UNION {p \in parts : p \cap edge # {}}
        IN IF \E pair \in rejected : pair \subseteq whole THEN parts
           ELSE {p \in parts : p \cap edge = {}} \cup {whole}
  IN FoldLeft(Join, {{a} : a \in Articles}, Generations[g].edges)

MCArticles == 1..3
MCFeeds == {all, filtered}
MCFeedArticles == [feed \in MCFeeds |-> IF feed = all THEN MCArticles ELSE {1, 2}]

MCUncorrected == {}
MCCorrected == {[pair |-> {1, 2}, original |-> BundleId(2), made |-> 0]}

MCRegrouped ==
  << [edges |-> << {2, 3} >>, name |-> [p \in {{2, 3}} |-> BundleId(1)]],
     [edges |-> << {2, 3}, {1, 2} >>, name |-> [p \in {{1, 2, 3}} |-> BundleId(1)]] >>

MCJoined == << [edges |-> << {2, 3}, {1, 2} >>, name |-> [p \in {{1, 2, 3}} |-> BundleId(2)]] >>

MCParted ==
  << [edges |-> << {2, 3}, {1, 2} >>, name |-> [p \in {{1, 2, 3}} |-> BundleId(2)]],
     [edges |-> << {1, 2} >>, name |-> [p \in {{1, 2}} |-> BundleId(2)]] >>

MCFourArticles == 0..3
MCFourFeedArticles ==
  [feed \in MCFeeds |-> IF feed = all THEN MCFourArticles ELSE {1, 2}]
MCFourCorrected == {[pair |-> {0, 3}, original |-> BundleId(2), made |-> 0]}
MCFourJoined == << [edges |-> << {2, 3}, {1, 2}, {0, 3} >>,
                    name |-> [p \in {{0, 1, 2, 3}} |-> BundleId(2)]] >>

MCFourLater == 1..4
MCFourLaterFeedArticles == [feed \in MCFeeds |-> MCFourLater]
MCApart == {[pair |-> {2, 4}, original |-> BundleId(2), made |-> 0]}
MCFallenApart ==
  << [edges |-> << {2, 3}, {1, 2} >>, name |-> [p \in {{1, 2, 3}} |-> BundleId(2)]],
     [edges |-> << {1, 4}, {1, 3} >>, name |-> [p \in {{1, 3, 4}} |-> BundleId(2)]],
     [edges |-> << >>, name |-> [p \in {} |-> BundleId(2)]] >>
============================================================================
