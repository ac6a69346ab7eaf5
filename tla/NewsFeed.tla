----------------------------- MODULE NewsFeed ------------------------------
(***************************************************************************)
(* One open page of the story feed (HomePage.tsx) against the server.      *)
(*                                                                         *)
(* The page asks for feeds, for more of a feed, and for the default feed   *)
(* again every minute; its owner splits a group in a dialog and undoes the *)
(* split from a toast.  Every request is answered from the projection of   *)
(* some moment between asking and answering, and the answers arrive in any *)
(* order, or fail.  Meanwhile the worker publishes generations and another *)
(* tab corrects groups.                                                    *)
(*                                                                         *)
(* A handler between two awaits is one action, with the render and the     *)
(* effects that follow it.  A request that another has taken the place of  *)
(* (cancelled, or not the newest number) is dropped at once: its answer    *)
(* changes nothing here.  A split is still served then.                    *)
(***************************************************************************)
EXTENDS FeedProjection

CONSTANTS
  Default,        \* the feed of the bare URL
  Start,          \* the feed of the URL the page is opened with
  Corrected,      \* the active corrections when the page is opened
  MaxRevision,    \* bound: corrections and undos since then
  MaxOthers,      \* bound: the revision up to which the other tab is at work
  MaxReads,       \* bound: requests of pages in flight when one is added
  MaxSplits,      \* bound: split requests in flight
  MaxFailures     \* bound: requests that fail

\* A row of coverage_bundle_corrections; made (the revision) stands for its id.
Correction == [pair : ArticlePairs, original : BundleIds, made : Nat]

ASSUME FeedAssumption ==
  /\ Corrected \subseteq Correction /\ \A c \in Corrected : c.made = 0
  /\ {Default, Start} \subseteq Feeds /\ None \notin Feeds /\ None \notin Projection
  /\ Len(Generations) \in Nat \ {0}
  /\ {MaxRevision, MaxOthers, MaxReads, MaxSplits, MaxFailures} \subseteq Nat

VARIABLES
  generation,   \* the current active generation
  revision,     \* the correction revision
  active,       \* the active corrections
  page,         \* what is on display
  saved,        \* liveData: the last page of the default feed
  reads,        \* requests of pages in flight
  loading,      \* a feed is being fetched
  loadingMore,  \* and its next page
  dialog,       \* correctionDialog: a card in its context
  pending,      \* correctionPending
  splits,       \* split requests in flight
  toast,        \* undoState: corrections in their context
  undo,         \* the undo in flight
  failures      \* failures so far

serverVars == <<generation, revision, active>>
correctionVars == <<dialog, pending, splits, toast>>
vars == <<generation, revision, active, page, saved, reads, loading, loadingMore,
          dialog, pending, splits, toast, undo, failures>>

-----------------------------------------------------------------------------
(* The server *)

Now == [gen |-> generation, rev |-> revision]

ServedPage(feed, before) == FeedPage(feed, before, Now, active)

Commit(corrections) ==
  /\ revision < MaxRevision
  /\ revision' = revision + 1
  /\ active' = corrections
  /\ UNCHANGED generation

Publish ==
  /\ generation < Len(Generations)
  /\ generation' = generation + 1
  /\ UNCHANGED <<revision, active, page, saved, reads, loading, loadingMore, correctionVars, undo,
                 failures>>

\* Another tab of the owner splits a pair of a group, or undoes a correction.
OtherTab ==
  /\ revision < MaxOthers
  /\ \/ \E s \in Recomputed(Now, active) : \E x \in s.articles \ {s.primary} :
          Commit(active \cup {[pair |-> {s.primary, x}, original |-> s.original,
                               made |-> revision + 1]})
     \/ \E c \in active : Commit(active \ {c})
  /\ UNCHANGED <<page, saved, reads, loading, loadingMore, correctionVars, undo, failures>>

-----------------------------------------------------------------------------
(* The page *)

\* proj: None, or generationId and projectionRevision; older: additional pages
\* are loaded (loadedAdditionalPagesRef).  mixed is history: a later page once
\* gave a story on display other articles.
Show(feed, p) == [feed |-> feed, stories |-> p.items, next |-> p.next, proj |-> p.at,
                  older |-> FALSE, mixed |-> FALSE]
Blank(feed) == [feed |-> feed, stories |-> {}, next |-> None, proj |-> None, older |-> FALSE,
                mixed |-> FALSE]

\* A bug to catch: the projection is not compared.
InContext_AnyProjection(x, p) == x.feed = p.feed

\* coverageCorrectionContextMatches
InContext(x, p) == x.feed = p.feed /\ x.proj = p.proj

\* Splits nobody waits for, of which the server has yet to hear.
Abandoned(requests) ==
  {[s EXCEPT !.live = FALSE] : s \in {t \in requests : t.stage = "asked"}}

\* The effects of a render: a dialog or a toast of another feed or projection
\* goes, and with the dialog its request.
Render(p, d, busy, requests, t) ==
  LET stale == d # None /\ ~InContext(d, p)
  IN /\ page' = p
     /\ dialog' = IF stale THEN None ELSE d
     /\ pending' = (busy /\ ~stale)
     /\ splits' = IF stale THEN Abandoned(requests) ELSE requests
     /\ toast' = IF t # None /\ ~InContext(t, p) THEN None ELSE t

Redraw(p) == Render(p, dialog, pending, splits, toast)

Read(why, feed, before) == [why |-> why, feed |-> feed, before |-> before, answer |-> None]

Except(requests, whys) == {r \in requests : r.why \notin whys}

\* The effect on feedKey and liveData.  The default feed is drawn from liveData
\* and leaves a request for more as it is; any other feed is fetched.
Feed(feed, kept, requests) ==
  /\ loadingMore' = FALSE
  /\ IF feed = Default
     THEN /\ loading' = FALSE
          /\ reads' = Except(requests, {"feed"})
          /\ Redraw([Show(Default, kept) EXCEPT !.mixed = page.mixed])
     ELSE /\ loading' = TRUE
          /\ reads' = Except(requests, {"feed", "more"}) \cup {Read("feed", feed, None)}
          /\ Redraw([Blank(feed) EXCEPT !.mixed = page.mixed])

Init ==
  /\ generation = 1 /\ revision = 0 /\ active = Corrected
  /\ saved = ServedPage(Default, None)
  /\ IF Start = Default
     THEN page = Show(Default, saved) /\ reads = {}
     ELSE page = Blank(Start) /\ reads = {Read("feed", Start, None)}
  /\ loading = (Start # Default) /\ loadingMore = FALSE
  /\ dialog = None /\ pending = FALSE /\ splits = {} /\ toast = None
  /\ undo = None /\ failures = 0

SwitchFeed(feed) ==
  /\ feed # page.feed
  /\ Cardinality(reads) < MaxReads
  /\ Feed(feed, saved, reads)
  /\ UNCHANGED <<serverVars, saved, undo, failures>>

\* Waiting for the answer (cityPulseRefreshRunningRef), a second refresh returns.
Refreshed(requests) ==
  IF \E r \in requests : r.why = "refresh" THEN requests
  ELSE requests \cup {Read("refresh", Default, None)}

\* The interval, or the button, which every feed has.
Refresh ==
  /\ page.feed = Default \/ Cardinality(reads) < MaxReads
  /\ reads' = Refreshed(reads)
  /\ UNCHANGED <<serverVars, page, saved, loading, loadingMore, correctionVars, undo, failures>>

LoadMore ==
  /\ page.next # None /\ ~loadingMore
  /\ Cardinality(reads) < MaxReads
  /\ reads' = Except(reads, {"more"}) \cup {Read("more", page.feed, page.next)}
  /\ loadingMore' = TRUE
  /\ UNCHANGED <<serverVars, page, saved, loading, correctionVars, undo, failures>>

Serve(r) ==
  /\ r.answer = None
  /\ reads' = (reads \ {r}) \cup {[r EXCEPT !.answer = ServedPage(r.feed, r.before)]}
  /\ UNCHANGED <<serverVars, page, saved, loading, loadingMore, correctionVars, undo, failures>>

\* A bug to catch: a refresh that was answered still counts as running.
RefreshArrives_StaysRunning(r) ==
  /\ r.why = "refresh"
  /\ saved' = r.answer
  /\ Feed(page.feed, r.answer, reads)
  /\ UNCHANGED <<serverVars, undo, failures>>

RefreshArrives(r) ==
  /\ r.why = "refresh"
  /\ saved' = r.answer
  /\ Feed(page.feed, r.answer, reads \ {r})
  /\ UNCHANGED <<serverVars, undo, failures>>

FeedArrives(r) ==
  /\ r.why = "feed"
  /\ reads' = reads \ {r}
  /\ loading' = FALSE
  /\ Redraw([Show(page.feed, r.answer) EXCEPT !.older = page.older, !.mixed = page.mixed])
  /\ UNCHANGED <<serverVars, saved, loadingMore, undo, failures>>

\* mergeCityPulseStoryLists: a story that is there already gains articles, and
\* keeps its primary and its projection.
Merged(stories, more) ==
  {s \in stories : \A t \in more : t.id # s.id} \cup
  {IF \E s \in stories : s.id = t.id
   THEN LET s == CHOOSE x \in stories : x.id = t.id
        IN [s EXCEPT !.articles = @ \cup t.articles]
   ELSE t : t \in more}
Mixes(stories, more) == \E s \in stories, t \in more : s.id = t.id /\ s.articles # t.articles

\* A bug to catch: the feed the answer is of is not compared (the bare feed's
\* effect leaves the number of the newest request for more as it is).
MoreArrives_OfAnyFeed(r) ==
  /\ r.why = "more"
  /\ reads' = reads \ {r}
  /\ Redraw([page EXCEPT !.stories = Merged(@, r.answer.items), !.next = r.answer.next,
                         !.proj = r.answer.at, !.older = TRUE,
                         !.mixed = @ \/ Mixes(page.stories, r.answer.items)])
  /\ loadingMore' = FALSE
  /\ UNCHANGED <<serverVars, saved, loading, undo, failures>>

MoreArrives(r) ==
  /\ r.why = "more"
  /\ reads' = reads \ {r}
  /\ IF r.feed = page.feed
     THEN Redraw([page EXCEPT !.stories = Merged(@, r.answer.items), !.next = r.answer.next,
                              !.proj = r.answer.at, !.older = TRUE,
                              !.mixed = @ \/ Mixes(page.stories, r.answer.items)])
     ELSE UNCHANGED <<page, correctionVars>>
  /\ loadingMore' = FALSE
  /\ UNCHANGED <<serverVars, saved, loading, undo, failures>>

Arrives(r) ==
  /\ r.answer # None
  /\ RefreshArrives(r) \/ FeedArrives(r) \/ MoreArrives(r)

\* A bug to catch: only an answer ends the wait.
ReadFails_StaysBusy(r) ==
  /\ failures < MaxFailures
  /\ failures' = failures + 1
  /\ reads' = reads \ {r}
  /\ UNCHANGED <<serverVars, page, saved, loading, loadingMore, correctionVars, undo>>

ReadFails(r) ==
  /\ failures < MaxFailures
  /\ failures' = failures + 1
  /\ reads' = reads \ {r}
  /\ loading' = (loading /\ r.why # "feed")
  /\ loadingMore' = (loadingMore /\ r.why # "more")
  /\ UNCHANGED <<serverVars, page, saved, correctionVars, undo>>

-----------------------------------------------------------------------------
(* Splitting a group *)

OpenDialog(card) ==
  /\ dialog = None
  /\ card \in page.stories /\ card.at # None
  /\ dialog' = [card |-> card, feed |-> page.feed, proj |-> page.proj]
  /\ UNCHANGED <<serverVars, page, saved, reads, loading, loadingMore, pending, splits, toast,
                 undo, failures>>

CloseDialog ==
  /\ dialog # None /\ ~pending
  /\ dialog' = None
  /\ UNCHANGED <<serverVars, page, saved, reads, loading, loadingMore, pending, splits, toast,
                 undo, failures>>

\* The anchor is the primary of the card.  The request keeps the stories and the
\* cursor of the page that sent it.
Submit(rejected) ==
  /\ dialog # None /\ ~pending
  /\ Cardinality(splits) < MaxSplits
  /\ rejected \in (SUBSET (dialog.card.articles \ {dialog.card.primary})) \ {{}}
  /\ splits' = Abandoned(splits) \cup
       {[card |-> dialog.card, anchor |-> dialog.card.primary, rejected |-> rejected,
         feed |-> dialog.feed, proj |-> dialog.proj, stories |-> page.stories,
         next |-> page.next, live |-> TRUE, stage |-> "asked", answer |-> None]}
  /\ pending' = TRUE
  /\ UNCHANGED <<serverVars, page, saved, reads, loading, loadingMore, dialog, toast,
                 undo, failures>>

Answer(removed, stories, corrections) ==
  [removed |-> removed, stories |-> stories, corrections |-> corrections]

Duplicates(s) == {c \in active : \E x \in s.rejected : c.pair = {s.anchor, x}}
Requested(s) == {s.anchor} \cup {x \in s.rejected : {s.anchor, x} \notin Pairs(active)}

\* Every requested pair is rejected already.
Replay(s) ==
  /\ Requested(s) = {s.anchor}
  /\ \A c \in Duplicates(s) : c.original = s.card.original

\* The story of the server's projection that the request is about: the one of
\* that name, else the one with that original and the articles, else with these.
Targets(s) ==
  LET current == Recomputed(Now, active)
      named == {t \in current : t.id = s.card.id}
      whole == {t \in current : Requested(s) \subseteq t.articles}
      original == {t \in whole : t.original = s.card.original}
  IN IF named # {} THEN named ELSE IF original # {} THEN original ELSE whole

Accepted(s) ==
  /\ s.card.at = Now /\ s.card.generatedAt = "completion"
  /\ \E t \in Targets(s) : /\ t.at # None /\ t.original = s.card.original
                          /\ Requested(s) \subseteq t.articles

\* splitCurrentCoverageBundle.  At its bound the server answers no more.
SplitServed(s) ==
  LET answered(stage, answer) ==
        splits' = (splits \ {s}) \cup
          (IF s.live THEN {[s EXCEPT !.stage = stage, !.answer = answer]} ELSE {})
      made == {[pair |-> {s.anchor, x}, original |-> s.card.original, made |-> revision + 1] :
                 x \in Requested(s) \ {s.anchor}}
      target == CHOOSE t \in Targets(s) : TRUE
      next == active \cup made
      then == [Now EXCEPT !.rev = IF made = {} THEN revision ELSE revision + 1]
  IN /\ s.stage = "asked"
     /\ \/ /\ Replay(s)
           /\ answered("done", Answer({}, Touching(Recomputed(Now, active),
                                                  {s.anchor} \cup s.rejected), Duplicates(s)))
           /\ UNCHANGED serverVars
        \/ /\ ~Replay(s) /\ ~Accepted(s)
           /\ answered("conflict", Answer({}, Touching(Recomputed(Now, active), Requested(s)), {}))
           /\ UNCHANGED serverVars
        \/ /\ ~Replay(s) /\ Accepted(s)
           /\ IF made = {} THEN UNCHANGED serverVars ELSE Commit(next)
           /\ answered("done", Answer({target.id},
                                     Touching(Recomputed(then, next), target.articles),
                                     made \cup Duplicates(s)))
        \/ /\ ~Replay(s) /\ Accepted(s) /\ revision = MaxRevision
           /\ answered("failed", None)
           /\ UNCHANGED serverVars
     /\ UNCHANGED <<page, saved, reads, loading, loadingMore, dialog, pending, toast,
                    undo, failures>>

\* replaceCoverageStories
Replaced(stories, answer) ==
  {s \in stories : s.id \notin answer.removed /\ \A t \in answer.stories : t.id # s.id}
    \cup answer.stories

\* A bug to catch: the page counts what the server has counted.
RevisionAfter_CountsAgain(answer, expected) ==
  IF \E t \in answer.stories : t.at # None
  THEN (CHOOSE t \in answer.stories : t.at # None).at.rev + 1
  ELSE expected + 1

\* The revision the replacements carry, or one more than was expected.
RevisionAfter(answer, expected) ==
  IF \E t \in answer.stories : t.at # None
  THEN (CHOOSE t \in answer.stories : t.at # None).at.rev
  ELSE expected + 1

\* coverageProjectionAtRevision
AtRevision(proj, rev) == IF proj = None THEN None ELSE [proj EXCEPT !.rev = rev]

SplitDone(s) ==
  LET p == [page EXCEPT !.stories = Replaced(s.stories, s.answer),
                        !.proj = AtRevision(@, RevisionAfter(s.answer, s.card.at.rev))]
  IN /\ s.stage = "done"
     /\ Render(p, None, FALSE, splits \ {s},
               [feed |-> p.feed, proj |-> p.proj, corrections |-> s.answer.corrections])

\* A conflict: the first page is asked for again.
SplitConflicts(s) ==
  /\ s.stage = "conflict"
  /\ splits' = (splits \ {s}) \cup
       {[s EXCEPT !.stage = "reload", !.next = IF page.older THEN @ ELSE None,
                  !.answer = [stories |-> @.stories, older |-> page.older, page |-> None]]}
  /\ UNCHANGED <<page, dialog, pending, toast>>

ReloadServed(s) ==
  /\ s.stage = "reload"
  /\ splits' = (splits \ {s}) \cup
       {[s EXCEPT !.stage = "reloaded", !.answer.page = ServedPage(s.feed, None)]}
  /\ UNCHANGED <<serverVars, page, saved, reads, loading, loadingMore, dialog, pending, toast,
                 undo, failures>>

\* A bug to catch: stories already on display are kept although the page that
\* came has their articles.
Reconciled_KeepsOverlaps(s) ==
  LET items == s.answer.page.items
      rest == {t \in s.stories : t.id # s.card.id /\ \A i \in items : i.id # t.id}
      wanted == {t \in Touching(s.answer.stories, s.card.articles) :
                   \A i \in items : t.articles \cap i.articles = {}}
  IN rest \cup items \cup wanted

\* coverageConflictRefreshState: the card goes, the page comes over what is left,
\* and replacements take what the page has not.
Reconciled(s) ==
  LET items == s.answer.page.items
      paged == UNION {t.articles : t \in items}
      rest == {t \in s.stories : t.articles \cap paged = {} /\ t.id # s.card.id}
      overlaid == {t \in rest : \A i \in items : i.id # t.id} \cup items
      wanted == {t \in Touching(s.answer.stories, s.card.articles) : t.articles \cap paged = {}}
      taken == UNION {t.articles : t \in wanted}
  IN {t \in overlaid : t.articles \cap taken = {} /\ \A w \in wanted : w.id # t.id} \cup wanted

SplitReloaded(s) ==
  /\ s.stage = "reloaded"
  /\ Render([page EXCEPT !.stories = Reconciled(s), !.proj = s.answer.page.at,
                         !.next = IF s.answer.older THEN s.next ELSE s.answer.page.next],
            None, FALSE, splits \ {s}, None)

\* A bug to catch: only an answer ends the wait.
SplitFailed_StaysPending(s) ==
  /\ s.stage = "failed"
  /\ splits' = splits \ {s}
  /\ UNCHANGED <<page, dialog, pending, toast>>

SplitFailed(s) ==
  /\ s.stage = "failed"
  /\ splits' = splits \ {s} /\ pending' = FALSE
  /\ UNCHANGED <<page, dialog, toast>>

SplitArrives(s) ==
  /\ SplitDone(s) \/ SplitConflicts(s) \/ SplitReloaded(s) \/ SplitFailed(s)
  /\ UNCHANGED <<serverVars, saved, reads, loading, loadingMore, undo, failures>>

\* The request or its answer is lost, whatever the server did.
SplitLost(s) ==
  /\ failures < MaxFailures /\ s.live /\ s.stage # "failed"
  /\ failures' = failures + 1
  /\ splits' = (splits \ {s}) \cup {[s EXCEPT !.stage = "failed", !.answer = None]}
  /\ UNCHANGED <<serverVars, page, saved, reads, loading, loadingMore, dialog, pending, toast,
                 undo>>

-----------------------------------------------------------------------------
(* Undoing a split *)

others == <<saved, loading, loadingMore>>

\* What the page shows now is kept for the answers to change.
ClickUndo ==
  /\ toast # None /\ undo = None
  /\ undo' = [feed |-> toast.feed, proj |-> toast.proj, corrections |-> toast.corrections,
              left |-> toast.corrections, stories |-> page.stories, rev |-> page.proj.rev,
              stage |-> "asked", answer |-> None]
  /\ UNCHANGED <<serverVars, page, reads, others, correctionVars, failures>>

\* A bug to catch: the stories are recomputed with the corrections read before
\* the update.
UndoServed_BeforeUpdate ==
  /\ undo # None /\ undo.stage = "asked"
  /\ \E c \in undo.left :
       LET removed == {t.id : t \in Touching(Recomputed(Now, active), c.pair)}
           stories == Touching(Recomputed([Now EXCEPT !.rev = @ + 1], active), c.pair)
       IN \/ /\ c \in active
             /\ Commit(active \ {c})
             /\ undo' = [undo EXCEPT !.left = @ \ {c}, !.stage = "answered",
                                     !.answer = Answer(removed, stories, {c})]
          \/ /\ c \notin active \/ revision = MaxRevision
             /\ undo' = [undo EXCEPT !.stage = "failed"]
             /\ UNCHANGED serverVars
  /\ UNCHANGED <<page, reads, others, correctionVars, failures>>

\* undoCurrentCoverageCorrection, for the corrections in any order.
UndoServed ==
  /\ undo # None /\ undo.stage = "asked"
  /\ \E c \in undo.left :
       LET then == [Now EXCEPT !.rev = @ + 1]
           removed == {t.id : t \in Touching(Recomputed(Now, active), c.pair)}
           stories == Touching(Recomputed(then, active \ {c}), c.pair)
       IN \/ /\ c \in active
             /\ Commit(active \ {c})
             /\ undo' = [undo EXCEPT !.left = @ \ {c}, !.stage = "answered",
                                     !.answer = Answer(removed, stories, {c})]
          \/ /\ c \notin active \/ revision = MaxRevision
             /\ undo' = [undo EXCEPT !.stage = "failed"]
             /\ UNCHANGED serverVars
  /\ UNCHANGED <<page, reads, others, correctionVars, failures>>

UndoLost ==
  /\ failures < MaxFailures
  /\ undo # None /\ undo.stage # "failed"
  /\ failures' = failures + 1
  /\ undo' = [undo EXCEPT !.stage = "failed", !.answer = None]
  /\ UNCHANGED <<serverVars, page, reads, others, correctionVars>>

\* invalidateChangedContext
UndoOutdated ==
  /\ undo # None /\ undo.stage # "asked"
  /\ ~InContext(undo, page)
  /\ undo' = None /\ toast' = None
  /\ UNCHANGED <<serverVars, page, reads, others, dialog, pending, splits, failures>>

UndoDone ==
  /\ undo # None /\ undo.stage = "answered"
  /\ InContext(undo, page)
  /\ LET stories == Replaced(undo.stories, undo.answer)
         rev == RevisionAfter(undo.answer, undo.rev)
     IN IF undo.left # {}
        THEN /\ undo' = [undo EXCEPT !.stories = stories, !.rev = rev, !.stage = "asked",
                                     !.answer = None]
             /\ UNCHANGED <<page, correctionVars>>
        ELSE /\ undo' = None
             /\ Render([page EXCEPT !.stories = stories, !.proj = AtRevision(@, rev)],
                       dialog, pending, splits, None)
  /\ UNCHANGED <<serverVars, reads, others, failures>>

\* The toast stays, and the default feed is asked for again.
UndoFailed ==
  /\ undo # None /\ undo.stage = "failed"
  /\ InContext(undo, page)
  /\ undo' = None
  /\ reads' = Refreshed(reads)
  /\ UNCHANGED <<serverVars, page, others, correctionVars, failures>>

UndoArrives == UndoOutdated \/ UndoDone \/ UndoFailed

-----------------------------------------------------------------------------
Next ==
  \/ Publish \/ OtherTab
  \/ \E feed \in Feeds : SwitchFeed(feed)
  \/ Refresh \/ LoadMore
  \/ \E r \in reads : Serve(r) \/ Arrives(r) \/ ReadFails(r)
  \/ \E card \in page.stories : OpenDialog(card)
  \/ CloseDialog
  \/ \E rejected \in SUBSET Articles : Submit(rejected)
  \/ \E s \in splits : SplitServed(s) \/ ReloadServed(s) \/ SplitArrives(s) \/ SplitLost(s)
  \/ ClickUndo \/ UndoServed \/ UndoLost \/ UndoArrives

Spec == Init /\ [][Next]_vars

\* Requests that are still wanted are answered, answers arrive, and the default
\* feed is refreshed by its interval.  Nothing is fair about the owner, the
\* other tab, the worker, failures, or splits nobody waits for.
Fairness ==
  /\ WF_vars(page.feed = Default /\ Refresh)
  /\ \A why \in {"refresh", "feed", "more"} :
       /\ WF_vars(\E r \in reads : r.why = why /\ Serve(r))
       /\ WF_vars(\E r \in reads : r.why = why /\ Arrives(r))
  /\ WF_vars(\E s \in splits : s.live /\ (SplitServed(s) \/ ReloadServed(s)))
  /\ WF_vars(\E s \in splits : SplitArrives(s))
  /\ WF_vars(UndoServed)
  /\ WF_vars(UndoArrives)

FairSpec == Spec /\ Fairness

-----------------------------------------------------------------------------
Story == [id : {<<"article", a>> : a \in Articles} \cup BundleIds, articles : SUBSET Articles,
          primary : Articles, at : Projection \cup {None}, original : BundleIds \cup {None},
          generatedAt : {"analysis", "completion", None}]
Page == [items : SUBSET Story, next : Articles \cup {None}, at : Projection]

\* Every variable has the type its declaration gives.
TypeOK ==
  /\ generation \in 1..Len(Generations)
  /\ active \subseteq Correction /\ revision \in 0..MaxRevision
  /\ page.feed \in Feeds /\ page.stories \subseteq Story /\ {page.older, page.mixed} \subseteq BOOLEAN
  /\ page.next \in Articles \cup {None} /\ page.proj \in Projection \cup {None}
  /\ saved.items \subseteq Story /\ saved.next \in Articles \cup {None} /\ saved.at \in Projection
  /\ \A r \in reads : /\ r.why \in {"refresh", "feed", "more"} /\ r.feed \in Feeds
                      /\ r.answer # None => r.answer.items \subseteq Story
  /\ {loading, loadingMore, pending} \subseteq BOOLEAN
  /\ dialog # None => /\ dialog.feed \in Feeds
                      /\ {dialog.card.at, dialog.proj} \subseteq Projection
  /\ \A s \in splits : /\ s.stage \in {"asked", "done", "conflict", "reload", "reloaded", "failed"}
                       /\ s.stories \subseteq Story /\ s.live \in BOOLEAN
  /\ toast # None => toast.feed \in Feeds /\ toast.corrections \subseteq Correction
  /\ undo # None => /\ undo.stage \in {"asked", "answered", "failed"}
                    /\ undo.left \subseteq Correction /\ undo.stories \subseteq Story
  /\ failures \in 0..MaxFailures

\* An answer to a request of one feed never changes what another feed shows,
\* whatever was pressed while it was on its way.
AnswersOfThisFeed ==
  [][\A r \in reads : r.why # "refresh" /\ Arrives(r) /\ page'.stories # page.stories
                        => r.feed = page.feed]_vars

\* A split or an undo changes the page only where it was asked for: in the same
\* feed, of the same generation and revision.
CorrectionsStayInContext ==
  [][/\ \A s \in splits : SplitDone(s) \/ SplitReloaded(s)
          => s.feed = page.feed /\ s.proj = page.proj
     /\ undo # None /\ undo' = None /\ page' # page
          => undo.feed = page.feed /\ undo.proj = page.proj]_vars

\* The page never claims a projection the server has not had yet: the next split
\* would be refused, and the dialog of a current card would go.  Only where a later
\* page once gave a story other articles may it be ahead, by one revision.
ProjectionWasServed ==
  page.proj # None =>
    /\ page.proj.gen <= generation
    /\ page.proj.rev <= IF page.mixed THEN revision + 1 ELSE revision

Disjoint(stories) == \A s, t \in stories : s # t => s.articles \cap t.articles = {}

\* Reconciling a page after a conflict shows no article twice.
ConflictLeavesNoDuplicates ==
  [][\A s \in splits : SplitReloaded(s) /\ Disjoint(s.stories) => Disjoint(page'.stories)]_vars

\* When an undo is done and the page claims to be current (and is not ahead of
\* itself, see above), articles that are in one story again are in one on the page.
UndoRejoins ==
  [][undo # None /\ undo' = None /\ page' # page /\ page'.proj = Now /\ ~page.mixed
       => \A c \in undo.corrections :
            (\E t \in Effective(Now, active) : c.pair \subseteq t.articles)
              => \E t \in page'.stories : c.pair \subseteq t.articles]_vars

\* A page left on the default feed shows, again and again, what the server has.
FeedCatchesUp ==
  <>[](page.feed = Default) =>
    []<>(page.stories = ServedPage(Default, None).items /\ page.proj = Now)

\* No wait for a page is endless: a busy feed ends once it is not asked for anew.
ReadsEnd ==
  /\ <>[][\A r \in reads' \ reads : r.why = "feed" => r.answer # None]_vars
       => (loading ~> ~loading)
  /\ loadingMore ~> ~loadingMore

\* No split and no undo keeps its controls disabled for ever.
CorrectionsEnd ==
  /\ pending ~> ~pending
  /\ undo # None ~> undo = None

\* The rejected articles leave the story of the anchor: the card that was split
\* is replaced.
SplitReplacesCard ==
  [][\A s \in splits : SplitDone(s) =>
       \A t \in page'.stories : s.anchor \in t.articles => t.articles \cap s.rejected = {}]_vars

\* Not even then is the page ahead.
ProjectionIsReal == page.proj # None => page.proj.rev <= revision

\* A split is refused as outdated only when the server shows the card no longer.
CurrentCardIsSplit ==
  [][\A s \in splits : s.card \in Effective(Now, active) /\ SplitServed(s)
       => \A t \in splits' : t.stage # "conflict"]_vars

\* "mutation responses replacing only affected stories"
\* (docs/superpowers/plans/2026-07-13-similar-case-seamless-ux-rollout.md:7): the
\* answer to a split leaves the stories of other groups on display, also those
\* that were loaded while it was in flight.
OthersAreKept ==
  [][\A s \in splits : SplitDone(s) =>
       \A t \in page.stories : t.articles \cap s.card.articles = {} => t \in page'.stories]_vars
=============================================================================
