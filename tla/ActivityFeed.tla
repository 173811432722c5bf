---------------------------- MODULE ActivityFeed ----------------------------
(***************************************************************************)
(* The frontend's activity log (frontend/lib/useActivityRows.ts and        *)
(* activity.ts): a backfill reads the history of every contract, one       *)
(* getLogs each, then the blocks' timestamps, and sets the rows; at the    *)
(* same time one watcher per event polls for new logs, fetches their       *)
(* blocks and merges the rows it makes of them.  Both are chains of        *)
(* promises over the same state.  The backfill starts on mount and again   *)
(* whenever the wallet moves to another chain.  The watchers are given a   *)
(* new closure (appendLiveLogs) by every rendering of the hook, so every   *)
(* rendering takes them down and installs them again, from the block that  *)
(* is then the latest: a log mined before that and not yet polled is not   *)
(* seen by anyone.                                                         *)
(*                                                                         *)
(* A log is the number of its place in the deployment's history, so that   *)
(* the ids are unique and sortRowsDesc is the order of the numbers: rows   *)
(* is kept as a set.  The other chain has none of our contracts.           *)
(***************************************************************************)
EXTENDS Naturals, Sequences, FiniteSets

CONSTANTS
    Sources,        \* the contracts' events that are read
    MaxLogs,        \* bound on the length of the history
    MaxSwitches     \* bound on the wallet's changes of chain

ASSUME FeedAssumption ==
    /\ IsFiniteSet(Sources)
    /\ MaxLogs \in Nat \ {0}
    /\ MaxSwitches \in Nat

VARIABLES
    log,        \* the history: the source of each log, external
    home,       \* the wallet is on the deployment's chain
    backfill,   \* the backfills started so far; the last one is current
    watched,    \* for each source, how much of the history the watcher has
                \* passed, or NotWatching
    arriving,   \* batches of live logs whose blocks are being fetched
    rows,       \* the state of the hook: what is shown, and whether the
    view,       \* backfill is loading, loaded or failed
    since       \* history: length of the log when the current backfill began

feedVars == <<log, home, backfill, watched, arriving, rows, view, since>>

NotWatching == MaxLogs + 1
Logs == 1..Len(log)
LogsOf(s, from) == {i \in Logs : i > from /\ log[i] = s}

(* A backfill in progress: which queries have answered, with what. *)
Begun(atHome) == [atHome |-> atHome, answered |-> {}, found |-> {}, over |-> FALSE]

Backfill == [atHome: BOOLEAN, answered: SUBSET Sources, found: SUBSET Logs, over: BOOLEAN]

FeedTypeOK ==
    /\ log \in Seq(Sources) /\ Len(log) <= MaxLogs
    /\ home \in BOOLEAN
    /\ backfill \in Seq(Backfill) /\ Len(backfill) \in 1..(MaxSwitches + 1)
    /\ watched \in [Sources -> Logs \cup {0, NotWatching}]
    /\ arriving \subseteq SUBSET Logs
    /\ rows \subseteq Logs
    /\ view \in {"loading", "loaded", "failed"}
    /\ since \in 0..Len(log)

(* The page opens on either chain, the history already begun or not. *)
FeedInit ==
    /\ log \in UNION {[1..n -> Sources] : n \in 0..1}
    /\ home \in BOOLEAN
    /\ backfill = <<Begun(home)>>
    /\ watched = [s \in Sources |-> NotWatching]
    /\ arriving = {}
    /\ rows = {}
    /\ view = "loading"
    /\ since = Len(log)

-----------------------------------------------------------------------------
(* External: a transaction is mined and logs an event of one source. *)
Mine(s) ==
    /\ Len(log) < MaxLogs
    /\ log' = Append(log, s)
    /\ UNCHANGED <<home, backfill, watched, arriving, rows, view, since>>

(* A rendering of the hook: all watchers are taken down. *)
Rerender == watched' = [s \in Sources |-> NotWatching]

(* External: the page renders for a reason of its own, a read or a click.  *)
RenderPage ==
    /\ Rerender
    /\ UNCHANGED <<log, home, backfill, arriving, rows, view, since>>

(* External: the wallet changes chain; the hook's effects start over.      *)
SwitchChain ==
    /\ Len(backfill) <= MaxSwitches
    /\ home' = ~home
    /\ backfill' = Append(backfill, Begun(~home))
    /\ Rerender
    /\ view' = "loading"
    /\ since' = Len(log)
    /\ UNCHANGED <<log, arriving, rows>>

-----------------------------------------------------------------------------
(* The cleanup of an effect that has been replaced sets its cancelled flag. *)
M_NeverCancelled(b) == FALSE

M_OneFlagForAll(b) == Len(backfill) > 1

IsCancelled(b) == b # Len(backfill)

(* One getLogs, from the deploy block to the latest one there is by then.  *)
Query(b, s) ==
    /\ ~backfill[b].over
    /\ s \notin backfill[b].answered
    /\ backfill' = [backfill EXCEPT
            ![b].answered = @ \cup {s},
            ![b].found = IF backfill[b].atHome THEN @ \cup LogsOf(s, 0) ELSE @]
    /\ UNCHANGED <<log, home, watched, arriving, rows, view, since>>

(* All queries and the timestamps are there: the rows are set, not merged. *)
Finish(b) ==
    /\ ~backfill[b].over
    /\ backfill[b].answered = Sources
    /\ backfill' = [backfill EXCEPT ![b].over = TRUE]
    /\ IF IsCancelled(b) THEN UNCHANGED <<rows, view, watched>>
       ELSE rows' = backfill[b].found /\ view' = "loaded" /\ Rerender
    /\ UNCHANGED <<log, home, arriving, since>>

(* Any of its requests is rejected. *)
Fail(b) ==
    /\ ~backfill[b].over
    /\ backfill' = [backfill EXCEPT ![b].over = TRUE]
    /\ IF IsCancelled(b) THEN UNCHANGED <<view, watched>>
       ELSE view' = "failed" /\ Rerender
    /\ UNCHANGED <<log, home, arriving, rows, since>>

-----------------------------------------------------------------------------
(* A watcher that was given new is installed at the latest block.          *)
M_StartWatchingTooLate(s) ==
    /\ watched[s] = NotWatching
    /\ watched' = [watched EXCEPT ![s] = Len(log) + 1]
    /\ UNCHANGED <<log, home, backfill, arriving, rows, view, since>>

StartWatching(s) ==
    /\ watched[s] = NotWatching
    /\ watched' = [watched EXCEPT ![s] = Len(log)]
    /\ UNCHANGED <<log, home, backfill, arriving, rows, view, since>>

(* It asks for what came since the last time, and hands it to onLogs.      *)
Poll(s) ==
    /\ watched[s] # NotWatching
    /\ home
    /\ LogsOf(s, watched[s]) # {}
    /\ arriving' = arriving \cup {LogsOf(s, watched[s])}
    /\ watched' = [watched EXCEPT ![s] = Len(log)]
    /\ UNCHANGED <<log, home, backfill, rows, view, since>>

(* The request fails.  The node may have forgotten the filter, which is    *)
(* then installed anew; or it has passed the logs, and the answer is lost. *)
PollFails(s) ==
    /\ watched[s] # NotWatching
    /\ \E passed \in {Len(log), NotWatching} : watched' = [watched EXCEPT ![s] = passed]
    /\ UNCHANGED <<log, home, backfill, arriving, rows, view, since>>

M_KeepIncomingOnly(existing, incoming) == incoming

MergeRows(existing, incoming) == existing \cup incoming

(* appendLiveLogs, once the batch's blocks are there; it has no cleanup,   *)
(* so a batch of the chain that was left is merged all the same.           *)
AppendLiveLogs(batch) ==
    /\ rows' = MergeRows(rows, batch)
    /\ arriving' = arriving \ {batch}
    /\ Rerender
    /\ UNCHANGED <<log, home, backfill, view, since>>

(* A block cannot be fetched: nobody catches the rejection. *)
LoseLiveLogs(batch) ==
    /\ arriving' = arriving \ {batch}
    /\ UNCHANGED <<log, home, backfill, watched, rows, view, since>>

FeedNext ==
    \/ \E s \in Sources : Mine(s)
    \/ RenderPage
    \/ SwitchChain
    \/ \E b \in DOMAIN backfill, s \in Sources : Query(b, s)
    \/ \E b \in DOMAIN backfill : Finish(b)
    \/ \E b \in DOMAIN backfill : Fail(b)
    \/ \E s \in Sources : StartWatching(s)
    \/ \E s \in Sources : Poll(s)
    \/ \E s \in Sources : PollFails(s)
    \/ \E batch \in arriving : AppendLiveLogs(batch)
    \/ \E batch \in arriving : LoseLiveLogs(batch)

(* Every request of a backfill is answered or rejected, by the transport's *)
(* time limit if by nothing else.  Of the watchers nothing is assumed.     *)
Settles(b) ==
    /\ b \in DOMAIN backfill
    /\ (\E s \in Sources : Query(b, s)) \/ Finish(b) \/ Fail(b)

FeedFairness == \A b \in 1..(MaxSwitches + 1) : WF_feedVars(Settles(b))

FeedSpec == FeedInit /\ [][FeedNext]_feedVars
FairFeedSpec == FeedSpec /\ FeedFairness

-----------------------------------------------------------------------------
(***************************************************************************)
(* Once a backfill has loaded, everything that was on chain when it began  *)
(* is shown, and stays shown: no answer of an older backfill, and no batch *)
(* of live logs, removes it.                                               *)
(***************************************************************************)
HistoryComplete ==
    view = "loaded" /\ home => 1..since \subseteq rows

(***************************************************************************)
(* A row disappears only at the moment a backfill finishes loading, and at *)
(* home only if its log is younger than that backfill: what the watchers   *)
(* brought in meanwhile is then replaced, not merged.  Neither a superseded *)
(* backfill nor a batch, a failure or a rendering ever takes a row away.   *)
(***************************************************************************)
OnlyLoadingDropsRows ==
    [][\A i \in rows \ rows' :
          /\ view = "loading" /\ view' = "loaded"
          /\ home => i > since]_feedVars

(***************************************************************************)
(* "Loading activity" is replaced by the rows or by an error, however the  *)
(* answers of the backfills before it come in, once the wallet has settled *)
(* on a chain.                                                             *)
(***************************************************************************)
LoadingEnds == (view = "loading") ~> (view # "loading")

=============================================================================
