----------------------------- MODULE Dashboard -----------------------------
(***************************************************************************)
(* The dashboard: the view and its URL                                     *)
(* (crates/silph-server/assets/state.js) and the panels and their refresh  *)
(* (crates/silph-server/assets/app.js).  The browser runs one handler at a *)
(* time, so a step is one handler, or what follows one answer of fetch;    *)
(* answers come in any order.                                              *)
(*                                                                         *)
(* A range is a member of Relative, whose window ends now and moves, or of *)
(* Pinned, a window that stays.  A generation is only ever compared with   *)
(* the present one, so a load keeps whether the panels it was started for  *)
(* are still those on the page.  Host names are taken to be without        *)
(* spaces, which join the names of a selection to its signature.           *)
(***************************************************************************)
EXTENDS Integers, SequencesExt

CONSTANTS
    Roster,      \* the configured hosts, in the order the server lists them
    Relative, Pinned,
    Group,       \* GROUPS: the panels of the grid
    Slot,        \* bound: refreshes in flight at once
    Linked,      \* the views that history entries and links lead to
    MaxEvents,   \* bound: hashchange events not yet delivered
    CanFail,     \* whether a request may fail
    None         \* null, and no hash

Host   == ToSet(Roster)
Ranges == Relative \cup Pinned
View   == [hosts : Seq(Host), range : Ranges]

\* One refresh under way: what it asked for, the panels still to be
\* answered, and whether the generation is still the one it began in.
Flight == [hosts : Seq(Host), range : Ranges, todo : SUBSET Group,
           current : BOOLEAN]

\* A panel, and what a chart in it shows.
Chart == [mode : {"chart"}, hosts : Seq(Host), range : Ranges]
Panel == Chart \cup [mode : {"loading", "empty", "error"}]

ASSUME DashboardAssumption ==
    /\ Roster \in Seq(Host)
    /\ Relative \cap Pinned = {}
    /\ Linked \subseteq View
    /\ MaxEvents \in Nat
    /\ CanFail \in BOOLEAN
    /\ None \notin View
    /\ None \notin Seq(Host)

VARIABLES
    phase,      \* how start() is getting on
    hosts,      \* state.hosts
    range,      \* state.range
    location,   \* location.hash
    ownHash,    \* the hash this page wrote last
    events,     \* hashchange events on their way
    rendered,   \* renderedHosts: the selection the panels were built for
    panels,     \* from the groups of the grid to their panels
    note,       \* the groups the footnote says have no data
    flights,    \* from the slots in use to the refreshes under way
    timer,      \* refreshTimer
    hidden,     \* document.hidden
    gesturing   \* whether two fingers are on a chart

view == <<hosts, range>>
url  == <<location, ownHash, events>>
grid == <<rendered, panels, note>>
vars == <<phase, view, url, grid, flights, timer, hidden, gesturing>>

\* `timer' is null, the id of a timer that is set (postponed: it has already
\* rung in a hidden tab), or the id of one that has rung or was cleared.
TypeOK ==
    /\ phase \in {"seeding", "restored", "running"}
    /\ hosts \in Seq(Host)
    /\ range \in Ranges
    /\ location \in View \cup {None}
    /\ ownHash \in View \cup {None}
    /\ events \in 0 .. MaxEvents
    /\ rendered \in Seq(Host) \cup {None}
    /\ DOMAIN panels \in {{}, Group}
    /\ panels \in [DOMAIN panels -> Panel]
    /\ note \in SUBSET DOMAIN panels
    /\ DOMAIN flights \subseteq Slot
    /\ flights \in [DOMAIN flights -> Flight]
    /\ timer \in {"none", "set", "postponed", "spent"}
    /\ hidden \in BOOLEAN
    /\ gesturing \in BOOLEAN

Live == range \in Relative

\* start() up to its first await: the view comes from the hash, or, without
\* one, from the last visit.
Init ==
    /\ \E v \in Linked :
         /\ hosts = v.hosts
         /\ range = v.range
         /\ location \in {v, None}
         /\ phase = IF v.hosts = <<>> THEN "seeding" ELSE "restored"
    /\ ownHash = None
    /\ events = 0
    /\ rendered = None
    /\ panels = [g \in {} |-> {}]
    /\ note = {}
    /\ flights = [s \in {} |-> {}]
    /\ timer = "none"
    /\ hidden = FALSE
    /\ gesturing = FALSE

-----------------------------------------------------------------------------
(* Refreshing.                                                             *)

\* refresh(): the timer is gone; every panel ps of the grid is asked for the
\* hosts hs over range r, beside the refreshes fs already under way.
Refresh(fs, ps, hs, r) ==
    /\ timer' = "none"
    /\ IF hs = <<>>
       THEN flights' = fs
       ELSE \E s \in Slot \ DOMAIN fs :
              flights' = [t \in DOMAIN fs \cup {s} |->
                            IF t = s THEN [hosts |-> hs, range |-> r,
                                           todo |-> DOMAIN ps, current |-> TRUE]
                                     ELSE fs[t]]

\* scheduleRefresh(): only a live window has a timer.
Schedule(after) ==
    timer' = IF Live THEN after ELSE IF timer = "none" THEN "none" ELSE "spent"

\* buildPanels().
Built(hs) ==
    [g \in (IF hs = <<>> THEN {} ELSE Group) |-> [mode |-> "loading"]]

\* The loads under way after `generation' is bumped.
Outdated == [s \in DOMAIN flights |-> [flights[s] EXCEPT !.current = FALSE]]

\* applyState() with hosts hs and range r: a new selection, of which the
\* order counts, rebuilds the grid; any change refreshes.
\* (Mutants first: selections are told apart by their size; the footnote of
\* the old grid stays.)
ApplyStateBySize(hs, r) ==
    /\ hosts' = hs
    /\ range' = r
    /\ rendered' = hs
    /\ IF rendered # None /\ Len(hs) = Len(rendered)
       THEN /\ UNCHANGED <<panels, note>>
            /\ Refresh(flights, panels, hs, r)
       ELSE /\ panels' = Built(hs)
            /\ note' = {}
            /\ Refresh(Outdated, Built(hs), hs, r)

ApplyStateKeepingNote(hs, r) ==
    /\ hosts' = hs
    /\ range' = r
    /\ rendered' = hs
    /\ UNCHANGED note
    /\ IF hs = rendered
       THEN /\ UNCHANGED panels
            /\ Refresh(flights, panels, hs, r)
       ELSE /\ panels' = Built(hs)
            /\ Refresh(Outdated, Built(hs), hs, r)

ApplyState(hs, r) ==
    /\ hosts' = hs
    /\ range' = r
    /\ rendered' = hs
    /\ IF hs = rendered
       THEN /\ UNCHANGED <<panels, note>>
            /\ Refresh(flights, panels, hs, r)
       ELSE /\ panels' = Built(hs)
            /\ note' = {}
            /\ Refresh(Outdated, Built(hs), hs, r)

\* One panel's answer in a refresh of this generation: a chart, no data, or
\* an error, which leaves a chart that is there.
Shown(f, panel) ==
    {[mode |-> "chart", hosts |-> f.hosts, range |-> f.range],
     [mode |-> "empty"]}
      \cup IF CanFail
           THEN {IF panel.mode = "chart" THEN panel ELSE [mode |-> "error"]}
           ELSE {}

Answer(s, g) ==
    /\ s \in DOMAIN flights
    /\ g \in flights[s].todo
    /\ flights' = [flights EXCEPT ![s].todo = @ \ {g}]
    /\ IF flights[s].current
       THEN \E p \in Shown(flights[s], panels[g]) :
              panels' = [panels EXCEPT ![g] = p]
       ELSE UNCHANGED panels
    /\ UNCHANGED <<phase, view, url, rendered, note, timer, hidden, gesturing>>

Empty == {g \in DOMAIN panels : panels[g].mode = "empty"}

\* All panels of a refresh are answered.
\* (Mutant first: a footnote is only ever written, never emptied.)
FinishAddingNote(s) ==
    /\ s \in DOMAIN flights
    /\ flights[s].todo = {}
    /\ flights' = Restrict(flights, DOMAIN flights \ {s})
    /\ IF flights[s].current
       THEN note' = (IF Empty = {} THEN note ELSE Empty) /\ Schedule("set")
       ELSE UNCHANGED <<note, timer>>
    /\ UNCHANGED <<phase, view, url, rendered, panels, hidden, gesturing>>

Finish(s) ==
    /\ s \in DOMAIN flights
    /\ flights[s].todo = {}
    /\ flights' = Restrict(flights, DOMAIN flights \ {s})
    /\ IF flights[s].current
       THEN note' = Empty /\ Schedule("set")
       ELSE UNCHANGED <<note, timer>>
    /\ UNCHANGED <<phase, view, url, rendered, panels, hidden, gesturing>>

\* The timer rings.
\* (Mutant first: a hidden tab lets the timer go.)
RingOnce ==
    /\ timer \in {"set", "postponed"}
    /\ IF hidden \/ gesturing
       THEN timer' = "spent" /\ UNCHANGED flights
       ELSE Refresh(flights, panels, hosts, range)
    /\ UNCHANGED <<phase, view, url, grid, hidden, gesturing>>

Ring ==
    /\ timer \in {"set", "postponed"}
    /\ IF hidden \/ gesturing
       THEN Schedule(IF hidden THEN "postponed" ELSE timer) /\ UNCHANGED flights
       ELSE Refresh(flights, panels, hosts, range)
    /\ UNCHANGED <<phase, view, url, grid, hidden, gesturing>>

Hide ==
    /\ ~hidden
    /\ hidden' = TRUE
    /\ UNCHANGED <<phase, view, url, grid, flights, timer, gesturing>>

Show ==
    /\ hidden
    /\ hidden' = FALSE
    /\ IF Live /\ timer = "none"
       THEN Refresh(flights, panels, hosts, range)
       ELSE UNCHANGED <<flights, timer>>
    /\ UNCHANGED <<phase, view, url, grid, gesturing>>

-----------------------------------------------------------------------------
(* The view and its URL.                                                   *)

\* writeHash(): the view becomes the URL, which is an event unless the entry
\* of the history is replaced or the URL is that already.
\* (Mutant first: a replace that leaves the URL as it is.)
WriteHashUnreplaced(v, replace) ==
    /\ ownHash' = v
    /\ location' = IF replace THEN location ELSE v
    /\ IF v = location \/ replace
       THEN UNCHANGED events
       ELSE events < MaxEvents /\ events' = events + 1

WriteHash(v, replace) ==
    /\ ownHash' = v
    /\ location' = v
    /\ IF v = location \/ replace
       THEN UNCHANGED events
       ELSE events < MaxEvents /\ events' = events + 1

\* commit(): the new state is written, and applied.
Commit(hs, r, replace) ==
    /\ WriteHash([hosts |-> hs, range |-> r], replace)
    /\ ApplyState(hs, r)

\* Those of a selection that are listed, in its order.
Among(hs, listed) ==
    LET upto[i \in 0 .. Len(hs)] ==
          IF i = 0 THEN <<>>
          ELSE upto[i - 1] \o IF hs[i] \in listed THEN <<hs[i]>> ELSE <<>>
    IN  upto[Len(hs)]

\* The rest of start(), once the configuration and the hosts are in: hosts
\* the server does not list are dropped, and a first visit selects all.  If
\* those requests fail this never happens.
Start(listed) ==
    /\ phase # "running"
    /\ phase' = "running"
    /\ LET kept == Among(hosts, listed)
       IN  Commit(IF phase = "seeding" /\ kept = <<>>
                  THEN Among(Roster, listed) ELSE kept, range, TRUE)
    /\ UNCHANGED <<hidden, gesturing>>

\* A checkbox of the sidebar, which has none until the hosts are in.
Toggle(h) ==
    /\ phase = "running"
    /\ Commit(IF h \in ToSet(hosts)
              THEN Among(hosts, Host \ {h})
              ELSE Append(hosts, h), range, FALSE)
    /\ UNCHANGED <<phase, hidden, gesturing>>

\* The buttons for all of the hosts last listed, and for none.
Select(listed) ==
    /\ phase = "running" \/ listed = {}
    /\ Commit(Among(Roster, listed), range, FALSE)
    /\ UNCHANGED <<phase, hidden, gesturing>>

\* The range bar: a relative range, or a window panned, zoomed or picked.
PickRange(r) ==
    /\ rendered # None
    /\ Commit(hosts, r, FALSE)
    /\ UNCHANGED <<phase, hidden, gesturing>>

Charts == {g \in DOMAIN panels : panels[g].mode = "chart"}

\* A drag or a double click on a chart.
Drag(r) ==
    /\ Charts # {}
    /\ Commit(hosts, r, TRUE)
    /\ UNCHANGED <<phase, hidden, gesturing>>

\* Two fingers on a chart, and lifted again, with or without having moved.
GestureBegin ==
    /\ Charts # {}
    /\ gesturing' = TRUE
    /\ UNCHANGED <<phase, view, url, grid, flights, timer, hidden>>

GestureEnd ==
    /\ gesturing
    /\ gesturing' = FALSE
    /\ \/ UNCHANGED <<view, url, grid, flights, timer>>
       \/ \E r \in Pinned : Commit(hosts, r, TRUE)
    /\ UNCHANGED <<phase, hidden>>

\* Back, forward, or a link opened in this tab.
Navigate(v) ==
    /\ v # location
    /\ events < MaxEvents
    /\ location' = v
    /\ events' = events + 1
    /\ UNCHANGED <<phase, view, ownHash, grid, flights, timer, hidden, gesturing>>

\* The hashchange handler: what this page wrote itself needs no reading.
HashChange ==
    /\ events > 0
    /\ events' = events - 1
    /\ IF location = ownHash
       THEN UNCHANGED <<view, grid, flights, timer>>
       ELSE ApplyState(location.hosts, location.range)
    /\ UNCHANGED <<phase, location, ownHash, hidden, gesturing>>

-----------------------------------------------------------------------------

Network ==
    \/ \E s \in Slot, g \in Group : Answer(s, g)
    \/ \E s \in Slot : Finish(s)
    \/ \E listed \in SUBSET Host : Start(listed)

User ==
    \/ \E h \in Host : Toggle(h)
    \/ \E listed \in SUBSET Host : Select(listed)
    \/ \E r \in Ranges : PickRange(r)
    \/ \E r \in Pinned : Drag(r)
    \/ GestureBegin
    \/ GestureEnd
    \/ \E v \in Linked : Navigate(v)
    \/ Hide
    \/ Show

Browser == Ring \/ HashChange

Next == Network \/ User \/ Browser

Spec == Init /\ [][Next]_vars

\* The browser ends every request, one way or the other, and delivers every
\* event and timer.
Fairness ==
    /\ \A s \in Slot : WF_vars(\E g \in Group : Answer(s, g)) /\ WF_vars(Finish(s))
    /\ WF_vars(Ring)
    /\ WF_vars(HashChange)

FairSpec == Spec /\ Fairness

-----------------------------------------------------------------------------
(* Safety.                                                                 *)

Current(s) == s \in DOMAIN flights /\ flights[s].current

\* Every chart draws the hosts that are selected, whatever loads are under
\* way when the selection changes, by a click, a link or the history
\* (app.js:536-549).
ChartsOfSelection == \A g \in Charts : panels[g].hosts = hosts

\* Once no load is under way the footnote names exactly the panels without
\* data (app.js:325-330), though refreshes overlap and fail in part.
NoteTells == (\A s \in Slot : ~Current(s)) => note = Empty

\* The chain of refreshes does not break: a live view with hosts is either
\* being loaded or has its timer set, across selections, ranges, gestures,
\* hidden tabs and failures; and only a live view has a timer
\* (app.js:335-345).
ChainUnbroken ==
    /\ Live /\ hosts # <<>> /\ rendered # None =>
         timer \in {"set", "postponed"} \/ \E s \in Slot : Current(s)
    /\ timer \in {"set", "postponed"} => Live

\* With no event on its way the URL is the view's, but for the hash this
\* page wrote last (state.js:3-5, 36-43).
UrlFollowed ==
    events = 0 /\ rendered # None =>
       location = [hosts |-> hosts, range |-> range] \/ location = ownHash

\* "Only a real navigation (back/forward, an edited or pasted URL) is state
\* the app has not already applied" (app.js:578-579): the URL is the view's
\* with no exception.
UrlIsView ==
    events = 0 /\ rendered # None =>
       location = [hosts |-> hosts, range |-> range]

\* "A grid of charts showing every selected host together over one shared
\* time window" (app.js:3-4): once no load is under way and none failed,
\* every chart is over the range selected.
OneWindow ==
    (\A s \in Slot : ~Current(s)) => \A g \in Charts : panels[g].range = range

-----------------------------------------------------------------------------
(* Liveness.                                                               *)

\* A live view that stays on a visible tab is refreshed again and again.
KeepsRefreshing ==
    <>[](/\ Live /\ hosts # <<>> /\ rendered # None
         /\ ~hidden /\ ~gesturing)
      => []<>(\E s \in Slot : Current(s))
=============================================================================
