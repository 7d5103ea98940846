-------------------------- MODULE DashboardProofs --------------------------
(***************************************************************************)
(* The dashboard's safety properties, for every roster of hosts, set of    *)
(* ranges and panels, number of refreshes in flight and view linked to.    *)
(*                                                                         *)
(* The safety properties do not rest on the types of the values: a         *)
(* selection, a range or a view is only ever passed on and compared.       *)
(***************************************************************************)
EXTENDS Dashboard, LoopProofs

\* What every step does to the view and the grid: it applies a state, or is
\* a step of a load or of the timer, or touches neither.
Untouched == UNCHANGED <<view, grid, flights, timer>>

LEMMA Steps ==
    ASSUME [Next]_vars
    PROVE  \/ \E hs, r : ApplyState(hs, r)
           \/ \E s \in Slot, g \in Group : Answer(s, g)
           \/ \E s \in Slot : Finish(s)
           \/ Ring
           \/ Show
           \/ Untouched
<1> USE DEF Untouched, vars, view, url, grid
<1>1. ASSUME NEW hs, NEW r, NEW replace, Commit(hs, r, replace)
      PROVE  \E hs1, r1 : ApplyState(hs1, r1)
  BY <1>1 DEF Commit
<1>2. CASE \E listed \in SUBSET Host : Start(listed)
  BY <1>2, <1>1 DEF Start
<1>3. CASE \E h \in Host : Toggle(h)
  BY <1>3, <1>1 DEF Toggle
<1>4. CASE \E listed \in SUBSET Host : Select(listed)
  BY <1>4, <1>1 DEF Select
<1>5. CASE \E r \in Ranges : PickRange(r)
  BY <1>5, <1>1 DEF PickRange
<1>6. CASE \E r \in Pinned : Drag(r)
  BY <1>6, <1>1 DEF Drag
<1>7. CASE GestureBegin \/ Hide \/ \E v \in Linked : Navigate(v)
  BY <1>7 DEF GestureBegin, Hide, Navigate
<1>8. CASE GestureEnd
  BY <1>8, <1>1 DEF GestureEnd
<1>9. CASE HashChange
  BY <1>9 DEF HashChange
<1>10. CASE UNCHANGED vars
  BY <1>10
<1> QED BY <1>2, <1>3, <1>4, <1>5, <1>6, <1>7, <1>8, <1>9, <1>10
        DEF Next, Network, User, Browser

\* Flights and panels are functions, and a flight is a record of its fields.
Shaped ==
    /\ flights = [s \in DOMAIN flights |-> flights[s]]
    /\ panels = [g \in DOMAIN panels |-> panels[g]]
    /\ \A s \in DOMAIN flights :
          flights[s] = [hosts |-> flights[s].hosts, range |-> flights[s].range,
                        todo |-> flights[s].todo,
                        current |-> flights[s].current]

-----------------------------------------------------------------------------
(* Refreshing: what the four steps that move flights do to the present     *)
(* ones.                                                                   *)

\* A refresh adds a flight for hosts hs over all panels, or, without hosts,
\* nothing; the other flights stay.
LEMMA RefreshFlights ==
    ASSUME NEW fs, NEW ps, NEW hs, NEW r, Refresh(fs, ps, hs, r),
           fs = [s \in DOMAIN fs |-> fs[s]]
    PROVE  /\ timer' = "none"
           /\ \A s \in DOMAIN fs : s \in DOMAIN flights' /\ flights'[s] = fs[s]
           /\ \A s \in DOMAIN flights' \ DOMAIN fs :
                flights'[s] = [hosts |-> hs, range |-> r, todo |-> DOMAIN ps,
                               current |-> TRUE]
           /\ hs = <<>> => flights' = fs
           /\ hs # <<>> => \E s \in DOMAIN flights' : s \notin DOMAIN fs
           /\ flights' = [s \in DOMAIN flights' |-> flights'[s]]
<1>1. CASE hs = <<>>
  BY <1>1 DEF Refresh
<1>2. CASE hs # <<>>
  <2>1. PICK s \in Slot \ DOMAIN fs :
          flights' = [t \in DOMAIN fs \cup {s} |->
                        IF t = s THEN [hosts |-> hs, range |-> r,
                                       todo |-> DOMAIN ps, current |-> TRUE]
                                 ELSE fs[t]]
    BY <1>2 DEF Refresh
  <2>2. DOMAIN flights' = DOMAIN fs \cup {s}
    BY <2>1
  <2> QED BY <1>2, <2>1, <2>2 DEF Refresh
<1> QED BY <1>1, <1>2

\* Giving a flight another `current' leaves its other fields.
LEMMA WithCurrent ==
    \A f, v :
       f = [hosts |-> f.hosts, range |-> f.range, todo |-> f.todo,
            current |-> f.current]
         => [f EXCEPT !.current = v]
              = [hosts |-> f.hosts, range |-> f.range, todo |-> f.todo,
                 current |-> v]
<1> TAKE f, v
<1> HAVE f = [hosts |-> f.hosts, range |-> f.range, todo |-> f.todo,
              current |-> f.current]
<1>1. PICK h, a, t, c : f = [hosts |-> h, range |-> a, todo |-> t,
                             current |-> c]
  OBVIOUS
<1>2. [f EXCEPT !.current = v] = [hosts |-> h, range |-> a, todo |-> t,
                                  current |-> v]
  BY <1>1
<1> QED BY <1>1, <1>2

\* A bump of the generation leaves no flight current.
LEMMA OutdatedFlights ==
    ASSUME Shaped
    PROVE  /\ Outdated = [s \in DOMAIN Outdated |-> Outdated[s]]
           /\ DOMAIN Outdated = DOMAIN flights
           /\ \A s \in DOMAIN flights :
                Outdated[s] = [hosts |-> flights[s].hosts,
                               range |-> flights[s].range,
                               todo |-> flights[s].todo, current |-> FALSE]
<1> SUFFICES ASSUME NEW s \in DOMAIN flights
             PROVE  [flights[s] EXCEPT !.current = FALSE]
                      = [hosts |-> flights[s].hosts,
                         range |-> flights[s].range,
                         todo |-> flights[s].todo, current |-> FALSE]
  BY DEF Outdated
<1> QED BY WithCurrent, Zenon DEF Shaped

\* It leaves the others as they are.
LEMMA AnswerOthers ==
    ASSUME Shaped, NEW s, NEW g, Answer(s, g)
    PROVE  /\ DOMAIN flights' = DOMAIN flights
           /\ \A t \in DOMAIN flights : t # s => flights'[t] = flights[t]
<1>1. PICK r : flights' = [flights EXCEPT ![s] = r]
  BY DEF Answer
<1> QED BY <1>1 DEF Shaped

\* An answer takes its panel off the flight's list and changes no other
\* flight.
LEMMA AnswerFlights ==
    ASSUME Shaped, NEW s, NEW g, Answer(s, g)
    PROVE  /\ DOMAIN flights' = DOMAIN flights
           /\ flights' = [t \in DOMAIN flights' |-> flights'[t]]
           /\ flights'[s] = [hosts |-> flights[s].hosts,
                             range |-> flights[s].range,
                             todo |-> flights[s].todo \ {g},
                             current |-> flights[s].current]
           /\ flights'[s].hosts = flights[s].hosts
           /\ flights'[s].todo = flights[s].todo \ {g}
           /\ flights'[s].current = flights[s].current
           /\ \A t \in DOMAIN flights : t # s => flights'[t] = flights[t]
<1>1. s \in DOMAIN flights
  BY DEF Answer
<1>2. PICK h, a, t, c : flights[s] = [hosts |-> h, range |-> a, todo |-> t,
                                      current |-> c]
  BY <1>1 DEF Shaped
<1>3. flights' = [flights EXCEPT ![s] = [flights[s] EXCEPT
                                           !.todo = flights[s].todo \ {g}]]
  BY DEF Answer
<1>4. [flights[s] EXCEPT !.todo = flights[s].todo \ {g}]
        = [hosts |-> h, range |-> a, todo |-> t \ {g}, current |-> c]
  BY <1>2
<1>5. flights'[s] = [hosts |-> h, range |-> a, todo |-> t \ {g}, current |-> c]
  BY <1>1, <1>3, <1>4
<1>6. /\ flights[s].hosts = h
      /\ flights[s].range = a
      /\ flights[s].todo = t
      /\ flights[s].current = c
  BY <1>2
<1>7. /\ flights'[s].hosts = h
      /\ flights'[s].todo = t \ {g}
      /\ flights'[s].current = c
  BY <1>5
<1> QED BY <1>1, <1>3, <1>5, <1>6, <1>7 DEF Shaped

LEMMA FinishFlights ==
    ASSUME Shaped, NEW s, Finish(s)
    PROVE  /\ DOMAIN flights' = DOMAIN flights \ {s}
           /\ \A t \in DOMAIN flights' : flights'[t] = flights[t]
           /\ flights' = [t \in DOMAIN flights' |-> flights'[t]]
  BY DEF Finish, Restrict

\* Every step keeps the shape.
LEMMA StepShaped ==
    ASSUME Shaped, [Next]_vars
    PROVE  Shaped'
<1>1. ASSUME NEW hs, NEW r, ApplyState(hs, r)
      PROVE  Shaped'
  <2>1. CASE hs = rendered
    BY <1>1, <2>1, RefreshFlights DEF ApplyState, Shaped
  <2>2. CASE hs # rendered
    <3>1. panels' = Built(hs) /\ Refresh(Outdated, Built(hs), hs, r)
      BY <1>1, <2>2 DEF ApplyState
    <3>2. panels' = [g \in DOMAIN panels' |-> panels'[g]]
      BY <3>1 DEF Built
    <3>3. /\ \A s \in DOMAIN flights' : \E h, a, t, c :
                flights'[s] = [hosts |-> h, range |-> a, todo |-> t,
                               current |-> c]
          /\ flights' = [s \in DOMAIN flights' |-> flights'[s]]
      BY <3>1, OutdatedFlights, RefreshFlights
    <3> QED BY <3>2, <3>3 DEF Shaped
  <2> QED BY <2>1, <2>2
<1>2. ASSUME NEW s \in Slot, NEW g \in Group, Answer(s, g)
      PROVE  Shaped'
  <2>1. panels' = [x \in DOMAIN panels' |-> panels'[x]]
    BY <1>2 DEF Answer, Shaped
  <2>2. flights' = [t \in DOMAIN flights' |-> flights'[t]]
    BY <1>2, AnswerFlights
  <2>3. \A t \in DOMAIN flights' : \E h, a, u, c :
          flights'[t] = [hosts |-> h, range |-> a, todo |-> u, current |-> c]
    <3> TAKE t \in DOMAIN flights'
    <3>1. CASE t = s
      BY <1>2, <3>1, AnswerFlights
    <3>2. CASE t # s
      <4>1. t \in DOMAIN flights /\ flights'[t] = flights[t]
        <5>1. /\ DOMAIN flights' = DOMAIN flights
              /\ \A u \in DOMAIN flights : u # s => flights'[u] = flights[u]
          BY <1>2, AnswerOthers
        <5> QED BY <3>2, <5>1, Zenon
      <4> QED BY <4>1 DEF Shaped
    <3> QED BY <3>1, <3>2
  <2> QED BY <2>1, <2>2, <2>3 DEF Shaped
<1>3. ASSUME NEW s \in Slot, Finish(s)
      PROVE  Shaped'
  <2>1. panels' = panels
    BY <1>3 DEF Finish
  <2>2. \A t \in DOMAIN flights' :
          t \in DOMAIN flights /\ flights'[t] = flights[t]
    BY <1>3, FinishFlights
  <2>3. flights' = [t \in DOMAIN flights' |-> flights'[t]]
    BY <1>3, FinishFlights
  <2> QED BY <2>1, <2>2, <2>3 DEF Shaped
<1>4. CASE Ring
  BY <1>4, RefreshFlights DEF Ring, Shaped, grid
<1>5. CASE Show
  BY <1>5, RefreshFlights DEF Show, Shaped, grid
<1>6. CASE Untouched
  BY <1>6 DEF Untouched, Shaped, grid
<1> QED BY Steps, <1>1, <1>2, <1>3, <1>4, <1>5, <1>6

-----------------------------------------------------------------------------
(* Charts.                                                                 *)

\* A grid that is there was built for the present selection, and so was
\* every load that may still be shown.
GridInv ==
    /\ Shaped
    /\ DOMAIN panels # {} => hosts = rendered
    /\ \A s \in DOMAIN flights : flights[s].current =>
          /\ flights[s].todo \subseteq DOMAIN panels
          /\ DOMAIN panels # {} => flights[s].hosts = hosts
    /\ \A g \in DOMAIN panels :
          panels[g].mode = "chart" => panels[g].hosts = hosts

LEMMA InitGrid == Init => GridInv
  BY DEF Init, GridInv, Shaped

LEMMA StepGrid ==
    ASSUME GridInv, [Next]_vars
    PROVE  GridInv'
<1>1. Shaped /\ Shaped'
  BY StepShaped DEF GridInv
<1>2. ASSUME NEW hs, NEW r, ApplyState(hs, r)
      PROVE  GridInv'
  <2>1. CASE hs = rendered
    <3>1. /\ hosts' = hs /\ rendered' = hs /\ panels' = panels
          /\ Refresh(flights, panels, hs, r)
      BY <1>2, <2>1 DEF ApplyState
    <3>2. DOMAIN panels # {} => hosts' = hosts
      BY <2>1, <3>1 DEF GridInv
    <3>3. \A s \in DOMAIN flights' : flights'[s].current =>
            /\ flights'[s].todo \subseteq DOMAIN panels
            /\ DOMAIN panels # {} => flights'[s].hosts = hosts'
      BY <1>1, <3>1, <3>2, RefreshFlights DEF GridInv, Shaped
    <3> QED BY <1>1, <3>1, <3>2, <3>3 DEF GridInv
  <2>2. CASE hs # rendered
    <3>1. /\ hosts' = hs /\ rendered' = hs /\ panels' = Built(hs)
          /\ Refresh(Outdated, Built(hs), hs, r)
      BY <1>2, <2>2 DEF ApplyState
    <3>2. \A s \in DOMAIN flights' : flights'[s].current =>
            flights'[s].todo = DOMAIN Built(hs) /\ flights'[s].hosts = hs
      BY <1>1, <3>1, OutdatedFlights, RefreshFlights
    <3>3. \A g \in DOMAIN Built(hs) : Built(hs)[g].mode # "chart"
      BY DEF Built
    <3> QED BY <1>1, <3>1, <3>2, <3>3 DEF GridInv
  <2> QED BY <2>1, <2>2
<1>3. ASSUME NEW s \in Slot, NEW g \in Group, Answer(s, g)
      PROVE  GridInv'
  <2>1. hosts' = hosts /\ rendered' = rendered
    BY <1>3 DEF Answer, view
  <2>2. /\ s \in DOMAIN flights
        /\ g \in flights[s].todo
        /\ flights[s].current => g \in DOMAIN panels
                                 /\ flights[s].hosts = hosts
    BY <1>3 DEF Answer, GridInv
  <2>3. DOMAIN panels' = DOMAIN panels
    BY <1>1, <1>3 DEF Answer, Shaped
  <2>4. \A x \in DOMAIN panels' :
          panels'[x].mode = "chart" => panels'[x].hosts = hosts
    <3>1. CASE flights[s].current
      <4>1. PICK p \in Shown(flights[s], panels[g]) :
              panels' = [panels EXCEPT ![g] = p]
        BY <1>3, <3>1 DEF Answer
      <4>2. p.mode = "chart" => p.hosts = hosts
        BY <2>2, <3>1 DEF Shown, GridInv
      <4> QED BY <1>1, <2>2, <2>3, <3>1, <4>1, <4>2 DEF GridInv, Shaped
    <3>2. CASE ~flights[s].current
      BY <1>3, <3>2 DEF Answer, GridInv
    <3> QED BY <3>1, <3>2
  <2>5. \A t \in DOMAIN flights' : flights'[t].current =>
          /\ flights'[t].todo \subseteq DOMAIN panels'
          /\ DOMAIN panels' # {} => flights'[t].hosts = hosts'
    <3> SUFFICES ASSUME NEW t \in DOMAIN flights', flights'[t].current
                 PROVE  /\ flights'[t].todo \subseteq DOMAIN panels
                        /\ DOMAIN panels # {} => flights'[t].hosts = hosts
      BY <2>1, <2>3
    <3>1. t \in DOMAIN flights
      BY <1>1, <1>3, AnswerFlights
    <3>2. CASE t = s
      <4>1. /\ flights'[t].current = flights[t].current
            /\ flights'[t].todo = flights[t].todo \ {g}
            /\ flights'[t].hosts = flights[t].hosts
        BY <1>1, <1>3, <3>2, AnswerFlights
      <4> QED BY <3>1, <4>1 DEF GridInv
    <3>3. CASE t # s
      <4>1. flights'[t] = flights[t]
        <5>1. \A u \in DOMAIN flights : u # s => flights'[u] = flights[u]
          BY <1>1, <1>3, AnswerOthers
        <5> QED BY <3>1, <3>3, <5>1, Zenon
      <4> QED BY <3>1, <4>1 DEF GridInv
    <3> QED BY <3>2, <3>3
  <2> QED BY <1>1, <2>1, <2>3, <2>4, <2>5 DEF GridInv
<1>4. ASSUME NEW s \in Slot, Finish(s)
      PROVE  GridInv'
  <2>1. \A t \in DOMAIN flights' :
          t \in DOMAIN flights /\ flights'[t] = flights[t]
    BY <1>1, <1>4, FinishFlights
  <2>2. hosts' = hosts /\ rendered' = rendered /\ panels' = panels
    BY <1>4 DEF Finish, view
  <2> QED BY <1>1, <2>1, <2>2 DEF GridInv
<1>5. CASE Ring
  BY <1>1, <1>5, RefreshFlights DEF Ring, GridInv, Shaped, view, grid
<1>6. CASE Show
  BY <1>1, <1>6, RefreshFlights DEF Show, GridInv, Shaped, view, grid
<1>7. CASE Untouched
  BY <1>7, <1>1 DEF Untouched, GridInv, view, grid
<1> QED BY Steps, <1>2, <1>3, <1>4, <1>5, <1>6, <1>7

\* Whatever loads are under way when the selection changes, and in whatever
\* order they are answered, every chart draws the hosts selected.
THEOREM ChartsAreOfSelection == Spec => []ChartsOfSelection
<1>1. GridInv /\ [Next]_vars => GridInv'
  BY StepGrid
<1>2. GridInv => ChartsOfSelection
  BY DEF GridInv, ChartsOfSelection, Charts
<1> QED BY InitGrid, <1>1, <1>2, PTL DEF Spec

-----------------------------------------------------------------------------
(* The chain of refreshes, and the footnote.                               *)

\* A step that applies a state leaves a current flight, or no hosts; in a
\* grid of its own no flight that was there before is current.
LEMMA AppliedFlights ==
    ASSUME Shaped, NEW hs, NEW r, ApplyState(hs, r)
    PROVE  /\ timer' = "none"
           /\ hosts' = hs
           /\ hs # <<>> => \E s \in Slot : Current(s)'
           /\ hs = rendered /\ hs = <<>> =>
                flights' = flights /\ panels' = panels /\ note' = note
           /\ hs # rendered => panels' = Built(hs) /\ note' = {}
<1>1. ASSUME NEW fs, NEW ps, Refresh(fs, ps, hs, r)
      PROVE  timer' = "none" /\ (hs # <<>> => \E s \in Slot : Current(s)')
             /\ (hs = <<>> => flights' = fs)
  <2>1. CASE hs = <<>>
    BY <1>1, <2>1 DEF Refresh
  <2>2. CASE hs # <<>>
    <3>1. PICK s \in Slot \ DOMAIN fs :
            flights' = [t \in DOMAIN fs \cup {s} |->
                          IF t = s THEN [hosts |-> hs, range |-> r,
                                         todo |-> DOMAIN ps, current |-> TRUE]
                                   ELSE fs[t]]
      BY <1>1, <2>2 DEF Refresh
    <3>2. s \in DOMAIN flights' /\ flights'[s].current
      BY <3>1
    <3> QED BY <1>1, <2>2, <3>2 DEF Refresh, Current
  <2> QED BY <2>1, <2>2
<1>2. CASE hs = rendered
  BY <1>1, <1>2 DEF ApplyState
<1>3. CASE hs # rendered
  BY <1>1, <1>3 DEF ApplyState
<1> QED BY <1>2, <1>3

\* A refresh the timer or the tab starts leaves a current flight, too.
LEMMA RefreshedFlights ==
    ASSUME NEW hs, NEW r, Refresh(flights, panels, hs, r)
    PROVE  /\ timer' = "none"
           /\ hs # <<>> => \E s \in Slot : Current(s)'
           /\ hs = <<>> => flights' = flights
<1>1. CASE hs = <<>>
  BY <1>1 DEF Refresh
<1>2. CASE hs # <<>>
  <2>1. PICK s \in Slot \ DOMAIN flights :
          flights' = [t \in DOMAIN flights \cup {s} |->
                        IF t = s THEN [hosts |-> hs, range |-> r,
                                       todo |-> DOMAIN panels,
                                       current |-> TRUE]
                                 ELSE flights[t]]
    BY <1>2 DEF Refresh
  <2>2. s \in DOMAIN flights' /\ flights'[s].current
    BY <2>1
  <2> QED BY <1>2, <2>2 DEF Refresh, Current
<1> QED BY <1>1, <1>2

\* An answer leaves every flight as current as it was; so does the end of
\* another one.
LEMMA AnswerCurrent ==
    ASSUME Shaped, NEW s \in Slot, NEW g \in Group, Answer(s, g)
    PROVE  \A t \in Slot : Current(t)' <=> Current(t)
<1>1. \A t \in DOMAIN flights : flights'[t].current = flights[t].current
  BY AnswerFlights DEF Answer
<1> QED BY <1>1, AnswerFlights DEF Current

LEMMA FinishCurrent ==
    ASSUME Shaped, NEW s \in Slot, Finish(s)
    PROVE  \A t \in Slot : t # s => (Current(t)' <=> Current(t))
<1>1. /\ DOMAIN flights' = DOMAIN flights \ {s}
      /\ \A t \in DOMAIN flights' : flights'[t] = flights[t]
  BY FinishFlights
<1>2. ASSUME NEW t \in Slot, t # s
      PROVE  t \in DOMAIN flights' <=> t \in DOMAIN flights
  BY <1>1, <1>2
<1> QED BY <1>1, <1>2 DEF Current

\* By which the chain does not break.
LEMMA StepChain ==
    ASSUME Shaped, ChainUnbroken, [Next]_vars
    PROVE  ChainUnbroken'
<1>1. ASSUME NEW hs, NEW r, ApplyState(hs, r)
      PROVE  ChainUnbroken'
  BY <1>1, AppliedFlights DEF ChainUnbroken
<1>2. ASSUME NEW s \in Slot, NEW g \in Group, Answer(s, g)
      PROVE  ChainUnbroken'
  <2>1. \A t \in Slot : Current(t)' <=> Current(t)
    BY <1>2, AnswerCurrent
  <2>2. UNCHANGED <<hosts, range, rendered, timer>>
    BY <1>2 DEF Answer, view
  <2> QED BY <2>1, <2>2 DEF ChainUnbroken, Live
<1>3. ASSUME NEW s \in Slot, Finish(s)
      PROVE  ChainUnbroken'
  <2>1. UNCHANGED <<hosts, range, rendered>>
    BY <1>3 DEF Finish, view
  <2>2. CASE flights[s].current
    BY <1>3, <2>1, <2>2 DEF Finish, Schedule, ChainUnbroken, Live
  <2>3. CASE ~flights[s].current
    <3>1. timer' = timer /\ ~Current(s)
      BY <1>3, <2>3 DEF Finish, Current
    <3>2. \A t \in Slot : Current(t) => Current(t)'
      BY <1>3, <3>1, FinishCurrent
    <3> QED BY <2>1, <3>1, <3>2 DEF ChainUnbroken, Live
  <2> QED BY <2>2, <2>3
<1>4. CASE Ring
  <2>1. UNCHANGED <<hosts, range, rendered>> /\ Live
    BY <1>4 DEF Ring, view, grid, ChainUnbroken
  <2>2. CASE hidden \/ gesturing
    BY <1>4, <2>1, <2>2 DEF Ring, Schedule, ChainUnbroken, Live
  <2>3. CASE ~(hidden \/ gesturing)
    BY <1>4, <2>1, <2>3, RefreshedFlights DEF Ring, ChainUnbroken
  <2> QED BY <2>2, <2>3
<1>5. CASE Show
  <2>1. UNCHANGED <<hosts, range, rendered>>
    BY <1>5 DEF Show, view, grid
  <2>2. CASE Live /\ timer = "none"
    BY <1>5, <2>1, <2>2, RefreshedFlights DEF Show, ChainUnbroken
  <2>3. CASE ~(Live /\ timer = "none")
    <3>1. UNCHANGED <<flights, timer>>
      BY <1>5, <2>3 DEF Show
    <3> QED BY <2>1, <3>1 DEF ChainUnbroken, Live, Current
  <2> QED BY <2>2, <2>3
<1>6. CASE Untouched
  BY <1>6 DEF Untouched, ChainUnbroken, Live, Current, view, grid
<1> QED BY Steps, <1>1, <1>2, <1>3, <1>4, <1>5, <1>6

\* A live view with hosts is being loaded or has its timer set, through any
\* clicks, links, gestures, hidden tabs, failures and late answers.
THEOREM ChainIsUnbroken == Spec => []ChainUnbroken
<1>1. Init => Shaped /\ ChainUnbroken
  BY DEF Init, Shaped, ChainUnbroken
<1>2. Shaped /\ ChainUnbroken /\ [Next]_vars => (Shaped /\ ChainUnbroken)'
  BY StepShaped, StepChain
<1> QED BY <1>1, <1>2, PTL DEF Spec

\* The footnote: without a current load it is what the panels show.
LEMMA StepNote ==
    ASSUME Shaped, NoteTells, [Next]_vars
    PROVE  NoteTells'
<1>1. ASSUME NEW hs, NEW r, ApplyState(hs, r)
      PROVE  NoteTells'
  <2>1. CASE hs # <<>>
    BY <1>1, <2>1, AppliedFlights DEF NoteTells
  <2>2. CASE hs = <<>> /\ hs = rendered
    <3>1. flights' = flights /\ panels' = panels /\ note' = note
      BY <1>1, <2>2, AppliedFlights
    <3> QED BY <3>1 DEF NoteTells, Current, Empty
  <2>3. CASE hs = <<>> /\ hs # rendered
    <3>1. panels' = Built(hs) /\ note' = {}
      BY <1>1, <2>3, AppliedFlights
    <3>2. DOMAIN Built(hs) = {}
      BY <2>3 DEF Built
    <3> QED BY <3>1, <3>2 DEF NoteTells, Empty
  <2> QED BY <2>1, <2>2, <2>3
<1>2. ASSUME NEW s \in Slot, NEW g \in Group, Answer(s, g)
      PROVE  NoteTells'
  <2>1. \A t \in Slot : Current(t)' <=> Current(t)
    BY <1>2, AnswerCurrent
  <2>2. CASE flights[s].current
    BY <1>2, <2>1, <2>2 DEF Answer, Current, NoteTells
  <2>3. CASE ~flights[s].current
    <3>1. panels' = panels /\ note' = note
      BY <1>2, <2>3 DEF Answer
    <3> QED BY <2>1, <3>1 DEF NoteTells, Empty
  <2> QED BY <2>2, <2>3
<1>3. ASSUME NEW s \in Slot, Finish(s)
      PROVE  NoteTells'
  <2>1. panels' = panels
    BY <1>3 DEF Finish
  <2>2. CASE flights[s].current
    BY <1>3, <2>1, <2>2 DEF Finish, NoteTells, Empty
  <2>3. CASE ~flights[s].current
    <3>1. note' = note /\ ~Current(s)
      BY <1>3, <2>3 DEF Finish, Current
    <3>2. \A t \in Slot : Current(t) => Current(t)'
      BY <1>3, <3>1, FinishCurrent
    <3> QED BY <2>1, <3>1, <3>2 DEF NoteTells, Empty
  <2> QED BY <2>2, <2>3
<1>4. ASSUME NEW hs, NEW r, Refresh(flights, panels, hs, r),
             panels' = panels, note' = note
      PROVE  NoteTells'
  <2>1. CASE hs = <<>>
    BY <1>4, <2>1, RefreshedFlights DEF NoteTells, Current, Empty
  <2>2. CASE hs # <<>>
    BY <1>4, <2>2, RefreshedFlights DEF NoteTells
  <2> QED BY <2>1, <2>2
<1>5. ASSUME UNCHANGED <<flights, panels, note>>
      PROVE  NoteTells'
  BY <1>5 DEF NoteTells, Current, Empty
<1>6. CASE Ring
  BY <1>4, <1>5, <1>6 DEF Ring, grid
<1>7. CASE Show
  BY <1>4, <1>5, <1>7 DEF Show, grid
<1>8. CASE Untouched
  BY <1>5, <1>8 DEF Untouched, grid
<1> QED BY Steps, <1>1, <1>2, <1>3, <1>6, <1>7, <1>8

\* Overlapping refreshes, failures and changes of the selection leave no
\* footnote behind that the panels do not bear out.
THEOREM NoteIsTrue == Spec => []NoteTells
<1>1. Init => Shaped /\ NoteTells
  BY DEF Init, Shaped, NoteTells, Empty
<1>2. Shaped /\ NoteTells /\ [Next]_vars => (Shaped /\ NoteTells)'
  BY StepShaped, StepNote
<1> QED BY <1>1, <1>2, PTL DEF Spec

-----------------------------------------------------------------------------
(* The URL.                                                                *)

\* Every hash but the empty one is of some view, and only such a hash comes
\* with an event.
UrlInv ==
    /\ events \in Nat
    /\ \/ location = [hosts |-> location.hosts, range |-> location.range]
       \/ events = 0
    /\ UrlFollowed

LEMMA LinkedViews ==
    ASSUME NEW v \in Linked
    PROVE  v = [hosts |-> v.hosts, range |-> v.range]
  BY DashboardAssumption DEF View

LEMMA InitUrl == Init => UrlInv
  BY DEF Init, UrlInv, UrlFollowed

LEMMA StepUrl ==
    ASSUME UrlInv, [Next]_vars
    PROVE  UrlInv'
<1> USE DEF UrlInv, UrlFollowed
<1>1. ASSUME NEW hs, NEW r, NEW replace, Commit(hs, r, replace)
      PROVE  UrlInv'
  <2>1. location' = [hosts |-> hs, range |-> r] /\ hosts' = hs /\ range' = r
    BY <1>1 DEF Commit, WriteHash, ApplyState
  <2>2. events' \in Nat
    BY <1>1 DEF Commit, WriteHash
  <2> QED BY <2>1, <2>2
<1>2. CASE \E listed \in SUBSET Host : Start(listed)
  BY <1>2, <1>1 DEF Start
<1>3. CASE \E h \in Host : Toggle(h)
  BY <1>3, <1>1 DEF Toggle
<1>4. CASE \E listed \in SUBSET Host : Select(listed)
  BY <1>4, <1>1 DEF Select
<1>5. CASE \E r \in Ranges : PickRange(r)
  BY <1>5, <1>1 DEF PickRange
<1>6. CASE \E r \in Pinned : Drag(r)
  BY <1>6, <1>1 DEF Drag
<1>7. CASE GestureEnd
  BY <1>7, <1>1 DEF GestureEnd, view, url, grid
<1>8. CASE \E v \in Linked : Navigate(v)
  <2>1. PICK v \in Linked : Navigate(v)
    BY <1>8
  <2>2. location' = [hosts |-> v.hosts, range |-> v.range]
        /\ location' = v /\ events' = events + 1
    BY <2>1, LinkedViews DEF Navigate
  <2> QED BY <2>2
<1>9. CASE HashChange
  <2>1. events' = events - 1 /\ events > 0 /\ UNCHANGED <<location, ownHash>>
    BY <1>9 DEF HashChange
  <2>2. location = [hosts |-> location.hosts, range |-> location.range]
    BY <2>1
  <2>3. CASE location = ownHash
    BY <2>1, <2>2, <2>3
  <2>4. CASE location # ownHash
    <3>1. hosts' = location.hosts /\ range' = location.range
      BY <1>9, <2>4 DEF HashChange, ApplyState
    <3> QED BY <2>1, <2>2, <3>1
  <2> QED BY <2>3, <2>4
<1>10. CASE \E s \in Slot, g \in Group : Answer(s, g)
  BY <1>10 DEF Answer, view, url
<1>11. CASE \E s \in Slot : Finish(s)
  BY <1>11 DEF Finish, view, url
<1>12. CASE Ring \/ Hide \/ Show \/ GestureBegin
  BY <1>12 DEF Ring, Hide, Show, GestureBegin, view, url, grid
<1>13. CASE UNCHANGED vars
  BY <1>13 DEF vars, view, url, grid
<1> QED BY <1>2, <1>3, <1>4, <1>5, <1>6, <1>7, <1>8, <1>9, <1>10, <1>11,
           <1>12, <1>13 DEF Next, Network, User, Browser

\* However clicks, replaced hashes, links and late events mix, a URL without
\* an event on its way is the view's, or the page's own last.
THEOREM UrlIsFollowed == Spec => []UrlFollowed
<1>1. UrlInv /\ [Next]_vars => UrlInv'
  BY StepUrl
<1>2. UrlInv => UrlFollowed
  BY DEF UrlInv
<1> QED BY InitUrl, <1>1, <1>2, PTL DEF Spec

-----------------------------------------------------------------------------
(* Types.                                                                  *)

\* The rest of a selection is a selection: the function that collects it
\* exists, since its turns can be iterated, and there is but one, since there
\* is no first turn in which two would differ.
LEMMA AmongType ==
    ASSUME NEW hs \in Seq(Host), NEW listed
    PROVE  Among(hs, listed) \in Seq(Host)
<1> DEFINE n == Len(hs)
           one(i) == IF hs[i] \in listed THEN <<hs[i]>> ELSE <<>>
           Upto(f, k) == \A i \in 0 .. k : f[i] = IF i = 0 THEN <<>> ELSE f[i - 1] \o one(i)
           R(g) == [i \in 0 .. n |-> IF i = 0 THEN <<>> ELSE g[i - 1] \o one(i)]
           upto == CHOOSE g : g = R(g)
<1>1. n \in Nat /\ \A i \in 1 .. n : one(i) \in Seq(Host)
  <2>1. \A i \in 1 .. n : hs[i] \in Host
    OBVIOUS
  <2> QED BY <2>1
<1> DEFINE st == [i \in 1 .. n |-> [x \in Seq(Host) |-> x \o one(i)]]
<1>2. /\ st \in [1 .. n -> [Seq(Host) -> Seq(Host)]]
      /\ \A i \in 1 .. n, x \in Seq(Host) : st[i][x] = x \o one(i)
  <2> HIDE DEF n, one
  <2>1. \A i \in 1 .. n, x \in Seq(Host) : x \o one(i) \in Seq(Host)
    BY <1>1, ConcatProperties
  <2> QED BY <2>1
<1>3. <<>> \in Seq(Host)
  BY EmptySeq
<1>4. PICK f \in [0 .. n -> Seq(Host)] : Iterates(f, <<>>, n, st)
  <2> DEFINE A == Seq(Host)
             a == <<>>
  <2> HIDE DEF n, st, A, a
  <2>1. n \in Nat /\ a \in A /\ st \in [1 .. n -> [A -> A]]
    BY <1>1, <1>2, <1>3 DEF A, a
  <2>2. \E f \in [0 .. n -> A] : Iterates(f, a, n, st)
    BY <2>1, Iterate
  <2> QED BY <2>2 DEF A, a
<1>5. Upto(f, n)
  <2> HIDE DEF one, st, n
  <2> TAKE i \in 0 .. n
  <2>1. CASE i = 0
    BY <1>4, <2>1 DEF Iterates
  <2>2. CASE i # 0
    <3>1. i \in 1 .. n /\ i - 1 \in 0 .. n
      BY <1>1, <2>2
    <3> QED BY <1>2, <1>4, <2>2, <3>1 DEF Iterates
  <2> QED BY <2>1, <2>2
<1>6. f = R(f)
  <2> HIDE DEF one
  <2> QED BY <1>1, <1>5
<1>7. upto = R(upto)
  <2> HIDE DEF R
  <2> QED BY <1>6
<1>8. upto = f
  <2> DEFINE D == {i \in 0 .. n : upto[i] # f[i]}
  <2>1. D = {}
    <3>1. SUFFICES ASSUME D # {} PROVE FALSE
      OBVIOUS
    <3>2. PICK m \in D : \A t \in D : m <= t
      <4>1. D \in SUBSET Nat
        OBVIOUS
      <4> HIDE DEF D
      <4> QED BY <3>1, <4>1, Least
    <3> HIDE DEF one, upto
    <3>3. \A i \in 0 .. n : upto[i] = IF i = 0 THEN <<>> ELSE upto[i - 1] \o one(i)
      BY <1>7
    <3>4. m \in 1 .. n /\ m - 1 \in 0 .. n /\ ~(m <= m - 1)
      BY <1>1, <1>5, <3>2, <3>3
    <3>5. upto[m - 1] = f[m - 1]
      BY <3>2, <3>4
    <3> QED BY <1>5, <3>2, <3>3, <3>4, <3>5
  <2> HIDE DEF one, upto
  <2> QED BY <1>5, <1>7, <2>1
<1>9. Among(hs, listed) = upto[n]
  BY Zenon DEF Among
<1>10. n \in 0 .. n
  BY <1>1
<1> HIDE DEF upto, n
<1> QED BY <1>5, <1>8, <1>9, <1>10

\* TypeOK but for what only the callers of ApplyState change.
ViewOK == hosts \in Seq(Host) /\ range \in Ranges
GridOK ==
    /\ rendered \in Seq(Host) \cup {None}
    /\ DOMAIN panels \in {{}, Group}
    /\ panels \in [DOMAIN panels -> Panel]
    /\ note \in SUBSET DOMAIN panels
LoadsOK ==
    /\ DOMAIN flights \subseteq Slot
    /\ flights \in [DOMAIN flights -> Flight]
    /\ timer \in {"none", "set", "postponed", "spent"}
RestOK ==
    /\ phase \in {"seeding", "restored", "running"}
    /\ hidden \in BOOLEAN
    /\ gesturing \in BOOLEAN

\* Before this page writes a hash there may be none.
UrlOK ==
    /\ location \in View \cup {None}
    /\ ownHash \in View \cup {None}
    /\ location = None => ownHash = None
    /\ events \in 0 .. MaxEvents

Typed == ViewOK /\ GridOK /\ LoadsOK /\ UrlOK /\ RestOK

LEMMA InitTyped == Init => Typed
<1> SUFFICES ASSUME Init PROVE Typed
  OBVIOUS
<1>1. PICK v \in Linked : /\ hosts = v.hosts /\ range = v.range
                          /\ location \in {v, None}
                          /\ phase = IF v.hosts = <<>> THEN "seeding" ELSE "restored"
  BY DEF Init
<1>2. v \in View
  BY DashboardAssumption
<1>3. ViewOK
  BY <1>1, <1>2 DEF View, ViewOK
<1>4. UrlOK
  BY <1>1, <1>2, DashboardAssumption DEF Init, UrlOK
<1>5. GridOK /\ LoadsOK /\ RestOK
  BY <1>1 DEF Init, GridOK, LoadsOK, RestOK
<1> QED BY <1>3, <1>4, <1>5 DEF Typed

\* A refresh adds a load of the present kind.
LEMMA RefreshTyped ==
    ASSUME NEW fs, NEW ps, NEW hs \in Seq(Host), NEW r \in Ranges,
           DOMAIN fs \subseteq Slot, fs \in [DOMAIN fs -> Flight],
           DOMAIN ps \subseteq Group, Refresh(fs, ps, hs, r)
    PROVE  LoadsOK'
<1>1. CASE hs = <<>>
  BY <1>1 DEF Refresh, LoadsOK
<1>2. CASE hs # <<>>
  <2>1. [hosts |-> hs, range |-> r, todo |-> DOMAIN ps, current |-> TRUE] \in Flight
    BY DEF Flight
  <2> QED BY <1>2, <2>1 DEF Refresh, LoadsOK
<1> QED BY <1>1, <1>2

\* The state that is applied is typed if what it is made of is.
LEMMA ApplyTyped ==
    ASSUME GridOK, LoadsOK, NEW hs \in Seq(Host), NEW r \in Ranges, ApplyState(hs, r)
    PROVE  ViewOK' /\ GridOK' /\ LoadsOK'
<1>1. ViewOK' /\ rendered' \in Seq(Host)
  BY DEF ApplyState, ViewOK
<1>2. CASE hs = rendered
  <2>1. DOMAIN panels \subseteq Group
    BY DEF GridOK
  <2>2. LoadsOK'
    BY <1>2, <2>1, RefreshTyped DEF ApplyState, LoadsOK
  <2> QED BY <1>1, <1>2, <2>2 DEF ApplyState, GridOK
<1>3. CASE hs # rendered
  <2>1. panels' = Built(hs) /\ note' = {} /\ Refresh(Outdated, Built(hs), hs, r)
    BY <1>3 DEF ApplyState
  <2>2. DOMAIN Built(hs) \in {{}, Group} /\ Built(hs) \in [DOMAIN Built(hs) -> Panel]
    <3>1. [mode |-> "loading"] \in Panel
      BY DEF Panel
    <3> QED BY <3>1 DEF Built
  <2>3. DOMAIN Outdated \subseteq Slot /\ Outdated \in [DOMAIN Outdated -> Flight]
    <3>1. \A s \in DOMAIN flights : [flights[s] EXCEPT !.current = FALSE] \in Flight
      BY DEF LoadsOK, Flight
    <3> QED BY <3>1 DEF Outdated, LoadsOK
  <2>4. DOMAIN Built(hs) \subseteq Group
    BY <2>2
  <2>5. LoadsOK'
    BY <2>1, <2>3, <2>4, RefreshTyped
  <2> QED BY <1>1, <2>1, <2>2, <2>5 DEF GridOK
<1> QED BY <1>2, <1>3

\* A new state comes with its hash.
LEMMA CommitTyped ==
    ASSUME Typed, NEW hs \in Seq(Host), NEW r \in Ranges, NEW replace, Commit(hs, r, replace)
    PROVE  ViewOK' /\ GridOK' /\ LoadsOK' /\ UrlOK'
<1>1. ViewOK' /\ GridOK' /\ LoadsOK'
  BY ApplyTyped DEF Typed, Commit
<1>2. [hosts |-> hs, range |-> r] \in View
  BY DEF View
<1>3. UrlOK'
  BY <1>2, DashboardAssumption DEF Commit, WriteHash, Typed, UrlOK
<1> QED BY <1>1, <1>3

\* What an answer shows is a panel.
LEMMA ShownTyped ==
    ASSUME NEW f \in Flight, NEW panel \in Panel, NEW p \in Shown(f, panel)
    PROVE  p \in Panel
<1>1. [mode |-> "chart", hosts |-> f.hosts, range |-> f.range] \in Panel
  BY DEF Panel, Chart, Flight
<1>2. [mode |-> "empty"] \in Panel /\ [mode |-> "error"] \in Panel
  BY DEF Panel
<1> QED BY <1>1, <1>2 DEF Shown

LEMMA AnswerTyped ==
    ASSUME Typed, NEW s \in Slot, NEW g \in Group, Answer(s, g)
    PROVE  Typed'
<1>1. s \in DOMAIN flights /\ g \in flights[s].todo /\ flights[s] \in Flight
  BY DEF Answer, Typed, LoadsOK
<1>2. LoadsOK'
  <2>1. [flights[s] EXCEPT !.todo = @ \ {g}] \in Flight
    BY <1>1 DEF Flight
  <2>2. flights' \in [DOMAIN flights -> Flight]
    BY <2>1 DEF Answer, Typed, LoadsOK
  <2> QED BY <2>2 DEF Answer, Typed, LoadsOK
<1>3. GridOK'
  <2>1. CASE flights[s].current /\ g \in DOMAIN panels
    <3>1. PICK p \in Shown(flights[s], panels[g]) : panels' = [panels EXCEPT ![g] = p]
      BY <2>1 DEF Answer
    <3>2. p \in Panel
      BY <1>1, <2>1, ShownTyped DEF Typed, GridOK
    <3>3. panels' \in [DOMAIN panels -> Panel]
      BY <3>1, <3>2 DEF Typed, GridOK
    <3> QED BY <3>3 DEF Answer, Typed, GridOK
  <2>2. CASE flights[s].current /\ g \notin DOMAIN panels
    <3>1. panels' = panels
      BY <2>2 DEF Answer, Typed, GridOK
    <3> QED BY <3>1 DEF Answer, Typed, GridOK
  <2>3. CASE ~flights[s].current
    BY <2>3 DEF Answer, Typed, GridOK
  <2> QED BY <2>1, <2>2, <2>3
<1> QED BY <1>2, <1>3 DEF Answer, Typed, ViewOK, UrlOK, RestOK, view, url

LEMMA FinishTyped ==
    ASSUME Typed, NEW s \in Slot, Finish(s)
    PROVE  Typed'
<1>1. LoadsOK'
  BY DEF Finish, Typed, LoadsOK, Restrict, Schedule
<1>2. GridOK'
  BY DEF Finish, Typed, GridOK, Empty
<1> QED BY <1>1, <1>2 DEF Finish, Typed, ViewOK, UrlOK, RestOK, view, url

\* The timer, and the tab that comes back, load what is shown.
LEMMA TimerTyped ==
    ASSUME Typed, Ring \/ Show \/ Hide
    PROVE  Typed'
<1>1. DOMAIN panels \subseteq Group
  BY DEF Typed, GridOK
<1>2. ASSUME Refresh(flights, panels, hosts, range) PROVE LoadsOK'
  BY <1>1, <1>2, RefreshTyped DEF Typed, ViewOK, LoadsOK
<1>3. LoadsOK'
  BY <1>2 DEF Ring, Show, Hide, Schedule, Typed, LoadsOK
<1> QED BY <1>3 DEF Ring, Show, Hide, Typed, ViewOK, GridOK, UrlOK, RestOK, view, url, grid

LEMMA StepTyped ==
    ASSUME Typed, [Next]_vars
    PROVE  Typed'
<1> USE DEF Typed
<1>1. hosts \in Seq(Host) /\ range \in Ranges /\ Roster \in Seq(Host)
  BY DashboardAssumption DEF ViewOK
<1>2. Pinned \subseteq Ranges
  BY DEF Ranges
<1>3. CASE \E listed \in SUBSET Host : Start(listed)
  <2>1. PICK listed \in SUBSET Host : Start(listed)
    BY <1>3
  <2>2. Among(hosts, listed) \in Seq(Host) /\ Among(Roster, listed) \in Seq(Host)
    BY <1>1, AmongType
  <2>3. ViewOK' /\ GridOK' /\ LoadsOK' /\ UrlOK'
    BY <1>1, <2>1, <2>2, CommitTyped DEF Start
  <2> QED BY <2>1, <2>3 DEF Start, RestOK
<1>4. CASE \E h \in Host : Toggle(h)
  <2>1. PICK h \in Host : Toggle(h)
    BY <1>4
  <2>2. Among(hosts, Host \ {h}) \in Seq(Host) /\ Append(hosts, h) \in Seq(Host)
    BY <1>1, AmongType
  <2>3. ViewOK' /\ GridOK' /\ LoadsOK' /\ UrlOK'
    BY <1>1, <2>1, <2>2, CommitTyped DEF Toggle
  <2> QED BY <2>1, <2>3 DEF Toggle, RestOK
<1>5. CASE \E listed \in SUBSET Host : Select(listed)
  <2>1. PICK listed \in SUBSET Host : Select(listed)
    BY <1>5
  <2>2. Among(Roster, listed) \in Seq(Host)
    BY <1>1, AmongType
  <2>3. ViewOK' /\ GridOK' /\ LoadsOK' /\ UrlOK'
    BY <1>1, <2>1, <2>2, CommitTyped DEF Select
  <2> QED BY <2>1, <2>3 DEF Select, RestOK
<1>6. CASE \E r \in Ranges : PickRange(r)
  <2>1. ViewOK' /\ GridOK' /\ LoadsOK' /\ UrlOK'
    BY <1>1, <1>6, CommitTyped DEF PickRange
  <2> QED BY <1>6, <2>1 DEF PickRange, RestOK
<1>7. CASE \E r \in Pinned : Drag(r)
  <2>1. ViewOK' /\ GridOK' /\ LoadsOK' /\ UrlOK'
    BY <1>1, <1>2, <1>7, CommitTyped DEF Drag
  <2> QED BY <1>7, <2>1 DEF Drag, RestOK
<1>8. CASE GestureBegin
  BY <1>8 DEF GestureBegin, ViewOK, GridOK, LoadsOK, UrlOK, RestOK, view, url, grid
<1>9. CASE GestureEnd
  <2>1. CASE UNCHANGED <<view, url, grid, flights, timer>>
    BY <1>9, <2>1 DEF GestureEnd, ViewOK, GridOK, LoadsOK, UrlOK, RestOK, view, url, grid
  <2>2. CASE \E r \in Pinned : Commit(hosts, r, TRUE)
    <3>1. ViewOK' /\ GridOK' /\ LoadsOK' /\ UrlOK'
      BY <1>1, <1>2, <2>2, CommitTyped
    <3> QED BY <1>9, <3>1 DEF GestureEnd, RestOK
  <2> QED BY <1>9, <2>1, <2>2 DEF GestureEnd
<1>10. CASE \E v \in Linked : Navigate(v)
  <2>1. PICK v \in Linked : Navigate(v)
    BY <1>10
  <2>2. v \in View /\ v # None
    BY DashboardAssumption
  <2>3. UrlOK'
    BY <2>1, <2>2, DashboardAssumption DEF Navigate, UrlOK
  <2> QED BY <2>1, <2>3 DEF Navigate, ViewOK, GridOK, LoadsOK, RestOK, view, grid
<1>11. CASE HashChange
  <2>1. UrlOK' /\ RestOK'
    BY <1>11, DashboardAssumption DEF HashChange, UrlOK, RestOK
  <2>2. CASE location = ownHash
    BY <1>11, <2>1, <2>2 DEF HashChange, ViewOK, GridOK, LoadsOK, view, grid
  <2>3. CASE location # ownHash
    <3>1. location.hosts \in Seq(Host) /\ location.range \in Ranges
      BY <2>3 DEF UrlOK, View
    <3>2. ViewOK' /\ GridOK' /\ LoadsOK'
      BY <1>11, <2>3, <3>1, ApplyTyped DEF HashChange
    <3> QED BY <2>1, <3>2
  <2> QED BY <2>2, <2>3
<1>12. CASE UNCHANGED vars
  BY <1>12 DEF vars, ViewOK, GridOK, LoadsOK, UrlOK, RestOK, view, url, grid
<1> QED
  BY <1>3, <1>4, <1>5, <1>6, <1>7, <1>8, <1>9, <1>10, <1>11, <1>12,
     AnswerTyped, FinishTyped, TimerTyped DEF Next, Network, User, Browser

\* Whatever is selected, dropped, answered or navigated to, the page's state
\* keeps its types: a selection is of the server's hosts, a footnote names
\* panels that are there, and a load asks for panels of the grid.
THEOREM TypeCorrect == Spec => []TypeOK
<1>1. Typed /\ [Next]_vars => Typed'
  BY StepTyped
<1>2. Typed => TypeOK
  BY DEF Typed, ViewOK, GridOK, LoadsOK, UrlOK, RestOK, TypeOK
<1> QED BY InitTyped, <1>1, <1>2, PTL DEF Spec
=============================================================================
