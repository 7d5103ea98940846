------------------------------- MODULE Server -------------------------------
(***************************************************************************)
(* The scrape tasks of Scrape beside one request of the query API          *)
(* (crates/silph-server/src/api.rs query).  The request resolves the       *)
(* series it wants from the host map under one lock, lets go of it, and    *)
(* then asks the store for one series after the other, each behind an      *)
(* await, while scrapes go on.                                             *)
(***************************************************************************)
EXTENDS Scrape

CONSTANT MaxSeries   \* MAX_SERIES

ASSUME ServerAssumption == MaxSeries \in Nat

VARIABLE request     \* what the request is doing

Idle == [op |-> "idle"]

\* `due' (history): the wanted series acknowledged before it began.
Request == [op : {"reading"}, todo : SUBSET Series, found : SUBSET Series,
            due : SUBSET Series]

serverVars == <<vars, request>>

ServerTypeOK == TypeOK /\ request \in {Idle} \cup Request

ServerInit == Init /\ request = Idle

-----------------------------------------------------------------------------

\* The fan-out over hosts and metrics: a plain metric is one series of a
\* host, an instanced one as many as the host has known instances.
\* (Mutant first: instances of every host.)
TargetsAnyHost(names, metrics) ==
    {s \in names \X Label :
       \/ "cpu" \in metrics /\ s[2] = Cpu
       \/ "disk" \in metrics /\ \E h \in DOMAIN hosts : s[2] \in hosts[h].instances}

Targets(names, metrics) ==
    {s \in names \X Label :
       \/ "cpu" \in metrics /\ s[2] = Cpu
       \/ "disk" \in metrics /\ s[2] \in hosts[s[1]].instances}

Wanted(s, metrics) == IF s[2] = Cpu THEN "cpu" \in metrics ELSE "disk" \in metrics

\* The series this process has stored and whose scrape is over.
Acknowledged ==
    {s \in fresh : task[s[1]].op = "finishing"
                     => s \notin SeriesOf(s[1], task[s[1]].points)}

\* An unknown host is answered 404, too many series 400: no request starts.
QueryBegin(names, metrics) ==
    /\ request = Idle
    /\ names \subseteq DOMAIN hosts
    /\ Cardinality(Targets(names, metrics)) <= MaxSeries
    /\ request' = [op |-> "reading", todo |-> Targets(names, metrics),
                   found |-> {},
                   due |-> {s \in Acknowledged :
                              s[1] \in names /\ Wanted(s, metrics)}]
    /\ UNCHANGED vars

\* One Store::query; a series without points is left out of the answer.
QueryOne ==
    /\ request.op = "reading"
    /\ \E s \in request.todo :
          request' = [request EXCEPT !.todo = @ \ {s},
                                     !.found = @ \cup ({s} \cap stored)]
    /\ UNCHANGED vars

QueryReturn ==
    /\ request.op = "reading"
    /\ request.todo = {}
    /\ request' = Idle
    /\ UNCHANGED vars

\* A store query that fails ends the request with a 500.
QueryFail ==
    /\ trouble
    /\ request.op = "reading"
    /\ request.todo # {}
    /\ request' = Idle
    /\ UNCHANGED vars

\* A restart takes the request with it.
ServerRestart == Restart /\ request' = Idle

Query ==
    \/ \E names \in SUBSET Host \ {{}},
          metrics \in SUBSET {"cpu", "disk"} \ {{}} : QueryBegin(names, metrics)
    \/ QueryOne
    \/ QueryReturn
    \/ QueryFail

Scraping ==
    /\ \/ \E h \in Host : ScrapeStep(h)
       \/ Machine
       \/ Calm
    /\ UNCHANGED request

ServerNext == Scraping \/ ServerRestart \/ Query

ServerSpec == ServerInit /\ [][ServerNext]_serverVars

-----------------------------------------------------------------------------

\* A finished answer holds every series it asks for that a scrape of this
\* process had acknowledged before the request resolved its hosts, and only
\* series of which points are stored, although the host map and the store
\* are read at different moments and scrapes fail and go on in between
\* (api.rs:176-178, 227-231).
AnswerCovers ==
    request.op = "reading" /\ request.todo = {} =>
       request.due \subseteq request.found /\ request.found \subseteq stored

\* Every series a request is told of by an instance is one of its own host:
\* none comes back empty for a mount the host never had (api.rs:227-229).
NoEmptyInstance ==
    request.op = "reading" =>
       \A s \in request.todo : s[2] # Cpu => s \in stored
=============================================================================
