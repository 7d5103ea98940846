------------------------------- MODULE Uptime -------------------------------
(***************************************************************************)
(* When the server calls a host up (crates/silph-server/src/scrape.rs):    *)
(* the timing of one target's scrape task against the age of its last      *)
(* success.  Time is discrete and only its differences are kept, so the    *)
(* task runs for ever.  What a scrape carries is module Scrape's matter.   *)
(***************************************************************************)
EXTENDS Integers

CONSTANTS
    Interval,   \* scrape_interval
    Timeout,    \* scrape_timeout, the client's limit for one request
    StoreMax    \* the longest an insert takes, lock waits included

ASSUME UptimeAssumption ==
    /\ Interval \in Nat \ {0, 1}   \* the unit of time is half of it, or less
    /\ Timeout \in Nat
    /\ StoreMax \in Nat

\* The f64 product, truncated.
\* (Mutant first: two intervals.)
ThresholdTwo == Interval * 2
Threshold == (Interval * 5) \div 2

\* The age of last_ok_ms is kept up to the threshold, where it stops
\* mattering; Never stands for a host without a success.
Never == -1

VARIABLES
    phase,   \* what the scrape task is doing
    due,     \* time until the ticker's next deadline, 0 once it has passed
    spent,   \* time since the request was sent, or since the answer came
    age,     \* time since last_ok_ms
    missed,  \* history: scrapes failed since the last success, up to 2
    late     \* history: 2 once a scrape is under way at the next deadline, and
             \* one less with every success

vars == <<phase, due, spent, age, missed, late>>

TypeOK ==
    /\ phase \in {"waiting", "asking", "storing"}
    /\ due \in 0 .. Interval
    /\ spent \in Nat
    /\ age \in {Never} \cup 0 .. Threshold
    /\ missed \in 0 .. 2
    /\ late \in 0 .. 2

\* The first tick is immediate.
Init ==
    /\ phase = "waiting"
    /\ due = 0
    /\ spent = 0
    /\ age = Never
    /\ missed = 0
    /\ late = 0

\* MissedTickBehavior::Delay: the next deadline is one interval after the
\* tick, on time or late.
Tick ==
    /\ phase = "waiting"
    /\ due = 0
    /\ phase' = "asking"
    /\ due' = Interval
    /\ spent' = 0
    /\ UNCHANGED <<age, missed, late>>

\* The answer is in: curr.ts_ms is this moment.
Answer ==
    /\ phase = "asking"
    /\ phase' = "storing"
    /\ spent' = 0
    /\ UNCHANGED <<due, age, missed, late>>

\* The request or the insert fails, at the latest at its limit.
\* (Mutant first: one more interval is waited for after a failure.)
MissBackoff ==
    /\ phase \in {"asking", "storing"}
    /\ phase' = "waiting"
    /\ spent' = 0
    /\ missed' = IF missed = 2 THEN 2 ELSE missed + 1
    /\ due' = due + Interval
    /\ UNCHANGED <<age, late>>

Miss ==
    /\ phase \in {"asking", "storing"}
    /\ phase' = "waiting"
    /\ spent' = 0
    /\ missed' = IF missed = 2 THEN 2 ELSE missed + 1
    /\ UNCHANGED <<due, age, late>>

\* The insert has succeeded: last_ok_ms is when the answer came.
Stored ==
    /\ phase = "storing"
    /\ phase' = "waiting"
    /\ age' = IF spent < Threshold THEN spent ELSE Threshold
    /\ missed' = 0
    /\ late' = IF late = 0 THEN 0 ELSE late - 1
    /\ spent' = 0
    /\ UNCHANGED due

Limit == IF phase = "asking" THEN Timeout ELSE StoreMax

\* One unit of time passes: never beyond a limit, and a task whose tick is
\* due does not wait.
Pass ==
    /\ IF phase = "waiting" THEN due > 0 ELSE spent < Limit
    /\ due' = IF due = 0 THEN 0 ELSE due - 1
    /\ spent' = IF phase = "waiting" THEN 0 ELSE spent + 1
    /\ age' = IF age = Never \/ age = Threshold THEN age ELSE age + 1
    /\ late' = IF phase # "waiting" /\ due = 0 THEN 2 ELSE late
    /\ UNCHANGED <<phase, missed>>

Next ==
    \/ Tick
    \/ Answer
    \/ Miss
    \/ Stored
    \/ Pass

Spec == Init /\ [][Next]_vars

-----------------------------------------------------------------------------

\* HostState::up.
Up == age # Never /\ age < Threshold

\* The scrape under way was sent less than half an interval ago.
Young == phase = "waiting" \/ Interval - due < Interval \div 2

\* A host is up from a success to the end of the next scrape, and on through
\* one that fails until the one after it has itself lasted half an interval:
\* whatever the limits, as long as no scrape since the success before the last
\* was still under way when the next was due (scrape.rs:24-34).  Lines 22-23
\* say it of one missed scrape without the half interval.
OneMissTolerated ==
    age # Never /\ late = 0 =>
       /\ missed = 0 => Up
       /\ missed = 1 /\ Young => Up
=============================================================================
