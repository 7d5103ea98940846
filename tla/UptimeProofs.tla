---------------------------- MODULE UptimeProofs ----------------------------
(***************************************************************************)
(* One missed scrape does not show before the next is half an interval     *)
(* old, for every interval and whatever the limits of requests and inserts *)
(* are.                                                                    *)
(***************************************************************************)
EXTENDS Uptime, TLAPS

\* Where the task is within its interval, unless a scrape was late.
InInterval ==
    /\ phase = "waiting" => spent = 0
    /\ phase = "asking" /\ late < 2 => due + spent = Interval
    /\ phase = "storing" /\ late < 2 => due + spent <= Interval

\* How old the last success can be by the next deadline: one interval, and
\* one more for every scrape missed or under way.
AgeBounded ==
    age # Never /\ late = 0 =>
       /\ phase = "waiting" /\ missed = 0 => age + due <= Interval
       /\ phase = "waiting" /\ missed = 1 => age + due <= 2 * Interval
       /\ phase # "waiting" /\ missed = 0 => age + due <= 2 * Interval
       /\ phase # "waiting" /\ missed = 1 => age + due <= 3 * Interval

IInv == TypeOK /\ InInterval /\ AgeBounded

\* The threshold is two intervals and half of one.
LEMMA ThresholdFact ==
    /\ Threshold \in Nat /\ Threshold = 2 * Interval + Interval \div 2
    /\ Interval \div 2 > 0
  BY UptimeAssumption, SMT DEF Threshold

\* The invariant holds of the initial state.
LEMMA InitIInv == Init => IInv
  BY UptimeAssumption, SMT
     DEF Init, IInv, TypeOK, InInterval, AgeBounded, Never, Threshold

\* Every step keeps it: one step of the proof per action.
LEMMA StepIInv ==
    ASSUME IInv, [Next]_vars
    PROVE  IInv'
<1> USE UptimeAssumption, ThresholdFact
    DEF IInv, TypeOK, InInterval, AgeBounded, Never
<1>1. CASE Tick
  BY <1>1, SMT DEF Tick
<1>2. CASE Answer
  BY <1>2, SMT DEF Answer
<1>3. CASE Miss
  BY <1>3, SMT DEF Miss
<1>4. CASE Stored
  BY <1>4, SMT DEF Stored
<1>5. CASE Pass
  <2>1. CASE phase = "waiting"
    BY <1>5, <2>1, SMT DEF Pass
  <2>2. CASE phase # "waiting" /\ due = 0
    BY <1>5, <2>2, SMT DEF Pass
  <2>3. CASE phase = "asking" /\ due # 0
    BY <1>5, <2>3, SMT DEF Pass
  <2>4. CASE phase = "storing" /\ due # 0
    BY <1>5, <2>4, SMT DEF Pass
  <2> QED BY <2>1, <2>2, <2>3, <2>4
<1>6. CASE UNCHANGED vars
  BY <1>6, SMT DEF vars
<1> QED BY <1>1, <1>2, <1>3, <1>4, <1>5, <1>6 DEF Next

\* At every moment it speaks of, the bound is below the threshold.
LEMMA IInvImpliesTolerated ==
    ASSUME IInv
    PROVE  OneMissTolerated
  BY UptimeAssumption, ThresholdFact, SMT
     DEF IInv, TypeOK, InInterval, AgeBounded, OneMissTolerated, Young, Up, Never

\* Every variable keeps its type, whatever the limits: the ticker's deadline
\* never falls behind and a success never counts as older than the threshold.
THEOREM TypeCorrect == Spec => []TypeOK
<1> Threshold \in Nat /\ Never \notin Nat
  BY UptimeAssumption, SMT DEF Threshold, Never
<1>1. Init => TypeOK
  BY UptimeAssumption, SMT DEF Init, TypeOK
<1>2. TypeOK /\ [Next]_vars => TypeOK'
  BY UptimeAssumption, SMT
     DEF TypeOK, Next, vars, Tick, Answer, Miss, Stored, Pass, Never
<1> QED BY <1>1, <1>2, PTL DEF Spec

\* For every interval and all limits, a host that has succeeded is up until
\* the next scrape ends and, where that one fails, until the one after it has
\* been under way for half an interval (scrape.rs:24-34).  Scrapes longer than
\* their interval are excepted: nothing is said from one on until the second
\* success after it.
THEOREM OneMissIsTolerated == Spec => []OneMissTolerated
<1>1. IInv /\ [Next]_vars => IInv'
  BY StepIInv
<1>2. IInv => OneMissTolerated
  BY IInvImpliesTolerated
<1> QED BY InitIInv, <1>1, <1>2, PTL DEF Spec
=============================================================================
