--------------------------- MODULE StoragePolling ---------------------------
(***************************************************************************)
(* The free-space sampling behind the Overview page: the poller the server *)
(* starts and stops (storage-pressure-poller.ts), the monitor that samples *)
(* and keeps the latest result (storage-pressure-monitor.ts), and the      *)
(* Overview request that samples for itself while there is none            *)
(* (storage-runtime.ts).                                                   *)
(*                                                                         *)
(* A sample awaits the file system; start, stop, the timer and requests    *)
(* run in between.  An interval is known by its number, so that one that   *)
(* was forgotten without being cleared is seen to be alive still.          *)
(***************************************************************************)
EXTENDS Naturals, FiniteSets

CONSTANTS
  MaxStarts,   \* bound: calls of start
  WarningFree, \* free space below which the pressure is WARNING
  DangerFree,  \* free space below which it is BLOCKED
  Readings     \* free space the file system may report

ASSUME StoragePollingAssumption == MaxStarts \in Nat /\ DangerFree < WarningFree

VARIABLES
  running,    \* StoragePressurePoller.running
  interval,   \* intervalHandle, 0 for undefined
  ticking,    \* the intervals the runtime has and has not cleared
  inFlight,   \* whether pollOnce has a sample under way
  starting,   \* the calls of start that await it
  starts,     \* calls of start so far
  asking,     \* whether an Overview request awaits a sample of its own
  latest      \* pressure of the monitor's latest sample, "none" before one

pollVars == <<running, interval, ticking, inFlight, starting, starts, asking, latest>>

PollInit ==
  /\ running = FALSE
  /\ interval = 0
  /\ ticking = {}
  /\ inFlight = FALSE
  /\ starting = {}
  /\ starts = 0
  /\ asking = FALSE
  /\ latest = "none"
-----------------------------------------------------------------------------
\* StoragePolicy.classify: a reading that failed blocks.
Classified(free) ==
  IF free < DangerFree THEN "BLOCKED" ELSE IF free < WarningFree THEN "WARNING" ELSE "NORMAL"

\* Whether start returns what there is instead of sampling.
AlreadyStarted == running /\ (latest # "none" \/ starting # {})

StartPolling ==
  /\ starts < MaxStarts
  /\ starts' = starts + 1
  /\ IF AlreadyStarted
     THEN UNCHANGED <<running, inFlight, starting>>
     ELSE /\ running' = TRUE
          /\ inFlight' = TRUE
          /\ starting' = starting \cup {starts + 1}
  /\ UNCHANGED <<interval, ticking, asking, latest>>

\* stop: it forgets and clears the interval. What it awaits then, a sample
\* under way, it only waits for: other calls of stop and start may come.
StopPolling ==
  /\ running \/ interval # 0
  /\ running' = FALSE
  /\ ticking' = ticking \ {interval}
  /\ interval' = 0
  /\ UNCHANGED <<inFlight, starting, starts, asking, latest>>

\* The timer of an interval; a sample under way is shared.
Tick ==
  /\ ticking # {}
  /\ ~ inFlight
  /\ inFlight' = TRUE
  /\ UNCHANGED <<running, interval, ticking, starting, starts, asking, latest>>

\* Mutant: a start sets its interval whatever happened while it sampled.
IntervalsSetAnyway ==
  IF starting = {} THEN <<ticking, interval>>
  ELSE LET n == CHOOSE s \in starting : TRUE IN <<ticking \cup {n}, n>>

\* The starts that awaited this sample: the first to find the poller running
\* and without an interval sets one.
IntervalsSet ==
  IF starting = {} \/ ~ running \/ interval # 0 THEN <<ticking, interval>>
  ELSE LET n == CHOOSE s \in starting : TRUE IN <<ticking \cup {n}, n>>

\* StoragePressureMonitor.sample: the file system answers or fails, which
\* blocks too, and the sample becomes the latest.
Sampled ==
  \/ \E free \in Readings : latest' = Classified(free)
  \/ latest' = "BLOCKED"

SampleEnds ==
  /\ inFlight
  /\ Sampled
  /\ ticking' = IntervalsSet[1]
  /\ interval' = IntervalsSet[2]
  /\ inFlight' = FALSE
  /\ starting' = {}
  /\ UNCHANGED <<running, starts, asking>>

\* GET /api/storage/overview while there is no sample.
AskOverview ==
  /\ latest = "none"
  /\ ~ asking
  /\ asking' = TRUE
  /\ UNCHANGED <<running, interval, ticking, inFlight, starting, starts, latest>>

AnswerOverview ==
  /\ asking
  /\ asking' = FALSE
  /\ Sampled
  /\ UNCHANGED <<running, interval, ticking, inFlight, starting, starts>>

PollNext ==
  \/ StartPolling \/ StopPolling \/ Tick \/ SampleEnds \/ AskOverview \/ AnswerOverview

PollSpec == PollInit /\ [][PollNext]_pollVars
-----------------------------------------------------------------------------
PollTypeOK ==
  /\ {running, inFlight, asking} \subseteq BOOLEAN
  /\ interval \in 0..MaxStarts
  /\ ticking \subseteq 1..MaxStarts
  /\ starting \subseteq 1..MaxStarts
  /\ latest \in {"none", "NORMAL", "WARNING", "BLOCKED"}

(* "a stop can happen while the immediate sample is pending.  In that case *)
(* the completed startup must not resurrect a cleared interval"            *)
(* (storage-pressure-poller.ts): however start, stop, restart and samples  *)
(* overlap, the only interval alive is the one stop would clear, and there *)
(* is none while the poller is stopped.                                    *)
OneIntervalWhileRunning ==
  /\ ticking = IF interval = 0 THEN {} ELSE {interval}
  /\ interval # 0 => running
=============================================================================
