---------------------------- MODULE Tools_proofs ----------------------------
(***************************************************************************)
(* Proofs about the measuring tools, for every profile and load:           *)
(* performance.py counts only iterations that read exactly what was        *)
(* expected, its watchdog allows what the timeouts allow, and a suite that *)
(* passed has earned it; a benchmark of local_benchmark.py that passed has *)
(* recorded the planned events, once each and in order, and no accepted    *)
(* load is refused half way.                                               *)
(***************************************************************************)
EXTENDS PerformanceSuite, EventBenchmark, SequenceTheorems, TLAPS

(* A report of one scenario, and the places after the last one.            *)
Report == [failed : BOOLEAN, latencies : Seq(Durations), exceeded : BOOLEAN, passed : BOOLEAN]
Ended == {"compare", "done"}

(* The values of the suite's variables.                                    *)
SuiteTyped ==
    /\ profile \in Profiles /\ ValidProfile(profile) /\ at \in DOMAIN profile.scenarios
    /\ pc \in {"begin", "read", "end", "judge", "close"} \cup Ended
    /\ warm \in Nat /\ left \in Nat /\ elapsed \in Nat
    /\ hostUp \in BOOLEAN /\ hostCapture \in BOOLEAN
    /\ holds \in BOOLEAN /\ readOk \in BOOLEAN /\ overflow \in BOOLEAN /\ accepted \in BOOLEAN
    /\ delivered \in [Points -> Nat]
    /\ reports \in [DOMAIN profile.scenarios -> Report]

(* What the requests of an iteration have used of its budget so far.       *)
Timed ==
    /\ pc \in {"begin", "close"} \cup Ended => elapsed = 0
    /\ pc = "read" => elapsed <= IF Scenario.captures THEN BeginTimeout ELSE 0
    /\ pc = "end" => elapsed <= BeginTimeout + ReadTimeout(Scenario)
    /\ pc = "judge" => elapsed <= Budget(Scenario)

(* The capture of an iteration, and one that an earlier iteration has left *)
(* behind: that iteration failed.                                          *)
SomeFailed == \E i \in DOMAIN reports : reports[i].failed
Held ==
    /\ holds => Scenario.captures /\ pc \in {"read", "end", "judge"}
    /\ pc = "end" => holds
    /\ readOk => pc \in {"end", "judge"}
    /\ pc = "judge" /\ holds /\ readOk => ~hostCapture
    /\ hostCapture => \/ SomeFailed
                      \/ pc \in {"read", "end"} /\ holds
                      \/ pc = "judge" /\ ~readOk

Exact == AcceptedIsExact /\ (accepted => pc \in {"begin", "close"})

(* What the reports hold: the scenarios to come are empty, the current one *)
(* has the iterations that are not left, and only a scenario without a     *)
(* failure and with all of its iterations has passed.                      *)
Running == pc \notin Ended
Counted ==
    /\ Running => \A i \in DOMAIN reports :
          /\ i > at => reports[i].latencies = <<>> /\ ~reports[i].failed
          /\ i >= at => ~reports[i].passed
    /\ Running /\ ~reports[at].failed => Len(reports[at].latencies) + left = Scenario.iterations
    /\ Running /\ pc # "close" => left # 0 /\ ~reports[at].failed
    /\ pc = "close" /\ ~reports[at].failed => left = 0
    /\ \A i \in DOMAIN reports : reports[i].passed =>
          ~reports[i].failed /\ Len(reports[i].latencies) = profile.scenarios[i].iterations

(* The comparison with the baselines.                                      *)
Compared ==
    pc = "done" => \A i \in DOMAIN reports :
        reports[i].passed /\ profile.scenarios[i].baseline # NoBaseline => OverheadPassed(i)

SuiteInv == SuiteTyped /\ Timed /\ Held /\ Exact /\ Counted /\ Compared

----------------------------------------------------------------------------
(* The larger of two numbers, and the smaller, are numbers.                *)
LEMMA ExtremesAreNumbers ==
    ASSUME NEW a \in Nat, NEW b \in Nat
    PROVE  Max({a, b}) \in Nat /\ Min({a, b}) \in Nat
  <1>1. \E x \in {a, b} : \A y \in {a, b} : x >= y
    OBVIOUS
  <1>2. \E x \in {a, b} : \A y \in {a, b} : x <= y
    OBVIOUS
  <1>3. Max({a, b}) \in {a, b}
    BY <1>1 DEF Max
  <1>4. Min({a, b}) \in {a, b}
    BY <1>2 DEF Min
  <1> QED
    BY <1>3, <1>4

(* A valid profile: what its scenarios offer the steps.                    *)
LEMMA ScenarioFacts ==
    ASSUME SuiteTyped, NEW i \in DOMAIN profile.scenarios
    PROVE  LET s == profile.scenarios[i]
           IN /\ s.captures \in BOOLEAN /\ s.warmups \in Nat
              /\ s.iterations \in Nat /\ s.iterations # 0
              /\ ReadTimeout(s) \in Nat /\ EndTimeout(s) \in Nat /\ Budget(s) \in Nat
              /\ profile.watchdog \in Nat /\ Budget(s) < profile.watchdog
  <1> DEFINE s == profile.scenarios[i]
  <1>1. /\ s.captures \in BOOLEAN /\ s.timeout \in Nat /\ s.warmups \in Nat /\ s.iterations \in Nat
        /\ profile.watchdog \in Nat
    BY ProfileAssumption DEF SuiteTyped
  <1>2. s.iterations >= 1 /\ profile.watchdog > Budget(s)
    BY DEF SuiteTyped, ValidProfile, ValidScenario
  <1>3. EndTimeout(s) \in Nat
    <2> DEFINE longer == Max({1, s.timeout})
    <2>1. longer \in Nat
      BY <1>1, ExtremesAreNumbers
    <2>2. EndTimeout(s) = Min({300, longer}) + 1
      BY DEF EndTimeout
    <2> HIDE DEF longer
    <2>3. 300 \in Nat
      OBVIOUS
    <2>4. Min({300, longer}) \in Nat
      BY <2>1, <2>3, ExtremesAreNumbers, Zenon
    <2> QED
      BY <2>2, <2>4
  <1>4. ReadTimeout(s) \in Nat
    BY <1>1 DEF ReadTimeout
  <1>5. Budget(s) \in Nat
    BY <1>1, <1>3, <1>4 DEF Budget, BeginTimeout
  <1> QED
    BY <1>1, <1>2, <1>3, <1>4, <1>5

(* The scenarios of a profile are numbered from one.                       *)
LEMMA ScenariosAreNumbered ==
    ASSUME SuiteTyped
    PROVE  /\ Len(profile.scenarios) \in Nat \ {0}
           /\ DOMAIN profile.scenarios = 1..Len(profile.scenarios)
  <1>1. profile.scenarios \in Seq({profile.scenarios[i] : i \in DOMAIN profile.scenarios})
    BY ProfileAssumption DEF SuiteTyped
  <1>2. profile.scenarios # <<>>
    BY DEF SuiteTyped, ValidProfile
  <1> QED
    BY <1>1, <1>2

(* The suite starts in the invariant.                                      *)
LEMMA SuiteStarts == Init => SuiteInv
  <1> SUFFICES ASSUME Init PROVE SuiteInv
    OBVIOUS
  <1>1. profile \in Profiles /\ ValidProfile(profile)
    BY DEF Init
  <1>2. 1 \in DOMAIN profile.scenarios
    <2>1. profile.scenarios \in Seq({profile.scenarios[i] : i \in DOMAIN profile.scenarios})
      BY <1>1, ProfileAssumption
    <2>2. profile.scenarios # <<>>
      BY <1>1 DEF ValidProfile
    <2> QED
      BY <2>1, <2>2
  <1>3. \A i \in DOMAIN profile.scenarios :
           /\ profile.scenarios[i].warmups \in Nat /\ profile.scenarios[i].iterations \in Nat
           /\ profile.scenarios[i].iterations # 0
    <2>1. \A i \in DOMAIN profile.scenarios :
             profile.scenarios[i].warmups \in Nat /\ profile.scenarios[i].iterations \in Nat
      BY <1>1, ProfileAssumption
    <2>2. \A i \in DOMAIN profile.scenarios : profile.scenarios[i].iterations >= 1
      BY <1>1 DEF ValidProfile, ValidScenario
    <2> QED
      BY <2>1, <2>2
  <1>4. delivered \in [Points -> Nat]
    BY DEF Init, SuiteStart, Once
  <1>5. <<>> \in Seq(Durations) /\ Len(<<>>) = 0
    OBVIOUS
  <1>6. DOMAIN reports = DOMAIN profile.scenarios
    BY DEF Init, SuiteStart
  <1>7. \A i \in DOMAIN profile.scenarios :
           /\ reports[i] \in Report /\ reports[i].latencies = <<>>
           /\ ~reports[i].failed /\ ~reports[i].passed
    BY <1>5 DEF Init, SuiteStart, Report
  <1>8. reports \in [DOMAIN profile.scenarios -> Report]
    BY <1>7 DEF Init, SuiteStart
  <1>9. SuiteTyped
    BY <1>1, <1>2, <1>3, <1>4, <1>8 DEF Init, SuiteStart, SuiteTyped, Ended
  <1>10. Timed /\ Held /\ Exact /\ Compared
    BY DEF Init, SuiteStart, Timed, Held, Exact, Compared, AcceptedIsExact, Ended
  <1>11. Counted
    BY <1>2, <1>3, <1>5, <1>6, <1>7 DEF Init, SuiteStart, Counted, Running, Ended, Scenario
  <1> QED
    BY <1>9, <1>10, <1>11 DEF SuiteInv

(* The host's exit, which only later requests notice.                      *)
LEMMA HostExitStep ==
    ASSUME SuiteInv, HostExit \/ UNCHANGED vars PROVE SuiteInv'
  <1>1. /\ UNCHANGED <<profile, at, warm, left, pc, hostCapture, holds, readOk, delivered,
                       overflow, elapsed, accepted, reports>>
        /\ hostUp' \in BOOLEAN
    BY DEF HostExit, vars, iterVars, SuiteInv, SuiteTyped
  <1>2. UNCHANGED Scenario
    BY <1>1 DEF Scenario
  <1>3. SuiteTyped'
    BY <1>1 DEF SuiteInv, SuiteTyped, ValidProfile, ValidScenario
  <1>4. Timed'
    BY <1>1, <1>2 DEF SuiteInv, Timed
  <1>5. Held' /\ Exact'
    BY <1>1, <1>2 DEF SuiteInv, Held, Exact, SomeFailed, AcceptedIsExact
  <1>6. Counted' /\ Compared'
    BY <1>1, <1>2 DEF SuiteInv, Counted, Compared, Running, OverheadPassed
  <1> QED
    BY <1>3, <1>4, <1>5, <1>6 DEF SuiteInv

(* Within an iteration the reports do not change.                          *)
LEMMA IterationStep ==
    ASSUME SuiteInv, UNCHANGED <<profile, at, warm, left, hostUp, reports>>,
           pc \in {"begin", "read", "end"}, pc' \in {"read", "end", "judge"}
    PROVE  /\ UNCHANGED Scenario /\ Counted' /\ Compared'
           /\ ValidProfile(profile)' /\ (SomeFailed' <=> SomeFailed)
  <1>1. UNCHANGED Scenario
    BY DEF Scenario
  <1>2. ValidProfile(profile)'
    BY DEF SuiteInv, SuiteTyped, ValidProfile, ValidScenario
  <1>3. Counted' /\ Compared'
    BY <1>1 DEF SuiteInv, Counted, Compared, Running, Ended
  <1> QED
    BY <1>1, <1>2, <1>3 DEF SomeFailed

(* begin_capture, or nothing for a scenario without a capture.             *)
LEMMA BeginStep == ASSUME SuiteInv, Begin PROVE SuiteInv'
  <1>1. /\ UNCHANGED <<profile, at, warm, left, hostUp, readOk, delivered, overflow, reports>>
        /\ pc = "begin" /\ pc' \in {"read", "judge"} /\ accepted' = FALSE
        /\ elapsed = 0 /\ ~readOk /\ ~holds /\ hostCapture' \in BOOLEAN /\ holds' \in BOOLEAN
    BY DEF Begin, SuiteInv, SuiteTyped, Timed, Held, Ended
  <1>2. /\ UNCHANGED Scenario /\ Counted' /\ Compared'
        /\ ValidProfile(profile)' /\ (SomeFailed' <=> SomeFailed)
    BY <1>1, IterationStep
  <1>3. Scenario.captures \in BOOLEAN /\ ReadTimeout(Scenario) \in Nat
          /\ EndTimeout(Scenario) \in Nat
    BY ScenarioFacts DEF SuiteInv, SuiteTyped, Scenario
  <1>4. elapsed' \in Nat /\ elapsed' <= IF Scenario.captures THEN BeginTimeout ELSE 0
    <2>1. CASE Scenario.captures
      BY <1>1, <2>1 DEF Begin, Spent, BeginTimeout
    <2>2. CASE ~Scenario.captures
      BY <1>1, <2>2 DEF Begin
    <2> QED
      BY <2>1, <2>2
  <1>5. SuiteTyped'
    BY <1>1, <1>2, <1>4 DEF SuiteInv, SuiteTyped
  <1>6. Timed'
    BY <1>1, <1>2, <1>3, <1>4 DEF Timed, Budget, BeginTimeout, Ended
  <1>7. hostCapture => SomeFailed
    BY <1>1 DEF SuiteInv, Held
  <1>8. Held'
    <2>1. \/ pc' = "read" /\ holds' = holds /\ hostCapture' = hostCapture
          \/ pc' = "read" /\ holds' /\ Scenario.captures
          \/ pc' = "judge" /\ holds' = holds
      BY DEF Begin
    <2> QED
      BY <1>1, <1>2, <1>7, <2>1 DEF Held
  <1>9. Exact'
    BY <1>1 DEF Exact, AcceptedIsExact
  <1> QED
    BY <1>2, <1>5, <1>6, <1>8, <1>9 DEF SuiteInv

(* The read.                                                               *)
LEMMA ReadStep == ASSUME SuiteInv, Read PROVE SuiteInv'
  <1>1. /\ UNCHANGED <<profile, at, warm, left, hostUp, hostCapture, holds, accepted, reports>>
        /\ pc = "read" /\ pc' = (IF holds /\ hostUp THEN "end" ELSE "judge")
        /\ readOk' \in BOOLEAN /\ overflow' \in BOOLEAN /\ (readOk' => hostUp)
        /\ delivered' \in [Points -> Nat]
    <2>1. [Points -> 0..2] \subseteq [Points -> Nat]
      OBVIOUS
    <2>2. delivered' \in [Points -> Nat]
      BY <2>1 DEF Read, SuiteInv, SuiteTyped
    <2> QED
      BY <2>2 DEF Read, SuiteInv, SuiteTyped
  <1>2. /\ UNCHANGED Scenario /\ Counted' /\ Compared'
        /\ ValidProfile(profile)' /\ (SomeFailed' <=> SomeFailed)
    BY <1>1, IterationStep
  <1>3. Scenario.captures \in BOOLEAN /\ ReadTimeout(Scenario) \in Nat
          /\ EndTimeout(Scenario) \in Nat
    BY ScenarioFacts DEF SuiteInv, SuiteTyped, Scenario
  <1>4. /\ elapsed' \in Nat
        /\ elapsed' <= ReadTimeout(Scenario) + (IF Scenario.captures THEN BeginTimeout ELSE 0)
    BY <1>1, <1>3 DEF Read, Spent, SuiteInv, SuiteTyped, Timed, BeginTimeout
  <1>5. SuiteTyped'
    BY <1>1, <1>2, <1>4 DEF SuiteInv, SuiteTyped
  <1>6. Timed'
    BY <1>1, <1>2, <1>3, <1>4 DEF Timed, Budget, BeginTimeout, Ended
  <1>7. Held'
    BY <1>1, <1>2 DEF SuiteInv, Held
  <1>8. Exact'
    BY <1>1 DEF SuiteInv, Exact, AcceptedIsExact
  <1> QED
    BY <1>2, <1>5, <1>6, <1>7, <1>8 DEF SuiteInv

(* end_capture.                                                            *)
LEMMA EndStep == ASSUME SuiteInv, End PROVE SuiteInv'
  <1>1. /\ UNCHANGED <<profile, at, warm, left, hostUp, holds, delivered, overflow, accepted,
                       reports>>
        /\ pc = "end" /\ pc' = "judge" /\ holds
        /\ readOk' \in BOOLEAN /\ hostCapture' \in BOOLEAN /\ (readOk' => ~hostCapture')
    BY DEF End, SuiteInv, SuiteTyped, Held
  <1>2. /\ UNCHANGED Scenario /\ Counted' /\ Compared'
        /\ ValidProfile(profile)' /\ (SomeFailed' <=> SomeFailed)
    BY <1>1, IterationStep
  <1>3. Scenario.captures /\ ReadTimeout(Scenario) \in Nat /\ EndTimeout(Scenario) \in Nat
    BY <1>1, ScenarioFacts DEF SuiteInv, SuiteTyped, Held, Scenario
  <1>4. elapsed' \in Nat /\ elapsed' <= Budget(Scenario)
    BY <1>1, <1>3 DEF End, Spent, SuiteInv, SuiteTyped, Timed, BeginTimeout, Budget
  <1>5. SuiteTyped'
    BY <1>1, <1>2, <1>4 DEF SuiteInv, SuiteTyped
  <1>6. Timed'
    BY <1>1, <1>2, <1>4 DEF Timed, Ended
  <1>7. Held'
    BY <1>1, <1>2, <1>3 DEF Held
  <1>8. Exact'
    BY <1>1 DEF SuiteInv, Exact, AcceptedIsExact
  <1> QED
    BY <1>2, <1>5, <1>6, <1>7, <1>8 DEF SuiteInv

(* An accepted iteration has read what was expected, and the capture that  *)
(* confirms it point by point is over.                                     *)
LEMMA AcceptedIteration ==
    ASSUME SuiteInv, pc = "judge", IterationAccepted
    PROVE  /\ CountByKind(delivered) = Scenario.expected
           /\ Scenario.captures => ~hostCapture
           /\ Scenario.captures /\ Scenario.mode = "static_set" =>
                 delivered = Once(Scenario.ranges)
           /\ readOk /\ (hostCapture => SomeFailed)
  <1>1. readOk /\ CountByKind(delivered) = Scenario.expected
    BY DEF IterationAccepted, PopulationAccepted
  <1>c. Scenario.captures => ~hostCapture
    BY <1>1 DEF IterationAccepted, SuiteInv, Held
  <1>2. ASSUME Scenario.captures, Scenario.mode = "static_set"
        PROVE  delivered = Once(Scenario.ranges)
    <2>1. holds /\ Missing = {} /\ Duplicates = {} /\ Unmatched = {}
      BY <1>2 DEF IterationAccepted, CaptureAccepted
    <2>2. delivered \in [Points -> Nat]
      BY DEF SuiteInv, SuiteTyped
    <2>3. ASSUME NEW p \in Points PROVE delivered[p] = IF p \in Scenario.ranges THEN 1 ELSE 0
      <3>1. delivered[p] \in Nat
        BY <2>2
      <3>2. p \in Scenario.ranges => delivered[p] # 0 /\ ~(delivered[p] > 1)
        BY <2>1 DEF Missing, Duplicates
      <3>3. p \notin Scenario.ranges => ~(delivered[p] > 0)
        BY <2>1 DEF Unmatched
      <3> QED
        BY <3>1, <3>2, <3>3
    <2>4. delivered = Once(Scenario.ranges)
      BY <2>2, <2>3 DEF Once
    <2> QED
      BY <2>4
  <1>3. hostCapture => SomeFailed
    BY <1>1 DEF SuiteInv, Held
  <1> QED
    BY <1>1, <1>2, <1>3, <1>c

(* The end of an iteration.                                                *)
LEMMA JudgeStep == ASSUME SuiteInv, Judge PROVE SuiteInv'
  <1>1. /\ UNCHANGED <<profile, at, hostUp, hostCapture, delivered>>
        /\ holds' = FALSE /\ readOk' = FALSE /\ overflow' = FALSE /\ elapsed' = 0
        /\ pc = "judge"
    BY DEF Judge
  <1>2. UNCHANGED Scenario
    BY <1>1 DEF Scenario
  <1>3. /\ ValidProfile(profile)' /\ at \in DOMAIN reports
        /\ DOMAIN reports = DOMAIN profile.scenarios
        /\ reports[at] \in Report /\ Len(reports[at].latencies) \in Nat
        /\ at \in Nat /\ \A i \in DOMAIN reports : i \in Nat
        /\ left \in Nat /\ left # 0 /\ ~reports[at].failed /\ ~reports[at].passed
        /\ Len(reports[at].latencies) + left = Scenario.iterations
    <2>1. reports[at] \in Report /\ DOMAIN reports = DOMAIN profile.scenarios
      BY DEF SuiteInv, SuiteTyped
    <2>2. Len(reports[at].latencies) \in Nat
      BY <2>1 DEF Report
    <2>3. \A i \in DOMAIN reports : i \in Nat
      BY <2>1, ScenariosAreNumbered DEF SuiteInv
    <2>4. at \in DOMAIN reports /\ ValidProfile(profile)'
      BY <1>1, <2>1 DEF SuiteInv, SuiteTyped, ValidProfile, ValidScenario
    <2>5. at \in Nat /\ at >= at
      BY <2>3, <2>4
    <2> QED
      BY <1>1, <2>1, <2>2, <2>3, <2>4, <2>5 DEF SuiteInv, SuiteTyped, Counted, Running, Ended
  <1>4. CASE IterationAccepted /\ accepted' = TRUE /\ warm > 0 /\ warm' = warm - 1
               /\ pc' = "begin" /\ UNCHANGED <<left, reports>>
    <2>1. /\ CountByKind(delivered) = Scenario.expected
          /\ Scenario.captures => ~hostCapture
          /\ Scenario.captures /\ Scenario.mode = "static_set" =>
                delivered = Once(Scenario.ranges)
          /\ hostCapture => SomeFailed
      BY <1>1, <1>4, AcceptedIteration
    <2>2. warm' \in Nat
      BY <1>4 DEF SuiteInv, SuiteTyped
    <2>3. SuiteTyped'
      BY <1>1, <1>3, <1>4, <2>2 DEF SuiteInv, SuiteTyped
    <2>4. Timed'
      BY <1>1, <1>4 DEF Timed, Ended
    <2>5. Held'
      BY <1>1, <1>4, <2>1 DEF Held, SomeFailed
    <2>6. Exact'
      BY <1>1, <1>2, <1>4, <2>1 DEF Exact, AcceptedIsExact
    <2>7. Counted'
      BY <1>1, <1>2, <1>4 DEF SuiteInv, Counted, Running, Ended
    <2>8. Compared'
      BY <1>4 DEF Compared
    <2> QED
      BY <2>3, <2>4, <2>5, <2>6, <2>7, <2>8 DEF SuiteInv
  <1>5. ASSUME NEW d \in Durations, NEW high \in BOOLEAN, IterationAccepted, accepted' = TRUE,
               left' = left - 1, pc' = (IF left = 1 THEN "close" ELSE "begin"), warm' = warm,
               reports' = [reports EXCEPT ![at].latencies = Append(@, d),
                                          ![at].exceeded = @ \/ high]
        PROVE  SuiteInv'
    <2>1. /\ CountByKind(delivered) = Scenario.expected
          /\ Scenario.captures => ~hostCapture
          /\ Scenario.captures /\ Scenario.mode = "static_set" =>
                delivered = Once(Scenario.ranges)
          /\ hostCapture => SomeFailed
      BY <1>1, <1>5, AcceptedIteration
    <2>2. /\ Append(reports[at].latencies, d) \in Seq(Durations)
          /\ Len(Append(reports[at].latencies, d)) = Len(reports[at].latencies) + 1
      BY <1>3 DEF Report
    <2>3. (reports[at].exceeded \/ high) \in BOOLEAN
      OBVIOUS
    <2>4. /\ reports'[at].latencies = Append(reports[at].latencies, d)
          /\ reports'[at].failed = reports[at].failed /\ reports'[at].passed = reports[at].passed
          /\ reports'[at] \in Report
      BY <1>3, <1>5, <2>2, <2>3 DEF Report
    <2>5. \A i \in DOMAIN reports : i # at => reports'[i] = reports[i]
      BY <1>3, <1>5
    <2>6. DOMAIN reports' = DOMAIN reports /\ reports' \in [DOMAIN profile.scenarios -> Report]
      <3>1. DOMAIN reports' = DOMAIN reports
        BY <1>5
      <3>2. reports \in [DOMAIN profile.scenarios -> Report]
        BY DEF SuiteInv, SuiteTyped
      <3>3. \A i \in DOMAIN profile.scenarios : reports'[i] \in Report
        BY <2>4, <2>5, <3>2
      <3> QED
        BY <1>5, <3>1, <3>2, <3>3
    <2>7. SomeFailed' <=> SomeFailed
      BY <2>4, <2>5, <2>6 DEF SomeFailed
    <2>8. left' \in Nat /\ (pc' = "close" => left' = 0) /\ (pc' # "close" => left' # 0)
      BY <1>3, <1>5
    <2>9. SuiteTyped'
      BY <1>1, <1>3, <1>5, <2>6, <2>8 DEF SuiteInv, SuiteTyped
    <2>10. Timed'
      BY <1>1, <1>5 DEF Timed, Ended
    <2>11. Held'
      BY <1>1, <1>5, <2>1, <2>7 DEF Held
    <2>12. Exact'
      BY <1>1, <1>2, <1>5, <2>1 DEF Exact, AcceptedIsExact
    <2>13. Counted'
      <3>1. \A i \in DOMAIN reports' :
               /\ i > at => reports'[i].latencies = <<>> /\ ~reports'[i].failed
               /\ i >= at => ~reports'[i].passed
        BY <1>1, <1>3, <2>4, <2>5, <2>6 DEF SuiteInv, Counted, Running, Ended
      <3>2. Len(reports'[at].latencies) + left' = Scenario.iterations
        BY <1>3, <1>5, <2>2, <2>4
      <3>3. \A i \in DOMAIN reports' : reports'[i].passed =>
               ~reports'[i].failed /\ Len(reports'[i].latencies) = profile.scenarios[i].iterations
        BY <1>3, <2>4, <2>5, <2>6 DEF SuiteInv, Counted
      <3> QED
        BY <1>1, <1>2, <1>3, <1>5, <2>4, <2>8, <3>1, <3>2, <3>3 DEF Counted
    <2>14. Compared'
      BY <1>5 DEF Compared
    <2> QED
      BY <2>9, <2>10, <2>11, <2>12, <2>13, <2>14 DEF SuiteInv
  <1>6. CASE accepted' = FALSE /\ pc' = "close" /\ UNCHANGED <<warm, left>>
               /\ reports' = [reports EXCEPT ![at].failed = TRUE]
    <2>1. /\ reports'[at].failed /\ reports'[at].passed = reports[at].passed
          /\ reports'[at] \in Report
      BY <1>3, <1>6 DEF Report
    <2>2. \A i \in DOMAIN reports : i # at => reports'[i] = reports[i]
      BY <1>3, <1>6
    <2>3. DOMAIN reports' = DOMAIN reports /\ reports' \in [DOMAIN profile.scenarios -> Report]
      <3>1. reports \in [DOMAIN profile.scenarios -> Report]
        BY DEF SuiteInv, SuiteTyped
      <3>2. \A i \in DOMAIN profile.scenarios : reports'[i] \in Report
        BY <2>1, <2>2, <3>1
      <3> QED
        BY <1>6, <3>1, <3>2
    <2>4. SomeFailed'
      BY <1>3, <2>1, <2>3 DEF SomeFailed
    <2>5. SuiteTyped'
      BY <1>1, <1>3, <1>6, <2>3 DEF SuiteInv, SuiteTyped
    <2>6. Timed' /\ Held' /\ Exact' /\ Compared'
      BY <1>1, <1>6, <2>4 DEF Timed, Held, Exact, AcceptedIsExact, Compared, Ended
    <2>7. Counted'
      <3>1. \A i \in DOMAIN reports' :
               /\ i > at => reports'[i].latencies = <<>> /\ ~reports'[i].failed
               /\ i >= at => ~reports'[i].passed
        BY <1>1, <1>3, <2>1, <2>2, <2>3 DEF SuiteInv, Counted, Running, Ended
      <3>2. \A i \in DOMAIN reports' : reports'[i].passed =>
               ~reports'[i].failed /\ Len(reports'[i].latencies) = profile.scenarios[i].iterations
        BY <1>3, <2>1, <2>2, <2>3 DEF SuiteInv, Counted
      <3> QED
        BY <1>1, <1>6, <2>1, <3>1, <3>2 DEF Counted
    <2> QED
      BY <2>5, <2>6, <2>7 DEF SuiteInv
  <1> QED
    BY <1>4, <1>5, <1>6 DEF Judge

(* The verdict on a scenario, and the start of the next one.               *)
LEMMA CloseStep == ASSUME SuiteInv, Close PROVE SuiteInv'
  <1> DEFINE verdict == ~reports[at].failed /\ ThresholdsPassed(reports[at])
  <1>1. /\ UNCHANGED <<profile, hostUp, hostCapture, holds, readOk, delivered, overflow, elapsed>>
        /\ accepted' = FALSE /\ pc = "close" /\ elapsed = 0 /\ ~holds /\ ~readOk
        /\ reports' = [reports EXCEPT ![at].passed = verdict]
    BY DEF Close, SuiteInv, Timed, Held
  <1>2. /\ reports \in [DOMAIN profile.scenarios -> Report] /\ at \in DOMAIN reports
        /\ DOMAIN reports = DOMAIN profile.scenarios /\ ValidProfile(profile)'
        /\ DOMAIN profile.scenarios = 1..Len(profile.scenarios)
        /\ Len(profile.scenarios) \in Nat /\ at \in Nat
        /\ \A i \in DOMAIN reports : i \in Nat
    <2>1. ValidProfile(profile)'
      BY <1>1 DEF SuiteInv, SuiteTyped, ValidProfile, ValidScenario
    <2> QED
      BY <2>1, ScenariosAreNumbered DEF SuiteInv, SuiteTyped
  <1>3. verdict \in BOOLEAN
    OBVIOUS
  <1> HIDE DEF verdict
  <1>4. /\ reports'[at].failed = reports[at].failed /\ reports'[at].passed = verdict
        /\ reports'[at].latencies = reports[at].latencies /\ reports'[at] \in Report
    BY <1>1, <1>2, <1>3 DEF Report
  <1>5. \A i \in DOMAIN reports : i # at => reports'[i] = reports[i]
    BY <1>1, <1>2
  <1>6. DOMAIN reports' = DOMAIN reports /\ reports' \in [DOMAIN profile.scenarios -> Report]
    <2>1. \A i \in DOMAIN profile.scenarios : reports'[i] \in Report
      BY <1>2, <1>4, <1>5
    <2> QED
      BY <1>1, <1>2, <2>1
  <1>7. SomeFailed' <=> SomeFailed
    BY <1>4, <1>5, <1>6 DEF SomeFailed
  <1>8. hostCapture => SomeFailed
    BY <1>1 DEF SuiteInv, Held
  <1>9. verdict => ~reports[at].failed /\ Len(reports[at].latencies) = Scenario.iterations
    <2>1. ~reports[at].failed => left = 0 /\ Len(reports[at].latencies) + left = Scenario.iterations
      BY <1>1 DEF SuiteInv, Counted, Running, Ended
    <2>2. Len(reports[at].latencies) \in Nat
      BY <1>2 DEF Report
    <2> QED
      BY <2>1, <2>2 DEF verdict
  <1>10. \A i \in DOMAIN reports' : reports'[i].passed =>
            ~reports'[i].failed /\ Len(reports'[i].latencies) = profile.scenarios[i].iterations
    BY <1>4, <1>5, <1>6, <1>9 DEF SuiteInv, Counted, Scenario
  <1>11. CASE at = Len(profile.scenarios)
    <2>1. pc' = "compare" /\ UNCHANGED <<at, warm, left>>
      BY <1>11 DEF Close
    <2>2. SuiteTyped'
      BY <1>1, <1>2, <1>6, <2>1 DEF SuiteInv, SuiteTyped, Ended
    <2>3. Timed' /\ Held' /\ Exact' /\ Compared'
      BY <1>1, <1>7, <1>8, <2>1 DEF Timed, Held, Exact, AcceptedIsExact, Compared, Ended
    <2>4. Counted'
      BY <1>1, <1>10, <2>1 DEF Counted, Running, Ended
    <2> QED
      BY <2>2, <2>3, <2>4 DEF SuiteInv
  <1>12. CASE at # Len(profile.scenarios)
    <2>1. /\ at' = at + 1 /\ pc' = "begin" /\ warm' = profile.scenarios[at + 1].warmups
          /\ left' = profile.scenarios[at + 1].iterations
      BY <1>12 DEF Close
    <2>2. at + 1 \in DOMAIN reports /\ at + 1 # at /\ at + 1 > at
      BY <1>2, <1>12
    <2>3. warm' \in Nat /\ left' \in Nat /\ left' # 0
      BY <1>2, <2>1, <2>2, ScenarioFacts DEF SuiteInv
    <2>4. SuiteTyped'
      BY <1>1, <1>2, <1>6, <2>1, <2>2, <2>3 DEF SuiteInv, SuiteTyped
    <2>5. Timed' /\ Held' /\ Exact' /\ Compared'
      BY <1>1, <1>7, <1>8, <2>1 DEF Timed, Held, Exact, AcceptedIsExact, Compared, Ended
    <2>6. \A i \in DOMAIN reports' : i > at =>
             reports'[i].latencies = <<>> /\ ~reports'[i].failed /\ ~reports'[i].passed
      BY <1>1, <1>2, <1>5, <1>6 DEF SuiteInv, Counted, Running, Ended
    <2>7. Len(reports'[at + 1].latencies) = 0 /\ ~reports'[at + 1].failed
      BY <1>6, <2>2, <2>6
    <2>8. Scenario' = profile.scenarios[at + 1]
      BY <1>1, <2>1 DEF Scenario
    <2>9. \A i \in DOMAIN reports' :
            /\ i > at' => reports'[i].latencies = <<>> /\ ~reports'[i].failed
            /\ i >= at' => ~reports'[i].passed
      BY <1>2, <1>6, <2>1, <2>6
    <2>10. Counted'
      BY <1>1, <1>10, <2>1, <2>3, <2>7, <2>8, <2>9 DEF Counted
    <2> QED
      BY <2>4, <2>5, <2>10 DEF SuiteInv
  <1> QED
    BY <1>11, <1>12

(* The comparison of the captured scenarios with their baselines.          *)
LEMMA CompareStep == ASSUME SuiteInv, Compare PROVE SuiteInv'
  <1> DEFINE refused(i) == profile.scenarios[i].baseline # NoBaseline /\ ~OverheadPassed(i)
  <1>1. /\ UNCHANGED <<profile, at, warm, left, hostUp, hostCapture, holds, readOk, delivered,
                       overflow, elapsed, accepted>>
        /\ pc = "compare" /\ pc' = "done" /\ ~accepted
        /\ reports' = [i \in DOMAIN reports |->
                         IF refused(i) THEN [reports[i] EXCEPT !.passed = FALSE] ELSE reports[i]]
    BY DEF Compare, iterVars, SuiteInv, Exact
  <1>2. /\ reports \in [DOMAIN profile.scenarios -> Report]
        /\ DOMAIN reports = DOMAIN profile.scenarios /\ ValidProfile(profile)'
    BY <1>1 DEF SuiteInv, SuiteTyped, ValidProfile, ValidScenario
  <1>3. ASSUME NEW i \in DOMAIN reports
        PROVE  /\ reports'[i].failed = reports[i].failed
               /\ reports'[i].latencies = reports[i].latencies /\ reports'[i] \in Report
               /\ reports'[i].passed => reports[i].passed /\ ~refused(i)
    <2> HIDE DEF refused
    <2>1. reports[i] \in Report
      BY <1>2
    <2>2. CASE refused(i)
      <3>1. reports'[i] = [reports[i] EXCEPT !.passed = FALSE]
        BY <1>1, <2>2
      <3> QED
        BY <2>1, <3>1 DEF Report
    <2>3. CASE ~refused(i)
      <3>1. reports'[i] = reports[i]
        BY <1>1, <2>3
      <3> QED
        BY <2>1, <2>3, <3>1
    <2> QED
      BY <2>2, <2>3
  <1>4. DOMAIN reports' = DOMAIN reports
    BY <1>1
  <1>5. reports' \in [DOMAIN profile.scenarios -> Report]
    <2> HIDE DEF refused
    <2> QED
      BY <1>1, <1>2, <1>3
  <1>6. SomeFailed' <=> SomeFailed
    BY <1>3, <1>4 DEF SomeFailed
  <1>7. SuiteTyped'
    BY <1>1, <1>2, <1>5 DEF SuiteInv, SuiteTyped, Ended
  <1>8. Timed' /\ Held' /\ Exact'
    BY <1>1, <1>6 DEF SuiteInv, Timed, Held, Exact, AcceptedIsExact, Ended
  <1>9. Counted'
    BY <1>1, <1>3, <1>4 DEF SuiteInv, Counted, Running, Ended
  <1>10. Compared'
    <2> SUFFICES ASSUME NEW i \in DOMAIN reports', reports'[i].passed,
                        profile'.scenarios[i].baseline # NoBaseline
                 PROVE  OverheadPassed(i)'
      BY DEF Compared
    <2>1. i \in DOMAIN profile.scenarios /\ ~refused(i)
      BY <1>2, <1>3, <1>4
    <2>2. OverheadPassed(i)
      BY <1>1, <2>1
    <2> DEFINE j == CHOOSE n \in DOMAIN profile.scenarios :
                       profile.scenarios[n].id = profile.scenarios[i].baseline
    <2>3. j \in DOMAIN reports
      <3>1. \E n \in DOMAIN profile.scenarios :
               profile.scenarios[n].id = profile.scenarios[i].baseline
        BY <1>1, <2>1 DEF SuiteInv, SuiteTyped, ValidProfile
      <3> QED
        BY <1>2, <3>1
    <2>4. /\ reports'[i].latencies = reports[i].latencies
          /\ reports'[j].latencies = reports[j].latencies
      BY <1>3, <1>4, <2>3
    <2> QED
      BY <1>1, <2>2, <2>4 DEF OverheadPassed
  <1> QED
    BY <1>7, <1>8, <1>9, <1>10 DEF SuiteInv

(* The inductive invariant of the suite.                                   *)
THEOREM SuiteInvariant == Spec => []SuiteInv
  <1>1. SuiteInv /\ [Next]_vars => SuiteInv'
    BY HostExitStep, BeginStep, ReadStep, EndStep, JudgeStep, CloseStep, CompareStep DEF Next
  <1> QED
    BY <1>1, SuiteStarts, PTL DEF Spec

(***************************************************************************)
(* An iteration of _execute_iteration that counts has read the expected    *)
(* population; under a capture it has read every expected point exactly    *)
(* once and nothing else, and has left no capture in the host.             *)
(***************************************************************************)
THEOREM AcceptedIterationsAreExact == Spec => []AcceptedIsExact
  <1>1. SuiteInv => AcceptedIsExact
    BY DEF SuiteInv, Exact
  <1> QED
    BY <1>1, SuiteInvariant, PTL

(***************************************************************************)
(* The watchdog of a profile that PerformanceProfile accepts does not fire *)
(* on an iteration whose requests all kept their own timeouts.             *)
(***************************************************************************)
THEOREM WatchdogIsPatient == Spec => []WithinWatchdog
  <1>1. SuiteInv => WithinWatchdog
    <2> SUFFICES ASSUME SuiteInv PROVE elapsed < profile.watchdog
      BY DEF WithinWatchdog
    <2>1. /\ Scenario.captures \in BOOLEAN /\ profile.watchdog \in Nat
          /\ ReadTimeout(Scenario) \in Nat /\ EndTimeout(Scenario) \in Nat
          /\ Budget(Scenario) \in Nat /\ Budget(Scenario) < profile.watchdog
      BY ScenarioFacts DEF SuiteInv, SuiteTyped, Scenario
    <2>2. elapsed \in Nat /\ elapsed <= Budget(Scenario)
      <3>1. pc = "end" => Scenario.captures
        BY DEF SuiteInv, Held
      <3>2. elapsed \in Nat
        BY DEF SuiteInv, SuiteTyped
      <3>3. CASE pc \in {"begin", "close"} \cup Ended
        BY <2>1, <3>2, <3>3 DEF SuiteInv, Timed
      <3>4. CASE pc = "read"
        BY <2>1, <3>2, <3>4 DEF SuiteInv, Timed, Budget, BeginTimeout
      <3>5. CASE pc = "end"
        BY <2>1, <3>1, <3>2, <3>5 DEF SuiteInv, Timed, Budget, BeginTimeout
      <3>6. CASE pc = "judge"
        BY <3>2, <3>6 DEF SuiteInv, Timed
      <3> QED
        BY <3>3, <3>4, <3>5, <3>6 DEF SuiteInv, SuiteTyped
    <2> QED
      BY <2>1, <2>2
  <1> QED
    BY <1>1, SuiteInvariant, PTL

(***************************************************************************)
(* A suite that run_performance_suite reports as passed has measured every *)
(* iteration of every scenario, each captured one against a baseline that  *)
(* passed over the same population, and no capture is left in the host.    *)
(***************************************************************************)
THEOREM PassedSuiteIsEarned == Spec => []SuiteIsEarned
  <1>1. SuiteInv => SuiteIsEarned
    <2> SUFFICES ASSUME SuiteInv, Passed
                 PROVE  ~hostCapture /\ \A i \in DOMAIN reports :
                          /\ Len(reports[i].latencies) = profile.scenarios[i].iterations
                          /\ profile.scenarios[i].baseline # NoBaseline =>
                               \E j \in DOMAIN reports :
                                  /\ profile.scenarios[j].id = profile.scenarios[i].baseline
                                  /\ reports[j].passed
                                  /\ profile.scenarios[j].expected = profile.scenarios[i].expected
                                  /\ NearestRank(reports[j].latencies, 50) > 0
      BY DEF SuiteIsEarned
    <2>1. pc = "done" /\ \A i \in DOMAIN reports : reports[i].passed /\ ~reports[i].failed
      BY DEF Passed, SuiteInv, Counted
    <2>2. ~hostCapture
      BY <2>1 DEF SuiteInv, Held, SomeFailed
    <2>3. \A i \in DOMAIN reports : Len(reports[i].latencies) = profile.scenarios[i].iterations
      BY <2>1 DEF SuiteInv, Counted
    <2>4. ASSUME NEW i \in DOMAIN reports, profile.scenarios[i].baseline # NoBaseline
          PROVE  \E j \in DOMAIN reports :
                    /\ profile.scenarios[j].id = profile.scenarios[i].baseline
                    /\ reports[j].passed
                    /\ profile.scenarios[j].expected = profile.scenarios[i].expected
                    /\ NearestRank(reports[j].latencies, 50) > 0
      <3>1. DOMAIN reports = DOMAIN profile.scenarios /\ ValidProfile(profile)
        BY DEF SuiteInv, SuiteTyped
      <3>2. OverheadPassed(i)
        BY <2>1, <2>4 DEF SuiteInv, Compared
      <3>3. PICK j \in DOMAIN profile.scenarios :
               /\ profile.scenarios[j].id = profile.scenarios[i].baseline
               /\ Comparable(profile.scenarios[i], profile.scenarios[j])
        BY <2>4, <3>1 DEF ValidProfile
      <3>4. j = CHOOSE n \in DOMAIN profile.scenarios :
                   profile.scenarios[n].id = profile.scenarios[i].baseline
        <4>1. \A n \in DOMAIN profile.scenarios :
                 profile.scenarios[n].id = profile.scenarios[i].baseline => n = j
          BY <3>1, <3>3 DEF ValidProfile
        <4> QED
          BY <3>3, <4>1
      <3>5. NearestRank(reports[j].latencies, 50) > 0
        BY <3>2, <3>4 DEF OverheadPassed
      <3> QED
        BY <2>1, <3>1, <3>3, <3>5 DEF Comparable
    <2> QED
      BY <2>2, <2>3, <2>4
  <1> QED
    BY <1>1, SuiteInvariant, PTL

----------------------------------------------------------------------------
(* The event benchmark: run_local_event_benchmark.                         *)

(* The events that can occur, and the records of the host's capture.       *)
Occurrences == Events \cup {Event(n) : n \in Int}
Capture == [active : BOOLEAN, got : Seq(Occurrences), overflow : BOOLEAN]
Result == [ended : BOOLEAN, got : Seq(Occurrences), overflow : BOOLEAN]
Rounds == {"plan", "begin", "generate", "progress", "end", "finally", "accept"}

(* The values of the benchmark's variables.                                *)
BenchmarkTyped ==
    /\ load \in Loads /\ LoadAccepted(load) /\ ProfileAccepted(load)
    /\ bmPc \in {"check", "drain", "report", "done"} \cup Rounds
    /\ bmGoal \in {"initial", "iteration", "final"}
    /\ iteration \in Nat /\ drainedNow \in Nat /\ dropped \in Nat
    /\ totals \in [drained : Nat, received : Nat, completed : Nat]
    /\ outbox \in Seq(Occurrences) /\ fragment \in Seq(Occurrences)
    /\ store \in Seq(Occurrences) /\ recorded \in Seq(Occurrences) /\ audited \in Seq(Occurrences)
    /\ capture \in Capture /\ terminal \in Result

(* Where the runner is: an iteration to run, or all of them behind it.     *)
Located ==
    /\ bmPc \in {"check"} \cup Rounds \/ (bmPc = "drain" /\ bmGoal # "final") =>
          iteration < load.iterations
    /\ bmFailure = "none" /\ (bmPc = "report" \/ (bmPc = "drain" /\ bmGoal = "final")) =>
          iteration = load.iterations
    /\ bmPassed => bmPc = "done"
    /\ AcceptedIsPlanned

(* Nothing has gone wrong yet that the verdict would look at.              *)
Clean == bmFailure = "none" /\ dropped = 0

(* Every recorded event was drained before, is drained now or is stored.   *)
Taken == IF bmPc = "drain" THEN drainedNow ELSE 0
Since == Len(recorded) - Len(audited)
Tallied ==
    /\ Since = Taken + Len(store) /\ totals.drained = Len(audited)
    /\ \A k \in 1..Len(audited) : audited[k] = recorded[k]

(* A capture has missed an event, or has exactly the events since the last *)
(* complete drain.                                                         *)
Continues(got, old, all) ==
    \/ Len(got) < Len(all) - Len(old)
    \/ Len(got) = Len(all) - Len(old) /\ \A k \in 1..Len(got) : got[k] = all[Len(old) + k]
Follows(got) == Continues(got, audited, recorded)
Followed ==
    /\ bmPc \in {"generate", "progress", "end"} => Follows(capture.got)
    /\ bmPc = "drain" /\ bmGoal = "iteration" => Follows(terminal.got)
    /\ bmPc = "accept" =>
         \/ Len(terminal.got) < load.count
         \/ /\ Len(terminal.got) = load.count
            /\ \A k \in 1..load.count :
                  terminal.got[k] = audited[iteration * load.count + k]

(* What was drained begins with the events of the completed iterations.    *)
Past == iteration * load.count
Told ==
    /\ bmPc # "done" => \A k \in 1..Past : audited[k] = Event(load.start + k - 1)
    /\ bmPc \in {"check", "drain"} \cup (Rounds \ {"accept"}) => Len(audited) = Past
    /\ bmPc = "accept" => Len(audited) = Past + load.count
    /\ bmPc = "report" => Len(audited) >= Past

BenchmarkInv ==
    /\ BenchmarkTyped /\ Located
    /\ Clean => Tallied /\ Followed /\ Told
    /\ BenchmarkIsEarned

(* What an accepted load offers the steps.                                 *)
LEMMA LoadFacts ==
    ASSUME BenchmarkTyped
    PROVE  /\ load.count \in Nat \ {0} /\ load.iterations \in Nat \ {0} /\ load.start \in Nat
           /\ load.base \in Nat /\ load.span \in Nat \ {0} /\ Past \in Nat
           /\ Total(load) \in Nat
  <1>1. /\ load.count \in Nat /\ load.iterations \in Nat /\ load.start \in Nat
        /\ load.base \in Nat /\ load.span \in Nat \ {0}
    BY LoadAssumption DEF BenchmarkTyped
  <1>2. load.count >= 1 /\ load.iterations >= 1
    BY DEF BenchmarkTyped, LoadAccepted
  <1>3. iteration \in Nat
    BY DEF BenchmarkTyped
  <1>4. \A a, b \in Nat : a * b \in Nat
    OBVIOUS
  <1>5. Past \in Nat
    BY <1>1, <1>3, <1>4 DEF Past
  <1>6. Total(load) \in Nat
    BY <1>1, <1>4 DEF Total
  <1> QED
    BY <1>1, <1>2, <1>5, <1>6

(* The events of an iteration are as many as the load says.                *)
LEMMA TruthFacts ==
    ASSUME BenchmarkTyped
    PROVE  Truth(iteration) \in Seq(Occurrences) /\ Len(Truth(iteration)) = load.count
  <1>1. load.count \in Nat /\ load.start \in Nat /\ Past \in Nat
    BY LoadFacts
  <1>2. \A k \in 1..load.count : load.start + Past + k - 1 \in Int
    BY <1>1
  <1>3. \A k \in 1..load.count : Event(load.start + Past + k - 1) \in Occurrences
    BY <1>2 DEF Occurrences
  <1>4. Truth(iteration) = [k \in 1..load.count |-> Event(load.start + Past + k - 1)]
    BY DEF Truth, Past
  <1>5. Truth(iteration) \in [1..load.count -> Occurrences]
    BY <1>3, <1>4
  <1>6. ASSUME NEW f, f \in [1..load.count -> Occurrences]
        PROVE  f \in Seq(Occurrences) /\ Len(f) = load.count
    <2>1. f \in Seq(Occurrences)
      BY <1>1, <1>6, SeqDef
    <2> QED
      BY <1>1, <1>6, <2>1, LenProperties
  <1> QED
    BY <1>5, <1>6

(* The benchmark starts in the invariant.                                  *)
LEMMA BenchmarkStarts == BenchmarkInit => BenchmarkInv
  <1> SUFFICES ASSUME BenchmarkInit PROVE BenchmarkInv
    OBVIOUS
  <1>1. <<>> \in Seq(Occurrences) /\ Len(<<>>) = 0
    OBVIOUS
  <1>2. <<<<0, 0>>>> \in Seq(Occurrences)
    BY DEF Occurrences, Events
  <1>3. store \in Seq(Occurrences) /\ recorded = store /\ audited = <<>> /\ iteration = 0
    BY <1>1, <1>2 DEF BenchmarkInit, BenchmarkStart
  <1>4. capture \in Capture /\ terminal \in Result
    BY <1>1 DEF BenchmarkInit, BenchmarkStart, Capture, Result, Idle, NoResult
  <1>5. BenchmarkTyped
    BY <1>1, <1>3, <1>4 DEF BenchmarkInit, BenchmarkStart, BenchmarkTyped
  <1>6. load.count \in Nat \ {0} /\ load.iterations \in Nat \ {0}
    BY <1>5, LoadFacts
  <1>7. Past = 0
    BY <1>3, <1>6 DEF Past
  <1>8. Located /\ BenchmarkIsEarned
    BY <1>3, <1>6 DEF BenchmarkInit, BenchmarkStart, Located, BenchmarkIsEarned, AcceptedIsPlanned
  <1>9. Tallied
    BY <1>1, <1>3 DEF BenchmarkInit, BenchmarkStart, Tallied, Since, Taken
  <1>10. Followed /\ Told
    BY <1>1, <1>3, <1>7 DEF BenchmarkInit, BenchmarkStart, Followed, Told, Rounds
  <1> QED
    BY <1>5, <1>8, <1>9, <1>10 DEF BenchmarkInv

(* What the load determines stays.                                         *)
LEMMA LoadStays ==
    ASSUME load' = load
    PROVE  /\ Occurrences' = Occurrences /\ Capture' = Capture /\ Result' = Result
           /\ LoadAccepted(load)' = LoadAccepted(load)
           /\ ProfileAccepted(load)' = ProfileAccepted(load)
           /\ WholeTruth' = WholeTruth /\ Total(load)' = Total(load)
           /\ \A n : Event(n)' = Event(n)
  <1>1. \A n : Event(n)' = Event(n)
    BY DEF Event
  <1>2. Occurrences' = Occurrences
    BY <1>1 DEF Occurrences, Events
  <1> QED
    BY <1>1, <1>2 DEF Capture, Result, LoadAccepted, ProfileAccepted, WholeTruth, Total, Emission

(* The wire alone: what the runner and the store know does not change.     *)
LEMMA WireStep ==
    ASSUME BenchmarkInv, UNCHANGED <<load, runnerVars, storeVars, audited>>,
           outbox' \in Seq(Occurrences), fragment' \in Seq(Occurrences)
    PROVE  BenchmarkInv'
  <1>1. /\ UNCHANGED <<load, bmPc, bmGoal, iteration, drainedNow, totals, bmFailure, bmPassed,
                       terminal, store, dropped, capture, recorded, audited>>
    BY DEF runnerVars, storeVars
  <1>2. BenchmarkTyped'
    BY <1>1, LoadStays DEF BenchmarkInv, BenchmarkTyped
  <1>3. Located' /\ BenchmarkIsEarned' /\ (Clean' <=> Clean)
    BY <1>1, LoadStays DEF BenchmarkInv, Located, BenchmarkIsEarned, Clean, AcceptedIsPlanned
  <1>4. Tallied => Tallied'
    BY <1>1 DEF Tallied, Since, Taken
  <1>5. Followed => Followed'
    BY <1>1 DEF Followed, Follows, Since
  <1>6. Told => Told'
    BY <1>1, LoadStays DEF Told, Past
  <1> QED
    BY <1>2, <1>3, <1>4, <1>5, <1>6 DEF BenchmarkInv

(* What the outstation's buffer keeps is a sequence of events.             *)
LEMMA BufferedIsSeq ==
    ASSUME NEW S, NEW s \in Seq(S) PROVE Buffered(s) \in Seq(S)
  <1>1. Len(s) \in Nat /\ BufferCapacity \in Nat \ {0}
    BY LoadAssumption
  <1>2. CASE Len(s) <= BufferCapacity
    BY <1>2 DEF Buffered
  <1>3. CASE ~(Len(s) <= BufferCapacity)
    <2>1. Len(s) - BufferCapacity + 1 \in 1..Len(s)
      BY <1>1, <1>3
    <2>2. SubSeq(s, Len(s) - BufferCapacity + 1, Len(s)) \in Seq(S)
      BY <1>1, <2>1
    <2> QED
      BY <1>3, <2>2 DEF Buffered
  <1> QED
    BY <1>2, <1>3

(* A foreign event, and the beginning and the end of a fragment.           *)
LEMMA WireActions ==
    ASSUME BenchmarkInv, ForeignEvent \/ BeginFragment \/ EndFragment PROVE BenchmarkInv'
  <1>1. outbox \in Seq(Occurrences) /\ fragment \in Seq(Occurrences)
    BY DEF BenchmarkInv, BenchmarkTyped
  <1>2. UNCHANGED <<load, runnerVars, storeVars, audited>>
    BY DEF ForeignEvent, BeginFragment, EndFragment
  <1>3. CASE ForeignEvent
    <2>1. PICK event \in Events : outbox' = Buffered(Append(outbox, event))
      BY <1>3 DEF ForeignEvent
    <2>2. Append(outbox, event) \in Seq(Occurrences)
      BY <1>1 DEF Occurrences
    <2>3. outbox' \in Seq(Occurrences)
      BY <2>1, <2>2, BufferedIsSeq
    <2> QED
      BY <1>1, <1>2, <1>3, <2>3, WireStep DEF ForeignEvent
  <1>4. CASE BeginFragment
    <2>1. PICK n \in 1..Min({MaxFragment, Len(outbox)}) :
             /\ fragment' = SubSeq(outbox, 1, n)
             /\ outbox' \in {outbox, SubSeq(outbox, n + 1, Len(outbox))}
      BY <1>4 DEF BeginFragment
    <2>2. n \in 1..Len(outbox)
      <3>1. Len(outbox) \in Nat /\ MaxFragment \in Nat
        BY <1>1, LoadAssumption
      <3>2. \E x \in {MaxFragment, Len(outbox)} : \A y \in {MaxFragment, Len(outbox)} : x <= y
        BY <3>1
      <3>3. /\ Min({MaxFragment, Len(outbox)}) \in {MaxFragment, Len(outbox)}
            /\ Min({MaxFragment, Len(outbox)}) <= Len(outbox)
        BY <3>2 DEF Min
      <3> QED
        BY <2>1, <3>1, <3>3
    <2>3. SubSeq(outbox, 1, n) \in Seq(Occurrences)
      BY <1>1, <2>2
    <2>4. SubSeq(outbox, n + 1, Len(outbox)) \in Seq(Occurrences)
      BY <1>1, <2>2
    <2> QED
      BY <1>1, <1>2, <2>1, <2>3, <2>4, WireStep
  <1>5. CASE EndFragment
    BY <1>1, <1>2, <1>5, WireStep DEF EndFragment
  <1> QED
    BY <1>3, <1>4, <1>5

(* An event follows a capture that has it, and one that has missed it.     *)
LEMMA RecordedFollows ==
    ASSUME NEW S, NEW old \in Seq(S), NEW rec \in Seq(S), NEW got \in Seq(S), NEW e \in S,
           NEW more \in {got, Append(got, e)}, Len(old) <= Len(rec), Continues(got, old, rec)
    PROVE  Continues(more, old, Append(rec, e))
  <1> USE DEF Continues
  <1>1. /\ Len(old) \in Nat /\ Len(rec) \in Nat /\ Len(got) \in Nat
        /\ Len(Append(rec, e)) = Len(rec) + 1 /\ Len(Append(got, e)) = Len(got) + 1
    OBVIOUS
  <1>2. CASE more = got \/ Len(got) < Len(rec) - Len(old)
    BY <1>1, <1>2
  <1>3. CASE more = Append(got, e) /\ Len(got) = Len(rec) - Len(old)
               /\ \A k \in 1..Len(got) : got[k] = rec[Len(old) + k]
    <2>1. ASSUME NEW k \in 1..(Len(got) + 1) PROVE more[k] = Append(rec, e)[Len(old) + k]
      <3>1. CASE k = Len(got) + 1
        <4>1. Len(old) + k = Len(rec) + 1
          BY <1>1, <1>3, <3>1
        <4>2. Append(rec, e)[Len(rec) + 1] = e /\ Append(got, e)[Len(got) + 1] = e
          OBVIOUS
        <4> QED
          BY <1>3, <3>1, <4>1, <4>2
      <3>2. CASE k # Len(got) + 1
        <4>1. k \in 1..Len(got) /\ Len(old) + k \in 1..Len(rec)
          BY <1>1, <1>3, <3>2
        <4>2. Append(rec, e)[Len(old) + k] = rec[Len(old) + k] /\ more[k] = got[k]
          BY <1>3, <4>1
        <4> QED
          BY <1>3, <4>1, <4>2
      <3> QED
        BY <3>1, <3>2
    <2> QED
      BY <1>1, <1>3, <2>1
  <1> QED
    BY <1>2, <1>3

(* OpenDNP3's thread records an event.                                     *)
LEMMA RecordEventStep == ASSUME BenchmarkInv, RecordEvent PROVE BenchmarkInv'
  <1> DEFINE e == Head(fragment)
  <1>1. /\ UNCHANGED <<load, bmPc, bmGoal, iteration, drainedNow, totals, bmFailure, bmPassed,
                       terminal, outbox, audited>>
        /\ fragment # <<>> /\ fragment' = Tail(fragment) /\ recorded' = Append(recorded, e)
        /\ bmPc # "done"
    BY DEF RecordEvent, runnerVars
  <1>2. /\ fragment \in Seq(Occurrences) /\ store \in Seq(Occurrences) /\ capture \in Capture
        /\ recorded \in Seq(Occurrences) /\ audited \in Seq(Occurrences) /\ dropped \in Nat
        /\ drainedNow \in Nat /\ terminal \in Result
    BY DEF BenchmarkInv, BenchmarkTyped
  <1>3. e \in Occurrences /\ Tail(fragment) \in Seq(Occurrences)
    BY <1>1, <1>2
  <1>4. /\ store' = Append(IF Len(store) = StoreCapacity THEN Tail(store) ELSE store, e)
        /\ dropped' = IF Len(store) = StoreCapacity THEN dropped + 1 ELSE dropped
    BY DEF RecordEvent
  <1>5. capture' \in {capture, [capture EXCEPT !.got = Append(capture.got, e)],
                      [capture EXCEPT !.overflow = TRUE]}
    BY DEF RecordEvent
  <1> HIDE DEF e
  <1>6. store' \in Seq(Occurrences)
    <2>1. CASE Len(store) = StoreCapacity
      <3>1. store # <<>>
        BY <2>1, LoadAssumption
      <3> QED
        BY <1>2, <1>3, <1>4, <2>1, <3>1
    <2>2. CASE Len(store) # StoreCapacity
      BY <1>2, <1>3, <1>4, <2>2
    <2> QED
      BY <2>1, <2>2
  <1>7. Append(capture.got, e) \in Seq(Occurrences) /\ recorded' \in Seq(Occurrences)
    BY <1>1, <1>2, <1>3 DEF Capture
  <1>8. capture' \in Capture /\ capture'.got \in {capture.got, Append(capture.got, e)}
    BY <1>2, <1>5, <1>7 DEF Capture
  <1>9. dropped' \in Nat
    BY <1>2, <1>4
  <1>10. BenchmarkTyped'
    BY <1>1, <1>3, <1>6, <1>7, <1>8, <1>9, LoadStays DEF BenchmarkInv, BenchmarkTyped
  <1>11. Located' /\ BenchmarkIsEarned'
    BY <1>1, LoadStays DEF BenchmarkInv, Located, BenchmarkIsEarned, AcceptedIsPlanned
  <1>12. ASSUME Clean' PROVE Tallied' /\ Followed' /\ Told'
    <2>1. dropped = 0 /\ Len(store) # StoreCapacity /\ Clean
      BY <1>1, <1>2, <1>4, <1>12 DEF Clean
    <2>2. Tallied /\ Followed /\ Told
      BY <2>1 DEF BenchmarkInv
    <2>3. /\ Len(store') = Len(store) + 1 /\ Len(recorded') = Len(recorded) + 1
          /\ Len(store) \in Nat /\ Len(recorded) \in Nat /\ Len(audited) \in Nat
      BY <1>1, <1>2, <1>3, <1>4, <2>1
    <2>4. Taken \in Nat /\ UNCHANGED Taken
      BY <1>1, <1>2 DEF Taken
    <2>5. Len(audited) <= Len(recorded)
      BY <2>2, <2>3, <2>4 DEF Tallied, Since
    <2>6. \A k \in 1..Len(recorded) : recorded'[k] = recorded[k]
      BY <1>1, <1>2, <1>3
    <2>7. Tallied'
      <3>1. Since' = Taken' + Len(store')
        BY <1>1, <2>2, <2>3, <2>4 DEF Tallied, Since
      <3>2. \A k \in 1..Len(audited) : k \in 1..Len(recorded)
        BY <2>3, <2>5
      <3> QED
        BY <1>1, <2>2, <2>6, <3>1, <3>2 DEF Tallied
    <2>8. Follows(capture.got) => Follows(capture.got)'
      <3>1. capture.got \in Seq(Occurrences)
        BY <1>2 DEF Capture
      <3> QED
        BY <1>1, <1>2, <1>3, <1>8, <2>5, <3>1, RecordedFollows DEF Follows
    <2>9. Follows(terminal.got) => Follows(terminal.got)'
      <3>1. terminal.got \in Seq(Occurrences)
        BY <1>2 DEF Result
      <3> QED
        BY <1>1, <1>2, <1>3, <2>5, <3>1, RecordedFollows DEF Follows
    <2>10. Followed'
      BY <1>1, <2>2, <2>8, <2>9 DEF Followed
    <2>11. Told'
      BY <1>1, <2>2, LoadStays DEF Told, Past
    <2> QED
      BY <2>7, <2>10, <2>11
  <1> QED
    BY <1>10, <1>11, <1>12 DEF BenchmarkInv

(* A failure goes to the final drain or to the report, and stays.          *)
LEMMA FailedStep ==
    ASSUME BenchmarkInv, BenchmarkTyped', bmPc # "done", load' = load, bmPassed' = bmPassed,
           bmFailure' \notin {"none", "plan"},
           bmPc' = "report" \/ (bmPc' = "drain" /\ bmGoal' = "final")
    PROVE  BenchmarkInv'
  <1>1. ~bmPassed'
    BY DEF BenchmarkInv, Located
  <1>2. Located'
    BY <1>1 DEF Located, AcceptedIsPlanned, Rounds
  <1> QED
    BY <1>1, <1>2 DEF BenchmarkInv, BenchmarkIsEarned, Clean

(* What an exception does.                                                 *)
LEMMA FailsFacts ==
    ASSUME BenchmarkInv, NEW why, why \notin {"none", "plan"}, Fails(why)
    PROVE  /\ bmFailure' \notin {"none", "plan"} /\ drainedNow' \in Nat
           /\ bmPc' = "report" \/ (bmPc' = "drain" /\ bmGoal' = "final")
           /\ bmPc' \in {"drain", "report"} /\ bmGoal' \in {"initial", "iteration", "final"}
  <1>1. bmFailure # "plan" /\ drainedNow \in Nat /\ bmGoal \in {"initial", "iteration", "final"}
    BY DEF BenchmarkInv, BenchmarkTyped, Located, AcceptedIsPlanned
  <1> QED
    BY <1>1 DEF Fails, Goto, Drain

(* The check before the run.                                               *)
LEMMA CheckStep == ASSUME BenchmarkInv, Check PROVE BenchmarkInv'
  <1>1. /\ UNCHANGED <<load, iteration, totals, bmPassed, terminal, store, dropped, capture,
                       recorded, outbox, fragment, audited>>
        /\ bmPc = "check"
    BY DEF Check, storeVars, wireVars
  <1>2. \/ bmPc' = "drain" /\ bmGoal' = "initial" /\ drainedNow' = 0 /\ bmFailure' = bmFailure
        \/ bmPc' = "done" /\ UNCHANGED <<bmGoal, drainedNow>> /\ bmFailure' = "refused"
    BY DEF Check, Drain, Goto
  <1>3. BenchmarkTyped'
    BY <1>1, <1>2, LoadStays DEF BenchmarkInv, BenchmarkTyped
  <1>4. Located' /\ BenchmarkIsEarned'
    BY <1>1, <1>2 DEF BenchmarkInv, Located, BenchmarkIsEarned, AcceptedIsPlanned, Rounds
  <1>5. ASSUME Clean' PROVE Tallied' /\ Followed' /\ Told'
    <2>1. Clean /\ bmPc' = "drain" /\ bmGoal' = "initial" /\ drainedNow' = 0
      BY <1>1, <1>2, <1>5 DEF Clean
    <2>2. Tallied /\ Told
      BY <2>1 DEF BenchmarkInv
    <2>3. Tallied'
      BY <1>1, <2>1, <2>2 DEF Tallied, Since, Taken
    <2> QED
      BY <1>1, <2>1, <2>2, <2>3, LoadStays DEF Followed, Told, Past, Rounds
  <1> QED
    BY <1>3, <1>4, <1>5 DEF BenchmarkInv

(* A request, or the sampler, fails.                                       *)
LEMMA RequestFailsStep == ASSUME BenchmarkInv, RequestFails PROVE BenchmarkInv'
  <1>1. /\ UNCHANGED <<load, iteration, totals, bmPassed, terminal, store, dropped, capture,
                       recorded, outbox, fragment, audited>>
        /\ bmPc \in {"drain", "begin"}
    BY DEF RequestFails, storeVars, wireVars
  <1>2. /\ bmFailure' \notin {"none", "plan"} /\ drainedNow' \in Nat
        /\ bmPc' = "report" \/ (bmPc' = "drain" /\ bmGoal' = "final")
        /\ bmPc' \in {"drain", "report"} /\ bmGoal' \in {"initial", "iteration", "final"}
    <2>1. CASE Fails("request")
      BY <2>1, FailsFacts
    <2>2. CASE bmFailure' = "host" /\ Goto("report")
      BY <2>2 DEF Goto, BenchmarkInv, BenchmarkTyped
    <2> QED
      BY <2>1, <2>2 DEF RequestFails
  <1>3. BenchmarkTyped'
    BY <1>1, <1>2, LoadStays DEF BenchmarkInv, BenchmarkTyped
  <1> QED
    BY <1>1, <1>2, <1>3, FailedStep

(* The host is gone before the final drain: the last one stands.           *)
LEMMA SkippedStep == ASSUME BenchmarkInv, FinalDrainSkipped PROVE BenchmarkInv'
  <1>1. /\ UNCHANGED <<load, bmGoal, iteration, drainedNow, totals, bmFailure, bmPassed, terminal,
                       store, dropped, capture, recorded, outbox, fragment, audited>>
        /\ bmPc = "drain" /\ bmGoal = "final" /\ drainedNow = 0 /\ bmPc' = "report"
    BY DEF FinalDrainSkipped, Goto, storeVars, wireVars
  <1>2. BenchmarkTyped'
    BY <1>1, LoadStays DEF BenchmarkInv, BenchmarkTyped
  <1>3. Located' /\ BenchmarkIsEarned'
    BY <1>1 DEF BenchmarkInv, Located, BenchmarkIsEarned, AcceptedIsPlanned, Rounds
  <1>4. ASSUME Clean' PROVE Tallied' /\ Followed' /\ Told'
    <2>1. Tallied /\ Told
      BY <1>1, <1>4 DEF BenchmarkInv, Clean
    <2>2. Tallied' /\ Followed'
      BY <1>1, <2>1 DEF Tallied, Since, Taken, Followed
    <2>3. Past \in Nat /\ Past' = Past /\ Len(audited) = Past /\ Len(audited) >= Past
      BY <1>1, <2>1, LoadFacts DEF BenchmarkInv, Told, Past
    <2> QED
      BY <1>1, <2>1, <2>2, <2>3, LoadStays DEF Told, Rounds
  <1> QED
    BY <1>2, <1>3, <1>4 DEF BenchmarkInv

(* An iteration that is still to run fits into the whole.                  *)
LEMMA RoundFits ==
    ASSUME BenchmarkTyped, iteration < load.iterations
    PROVE  Past + load.count <= Total(load)
  <1>1. load.count \in Nat /\ load.iterations \in Nat /\ iteration \in Nat
    BY LoadFacts DEF BenchmarkTyped
  <1>2. \A c, n, i \in Nat : i < n => i * c + c <= c * n
    <2> TAKE c, n, i \in Nat
    <2> HAVE i < n
    <2>1. PICK d \in Nat : n = i + 1 + d
      <3>1. n - i - 1 \in Nat /\ n = i + 1 + (n - i - 1)
        OBVIOUS
      <3> QED
        BY <3>1
    <2>2. c * n = c * i + c + c * d /\ i * c = c * i /\ c * d \in Nat /\ c * i \in Nat
      BY <2>1
    <2> QED
      BY <2>2
  <1> QED
    BY <1>1, <1>2 DEF Past, Total

(* plan_events accepts the next iteration.                                 *)
LEMMA PlanStep == ASSUME BenchmarkInv, Plan PROVE BenchmarkInv'
  <1>1. /\ UNCHANGED <<load, iteration, totals, bmPassed, terminal, store, dropped, capture,
                       recorded, outbox, fragment, audited>>
        /\ bmPc = "plan"
    BY DEF Plan, storeVars, wireVars
  <1>2. BenchmarkTyped /\ iteration < load.iterations
    BY <1>1 DEF BenchmarkInv, Located, Rounds
  <1>3. PlanAccepted(load, load.start + iteration * load.count, load.base + iteration * load.count)
    <2>1. /\ load.count \in Nat /\ load.start \in Nat /\ load.base \in Nat
          /\ load.span \in Nat \ {0} /\ Past \in Nat /\ Total(load) \in Nat
      BY <1>2, LoadFacts
    <2>2. Past + load.count <= Total(load)
      BY <1>2, RoundFits
    <2>3. /\ load.start <= SequenceLimit - Total(load) /\ load.base <= TimeLimit - Total(load)
          /\ Emission(load) <= EmissionLimit /\ load.span <= PointCount
      BY <1>2 DEF BenchmarkTyped, LoadAccepted, ProfileAccepted
    <2>4. SequenceLimit \in Nat /\ TimeLimit \in Nat
      BY LoadAssumption
    <2>5. /\ load.start + Past >= 0 /\ load.start + Past <= SequenceLimit - load.count
          /\ load.base + Past >= 0 /\ load.base + Past <= TimeLimit - 1 - (load.count - 1)
          /\ load.span >= 1
      BY <2>1, <2>2, <2>3, <2>4
    <2> QED
      BY <2>3, <2>5 DEF PlanAccepted, Past
  <1>4. bmPc' = "begin" /\ UNCHANGED <<bmGoal, drainedNow, bmFailure>>
    BY <1>3 DEF Plan, Goto
  <1>5. BenchmarkTyped'
    BY <1>1, <1>4, LoadStays DEF BenchmarkInv, BenchmarkTyped, Rounds
  <1>6. Located' /\ BenchmarkIsEarned'
    BY <1>1, <1>2, <1>4 DEF BenchmarkInv, Located, BenchmarkIsEarned, AcceptedIsPlanned, Rounds
  <1>7. ASSUME Clean' PROVE Tallied' /\ Followed' /\ Told'
    <2>1. Tallied /\ Told
      BY <1>1, <1>4, <1>7 DEF BenchmarkInv, Clean
    <2>2. Tallied'
      BY <1>1, <1>4, <2>1 DEF Tallied, Since, Taken
    <2> QED
      BY <1>1, <1>4, <2>1, <2>2, LoadStays DEF Followed, Told, Past, Rounds
  <1> QED
    BY <1>5, <1>6, <1>7 DEF BenchmarkInv

(* begin_capture: an empty capture follows anything.                       *)
LEMMA BeginCaptureStep == ASSUME BenchmarkInv, BeginCapture PROVE BenchmarkInv'
  <1>1. /\ UNCHANGED <<load, bmGoal, iteration, drainedNow, totals, bmFailure, bmPassed, store,
                       dropped, recorded, outbox, fragment, audited>>
        /\ bmPc = "begin" /\ bmPc' = "generate"
        /\ capture' = [active |-> TRUE, got |-> <<>>, overflow |-> FALSE]
        /\ terminal' = NoResult
    BY DEF BeginCapture, Goto, wireVars, Idle
  <1>2. <<>> \in Seq(Occurrences) /\ Len(<<>>) = 0
    OBVIOUS
  <1>3. capture' \in Capture /\ terminal' \in Result /\ capture'.got = <<>>
    BY <1>1, <1>2 DEF Capture, Result, NoResult
  <1>4. BenchmarkTyped'
    BY <1>1, <1>3, LoadStays DEF BenchmarkInv, BenchmarkTyped, Rounds
  <1>5. Located' /\ BenchmarkIsEarned'
    BY <1>1 DEF BenchmarkInv, Located, BenchmarkIsEarned, AcceptedIsPlanned, Rounds
  <1>6. ASSUME Clean' PROVE Tallied' /\ Followed' /\ Told'
    <2>1. Tallied /\ Told
      BY <1>1, <1>6 DEF BenchmarkInv, Clean
    <2>2. Tallied'
      BY <1>1, <2>1 DEF Tallied, Since, Taken
    <2>3. Len(recorded) - Len(audited) \in Nat
      <3>1. Len(store) \in Nat
        BY DEF BenchmarkInv, BenchmarkTyped
      <3> QED
        BY <1>1, <2>1, <3>1 DEF Tallied, Since, Taken
    <2>4. Continues(<<>>, audited, recorded)
      BY <1>2, <2>3 DEF Continues
    <2>5. Follows(capture.got)'
      BY <1>1, <1>3, <2>4 DEF Follows
    <2> QED
      BY <1>1, <2>1, <2>2, <2>5, LoadStays DEF Followed, Told, Past, Rounds
  <1> QED
    BY <1>4, <1>5, <1>6 DEF BenchmarkInv

(* generate_events and the waiting for the capture.                        *)
LEMMA GenerateStep == ASSUME BenchmarkInv, Generate \/ Progress PROVE BenchmarkInv'
  <1>1. /\ UNCHANGED <<load, bmGoal, iteration, drainedNow, totals, bmFailure, bmPassed, terminal,
                       store, dropped, capture, recorded, fragment, audited>>
        /\ bmPc \in {"generate", "progress"} /\ bmPc' \in {"progress", "end", "finally"}
    BY DEF Generate, Progress, Goto, storeVars, wireVars
  <1>2. outbox' \in Seq(Occurrences)
    <2>1. outbox \in Seq(Occurrences) /\ Truth(iteration) \in Seq(Occurrences)
      BY TruthFacts DEF BenchmarkInv, BenchmarkTyped
    <2>2. outbox \o Truth(iteration) \in Seq(Occurrences)
      BY <2>1
    <2>3. Buffered(outbox \o Truth(iteration)) \in Seq(Occurrences)
      BY <2>2, BufferedIsSeq
    <2> QED
      BY <2>1, <2>3 DEF Generate, Progress, wireVars
  <1>3. BenchmarkTyped'
    BY <1>1, <1>2, LoadStays DEF BenchmarkInv, BenchmarkTyped, Rounds
  <1>4. Located' /\ BenchmarkIsEarned'
    BY <1>1 DEF BenchmarkInv, Located, BenchmarkIsEarned, AcceptedIsPlanned, Rounds
  <1>5. ASSUME Clean' PROVE Tallied' /\ Followed' /\ Told'
    <2>1. Tallied /\ Followed /\ Told
      BY <1>1, <1>5 DEF BenchmarkInv, Clean
    <2>2. Tallied'
      BY <1>1, <2>1 DEF Tallied, Since, Taken
    <2>3. Followed'
      BY <1>1, <2>1 DEF Followed, Follows
    <2> QED
      BY <1>1, <2>1, <2>2, <2>3, LoadStays DEF Told, Past, Rounds
  <1> QED
    BY <1>3, <1>4, <1>5 DEF BenchmarkInv

(* end_capture: its result follows as the capture did.                     *)
LEMMA EndCaptureStep == ASSUME BenchmarkInv, EndCapture PROVE BenchmarkInv'
  <1>1. /\ UNCHANGED <<load, iteration, totals, bmFailure, bmPassed, store, dropped, recorded,
                       outbox, fragment, audited>>
        /\ bmPc = "end"
    BY DEF EndCapture, wireVars
  <1>2. CASE bmPc' = "finally" /\ UNCHANGED <<bmGoal, drainedNow, capture, terminal>>
    <2>1. BenchmarkTyped'
      BY <1>1, <1>2, LoadStays DEF BenchmarkInv, BenchmarkTyped, Rounds
    <2>2. Located' /\ BenchmarkIsEarned'
      BY <1>1, <1>2 DEF BenchmarkInv, Located, BenchmarkIsEarned, AcceptedIsPlanned, Rounds
    <2>3. ASSUME Clean' PROVE Tallied' /\ Followed' /\ Told'
      <3>1. Tallied /\ Told
        BY <1>1, <2>3 DEF BenchmarkInv, Clean
      <3>2. Tallied'
        BY <1>1, <1>2, <3>1 DEF Tallied, Since, Taken
      <3> QED
        BY <1>1, <1>2, <3>1, <3>2, LoadStays DEF Followed, Told, Past, Rounds
    <2> QED
      BY <2>1, <2>2, <2>3 DEF BenchmarkInv
  <1>3. CASE /\ bmPc' = "drain" /\ bmGoal' = "iteration" /\ drainedNow' = 0 /\ capture' = Idle
             /\ terminal' = [ended |-> TRUE, got |-> capture.got, overflow |-> capture.overflow]
    <2>1. capture' \in Capture /\ terminal' \in Result /\ terminal'.got = capture.got
      <3>1. capture \in Capture /\ <<>> \in Seq(Occurrences)
        BY DEF BenchmarkInv, BenchmarkTyped
      <3> QED
        BY <1>3, <3>1 DEF Capture, Result, Idle
    <2>2. BenchmarkTyped'
      BY <1>1, <1>3, <2>1, LoadStays DEF BenchmarkInv, BenchmarkTyped
    <2>3. Located' /\ BenchmarkIsEarned'
      BY <1>1, <1>3 DEF BenchmarkInv, Located, BenchmarkIsEarned, AcceptedIsPlanned, Rounds
    <2>4. ASSUME Clean' PROVE Tallied' /\ Followed' /\ Told'
      <3>1. Tallied /\ Followed /\ Told
        BY <1>1, <2>4 DEF BenchmarkInv, Clean
      <3>2. Tallied'
        BY <1>1, <1>3, <3>1 DEF Tallied, Since, Taken
      <3>3. Follows(terminal.got)'
        BY <1>1, <2>1, <3>1 DEF Followed, Follows
      <3> QED
        BY <1>1, <1>3, <3>1, <3>2, <3>3, LoadStays DEF Followed, Told, Past, Rounds
    <2> QED
      BY <2>2, <2>3, <2>4 DEF BenchmarkInv
  <1> QED
    BY <1>2, <1>3 DEF EndCapture, Goto, Drain

(* The finally clause of an iteration.                                     *)
LEMMA FinallyStep == ASSUME BenchmarkInv, Finally PROVE BenchmarkInv'
  <1>1. /\ UNCHANGED <<load, iteration, totals, bmPassed, terminal, store, dropped, recorded,
                       outbox, fragment, audited>>
        /\ bmPc = "finally" /\ capture' \in {Idle, capture} /\ Fails("iteration")
    BY DEF Finally, wireVars
  <1>2. /\ bmFailure' \notin {"none", "plan"} /\ drainedNow' \in Nat
        /\ bmPc' = "report" \/ (bmPc' = "drain" /\ bmGoal' = "final")
        /\ bmPc' \in {"drain", "report"} /\ bmGoal' \in {"initial", "iteration", "final"}
    BY <1>1, FailsFacts
  <1>3. capture' \in Capture
    <2>1. <<>> \in Seq(Occurrences)
      OBVIOUS
    <2>2. Idle \in Capture
      BY <2>1 DEF Capture, Idle
    <2>3. capture \in Capture
      BY DEF BenchmarkInv, BenchmarkTyped
    <2> QED
      BY <1>1, <2>2, <2>3
  <1>4. BenchmarkTyped'
    BY <1>1, <1>2, <1>3, LoadStays DEF BenchmarkInv, BenchmarkTyped
  <1> QED
    BY <1>1, <1>2, <1>4, FailedStep

(* One batch of a drain.                                                   *)
LEMMA TakeUnsolicitedStep == ASSUME BenchmarkInv, TakeUnsolicited PROVE BenchmarkInv'
  <1> DEFINE taken == IF inFragment THEN 0 ELSE Min({BatchLimit, Len(store)})
             n == drainedNow + taken
             all == totals.drained + n
  <1>1. /\ UNCHANGED <<load, iteration, bmPassed, terminal, dropped, capture, recorded, outbox,
                       fragment>>
        /\ bmPc = "drain" /\ store' = SubSeq(store, taken + 1, Len(store))
    BY DEF TakeUnsolicited, wireVars
  <1>2. /\ store \in Seq(Occurrences) /\ recorded \in Seq(Occurrences)
        /\ audited \in Seq(Occurrences) /\ drainedNow \in Nat /\ dropped \in Nat
        /\ totals \in [drained : Nat, received : Nat, completed : Nat]
        /\ bmGoal \in {"initial", "iteration", "final"}
        /\ Len(store) \in Nat /\ Len(recorded) \in Nat /\ Len(audited) \in Nat
    BY DEF BenchmarkInv, BenchmarkTyped
  <1>3. taken \in 0..Len(store)
    <2>1. BatchLimit \in Nat
      BY LoadAssumption
    <2>2. \E x \in {BatchLimit, Len(store)} : \A y \in {BatchLimit, Len(store)} : x <= y
      BY <1>2, <2>1
    <2>3. /\ Min({BatchLimit, Len(store)}) \in {BatchLimit, Len(store)}
          /\ Min({BatchLimit, Len(store)}) <= Len(store)
      BY <2>2 DEF Min
    <2> QED
      BY <1>2, <2>1, <2>3
  <1>4. \/ /\ Len(store) - taken = 0 /\ Drained(n, all) /\ audited' = recorded
        \/ /\ drainedNow' = n /\ UNCHANGED <<bmPc, bmGoal, totals, bmFailure, audited>>
        \/ Fails("notDrained") /\ UNCHANGED <<totals, audited>>
    BY DEF TakeUnsolicited, DrainComplete
  <1> HIDE DEF taken
  <1>5. n \in Nat /\ all \in Nat
    BY <1>2, <1>3
  <1>6. store' \in Seq(Occurrences) /\ Len(store') = Len(store) - taken
    <2>1. SubSeq(store, taken + 1, Len(store)) \in Seq(Occurrences)
      BY <1>2, <1>3
    <2>2. Len(SubSeq(store, taken + 1, Len(store))) = Len(store) - taken
      BY <1>2, <1>3
    <2> QED
      BY <1>1, <2>1, <2>2
  <1>7. ASSUME /\ bmFailure' \notin {"none", "plan"} /\ drainedNow' \in Nat
               /\ bmPc' = "report" \/ (bmPc' = "drain" /\ bmGoal' = "final")
               /\ bmPc' \in {"drain", "report"} /\ bmGoal' \in {"initial", "iteration", "final"},
               totals' \in [drained : Nat, received : Nat, completed : Nat],
               audited' \in Seq(Occurrences)
        PROVE  BenchmarkInv'
    <2>1. BenchmarkTyped'
      BY <1>1, <1>2, <1>6, <1>7, LoadStays DEF BenchmarkInv, BenchmarkTyped
    <2> QED
      BY <1>1, <1>7, <2>1, FailedStep
  <1>8. CASE Fails("notDrained") /\ UNCHANGED <<totals, audited>>
    BY <1>2, <1>7, <1>8, FailsFacts
  <1>9. CASE drainedNow' = n /\ UNCHANGED <<bmPc, bmGoal, totals, bmFailure, audited>>
    <2>1. BenchmarkTyped'
      BY <1>1, <1>2, <1>5, <1>6, <1>9, LoadStays DEF BenchmarkInv, BenchmarkTyped
    <2>2. Located' /\ BenchmarkIsEarned'
      BY <1>1, <1>9, LoadStays DEF BenchmarkInv, Located, BenchmarkIsEarned, AcceptedIsPlanned
    <2>3. ASSUME Clean' PROVE Tallied' /\ Followed' /\ Told'
      <3>1. Tallied /\ Followed /\ Told
        BY <1>1, <1>9, <2>3 DEF BenchmarkInv, Clean
      <3>2. Since' = Taken' + Len(store')
        <4>1. Since = drainedNow + Len(store)
          BY <1>1, <3>1 DEF Tallied, Taken
        <4>2. Since' = Since /\ Taken' = n
          BY <1>1, <1>9 DEF Since, Taken
        <4> QED
          BY <1>2, <1>3, <1>6, <4>1, <4>2
      <3>3. Tallied'
        BY <1>1, <1>9, <3>1, <3>2 DEF Tallied
      <3>4. Followed'
        BY <1>1, <1>9, <3>1 DEF Followed, Follows
      <3> QED
        BY <1>1, <1>9, <3>1, <3>3, <3>4, LoadStays DEF Told, Past
    <2> QED
      BY <2>1, <2>2, <2>3 DEF BenchmarkInv
  <1>10. CASE Len(store) - taken = 0 /\ Drained(n, all) /\ audited' = recorded
    <2>1. /\ Len(store') = 0 /\ taken = Len(store)
          /\ [totals EXCEPT !.drained = all] \in [drained : Nat, received : Nat, completed : Nat]
      <3>1. Len(store') = 0 /\ taken = Len(store)
        BY <1>2, <1>3, <1>6, <1>10
      <3>2. [totals EXCEPT !.drained = all] \in [drained : Nat, received : Nat, completed : Nat]
        <4> HIDE DEF all
        <4> QED
          BY <1>2, <1>5
      <3> QED
        BY <3>1, <3>2
    <2>2. CASE Fails("notEmpty") /\ UNCHANGED totals
      BY <1>2, <1>7, <1>10, <2>2, FailsFacts
    <2>3. CASE Fails("queueTruth") /\ totals' = [totals EXCEPT !.drained = all]
      BY <1>2, <1>7, <1>10, <2>1, <2>3, FailsFacts
    <2>4. ASSUME UNCHANGED <<bmGoal, drainedNow, bmFailure>>,
                 \/ /\ bmGoal = "initial" /\ bmPc' = "plan" /\ totals' = totals /\ n = 0
                 \/ /\ bmGoal = "iteration" /\ bmPc' = "accept" /\ n = load.count
                    /\ totals' = [totals EXCEPT !.drained = all]
                 \/ /\ bmGoal = "final" /\ bmPc' = "report"
                    /\ totals' = [totals EXCEPT !.drained = all]
          PROVE  BenchmarkInv'
      <3>1. BenchmarkTyped'
        <4>1. totals' \in [drained : Nat, received : Nat, completed : Nat]
          BY <1>2, <2>1, <2>4
        <4>2. bmPc' \in {"report"} \cup Rounds
          BY <2>4 DEF Rounds
        <4> QED
          BY <1>1, <1>2, <1>6, <1>10, <2>4, <4>1, <4>2, LoadStays DEF BenchmarkInv, BenchmarkTyped
      <3>2. Located' /\ BenchmarkIsEarned'
        BY <1>1, <2>4 DEF BenchmarkInv, Located, BenchmarkIsEarned, AcceptedIsPlanned, Rounds
      <3>3. ASSUME Clean' PROVE Tallied' /\ Followed' /\ Told'
        <4>1. Tallied /\ Followed /\ Told
          BY <1>1, <2>4, <3>3 DEF BenchmarkInv, Clean
        <4>2. Len(recorded) - Len(audited) = n
          BY <1>1, <1>2, <1>5, <2>1, <4>1 DEF Tallied, Since, Taken
        <4>3. totals.drained = Len(audited) /\ Len(audited) = Past /\ Past \in Nat
          BY <1>1, <4>1, LoadFacts DEF Tallied, Told, BenchmarkInv
        <4>4. Len(recorded) = Past + n
          BY <1>2, <1>5, <4>2, <4>3
        <4>5. totals'.drained = Len(recorded)
          BY <1>2, <1>5, <2>4, <4>3, <4>4
        <4>6. Tallied'
          <5>1. Since' = 0 /\ Taken' = 0 /\ Len(store') = 0
            BY <1>1, <1>2, <1>10, <2>1, <2>4 DEF Since, Taken
          <5>2. \A k \in 1..Len(audited') : audited'[k] = recorded'[k]
            BY <1>1, <1>10
          <5>3. Since' = Taken' + Len(store') /\ totals'.drained = Len(audited')
            BY <1>10, <4>5, <5>1
          <5> QED
            BY <5>2, <5>3 DEF Tallied
        <4>7. UNCHANGED Past
          BY <1>1 DEF Past
        <4>8. \A k \in 1..Past : recorded[k] = Event(load.start + k - 1)
          BY <1>1, <4>1, <4>3 DEF Tallied, Told
        <4>9. Told'
          <5>1. \A k \in 1..Past' : audited'[k] = Event(load.start + k - 1)'
            BY <1>1, <1>10, <4>7, <4>8, LoadStays
          <5>2. /\ bmPc' = "plan" => Len(audited') = Past'
                /\ bmPc' = "accept" => Len(audited') = Past' + load.count
                /\ bmPc' = "report" => Len(audited') >= Past'
            BY <1>5, <1>10, <2>4, <4>3, <4>4, <4>7
          <5> QED
            BY <1>1, <2>4, <5>1, <5>2 DEF Told, Rounds
        <4>10. Followed'
          <5>1. CASE bmGoal = "iteration"
            <6>1. bmPc' = "accept" /\ n = load.count
              BY <2>4, <5>1
            <6>2. Continues(terminal.got, audited, recorded)
              BY <1>1, <4>1, <5>1 DEF Followed, Follows
            <6>3. \/ Len(terminal.got) < load.count
                  \/ /\ Len(terminal.got) = load.count
                     /\ \A k \in 1..load.count : terminal.got[k] = recorded[Past + k]
              BY <4>2, <4>3, <6>1, <6>2 DEF Continues
            <6> QED
              BY <1>1, <1>10, <6>1, <6>3 DEF Followed, Past
          <5>2. CASE bmGoal # "iteration"
            BY <2>4, <5>2 DEF Followed
          <5> QED
            BY <5>1, <5>2
        <4> QED
          BY <4>6, <4>9, <4>10
      <3> QED
        BY <3>1, <3>2, <3>3 DEF BenchmarkInv
    <2>5. CASE bmGoal = "initial"
      <3>1. CASE n # 0 \/ dropped # 0
        BY <1>10, <2>2, <2>5, <3>1 DEF Drained
      <3>2. CASE ~(n # 0 \/ dropped # 0)
        BY <1>10, <2>4, <2>5, <3>2 DEF Drained, Goto
      <3> QED
        BY <3>1, <3>2
    <2>6. CASE bmGoal = "iteration"
      <3>1. CASE dropped # 0 \/ n # load.count
        BY <1>10, <2>3, <2>6, <3>1 DEF Drained
      <3>2. CASE ~(dropped # 0 \/ n # load.count)
        BY <1>10, <2>4, <2>6, <3>2 DEF Drained, Goto
      <3> QED
        BY <3>1, <3>2
    <2>7. CASE bmGoal = "final"
      BY <1>10, <2>4, <2>7 DEF Drained, Goto
    <2> QED
      BY <1>2, <2>5, <2>6, <2>7
  <1> QED
    BY <1>4, <1>8, <1>9, <1>10

(* The checks of an iteration's result.                                    *)
LEMMA AcceptStep == ASSUME BenchmarkInv, Accept PROVE BenchmarkInv'
  <1> DEFINE received == totals.received + Len(terminal.got)
  <1>1. /\ UNCHANGED <<load, bmPassed, terminal, store, dropped, capture, recorded, outbox,
                       fragment, audited>>
        /\ bmPc = "accept"
    BY DEF Accept, storeVars, wireVars
  <1>2. /\ totals \in [drained : Nat, received : Nat, completed : Nat] /\ received \in Nat
        /\ iteration \in Nat /\ iteration < load.iterations /\ load.iterations \in Nat
        /\ load.count \in Nat /\ load.start \in Nat /\ Past \in Nat
    <2>1. terminal.got \in Seq(Occurrences)
      BY DEF BenchmarkInv, BenchmarkTyped, Result
    <2>2. Len(terminal.got) \in Nat
      BY <2>1
    <2>3. totals \in [drained : Nat, received : Nat, completed : Nat] /\ iteration \in Nat
      BY DEF BenchmarkInv, BenchmarkTyped
    <2>4. iteration < load.iterations
      BY <1>1 DEF BenchmarkInv, Located, Rounds
    <2> QED
      BY <2>2, <2>3, <2>4, LoadFacts DEF BenchmarkInv
  <1> HIDE DEF received
  <1>3. CASE terminal.overflow \/ terminal.got # Truth(iteration)
    <2>1. /\ Fails("captureTruth") /\ iteration' = iteration
          /\ totals' = [totals EXCEPT !.received = received]
      BY <1>3 DEF Accept, received
    <2>2. /\ bmFailure' \notin {"none", "plan"} /\ drainedNow' \in Nat
          /\ bmPc' = "report" \/ (bmPc' = "drain" /\ bmGoal' = "final")
          /\ bmPc' \in {"drain", "report"} /\ bmGoal' \in {"initial", "iteration", "final"}
      BY <2>1, FailsFacts
    <2>3. totals' \in [drained : Nat, received : Nat, completed : Nat]
      BY <1>2, <2>1
    <2>4. BenchmarkTyped'
      BY <1>1, <2>1, <2>2, <2>3, LoadStays DEF BenchmarkInv, BenchmarkTyped
    <2> QED
      BY <1>1, <2>2, <2>4, FailedStep
  <1>4. CASE ~(terminal.overflow \/ terminal.got # Truth(iteration))
    <2>1. /\ iteration' = iteration + 1 /\ bmFailure' = bmFailure
          /\ totals' = [totals EXCEPT !.received = received, !.completed = totals.completed + 1]
          /\ IF iteration + 1 = load.iterations THEN Drain("final") ELSE Goto("plan")
      BY <1>4 DEF Accept, received
    <2>2. /\ totals' \in [drained : Nat, received : Nat, completed : Nat]
          /\ totals'.drained = totals.drained
      <3>1. totals.completed + 1 \in Nat
        BY <1>2
      <3> QED
        BY <1>2, <2>1, <3>1
    <2>3. \/ /\ iteration' = load.iterations /\ bmPc' = "drain" /\ bmGoal' = "final"
             /\ drainedNow' = 0
          \/ /\ iteration' < load.iterations /\ bmPc' = "plan" /\ UNCHANGED <<bmGoal, drainedNow>>
      BY <1>2, <2>1 DEF Drain, Goto
    <2>4. BenchmarkTyped'
      <3>1. iteration' \in Nat /\ bmPc' \in {"drain"} \cup Rounds
        BY <1>2, <2>1, <2>3 DEF Rounds
      <3>2. drainedNow' \in Nat /\ bmGoal' \in {"initial", "iteration", "final"}
        BY <2>3 DEF BenchmarkInv, BenchmarkTyped
      <3> QED
        BY <1>1, <2>2, <3>1, <3>2, LoadStays DEF BenchmarkInv, BenchmarkTyped
    <2>5. Located' /\ BenchmarkIsEarned'
      BY <1>1, <2>1, <2>3, LoadStays
         DEF BenchmarkInv, Located, BenchmarkIsEarned, AcceptedIsPlanned, Rounds
    <2>6. ASSUME Clean' PROVE Tallied' /\ Followed' /\ Told'
      <3>1. Tallied /\ Followed /\ Told
        BY <1>1, <2>1, <2>6 DEF BenchmarkInv, Clean
      <3>2. Tallied'
        BY <1>1, <2>2, <2>3, <3>1 DEF Tallied, Since, Taken
      <3>3. Followed'
        BY <2>3 DEF Followed
      <3>4. Past' = Past + load.count
        BY <1>1, <1>2, <2>1 DEF Past
      <3>5. Len(audited') = Past'
        BY <1>1, <3>1, <3>4 DEF Told
      <3>6. Len(terminal.got) = load.count
        BY <1>4, TruthFacts DEF BenchmarkInv
      <3>7. \A k \in 1..load.count : terminal.got[k] = audited[Past + k]
        <4>1. \/ Len(terminal.got) < load.count
              \/ \A k \in 1..load.count : terminal.got[k] = audited[Past + k]
          BY <1>1, <3>1 DEF Followed, Past
        <4> QED
          BY <1>2, <3>6, <4>1
      <3>8. \A k \in 1..load.count : terminal.got[k] = Event(load.start + Past + k - 1)
        BY <1>4 DEF Truth, Past
      <3>9. ASSUME NEW k \in 1..(Past + load.count)
            PROVE  audited[k] = Event(load.start + k - 1)
        <4>1. CASE k \in 1..Past
          BY <1>1, <3>1, <4>1 DEF Told
        <4>2. CASE k \notin 1..Past
          <5>1. k - Past \in 1..load.count /\ Past + (k - Past) = k
                  /\ load.start + Past + (k - Past) - 1 = load.start + k - 1
            BY <1>2, <4>2
          <5>2. /\ terminal.got[k - Past] = audited[Past + (k - Past)]
                /\ terminal.got[k - Past] = Event(load.start + Past + (k - Past) - 1)
            BY <3>7, <3>8, <5>1
          <5> QED
            BY <5>1, <5>2
        <4> QED
          BY <4>1, <4>2
      <3>10. Told'
        BY <1>1, <2>3, <3>4, <3>5, <3>9, LoadStays DEF Told, Rounds
      <3> QED
        BY <3>2, <3>3, <3>10
    <2> QED
      BY <2>4, <2>5, <2>6 DEF BenchmarkInv
  <1> QED
    BY <1>3, <1>4

(* The verdict.                                                            *)
LEMMA BenchmarkReportStep == ASSUME BenchmarkInv, BenchmarkReport PROVE BenchmarkInv'
  <1>1. /\ UNCHANGED <<load, bmGoal, iteration, drainedNow, totals, bmFailure, terminal, store,
                       dropped, capture, recorded, outbox, fragment, audited>>
        /\ bmPc = "report" /\ bmPc' = "done"
        /\ bmPassed' => bmFailure = "none" /\ totals.drained = Total(load) /\ dropped = 0
    BY DEF BenchmarkReport, Goto, storeVars, wireVars
  <1>2. BenchmarkTyped'
    BY <1>1, LoadStays DEF BenchmarkInv, BenchmarkTyped
  <1>3. Located'
    BY <1>1 DEF BenchmarkInv, Located, AcceptedIsPlanned, Rounds
  <1>4. Clean' => Tallied' /\ Followed' /\ Told'
    <2> SUFFICES ASSUME Clean' PROVE Tallied' /\ Followed' /\ Told'
      OBVIOUS
    <2>1. Tallied /\ Told
      BY <1>1 DEF BenchmarkInv, Clean
    <2>2. Tallied'
      BY <1>1, <2>1 DEF Tallied, Since, Taken
    <2> QED
      BY <1>1, <2>2 DEF Followed, Told, Rounds
  <1>5. ASSUME bmPassed' PROVE audited = WholeTruth
    <2>1. Tallied /\ Told /\ totals.drained = Total(load) /\ iteration = load.iterations
      BY <1>1, <1>5 DEF BenchmarkInv, Clean, Located
    <2>2. Total(load) = Past /\ Past \in Nat
      <3>1. load.count \in Nat /\ load.iterations \in Nat /\ Past \in Nat
        BY LoadFacts DEF BenchmarkInv
      <3> QED
        BY <2>1, <3>1 DEF Total, Past
    <2>3. Len(audited) = Past /\ audited \in Seq(Occurrences)
      BY <2>1, <2>2 DEF Tallied, BenchmarkInv, BenchmarkTyped
    <2>4. \A k \in 1..Past : audited[k] = Event(load.start + k - 1)
      BY <1>1, <2>1 DEF Told
    <2>5. audited = [k \in 1..Past |-> audited[k]]
      BY <2>3
    <2> QED
      BY <2>2, <2>4, <2>5 DEF WholeTruth
  <1>6. BenchmarkIsEarned'
    BY <1>1, <1>5, LoadStays DEF BenchmarkIsEarned
  <1> QED
    BY <1>2, <1>3, <1>4, <1>6 DEF BenchmarkInv

(* The inductive invariant of the benchmark.                               *)
THEOREM BenchmarkInvariant == BenchmarkSpec => []BenchmarkInv
  <1>1. BenchmarkInv /\ UNCHANGED benchmarkVars => BenchmarkInv'
    <2> SUFFICES ASSUME BenchmarkInv, UNCHANGED benchmarkVars PROVE BenchmarkInv'
      OBVIOUS
    <2>1. /\ UNCHANGED <<load, runnerVars, storeVars, audited>>
          /\ outbox' \in Seq(Occurrences) /\ fragment' \in Seq(Occurrences)
      BY DEF benchmarkVars, wireVars, BenchmarkInv, BenchmarkTyped
    <2> QED
      BY <2>1, WireStep
  <1>2. BenchmarkInv /\ BenchmarkNext => BenchmarkInv'
    BY WireActions, RecordEventStep, CheckStep, RequestFailsStep, SkippedStep, TakeUnsolicitedStep,
       PlanStep, BeginCaptureStep, GenerateStep, EndCaptureStep, FinallyStep, AcceptStep,
       BenchmarkReportStep DEF BenchmarkNext
  <1> QED
    BY <1>1, <1>2, BenchmarkStarts, PTL DEF BenchmarkSpec

(***************************************************************************)
(* A benchmark that run_local_event_benchmark reports as passed had, at    *)
(* its last complete drain, recorded the events of the plan, each once and *)
(* in order, and nothing else, for every load, capacity, fragmentation,    *)
(* repetition and foreign event.                                           *)
(***************************************************************************)
THEOREM PassedBenchmarkIsEarned == BenchmarkSpec => []BenchmarkIsEarned
  <1>1. BenchmarkInv => BenchmarkIsEarned
    BY DEF BenchmarkInv
  <1> QED
    BY <1>1, BenchmarkInvariant, PTL

(***************************************************************************)
(* plan_events refuses no iteration of a load that LocalEventLoad and      *)
(* LocalEventProfile have accepted: the limits of the whole run imply      *)
(* those of each request.                                                  *)
(***************************************************************************)
THEOREM AcceptedLoadsArePlanned == BenchmarkSpec => []AcceptedIsPlanned
  <1>1. BenchmarkInv => AcceptedIsPlanned
    BY DEF BenchmarkInv, Located
  <1> QED
    BY <1>1, BenchmarkInvariant, PTL
=============================================================================
