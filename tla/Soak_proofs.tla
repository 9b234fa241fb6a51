---------------------------- MODULE Soak_proofs ----------------------------
(***************************************************************************)
(* Proofs about run_soak of soak.py, for every profile: no disconnection   *)
(* is missed by the audit of the channel, however it falls between the     *)
(* batches of a drain and the snapshots, and a run that is reported as     *)
(* passed has earned it.  The second part is about the evidence directory: *)
(* for every window and limit, wherever a call fails, an interrupt falls   *)
(* or the process dies, the checkpoints on disk verify but for one stated  *)
(* exception, and their size is counted and bounded.                       *)
(***************************************************************************)
EXTENDS SoakRun, SoakEvidence, FiniteSetTheorems, SequenceTheorems, WellFoundedInduction, TLAPS

ChannelStates == {"OPEN", "CLOSED", "OPENING"}

(* The events that no complete drain has observed yet.                     *)
Pending == states \o chQueue

(* The values of the variables the argument is about.                      *)
SoakTyped ==
    /\ goal \in {"baseline", "warmup", "cycle", "final"}
    /\ chState \in ChannelStates /\ chQueue \in Seq(ChannelStates) /\ chDropped \in Nat
    /\ states \in Seq(ChannelStates) /\ observed \in ChannelStates
    /\ reconnects \in Nat /\ episodes \in Nat /\ audit.episodes \in Nat
    /\ audit.armed \in BOOLEAN /\ audit.dropped \in BOOLEAN
    /\ passed \in BOOLEAN /\ failed \in BOOLEAN /\ droppedSeen \in BOOLEAN
    /\ capturing \in BOOLEAN /\ hostUp \in BOOLEAN /\ stopAsked \in BOOLEAN

(* Where the runner is, and what it has already done there.                *)
Placed ==
    /\ pc # "drain" => states = <<>>
    /\ ~audit.armed => /\ pc \in {"drain"} \cup Terminal /\ goal = "baseline"
                       /\ observed = "OPEN" /\ episodes = 0 /\ audit.episodes = 0
    /\ pc = "drain" /\ goal = "baseline" => ~audit.armed

(* The last pending event is the state of the channel.                     *)
Latest ==
    IF Pending = <<>> THEN chState = "OPEN" => observed = "OPEN"
    ELSE Pending[Len(Pending)] = chState

(* What is counted and what is still to be counted cover all disconnections. *)
Covered == reconnects + Departures(observed, Pending) >= episodes

Audits ==
    /\ pc \notin Terminal => Latest
    /\ pc \notin Terminal /\ chDropped = 0 => Covered
    /\ ~audit.dropped => reconnects >= audit.episodes
    /\ audit.dropped = droppedSeen
    /\ audit.stop => stopAsked
    /\ hostUp => audit.host

(* The status COMPLETED, on its way to the report.                         *)
Completing ==
    /\ status = "COMPLETED" =>
          pc \in {"finalStatus", "finalDrain", "drain", "decide"} \cup Terminal
    /\ status = "COMPLETED" /\ pc = "drain" => goal = "final"
    /\ pc = "decide" /\ hostUp => goal = "final"
    /\ status = "COMPLETED" /\ pc \in Terminal =>
          goal = "final" /\ audit.host /\ ~audit.stop
    /\ capturing => failed
    /\ passed => pc = "returned"

SoakInv == SoakTyped /\ Placed /\ Audits /\ Completing /\ PassedIsEarned

----------------------------------------------------------------------------
(* The number of times a sequence of states leaves OPEN.                   *)

(* The state before the i-th of a sequence that starts from s.             *)
Prior(s, q, i) == IF i = 1 THEN s ELSE q[i - 1]
Leaves(s, q) == {i \in 1..Len(q) : Prior(s, q, i) = "OPEN" /\ q[i] # "OPEN"}

(* observe_channel_events compares each state with the one before it.      *)
LEMMA DeparturesAre ==
    ASSUME NEW s \in ChannelStates, NEW q \in Seq(ChannelStates)
    PROVE  /\ Departures(s, q) = Cardinality(Leaves(s, q))
           /\ IsFiniteSet(Leaves(s, q)) /\ Departures(s, q) \in Nat
  <1>1. Len(q) \in Nat
    BY LenProperties
  <1>2. <<s>> \in Seq(ChannelStates) /\ Len(<<s>>) = 1 /\ <<s>>[1] = s
    OBVIOUS
  <1>3. \A i \in 1..(1 + Len(q)) : (<<s>> \o q)[i] =
           IF i <= 1 THEN <<s>>[i] ELSE q[i - 1]
    BY <1>2, ConcatProperties
  <1>4. \A i \in 1..Len(q) : (<<s>> \o q)[i] = Prior(s, q, i)
    <2> TAKE i \in 1..Len(q)
    <2>1. i \in 1..(1 + Len(q))
      BY <1>1
    <2>2. CASE i = 1
      BY <2>1, <2>2, <1>2, <1>3 DEF Prior
    <2>3. CASE i # 1
      <3>1. ~(i <= 1)
        BY <2>3, <1>1
      <3> QED
        BY <2>1, <2>3, <3>1, <1>3 DEF Prior
    <2> QED
      BY <2>2, <2>3
  <1>5. {i \in 1..Len(q) : (<<s>> \o q)[i] = "OPEN" /\ q[i] # "OPEN"} = Leaves(s, q)
    BY <1>4 DEF Leaves
  <1>6. Leaves(s, q) \in SUBSET (1..Len(q))
    BY DEF Leaves
  <1>7. IsFiniteSet(1..Len(q))
    BY <1>1, FS_Interval
  <1>8. IsFiniteSet(Leaves(s, q))
    BY <1>6, <1>7, FS_Subset
  <1>9. Cardinality(Leaves(s, q)) \in Nat
    BY <1>8, FS_CardinalityType
  <1> QED
    BY <1>5, <1>8, <1>9 DEF Departures

(* An empty drain counts nothing, and a snapshot at most once.             *)
LEMMA FewDepartures ==
    ASSUME NEW s \in ChannelStates, NEW e \in ChannelStates
    PROVE  /\ Departures(s, <<>>) = 0
           /\ Departures(s, <<e>>) = IF s = "OPEN" /\ e # "OPEN" THEN 1 ELSE 0
  <1>1. <<>> \in Seq(ChannelStates) /\ Len(<<>>) = 0
    BY EmptySeq
  <1>2. Leaves(s, <<>>) = {}
    BY <1>1 DEF Leaves
  <1>3. <<e>> \in Seq(ChannelStates) /\ Len(<<e>>) = 1 /\ <<e>>[1] = e
    OBVIOUS
  <1>4. Leaves(s, <<e>>) = IF s = "OPEN" /\ e # "OPEN" THEN {1} ELSE {}
    BY <1>3 DEF Leaves, Prior
  <1>5. Departures(s, <<>>) = 0
    BY <1>1, <1>2, DeparturesAre, FS_EmptySet
  <1>6. Departures(s, <<e>>) = Cardinality(Leaves(s, <<e>>))
    BY <1>3, DeparturesAre
  <1> QED
    BY <1>4, <1>5, <1>6, FS_EmptySet, FS_Singleton

(* One more event, and the state it is compared with.                      *)
LEMMA AppendedDeparture ==
    ASSUME NEW s \in ChannelStates, NEW q \in Seq(ChannelStates), NEW e \in ChannelStates
    PROVE  Departures(s, Append(q, e)) >=
             Departures(s, q) + (IF Observed(s, q) = "OPEN" /\ e # "OPEN" THEN 1 ELSE 0)
  <1> DEFINE p == Append(q, e)
             n == Len(q) + 1
  <1>1. Len(q) \in Nat
    BY LenProperties
  <1>2. p \in Seq(ChannelStates) /\ Len(p) = n /\ (\A i \in 1..Len(q) : p[i] = q[i]) /\ p[n] = e
    BY AppendProperties
  <1> HIDE DEF p
  <1>3. Leaves(s, q) \subseteq Leaves(s, p) /\ n \notin Leaves(s, q)
    <2>1. \A i \in 1..Len(q) : Prior(s, p, i) = Prior(s, q, i)
      <3> TAKE i \in 1..Len(q)
      <3>1. i # 1 => i - 1 \in 1..Len(q)
        BY <1>1
      <3> QED
        BY <3>1, <1>2 DEF Prior
    <2>2. \A i \in 1..Len(q) : i \in 1..Len(p)
      BY <1>1, <1>2
    <2>3. n \notin 1..Len(q)
      BY <1>1
    <2> QED
      BY <2>1, <2>2, <2>3, <1>2 DEF Leaves
  <1>4. IsFiniteSet(Leaves(s, q)) /\ IsFiniteSet(Leaves(s, p))
        /\ Departures(s, q) = Cardinality(Leaves(s, q)) /\ Departures(s, q) \in Nat
        /\ Departures(s, p) = Cardinality(Leaves(s, p)) /\ Departures(s, p) \in Nat
    BY <1>2, DeparturesAre
  <1>5. CASE Observed(s, q) = "OPEN" /\ e # "OPEN"
    <2>1. Prior(s, p, n) = Observed(s, q)
      <3>1. CASE q = <<>>
        BY <3>1, <1>1 DEF Prior, Observed
      <3>2. CASE q # <<>>
        <4>1. Len(q) \in 1..Len(q) /\ n # 1 /\ n - 1 = Len(q)
          BY <3>2, <1>1, EmptySeq
        <4> QED
          BY <4>1, <3>2, <1>2 DEF Prior, Observed
      <3> QED
        BY <3>1, <3>2
    <2>2. n \in 1..Len(p)
      BY <1>1, <1>2
    <2>3. n \in Leaves(s, p)
      BY <2>1, <2>2, <1>2, <1>5 DEF Leaves
    <2>4. Leaves(s, q) \cup {n} \in SUBSET Leaves(s, p)
      BY <2>3, <1>3
    <2>5. Cardinality(Leaves(s, q) \cup {n}) = Cardinality(Leaves(s, q)) + 1
      BY <1>3, <1>4, FS_AddElement
    <2>6. Cardinality(Leaves(s, q) \cup {n}) <= Cardinality(Leaves(s, p))
      BY <2>4, <1>4, FS_Subset
    <2> QED
      BY <2>5, <2>6, <1>4, <1>5 DEF p
  <1>6. CASE ~(Observed(s, q) = "OPEN" /\ e # "OPEN")
    <2>1. Cardinality(Leaves(s, q)) <= Cardinality(Leaves(s, p))
      BY <1>3, <1>4, FS_Subset
    <2> QED
      BY <2>1, <1>4, <1>6 DEF p
  <1> QED
    BY <1>5, <1>6

(* A snapshot that replaces s by t takes at most the departure it counts.  *)
LEMMA ReplacedDeparture ==
    ASSUME NEW s \in ChannelStates, NEW t \in ChannelStates, NEW q \in Seq(ChannelStates)
    PROVE  Departures(t, q) + Departures(s, <<t>>) >= Departures(s, q)
  <1>1. IsFiniteSet(Leaves(s, q)) /\ IsFiniteSet(Leaves(t, q))
        /\ Departures(s, q) = Cardinality(Leaves(s, q)) /\ Departures(s, q) \in Nat
        /\ Departures(t, q) = Cardinality(Leaves(t, q)) /\ Departures(t, q) \in Nat
    BY DeparturesAre
  <1>2. Departures(s, <<t>>) = IF s = "OPEN" /\ t # "OPEN" THEN 1 ELSE 0
    BY FewDepartures
  <1>3. CASE s = "OPEN" /\ t # "OPEN"
    <2>1. Leaves(s, q) \in SUBSET (Leaves(t, q) \cup {1})
      BY DEF Leaves, Prior
    <2>2. IsFiniteSet(Leaves(t, q) \cup {1})
          /\ Cardinality(Leaves(t, q) \cup {1}) =
               (IF 1 \in Leaves(t, q) THEN Cardinality(Leaves(t, q))
                                      ELSE Cardinality(Leaves(t, q)) + 1)
      BY <1>1, FS_AddElement
    <2>3. Cardinality(Leaves(s, q)) <= Cardinality(Leaves(t, q) \cup {1})
      BY <2>1, <2>2, FS_Subset
    <2> QED
      BY <2>2, <2>3, <1>1, <1>2, <1>3
  <1>4. CASE ~(s = "OPEN" /\ t # "OPEN")
    <2>1. Leaves(s, q) \in SUBSET Leaves(t, q)
      BY <1>4 DEF Leaves, Prior
    <2>2. Cardinality(Leaves(s, q)) <= Cardinality(Leaves(t, q))
      BY <2>1, <1>1, FS_Subset
    <2> QED
      BY <2>2, <1>1, <1>2, <1>4
  <1> QED
    BY <1>3, <1>4

----------------------------------------------------------------------------
(* Steps of the runner that neither read nor audit the channel.            *)

Quiet ==
    /\ UNCHANGED <<chState, chQueue, chDropped, observed, reconnects, droppedSeen, audit,
                   episodes, hostUp, stopAsked>>
    /\ states' = <<>>
    /\ pc # "drain" \/ pc' \in Terminal
    /\ pc \in Terminal => pc' \in Terminal
    /\ goal' = goal \/ (goal' \in {"warmup", "cycle", "final"} /\ pc' = "drain")
    /\ pc' = "drain" => goal' # "baseline"
    /\ passed' \in BOOLEAN /\ failed' \in BOOLEAN /\ capturing' \in BOOLEAN

(* They keep what the audit of the channel rests on.                       *)
LEMMA QuietStep ==
    ASSUME SoakInv, Quiet
    PROVE  SoakTyped' /\ Placed' /\ Audits'
  <1>0. SoakTyped /\ Placed /\ Audits
    BY DEF SoakInv
  <1>1. <<>> \in Seq(ChannelStates)
    BY EmptySeq
  <1>2. SoakTyped'
    BY <1>0, <1>1 DEF SoakTyped, Quiet
  <1>3. Placed'
    BY <1>0 DEF Placed, Quiet, Terminal
  <1>4. ASSUME pc' \notin Terminal PROVE pc \notin Terminal /\ Pending' = Pending
    BY <1>0, <1>4 DEF Quiet, Placed, Pending
  <1>5. pc' \notin Terminal => Latest'
    BY <1>0, <1>4 DEF Audits, Latest, Quiet
  <1>6. pc' \notin Terminal /\ chDropped' = 0 => Covered'
    BY <1>0, <1>4 DEF Audits, Covered, Quiet
  <1>7. (~audit.dropped => reconnects >= audit.episodes)'
        /\ (audit.dropped = droppedSeen)' /\ (audit.stop => stopAsked)' /\ (hostUp => audit.host)'
    BY <1>0 DEF Audits, Quiet
  <1> QED
    BY <1>2, <1>3, <1>5, <1>6, <1>7 DEF Audits

(* The runner goes on in the body of the run.                              *)
LEMMA GoOnStep ==
    ASSUME SoakInv, Quiet, pc \notin Terminal, pc' \notin Terminal, passed' = passed,
           capturing' => failed',
           status' = "COMPLETED" => pc' \in {"finalStatus", "finalDrain", "drain", "decide"},
           status' = "COMPLETED" /\ pc' = "drain" => goal' = "final",
           pc' = "decide" /\ hostUp => goal' = "final"
    PROVE  SoakInv'
  <1>1. SoakTyped' /\ Placed' /\ Audits'
    BY QuietStep
  <1>2. ~passed'
    BY DEF SoakInv, Completing, Terminal
  <1>3. hostUp' = hostUp
    BY DEF Quiet
  <1>4. Completing'
    BY <1>2, <1>3 DEF Completing
  <1> QED
    BY <1>1, <1>2, <1>4 DEF SoakInv, PassedIsEarned

(* An exception, or the end of the audit, leaves it without success.       *)
LEMMA LeaveStep ==
    ASSUME SoakInv, NEW result, result # "COMPLETED", LeaveBody(result), pc \notin Terminal,
           failed' \in {failed, TRUE},
           UNCHANGED <<chState, chQueue, chDropped, observed, reconnects, droppedSeen,
                       episodes, hostUp, stopAsked>>
    PROVE  SoakInv'
  <1>0. SoakTyped /\ Completing
    BY DEF SoakInv
  <1>1. Quiet
    BY <1>0 DEF Quiet, LeaveBody, Goto, Terminal, SoakTyped
  <1>2. SoakTyped' /\ Placed' /\ Audits'
    BY <1>1, QuietStep
  <1>3. ~passed'
    BY <1>0 DEF LeaveBody, Completing, Terminal
  <1>4. status' # "COMPLETED" /\ pc' = "cleanup" /\ capturing' = capturing
    BY DEF LeaveBody, Goto
  <1>5. capturing' => failed'
    BY <1>0, <1>4 DEF Completing
  <1>6. Completing'
    BY <1>3, <1>4, <1>5 DEF Completing, Terminal
  <1> QED
    BY <1>2, <1>3, <1>6 DEF SoakInv, PassedIsEarned

(* KeyboardInterrupt, and a request that fails.                            *)
LEMMA InterruptStep ==
    ASSUME SoakInv, Interrupt \/ RpcFails
    PROVE  SoakInv'
  <1>1. CASE Interrupt
    BY <1>1, LeaveStep DEF Interrupt, InBody, channelVars, runVars
  <1>2. CASE RpcFails
    BY <1>2, LeaveStep DEF RpcFails, CallsHost, Crashed, channelVars, Terminal
  <1> QED
    BY <1>1, <1>2

(* An iteration that succeeds leaves no capture that was not there before. *)
LEMMA IterationLeaves ==
    ASSUME capturing \in BOOLEAN, hostUp \in BOOLEAN, NEW s, NEW i \in Iteration(s)
    PROVE  i.left \in BOOLEAN /\ (i.ok /\ i.left => capturing)
  <1>1. CASE s \notin Capturing
    <2>1. i = [ok |-> hostUp, left |-> capturing] \/ i = [ok |-> FALSE, left |-> capturing]
      BY <1>1 DEF Iteration
    <2>2. i.left = capturing
      BY <2>1
    <2> QED
      BY <2>2
  <1>2. CASE s \in Capturing /\ capturing
    <2>1. i = [ok |-> FALSE, left |-> TRUE]
      BY <1>2 DEF Iteration
    <2> QED
      BY <2>1, <1>2
  <1>3. CASE s \in Capturing /\ ~capturing
    <2>1. \/ i = [ok |-> hostUp, left |-> FALSE] \/ i = [ok |-> FALSE, left |-> FALSE]
          \/ i = [ok |-> FALSE, left |-> TRUE]
      BY <1>3 DEF Iteration
    <2>2. i.left = FALSE \/ (i.left = TRUE /\ i.ok = FALSE)
      BY <2>1
    <2> QED
      BY <2>2
  <1> QED
    BY <1>1, <1>2, <1>3

(* The warm-up iterations.                                                 *)
LEMMA WarmupStep ==
    ASSUME SoakInv, Warmup
    PROVE  SoakInv'
  <1>0. SoakTyped /\ Completing
    BY DEF SoakInv
  <1>1. UNCHANGED <<chState, chQueue, chDropped, observed, reconnects, droppedSeen, audit,
                    episodes, hostUp, stopAsked>> /\ pc = "iterate0"
    BY DEF Warmup, channelVars
  <1>2. PICK i \in Iteration(Warming) :
          /\ capturing' = i.left
          /\ \/ i.ok /\ Drain("warmup") /\ UNCHANGED <<failed, resultVars>>
             \/ /\ ~i.ok /\ Goto("cleanup") /\ status' = "INTERNAL_ERROR" /\ failed' = TRUE
                /\ UNCHANGED <<passed, reportWritten>>
    BY DEF Warmup
  <1>3. i.left \in BOOLEAN /\ (i.ok /\ i.left => capturing)
    BY <1>0, IterationLeaves DEF SoakTyped
  <1>4. passed' = passed /\ ~passed
    BY <1>0, <1>1, <1>2 DEF resultVars, Completing
  <1>5. CASE i.ok /\ Drain("warmup") /\ UNCHANGED <<failed, resultVars>>
    <2>1. Quiet
      BY <1>0, <1>1, <1>2, <1>3, <1>4, <1>5 DEF Quiet, Drain, Terminal, SoakTyped, resultVars
    <2>2. capturing' => failed'
      BY <1>0, <1>2, <1>3, <1>5 DEF Completing
    <2>3. status # "COMPLETED" /\ status' = status /\ pc' = "drain"
      BY <1>0, <1>1, <1>5 DEF Completing, Terminal, resultVars, Drain
    <2> QED
      BY <2>1, <2>2, <2>3, <1>1, <1>4, GoOnStep DEF Terminal
  <1>6. CASE ~i.ok /\ Goto("cleanup") /\ status' = "INTERNAL_ERROR" /\ failed' = TRUE
    <2>1. Quiet
      BY <1>0, <1>1, <1>2, <1>3, <1>4, <1>6 DEF Quiet, Goto, Terminal, SoakTyped
    <2>2. Completing'
      BY <1>4, <1>6 DEF Completing, Goto, Terminal
    <2> QED
      BY <2>1, <2>2, <1>4, QuietStep DEF SoakInv, PassedIsEarned
  <1> QED
    BY <1>2, <1>5, <1>6

(* The checkpoints, the head of the loop and the way to the final drain.   *)
LEMMA LoopStep ==
    ASSUME SoakInv, Checkpoint \/ LoopHead \/ FinalStatus \/ FinalDrain
    PROVE  SoakInv'
  <1>0. SoakTyped /\ Completing
    BY DEF SoakInv
  <1>1. CASE Checkpoint
    <2>1. CASE Goto("head") /\ UNCHANGED <<runVars, resultVars, audit, capturing>>
      <3>1. pc \in {"checkpoint0", "tick"} /\ pc' = "head"
        BY <1>1, <2>1 DEF Checkpoint, Goto
      <3>2. Quiet
        BY <1>0, <1>1, <2>1, <3>1 DEF Quiet, Checkpoint, Goto, runVars, resultVars, channelVars,
                                      SoakTyped, Terminal
      <3>3. status' = status /\ status # "COMPLETED" /\ (capturing' => failed') /\ passed' = passed
        BY <1>0, <2>1, <3>1 DEF Completing, Terminal, resultVars, runVars
      <3> QED
        BY <3>1, <3>2, <3>3, GoOnStep DEF Terminal
    <2>2. CASE LeaveBody("RESOURCE_LIMIT") /\ UNCHANGED runVars
      BY <1>1, <2>2, LeaveStep DEF Checkpoint, runVars, channelVars, Terminal
    <2>3. CASE LeaveBody("INTERNAL_ERROR") /\ Crashed
      BY <1>1, <2>3, LeaveStep DEF Checkpoint, Crashed, channelVars, Terminal
    <2> QED
      BY <1>1, <2>1, <2>2, <2>3 DEF Checkpoint
  <1>2. CASE LoopHead
    <2>1. pc = "head" /\ UNCHANGED <<channelVars, runVars, capturing, hostUp, stopAsked, episodes>>
      BY <1>2 DEF LoopHead
    <2>2. status # "COMPLETED" /\ (capturing => failed)
      BY <1>0, <2>1 DEF Completing, Terminal
    <2>3. ASSUME NEW result, BreakWith(result) PROVE SoakInv'
      <3>1. pc' = (IF result = "COMPLETED" THEN "finalStatus" ELSE "finalDrain")
            /\ status' = result /\ states' = <<>> /\ goal' = goal /\ passed' = passed
            /\ audit' = audit
        BY <2>3 DEF BreakWith, Goto
      <3>2. Quiet
        BY <1>0, <2>1, <3>1 DEF Quiet, runVars, channelVars, SoakTyped, Terminal
      <3> QED
        BY <2>1, <2>2, <3>1, <3>2, GoOnStep DEF Terminal, runVars
    <2>4. CASE Drain("cycle") /\ UNCHANGED <<resultVars, audit>>
      <3>1. pc' = "drain" /\ goal' = "cycle" /\ states' = <<>> /\ UNCHANGED <<resultVars, audit>>
        BY <2>4 DEF Drain
      <3>2. Quiet
        BY <1>0, <2>1, <3>1 DEF Quiet, runVars, channelVars, resultVars, SoakTyped, Terminal
      <3> QED
        BY <2>1, <2>2, <3>1, <3>2, GoOnStep DEF Terminal, runVars, resultVars
    <2> QED
      BY <1>2, <2>3, <2>4 DEF LoopHead
  <1>3. CASE FinalStatus
    <2>1. pc = "finalStatus" /\ UNCHANGED <<channelVars, runVars, hostUp, stopAsked, episodes>>
      BY <1>3 DEF FinalStatus
    <2>2. CASE Goto("finalDrain") /\ UNCHANGED <<resultVars, audit, capturing>>
      <3>1. Quiet
        BY <1>0, <2>1, <2>2 DEF Quiet, Goto, runVars, channelVars, resultVars, SoakTyped, Terminal
      <3>2. pc' = "finalDrain" /\ passed' = passed /\ (capturing' => failed')
        BY <1>0, <2>1, <2>2 DEF Goto, resultVars, runVars, Completing
      <3> QED
        BY <2>1, <3>1, <3>2, GoOnStep DEF Terminal
    <2>3. CASE LeaveBody("CONNECTION_LIMIT")
      BY <2>1, <2>3, LeaveStep DEF runVars, channelVars, Terminal
    <2> QED
      BY <1>3, <2>2, <2>3 DEF FinalStatus
  <1>4. CASE FinalDrain
    <2>1. pc = "finalDrain" /\ states' = <<>>
          /\ UNCHANGED <<channelVars, runVars, resultVars, audit, capturing, hostUp, stopAsked,
                         episodes>>
      BY <1>4 DEF FinalDrain, Drain, Goto
    <2>2. (pc' = "drain" /\ goal' = "final") \/ (pc' = "decide" /\ goal' = goal /\ ~hostUp)
      BY <1>4 DEF FinalDrain, Drain, Goto
    <2>3. Quiet
      BY <1>0, <2>1, <2>2 DEF Quiet, runVars, channelVars, resultVars, SoakTyped, Terminal
    <2>4. passed' = passed /\ (capturing' => failed')
      BY <1>0, <2>1 DEF resultVars, runVars, Completing
    <2> QED
      BY <2>1, <2>2, <2>3, <2>4, GoOnStep DEF Terminal
  <1> QED
    BY <1>1, <1>2, <1>3, <1>4

(* A break out of the loop.                                                *)
LEMMA BreakStep ==
    ASSUME SoakInv, NEW result, result # "COMPLETED", BreakWith(result),
           pc \notin Terminal, pc # "drain", failed' \in {failed, TRUE},
           capturing' \in BOOLEAN, capturing' => failed',
           UNCHANGED <<chState, chQueue, chDropped, observed, reconnects, droppedSeen,
                       episodes, hostUp, stopAsked>>
    PROVE  SoakInv'
  <1>0. SoakTyped
    BY DEF SoakInv
  <1>1. pc' = "finalDrain" /\ status' = result /\ states' = <<>> /\ goal' = goal
        /\ passed' = passed /\ audit' = audit
    BY DEF BreakWith, Goto
  <1>2. Quiet
    BY <1>0, <1>1 DEF Quiet, SoakTyped, Terminal
  <1> QED
    BY <1>1, <1>2, GoOnStep DEF Terminal

(* The sample of the resources.                                            *)
LEMMA SampleStep ==
    ASSUME SoakInv, Sample
    PROVE  SoakInv'
  <1>0. SoakTyped /\ Completing
    BY DEF SoakInv
  <1>1. pc = "sample" /\ UNCHANGED <<chState, chQueue, chDropped, hostUp, stopAsked, episodes>>
    BY DEF Sample, channelVars
  <1>2. status # "COMPLETED" /\ (capturing => failed)
    BY <1>0, <1>1 DEF Completing, Terminal
  <1>3. CASE /\ Goto("iterate")
             /\ UNCHANGED <<observed, reconnects, failed, droppedSeen, resultVars, audit, capturing>>
    <2>1. pc' = "iterate" /\ states' = <<>> /\ goal' = goal
      BY <1>3 DEF Goto
    <2>2. Quiet
      BY <1>0, <1>1, <1>3, <2>1 DEF Quiet, SoakTyped, Terminal, resultVars
    <2> QED
      BY <1>1, <1>2, <1>3, <2>1, <2>2, GoOnStep DEF Terminal, resultVars
  <1>4. CASE BreakWith("RESOURCE_LIMIT") /\ UNCHANGED <<runVars, capturing>>
    BY <1>0, <1>1, <1>2, <1>4, BreakStep DEF Terminal, runVars, SoakTyped
  <1>5. CASE LeaveBody("INTERNAL_ERROR") /\ Crashed
    BY <1>1, <1>5, LeaveStep DEF Terminal, Crashed
  <1> QED
    BY <1>3, <1>4, <1>5 DEF Sample, runVars

(* A measured iteration.                                                   *)
LEMMA IterateStep ==
    ASSUME SoakInv, Iterate
    PROVE  SoakInv'
  <1>0. SoakTyped /\ Completing
    BY DEF SoakInv
  <1>1. /\ pc = "iterate"
        /\ UNCHANGED <<chState, chQueue, chDropped, observed, reconnects, droppedSeen,
                       episodes, hostUp, stopAsked>>
    BY DEF Iterate, channelVars
  <1>2. PICK i \in Iteration(cycle.next) :
          capturing' = i.left /\ IF i.ok THEN IterationSucceeds ELSE IterationFails
    BY DEF Iterate
  <1>3. capturing' \in BOOLEAN /\ (i.ok /\ capturing' => capturing)
    BY <1>0, <1>2, IterationLeaves DEF SoakTyped
  <1>4. status # "COMPLETED" /\ (capturing => failed)
    BY <1>0, <1>1 DEF Completing, Terminal
  <1>5. failed' \in {failed, TRUE} /\ (capturing' => failed')
    BY <1>2, <1>3, <1>4 DEF IterationSucceeds, IterationFails
  <1>6. CASE Goto("tick") /\ UNCHANGED <<resultVars, audit>>
    <2>1. pc' = "tick" /\ states' = <<>> /\ goal' = goal /\ status' = status
          /\ passed' = passed /\ audit' = audit
      BY <1>6 DEF Goto, resultVars
    <2>2. Quiet
      BY <1>0, <1>1, <1>3, <1>5, <2>1 DEF Quiet, SoakTyped, Terminal
    <2> QED
      BY <1>1, <1>4, <1>5, <2>1, <2>2, GoOnStep DEF Terminal
  <1>7. ASSUME NEW result \in {"WATCHDOG", "RESOURCE_LIMIT", "FAILURE_LIMIT"}, BreakWith(result)
        PROVE  SoakInv'
    BY <1>1, <1>3, <1>5, <1>7, BreakStep DEF Terminal
  <1>8. \/ Goto("tick") /\ UNCHANGED <<resultVars, audit>>
        \/ \E result \in {"WATCHDOG", "RESOURCE_LIMIT", "FAILURE_LIMIT"} : BreakWith(result)
    BY <1>2 DEF IterationSucceeds, IterationFails
  <1> QED
    BY <1>6, <1>7, <1>8

(* The last tests: only they let a run end as COMPLETED.                   *)
LEMMA DecideStep ==
    ASSUME SoakInv, Decide
    PROVE  SoakInv'
  <1>0. SoakTyped /\ Audits /\ Completing
    BY DEF SoakInv
  <1>1. pc = "decide" /\ UNCHANGED <<chState, chQueue, chDropped, hostUp, stopAsked, episodes>>
    BY DEF Decide, channelVars
  <1>2. ASSUME NEW result, result # "COMPLETED", LeaveBody(result), UNCHANGED runVars \/ Crashed
        PROVE  SoakInv'
    BY <1>1, <1>2, LeaveStep DEF Terminal, runVars, Crashed
  <1>3. CASE /\ status = "COMPLETED" /\ ~stopAsked /\ hostUp /\ LeaveBody(status)
             /\ UNCHANGED <<observed, reconnects, failed, droppedSeen>>
    <2>1. pc' = "cleanup" /\ states' = <<>> /\ goal' = goal /\ status' = "COMPLETED"
          /\ passed' = passed /\ audit' = audit /\ capturing' = capturing
      BY <1>3 DEF LeaveBody, Goto
    <2>2. Quiet
      BY <1>0, <1>1, <1>3, <2>1 DEF Quiet, SoakTyped, Terminal
    <2>3. goal = "final" /\ audit.host /\ ~audit.stop /\ ~passed /\ (capturing => failed)
      BY <1>0, <1>1, <1>3 DEF Completing, Audits
    <2>4. Completing'
      BY <2>1, <2>3, <1>3 DEF Completing, Terminal
    <2> QED
      BY <2>1, <2>2, <2>3, <2>4, QuietStep DEF SoakInv, PassedIsEarned
  <1>4. \/ status = "COMPLETED" /\ ~stopAsked /\ hostUp /\ LeaveBody(status)
             /\ UNCHANGED <<observed, reconnects, failed, droppedSeen>>
        \/ \E result \in {"RESOURCE_LIMIT", "INTERNAL_ERROR", "INTERRUPTED", "HOST_EXIT",
                          "CONNECTION_LIMIT"} :
              LeaveBody(result) /\ (UNCHANGED runVars \/ Crashed)
        \/ status # "COMPLETED" /\ LeaveBody(status) /\ UNCHANGED runVars
    BY DEF Decide
  <1> QED
    BY <1>2, <1>3, <1>4

(* The finally clause and the final checkpoint may only spoil the status.  *)
LEMMA CleanupStep ==
    ASSUME SoakInv, Cleanup \/ CheckpointFinal
    PROVE  SoakInv'
  <1>0. SoakTyped /\ Completing
    BY DEF SoakInv
  <1>1. /\ pc \in {"cleanup", "checkpointFinal"} /\ pc' \in {"checkpointFinal", "report"}
        /\ states' = <<>> /\ goal' = goal
        /\ status' = status \/ status' \in {"INTERNAL_ERROR", "EVIDENCE_WRITE"}
        /\ UNCHANGED <<chState, chQueue, chDropped, runVars, passed, audit, capturing, hostUp,
                       stopAsked, episodes>>
    BY DEF Cleanup, CheckpointFinal, Goto, channelVars
  <1>2. Quiet
    BY <1>0, <1>1 DEF Quiet, SoakTyped, Terminal, runVars
  <1>3. ~passed'
    BY <1>0, <1>1 DEF Completing
  <1>4. Completing'
    BY <1>0, <1>1, <1>3 DEF Completing, Terminal, runVars
  <1> QED
    BY <1>2, <1>3, <1>4, QuietStep DEF SoakInv, PassedIsEarned

(* The report: the verdict rests on the counter and on the last drain.     *)
LEMMA ReportStep ==
    ASSUME SoakInv, Report
    PROVE  SoakInv'
  <1>0. SoakTyped /\ Completing /\ Audits
    BY DEF SoakInv
  <1>1. /\ pc = "report" /\ pc' = "returned" /\ states' = <<>> /\ goal' = goal
        /\ UNCHANGED <<chState, chQueue, chDropped, runVars, audit, capturing, hostUp,
                       stopAsked, episodes>>
    BY DEF Report, Goto, channelVars
  <1>2. passed' \in BOOLEAN
        /\ (passed' => /\ reportWritten' = TRUE /\ status = "COMPLETED" /\ ~failed
                       /\ ~droppedSeen /\ reconnects <= AllowedReconnects)
    BY DEF Report
  <1>3. status' = "COMPLETED" => status = "COMPLETED"
    BY DEF Report
  <1>4. Quiet
    BY <1>0, <1>1, <1>2 DEF Quiet, SoakTyped, Terminal, runVars
  <1>5. Completing'
    BY <1>0, <1>1, <1>3 DEF Completing, Terminal, runVars
  <1>6. ASSUME passed'
        PROVE  /\ audit.episodes <= AllowedReconnects /\ ~audit.dropped
               /\ audit.host /\ ~audit.stop /\ goal = "final" /\ reportWritten' /\ ~capturing
    <2>1. goal = "final" /\ audit.host /\ ~audit.stop /\ ~capturing /\ reportWritten'
      BY <1>0, <1>1, <1>2, <1>6 DEF Completing, Terminal
    <2>2. ~audit.dropped
      BY <1>0, <1>2, <1>6 DEF Audits
    <2>3. reconnects >= audit.episodes /\ reconnects <= AllowedReconnects
      BY <2>2, <1>0, <1>2, <1>6 DEF Audits
    <2>4. AllowedReconnects \in Nat /\ reconnects \in Nat /\ audit.episodes \in Nat
      BY <1>0, SoakAssumption DEF SoakTyped
    <2>5. audit.episodes <= AllowedReconnects
      BY <2>3, <2>4
    <2> QED
      BY <2>1, <2>2, <2>5
  <1>7. PassedIsEarned'
    BY <1>1, <1>6 DEF PassedIsEarned
  <1> QED
    BY <1>4, <1>5, <1>7, QuietStep DEF SoakInv

----------------------------------------------------------------------------
(* Steps that look at the channel.                                         *)

(* get_status: its state replaces the observed one, and is counted.        *)
LEMMA LookStep ==
    ASSUME SoakInv, pc \in {"baseStatus", "snapshot"},
           pc' \in {"cleanup", "sample", "iterate0", "checkpoint0"},
           states' = <<>>, status' # "COMPLETED", observed' = chState,
           reconnects' = reconnects + Departures(observed, <<chState>>),
           UNCHANGED <<chState, chQueue, chDropped, goal, passed, failed, droppedSeen, capturing,
                       audit, episodes, hostUp, stopAsked>>
    PROVE  SoakInv'
  <1>0. SoakTyped /\ Placed /\ Audits /\ Completing
    BY DEF SoakInv
  <1>1. pc \notin Terminal /\ pc # "drain" /\ states = <<>>
    BY <1>0 DEF Terminal, Placed
  <1>2. Pending' = Pending
    BY <1>1 DEF Pending
  <1>3. chState \in ChannelStates /\ observed \in ChannelStates /\ reconnects \in Nat
        /\ episodes \in Nat /\ audit.episodes \in Nat /\ Pending \in Seq(ChannelStates)
        /\ <<>> \in Seq(ChannelStates)
    BY <1>0, EmptySeq, ConcatProperties DEF SoakTyped, Pending
  <1>4. Departures(observed, <<chState>>) \in Nat
    BY <1>3, FewDepartures
  <1>5. SoakTyped'
    BY <1>0, <1>3, <1>4 DEF SoakTyped
  <1>6. Placed'
    BY <1>0, <1>1 DEF Placed
  <1>7. Latest'
    BY <1>0, <1>1, <1>2 DEF Latest, Audits
  <1>8. ASSUME chDropped = 0 PROVE Covered'
    <2>1. Covered
      BY <1>8, <1>0, <1>1 DEF Audits
    <2>2. Departures(chState, Pending) + Departures(observed, <<chState>>)
             >= Departures(observed, Pending)
      BY <1>3, ReplacedDeparture
    <2>3. Departures(chState, Pending) \in Nat /\ Departures(observed, Pending) \in Nat
      BY <1>3, DeparturesAre
    <2>4. reconnects + Departures(observed, Pending) >= episodes
      BY <2>1 DEF Covered
    <2>5. reconnects + Departures(observed, <<chState>>) + Departures(chState, Pending)
             >= episodes
      BY <2>2, <2>3, <2>4, <1>3, <1>4
    <2> QED
      BY <2>5, <1>2 DEF Covered
  <1>9. ~audit.dropped => reconnects' >= audit.episodes
    BY <1>0, <1>3, <1>4 DEF Audits
  <1>10. Audits'
    BY <1>0, <1>7, <1>8, <1>9 DEF Audits
  <1>11. ~passed'
    BY <1>0, <1>1 DEF Completing, Terminal
  <1>12. Completing'
    BY <1>0, <1>11 DEF Completing
  <1> QED
    BY <1>5, <1>6, <1>10, <1>11, <1>12 DEF SoakInv, PassedIsEarned

(* The baseline's get_status and the snapshot of every cycle.              *)
LEMMA StatusStep ==
    ASSUME SoakInv, BaseStatus \/ Snapshot
    PROVE  SoakInv'
  <1>0. SoakTyped /\ Completing
    BY DEF SoakInv
  <1>1. pc \in {"baseStatus", "snapshot"} /\ pc \notin Terminal /\ status # "COMPLETED"
    BY <1>0 DEF BaseStatus, Snapshot, Completing, Terminal
  <1>2. CASE BaseStatus
    <2>1. CASE chState # "OPEN" /\ LeaveBody("CONNECTION_LIMIT") /\ UNCHANGED observed
      BY <1>1, <1>2, <2>1, LeaveStep DEF BaseStatus, channelVars
    <2>2. CASE /\ chState = "OPEN" /\ observed' = "OPEN"
               /\ Goto(IF cycle.warmups = 0 THEN "checkpoint0" ELSE "iterate0")
               /\ UNCHANGED <<resultVars, audit, capturing>>
      <3>1. observed \in ChannelStates /\ "OPEN" \in ChannelStates /\ reconnects \in Nat
        BY <1>0 DEF SoakTyped, ChannelStates
      <3>2. Departures(observed, <<"OPEN">>) = 0
        BY <3>1, FewDepartures
      <3>3. reconnects' = reconnects + Departures(observed, <<chState>>)
        BY <1>2, <2>2, <3>1, <3>2 DEF BaseStatus
      <3>4. pc' \in {"iterate0", "checkpoint0"} /\ states' = <<>> /\ goal' = goal
            /\ status' = status /\ passed' = passed
        BY <2>2 DEF Goto, resultVars
      <3>5. UNCHANGED <<chState, chQueue, chDropped, failed, droppedSeen, capturing, audit,
                        episodes, hostUp, stopAsked>>
        BY <1>2, <2>2 DEF BaseStatus, channelVars
      <3> QED
        BY <1>1, <2>2, <3>3, <3>4, <3>5, LookStep
    <2> QED
      BY <1>2, <2>1, <2>2 DEF BaseStatus
  <1>3. CASE Snapshot
    <2>1. /\ reconnects' = reconnects + Departures(observed, <<chState>>) /\ observed' = chState
          /\ UNCHANGED <<chState, chQueue, chDropped, failed, droppedSeen, episodes, hostUp,
                         stopAsked>>
      BY <1>3 DEF Snapshot, channelVars
    <2>2. LeaveBody("CONNECTION_LIMIT") \/
            (Goto("sample") /\ UNCHANGED <<resultVars, audit, capturing>>)
      BY <1>3 DEF Snapshot
    <2>3. pc' \in {"cleanup", "sample"} /\ states' = <<>> /\ goal' = goal
          /\ status' # "COMPLETED" /\ UNCHANGED <<passed, audit, capturing>>
      BY <1>1, <2>2 DEF LeaveBody, Goto, resultVars
    <2> QED
      BY <1>1, <2>1, <2>3, LookStep
  <1> QED
    BY <1>2, <1>3

(* One batch of a drain.                                                   *)
LEMMA TakeBatchStep ==
    ASSUME SoakInv, TakeBatch
    PROVE  SoakInv'
  <1> DEFINE n == IF Len(chQueue) < BatchSize THEN Len(chQueue) ELSE BatchSize
             seq == states \o Taken(n)
  <1>0. SoakTyped /\ Placed /\ Audits /\ Completing
    BY DEF SoakInv
  <1>1. pc = "drain" /\ hostUp /\ pc \notin Terminal /\ ~passed
    BY <1>0 DEF TakeBatch, Terminal, Completing
  <1>2. /\ chQueue' = SubSeq(chQueue, n + 1, Len(chQueue))
        /\ UNCHANGED <<chState, chDropped, goal, failed, passed, capturing, hostUp, stopAsked,
                       episodes>>
    BY DEF TakeBatch, TakeEvents
  <1>3. \/ /\ n = Len(chQueue) /\ Observe(seq) /\ states' = <<>>
        \/ /\ states' = seq /\ UNCHANGED <<pc, observed, reconnects, droppedSeen, status, audit>>
        \/ /\ states' = <<>> /\ pc' = "cleanup" /\ status' = "CONNECTION_LIMIT"
           /\ UNCHANGED <<observed, reconnects, droppedSeen, audit>>
    BY DEF TakeBatch
  <1>4. chState \in ChannelStates /\ chQueue \in Seq(ChannelStates) /\ chDropped \in Nat
        /\ states \in Seq(ChannelStates) /\ observed \in ChannelStates
        /\ reconnects \in Nat /\ episodes \in Nat /\ audit.episodes \in Nat
        /\ Len(chQueue) \in Nat /\ Pending \in Seq(ChannelStates)
        /\ <<>> \in Seq(ChannelStates) /\ goal \in {"baseline", "warmup", "cycle", "final"}
    BY <1>0, LenProperties, EmptySeq, ConcatProperties DEF SoakTyped, Pending
  <1>5. n \in 0..Len(chQueue) /\ n \in Nat
    BY <1>4, SoakAssumption
  <1> HIDE DEF n
  <1>6. Taken(n) \in Seq(ChannelStates) /\ chQueue' \in Seq(ChannelStates)
        /\ Taken(n) \o chQueue' = chQueue
    <2>1. \A i \in 1..Len(chQueue) : chQueue[i] \in ChannelStates
      BY <1>4, ElementOfSeq
    <2>2. \A i \in 1..n : chQueue[i] \in ChannelStates
      BY <2>1, <1>4, <1>5
    <2>3. \A i \in (n + 1)..Len(chQueue) : chQueue[i] \in ChannelStates
      BY <2>1, <1>4, <1>5
    <2>4. SubSeq(chQueue, 1, n) \in Seq(ChannelStates)
      BY <2>2, <1>5, SubSeqProperties
    <2>5. SubSeq(chQueue, n + 1, Len(chQueue)) \in Seq(ChannelStates)
      BY <2>3, <1>4, <1>5, SubSeqProperties
    <2>6. SubSeq(chQueue, 1, n) \o SubSeq(chQueue, n + 1, Len(chQueue))
             = SubSeq(chQueue, 1, Len(chQueue))
      <3>1. 1 \in 1..(Len(chQueue) + 1) /\ n \in (1 - 1)..Len(chQueue)
            /\ Len(chQueue) \in n..Len(chQueue)
        BY <1>4, <1>5
      <3> QED
        BY <3>1, <1>4, ConcatAdjacentSubSeq
    <2>7. SubSeq(chQueue, 1, Len(chQueue)) = chQueue
      BY <1>4, SubSeqFull
    <2> QED
      BY <2>4, <2>5, <2>6, <2>7, <1>2 DEF Taken
  <1>7. seq \in Seq(ChannelStates) /\ seq \o chQueue' = Pending
    <2>1. seq \in Seq(ChannelStates)
      BY <1>4, <1>6, ConcatProperties
    <2>2. (states \o Taken(n)) \o chQueue' = states \o (Taken(n) \o chQueue')
      <3> DEFINE t == Taken(n)
                 u == chQueue'
      <3>1. states \in Seq(ChannelStates) /\ t \in Seq(ChannelStates) /\ u \in Seq(ChannelStates)
        BY <1>4, <1>6
      <3> HIDE DEF t, u
      <3>2. (states \o t) \o u = states \o (t \o u)
        BY <3>1, ConcatAssociative
      <3> QED
        BY <3>2 DEF t, u
    <2> QED
      BY <2>1, <2>2, <1>6 DEF Pending
  <1> HIDE DEF seq
  <1>8. CASE states' = seq /\ UNCHANGED <<pc, observed, reconnects, droppedSeen, status, audit>>
    <2>1. Pending' = Pending
      BY <1>7, <1>8 DEF Pending
    <2>2. SoakTyped'
      BY <1>0, <1>2, <1>6, <1>7, <1>8 DEF SoakTyped
    <2>3. Placed'
      BY <1>0, <1>1, <1>2, <1>8 DEF Placed
    <2>4. Audits'
      BY <1>0, <1>2, <1>8, <2>1 DEF Audits, Latest, Covered
    <2>5. Completing'
      BY <1>0, <1>2, <1>8 DEF Completing
    <2> QED
      BY <2>2, <2>3, <2>4, <2>5, <1>1, <1>2 DEF SoakInv, PassedIsEarned
  <1>9. CASE /\ states' = <<>> /\ pc' = "cleanup" /\ status' = "CONNECTION_LIMIT"
             /\ UNCHANGED <<observed, reconnects, droppedSeen, audit>>
    <2>1. pc' \in Terminal
      BY <1>9 DEF Terminal
    <2>2. SoakTyped'
      BY <1>0, <1>2, <1>4, <1>6, <1>9 DEF SoakTyped
    <2>3. Placed'
      BY <1>0, <1>1, <1>2, <1>9, <2>1 DEF Placed
    <2>4. Audits'
      BY <1>0, <1>2, <1>9, <2>1 DEF Audits
    <2>5. Completing'
      BY <1>0, <1>1, <1>2, <1>9 DEF Completing
    <2> QED
      BY <2>2, <2>3, <2>4, <2>5, <1>1, <1>2 DEF SoakInv, PassedIsEarned
  <1>10. CASE n = Len(chQueue) /\ Observe(seq) /\ states' = <<>>
    <2>1. chQueue' = <<>> /\ seq = Pending
      <3>1. chQueue' = <<>>
        BY <1>2, <1>4, <1>10, SubSeqEmpty
      <3> QED
        BY <3>1, <1>7, ConcatEmptySeq
    <2>2. /\ audit'.episodes = episodes /\ audit'.dropped = (chDropped # 0)
          /\ audit'.stop = stopAsked /\ audit'.host = hostUp /\ audit'.armed = TRUE
          /\ droppedSeen' = (chDropped # 0)
      BY <1>10 DEF Observe, Audited
    <2>3. /\ reconnects' = (IF goal = "baseline" \/ chDropped # 0 THEN reconnects
                            ELSE reconnects + Departures(observed, seq))
          /\ observed' = (IF goal = "baseline" \/ chDropped # 0 THEN observed
                          ELSE Observed(observed, seq))
          /\ \/ pc' = "cleanup" /\ status' = "CONNECTION_LIMIT"
             \/ chDropped = 0 /\ pc' = AfterDrain /\ status' = status
      BY <1>10 DEF Observe
    <2>4. AfterDrain \in {"baseStatus", "checkpoint0", "iterate0", "snapshot", "decide"}
          /\ (goal = "final" <=> AfterDrain = "decide")
      BY <1>4 DEF AfterDrain
    <2>5. Departures(observed, seq) \in Nat
      BY <1>4, <1>7, DeparturesAre
    <2>6. Observed(observed, seq) \in ChannelStates
      <3>1. seq # <<>> => Len(seq) \in 1..Len(seq)
        BY <1>7, EmptySeq
      <3>2. seq # <<>> => seq[Len(seq)] \in ChannelStates
        BY <3>1, <1>7, ElementOfSeq
      <3> QED
        BY <3>2, <1>4 DEF Observed
    <2>7. reconnects' \in Nat /\ observed' \in ChannelStates
      BY <2>3, <2>5, <2>6, <1>4
    <2>8. SoakTyped'
      BY <1>0, <1>2, <1>4, <1>10, <2>1, <2>2, <2>7 DEF SoakTyped
    <2>9. Placed'
      BY <1>10, <2>2, <2>3, <2>4 DEF Placed
    <2>10. Pending' = <<>>
      <3>1. <<>> \o <<>> = <<>>
        BY <1>4, ConcatEmptySeq
      <3> QED
        BY <3>1, <1>10, <2>1 DEF Pending
    <2>11. goal = "baseline" => observed = "OPEN" /\ episodes = 0
      BY <1>0, <1>1 DEF Placed
    <2>12. Latest
      BY <1>0, <1>1 DEF Audits
    <2>13. ASSUME chDropped = 0 PROVE Latest'
      <3>1. chState = "OPEN" => observed' = "OPEN"
        BY <2>13, <2>1, <2>3, <2>11, <2>12 DEF Latest, Observed
      <3> QED
        BY <3>1, <2>10, <1>2 DEF Latest
    <2>14. ASSUME chDropped = 0 PROVE reconnects' >= episodes
      <3>1. Covered
        BY <2>14, <1>0, <1>1 DEF Audits
      <3>2. reconnects + Departures(observed, seq) >= episodes
        BY <3>1, <2>1 DEF Covered
      <3> QED
        BY <3>2, <2>3, <2>11, <2>14, <1>4
    <2>15. Departures(observed', <<>>) = 0
      BY <2>7, FewDepartures
    <2>16. ASSUME chDropped = 0 PROVE Covered'
      <3>1. reconnects' + 0 >= episodes
        BY <2>14, <2>16, <2>7
      <3> QED
        BY <3>1, <2>10, <2>15, <1>2 DEF Covered
    <2>17. pc' \notin Terminal => chDropped = 0
      BY <2>3 DEF Terminal
    <2>18. Audits'
      BY <1>2, <2>2, <2>13, <2>14, <2>16, <2>17 DEF Audits
    <2>19. Completing'
      BY <1>0, <1>1, <1>2, <2>3, <2>4 DEF Completing, Terminal
    <2> QED
      BY <2>8, <2>9, <2>18, <2>19, <1>1, <1>2 DEF SoakInv, PassedIsEarned
  <1> QED
    BY <1>3, <1>8, <1>9, <1>10

----------------------------------------------------------------------------
(* The environment.                                                        *)

(* record(): a state change of the channel is one more pending event.      *)
LEMMA ChannelStep ==
    ASSUME SoakInv, Channel
    PROVE  SoakInv'
  <1>0. SoakTyped /\ Placed /\ Audits /\ Completing /\ PassedIsEarned
    BY DEF SoakInv
  <1>1. UNCHANGED <<pc, goal, states, observed, reconnects, failed, droppedSeen, status, passed,
                    reportWritten, capturing, audit, hostUp, stopAsked>>
    BY DEF Channel, soakVars, runVars, resultVars
  <1>2. chState' = Successor[chState]
        /\ episodes' = (IF audit.armed /\ chState = "OPEN" THEN episodes + 1 ELSE episodes)
        /\ \/ /\ Len(chQueue) = QueueCapacity /\ chDropped' = chDropped + 1
              /\ chQueue' = Append(Tail(chQueue), chState')
           \/ chDropped' = chDropped /\ chQueue' = Append(chQueue, chState')
    BY DEF Channel, StateChange
  <1>3. chState \in ChannelStates /\ chQueue \in Seq(ChannelStates) /\ chDropped \in Nat
        /\ states \in Seq(ChannelStates) /\ observed \in ChannelStates
        /\ reconnects \in Nat /\ episodes \in Nat
        /\ Pending \in Seq(ChannelStates)
    BY <1>0, ConcatProperties DEF SoakTyped, Pending
  <1>4. chState' \in ChannelStates /\ (chState = "OPEN" => chState' # "OPEN")
    BY <1>2, <1>3 DEF Successor, ChannelStates
  <1>5. PICK rest \in Seq(ChannelStates) :
          /\ chQueue' = Append(rest, chState')
          /\ chDropped' = 0 => rest = chQueue /\ chDropped = 0
    <2>1. CASE Len(chQueue) = QueueCapacity /\ chDropped' = chDropped + 1
               /\ chQueue' = Append(Tail(chQueue), chState')
      <3>1. chQueue # <<>>
        BY <2>1, ChannelAssumption, EmptySeq
      <3>2. Tail(chQueue) \in Seq(ChannelStates)
        BY <3>1, <1>3, HeadTailProperties
      <3>3. chDropped' # 0
        BY <2>1, <1>3
      <3> QED
        BY <3>2, <3>3, <2>1
    <2>2. CASE chDropped' = chDropped /\ chQueue' = Append(chQueue, chState')
      BY <2>2, <1>3
    <2> QED
      BY <2>1, <2>2, <1>2
  <1>6. /\ chQueue' \in Seq(ChannelStates) /\ Pending' \in Seq(ChannelStates)
        /\ states \o rest \in Seq(ChannelStates)
        /\ Pending' = Append(states \o rest, chState')
    <2> DEFINE e == chState'
    <2>1. e \in ChannelStates /\ <<e>> \in Seq(ChannelStates)
      BY <1>4
    <2> HIDE DEF e
    <2>2. Append(rest, e) \in Seq(ChannelStates) /\ Append(rest, e) = rest \o <<e>>
      BY <2>1, AppendProperties, AppendIsConcat
    <2>3. states \o rest \in Seq(ChannelStates)
      BY <1>3, ConcatProperties
    <2>4. Append(states \o rest, e) = (states \o rest) \o <<e>>
          /\ Append(states \o rest, e) \in Seq(ChannelStates)
      BY <2>1, <2>3, AppendProperties, AppendIsConcat
    <2>5. (states \o rest) \o <<e>> = states \o (rest \o <<e>>)
      BY <1>3, <2>1, ConcatAssociative
    <2>6. Pending' = states \o Append(rest, e)
      BY <1>1, <1>5 DEF Pending, e
    <2> QED
      BY <2>2, <2>3, <2>4, <2>5, <2>6, <1>5 DEF e
  <1>7. Pending' # <<>> /\ Pending'[Len(Pending')] = chState'
    <2> DEFINE p == states \o rest
               e == chState'
    <2>1. p \in Seq(ChannelStates) /\ e \in ChannelStates
      BY <1>4, <1>6
    <2> HIDE DEF p, e
    <2>2. Append(p, e) # <<>> /\ Len(Append(p, e)) = Len(p) + 1 /\ Append(p, e)[Len(p) + 1] = e
      BY <2>1, AppendProperties
    <2> QED
      BY <2>2, <1>6 DEF p, e
  <1>8. Latest'
    BY <1>7 DEF Latest
  <1>9. ASSUME pc \notin Terminal, chDropped' = 0 PROVE Covered'
    <2>1. Pending' = Append(Pending, chState') /\ Covered /\ Latest
      BY <1>0, <1>5, <1>6, <1>9 DEF Pending, Audits
    <2>2. Departures(observed, Append(Pending, chState')) >=
             Departures(observed, Pending)
               + (IF Observed(observed, Pending) = "OPEN" /\ chState' # "OPEN" THEN 1 ELSE 0)
      BY <1>3, <1>4, AppendedDeparture
    <2>3. chState = "OPEN" => Observed(observed, Pending) = "OPEN" /\ chState' # "OPEN"
      BY <2>1, <1>4 DEF Latest, Observed
    <2>4. Departures(observed, Pending) \in Nat /\ Departures(observed, Pending') \in Nat
      BY <1>3, <1>6, DeparturesAre
    <2>5. reconnects + Departures(observed, Pending) >= episodes
      BY <2>1 DEF Covered
    <2>6. CASE chState = "OPEN"
      <3>1. Departures(observed, Pending') >= Departures(observed, Pending) + 1
        BY <2>1, <2>2, <2>3, <2>6
      <3>2. episodes' <= episodes + 1
        BY <1>2, <1>3
      <3>3. reconnects + Departures(observed, Pending') >= episodes'
        BY <3>1, <3>2, <2>4, <2>5, <1>2, <1>3
      <3> QED
        BY <3>3, <1>1 DEF Covered
    <2>7. CASE chState # "OPEN"
      <3>1. Departures(observed, Pending') >= Departures(observed, Pending)
        BY <2>1, <2>2, <2>4
      <3>2. reconnects + Departures(observed, Pending') >= episodes'
        BY <3>1, <2>4, <2>5, <2>7, <1>2, <1>3
      <3> QED
        BY <3>2, <1>1 DEF Covered
    <2> QED
      BY <2>6, <2>7
  <1>10. SoakTyped'
    <2>1. chDropped' \in Nat /\ episodes' \in Nat
      BY <1>2, <1>3
    <2> QED
      BY <2>1, <1>0, <1>1, <1>4, <1>6 DEF SoakTyped
  <1>11. Placed'
    BY <1>0, <1>1, <1>2 DEF Placed
  <1>12. Audits'
    BY <1>0, <1>1, <1>8, <1>9 DEF Audits
  <1>13. Completing' /\ PassedIsEarned'
    BY <1>0, <1>1 DEF Completing, PassedIsEarned
  <1> QED
    BY <1>10, <1>11, <1>12, <1>13 DEF SoakInv

(* The host may exit and a stop may be asked for, once.                    *)
LEMMA OnceStep ==
    ASSUME SoakInv, HostExit \/ StopRequested \/ UNCHANGED vars
    PROVE  SoakInv'
  <1>0. SoakTyped /\ Placed /\ Audits /\ Completing /\ PassedIsEarned
    BY DEF SoakInv
  <1>1. UNCHANGED <<chState, chQueue, chDropped, pc, goal, states, observed, reconnects, failed,
                    droppedSeen, status, passed, reportWritten, capturing, audit, episodes>>
    BY DEF HostExit, StopRequested, vars, channelVars, soakVars, runVars, resultVars
  <1>2. hostUp' \in BOOLEAN /\ stopAsked' \in BOOLEAN
        /\ (hostUp' => hostUp) /\ (stopAsked => stopAsked')
    <2>0. hostUp \in BOOLEAN /\ stopAsked \in BOOLEAN
      BY <1>0 DEF SoakTyped
    <2>1. CASE HostExit
      BY <2>0, <2>1 DEF HostExit
    <2>2. CASE StopRequested
      BY <2>0, <2>2 DEF StopRequested
    <2>3. CASE UNCHANGED vars
      <3>1. hostUp' = hostUp /\ stopAsked' = stopAsked
        BY <2>3 DEF vars
      <3> QED
        BY <2>0, <3>1
    <2> QED
      BY <2>1, <2>2, <2>3
  <1>3. Pending' = Pending
    BY <1>1 DEF Pending
  <1>4. SoakTyped' /\ Placed'
    BY <1>0, <1>1, <1>2 DEF SoakTyped, Placed
  <1>5. Audits'
    BY <1>0, <1>1, <1>2, <1>3 DEF Audits, Latest, Covered
  <1>6. Completing' /\ PassedIsEarned'
    BY <1>0, <1>1, <1>2 DEF Completing, PassedIsEarned
  <1> QED
    BY <1>4, <1>5, <1>6 DEF SoakInv

----------------------------------------------------------------------------
(* The run before its baseline.                                            *)
LEMMA SoakStarts == Init => SoakInv
  <1> SUFFICES ASSUME Init PROVE SoakInv
    OBVIOUS
  <1>1. /\ chState = "OPEN" /\ chQueue \in {<<>>, <<"OPENING", "OPEN">>} /\ chDropped = 0
        /\ pc = "drain" /\ goal = "baseline" /\ states = <<>> /\ observed = "OPEN"
        /\ reconnects = 0 /\ failed = FALSE /\ droppedSeen = FALSE
        /\ status = "INTERNAL_ERROR" /\ passed = FALSE /\ hostUp = TRUE /\ stopAsked = FALSE
        /\ capturing = FALSE /\ episodes = 0
        /\ audit = [episodes |-> 0, dropped |-> FALSE, stop |-> FALSE, host |-> TRUE,
                    armed |-> FALSE]
    BY DEF Init, ChannelInit
  <1>2. audit.episodes = 0 /\ audit.dropped = FALSE /\ audit.stop = FALSE /\ audit.host = TRUE
        /\ audit.armed = FALSE
    BY <1>1
  <1>3. chQueue \in Seq(ChannelStates) /\ <<>> \in Seq(ChannelStates)
        /\ (chQueue # <<>> => chQueue[Len(chQueue)] = "OPEN")
    <2>1. <<"OPENING", "OPEN">> \in Seq(ChannelStates) /\ Len(<<"OPENING", "OPEN">>) = 2
          /\ <<"OPENING", "OPEN">>[2] = "OPEN"
      BY DEF ChannelStates
    <2> QED
      BY <2>1, <1>1, EmptySeq
  <1>4. SoakTyped
    BY <1>1, <1>2, <1>3 DEF SoakTyped, ChannelStates
  <1>5. Placed /\ Completing /\ PassedIsEarned
    BY <1>1, <1>2 DEF Placed, Completing, PassedIsEarned
  <1>6. Pending = chQueue
    BY <1>1, <1>3, ConcatEmptySeq DEF Pending
  <1>7. Latest
    BY <1>1, <1>3, <1>6 DEF Latest
  <1>8. Departures(observed, Pending) \in Nat
    BY <1>3, <1>4, <1>6, DeparturesAre DEF SoakTyped
  <1>9. Covered
    BY <1>1, <1>8 DEF Covered
  <1>10. Audits
    <2>1. reconnects >= audit.episodes
      BY <1>1, <1>2
    <2>2. audit.dropped = droppedSeen /\ (audit.stop => stopAsked) /\ (hostUp => audit.host)
      BY <1>1, <1>2
    <2> QED
      BY <2>1, <2>2, <1>7, <1>9 DEF Audits
  <1> QED
    BY <1>4, <1>5, <1>10 DEF SoakInv

(* The inductive invariant of run_soak: what the counter holds and what the *)
(* pending events still tell cover every disconnection since the baseline. *)
THEOREM SoakInvariant == Spec => []SoakInv
  <1>1. SoakInv /\ [Next]_vars => SoakInv'
    <2> SUFFICES ASSUME SoakInv, [Next]_vars PROVE SoakInv'
      OBVIOUS
    <2>1. CASE Runner
      BY <2>1, InterruptStep, TakeBatchStep, StatusStep, WarmupStep, LoopStep, SampleStep,
         IterateStep, DecideStep, CleanupStep, ReportStep DEF Runner
    <2>2. CASE Channel
      BY <2>2, ChannelStep
    <2>3. CASE HostExit \/ StopRequested \/ Returned \/ UNCHANGED vars
      BY <2>3, OnceStep DEF Returned
    <2>4. CASE Interrupt
      BY <2>4, InterruptStep
    <2> QED
      BY <2>1, <2>2, <2>3, <2>4 DEF Next
  <1> QED
    BY <1>1, SoakStarts, PTL DEF Spec

(* Short disconnections are not missed: after every complete drain the     *)
(* reconnect counter of run_soak is at least the number of connections     *)
(* lost since the baseline, unless the event queue of the host overflowed. *)
THEOREM NoDisconnectionIsMissed == Spec => []NoEpisodeMissed
  <1>1. SoakInv => NoEpisodeMissed
    BY DEF SoakInv, Audits, NoEpisodeMissed
  <1> QED
    BY <1>1, SoakInvariant, PTL

(* A soak report that says passed rests on a final drain that found the    *)
(* host running, no stop request, no dropped event and no more lost        *)
(* connections than the profile allows; it is on disk, and no capture is   *)
(* left active.                                                            *)
THEOREM PassedSoakIsEarned == Spec => []PassedIsEarned
  <1>1. SoakInv => PassedIsEarned
    BY DEF SoakInv
  <1> QED
    BY <1>1, SoakInvariant, PTL

----------------------------------------------------------------------------
(* The evidence directory: _EvidenceWriter.                                *)

(* A checkpoint file, and the values of the writer's variables.            *)
File == [seq : Nat, digest : Nat, prev : Nat, size : Nat]

Rotation == {"anchorTemp", "anchorReplaced", "anchored", "unlinked", "counted", "rotated"}
Storing == {"checkpointTemp", "replaced", "written", "appended", "linked"}
Reporting == {"reportTemp", "reportReplaced"}

EvidenceTyped ==
    /\ disk \subseteq File /\ window \in Seq(File) /\ sequence \in Nat /\ previous \in Nat
    /\ writes \in Nat /\ anchor \in [removed : Nat, digest : Nat, next : Nat]
    /\ write.size \in Nat
    /\ incomplete \in BOOLEAN /\ final.complete \in BOOLEAN
    /\ phase \in {"body", "last", "report", "returned"}
    /\ evPc \in {"idle", "dead"} \cup Rotation \cup Storing \cup Reporting

(* Where the writer is in each phase of the run.                           *)
Phased ==
    /\ evPc \in Rotation \cup Storing => Checkpointing
    /\ evPc \in Reporting => phase = "report"
    /\ torn \subseteq {sequence} \/ ~Checkpointing
    /\ phase = "body" => torn = {}

(* There is one file of each number, and none beyond the next.             *)
Single ==
    /\ \A f, g \in disk : f.seq = g.seq => f = g
    /\ \A f \in disk : f.seq <= sequence
    /\ anchor.next <= sequence

(* What the directory holds verifies as a chain.                           *)
Chained ==
    /\ \A f \in Kept : \/ f.seq \in torn
                       \/ f.seq = anchor.next /\ f.prev = anchor.digest
                       \/ \E g \in Kept : g.seq + 1 = f.seq /\ g.digest = f.prev
    /\ \A f \in disk \ Kept : f.seq = anchor.removed /\ f.digest = anchor.digest
    /\ anchor # NoAnchor => \E f \in Kept : f.seq = anchor.next

(* The digest that the next checkpoint will name is that of the file       *)
(* before it.                                                              *)
Continues ==
    \/ sequence = anchor.next /\ previous = anchor.digest
    \/ sequence > anchor.next /\ \E g \in disk : g.seq + 1 = sequence /\ g.digest = previous
Continued == torn = {} /\ evPc \notin {"linked", "dead"} /\ Checkpointing => Continues

(* The file just remembered is the newest.                                 *)
Newest(d) == \E f \in disk : f.digest = d /\ \A g \in disk : g.seq <= f.seq
Remembered ==
    /\ evPc \in {"replaced", "written"} => \A f \in OnDisk(sequence) : f.prev = previous
    /\ evPc = "appended" => /\ Len(window) # 0 /\ window[Len(window)] \in disk
                            /\ window[Len(window)].seq = sequence
    /\ evPc = "linked" => \E f \in disk : f.seq = sequence /\ f.digest = previous
    /\ phase = "report" /\ ~incomplete => Newest(previous)
    /\ Checkpointing => ~final.complete
    /\ final.complete => Newest(final.tail)

(* While a rotation may still come, the window lists consecutive files,    *)
(* each linked to the one before it.  Its first may be unlinked already.   *)
MayRotate ==
    /\ evPc # "dead" /\ Checkpointing
    /\ phase = "last" => evPc \in {"idle", "checkpointTemp"} \cup Rotation
Removing ==
    /\ Len(window) = MaxCheckpoints /\ window[1].seq = anchor.removed
    /\ window[1].digest = anchor.digest /\ window[2].seq = anchor.next
Listed ==
    /\ Len(window) <= MaxCheckpoints
    /\ \A i \in 1..Len(window) : window[i].seq = window[1].seq + i - 1
    /\ \A i \in 2..Len(window) : window[i] \in disk /\ window[i].prev = window[i - 1].digest
Oldest ==
    /\ \A f \in disk : f.seq >= window[1].seq /\ (f.seq = window[1].seq => f = window[1])
    /\ window[Len(window)].seq <= sequence
    /\ anchor.next = window[1].seq \/ Removing
    /\ window[1] \notin disk => Removing
Located ==
    /\ Len(window) = 0 => anchor = NoAnchor /\ sequence = 0
    /\ evPc \in {"appended", "linked"} => Len(window) # 0
    /\ evPc \in Rotation \ {"rotated"} => Len(window) = MaxCheckpoints
    /\ evPc \in {"anchorReplaced", "anchored", "unlinked", "counted"} => Removing
    /\ evPc \in {"unlinked", "counted"} => window[1] \notin disk
    /\ evPc \in {"rotated", "checkpointTemp", "replaced", "written"} => Len(window) < MaxCheckpoints
Tip ==
    /\ evPc \in {"appended", "linked"} => window[Len(window)].seq = sequence
    /\ evPc = "linked" => window[Len(window)].digest = previous
    /\ evPc \notin {"appended", "linked"} =>
          window[Len(window)].seq + 1 = sequence /\ window[Len(window)].digest = previous
Windowed ==
    MayRotate => /\ Listed /\ Located
                 /\ Len(window) # 0 => Oldest
                 /\ phase = "body" /\ Len(window) # 0 => Tip

EvidenceInv ==
    EvidenceTyped /\ Phased /\ Single /\ Chained /\ Continued /\ Remembered /\ Windowed

(* The numbers of the invariant.                                           *)
LEMMA EvidenceNumbers ==
    ASSUME EvidenceInv
    PROVE  /\ MaxCheckpoints \in Nat /\ MaxCheckpoints >= 2 /\ Len(window) \in Nat
           /\ sequence \in Nat /\ anchor.next \in Nat
           /\ \A f \in disk : f \in File /\ f.seq \in Nat
           /\ \A i \in 1..Len(window) : window[i] \in File /\ window[i].seq \in Nat
  <1>1. EvidenceTyped
    BY DEF EvidenceInv
  <1>2. Len(window) \in Nat /\ MaxCheckpoints \in Nat /\ MaxCheckpoints >= 2
    BY <1>1, LenProperties, EvidenceAssumption DEF EvidenceTyped
  <1>3. \A i \in 1..Len(window) : window[i] \in File
    BY <1>1, ElementOfSeq DEF EvidenceTyped
  <1>4. \A f \in File : f.seq \in Nat
    BY DEF File
  <1> QED
    BY <1>1, <1>2, <1>3, <1>4 DEF EvidenceTyped

(* A full window: its first two files and what the anchor names.           *)
LEMMA FullWindow ==
    ASSUME EvidenceInv, MayRotate, Len(window) = MaxCheckpoints
    PROVE  /\ window[1] \in File /\ window[2] \in disk /\ window[2] \in File
           /\ window[1].seq \in Nat /\ window[2].seq \in Nat
           /\ window[2].seq = window[1].seq + 1 /\ window[2].prev = window[1].digest
           /\ anchor.next <= window[2].seq /\ window[2].seq <= sequence
           /\ \A f \in disk : ~(f.seq >= window[2].seq) => f = window[1]
  <1>1. Listed /\ Oldest
    <2>1. Len(window) # 0
      BY EvidenceNumbers
    <2> QED
      BY <2>1 DEF EvidenceInv, Windowed
  <1>2. /\ Len(window) >= 2 /\ 1 \in 1..Len(window) /\ 2 \in 2..Len(window)
        /\ 2 \in 1..Len(window) /\ Len(window) \in 1..Len(window) /\ Len(window) \in Nat
        /\ sequence \in Nat /\ anchor.next \in Nat
        /\ (\A f \in disk : f.seq \in Nat)
        /\ \A i \in 1..Len(window) : window[i] \in File /\ window[i].seq \in Nat
    BY EvidenceNumbers
  <1>3. /\ window[1] \in File /\ window[2] \in File /\ window[2] \in disk
        /\ window[2].prev = window[2 - 1].digest /\ 2 - 1 = 1
        /\ window[1].seq \in Nat /\ window[2].seq \in Nat
    BY <1>1, <1>2 DEF Listed
  <1>4. /\ window[2].seq = window[1].seq + 2 - 1
        /\ window[Len(window)].seq = window[1].seq + Len(window) - 1
    BY <1>1, <1>2 DEF Listed
  <1>5. anchor.next = window[1].seq \/ anchor.next = window[2].seq
    BY <1>1 DEF Oldest, Removing
  <1>6. window[Len(window)].seq <= sequence
    BY <1>1 DEF Oldest
  <1>7. anchor.next <= window[2].seq /\ window[2].seq <= sequence
        /\ window[2].seq = window[1].seq + 1
    BY <1>2, <1>3, <1>4, <1>5, <1>6
  <1>8. ASSUME NEW f \in disk, ~(f.seq >= window[2].seq) PROVE f = window[1]
    <2>1. f.seq >= window[1].seq /\ f.seq \in Nat
      BY <1>1, <1>2 DEF Oldest
    <2>2. f.seq = window[1].seq
      BY <2>1, <1>3, <1>7, <1>8
    <2> QED
      BY <2>2, <1>1 DEF Oldest
  <1> QED
    BY <1>3, <1>7, <1>8

(* Steps that change no file and nothing the writer remembers of them.     *)
LEMMA StillStep ==
    ASSUME EvidenceInv, UNCHANGED <<disk, anchor, window, sequence, previous, final>>,
           EvidenceTyped', Phased', torn \subseteq torn',
           evPc' \notin {"appended", "linked", "replaced"},
           evPc' = "written" => evPc = "replaced",
           Checkpointing' => Checkpointing /\ evPc # "dead",
           torn' = {} /\ Checkpointing' => evPc # "linked" \/ evPc' = "dead",
           phase' = "report" /\ ~incomplete' => phase = "report" /\ ~incomplete,
           MayRotate' => MayRotate /\ Located',
           MayRotate' /\ phase' = "body" => phase = "body" /\ evPc \notin {"appended", "linked"}
    PROVE  EvidenceInv'
  <1>0. Single /\ Chained /\ Continued /\ Remembered /\ Windowed
    BY DEF EvidenceInv
  <1>1. Single' /\ Kept' = Kept
    BY <1>0 DEF Single, Kept
  <1>2. Chained'
    BY <1>0, <1>1 DEF Chained
  <1>3. Continued'
    BY <1>0 DEF Continued, Continues
  <1>4. Remembered'
    <2>1. \A d : Newest(d)' <=> Newest(d)
      BY DEF Newest
    <2>2. evPc' \in {"replaced", "written"} => \A f \in OnDisk(sequence)' : f.prev = previous'
      BY <1>0 DEF Remembered, OnDisk
    <2>3. phase' = "report" /\ ~incomplete' => Newest(previous)'
      BY <1>0 DEF Remembered, Newest
    <2>4. final'.complete => Newest(final.tail)'
      BY <1>0 DEF Remembered, Newest
    <2>5. Checkpointing' => ~final'.complete
      BY <1>0 DEF Remembered
    <2> QED
      BY <2>2, <2>3, <2>4, <2>5 DEF Remembered
  <1>5. Windowed'
    <2> SUFFICES ASSUME MayRotate'
                 PROVE  /\ Listed' /\ Located' /\ (Len(window') # 0 => Oldest')
                        /\ phase' = "body" /\ Len(window') # 0 => Tip'
      BY DEF Windowed
    <2>1. Listed' /\ (Len(window') # 0 => Oldest')
      BY <1>0 DEF Windowed, Listed, Oldest, Removing
    <2>2. phase' = "body" /\ Len(window') # 0 => Tip'
      BY <1>0 DEF Windowed, Tip
    <2> QED
      BY <2>1, <2>2
  <1> QED
    BY <1>1, <1>2, <1>3, <1>4, <1>5 DEF EvidenceInv

(* Of these are the opening of a temporary file, the counting of bytes,    *)
(* failures, interrupts and deaths.                                        *)
LEMMA StillSteps ==
    ASSUME EvidenceInv,
           \/ OpenAnchor \/ OpenCheckpoint \/ OpenFinal \/ CountWrite \/ CountUnlink
           \/ CheckpointFails \/ EndBody \/ FinalFails \/ EvidenceInterrupted \/ Die
    PROVE  EvidenceInv'
  <1>0. EvidenceTyped /\ Phased /\ Windowed
    BY DEF EvidenceInv
  <1>f. UNCHANGED <<disk, anchor, window, sequence, previous, final, writes>>
    BY DEF OpenAnchor, OpenCheckpoint, OpenFinal, CountWrite, CountUnlink, CheckpointFails, EndBody,
           FinalFails, EvidenceInterrupted, Die, files, bookkeeping, counting
  <1>r. Removing' <=> Removing
    BY <1>f DEF Removing
  <1>n. Overhead \in Nat /\ Sizes \subseteq Nat /\ MaxCheckpoints \in Nat
    BY EvidenceAssumption
  <1> USE <1>f DEF outcome, history, counting
  <1>w. write'.size \in Nat
    <2>1. CASE OpenAnchor \/ OpenFinal
      BY <2>1, <1>n DEF OpenAnchor, OpenFinal, OpenTemporary
    <2>2. CASE OpenCheckpoint
      <3>1. PICK size \in Sizes : OpenTemporary(size, Size(OnDisk(sequence)), 0)
        BY <2>2 DEF OpenCheckpoint
      <3>2. write'.size = size
        BY <3>1 DEF OpenTemporary
      <3> QED
        BY <3>2, <1>n
    <2>3. CASE write' = write
      BY <2>3, <1>0 DEF EvidenceTyped
    <2> QED
      BY <2>1, <2>2, <2>3 DEF CountWrite, CountUnlink, CheckpointFails, EndBody, FinalFails,
           EvidenceInterrupted, Die
  <1>t. ASSUME incomplete' \in BOOLEAN, phase' \in {"body", "last", "report", "returned"},
               evPc' \in {"idle", "dead"} \cup Rotation \cup Storing \cup Reporting
        PROVE  EvidenceTyped'
    BY <1>0, <1>t, <1>w DEF EvidenceTyped
  <1> HIDE <1>f
  <1>1. CASE OpenAnchor
    <2>1. /\ evPc = "idle" /\ Checkpointing /\ evPc' = "anchorTemp"
          /\ UNCHANGED <<phase, incomplete, torn>> /\ Len(window) >= MaxCheckpoints
      BY <1>1 DEF OpenAnchor
    <2>2. MayRotate
      BY <2>1 DEF MayRotate, Checkpointing
    <2>3. Listed /\ Located
      BY <2>2, <1>0 DEF Windowed
    <2>4. Len(window) = MaxCheckpoints
      BY <2>1, <2>3, EvidenceNumbers DEF Listed
    <2>5. Located'
      BY <2>1, <2>3, <2>4, <1>f DEF Located, Rotation
    <2>6. Phased'
      BY <2>1, <1>0, <1>f DEF Phased, Checkpointing, Reporting
    <2>7. EvidenceTyped'
      BY <2>1, <1>0, <1>t DEF EvidenceTyped, Rotation
    <2> QED
      BY <2>1, <2>2, <2>5, <2>6, <2>7, <1>f, StillStep DEF Checkpointing
  <1>2. CASE OpenCheckpoint
    <2>1. /\ evPc = "rotated" \/ (evPc = "idle" /\ Len(window) < MaxCheckpoints)
          /\ Checkpointing /\ evPc' = "checkpointTemp"
          /\ UNCHANGED <<phase, incomplete, torn>>
      BY <1>2 DEF OpenCheckpoint
    <2>2. MayRotate
      BY <2>1 DEF MayRotate, Checkpointing, Rotation
    <2>3. Located
      BY <2>2, <1>0 DEF Windowed
    <2>4. Len(window) < MaxCheckpoints
      BY <2>1, <2>3 DEF Located
    <2>5. Located'
      BY <2>1, <2>3, <2>4, <1>f DEF Located, Rotation
    <2>6. Phased'
      BY <2>1, <1>0, <1>f DEF Phased, Checkpointing, Reporting
    <2>7. EvidenceTyped'
      BY <2>1, <1>0, <1>t DEF EvidenceTyped, Storing
    <2> QED
      BY <2>1, <2>2, <2>5, <2>6, <2>7, <1>f, StillStep DEF Checkpointing
  <1>3. CASE OpenFinal
    <2>1. evPc = "idle" /\ phase = "report" /\ evPc' = "reportTemp"
          /\ UNCHANGED <<phase, incomplete, torn>>
      BY <1>3 DEF OpenFinal
    <2>2. ~Checkpointing' /\ ~MayRotate'
      BY <2>1 DEF Checkpointing, MayRotate
    <2>6. Phased'
      BY <2>1, <2>2 DEF Phased, Rotation, Storing
    <2>7. EvidenceTyped'
      BY <2>1, <1>0, <1>t DEF EvidenceTyped, Reporting
    <2> QED
      BY <2>1, <2>2, <2>6, <2>7, <1>f, StillStep
  <1>4. CASE CountWrite
    <2>0. UNCHANGED <<incomplete, torn>>
      BY <1>4 DEF CountWrite
    <2>1. CASE evPc = "anchorReplaced" /\ evPc' = "anchored" /\ phase' = phase
      <3>1. Checkpointing /\ Checkpointing'
        BY <2>1, <1>0 DEF Phased, Rotation, Checkpointing
      <3>2. MayRotate
        BY <2>1, <3>1 DEF MayRotate, Rotation
      <3>3. Located
        BY <3>2, <1>0 DEF Windowed
      <3>4. Located'
        BY <2>1, <3>3, <1>r, <1>f DEF Located, Rotation
      <3>5. Phased'
        BY <2>0, <2>1, <3>1, <1>0, <1>f DEF Phased, Reporting
      <3>6. EvidenceTyped'
        BY <2>0, <2>1, <1>0, <1>t DEF EvidenceTyped, Rotation
      <3> QED
        BY <2>0, <2>1, <3>1, <3>2, <3>4, <3>5, <3>6, <1>f, StillStep
    <2>2. CASE evPc = "replaced" /\ evPc' = "written" /\ phase' = phase
      <3>1. Checkpointing /\ Checkpointing'
        BY <2>2, <1>0 DEF Phased, Storing, Checkpointing
      <3>2. MayRotate' => MayRotate
        BY <2>2, <3>1 DEF MayRotate, Rotation
      <3>3. MayRotate => Located
        BY <1>0 DEF Windowed
      <3>4. MayRotate => Located'
        BY <2>2, <3>3, <1>r, <1>f DEF Located, Rotation
      <3>5. Phased'
        BY <2>0, <2>2, <3>1, <1>0, <1>f DEF Phased, Reporting
      <3>6. EvidenceTyped'
        BY <2>0, <2>2, <1>0, <1>t DEF EvidenceTyped, Storing
      <3> QED
        BY <2>0, <2>2, <3>1, <3>2, <3>4, <3>5, <3>6, <1>f, StillStep
    <2>3. CASE evPc = "reportReplaced" /\ evPc' = "idle" /\ phase' = "returned"
      <3>1. ~Checkpointing' /\ ~MayRotate'
        BY <2>3 DEF Checkpointing, MayRotate
      <3>5. Phased'
        BY <2>3, <3>1 DEF Phased, Reporting, Rotation, Storing
      <3>6. EvidenceTyped'
        BY <2>0, <2>3, <1>0, <1>t DEF EvidenceTyped
      <3> QED
        BY <2>0, <2>3, <3>1, <3>5, <3>6, <1>f, StillStep
    <2> QED
      BY <1>4, <2>1, <2>2, <2>3 DEF CountWrite
  <1>5. CASE CountUnlink
    <2>1. evPc = "unlinked" /\ evPc' = "counted" /\ UNCHANGED <<phase, incomplete, torn>>
      BY <1>5 DEF CountUnlink
    <2>2. Checkpointing /\ Checkpointing'
      BY <2>1, <1>0 DEF Phased, Rotation, Checkpointing
    <2>3. MayRotate
      BY <2>1, <2>2 DEF MayRotate, Rotation
    <2>4. Located
      BY <2>3, <1>0 DEF Windowed
    <2>5. Located'
      BY <2>1, <2>4, <1>r, <1>f DEF Located, Rotation
    <2>6. Phased'
      BY <2>1, <2>2, <1>0, <1>f DEF Phased, Reporting
    <2>7. EvidenceTyped'
      BY <2>1, <1>0, <1>t DEF EvidenceTyped, Rotation
    <2> QED
      BY <2>1, <2>2, <2>3, <2>5, <2>6, <2>7, <1>f, StillStep
  <1>l. ASSUME Checkpointing, evPc # "dead", evPc' = "idle", phase = "body", phase' = "last"
        PROVE  MayRotate /\ Located'
    <2>1. MayRotate
      BY <1>l DEF MayRotate
    <2>2. Located
      BY <2>1, <1>0 DEF Windowed
    <2> QED
      BY <1>l, <2>1, <2>2, <1>f DEF Located, Rotation
  <1>6. CASE CheckpointFails
    <2>1. /\ evPc \notin {"dead", "linked", "appended"} /\ Checkpointing /\ evPc' = "idle"
          /\ UNCHANGED torn
          /\ \/ phase = "body" /\ phase' = "last" /\ UNCHANGED incomplete
             \/ phase' = "report" /\ incomplete' = TRUE
      BY <1>6 DEF CheckpointFails
    <2>2. MayRotate' => phase = "body" /\ phase' = "last"
      BY <2>1 DEF MayRotate, Checkpointing
    <2>6. Phased'
      BY <2>1, <1>0, <1>f DEF Phased, Checkpointing, Rotation, Storing, Reporting
    <2>7. EvidenceTyped'
      BY <2>1, <1>0, <1>t DEF EvidenceTyped
    <2> QED
      BY <2>1, <2>2, <2>6, <2>7, <1>f, <1>l, StillStep
  <1>7. CASE EndBody
    <2>1. evPc = "idle" /\ phase = "body" /\ phase' = "last"
          /\ UNCHANGED <<evPc, incomplete, torn>> /\ Checkpointing
      BY <1>7 DEF EndBody, Checkpointing
    <2>6. Phased'
      BY <2>1, <1>0, <1>f DEF Phased, Checkpointing, Rotation, Storing, Reporting
    <2>7. EvidenceTyped'
      BY <2>1, <1>0, <1>t DEF EvidenceTyped
    <2> QED
      BY <2>1, <2>6, <2>7, <1>f, <1>l, StillStep
  <1>8. CASE FinalFails
    <2>1. phase' = "returned" /\ incomplete' = TRUE /\ evPc' = "idle" /\ UNCHANGED torn
      BY <1>8 DEF FinalFails
    <2>2. ~Checkpointing' /\ ~MayRotate'
      BY <2>1 DEF Checkpointing, MayRotate
    <2>6. Phased'
      BY <2>1, <2>2 DEF Phased, Rotation, Storing, Reporting
    <2>7. EvidenceTyped'
      BY <2>1, <1>0, <1>t DEF EvidenceTyped
    <2> QED
      BY <2>1, <2>2, <2>6, <2>7, <1>f, StillStep
  <1>9. CASE EvidenceInterrupted
    <2>1. /\ evPc # "dead" /\ evPc' = "idle" /\ UNCHANGED incomplete
          /\ phase' = (IF phase = "body" THEN "last" ELSE "returned")
          /\ torn' = (IF evPc = "linked" THEN {sequence} ELSE torn)
      BY <1>9 DEF EvidenceInterrupted
    <2>2. Checkpointing' => phase = "body" /\ phase' = "last" /\ Checkpointing
      BY <2>1 DEF Checkpointing
    <2>3. MayRotate' => Checkpointing'
      BY DEF MayRotate
    <2>4. torn \subseteq torn'
      <3>1. evPc = "linked" => torn \subseteq {sequence}
        BY <1>0 DEF Phased, Storing
      <3> QED
        BY <3>1, <2>1
    <2>5. torn' = {} /\ Checkpointing' => evPc # "linked"
      BY <2>1
    <2>6. Phased'
      <3>1. torn' \subseteq {sequence'} \/ ~Checkpointing'
        BY <2>1, <2>2, <1>0, <1>f DEF Phased
      <3> QED
        BY <2>1, <3>1 DEF Phased, Rotation, Storing, Reporting
    <2>7. EvidenceTyped'
      BY <2>1, <1>0, <1>t DEF EvidenceTyped
    <2>8. phase' # "report" /\ phase' # "body"
      BY <2>1
    <2> QED
      BY <2>1, <2>2, <2>3, <2>4, <2>5, <2>6, <2>7, <2>8, <1>f, <1>l, StillStep
  <1>10. CASE Die
    <2>1. evPc # "dead" /\ evPc' = "dead" /\ UNCHANGED <<phase, incomplete, torn>>
      BY <1>10 DEF Die
    <2>2. ~MayRotate' /\ (Checkpointing' <=> Checkpointing)
      BY <2>1 DEF MayRotate, Checkpointing
    <2>6. Phased'
      BY <2>1, <2>2, <1>0, <1>f DEF Phased, Rotation, Storing, Reporting
    <2>7. EvidenceTyped'
      BY <2>1, <1>0, <1>t DEF EvidenceTyped
    <2> QED
      BY <2>1, <2>2, <2>6, <2>7, <1>f, StillStep
  <1> QED
    BY <1>1, <1>2, <1>3, <1>4, <1>5, <1>6, <1>7, <1>8, <1>9, <1>10

(* Rotation, first half: the anchor takes the digest of the oldest file.   *)
LEMMA ReplaceAnchorStep ==
    ASSUME EvidenceInv, ReplaceAnchor
    PROVE  EvidenceInv'
  <1>0. /\ EvidenceTyped /\ Phased /\ Single /\ Chained /\ Continued /\ Remembered /\ Windowed
    BY DEF EvidenceInv
  <1>1. /\ evPc = "anchorTemp" /\ evPc' = "anchorReplaced"
        /\ anchor' = [removed |-> window[1].seq, digest |-> window[1].digest,
                      next |-> window[2].seq]
        /\ UNCHANGED <<disk, final, window, previous, sequence, writes, write, phase, incomplete,
                       torn>>
    BY DEF ReplaceAnchor, bookkeeping, counting, outcome, history
  <1>2. Checkpointing /\ Checkpointing' /\ MayRotate
    BY <1>0, <1>1 DEF Phased, Rotation, Checkpointing, MayRotate
  <1>3. Listed /\ Located /\ Len(window) = MaxCheckpoints /\ Len(window) # 0
    BY <1>0, <1>1, <1>2, EvidenceNumbers DEF Windowed, Located, Rotation
  <1>4. Oldest
    BY <1>0, <1>2, <1>3 DEF Windowed
  <1>5. /\ window[1] \in File /\ window[2] \in disk /\ window[2] \in File
        /\ window[1].seq \in Nat /\ window[2].seq \in Nat
        /\ window[2].seq = window[1].seq + 1 /\ window[2].prev = window[1].digest
        /\ anchor.next <= window[2].seq /\ window[2].seq <= sequence
        /\ (\A f \in disk : ~(f.seq >= window[2].seq) => f = window[1])
    BY <1>2, <1>3, FullWindow
  <1>6. /\ sequence \in Nat /\ anchor.next \in Nat /\ (\A f \in disk : f.seq \in Nat)
    BY EvidenceNumbers
  <1>7. anchor'.next = window[2].seq /\ anchor'.digest = window[1].digest
        /\ anchor'.removed = window[1].seq /\ Kept' = {f \in disk : f.seq >= window[2].seq}
    BY <1>1 DEF Kept
  <1>8. EvidenceTyped'
    <2>1. anchor' \in [removed : Nat, digest : Nat, next : Nat]
      BY <1>1, <1>5 DEF File
    <2> QED
      BY <2>1, <1>0, <1>1 DEF EvidenceTyped, Rotation
  <1>9. Phased' /\ Single'
    BY <1>0, <1>1, <1>2, <1>5, <1>7 DEF Phased, Single, Reporting
  <1>10. Chained'
    <2>1. ASSUME NEW f \in Kept', f.seq \notin torn'
          PROVE  \/ f.seq = anchor'.next /\ f.prev = anchor'.digest
                 \/ \E g \in Kept' : g.seq + 1 = f.seq /\ g.digest = f.prev
      <3>1. f \in disk /\ f.seq >= window[2].seq /\ f.seq \in Nat
        BY <1>6, <1>7
      <3>2. CASE f.seq = window[2].seq
        <4>1. f = window[2]
          BY <3>1, <3>2, <1>0, <1>5 DEF Single
        <4> QED
          BY <4>1, <1>5, <1>7
      <3>3. CASE f.seq # window[2].seq
        <4>1. f.seq > window[2].seq /\ f.seq > anchor.next /\ f \in Kept
          BY <3>1, <3>3, <1>5, <1>6 DEF Kept
        <4>2. PICK g \in Kept : g.seq + 1 = f.seq /\ g.digest = f.prev
          BY <4>1, <2>1, <1>0, <1>1, <1>6 DEF Chained
        <4>3. g \in disk /\ g.seq \in Nat
          BY <1>6 DEF Kept
        <4>4. g.seq >= window[2].seq
          BY <4>1, <4>2, <4>3, <3>1, <1>5
        <4> QED
          BY <4>2, <4>3, <4>4, <1>7
      <3> QED
        BY <3>2, <3>3
    <2>2. \A f \in disk' \ Kept' : f.seq = anchor'.removed /\ f.digest = anchor'.digest
      BY <1>1, <1>5, <1>7
    <2>3. window[2] \in Kept' /\ window[2].seq = anchor'.next
      BY <1>5, <1>7
    <2> QED
      BY <2>1, <2>2, <2>3 DEF Chained
  <1>11. Continued'
    <2> SUFFICES ASSUME torn = {} PROVE Continues'
      BY <1>1 DEF Continued
    <2>1. Continues
      BY <1>0, <1>1, <1>2 DEF Continued
    <2>2. CASE sequence = window[2].seq
      <3>1. previous = window[1].digest
        <4>1. CASE sequence = anchor.next /\ previous = anchor.digest
          <5>1. anchor.next # window[1].seq
            BY <4>1, <2>2, <1>5
          <5> QED
            BY <4>1, <5>1, <1>4 DEF Oldest, Removing
        <4>2. CASE \E g \in disk : g.seq + 1 = sequence /\ g.digest = previous
          <5>1. PICK g \in disk : g.seq + 1 = sequence /\ g.digest = previous
            BY <4>2
          <5>2. ~(g.seq >= window[2].seq)
            BY <5>1, <2>2, <1>6
          <5>3. g = window[1]
            BY <5>2, <1>5
          <5> QED
            BY <5>1, <5>3
        <4> QED
          BY <4>1, <4>2, <2>1 DEF Continues
      <3> QED
        BY <3>1, <2>2, <1>1, <1>7 DEF Continues
    <2>3. CASE sequence # window[2].seq
      <3>1. sequence > window[2].seq /\ sequence # anchor.next
        BY <2>3, <1>5, <1>6
      <3> QED
        BY <3>1, <2>1, <1>1, <1>7 DEF Continues
    <2> QED
      BY <2>2, <2>3
  <1>12. Remembered'
    BY <1>0, <1>1, <1>2 DEF Remembered, Checkpointing
  <1>13. Windowed'
    <2>1. Removing'
      BY <1>1, <1>3, <1>7 DEF Removing
    <2>2. Listed' /\ Oldest'
      BY <2>1, <1>1, <1>3, <1>4 DEF Listed, Oldest
    <2>3. Located'
      BY <2>1, <1>1, <1>3 DEF Located
    <2>4. phase' = "body" => Tip'
      BY <1>0, <1>1, <1>2, <1>3 DEF Windowed, Tip
    <2> QED
      BY <2>2, <2>3, <2>4 DEF Windowed
  <1> QED
    BY <1>8, <1>9, <1>10, <1>11, <1>12, <1>13 DEF EvidenceInv

(* Rotation, second half: the file the anchor names is unlinked.           *)
LEMMA UnlinkStep ==
    ASSUME EvidenceInv, Unlink
    PROVE  EvidenceInv'
  <1>0. /\ EvidenceTyped /\ Phased /\ Single /\ Chained /\ Continued /\ Remembered /\ Windowed
    BY DEF EvidenceInv
  <1>1. /\ evPc = "anchored" /\ evPc' = "unlinked" /\ window[1] \in disk
        /\ disk' = disk \ {window[1]}
        /\ UNCHANGED <<anchor, final, window, previous, sequence, writes, write, phase, incomplete,
                       torn>>
    BY DEF Unlink, bookkeeping, counting, outcome, history
  <1>2. Checkpointing /\ Checkpointing' /\ MayRotate
    BY <1>0, <1>1 DEF Phased, Rotation, Checkpointing, MayRotate
  <1>3. Listed /\ Located /\ Removing /\ Len(window) = MaxCheckpoints /\ Len(window) # 0
    BY <1>0, <1>1, <1>2, EvidenceNumbers DEF Windowed, Located, Rotation
  <1>4. Oldest
    BY <1>0, <1>2, <1>3 DEF Windowed
  <1>5. /\ window[1].seq \in Nat /\ window[2].seq \in Nat /\ window[2].seq = window[1].seq + 1
        /\ anchor.next = window[2].seq
    BY <1>2, <1>3, FullWindow DEF Removing
  <1>6. sequence \in Nat /\ (\A f \in disk : f.seq \in Nat) /\ Len(window) \in Nat
        /\ Len(window) >= 2
    BY <1>3, EvidenceNumbers
  <1>7. Kept' = Kept /\ ~(window[1].seq >= anchor.next)
    <2>1. ~(window[1].seq >= anchor.next)
      BY <1>5
    <2> QED
      BY <2>1, <1>1 DEF Kept
  <1>8. EvidenceTyped' /\ Phased' /\ Single'
    BY <1>0, <1>1, <1>2 DEF EvidenceTyped, Phased, Single, Rotation, Reporting
  <1>9. Chained'
    BY <1>0, <1>1, <1>7 DEF Chained
  <1>10. Continued'
    <2> SUFFICES ASSUME torn = {} PROVE Continues'
      BY <1>1 DEF Continued
    <2>1. Continues
      BY <1>0, <1>1, <1>2 DEF Continued
    <2>2. CASE sequence > anchor.next /\ \E g \in disk : g.seq + 1 = sequence /\ g.digest = previous
      <3>1. PICK g \in disk : g.seq + 1 = sequence /\ g.digest = previous
        BY <2>2
      <3>2. g # window[1]
        BY <2>2, <3>1, <1>5, <1>6
      <3> QED
        BY <2>2, <3>1, <3>2, <1>1 DEF Continues
    <2> QED
      BY <2>1, <2>2, <1>1 DEF Continues
  <1>11. Remembered'
    BY <1>0, <1>1, <1>2 DEF Remembered, Checkpointing
  <1>12. Windowed'
    <2>1. Removing'
      BY <1>1, <1>3 DEF Removing
    <2>2. Listed'
      <3>1. ASSUME NEW i \in 2..Len(window) PROVE window[i] \in disk'
        <4>1. window[i] \in disk /\ window[i].seq = window[1].seq + i - 1
          BY <1>3, <1>6 DEF Listed
        <4>2. window[i].seq # window[1].seq
          BY <4>1, <1>5, <1>6
        <4> QED
          BY <4>1, <4>2, <1>1
      <3> QED
        BY <3>1, <1>1, <1>3 DEF Listed
    <2>3. Oldest'
      BY <2>1, <1>1, <1>4 DEF Oldest
    <2>4. Located'
      BY <2>1, <1>1, <1>3 DEF Located
    <2>5. phase' = "body" => Tip'
      BY <1>0, <1>1, <1>2, <1>3 DEF Windowed, Tip
    <2> QED
      BY <2>2, <2>3, <2>4, <2>5 DEF Windowed
  <1> QED
    BY <1>8, <1>9, <1>10, <1>11, <1>12 DEF EvidenceInv

(* The window forgets the file that is gone.                               *)
LEMMA PopLeftStep ==
    ASSUME EvidenceInv, PopLeft
    PROVE  EvidenceInv'
  <1>0. /\ EvidenceTyped /\ Phased /\ Single /\ Chained /\ Continued /\ Remembered /\ Windowed
    BY DEF EvidenceInv
  <1>1. /\ evPc = "counted" /\ evPc' = "rotated" /\ window' = Tail(window)
        /\ UNCHANGED <<disk, anchor, final, previous, sequence, writes, write, phase, incomplete,
                       torn>>
    BY DEF PopLeft, files, counting, outcome, history
  <1>2. Checkpointing /\ Checkpointing' /\ MayRotate
    BY <1>0, <1>1 DEF Phased, Rotation, Checkpointing, MayRotate
  <1> DEFINE n == Len(window)
  <1>3. Listed /\ Located /\ Removing /\ window[1] \notin disk /\ n = MaxCheckpoints /\ n # 0
    BY <1>0, <1>1, <1>2, EvidenceNumbers DEF Windowed, Located, Rotation
  <1>4. Oldest
    BY <1>0, <1>2, <1>3 DEF Windowed
  <1>5. /\ window[1].seq \in Nat /\ window[2].seq \in Nat /\ window[2].seq = window[1].seq + 1
        /\ window[2] \in disk /\ anchor.next = window[2].seq
        /\ (\A f \in disk : ~(f.seq >= window[2].seq) => f = window[1])
    BY <1>2, <1>3, FullWindow DEF Removing
  <1>6. n \in Nat /\ n >= 2
    BY <1>3, EvidenceNumbers
  <1>7. window' \in Seq(File) /\ Len(window') = n - 1
        /\ \A i \in 1..(n - 1) : window'[i] = window[i + 1]
    <2>1. window # <<>> /\ window \in Seq(File)
      BY <1>0, <1>3, EmptySeq DEF EvidenceTyped
    <2> QED
      BY <2>1, <1>1, HeadTailProperties
  <1>l. /\ \A i \in 1..n : window[i].seq = window[1].seq + i - 1
        /\ \A i \in 2..n : window[i] \in disk /\ window[i].prev = window[i - 1].digest
    BY <1>3 DEF Listed
  <1> HIDE DEF n
  <1>8. EvidenceTyped'
    BY <1>0, <1>1, <1>7 DEF EvidenceTyped, Rotation
  <1>9. Phased' /\ Single' /\ Kept' = Kept
    BY <1>0, <1>1, <1>2 DEF Phased, Single, Kept, Reporting
  <1>10. Chained' /\ Continued'
    BY <1>0, <1>1, <1>2, <1>9 DEF Chained, Continued, Continues
  <1>11. Remembered'
    BY <1>0, <1>1, <1>2 DEF Remembered, Checkpointing
  <1>12. Windowed'
    <2>1. window'[1] = window[2] /\ window'[Len(window')] = window[n] /\ Len(window') # 0
          /\ Len(window') \in Nat
      <3>1. 1 \in 1..(n - 1) /\ n - 1 \in 1..(n - 1) /\ (n - 1) + 1 = n /\ 1 + 1 = 2
        BY <1>6
      <3> QED
        BY <3>1, <1>6, <1>7
    <2>2. Listed'
      <3>1. ASSUME NEW i \in 1..(n - 1) PROVE window'[i].seq = window'[1].seq + i - 1
        <4>1. window'[i] = window[i + 1] /\ i + 1 \in 1..n
          BY <1>6, <1>7
        <4>2. window[i + 1].seq = window[1].seq + (i + 1) - 1
          BY <4>1, <1>l
        <4> QED
          BY <4>1, <4>2, <2>1, <1>5, <1>6
      <3>2. ASSUME NEW i \in 2..(n - 1)
            PROVE  window'[i] \in disk' /\ window'[i].prev = window'[i - 1].digest
        <4>1. i \in 1..(n - 1) /\ i - 1 \in 1..(n - 1) /\ i + 1 \in 2..n /\ (i - 1) + 1 = i
              /\ (i + 1) - 1 = i
          BY <1>6
        <4>2. window'[i] = window[i + 1] /\ window'[i - 1] = window[i]
          BY <4>1, <1>7
        <4>3. window[i + 1] \in disk /\ window[i + 1].prev = window[i].digest
          BY <4>1, <1>l
        <4> QED
          BY <4>2, <4>3, <1>1
      <3>3. Len(window') <= MaxCheckpoints
        BY <1>3, <1>6, <1>7
      <3> QED
        BY <3>1, <3>2, <3>3, <1>7 DEF Listed
    <2>3. Oldest'
      <3>1. ASSUME NEW f \in disk
            PROVE  f.seq >= window[2].seq /\ (f.seq = window[2].seq => f = window[2])
        BY <1>0, <1>3, <1>5 DEF Single
      <3>2. window[n].seq <= sequence
        BY <1>4 DEF Oldest, n
      <3> QED
        BY <3>1, <3>2, <2>1, <1>1, <1>5 DEF Oldest
    <2>4. Located'
      <3>1. Len(window') < MaxCheckpoints
        BY <1>3, <1>6, <1>7
      <3> QED
        BY <3>1, <2>1, <1>1 DEF Located, Rotation
    <2>5. phase' = "body" => Tip'
      BY <2>1, <1>0, <1>1, <1>2, <1>3 DEF Windowed, Tip, n
    <2> QED
      BY <2>2, <2>3, <2>4, <2>5 DEF Windowed
  <1> QED
    BY <1>8, <1>9, <1>10, <1>11, <1>12 DEF EvidenceInv

(* The checkpoint file: a new one, or the same number written again.       *)
LEMMA ReplaceCheckpointStep ==
    ASSUME EvidenceInv, ReplaceCheckpoint
    PROVE  EvidenceInv'
  <1>0. /\ EvidenceTyped /\ Phased /\ Single /\ Chained /\ Continued /\ Remembered /\ Windowed
    BY DEF EvidenceInv
  <1> DEFINE new == [seq |-> sequence, digest |-> writes + 1, prev |-> previous,
                     size |-> write.size]
  <1>1. /\ evPc = "checkpointTemp" /\ evPc' = "replaced" /\ writes' = writes + 1
        /\ disk' = {f \in disk : f.seq # sequence} \cup {new}
        /\ UNCHANGED <<anchor, final, window, previous, sequence, write, phase, incomplete, torn>>
    BY DEF ReplaceCheckpoint, OnDisk, bookkeeping, outcome, history
  <1>2. Checkpointing /\ Checkpointing' /\ MayRotate
    BY <1>0, <1>1 DEF Phased, Storing, Checkpointing, MayRotate
  <1>3. new \in File /\ new.seq = sequence /\ new.prev = previous
    BY <1>0 DEF EvidenceTyped, File
  <1> HIDE DEF new
  <1>4. /\ MaxCheckpoints \in Nat /\ Len(window) \in Nat /\ sequence \in Nat /\ anchor.next \in Nat
        /\ (\A f \in disk : f.seq \in Nat)
        /\ (\A i \in 1..Len(window) : window[i].seq \in Nat)
    BY EvidenceNumbers
  <1>5. EvidenceTyped'
    <2>1. disk' \subseteq File /\ writes' \in Nat
      BY <1>0, <1>1, <1>3 DEF EvidenceTyped
    <2> QED
      BY <2>1, <1>0, <1>1 DEF EvidenceTyped, Storing
  <1>6. Phased'
    BY <1>0, <1>1, <1>2 DEF Phased, Reporting
  <1>7. Single'
    BY <1>0, <1>1, <1>3, <1>4 DEF Single
  <1>8. Continued'
    <2> SUFFICES ASSUME torn = {} PROVE Continues'
      BY <1>1 DEF Continued
    <2>1. Continues
      BY <1>0, <1>1, <1>2 DEF Continued
    <2>2. CASE sequence > anchor.next /\ \E g \in disk : g.seq + 1 = sequence /\ g.digest = previous
      <3>1. PICK g \in disk : g.seq + 1 = sequence /\ g.digest = previous
        BY <2>2
      <3>2. g \in disk'
        BY <3>1, <1>1, <1>4
      <3> QED
        BY <2>2, <3>1, <3>2, <1>1 DEF Continues
    <2> QED
      BY <2>1, <2>2, <1>1 DEF Continues
  <1>9. Chained'
    <2>k. Kept' = {f \in disk' : f.seq >= anchor.next}
      BY <1>1 DEF Kept
    <2>1. ASSUME NEW f \in Kept', f.seq \notin torn'
          PROVE  \/ f.seq = anchor'.next /\ f.prev = anchor'.digest
                 \/ \E g \in Kept' : g.seq + 1 = f.seq /\ g.digest = f.prev
      <3>1. CASE f = new
        <4>1. torn = {}
          BY <3>1, <2>1, <1>0, <1>1, <1>2, <1>3 DEF Phased
        <4>2. Continues'
          BY <4>1, <1>1, <1>2, <1>8 DEF Continued
        <4>3. CASE sequence = anchor.next /\ previous = anchor.digest
          BY <4>3, <3>1, <1>1, <1>3
        <4>4. CASE sequence > anchor.next
                   /\ \E g \in disk' : g.seq + 1 = sequence /\ g.digest = previous
          <5>1. PICK g \in disk' : g.seq + 1 = sequence /\ g.digest = previous
            BY <4>4
          <5>2. g.seq \in Nat
            BY <1>1, <1>3, <1>4
          <5>3. g.seq >= anchor.next
            BY <4>4, <5>1, <5>2, <1>4
          <5> QED
            BY <5>1, <5>3, <3>1, <2>k, <1>3
        <4> QED
          BY <4>2, <4>3, <4>4, <1>1 DEF Continues
      <3>2. CASE f # new
        <4>1. f \in disk /\ f.seq # sequence /\ f \in Kept /\ f.seq \in Nat
          BY <3>2, <2>k, <1>1, <1>4 DEF Kept
        <4>2. CASE f.seq = anchor.next /\ f.prev = anchor.digest
          BY <4>2, <1>1
        <4>3. CASE \E g \in Kept : g.seq + 1 = f.seq /\ g.digest = f.prev
          <5>1. PICK g \in Kept : g.seq + 1 = f.seq /\ g.digest = f.prev
            BY <4>3
          <5>2. g \in disk /\ g.seq \in Nat /\ g.seq >= anchor.next /\ f.seq <= sequence
            BY <4>1, <1>0, <1>4 DEF Kept, Single
          <5>3. g.seq # sequence
            BY <5>1, <5>2, <4>1, <1>4
          <5>4. g \in Kept'
            BY <5>2, <5>3, <2>k, <1>1
          <5> QED
            BY <5>1, <5>4
        <4> QED
          BY <4>1, <4>2, <4>3, <2>1, <1>0, <1>1 DEF Chained
      <3> QED
        BY <3>1, <3>2
    <2>2. ASSUME NEW f \in disk' \ Kept'
          PROVE  f.seq = anchor'.removed /\ f.digest = anchor'.digest
      <3>1. sequence >= anchor.next
        BY <1>0, <1>4 DEF Single
      <3>2. f # new /\ f \in disk /\ f \notin Kept
        BY <3>1, <2>k, <1>1, <1>3 DEF Kept
      <3> QED
        BY <3>2, <1>0, <1>1 DEF Chained
    <2>3. ASSUME anchor' # NoAnchor PROVE \E f \in Kept' : f.seq = anchor'.next
      <3>1. PICK f \in Kept : f.seq = anchor.next
        BY <2>3, <1>0, <1>1 DEF Chained
      <3>2. CASE f.seq = sequence
        <4>1. new.seq = anchor.next /\ new.seq >= anchor.next
          BY <3>1, <3>2, <1>3, <1>4
        <4>2. new \in disk'
          BY <1>1
        <4> QED
          BY <4>1, <4>2, <2>k, <1>1
      <3>3. CASE f.seq # sequence
        <4>1. f \in Kept'
          BY <3>3, <2>k, <1>1 DEF Kept
        <4> QED
          BY <4>1, <3>1, <1>1
      <3> QED
        BY <3>2, <3>3
    <2> QED
      BY <2>1, <2>2, <2>3 DEF Chained
  <1>10. Remembered'
    <2>1. \A f \in OnDisk(sequence)' : f.prev = previous'
      BY <1>1, <1>3 DEF OnDisk
    <2>2. ~final'.complete
      BY <1>0, <1>1, <1>2 DEF Remembered
    <2> QED
      BY <2>1, <2>2, <1>1, <1>2 DEF Remembered, Checkpointing
  <1>11. Windowed'
    <2> SUFFICES ASSUME MayRotate'
                 PROVE  /\ Listed' /\ Located' /\ (Len(window') # 0 => Oldest')
                        /\ phase' = "body" /\ Len(window') # 0 => Tip'
      BY DEF Windowed
    <2>1. phase = "body"
      BY <1>1, <1>2 DEF MayRotate, Checkpointing, Rotation
    <2>2. Listed /\ Located /\ Len(window) < MaxCheckpoints
      BY <1>0, <1>1, <1>2 DEF Windowed, Located
    <2>3. Len(window) # 0 => Oldest /\ Tip
      BY <2>1, <1>0, <1>2 DEF Windowed
    <2>4. ASSUME NEW i \in 1..Len(window)
          PROVE  window[i].seq < sequence /\ (window[i] \in disk => window[i] \in disk')
      <3>1. Len(window) # 0 /\ 1 \in 1..Len(window) /\ Len(window) \in 1..Len(window)
        BY <1>4
      <3>2. window[i].seq = window[1].seq + i - 1
            /\ window[Len(window)].seq = window[1].seq + Len(window) - 1
        BY <3>1, <2>2 DEF Listed
      <3>3. window[Len(window)].seq + 1 = sequence
        BY <3>1, <2>3, <1>1 DEF Tip
      <3>4. window[i].seq < sequence /\ window[i].seq \in Nat
        BY <3>1, <3>2, <3>3, <1>4
      <3> QED
        BY <3>4, <1>1, <1>4
    <2>5. Listed'
      <3>1. \A i \in 2..Len(window) : i \in 1..Len(window)
        BY <1>4
      <3> QED
        BY <3>1, <2>2, <2>4, <1>1 DEF Listed
    <2>6. Located'
      BY <2>2, <1>1 DEF Located, Rotation
    <2>7. ASSUME Len(window) # 0 PROVE Oldest' /\ Tip'
      <3>1. 1 \in 1..Len(window)
        BY <2>7, <1>4
      <3>2. /\ window[1].seq < sequence /\ (window[1] \in disk => window[1] \in disk')
            /\ window[1].seq \in Nat
        BY <3>1, <2>4, <1>4
      <3>3. ~Removing
        BY <2>2, <1>4 DEF Removing
      <3>4. \A f \in disk' : f.seq >= window[1].seq /\ (f.seq = window[1].seq => f = window[1])
        BY <3>2, <2>3, <2>7, <1>1, <1>3, <1>4 DEF Oldest
      <3> QED
        BY <3>2, <3>3, <3>4, <2>3, <2>7, <1>1 DEF Oldest, Tip
    <2> QED
      BY <2>5, <2>6, <2>7, <1>1
  <1> QED
    BY <1>5, <1>6, <1>7, <1>8, <1>9, <1>10, <1>11 DEF EvidenceInv

(* The writer remembers the file it has read back.                         *)
LEMMA AppendCheckpointStep ==
    ASSUME EvidenceInv, AppendCheckpoint
    PROVE  EvidenceInv'
  <1>0. /\ EvidenceTyped /\ Phased /\ Single /\ Chained /\ Continued /\ Remembered /\ Windowed
    BY DEF EvidenceInv
  <1>1. PICK f \in OnDisk(sequence) : window' = Append(window, f)
    BY DEF AppendCheckpoint
  <1>2. /\ evPc = "written" /\ evPc' = "appended"
        /\ UNCHANGED <<disk, anchor, final, previous, sequence, writes, write, phase, incomplete,
                       torn>>
    BY DEF AppendCheckpoint, files, counting, outcome, history
  <1>3. Checkpointing /\ Checkpointing'
    BY <1>0, <1>2 DEF Phased, Storing, Checkpointing
  <1> DEFINE n == Len(window)
  <1>4. f \in disk /\ f.seq = sequence /\ f.prev = previous /\ f \in File
    BY <1>0, <1>1, <1>2 DEF OnDisk, Remembered, EvidenceTyped
  <1>5. /\ n \in Nat /\ sequence \in Nat /\ MaxCheckpoints \in Nat /\ MaxCheckpoints >= 2
        /\ (\A g \in disk : g.seq \in Nat) /\ (\A i \in 1..n : window[i].seq \in Nat)
    BY EvidenceNumbers
  <1>6. window' \in Seq(File) /\ Len(window') = n + 1
        /\ (\A i \in 1..n : window'[i] = window[i]) /\ window'[n + 1] = f
    BY <1>0, <1>1, <1>4, AppendProperties DEF EvidenceTyped
  <1> HIDE DEF n
  <1>7. EvidenceTyped'
    BY <1>0, <1>2, <1>6 DEF EvidenceTyped, Storing
  <1>8. Phased' /\ Single' /\ Kept' = Kept
    BY <1>0, <1>2, <1>3 DEF Phased, Single, Kept, Reporting
  <1>9. Chained' /\ Continued'
    BY <1>0, <1>2, <1>3, <1>8 DEF Chained, Continued, Continues
  <1>l. Len(window') # 0 /\ window'[Len(window')] = f
    BY <1>5, <1>6
  <1>10. Remembered'
    <2>1. ~final'.complete
      BY <1>0, <1>2, <1>3 DEF Remembered
    <2> QED
      BY <2>1, <1>l, <1>2, <1>3, <1>4 DEF Remembered, Checkpointing
  <1>11. Windowed'
    <2> SUFFICES ASSUME MayRotate'
                 PROVE  Listed' /\ Located' /\ Oldest' /\ Tip'
      BY DEF Windowed
    <2>1. phase = "body" /\ MayRotate
      BY <1>2, <1>3 DEF MayRotate, Checkpointing, Rotation
    <2>2. Listed /\ Located /\ n < MaxCheckpoints
      BY <2>1, <1>0, <1>2 DEF Windowed, Located, n
    <2>3. n # 0 => Oldest /\ Tip
      BY <2>1, <1>0 DEF Windowed, n
    <2>4. /\ \A i \in 1..n : window[i].seq = window[1].seq + i - 1
          /\ \A i \in 2..n : window[i] \in disk /\ window[i].prev = window[i - 1].digest
      BY <2>2 DEF Listed, n
    <2>5. n # 0 => /\ window[n].seq + 1 = sequence /\ window[n].digest = previous
                   /\ window[1] \in disk /\ anchor.next = window[1].seq
                   /\ \A g \in disk : g.seq >= window[1].seq /\ (g.seq = window[1].seq => g = window[1])
      <3>1. ~Removing
        BY <2>2, <1>5 DEF Removing, n
      <3> QED
        BY <3>1, <2>3, <1>2 DEF Oldest, Tip, n
    <2>6. n = 0 => anchor = NoAnchor /\ sequence = 0
      BY <2>2 DEF Located, n
    <2>7. n # 0 => window'[1] = window[1]
      BY <1>5, <1>6
    <2>8. n = 0 => window'[1] = f
      BY <1>6
    <2>9. Listed'
      <3>1. ASSUME NEW i \in 1..(n + 1) PROVE window'[i].seq = window'[1].seq + i - 1
        <4>1. CASE i \in 1..n
          BY <4>1, <2>4, <2>7, <1>5, <1>6
        <4>2. CASE i \notin 1..n
          <5>1. i = n + 1 /\ window'[i] = f
            BY <4>2, <1>5, <1>6
          <5>2. CASE n = 0
            BY <5>1, <5>2, <2>8, <1>4, <1>5
          <5>3. CASE n # 0
            <6>1. n \in 1..n /\ 1 \in 1..n
              BY <5>3, <1>5
            <6>2. window[n].seq = window[1].seq + n - 1 /\ window[1].seq \in Nat
                  /\ window[n].seq \in Nat
              BY <6>1, <2>4, <1>5
            <6>3. f.seq = window[n].seq + 1
              BY <5>3, <2>5, <1>4
            <6> QED
              BY <5>1, <5>3, <6>2, <6>3, <2>7, <1>5
          <5> QED
            BY <5>2, <5>3
        <4> QED
          BY <4>1, <4>2
      <3>2. ASSUME NEW i \in 2..(n + 1)
            PROVE  window'[i] \in disk' /\ window'[i].prev = window'[i - 1].digest
        <4>1. i - 1 \in 1..n /\ window'[i - 1] = window[i - 1] /\ n # 0
          BY <1>5, <1>6
        <4>2. CASE i \in 2..n
          <5>1. window'[i] = window[i]
            BY <4>2, <1>5, <1>6
          <5> QED
            BY <4>1, <4>2, <5>1, <2>4, <1>2
        <4>3. CASE i \notin 2..n
          <5>1. i = n + 1 /\ i - 1 = n
            BY <4>3, <1>5
          <5> QED
            BY <4>1, <5>1, <2>5, <1>2, <1>4, <1>6
        <4> QED
          BY <4>2, <4>3
      <3>3. Len(window') <= MaxCheckpoints
        BY <2>2, <1>5, <1>6
      <3> QED
        BY <3>1, <3>2, <3>3, <1>6 DEF Listed
    <2>10. Located'
      BY <1>2, <1>l DEF Located, Rotation
    <2>11. Oldest'
      <3>1. window'[Len(window')].seq <= sequence'
        BY <1>l, <1>2, <1>4, <1>5
      <3>2. CASE n = 0
        <4>1. ASSUME NEW g \in disk PROVE g.seq >= f.seq /\ (g.seq = f.seq => g = f)
          BY <3>2, <2>6, <1>0, <1>4, <1>5 DEF Single
        <4>2. anchor.next = f.seq
          BY <3>2, <2>6, <1>4 DEF NoAnchor
        <4> QED
          BY <3>1, <3>2, <4>1, <4>2, <2>8, <1>2, <1>4 DEF Oldest
      <3>3. CASE n # 0
        BY <3>1, <3>3, <2>5, <2>7, <1>2 DEF Oldest
      <3> QED
        BY <3>2, <3>3
    <2>12. Tip'
      BY <1>l, <1>2, <1>4 DEF Tip
    <2> QED
      BY <2>9, <2>10, <2>11, <2>12
  <1> QED
    BY <1>7, <1>8, <1>9, <1>10, <1>11 DEF EvidenceInv

(* It takes the digest of that file ...                                    *)
LEMMA SetPreviousStep ==
    ASSUME EvidenceInv, SetPrevious
    PROVE  EvidenceInv'
  <1>0. /\ EvidenceTyped /\ Phased /\ Single /\ Chained /\ Continued /\ Remembered /\ Windowed
    BY DEF EvidenceInv
  <1>1. /\ evPc = "appended" /\ evPc' = "linked" /\ previous' = window[Len(window)].digest
        /\ UNCHANGED <<disk, anchor, final, window, sequence, writes, write, phase, incomplete,
                       torn>>
    BY DEF SetPrevious, files, counting, outcome, history
  <1>2. Checkpointing /\ Checkpointing'
    BY <1>0, <1>1 DEF Phased, Storing, Checkpointing
  <1>3. /\ Len(window) # 0 /\ window[Len(window)] \in disk /\ window[Len(window)] \in File
        /\ window[Len(window)].seq = sequence
    BY <1>0, <1>1 DEF Remembered, EvidenceTyped
  <1>4. EvidenceTyped'
    <2>1. previous' \in Nat
      BY <1>1, <1>3 DEF File
    <2> QED
      BY <2>1, <1>0, <1>1 DEF EvidenceTyped, Storing
  <1>5. Phased' /\ Single' /\ Kept' = Kept
    BY <1>0, <1>1, <1>2 DEF Phased, Single, Kept, Reporting
  <1>6. Chained' /\ Continued'
    BY <1>0, <1>1, <1>5 DEF Chained, Continued
  <1>7. Remembered'
    BY <1>0, <1>1, <1>2, <1>3 DEF Remembered, Checkpointing
  <1>8. Windowed'
    <2> SUFFICES ASSUME MayRotate' PROVE Listed' /\ Located' /\ Oldest' /\ Tip'
      BY DEF Windowed
    <2>1. phase = "body" /\ MayRotate
      BY <1>1, <1>2 DEF MayRotate, Checkpointing, Rotation
    <2>2. Listed /\ Located /\ Oldest
      BY <2>1, <1>0, <1>3 DEF Windowed
    <2>3. Listed' /\ Oldest'
      BY <2>2, <1>1 DEF Listed, Oldest, Removing
    <2>4. Located' /\ Tip'
      BY <2>2, <1>1, <1>3 DEF Located, Tip, Rotation
    <2> QED
      BY <2>3, <2>4
  <1> QED
    BY <1>4, <1>5, <1>6, <1>7, <1>8 DEF EvidenceInv

(* ... and its caller advances the number.                                 *)
LEMMA AdvanceSequenceStep ==
    ASSUME EvidenceInv, AdvanceSequence
    PROVE  EvidenceInv'
  <1>0. /\ EvidenceTyped /\ Phased /\ Single /\ Chained /\ Continued /\ Remembered /\ Windowed
    BY DEF EvidenceInv
  <1>1. /\ evPc = "linked" /\ evPc' = "idle" /\ sequence' = sequence + 1
        /\ phase' = (IF phase = "last" THEN "report" ELSE phase)
        /\ UNCHANGED <<disk, anchor, final, window, previous, writes, write, incomplete, torn>>
    BY DEF AdvanceSequence, files, counting, history
  <1>2. Checkpointing
    BY <1>0, <1>1 DEF Phased, Storing
  <1>3. PICK f \in disk : f.seq = sequence /\ f.digest = previous
    BY <1>0, <1>1 DEF Remembered
  <1>4. sequence \in Nat /\ anchor.next \in Nat /\ (\A g \in disk : g.seq \in Nat)
    BY EvidenceNumbers
  <1>5. EvidenceTyped'
    BY <1>0, <1>1, <1>4 DEF EvidenceTyped
  <1>6. Phased'
    BY <1>0, <1>1, <1>2 DEF Phased, Checkpointing, Rotation, Storing, Reporting
  <1>7. Single' /\ Kept' = Kept
    BY <1>0, <1>1, <1>4 DEF Single, Kept
  <1>8. Chained'
    BY <1>0, <1>1, <1>7 DEF Chained
  <1>9. Continued'
    <2>1. sequence' > anchor.next /\ f.seq + 1 = sequence'
      BY <1>0, <1>1, <1>3, <1>4 DEF Single
    <2> QED
      BY <2>1, <1>1, <1>3 DEF Continued, Continues
  <1>10. Remembered'
    <2>1. Newest(previous)'
      BY <1>0, <1>1, <1>3 DEF Newest, Single
    <2>2. ~final'.complete
      BY <1>0, <1>1, <1>2 DEF Remembered
    <2> QED
      BY <2>1, <2>2, <1>1 DEF Remembered
  <1>11. Windowed'
    <2> SUFFICES ASSUME MayRotate' PROVE Listed' /\ Located' /\ Oldest' /\ Tip'
      BY DEF Windowed
    <2>1. phase = "body" /\ MayRotate
      BY <1>1, <1>2 DEF MayRotate, Checkpointing
    <2>2. Listed /\ Located /\ Len(window) # 0
      BY <2>1, <1>0, <1>1 DEF Windowed, Located
    <2>3. Oldest /\ Tip
      BY <2>1, <2>2, <1>0 DEF Windowed
    <2>4. window[Len(window)].seq = sequence /\ window[Len(window)].digest = previous
      BY <2>3, <1>1 DEF Tip
    <2>5. Listed' /\ Located' /\ Tip'
      BY <2>2, <2>4, <1>1 DEF Listed, Located, Tip, Rotation
    <2>6. Oldest'
      <3>1. window[Len(window)].seq <= sequence'
        BY <2>4, <1>1, <1>4
      <3> QED
        BY <3>1, <2>3, <1>1 DEF Oldest, Removing
    <2> QED
      BY <2>5, <2>6
  <1> QED
    BY <1>5, <1>6, <1>7, <1>8, <1>9, <1>10, <1>11 DEF EvidenceInv

(* The report names the newest file, or says that evidence is incomplete.  *)
LEMMA ReplaceFinalStep ==
    ASSUME EvidenceInv, ReplaceFinal
    PROVE  EvidenceInv'
  <1>0. /\ EvidenceTyped /\ Phased /\ Single /\ Chained /\ Remembered
    BY DEF EvidenceInv
  <1>1. /\ evPc = "reportTemp" /\ evPc' = "reportReplaced"
        /\ final' = [written |-> TRUE, tail |-> previous, complete |-> ~incomplete]
        /\ UNCHANGED <<disk, anchor, window, previous, sequence, writes, write, phase, incomplete,
                       torn>>
    BY DEF ReplaceFinal, bookkeeping, counting, outcome, history
  <1>2. phase = "report" /\ ~Checkpointing' /\ ~MayRotate'
    BY <1>0, <1>1 DEF Phased, Reporting, Checkpointing, MayRotate
  <1>3. final'.complete = ~incomplete /\ final'.tail = previous
    BY <1>1
  <1>4. EvidenceTyped' /\ Phased'
    BY <1>0, <1>1, <1>2, <1>3 DEF EvidenceTyped, Phased, Rotation, Storing, Reporting
  <1>5. Single' /\ Kept' = Kept
    BY <1>0, <1>1 DEF Single, Kept
  <1>6. Chained' /\ Continued' /\ Windowed'
    BY <1>0, <1>1, <1>2, <1>5 DEF Chained, Continued, Windowed
  <1>7. Remembered'
    BY <1>0, <1>1, <1>2, <1>3 DEF Remembered, Newest
  <1> QED
    BY <1>4, <1>5, <1>6, <1>7 DEF EvidenceInv

(* The inductive invariant of the evidence directory: the files on disk    *)
(* verify, the digest to be named next is that of the last of them, and as *)
(* long as a rotation may come the window lists a linked run of files of   *)
(* which the anchor names the first or the one before it.                  *)
THEOREM EvidenceInvariant == EvidenceSpec => []EvidenceInv
  <1>1. EvidenceInit => EvidenceInv
    <2> SUFFICES ASSUME EvidenceInit PROVE EvidenceInv
      OBVIOUS
    <2>1. /\ disk = {} /\ anchor = NoAnchor /\ window = <<>> /\ previous = 0 /\ sequence = 0
          /\ writes = 0 /\ evPc = "idle" /\ phase = "body" /\ incomplete = FALSE
          /\ final = NoReport /\ torn = {} /\ write.size = Overhead
      BY DEF EvidenceInit
    <2>2. window \in Seq(File) /\ Len(window) = 0
      BY <2>1, EmptySeq
    <2>3. final.complete = FALSE
      BY <2>1 DEF NoReport
    <2>4. anchor \in [removed : Nat, digest : Nat, next : Nat] /\ anchor.next = 0
          /\ anchor.digest = 0
      BY <2>1 DEF NoAnchor
    <2>5. EvidenceTyped
      BY <2>1, <2>2, <2>3, <2>4, EvidenceAssumption DEF EvidenceTyped
    <2>6. Phased /\ Single /\ Kept = {}
      BY <2>1, <2>4 DEF Phased, Single, Kept, Rotation, Storing, Reporting
    <2>7. Chained /\ Continued
      BY <2>1, <2>4, <2>6 DEF Chained, Continued, Continues
    <2>8. Remembered
      BY <2>1, <2>3 DEF Remembered
    <2>9. Windowed
      BY <2>1, <2>2, EvidenceAssumption DEF Windowed, Listed, Located, Rotation
    <2> QED
      BY <2>5, <2>6, <2>7, <2>8, <2>9 DEF EvidenceInv
  <1>2. EvidenceInv /\ [EvidenceNext]_evidenceVars => EvidenceInv'
    <2>1. ASSUME EvidenceInv, UNCHANGED evidenceVars PROVE EvidenceInv'
      BY <2>1 DEF evidenceVars, files, bookkeeping, counting, outcome, history, EvidenceInv,
           EvidenceTyped, Phased, Single, Chained, Continued, Continues, Remembered, Newest, OnDisk,
           Windowed, MayRotate, Listed, Located, Oldest, Removing, Tip, Kept, Checkpointing
    <2> QED
      BY <2>1, StillSteps, ReplaceAnchorStep, UnlinkStep, PopLeftStep, ReplaceCheckpointStep,
         AppendCheckpointStep, SetPreviousStep, AdvanceSequenceStep, ReplaceFinalStep
         DEF EvidenceNext
  <1> QED
    BY <1>1, <1>2, PTL DEF EvidenceSpec

(* Whenever the process dies, whichever call fails and wherever an         *)
(* interrupt falls, the checkpoints that write_checkpoint and its rotation *)
(* have left on disk verify as a chain from the anchor on, but for the one *)
(* file that replaced the predecessor it names after an interrupt between  *)
(* previous_sha256 and checkpoint_sequence; and a report that does not say *)
(* INCOMPLETE_EVIDENCE_WRITE names the newest of them.                     *)
THEOREM EvidenceVerifies == EvidenceSpec => []ChainVerifies
  <1>1. EvidenceInv => ChainVerifies
    BY DEF EvidenceInv, Chained, Remembered, Newest, ChainVerifies
  <1> QED
    BY <1>1, EvidenceInvariant, PTL

----------------------------------------------------------------------------
(***************************************************************************)
(* The size of the directory.  Size is a fold of the library, that is, a   *)
(* function chosen by a recursion over the subsets of a set.  It counts    *)
(* the single bytes of the files: a count satisfies the recursion, and two *)
(* functions that do cannot differ on a smallest subset.                   *)
(***************************************************************************)

(* The single bytes of a set of files: a pair of a file and a position.     *)
Bytes(S) == {b \in S \X Nat : b[2] \in 1..b[1].size}

First(s) == CHOOSE x \in s : TRUE
Adds(h, S) == h = [s \in SUBSET S |-> IF s = {} THEN 0 ELSE First(s).size + h[s \ {First(s)}]]

(* The library's fold, as the function it is.                              *)
LEMMA SizeIs == \A S : Size(S) = (CHOOSE h : Adds(h, S))[S]
  BY Zenon DEF Size, MapThenSumSet, MapThenFoldSet, Adds, First

(* Induction over the subsets of a finite set, in the form of a smallest   *)
(* counterexample.                                                         *)
LEMMA SmallestSet ==
    ASSUME NEW S, IsFiniteSet(S), NEW Bad, Bad \subseteq SUBSET S, Bad # {}
    PROVE  \E s \in Bad : \A x \in s : s \ {x} \notin Bad
  <1>1. IsWellFoundedOn(StrictSubsetOrdering(S), FiniteSubsetsOf(S))
    BY FS_StrictSubsetOrderingWellFounded
  <1>2. FiniteSubsetsOf(S) = SUBSET S
    BY FS_FiniteSubsetsOfFinite
  <1>3. PICK s \in Bad : \A y \in Bad : <<y, s>> \notin StrictSubsetOrdering(S)
    BY <1>1, <1>2, WFMin
  <1>4. ASSUME NEW x \in s, s \ {x} \in Bad PROVE FALSE
    <2>1. s \in SUBSET S /\ s \ {x} \in SUBSET S /\ s \ {x} # s
      OBVIOUS
    <2>2. <<s \ {x}, s>> \in StrictSubsetOrdering(S)
      BY <2>1 DEF StrictSubsetOrdering
    <2> QED
      BY <1>3, <1>4, <2>2
  <1> QED
    BY <1>3, <1>4

(* One file more: so many bytes more.                                      *)
LEMMA BytesOfOneMore ==
    ASSUME NEW s, s \subseteq File, NEW x \in s, IsFiniteSet(Bytes(s \ {x}))
    PROVE  /\ IsFiniteSet(Bytes(s))
           /\ Cardinality(Bytes(s)) = x.size + Cardinality(Bytes(s \ {x}))
  <1> DEFINE B == Bytes(s \ {x})
             N == {x} \X (1..x.size)
  <1>0. x.size \in Nat
    BY DEF File
  <1>1. Bytes(s) = B \cup N /\ B \cap N = {}
    BY <1>0 DEF Bytes
  <1>2. IsFiniteSet(1..x.size) /\ Cardinality(1..x.size) = x.size
    BY <1>0, FS_Interval
  <1>3. IsFiniteSet({x}) /\ Cardinality({x}) = 1
    BY FS_Singleton
  <1>4. IsFiniteSet(N) /\ Cardinality(N) = 1 * x.size
    BY <1>2, <1>3, FS_Product
  <1>5. Cardinality({}) = 0 /\ Cardinality(B) \in Nat
    BY FS_EmptySet, FS_CardinalityType
  <1>6. /\ IsFiniteSet(B \cup N)
        /\ Cardinality(B \cup N) = Cardinality(B) + Cardinality(N) - Cardinality(B \cap N)
    BY <1>4, FS_Union
  <1>7. Cardinality(B \cap N) = 0
    BY <1>1, <1>5
  <1> HIDE DEF B, N
  <1>8. IsFiniteSet(B \cup N) /\ Cardinality(B \cup N) = x.size + Cardinality(B)
    BY <1>0, <1>4, <1>5, <1>6, <1>7
  <1> QED
    BY <1>1, <1>8 DEF B

(* Finitely many files have finitely many bytes.                           *)
LEMMA BytesAreFinite ==
    ASSUME NEW S, S \subseteq File, IsFiniteSet(S)
    PROVE  \A s \in SUBSET S : IsFiniteSet(Bytes(s))
  <1> DEFINE Bad == {s \in SUBSET S : ~IsFiniteSet(Bytes(s))}
  <1>1. SUFFICES ASSUME Bad # {} PROVE FALSE
    OBVIOUS
  <1>2. PICK s \in Bad : \A x \in s : s \ {x} \notin Bad
    BY <1>1, SmallestSet
  <1>3. s # {}
    <2>1. Bytes({}) = {}
      BY DEF Bytes
    <2> QED
      BY <2>1, FS_EmptySet
  <1>4. PICK x \in s : TRUE
    BY <1>3
  <1>5. IsFiniteSet(Bytes(s \ {x}))
    BY <1>2, <1>4
  <1> QED
    BY <1>4, <1>5, BytesOfOneMore

(* The sum that _write keeps in total_bytes is the number of bytes.        *)
LEMMA SizeIsBytes ==
    ASSUME NEW S, S \subseteq File, IsFiniteSet(S)
    PROVE  Size(S) = Cardinality(Bytes(S))
  <1> DEFINE c == [s \in SUBSET S |-> Cardinality(Bytes(s))]
             h == CHOOSE g : Adds(g, S)
             Bad == {s \in SUBSET S : h[s] # c[s]}
  <1>1. ASSUME NEW s \in SUBSET S, s # {}
        PROVE  First(s) \in s /\ c[s] = First(s).size + c[s \ {First(s)}]
    <2>1. First(s) \in s
      BY <1>1 DEF First
    <2>2. IsFiniteSet(Bytes(s \ {First(s)})) /\ s \ {First(s)} \in SUBSET S
      BY BytesAreFinite
    <2> HIDE DEF First
    <2> QED
      BY <2>1, <2>2, BytesOfOneMore
  <1>2. c[{}] = 0
    <2>1. Bytes({}) = {}
      BY DEF Bytes
    <2> QED
      BY <2>1, FS_EmptySet
  <1>3. Adds(c, S)
    BY <1>1, <1>2 DEF Adds
  <1>4. Adds(h, S)
    BY <1>3
  <1>5. Bad = {}
    <2>1. SUFFICES ASSUME Bad # {} PROVE FALSE
      OBVIOUS
    <2>2. PICK s \in Bad : \A x \in s : s \ {x} \notin Bad
      BY <2>1, SmallestSet
    <2>3. CASE s = {}
      BY <2>3, <2>2, <1>2, <1>4 DEF Adds
    <2>4. CASE s # {}
      <3>1. First(s) \in s /\ c[s] = First(s).size + c[s \ {First(s)}]
        BY <2>4, <1>1
      <3>2. h[s] = First(s).size + h[s \ {First(s)}]
        BY <2>4, <1>4 DEF Adds
      <3>3. h[s \ {First(s)}] = c[s \ {First(s)}]
        BY <3>1, <2>2
      <3> QED
        BY <3>1, <3>2, <3>3, <2>2
    <2> QED
      BY <2>3, <2>4
  <1>6. h[S] = c[S]
    BY <1>5
  <1> QED
    BY <1>6, SizeIs

(* What the proofs use of it.                                              *)
LEMMA SizeFacts ==
    ASSUME NEW S, S \subseteq File, IsFiniteSet(S)
    PROVE  /\ Size(S) \in Nat
           /\ Size({}) = 0
           /\ \A x \in S : Size(S) = x.size + Size(S \ {x})
  <1>1. \A s \in SUBSET S : IsFiniteSet(s)
    BY FS_Subset
  <1>2. \A s \in SUBSET S : Size(s) = Cardinality(Bytes(s))
    BY <1>1, SizeIsBytes
  <1>3. \A s \in SUBSET S : IsFiniteSet(Bytes(s))
    BY BytesAreFinite
  <1>4. Bytes({}) = {}
    BY DEF Bytes
  <1>5. Size({}) = 0
    BY <1>2, <1>4, FS_EmptySet
  <1>6. Size(S) \in Nat
    BY <1>2, <1>3, FS_CardinalityType
  <1>7. ASSUME NEW x \in S PROVE Size(S) = x.size + Size(S \ {x})
    BY <1>2, <1>3, BytesOfOneMore
  <1> QED
    BY <1>5, <1>6, <1>7

(* A single file.                                                          *)
LEMMA SizeOfOne ==
    ASSUME NEW x \in File
    PROVE  Size({x}) = x.size /\ x.size \in Nat
  <1>1. IsFiniteSet({x}) /\ {x} \subseteq File
    BY FS_Singleton
  <1>2. Size({x}) = x.size + Size({x} \ {x}) /\ Size({}) = 0
    BY <1>1, SizeFacts
  <1>3. x.size \in Nat
    BY DEF File
  <1>4. {x} \ {x} = {}
    OBVIOUS
  <1> QED
    BY <1>2, <1>3, <1>4

----------------------------------------------------------------------------
Temporary == {"anchorTemp", "checkpointTemp", "reportTemp"}

(* The files that the anchor says are removed.                             *)
Outside == disk \ Kept

(* The count and the bound on the files themselves.                        *)
Counted ==
    /\ IsFiniteSet(disk) /\ final.written \in BOOLEAN
    /\ total \in Int /\ missed \in [grown : Nat, freed : Nat]
    /\ evPc # "dead" => Directory = total + Lag + missed.grown - missed.freed
    /\ Directory <= ByteLimit + Size(Outside) + missed.grown

(* The write under way has been compared with the limit.                   *)
Writing ==
    /\ temp \in Nat /\ write \in [size : Nat, old : Nat, pending : Nat]
    /\ temp > 0 => Directory + temp <= ByteLimit + write.old + write.pending + missed.grown
    /\ evPc \in Temporary => total - write.old - write.pending + write.size <= ByteLimit
    /\ evPc \notin Temporary \cup {"dead"} => temp = 0
    /\ evPc = "anchorTemp" =>
          write = [size |-> Overhead, old |-> AnchorSize, pending |-> window[1].size]
    /\ evPc = "checkpointTemp" => write.old = Size(OnDisk(sequence)) /\ write.pending = 0
    /\ evPc = "reportTemp" => write = [size |-> Overhead, old |-> 0, pending |-> 0]
    /\ evPc \notin {"reportReplaced", "dead"} /\ phase # "returned" => ~final.written

BytesInv == EvidenceInv /\ Counted /\ Writing

(* The sizes involved are numbers.                                         *)
LEMMA SizesAreNumbers ==
    ASSUME BytesInv
    PROVE  /\ AnchorSize \in Nat /\ Overhead \in Nat /\ ByteLimit \in Nat
           /\ Size(disk) \in Nat /\ Size(Outside) \in Nat /\ Directory \in Nat
           /\ disk \subseteq File /\ IsFiniteSet(disk)
           /\ total \in Int /\ temp \in Nat /\ Lag \in Int
           /\ missed.grown \in Nat /\ missed.freed \in Nat
           /\ write.size \in Nat /\ write.old \in Nat /\ write.pending \in Nat
  <1>1. disk \subseteq File /\ IsFiniteSet(disk)
    BY DEF BytesInv, Counted, EvidenceInv, EvidenceTyped
  <1>2. Outside \in SUBSET disk
    BY DEF Outside
  <1>3. Outside \subseteq File /\ IsFiniteSet(Outside)
    BY <1>1, <1>2, FS_Subset
  <1>4. Size(disk) \in Nat /\ Size(Outside) \in Nat
    BY <1>1, <1>3, SizeFacts
  <1>5. AnchorSize \in Nat /\ Overhead \in Nat /\ ByteLimit \in Nat
    BY EvidenceAssumption DEF AnchorSize
  <1>6. Directory \in Nat
    BY <1>4, <1>5 DEF Directory
  <1>7. /\ total \in Int /\ temp \in Nat /\ missed.grown \in Nat /\ missed.freed \in Nat
        /\ write.size \in Nat /\ write.old \in Nat /\ write.pending \in Nat
    BY DEF BytesInv, Counted, Writing
  <1>8. evPc = "unlinked" => window[1].size \in Nat
    <2> SUFFICES ASSUME evPc = "unlinked" PROVE window[1].size \in Nat
      OBVIOUS
    <2>1. Checkpointing /\ MayRotate
      BY DEF BytesInv, EvidenceInv, Phased, MayRotate, Rotation
    <2>2. Len(window) = MaxCheckpoints
      BY <2>1 DEF BytesInv, EvidenceInv, Windowed, Located, Rotation
    <2>3. window[1] \in File
      BY <2>1, <2>2, FullWindow DEF BytesInv
    <2> QED
      BY <2>3 DEF File
  <1>9. Lag \in Int
    BY <1>7, <1>8 DEF Lag
  <1> QED
    BY <1>1, <1>4, <1>5, <1>6, <1>7, <1>9

(* While the window is not full nothing is about to be removed.            *)
LEMMA NothingOutside ==
    ASSUME EvidenceInv, MayRotate, Len(window) < MaxCheckpoints
    PROVE  Outside = {} /\ anchor.next \in Nat /\ anchor.next <= sequence
  <1>1. Len(window) \in Nat /\ MaxCheckpoints \in Nat /\ anchor.next \in Nat
        /\ \A f \in disk : f.seq \in Nat
    BY EvidenceNumbers
  <1>2. CASE Len(window) = 0
    <2>1. anchor.next = 0
      BY <1>2 DEF EvidenceInv, Windowed, Located, NoAnchor
    <2> QED
      BY <2>1, <1>1 DEF EvidenceInv, Single, Outside, Kept
  <1>3. CASE Len(window) # 0
    <2>1. Oldest /\ ~Removing
      BY <1>1, <1>3 DEF EvidenceInv, Windowed, Removing
    <2> QED
      BY <2>1, <1>1 DEF EvidenceInv, Single, Outside, Kept, Oldest
  <1> QED
    BY <1>2, <1>3

(* Steps that change no file leave the count as it is: what is added to it *)
(* was missing from it before.                                             *)
LEMMA KeepStep ==
    ASSUME BytesInv, UNCHANGED <<disk, anchor, final>>, total' \in Int,
           missed' \in [grown : Nat, freed : Nat], missed'.grown >= missed.grown, evPc # "dead",
           evPc' = "dead" \/ total' + Lag' + missed'.grown - missed'.freed
                               = total + Lag + missed.grown - missed.freed
    PROVE  Counted' /\ Directory' = Directory
  <1>1. Counted
    BY DEF BytesInv
  <1>2. AnchorSize' = AnchorSize /\ Outside' = Outside
    BY DEF AnchorSize, Outside, Kept
  <1>3. Size(disk)' = Size(disk) /\ Size(Outside)' = Size(Outside)
    BY <1>2
  <1>4. Directory' = Directory
    BY <1>2, <1>3 DEF Directory
  <1>5. Size(Outside) \in Nat /\ Directory \in Nat /\ ByteLimit \in Nat /\ missed.grown \in Nat
        /\ missed'.grown \in Nat
    BY SizesAreNumbers
  <1>6. evPc' # "dead" => Directory' = total' + Lag' + missed'.grown - missed'.freed
    BY <1>1, <1>4 DEF Counted
  <1>7. Directory' <= ByteLimit + Size(Outside)' + missed'.grown
    BY <1>1, <1>3, <1>4, <1>5 DEF Counted
  <1> QED
    BY <1>1, <1>4, <1>6, <1>7 DEF Counted

(* _write compares the limit and opens its temporary file.                 *)
LEMMA OpenBytes ==
    ASSUME BytesInv, OpenAnchor \/ OpenCheckpoint \/ OpenFinal
    PROVE  Counted' /\ Writing'
  <1>0. EvidenceInv /\ Counted /\ Writing
    BY DEF BytesInv
  <1>1. PICK size \in Sizes \cup {Overhead}, old \in Nat, pending \in Nat :
          /\ total - old - pending + size <= ByteLimit
          /\ write' = [size |-> size, old |-> old, pending |-> pending] /\ temp' = size
          /\ evPc' = "anchorTemp" =>
                size = Overhead /\ old = AnchorSize' /\ pending = window'[1].size
          /\ evPc' = "checkpointTemp" => old = Size(OnDisk(sequence))' /\ pending = 0
          /\ evPc' = "reportTemp" => size = Overhead /\ old = 0 /\ pending = 0
    <2>1. CASE OpenAnchor
      <3>1. AnchorSize \in Nat /\ Len(window) >= MaxCheckpoints
        BY <2>1, SizesAreNumbers DEF OpenAnchor
      <3>2. 1 \in 1..Len(window)
        BY <3>1, <1>0, EvidenceNumbers
      <3>3. window[1].size \in Nat
        BY <3>2, <1>0, EvidenceNumbers DEF File
      <3> QED
        BY <2>1, <3>1, <3>3 DEF OpenAnchor, OpenTemporary, AnchorSize, files, bookkeeping
    <2>2. CASE OpenCheckpoint
      <3>1. PICK size \in Sizes : OpenTemporary(size, Size(OnDisk(sequence)), 0)
        BY <2>2 DEF OpenCheckpoint
      <3>2. Size(OnDisk(sequence)) \in Nat
        <4>1. OnDisk(sequence) \in SUBSET disk
          BY DEF OnDisk
        <4>2. IsFiniteSet(OnDisk(sequence)) /\ OnDisk(sequence) \subseteq File
          BY <4>1, SizesAreNumbers, FS_Subset
        <4> QED
          BY <4>2, SizeFacts
      <3>3. OnDisk(sequence)' = OnDisk(sequence) /\ evPc' = "checkpointTemp"
        BY <2>2 DEF OpenCheckpoint, OnDisk, files, bookkeeping
      <3>4. Size(OnDisk(sequence))' = Size(OnDisk(sequence))
        BY <3>3
      <3> QED
        BY <3>1, <3>2, <3>3, <3>4 DEF OpenTemporary
    <2>3. CASE OpenFinal
      BY <2>3 DEF OpenFinal, OpenTemporary
    <2> QED
      BY <2>1, <2>2, <2>3
  <1>2. /\ evPc \in {"idle", "rotated"} /\ evPc' \in Temporary /\ phase # "returned"
        /\ UNCHANGED <<disk, anchor, final, total, missed, phase>>
    BY DEF OpenAnchor, OpenCheckpoint, OpenFinal, Temporary, files, outcome, history, Checkpointing
  <1>3. Lag = 0 /\ Lag' = 0
    BY <1>2 DEF Lag, Temporary
  <1>4. /\ Directory \in Nat /\ ByteLimit \in Nat /\ missed.grown \in Nat /\ missed.freed \in Nat
        /\ total \in Int
    BY SizesAreNumbers
  <1>5. missed \in [grown : Nat, freed : Nat] /\ Directory = total + Lag + missed.grown - missed.freed
        /\ ~final.written
    BY <1>0, <1>2 DEF Counted, Writing
  <1>6. Counted' /\ Directory' = Directory
    BY <1>2, <1>3, <1>4, <1>5, KeepStep
  <1>7. size \in Nat
    BY EvidenceAssumption
  <1>8. /\ write'.size = size /\ write'.old = old /\ write'.pending = pending
        /\ write' \in [size : Nat, old : Nat, pending : Nat] /\ temp' \in Nat
    BY <1>1, <1>7
  <1>9. Directory' + temp' <= ByteLimit + write'.old + write'.pending + missed'.grown
    BY <1>1, <1>2, <1>3, <1>4, <1>5, <1>6, <1>7, <1>8
  <1>10. total' - write'.old - write'.pending + write'.size <= ByteLimit
    BY <1>1, <1>2, <1>8
  <1> QED
    BY <1>1, <1>2, <1>5, <1>6, <1>8, <1>9, <1>10 DEF Writing, Temporary

(* Counting, bookkeeping, failures, interrupts and deaths.                 *)
LEMMA CountBytes ==
    ASSUME BytesInv,
           \/ CountWrite \/ CountUnlink \/ PopLeft \/ AppendCheckpoint \/ SetPrevious
           \/ AdvanceSequence \/ CheckpointFails \/ EndBody \/ FinalFails
           \/ EvidenceInterrupted \/ Die
    PROVE  Counted' /\ Writing'
  <1>0. EvidenceInv /\ Counted /\ Writing /\ Phased
    BY DEF BytesInv, EvidenceInv
  <1>1. /\ UNCHANGED <<disk, anchor, final, write>> /\ evPc # "dead"
        /\ (temp' = 0 \/ temp' = temp) /\ evPc' \notin Temporary
    <2>1. EndBody => evPc' = "idle"
      BY DEF EndBody
    <2> QED
      BY <2>1 DEF CountWrite, CountUnlink, PopLeft, AppendCheckpoint, SetPrevious, AdvanceSequence,
           CheckpointFails, EndBody, FinalFails, EvidenceInterrupted, Die, files, counting,
           Temporary
  <1>2. /\ Directory \in Nat /\ ByteLimit \in Nat /\ missed.grown \in Nat /\ missed.freed \in Nat
        /\ total \in Int /\ Lag \in Int /\ write.size \in Nat /\ write.old \in Nat
        /\ missed \in [grown : Nat, freed : Nat] /\ temp \in Nat
    BY <1>0, SizesAreNumbers DEF Counted
  <1>3. /\ total' \in Int /\ missed' \in [grown : Nat, freed : Nat]
        /\ missed'.grown >= missed.grown /\ missed'.grown \in Nat
        /\ evPc' = "dead" \/ total' + Lag' + missed'.grown - missed'.freed
                               = total + Lag + missed.grown - missed.freed
    <2>1. CASE CountWrite
      <3>1. /\ total' = total - write.old + write.size /\ missed' = missed
            /\ evPc \in {"anchorReplaced", "replaced", "reportReplaced"}
            /\ evPc' \in {"anchored", "written", "idle"}
        BY <2>1 DEF CountWrite, history
      <3>2. Lag = write.size - write.old /\ Lag' = 0
        BY <3>1 DEF Lag
      <3> QED
        BY <3>1, <3>2, <1>2
    <2>2. CASE CountUnlink
      <3>1. /\ total' = total - window[1].size /\ missed' = missed
            /\ evPc = "unlinked" /\ evPc' = "counted"
        BY <2>2 DEF CountUnlink, history
      <3>2. Lag = -window[1].size /\ Lag' = 0
        BY <3>1 DEF Lag
      <3>3. total' = total + Lag
        <4>1. window[1].size \in Nat
          <5>1. MayRotate
            BY <3>1, <1>0 DEF Phased, MayRotate, Rotation
          <5>2. Len(window) = MaxCheckpoints
            BY <3>1, <5>1, <1>0 DEF EvidenceInv, Windowed, Located, Rotation
          <5> QED
            BY <5>1, <5>2, <1>0, FullWindow DEF File
        <4> QED
          BY <4>1, <3>1, <3>2, <1>2
      <3> QED
        BY <3>1, <3>2, <3>3, <1>2
    <2>3. CASE PopLeft \/ AppendCheckpoint \/ SetPrevious \/ AdvanceSequence \/ CheckpointFails
               \/ EndBody \/ FinalFails
      <3>1. /\ total' = total /\ missed' = missed
            /\ evPc \notin {"anchorReplaced", "replaced", "reportReplaced", "unlinked"}
            /\ evPc' \notin {"anchorReplaced", "replaced", "reportReplaced", "unlinked"}
        BY <2>3 DEF PopLeft, AppendCheckpoint, SetPrevious, AdvanceSequence, CheckpointFails, EndBody,
             FinalFails, counting, history
      <3>2. Lag = 0 /\ Lag' = 0
        BY <3>1 DEF Lag
      <3> QED
        BY <3>1, <3>2, <1>2
    <2>4. CASE EvidenceInterrupted
      <3>1. /\ total' = total /\ evPc' = "idle"
            /\ missed' = IF Lag >= 0 THEN [missed EXCEPT !.grown = @ + Lag]
                                     ELSE [missed EXCEPT !.freed = @ - Lag]
        BY <2>4 DEF EvidenceInterrupted, counting
      <3>2. Lag' = 0
        BY <3>1 DEF Lag
      <3>3. CASE Lag >= 0
        <4>1. missed'.grown = missed.grown + Lag /\ missed'.freed = missed.freed
              /\ missed' \in [grown : Nat, freed : Nat]
          BY <3>1, <3>3, <1>2
        <4> QED
          BY <4>1, <3>1, <3>2, <3>3, <1>2
      <3>4. CASE ~(Lag >= 0)
        <4>0. missed' = [missed EXCEPT !.freed = missed.freed - Lag] /\ missed.freed - Lag \in Nat
          BY <3>1, <3>4, <1>2
        <4>1. missed'.grown = missed.grown /\ missed'.freed = missed.freed - Lag
              /\ missed' \in [grown : Nat, freed : Nat]
          BY <4>0, <1>2
        <4> QED
          BY <4>1, <3>1, <3>2, <3>4, <1>2
      <3> QED
        BY <3>3, <3>4
    <2>5. CASE Die
      BY <2>5, <1>2 DEF Die, counting, history
    <2> QED
      BY <2>1, <2>2, <2>3, <2>4, <2>5
  <1>4. Counted' /\ Directory' = Directory
    BY <1>1, <1>3, KeepStep
  <1>5. temp' > 0 => Directory' + temp' <= ByteLimit + write'.old + write'.pending + missed'.grown
    <2> SUFFICES ASSUME temp' > 0
                 PROVE  Directory' + temp' <= ByteLimit + write'.old + write'.pending + missed'.grown
      OBVIOUS
    <2>1. temp' = temp /\ write.pending \in Nat
      BY <1>1, SizesAreNumbers
    <2>2. Directory + temp <= ByteLimit + write.old + write.pending + missed.grown
      BY <2>1, <1>0 DEF Writing
    <2> QED
      BY <2>1, <2>2, <1>1, <1>2, <1>3, <1>4
  <1>6. evPc' # "dead" => temp' = 0
    <2>1. ~Die => evPc \notin Temporary \/ temp' = 0
      BY DEF CountWrite, CountUnlink, PopLeft, AppendCheckpoint, SetPrevious, AdvanceSequence,
           CheckpointFails, EndBody, FinalFails, EvidenceInterrupted, Temporary
    <2>2. Die => evPc' = "dead"
      BY DEF Die
    <2> QED
      BY <2>1, <2>2, <1>0, <1>1 DEF Writing
  <1>7. evPc' \notin {"reportReplaced", "dead"} /\ phase' # "returned" => ~final'.written
    <2>1. evPc = "reportReplaced" => phase' = "returned" \/ evPc' = "dead"
      <3>1. evPc = "reportReplaced" => phase = "report"
        BY <1>0 DEF Phased, Reporting
      <3> QED
        BY <3>1 DEF CountWrite, CountUnlink, PopLeft, AppendCheckpoint, SetPrevious, AdvanceSequence,
           CheckpointFails, EndBody, FinalFails, EvidenceInterrupted, Die
    <2>2. phase = "returned" => phase' = "returned"
      BY DEF CountWrite, CountUnlink, PopLeft, AppendCheckpoint, SetPrevious, AdvanceSequence,
           CheckpointFails, EndBody, FinalFails, EvidenceInterrupted, Die, outcome, Checkpointing
    <2> QED
      BY <2>1, <2>2, <1>0, <1>1 DEF Writing
  <1> QED
    BY <1>0, <1>1, <1>2, <1>4, <1>5, <1>6, <1>7 DEF Writing, Temporary

(* After a file was changed, nothing is being written.                     *)
LEMMA ChangedWriting ==
    ASSUME BytesInv, ReplaceAnchor \/ ReplaceCheckpoint \/ ReplaceFinal \/ Unlink
    PROVE  Writing'
  <1>0. Writing /\ Phased
    BY DEF BytesInv, EvidenceInv
  <1>1. /\ temp' = 0 /\ write' = write
        /\ evPc' \in {"anchorReplaced", "replaced", "reportReplaced", "unlinked"}
    <2>1. Unlink => temp = 0
      BY <1>0 DEF Unlink, Writing, Temporary
    <2> QED
      BY <2>1 DEF ReplaceAnchor, ReplaceCheckpoint, ReplaceFinal, Unlink, counting
  <1>2. evPc' # "reportReplaced" => final' = final /\ phase' = phase
                                    /\ evPc \in {"anchorTemp", "checkpointTemp", "anchored"}
    BY DEF ReplaceAnchor, ReplaceCheckpoint, ReplaceFinal, Unlink, outcome
  <1>3. evPc' # "reportReplaced" => ~final'.written
    <2>1. evPc' # "reportReplaced" => phase # "returned"
      BY <1>0, <1>2 DEF Phased, Rotation, Storing, Checkpointing
    <2> QED
      BY <2>1, <1>0, <1>2 DEF Writing
  <1> QED
    BY <1>0, <1>1, <1>3 DEF Writing, Temporary

(* A replaced file: the directory grows by the difference.                 *)
LEMMA ReplacedBytes ==
    ASSUME BytesInv, IsFiniteSet(disk'), final'.written \in BOOLEAN,
           ReplaceAnchor \/ ReplaceCheckpoint \/ ReplaceFinal,
           Directory' = Directory - write.old + write.size,
           Directory' <= ByteLimit + Size(Outside)' + missed.grown
    PROVE  Counted'
  <1>0. Counted
    BY DEF BytesInv
  <1>1. /\ UNCHANGED <<total, missed, write>> /\ evPc \in Temporary
        /\ evPc' \in {"anchorReplaced", "replaced", "reportReplaced"}
    BY DEF ReplaceAnchor, ReplaceCheckpoint, ReplaceFinal, Temporary, counting, history
  <1>2. Lag = 0 /\ Lag' = write.size - write.old
    BY <1>1 DEF Lag, Temporary
  <1>3. /\ Directory \in Nat /\ missed.grown \in Nat /\ missed.freed \in Nat /\ total \in Int
        /\ write.size \in Nat /\ write.old \in Nat
    BY SizesAreNumbers
  <1>4. Directory = total + Lag + missed.grown - missed.freed
    BY <1>0, <1>1 DEF Counted, Temporary
  <1>5. Directory' = total' + Lag' + missed'.grown - missed'.freed
    BY <1>1, <1>2, <1>3, <1>4
  <1> QED
    BY <1>0, <1>1, <1>5 DEF Counted

(* The new bytes fit, as _write has found.                                 *)
LEMMA FittingWrite ==
    ASSUME BytesInv, evPc \in Temporary
    PROVE  /\ Directory - write.old + write.size <= ByteLimit + write.pending + missed.grown
  <1>1. total - write.old - write.pending + write.size <= ByteLimit
    BY DEF BytesInv, Writing
  <1>2. Directory = total + Lag + missed.grown - missed.freed /\ Lag = 0
    BY DEF BytesInv, Counted, Lag, Temporary
  <1> QED
    BY <1>1, <1>2, SizesAreNumbers

(* The anchor: the file it condemns counts as pending until it is removed. *)
LEMMA ReplaceAnchorBytes ==
    ASSUME BytesInv, ReplaceAnchor
    PROVE  Counted'
  <1>0. EvidenceInv /\ Counted /\ Writing /\ Phased
    BY DEF BytesInv, EvidenceInv
  <1>1. /\ evPc = "anchorTemp" /\ UNCHANGED <<disk, final, missed>> /\ anchor'.next = window[2].seq
    BY DEF ReplaceAnchor, history
  <1>2. MayRotate
    BY <1>0, <1>1 DEF Phased, MayRotate, Rotation
  <1>3. Len(window) = MaxCheckpoints /\ Oldest
    <2>1. Len(window) = MaxCheckpoints
      BY <1>0, <1>1, <1>2 DEF EvidenceInv, Windowed, Located, Rotation
    <2> QED
      BY <2>1, <1>0, <1>2, EvidenceNumbers DEF EvidenceInv, Windowed
  <1>4. /\ window[1] \in File /\ window[1].seq \in Nat /\ window[2].seq = window[1].seq + 1
        /\ (\A f \in disk : ~(f.seq >= window[2].seq) => f = window[1])
    BY <1>0, <1>2, <1>3, FullWindow
  <1>5. write.size = Overhead /\ write.old = AnchorSize /\ write.pending = window[1].size
    BY <1>0, <1>1 DEF Writing
  <1>6. /\ AnchorSize \in Nat /\ Overhead \in Nat /\ ByteLimit \in Nat /\ missed.grown \in Nat
        /\ Size(disk) \in Nat /\ Directory \in Nat /\ disk \subseteq File /\ IsFiniteSet(disk)
    BY SizesAreNumbers
  <1>7. AnchorSize' = Overhead
    <2>1. anchor'.next # 0
      BY <1>1, <1>4
    <2> QED
      BY <2>1 DEF AnchorSize, NoAnchor
  <1>8. Directory' = Directory - write.old + write.size
    <2>1. Size(disk)' = Size(disk)
      BY <1>1
    <2> QED
      BY <2>1, <1>1, <1>5, <1>6, <1>7 DEF Directory
  <1>9. Outside' = {f \in disk : ~(f.seq >= window[2].seq)}
    BY <1>1 DEF Outside, Kept
  <1>10. Directory' <= ByteLimit + Size(Outside)' + missed.grown
    <2>1. CASE window[1] \in disk
      <3>1. Outside' = {window[1]}
        <4>1. ~(window[1].seq >= window[2].seq)
          BY <1>4
        <4> QED
          BY <2>1, <4>1, <1>4, <1>9
      <3>2. Size(Outside)' = window[1].size
        BY <3>1, <1>4, SizeOfOne
      <3>3. Directory - write.old + write.size <= ByteLimit + write.pending + missed.grown
        BY <1>1, FittingWrite DEF Temporary
      <3> QED
        BY <3>2, <3>3, <1>5, <1>8
    <2>2. CASE window[1] \notin disk
      <3>1. Removing
        BY <2>2, <1>3 DEF Oldest
      <3>2. anchor.next = window[2].seq
        BY <3>1 DEF Removing
      <3>3. Outside' = Outside /\ AnchorSize = Overhead
        <4>1. anchor.next # 0
          BY <3>2, <1>4
        <4> QED
          BY <4>1, <3>2, <1>9 DEF Outside, Kept, AnchorSize, NoAnchor
      <3>4. Size(Outside)' = Size(Outside) /\ Directory' = Directory
        BY <3>3, <1>5, <1>6, <1>8
      <3> QED
        BY <3>4, <1>0 DEF Counted
    <2> QED
      BY <2>1, <2>2
  <1> QED
    BY <1>0, <1>1, <1>8, <1>10, ReplacedBytes DEF Counted

(* A checkpoint, in the place of one of the same number that was written   *)
(* before.                                                                 *)
LEMMA ReplaceCheckpointBytes ==
    ASSUME BytesInv, ReplaceCheckpoint
    PROVE  Counted'
  <1>0. EvidenceInv /\ Counted /\ Writing /\ Phased /\ EvidenceTyped /\ Single
    BY DEF BytesInv, EvidenceInv
  <1> DEFINE new == [seq |-> sequence, digest |-> writes + 1, prev |-> previous,
                     size |-> write.size]
             old == OnDisk(sequence)
             rest == disk \ old
  <1>1. /\ evPc = "checkpointTemp" /\ UNCHANGED <<anchor, final, missed>>
        /\ disk' = rest \cup {new}
    BY DEF ReplaceCheckpoint, history
  <1>2. MayRotate /\ Len(window) < MaxCheckpoints /\ sequence \in Nat
    <2>1. MayRotate
      BY <1>0, <1>1 DEF Phased, MayRotate, Storing
    <2> QED
      BY <2>1, <1>0, <1>1 DEF EvidenceInv, Windowed, Located, EvidenceTyped
  <1>3. new \in File /\ new.seq = sequence /\ new.size = write.size /\ write.size \in Nat
    BY <1>0 DEF EvidenceTyped, File
  <1>4. /\ AnchorSize \in Nat /\ Overhead \in Nat /\ ByteLimit \in Nat /\ missed.grown \in Nat
        /\ Size(disk) \in Nat /\ Directory \in Nat /\ disk \subseteq File /\ IsFiniteSet(disk)
    BY SizesAreNumbers
  <1>5. old \in SUBSET disk /\ rest \in SUBSET disk /\ new \notin rest
    BY <1>3 DEF OnDisk
  <1>w. write.old = Size(old) /\ write.pending = 0
    BY <1>0, <1>1 DEF Writing
  <1> HIDE DEF new
  <1>6. Size(disk) = Size(old) + Size(rest) /\ Size(old) \in Nat
    <2>1. CASE old = {}
      <3>1. Size(old) = 0 /\ rest = disk
        BY <2>1, <1>4, SizeFacts
      <3> QED
        BY <3>1, <1>4
    <2>2. CASE old # {}
      <3>1. PICK g \in old : old = {g}
        BY <2>2, <1>0 DEF OnDisk, Single
      <3>2. Size(disk) = g.size + Size(disk \ {g})
        BY <3>1, <1>4, <1>5, SizeFacts
      <3>3. Size({g}) = g.size /\ g.size \in Nat
        BY <3>1, <1>4, <1>5, SizeOfOne
      <3> QED
        BY <3>1, <3>2, <3>3
    <2> QED
      BY <2>1, <2>2
  <1>7. IsFiniteSet(rest) /\ rest \subseteq File /\ Size(rest) \in Nat
    <2>1. IsFiniteSet(rest) /\ rest \subseteq File
      BY <1>4, <1>5, FS_Subset
    <2> QED
      BY <2>1, SizeFacts
  <1>8. new \in disk' /\ disk' \ {new} = rest
    BY <1>1, <1>5
  <1>9. IsFiniteSet(disk') /\ disk' \subseteq File
    BY <1>1, <1>3, <1>7, FS_AddElement
  <1>10. Size(disk') = new.size + Size(disk' \ {new}) /\ Size({}) = 0
    BY <1>8, <1>9, SizeFacts
  <1>11. Size(disk)' = write.size + Size(rest)
    BY <1>3, <1>8, <1>10
  <1>12. Outside' = {}
    <2>1. Outside = {} /\ anchor.next \in Nat /\ anchor.next <= sequence
      BY <1>0, <1>2, NothingOutside
    <2>2. \A f \in disk : f.seq >= anchor.next
      BY <2>1 DEF Outside, Kept
    <2>3. new.seq >= anchor.next
      BY <2>1, <1>2, <1>3
    <2>4. \A f \in disk' : f.seq >= anchor.next
      BY <2>2, <2>3, <1>1, <1>5
    <2> QED
      BY <2>4, <1>1 DEF Outside, Kept
  <1>13. Size(Outside)' = 0
    BY <1>10, <1>12
  <1> HIDE DEF old, rest
  <1>14. Directory' = Directory - write.old + write.size
    <2>1. AnchorSize' = AnchorSize
      BY <1>1 DEF AnchorSize
    <2> QED
      BY <2>1, <1>1, <1>3, <1>4, <1>6, <1>7, <1>11, <1>w DEF Directory
  <1>15. Directory' <= ByteLimit + Size(Outside)' + missed.grown
    <2>1. Directory - write.old + write.size <= ByteLimit + write.pending + missed.grown
      BY <1>1, FittingWrite DEF Temporary
    <2> QED
      BY <2>1, <1>4, <1>13, <1>14, <1>w
  <1> QED
    BY <1>0, <1>1, <1>9, <1>14, <1>15, ReplacedBytes DEF Counted

(* The report is written once, or not at all.                              *)
LEMMA ReplaceFinalBytes ==
    ASSUME BytesInv, ReplaceFinal
    PROVE  Counted'
  <1>0. Counted /\ Writing /\ Phased
    BY DEF BytesInv, EvidenceInv
  <1>1. evPc = "reportTemp" /\ UNCHANGED <<disk, anchor, missed>> /\ final'.written = TRUE
    BY DEF ReplaceFinal, history
  <1>2. ~final.written /\ write.size = Overhead /\ write.old = 0 /\ write.pending = 0
    <2>1. phase = "report"
      BY <1>0, <1>1 DEF Phased, Reporting
    <2> QED
      BY <2>1, <1>0, <1>1 DEF Writing
  <1>3. AnchorSize' = AnchorSize /\ Outside' = Outside
    BY <1>1 DEF AnchorSize, Outside, Kept
  <1>4. Size(disk)' = Size(disk) /\ Size(Outside)' = Size(Outside)
    BY <1>1, <1>3
  <1>5. /\ AnchorSize \in Nat /\ Overhead \in Nat /\ ByteLimit \in Nat /\ missed.grown \in Nat
        /\ Size(disk) \in Nat /\ Size(Outside) \in Nat /\ Directory \in Nat
    BY SizesAreNumbers
  <1>6. Directory' = Directory - write.old + write.size
    BY <1>1, <1>2, <1>3, <1>4, <1>5 DEF Directory
  <1>7. Directory' <= ByteLimit + Size(Outside)' + missed.grown
    <2>1. Directory - write.old + write.size <= ByteLimit + write.pending + missed.grown
      BY <1>1, FittingWrite DEF Temporary
    <2> QED
      BY <2>1, <1>2, <1>4, <1>5, <1>6
  <1> QED
    BY <1>0, <1>1, <1>6, <1>7, ReplacedBytes DEF Counted

(* The rotation gives back the bytes of the file it removes.               *)
LEMMA UnlinkBytes ==
    ASSUME BytesInv, Unlink
    PROVE  Counted'
  <1>0. EvidenceInv /\ Counted /\ Phased
    BY DEF BytesInv, EvidenceInv
  <1>1. /\ evPc = "anchored" /\ evPc' = "unlinked" /\ window[1] \in disk
        /\ disk' = disk \ {window[1]} /\ UNCHANGED <<anchor, final, window, total, missed>>
    BY DEF Unlink, bookkeeping, counting, history
  <1>2. MayRotate
    BY <1>0, <1>1 DEF Phased, MayRotate, Rotation
  <1>3. Removing /\ Len(window) = MaxCheckpoints
    BY <1>0, <1>1, <1>2 DEF EvidenceInv, Windowed, Located, Removing
  <1>4. /\ window[1].seq \in Nat /\ window[2].seq = window[1].seq + 1 /\ anchor.next = window[2].seq
        /\ (\A f \in disk : ~(f.seq >= window[2].seq) => f = window[1])
    BY <1>0, <1>2, <1>3, FullWindow DEF Removing
  <1>5. Outside = {window[1]} /\ Outside' = {}
    <2>1. Outside = {f \in disk : ~(f.seq >= window[2].seq)}
          /\ Outside' = {f \in disk' : ~(f.seq >= window[2].seq)}
      BY <1>1, <1>4 DEF Outside, Kept
    <2>2. ~(window[1].seq >= window[2].seq)
      BY <1>4
    <2> QED
      BY <2>1, <2>2, <1>1, <1>4
  <1>6. /\ AnchorSize \in Nat /\ Overhead \in Nat /\ ByteLimit \in Nat /\ missed.grown \in Nat
        /\ missed.freed \in Nat /\ total \in Int
        /\ Size(disk) \in Nat /\ Directory \in Nat /\ disk \subseteq File /\ IsFiniteSet(disk)
    BY SizesAreNumbers
  <1>7. IsFiniteSet(disk') /\ disk' \subseteq File
    BY <1>1, <1>6, FS_RemoveElement
  <1>8. Size({window[1]}) = window[1].size /\ window[1].size \in Nat
    BY <1>1, <1>6, SizeOfOne
  <1>9. Size(disk) = window[1].size + Size(disk \ {window[1]}) /\ Size({}) = 0
    BY <1>1, <1>6, SizeFacts
  <1>10. Size(disk') \in Nat
    BY <1>7, SizeFacts
  <1>11. /\ Size(disk)' = Size(disk \ {window[1]}) /\ Size(disk \ {window[1]}) \in Nat
         /\ Size(Outside)' = 0 /\ Size(Outside) = window[1].size
    BY <1>1, <1>5, <1>8, <1>9, <1>10
  <1>12. Directory' = Directory - window[1].size /\ Directory' \in Int
    <2>1. AnchorSize' = AnchorSize
      BY <1>1 DEF AnchorSize
    <2> QED
      BY <2>1, <1>1, <1>6, <1>8, <1>9, <1>11 DEF Directory
  <1>13. Lag = 0 /\ Lag' = -window[1].size
    BY <1>1 DEF Lag
  <1>14. Directory = total + Lag + missed.grown - missed.freed
         /\ Directory <= ByteLimit + Size(Outside) + missed.grown
    BY <1>0, <1>1 DEF Counted
  <1>15. Directory' = total' + Lag' + missed'.grown - missed'.freed
         /\ Directory' <= ByteLimit + Size(Outside)' + missed'.grown
    BY <1>1, <1>6, <1>8, <1>11, <1>12, <1>13, <1>14
  <1> QED
    BY <1>0, <1>1, <1>7, <1>15 DEF Counted

(* The inductive invariant of the byte count: the total is the size of the *)
(* files but for what is on its way, within the limit but for what the     *)
(* anchor has condemned.                                                   *)
THEOREM BytesInvariant == EvidenceSpec => []BytesInv
  <1>1. EvidenceInit => Counted /\ Writing
    <2> SUFFICES ASSUME EvidenceInit PROVE Counted /\ Writing
      OBVIOUS
    <2>1. /\ disk = {} /\ anchor = NoAnchor /\ total = Overhead /\ final = NoReport
          /\ phase = "body" /\ evPc = "idle" /\ temp = 0
          /\ write = [size |-> Overhead, old |-> 0, pending |-> 0]
          /\ missed = [grown |-> 0, freed |-> 0]
      BY DEF EvidenceInit
    <2>2. IsFiniteSet({}) /\ {} \subseteq File
      BY FS_EmptySet
    <2>3. Size({}) = 0
      BY <2>2, SizeFacts
    <2>4. Outside = {} /\ AnchorSize = 0 /\ final.written = FALSE /\ Lag = 0
      BY <2>1 DEF Outside, AnchorSize, NoReport, Lag
    <2>5. Overhead \in Nat /\ ByteLimit \in Nat /\ Overhead <= ByteLimit
      BY EvidenceAssumption
    <2>6. Size(disk) = 0 /\ Size(Outside) = 0
      BY <2>1, <2>3, <2>4
    <2>7. Directory = Overhead
      BY <2>4, <2>5, <2>6 DEF Directory
    <2>m. missed \in [grown : Nat, freed : Nat] /\ missed.grown = 0 /\ missed.freed = 0
      BY <2>1
    <2>n. /\ Directory = total + Lag + missed.grown - missed.freed
          /\ Directory <= ByteLimit + Size(Outside) + missed.grown
      BY <2>1, <2>4, <2>5, <2>6, <2>7, <2>m
    <2>8. Counted
      <3>1. IsFiniteSet(disk) /\ total \in Int
        BY <2>1, <2>2, <2>5
      <3>2. final.written \in BOOLEAN
        BY <2>4
      <3> QED
        BY <3>1, <3>2, <2>m, <2>n DEF Counted
    <2>9. Writing
      BY <2>1, <2>4, <2>5 DEF Writing, Temporary
    <2> QED
      BY <2>8, <2>9
  <1>2. ASSUME BytesInv, UNCHANGED evidenceVars PROVE Counted' /\ Writing'
    <2>1. /\ UNCHANGED <<disk, anchor, final, temp, window, sequence, total, write, evPc, phase,
                         missed>>
          /\ Counted /\ Writing
      BY <1>2 DEF evidenceVars, files, bookkeeping, counting, outcome, history, BytesInv
    <2>2. Outside' = Outside /\ AnchorSize' = AnchorSize /\ Lag' = Lag
          /\ OnDisk(sequence)' = OnDisk(sequence)
      BY <2>1 DEF Outside, Kept, AnchorSize, Lag, OnDisk
    <2>3. Size(disk)' = Size(disk) /\ Size(Outside)' = Size(Outside)
          /\ Size(OnDisk(sequence))' = Size(OnDisk(sequence))
      BY <2>1, <2>2
    <2>4. Directory' = Directory
      BY <2>1, <2>2, <2>3 DEF Directory
    <2> QED
      BY <2>1, <2>2, <2>3, <2>4 DEF Counted, Writing
  <1>3. EvidenceInv /\ EvidenceInv' /\ Counted /\ Writing /\ [EvidenceNext]_evidenceVars
          => Counted' /\ Writing'
    BY <1>2, OpenBytes, CountBytes, ChangedWriting, ReplaceAnchorBytes, ReplaceCheckpointBytes,
       ReplaceFinalBytes, UnlinkBytes DEF BytesInv, EvidenceNext
  <1>4. EvidenceSpec => []EvidenceInv
    BY EvidenceInvariant
  <1> QED
    BY <1>1, <1>3, <1>4, PTL DEF EvidenceSpec, BytesInv

(* Whatever is written, rotated, repeated after a failure, interrupted or  *)
(* left behind by a death, total_bytes of the writer is the real size of   *)
(* the files but for the change under way and the changes an interrupt     *)
(* kept from being counted, and the directory with its temporary file      *)
(* exceeds max_evidence_bytes by no more than the file about to be         *)
(* replaced or removed and the growth that was not counted.                *)
THEOREM DirectoryIsBounded == EvidenceSpec => []BytesBounded
  <1>1. BytesInv => BytesBounded
    <2> SUFFICES ASSUME BytesInv PROVE BytesBounded
      OBVIOUS
    <2>1. Counted /\ Writing /\ temp \in Nat /\ Directory \in Nat
      BY SizesAreNumbers DEF BytesInv
    <2>2. CASE temp > 0
      <3>1. Superseded = write.old + write.pending /\ write.old \in Nat /\ write.pending \in Nat
            /\ ByteLimit \in Nat /\ missed.grown \in Nat
        BY <2>2, SizesAreNumbers DEF Superseded
      <3>2. Directory + temp <= ByteLimit + write.old + write.pending + missed.grown
        BY <2>1, <2>2 DEF Writing
      <3>3. Directory + temp <= ByteLimit + Superseded + missed.grown
        BY <3>1, <3>2, <2>1
      <3> QED
        BY <3>3, <2>1 DEF BytesBounded, Counted
    <2>3. CASE ~(temp > 0)
      <3>1. temp = 0 /\ Superseded = Size(Outside)
        BY <2>1, <2>3 DEF Superseded, Outside
      <3> QED
        BY <3>1, <2>1 DEF BytesBounded, Counted
    <2> QED
      BY <2>2, <2>3
  <1> QED
    BY <1>1, BytesInvariant, PTL

=============================================================================
