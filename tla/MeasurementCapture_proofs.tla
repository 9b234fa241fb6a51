---------------------- MODULE MeasurementCapture_proofs ----------------------
(***************************************************************************)
(* Proofs about MeasurementCapture, for every capacity, point set and      *)
(* manifest: the counters of a capture add up to what was offered to it, a *)
(* digest that was reported is not changed afterwards, a capture reported  *)
(* as valid is complete evidence, and the client accepts every report.     *)
(***************************************************************************)
EXTENDS MeasurementCapture, FiniteSetTheorems, FunctionTheorems, SequenceTheorems, TLAPS

(* end() waits only for a capture that was begun and is no longer active. *)
DrainIsClosed == rpc = "draining" => state \notin {"Idle", "Active"}

(* A sealed digest belongs to a capture that is over and has nothing left. *)
SealedIsOver == sealed => state \in {"Finalized", "TimedOut", "Aborted"} /\ queue = <<>>

(* The inductive invariant. *)
CaptureInv == TypeOK /\ DrainIsClosed /\ SealedIsOver /\ Accounting

(* The idle capture of a new host satisfies the invariant. *)
LEMMA InitCaptureInv == Init => CaptureInv
  <1> SUFFICES ASSUME Init PROVE CaptureInv
    OBVIOUS
  <1>1. <<>> \in Seq(Objects) /\ Len(<<>>) = 0
    OBVIOUS
  <1>2. TypeOK
    BY <1>1 DEF Init, TypeOK, States, Modes, Reasons
  <1>3. Accounting
    <2>1. Len(queue) = 0 /\ Len(arrived) = 0
      BY <1>1 DEF Init
    <2> QED
      BY <2>1 DEF Init, Accounting, Uncounted
  <1> QED
    BY <1>2, <1>3 DEF Init, CaptureInv, DrainIsClosed, SealedIsOver

(* reset_locked leaves empty counters, whose sum is that of no object. *)
LEMMA ResetAdds ==
    ASSUME Reset, catching \in {"none", "own", "old"}
    PROVE  /\ queue' \in Seq(Objects) /\ digest' \in Seq(Objects)
           /\ arrived' \in Seq(Objects)
           /\ received' \in Nat /\ overflow' \in Nat /\ discarded' \in Nat
           /\ seen' \subseteq Points /\ repeats' \in Nat /\ unmatched' \in Nat
           /\ sealed' = FALSE /\ match' = "none" /\ reasons' \subseteq Reasons
           /\ due' \in BOOLEAN /\ failures' \in Nat /\ strays' \in Nat
           /\ catching' \in {"none", "old"}
           /\ Accounting'
  <1>1. <<>> \in Seq(Objects) /\ Len(<<>>) = 0
    OBVIOUS
  <1>2. Accounting'
    <2>1. Len(queue') = 0 /\ Len(arrived') = 0
      BY <1>1 DEF Reset
    <2> QED
      BY <2>1 DEF Reset, Accounting, Uncounted
  <1> QED
    BY <1>1, <1>2 DEF Reset

(* expire_locked leaves a state and reasons of their types; a capture that is *)
(* not active does not expire.                                             *)
LEMMA ExpireTypes ==
    ASSUME TypeOK
    PROVE  /\ State1 \in States /\ Reasons1 \subseteq Reasons /\ Notified1 \in BOOLEAN
           /\ state # "Active" => State1 = state
           /\ State1 # state => State1 = "TimedOut"
           /\ State1 = "Active" => state = "Active"
  BY DEF TypeOK, State1, Reasons1, Notified1, Expires, States, Reasons

(* finalize_event_sequence_locked keeps the digest and the types. *)
LEMMA FinalizeTypes ==
    ASSUME TypeOK, NEW rs \in SUBSET Reasons, FinalizeSequence(rs)
    PROVE  /\ digest' = digest /\ sealed' \in BOOLEAN
           /\ match' \in {"none", "yes", "no"} /\ reasons' \subseteq Reasons
  BY DEF TypeOK, FinalizeSequence, sequence, Reasons

(* process_locked counts the object once as received, and once more as       *)
(* overflowed when it fails.                                               *)
LEMMA ProcessCounts ==
    ASSUME TypeOK, NEW x \in Objects, Process(x)
    PROVE  /\ received' = received + 1
           /\ overflow' + failures = overflow + failures'
           /\ overflow' \in Nat /\ failures' \in Nat
           /\ digest' \in Seq(Objects) /\ seen' \subseteq Points
           /\ repeats' \in Nat /\ unmatched' \in Nat /\ reasons' \subseteq Reasons
           /\ sealed' = sealed /\ match' = match
  <1>1. Reasons1 \subseteq Reasons
    BY ExpireTypes
  <1>2. received' = received + 1 /\ sealed' = sealed /\ match' = match
    BY DEF Process
  <1>3. CASE UNCHANGED <<overflow, failures>>
    <2>1. reasons' \subseteq Reasons
      BY <1>1 DEF Process, Reasons
    <2>2. digest' \in Seq(Objects)
      <3>1. digest' = digest \/ digest' = Append(digest, x)
        BY DEF Process
      <3>2. digest \in Seq(Objects)
        BY DEF TypeOK
      <3> QED
        BY <3>1, <3>2
    <2>3. seen' \subseteq Points /\ repeats' \in Nat /\ unmatched' \in Nat
      BY DEF Process, TypeOK
    <2> QED
      BY <1>2, <1>3, <2>1, <2>2, <2>3 DEF TypeOK
  <1>4. CASE /\ overflow' = overflow + 1 /\ failures' = failures + 1
             /\ reasons' = Reasons1 \cup {"PROCESSING_FAILURE"}
             /\ UNCHANGED <<digest, seen, repeats, unmatched>>
    BY <1>1, <1>2, <1>4 DEF TypeOK, Reasons
  <1> QED
    BY <1>3, <1>4 DEF Process

(* The equation of Accounting: a objects arrived, f failed, s strayed in, r  *)
(* were received, o overflowed, d were discarded, q are queued, u uncounted. *)
Balanced(a, f, s, r, o, d, q, u) == a + f + s = r + o + d + q + u

(* It survives an object that is queued, refused or thrown away ... *)
LEMMA OfferBalances ==
    ASSUME NEW a \in Nat, NEW f \in Nat, NEW s \in Nat, NEW r \in Nat, NEW o \in Nat,
           NEW d \in Nat, NEW q \in Nat, NEW u \in Nat, NEW o2 \in Nat, NEW q2 \in Nat,
           NEW u2 \in Nat,
           Balanced(a, f, s, r, o, d, q, u), o2 + q2 + u2 = o + q + u + 1
    PROVE  Balanced(a + 1, f, s, r, o2, d, q2, u2)
  BY DEF Balanced

(* ... and one that the worker takes. *)
LEMMA TakeBalances ==
    ASSUME NEW a \in Nat, NEW f \in Nat, NEW s \in Nat, NEW r \in Nat, NEW o \in Nat,
           NEW d \in Nat, NEW q \in Nat, NEW u \in Nat, NEW f2 \in Nat, NEW o2 \in Nat,
           Balanced(a, f, s, r, o, d, q, u), o2 + f = o + f2
    PROVE  Balanced(a, f2, s, r + 1, o2, d, q - 1, u)
  BY DEF Balanced

(* Every step of the three threads preserves the invariant. *)
LEMMA NextCaptureInv == CaptureInv /\ [Next]_vars => CaptureInv'
  <1> SUFFICES ASSUME CaptureInv, [Next]_vars PROVE CaptureInv'
    OBVIOUS
  <1>0. TypeOK
    BY DEF CaptureInv
  <1>e. /\ State1 \in States /\ Reasons1 \subseteq Reasons /\ Notified1 \in BOOLEAN
        /\ state # "Active" => State1 = state
        /\ State1 # state => State1 = "TimedOut"
        /\ State1 = "Active" => state = "Active"
    BY <1>0, ExpireTypes
  <1> USE DEF CaptureInv, TypeOK, DrainIsClosed, SealedIsOver, Accounting, Uncounted,
              States, Modes, counters, sequence, threads, history
  <1>1. ASSUME NEW m \in Modes, Begin(m) PROVE CaptureInv'
    <2>1. Reset
      BY <1>1 DEF Begin
    <2> QED
      BY <1>1, <2>1, ResetAdds DEF Begin
  <1>2. CASE BeginFails
    <2>1. Reset
      BY <1>2 DEF BeginFails
    <2> QED
      BY <1>2, <2>1, <1>e, ResetAdds DEF BeginFails
  <1>3. CASE Touch
    BY <1>3, <1>e DEF Touch, Expires
  <1>4. CASE End
    BY <1>4, <1>e DEF End
  <1>5. CASE EndDrained
    <2>1. /\ digest' = digest /\ sealed' \in BOOLEAN
          /\ match' \in {"none", "yes", "no"} /\ reasons' \subseteq Reasons
      <3>1. CASE state = "Finalized"
        BY <1>5, <3>1 DEF EndDrained
      <3>2. CASE state # "Finalized"
        <4>1. reasons \in SUBSET Reasons /\ reasons \cup StaticSetReasons \in SUBSET Reasons
          BY DEF StaticSetReasons, Reasons
        <4>2. FinalizeSequence(IF state = "Finalizing"
                               THEN reasons \cup StaticSetReasons ELSE reasons)
          BY <1>5, <3>2 DEF EndDrained
        <4> QED
          BY <1>0, <4>1, <4>2, FinalizeTypes
      <3> QED
        BY <3>1, <3>2
    <2> QED
      BY <1>5, <2>1 DEF EndDrained
  <1>6. CASE EndTimesOut
    <2>1. /\ digest' = digest /\ sealed' \in BOOLEAN
          /\ match' \in {"none", "yes", "no"} /\ reasons' \subseteq Reasons
      <3>1. reasons \cup {"DRAIN_TIMEOUT"} \in SUBSET Reasons
        BY DEF Reasons
      <3> QED
        BY <1>0, <1>6, <3>1, FinalizeTypes DEF EndTimesOut
    <2>2. <<>> \in Seq(Objects) /\ Len(<<>>) = 0 /\ Len(queue) \in Nat
      OBVIOUS
    <2> QED
      BY <1>6, <2>1, <2>2 DEF EndTimesOut
  <1>7. ASSUME NEW reason \in {"SESSION_DISCONNECTED", "HOST_SHUTDOWN"}, Abort(reason)
        PROVE  CaptureInv'
    <2>1. /\ digest' = digest /\ sealed' \in BOOLEAN
          /\ match' \in {"none", "yes", "no"} /\ reasons' \subseteq Reasons
      <3>1. reasons \cup {reason} \in SUBSET Reasons
        BY DEF Reasons
      <3> QED
        BY <1>0, <1>7, <3>1, FinalizeTypes DEF Abort
    <2>2. <<>> \in Seq(Objects) /\ Len(<<>>) = 0 /\ Len(queue) \in Nat
      OBVIOUS
    <2> QED
      BY <1>7, <2>1, <2>2 DEF Abort
  <1>8. CASE Destroy
    <2>1. <<>> \in Seq(Objects)
      OBVIOUS
    <2> QED
      BY <1>8, <2>1 DEF Destroy, Reasons
  <1>9. CASE Joined
    <2>1. Reset
      BY <1>9 DEF Joined
    <2> QED
      BY <1>9, <2>1, ResetAdds DEF Joined
  <1>10. ASSUME NEW x \in Objects, RecordObject(x) PROVE CaptureInv'
    <2>1. /\ Append(queue, x) \in Seq(Objects) /\ Len(Append(queue, x)) = Len(queue) + 1
          /\ Append(arrived, x) \in Seq(Objects)
          /\ Len(Append(arrived, x)) = Len(arrived) + 1
          /\ Len(queue) \in Nat /\ Len(arrived) \in Nat
      BY <1>10
    <2>2. /\ arrived' = Append(arrived, x) /\ state = "Active"
          /\ UNCHANGED <<state, mode, received, discarded, seen, repeats, unmatched,
                         sequence, due, threads, catching, failures, strays>>
      BY <1>10, <1>e DEF RecordObject, Offered
    <2>3. \/ queue' = Append(queue, x) /\ woken' = TRUE /\ UNCHANGED <<overflow, reasons>>
          \/ /\ overflow' = overflow + 1 /\ UNCHANGED <<queue, woken>>
             /\ reasons' \subseteq Reasons
      BY <1>10 DEF RecordObject, Reasons
    <2>4. overflow' \in Nat /\ reasons' \subseteq Reasons /\ woken' \in BOOLEAN
      <3>1. woken' \in BOOLEAN
        BY <2>3, Zenon
      <3>2. overflow' = overflow \/ overflow' = overflow + 1
        BY <2>3
      <3>3. reasons' \subseteq Reasons
        BY <2>3
      <3> QED
        BY <3>1, <3>2, <3>3
    <2>5. queue' \in Seq(Objects)
      <3>1. queue' = Append(queue, x) \/ queue' = queue
        BY <2>3
      <3> QED
        BY <2>1, <3>1
    <2>6. arrived' \in Seq(Objects)
      BY <2>1, <2>2
    <2>7. TypeOK'
      BY <2>2, <2>4, <2>5, <2>6
    <2>8. Accounting'
      <3>1. Len(arrived') = Len(arrived) + 1
        BY <2>1, <2>2
      <3>2. overflow' + Len(queue') = overflow + Len(queue) + 1 /\ Len(queue') \in Nat
        <4>1. CASE queue' = Append(queue, x) /\ overflow' = overflow
          BY <2>1, <4>1
        <4>2. CASE queue' = queue /\ overflow' = overflow + 1
          BY <2>1, <4>2
        <4> QED
          BY <2>3, <4>1, <4>2
      <3>3. /\ received \in Nat /\ overflow \in Nat /\ discarded \in Nat
            /\ failures \in Nat /\ strays \in Nat
        OBVIOUS
      <3>4. /\ stopping' = stopping /\ failures' = failures /\ received' = received
            /\ discarded' = discarded /\ strays' = strays /\ Uncounted' = Uncounted
        BY <2>2
      <3>5. /\ overflow' \in Nat /\ Len(queue) \in Nat /\ Len(arrived) \in Nat
            /\ Uncounted \in Nat
        BY <2>1, <2>4
      <3> HIDE DEF Uncounted
      <3> SUFFICES ASSUME ~stopping'
                   PROVE  Balanced(Len(arrived'), failures', strays', received', overflow',
                                   discarded', Len(queue'), Uncounted')
        BY DEF Balanced
      <3>6. Balanced(Len(arrived), failures, strays, received, overflow, discarded,
                     Len(queue), Uncounted)
        BY <3>4 DEF Balanced
      <3>7. overflow' + Len(queue') + Uncounted = overflow + Len(queue) + Uncounted + 1
        BY <3>2, <3>3, <3>5
      <3>8. Balanced(Len(arrived) + 1, failures, strays, received, overflow', discarded,
                     Len(queue'), Uncounted)
        BY <3>2, <3>3, <3>5, <3>6, <3>7, OfferBalances, Zenon
      <3> QED
        BY <3>1, <3>4, <3>8, Zenon
    <2> QED
      BY <2>2, <2>7, <2>8
  <1>11. CASE WorkerTakes
    <2>1. /\ Head(queue) \in Objects /\ Tail(queue) \in Seq(Objects)
          /\ Len(Tail(queue)) = Len(queue) - 1 /\ Len(queue) \in Nat
          /\ Len(arrived) \in Nat /\ queue # <<>>
      BY <1>11 DEF WorkerTakes
    <2>2. Process(Head(queue))
      BY <1>11 DEF WorkerTakes
    <2>3. /\ received' = received + 1
          /\ overflow' + failures = overflow + failures'
          /\ overflow' \in Nat /\ failures' \in Nat
          /\ digest' \in Seq(Objects) /\ seen' \subseteq Points
          /\ repeats' \in Nat /\ unmatched' \in Nat /\ reasons' \subseteq Reasons
          /\ sealed' = sealed /\ match' = match
      BY <1>0, <2>1, <2>2, ProcessCounts
    <2>4. /\ queue' = Tail(queue) /\ state' = State1
          /\ UNCHANGED <<mode, discarded, due, threads, woken, catching, arrived, strays>>
      BY <1>11 DEF WorkerTakes
    <2>5. TypeOK'
      BY <1>e, <2>1, <2>3, <2>4
    <2>6. Accounting'
      <3>1. /\ Len(queue') = Len(queue) - 1 /\ Len(arrived') = Len(arrived)
            /\ discarded' = discarded /\ stopping' = stopping /\ strays' = strays
            /\ Uncounted' = Uncounted
        BY <2>1, <2>4
      <3>2. /\ received \in Nat /\ overflow \in Nat /\ discarded \in Nat
            /\ failures \in Nat /\ strays \in Nat /\ Uncounted \in Nat
        OBVIOUS
      <3>3. /\ Len(queue) \in Nat /\ Len(arrived) \in Nat
            /\ overflow' \in Nat /\ failures' \in Nat /\ received' = received + 1
            /\ overflow' + failures = overflow + failures'
        BY <2>1, <2>3
      <3> HIDE DEF Uncounted
      <3> SUFFICES ASSUME ~stopping'
                   PROVE  Balanced(Len(arrived'), failures', strays', received', overflow',
                                   discarded', Len(queue'), Uncounted')
        BY DEF Balanced
      <3>4. Balanced(Len(arrived), failures, strays, received, overflow, discarded,
                     Len(queue), Uncounted)
        BY <3>1 DEF Balanced
      <3>5. Balanced(Len(arrived), failures', strays, received + 1, overflow', discarded,
                     Len(queue) - 1, Uncounted)
        BY <3>2, <3>3, <3>4, TakeBalances, Zenon
      <3> QED
        BY <3>1, <3>3, <3>5, Zenon
    <2> QED
      BY <1>e, <2>1, <2>3, <2>4, <2>5, <2>6
  <1>12. CASE WorkerWaits
    BY <1>12, <1>e DEF WorkerWaits
  <1>13. CASE WorkerWakes
    <2>1. /\ worker' \in {"loop", worker} /\ woken' = FALSE
          /\ UNCHANGED <<state, mode, queue, counters, sequence, reasons, due, rpc, stopping,
                         catching, history>>
      BY <1>13 DEF WorkerWakes
    <2>2. worker' \in {"loop", "wait_active", "wait_idle", "exited"} /\ woken' \in BOOLEAN
      BY <2>1
    <2>3. TypeOK'
      BY <2>1, <2>2
    <2>4. Accounting'
      BY <2>1
    <2> QED
      BY <2>1, <2>3, <2>4
  <1>14. CASE WorkerExits
    BY <1>14 DEF WorkerExits
  <1>15. CASE DeadlinePasses
    BY <1>15 DEF DeadlinePasses
  <1>16. CASE UNCHANGED vars
    BY <1>16 DEF vars
  <1>17. ASSUME NEW x \in Objects, EnqueueThrows(x) PROVE CaptureInv'
    <2>1. /\ arrived' = Append(arrived, x) /\ catching = "none" /\ catching' = "own"
          /\ UNCHANGED <<state, mode, queue, counters, sequence, reasons, due, threads,
                         woken, failures, strays>>
      BY <1>17 DEF EnqueueThrows, Offered
    <2>2. arrived' \in Seq(Objects) /\ Len(arrived') = Len(arrived) + 1 /\ Len(arrived) \in Nat
      BY <1>17, <2>1
    <2>3. Uncounted = 0 /\ Uncounted' = 1
      BY <2>1
    <2>4. TypeOK'
      BY <2>1, <2>2
    <2>5. Accounting'
      <3> DEFINE q == Len(queue)
                 a == Len(arrived)
      <3>1. q \in Nat /\ Len(queue') = q /\ a \in Nat /\ Len(arrived') = a + 1
        BY <2>1, <2>2
      <3>2. ~stopping => a + failures + strays = received + overflow + discarded + q + Uncounted
        OBVIOUS
      <3>3. UNCHANGED <<received, overflow, discarded, failures, strays, stopping>>
        BY <2>1
      <3> HIDE DEF q, a, Uncounted
      <3> QED
        BY <2>3, <3>1, <3>2, <3>3
    <2> QED
      BY <2>1, <2>4, <2>5
  <1>18. CASE EnqueueCounted
    <2>1. /\ overflow' = overflow + 1 /\ reasons' = reasons \cup {"ENQUEUE_FAILURE"}
          /\ catching # "none" /\ catching' = "none"
          /\ strays' = IF catching = "old" THEN strays + 1 ELSE strays
          /\ UNCHANGED <<state, mode, queue, received, discarded, seen, repeats, unmatched,
                         sequence, due, threads, woken, arrived, failures>>
      BY <1>18 DEF EnqueueCounted
    <2>2. reasons' \subseteq Reasons
      BY <2>1 DEF Reasons
    <2>3. strays' + Uncounted = strays + 1 /\ Uncounted' = 0 /\ strays' \in Nat
          /\ Uncounted \in Nat
      BY <2>1
    <2>4. TypeOK'
      BY <2>1, <2>2, <2>3
    <2>5. Accounting'
      <3> DEFINE q == Len(queue)
                 a == Len(arrived)
      <3>1. q \in Nat /\ Len(queue') = q /\ a \in Nat /\ Len(arrived') = a
        BY <2>1
      <3>2. ~stopping => a + failures + strays = received + overflow + discarded + q + Uncounted
        OBVIOUS
      <3> HIDE DEF q, a, Uncounted
      <3> QED
        BY <2>1, <2>3, <3>1, <3>2
    <2> QED
      BY <2>1, <2>4, <2>5
  <1> QED
    BY <1>1, <1>2, <1>3, <1>4, <1>5, <1>6, <1>7, <1>8, <1>9, <1>10, <1>11, <1>12,
       <1>13, <1>14, <1>15, <1>16, <1>17, <1>18 DEF Next

(* The inductive invariant holds in every reachable state of the capture. *)
THEOREM CaptureInvariant == Spec => []CaptureInv
  BY InitCaptureInv, NextCaptureInv, PTL DEF Spec

(***************************************************************************)
(* Nothing is lost silently: whatever the capacity, however many objects   *)
(* arrive and whatever throws, the counters a capture reports add up to    *)
(* the objects that were offered to it, but for the one whose record_object *)
(* is between its throw and its catch block, and for the failures that such *)
(* a call of an earlier capture has counted in this one.                   *)
(***************************************************************************)
THEOREM NothingLostSilently == Spec => []Accounting
  BY CaptureInvariant, PTL DEF CaptureInv

(***************************************************************************)
(* Once end() or abort() has reported the digest of the received sequence, *)
(* neither it nor the count that goes with it changes before the next      *)
(* begin().                                                                *)
(***************************************************************************)
THEOREM ReportedDigestIsFinal == Spec => SealedIsFinal
  <1>1. CaptureInv /\ [Next]_vars =>
           [sealed /\ sealed' => received' = received /\ digest' = digest]_vars
    <2> SUFFICES ASSUME CaptureInv, Next, sealed, sealed'
                 PROVE  received' = received /\ digest' = digest
      OBVIOUS
    <2> USE DEF counters, sequence
    <2>1. queue = <<>> /\ state # "Active" /\ TypeOK
      BY DEF CaptureInv, SealedIsOver
    <2>2. ~Reset
      BY DEF Reset
    <2>3. ~(\E x \in Objects : RecordObject(x) \/ EnqueueThrows(x)) /\ ~WorkerTakes
      BY <2>1 DEF RecordObject, EnqueueThrows, Offered, WorkerTakes, State1, Expires
    <2>4. CASE EndDrained \/ EndTimesOut
               \/ \E reason \in {"SESSION_DISCONNECTED", "HOST_SHUTDOWN"} : Abort(reason)
      BY <2>4 DEF EndDrained, EndTimesOut, Abort, FinalizeSequence
    <2>5. CASE Touch \/ End \/ Destroy \/ WorkerWaits \/ WorkerWakes \/ WorkerExits
               \/ DeadlinePasses \/ EnqueueCounted
      BY <2>5 DEF Touch, End, Destroy, WorkerWaits, WorkerWakes, WorkerExits,
                  DeadlinePasses, EnqueueCounted
    <2> QED
      BY <2>2, <2>3, <2>4, <2>5 DEF Next, Begin, BeginFails, Joined
  <1> QED
    BY <1>1, CaptureInvariant, PTL DEF Spec, SealedIsFinal

-----------------------------------------------------------------------------
(***************************************************************************)
(* Complete evidence.  While no reason against the capture is known, the   *)
(* objects that came in are, in order, the received and the queued ones    *)
(* and at most one whose enqueue has just thrown;                          *)
(* the digest is the received part, the bits and the counters of a static  *)
(* set describe it; and finalization has looked at all of it.              *)
(***************************************************************************)
Bounded == Len(queue) <= Capacity /\ received + Len(queue) <= Len(arrived)

Ordered ==
    reasons = {} =>
        /\ overflow = 0
        /\ received + Len(queue) + Uncounted = Len(arrived)
        /\ \A j \in 1..Len(queue) : arrived[received + j] = queue[j]

Digested ==
    reasons = {} /\ mode = "event_sequence" =>
        Len(digest) = received /\ \A i \in 1..received : digest[i] = arrived[i]

Ticked ==
    reasons = {} /\ mode = "static_set" =>
        /\ \A i \in 1..received : arrived[i] \in Points => arrived[i] \in seen
        /\ \A x \in seen : \E i \in 1..received : arrived[i] = x
        /\ unmatched = 0 => \A i \in 1..received : arrived[i] \in Points
        /\ repeats = 0 => \A i, j \in 1..received :
                             i # j /\ arrived[i] = arrived[j] => arrived[i] \notin Points

Closed ==
    /\ match = "yes" => sealed /\ SequenceMatches
    /\ match = "no" /\ "DIGEST_FAILURE" \notin reasons => sealed /\ reasons # {}
    /\ sealed => match # "none"
    /\ state = "Finalized" =>
          /\ queue = <<>>
          /\ mode = "event_sequence" => match # "none"
          /\ reasons = {} /\ mode = "static_set" =>
                seen = Points /\ repeats = 0 /\ unmatched = 0

CompleteInv == CaptureInv /\ Bounded /\ Ordered /\ Digested /\ Ticked /\ Closed

Evidence == Bounded /\ Ordered /\ Digested /\ Ticked

(* One more object at the end of what came in and of the queue.            *)
LEMMA OfferInOrder ==
    ASSUME NEW a \in Seq(Objects), NEW q \in Seq(Objects), NEW n \in Nat, NEW x \in Objects,
           n + Len(q) = Len(a), \A j \in 1..Len(q) : a[n + j] = q[j]
    PROVE  /\ n + Len(Append(q, x)) = Len(Append(a, x))
           /\ \A j \in 1..Len(Append(q, x)) : Append(a, x)[n + j] = Append(q, x)[j]
  <1> DEFINE b == Append(a, x)
             r == Append(q, x)
  <1>1. /\ Len(b) = Len(a) + 1 /\ \A i \in 1..Len(a) : b[i] = a[i]
        /\ b[Len(a) + 1] = x
    BY AppendProperties
  <1>2. /\ Len(r) = Len(q) + 1 /\ \A i \in 1..Len(q) : r[i] = q[i]
        /\ r[Len(q) + 1] = x
    BY AppendProperties
  <1>3. Len(a) \in Nat /\ Len(q) \in Nat
    OBVIOUS
  <1> HIDE DEF b, r
  <1>4. ASSUME NEW j \in 1..Len(r) PROVE b[n + j] = r[j]
    <2>1. CASE j \in 1..Len(q)
      BY <1>1, <1>2, <1>3, <2>1
    <2>2. CASE j = Len(q) + 1
      BY <1>1, <1>2, <1>3, <2>2
    <2> QED
      BY <1>2, <1>3, <2>1, <2>2
  <1>5. n + Len(r) = Len(b)
    BY <1>1, <1>2, <1>3
  <1> QED
    BY <1>4, <1>5 DEF b, r

(* The head of the queue is the next of what came in.                      *)
LEMMA TakeInOrder ==
    ASSUME NEW a \in Seq(Objects), NEW q \in Seq(Objects), NEW n \in Nat, q # <<>>,
           \A j \in 1..Len(q) : a[n + j] = q[j]
    PROVE  /\ n + 1 + Len(Tail(q)) = n + Len(q) /\ a[n + 1] = Head(q)
           /\ \A j \in 1..Len(Tail(q)) : a[n + 1 + j] = Tail(q)[j]
  <1> DEFINE r == Tail(q)
  <1>1. /\ Len(r) = Len(q) - 1 /\ \A i \in 1..Len(r) : r[i] = q[i + 1]
    BY HeadTailProperties
  <1>2. Len(q) \in Nat /\ Len(q) # 0 /\ Head(q) = q[1]
    OBVIOUS
  <1> HIDE DEF r
  <1>3. a[n + 1] = q[1]
    BY <1>2
  <1>4. ASSUME NEW j \in 1..Len(r) PROVE a[n + 1 + j] = r[j]
    <2>1. j + 1 \in 1..Len(q) /\ n + (j + 1) = n + 1 + j
      BY <1>1, <1>2
    <2> QED
      BY <1>1, <2>1
  <1> QED
    BY <1>1, <1>2, <1>3, <1>4 DEF r

(* A step that counts nothing and forgets no reason.                       *)
LEMMA QuietEvidence ==
    ASSUME Evidence,
           UNCHANGED <<mode, queue, received, overflow, seen, repeats, unmatched, digest, arrived,
                       catching>>,
           reasons \subseteq reasons'
    PROVE  Evidence'
  BY DEF Evidence, Bounded, Ordered, Digested, Ticked, Uncounted

(* A step after which there is a reason, and whose queue is not longer.    *)
LEMMA SpoiledEvidence ==
    ASSUME TypeOK, Evidence, queue' = <<>> \/ queue' = queue, UNCHANGED <<received, arrived>>,
           reasons' # {}
    PROVE  Evidence'
  <1>1. Len(queue') <= Len(queue) /\ Len(queue') \in Nat /\ Len(queue) \in Nat
    BY DEF TypeOK
  <1>2. Bounded'
    BY <1>1, CaptureAssumption DEF Evidence, Bounded, TypeOK
  <1> QED
    BY <1>2 DEF Evidence, Ordered, Digested, Ticked

(* A capture that has just been reset, and the state it is left in.        *)
LEMMA ResetEvidence ==
    ASSUME Reset, state' # "Finalized"
    PROVE  Evidence' /\ Closed'
  <1>1. Len(queue') = 0 /\ Len(arrived') = 0 /\ Len(digest') = 0 /\ received' = 0
    BY DEF Reset
  <1>2. Bounded' /\ Ordered' /\ Digested' /\ Ticked'
    BY <1>1, CaptureAssumption DEF Reset, Bounded, Ordered, Digested, Ticked, Uncounted
  <1> QED
    BY <1>2 DEF Reset, Evidence, Closed

(* An object that is offered while the capture is open.                    *)
LEMMA OfferEvidence ==
    ASSUME TypeOK, Evidence, NEW x \in Objects, RecordObject(x)
    PROVE  Evidence'
  <1>1. /\ queue \in Seq(Objects) /\ arrived \in Seq(Objects) /\ received \in Nat
        /\ Len(queue) \in Nat /\ Len(arrived) \in Nat /\ Capacity \in Nat
    BY CaptureAssumption DEF TypeOK
  <1>2. /\ Len(Append(queue, x)) = Len(queue) + 1 /\ Len(Append(arrived, x)) = Len(arrived) + 1
        /\ \A i \in 1..Len(arrived) : Append(arrived, x)[i] = arrived[i]
    BY <1>1, AppendProperties
  <1>3. /\ arrived' = Append(arrived, x)
        /\ UNCHANGED <<mode, received, seen, repeats, unmatched, digest, catching>>
        /\ Uncounted = 0 /\ Uncounted' = 0
    BY DEF RecordObject, Offered, sequence, Uncounted
  <1>4. Bounded
    BY DEF Evidence
  <1>5. CASE Len(queue) < Capacity /\ queue' = Append(queue, x) /\ UNCHANGED <<overflow, reasons>>
    <2>1. Bounded'
      <3>1. Len(queue') = Len(queue) + 1 /\ Len(arrived') = Len(arrived) + 1
        BY <1>2, <1>3, <1>5
      <3> QED
        BY <1>1, <1>3, <1>4, <1>5, <3>1 DEF Bounded
    <2>2. ASSUME reasons = {} PROVE Ordered' /\ Digested' /\ Ticked'
      <3>1. /\ overflow = 0 /\ received + Len(queue) = Len(arrived)
            /\ \A j \in 1..Len(queue) : arrived[received + j] = queue[j]
        BY <1>1, <1>3, <2>2 DEF Evidence, Ordered
      <3>2. /\ received + Len(Append(queue, x)) = Len(Append(arrived, x))
            /\ \A j \in 1..Len(Append(queue, x)) :
                  Append(arrived, x)[received + j] = Append(queue, x)[j]
        BY <1>1, <3>1, OfferInOrder
      <3>3. Ordered'
        <4>1. Len(Append(arrived, x)) \in Nat /\ Len(Append(queue, x)) \in Nat
          BY <1>1, <1>2
        <4>2. received + Len(queue') + Uncounted' = Len(arrived')
          BY <1>1, <1>3, <1>5, <3>2, <4>1
        <4> QED
          BY <1>3, <1>5, <3>1, <3>2, <4>2 DEF Ordered
      <3>4. \A i \in 1..received : arrived'[i] = arrived[i]
        <4>1. \A i \in 1..received : i \in 1..Len(arrived)
          BY <1>1, <3>1
        <4> QED
          BY <1>2, <1>3, <4>1
      <3>5. Digested'
        BY <1>3, <1>5, <3>4 DEF Evidence, Digested
      <3>6. Ticked'
        <4> SUFFICES ASSUME mode = "static_set" PROVE Ticked'
          BY <1>3 DEF Ticked
        <4>1. /\ \A i \in 1..received : arrived[i] \in Points => arrived[i] \in seen
              /\ \A y \in seen : \E i \in 1..received : arrived[i] = y
              /\ unmatched = 0 => \A i \in 1..received : arrived[i] \in Points
              /\ repeats = 0 => \A i, j \in 1..received :
                                   i # j /\ arrived[i] = arrived[j] => arrived[i] \notin Points
          BY <2>2 DEF Evidence, Ticked
        <4>2. /\ \A i \in 1..received : arrived'[i] \in Points => arrived'[i] \in seen
              /\ \A y \in seen : \E i \in 1..received : arrived'[i] = y
              /\ unmatched = 0 => \A i \in 1..received : arrived'[i] \in Points
              /\ repeats = 0 => \A i, j \in 1..received :
                                   i # j /\ arrived'[i] = arrived'[j] => arrived'[i] \notin Points
          BY <3>4, <4>1
        <4> QED
          BY <1>3, <4>2 DEF Ticked
      <3> QED
        BY <3>3, <3>5, <3>6
    <2>3. reasons # {} => Ordered' /\ Digested' /\ Ticked'
      BY <1>5 DEF Ordered, Digested, Ticked
    <2> QED
      BY <2>1, <2>2, <2>3 DEF Evidence
  <1>6. CASE UNCHANGED queue /\ reasons' # {}
    <2>1. Bounded'
      <3>1. Len(queue') = Len(queue) /\ Len(arrived') = Len(arrived) + 1
        BY <1>2, <1>3, <1>6
      <3> QED
        BY <1>1, <1>3, <1>4, <3>1 DEF Bounded
    <2> QED
      BY <1>6, <2>1 DEF Evidence, Ordered, Digested, Ticked
  <1> QED
    BY <1>5, <1>6 DEF RecordObject

(* An object that is offered and cannot be queued.                         *)
LEMMA ThrowEvidence ==
    ASSUME TypeOK, Evidence, NEW x \in Objects, EnqueueThrows(x)
    PROVE  Evidence'
  <1>1. /\ queue \in Seq(Objects) /\ arrived \in Seq(Objects) /\ received \in Nat
        /\ Len(queue) \in Nat /\ Len(arrived) \in Nat
    BY DEF TypeOK
  <1>2. /\ Len(Append(arrived, x)) = Len(arrived) + 1
        /\ \A i \in 1..Len(arrived) : Append(arrived, x)[i] = arrived[i]
    BY <1>1, AppendProperties
  <1>3. /\ arrived' = Append(arrived, x) /\ Uncounted = 0 /\ Uncounted' = 1
        /\ UNCHANGED <<mode, queue, received, overflow, seen, repeats, unmatched, digest, reasons>>
    BY DEF EnqueueThrows, Offered, counters, sequence, Uncounted
  <1>4. Bounded'
    BY <1>1, <1>2, <1>3 DEF Evidence, Bounded
  <1> SUFFICES ASSUME reasons = {} PROVE Ordered' /\ Digested' /\ Ticked'
    BY <1>3, <1>4 DEF Evidence, Ordered, Digested, Ticked
  <1>5. /\ overflow = 0 /\ received + Len(queue) = Len(arrived)
        /\ \A j \in 1..Len(queue) : arrived[received + j] = queue[j]
    BY <1>1, <1>3 DEF Evidence, Ordered
  <1>6. /\ \A j \in 1..Len(queue) : received + j \in 1..Len(arrived)
        /\ \A i \in 1..received : i \in 1..Len(arrived)
    BY <1>1, <1>5
  <1>7. \A i \in 1..received : arrived'[i] = arrived[i]
    BY <1>2, <1>3, <1>6
  <1>8. Ordered'
    <2>1. received' + Len(queue') + Uncounted' = Len(arrived')
      BY <1>1, <1>2, <1>3, <1>5
    <2>2. \A j \in 1..Len(queue) : arrived'[received + j] = queue[j]
      BY <1>2, <1>3, <1>5, <1>6
    <2> QED
      BY <1>3, <1>5, <2>1, <2>2 DEF Ordered
  <1>9. Digested'
    BY <1>3, <1>7 DEF Evidence, Digested
  <1>10. Ticked'
    <2> SUFFICES ASSUME mode = "static_set" PROVE Ticked'
      BY <1>3 DEF Ticked
    <2>1. /\ \A i \in 1..received : arrived[i] \in Points => arrived[i] \in seen
          /\ \A y \in seen : \E i \in 1..received : arrived[i] = y
          /\ unmatched = 0 => \A i \in 1..received : arrived[i] \in Points
          /\ repeats = 0 => \A i, j \in 1..received :
                               i # j /\ arrived[i] = arrived[j] => arrived[i] \notin Points
      BY DEF Evidence, Ticked
    <2>2. /\ \A i \in 1..received : arrived'[i] \in Points => arrived'[i] \in seen
          /\ \A y \in seen : \E i \in 1..received : arrived'[i] = y
          /\ unmatched = 0 => \A i \in 1..received : arrived'[i] \in Points
          /\ repeats = 0 => \A i, j \in 1..received :
                               i # j /\ arrived'[i] = arrived'[j] => arrived'[i] \notin Points
      BY <1>7, <2>1
    <2> QED
      BY <1>3, <2>2 DEF Ticked
  <1> QED
    BY <1>8, <1>9, <1>10

(* An object that the worker takes from the queue.                         *)
LEMMA TakeEvidence ==
    ASSUME TypeOK, Evidence, WorkerTakes
    PROVE  Evidence'
  <1>1. /\ queue \in Seq(Objects) /\ arrived \in Seq(Objects) /\ digest \in Seq(Objects)
        /\ received \in Nat /\ repeats \in Nat /\ unmatched \in Nat /\ Len(queue) \in Nat
        /\ Len(arrived) \in Nat /\ Capacity \in Nat /\ queue # <<>>
    BY CaptureAssumption DEF TypeOK, WorkerTakes
  <1>2. Head(queue) \in Objects /\ Len(Tail(queue)) = Len(queue) - 1
    BY <1>1, HeadTailProperties
  <1> DEFINE x == Head(queue)
  <1>3. /\ queue' = Tail(queue) /\ UNCHANGED <<mode, arrived>> /\ received' = received + 1
        /\ Process(x) /\ reasons \subseteq reasons'
        /\ Uncounted' = Uncounted /\ Uncounted \in Nat
    BY DEF WorkerTakes, Process, Reasons1, Uncounted
  <1> HIDE DEF x
  <1>4. Bounded'
    <2>1. Len(queue') = Len(queue) - 1
      BY <1>2, <1>3
    <2> QED
      BY <1>1, <1>3, <2>1 DEF Evidence, Bounded
  <1> SUFFICES ASSUME reasons' = {} PROVE Ordered' /\ Digested' /\ Ticked'
    BY <1>4 DEF Evidence, Ordered, Digested, Ticked
  <1>5. reasons = {}
    BY <1>3
  <1>6. /\ UNCHANGED overflow
        /\ digest' = IF mode = "event_sequence" THEN Append(digest, x) ELSE digest
        /\ mode = "static_set" =>
              /\ seen' = seen \cup ({x} \cap Points)
              /\ repeats' = IF x \in seen THEN repeats + 1 ELSE repeats
              /\ unmatched' = IF x \notin Points THEN unmatched + 1 ELSE unmatched
    BY <1>3 DEF Process
  <1>7. /\ overflow = 0 /\ received + Len(queue) + Uncounted = Len(arrived)
        /\ \A j \in 1..Len(queue) : arrived[received + j] = queue[j]
    BY <1>5 DEF Evidence, Ordered
  <1>8. /\ received + 1 + Len(Tail(queue)) = received + Len(queue)
        /\ arrived[received + 1] = x
        /\ \A j \in 1..Len(Tail(queue)) : arrived[received + 1 + j] = Tail(queue)[j]
    BY <1>1, <1>7, TakeInOrder DEF x
  <1>9. Ordered'
    <2>1. received' + Len(queue') + Uncounted' = Len(arrived')
      BY <1>1, <1>2, <1>3, <1>7, <1>8
    <2> QED
      BY <1>3, <1>6, <1>7, <1>8, <2>1 DEF Ordered
  <1>10. \A i \in 1..(received + 1) : i \in 1..received \/ i = received + 1
    BY <1>1
  <1>11. Digested'
    <2> SUFFICES ASSUME mode = "event_sequence"
                 PROVE  Len(digest') = received + 1 /\ \A i \in 1..(received + 1) : digest'[i] = arrived[i]
      BY <1>3 DEF Digested
    <2>1. Len(digest) = received /\ \A i \in 1..received : digest[i] = arrived[i]
      BY <1>5 DEF Evidence, Digested
    <2>2. /\ digest' = Append(digest, x) /\ Len(Append(digest, x)) = Len(digest) + 1
          /\ \A i \in 1..Len(digest) : Append(digest, x)[i] = digest[i]
          /\ Append(digest, x)[Len(digest) + 1] = x
      BY <1>1, <1>2, <1>6, AppendProperties DEF x
    <2> QED
      BY <1>8, <1>10, <2>1, <2>2
  <1>12. Ticked'
    <2> SUFFICES ASSUME mode = "static_set" PROVE Ticked'
      BY <1>3 DEF Ticked
    <2>1. /\ \A i \in 1..received : arrived[i] \in Points => arrived[i] \in seen
          /\ \A y \in seen : \E i \in 1..received : arrived[i] = y
          /\ unmatched = 0 => \A i \in 1..received : arrived[i] \in Points
          /\ repeats = 0 => \A i, j \in 1..received :
                               i # j /\ arrived[i] = arrived[j] => arrived[i] \notin Points
      BY <1>5 DEF Evidence, Ticked
    <2>i. received + 1 \in 1..(received + 1) /\ \A i \in 1..received : i \in 1..(received + 1)
      BY <1>1
    <2>2. \A i \in 1..(received + 1) : arrived[i] \in Points => arrived[i] \in seen'
      BY <1>6, <1>8, <1>10, <2>1
    <2>3. \A y \in seen' : \E i \in 1..(received + 1) : arrived[i] = y
      BY <1>6, <1>8, <2>i, <2>1
    <2>4. unmatched' = 0 => unmatched = 0 /\ x \in Points
      BY <1>1, <1>6
    <2>5. unmatched' = 0 => \A i \in 1..(received + 1) : arrived[i] \in Points
      BY <1>8, <1>10, <2>1, <2>4
    <2>6. repeats' = 0 => repeats = 0 /\ x \notin seen
      BY <1>1, <1>6
    <2>7. repeats' = 0 => \A i, j \in 1..(received + 1) :
                             i # j /\ arrived[i] = arrived[j] => arrived[i] \notin Points
      BY <1>8, <1>10, <2>1, <2>6
    <2> QED
      BY <1>3, <2>2, <2>3, <2>5, <2>7 DEF Ticked
  <1> QED
    BY <1>9, <1>11, <1>12

(* What finalize_event_sequence_locked makes of the reasons rs.            *)
LEMMA FinalizeCloses ==
    ASSUME Closed, NEW rs, reasons \subseteq rs, "DIGEST_FAILURE" \in rs => "DIGEST_FAILURE" \in reasons,
           FinalizeSequence(rs), UNCHANGED <<mode, received>>
    PROVE  /\ rs \subseteq reasons' /\ digest' = digest
           /\ match' = "yes" => sealed' /\ SequenceMatches'
           /\ match' = "no" /\ "DIGEST_FAILURE" \notin reasons' => sealed' /\ reasons' # {}
           /\ sealed' => match' # "none"
           /\ mode = "event_sequence" => match' # "none"
  <1>1. CASE mode # "event_sequence" \/ sealed
    BY <1>1 DEF FinalizeSequence, Closed, sequence, SequenceMatches
  <1>2. CASE ~(mode # "event_sequence" \/ sealed)
    BY <1>2 DEF FinalizeSequence, Closed, SequenceMatches
  <1> QED
    BY <1>1, <1>2

(* Every step keeps the evidence and what was said about it.               *)
LEMMA NextComplete ==
    ASSUME CompleteInv, [Next]_vars
    PROVE  Evidence' /\ Closed'
  <1>0. TypeOK /\ DrainIsClosed /\ SealedIsOver /\ Evidence /\ Closed
    BY DEF CompleteInv, CaptureInv, Evidence
  <1>e. Reasons1 \in {reasons, reasons \cup {"DEADLINE_EXCEEDED"}}
        /\ (State1 = "Finalized" => state = "Finalized")
    BY DEF Reasons1, State1
  <1>1. ASSUME NEW m \in Modes, Begin(m) PROVE Evidence' /\ Closed'
    BY <1>1, ResetEvidence DEF Begin
  <1>2. CASE BeginFails
    BY <1>2, ResetEvidence DEF BeginFails
  <1>3. CASE Joined
    BY <1>3, ResetEvidence DEF Joined
  <1>4. CASE Touch \/ End \/ WorkerWaits \/ WorkerWakes \/ WorkerExits \/ DeadlinePasses
    <2>1. /\ UNCHANGED <<mode, queue, received, overflow, seen, repeats, unmatched, digest, arrived,
                         catching>>
          /\ UNCHANGED <<sealed, match>>
          /\ reasons' \in {reasons, reasons \cup {"DEADLINE_EXCEEDED"}}
          /\ state' = "Finalized" => state = "Finalized"
      BY <1>4, <1>e DEF Touch, End, WorkerWaits, WorkerWakes, WorkerExits, DeadlinePasses,
                        counters, sequence, history
    <2>2. Evidence'
      BY <1>0, <2>1, QuietEvidence
    <2>3. Closed'
      BY <1>0, <2>1 DEF Closed, SequenceMatches
    <2> QED
      BY <2>2, <2>3
  <1>5. CASE EndDrained
    <2>1. CASE state = "Finalized"
      <3>1. UNCHANGED <<mode, queue, received, overflow, seen, repeats, unmatched, digest, arrived,
                        catching, reasons, sealed, match, state>>
        BY <1>5, <2>1 DEF EndDrained, counters, sequence, history
      <3>2. Evidence'
        BY <1>0, <3>1, QuietEvidence
      <3> QED
        BY <1>0, <3>1, <3>2 DEF Closed, SequenceMatches
    <2>2. CASE state # "Finalized"
      <3> DEFINE rs == IF state = "Finalizing" THEN reasons \cup StaticSetReasons ELSE reasons
      <3>1. /\ FinalizeSequence(rs) /\ queue = <<>> /\ state' = (IF state = "Finalizing" THEN "Finalized" ELSE state)
            /\ UNCHANGED <<mode, queue, received, overflow, seen, repeats, unmatched, arrived,
                           catching>>
        BY <1>5, <2>2 DEF EndDrained, counters, history
      <3>2. reasons \subseteq rs /\ ("DIGEST_FAILURE" \in rs => "DIGEST_FAILURE" \in reasons)
        BY DEF StaticSetReasons
      <3>r. state = "Finalizing" => rs = reasons \cup StaticSetReasons
        OBVIOUS
      <3> HIDE DEF rs
      <3>3. /\ rs \subseteq reasons' /\ digest' = digest
            /\ match' = "yes" => sealed' /\ SequenceMatches'
            /\ match' = "no" /\ "DIGEST_FAILURE" \notin reasons' => sealed' /\ reasons' # {}
            /\ sealed' => match' # "none"
            /\ mode = "event_sequence" => match' # "none"
        BY <1>0, <3>1, <3>2, FinalizeCloses
      <3>4. Evidence'
        BY <1>0, <3>1, <3>2, <3>3, QuietEvidence
      <3>5. ASSUME state' = "Finalized", reasons' = {}, mode = "static_set"
            PROVE  seen = Points /\ repeats = 0 /\ unmatched = 0
        <4>1. StaticSetReasons = {}
          BY <2>2, <3>1, <3>3, <3>5, <3>r
        <4> QED
          BY <3>5, <4>1 DEF StaticSetReasons
      <3> QED
        BY <3>1, <3>3, <3>4, <3>5 DEF Closed
    <2> QED
      BY <2>1, <2>2
  <1>6. ASSUME NEW reason \in {"DRAIN_TIMEOUT", "SESSION_DISCONNECTED", "HOST_SHUTDOWN"},
               FinalizeSequence(reasons \cup {reason}), queue' = <<>>, state' = "Aborted",
               UNCHANGED <<mode, received, arrived>>
        PROVE  Evidence' /\ Closed'
    <2> DEFINE rs == reasons \cup {reason}
    <2>1. reasons \subseteq rs /\ ("DIGEST_FAILURE" \in rs => "DIGEST_FAILURE" \in reasons) /\ reason \in rs
      OBVIOUS
    <2>r. FinalizeSequence(rs)
      BY <1>6
    <2> HIDE DEF rs
    <2>2. /\ rs \subseteq reasons' /\ digest' = digest
          /\ match' = "yes" => sealed' /\ SequenceMatches'
          /\ match' = "no" /\ "DIGEST_FAILURE" \notin reasons' => sealed' /\ reasons' # {}
          /\ sealed' => match' # "none"
          /\ mode = "event_sequence" => match' # "none"
      BY <1>0, <1>6, <2>1, <2>r, FinalizeCloses
    <2>3. Evidence'
      BY <1>0, <1>6, <2>1, <2>2, SpoiledEvidence
    <2> QED
      BY <1>6, <2>2, <2>3 DEF Closed
  <1>7. CASE EndTimesOut
    BY <1>6, <1>7 DEF EndTimesOut, history
  <1>8. ASSUME NEW reason \in {"SESSION_DISCONNECTED", "HOST_SHUTDOWN"}, Abort(reason)
        PROVE  Evidence' /\ Closed'
    BY <1>6, <1>8 DEF Abort, history
  <1>9. CASE Destroy
    <2>1. UNCHANGED <<mode, received, overflow, seen, repeats, unmatched, digest, arrived, sealed, match,
                      catching>>
      BY <1>9 DEF Destroy, counters, sequence, history
    <2>2. CASE state \in {"Active", "Finalizing"}
      <3>1. state' = "Aborted" /\ queue' = <<>> /\ reasons' = reasons \cup {"HOST_SHUTDOWN"}
        BY <1>9, <2>2 DEF Destroy
      <3>2. Evidence'
        BY <1>0, <2>1, <3>1, SpoiledEvidence
      <3> QED
        BY <1>0, <2>1, <3>1, <3>2 DEF Closed, SequenceMatches
    <2>3. CASE state \notin {"Active", "Finalizing"}
      <3>1. UNCHANGED <<state, queue, reasons>>
        BY <1>9, <2>3 DEF Destroy
      <3>2. Evidence'
        BY <1>0, <2>1, <3>1, QuietEvidence
      <3> QED
        BY <1>0, <2>1, <3>1, <3>2 DEF Closed, SequenceMatches
    <2> QED
      BY <2>2, <2>3
  <1>10. ASSUME NEW x \in Objects, RecordObject(x) PROVE Evidence' /\ Closed'
    <2>1. /\ state = "Active" /\ ~sealed
          /\ UNCHANGED <<state, mode, received, digest, sealed, match>>
      BY <1>0, <1>10 DEF RecordObject, Offered, State1, sequence, SealedIsOver
    <2>2. reasons' \in {reasons, reasons \cup {"QUEUE_OVERFLOW"}}
      BY <1>10 DEF RecordObject
    <2> QED
      BY <1>0, <1>10, <2>1, <2>2, OfferEvidence DEF Closed
  <1>11. CASE WorkerTakes
    <2>1. queue # <<>> /\ ~sealed /\ state # "Finalized" /\ state' # "Finalized"
      BY <1>0, <1>e, <1>11 DEF WorkerTakes, SealedIsOver, Closed
    <2>2. UNCHANGED <<mode, sealed, match>> /\ reasons \subseteq reasons'
      BY <1>e, <1>11 DEF WorkerTakes, Process
    <2> QED
      BY <1>0, <1>11, <2>1, <2>2, TakeEvidence DEF Closed
  <1>12. CASE UNCHANGED vars
    <2>1. Evidence'
      BY <1>0, <1>12, QuietEvidence DEF vars, counters, sequence, history
    <2> QED
      BY <1>0, <1>12, <2>1 DEF vars, Closed, SequenceMatches, counters, sequence
  <1>13. ASSUME NEW x \in Objects, EnqueueThrows(x) PROVE Evidence' /\ Closed'
    <2>1. /\ state = "Active" /\ ~sealed
          /\ UNCHANGED <<state, mode, received, digest, sealed, match, reasons>>
      BY <1>0, <1>13 DEF EnqueueThrows, Offered, State1, sequence, counters, SealedIsOver
    <2> QED
      BY <1>0, <1>13, <2>1, ThrowEvidence DEF Closed
  <1>14. CASE EnqueueCounted
    <2>1. /\ UNCHANGED <<state, mode, queue, received, seen, repeats, unmatched, arrived, digest,
                         sealed, match>>
          /\ reasons' = reasons \cup {"ENQUEUE_FAILURE"}
      BY <1>14 DEF EnqueueCounted, sequence
    <2>2. Evidence'
      BY <1>0, <2>1, SpoiledEvidence
    <2> QED
      BY <1>0, <2>1, <2>2 DEF Closed, SequenceMatches
  <1> QED
    BY <1>1, <1>2, <1>3, <1>4, <1>5, <1>7, <1>8, <1>9, <1>10, <1>11, <1>12, <1>13, <1>14
       DEF Next

(* The inductive invariant of complete evidence.                           *)
THEOREM CompleteInvariant == Spec => []CompleteInv
  <1>1. Init => CompleteInv
    <2> SUFFICES ASSUME Init PROVE CompleteInv
      OBVIOUS
    <2>1. Len(queue) = 0 /\ Len(arrived) = 0 /\ Len(digest) = 0 /\ received = 0
      BY DEF Init
    <2>2. Bounded /\ Ordered /\ Digested /\ Ticked
      BY <2>1, CaptureAssumption DEF Init, Bounded, Ordered, Digested, Ticked, Uncounted
    <2> QED
      BY <2>2, InitCaptureInv DEF Init, CompleteInv, Closed
  <1>2. CompleteInv /\ [Next]_vars => CompleteInv'
    BY NextCaptureInv, NextComplete DEF CompleteInv, Evidence
  <1> QED
    BY <1>1, <1>2, PTL DEF Spec

(***************************************************************************)
(* A capture reported as valid is complete evidence, for every point set,  *)
(* manifest and capacity: finalize_static_set_locked counts, it does not   *)
(* compare sets, yet every point arrived and none of them twice.  Only an  *)
(* object that record_object has just failed to queue may be missing, until *)
(* its catch block has counted it.                                         *)
(***************************************************************************)
THEOREM ValidEvidenceIsComplete == Spec => []ValidIsComplete
  <1>1. ASSUME CompleteInv, Valid
        PROVE  /\ received + Uncounted = Len(arrived)
               /\ Uncounted = 0 /\ mode = "event_sequence" => arrived = Manifest
               /\ Uncounted = 0 /\ mode = "static_set" =>
                     /\ Len(arrived) = Cardinality(Points)
                     /\ {arrived[i] : i \in 1..Len(arrived)} = Points
    <2>1. /\ TypeOK /\ Ordered /\ Digested /\ Ticked /\ Closed
          /\ state = "Finalized" /\ reasons = {} /\ queue = <<>>
      BY <1>1 DEF CompleteInv, CaptureInv, Valid, Closed
    <2>2. received + Uncounted = Len(arrived) /\ received \in Nat
      <3>1. /\ Len(queue) = 0 /\ received + Len(queue) + Uncounted = Len(arrived)
            /\ received \in Nat
        BY <2>1 DEF Ordered, TypeOK
      <3>2. Uncounted \in Nat
        BY DEF Uncounted
      <3> QED
        BY <3>1, <3>2
    <2>5. Uncounted = 0 => received = Len(arrived)
      BY <2>2
    <2>3. Uncounted = 0 /\ mode = "event_sequence" => arrived = Manifest
      <3> SUFFICES ASSUME Uncounted = 0, mode = "event_sequence" PROVE arrived = Manifest
        OBVIOUS
      <3>1. digest = Manifest
        BY <2>1 DEF Closed, SequenceMatches, TypeOK
      <3>2. Len(Manifest) = Len(arrived) /\ \A i \in 1..Len(arrived) : arrived[i] = Manifest[i]
        BY <2>1, <2>5, <3>1 DEF Digested
      <3>3. arrived \in Seq(Objects) /\ Manifest \in Seq(Objects)
        BY <2>1, CaptureAssumption DEF TypeOK
      <3> QED
        BY <3>2, <3>3, SeqEqual
    <2>4. ASSUME Uncounted = 0, mode = "static_set"
          PROVE  Len(arrived) = Cardinality(Points) /\ {arrived[i] : i \in 1..Len(arrived)} = Points
      <3>1. /\ seen = Points
            /\ \A i \in 1..Len(arrived) : arrived[i] \in Points
            /\ \A i, j \in 1..Len(arrived) : arrived[i] = arrived[j] => i = j
            /\ \A x \in Points : \E i \in 1..Len(arrived) : arrived[i] = x
        BY <2>1, <2>4, <2>5 DEF Closed, Ticked
      <3>2. Len(arrived) \in Nat
        BY <2>1 DEF TypeOK
      <3> DEFINE f == [i \in 1..Len(arrived) |-> arrived[i]]
      <3>3. f \in Bijection(1..Len(arrived), Points)
        <4>1. f \in [1..Len(arrived) -> Points]
          BY <3>1
        <4>2. \A i, j \in 1..Len(arrived) : f[i] = f[j] => i = j
          BY <3>1
        <4>3. \A x \in Points : \E i \in 1..Len(arrived) : f[i] = x
          BY <3>1
        <4> HIDE DEF f
        <4> QED
          BY <4>1, <4>2, <4>3, Fun_IsBij
      <3>4. Cardinality(Points) = Len(arrived)
        BY <3>2, <3>3, FS_CountingElements DEF ExistsBijection
      <3> QED
        BY <3>1, <3>4
    <2> QED
      BY <2>2, <2>3, <2>4
  <1>2. CompleteInv => ValidIsComplete
    BY <1>1 DEF ValidIsComplete
  <1> QED
    BY CompleteInvariant, <1>2, PTL

(***************************************************************************)
(* The Python client accepts every result the host may report: the checks  *)
(* of CaptureResult.from_mapping hold of every snapshot, unless the digest *)
(* itself has failed.                                                      *)
(***************************************************************************)
THEOREM ResultsAreAccepted == Spec => []ClientAccepts
  <1>1. CompleteInv => ClientAccepts
    <2> SUFFICES ASSUME CompleteInv, "DIGEST_FAILURE" \notin reasons, state # "Idle"
                 PROVE  /\ Len(queue) <= Capacity
                        /\ received <= Len(arrived)
                        /\ mode = "event_sequence" =>
                              /\ match = "yes" => sealed /\ digest = Manifest /\ received = Len(Manifest)
                              /\ match = "no" => sealed /\ Terminal /\ ~Valid
                              /\ match = "none" => ~sealed /\ state # "Finalized"
                        /\ Terminal => (Valid <=> /\ state = "Finalized" /\ TruthComplete
                                                  /\ reasons = {} /\ overflow = 0)
      BY DEF ClientAccepts
    <2>1. TypeOK /\ SealedIsOver /\ Bounded /\ Ordered /\ Closed
      BY DEF CompleteInv, CaptureInv
    <2>2. Len(queue) <= Capacity /\ received <= Len(arrived)
      <3>1. Len(queue) \in Nat /\ Len(arrived) \in Nat /\ received \in Nat
        BY <2>1 DEF TypeOK
      <3> QED
        BY <2>1, <3>1 DEF Bounded
    <2>3. /\ match = "yes" => sealed /\ digest = Manifest /\ received = Len(Manifest)
          /\ match = "no" => sealed /\ Terminal /\ ~Valid
          /\ mode = "event_sequence" /\ match = "none" => ~sealed /\ state # "Finalized"
      BY <2>1 DEF Closed, SequenceMatches, SealedIsOver, Terminal, Valid
    <2>4. ASSUME Valid PROVE TruthComplete /\ overflow = 0
      <3>1. /\ mode = "static_set" => seen = Points /\ repeats = 0 /\ unmatched = 0
            /\ mode = "event_sequence" => match = "yes"
        BY <2>1, <2>4 DEF Closed, Valid, TypeOK
      <3> QED
        BY <2>1, <2>4, <3>1 DEF TruthComplete, Valid, Ordered
    <2> QED
      BY <2>2, <2>3, <2>4 DEF Valid
  <1> QED
    BY CompleteInvariant, <1>1, PTL
=============================================================================
