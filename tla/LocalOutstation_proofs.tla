----------------------- MODULE LocalOutstation_proofs -----------------------
(***************************************************************************)
(* Proof that LocalTestOutstation never takes the answer of an earlier     *)
(* process, or one that hides a burst of events, for the answer it waits   *)
(* for, whatever the queue still holds and however full it gets.           *)
(***************************************************************************)
EXTENDS LocalOutstation, TLAPS

Line == [kind : {"ready", "reply", "failure"}, by : Nat, id : Nat, ok : BOOLEAN]
Asked == [id : Nat, cmd : {"hello", "snapshot", "generate", "shutdown"}]
Child == [running : BOOLEAN, announced : BOOLEAN, inbox : Seq(Asked), output : Seq(Line)]
Truth == [executed : SUBSET Nat, returned : SUBSET Nat, lost : SUBSET Nat]

OutstationTypeOK ==
    /\ loPc \in {"idle", "startup", "readiness", "answer", "checking", "joining"}
    /\ started \in Nat /\ process \in {0, started} /\ counter \in Nat /\ interrupts \in Nat
    /\ child \in Child /\ reading \in BOOLEAN /\ lines \in Seq(Line)
    /\ taken \in Line /\ request \in Asked /\ truth \in Truth

----------------------------------------------------------------------------
(* Sequences of numbered entries; number 0 is an entry without a number.   *)

Ordered(s) ==
    \A i, j \in 1..Len(s) : i < j /\ s[i].id # 0 /\ s[j].id # 0 => s[i].id < s[j].id
Before(s, t) ==
    \A i \in 1..Len(s), j \in 1..Len(t) : s[i].id # 0 /\ t[j].id # 0 => s[i].id < t[j].id
UpTo(s, n) == \A i \in 1..Len(s) : s[i].id <= n

(* What was asked, written and read keeps the order of the numbers, through *)
(* every process and every line that is lost.                              *)
InOrder ==
    /\ Ordered(lines) /\ Ordered(child.output) /\ Ordered(child.inbox)
    /\ Before(lines, child.output) /\ Before(lines, child.inbox)
    /\ Before(child.output, child.inbox)
    /\ UpTo(lines, counter) /\ UpTo(child.output, counter) /\ UpTo(child.inbox, counter)

(* Only replies carry a number, and a request always does.                 *)
Numbered ==
    /\ \A i \in 1..Len(lines) : lines[i].kind = "reply" <=> lines[i].id # 0
    /\ \A i \in 1..Len(child.output) :
          child.output[i].kind = "reply" <=> child.output[i].id # 0
    /\ \A i \in 1..Len(child.inbox) : child.inbox[i].id # 0

(* The line in the caller's hands precedes what is still in the queue and  *)
(* in the pipes; Failure, which has no number, stands for none.            *)
Ahead(n, s) == \A i \in 1..Len(s) : n # 0 /\ s[i].id # 0 => n < s[i].id
Held ==
    /\ loPc \notin {"readiness", "checking"} => taken = Failure
    /\ taken.id <= counter /\ (taken.kind = "reply" <=> taken.id # 0)
    /\ Ahead(taken.id, lines) /\ Ahead(taken.id, child.output) /\ Ahead(taken.id, child.inbox)

(* Who wrote a line; the announcement of a process precedes its replies.   *)
Written ==
    /\ \A i \in 1..Len(lines) : lines[i].by <= started
    /\ \A i \in 1..Len(child.output) : child.output[i].by = started
    /\ child.running /\ ~child.announced =>
          child.output = <<>> /\ \A i \in 1..Len(lines) : lines[i].by # started
    /\ \A i \in 2..Len(child.output) : child.output[i].kind = "reply"
    /\ (\E i \in 1..Len(lines) : lines[i].kind = "reply" /\ lines[i].by = started) =>
          \A i \in 1..Len(child.output) : child.output[i].kind = "reply"

(* The request under way belongs to the present process.                   *)
Asking == loPc \in {"answer", "checking"}
Current ==
    /\ loPc # "idle" => process = started
    /\ child.running => process = started
    /\ Asking => request.id = counter /\ counter # 0
    /\ loPc = "joining" => ~child.running
    /\ \A i \in 1..Len(child.inbox) : child.inbox[i].id = request.id => child.inbox[i] = request
    /\ Asking => \A i \in 1..Len(lines) : lines[i].id = request.id => lines[i].by = started
    /\ loPc = "checking" /\ taken.id = request.id => taken.by = started

(* The reply that reports an executed burst.                               *)
Reports(line, u) == line.kind = "reply" /\ line.id = u /\ line.ok /\ line.by = started

(* It waits to be read or looked at, or it was lost with the reader of the *)
(* queue.                                                                  *)
Waits(u) ==
    \/ Reports(taken, u)
    \/ \E i \in 1..Len(lines) : Reports(lines[i], u)
    \/ \E i \in 1..Len(child.output) : Reports(child.output[i], u)
Lost ==
    /\ ~reading /\ (taken.id # 0 => taken.id # counter)
    /\ \A i \in 1..Len(lines) : lines[i].id # counter

(* Every burst that was executed, and neither returned nor taken away by   *)
(* an interrupt, blocks the queue for the answers after it.                *)
Open == truth.executed \ (truth.returned \cup truth.lost)
Accounted ==
    /\ truth.returned \subseteq truth.executed /\ truth.lost \subseteq truth.executed
    /\ \A u \in truth.executed : u # 0 /\ u <= counter
    /\ \A u \in truth.executed : u = request.id => request.cmd = "generate"
    /\ Asking \/ child.running => \A u \in Open : Waits(u) \/ Lost
    /\ Asking /\ request.cmd = "generate" =>
          /\ taken.id = request.id /\ taken.ok => request.id \in truth.executed
          /\ \A i \in 1..Len(lines) :
                lines[i].id = request.id /\ lines[i].ok => request.id \in truth.executed
          /\ \A i \in 1..Len(child.output) :
                child.output[i].id = request.id /\ child.output[i].ok =>
                   request.id \in truth.executed

OutstationInv ==
    /\ OutstationTypeOK /\ InOrder /\ Numbered /\ Held /\ Written /\ Current /\ Accounted
    /\ AnswerIsOwn

----------------------------------------------------------------------------
(* Sequences.                                                              *)

(* The entries of a queue from which the first was taken.                  *)
LEMMA TailEntries ==
  ASSUME NEW T, NEW s \in Seq(T), s # <<>>
  PROVE  /\ Tail(s) \in Seq(T) /\ Len(Tail(s)) = Len(s) - 1 /\ Len(s) \in Nat /\ Len(s) >= 1
         /\ \A i \in 1..Len(Tail(s)) : Tail(s)[i] = s[i + 1] /\ i + 1 \in 1..Len(s)
         /\ Head(s) = s[1] /\ 1 \in 1..Len(s) /\ Head(s) \in T
  OBVIOUS

(* The entries of a queue to which one was added.                          *)
LEMMA AppendEntries ==
  ASSUME NEW T, NEW s \in Seq(T), NEW e \in T
  PROVE  /\ Append(s, e) \in Seq(T) /\ Len(Append(s, e)) = Len(s) + 1 /\ Len(s) \in Nat
         /\ \A i \in 1..Len(s) : Append(s, e)[i] = s[i]
         /\ Append(s, e)[Len(s) + 1] = e
  OBVIOUS

(* Taking the first entry keeps the order and the bound.                   *)
LEMMA TailOrder ==
  ASSUME NEW T, \A x \in T : x.id \in Nat, NEW s \in Seq(T), s # <<>>,
         NEW U, \A x \in U : x.id \in Nat, NEW t \in Seq(U), NEW n \in Nat
  PROVE  /\ Ordered(s) => Ordered(Tail(s))
         /\ Before(s, t) => Before(Tail(s), t)
         /\ Before(t, s) => Before(t, Tail(s))
         /\ UpTo(s, n) => UpTo(Tail(s), n)
  <1> USE TailEntries
  <1>1. Ordered(s) => Ordered(Tail(s))
    <2> SUFFICES ASSUME Ordered(s), NEW i \in 1..Len(Tail(s)), NEW j \in 1..Len(Tail(s)), i < j,
                        Tail(s)[i].id # 0, Tail(s)[j].id # 0
                 PROVE  Tail(s)[i].id < Tail(s)[j].id
      BY DEF Ordered
    <2>1. i + 1 \in 1..Len(s) /\ j + 1 \in 1..Len(s) /\ i + 1 < j + 1
      OBVIOUS
    <2>2. Tail(s)[i] = s[i + 1] /\ Tail(s)[j] = s[j + 1]
      OBVIOUS
    <2> QED
      BY <2>1, <2>2 DEF Ordered
  <1>2. Before(s, t) => Before(Tail(s), t)
    BY DEF Before
  <1>3. Before(t, s) => Before(t, Tail(s))
    BY DEF Before
  <1>4. UpTo(s, n) => UpTo(Tail(s), n)
    BY DEF UpTo
  <1> QED
    BY <1>1, <1>2, <1>3, <1>4

(* Adding an entry whose number is 0 or above all the others does too.     *)
LEMMA AppendOrdered ==
  ASSUME NEW T, \A x \in T : x.id \in Nat, NEW s \in Seq(T), NEW e \in T, Ordered(s),
         \A i \in 1..Len(s) : s[i].id # 0 /\ e.id # 0 => s[i].id < e.id
  PROVE  Ordered(Append(s, e))
  BY AppendEntries DEF Ordered

(* The same behind another queue.                                          *)
LEMMA AppendBefore ==
  ASSUME NEW T, \A x \in T : x.id \in Nat, NEW s \in Seq(T), NEW e \in T,
         NEW U, \A x \in U : x.id \in Nat, NEW t \in Seq(U), Before(t, s),
         \A i \in 1..Len(t) : t[i].id # 0 /\ e.id # 0 => t[i].id < e.id
  PROVE  Before(t, Append(s, e))
  BY AppendEntries DEF Before

(* The same before another queue.                                          *)
LEMMA AppendAhead ==
  ASSUME NEW T, \A x \in T : x.id \in Nat, NEW s \in Seq(T), NEW e \in T,
         NEW U, \A x \in U : x.id \in Nat, NEW t \in Seq(U), Before(s, t),
         \A i \in 1..Len(t) : t[i].id # 0 /\ e.id # 0 => e.id < t[i].id
  PROVE  Before(Append(s, e), t)
  BY AppendEntries DEF Before

(* The bound of a queue to which an entry was added.                       *)
LEMMA AppendUpTo ==
  ASSUME NEW T, \A x \in T : x.id \in Nat, NEW s \in Seq(T), NEW e \in T, NEW n \in Nat,
         UpTo(s, n), e.id <= n
  PROVE  UpTo(Append(s, e), n)
  BY AppendEntries DEF UpTo

----------------------------------------------------------------------------
(* Types.                                                                  *)

(* A process whose pipes and state change is still one.                    *)
LEMMA ChildTypes ==
  ASSUME NEW c \in Child, NEW inbox \in Seq(Asked), NEW output \in Seq(Line), NEW b \in BOOLEAN
  PROVE  /\ [c EXCEPT !.inbox = inbox] \in Child
         /\ [c EXCEPT !.output = output] \in Child
         /\ [c EXCEPT !.output = output, !.announced = TRUE] \in Child
         /\ [c EXCEPT !.inbox = inbox, !.running = b, !.output = output] \in Child
  BY DEF Child

(* Records of the model are of their types.                                *)
LEMMA RecordTypes ==
  /\ Failure \in Line /\ NoChild \in Child /\ NoTruth \in Truth
  /\ [NoChild EXCEPT !.running = TRUE] \in Child
  /\ \A c \in Child : /\ c.inbox \in Seq(Asked) /\ c.output \in Seq(Line)
                      /\ \A b \in BOOLEAN : [c EXCEPT !.running = b] \in Child
  /\ \A x \in Line : x.id \in Nat /\ x.by \in Nat /\ x.ok \in BOOLEAN
  /\ \A x \in Asked : x.id \in Nat
  <1>1. Failure \in Line
    BY DEF Failure, Line
  <1>2. NoChild \in Child /\ [NoChild EXCEPT !.running = TRUE] \in Child
    <2>1. <<>> \in Seq(Asked) /\ <<>> \in Seq(Line)
      OBVIOUS
    <2> QED
      BY <2>1 DEF NoChild, Child
  <1>3. NoTruth \in Truth
    BY DEF NoTruth, Truth
  <1>4. \A c \in Child : /\ c.inbox \in Seq(Asked) /\ c.output \in Seq(Line)
                         /\ \A b \in BOOLEAN : [c EXCEPT !.running = b] \in Child
    BY DEF Child
  <1> QED
    BY <1>1, <1>2, <1>3, <1>4 DEF Line, Asked

(* The steps of the three actors keep the types.                           *)
LEMMA OutstationTypes ==
  OutstationTypeOK /\ [OutstationNext]_outstationVars => OutstationTypeOK'
  <1> SUFFICES ASSUME OutstationTypeOK, [OutstationNext]_outstationVars
               PROVE  OutstationTypeOK'
    OBVIOUS
  <1> USE RecordTypes, OutstationAssumption DEF OutstationTypeOK
  <1>t. lines # <<>> => Tail(lines) \in Seq(Line) /\ Head(lines) \in Line
    BY TailEntries
  <1>e. ASSUME NEW x \in Line PROVE Enqueued(x) \in Seq(Line)
    <2>1. Len(lines) < LineCapacity => Append(lines, x) \in Seq(Line)
      BY AppendEntries
    <2>2. ~(Len(lines) < LineCapacity) => lines # <<>>
      OBVIOUS
    <2>3. lines # <<>> => Append(Tail(lines), Failure) \in Seq(Line)
      BY <1>t
    <2> QED
      BY <2>1, <2>2, <2>3 DEF Enqueued
  <1>x. ASSUME Terminate, counter' \in Nat, request' \in Asked
        PROVE  OutstationTypeOK'
    BY <1>x DEF Terminate
  <1>i. ASSUME Interrupt PROVE taken' \in Line /\ interrupts' \in Nat /\ loPc' = "idle"
    BY <1>i DEF Interrupt
  <1>s. ASSUME NEW cmd \in {"hello", "snapshot", "generate", "shutdown"}, Transmit(cmd)
        PROVE  OutstationTypeOK'
    <2>1. counter' \in Nat /\ request' \in Asked
      BY <1>s DEF Transmit, Asked
    <2>2. CASE Terminate
      BY <2>1, <2>2, <1>x
    <2>3. CASE /\ loPc' = "answer" /\ taken' = Failure
               /\ child' = [child EXCEPT !.inbox = Append(@, request')]
               /\ UNCHANGED <<process, started, reading, lines, truth, answered, interrupts>>
      <3>1. child' \in Child
        <4>1. Append(child.inbox, request') \in Seq(Asked)
          BY <2>1, AppendEntries
        <4> QED
          BY <2>3, <4>1, ChildTypes
      <3> QED
        BY <2>1, <2>3, <3>1
    <2>4. CASE Interrupt /\ UNCHANGED <<process, started, child, reading, lines, truth, answered>>
      BY <2>1, <2>4, <1>i
    <2> QED
      BY <1>s, <2>2, <2>3, <2>4 DEF Transmit
  <1>1. CASE Announce
    <2>1. child' \in Child
      <3> DEFINE ready == [kind |-> "ready", by |-> started, id |-> 0, ok |-> TRUE]
      <3>1. ready \in Line
        BY DEF Line
      <3>2. Append(child.output, ready) \in Seq(Line)
        BY <3>1, AppendEntries
      <3>3. child' = [child EXCEPT !.output = Append(child.output, ready), !.announced = TRUE]
        BY <1>1 DEF Announce, Writes
      <3> HIDE DEF ready
      <3> QED
        BY <3>2, <3>3, ChildTypes
    <2> QED
      BY <1>1, <2>1 DEF Announce
  <1>2. CASE Serve
    <2>1. PICK ok \in BOOLEAN :
             /\ child' = [child EXCEPT
                            !.inbox = Tail(@), !.running = ~(ok /\ Head(child.inbox).cmd = "shutdown"),
                            !.output = Append(@, [kind |-> "reply", by |-> started,
                                                  id |-> Head(child.inbox).id, ok |-> ok])]
             /\ truth' = IF ok /\ Head(child.inbox).cmd = "generate"
                         THEN [truth EXCEPT !.executed = @ \cup {Head(child.inbox).id}] ELSE truth
      BY <1>2 DEF Serve
    <2>2. Head(child.inbox) \in Asked /\ Tail(child.inbox) \in Seq(Asked)
      BY <1>2, TailEntries DEF Serve
    <2>3. [kind |-> "reply", by |-> started, id |-> Head(child.inbox).id, ok |-> ok] \in Line
      BY <2>2 DEF Line
    <2>4. child' \in Child
      <3> DEFINE answer == [kind |-> "reply", by |-> started, id |-> Head(child.inbox).id, ok |-> ok]
                 runs == ~(ok /\ Head(child.inbox).cmd = "shutdown")
      <3>1. Append(child.output, answer) \in Seq(Line) /\ runs \in BOOLEAN
        BY <2>3, AppendEntries
      <3> HIDE DEF answer, runs
      <3>2. child' = [child EXCEPT !.inbox = Tail(child.inbox), !.running = runs,
                                   !.output = Append(child.output, answer)]
        BY <2>1 DEF answer, runs
      <3> QED
        BY <2>2, <3>1, <3>2, ChildTypes
    <2>5. truth' \in Truth
      BY <2>1, <2>2 DEF Truth
    <2> QED
      BY <1>2, <2>4, <2>5 DEF Serve
  <1>3. CASE ChildExits
    BY <1>3 DEF ChildExits
  <1>4. CASE ReadLine
    <2>1. Head(child.output) \in Line /\ Tail(child.output) \in Seq(Line)
      BY <1>4, TailEntries DEF ReadLine
    <2>2. lines' \in Seq(Line)
      BY <1>4, <2>1, <1>e DEF ReadLine
    <2>3. child' \in Child
      BY <1>4, <2>1 DEF ReadLine, Child
    <2>4. reading' = TRUE \/ reading' = FALSE
      BY <1>4 DEF ReadLine
    <2> QED
      BY <1>4, <2>2, <2>3, <2>4 DEF ReadLine
  <1>5. CASE Start
    <2>1. /\ started' \in Nat /\ process' \in Nat
          /\ child' \in Child /\ truth' \in Truth
      BY <1>5 DEF Start, NoChild, Child, NoTruth, Truth
    <2>2. CASE reading' = TRUE /\ loPc' = "startup" /\ UNCHANGED <<taken, interrupts>>
      BY <1>5, <2>1, <2>2 DEF Start
    <2>3. CASE reading' = FALSE /\ Interrupt
      BY <1>5, <2>1, <2>3, <1>i DEF Start
    <2> QED
      BY <1>5, <2>2, <2>3 DEF Start
  <1>6. CASE CheckReady
    BY <1>6, <1>x, <1>s DEF CheckReady
  <1>7. CASE Request
    BY <1>7, <1>s DEF Request
  <1>8. CASE CloseProcess
    BY <1>8, <1>s, <1>x DEF CloseProcess
  <1>9. CASE TimesOut
    BY <1>9, <1>x DEF TimesOut
  <1>10. CASE ReceiveOther
    BY <1>10, <1>x DEF ReceiveOther
  <1>11. CASE ReceiveError
    BY <1>11, <1>x DEF ReceiveError
  <1>16. CASE TakeLine
    BY <1>16, <1>t DEF TakeLine
  <1>12. CASE ReceiveResult
    <2>1. child' \in Child
      <3>1. (child.running /\ request.cmd # "shutdown") \in BOOLEAN
        OBVIOUS
      <3> QED
        BY <1>12, <3>1 DEF ReceiveResult
    <2>2. truth' \in Truth
      BY <1>12 DEF ReceiveResult, Truth, Asked
    <2>3. lines' \in Seq(Line) /\ loPc' \in {"joining", "idle"} /\ taken' \in Line
      BY <1>12 DEF ReceiveResult
    <2> QED
      BY <1>12, <2>1, <2>2, <2>3 DEF ReceiveResult
  <1>13. CASE Join
    <2>1. lines' \in Seq(Line)
      BY <1>13, <1>e DEF Join
    <2> QED
      BY <1>13, <2>1 DEF Join
  <1>14. CASE Interrupted
    <2>1. truth' \in Truth
      BY <1>14 DEF Interrupted, Truth
    <2> QED
      BY <1>14, <1>i, <2>1 DEF Interrupted
  <1>15. CASE UNCHANGED outstationVars
    BY <1>15 DEF outstationVars
  <1> QED
    BY <1>1, <1>2, <1>3, <1>4, <1>5, <1>6, <1>7, <1>8, <1>9, <1>10, <1>11, <1>12, <1>13, <1>14,
       <1>15, <1>16 DEF OutstationNext

----------------------------------------------------------------------------
(* The order of the lines.                                                 *)

(* The caller takes the first line or leaves the queue as it is.           *)
Takes == lines' = lines \/ (lines # <<>> /\ lines' = Tail(lines))

(* A step that writes nothing into a pipe; it may stop the process.        *)
Shortens ==
    /\ Takes /\ child'.output = child.output /\ child'.inbox = child.inbox
    /\ child'.announced = child.announced /\ (child'.running => child.running)
    /\ UNCHANGED <<started, reading>> /\ counter' \in {counter, counter + 1}

(* A request that is written.                                              *)
Sends ==
    /\ Takes /\ loPc' = "answer" /\ taken' = Failure /\ child.running
    /\ child'.inbox = Append(child.inbox, request')
    /\ child'.output = child.output /\ child'.announced = child.announced /\ child'.running
    /\ counter' = counter + 1 /\ request'.id = counter + 1
    /\ UNCHANGED <<process, started, reading, truth, answered>>

(* Lines that are taken or kept satisfy what lines satisfied.              *)
LEMMA TakesKeeps ==
  ASSUME OutstationTypeOK, Takes, InOrder, Numbered
  PROVE  /\ lines' \in Seq(Line) /\ Ordered(lines')
         /\ Before(lines', child.output) /\ Before(lines', child.inbox) /\ UpTo(lines', counter)
         /\ \A i \in 1..Len(lines') : lines'[i].kind = "reply" <=> lines'[i].id # 0
         /\ \A i \in 1..Len(lines') : \E j \in 1..Len(lines) : lines'[i] = lines[j]
  <1> USE DEF OutstationTypeOK
  <1>1. CASE lines' = lines
    BY <1>1 DEF InOrder, Numbered
  <1>2. CASE lines # <<>> /\ lines' = Tail(lines)
    <2>1. Ordered(lines') /\ Before(lines', child.output) /\ UpTo(lines', counter)
      BY <1>2, TailOrder, RecordTypes DEF InOrder
    <2>2. Before(lines', child.inbox)
      BY <1>2, TailOrder, RecordTypes DEF InOrder
    <2>3. /\ lines' \in Seq(Line)
          /\ \A i \in 1..Len(lines') : lines'[i] = lines[i + 1] /\ i + 1 \in 1..Len(lines)
      BY <1>2, TailEntries
    <2> QED
      BY <2>1, <2>2, <2>3 DEF Numbered
  <1> QED
    BY <1>1, <1>2 DEF Takes

(* Raising the counter keeps what it bounds.                               *)
LEMMA UpToMore ==
  ASSUME NEW T, \A x \in T : x.id \in Nat, NEW s \in Seq(T), NEW n \in Nat, UpTo(s, n)
  PROVE  UpTo(s, n + 1)
  BY DEF UpTo

(* Who wrote the lines, when some are taken and the pipes stay.            *)
LEMMA WrittenKeeps ==
  ASSUME Written, child'.output = child.output, child'.announced = child.announced,
         child'.running => child.running, started' = started,
         \A i \in 1..Len(lines') : \E j \in 1..Len(lines) : lines'[i] = lines[j]
  PROVE  Written'
  <1> USE DEF Written
  <1>1. \A i \in 1..Len(lines') : lines'[i].by <= started'
    OBVIOUS
  <1>2. \A i \in 1..Len(child'.output) : child'.output[i].by = started'
    OBVIOUS
  <1>3. child'.running /\ ~child'.announced =>
           child'.output = <<>> /\ \A i \in 1..Len(lines') : lines'[i].by # started'
    OBVIOUS
  <1>4. \A i \in 2..Len(child'.output) : child'.output[i].kind = "reply"
    OBVIOUS
  <1>5. (\E i \in 1..Len(lines') : lines'[i].kind = "reply" /\ lines'[i].by = started') =>
           \A i \in 1..Len(child'.output) : child'.output[i].kind = "reply"
    OBVIOUS
  <1> QED
    BY <1>1, <1>2, <1>3, <1>4, <1>5

(* A step that writes nothing keeps the order of the lines.                *)
LEMMA ShortensKeeps ==
  ASSUME OutstationTypeOK, Shortens, InOrder, Numbered, Written
  PROVE  InOrder' /\ Numbered' /\ Written'
  <1> USE TakesKeeps DEF Shortens
  <1>1. InOrder'
    <2>1. UpTo(lines', counter') /\ UpTo(child.output, counter') /\ UpTo(child.inbox, counter')
      BY UpToMore, RecordTypes DEF InOrder, OutstationTypeOK
    <2> QED
      BY <2>1 DEF InOrder
  <1>2. Numbered'
    BY DEF Numbered
  <1>3. Written'
    BY WrittenKeeps
  <1> QED
    BY <1>1, <1>2, <1>3

(* A request gets a number above all that were used.                       *)
LEMMA SendsKeeps ==
  ASSUME OutstationTypeOK, OutstationTypeOK', Sends, InOrder, Numbered, Written
  PROVE  InOrder' /\ Numbered' /\ Written'
  <1> DEFINE inbox == child.inbox
             output == child.output
             n == counter + 1
  <1>t. /\ inbox \in Seq(Asked) /\ output \in Seq(Line) /\ request' \in Asked
        /\ counter \in Nat /\ n \in Nat /\ request'.id = n /\ counter' = n
        /\ (\A x \in Asked : x.id \in Nat) /\ (\A x \in Line : x.id \in Nat)
        /\ child'.inbox = Append(inbox, request') /\ child'.output = output
    BY RecordTypes DEF OutstationTypeOK, Sends
  <1>0. /\ lines' \in Seq(Line) /\ Ordered(lines') /\ Before(lines', output)
        /\ Before(lines', inbox) /\ UpTo(lines', counter)
        /\ \A i \in 1..Len(lines') : lines'[i].kind = "reply" <=> lines'[i].id # 0
        /\ \A i \in 1..Len(lines') : \E j \in 1..Len(lines) : lines'[i] = lines[j]
    BY TakesKeeps DEF Sends
  <1>o. /\ Ordered(output) /\ Ordered(inbox) /\ Before(output, inbox)
        /\ UpTo(output, counter) /\ UpTo(inbox, counter)
    BY DEF InOrder
  <1> HIDE DEF inbox, output
  <1>1. UpTo(lines', n) /\ UpTo(output, n) /\ UpTo(inbox, n)
    BY <1>t, <1>0, <1>o, UpToMore
  <1>2. /\ \A i \in 1..Len(lines') : lines'[i].id < n
        /\ \A i \in 1..Len(output) : output[i].id < n
        /\ \A i \in 1..Len(inbox) : inbox[i].id < n
    <2>1. \A s : UpTo(s, counter) => \A i \in 1..Len(s) : s[i].id <= counter
      BY DEF UpTo
    <2>2. /\ \A i \in 1..Len(lines') : lines'[i].id \in Nat
          /\ \A i \in 1..Len(output) : output[i].id \in Nat
          /\ \A i \in 1..Len(inbox) : inbox[i].id \in Nat
      BY <1>t, <1>0
    <2> QED
      BY <2>1, <2>2, <1>t, <1>0, <1>o
  <1> HIDE DEF n
  <1>3. Ordered(child'.inbox) /\ UpTo(child'.inbox, n)
    <2>1. Ordered(Append(inbox, request'))
      BY <1>t, <1>o, <1>2, AppendOrdered
    <2>2. UpTo(Append(inbox, request'), n)
      BY <1>t, <1>1, AppendUpTo
    <2> QED
      BY <2>1, <2>2, <1>t
  <1>4. Before(lines', Append(inbox, request'))
    BY <1>t, <1>0, <1>2, AppendBefore
  <1>5. Before(output, Append(inbox, request'))
    BY <1>t, <1>o, <1>2, AppendBefore
  <1>6. InOrder'
    BY <1>t, <1>0, <1>o, <1>1, <1>3, <1>4, <1>5 DEF InOrder
  <1>7. Numbered'
    <2>1. \A i \in 1..Len(child'.inbox) : child'.inbox[i].id # 0
      <3>1. n # 0 /\ \A i \in 1..Len(inbox) : inbox[i].id # 0
        BY <1>t DEF n, Numbered, inbox
      <3> QED
        BY <1>t, <3>1, AppendEntries
    <2> QED
      BY <1>t, <1>0, <2>1 DEF Numbered, output
  <1>8. Written'
    BY <1>0, WrittenKeeps DEF Sends
  <1> QED
    BY <1>6, <1>7, <1>8

(* What the caller does to the queue and to the pipes.                     *)
LEMMA CallerSteps ==
  ASSUME OutstationTypeOK,
         \/ ChildExits \/ TakeLine \/ CheckReady \/ Request \/ CloseProcess \/ TimesOut
         \/ ReceiveOther \/ ReceiveError \/ ReceiveResult \/ Interrupted
         \/ UNCHANGED outstationVars
  PROVE  Shortens \/ Sends
  <1> USE DEF OutstationTypeOK
  <1>0. counter \in Nat /\ child \in Child
    OBVIOUS
  <1>1. ASSUME Terminate, counter' \in {counter, counter + 1}
        PROVE  Shortens
    BY <1>1 DEF Terminate, Shortens, Takes, Child
  <1>2. ASSUME NEW cmd, Transmit(cmd), child.running
        PROVE  Shortens \/ Sends
    <2>1. counter' = counter + 1 /\ request'.id = counter + 1
      BY <1>2 DEF Transmit
    <2>2. CASE Terminate
      BY <1>1, <2>1, <2>2
    <2>3. CASE /\ loPc' = "answer" /\ taken' = Failure
               /\ child' = [child EXCEPT !.inbox = Append(@, request')]
               /\ UNCHANGED <<process, started, reading, lines, truth, answered, interrupts>>
      <3>2. /\ child'.inbox = Append(child.inbox, request') /\ child'.output = child.output
            /\ child'.announced = child.announced /\ child'.running = child.running
        BY <2>3 DEF Child
      <3> QED
        BY <1>2, <2>1, <2>3, <3>2 DEF Sends, Takes
    <2>4. CASE UNCHANGED <<process, started, child, reading, lines, truth, answered>>
      BY <2>1, <2>4 DEF Shortens, Takes
    <2> QED
      BY <1>2, <2>2, <2>3, <2>4 DEF Transmit
  <1>3. CASE ChildExits
    BY <1>3 DEF ChildExits, Shortens, Takes, Child
  <1>4. CASE CheckReady
    BY <1>4, <1>1, <1>2 DEF CheckReady
  <1>5. CASE Request
    BY <1>5, <1>2 DEF Request
  <1>6. CASE CloseProcess
    BY <1>6, <1>1, <1>2 DEF CloseProcess
  <1>7. CASE TimesOut
    BY <1>7, <1>1 DEF TimesOut
  <1>8. CASE ReceiveOther
    BY <1>8, <1>1 DEF ReceiveOther
  <1>9. CASE ReceiveError
    <2>1. CASE Terminate
      BY <1>9, <2>1, <1>1 DEF ReceiveError
    <2>2. CASE ~Terminate
      BY <1>9, <2>2 DEF ReceiveError, Shortens, Takes
    <2> QED
      BY <2>1, <2>2
  <1>10. CASE ReceiveResult
    BY <1>10 DEF ReceiveResult, Shortens, Takes, Child
  <1>11. CASE Interrupted
    BY <1>11 DEF Interrupted, Shortens, Takes
  <1>12. CASE UNCHANGED outstationVars
    BY <1>12 DEF outstationVars, Shortens, Takes
  <1>13. CASE TakeLine
    BY <1>13 DEF TakeLine, Shortens, Takes
  <1> QED
    BY <1>3, <1>4, <1>5, <1>6, <1>7, <1>8, <1>9, <1>10, <1>11, <1>12, <1>13

(* What the reader leaves in the queue and what it appends (_enqueue_stdout). *)
Kept == IF Len(lines) < LineCapacity THEN lines ELSE Tail(lines)
Got(line) == IF Len(lines) < LineCapacity THEN line ELSE Failure

(* A line that the reader appends, or what it appends instead.             *)
LEMMA EnqueuedLine ==
  ASSUME OutstationTypeOK, NEW line \in Line, InOrder, Numbered,
         \A i \in 1..Len(lines) : lines[i].id # 0 /\ line.id # 0 => lines[i].id < line.id
  PROVE  /\ Enqueued(line) = Append(Kept, Got(line)) /\ Got(line) \in Line
         /\ Got(line).id \in {0, line.id}
         /\ Kept \in Seq(Line) /\ Ordered(Kept) /\ Before(Kept, child.output)
         /\ Before(Kept, child.inbox) /\ UpTo(Kept, counter)
         /\ \A i \in 1..Len(Kept) : Kept[i].kind = "reply" <=> Kept[i].id # 0
         /\ \A i \in 1..Len(Kept) : \E j \in 1..Len(lines) : Kept[i] = lines[j]
         /\ \A i \in 1..Len(Kept) : Kept[i].id # 0 /\ Got(line).id # 0 => Kept[i].id < Got(line).id
  <1> USE RecordTypes, OutstationAssumption DEF OutstationTypeOK
  <1>1. CASE Len(lines) < LineCapacity
    BY <1>1 DEF Enqueued, InOrder, Numbered, Kept, Got
  <1>2. CASE ~(Len(lines) < LineCapacity)
    <2>1. lines # <<>> /\ Kept = Tail(lines) /\ Got(line) = Failure
      BY <1>2 DEF Kept, Got
    <2>2. Enqueued(line) = Append(Kept, Got(line)) /\ Got(line) \in Line /\ Got(line).id = 0
      BY <1>2, <2>1 DEF Enqueued, Failure
    <2>3. Ordered(Kept) /\ Before(Kept, child.output) /\ UpTo(Kept, counter)
      BY <2>1, TailOrder DEF InOrder
    <2>4. Before(Kept, child.inbox)
      BY <2>1, TailOrder DEF InOrder
    <2>5. /\ Kept \in Seq(Line)
          /\ \A i \in 1..Len(Kept) : Kept[i] = lines[i + 1] /\ i + 1 \in 1..Len(lines)
      BY <2>1, TailEntries
    <2>6. /\ \A i \in 1..Len(Kept) : Kept[i].kind = "reply" <=> Kept[i].id # 0
          /\ \A i \in 1..Len(Kept) : \E j \in 1..Len(lines) : Kept[i] = lines[j]
      BY <2>5 DEF Numbered
    <2> QED
      BY <2>2, <2>3, <2>4, <2>5, <2>6
  <1> QED
    BY <1>1, <1>2

(* Every step keeps the lines in order.                                    *)
LEMMA OrderStep ==
  ASSUME OutstationTypeOK, OutstationTypeOK', InOrder, Numbered, Written,
         [OutstationNext]_outstationVars
  PROVE  InOrder' /\ Numbered' /\ Written'
  <1> DEFINE inbox == child.inbox
             output == child.output
  <1>t. /\ inbox \in Seq(Asked) /\ output \in Seq(Line) /\ lines \in Seq(Line)
        /\ counter \in Nat /\ started \in Nat /\ child \in Child
        /\ (\A x \in Asked : x.id \in Nat) /\ (\A x \in Line : x.id \in Nat)
    BY RecordTypes DEF OutstationTypeOK
  <1>o. /\ Ordered(lines) /\ Ordered(output) /\ Ordered(inbox)
        /\ Before(lines, output) /\ Before(lines, inbox) /\ Before(output, inbox)
        /\ UpTo(lines, counter) /\ UpTo(output, counter) /\ UpTo(inbox, counter)
    BY DEF InOrder
  <1>1. CASE Announce
    <2> DEFINE ready == [kind |-> "ready", by |-> started, id |-> 0, ok |-> TRUE]
    <2>1. /\ child' = [child EXCEPT !.output = Append(output, ready), !.announced = TRUE]
          /\ output = <<>> /\ UNCHANGED <<lines, counter, started>>
          /\ \A i \in 1..Len(lines) : lines[i].by # started
      BY <1>1 DEF Announce, Writes, Written
    <2>2. /\ child'.output = <<ready>> /\ child'.inbox = inbox /\ child'.announced
      <3>1. Append(<<>>, ready) = <<ready>>
        OBVIOUS
      <3> HIDE DEF ready
      <3> QED
        BY <2>1, <3>1, <1>t DEF Child
    <2>3. InOrder'
      BY <1>o, <2>1, <2>2, <1>t DEF InOrder, Ordered, Before, UpTo
    <2>4. Numbered'
      BY <2>1, <2>2 DEF Numbered
    <2>5. Written'
      BY <2>1, <2>2 DEF Written
    <2> QED
      BY <2>3, <2>4, <2>5
  <1>2. CASE Serve
    <2>1. PICK ok \in BOOLEAN :
             child' = [child EXCEPT
                         !.inbox = Tail(@), !.running = ~(ok /\ Head(inbox).cmd = "shutdown"),
                         !.output = Append(@, [kind |-> "reply", by |-> started,
                                               id |-> Head(inbox).id, ok |-> ok])]
      BY <1>2 DEF Serve
    <2> DEFINE new == [kind |-> "reply", by |-> started, id |-> Head(inbox).id, ok |-> ok]
    <2>2. /\ child'.output = Append(output, new) /\ child'.inbox = Tail(inbox)
          /\ child'.announced = child.announced /\ child.announced /\ child.running
          /\ UNCHANGED <<lines, counter, started>> /\ inbox # <<>>
      BY <1>2, <2>1 DEF Serve, Child, OutstationTypeOK
    <2>3. /\ Head(inbox) = inbox[1] /\ 1 \in 1..Len(inbox) /\ Head(inbox) \in Asked
          /\ Tail(inbox) \in Seq(Asked) /\ Len(Tail(inbox)) = Len(inbox) - 1
          /\ \A i \in 1..Len(Tail(inbox)) : Tail(inbox)[i] = inbox[i + 1] /\ i + 1 \in 1..Len(inbox)
      BY <2>2, <1>t, TailEntries
    <2>4. new \in Line /\ new.id = inbox[1].id /\ new.kind = "reply" /\ new.by = started
      BY <2>3, <1>t DEF Line
    <2>5. new.id # 0
      BY <2>3, <2>4 DEF Numbered
    <2> HIDE DEF new
    <2>6. /\ \A i \in 1..Len(lines) : lines[i].id # 0 => lines[i].id < new.id
          /\ \A i \in 1..Len(output) : output[i].id # 0 => output[i].id < new.id
          /\ new.id <= counter
      BY <1>o, <2>3, <2>4, <2>5 DEF Before, UpTo
    <2>7. \A i \in 1..Len(Tail(inbox)) : Tail(inbox)[i].id # 0 => new.id < Tail(inbox)[i].id
      <3> SUFFICES ASSUME NEW i \in 1..Len(Tail(inbox)), Tail(inbox)[i].id # 0
                   PROVE  new.id < Tail(inbox)[i].id
        OBVIOUS
      <3>1. i + 1 \in 1..Len(inbox) /\ 1 < i + 1 /\ Tail(inbox)[i] = inbox[i + 1]
        BY <2>3
      <3> QED
        BY <1>o, <2>3, <2>4, <2>5, <3>1 DEF Ordered
    <2> HIDE DEF inbox, output
    <2>8. Ordered(Append(output, new)) /\ UpTo(Append(output, new), counter)
      <3>1. Ordered(Append(output, new))
        BY <1>t, <1>o, <2>4, <2>6, AppendOrdered
      <3>2. UpTo(Append(output, new), counter)
        BY <1>t, <1>o, <2>4, <2>6, AppendUpTo
      <3> QED
        BY <3>1, <3>2
    <2>9. Before(lines, Append(output, new))
      BY <1>t, <1>o, <2>4, <2>6, AppendBefore
    <2>10. /\ Ordered(Tail(inbox)) /\ Before(lines, Tail(inbox)) /\ UpTo(Tail(inbox), counter)
           /\ Before(output, Tail(inbox))
      BY <1>t, <1>o, <2>2, TailOrder
    <2>11. Before(Append(output, new), Tail(inbox))
      BY <1>t, <2>3, <2>4, <2>7, <2>10, AppendAhead
    <2>12. InOrder'
      BY <1>o, <2>2, <2>8, <2>9, <2>10, <2>11 DEF InOrder
    <2>13. Numbered' /\ Written'
      <3>1. /\ \A i \in 1..Len(output) : output[i].kind = "reply" <=> output[i].id # 0
            /\ \A i \in 1..Len(inbox) : inbox[i].id # 0
            /\ \A i \in 1..Len(output) : output[i].by = started
            /\ \A i \in 2..Len(output) : output[i].kind = "reply"
        BY DEF Numbered, Written, output, inbox
      <3>2. /\ Len(Append(output, new)) = Len(output) + 1 /\ Len(output) \in Nat
            /\ \A i \in 1..Len(output) : Append(output, new)[i] = output[i]
            /\ Append(output, new)[Len(output) + 1] = new
        BY <1>t, <2>4, AppendEntries
      <3>3. Numbered'
        BY <2>2, <2>3, <2>4, <2>5, <3>1, <3>2 DEF Numbered
      <3>4. /\ \A i \in 1..Len(child'.output) : child'.output[i].by = started
            /\ \A i \in 2..Len(child'.output) : child'.output[i].kind = "reply"
        BY <2>2, <2>4, <3>1, <3>2
      <3>5. (\A i \in 1..Len(output) : output[i].kind = "reply") =>
                \A i \in 1..Len(child'.output) : child'.output[i].kind = "reply"
        BY <2>2, <2>4, <3>2
      <3> QED
        BY <2>2, <3>3, <3>4, <3>5 DEF Written, output
    <2> QED
      BY <2>12, <2>13
  <1>3. CASE ReadLine
    <2> DEFINE line == Head(output)
               kept == Kept
               new == Got(line)
    <2>1. /\ output # <<>> /\ child'.output = Tail(output) /\ child'.inbox = inbox
          /\ child'.announced = child.announced /\ child'.running = child.running
          /\ UNCHANGED <<counter, started>> /\ lines' = Enqueued(line)
      BY <1>3 DEF ReadLine, Child, OutstationTypeOK
    <2>2. /\ line = output[1] /\ 1 \in 1..Len(output) /\ line \in Line
          /\ Tail(output) \in Seq(Line) /\ Len(Tail(output)) = Len(output) - 1
          /\ \A i \in 1..Len(Tail(output)) :
                Tail(output)[i] = output[i + 1] /\ i + 1 \in 1..Len(output)
      BY <2>1, <1>t, TailEntries
    <2>3. \A i \in 1..Len(lines) : lines[i].id # 0 /\ line.id # 0 => lines[i].id < line.id
      BY <1>o, <2>2 DEF Before
    <2>4. /\ lines' = Append(kept, new) /\ new \in Line /\ new.id \in {0, line.id}
          /\ kept \in Seq(Line) /\ Ordered(kept) /\ Before(kept, output)
          /\ Before(kept, inbox) /\ UpTo(kept, counter)
          /\ \A i \in 1..Len(kept) : kept[i].kind = "reply" <=> kept[i].id # 0
          /\ \A i \in 1..Len(kept) : \E j \in 1..Len(lines) : kept[i] = lines[j]
          /\ \A i \in 1..Len(kept) : kept[i].id # 0 /\ new.id # 0 => kept[i].id < new.id
      BY <2>1, <2>2, <2>3, EnqueuedLine
    <2>5. new = line \/ new = Failure
      BY DEF Got
    <2>6. (new.kind = "reply" <=> new.id # 0) /\ new.by <= started
          /\ (new.kind = "reply" => new.by = started /\ new = line)
      BY <1>t, <2>2, <2>5 DEF Failure, Numbered, Written
    <2> HIDE DEF new, kept, line
    <2>7. \A i \in 1..Len(Tail(output)) :
             Tail(output)[i].id # 0 /\ new.id # 0 => new.id < Tail(output)[i].id
      <3> SUFFICES ASSUME NEW i \in 1..Len(Tail(output)), Tail(output)[i].id # 0, new.id # 0
                   PROVE  new.id < Tail(output)[i].id
        OBVIOUS
      <3>1. i + 1 \in 1..Len(output) /\ 1 < i + 1 /\ Tail(output)[i] = output[i + 1]
        BY <2>2
      <3> QED
        BY <1>o, <2>2, <2>4, <3>1 DEF Ordered
    <2>8. /\ \A i \in 1..Len(inbox) : inbox[i].id # 0 /\ new.id # 0 => new.id < inbox[i].id
          /\ new.id <= counter
      BY <1>o, <1>t, <2>2, <2>4 DEF Before, UpTo
    <2> HIDE DEF inbox, output
    <2>9. Ordered(lines') /\ UpTo(lines', counter)
      <3>1. Ordered(Append(kept, new))
        BY <1>t, <2>4, AppendOrdered
      <3>2. UpTo(Append(kept, new), counter)
        BY <1>t, <2>4, <2>8, AppendUpTo
      <3> QED
        BY <2>4, <3>1, <3>2
    <2>10. Before(lines', inbox)
      BY <1>t, <2>4, <2>8, AppendAhead
    <2>11. /\ Ordered(Tail(output)) /\ Before(kept, Tail(output)) /\ Before(Tail(output), inbox)
           /\ UpTo(Tail(output), counter)
      <3>1. Ordered(Tail(output)) /\ Before(kept, Tail(output)) /\ UpTo(Tail(output), counter)
        BY <1>t, <1>o, <2>1, <2>4, TailOrder
      <3>2. Before(Tail(output), inbox)
        BY <1>t, <1>o, <2>1, TailOrder
      <3> QED
        BY <3>1, <3>2
    <2>12. Before(lines', Tail(output))
      BY <1>t, <2>2, <2>4, <2>7, <2>11, AppendAhead
    <2>13. InOrder'
      BY <1>o, <2>1, <2>9, <2>10, <2>11, <2>12 DEF InOrder
    <2>14. /\ Len(lines') = Len(kept) + 1 /\ Len(kept) \in Nat
           /\ \A i \in 1..Len(kept) : lines'[i] = kept[i]
           /\ lines'[Len(kept) + 1] = new
      BY <2>4, AppendEntries
    <2>15. Numbered'
      <3>1. \A i \in 1..Len(lines') : lines'[i].kind = "reply" <=> lines'[i].id # 0
        BY <2>4, <2>6, <2>14
      <3>2. \A i \in 1..Len(Tail(output)) :
               Tail(output)[i].kind = "reply" <=> Tail(output)[i].id # 0
        BY <2>2 DEF Numbered, output
      <3> QED
        BY <2>1, <3>1, <3>2 DEF Numbered, inbox
    <2>16. Written'
      <3>1. \A i \in 1..Len(lines') : lines'[i].by <= started
        BY <2>4, <2>6, <2>14 DEF Written
      <3>2. \A i \in 1..Len(Tail(output)) : /\ Tail(output)[i].by = started
                                            /\ Tail(output)[i].kind = "reply"
        BY <1>t, <2>2 DEF Written, output
      <3>3. child.announced \/ ~child.running
        BY <2>1 DEF Written, output
      <3> QED
        BY <2>1, <3>1, <3>2, <3>3 DEF Written
    <2> QED
      BY <2>13, <2>15, <2>16
  <1>4. CASE Start
    <2>1. /\ child'.output = <<>> /\ child'.inbox = <<>> /\ UNCHANGED <<lines, counter>>
          /\ started' = started + 1
      BY <1>4 DEF Start, NoChild
    <2>2. InOrder' /\ Numbered'
      BY <1>o, <2>1 DEF InOrder, Numbered, Ordered, Before, UpTo
    <2>3. \A i \in 1..Len(lines) : lines[i].by \in Nat /\ lines[i].by <= started
      BY <1>t, RecordTypes DEF Written
    <2>4. Written'
      BY <1>t, <2>1, <2>3 DEF Written
    <2> QED
      BY <2>2, <2>4
  <1>5. CASE Join
    <2>1. /\ child'.output = <<>> /\ child'.inbox = <<>> /\ ~child'.running
          /\ UNCHANGED <<counter, started>>
      BY <1>5 DEF Join, NoChild
    <2>2. CASE lines' = lines
      BY <1>o, <2>1, <2>2 DEF InOrder, Numbered, Written, Ordered, Before, UpTo
    <2>3. CASE lines' = Enqueued(Failure)
      <3> DEFINE kept == Kept
                 new == Got(Failure)
      <3>1. Failure \in Line /\ Failure.id = 0 /\ new = Failure
        BY RecordTypes DEF Failure, Got
      <3>2. /\ lines' = Append(kept, new)
            /\ kept \in Seq(Line) /\ Ordered(kept) /\ UpTo(kept, counter)
            /\ \A i \in 1..Len(kept) : kept[i].kind = "reply" <=> kept[i].id # 0
            /\ \A i \in 1..Len(kept) : \E j \in 1..Len(lines) : kept[i] = lines[j]
        BY <2>3, <3>1, EnqueuedLine
      <3> HIDE DEF kept, new
      <3>3. Ordered(lines') /\ UpTo(lines', counter)
        <4>1. Ordered(Append(kept, new))
          BY <1>t, <3>1, <3>2, AppendOrdered
        <4>2. UpTo(Append(kept, new), counter)
          BY <1>t, <3>1, <3>2, AppendUpTo
        <4> QED
          BY <3>2, <4>1, <4>2
      <3>4. /\ Len(lines') = Len(kept) + 1 /\ Len(kept) \in Nat
            /\ \A i \in 1..Len(kept) : lines'[i] = kept[i]
            /\ lines'[Len(kept) + 1] = Failure
        BY <3>1, <3>2, AppendEntries
      <3>5. InOrder'
        BY <2>1, <3>3 DEF InOrder, Ordered, Before, UpTo
      <3>6. Numbered'
        BY <2>1, <3>2, <3>4 DEF Numbered, Failure
      <3>7. Written'
        <4>1. \A i \in 1..Len(lines') : lines'[i].by <= started
          <5>1. Failure.by <= started
            BY <1>t DEF Failure
          <5> QED
            BY <3>2, <3>4, <5>1 DEF Written
        <4> QED
          BY <2>1, <4>1 DEF Written
      <3> QED
        BY <3>5, <3>6, <3>7
    <2> QED
      BY <1>5, <2>2, <2>3 DEF Join
  <1>6. CASE Shortens \/ Sends
    BY <1>6, ShortensKeeps, SendsKeeps
  <1> QED
    BY <1>1, <1>2, <1>3, <1>4, <1>5, <1>6, CallerSteps DEF OutstationNext

(* The line in the caller's hands stays ahead of all others.               *)
LEMMA HeldStep ==
  ASSUME OutstationTypeOK, OutstationTypeOK', InOrder, Numbered, Written, Held,
         [OutstationNext]_outstationVars
  PROVE  Held'
  <1>t. /\ child.inbox \in Seq(Asked) /\ child.output \in Seq(Line) /\ lines \in Seq(Line)
        /\ counter \in Nat /\ counter' \in Nat /\ child \in Child /\ taken \in Line
        /\ (\A x \in Asked : x.id \in Nat) /\ (\A x \in Line : x.id \in Nat)
        /\ Failure \in Line /\ Failure.id = 0 /\ Failure.kind = "failure" /\ taken.id \in Nat
    BY RecordTypes DEF OutstationTypeOK, Failure
  <1>0. ASSUME taken' = Failure PROVE Held'
    BY <1>0, <1>t DEF Held, Ahead
  <1>1. CASE Announce
    <2> DEFINE ready == [kind |-> "ready", by |-> started, id |-> 0, ok |-> TRUE]
    <2>1. /\ child' = [child EXCEPT !.output = Append(child.output, ready), !.announced = TRUE]
          /\ child.output = <<>> /\ ready.id = 0
          /\ UNCHANGED <<loPc, taken, lines, counter>>
      BY <1>1 DEF Announce, Writes, Written
    <2>2. Append(<<>>, ready) = <<ready>>
      OBVIOUS
    <2> HIDE DEF ready
    <2>3. child'.output = <<ready>> /\ child'.inbox = child.inbox
      BY <2>1, <2>2, <1>t DEF Child
    <2> QED
      BY <2>1, <2>3 DEF Held, Ahead
  <1>2. CASE Serve
    <2> DEFINE asked == Head(child.inbox)
    <2>1. PICK ok \in BOOLEAN :
             child' = [child EXCEPT
                         !.inbox = Tail(@), !.running = ~(ok /\ asked.cmd = "shutdown"),
                         !.output = Append(@, [kind |-> "reply", by |-> started,
                                               id |-> asked.id, ok |-> ok])]
      BY <1>2 DEF Serve
    <2> DEFINE new == [kind |-> "reply", by |-> started, id |-> asked.id, ok |-> ok]
    <2>2. /\ child'.output = Append(child.output, new) /\ child'.inbox = Tail(child.inbox)
          /\ UNCHANGED <<loPc, taken, lines, counter>> /\ child.inbox # <<>>
      BY <1>2, <1>t, <2>1 DEF Serve, Child
    <2>3. /\ asked = child.inbox[1] /\ 1 \in 1..Len(child.inbox) /\ asked \in Asked
          /\ \A i \in 1..Len(Tail(child.inbox)) :
                Tail(child.inbox)[i] = child.inbox[i + 1] /\ i + 1 \in 1..Len(child.inbox)
      BY <2>2, <1>t, TailEntries
    <2>4. new \in Line /\ new.id = child.inbox[1].id
      BY <2>3, <1>t DEF Line, OutstationTypeOK
    <2> HIDE DEF new
    <2>5. /\ Len(child'.output) = Len(child.output) + 1 /\ Len(child.output) \in Nat
          /\ \A i \in 1..Len(child.output) : child'.output[i] = child.output[i]
          /\ child'.output[Len(child.output) + 1] = new
      BY <2>2, <2>4, <1>t, AppendEntries
    <2>6. Ahead(taken.id, child'.output)
      BY <2>3, <2>4, <2>5 DEF Held, Ahead
    <2>7. Ahead(taken.id, child'.inbox)
      BY <2>2, <2>3 DEF Held, Ahead
    <2> QED
      BY <2>2, <2>6, <2>7 DEF Held
  <1>3. CASE ReadLine
    <2> DEFINE line == Head(child.output)
    <2>1. /\ child.output # <<>> /\ child'.output = Tail(child.output) /\ child'.inbox = child.inbox
          /\ UNCHANGED <<loPc, taken, counter>> /\ lines' = Enqueued(line)
      BY <1>3, <1>t DEF ReadLine, Child
    <2>2. /\ line = child.output[1] /\ 1 \in 1..Len(child.output) /\ line \in Line
          /\ \A i \in 1..Len(Tail(child.output)) :
                Tail(child.output)[i] = child.output[i + 1] /\ i + 1 \in 1..Len(child.output)
      BY <2>1, <1>t, TailEntries
    <2>3. \A i \in 1..Len(lines) : lines[i].id # 0 /\ line.id # 0 => lines[i].id < line.id
      BY <2>2 DEF InOrder, Before
    <2>4. /\ lines' = Append(Kept, Got(line)) /\ Got(line) \in Line /\ Kept \in Seq(Line)
          /\ Got(line).id \in {0, line.id}
          /\ \A i \in 1..Len(Kept) : \E j \in 1..Len(lines) : Kept[i] = lines[j]
      BY <2>1, <2>2, <2>3, EnqueuedLine
    <2>5. /\ Len(lines') = Len(Kept) + 1 /\ Len(Kept) \in Nat
          /\ \A i \in 1..Len(Kept) : lines'[i] = Kept[i]
          /\ lines'[Len(Kept) + 1] = Got(line)
      BY <2>4, AppendEntries
    <2>6. Ahead(taken.id, lines')
      <3>1. \A i \in 1..Len(Kept) : taken.id # 0 /\ Kept[i].id # 0 => taken.id < Kept[i].id
        BY <2>4 DEF Held, Ahead
      <3>2. taken.id # 0 /\ Got(line).id # 0 => taken.id < Got(line).id
        BY <2>2, <2>4 DEF Held, Ahead
      <3> QED
        BY <2>5, <3>1, <3>2 DEF Ahead
    <2>7. Ahead(taken.id, child'.output)
      BY <2>1, <2>2 DEF Held, Ahead
    <2> QED
      BY <2>1, <2>6, <2>7 DEF Held
  <1>4. CASE TakeLine
    <2>1. /\ lines # <<>> /\ taken' = Head(lines) /\ lines' = Tail(lines)
          /\ loPc' \in {"readiness", "checking"} /\ UNCHANGED <<child, counter>>
      BY <1>4 DEF TakeLine
    <2>2. /\ Head(lines) = lines[1] /\ 1 \in 1..Len(lines) /\ Len(lines) \in Nat
          /\ \A i \in 1..Len(Tail(lines)) : Tail(lines)[i] = lines[i + 1] /\ i + 1 \in 1..Len(lines)
          /\ Len(Tail(lines)) \in Nat
      BY <2>1, <1>t, TailEntries
    <2>3. Ahead(taken'.id, child.output) /\ Ahead(taken'.id, child.inbox)
      BY <2>1, <2>2 DEF InOrder, Before, Ahead
    <2>4. Ahead(taken'.id, lines')
      <3> SUFFICES ASSUME NEW i \in 1..Len(Tail(lines)), lines[1].id # 0, Tail(lines)[i].id # 0
                   PROVE  lines[1].id < Tail(lines)[i].id
        BY <2>1, <2>2 DEF Ahead
      <3>1. i + 1 \in 1..Len(lines) /\ 1 < i + 1 /\ Tail(lines)[i] = lines[i + 1]
        BY <2>2
      <3> QED
        BY <2>2, <3>1 DEF InOrder, Ordered
    <2>5. taken'.id <= counter /\ (taken'.kind = "reply" <=> taken'.id # 0)
      BY <2>1, <2>2 DEF InOrder, UpTo, Numbered
    <2> QED
      BY <2>1, <2>3, <2>4, <2>5 DEF Held
  <1>5. CASE Start \/ CloseProcess \/ TimesOut \/ Join \/ Request
    <2>1. loPc \notin {"readiness", "checking"}
      BY <1>5 DEF Start, CloseProcess, TimesOut, Join, Request
    <2>2. taken = Failure
      BY <2>1 DEF Held
    <2>3. taken' \in {taken, Failure}
      BY <1>5 DEF Start, CloseProcess, TimesOut, Join, Request, Transmit, Terminate, Interrupt
    <2> QED
      BY <1>0, <2>2, <2>3
  <1>6. CASE CheckReady \/ ReceiveOther \/ ReceiveError \/ ReceiveResult \/ Interrupted
    <2>1. taken' = Failure
      BY <1>6 DEF CheckReady, ReceiveOther, ReceiveError, ReceiveResult, Interrupted, Transmit,
                  Terminate, Interrupt
    <2> QED
      BY <1>0, <2>1
  <1>7. CASE ChildExits
    BY <1>7, <1>t DEF ChildExits, Child, Held
  <1>8. CASE UNCHANGED outstationVars
    BY <1>8 DEF outstationVars, Held
  <1> QED
    BY <1>1, <1>2, <1>3, <1>4, <1>5, <1>6, <1>7, <1>8 DEF OutstationNext

----------------------------------------------------------------------------
(* The request under way and the bursts that were executed.                *)

(* A process that was stopped owes nothing more.                           *)
LEMMA StoppedAccounts ==
  ASSUME OutstationTypeOK, OutstationTypeOK', Accounted, ~Asking', ~child'.running,
         truth' = truth,
         \/ counter' = counter /\ request' = request
         \/ counter' = counter + 1 /\ request'.id = counter + 1
  PROVE  Accounted'
  <1>1. counter \in Nat /\ counter' \in Nat /\ truth.executed \subseteq Nat
    BY DEF OutstationTypeOK, Truth
  <1>2. \A u \in truth.executed : u # 0 /\ u <= counter'
    BY <1>1 DEF Accounted
  <1>3. \A u \in truth.executed : u = request'.id => request'.cmd = "generate"
    BY <1>1 DEF Accounted
  <1> QED
    BY <1>2, <1>3 DEF Accounted

(* _terminate: the request it ends was one to the present process.         *)
LEMMA TerminateStep ==
  ASSUME OutstationTypeOK, OutstationTypeOK', InOrder, Current, Accounted, AnswerIsOwn,
         Terminate, process = started,
         \/ counter' = counter /\ request' = request
         \/ counter' = counter + 1 /\ request'.id = counter + 1
  PROVE  Current' /\ Accounted' /\ AnswerIsOwn'
  <1>1. /\ loPc' = "joining" /\ ~child'.running /\ child'.inbox = child.inbox
        /\ UNCHANGED <<process, started, truth, answered>>
    BY DEF Terminate, OutstationTypeOK, Child
  <1>2. \A i \in 1..Len(child.inbox) : child.inbox[i].id = request'.id => child.inbox[i] = request'
    <2>1. child.inbox \in Seq(Asked) /\ counter \in Nat /\ \A x \in Asked : x.id \in Nat
      BY RecordTypes DEF OutstationTypeOK
    <2> QED
      BY <2>1 DEF Current, InOrder, UpTo
  <1>3. Current'
    BY <1>1, <1>2 DEF Current, Asking
  <1>4. Accounted'
    BY <1>1, StoppedAccounts DEF Asking
  <1> QED
    BY <1>1, <1>3, <1>4 DEF AnswerIsOwn

(* A reply that waits still does when the entries that report it do.       *)
LEMMA WaitsKeeps ==
  ASSUME NEW u, Waits(u), started' = started,
         Reports(taken, u) => taken' = taken,
         \A i \in 1..Len(lines) : Reports(lines[i], u) =>
            \E j \in 1..Len(lines') : lines'[j] = lines[i],
         \A i \in 1..Len(child.output) : Reports(child.output[i], u) =>
            \/ \E j \in 1..Len(child'.output) : child'.output[j] = child.output[i]
            \/ \E j \in 1..Len(lines') : lines'[j] = child.output[i]
  PROVE  Waits(u)'
  BY DEF Waits, Reports

(* The entries that stay when a line that reports nothing is taken.        *)
LEMMA TakenEntries ==
  ASSUME NEW u, lines \in Seq(Line),
         lines' = lines \/ (lines # <<>> /\ lines' = Tail(lines) /\ ~Reports(Head(lines), u))
  PROVE  \A i \in 1..Len(lines) : Reports(lines[i], u) =>
            \E j \in 1..Len(lines') : lines'[j] = lines[i]
  <1>1. CASE lines' = lines
    BY <1>1
  <1>2. CASE lines # <<>> /\ lines' = Tail(lines) /\ ~Reports(Head(lines), u)
    <2> SUFFICES ASSUME NEW i \in 1..Len(lines), Reports(lines[i], u)
                 PROVE  \E j \in 1..Len(lines') : lines'[j] = lines[i]
      OBVIOUS
    <2>1. /\ Len(lines') = Len(lines) - 1 /\ Len(lines) \in Nat
          /\ \A k \in 1..Len(lines') : lines'[k] = lines[k + 1]
          /\ Head(lines) = lines[1]
      BY <1>2, TailEntries
    <2>2. i # 1
      BY <1>2, <2>1
    <2>3. i - 1 \in 1..Len(lines') /\ lines'[i - 1] = lines[i]
      BY <2>1, <2>2
    <2> QED
      BY <2>3
  <1> QED
    BY <1>1, <1>2

(* request(): a written request has a fresh number, so no line answers it  *)
(* yet and no executed burst has it.                                       *)
LEMMA TransmitStep ==
  ASSUME OutstationTypeOK, OutstationTypeOK', InOrder, Current, Accounted, AnswerIsOwn,
         NEW cmd, Transmit(cmd), process = started, child.running, taken.kind # "reply"
  PROVE  Current' /\ Accounted' /\ AnswerIsOwn'
  <1>0. counter' = counter + 1 /\ request'.id = counter + 1
    BY DEF Transmit
  <1>t. /\ child.inbox \in Seq(Asked) /\ child.output \in Seq(Line) /\ lines \in Seq(Line)
        /\ request' \in Asked /\ counter \in Nat /\ truth.executed \subseteq Nat
        /\ (\A x \in Asked : x.id \in Nat) /\ (\A x \in Line : x.id \in Nat) /\ Failure.id = 0
    BY RecordTypes DEF OutstationTypeOK, Truth, Failure
  <1>4. /\ \A i \in 1..Len(child.inbox) : child.inbox[i].id # request'.id
        /\ \A i \in 1..Len(child.output) : child.output[i].id # request'.id
        /\ \A i \in 1..Len(lines) : lines[i].id # request'.id
    BY <1>0, <1>t DEF InOrder, UpTo
  <1>5. \A u \in truth.executed : u # 0 /\ u <= counter' /\ u # request'.id
    BY <1>0, <1>t DEF Accounted
  <1>6. ASSUME child'.output = child.output, taken' = Failure,
               UNCHANGED <<started, reading, lines, truth>>, NEW u \in Open
        PROVE  Waits(u)' \/ Lost'
    <2>1. Waits(u) \/ Lost
      BY <1>6 DEF Accounted
    <2>2. CASE Lost
      BY <1>0, <1>t, <1>4, <1>6, <2>2 DEF Lost
    <2>3. CASE Waits(u)
      <3>1. ~Reports(taken, u)
        BY DEF Reports
      <3> QED
        BY <1>6, <2>3, <3>1, WaitsKeeps
    <2> QED
      BY <2>1, <2>2, <2>3
  <1>1. CASE Terminate
    BY <1>0, <1>1, TerminateStep
  <1>2. CASE /\ loPc' = "answer" /\ taken' = Failure
             /\ child' = [child EXCEPT !.inbox = Append(@, request')]
             /\ UNCHANGED <<process, started, reading, lines, truth, answered, interrupts>>
    <2>2. child'.inbox = Append(child.inbox, request') /\ child'.output = child.output
      BY <1>2 DEF OutstationTypeOK, Child
    <2>3. /\ Len(child'.inbox) = Len(child.inbox) + 1 /\ Len(child.inbox) \in Nat
          /\ \A i \in 1..Len(child.inbox) : child'.inbox[i] = child.inbox[i]
          /\ child'.inbox[Len(child.inbox) + 1] = request'
      BY <2>2, <1>t, AppendEntries
    <2>7. Current'
      <3>1. \A i \in 1..Len(child'.inbox) :
               child'.inbox[i].id = request'.id => child'.inbox[i] = request'
        BY <2>3, <1>4
      <3>2. request'.id = counter' /\ counter' # 0
        BY <1>0, <1>t
      <3> QED
        BY <1>2, <1>4, <3>1, <3>2 DEF Current, Asking
    <2>8. Accounted'
      <3>1. \A u \in Open' : Waits(u)' \/ Lost'
        BY <1>2, <1>6, <2>2 DEF Open
      <3>2. taken'.id # request'.id
        BY <1>0, <1>2, <1>t
      <3> QED
        BY <1>2, <2>2, <1>4, <1>5, <3>1, <3>2 DEF Accounted
    <2> QED
      BY <1>2, <2>7, <2>8 DEF AnswerIsOwn
  <1>3. CASE Interrupt /\ UNCHANGED <<process, started, child, reading, lines, truth, answered>>
    <2>1. loPc' = "idle" /\ taken' = Failure
      BY <1>3 DEF Interrupt
    <2>2. Current'
      BY <1>3, <1>4, <2>1 DEF Current, Asking
    <2>3. \A u \in Open' : Waits(u)' \/ Lost'
      BY <1>3, <1>6, <2>1 DEF Open
    <2>4. Accounted'
      BY <1>3, <1>5, <2>1, <2>3 DEF Accounted, Asking
    <2> QED
      BY <1>3, <2>2, <2>4 DEF AnswerIsOwn
  <1> QED
    BY <1>1, <1>2, <1>3 DEF Transmit

(* _next_line: the line that leaves the queue is in the caller's hands.    *)
LEMMA TakeStep ==
  ASSUME OutstationTypeOK, Held, Current, Accounted, AnswerIsOwn, TakeLine
  PROVE  Current' /\ Accounted' /\ AnswerIsOwn'
  <1>1. /\ lines # <<>> /\ taken' = Head(lines) /\ lines' = Tail(lines)
        /\ (Asking' <=> Asking) /\ loPc' # "idle" /\ loPc' # "joining" /\ loPc # "idle"
        /\ (loPc' = "checking" <=> loPc = "answer")
        /\ UNCHANGED <<process, started, child, reading, counter, request, truth, answered>>
    BY DEF TakeLine, Asking
  <1>2. /\ lines \in Seq(Line) /\ Head(lines) = lines[1] /\ 1 \in 1..Len(lines)
        /\ \A i \in 1..Len(lines') : lines'[i] = lines[i + 1] /\ i + 1 \in 1..Len(lines)
    BY <1>1, TailEntries DEF OutstationTypeOK
  <1>3. Current'
    BY <1>1, <1>2 DEF Current, Asking
  <1>4. taken = Failure
    BY DEF Held, TakeLine
  <1>5. ASSUME NEW u, Waits(u) PROVE Waits(u)'
    <2>0. ~Reports(taken, u)
      BY <1>4 DEF Reports, Failure
    <2>1. CASE Reports(lines[1], u)
      BY <1>1, <1>2, <2>1 DEF Waits, Reports
    <2>2. CASE ~Reports(lines[1], u)
      <3>1. \A i \in 1..Len(lines) : Reports(lines[i], u) =>
               \E j \in 1..Len(lines') : lines'[j] = lines[i]
        BY <1>1, <1>2, <2>2, TakenEntries
      <3> QED
        BY <1>1, <1>5, <2>0, <3>1, WaitsKeeps
    <2> QED
      BY <2>1, <2>2
  <1>6. Lost => Lost'
    BY <1>1, <1>2 DEF Lost
  <1>7. Open' = Open
    BY <1>1 DEF Open
  <1>8. Accounted'
    BY <1>1, <1>2, <1>5, <1>6, <1>7 DEF Accounted
  <1> QED
    BY <1>1, <1>3, <1>8 DEF AnswerIsOwn

(* The process answers a request: a burst it executed is reported by the   *)
(* line it writes.                                                         *)
LEMMA ServeStep ==
  ASSUME OutstationTypeOK, InOrder, Numbered, Current, Accounted, AnswerIsOwn, Serve
  PROVE  Current' /\ Accounted' /\ AnswerIsOwn'
  <1> DEFINE inbox == child.inbox
             output == child.output
             asked == Head(inbox)
  <1>1. PICK ok \in BOOLEAN :
           /\ child' = [child EXCEPT
                          !.inbox = Tail(@), !.running = ~(ok /\ asked.cmd = "shutdown"),
                          !.output = Append(@, [kind |-> "reply", by |-> started,
                                                id |-> asked.id, ok |-> ok])]
           /\ truth' = IF ok /\ asked.cmd = "generate"
                       THEN [truth EXCEPT !.executed = @ \cup {asked.id}] ELSE truth
    BY DEF Serve
  <1> DEFINE new == [kind |-> "reply", by |-> started, id |-> asked.id, ok |-> ok]
  <1>t. /\ inbox \in Seq(Asked) /\ output \in Seq(Line) /\ lines \in Seq(Line)
        /\ counter \in Nat /\ (\A x \in Asked : x.id \in Nat)
        /\ truth \in Truth /\ inbox # <<>> /\ child.running
    BY RecordTypes DEF OutstationTypeOK, Serve
  <1>2. /\ child'.output = Append(output, new) /\ child'.inbox = Tail(inbox)
        /\ UNCHANGED <<loPc, process, started, reading, lines, taken, counter, request, answered>>
    BY <1>1 DEF Serve, Child, OutstationTypeOK
  <1>3. /\ asked = inbox[1] /\ 1 \in 1..Len(inbox) /\ asked \in Asked
        /\ \A i \in 1..Len(Tail(inbox)) : Tail(inbox)[i] = inbox[i + 1] /\ i + 1 \in 1..Len(inbox)
    BY <1>t, TailEntries
  <1>4. /\ asked.id # 0 /\ asked.id <= counter
        /\ (asked.id = request.id => asked = request)
    BY <1>3 DEF Numbered, InOrder, UpTo, Current
  <1>5. /\ new \in Line /\ new.id = asked.id /\ new.ok = ok
        /\ new.kind = "reply" /\ new.by = started
    BY <1>2, <1>3, <1>t DEF Line, OutstationTypeOK
  <1> HIDE DEF new
  <1>6. /\ Len(child'.output) = Len(output) + 1 /\ Len(output) \in Nat
        /\ \A i \in 1..Len(output) : child'.output[i] = output[i]
        /\ child'.output[Len(output) + 1] = new
    BY <1>2, <1>5, <1>t, AppendEntries
  <1>7. Current'
    <2>1. loPc = "joining" => ~child'.running
      BY <1>t DEF Current
    <2>2. process = started
      BY <1>t DEF Current
    <2>3. \A i \in 1..Len(child'.inbox) :
             child'.inbox[i].id = request.id => child'.inbox[i] = request
      BY <1>2, <1>3 DEF Current
    <2> QED
      BY <1>2, <2>1, <2>2, <2>3 DEF Current, Asking
  <1>8. ASSUME NEW u, Waits(u) PROVE Waits(u)'
    BY <1>2, <1>6, <1>8, WaitsKeeps
  <1>9. ASSUME NEW u, Waits(u) \/ Lost PROVE Waits(u)' \/ Lost'
    BY <1>2, <1>8, <1>9 DEF Lost
  <1>10. Accounted'
    <2>1. CASE ok /\ asked.cmd = "generate"
      <3>1. /\ truth'.executed = truth.executed \cup {asked.id}
            /\ truth'.returned = truth.returned /\ truth'.lost = truth.lost
        BY <1>1, <1>t, <2>1 DEF Truth
      <3>2. ASSUME NEW u, u = asked.id PROVE Waits(u)'
        <4>1. Len(output) + 1 \in 1..Len(child'.output)
          BY <1>6
        <4> QED
          BY <1>2, <1>5, <1>6, <2>1, <3>2, <4>1 DEF Waits, Reports
      <3>3. \A u \in truth'.executed : u = request.id => request.cmd = "generate"
        BY <1>4, <2>1, <3>1 DEF Accounted
      <3>4. \A u \in Open' : Waits(u)' \/ Lost'
        BY <1>9, <1>t, <3>1, <3>2 DEF Accounted, Open
      <3>5. ASSUME Asking, request.cmd = "generate"
            PROVE  \A i \in 1..Len(child'.output) :
                      child'.output[i].id = request.id /\ child'.output[i].ok =>
                         request.id \in truth'.executed
        <4>1. ASSUME NEW i \in 1..Len(child'.output), child'.output[i].id = request.id,
                     child'.output[i].ok
              PROVE  request.id \in truth'.executed
          <5>1. CASE i \in 1..Len(output)
            BY <1>6, <3>1, <3>5, <4>1, <5>1 DEF Accounted
          <5>2. CASE i = Len(output) + 1
            BY <1>5, <1>6, <3>1, <4>1, <5>2
          <5> QED
            BY <1>6, <5>1, <5>2
        <4> QED
          BY <4>1
      <3> QED
        BY <1>2, <1>4, <3>1, <3>3, <3>4, <3>5 DEF Accounted, Asking
    <2>2. CASE ~(ok /\ asked.cmd = "generate")
      <3>1. truth' = truth
        BY <1>1, <2>2
      <3>2. \A u \in Open' : Waits(u)' \/ Lost'
        BY <1>9, <1>t, <3>1 DEF Accounted, Open
      <3>3. ASSUME Asking, request.cmd = "generate"
            PROVE  \A i \in 1..Len(child'.output) :
                      child'.output[i].id = request.id /\ child'.output[i].ok =>
                         request.id \in truth.executed
        BY <1>4, <1>5, <1>6, <2>2, <3>3 DEF Accounted
      <3> QED
        BY <1>2, <3>1, <3>2, <3>3 DEF Accounted, Asking
    <2> QED
      BY <2>1, <2>2
  <1> QED
    BY <1>2, <1>7, <1>10 DEF AnswerIsOwn

(* The reader: a line that reports a burst reaches the queue, or the queue *)
(* is full, the reader stops and no later answer will be in it.            *)
LEMMA ReadStep ==
  ASSUME OutstationTypeOK, InOrder, Numbered, Held, Written, Current, Accounted, AnswerIsOwn, ReadLine
  PROVE  Current' /\ Accounted' /\ AnswerIsOwn'
  <1> DEFINE output == child.output
             line == Head(output)
  <1>t. /\ output \in Seq(Line) /\ lines \in Seq(Line) /\ counter \in Nat
        /\ (\A x \in Line : x.id \in Nat) /\ output # <<>> /\ reading
        /\ taken \in Line /\ Failure \in Line /\ Failure.id = 0 /\ LineCapacity \in Nat \ {0}
    BY RecordTypes, OutstationAssumption DEF OutstationTypeOK, ReadLine, Failure
  <1>1. /\ child'.output = Tail(output) /\ child'.inbox = child.inbox
        /\ child'.running = child.running /\ lines' = Enqueued(line)
        /\ UNCHANGED <<loPc, process, started, taken, counter, request, truth, answered>>
    BY DEF ReadLine, Child, OutstationTypeOK
  <1>2. /\ line = output[1] /\ 1 \in 1..Len(output) /\ line \in Line
        /\ Len(Tail(output)) = Len(output) - 1 /\ Len(output) \in Nat
        /\ \A i \in 1..Len(Tail(output)) :
              Tail(output)[i] = output[i + 1] /\ i + 1 \in 1..Len(output)
    BY <1>t, TailEntries
  <1>3. line.by = started
    BY <1>2 DEF Written
  <1>4. \A i \in 1..Len(lines) : lines[i].id # 0 /\ line.id # 0 => lines[i].id < line.id
    BY <1>2 DEF InOrder, Before
  <1>5. /\ lines' = Append(Kept, Got(line)) /\ Got(line) \in Line /\ Kept \in Seq(Line)
        /\ \A i \in 1..Len(Kept) : \E j \in 1..Len(lines) : Kept[i] = lines[j]
    BY <1>1, <1>2, <1>4, EnqueuedLine
  <1>6. /\ Len(lines') = Len(Kept) + 1 /\ Len(Kept) \in Nat
        /\ \A i \in 1..Len(Kept) : lines'[i] = Kept[i]
        /\ lines'[Len(Kept) + 1] = Got(line)
    BY <1>5, AppendEntries
  <1>7. \A i \in 1..Len(lines') :
           lines'[i].id # 0 => lines'[i] = line \/ \E j \in 1..Len(lines) : lines'[i] = lines[j]
    BY <1>t, <1>5, <1>6 DEF Got
  <1>8. Current'
    <2>1. ASSUME Asking, NEW i \in 1..Len(lines'), lines'[i].id = request.id
          PROVE  lines'[i].by = started
      BY <1>3, <1>7, <2>1 DEF Current
    <2> QED
      BY <1>1, <2>1 DEF Current, Asking
  <1>9. ASSUME NEW u \in Nat, u # 0, u <= counter, Waits(u) PROVE Waits(u)' \/ Lost'
    <2>1. \A i \in 1..Len(output) : i # 1 => \E j \in 1..Len(child'.output) : child'.output[j] = output[i]
      <3> SUFFICES ASSUME NEW i \in 1..Len(output), i # 1
                   PROVE  \E j \in 1..Len(child'.output) : child'.output[j] = output[i]
        OBVIOUS
      <3>1. i - 1 \in 1..Len(child'.output) /\ child'.output[i - 1] = output[i]
        BY <1>1, <1>2
      <3> QED
        BY <3>1
    <2>2. CASE Len(lines) < LineCapacity
      <3>1. Kept = lines /\ Got(line) = line
        BY <2>2 DEF Kept, Got
      <3>2. \E j \in 1..Len(lines') : lines'[j] = output[1]
        <4>1. Len(Kept) + 1 \in 1..Len(lines')
          BY <1>6
        <4> QED
          BY <1>2, <1>6, <3>1, <4>1
      <3>3. \A i \in 1..Len(lines) : \E j \in 1..Len(lines') : lines'[j] = lines[i]
        BY <1>6, <3>1
      <3> QED
        BY <1>1, <1>9, <2>1, <3>2, <3>3, WaitsKeeps
    <2>3. CASE ~(Len(lines) < LineCapacity)
      <3>0. ~reading'
        BY <2>3, Zenon DEF ReadLine
      <3>1. Kept = Tail(lines) /\ Got(line) = Failure /\ lines # <<>>
        BY <1>t, <2>3 DEF Kept, Got
      <3>2. /\ lines[1] \in Line /\ 1 \in 1..Len(lines) /\ Len(Kept) = Len(lines) - 1
            /\ Len(lines) \in Nat /\ \A i \in 1..Len(Kept) : Kept[i] = lines[i + 1]
        BY <1>t, <3>1, TailEntries
      <3>3. \A i \in 1..Len(lines) : i # 1 => \E j \in 1..Len(lines') : lines'[j] = lines[i]
        <4> SUFFICES ASSUME NEW i \in 1..Len(lines), i # 1
                     PROVE  \E j \in 1..Len(lines') : lines'[j] = lines[i]
          OBVIOUS
        <4>1. i - 1 \in 1..Len(Kept) /\ Kept[i - 1] = lines[i]
          BY <3>2
        <4>2. i - 1 \in 1..Len(lines') /\ lines'[i - 1] = lines[i]
          BY <1>6, <4>1
        <4> QED
          BY <4>2
      <3>7. (taken.id # 0 => taken.id # counter) /\ (\A i \in 1..Len(lines) : lines[i].id # counter)
               => Lost'
        <4>1. counter # 0
          BY <1>t, <1>9
        <4>2. ASSUME \A i \in 1..Len(lines) : lines[i].id # counter, NEW j \in 1..Len(lines')
              PROVE  lines'[j].id # counter
          <5>1. CASE j \in 1..Len(Kept)
            BY <1>5, <1>6, <4>2, <5>1
          <5>2. CASE j = Len(Kept) + 1
            BY <1>6, <1>t, <3>1, <4>1, <5>2
          <5> QED
            BY <1>6, <5>1, <5>2
        <4> QED
          BY <1>1, <3>0, <4>2 DEF Lost
      <3>4. CASE Reports(lines[1], u)
        <4>1. lines[1].kind = "reply" /\ lines[1].by = started
          BY <3>4 DEF Reports
        <4>2. line.kind = "reply"
          BY <1>2, <3>2, <4>1 DEF Written
        <4>3. line.id # 0 /\ line.id <= counter
          BY <1>2, <4>2 DEF Numbered, InOrder, UpTo
        <4>4. \A i \in 1..Len(lines) : lines[i].id # counter
          BY <1>t, <1>2, <1>4, <4>3
        <4>5. taken.id # 0 => taken.id # counter
          BY <1>t, <1>2, <4>3 DEF Held, Ahead
        <4> QED
          BY <3>7, <4>4, <4>5
      <3>5. CASE Reports(output[1], u)
        <4>1. line.id = u
          BY <1>2, <3>5 DEF Reports
        <4>2. \A i \in 1..Len(lines) : lines[i].id # counter
          BY <1>t, <1>4, <1>9, <4>1
        <4>3. taken.id # 0 => taken.id # counter
          BY <1>t, <1>2, <1>9, <4>1 DEF Held, Ahead
        <4> QED
          BY <3>7, <4>2, <4>3
      <3>6. CASE ~Reports(lines[1], u) /\ ~Reports(output[1], u)
        <4>1. /\ \A i \in 1..Len(lines) : Reports(lines[i], u) => i # 1
              /\ \A i \in 1..Len(output) : Reports(output[i], u) => i # 1
          BY <3>6
        <4> QED
          BY <1>1, <1>9, <2>1, <3>3, <4>1, WaitsKeeps
      <3> QED
        BY <3>4, <3>5, <3>6
    <2> QED
      BY <2>2, <2>3
  <1>10. Accounted'
    <2>1. truth.executed \subseteq Nat
      BY DEF OutstationTypeOK, Truth
    <2>2. Asking \/ child.running => \A u \in Open' : Waits(u)' \/ Lost'
      BY <1>1, <1>9, <1>t, <2>1 DEF Accounted, Lost, Open
    <2>3. ASSUME Asking, request.cmd = "generate"
          PROVE  /\ \A i \in 1..Len(lines') :
                       lines'[i].id = request.id /\ lines'[i].ok => request.id \in truth.executed
                 /\ \A i \in 1..Len(child'.output) :
                       child'.output[i].id = request.id /\ child'.output[i].ok =>
                          request.id \in truth.executed
      <3>1. request.id # 0
        BY <2>3 DEF Current
      <3>2. line.id = request.id /\ line.ok => request.id \in truth.executed
        BY <1>2, <2>3 DEF Accounted
      <3>3. \A i \in 1..Len(lines') :
               lines'[i].id = request.id /\ lines'[i].ok => request.id \in truth.executed
        BY <1>7, <2>3, <3>1, <3>2 DEF Accounted
      <3> QED
        BY <1>1, <1>2, <2>3, <3>3 DEF Accounted
    <2> QED
      BY <1>1, <2>2, <2>3 DEF Accounted, Asking
  <1> QED
    BY <1>1, <1>8, <1>10 DEF AnswerIsOwn

(* A result that is accepted: the only burst that can be unreported        *)
(* then is the one whose truth it returns.                                 *)
LEMMA ResultStep ==
  ASSUME OutstationTypeOK, InOrder, Held, Current, Accounted, AnswerIsOwn, ReceiveResult
  PROVE  Current' /\ Accounted' /\ AnswerIsOwn'
  <1>t. /\ child.output \in Seq(Line) /\ lines \in Seq(Line) /\ counter \in Nat /\ truth \in Truth
        /\ (\A x \in Line : x.id \in Nat) /\ child \in Child /\ taken \in Line
    BY RecordTypes DEF OutstationTypeOK
  <1>1. loPc = "checking" /\ Asking /\ taken.id = request.id /\ taken.ok
    BY DEF ReceiveResult, IsAnswer, Asking
  <1>2. request.id = counter /\ counter # 0 /\ process = started /\ taken.by = started
    BY <1>1 DEF Current
  <1>3. ASSUME NEW u \in Open PROVE u = request.id
    <2>1. Waits(u)
      BY <1>1, <1>2, <1>3 DEF Accounted, Lost
    <2>2. ASSUME NEW i \in 1..Len(lines), lines[i].id = u, u # 0 PROVE FALSE
      BY <1>1, <1>2, <1>t, <2>2 DEF InOrder, UpTo, Held, Ahead
    <2>3. ASSUME NEW i \in 1..Len(child.output), child.output[i].id = u, u # 0 PROVE FALSE
      BY <1>1, <1>2, <1>t, <2>3 DEF InOrder, UpTo, Held, Ahead
    <2>4. u # 0
      BY <1>3 DEF Accounted, Open
    <2> QED
      BY <1>1, <2>1, <2>2, <2>3, <2>4 DEF Waits, Reports
  <1>4. /\ truth'.executed = truth.executed /\ truth'.lost = truth.lost
        /\ truth'.returned \subseteq truth.executed
        /\ truth.executed = truth'.returned \cup truth'.lost
    <2>1. CASE request.cmd = "generate"
      <3>1. request.id \in truth.executed
        BY <1>1, <2>1 DEF Accounted
      <3>2. /\ truth'.executed = truth.executed /\ truth'.lost = truth.lost
            /\ truth'.returned = truth.returned \cup {request.id}
        BY <1>t, <2>1 DEF ReceiveResult, Truth
      <3> QED
        BY <1>3, <3>1, <3>2 DEF Accounted, Open
    <2>2. CASE request.cmd # "generate"
      <3>1. truth' = truth
        BY <2>2 DEF ReceiveResult
      <3>2. Open = {}
        <4>1. \A u \in Open : u \in truth.executed /\ u = request.id
          BY <1>3 DEF Open
        <4> QED
          BY <2>2, <4>1 DEF Accounted
      <3> QED
        BY <3>1, <3>2 DEF Accounted, Open
    <2> QED
      BY <2>1, <2>2
  <1>5. /\ loPc' \in {"idle", "joining"} /\ (loPc' = "joining" => ~child'.running)
        /\ (child'.running => child.running) /\ child'.inbox = child.inbox
        /\ UNCHANGED <<process, started, counter, request>>
    BY <1>t DEF ReceiveResult, Child
  <1>6. Current'
    BY <1>2, <1>5 DEF Current, Asking
  <1>7. Accounted'
    <2>1. Open' = {}
      BY <1>4 DEF Open
    <2> QED
      BY <1>4, <1>5, <2>1 DEF Accounted, Asking
  <1>8. AnswerIsOwn'
    BY <1>2, <1>4 DEF AnswerIsOwn, ReceiveResult
  <1> QED
    BY <1>6, <1>7, <1>8

(* Every step keeps account of the bursts.                                 *)
LEMMA AccountStep ==
  ASSUME OutstationTypeOK, OutstationTypeOK', InOrder, Numbered, Held, Written, Current,
         Accounted, AnswerIsOwn, [OutstationNext]_outstationVars
  PROVE  Current' /\ Accounted' /\ AnswerIsOwn'
  <1>t. /\ child \in Child /\ lines \in Seq(Line) /\ counter \in Nat /\ process \in {0, started}
        /\ child.output \in Seq(Line) /\ Failure.id = 0 /\ Failure.kind = "failure"
    BY RecordTypes DEF OutstationTypeOK, Failure
  <1>1. CASE Announce
    <2> DEFINE ready == [kind |-> "ready", by |-> started, id |-> 0, ok |-> TRUE]
    <2>1. /\ child' = [child EXCEPT !.output = Append(child.output, ready), !.announced = TRUE]
          /\ child.output = <<>> /\ ready.id = 0
          /\ UNCHANGED <<loPc, process, started, reading, lines, taken, counter, request, truth, answered>>
      BY <1>1 DEF Announce, Writes, Written
    <2>2. Append(<<>>, ready) = <<ready>>
      OBVIOUS
    <2> HIDE DEF ready
    <2>3. child'.output = <<ready>> /\ child'.inbox = child.inbox /\ child'.running = child.running
      BY <2>1, <2>2, <1>t DEF Child
    <2>4. Current'
      BY <2>1, <2>3 DEF Current, Asking
    <2>5. ASSUME NEW u, Waits(u) \/ Lost PROVE Waits(u)' \/ Lost'
      BY <2>1, <2>5 DEF Waits, Lost, Reports
    <2>6. ASSUME Asking, NEW i \in 1..Len(child'.output)
          PROVE  child'.output[i].id # request.id
      BY <2>1, <2>3, <2>6 DEF Current
    <2>7. Accounted'
      BY <2>1, <2>3, <2>5, <2>6 DEF Accounted, Asking, Open
    <2> QED
      BY <2>1, <2>4, <2>7 DEF AnswerIsOwn
  <1>2. CASE Serve
    BY <1>2, ServeStep
  <1>3. CASE ChildExits
    <2>1. /\ child'.output = child.output /\ child'.inbox = child.inbox /\ ~child'.running
          /\ UNCHANGED <<loPc, process, started, reading, lines, taken, counter, request, truth, answered>>
      BY <1>3, <1>t DEF ChildExits, Child
    <2>2. \A u : Waits(u) \/ Lost => Waits(u)' \/ Lost'
      BY <2>1 DEF Waits, Lost, Reports
    <2> QED
      BY <2>1, <2>2 DEF Current, Accounted, AnswerIsOwn, Asking, Open
  <1>4. CASE ReadLine
    BY <1>4, ReadStep
  <1>5. CASE Start
    <2>1. /\ child'.output = <<>> /\ child'.inbox = <<>> /\ truth' = NoTruth
          /\ process' = started' /\ loPc' \in {"startup", "idle"}
          /\ UNCHANGED <<lines, request, answered>>
      BY <1>5 DEF Start, NoChild, Interrupt
    <2>2. Current'
      BY <2>1 DEF Current, Asking
    <2>3. Accounted'
      BY <2>1 DEF Accounted, NoTruth, Asking, Open
    <2> QED
      BY <2>1, <2>2, <2>3 DEF AnswerIsOwn
  <1>6. CASE CheckReady
    <2>1. process = started
      BY <1>6 DEF CheckReady, Current
    <2>2. CASE taken.kind = "ready" /\ child.running /\ Transmit("hello")
      BY <2>1, <2>2, TransmitStep
    <2>3. CASE Terminate /\ UNCHANGED <<counter, request>>
      BY <2>1, <2>3, TerminateStep
    <2> QED
      BY <1>6, <2>2, <2>3 DEF CheckReady
  <1>7. CASE Request
    <2>1. process = started /\ child.running /\ taken.kind # "reply"
      BY <1>7, <1>t DEF Request, Held
    <2>2. PICK cmd \in {"snapshot", "generate"} : Transmit(cmd)
      BY <1>7 DEF Request
    <2> QED
      BY <2>1, <2>2, TransmitStep
  <1>8. CASE CloseProcess
    <2>1. process = started /\ taken.kind # "reply"
      BY <1>8, <1>t DEF CloseProcess, Held
    <2>2. CASE child.running /\ Transmit("shutdown")
      BY <2>1, <2>2, TransmitStep
    <2>3. CASE Terminate /\ UNCHANGED <<counter, request>>
      BY <2>1, <2>3, TerminateStep
    <2> QED
      BY <1>8, <2>2, <2>3 DEF CloseProcess
  <1>9. CASE TimesOut
    BY <1>9, TerminateStep DEF TimesOut, Current
  <1>10. CASE ReceiveOther
    BY <1>10, TerminateStep DEF ReceiveOther, Current
  <1>11. CASE ReceiveError
    <2>1. process = started
      BY <1>11 DEF ReceiveError, Current
    <2>2. CASE Terminate /\ UNCHANGED <<counter, request>>
      BY <2>1, <2>2, TerminateStep
    <2>3. CASE /\ loPc' = "idle" /\ taken' = Failure
               /\ UNCHANGED <<process, started, child, reading, lines, truth, answered, counter,
                              request>>
      <3>1. Current'
        BY <2>3 DEF Current, Asking
      <3>2. ASSUME NEW u, Waits(u) \/ Lost PROVE Waits(u)' \/ Lost'
        <4>1. ~Reports(taken, u)
          BY <1>11 DEF ReceiveError, Reports
        <4>2. Lost => Lost'
          BY <1>t, <2>3 DEF Lost
        <4>3. Waits(u) => Waits(u)'
          BY <2>3, <4>1, WaitsKeeps
        <4> QED
          BY <3>2, <4>2, <4>3
      <3>4. Accounted'
        BY <1>11, <2>3, <3>2 DEF Accounted, ReceiveError, Asking, Open
      <3> QED
        BY <2>3, <3>1, <3>4 DEF AnswerIsOwn
    <2> QED
      BY <1>11, <2>2, <2>3 DEF ReceiveError
  <1>16. CASE TakeLine
    BY <1>16, TakeStep
  <1>12. CASE ReceiveResult
    BY <1>12, ResultStep
  <1>13. CASE Join
    <2>1. /\ loPc' = "idle" /\ ~child'.running /\ child'.inbox = <<>>
          /\ UNCHANGED <<counter, request, truth, answered>>
      BY <1>13 DEF Join, NoChild
    <2>2. Accounted'
      BY <2>1, StoppedAccounts DEF Asking
    <2> QED
      BY <2>1, <2>2 DEF Current, AnswerIsOwn, Asking
  <1>14. CASE Interrupted
    <2>1. /\ loPc' = "idle" /\ taken' = Failure
          /\ truth' = [truth EXCEPT !.lost = @ \cup ({taken.id} \cap truth.executed)]
          /\ UNCHANGED <<process, started, child, reading, lines, counter, request, answered>>
      BY <1>14 DEF Interrupted, Interrupt
    <2>2. /\ truth'.executed = truth.executed /\ truth'.returned = truth.returned
          /\ truth'.lost = truth.lost \cup ({taken.id} \cap truth.executed)
      BY <2>1 DEF OutstationTypeOK, Truth
    <2>3. ASSUME NEW u \in Open', Waits(u) \/ Lost PROVE Waits(u)' \/ Lost'
      <3>1. u # taken.id
        BY <2>2, <2>3 DEF Open
      <3>2. ~Reports(taken, u)
        BY <3>1 DEF Reports
      <3>3. Lost => Lost'
        BY <1>t, <2>1 DEF Lost
      <3>4. Waits(u) => Waits(u)'
        BY <2>1, <3>2, WaitsKeeps
      <3> QED
        BY <2>3, <3>3, <3>4
    <2>4. Open' \subseteq Open
      BY <2>2 DEF Open
    <2>5. Accounted'
      BY <2>1, <2>2, <2>3, <2>4 DEF Accounted, Asking
    <2> QED
      BY <2>1, <2>5 DEF Current, AnswerIsOwn, Asking
  <1>15. CASE UNCHANGED outstationVars
    <2>1. \A u : Waits(u) \/ Lost => Waits(u)' \/ Lost'
      BY <1>15 DEF Waits, Lost, Reports, outstationVars
    <2> QED
      BY <1>15, <2>1 DEF Current, Accounted, AnswerIsOwn, outstationVars, Asking, Open
  <1> QED
    BY <1>1, <1>2, <1>3, <1>4, <1>5, <1>6, <1>7, <1>8, <1>9, <1>10, <1>11, <1>12, <1>13, <1>14,
       <1>15, <1>16 DEF OutstationNext

----------------------------------------------------------------------------
(* The invariant holds before the first process is started.                *)
LEMMA OutstationInitial == OutstationInit => OutstationInv
  <1> SUFFICES ASSUME OutstationInit PROVE OutstationInv
    OBVIOUS
  <1> USE DEF OutstationInit
  <1>0. child.inbox = <<>> /\ child.output = <<>> /\ ~child.running
    BY DEF NoChild
  <1>1. OutstationTypeOK
    <2>1. request \in Asked
      BY DEF Asked
    <2>2. lines \in Seq(Line)
      OBVIOUS
    <2> QED
      BY <2>1, <2>2, RecordTypes DEF OutstationTypeOK
  <1>2. InOrder /\ Numbered /\ Written /\ Held
    BY <1>0 DEF InOrder, Numbered, Written, Ordered, Before, UpTo, Held, Ahead, Failure
  <1>3. Current
    BY <1>0 DEF Current, Asking
  <1>4. Accounted /\ AnswerIsOwn
    BY <1>0 DEF Accounted, AnswerIsOwn, NoTruth, Asking, Open
  <1> QED
    BY <1>1, <1>2, <1>3, <1>4 DEF OutstationInv

(* Whatever the reader, the process and an interrupted caller do, and for  *)
(* every capacity of the queue: the answer that a call returns was written *)
(* by the process it was sent to, and the truths that generate_events      *)
(* returned account for every burst of that process whose reply was not in *)
(* the caller's hands when a KeyboardInterrupt ended a call                *)
(* (local_outstation.py).                                                  *)
THEOREM OutstationAnswersAreOwn == OutstationSpec => []AnswerIsOwn
  <1>1. OutstationInv /\ [OutstationNext]_outstationVars => OutstationInv'
    BY OutstationTypes, OrderStep, HeldStep, AccountStep DEF OutstationInv
  <1>2. OutstationInv => AnswerIsOwn
    BY DEF OutstationInv
  <1> QED
    BY OutstationInitial, <1>1, <1>2, PTL DEF OutstationSpec
=============================================================================
