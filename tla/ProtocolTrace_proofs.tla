------------------------ MODULE ProtocolTrace_proofs ------------------------
(***************************************************************************)
(* Proofs about the protocol trace, for every capacity, batch size and     *)
(* counter width: the ring of ProtocolTrace.cpp implements the queue of    *)
(* TraceQueue, a trace the client calls complete is the whole of what was  *)
(* logged, and no reply of the host is refused by the client's checks.     *)
(***************************************************************************)
EXTENDS ProtocolTrace, SequenceTheorems, TLAPS

(* The values of the variables.                                            *)
TraceTyped ==
    /\ capacity \in Capacities /\ records \in [0..(capacity - 1) -> Record]
    /\ head \in 0..(capacity - 1) /\ queued \in 0..capacity
    /\ active \in BOOLEAN /\ known \in BOOLEAN
    /\ dropped \in Nat /\ truncated \in Nat /\ sequence \in 0..MaxSequence
    /\ logged \in Nat /\ delivered \in Seq(Record)

(* The counters of the ring, and what they say while nothing is dropped.   *)
Counted ==
    /\ queued <= sequence /\ dropped <= sequence /\ truncated <= sequence
    /\ dropped = 0 =>
          /\ logged = sequence /\ Len(delivered) + queued = sequence
          /\ \A i \in 1..Len(delivered) : delivered[i].sequence = i

(* The records in the ring are the last ones, numbered without a gap.      *)
Numbered ==
    \A i \in 1..queued :
        /\ Oldest(queued)[i].sequence = sequence - queued + i
        /\ Oldest(queued)[i].truncated => truncated > 0

(* The summary the client keeps is an earlier one of the present trace, and *)
(* what it says of the records the client has read is still true.          *)
Reported ==
    /\ previous.state \in {"NONE", "ACTIVE", "STOPPED"}
    /\ previous.capacity \in Nat /\ previous.queued \in Nat /\ previous.dropped \in Nat
    /\ previous.truncated \in Nat /\ previous.last \in Nat /\ previous.logged \in Nat
    /\ known <=> previous.state # "NONE"
    /\ previous.state = "NONE" => previous = None
    /\ known => /\ previous.capacity = capacity /\ previous.last <= sequence
                /\ previous.dropped <= dropped /\ previous.truncated <= truncated
                /\ previous.state = "STOPPED" => ~active
    /\ previous.dropped = 0 =>
          /\ previous.logged = previous.last
          /\ Len(delivered) = previous.last - previous.queued
          /\ \A i \in 1..Len(delivered) : delivered[i].sequence = i
    /\ previous.truncated = 0 => \A i \in 1..Len(delivered) : ~delivered[i].truncated
    /\ ~rejected

TraceInv == TraceTyped /\ Counted /\ Numbered /\ Reported

(* The n records of a ring r of capacity c that start at position h.       *)
Window(r, h, c, n) == [i \in 1..n |-> r[(h + i - 1) % c]]

(* The ring with a record behind the n that start at position h.           *)
Put(r, h, c, n, x) == [r EXCEPT ![(h + n) % c] = x]
IsPushed(r, h, c, n, x) ==
    Window(Put(r, h, c, n, x), h, c, n + 1) = Append(Window(r, h, c, n), x)

----------------------------------------------------------------------------
(* The arithmetic of head and queued in record() and read(): what the      *)
(* modulus does to a sum of two positions, which slot each record is in.   *)

(* A position past the end of the ring wraps around once.                  *)
LEMMA Wraps ==
    ASSUME NEW c \in Nat \ {0}, NEW x \in 0..(2 * c - 1)
    PROVE  /\ x % c \in 0..(c - 1)
           /\ x < c => x % c = x
           /\ x >= c => x % c = x - c
  OBVIOUS

(* The same, for one that does.                                            *)
LEMMA WrapsOnce ==
    ASSUME NEW c \in Nat \ {0}, NEW x \in Nat, c <= x, x < 2 * c
    PROVE  x % c = x - c
  OBVIOUS

(* A window no longer than the ring is a sequence of its records.          *)
LEMMA WindowIsSeq ==
    ASSUME NEW c \in Nat \ {0}, NEW h \in 0..(c - 1), NEW r \in [0..(c - 1) -> Record],
           NEW n \in 0..c
    PROVE  /\ Window(r, h, c, n) \in Seq(Record)
           /\ Len(Window(r, h, c, n)) = n
           /\ \A i \in 1..n : Window(r, h, c, n)[i] = r[(h + i - 1) % c]
  <1>1. \A i \in 1..n : r[(h + i - 1) % c] \in Record
    <2> TAKE i \in 1..n
    <2>1. h + i - 1 \in 0..(2 * c - 1)
      OBVIOUS
    <2>2. (h + i - 1) % c \in 0..(c - 1)
      BY <2>1, Wraps
    <2> QED
      BY <2>2
  <1>2. Window(r, h, c, n) \in [1..n -> Record]
    BY <1>1 DEF Window
  <1> QED
    BY <1>2 DEF Window

(* record() on a ring that is not full appends to the window.              *)
LEMMA WindowPush ==
    ASSUME NEW c \in Nat \ {0}, NEW h \in 0..(c - 1), NEW r \in [0..(c - 1) -> Record],
           NEW n \in 0..(c - 1), NEW x \in Record
    PROVE  /\ Put(r, h, c, n, x) \in [0..(c - 1) -> Record]
           /\ IsPushed(r, h, c, n, x)
  <1> DEFINE p == (h + n) % c
             r1 == [r EXCEPT ![p] = x]
             w == Window(r, h, c, n)
             w1 == Window(r1, h, c, n + 1)
  <1>1. p \in 0..(c - 1)
    BY h + n \in 0..(2 * c - 1), Wraps
  <1>2. r1 \in [0..(c - 1) -> Record]
    BY <1>1
  <1>3. n \in 0..c /\ n + 1 \in 0..c
    OBVIOUS
  <1>4. w \in Seq(Record) /\ Len(w) = n /\ \A i \in 1..n : w[i] = r[(h + i - 1) % c]
    BY <1>3, WindowIsSeq
  <1> HIDE DEF r1
  <1>5. w1 \in Seq(Record) /\ Len(w1) = n + 1
        /\ \A i \in 1..(n + 1) : w1[i] = r1[(h + i - 1) % c]
    BY <1>2, <1>3, WindowIsSeq
  <1> USE DEF r1
  <1> HIDE DEF w1, w
  <1>6. Append(w, x) \in Seq(Record) /\ Len(Append(w, x)) = n + 1
        /\ (\A i \in 1..n : Append(w, x)[i] = w[i]) /\ Append(w, x)[n + 1] = x
    BY <1>4, AppendProperties
  <1>7. ASSUME NEW i \in 1..(n + 1) PROVE w1[i] = Append(w, x)[i]
    <2>1. (h + i - 1) % c \in 0..(c - 1)
      BY h + i - 1 \in 0..(2 * c - 1), Wraps
    <2>2. CASE i = n + 1
      <3>1. h + i - 1 = h + n
        BY <2>2
      <3>2. w1[i] = r1[p]
        BY <3>1, <1>5
      <3> QED
        BY <3>2, <1>1, <1>6, <2>2
    <2>3. CASE i # n + 1
      <3>1. i \in 1..n
        BY <2>3
      <3>2. h + i - 1 \in 0..(2 * c - 1) /\ h + n \in 0..(2 * c - 1)
            /\ h + i - 1 < h + n /\ h + n < h + i - 1 + c
        BY <3>1
      <3>3. (h + i - 1) % c # p
        <4> DEFINE y == h + i - 1
                   z == h + n
        <4>1. y \in 0..(2 * c - 1) /\ z \in 0..(2 * c - 1) /\ y < z /\ z < y + c
          BY <3>2
        <4> HIDE DEF y, z
        <4>2. (y < c => y % c = y) /\ (y >= c => y % c = y - c)
          BY <4>1, Wraps
        <4>3. (z < c => z % c = z) /\ (z >= c => z % c = z - c)
          BY <4>1, Wraps
        <4>4. y % c # z % c
          BY <4>1, <4>2, <4>3
        <4> QED
          BY <4>4 DEF y, z
      <3>4. r1[(h + i - 1) % c] = r[(h + i - 1) % c]
        BY <3>3, <2>1, <1>1
      <3> QED
        BY <3>1, <3>4, <1>4, <1>5, <1>6
    <2> QED
      BY <2>2, <2>3
  <1> HIDE DEF r1
  <1>8. w1 = Append(w, x)
    BY <1>5, <1>6, <1>7, SeqEqual
  <1> QED
    BY <1>2, <1>8 DEF w1, w, r1, Put, IsPushed

(* read() takes the first m records of the window.                         *)
LEMMA WindowDrop ==
    ASSUME NEW c \in Nat \ {0}, NEW h \in 0..(c - 1), NEW r \in [0..(c - 1) -> Record],
           NEW n \in 0..c, NEW m \in 0..n
    PROVE  /\ (h + m) % c \in 0..(c - 1)
           /\ Window(r, (h + m) % c, c, n - m) = SubSeq(Window(r, h, c, n), m + 1, n)
  <1> DEFINE h1 == (h + m) % c
             w == Window(r, h, c, n)
             w1 == Window(r, h1, c, n - m)
             s == SubSeq(w, m + 1, n)
  <1>1. h + m \in 0..(2 * c - 1) /\ h1 \in 0..(c - 1)
    <2>1. h + m \in 0..(2 * c - 1)
      OBVIOUS
    <2> QED
      BY <2>1, Wraps
  <1>2. n - m \in 0..c
    OBVIOUS
  <1>3. w \in Seq(Record) /\ Len(w) = n /\ \A i \in 1..n : w[i] = r[(h + i - 1) % c]
    BY WindowIsSeq
  <1>4. w1 \in Seq(Record) /\ Len(w1) = n - m
        /\ \A i \in 1..(n - m) : w1[i] = r[(h1 + i - 1) % c]
    BY <1>1, <1>2, WindowIsSeq
  <1>5. \A i \in (m + 1)..n : w[i] \in Record
    BY <1>3, ElementOfSeq
  <1> HIDE DEF w, w1
  <1>6. s \in Seq(Record) /\ Len(s) = (IF m + 1 <= n THEN n - (m + 1) + 1 ELSE 0)
        /\ \A i \in 1..(n - (m + 1) + 1) : s[i] = w[(m + 1) + i - 1]
    BY <1>5, SubSeqProperties
  <1> HIDE DEF s
  <1>7. Len(s) = n - m
    BY <1>6
  <1>8. ASSUME NEW i \in 1..(n - m) PROVE w1[i] = s[i]
    <2>1. s[i] = w[m + i]
      BY <1>6
    <2>2. m + i \in 1..n
      OBVIOUS
    <2>3. w[m + i] = r[(h + (m + i) - 1) % c]
      BY <1>3, <2>2
    <2>4. h + (m + i) - 1 \in 0..(2 * c - 1) /\ h1 + i - 1 \in 0..(2 * c - 1)
      BY <1>1, <2>2
    <2>5. (h1 + i - 1) % c = (h + (m + i) - 1) % c
      <3>1. CASE h + m < c
        <4>1. h1 = h + m
          BY <3>1, <1>1, Wraps
        <4> QED
          BY <4>1
      <3>2. CASE h + m >= c
        <4>1. h1 = h + m - c
          <5> DEFINE y == h + m
          <5>1. y \in Nat /\ c <= y /\ y < 2 * c
            BY <3>2, <1>1
          <5> HIDE DEF y
          <5>2. y % c = y - c
            BY <5>1, WrapsOnce
          <5> QED
            BY <5>2 DEF y
        <4>2. h + (m + i) - 1 >= c /\ h1 + i - 1 < c
          BY <3>2, <4>1, <2>4
        <4>3. (h + (m + i) - 1) % c = h + (m + i) - 1 - c
          <5> DEFINE y == h + (m + i) - 1
          <5>1. y \in Nat /\ c <= y /\ y < 2 * c
            BY <4>2, <2>4
          <5> HIDE DEF y
          <5>2. y % c = y - c
            BY <5>1, WrapsOnce
          <5> QED
            BY <5>2 DEF y
        <4>4. (h1 + i - 1) % c = h1 + i - 1
          BY <4>2, <2>4, Wraps
        <4> QED
          BY <4>1, <4>3, <4>4, <1>1
      <3> QED
        BY <3>1, <3>2, <1>1
    <2> QED
      BY <2>1, <2>3, <2>5, <1>4
  <1>9. w1 = s
    BY <1>4, <1>6, <1>7, <1>8, SeqEqual
  <1> QED
    BY <1>1, <1>9 DEF w, w1, s

----------------------------------------------------------------------------
(* The ring as a queue: Oldest(queued) in every state.                     *)

(* The queue holds as many records as queued says.                         *)
LEMMA QueueIsSeq ==
    ASSUME TraceTyped
    PROVE  /\ capacity \in Nat \ {0}
           /\ Oldest(queued) \in Seq(Record) /\ Len(Oldest(queued)) = queued
           /\ \A i \in 1..queued : Oldest(queued)[i] \in Record
           /\ Oldest(queued) = Window(records, head, capacity, queued)
  <1>1. capacity \in Nat \ {0}
    BY TraceAssumption DEF TraceTyped
  <1>2. Oldest(queued) = Window(records, head, capacity, queued)
    BY DEF Oldest, Window
  <1>3. Oldest(queued) \in Seq(Record) /\ Len(Oldest(queued)) = queued
    BY <1>1, <1>2, WindowIsSeq DEF TraceTyped
  <1>4. \A i \in 1..queued : Oldest(queued)[i] \in Record
    BY <1>3, ElementOfSeq
  <1> QED
    BY <1>1, <1>2, <1>3, <1>4

(* An empty ring is an empty queue, as after start() and in a new host.    *)
LEMMA EmptyWindow ==
    ASSUME NEW c \in Nat \ {0}
    PROVE  /\ [i \in 0..(c - 1) |-> Blank] \in [0..(c - 1) -> Record]
           /\ Window([i \in 0..(c - 1) |-> Blank], 0, c, 0) = <<>>
  <1> DEFINE r == [i \in 0..(c - 1) |-> Blank]
  <1>1. Blank \in Record
    BY TraceAssumption DEF Blank, Record
  <1>2. r \in [0..(c - 1) -> Record]
    BY <1>1
  <1> HIDE DEF r
  <1>3. Window(r, 0, c, 0) \in Seq(Record) /\ Len(Window(r, 0, c, 0)) = 0
    BY <1>2, WindowIsSeq
  <1>4. Window(r, 0, c, 0) = <<>>
    BY <1>3, EmptySeq
  <1> QED
    BY <1>2, <1>4 DEF r

(* record() drops the oldest record of a full ring and appends the new one. *)
LEMMA LogQueue ==
    ASSUME TraceTyped, NEW t \in BOOLEAN, Log(t), sequence # MaxSequence
    PROVE  /\ records' \in [0..(capacity' - 1) -> Record]
           /\ head' \in 0..(capacity' - 1) /\ queued' \in 0..capacity'
           /\ Oldest(queued)' =
                Append(IF queued = capacity THEN Tail(Oldest(queued)) ELSE Oldest(queued),
                       [sequence |-> sequence + 1, truncated |-> t])
  <1> DEFINE x == [sequence |-> sequence + 1, truncated |-> t]
             q == Oldest(queued)
  <1>0. capacity \in Nat \ {0} /\ records \in [0..(capacity - 1) -> Record]
        /\ head \in 0..(capacity - 1) /\ queued \in 0..capacity
        /\ q \in Seq(Record) /\ Len(q) = queued
        /\ q = Window(records, head, capacity, queued)
    BY QueueIsSeq DEF TraceTyped
  <1>1. x \in Record
    BY TraceAssumption DEF TraceTyped, Record
  <1> HIDE DEF x, q
  <1>2. Oldest(queued)' = Window(records', head', capacity, queued')
    BY DEF Log, Oldest, Window
  <1>3. capacity' = capacity
    BY DEF Log
  <1>4. CASE queued = capacity
    <2>1. head' = (head + 1) % capacity /\ queued' = queued - 1 + 1
          /\ records' = [records EXCEPT ![(head' + (queued - 1)) % capacity] = x]
      BY <1>4 DEF Log, x
    <2>2. 1 \in 0..queued
      BY <1>0, <1>4
    <2>3. head' \in 0..(capacity - 1)
          /\ Window(records, head', capacity, queued - 1) = SubSeq(q, 2, queued)
      <3>1. (head + 1) % capacity \in 0..(capacity - 1)
            /\ Window(records, (head + 1) % capacity, capacity, queued - 1)
                 = SubSeq(Window(records, head, capacity, queued), 1 + 1, queued)
        BY <1>0, <2>2, WindowDrop
      <3> QED
        BY <3>1, <2>1, <1>0
    <2>4. q # <<>>
      BY <1>0, <1>4, EmptySeq
    <2>5. Tail(q) = SubSeq(q, 2, queued)
      BY <1>0, <2>4, TailIsSubSeq
    <2>6. queued - 1 \in 0..(capacity - 1) /\ queued' = queued
      BY <1>0, <1>4, <2>1
    <2>7. records' \in [0..(capacity - 1) -> Record]
          /\ Window(records', head', capacity, queued - 1 + 1)
               = Append(Window(records, head', capacity, queued - 1), x)
      <3> DEFINE r == Put(records, head', capacity, queued - 1, x)
      <3>1. r \in [0..(capacity - 1) -> Record]
            /\ Window(r, head', capacity, queued - 1 + 1)
                 = Append(Window(records, head', capacity, queued - 1), x)
        <4>1. capacity \in Nat \ {0} /\ head' \in 0..(capacity - 1) /\ x \in Record
              /\ records \in [0..(capacity - 1) -> Record] /\ queued - 1 \in 0..(capacity - 1)
          BY <1>0, <1>1, <2>3, <2>6
        <4>2. r \in [0..(capacity - 1) -> Record]
          BY <4>1, WindowPush
        <4>3. IsPushed(records, head', capacity, queued - 1, x)
          BY <4>1, WindowPush
        <4> QED
          BY <4>2, <4>3 DEF IsPushed
      <3>2. records' = r
        BY <2>1 DEF Put
      <3> HIDE DEF r
      <3> QED
        BY <3>1, <3>2
    <2>8. Oldest(queued)' = Append(Tail(q), x)
      BY <2>1, <2>3, <2>5, <2>7, <1>2
    <2> QED
      BY <1>0, <1>3, <1>4, <2>3, <2>6, <2>7, <2>8 DEF x, q
  <1>5. CASE queued # capacity
    <2>1. head' = head /\ queued' = queued + 1
          /\ records' = [records EXCEPT ![(head + queued) % capacity] = x]
      BY <1>5 DEF Log, x
    <2>2. queued \in 0..(capacity - 1)
      BY <1>0, <1>5
    <2>3. records' \in [0..(capacity - 1) -> Record]
          /\ Window(records', head, capacity, queued + 1)
               = Append(Window(records, head, capacity, queued), x)
      <3> DEFINE r == Put(records, head, capacity, queued, x)
      <3>1. r \in [0..(capacity - 1) -> Record]
            /\ Window(r, head, capacity, queued + 1)
                 = Append(Window(records, head, capacity, queued), x)
        <4>1. capacity \in Nat \ {0} /\ head \in 0..(capacity - 1) /\ x \in Record
              /\ records \in [0..(capacity - 1) -> Record] /\ queued \in 0..(capacity - 1)
          BY <1>0, <1>1, <2>2
        <4>2. r \in [0..(capacity - 1) -> Record] /\ IsPushed(records, head, capacity, queued, x)
          BY <4>1, WindowPush
        <4> QED
          BY <4>2 DEF IsPushed
      <3>2. records' = r
        BY <2>1 DEF Put
      <3> HIDE DEF r
      <3> QED
        BY <3>1, <3>2
    <2>4. Oldest(queued)' = Append(q, x)
      BY <2>1, <2>3, <1>0, <1>2
    <2>5. queued' \in 0..capacity
      BY <2>1, <2>2, <1>0
    <2> QED
      BY <1>0, <1>3, <1>5, <2>1, <2>3, <2>4, <2>5 DEF x, q
  <1> QED
    BY <1>4, <1>5

(* read() takes its records from the front of the queue.                   *)
LEMMA ReadQueue ==
    ASSUME TraceTyped, NEW n \in Batches, Read(n)
    PROVE  \E count \in 0..queued :
             /\ count <= n /\ (count = 0 => queued = 0)
             /\ queued' = queued - count /\ capacity' = capacity
             /\ head' \in 0..(capacity - 1)
             /\ Oldest(queued)' = SubSeq(Oldest(queued), count + 1, queued)
             /\ Oldest(count) \in Seq(Record) /\ Len(Oldest(count)) = count
             /\ \A i \in 1..count : Oldest(count)[i] = Oldest(queued)[i]
             /\ delivered' = delivered \o Oldest(count)
             /\ rejected' = (rejected \/ ~AcceptsBatch(Oldest(count), Snapshot', n))
             /\ previous' = Snapshot'
  <1> DEFINE count == IF queued < n THEN queued ELSE n
  <1>0. capacity \in Nat \ {0} /\ records \in [0..(capacity - 1) -> Record]
        /\ head \in 0..(capacity - 1) /\ queued \in 0..capacity /\ n \in Nat \ {0}
        /\ Oldest(queued) = Window(records, head, capacity, queued)
    BY QueueIsSeq, TraceAssumption DEF TraceTyped
  <1>1. count \in 0..queued /\ count <= n /\ (count = 0 => queued = 0) /\ count \in 0..capacity
    BY <1>0
  <1>2. head' = (head + count) % capacity /\ queued' = queued - count
        /\ records' = records /\ capacity' = capacity
        /\ delivered' = delivered \o Oldest(count) /\ previous' = Snapshot'
    BY DEF Read
  <1>3. rejected' = (rejected \/ ~AcceptsBatch(Oldest(count), Snapshot', n))
    BY DEF Read
  <1> HIDE DEF count
  <1>4. (head + count) % capacity \in 0..(capacity - 1)
        /\ Window(records, (head + count) % capacity, capacity, queued - count)
             = SubSeq(Window(records, head, capacity, queued), count + 1, queued)
    BY <1>0, <1>1, WindowDrop
  <1>5. Oldest(queued)' = Window(records', head', capacity', queued')
    BY DEF Oldest, Window
  <1>6. Oldest(queued)' = SubSeq(Oldest(queued), count + 1, queued)
    BY <1>0, <1>2, <1>4, <1>5
  <1>7. Oldest(count) = Window(records, head, capacity, count)
    BY DEF Oldest, Window
  <1>8. Oldest(count) \in Seq(Record) /\ Len(Oldest(count)) = count
        /\ \A i \in 1..count : Oldest(count)[i] = records[(head + i - 1) % capacity]
    <2>1. /\ Window(records, head, capacity, count) \in Seq(Record)
          /\ Len(Window(records, head, capacity, count)) = count
          /\ \A i \in 1..count : Window(records, head, capacity, count)[i]
                                   = records[(head + i - 1) % capacity]
      BY <1>0, <1>1, WindowIsSeq
    <2> QED
      BY <2>1, <1>7
  <1>9. \A i \in 1..count : Oldest(count)[i] = Oldest(queued)[i]
    <2>1. \A i \in 1..queued : Window(records, head, capacity, queued)[i]
                                 = records[(head + i - 1) % capacity]
      BY <1>0, WindowIsSeq
    <2>2. \A i \in 1..count : i \in 1..queued
      BY <1>0, <1>1
    <2> QED
      BY <2>1, <2>2, <1>0, <1>8
  <1> QED
    BY <1>1, <1>2, <1>3, <1>4, <1>6, <1>8, <1>9

----------------------------------------------------------------------------
(* The invariant, one lemma per group of actions.                          *)

(* A ring that start() has reset, or that a new host begins with.          *)
LEMMA FreshRing ==
    ASSUME NEW c \in Capacities, capacity' = c, records' = [i \in 0..(c - 1) |-> Blank],
           head' = 0, queued' = 0, dropped' = 0, truncated' = 0, sequence' = 0,
           logged' = 0, delivered' = <<>>, active' \in BOOLEAN, known' \in BOOLEAN
    PROVE  TraceTyped' /\ Counted' /\ Numbered' /\ Oldest(queued)' = <<>>
  <1>1. c \in Nat \ {0}
    BY TraceAssumption
  <1>2. records' \in [0..(c - 1) -> Record] /\ Window(records', 0, c, 0) = <<>>
    BY <1>1, EmptyWindow
  <1>3. Oldest(queued)' = Window(records', head', capacity', queued')
    BY DEF Oldest, Window
  <1>4. <<>> \in Seq(Record) /\ Len(<<>>) = 0
    BY EmptySeq
  <1>5. TraceTyped'
    BY <1>1, <1>2, <1>4, TraceAssumption DEF TraceTyped
  <1>6. Counted'
    BY <1>4 DEF Counted
  <1>7. Numbered'
    BY DEF Numbered
  <1> QED
    BY <1>2, <1>3, <1>5, <1>6, <1>7

(* start(): its first summary is accepted.                                 *)
LEMMA StartStep ==
    ASSUME TraceInv, NEW c \in Capacities, Start(c)
    PROVE  TraceInv' /\ Oldest(queued)' = <<>>
  <1>1. TraceTyped' /\ Counted' /\ Numbered' /\ Oldest(queued)' = <<>>
    BY FreshRing DEF Start
  <1>2. previous'.state = "ACTIVE" /\ previous'.capacity = c /\ previous'.queued = 0
        /\ previous'.dropped = 0 /\ previous'.truncated = 0 /\ previous'.last = 0
        /\ previous'.logged = 0 /\ previous' = Snapshot'
    BY DEF Start, Snapshot
  <1>3. c \in Nat
    BY TraceAssumption
  <1>4. WellFormed(Snapshot')
    BY <1>2, <1>3 DEF WellFormed
  <1>5. ~rejected'
    BY <1>4 DEF Start, TraceInv, Reported
  <1>6. known' = TRUE /\ capacity' = c /\ sequence' = 0 /\ dropped' = 0 /\ truncated' = 0
        /\ delivered' = <<>>
    BY DEF Start
  <1>7. Len(delivered') = 0 /\ 1..Len(delivered') = {}
    BY <1>6, EmptySeq
  <1>8. Reported'
    BY <1>2, <1>3, <1>5, <1>6, <1>7 DEF Reported
  <1> QED
    BY <1>1, <1>8 DEF TraceInv

(* A new host: the client of the old trace knows nothing of the new ring.  *)
LEMMA NewHostStep ==
    ASSUME TraceInv, NewHost
    PROVE  TraceInv' /\ Oldest(queued)' = <<>> /\ capacity' \in Capacities
  <1>0. active \in BOOLEAN /\ known \in BOOLEAN
    BY DEF TraceInv, TraceTyped
  <1>1. TraceTyped' /\ Counted' /\ Numbered' /\ Oldest(queued)' = <<>>
    <2>1. PICK c \in Capacities : c = capacity'
      BY DEF NewHost
    <2>2. active' \in BOOLEAN /\ known' \in BOOLEAN
      BY <1>0 DEF NewHost
    <2> QED
      BY <2>1, <2>2, FreshRing DEF NewHost
  <1>2. previous' = None /\ known' = FALSE /\ delivered' = <<>> /\ ~rejected'
    BY DEF NewHost, TraceInv, Reported
  <1>3. Len(delivered') = 0 /\ 1..Len(delivered') = {}
    BY <1>2, EmptySeq
  <1>4. Reported'
    BY <1>2, <1>3 DEF Reported, None
  <1> QED
    BY <1>1, <1>4 DEF TraceInv, NewHost

(* record(), at the end of the numbering: everything is counted as lost.   *)
LEMMA SaturatedLogStep ==
    ASSUME TraceInv, NEW t \in BOOLEAN, Log(t), sequence = MaxSequence
    PROVE  TraceInv' /\ Oldest(queued)' = Oldest(queued)
  <1>0. TraceTyped /\ Counted /\ Numbered /\ Reported
    BY DEF TraceInv
  <1>1. UNCHANGED <<records, head, queued, capacity, active, known, truncated, sequence,
                    previous, rejected, delivered>>
        /\ logged' = logged + 1 /\ dropped' = MaxSequence
    BY DEF Log, clientVars
  <1>2. Oldest(queued)' = Oldest(queued)
    BY <1>1 DEF Oldest
  <1>3. MaxSequence \in Nat \ {0}
    BY TraceAssumption
  <1>4. TraceTyped'
    BY <1>0, <1>1, <1>3 DEF TraceTyped
  <1>5. Counted'
    BY <1>0, <1>1, <1>3 DEF Counted, TraceTyped
  <1>6. Numbered'
    BY <1>0, <1>1, <1>2 DEF Numbered
  <1>7. dropped <= dropped'
    BY <1>0, <1>1, <1>3 DEF Counted, TraceTyped
  <1>8. previous'.dropped <= dropped' \/ ~known
    BY <1>0, <1>1, <1>3, <1>7 DEF Reported, TraceTyped
  <1>9. Reported'
    BY <1>0, <1>1, <1>8 DEF Reported
  <1> QED
    BY <1>2, <1>4, <1>5, <1>6, <1>9 DEF TraceInv

(* record() otherwise.                                                     *)
LEMMA LogStep ==
    ASSUME TraceInv, NEW t \in BOOLEAN, Log(t), sequence # MaxSequence
    PROVE  TraceInv'
  <1> DEFINE x == [sequence |-> sequence + 1, truncated |-> t]
             q == Oldest(queued)
             base == IF queued = capacity THEN Tail(q) ELSE q
             lost == IF queued = capacity THEN 1 ELSE 0
  <1>0. TraceTyped /\ Counted /\ Numbered /\ Reported
    BY DEF TraceInv
  <1>1. /\ UNCHANGED <<capacity, active, known, previous, rejected, delivered>>
        /\ logged' = logged + 1 /\ sequence' = sequence + 1
        /\ queued' = queued - lost + 1 /\ dropped' = dropped + lost
        /\ truncated' = IF t THEN truncated + 1 ELSE truncated
    <2>1. /\ UNCHANGED <<capacity, active, known, previous, rejected, delivered>>
          /\ logged' = logged + 1 /\ sequence' = sequence + 1
          /\ truncated' = IF t THEN truncated + 1 ELSE truncated
      BY DEF Log, clientVars
    <2>2. queued \in Int /\ dropped \in Int
      BY <1>0, QueueIsSeq DEF TraceTyped
    <2>3. queued' = (IF queued = capacity THEN queued - 1 ELSE queued) + 1
          /\ dropped' = (IF queued = capacity THEN dropped + 1 ELSE dropped)
      BY DEF Log
    <2>4. queued' = queued - lost + 1 /\ dropped' = dropped + lost
      BY <2>2, <2>3
    <2> QED
      BY <2>1, <2>4
  <1>2. /\ records' \in [0..(capacity' - 1) -> Record]
        /\ head' \in 0..(capacity' - 1) /\ queued' \in 0..capacity'
        /\ Oldest(queued)' = Append(base, x)
    BY <1>0, LogQueue
  <1>3. capacity \in Nat \ {0} /\ MaxSequence \in Nat \ {0} /\ queued \in 0..capacity
        /\ sequence \in Nat /\ sequence + 1 \in 0..MaxSequence
        /\ truncated \in Nat /\ dropped \in Nat /\ logged \in Nat
        /\ q \in Seq(Record) /\ Len(q) = queued /\ delivered \in Seq(Record)
    BY <1>0, QueueIsSeq, TraceAssumption DEF TraceTyped
  <1>4. TraceTyped'
    BY <1>0, <1>1, <1>2, <1>3 DEF TraceTyped
  <1>5. Len(delivered) \in Nat
    BY <1>3, LenProperties
  <1>6. Counted'
    <2>1. queued' <= sequence' /\ dropped' <= sequence' /\ truncated' <= sequence'
      BY <1>0, <1>1, <1>3 DEF Counted
    <2>2. ASSUME dropped' = 0
          PROVE  /\ logged' = sequence' /\ Len(delivered') + queued' = sequence'
                 /\ \A i \in 1..Len(delivered') : delivered'[i].sequence = i
      <3>1. dropped = 0 /\ lost = 0
        BY <2>2, <1>1, <1>3
      <3>2. logged = sequence /\ Len(delivered) + queued = sequence
            /\ \A i \in 1..Len(delivered) : delivered[i].sequence = i
        BY <3>1, <1>0 DEF Counted
      <3> QED
        BY <3>1, <3>2, <1>1, <1>3, <1>5
    <2> QED
      BY <2>1, <2>2 DEF Counted
  <1>7. x \in Record
    BY <1>3 DEF Record
  <1>8. base \in Seq(Record) /\ Len(base) = queued - lost
        /\ \A i \in 1..(queued - lost) : base[i] = q[i + lost]
    <2>1. CASE queued = capacity
      <3>1. q # <<>>
        BY <1>3, <2>1, EmptySeq
      <3>2. Tail(q) \in Seq(Record) /\ Len(Tail(q)) = Len(q) - 1
            /\ \A i \in 1..Len(Tail(q)) : Tail(q)[i] = q[i + 1]
        BY <1>3, <3>1, HeadTailProperties
      <3> QED
        BY <3>2, <2>1, <1>3
    <2>2. CASE queued # capacity
      BY <1>3, <2>2
    <2> QED
      BY <2>1, <2>2
  <1> HIDE DEF base, q, x, lost
  <1>9. Len(Append(base, x)) = queued - lost + 1
        /\ (\A i \in 1..(queued - lost) : Append(base, x)[i] = base[i])
        /\ Append(base, x)[queued - lost + 1] = x
    BY <1>7, <1>8, AppendProperties
  <1>10. lost \in {0, 1} /\ queued - lost \in Nat
    BY <1>3 DEF lost
  <1>11. truncated' \in Nat /\ truncated' >= truncated /\ (t => truncated' > 0)
    BY <1>1, <1>3
  <1>12. Numbered'
    <2> SUFFICES ASSUME NEW i \in 1..queued'
                 PROVE  /\ Oldest(queued)'[i].sequence = sequence' - queued' + i
                        /\ Oldest(queued)'[i].truncated => truncated' > 0
      BY DEF Numbered
    <2>1. CASE i = queued'
      <3>1. Oldest(queued)'[i] = x
        BY <2>1, <1>1, <1>2, <1>9
      <3>2. x.sequence = sequence + 1 /\ x.truncated = t
        BY DEF x
      <3> QED
        BY <3>1, <3>2, <2>1, <1>1, <1>3, <1>10, <1>11
    <2>2. CASE i # queued'
      <3>1. i \in 1..(queued - lost) /\ i + lost \in 1..queued
        BY <2>2, <1>1, <1>3, <1>10
      <3>2. Oldest(queued)'[i] = q[i + lost]
        BY <3>1, <1>2, <1>8, <1>9
      <3>3. q[i + lost].sequence = sequence - queued + (i + lost)
            /\ (q[i + lost].truncated => truncated > 0)
        BY <3>1, <1>0 DEF Numbered, q
      <3>4. sequence - queued + (i + lost) = sequence' - queued' + i
        BY <3>1, <1>1, <1>3, <1>10
      <3> QED
        BY <3>2, <3>3, <3>4, <1>3, <1>11
    <2> QED
      BY <2>1, <2>2
  <1>13. Reported'
    <2>1. dropped <= dropped' /\ sequence <= sequence' /\ dropped' \in Nat /\ sequence' \in Nat
      BY <1>1, <1>3, <1>10
    <2>2. known => previous.last <= sequence' /\ previous.dropped <= dropped'
                   /\ previous.truncated <= truncated'
      BY <2>1, <1>0, <1>3, <1>11 DEF Reported
    <2> QED
      BY <2>2, <1>0, <1>1 DEF Reported
  <1> QED
    BY <1>4, <1>6, <1>12, <1>13 DEF TraceInv

(* read(): the batch continues the numbering, and its summary is accepted. *)
LEMMA ReadStep ==
    ASSUME TraceInv, NEW n \in Batches, Read(n)
    PROVE  TraceInv'
  <1>0. TraceTyped /\ Counted /\ Numbered /\ Reported
    BY DEF TraceInv
  <1>1. PICK count \in 0..queued :
             /\ count <= n /\ (count = 0 => queued = 0)
             /\ queued' = queued - count /\ capacity' = capacity
             /\ head' \in 0..(capacity - 1)
             /\ Oldest(queued)' = SubSeq(Oldest(queued), count + 1, queued)
             /\ Oldest(count) \in Seq(Record) /\ Len(Oldest(count)) = count
             /\ \A i \in 1..count : Oldest(count)[i] = Oldest(queued)[i]
             /\ delivered' = delivered \o Oldest(count)
             /\ rejected' = (rejected \/ ~AcceptsBatch(Oldest(count), Snapshot', n))
             /\ previous' = Snapshot'
    BY <1>0, ReadQueue
  <1> DEFINE q == Oldest(queued)
             b == Oldest(count)
  <1>2. UNCHANGED <<records, capacity, active, known, dropped, truncated, sequence, logged>>
        /\ previous # None
    BY DEF Read
  <1>3. capacity \in Nat \ {0} /\ queued \in 0..capacity /\ sequence \in Nat /\ n \in Nat \ {0}
        /\ truncated \in Nat /\ dropped \in Nat /\ logged \in Nat
        /\ q \in Seq(Record) /\ Len(q) = queued /\ delivered \in Seq(Record)
        /\ (\A i \in 1..queued : q[i] \in Record) /\ count \in Nat /\ queued \in Nat
        /\ Len(delivered) \in Nat /\ queued <= sequence
    BY <1>0, QueueIsSeq, TraceAssumption, LenProperties DEF TraceTyped, Counted
  <1>4. b \in Seq(Record) /\ Len(b) = count /\ \A i \in 1..count : b[i] = q[i]
    BY <1>1
  <1>5. ASSUME NEW i \in 1..count
        PROVE  /\ b[i].sequence = sequence - queued + i /\ b[i].sequence \in 1..sequence
               /\ b[i].truncated \in BOOLEAN /\ (b[i].truncated => truncated > 0)
    <2>1. i \in 1..queued
      BY <1>1, <1>3
    <2>2. q[i].sequence = sequence - queued + i /\ (q[i].truncated => truncated > 0)
      BY <2>1, <1>0 DEF Numbered
    <2>3. b[i] = q[i] /\ q[i] \in Record
      BY <2>1, <1>3, <1>4
    <2>4. sequence - queued + i \in 1..sequence
      BY <2>1, <1>3
    <2>5. b[i].truncated \in BOOLEAN
      BY <2>3 DEF Record
    <2> QED
      BY <2>2, <2>3, <2>4, <2>5
  <1>6. /\ delivered' \in Seq(Record) /\ Len(delivered') = Len(delivered) + count
        /\ \A i \in 1..(Len(delivered) + count) : delivered'[i] =
              IF i <= Len(delivered) THEN delivered[i] ELSE b[i - Len(delivered)]
    BY <1>1, <1>3, <1>4, ConcatProperties
  <1>7. queued' \in 0..capacity /\ queued' = queued - count
    BY <1>1, <1>3
  <1>8. TraceTyped'
    BY <1>0, <1>1, <1>2, <1>6, <1>7 DEF TraceTyped
  <1> HIDE DEF q, b
  <1>9. Counted'
    <2>1. queued' <= sequence' /\ dropped' <= sequence' /\ truncated' <= sequence'
      BY <1>0, <1>2, <1>3, <1>7 DEF Counted
    <2>2. ASSUME dropped' = 0
          PROVE  /\ logged' = sequence' /\ Len(delivered') + queued' = sequence'
                 /\ \A i \in 1..Len(delivered') : delivered'[i].sequence = i
      <3>1. logged = sequence /\ Len(delivered) + queued = sequence
            /\ \A i \in 1..Len(delivered) : delivered[i].sequence = i
        BY <2>2, <1>0, <1>2 DEF Counted
      <3>2. Len(delivered') + queued' = sequence'
        BY <3>1, <1>2, <1>3, <1>6, <1>7
      <3>3. ASSUME NEW i \in 1..Len(delivered') PROVE delivered'[i].sequence = i
        <4>1. CASE i <= Len(delivered)
          BY <4>1, <3>1, <1>3, <1>6
        <4>2. CASE i > Len(delivered)
          <5>1. i - Len(delivered) \in 1..count
            BY <4>2, <1>3, <1>6
          <5>2. delivered'[i] = b[i - Len(delivered)]
            BY <4>2, <1>3, <1>6
          <5>3. b[i - Len(delivered)].sequence = sequence - queued + (i - Len(delivered))
            BY <5>1, <1>5
          <5>4. sequence - queued + (i - Len(delivered)) = i
            BY <3>1, <1>3
          <5> QED
            BY <5>2, <5>3, <5>4
        <4> QED
          BY <4>1, <4>2, <1>3, <1>6
      <3> QED
        BY <3>1, <3>2, <3>3, <1>2
    <2> QED
      BY <2>1, <2>2 DEF Counted
  <1>10. Numbered'
    <2> SUFFICES ASSUME NEW i \in 1..queued'
                 PROVE  /\ Oldest(queued)'[i].sequence = sequence' - queued' + i
                        /\ Oldest(queued)'[i].truncated => truncated' > 0
      BY DEF Numbered
    <2>1. \A j \in (count + 1)..queued : q[j] \in Record
      BY <1>3
    <2>2. \A j \in 1..(queued - (count + 1) + 1) :
             SubSeq(q, count + 1, queued)[j] = q[(count + 1) + j - 1]
      BY <2>1, <1>3, SubSeqProperties
    <2>3. i \in 1..(queued - (count + 1) + 1) /\ count + i \in 1..queued
          /\ (count + 1) + i - 1 = count + i
      BY <1>3, <1>7
    <2>4. Oldest(queued)'[i] = q[count + i]
      BY <2>2, <2>3, <1>1 DEF q
    <2>5. q[count + i].sequence = sequence - queued + (count + i)
          /\ (q[count + i].truncated => truncated > 0)
      BY <2>3, <1>0 DEF Numbered, q
    <2>6. sequence - queued + (count + i) = sequence' - queued' + i
      BY <1>2, <1>3, <1>7
    <2> QED
      BY <2>4, <2>5, <2>6, <1>2
  <1>11. known
    BY <1>0, <1>2 DEF Reported
  <1>12. /\ previous' = Snapshot'
         /\ previous'.state = (IF active THEN "ACTIVE" ELSE "STOPPED")
         /\ previous'.capacity = capacity /\ previous'.queued = queued'
         /\ previous'.dropped = dropped /\ previous'.truncated = truncated
         /\ previous'.last = sequence /\ previous'.logged = logged
    BY <1>1, <1>2, <1>11 DEF Snapshot
  <1>13. AcceptsBatch(b, Snapshot', n)
    <2> DEFINE s == previous'
    <2>1. WellFormed(s)
      BY <1>3, <1>7, <1>9, <1>12, <1>2 DEF WellFormed, Counted
    <2>2. Follows(s, previous)
      BY <1>0, <1>3, <1>11, <1>12 DEF Follows, Reported
    <2>3. b = <<>> => s.queued = 0
      <3>1. ASSUME b = <<>> PROVE count = 0
        BY <3>1, <1>4, EmptySeq
      <3> QED
        BY <3>1, <1>1, <1>3, <1>7, <1>12
    <2>4. Len(b) + s.queued <= s.last
      BY <1>3, <1>4, <1>7, <1>12
    <2>5. \A i \in 1..Len(b) : b[i].sequence \in 1..s.last
      BY <1>4, <1>5, <1>12
    <2>6. (\E i \in 1..Len(b) : b[i].truncated) => s.truncated > 0
      BY <1>4, <1>5, <1>12
    <2>7. Len(b) <= n
      BY <1>1, <1>4
    <2> HIDE DEF s
    <2>8. AcceptsBatch(b, s, n)
      BY <2>1, <2>2, <2>3, <2>4, <2>5, <2>6, <2>7 DEF AcceptsBatch
    <2> QED
      BY <2>8, <1>12 DEF s
  <1>14. ~rejected'
    BY <1>0, <1>1, <1>13 DEF Reported, b
  <1>15. Reported'
    <2>1. previous'.state \in {"ACTIVE", "STOPPED"} /\ (previous'.state = "STOPPED" => ~active)
      BY <1>12
    <2>2. previous'.dropped = 0 =>
            /\ previous'.logged = previous'.last
            /\ Len(delivered') = previous'.last - previous'.queued
            /\ \A i \in 1..Len(delivered') : delivered'[i].sequence = i
      BY <1>2, <1>3, <1>6, <1>7, <1>9, <1>12 DEF Counted
    <2>3. previous'.truncated = 0 => \A i \in 1..Len(delivered') : ~delivered'[i].truncated
      <3> SUFFICES ASSUME truncated = 0, NEW i \in 1..Len(delivered')
                   PROVE  ~delivered'[i].truncated
        BY <1>12
      <3>1. previous.truncated = 0
        BY <1>0, <1>3, <1>11 DEF Reported
      <3>2. CASE i <= Len(delivered)
        BY <3>1, <3>2, <1>0, <1>3, <1>6 DEF Reported
      <3>3. CASE i > Len(delivered)
        <4>1. i - Len(delivered) \in 1..count
          BY <3>3, <1>3, <1>6
        <4>2. delivered'[i] = b[i - Len(delivered)]
          BY <3>3, <1>3, <1>6
        <4>3. ~b[i - Len(delivered)].truncated
          BY <4>1, <1>5
        <4> QED
          BY <4>2, <4>3
      <3> QED
        BY <3>2, <3>3, <1>3, <1>6
    <2>4. previous'.capacity \in Nat /\ previous'.queued \in Nat /\ previous'.dropped \in Nat
          /\ previous'.truncated \in Nat /\ previous'.last \in Nat /\ previous'.logged \in Nat
      BY <1>3, <1>7, <1>12
    <2>5. previous'.capacity = capacity' /\ previous'.last <= sequence'
          /\ previous'.dropped <= dropped' /\ previous'.truncated <= truncated'
      BY <1>2, <1>3, <1>12
    <2> QED
      BY <2>1, <2>2, <2>3, <2>4, <2>5, <1>2, <1>11, <1>14 DEF Reported
  <1> QED
    BY <1>8, <1>9, <1>10, <1>15 DEF TraceInv

(* stop(), and the stop that shutdown() implies: the ring keeps its records. *)
LEMMA StopStep ==
    ASSUME TraceInv, Stop \/ Shutdown
    PROVE  TraceInv' /\ Oldest(queued)' = Oldest(queued)
  <1>0. TraceTyped /\ Counted /\ Numbered /\ Reported
    BY DEF TraceInv
  <1>1. UNCHANGED <<records, head, queued, capacity, known, dropped, truncated, sequence,
                    logged, delivered>> /\ active' = FALSE
    BY DEF Stop, Shutdown
  <1>2. Oldest(queued)' = Oldest(queued)
    BY <1>1 DEF Oldest
  <1>3. TraceTyped' /\ Counted' /\ Numbered'
    BY <1>0, <1>1, <1>2 DEF TraceTyped, Counted, Numbered
  <1>4. Reported'
    <2>1. CASE Shutdown
      BY <2>1, <1>0, <1>1 DEF Shutdown, clientVars, Reported
    <2>2. CASE Stop
      <3>1. known
        BY <2>2, <1>0 DEF Stop, Reported
      <3>2. /\ previous' = Snapshot' /\ previous'.state = "STOPPED"
            /\ previous'.capacity = capacity /\ previous'.queued = queued
            /\ previous'.dropped = dropped /\ previous'.truncated = truncated
            /\ previous'.last = sequence /\ previous'.logged = logged
        BY <2>2, <3>1, <1>1 DEF Stop, Snapshot
      <3>3. capacity \in Nat /\ queued \in 0..capacity /\ queued \in Nat /\ sequence \in Nat
            /\ truncated \in Nat /\ dropped \in Nat /\ logged \in Nat
            /\ Len(delivered) \in Nat
        BY <1>0, QueueIsSeq, TraceAssumption, LenProperties DEF TraceTyped
      <3> DEFINE s == previous'
      <3>4. WellFormed(s)
        BY <1>0, <3>2, <3>3 DEF WellFormed, Counted
      <3>5. Follows(s, previous)
        BY <1>0, <3>1, <3>2, <3>3 DEF Follows, Reported
      <3> HIDE DEF s
      <3>6. WellFormed(Snapshot') /\ Follows(Snapshot', previous)
        BY <3>2, <3>4, <3>5 DEF s
      <3>7. ~rejected'
        BY <2>2, <1>0, <3>6 DEF Stop, Reported
      <3>8. dropped = 0 =>
            /\ logged = sequence /\ Len(delivered) = sequence - queued
            /\ \A i \in 1..Len(delivered) : delivered[i].sequence = i
        BY <1>0, <3>3 DEF Counted
      <3>9. truncated = 0 => \A i \in 1..Len(delivered) : ~delivered[i].truncated
        BY <1>0, <3>1, <3>3 DEF Reported
      <3> QED
        BY <1>1, <3>1, <3>2, <3>3, <3>7, <3>8, <3>9 DEF Reported
    <2> QED
      BY <2>1, <2>2
  <1> QED
    BY <1>2, <1>3, <1>4 DEF TraceInv

----------------------------------------------------------------------------
(* A host that has never started a trace.                                  *)
LEMMA TraceStarts == Init => TraceInv /\ Oldest(queued) = <<>>
  <1> SUFFICES ASSUME Init PROVE TraceInv /\ Oldest(queued) = <<>>
    OBVIOUS
  <1>1. capacity \in Capacities /\ capacity \in Nat \ {0}
        /\ records = [i \in 0..(capacity - 1) |-> Blank] /\ head = 0 /\ queued = 0
        /\ dropped = 0 /\ truncated = 0 /\ sequence = 0 /\ logged = 0 /\ delivered = <<>>
        /\ active = FALSE /\ known = FALSE /\ previous = None /\ ~rejected
    BY TraceAssumption DEF Init
  <1>2. records \in [0..(capacity - 1) -> Record] /\ Window(records, 0, capacity, 0) = <<>>
    BY <1>1, EmptyWindow
  <1>3. Oldest(queued) = Window(records, head, capacity, queued)
    BY DEF Oldest, Window
  <1>4. delivered \in Seq(Record) /\ Len(delivered) = 0 /\ 1..Len(delivered) = {}
    BY <1>1, EmptySeq
  <1>5. TraceTyped
    <2>1. head \in 0..(capacity - 1) /\ queued \in 0..capacity
      BY <1>1
    <2>2. sequence \in 0..MaxSequence /\ dropped \in Nat /\ truncated \in Nat /\ logged \in Nat
      BY <1>1, TraceAssumption
    <2>3. active \in BOOLEAN /\ known \in BOOLEAN
      BY <1>1
    <2> QED
      BY <1>1, <1>2, <1>4, <2>1, <2>2, <2>3 DEF TraceTyped
  <1>6. Counted /\ Numbered
    BY <1>1, <1>4 DEF Counted, Numbered
  <1>7. Reported
    BY <1>1, <1>4 DEF Reported, None
  <1> QED
    BY <1>1, <1>2, <1>3, <1>5, <1>6, <1>7 DEF TraceInv

(* Every step of the host and of the client keeps the invariant.           *)
LEMMA TraceKeeps == TraceInv /\ [Next]_vars => TraceInv'
  <1> SUFFICES ASSUME TraceInv, [Next]_vars PROVE TraceInv'
    OBVIOUS
  <1>1. ASSUME NEW c \in Capacities, Start(c) PROVE TraceInv'
    BY <1>1, StartStep
  <1>2. ASSUME NEW t \in BOOLEAN, Log(t) PROVE TraceInv'
    BY <1>2, LogStep, SaturatedLogStep
  <1>3. ASSUME NEW n \in Batches, Read(n) PROVE TraceInv'
    BY <1>3, ReadStep
  <1>4. CASE Stop \/ Shutdown
    BY <1>4, StopStep
  <1>5. CASE NewHost
    BY <1>5, NewHostStep
  <1>6. CASE UNCHANGED vars
    <2>1. UNCHANGED <<records, head, queued, capacity, active, known, dropped, truncated,
                      sequence, previous, rejected, logged, delivered>>
      BY <1>6 DEF vars, ringVars, clientVars
    <2>2. Oldest(queued)' = Oldest(queued)
      BY <2>1 DEF Oldest
    <2> QED
      BY <2>1, <2>2 DEF TraceInv, TraceTyped, Counted, Numbered, Reported
  <1> QED
    BY <1>1, <1>2, <1>3, <1>4, <1>5, <1>6 DEF Next

(* The inductive invariant of the trace: the ring holds the last records,  *)
(* numbered without a gap, and the client's summary is true of them.       *)
THEOREM TraceInvariant == Spec => []TraceInv
  BY TraceStarts, TraceKeeps, PTL DEF Spec

(* A trace the client calls complete is complete: start_trace and read_trace *)
(* together have seen every record that record() was given, in order and   *)
(* uncut, but for those the summary reports as queued.                     *)
THEOREM CompleteTraceIsWhole == Spec => []CompleteIsWhole
  <1>1. TraceInv => CompleteIsWhole
    BY DEF TraceInv, Reported, CompleteIsWhole, CompleteSummary
  <1> QED
    BY <1>1, TraceInvariant, PTL

(* No reply of a working host is a protocol error to the client: the checks *)
(* of TraceSummary.from_dict and read_trace hold of every summary and every *)
(* batch, with the ring full and with the counters saturated.              *)
THEOREM TraceRepliesAreAccepted == Spec => []RepliesAccepted
  <1>1. TraceInv => RepliesAccepted
    BY DEF TraceInv, Reported, RepliesAccepted
  <1> QED
    BY <1>1, TraceInvariant, PTL

(* The ring of ProtocolTrace.cpp, with its head, its count and its modulus, *)
(* is the queue of TraceQueue: record() appends and forgets the oldest, read() *)
(* takes from the front, and nothing else moves a record.                  *)
THEOREM RingImplementsQueue == Spec => RingIsQueue
  <1>1. Init => Ring!QueueInit
    BY TraceStarts DEF Init, Ring!QueueInit
  <1>2. TraceInv /\ [Next]_vars => [Ring!QueueNext]_(Ring!queueVars)
    <2> SUFFICES ASSUME TraceInv, [Next]_vars PROVE [Ring!QueueNext]_(Ring!queueVars)
      OBVIOUS
    <2>0. TraceTyped
      BY DEF TraceInv
    <2>1. Oldest(queued) \in Seq(Record) /\ Len(Oldest(queued)) = queued /\ queued \in Nat
      BY <2>0, QueueIsSeq DEF TraceTyped
    <2>2. ASSUME NEW c \in Capacities, Start(c) PROVE Ring!QueueNext
      <3>1. Oldest(queued)' = <<>>
        BY <2>2, StartStep
      <3>2. Oldest(queued) = <<>>
        BY <2>1, <2>2, EmptySeq DEF Start
      <3>3. Ring!QueueStart(c)
        BY <2>2, <3>1, <3>2 DEF Start, Ring!QueueStart
      <3> QED
        BY <3>3 DEF Ring!QueueNext
    <2>3. ASSUME NEW t \in BOOLEAN, Log(t) PROVE Ring!QueueNext
      <3>1. CASE sequence = MaxSequence
        <4>1. Oldest(queued)' = Oldest(queued)
          BY <2>3, <3>1, SaturatedLogStep
        <4> QED
          BY <2>3, <3>1, <4>1 DEF Log, Ring!QueueLog, Ring!QueueNext
      <3>2. CASE sequence # MaxSequence
        <4>1. Oldest(queued)' =
                Append(IF queued = capacity THEN Tail(Oldest(queued)) ELSE Oldest(queued),
                       [sequence |-> sequence + 1, truncated |-> t])
          BY <2>0, <2>3, <3>2, LogQueue
        <4>2. /\ active /\ UNCHANGED <<capacity, active>> /\ sequence' = sequence + 1
              /\ dropped' = IF queued = capacity THEN dropped + 1 ELSE dropped
              /\ truncated' = IF t THEN truncated + 1 ELSE truncated
          BY <2>3, <3>2 DEF Log
        <4>3. Ring!QueueLog(t)
          BY <2>1, <3>2, <4>1, <4>2 DEF Ring!QueueLog
        <4> QED
          BY <4>3 DEF Ring!QueueNext
      <3> QED
        BY <3>1, <3>2
    <2>4. ASSUME NEW n \in Batches, Read(n) PROVE Ring!QueueNext
      <3>1. PICK count \in 0..queued :
                Oldest(queued)' = SubSeq(Oldest(queued), count + 1, queued)
        BY <2>0, <2>4, ReadQueue
      <3>2. UNCHANGED <<capacity, active, dropped, truncated, sequence>>
        BY <2>4 DEF Read
      <3>3. count \in 0..Len(Oldest(queued))
        BY <2>1
      <3>4. Ring!QueueTake(count)
        BY <2>1, <3>1, <3>2, <3>3 DEF Ring!QueueTake
      <3> QED
        BY <3>3, <3>4 DEF Ring!QueueNext
    <2>5. CASE Stop \/ Shutdown
      <3>1. Oldest(queued)' = Oldest(queued)
        BY <2>5, StopStep
      <3>2. Ring!QueueStop
        BY <2>5, <3>1 DEF Stop, Shutdown, Ring!QueueStop
      <3> QED
        BY <3>2 DEF Ring!QueueNext
    <2>6. CASE NewHost
      <3>1. Oldest(queued)' = <<>> /\ capacity' \in Capacities
        BY <2>6, NewHostStep
      <3>2. Ring!QueueLose
        BY <2>6, <3>1 DEF NewHost, Ring!QueueLose
      <3> QED
        BY <3>2 DEF Ring!QueueNext
    <2>7. CASE UNCHANGED vars
      BY <2>7 DEF vars, ringVars, Oldest, Ring!queueVars
    <2> QED
      BY <2>2, <2>3, <2>4, <2>5, <2>6, <2>7 DEF Next
  <1> QED
    BY <1>1, <1>2, TraceInvariant, PTL DEF Spec, RingIsQueue, Ring!QueueSpec
=============================================================================
