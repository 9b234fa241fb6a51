-------------------- MODULE SafetyIncidentStore_proofs --------------------
(***************************************************************************)
(* Proofs about SafetyIncidentStore, for any number of processes, DUTs,    *)
(* incidents, readbacks and any set of failing system calls.               *)
(*                                                                         *)
(* The lock is not lost when at most one process acknowledges at a time.   *)
(* With two acknowledgers it can be (see the README): the assumption is    *)
(* therefore a hypothesis of the theorems that need it.                    *)
(***************************************************************************)
EXTENDS SafetyIncidentStore, TLAPS

SoleAcknowledger == \A p, q \in Acknowledgers : p = q

-----------------------------------------------------------------------------
(* Type correctness.                                                       *)

LEMMA AbsentIsFile == /\ Absent \in File
                      /\ \A p \in Procs : Incomplete(p) \in File
                      /\ \A x \in Incident : Complete(x) \in File
  BY DEF File, Absent, Incomplete, Complete

(* Every step of every call keeps the types, and a running call has a       *)
(* document to write.                                                      *)
LEMMA TypeStep == TypeOK /\ [Next]_vars => TypeOK'
<1> SUFFICES ASSUME TypeOK, [Next]_vars PROVE TypeOK'
  OBVIOUS
<1> USE AbsentIsFile DEF TypeOK, RecordPcs, AckPcs, Outcomes
<1>1. ASSUME NEW p \in Procs, NEW d \in Duts, RecordRead(p, d) PROVE TypeOK'
  <2>1. active[d].doc \in Incident \cup {None}
    BY DEF File
  <2>2. CASE active[d].doc # None /\ active[d].doc.dut = d
             /\ Coalesce(p, active[d].doc) /\ UNCHANGED issued
    <3>1. active[d].doc \in Incident /\ active[d].doc.id \in Ids
      BY <2>1, <2>2 DEF Incident
    <3> QED BY <1>1, <2>2, <3>1 DEF RecordRead, Coalesce, Return
  <2>3. CASE Return(p, "unresolved") /\ doc' = [doc EXCEPT ![p] = None]
             /\ UNCHANGED <<issued, returned>>
    BY <1>1, <2>3 DEF RecordRead, Return
  <2>4. CASE /\ \E i \in Ids :
                   /\ issued[i] = None
                   /\ issued' = [issued EXCEPT ![i] = d]
                   /\ doc' = [doc EXCEPT ![p] = [id |-> i, dut |-> d,
                                                 status |-> "OPEN", ack |-> None]]
             /\ Begin(p, "rec_open")
             /\ UNCHANGED returned
    <3> PICK i \in Ids : /\ issued' = [issued EXCEPT ![i] = d]
                         /\ doc' = [doc EXCEPT ![p] = [id |-> i, dut |-> d,
                                                 status |-> "OPEN", ack |-> None]]
      BY <2>4
    <3>1. [id |-> i, dut |-> d, status |-> "OPEN", ack |-> None] \in Incident
      BY DEF Incident
    <3> QED BY <1>1, <2>4, <3>1, NoneAssumption DEF RecordRead, Begin
  <2> QED BY <1>1, <2>2, <2>3, <2>4 DEF RecordRead
<1>2. ASSUME NEW p \in Procs, RecordOpen(p) PROVE TypeOK'
  BY <1>2 DEF RecordOpen, Goto
<1>3. ASSUME NEW p \in Procs, RecordWrite(p) PROVE TypeOK'
  BY <1>3 DEF RecordWrite, Goto
<1>4. ASSUME NEW p \in Procs, RecordSync(p) PROVE TypeOK'
  <2>1. doc[p].id \in Ids
    BY <1>4 DEF RecordSync, Incident
  <2> QED BY <1>4, <2>1 DEF RecordSync, Return
<1>5. ASSUME NEW p \in Procs, RecordFail(p) PROVE TypeOK'
  <2>1. doc[p].dut \in Duts
    BY <1>5 DEF RecordFail, Incident
  <2> QED BY <1>5, <2>1 DEF RecordFail, Return
<1>6. ASSUME NEW p \in Procs, RecordReread(p) PROVE TypeOK'
  <2>1. doc[p].dut \in Duts
    BY <1>6 DEF RecordReread, Incident
  <2> DEFINE x == active[doc[p].dut].doc
  <2>2. x \in Incident \cup {None}
    BY <2>1 DEF File
  <2>3. CASE x # None /\ Coalesce(p, x)
    <3>1. x \in Incident /\ x.id \in Ids
      BY <2>2, <2>3 DEF Incident
    <3> QED BY <1>6, <2>3, <3>1 DEF RecordReread, Coalesce, Return
  <2>4. CASE (Return(p, "unresolved") \/ Return(p, "persistence"))
             /\ UNCHANGED <<doc, returned>>
    BY <1>6, <2>4 DEF RecordReread, Return
  <2> QED BY <1>6, <2>3, <2>4 DEF RecordReread
<1>7. ASSUME NEW p \in Procs, NEW d \in Duts, NEW i \in Ids, NEW r \in Readbacks,
             AckRead(p, d, i, r)
      PROVE  TypeOK'
  <2> DEFINE x == active[d].doc
  <2>1. x \in Incident \cup {None}
    BY DEF File
  <2>2. CASE /\ doc' = [doc EXCEPT ![p] = [id |-> i, dut |-> d,
                                          status |-> "OPEN", ack |-> None]]
             /\ Begin(p, "ack_lookup")
    <3>1. [id |-> i, dut |-> d, status |-> "OPEN", ack |-> None] \in Incident
      BY DEF Incident
    <3> QED BY <1>7, <2>2, <3>1, NoneAssumption DEF AckRead, Begin
  <2>3. CASE x # None /\ doc' = [doc EXCEPT ![p] = x] /\ Begin(p, "arch_open")
    BY <1>7, <2>1, <2>3, NoneAssumption DEF AckRead, Begin
  <2>4. CASE /\ x # None
             /\ \E t \in Times :
                  doc' = [doc EXCEPT ![p] = Acknowledged(x, r, t)]
             /\ Begin(p, "ack_replace")
    <3> PICK t \in Times :
               doc' = [doc EXCEPT ![p] = Acknowledged(x, r, t)]
      BY <2>4
    <3>1. Acknowledged(x, r, t) \in Incident
      BY <2>1, <2>4 DEF Incident, Acknowledgment, Acknowledged
    <3> QED BY <1>7, <2>4, <3>1, NoneAssumption DEF AckRead, Begin
  <2> QED BY <1>7, <2>2, <2>3, <2>4 DEF AckRead
<1>8. ASSUME NEW p \in Procs, NEW d \in Duts, NEW i \in Ids, NEW r \in Readbacks,
             AckReject(p, d, i, r)
      PROVE  TypeOK'
  <2>1. Return(p, "unresolved") \/ Return(p, "rejected")
    BY <1>8 DEF AckReject
  <2> QED BY <1>8, <2>1 DEF AckReject, Return
<1>9. ASSUME NEW p \in Procs, AckLookup(p) PROVE TypeOK'
  <2>1. doc[p].id \in Ids
    BY <1>9 DEF AckLookup, Incident
  <2>2. archive[doc[p].id].doc \in Incident \cup {None}
    BY <2>1 DEF File
  <2> QED BY <1>9, <2>2 DEF AckLookup, Return
<1>10. ASSUME NEW p \in Procs, AckReplace(p) PROVE TypeOK'
  BY <1>10 DEF AckReplace, Goto
<1>11. ASSUME NEW p \in Procs, ArchiveOpen(p) PROVE TypeOK'
  BY <1>11 DEF ArchiveOpen, Goto
<1>12. ASSUME NEW p \in Procs, ArchiveWrite(p) PROVE TypeOK'
  BY <1>12 DEF ArchiveWrite, Goto
<1>13. ASSUME NEW p \in Procs, ArchiveSync(p) PROVE TypeOK'
  BY <1>13 DEF ArchiveSync, Goto
<1>14. ASSUME NEW p \in Procs, ArchiveCompare(p) PROVE TypeOK'
  BY <1>14 DEF ArchiveCompare, Goto, Return
<1>15. ASSUME NEW p \in Procs, AckFail(p) PROVE TypeOK'
  BY <1>15 DEF AckFail, Return
<1>16. ASSUME NEW p \in Procs, AckUnlink(p) PROVE TypeOK'
  BY <1>16 DEF AckUnlink, Return
<1>17. ASSUME NEW p \in Procs, Crash(p) PROVE TypeOK'
  BY <1>17 DEF Crash
<1>18. CASE UNCHANGED vars
  BY <1>18 DEF vars
<1> QED
  BY <1>1, <1>2, <1>3, <1>4, <1>5, <1>6, <1>7, <1>8, <1>9, <1>10, <1>11, <1>12,
     <1>13, <1>14, <1>15, <1>16, <1>17, <1>18 DEF Next

(* Type correctness of the store, for every value of the constants. *)
THEOREM TypeCorrect == Spec => []TypeOK
<1>1. Init => TypeOK
  BY AbsentIsFile DEF Init, TypeOK, Outcomes
<1> QED
  BY <1>1, TypeStep, PTL DEF Spec

-----------------------------------------------------------------------------
(* The lock.                                                               *)

(***************************************************************************)
(* The inductive invariant behind LockNotLost.  An identity belongs to one *)
(* DUT; a call past the first read of acknowledge still finds its incident *)
(* in the lock it is going to remove; it removes it only after the archive *)
(* holds the incident; and a recorder still owns the file it created.      *)
(* Each of the last three may be defeated only by the clean-up of a failed *)
(* write, which cleaned remembers.                                         *)
(***************************************************************************)
Identities ==
    /\ \A d \in Duts : active[d].doc # None =>
           active[d].doc.dut = d /\ issued[active[d].doc.id] = d
    /\ \A p \in Procs : pc[p] \notin {"idle", "ack_lookup"} =>
           issued[doc[p].id] = doc[p].dut
    /\ \A i \in returned : issued[i] # None

AckHolds ==
    \A p \in Procs : pc[p] \in AckPcs \ {"ack_lookup"} =>
        /\ p \in Acknowledgers
        /\ Locks(doc[p].id, doc[p].dut) \/ doc[p].dut \in cleaned

ArchHolds ==
    \A p \in Procs :
        /\ pc[p] = "arch_write" => archive[doc[p].id] = Incomplete(p)
        /\ pc[p] \in {"arch_sync", "ack_unlink"} => Archived(doc[p].id)

RecHolds ==
    \A p \in Procs :
        /\ pc[p] = "rec_write" =>
              active[doc[p].dut] = Incomplete(p) \/ doc[p].dut \in cleaned
        /\ pc[p] = "rec_sync" => Held(doc[p].id, doc[p].dut)

StoreInv == TypeOK /\ Identities /\ AckHolds /\ ArchHolds /\ RecHolds /\ LockNotLost

(* The fields of the document of a running call. *)
LEMMA RunningDoc ==
    ASSUME TypeOK, NEW p \in Procs, pc[p] # "idle"
    PROVE  doc[p] \in Incident /\ doc[p].id \in Ids /\ doc[p].dut \in Duts
  BY DEF TypeOK, Incident

(* No step but a failed write or the acknowledgment of that very incident   *)
(* takes an incident out of the lock, and none but the retry of its own    *)
(* acknowledgment, which the lock still awaits, out of the archive.        *)
LEMMA HeldStep ==
    ASSUME SoleAcknowledger, StoreInv, [Next]_vars,
           NEW i \in Ids, NEW d \in Duts, issued[i] = d, Held(i, d)
    PROVE  Held(i, d)'
<1> USE DEF Held, Locks, Archived
<1>0. TypeOK /\ Identities /\ AckHolds /\ ArchHolds
  BY DEF StoreInv
<1>1. CASE UNCHANGED <<active, archive, cleaned>>
  BY <1>1
<1>2. ASSUME NEW p \in Procs, RecordOpen(p) PROVE Held(i, d)'
  BY <1>0, <1>2 DEF RecordOpen, Absent, TypeOK
<1>3. ASSUME NEW p \in Procs, RecordWrite(p) PROVE Held(i, d)'
  BY <1>0, <1>3 DEF RecordWrite, Incomplete, TypeOK
<1>4. ASSUME NEW p \in Procs, RecordFail(p) PROVE Held(i, d)'
  BY <1>0, <1>4 DEF RecordFail, Incomplete, Absent, TypeOK
<1>5. ASSUME NEW p \in Procs, AckReplace(p) PROVE Held(i, d)'
  <2>1. doc[p] \in Incident
    BY <1>0, <1>5, RunningDoc DEF AckReplace
  <2>2. Locks(doc[p].id, doc[p].dut) \/ doc[p].dut \in cleaned
    BY <1>0, <1>5 DEF AckReplace, AckHolds, AckPcs
  <2> QED BY <1>0, <1>5, <2>1, <2>2, NoneAssumption DEF AckReplace, Complete, TypeOK
<1>6. ASSUME NEW p \in Procs, ArchiveOpen(p) PROVE Held(i, d)'
  BY <1>0, <1>6 DEF ArchiveOpen, Absent, TypeOK
<1>7. ASSUME NEW p \in Procs, ArchiveWrite(p) PROVE Held(i, d)'
  BY <1>0, <1>7 DEF ArchiveWrite, Incomplete, TypeOK
<1>8. ASSUME NEW p \in Procs, AckFail(p) PROVE Held(i, d)'
  <2>1. /\ Locks(doc[p].id, doc[p].dut) \/ doc[p].dut \in cleaned
        /\ issued[doc[p].id] = doc[p].dut
    BY <1>0, <1>8 DEF AckFail, AckHolds, AckPcs, Identities
  <2> QED BY <1>0, <1>8, <2>1 DEF AckFail, TypeOK
<1>9. ASSUME NEW p \in Procs, AckUnlink(p) PROVE Held(i, d)'
  <2>1. /\ Locks(doc[p].id, doc[p].dut) \/ doc[p].dut \in cleaned
        /\ Archived(doc[p].id)
    BY <1>0, <1>9 DEF AckUnlink, AckHolds, AckPcs, ArchHolds
  <2> QED BY <1>0, <1>9, <2>1 DEF AckUnlink, TypeOK
<1>10. ASSUME NEW p \in Procs,
              \/ \E e \in Duts : RecordRead(p, e)
              \/ RecordSync(p) \/ RecordReread(p)
              \/ \E e \in Duts, j \in Ids, r \in Readbacks :
                    AckRead(p, e, j, r) \/ AckReject(p, e, j, r)
              \/ AckLookup(p) \/ ArchiveSync(p) \/ ArchiveCompare(p) \/ Crash(p)
       PROVE  UNCHANGED <<active, archive, cleaned>>
  BY <1>10 DEF RecordRead, RecordSync, RecordReread, AckRead, AckReject,
               AckLookup, ArchiveSync, ArchiveCompare, Crash
<1> HIDE DEF Held, Locks, Archived
<1> QED
  BY <1>1, <1>2, <1>3, <1>4, <1>5, <1>6, <1>7, <1>8, <1>9, <1>10 DEF Next, vars

(* An identity is drawn for one DUT and every document keeps the two. *)
LEMMA IdentitiesStep ==
    ASSUME SoleAcknowledger, StoreInv, [Next]_vars
    PROVE  Identities'
<1> USE NoneAssumption DEF Identities, TypeOK, Incident
<1>0. /\ TypeOK /\ Identities /\ AckHolds /\ ArchHolds /\ RecHolds /\ LockNotLost
      /\ TypeOK'
  BY TypeStep DEF StoreInv
<1>1. ASSUME NEW p \in Procs, NEW d \in Duts, RecordRead(p, d) PROVE Identities'
  <2>1. CASE UNCHANGED issued /\ pc' = [pc EXCEPT ![p] = "idle"]
    <3>1. \A i \in returned' : issued[i] # None
      BY <1>0, <1>1, <2>1 DEF RecordRead, Coalesce
    <3>2. UNCHANGED active /\ \A q \in Procs : pc'[q] # "idle" =>
                                 pc'[q] = pc[q] /\ doc'[q] = doc[q]
      BY <1>0, <1>1, <2>1 DEF RecordRead, Coalesce
    <3> QED BY <1>0, <2>1, <3>1, <3>2
  <2>2. ASSUME NEW i \in Ids, issued[i] = None, issued' = [issued EXCEPT ![i] = d],
               doc' = [doc EXCEPT ![p] = [id |-> i, dut |-> d, status |-> "OPEN",
                                          ack |-> None]],
               UNCHANGED <<active, returned>>, Begin(p, "rec_open")
        PROVE  Identities'
    <3>1. \A j \in Ids : issued[j] # None => issued'[j] = issued[j]
      BY <1>0, <2>2
    <3>2. \A e \in Duts : active[e].doc # None => active[e].doc.id \in Ids
      BY <1>0 DEF File
    <3>3. \A q \in Procs : q # p => pc'[q] = pc[q] /\ doc'[q] = doc[q]
      BY <1>0, <2>2 DEF Begin
    <3>4. doc'[p].id = i /\ doc'[p].dut = d /\ issued'[i] = d
      BY <1>0, <2>2
    <3> QED BY <1>0, <2>2, <3>1, <3>2, <3>3, <3>4, RunningDoc
  <2> QED BY <1>1, <2>1, <2>2 DEF RecordRead, Return, Coalesce
<1>2. ASSUME NEW p \in Procs, NEW d \in Duts, NEW i \in Ids, NEW r \in Readbacks,
             AckRead(p, d, i, r)
      PROVE  Identities'
  BY <1>0, <1>2 DEF AckRead, Begin, Acknowledged
<1>3. ASSUME NEW p \in Procs, NEW d \in Duts, NEW i \in Ids, NEW r \in Readbacks,
             AckReject(p, d, i, r)
      PROVE  Identities'
  BY <1>0, <1>3 DEF AckReject, Return
<1>4. ASSUME NEW p \in Procs, RecordOpen(p) PROVE Identities'
  BY <1>0, <1>4, RunningDoc DEF RecordOpen, Goto, Incomplete
<1>5. ASSUME NEW p \in Procs, RecordWrite(p) PROVE Identities'
  BY <1>0, <1>5, RunningDoc DEF RecordWrite, Goto, Complete
<1>6. ASSUME NEW p \in Procs, RecordSync(p) PROVE Identities'
  BY <1>0, <1>6, RunningDoc DEF RecordSync, Return, Goto
<1>7. ASSUME NEW p \in Procs, RecordFail(p) PROVE Identities'
  BY <1>0, <1>7, RunningDoc DEF RecordFail, Return, Absent
<1>8. ASSUME NEW p \in Procs, RecordReread(p) PROVE Identities'
  BY <1>0, <1>8, RunningDoc DEF RecordReread, Return, Coalesce
<1>9. ASSUME NEW p \in Procs, AckLookup(p) PROVE Identities'
  BY <1>0, <1>9, RunningDoc DEF AckLookup, Return, Goto
<1>10. ASSUME NEW p \in Procs, AckReplace(p) PROVE Identities'
  BY <1>0, <1>10, RunningDoc DEF AckReplace, Goto, Complete
<1>11. ASSUME NEW p \in Procs, ArchiveOpen(p) PROVE Identities'
  BY <1>0, <1>11, RunningDoc DEF ArchiveOpen, Return, Goto
<1>12. ASSUME NEW p \in Procs, ArchiveWrite(p) PROVE Identities'
  BY <1>0, <1>12, RunningDoc DEF ArchiveWrite, Return, Goto
<1>13. ASSUME NEW p \in Procs, ArchiveSync(p) PROVE Identities'
  BY <1>0, <1>13, RunningDoc DEF ArchiveSync, Return, Goto
<1>14. ASSUME NEW p \in Procs, ArchiveCompare(p) PROVE Identities'
  BY <1>0, <1>14, RunningDoc DEF ArchiveCompare, Return, Goto
<1>15. ASSUME NEW p \in Procs, AckFail(p) PROVE Identities'
  BY <1>0, <1>15, RunningDoc DEF AckFail, Return, Goto
<1>16. ASSUME NEW p \in Procs, AckUnlink(p) PROVE Identities'
  BY <1>0, <1>16, RunningDoc DEF AckUnlink, Return, Absent
<1>17. ASSUME NEW p \in Procs, Crash(p) PROVE Identities'
  BY <1>0, <1>17, RunningDoc DEF Crash, AckPcs
<1>18. CASE UNCHANGED vars
  BY <1>0, <1>18 DEF vars
<1> QED
  BY <1>1, <1>2, <1>3, <1>4, <1>5, <1>6, <1>7, <1>8, <1>9, <1>10, <1>11, <1>12, <1>13, <1>14, <1>15, <1>16, <1>17, <1>18 DEF Next

(* What a running acknowledge call found in the lock is still there. *)
LEMMA AckHoldsStep ==
    ASSUME SoleAcknowledger, StoreInv, [Next]_vars
    PROVE  AckHolds'
<1> USE NoneAssumption DEF AckHolds, Locks, AckPcs, TypeOK
<1>0. /\ TypeOK /\ Identities /\ AckHolds /\ ArchHolds /\ RecHolds /\ LockNotLost
      /\ TypeOK'
  BY TypeStep DEF StoreInv
<1>1. ASSUME NEW p \in Procs, NEW d \in Duts, RecordRead(p, d) PROVE AckHolds'
  BY <1>0, <1>1 DEF RecordRead, Begin, Return, Coalesce
<1>2. ASSUME NEW p \in Procs, NEW d \in Duts, NEW i \in Ids, NEW r \in Readbacks,
             AckRead(p, d, i, r)
      PROVE  AckHolds'
  BY <1>0, <1>2 DEF AckRead, Begin, Acknowledged
<1>3. ASSUME NEW p \in Procs, NEW d \in Duts, NEW i \in Ids, NEW r \in Readbacks,
             AckReject(p, d, i, r)
      PROVE  AckHolds'
  BY <1>0, <1>3 DEF AckReject, Return
<1>4. ASSUME NEW p \in Procs, RecordOpen(p) PROVE AckHolds'
  BY <1>0, <1>4, RunningDoc DEF RecordOpen, Goto, Absent
<1>5. ASSUME NEW p \in Procs, RecordWrite(p) PROVE AckHolds'
  BY <1>0, <1>5, RunningDoc DEF RecordWrite, Goto, Complete, Incomplete
<1>6. ASSUME NEW p \in Procs, RecordSync(p) PROVE AckHolds'
  BY <1>0, <1>6, RunningDoc DEF RecordSync, Return
<1>7. ASSUME NEW p \in Procs, RecordFail(p) PROVE AckHolds'
  BY <1>0, <1>7, RunningDoc DEF RecordFail, Return, Absent, Incomplete
<1>8. ASSUME NEW p \in Procs, RecordReread(p) PROVE AckHolds'
  BY <1>0, <1>8, RunningDoc DEF RecordReread, Return, Coalesce
<1>9. ASSUME NEW p \in Procs, AckLookup(p) PROVE AckHolds'
  BY <1>0, <1>9, RunningDoc DEF AckLookup, Return
<1>10. ASSUME NEW p \in Procs, AckReplace(p) PROVE AckHolds'
  BY <1>0, <1>10, RunningDoc DEF AckReplace, Goto, Complete, SoleAcknowledger
<1>11. ASSUME NEW p \in Procs, ArchiveOpen(p) PROVE AckHolds'
  BY <1>0, <1>11, RunningDoc DEF ArchiveOpen, Goto
<1>12. ASSUME NEW p \in Procs, ArchiveWrite(p) PROVE AckHolds'
  BY <1>0, <1>12, RunningDoc DEF ArchiveWrite, Goto
<1>13. ASSUME NEW p \in Procs, ArchiveSync(p) PROVE AckHolds'
  BY <1>0, <1>13, RunningDoc DEF ArchiveSync, Goto
<1>14. ASSUME NEW p \in Procs, ArchiveCompare(p) PROVE AckHolds'
  BY <1>0, <1>14, RunningDoc DEF ArchiveCompare, Return, Goto
<1>15. ASSUME NEW p \in Procs, AckFail(p) PROVE AckHolds'
  BY <1>0, <1>15, RunningDoc DEF AckFail, Return
<1>16. ASSUME NEW p \in Procs, AckUnlink(p) PROVE AckHolds'
  BY <1>0, <1>16, RunningDoc DEF AckUnlink, Return, SoleAcknowledger
<1>17. ASSUME NEW p \in Procs, Crash(p) PROVE AckHolds'
  BY <1>0, <1>17, RunningDoc DEF Crash
<1>18. CASE UNCHANGED vars
  BY <1>0, <1>18 DEF vars
<1> HIDE DEF AckHolds
<1> QED
  BY <1>1, <1>2, <1>3, <1>4, <1>5, <1>6, <1>7, <1>8, <1>9, <1>10, <1>11, <1>12, <1>13, <1>14, <1>15, <1>16, <1>17, <1>18 DEF Next

(* The archive of a running acknowledge call is what the call has made it. *)
LEMMA ArchHoldsStep ==
    ASSUME SoleAcknowledger, StoreInv, [Next]_vars
    PROVE  ArchHolds'
<1> USE NoneAssumption DEF ArchHolds, Archived, AckPcs, TypeOK
<1>0. /\ TypeOK /\ Identities /\ AckHolds /\ ArchHolds /\ RecHolds /\ LockNotLost
      /\ TypeOK'
  BY TypeStep DEF StoreInv
<1>1. ASSUME NEW p \in Procs, NEW d \in Duts, RecordRead(p, d) PROVE ArchHolds'
  BY <1>0, <1>1 DEF RecordRead, Begin, Return, Coalesce
<1>2. ASSUME NEW p \in Procs, NEW d \in Duts, NEW i \in Ids, NEW r \in Readbacks,
             AckRead(p, d, i, r)
      PROVE  ArchHolds'
  BY <1>0, <1>2 DEF AckRead, Begin
<1>3. ASSUME NEW p \in Procs, NEW d \in Duts, NEW i \in Ids, NEW r \in Readbacks,
             AckReject(p, d, i, r)
      PROVE  ArchHolds'
  BY <1>0, <1>3 DEF AckReject, Return
<1>4. ASSUME NEW p \in Procs, RecordOpen(p) PROVE ArchHolds'
  BY <1>0, <1>4, RunningDoc DEF RecordOpen, Goto
<1>5. ASSUME NEW p \in Procs, RecordWrite(p) PROVE ArchHolds'
  BY <1>0, <1>5, RunningDoc DEF RecordWrite, Goto
<1>6. ASSUME NEW p \in Procs, RecordSync(p) PROVE ArchHolds'
  BY <1>0, <1>6, RunningDoc DEF RecordSync, Return
<1>7. ASSUME NEW p \in Procs, RecordFail(p) PROVE ArchHolds'
  BY <1>0, <1>7, RunningDoc DEF RecordFail, Return
<1>8. ASSUME NEW p \in Procs, RecordReread(p) PROVE ArchHolds'
  BY <1>0, <1>8, RunningDoc DEF RecordReread, Return, Coalesce
<1>9. ASSUME NEW p \in Procs, AckLookup(p) PROVE ArchHolds'
  BY <1>0, <1>9, RunningDoc DEF AckLookup, Return
<1>10. ASSUME NEW p \in Procs, AckReplace(p) PROVE ArchHolds'
  BY <1>0, <1>10, RunningDoc DEF AckReplace, Goto
<1>11. ASSUME NEW p \in Procs, ArchiveOpen(p) PROVE ArchHolds'
  BY <1>0, <1>11, RunningDoc DEF ArchiveOpen, Goto, Absent, Incomplete
<1>12. ASSUME NEW p \in Procs, ArchiveWrite(p) PROVE ArchHolds'
  BY <1>0, <1>12, RunningDoc DEF ArchiveWrite, Goto, Complete, AckHolds, SoleAcknowledger
<1>13. ASSUME NEW p \in Procs, ArchiveSync(p) PROVE ArchHolds'
  BY <1>0, <1>13, RunningDoc DEF ArchiveSync, Goto
<1>14. ASSUME NEW p \in Procs, ArchiveCompare(p) PROVE ArchHolds'
  BY <1>0, <1>14, RunningDoc DEF ArchiveCompare, Return, Goto
<1>15. ASSUME NEW p \in Procs, AckFail(p) PROVE ArchHolds'
  BY <1>0, <1>15, RunningDoc DEF AckFail, Return, AckHolds, SoleAcknowledger
<1>16. ASSUME NEW p \in Procs, AckUnlink(p) PROVE ArchHolds'
  BY <1>0, <1>16, RunningDoc DEF AckUnlink, Return
<1>17. ASSUME NEW p \in Procs, Crash(p) PROVE ArchHolds'
  BY <1>0, <1>17, RunningDoc DEF Crash
<1>18. CASE UNCHANGED vars
  BY <1>0, <1>18 DEF vars
<1> HIDE DEF ArchHolds
<1> QED
  BY <1>1, <1>2, <1>3, <1>4, <1>5, <1>6, <1>7, <1>8, <1>9, <1>10, <1>11, <1>12, <1>13, <1>14, <1>15, <1>16, <1>17, <1>18 DEF Next

(* A recorder still owns the file it created, or has been told otherwise. *)
LEMMA RecHoldsStep ==
    ASSUME SoleAcknowledger, StoreInv, [Next]_vars
    PROVE  RecHolds'
<1> USE NoneAssumption DEF RecHolds, TypeOK
<1>0. /\ TypeOK /\ Identities /\ AckHolds /\ ArchHolds /\ RecHolds /\ LockNotLost
      /\ TypeOK'
  BY TypeStep DEF StoreInv
<1>a. ASSUME NEW q \in Procs, pc[q] = "rec_sync", doc'[q] = doc[q]
      PROVE  Held(doc[q].id, doc[q].dut)'
  <2> PICK i \in Ids, d \in Duts : i = doc[q].id /\ d = doc[q].dut
    BY <1>0, <1>a, RunningDoc
  <2>1. Held(i, d) /\ issued[i] = d
    BY <1>0, <1>a DEF Identities
  <2>2. Held(i, d)'
    BY <2>1, HeldStep
  <2> QED BY <1>a, <2>2 DEF Held, Locks, Archived
<1>1. ASSUME NEW p \in Procs, NEW d \in Duts, RecordRead(p, d) PROVE RecHolds'
  BY <1>0, <1>1, <1>a DEF RecordRead, Begin, Return, Coalesce
<1>2. ASSUME NEW p \in Procs, NEW d \in Duts, NEW i \in Ids, NEW r \in Readbacks,
             AckRead(p, d, i, r)
      PROVE  RecHolds'
  BY <1>0, <1>2, <1>a DEF AckRead, Begin
<1>3. ASSUME NEW p \in Procs, NEW d \in Duts, NEW i \in Ids, NEW r \in Readbacks,
             AckReject(p, d, i, r)
      PROVE  RecHolds'
  BY <1>0, <1>3, <1>a DEF AckReject, Return
<1>4. ASSUME NEW p \in Procs, RecordOpen(p) PROVE RecHolds'
  BY <1>0, <1>4, RunningDoc, <1>a DEF RecordOpen, Goto, Absent, Incomplete
<1>5. ASSUME NEW p \in Procs, RecordWrite(p) PROVE RecHolds'
  BY <1>0, <1>5, RunningDoc, <1>a DEF RecordWrite, Goto, Complete, Incomplete, Locks, Held
<1>6. ASSUME NEW p \in Procs, RecordSync(p) PROVE RecHolds'
  BY <1>0, <1>6, RunningDoc, <1>a DEF RecordSync, Return
<1>7. ASSUME NEW p \in Procs, RecordFail(p) PROVE RecHolds'
  BY <1>0, <1>7, RunningDoc, <1>a DEF RecordFail, Return, Absent, Incomplete
<1>8. ASSUME NEW p \in Procs, RecordReread(p) PROVE RecHolds'
  BY <1>0, <1>8, RunningDoc, <1>a DEF RecordReread, Return, Coalesce
<1>9. ASSUME NEW p \in Procs, AckLookup(p) PROVE RecHolds'
  BY <1>0, <1>9, RunningDoc, <1>a DEF AckLookup, Return
<1>10. ASSUME NEW p \in Procs, AckReplace(p) PROVE RecHolds'
  BY <1>0, <1>10, RunningDoc, <1>a DEF AckReplace, Goto, AckHolds, AckPcs, Locks, Incomplete
<1>11. ASSUME NEW p \in Procs, ArchiveOpen(p) PROVE RecHolds'
  BY <1>0, <1>11, RunningDoc, <1>a DEF ArchiveOpen, Goto
<1>12. ASSUME NEW p \in Procs, ArchiveWrite(p) PROVE RecHolds'
  BY <1>0, <1>12, RunningDoc, <1>a DEF ArchiveWrite, Goto
<1>13. ASSUME NEW p \in Procs, ArchiveSync(p) PROVE RecHolds'
  BY <1>0, <1>13, RunningDoc, <1>a DEF ArchiveSync, Goto
<1>14. ASSUME NEW p \in Procs, ArchiveCompare(p) PROVE RecHolds'
  BY <1>0, <1>14, RunningDoc, <1>a DEF ArchiveCompare, Return, Goto
<1>15. ASSUME NEW p \in Procs, AckFail(p) PROVE RecHolds'
  BY <1>0, <1>15, RunningDoc, <1>a DEF AckFail, Return
<1>16. ASSUME NEW p \in Procs, AckUnlink(p) PROVE RecHolds'
  BY <1>0, <1>16, RunningDoc, <1>a DEF AckUnlink, Return, AckHolds, AckPcs, Locks, Incomplete
<1>17. ASSUME NEW p \in Procs, Crash(p) PROVE RecHolds'
  BY <1>0, <1>17, RunningDoc, <1>a DEF Crash
<1>18. CASE UNCHANGED vars
  BY <1>0, <1>18, <1>a DEF vars
<1> HIDE DEF RecHolds
<1> QED
  BY <1>1, <1>2, <1>3, <1>4, <1>5, <1>6, <1>7, <1>8, <1>9, <1>10, <1>11, <1>12, <1>13, <1>14, <1>15, <1>16, <1>17, <1>18 DEF Next

(* The incidents a caller was told of stay held, and those a step returns   *)
(* to a caller are held: they were just read from the lock, or written.    *)
LEMMA LockStep ==
    ASSUME SoleAcknowledger, StoreInv, [Next]_vars
    PROVE  LockNotLost'
<1>0. TypeOK /\ Identities /\ RecHolds /\ LockNotLost
  BY DEF StoreInv
<1>1. ASSUME NEW i \in returned PROVE Held(i, issued[i])'
  <2> PICK d \in Duts : d = issued[i]
    BY <1>0 DEF TypeOK, Identities
  <2>1. i \in Ids /\ Held(i, d)
    BY <1>0 DEF TypeOK, LockNotLost
  <2>2. Held(i, d)'
    BY <2>1, HeldStep
  <2>3. issued'[i] = d
    <3>1. ASSUME NEW p \in Procs, NEW e \in Duts, RecordRead(p, e)
          PROVE  issued'[i] = d
      BY <1>0, <2>1, <3>1, NoneAssumption DEF RecordRead, TypeOK
    <3>2. ASSUME NEW p \in Procs,
                 \/ RecordOpen(p) \/ RecordWrite(p) \/ RecordSync(p)
                 \/ RecordFail(p) \/ RecordReread(p) \/ Crash(p)
          PROVE  UNCHANGED issued
      BY <3>2 DEF RecordOpen, RecordWrite, RecordSync, RecordFail, RecordReread, Crash
    <3>3. ASSUME NEW p \in Procs,
                 \/ \E e \in Duts, j \in Ids, r \in Readbacks :
                       AckRead(p, e, j, r) \/ AckReject(p, e, j, r)
                 \/ AckLookup(p) \/ AckReplace(p) \/ ArchiveOpen(p)
                 \/ ArchiveWrite(p) \/ ArchiveSync(p) \/ ArchiveCompare(p)
                 \/ AckFail(p) \/ AckUnlink(p)
          PROVE  UNCHANGED issued
      BY <3>3 DEF AckRead, AckReject, AckLookup, AckReplace, ArchiveOpen,
         ArchiveWrite, ArchiveSync, ArchiveCompare, AckFail, AckUnlink
    <3> QED BY <3>1, <3>2, <3>3 DEF Next, vars
  <2> QED BY <2>2, <2>3 DEF Held, Locks, Archived
<1>2. ASSUME NEW p \in Procs, NEW d \in Duts, active[d].doc # None,
             Coalesce(p, active[d].doc), UNCHANGED <<active, issued>>
      PROVE  LockNotLost'
  <2>1. Locks(active[d].doc.id, d)' /\ issued[active[d].doc.id] = d
    BY <1>0, <1>2 DEF Locks, Identities
  <2> QED BY <1>1, <1>2, <2>1 DEF LockNotLost, Coalesce, Held
<1>3. ASSUME NEW p \in Procs, RecordSync(p) PROVE LockNotLost'
  <2>1. Held(doc[p].id, issued[doc[p].id])
    BY <1>0, <1>3 DEF RecHolds, RecordSync, Identities
  <2>2. Held(doc[p].id, issued[doc[p].id])'
    BY <1>3, <2>1 DEF RecordSync, Held, Locks, Archived
  <2> QED BY <1>1, <1>3, <2>2 DEF LockNotLost, RecordSync
<1>4. CASE UNCHANGED returned
  BY <1>1, <1>4 DEF LockNotLost
<1>5. ASSUME NEW p \in Procs, RecordReread(p) PROVE LockNotLost'
  <2>1. doc[p].dut \in Duts
    BY <1>0, <1>5, RunningDoc DEF RecordReread
  <2> QED BY <1>2, <1>4, <1>5, <2>1 DEF RecordReread
<1>6. ASSUME NEW p \in Procs, NEW d \in Duts, RecordRead(p, d) PROVE LockNotLost'
  BY <1>2, <1>4, <1>6 DEF RecordRead
<1>7. ASSUME NEW p \in Procs,
             \/ RecordOpen(p) \/ RecordWrite(p) \/ RecordFail(p)
             \/ \E d \in Duts, i \in Ids, r \in Readbacks :
                   AckRead(p, d, i, r) \/ AckReject(p, d, i, r)
             \/ AckLookup(p) \/ AckReplace(p) \/ ArchiveOpen(p) \/ ArchiveWrite(p)
             \/ ArchiveSync(p) \/ ArchiveCompare(p) \/ AckFail(p) \/ AckUnlink(p) \/ Crash(p)
      PROVE  UNCHANGED returned
  BY <1>7 DEF RecordOpen, RecordWrite, RecordFail, AckRead, AckReject, AckLookup, AckReplace,
     ArchiveOpen, ArchiveWrite, ArchiveSync, ArchiveCompare, AckFail, AckUnlink, Crash
<1> QED
  BY <1>3, <1>4, <1>5, <1>6, <1>7 DEF Next, vars

(***************************************************************************)
(* StoreInv is an invariant when one process acknowledges at a time.       *)
(***************************************************************************)
THEOREM StoreInvariant == SoleAcknowledger => (Spec => []StoreInv)
<1> SUFFICES ASSUME SoleAcknowledger PROVE Spec => []StoreInv
  OBVIOUS
<1>1. Init => StoreInv
  <2>1. Init => TypeOK
    BY AbsentIsFile DEF Init, TypeOK, Outcomes
  <2> QED
    BY <2>1 DEF Init, StoreInv, Identities, AckHolds, ArchHolds, RecHolds,
                LockNotLost, Absent, AckPcs
<1>2. StoreInv /\ [Next]_vars => StoreInv'
  BY TypeStep, IdentitiesStep, AckHoldsStep, ArchHoldsStep, RecHoldsStep, LockStep
     DEF StoreInv
<1> QED
  BY <1>1, <1>2, PTL DEF Spec

(* An incident a record_uncertain call has returned is never lost while one  *)
(* process acknowledges at a time: whatever the recording processes do,    *)
(* wherever calls are killed and whichever system calls fail.              *)
THEOREM LockIsNotLost == SoleAcknowledger => (Spec => []LockNotLost)
<1>1. StoreInv => LockNotLost
  BY DEF StoreInv
<1> QED
  BY <1>1, StoreInvariant, PTL

(* A lock disappears only through the acknowledgment of the incident it      *)
(* holds, or with a reported persistence failure.                          *)
THEOREM LockRemoval == SoleAcknowledger => (Spec => UnlockOnlyByItsAck)
<1> DEFINE Removal == \A d \in Duts :
                 active[d] # Absent /\ active'[d] = Absent => UnlockStep(d)
<1>1. StoreInv /\ [Next]_vars => [Removal]_vars
  <2> SUFFICES ASSUME StoreInv, Next, NEW d \in Duts, active[d] # Absent,
                      active'[d] = Absent
               PROVE  UnlockStep(d)
    OBVIOUS
  <2>0. TypeOK /\ AckHolds /\ ArchHolds
    BY DEF StoreInv
  <2>1. ASSUME NEW p \in Procs, RecordFail(p) PROVE UnlockStep(d)
    BY <2>0, <2>1, RunningDoc DEF RecordFail, Return, UnlockStep, TypeOK
  <2>2. ASSUME NEW p \in Procs, AckUnlink(p) PROVE UnlockStep(d)
    BY <2>0, <2>2, RunningDoc DEF AckUnlink, Return, UnlockStep, TypeOK, AckHolds,
       ArchHolds, AckPcs
  <2>3. ASSUME NEW p \in Procs, RecordOpen(p) \/ RecordWrite(p) \/ AckReplace(p)
        PROVE  FALSE
    BY <2>0, <2>3, RunningDoc, NoneAssumption DEF RecordOpen, RecordWrite,
       AckReplace, TypeOK, Complete, Incomplete, Absent
  <2> QED
    BY <2>1, <2>2, <2>3 DEF Next, RecordRead, RecordSync, RecordReread, AckRead,
       AckReject, AckLookup, ArchiveOpen, ArchiveWrite, ArchiveSync,
       ArchiveCompare, AckFail, Crash
<1> QED
  BY <1>1, StoreInvariant, PTL DEF Spec, UnlockOnlyByItsAck

-----------------------------------------------------------------------------
(* The archive.                                                            *)

(***************************************************************************)
(* An archived record is written once when open, write and fsync of the    *)
(* archive do not fail: the clean-up of a failed _write_exclusive removes  *)
(* whatever the path holds.  A successful acknowledge call has archived    *)
(* its incident under that assumption or when one process acknowledges.    *)
(***************************************************************************)
ArchiveReliable == Faults \cap {"open", "write", "sync"} = {}

(* The calls that fail under ArchiveReliable do not touch the archive.     *)
LEMMA ReliableFail ==
    ASSUME ArchiveReliable, NEW p \in Procs, AckFail(p)
    PROVE  UNCHANGED archive
  BY DEF ArchiveReliable, AckFail, SysCall

(* No step changes a complete archive file, nor the file another process   *)
(* is about to write (O_EXCL, and the comparison instead of an overwrite). *)
LEMMA ArchiveKept ==
    ASSUME ArchiveReliable, TypeOK, Next, NEW i \in Ids
    PROVE  Archived(i) => archive'[i] = archive[i]
<1> USE DEF Archived, Absent, Incomplete
<1>1. ASSUME NEW p \in Procs, ArchiveOpen(p) PROVE Archived(i) => archive'[i] = archive[i]
  BY <1>1, RunningDoc DEF ArchiveOpen, TypeOK
<1>2. ASSUME NEW p \in Procs, ArchiveWrite(p) PROVE Archived(i) => archive'[i] = archive[i]
  BY <1>2, RunningDoc DEF ArchiveWrite, TypeOK
<1>3. ASSUME NEW p \in Procs, AckFail(p) PROVE UNCHANGED archive
  BY <1>3, ReliableFail
<1>4. ASSUME NEW p \in Procs,
             \/ \E d \in Duts : RecordRead(p, d)
             \/ RecordOpen(p) \/ RecordWrite(p) \/ RecordSync(p) \/ RecordFail(p)
             \/ RecordReread(p)
             \/ \E d \in Duts, j \in Ids, r \in Readbacks :
                   AckRead(p, d, j, r) \/ AckReject(p, d, j, r)
             \/ AckLookup(p) \/ AckReplace(p) \/ ArchiveSync(p) \/ ArchiveCompare(p)
             \/ AckUnlink(p) \/ Crash(p)
      PROVE  UNCHANGED archive
  BY <1>4 DEF RecordRead, RecordOpen, RecordWrite, RecordSync, RecordFail, RecordReread,
              AckRead, AckReject, AckLookup, AckReplace, ArchiveSync, ArchiveCompare,
              AckUnlink, Crash
<1> HIDE DEF Archived
<1> QED
  BY <1>1, <1>2, <1>3, <1>4 DEF Next

(* Archived evidence never changes, however many operators acknowledge at   *)
(* the same time and with whatever data (_write_exclusive of the archive). *)
THEOREM ArchiveIsWriteOnce == ArchiveReliable => (Spec => ArchiveWriteOnce)
<1> SUFFICES ASSUME ArchiveReliable PROVE Spec => ArchiveWriteOnce
  OBVIOUS
<1> DEFINE Kept == \A i \in Ids : Archived(i) => archive'[i] = archive[i]
<1>1. TypeOK /\ [Next]_vars => [Kept]_vars
  BY ArchiveKept
<1> HIDE DEF Kept
<1>2. Spec => [][Kept]_vars
  BY <1>1, TypeCorrect, PTL DEF Spec
<1> QED
  BY <1>2 DEF Kept, ArchiveWriteOnce

(***************************************************************************)
(* The inductive invariant behind AckArchived: what an acknowledging call  *)
(* writes is acknowledged, the archive of a running call is what the call  *)
(* has made it (ArchHolds), and a call that has succeeded left its record. *)
(***************************************************************************)
Acking ==
    \A p \in Procs : pc[p] \in AckPcs =>
        /\ p \in Acknowledgers
        /\ pc[p] # "ack_lookup" => doc[p].status = "ACKNOWLEDGED"

ArchDocs ==
    \A i \in Ids : Archived(i) =>
        archive[i].doc.id = i /\ archive[i].doc.status = "ACKNOWLEDGED"

Told ==
    \A p \in Procs : ret[p] = "acknowledged" =>
        /\ pc[p] = "idle" /\ p \in Acknowledgers
        /\ doc[p] # None /\ Archived(doc[p].id)

ArchiveInv == TypeOK /\ Acking /\ ArchDocs /\ ArchHolds /\ Told

(* The step of one process keeps what another acknowledger relies on: the   *)
(* complete files, and the file that other one has created.                *)
OthersKept(p) ==
    \A q \in Acknowledgers, i \in Ids : q # p =>
        /\ Archived(i) => archive'[i] = archive[i]
        /\ archive[i] = Incomplete(q) => archive'[i] = archive[i]

LEMMA ArchiveOfOthers ==
    ASSUME SoleAcknowledger \/ ArchiveReliable, ArchiveInv, NEW p \in Procs,
           ArchiveOpen(p) \/ ArchiveWrite(p) \/ AckFail(p)
    PROVE  OthersKept(p)
<1>0. TypeOK /\ Acking
  BY DEF ArchiveInv
<1>1. p \in Acknowledgers
  BY <1>0 DEF Acking, AckPcs, ArchiveOpen, ArchiveWrite, AckFail
<1>2. CASE SoleAcknowledger
  BY <1>1, <1>2 DEF SoleAcknowledger, OthersKept
<1>3. CASE ArchiveReliable
  <2> USE NoneAssumption, RolesAssumption DEF OthersKept, Archived, Absent, Incomplete, TypeOK
  <2>1. CASE ArchiveOpen(p)
    BY <1>0, <2>1 DEF ArchiveOpen
  <2>2. CASE ArchiveWrite(p)
    BY <1>0, <2>2 DEF ArchiveWrite
  <2>3. CASE AckFail(p)
    BY <1>3, <2>3, ReliableFail
  <2> QED
    BY <2>1, <2>2, <2>3
<1> QED
  BY <1>2, <1>3

(* A step that leaves the archive alone keeps ArchiveInv when what it makes *)
(* of its own call fits.                                                   *)
LEMMA ArchiveQuiet ==
    ASSUME ArchiveInv, UNCHANGED archive, NEW p \in Procs,
           \A q \in Procs : q # p => pc'[q] = pc[q] /\ doc'[q] = doc[q] /\ ret'[q] = ret[q],
           pc'[p] \in AckPcs =>
              p \in Acknowledgers /\ (pc'[p] # "ack_lookup" => doc'[p].status = "ACKNOWLEDGED"),
           pc'[p] # "arch_write",
           pc'[p] \in {"arch_sync", "ack_unlink"} => Archived(doc'[p].id),
           ret'[p] = "acknowledged" =>
              /\ pc'[p] = "idle" /\ p \in Acknowledgers
              /\ doc'[p] # None /\ Archived(doc'[p].id)
    PROVE  Acking' /\ ArchDocs' /\ ArchHolds' /\ Told'
  BY DEF ArchiveInv, Acking, ArchDocs, ArchHolds, Told, Archived, Incomplete

(* Every step keeps ArchiveInv. *)
LEMMA ArchiveStep ==
    ASSUME SoleAcknowledger \/ ArchiveReliable, ArchiveInv, [Next]_vars
    PROVE  ArchiveInv'
<1>0. TypeOK /\ Acking /\ ArchDocs /\ ArchHolds /\ Told /\ TypeOK'
  BY TypeStep DEF ArchiveInv
<1> SUFFICES Acking' /\ ArchDocs' /\ ArchHolds' /\ Told'
  BY <1>0 DEF ArchiveInv
<1>t. \A p \in Procs : pc[p] # "idle" => ret[p] # "acknowledged"
  BY <1>0 DEF Told
<1> DEFINE Goal == Acking' /\ ArchDocs' /\ ArchHolds' /\ Told'
<1>1. ASSUME NEW p \in Procs, NEW d \in Duts, RecordRead(p, d) PROVE Goal
  BY <1>0, <1>1, ArchiveQuiet DEF RecordRead, Coalesce, Return, Begin, TypeOK, AckPcs
<1>2. ASSUME NEW p \in Procs, RecordOpen(p) \/ RecordWrite(p) PROVE Goal
  BY <1>0, <1>t, <1>2, ArchiveQuiet DEF RecordOpen, RecordWrite, Goto, TypeOK, AckPcs
<1>3. ASSUME NEW p \in Procs, RecordSync(p) \/ RecordFail(p) PROVE Goal
  BY <1>0, <1>3, ArchiveQuiet DEF RecordSync, RecordFail, Return, TypeOK, AckPcs
<1>4. ASSUME NEW p \in Procs, RecordReread(p) PROVE Goal
  BY <1>0, <1>4, ArchiveQuiet DEF RecordReread, Coalesce, Return, TypeOK, AckPcs
<1>5. ASSUME NEW p \in Procs, NEW d \in Duts, NEW i \in Ids, NEW r \in Readbacks,
             AckRead(p, d, i, r)
      PROVE  Goal
  BY <1>0, <1>5, ArchiveQuiet DEF AckRead, Acknowledged, Begin, TypeOK, AckPcs
<1>6. ASSUME NEW p \in Procs, NEW d \in Duts, NEW i \in Ids, NEW r \in Readbacks,
             AckReject(p, d, i, r)
      PROVE  Goal
  <2>1. Return(p, "unresolved") \/ Return(p, "rejected")
    BY <1>6 DEF AckReject
  <2> QED
    BY <1>0, <1>6, <2>1, ArchiveQuiet DEF AckReject, Return, TypeOK, AckPcs
<1>7. ASSUME NEW p \in Procs, AckLookup(p) PROVE Goal
  <2>1. doc[p].id \in Ids /\ p \in Acknowledgers
    BY <1>0, <1>7, RunningDoc DEF AckLookup, Acking, AckPcs
  <2> DEFINE x == archive[doc[p].id].doc
  <2>2. CASE x # None /\ x.dut = doc[p].dut
    <3>1. /\ UNCHANGED archive /\ doc'[p] = x /\ pc'[p] = "idle"
          /\ \A q \in Procs : q # p => pc'[q] = pc[q] /\ doc'[q] = doc[q] /\ ret'[q] = ret[q]
      BY <1>0, <1>7, <2>2 DEF AckLookup, Return, TypeOK
    <3>2. Archived(x.id)
      BY <1>0, <2>1, <2>2 DEF ArchDocs, Archived
    <3> QED
      BY <2>1, <2>2, <3>1, <3>2, ArchiveQuiet DEF AckPcs
  <2>3. CASE ~(x # None /\ x.dut = doc[p].dut)
    <3>1. Return(p, "rejected") \/ Return(p, "persistence")
      BY <1>7, <2>3 DEF AckLookup
    <3> QED
      BY <1>0, <1>7, <2>3, <3>1, ArchiveQuiet DEF AckLookup, Return, TypeOK, AckPcs
  <2> QED
    BY <2>2, <2>3
<1>8. ASSUME NEW p \in Procs, AckReplace(p) \/ ArchiveSync(p) PROVE Goal
  BY <1>0, <1>t, <1>8, ArchiveQuiet DEF AckReplace, ArchiveSync, Goto, TypeOK, AckPcs, Acking, ArchHolds
<1>9. ASSUME NEW p \in Procs, ArchiveCompare(p) PROVE Goal
  <2>1. doc[p] # None /\ p \in Acknowledgers /\ doc[p].status = "ACKNOWLEDGED"
    BY <1>0, <1>9 DEF ArchiveCompare, TypeOK, Acking, AckPcs
  <2>2. CASE archive[doc[p].id].doc = doc[p]
    BY <1>0, <1>t, <1>9, <2>1, <2>2, ArchiveQuiet DEF ArchiveCompare, Goto, TypeOK, AckPcs, Archived
  <2>3. CASE archive[doc[p].id].doc # doc[p]
    <3>1. Return(p, "rejected") \/ Return(p, "persistence")
      BY <1>9, <2>3 DEF ArchiveCompare
    <3> QED
      BY <1>0, <1>9, <3>1, ArchiveQuiet DEF ArchiveCompare, Return, TypeOK, AckPcs
  <2> QED
    BY <2>2, <2>3
<1>10. ASSUME NEW p \in Procs, AckUnlink(p) PROVE Goal
  BY <1>0, <1>10, ArchiveQuiet DEF AckUnlink, Return, TypeOK, AckPcs, Acking, ArchHolds
<1>11. ASSUME NEW p \in Procs, Crash(p) PROVE Goal
  BY <1>0, <1>11, ArchiveQuiet DEF Crash, TypeOK, AckPcs
<1>12. ASSUME NEW p \in Procs, ArchiveOpen(p) \/ ArchiveWrite(p) \/ AckFail(p) PROVE Goal
  <2>1. /\ p \in Acknowledgers /\ doc[p].id \in Ids /\ doc[p] # None
        /\ doc[p].status = "ACKNOWLEDGED" /\ ret[p] # "acknowledged"
    BY <1>0, <1>t, <1>12, RunningDoc DEF ArchiveOpen, ArchiveWrite, AckFail, Acking, AckPcs, TypeOK
  <2>2. /\ doc' = doc /\ \A q \in Procs : q # p => pc'[q] = pc[q] /\ ret'[q] = ret[q]
        /\ OthersKept(p)
    BY <1>0, <1>12, ArchiveOfOthers DEF ArchiveOpen, ArchiveWrite, AckFail, Goto, Return, TypeOK
  <2>3. \A q \in Acknowledgers : q \in Procs /\ doc[q] \in Incident \cup {None}
    BY <1>0, RolesAssumption DEF TypeOK
  <2>4. /\ pc'[p] \in AckPcs => pc'[p] # "ack_lookup"
        /\ ret'[p] # "acknowledged"
        /\ pc'[p] = "arch_write" => archive'[doc[p].id] = Incomplete(p)
        /\ pc'[p] \in {"arch_sync", "ack_unlink"} => Archived(doc[p].id)'
    BY <1>0, <1>12, <2>1 DEF ArchiveOpen, ArchiveWrite, AckFail, Goto, Return, TypeOK, AckPcs,
       ArchHolds, Archived, Complete
  <2>5. ArchDocs'
    BY <1>0, <1>12, <2>1 DEF ArchDocs, ArchiveOpen, ArchiveWrite, AckFail, Archived, Absent,
       Incomplete, Complete, TypeOK
  <2>6. Acking'
    BY <1>0, <2>1, <2>2, <2>4 DEF Acking
  <2>7. ASSUME NEW q \in Procs, q # p, q \in Acknowledgers, doc[q] # None
        PROVE  /\ Archived(doc[q].id) => Archived(doc[q].id)'
               /\ archive[doc[q].id] = Incomplete(q) => archive'[doc[q].id] = Incomplete(q)
    <3>1. doc[q].id \in Ids
      BY <1>0, <2>7 DEF TypeOK, Incident
    <3> QED
      BY <2>2, <2>7, <3>1 DEF OthersKept, Archived
  <2>8. \A q \in Procs : q # p /\ (pc[q] \in AckPcs \/ ret[q] = "acknowledged") =>
             q \in Acknowledgers /\ doc[q] # None
    BY <1>0 DEF Acking, Told, TypeOK, AckPcs
  <2>9. ArchHolds'
    BY <1>0, <2>2, <2>4, <2>7, <2>8 DEF ArchHolds, AckPcs, Incomplete, Archived
  <2>10. Told'
    BY <1>0, <2>2, <2>4, <2>7, <2>8 DEF Told, Archived
  <2> QED
    BY <2>5, <2>6, <2>9, <2>10
<1>13. CASE UNCHANGED vars
  BY <1>0, <1>13 DEF vars, Acking, ArchDocs, ArchHolds, Told, Archived
<1> HIDE DEF Goal
<1>14. ASSUME Next PROVE Goal
  BY <1>14, <1>1, <1>2, <1>3, <1>4, <1>5, <1>6, <1>7, <1>8, <1>9, <1>10, <1>11, <1>12, Zenon DEF Next
<1> QED
  BY <1>13, <1>14 DEF Goal

(* A successful acknowledge call leaves the acknowledged incident in the    *)
(* archive, whatever the others do: with a reliable archive or a single    *)
(* acknowledging process.                                                  *)
THEOREM AckIsArchived == SoleAcknowledger \/ ArchiveReliable => (Spec => []AckArchived)
<1> SUFFICES ASSUME SoleAcknowledger \/ ArchiveReliable PROVE Spec => []AckArchived
  OBVIOUS
<1>1. Init => ArchiveInv
  <2>1. Init => TypeOK
    BY AbsentIsFile DEF Init, TypeOK, Outcomes
  <2> QED
    BY <2>1 DEF Init, ArchiveInv, Acking, ArchDocs, ArchHolds, Told, Archived, Absent, AckPcs
<1>2. ArchiveInv /\ [Next]_vars => ArchiveInv'
  BY ArchiveStep
<1>3. ArchiveInv => AckArchived
  <2> SUFFICES ASSUME ArchiveInv, NEW p \in Procs, ret[p] = "acknowledged"
               PROVE  Archived(doc[p].id) /\ archive[doc[p].id].doc.status = "ACKNOWLEDGED"
    BY DEF AckArchived
  <2>1. doc[p].id \in Ids /\ Archived(doc[p].id)
    BY DEF ArchiveInv, TypeOK, Told, Incident
  <2> QED
    BY <2>1 DEF ArchiveInv, ArchDocs
<1> QED
  BY <1>1, <1>2, <1>3, PTL DEF Spec

-----------------------------------------------------------------------------
(* The retry of an interrupted acknowledgment.                             *)

(***************************************************************************)
(* The inductive invariant behind RetryCanComplete.  The identity of an    *)
(* incident that is not on disk yet is nobody else's; an archived incident *)
(* was recorded; an acknowledging call archives what the lock holds, and   *)
(* replaces the lock only of an incident that is not archived yet.  Again  *)
(* only the clean-up of a failed write (cleaned) can defeat the last two.  *)
(***************************************************************************)
(* A call that has taken no incident of its own. *)
Elsewhere == {"idle", "ack_lookup"}

Fresh ==
    \A p \in Procs : pc[p] \in {"rec_open", "rec_write"} =>
        /\ ~Archived(doc[p].id)
        /\ \A d \in Duts : ~Locks(doc[p].id, d)
        /\ \A q \in Procs : q # p /\ pc[q] \notin Elsewhere => doc[q].id # doc[p].id

Recorded == \A i \in Ids : Archived(i) => issued[i] # None

Persisted ==
    \A p \in Procs :
        /\ pc[p] \in {"arch_open", "arch_write", "arch_sync", "arch_compare", "ack_unlink"} =>
              active[doc[p].dut].doc = doc[p] \/ doc[p].dut \in cleaned
        /\ pc[p] = "ack_replace" => ~Archived(doc[p].id) \/ doc[p].dut \in cleaned

RetryInv == StoreInv /\ ArchiveInv /\ Fresh /\ Recorded /\ Persisted /\ RetryCanComplete

(* A step that writes neither file nor draws an identity, and of whose call *)
(* nothing but its place changes.                                          *)
LEMMA RetryQuiet ==
    ASSUME RetryInv, UNCHANGED <<active, archive, issued, cleaned>>, NEW p \in Procs,
           \A q \in Procs : q # p => pc'[q] = pc[q] /\ doc'[q] = doc[q],
           \/ pc'[p] \in Elsewhere
           \/ pc[p] \notin Elsewhere /\ pc'[p] \notin {"rec_open", "rec_write", "ack_replace"}
              /\ doc'[p] = doc[p]
              /\ (pc'[p] \in AckPcs => pc[p] \in {"arch_open", "arch_write", "arch_sync", "arch_compare"})
    PROVE  Fresh' /\ Recorded' /\ Persisted' /\ RetryCanComplete'
<1>0. TypeOK /\ Fresh /\ Recorded /\ Persisted /\ RetryCanComplete
  BY DEF RetryInv, StoreInv
<1>1. Recorded' /\ RetryCanComplete'
  BY <1>0 DEF Recorded, RetryCanComplete, Locks, Archived
<1>2. Fresh'
  BY <1>0 DEF Fresh, Elsewhere, Locks, Archived
<1>3. Persisted'
  BY <1>0 DEF Persisted, Archived, AckPcs, Elsewhere
<1> QED
  BY <1>1, <1>2, <1>3

(* Every step keeps what the retry relies on. *)
LEMMA RetryStep ==
    ASSUME SoleAcknowledger, RetryInv, [Next]_vars
    PROVE  Fresh' /\ Recorded' /\ Persisted' /\ RetryCanComplete'
<1> DEFINE Goal == Fresh' /\ Recorded' /\ Persisted' /\ RetryCanComplete'
<1>0. /\ TypeOK /\ TypeOK' /\ Identities /\ AckHolds /\ ArchHolds /\ RecHolds /\ Acking /\ ArchDocs
      /\ Fresh /\ Recorded /\ Persisted /\ RetryCanComplete
  BY TypeStep DEF RetryInv, StoreInv, ArchiveInv
<1>d. \A q \in Procs : pc[q] # "idle" =>
          /\ doc[q] \in Incident /\ doc[q] # None /\ doc[q].id \in Ids /\ doc[q].dut \in Duts
  BY <1>0, RunningDoc, NoneAssumption
<1>s. \A p, q \in Procs : pc[p] \in AckPcs /\ pc[q] \in AckPcs => p = q
  BY <1>0 DEF Acking, SoleAcknowledger
<1>1. ASSUME NEW p \in Procs, NEW d \in Duts, RecordRead(p, d) PROVE Goal
  <2>1. CASE pc' = [pc EXCEPT ![p] = "idle"] /\ UNCHANGED issued
    <3>1. /\ UNCHANGED <<active, archive, issued, cleaned>> /\ pc'[p] \in Elsewhere
          /\ \A q \in Procs : q # p => pc'[q] = pc[q] /\ doc'[q] = doc[q]
      BY <1>0, <1>1, <2>1 DEF RecordRead, Coalesce, TypeOK, Elsewhere
    <3> QED
      BY <3>1, RetryQuiet
  <2>2. ASSUME NEW i \in Ids, issued[i] = None, issued' = [issued EXCEPT ![i] = d],
               doc' = [doc EXCEPT ![p] = [id |-> i, dut |-> d, status |-> "OPEN",
                                          ack |-> None]],
               UNCHANGED <<active, archive, cleaned>>, Begin(p, "rec_open")
        PROVE  Goal
    <3>1. ~Archived(i) /\ \A e \in Duts : ~Locks(i, e)
      BY <1>0, <2>2, NoneAssumption DEF Recorded, Identities, Locks
    <3>2. \A q \in Procs : pc[q] \notin Elsewhere => doc[q].id # i
      BY <1>0, <1>d, <2>2, NoneAssumption DEF Identities, Elsewhere
    <3>3. /\ doc'[p].id = i /\ pc'[p] = "rec_open"
          /\ \A q \in Procs : q # p => pc'[q] = pc[q] /\ doc'[q] = doc[q]
      BY <1>0, <2>2 DEF Begin, TypeOK
    <3>4. Fresh'
      BY <1>0, <2>2, <3>1, <3>2, <3>3 DEF Fresh, Elsewhere, Locks, Archived
    <3>5. Recorded'
      BY <1>0, <2>2, NoneAssumption DEF Recorded, Archived, TypeOK
    <3>6. Persisted' /\ RetryCanComplete'
      BY <1>0, <2>2, <3>3 DEF Persisted, RetryCanComplete, Archived, Locks
    <3> QED
      BY <3>4, <3>5, <3>6
  <2> QED
    BY <1>1, <2>1, <2>2 DEF RecordRead, Return, Coalesce
<1>2. ASSUME NEW p \in Procs, RecordOpen(p) PROVE Goal
  <2>1. /\ UNCHANGED <<archive, doc, issued, cleaned>> /\ pc[p] = "rec_open"
        /\ pc'[p] \in {"rec_write", "rec_reread"}
        /\ \A q \in Procs : q # p => pc'[q] = pc[q]
        /\ \A e \in Duts : active'[e] = active[e] \/ (active[e].doc = None /\ active'[e].doc = None)
    BY <1>0, <1>d, <1>2 DEF RecordOpen, Goto, TypeOK, Absent, Incomplete
  <2>2. Fresh'
    BY <1>0, <2>1 DEF Fresh, Elsewhere, Locks, Archived
  <2>3. Recorded' /\ RetryCanComplete'
    BY <1>0, <2>1 DEF Recorded, RetryCanComplete, Locks, Archived
  <2>4. Persisted'
    BY <1>0, <1>d, <2>1 DEF Persisted, Archived
  <2> QED
    BY <2>2, <2>3, <2>4
<1>3. ASSUME NEW p \in Procs, RecordWrite(p) PROVE Goal
  <2>1. /\ UNCHANGED <<archive, doc, issued, cleaned>> /\ pc[p] = "rec_write"
        /\ pc'[p] = "rec_sync"
        /\ \A q \in Procs : q # p => pc'[q] = pc[q]
        /\ \A e \in Duts : active'[e] = active[e] \/ (active[e].doc = None /\ active'[e].doc = doc[p])
    BY <1>0, <1>d, <1>3 DEF RecordWrite, Goto, TypeOK, Complete, Incomplete
  <2>2. Fresh'
    BY <1>0, <1>d, <2>1 DEF Fresh, Elsewhere, Locks, Archived
  <2>3. Recorded' /\ RetryCanComplete'
    BY <1>0, <2>1 DEF Recorded, RetryCanComplete, Locks, Archived, Fresh
  <2>4. Persisted'
    BY <1>0, <1>d, <2>1 DEF Persisted, Archived
  <2> QED
    BY <2>2, <2>3, <2>4
<1>4. ASSUME NEW p \in Procs, RecordSync(p) PROVE Goal
  BY <1>0, <1>4, RetryQuiet DEF RecordSync, Return, TypeOK, Elsewhere
<1>5. ASSUME NEW p \in Procs, RecordFail(p) PROVE Goal
  <2>1. /\ UNCHANGED <<archive, doc, issued>> /\ pc'[p] = "idle" /\ cleaned \subseteq cleaned'
        /\ \A q \in Procs : q # p => pc'[q] = pc[q]
        /\ \A e \in Duts : \/ active'[e] = active[e]
                           \/ active'[e].doc = None /\ (active[e].doc = None \/ e \in cleaned')
    BY <1>0, <1>d, <1>5 DEF RecordFail, Return, TypeOK, Absent, Incomplete
  <2>2. Fresh'
    BY <1>0, <2>1 DEF Fresh, Elsewhere, Locks, Archived
  <2>3. Recorded' /\ RetryCanComplete'
    BY <1>0, <2>1 DEF Recorded, RetryCanComplete, Locks, Archived
  <2>4. Persisted'
    BY <1>0, <1>d, <2>1 DEF Persisted, Archived
  <2> QED
    BY <2>2, <2>3, <2>4
<1>6. ASSUME NEW p \in Procs, RecordReread(p) PROVE Goal
  BY <1>0, <1>6, RetryQuiet DEF RecordReread, Coalesce, Return, TypeOK, Elsewhere
<1>7. ASSUME NEW p \in Procs, NEW d \in Duts, NEW i \in Ids, NEW r \in Readbacks,
             AckRead(p, d, i, r)
      PROVE  Goal
  <2>1. /\ UNCHANGED <<active, archive, issued, cleaned>>
        /\ \A q \in Procs : q # p => pc'[q] = pc[q] /\ doc'[q] = doc[q]
    BY <1>0, <1>7 DEF AckRead, Begin, TypeOK
  <2>2. CASE pc'[p] = "ack_lookup"
    BY <2>1, <2>2, RetryQuiet DEF Elsewhere
  <2>3. ASSUME Locks(i, d), doc'[p].id = i, doc'[p].dut = d,
               \/ pc'[p] = "arch_open" /\ doc'[p] = active[d].doc
               \/ pc'[p] = "ack_replace" /\ active[d].doc.status = "OPEN"
        PROVE  Goal
    <3>1. Fresh'
      BY <1>0, <2>1, <2>3 DEF Fresh, Elsewhere, Locks, Archived
    <3>2. Recorded' /\ RetryCanComplete'
      BY <1>0, <2>1 DEF Recorded, RetryCanComplete, Locks, Archived
    <3>3. pc'[p] = "ack_replace" => ~Archived(i) \/ d \in cleaned
      BY <1>0, <2>3 DEF RetryCanComplete, ArchDocs
    <3>4. Persisted'
      BY <1>0, <2>1, <2>3, <3>3 DEF Persisted, Archived
    <3> QED
      BY <3>1, <3>2, <3>4
  <2> QED
    BY <1>0, <1>7, <2>2, <2>3 DEF AckRead, Begin, TypeOK, Locks, Acknowledged
<1>8. ASSUME NEW p \in Procs, NEW d \in Duts, NEW i \in Ids, NEW r \in Readbacks,
             AckReject(p, d, i, r)
      PROVE  Goal
  BY <1>0, <1>8, RetryQuiet DEF AckReject, Return, TypeOK, Elsewhere
<1>9. ASSUME NEW p \in Procs, AckLookup(p) PROVE Goal
  BY <1>0, <1>9, RetryQuiet DEF AckLookup, Return, TypeOK, Elsewhere
<1>10. ASSUME NEW p \in Procs, AckReplace(p) PROVE Goal
  <2>1. /\ UNCHANGED <<archive, doc, issued, cleaned>> /\ pc[p] = "ack_replace"
        /\ pc'[p] = "arch_open" /\ active'[doc[p].dut].doc = doc[p]
        /\ \A q \in Procs : q # p => pc'[q] = pc[q]
        /\ \A e \in Duts : e # doc[p].dut => active'[e] = active[e]
    BY <1>0, <1>d, <1>10 DEF AckReplace, Goto, TypeOK, Complete
  <2>2. Fresh'
    BY <1>0, <1>d, <2>1 DEF Fresh, Elsewhere, Locks, Archived
  <2>3. Recorded' /\ RetryCanComplete'
    BY <1>0, <2>1 DEF Recorded, RetryCanComplete, Locks, Archived, Persisted
  <2>4. Persisted'
    BY <1>0, <1>d, <1>s, <2>1 DEF Persisted, Archived, AckPcs
  <2> QED
    BY <2>2, <2>3, <2>4
<1>11. ASSUME NEW p \in Procs, ArchiveOpen(p) PROVE Goal
  <2>1. /\ UNCHANGED <<active, doc, issued, cleaned>> /\ pc[p] = "arch_open"
        /\ pc'[p] \in {"arch_write", "arch_compare"}
        /\ \A q \in Procs : q # p => pc'[q] = pc[q]
        /\ \A i \in Ids : archive'[i] = archive[i] \/ archive'[i].doc = None
    BY <1>0, <1>d, <1>11 DEF ArchiveOpen, Goto, TypeOK, Incomplete
  <2>2. Fresh'
    BY <1>0, <1>d, <2>1 DEF Fresh, Elsewhere, Locks, Archived
  <2>3. Recorded' /\ RetryCanComplete'
    BY <1>0, <2>1 DEF Recorded, RetryCanComplete, Locks, Archived
  <2>4. Persisted'
    BY <1>0, <1>d, <2>1 DEF Persisted, Archived
  <2> QED
    BY <2>2, <2>3, <2>4
<1>12. ASSUME NEW p \in Procs, ArchiveWrite(p) PROVE Goal
  <2>1. /\ UNCHANGED <<active, doc, issued, cleaned>> /\ pc[p] = "arch_write"
        /\ pc'[p] = "arch_sync"
        /\ \A q \in Procs : q # p => pc'[q] = pc[q]
        /\ \A i \in Ids : \/ archive'[i] = archive[i]
                          \/ i = doc[p].id /\ archive'[i].doc = doc[p]
    BY <1>0, <1>d, <1>12 DEF ArchiveWrite, Goto, TypeOK, Complete
  <2>2. Fresh'
    BY <1>0, <1>d, <2>1 DEF Fresh, Elsewhere, Locks, Archived
  <2>3. /\ issued[doc[p].id] = doc[p].dut /\ issued[doc[p].id] # None
        /\ active[doc[p].dut].doc = doc[p] \/ doc[p].dut \in cleaned
    BY <1>0, <1>d, <2>1, NoneAssumption DEF Identities, Persisted
  <2>4. Recorded'
    BY <1>0, <2>1, <2>3 DEF Recorded, Archived
  <2>5. \A d \in Duts : Locks(doc[p].id, d) => d = doc[p].dut
    BY <1>0, <2>3 DEF Identities, Locks
  <2>6. RetryCanComplete'
    BY <1>0, <2>1, <2>3, <2>5 DEF RetryCanComplete, Locks, Archived
  <2>7. Persisted'
    BY <1>0, <1>d, <1>s, <2>1 DEF Persisted, Archived, AckPcs
  <2> QED
    BY <2>2, <2>4, <2>6, <2>7
<1>13. ASSUME NEW p \in Procs, ArchiveSync(p) PROVE Goal
  BY <1>0, <1>13, RetryQuiet DEF ArchiveSync, Goto, TypeOK, Elsewhere
<1>14. ASSUME NEW p \in Procs, ArchiveCompare(p) PROVE Goal
  <2>1. /\ UNCHANGED <<active, archive, issued, cleaned, doc>> /\ pc[p] = "arch_compare"
        /\ pc'[p] \in {"idle", "ack_unlink"}
        /\ \A q \in Procs : q # p => pc'[q] = pc[q]
    BY <1>0, <1>14 DEF ArchiveCompare, Goto, Return, TypeOK
  <2> QED
    BY <2>1, RetryQuiet DEF Elsewhere
<1>15. ASSUME NEW p \in Procs, AckFail(p) PROVE Goal
  <2>1. /\ UNCHANGED <<active, doc, issued, cleaned>> /\ pc'[p] = "idle"
        /\ \A q \in Procs : q # p => pc'[q] = pc[q]
        /\ \A i \in Ids : archive'[i] = archive[i] \/ archive'[i].doc = None
    BY <1>0, <1>d, <1>15 DEF AckFail, Return, TypeOK, Absent
  <2>2. Fresh'
    BY <1>0, <1>d, <2>1 DEF Fresh, Elsewhere, Locks, Archived
  <2>3. Recorded' /\ RetryCanComplete'
    BY <1>0, <2>1 DEF Recorded, RetryCanComplete, Locks, Archived
  <2>4. Persisted'
    BY <1>0, <1>d, <2>1 DEF Persisted, Archived
  <2> QED
    BY <2>2, <2>3, <2>4
<1>16. ASSUME NEW p \in Procs, AckUnlink(p) PROVE Goal
  <2>1. /\ UNCHANGED <<archive, doc, issued, cleaned>> /\ pc[p] = "ack_unlink" /\ pc'[p] = "idle"
        /\ \A q \in Procs : q # p => pc'[q] = pc[q]
        /\ \A e \in Duts : active'[e] = active[e] \/ active'[e].doc = None
    BY <1>0, <1>d, <1>16 DEF AckUnlink, Return, TypeOK, Absent
  <2>2. Fresh'
    BY <1>0, <2>1 DEF Fresh, Elsewhere, Locks, Archived
  <2>3. Recorded' /\ RetryCanComplete'
    BY <1>0, <2>1 DEF Recorded, RetryCanComplete, Locks, Archived
  <2>4. Persisted'
    BY <1>0, <1>s, <2>1 DEF Persisted, Archived, AckPcs
  <2> QED
    BY <2>2, <2>3, <2>4
<1>17. ASSUME NEW p \in Procs, Crash(p) PROVE Goal
  BY <1>0, <1>17, RetryQuiet DEF Crash, TypeOK, Elsewhere
<1>18. CASE UNCHANGED vars
  BY <1>0, <1>18 DEF vars, Fresh, Recorded, Persisted, RetryCanComplete, Locks, Archived
<1> HIDE DEF Goal
<1>19. ASSUME Next PROVE Goal
  BY <1>19, <1>1, <1>2, <1>3, <1>4, <1>5, <1>6, <1>7, <1>8, <1>9, <1>10, <1>11, <1>12, <1>13,
     <1>14, <1>15, <1>16, <1>17, Zenon DEF Next
<1> QED
  BY <1>18, <1>19 DEF Goal

(* While one process acknowledges at a time an interrupted acknowledgment   *)
(* can be completed: an incident that is locked and archived is the same   *)
(* document in both, so the retry never meets an archive collision.        *)
THEOREM RetryCompletes == SoleAcknowledger => (Spec => []RetryCanComplete)
<1> SUFFICES ASSUME SoleAcknowledger PROVE Spec => []RetryCanComplete
  OBVIOUS
<1>1. Init => RetryInv
  <2>1. Init => TypeOK
    BY AbsentIsFile DEF Init, TypeOK, Outcomes
  <2>2. Init => StoreInv /\ ArchiveInv
    BY <2>1 DEF Init, StoreInv, Identities, AckHolds, ArchHolds, RecHolds, LockNotLost,
       ArchiveInv, Acking, ArchDocs, Told, Archived, Absent, AckPcs
  <2> QED
    BY <2>2 DEF Init, RetryInv, Fresh, Recorded, Persisted, RetryCanComplete, Locks, Archived,
       Absent
<1>2. RetryInv /\ [Next]_vars => RetryInv'
  <2> SUFFICES ASSUME RetryInv, [Next]_vars PROVE RetryInv'
    OBVIOUS
  <2>1. StoreInv'
    BY TypeStep, IdentitiesStep, AckHoldsStep, ArchHoldsStep, RecHoldsStep, LockStep
       DEF RetryInv, StoreInv
  <2>2. ArchiveInv'
    BY ArchiveStep DEF RetryInv
  <2> QED
    BY <2>1, <2>2, RetryStep DEF RetryInv
<1>3. RetryInv => RetryCanComplete
  BY DEF RetryInv
<1> QED
  BY <1>1, <1>2, <1>3, PTL DEF Spec

-----------------------------------------------------------------------------
(***************************************************************************)
(* The store implements IncidentLock.  Each step of a call is seen by the  *)
(* abstract lock as a step of the one DUT it is about.                     *)
(***************************************************************************)

LockedDuts == {d \in Duts : active[d] # Absent}
DoubtDuts == {d \in Duts : InDoubt(d)}

(* A step about d leaves the doubt about every other DUT as it is.         *)
LEMMA OtherDoubt ==
    ASSUME NEW d \in Duts, NEW e \in Duts, e # d,
           returned \subseteq Ids, returned' \subseteq Ids,
           issued' = issued, active'[e] = active[e],
           \A i \in Ids : issued[i] # d => archive'[i] = archive[i],
           \A i \in Ids : issued[i] # d => (i \in returned' <=> i \in returned),
           e \in cleaned' <=> e \in cleaned
    PROVE  InDoubt(e)' <=> InDoubt(e)
  <1>1. \A i \in Ids : issued[i] = e =>
            (Settled(i, e)' <=> Settled(i, e)) /\ (i \in returned' <=> i \in returned)
    BY DEF Settled, Archived, Locks
  <1> QED
    BY <1>1 DEF InDoubt

(* A DUT without a lock is not in doubt: whoever relied on it was told.    *)
LEMMA DoubtIsHeld ==
    ASSUME StoreInv, NEW d \in Duts, InDoubt(d)
    PROVE  /\ d \in LockedDuts /\ d \notin cleaned
           /\ \A i \in returned : issued[i] = d => Locks(i, d) \/ Settled(i, d)
  <1>1. LockNotLost /\ d \notin cleaned
    BY DEF StoreInv, InDoubt
  <1>2. \A i \in returned : issued[i] = d => Locks(i, d) \/ Settled(i, d)
    BY <1>1 DEF LockNotLost, Held, Settled
  <1>3. PICK i \in returned : issued[i] = d /\ ~Settled(i, d)
    BY DEF InDoubt
  <1>4. active[d] # Absent
    BY <1>2, <1>3 DEF Locks, Absent
  <1> QED
    BY <1>1, <1>2, <1>4 DEF LockedDuts

(* A call of record_uncertain returns an incident of d that locks d or is  *)
(* settled already, or d was cleaned.                                      *)
LEMMA ReturnedIsReport ==
    ASSUME StoreInv, NEW d \in Duts, NEW i \in Ids, issued[i] = d, Held(i, d),
           returned' = returned \cup {i}, UNCHANGED <<active, archive, issued, cleaned>>
    PROVE  Store!Report(d) \/ UNCHANGED <<LockedDuts, DoubtDuts, cleaned>>
  <1>0. returned \subseteq Ids /\ returned' \subseteq Ids
    BY DEF StoreInv, TypeOK
  <1>1. \A e \in Duts : e # d => (InDoubt(e)' <=> InDoubt(e))
    BY <1>0, OtherDoubt
  <1>2. LockedDuts' = LockedDuts
    BY DEF LockedDuts
  <1>3. \A j \in Ids : Settled(j, d)' <=> Settled(j, d)
    BY DEF Settled, Archived, Locks
  <1>4. CASE d \in cleaned \/ Settled(i, d)
    <2>1. InDoubt(d)' <=> InDoubt(d)
      BY <1>0, <1>3, <1>4 DEF InDoubt
    <2>2. DoubtDuts' = DoubtDuts
      BY <1>1, <2>1 DEF DoubtDuts
    <2> QED
      BY <1>2, <2>2
  <1>5. CASE d \notin cleaned /\ ~Settled(i, d)
    <2>1. Locks(i, d)
      BY <1>5 DEF Held, Settled
    <2>2. d \in LockedDuts
      BY <2>1 DEF Locks, Absent, LockedDuts
    <2>3. InDoubt(d)'
      BY <1>3, <1>5 DEF InDoubt
    <2>4. DoubtDuts' = DoubtDuts \cup {d}
      BY <1>1, <2>3 DEF DoubtDuts
    <2> QED
      BY <1>2, <1>5, <2>2, <2>4 DEF Store!Report, LockedDuts, DoubtDuts
  <1> QED
    BY <1>4, <1>5

(* A step that touches the lock of d only.                                 *)
LEMMA OneLock ==
    ASSUME TypeOK, NEW d \in Duts, NEW f, active' = [active EXCEPT ![d] = f],
           UNCHANGED <<archive, issued, returned>>,
           \A e \in Duts : e # d => (e \in cleaned' <=> e \in cleaned)
    PROVE  /\ LockedDuts' = IF f = Absent THEN LockedDuts \ {d} ELSE LockedDuts \cup {d}
           /\ \A e \in Duts : e # d => (InDoubt(e)' <=> InDoubt(e))
           /\ active'[d] = f
  <1>1. active'[d] = f /\ \A e \in Duts : e # d => active'[e] = active[e]
    BY DEF TypeOK
  <1>2. returned \subseteq Ids /\ returned' \subseteq Ids
    BY DEF TypeOK
  <1>3. \A e \in Duts : e # d => (InDoubt(e)' <=> InDoubt(e))
    BY <1>1, <1>2, OtherDoubt
  <1> QED
    BY <1>1, <1>3 DEF LockedDuts

(* The archive of an incident that still locks its DUT, or whose DUT was   *)
(* cleaned, does not matter yet.                                           *)
LEMMA ArchiveDoesNotMatter ==
    ASSUME TypeOK, NEW d \in Duts, NEW i \in Ids, issued[i] = d,
           Locks(i, d) \/ d \in cleaned,
           \A j \in Ids : j # i => archive'[j] = archive[j],
           UNCHANGED <<active, issued, returned, cleaned>>
    PROVE  UNCHANGED <<LockedDuts, DoubtDuts, cleaned>>
  <1>1. returned \subseteq Ids /\ returned' \subseteq Ids
    BY DEF TypeOK
  <1>2. \A e \in Duts : e # d => (InDoubt(e)' <=> InDoubt(e))
    BY <1>1, OtherDoubt
  <1>3. d \notin cleaned => \A j \in Ids : Settled(j, d)' <=> Settled(j, d)
    BY DEF Settled, Archived, Locks
  <1>4. InDoubt(d)' <=> InDoubt(d)
    BY <1>1, <1>3 DEF InDoubt
  <1>5. DoubtDuts' = DoubtDuts
    BY <1>2, <1>4 DEF DoubtDuts
  <1> QED
    BY <1>5 DEF LockedDuts

(* Every step of every call is a step of the lock, or none.                *)
LEMMA StoreStep ==
    ASSUME StoreInv, [Next]_vars
    PROVE  [Store!LockNext]_(Store!lockVars)
  <1> DEFINE Seen == [Store!LockNext]_(Store!lockVars)
  <1>0. /\ TypeOK /\ Identities /\ AckHolds /\ ArchHolds /\ RecHolds /\ LockNotLost
        /\ returned \subseteq Ids
    BY DEF StoreInv, TypeOK
  <1>1. UNCHANGED <<LockedDuts, DoubtDuts, cleaned>> => Seen
    BY DEF LockedDuts, DoubtDuts, Store!lockVars
  <1>2. ASSUME NEW d \in Duts,
               \/ Store!Lock(d) \/ Store!Report(d) \/ Store!Acknowledge(d)
               \/ Store!Withdraw(d) \/ Store!Raise(d)
        PROVE  Seen
    BY <1>2 DEF Store!LockNext
  <1> HIDE DEF Seen
  <1>3. ASSUME UNCHANGED <<active, archive, issued, returned, cleaned>> PROVE Seen
    <2>1. UNCHANGED <<LockedDuts, DoubtDuts, cleaned>>
      BY <1>3 DEF LockedDuts, DoubtDuts, InDoubt, Settled, Archived, Locks
    <2> QED
      BY <1>1, <2>1
  <1>4. ASSUME NEW p \in Procs, NEW d \in Duts, active[d].doc # None,
               Coalesce(p, active[d].doc), UNCHANGED <<active, archive, issued, cleaned>>
        PROVE  Seen
    <2>1. active[d].doc \in Incident
      BY <1>0, <1>4 DEF TypeOK, File
    <2>2. active[d].doc.id \in Ids /\ issued[active[d].doc.id] = d
      BY <1>0, <1>4, <2>1 DEF Identities, Incident
    <2>3. Held(active[d].doc.id, d)
      BY <1>4 DEF Held, Locks
    <2>4. Store!Report(d) \/ UNCHANGED <<LockedDuts, DoubtDuts, cleaned>>
      BY <1>4, <2>2, <2>3, ReturnedIsReport DEF Coalesce
    <2> QED
      BY <1>1, <1>2, <2>4
  <1>5. ASSUME NEW p \in Procs, NEW d \in Duts, RecordRead(p, d) PROVE Seen
    <2>1. CASE active[d].doc # None /\ Coalesce(p, active[d].doc) /\ UNCHANGED issued
      BY <1>4, <1>5, <2>1 DEF RecordRead
    <2>2. CASE UNCHANGED <<issued, returned>>
      BY <1>3, <1>5, <2>2 DEF RecordRead
    <2>3. CASE UNCHANGED returned /\
               \E i \in Ids : issued[i] = None /\ issued' = [issued EXCEPT ![i] = d]
      <3>1. \A j \in returned : issued'[j] = issued[j]
        BY <1>0, <2>3 DEF TypeOK, Identities
      <3>2. UNCHANGED <<active, archive, returned, cleaned>>
        BY <1>5, <2>3 DEF RecordRead
      <3>3. \A e \in Duts : InDoubt(e)' <=> InDoubt(e)
        BY <3>1, <3>2 DEF InDoubt, Settled, Archived, Locks
      <3>4. UNCHANGED <<LockedDuts, DoubtDuts, cleaned>>
        BY <3>2, <3>3 DEF LockedDuts, DoubtDuts
      <3> QED
        BY <1>1, <3>4
    <2> QED
      BY <1>5, <2>1, <2>2, <2>3 DEF RecordRead
  <1>6. ASSUME NEW p \in Procs, RecordOpen(p) PROVE Seen
    <2>1. CASE UNCHANGED active
      BY <1>3, <1>6, <2>1 DEF RecordOpen
    <2>2. CASE active[doc[p].dut] = Absent
               /\ active' = [active EXCEPT ![doc[p].dut] = Incomplete(p)]
      <3>0. PICK d \in Duts : d = doc[p].dut
        BY <1>0, <1>6, RunningDoc DEF RecordOpen
      <3>1. UNCHANGED <<archive, issued, returned, cleaned>>
        BY <1>6 DEF RecordOpen
      <3>2. Incomplete(p) # Absent
        BY NoneAssumption DEF Incomplete, Absent
      <3>3. /\ LockedDuts' = LockedDuts \cup {d}
            /\ \A e \in Duts : e # d => (InDoubt(e)' <=> InDoubt(e))
            /\ active'[d] = Incomplete(p) /\ active[d] = Absent
        BY <1>0, <2>2, <3>0, <3>1, <3>2, OneLock
      <3>4. InDoubt(d)' <=> InDoubt(d)
        BY <1>0, <3>1, <3>3 DEF InDoubt, Settled, Archived, Locks, Absent, Incomplete
      <3>5. DoubtDuts' = DoubtDuts
        BY <3>3, <3>4 DEF DoubtDuts
      <3>6. Store!Lock(d)
        BY <3>1, <3>3, <3>5 DEF Store!Lock, LockedDuts, DoubtDuts
      <3> QED
        BY <1>2, <3>1, <3>6
    <2> QED
      BY <1>6, <2>1, <2>2 DEF RecordOpen
  <1>7. ASSUME NEW p \in Procs, RecordWrite(p) PROVE Seen
    <2>1. doc[p] \in Incident /\ UNCHANGED <<archive, issued, returned, cleaned>>
      BY <1>0, <1>7, RunningDoc DEF RecordWrite
    <2>0. PICK d \in Duts : d = doc[p].dut
      BY <2>1 DEF Incident
    <2>2. CASE UNCHANGED active
      BY <1>3, <2>1, <2>2
    <2>3. CASE active[d] = Incomplete(p) /\ active' = [active EXCEPT ![d] = Complete(doc[p])]
      <3>1. Complete(doc[p]) # Absent /\ Incomplete(p) # Absent
        BY <2>1, NoneAssumption DEF Incomplete, Complete, Absent
      <3>2. /\ LockedDuts' = LockedDuts \cup {d}
            /\ \A e \in Duts : e # d => (InDoubt(e)' <=> InDoubt(e))
            /\ active'[d] = Complete(doc[p])
        BY <1>0, <2>1, <2>3, <3>1, OneLock
      <3>3. d \in LockedDuts /\ LockedDuts' = LockedDuts
        BY <2>1, <2>3, <3>1, <3>2 DEF LockedDuts
      <3>4. CASE InDoubt(d)' <=> InDoubt(d)
        <4>1. DoubtDuts' = DoubtDuts
          BY <3>2, <3>4 DEF DoubtDuts
        <4> QED
          BY <1>1, <2>1, <3>3, <4>1
      <3>5. CASE InDoubt(d)' /\ ~InDoubt(d)
        <4>1. DoubtDuts' = DoubtDuts \cup {d} /\ d \notin cleaned
          BY <2>1, <3>2, <3>5 DEF DoubtDuts, InDoubt
        <4>2. Store!Report(d)
          BY <2>1, <3>3, <4>1 DEF Store!Report, LockedDuts, DoubtDuts
        <4> QED
          BY <1>2, <2>1, <4>2
      <3>6. CASE InDoubt(d)
        <4>1. PICK i \in returned : issued[i] = d /\ ~Settled(i, d)
          BY <3>6 DEF InDoubt
        <4>2. Locks(i, d)
          BY <1>0, <3>6, <4>1, <2>1, DoubtIsHeld
        <4> QED
          BY <2>3, <4>2 DEF Locks, Incomplete
      <3> QED
        BY <3>4, <3>5, <3>6
    <2> QED
      BY <1>7, <2>0, <2>2, <2>3 DEF RecordWrite
  <1>8. ASSUME NEW p \in Procs, RecordSync(p) PROVE Seen
    <2>1. /\ doc[p].id \in Ids /\ doc[p].dut \in Duts /\ issued[doc[p].id] = doc[p].dut
          /\ Held(doc[p].id, doc[p].dut)
      BY <1>0, <1>8, RunningDoc DEF RecordSync, RecHolds, Identities
    <2>2. returned' = returned \cup {doc[p].id} /\ UNCHANGED <<active, archive, issued, cleaned>>
      BY <1>8 DEF RecordSync
    <2>3. Store!Report(doc[p].dut) \/ UNCHANGED <<LockedDuts, DoubtDuts, cleaned>>
      BY <2>1, <2>2, ReturnedIsReport
    <2> QED
      BY <1>1, <1>2, <2>1, <2>3
  <1>9. ASSUME NEW p \in Procs, RecordFail(p) PROVE Seen
    <2>0. PICK d \in Duts : d = doc[p].dut
      BY <1>0, <1>9, RunningDoc DEF RecordFail
    <2>1. UNCHANGED <<archive, issued, returned>>
      BY <1>9 DEF RecordFail
    <2>2. CASE UNCHANGED <<active, cleaned>>
      BY <1>3, <2>1, <2>2
    <2>3. CASE active' = [active EXCEPT ![d] = Absent] /\ cleaned' = cleaned \cup {d}
      <3>1. /\ LockedDuts' = LockedDuts \ {d}
            /\ \A e \in Duts : e # d => (InDoubt(e)' <=> InDoubt(e))
        BY <1>0, <2>1, <2>3, OneLock
      <3>2. ~InDoubt(d)'
        BY <2>3 DEF InDoubt
      <3>3. DoubtDuts' = DoubtDuts \ {d}
        BY <3>1, <3>2 DEF DoubtDuts
      <3>4. Store!Raise(d)
        BY <2>3, <3>1, <3>3 DEF Store!Raise, LockedDuts, DoubtDuts
      <3> QED
        BY <1>2, <2>1, <3>4
    <2>4. CASE active' = [active EXCEPT ![d] = Absent] /\ cleaned' = cleaned
               /\ active[d] \in {Absent, Incomplete(p)}
      <3>1. /\ LockedDuts' = LockedDuts \ {d}
            /\ \A e \in Duts : e # d => (InDoubt(e)' <=> InDoubt(e))
            /\ active'[d] = Absent
        BY <1>0, <2>1, <2>4, OneLock
      <3>2. \A i \in Ids : ~Locks(i, d) /\ ~Locks(i, d)'
        BY <2>4, <3>1 DEF Locks, Absent, Incomplete
      <3>3. ~InDoubt(d)
        BY <1>0, <2>1, <3>2, DoubtIsHeld DEF InDoubt
      <3>4. ~InDoubt(d)'
        BY <1>0, <2>1, <2>4, <3>2, <3>3 DEF InDoubt, Settled, Archived
      <3>5. DoubtDuts' = DoubtDuts
        BY <3>1, <3>3, <3>4 DEF DoubtDuts
      <3>6. Store!Withdraw(d)
        BY <2>4, <3>1, <3>3, <3>5 DEF Store!Withdraw, LockedDuts, DoubtDuts
      <3> QED
        BY <1>2, <2>1, <3>6
    <2> QED
      BY <1>9, <2>0, <2>2, <2>3, <2>4 DEF RecordFail
  <1>10. ASSUME NEW p \in Procs, RecordReread(p) PROVE Seen
    <2>0. PICK d \in Duts : d = doc[p].dut
      BY <1>0, <1>10, RunningDoc DEF RecordReread
    <2>1. UNCHANGED <<active, archive, issued, cleaned>>
      BY <1>10 DEF RecordReread
    <2>2. CASE active[d].doc # None /\ Coalesce(p, active[d].doc)
      BY <1>4, <2>1, <2>2
    <2>3. CASE UNCHANGED returned
      BY <1>3, <2>1, <2>3
    <2> QED
      BY <1>10, <2>0, <2>2, <2>3 DEF RecordReread
  <1>11. ASSUME NEW p \in Procs, AckReplace(p) PROVE Seen
    <2>0. PICK d \in Duts : d = doc[p].dut
      BY <1>0, <1>11, RunningDoc DEF AckReplace
    <2>1. /\ doc[p] \in Incident
          /\ active' = [active EXCEPT ![d] = Complete(doc[p])]
          /\ UNCHANGED <<archive, issued, returned, cleaned>>
      BY <1>0, <1>11, <2>0, RunningDoc DEF AckReplace
    <2>2. Locks(doc[p].id, d) \/ d \in cleaned
      BY <1>0, <1>11, <2>0 DEF AckReplace, AckHolds, AckPcs
    <2>3. Complete(doc[p]) # Absent
      BY <2>1, NoneAssumption DEF Complete, Absent
    <2>4. /\ LockedDuts' = LockedDuts \cup {d}
          /\ \A e \in Duts : e # d => (InDoubt(e)' <=> InDoubt(e))
          /\ active'[d] = Complete(doc[p])
      BY <1>0, <2>1, <2>3, OneLock
    <2>5. InDoubt(d)' <=> InDoubt(d)
      <3>1. CASE d \in cleaned
        BY <2>1, <3>1 DEF InDoubt
      <3>2. CASE Locks(doc[p].id, d)
        <4>1. \A i \in Ids : Locks(i, d)' <=> Locks(i, d)
          BY <2>1, <2>4, <3>2, NoneAssumption DEF Locks, Complete
        <4> QED
          BY <1>0, <2>1, <4>1 DEF InDoubt, Settled, Archived
      <3> QED
        BY <2>2, <3>1, <3>2
    <2>6. DoubtDuts' = DoubtDuts
      BY <2>4, <2>5 DEF DoubtDuts
    <2>7. Store!Lock(d)
      BY <2>1, <2>4, <2>6 DEF Store!Lock, LockedDuts, DoubtDuts
    <2> QED
      BY <1>2, <2>1, <2>7
  <1>12. ASSUME NEW p \in Procs, ArchiveOpen(p) PROVE Seen
    <2>1. UNCHANGED <<active, issued, returned, cleaned>>
      BY <1>12 DEF ArchiveOpen
    <2>2. \A i \in Ids : Archived(i)' <=> Archived(i)
      BY <1>0, <1>12 DEF ArchiveOpen, Archived, Absent, Incomplete, TypeOK
    <2>3. UNCHANGED <<LockedDuts, DoubtDuts, cleaned>>
      BY <1>0, <2>1, <2>2 DEF LockedDuts, DoubtDuts, InDoubt, Settled, Locks
    <2> QED
      BY <1>1, <2>3
  <1>13. ASSUME NEW p \in Procs, ArchiveWrite(p) \/ AckFail(p) PROVE Seen
    <2>1. /\ doc[p].id \in Ids /\ doc[p].dut \in Duts
          /\ UNCHANGED <<active, issued, returned, cleaned>>
      BY <1>0, <1>13, RunningDoc DEF ArchiveWrite, AckFail
    <2>2. issued[doc[p].id] = doc[p].dut
          /\ (Locks(doc[p].id, doc[p].dut) \/ doc[p].dut \in cleaned)
      BY <1>0, <1>13 DEF ArchiveWrite, AckFail, AckHolds, AckPcs, Identities
    <2>3. \A j \in Ids : j # doc[p].id => archive'[j] = archive[j]
      BY <1>0, <1>13 DEF ArchiveWrite, AckFail, TypeOK
    <2>4. UNCHANGED <<LockedDuts, DoubtDuts, cleaned>>
      BY <1>0, <2>1, <2>2, <2>3, ArchiveDoesNotMatter
    <2> QED
      BY <1>1, <2>4
  <1>14. ASSUME NEW p \in Procs, AckUnlink(p) PROVE Seen
    <2>0. PICK d \in Duts, i \in Ids : d = doc[p].dut /\ i = doc[p].id
      BY <1>0, <1>14, RunningDoc DEF AckUnlink
    <2>1. /\ active' = [active EXCEPT ![d] = Absent]
          /\ UNCHANGED <<archive, issued, returned, cleaned>>
      BY <1>14, <2>0 DEF AckUnlink
    <2>2. (Locks(i, d) \/ d \in cleaned) /\ Archived(i)
      BY <1>0, <1>14, <2>0 DEF AckUnlink, AckHolds, AckPcs, ArchHolds
    <2>3. /\ LockedDuts' = LockedDuts \ {d}
          /\ \A e \in Duts : e # d => (InDoubt(e)' <=> InDoubt(e))
          /\ active'[d] = Absent
      BY <1>0, <2>1, OneLock
    <2>4. CASE d \in cleaned
      <3>1. ~InDoubt(d) /\ ~InDoubt(d)'
        BY <2>1, <2>4 DEF InDoubt
      <3>2. DoubtDuts' = DoubtDuts
        BY <2>3, <3>1 DEF DoubtDuts
      <3>3. Store!Withdraw(d)
        BY <2>1, <2>3, <3>1, <3>2 DEF Store!Withdraw, LockedDuts, DoubtDuts
      <3> QED
        BY <1>2, <2>1, <3>3
    <2>5. CASE Locks(i, d) /\ d \notin cleaned
      <3>1. \A j \in returned : issued[j] = d => Archived(j)
        BY <1>0, <2>2, <2>5 DEF LockNotLost, Held, Locks
      <3>2. \A j \in Ids : ~Locks(j, d)'
        BY <2>3 DEF Locks, Absent
      <3>3. ~InDoubt(d)'
        BY <1>0, <2>1, <3>1, <3>2 DEF InDoubt, Settled, Archived
      <3>4. DoubtDuts' = DoubtDuts \ {d}
        BY <2>3, <3>3 DEF DoubtDuts
      <3>5. d \in LockedDuts
        BY <2>1, <2>5 DEF Locks, Absent, LockedDuts
      <3>6. Store!Acknowledge(d)
        BY <2>1, <2>3, <3>4, <3>5 DEF Store!Acknowledge, LockedDuts, DoubtDuts
      <3> QED
        BY <1>2, <2>1, <3>6
    <2> QED
      BY <2>2, <2>4, <2>5
  <1>15. ASSUME NEW p \in Procs,
                \/ \E d \in Duts, i \in Ids, r \in Readbacks :
                      AckRead(p, d, i, r) \/ AckReject(p, d, i, r)
                \/ AckLookup(p) \/ ArchiveSync(p) \/ ArchiveCompare(p) \/ Crash(p)
         PROVE  Seen
    BY <1>3, <1>15 DEF AckRead, AckReject, AckLookup, ArchiveSync, ArchiveCompare, Crash
  <1>16. ASSUME UNCHANGED vars PROVE Seen
    BY <1>3, <1>16 DEF vars
  <1>17. ASSUME Next PROVE Seen
    BY <1>17, <1>5, <1>6, <1>7, <1>8, <1>9, <1>10, <1>11, <1>12, <1>13, <1>14, <1>15, Zenon
       DEF Next
  <1>18. Seen
    BY <1>16, <1>17
  <1> QED
    BY <1>18, Zenon DEF Seen

(* With one acknowledging process the directory of safety_incidents.py,    *)
(* with its O_EXCL files, renames, archives, unlinks and clean-ups, is the *)
(* lock that client.py takes it for: whatever is killed or fails, a DUT    *)
(* with a reported incident stays locked up to the step that settles the   *)
(* incident, unless an error has said otherwise.                           *)
THEOREM StoreImplementsLock == SoleAcknowledger => (Spec => StoreIsLock)
  <1> SUFFICES ASSUME SoleAcknowledger PROVE Spec => StoreIsLock
    OBVIOUS
  <1>1. Init => Store!LockInit
    BY DEF Init, Store!LockInit, InDoubt
  <1>2. StoreInv /\ [Next]_vars => [Store!LockNext]_(Store!lockVars)
    BY StoreStep
  <1>3. Spec => []StoreInv
    BY StoreInvariant
  <1> QED
    BY <1>1, <1>2, <1>3, PTL DEF Spec, StoreIsLock, Store!LockSpec

(***************************************************************************)
(* What the promise of IncidentLock is worth, and so what the files of     *)
(* safety_incidents.py give: a DUT with an unsettled incident is refused   *)
(* by assert_clear, in every state in which a process can be killed.       *)
(***************************************************************************)
THEOREM StoreProtects == SoleAcknowledger => (Spec => []Store!Protected)
  <1>1. Store!LockInit => Store!Protected
    BY DEF Store!LockInit, Store!Protected
  <1>2. Store!Protected /\ [Store!LockNext]_(Store!lockVars) => Store!Protected'
    BY DEF Store!Protected, Store!LockNext, Store!lockVars, Store!Lock, Store!Report,
       Store!Acknowledge, Store!Withdraw, Store!Raise
  <1>3. Store!LockSpec => []Store!Protected
    BY <1>1, <1>2, PTL DEF Store!LockSpec
  <1> QED
    BY <1>3, StoreImplementsLock DEF StoreIsLock

=============================================================================
