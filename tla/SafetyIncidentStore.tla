------------------------ MODULE SafetyIncidentStore ------------------------
(***************************************************************************)
(* The file-backed lock that blocks LAB control after a command whose      *)
(* effect on the outstation is unknown                                     *)
(* (python/src/dnp3_master/safety_incidents.py).                           *)
(*                                                                         *)
(* One directory is shared by every Python process of the machine.  It     *)
(* holds active/<hash of the DUT>.json, whose presence locks the DUT, and  *)
(* archive/<incident id>.json.  There is no lock around the directory: a   *)
(* call is a sequence of system calls, and the calls of several processes  *)
(* interleave at each of them.  A process may be killed between any two.   *)
(*                                                                         *)
(* A document is abstracted to its identity, its DUT, its status and its   *)
(* acknowledgment (the operator's data and the time stamp).                *)
(***************************************************************************)
EXTENDS Naturals, FiniteSets

CONSTANTS
    Procs,          \* Python processes that share the directory
    Acknowledgers,  \* those from which an operator may call acknowledge
    Duts,           \* device identities (each with its own active path)
    Ids,            \* incident identities a uuid4 may yield
    Readbacks,      \* what an operator may supply: name, summary, readback
    Times,          \* time stamps of an acknowledgment
    Faults,         \* system calls that may fail with an OSError
    None            \* no document, no writer, no DUT

Acknowledgment == [data : Readbacks, at : Times]
Incident == [id : Ids, dut : Duts, status : {"OPEN", "ACKNOWLEDGED"},
             ack : Acknowledgment \cup {None}]

ASSUME RolesAssumption == Acknowledgers \subseteq Procs
ASSUME NoneAssumption == None \notin Procs \cup Duts \cup Acknowledgment \cup Incident
ASSUME FaultsAssumption ==
    Faults \subseteq {"open", "write", "sync", "replace", "unlink"}

(***************************************************************************)
(* What a path holds: nothing, a file its creator has not written yet (or  *)
(* never will, when the creator died), or a complete document.  The writer *)
(* of an incomplete file identifies the inode: bytes written after another *)
(* process has removed the path go to a file nobody can open.              *)
(***************************************************************************)
File == [writer : Procs \cup {None}, doc : Incident \cup {None}]
Absent == [writer |-> None, doc |-> None]
Incomplete(p) == [writer |-> p, doc |-> None]
Complete(x) == [writer |-> None, doc |-> x]

VARIABLES
    active,     \* active[d]: the file that locks d
    archive,    \* archive[i]: the archived incident i
    pc,         \* the next system call of each process
    doc,        \* the document the running call writes (or has returned)
    ret,        \* how the process's last call ended
    issued,     \* issued[i]: the DUT uuid4 has yielded identity i for
    returned,   \* history: incidents some record_uncertain call has returned,
                \* whose caller relies on the DUT being locked
    cleaned     \* history: the DUTs whose active path was removed, by the clean-up
                \* of a failed write, while it held more than the
                \* file that write had created

vars == <<active, archive, pc, doc, ret, issued, returned, cleaned>>

RecordPcs == {"rec_open", "rec_write", "rec_sync", "rec_reread"}
AckPcs == {"ack_lookup", "ack_replace", "arch_open", "arch_write", "arch_sync",
           "arch_compare", "ack_unlink"}
(* The system call a process is about to make at a label of its call; the   *)
(* private temporary file of _replace_document counts with its rename.     *)
SysCall == [rec_open |-> "open", rec_write |-> "write", rec_sync |-> "sync",
            arch_open |-> "open", arch_write |-> "write", arch_sync |-> "sync",
            ack_replace |-> "replace", ack_unlink |-> "unlink"]

Outcomes == {"none", "created", "coalesced", "acknowledged", "rejected",
             "unresolved", "persistence"}

Init ==
    /\ active = [d \in Duts |-> Absent]
    /\ archive = [i \in Ids |-> Absent]
    /\ pc = [p \in Procs |-> "idle"]
    /\ doc = [p \in Procs |-> None]
    /\ ret = [p \in Procs |-> "none"]
    /\ issued = [i \in Ids |-> None]
    /\ returned = {}
    /\ cleaned = {}

-----------------------------------------------------------------------------
(* Ways in which a step of a call ends.                                    *)

Goto(p, label) ==
    /\ pc' = [pc EXCEPT ![p] = label]
    /\ UNCHANGED ret

Return(p, outcome) ==
    /\ pc' = [pc EXCEPT ![p] = "idle"]
    /\ ret' = [ret EXCEPT ![p] = outcome]

(* A call that starts forgets the outcome of the one before it. *)
Begin(p, label) ==
    /\ pc' = [pc EXCEPT ![p] = label]
    /\ ret' = [ret EXCEPT ![p] = "none"]

(* A record_uncertain call of p returns the incident x it found. *)
Coalesce(p, x) ==
    /\ Return(p, "coalesced")
    /\ doc' = [doc EXCEPT ![p] = x]
    /\ returned' = returned \cup {x.id}

-----------------------------------------------------------------------------
(* record_uncertain.                                                       *)

(***************************************************************************)
(* get_active at the top of record_uncertain: a document of this DUT is    *)
(* returned as it is (whatever its status), an unreadable one raises, and  *)
(* only an absent path leads to a new incident.                            *)
(***************************************************************************)
RecordRead(p, d) ==
    /\ pc[p] = "idle"
    /\ \/ /\ active[d].doc # None
          /\ active[d].doc.dut = d
          /\ Coalesce(p, active[d].doc)
          /\ UNCHANGED issued
       \/ /\ active[d] # Absent
          /\ active[d].doc # None => active[d].doc.dut # d
          /\ Return(p, "unresolved")
          /\ doc' = [doc EXCEPT ![p] = None]
          /\ UNCHANGED <<issued, returned>>
       \/ /\ active[d] = Absent
          /\ \E i \in Ids :
                /\ issued[i] = None
                /\ issued' = [issued EXCEPT ![i] = d]
                /\ doc' = [doc EXCEPT ![p] = [id |-> i, dut |-> d,
                                              status |-> "OPEN", ack |-> None]]
          /\ Begin(p, "rec_open")
          /\ UNCHANGED returned
    /\ UNCHANGED <<active, archive, cleaned>>

(* Defect: the lock is created without O_EXCL. *)
RecordOpenNotExclusive(p) ==
    /\ pc[p] = "rec_open"
    /\ active' = [active EXCEPT ![doc[p].dut] = Incomplete(p)]
    /\ Goto(p, "rec_write")
    /\ UNCHANGED <<archive, doc, issued, returned, cleaned>>

(* os.open(active, O_CREAT | O_EXCL): an empty file appears, or the path    *)
(* exists already and the call goes on to read it again.                   *)
RecordOpen(p) ==
    /\ pc[p] = "rec_open"
    /\ IF active[doc[p].dut] = Absent
       THEN /\ active' = [active EXCEPT ![doc[p].dut] = Incomplete(p)]
            /\ Goto(p, "rec_write")
       ELSE /\ Goto(p, "rec_reread")
            /\ UNCHANGED active
    /\ UNCHANGED <<archive, doc, issued, returned, cleaned>>

(* stream.write and stream.flush: the document becomes readable. *)
RecordWrite(p) ==
    /\ pc[p] = "rec_write"
    /\ active' = IF active[doc[p].dut] = Incomplete(p)
                 THEN [active EXCEPT ![doc[p].dut] = Complete(doc[p])]
                 ELSE active
    /\ Goto(p, "rec_sync")
    /\ UNCHANGED <<archive, doc, issued, returned, cleaned>>

(* os.fsync, then record_uncertain returns created=True. *)
RecordSync(p) ==
    /\ pc[p] = "rec_sync"
    /\ Return(p, "created")
    /\ returned' = returned \cup {doc[p].id}
    /\ UNCHANGED <<active, archive, doc, issued, cleaned>>

(***************************************************************************)
(* An OSError from open, write or fsync: the handler of _write_exclusive   *)
(* unlinks the path, whatever it holds by now, ignores an error of that    *)
(* unlink and raises SafetyIncidentPersistenceError.                       *)
(***************************************************************************)
RecordFail(p) ==
    /\ pc[p] \in {"rec_open", "rec_write", "rec_sync"}
    /\ SysCall[pc[p]] \in Faults
    /\ LET d == doc[p].dut IN
       \/ /\ active' = [active EXCEPT ![d] = Absent]
          /\ cleaned' = IF active[d] \in {Absent, Incomplete(p)}
                        THEN cleaned ELSE cleaned \cup {d}
       \/ /\ "unlink" \in Faults
          /\ UNCHANGED <<active, cleaned>>
    /\ Return(p, "persistence")
    /\ UNCHANGED <<archive, doc, issued, returned>>

(* FileExistsError: the lock of the concurrent call is read and returned;   *)
(* if it is gone by now the call raises.                                   *)
RecordReread(p) ==
    /\ pc[p] = "rec_reread"
    /\ LET d == doc[p].dut IN
       \/ /\ active[d].doc # None
          /\ active[d].doc.dut = d
          /\ Coalesce(p, active[d].doc)
       \/ /\ active[d] # Absent
          /\ active[d].doc # None => active[d].doc.dut # d
          /\ Return(p, "unresolved")
          /\ UNCHANGED <<doc, returned>>
       \/ /\ active[d] = Absent
          /\ Return(p, "persistence")
          /\ UNCHANGED <<doc, returned>>
    /\ UNCHANGED <<active, archive, issued, cleaned>>

-----------------------------------------------------------------------------
(* acknowledge.                                                            *)

(* The incident x with the operator's data r and the time stamp t. *)
Acknowledged(x, r, t) ==
    [id |-> x.id, dut |-> x.dut, status |-> "ACKNOWLEDGED",
     ack |-> [data |-> r, at |-> t]]

(* Defect: a retry builds a new acknowledgment instead of the persisted one. *)
AckReadRebuilds(p, d, i, r) ==
    /\ p \in Acknowledgers
    /\ pc[p] = "idle"
    /\ LET x == active[d].doc IN
       /\ x # None
       /\ x.dut = d /\ x.id = i
       /\ \E t \in Times : doc' = [doc EXCEPT ![p] = Acknowledged(x, r, t)]
       /\ Begin(p, "ack_replace")
    /\ UNCHANGED <<active, archive, issued, returned, cleaned>>

(***************************************************************************)
(* The first read of acknowledge and everything up to the first write:     *)
(* the incident must be of this DUT and have the identity the operator     *)
(* names; an incident acknowledged already must have been acknowledged     *)
(* with the same data; an open one gets the operator's data and the time.  *)
(* Without a lock the call goes on to look for the archived incident (doc  *)
(* then stands for the call's arguments).                                  *)
(***************************************************************************)
AckRead(p, d, i, r) ==
    /\ p \in Acknowledgers
    /\ pc[p] = "idle"
    /\ LET x == active[d].doc IN
       \/ /\ active[d] = Absent
          /\ doc' = [doc EXCEPT ![p] = [id |-> i, dut |-> d,
                                        status |-> "OPEN", ack |-> None]]
          /\ Begin(p, "ack_lookup")
       \/ /\ x # None
          /\ x.dut = d /\ x.id = i
          /\ x.status = "ACKNOWLEDGED" /\ x.ack.data = r
          /\ doc' = [doc EXCEPT ![p] = x]
          /\ Begin(p, "arch_open")
       \/ /\ x # None
          /\ x.dut = d /\ x.id = i
          /\ x.status = "OPEN"
          /\ \E t \in Times :
                doc' = [doc EXCEPT ![p] = Acknowledged(x, r, t)]
          /\ Begin(p, "ack_replace")
    /\ UNCHANGED <<active, archive, issued, returned, cleaned>>

(* Defect: an unreadable lock is not refused. *)
AckRejectFallsThrough(p, d, i, r) ==
    /\ p \in Acknowledgers
    /\ pc[p] = "idle"
    /\ active[d] # Absent /\ active[d].doc = None
    /\ Begin(p, "ack_replace")
    /\ doc' = [doc EXCEPT ![p] = None]
    /\ UNCHANGED <<active, archive, issued, returned, cleaned>>

(* The refusals of acknowledge: an unreadable lock, another DUT, another    *)
(* incident, other data than the persisted acknowledgment.                 *)
AckReject(p, d, i, r) ==
    /\ p \in Acknowledgers
    /\ pc[p] = "idle"
    /\ active[d] # Absent
    /\ LET x == active[d].doc IN
       IF x = None
       THEN Return(p, "unresolved")
       ELSE /\ \/ x.dut # d
               \/ x.id # i
               \/ x.status = "ACKNOWLEDGED" /\ x.ack.data # r
            /\ Return(p, "rejected")
    /\ doc' = [doc EXCEPT ![p] = None]
    /\ UNCHANGED <<active, archive, issued, returned, cleaned>>

(* No lock: the retry of a completed acknowledgment returns the archived   *)
(* document; an unreadable one, none, or one of another DUT raise.         *)
AckLookup(p) ==
    /\ pc[p] = "ack_lookup"
    /\ LET x == archive[doc[p].id].doc IN
       IF x # None /\ x.dut = doc[p].dut
       THEN /\ doc' = [doc EXCEPT ![p] = x]
            /\ Return(p, "acknowledged")
       ELSE /\ Return(p, IF archive[doc[p].id].writer = None
                         THEN "rejected" ELSE "persistence")
            /\ UNCHANGED doc
    /\ UNCHANGED <<active, archive, issued, returned, cleaned>>

(* Defect: the lock is removed without archiving the incident. *)
AckReplaceSkipsArchive(p) ==
    /\ pc[p] = "ack_replace"
    /\ active' = [active EXCEPT ![doc[p].dut] = Complete(doc[p])]
    /\ Goto(p, "ack_unlink")
    /\ UNCHANGED <<archive, doc, issued, returned, cleaned>>

(* _replace_document: the acknowledged document is written to a private     *)
(* temporary name and renamed over the active path, whatever that holds.   *)
AckReplace(p) ==
    /\ pc[p] = "ack_replace"
    /\ active' = [active EXCEPT ![doc[p].dut] = Complete(doc[p])]
    /\ Goto(p, "arch_open")
    /\ UNCHANGED <<archive, doc, issued, returned, cleaned>>

(* Defect: the archive is opened for overwriting. *)
ArchiveOpenTruncates(p) ==
    /\ pc[p] = "arch_open"
    /\ archive' = [archive EXCEPT ![doc[p].id] = Incomplete(p)]
    /\ Goto(p, "arch_write")
    /\ UNCHANGED <<active, doc, issued, returned, cleaned>>

(* _write_exclusive(archive_path): create, write, synchronise. *)
ArchiveOpen(p) ==
    /\ pc[p] = "arch_open"
    /\ IF archive[doc[p].id] = Absent
       THEN /\ archive' = [archive EXCEPT ![doc[p].id] = Incomplete(p)]
            /\ Goto(p, "arch_write")
       ELSE /\ Goto(p, "arch_compare")
            /\ UNCHANGED archive
    /\ UNCHANGED <<active, doc, issued, returned, cleaned>>

ArchiveWrite(p) ==
    /\ pc[p] = "arch_write"
    /\ archive' = IF archive[doc[p].id] = Incomplete(p)
                  THEN [archive EXCEPT ![doc[p].id] = Complete(doc[p])]
                  ELSE archive
    /\ Goto(p, "arch_sync")
    /\ UNCHANGED <<active, doc, issued, returned, cleaned>>

ArchiveSync(p) ==
    /\ pc[p] = "arch_sync"
    /\ Goto(p, "ack_unlink")
    /\ UNCHANGED <<active, archive, doc, issued, returned, cleaned>>

(* Defect: an existing archive is taken for the right one. *)
ArchiveCompareTrusts(p) ==
    /\ pc[p] = "arch_compare"
    /\ Goto(p, "ack_unlink")
    /\ UNCHANGED <<active, archive, doc, issued, returned, cleaned>>

(* Defect: an existing archive is always a collision. *)
ArchiveCompareCollides(p) ==
    /\ pc[p] = "arch_compare"
    /\ Return(p, "rejected")
    /\ UNCHANGED <<active, archive, doc, issued, returned, cleaned>>

(* FileExistsError: the archived document must be the one being archived;   *)
(* an unreadable or a different one raises and leaves the lock.            *)
ArchiveCompare(p) ==
    /\ pc[p] = "arch_compare"
    /\ IF archive[doc[p].id].doc = doc[p]
       THEN Goto(p, "ack_unlink")
       ELSE Return(p, IF archive[doc[p].id].doc = None
                      THEN "persistence" ELSE "rejected")
    /\ UNCHANGED <<active, archive, doc, issued, returned, cleaned>>

(***************************************************************************)
(* An OSError of acknowledge raises SafetyIncidentPersistenceError and     *)
(* leaves the lock.  A failed archive is unlinked like a failed lock; the  *)
(* temporary file of a failed replacement is private to the call.          *)
(***************************************************************************)
AckFail(p) ==
    /\ pc[p] \in {"ack_replace", "arch_open", "arch_write", "arch_sync", "ack_unlink"}
    /\ SysCall[pc[p]] \in Faults
    /\ IF pc[p] \in {"arch_open", "arch_write", "arch_sync"}
       THEN \/ archive' = [archive EXCEPT ![doc[p].id] = Absent]
            \/ "unlink" \in Faults /\ UNCHANGED archive
       ELSE UNCHANGED archive
    /\ Return(p, "persistence")
    /\ UNCHANGED <<active, doc, issued, returned, cleaned>>

(* active_path.unlink(missing_ok=True): the DUT is unlocked. *)
AckUnlink(p) ==
    /\ pc[p] = "ack_unlink"
    /\ active' = [active EXCEPT ![doc[p].dut] = Absent]
    /\ Return(p, "acknowledged")
    /\ UNCHANGED <<archive, doc, issued, returned, cleaned>>

-----------------------------------------------------------------------------
(* The process is killed inside a call: files stay as they are. *)
Crash(p) ==
    /\ pc[p] # "idle"
    /\ pc' = [pc EXCEPT ![p] = "idle"]
    /\ doc' = [doc EXCEPT ![p] = None]
    /\ ret' = [ret EXCEPT ![p] = "none"]
    /\ UNCHANGED <<active, archive, issued, returned, cleaned>>

Next ==
    \E p \in Procs :
       \/ \E d \in Duts : RecordRead(p, d)
       \/ RecordOpen(p) \/ RecordWrite(p) \/ RecordSync(p)
       \/ RecordFail(p) \/ RecordReread(p)
       \/ \E d \in Duts, i \in Ids, r \in Readbacks :
             AckRead(p, d, i, r) \/ AckReject(p, d, i, r)
       \/ AckLookup(p)
       \/ AckReplace(p) \/ ArchiveOpen(p) \/ ArchiveWrite(p) \/ ArchiveSync(p)
       \/ ArchiveCompare(p) \/ AckFail(p) \/ AckUnlink(p)
       \/ Crash(p)

Spec == Init /\ [][Next]_vars

(***************************************************************************)
(* Fairness of the acknowledging side: a process that is not killed makes  *)
(* its next system call; the operator repeats the call until it succeeds,  *)
(* with the data persisted so far; and a call that is repeated forever is  *)
(* not killed, nor refused by the file system, at the same place forever.  *)
(***************************************************************************)
AckFairness ==
    \A p \in Acknowledgers :
       /\ WF_vars(RecordOpen(p)) /\ WF_vars(RecordWrite(p)) /\ WF_vars(RecordSync(p))
       /\ WF_vars(RecordReread(p)) /\ WF_vars(AckLookup(p))
       /\ \A d \in Duts, i \in Ids, r \in Readbacks : SF_vars(AckRead(p, d, i, r))
       /\ SF_vars(AckReplace(p)) /\ SF_vars(ArchiveOpen(p)) /\ SF_vars(ArchiveWrite(p))
       /\ SF_vars(ArchiveSync(p)) /\ SF_vars(ArchiveCompare(p)) /\ SF_vars(AckUnlink(p))

FairSpec == Spec /\ AckFairness

-----------------------------------------------------------------------------
(* Properties.                                                             *)

(* The type of every variable; a running call holds the document it writes. *)
TypeOK ==
    /\ active \in [Duts -> File]
    /\ archive \in [Ids -> File]
    /\ pc \in [Procs -> {"idle"} \cup RecordPcs \cup AckPcs]
    /\ doc \in [Procs -> Incident \cup {None}]
    /\ ret \in [Procs -> Outcomes]
    /\ issued \in [Ids -> Duts \cup {None}]
    /\ returned \subseteq Ids
    /\ cleaned \subseteq Duts
    /\ \A p \in Procs : pc[p] # "idle" => doc[p] # None

Locks(i, d) == active[d].doc # None /\ active[d].doc.id = i
Archived(i) == archive[i].doc # None
Held(i, d) == Locks(i, d) \/ Archived(i) \/ d \in cleaned

(***************************************************************************)
(* The lock does not get lost: an incident some record_uncertain call has  *)
(* returned still locks its DUT, or is in the archive, or a failed write   *)
(* reported SafetyIncidentPersistenceError and its clean-up removed a file *)
(* of this DUT that was not its own.  It makes assert_clear a sound gate.  *)
(***************************************************************************)
LockNotLost ==
    \A i \in returned : Held(i, issued[i])

(***************************************************************************)
(* An interrupted acknowledgment can be completed: while an incident is    *)
(* both locked and archived the two documents are equal, so the retry with *)
(* the persisted data takes the "archived == acknowledged" branch and      *)
(* never ends in an archive collision that would wedge the lock.           *)
(***************************************************************************)
RetryCanComplete ==
    \A i \in Ids, d \in Duts :
        Locks(i, d) /\ Archived(i) /\ d \notin cleaned =>
            active[d].doc = archive[i].doc

(* A successful acknowledge call, the retry that only finds the archive    *)
(* included, leaves the acknowledged incident in the archive.              *)
AckArchived ==
    \A p \in Procs : ret[p] = "acknowledged" =>
        Archived(doc[p].id) /\ archive[doc[p].id].doc.status = "ACKNOWLEDGED"

(***************************************************************************)
(* The operator is not locked out: a readable lock is removed in the end,  *)
(* unless an acknowledgment was killed between creating and writing the    *)
(* archive file, after which every retry raises and the DUT stays locked.  *)
(***************************************************************************)
ArchiveTorn(i) ==
    \E p \in Procs : archive[i].writer = p /\ pc[p] # "arch_write"

LockEventuallyReleased ==
    \A i \in Ids, d \in Duts : Locks(i, d) ~> (~Locks(i, d) \/ ArchiveTorn(i))

(***************************************************************************)
(* Evidence is write-once: however many operators acknowledge at the same  *)
(* time, with whatever readback, an archived record never changes          *)
(* (O_EXCL, and the comparison instead of an overwrite).                   *)
(***************************************************************************)
ArchiveWriteOnce ==
    [][\A i \in Ids : Archived(i) => archive'[i] = archive[i]]_vars

(***************************************************************************)
(* What may remove a lock: a call that acknowledges exactly the incident   *)
(* the lock holds, or a write that fails and says so.  A lock its writer   *)
(* left incomplete (the process died in _write_exclusive) is thus never    *)
(* released by recording, acknowledging or crashing.                       *)
(***************************************************************************)
UnlockStep(d) ==
    \E p \in Procs :
        /\ pc[p] # "idle" /\ doc[p].dut = d
        /\ \/ ret'[p] = "acknowledged" /\ Locks(doc[p].id, d) /\ Archived(doc[p].id)
           \/ ret'[p] = "acknowledged" /\ d \in cleaned
           \/ ret'[p] = "persistence"

UnlockOnlyByItsAck ==
    [][\A d \in Duts : active[d] # Absent /\ active'[d] = Absent
                          => UnlockStep(d)]_vars

(***************************************************************************)
(* The directory implements the lock of IncidentLock.  A DUT is locked     *)
(* when its active path exists, in doubt when an incident that was         *)
(* returned to a caller is not settled, that is archived and no longer at  *)
(* the active path.                                                        *)
(***************************************************************************)
Settled(i, d) == Archived(i) /\ ~Locks(i, d)
InDoubt(d) == d \notin cleaned /\ \E i \in returned : issued[i] = d /\ ~Settled(i, d)

Store == INSTANCE IncidentLock WITH
            locked <- {d \in Duts : active[d] # Absent},
            doubt <- {d \in Duts : InDoubt(d)},
            alarmed <- cleaned

StoreIsLock == Store!LockSpec
=============================================================================
