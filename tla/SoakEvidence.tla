----------------------------- MODULE SoakEvidence -----------------------------
(***************************************************************************)
(* The evidence directory of a soak run: _EvidenceWriter of soak.py with   *)
(* the order in which run_soak uses it.  The directory keeps a bounded     *)
(* window of checkpoints, each holding the digest of the one before it,    *)
(* and an anchor that names the last one removed, so that what is left can *)
(* be verified as a chain.  Each step is one system call that changes the  *)
(* directory or one assignment of the writer; between any two of them the  *)
(* process may die or a KeyboardInterrupt may arrive, and each call may    *)
(* fail.                                                                   *)
(*                                                                         *)
(* A digest is the number of the write that produced the file: two writes  *)
(* never have the same, and digest 0 stands for null.  _atomic_write       *)
(* writes a temporary file and renames it; its finally clause is taken to  *)
(* remove the temporary file whenever the process lives on.                *)
(***************************************************************************)
EXTENDS Integers, Sequences, FiniteSetsExt

CONSTANTS
    MaxCheckpoints,   \* soak.max_checkpoints
    ByteLimit,        \* soak.max_evidence_bytes
    Sizes,            \* sizes a checkpoint may have
    Overhead,         \* size of preflight.json, of the anchor and of the report
    MaxWrites         \* bound: writes of a checkpoint in one behaviour

(* SoakSettings refuses fewer than two checkpoints; write_preflight has    *)
(* written a file within the limit before the run begins.                  *)
ASSUME EvidenceAssumption ==
    /\ MaxCheckpoints \in Nat /\ MaxCheckpoints >= 2
    /\ {ByteLimit, Overhead, MaxWrites} \subseteq Nat /\ Sizes \subseteq Nat \ {0}
    /\ Overhead <= ByteLimit

VARIABLES
    disk,         \* the checkpoint files
    anchor,       \* checkpoint-anchor.json
    final,        \* final-report.json
    temp,         \* bytes of the temporary file of _atomic_write
    window,       \* self.checkpoints
    total,        \* self.total_bytes
    previous,     \* self.previous_sha256
    sequence,     \* checkpoint_sequence
    writes,       \* number of checkpoint writes so far: the next digest
    write,        \* the call of _write under way: len(encoded), old_size and
                  \* pending_removal_bytes
    evPc,         \* the last line of write_checkpoint, _write or checkpoint executed
    phase,        \* the body of the run, its last checkpoint, the final report
    incomplete,   \* status is INCOMPLETE_EVIDENCE_WRITE
    missed,       \* history: bytes that came and went while an interrupt kept
                  \* total_bytes from following
    torn          \* history: the checkpoint after which an interrupt kept
                  \* checkpoint_sequence from following

files == <<disk, anchor, final>>
bookkeeping == <<window, previous, sequence>>
counting == <<total, writes, write>>
outcome == <<phase, incomplete>>
history == <<missed, torn>>
evidenceVars == <<files, temp, bookkeeping, counting, evPc, outcome, history>>

NoAnchor == [removed |-> 0, digest |-> 0, next |-> 0]
NoReport == [written |-> FALSE, tail |-> 0, complete |-> FALSE]

EvidenceInit ==
    /\ disk = {} /\ anchor = NoAnchor /\ final = NoReport /\ temp = 0 /\ window = <<>>
    /\ total = Overhead          \* write_preflight
    /\ previous = 0 /\ sequence = 0 /\ writes = 0
    /\ write = [size |-> Overhead, old |-> 0, pending |-> 0]
    /\ evPc = "idle" /\ phase = "body" /\ incomplete = FALSE
    /\ missed = [grown |-> 0, freed |-> 0] /\ torn = {}

----------------------------------------------------------------------------
Checkpointing == phase \in {"body", "last"}
OnDisk(seq) == {f \in disk : f.seq = seq}
Size(S) == MapThenSumSet(LAMBDA f : f.size, S)
AnchorSize == IF anchor = NoAnchor THEN 0 ELSE Overhead

(* _write up to the temporary file: the limit is compared before anything  *)
(* is written; pending bytes are those of a file about to be removed.      *)
OpenTemporary(size, old, pending) ==
    /\ pending <= total /\ total - old - pending + size <= ByteLimit
    /\ write' = [size |-> size, old |-> old, pending |-> pending]
    /\ temp' = size

(* Rotation: the anchor is replaced first ...                              *)
OpenAnchor ==
    /\ evPc = "idle" /\ Checkpointing /\ Len(window) >= MaxCheckpoints
    /\ OpenTemporary(Overhead, AnchorSize, window[1].size) /\ evPc' = "anchorTemp"
    /\ UNCHANGED <<files, bookkeeping, total, writes, outcome, history>>

(* Defect: the file is removed without an anchor.                          *)
ReplaceAnchor_Missing ==
    /\ evPc = "anchorTemp" /\ temp' = 0 /\ evPc' = "anchorReplaced"
    /\ UNCHANGED <<files, bookkeeping, counting, outcome, history>>

ReplaceAnchor ==
    /\ evPc = "anchorTemp" /\ temp' = 0 /\ evPc' = "anchorReplaced"
    /\ anchor' = [removed |-> window[1].seq, digest |-> window[1].digest, next |-> window[2].seq]
    /\ UNCHANGED <<disk, final, bookkeeping, counting, outcome, history>>

(* _write after any of its three files was replaced.                       *)
CountWrite ==
    /\ \/ evPc = "anchorReplaced" /\ evPc' = "anchored" /\ phase' = phase
       \/ evPc = "replaced" /\ evPc' = "written" /\ phase' = phase
       \/ evPc = "reportReplaced" /\ evPc' = "idle" /\ phase' = "returned"
    /\ total' = total - write.old + write.size
    /\ UNCHANGED <<files, temp, bookkeeping, writes, write, incomplete, history>>

(* ... then the oldest file is unlinked; it is gone already when an        *)
(* interrupt has kept it in the window.                                    *)
Unlink ==
    /\ evPc = "anchored" /\ window[1] \in disk
    /\ disk' = disk \ {window[1]} /\ evPc' = "unlinked"
    /\ UNCHANGED <<anchor, final, temp, bookkeeping, counting, outcome, history>>

(* Defect: the bytes of the removed file stay in the count.                *)
CountUnlink_Missing ==
    /\ evPc = "unlinked" /\ evPc' = "counted"
    /\ UNCHANGED <<files, temp, bookkeeping, counting, outcome, history>>

CountUnlink ==
    /\ evPc = "unlinked" /\ evPc' = "counted" /\ total' = total - window[1].size
    /\ UNCHANGED <<files, temp, bookkeeping, writes, write, outcome, history>>

PopLeft ==
    /\ evPc = "counted" /\ evPc' = "rotated" /\ window' = Tail(window)
    /\ UNCHANGED <<files, temp, previous, sequence, counting, outcome, history>>

(* The checkpoint itself; the same sequence number may be written again    *)
(* after a failure or an interrupt.                                        *)
OpenCheckpoint ==
    /\ evPc = "rotated" \/ (evPc = "idle" /\ Len(window) < MaxCheckpoints)
    /\ Checkpointing /\ writes < MaxWrites
    /\ \E size \in Sizes : OpenTemporary(size, Size(OnDisk(sequence)), 0)
    /\ evPc' = "checkpointTemp"
    /\ UNCHANGED <<files, bookkeeping, total, writes, outcome, history>>

ReplaceCheckpoint ==
    /\ evPc = "checkpointTemp" /\ temp' = 0 /\ evPc' = "replaced"
    /\ disk' = (disk \ OnDisk(sequence)) \cup
                  {[seq |-> sequence, digest |-> writes + 1, prev |-> previous, size |-> write.size]}
    /\ writes' = writes + 1
    /\ UNCHANGED <<anchor, final, bookkeeping, total, write, outcome, history>>

(* The size of the new file is read back, then the writer remembers it ... *)
AppendCheckpoint ==
    /\ evPc = "written" /\ evPc' = "appended"
    /\ \E f \in OnDisk(sequence) : window' = Append(window, f)
    /\ UNCHANGED <<files, temp, previous, sequence, counting, outcome, history>>

SetPrevious ==
    /\ evPc = "appended" /\ evPc' = "linked" /\ previous' = window[Len(window)].digest
    /\ UNCHANGED <<files, temp, window, sequence, counting, outcome, history>>

(* ... and checkpoint, to which it returns, advances the number.           *)
AdvanceSequence ==
    /\ evPc = "linked" /\ evPc' = "idle" /\ sequence' = sequence + 1
    /\ phase' = IF phase = "last" THEN "report" ELSE phase
    /\ UNCHANGED <<files, temp, window, previous, counting, incomplete, history>>

(* An exception of checkpoint: the body of the run ends with it, and the   *)
(* last checkpoint is tried; when that fails too, the status says so.      *)
CheckpointFails ==
    /\ evPc \in {"idle", "anchorTemp", "anchored", "rotated", "checkpointTemp", "written"}
    /\ Checkpointing /\ evPc' = "idle" /\ temp' = 0
    /\ IF phase = "body" THEN phase' = "last" /\ UNCHANGED incomplete
                         ELSE phase' = "report" /\ incomplete' = TRUE
    /\ UNCHANGED <<files, bookkeeping, counting, history>>

(* run_soak leaves its loop.                                               *)
EndBody ==
    /\ evPc = "idle" /\ phase = "body" /\ phase' = "last"
    /\ UNCHANGED <<files, temp, bookkeeping, counting, evPc, incomplete, history>>

OpenFinal ==
    /\ evPc = "idle" /\ phase = "report"
    /\ OpenTemporary(Overhead, 0, 0) /\ evPc' = "reportTemp"
    /\ UNCHANGED <<files, bookkeeping, total, writes, outcome, history>>

ReplaceFinal ==
    /\ evPc = "reportTemp" /\ temp' = 0 /\ evPc' = "reportReplaced"
    /\ final' = [written |-> TRUE, tail |-> previous, complete |-> ~incomplete]
    /\ UNCHANGED <<disk, anchor, bookkeeping, counting, outcome, history>>

FinalFails ==
    /\ evPc \in {"idle", "reportTemp"} /\ phase = "report"
    /\ phase' = "returned" /\ incomplete' = TRUE /\ evPc' = "idle" /\ temp' = 0
    /\ UNCHANGED <<files, bookkeeping, counting, history>>

(* What the directory has grown by since total_bytes was last right.       *)
Lag ==
    CASE evPc \in {"anchorReplaced", "replaced", "reportReplaced"} -> write.size - write.old
      [] evPc = "unlinked" -> -window[1].size
      [] OTHER -> 0

(* A KeyboardInterrupt ends the body of the run, whose handler goes on to  *)
(* the last checkpoint; after the body nothing catches it.                 *)
EvidenceInterrupted ==
    /\ evPc # "dead" /\ phase # "returned"
    /\ evPc' = "idle" /\ temp' = 0
    /\ phase' = IF phase = "body" THEN "last" ELSE "returned"
    /\ missed' = IF Lag >= 0 THEN [missed EXCEPT !.grown = @ + Lag]
                            ELSE [missed EXCEPT !.freed = @ - Lag]
    /\ torn' = IF evPc = "linked" THEN {sequence} ELSE torn
    /\ UNCHANGED <<files, bookkeeping, counting, incomplete>>

(* The process dies; a temporary file stays.                               *)
Die ==
    /\ evPc # "dead" /\ evPc' = "dead"
    /\ UNCHANGED <<files, temp, bookkeeping, counting, outcome, history>>

EvidenceNext ==
    \/ OpenAnchor \/ ReplaceAnchor \/ CountWrite \/ Unlink \/ CountUnlink \/ PopLeft
    \/ OpenCheckpoint \/ ReplaceCheckpoint \/ AppendCheckpoint \/ SetPrevious \/ AdvanceSequence
    \/ CheckpointFails \/ EndBody \/ OpenFinal \/ ReplaceFinal \/ FinalFails
    \/ EvidenceInterrupted \/ Die

EvidenceSpec == EvidenceInit /\ [][EvidenceNext]_evidenceVars

----------------------------------------------------------------------------
(* The files a verifier has to link: from the anchor's next_sequence on.   *)
Kept == {f \in disk : f.seq >= anchor.next}

(* Whatever fails, wherever an interrupt falls and whenever the process    *)
(* dies, the directory verifies: the kept checkpoints are linked one to    *)
(* the next by their digests, the oldest is linked to the anchor, a file   *)
(* outside of the chain is the very one the anchor says was removed, and a *)
(* final report that does not say INCOMPLETE_EVIDENCE_WRITE names the      *)
(* newest checkpoint as the tail of the chain.  One link may be missing: a *)
(* KeyboardInterrupt after previous_sha256 was set and before              *)
(* checkpoint_sequence was advanced has the last checkpoint replace the    *)
(* file it names as its predecessor (soak.py, write_checkpoint, checkpoint *)
(* and the end of run_soak).                                               *)
ChainVerifies ==
    /\ \A f \in Kept : \/ f.seq \in torn
                       \/ f.seq = anchor.next /\ f.prev = anchor.digest
                       \/ \E g \in Kept : g.seq + 1 = f.seq /\ g.digest = f.prev
    /\ \A f \in disk \ Kept : f.seq = anchor.removed /\ f.digest = anchor.digest
    /\ anchor # NoAnchor => \E f \in Kept : f.seq = anchor.next
    /\ final.complete =>
         \E f \in disk : f.digest = final.tail /\ \A g \in disk : g.seq <= f.seq

Directory == Overhead + AnchorSize + (IF final.written THEN Overhead ELSE 0) + Size(disk)

(* The file a write is about to replace or remove.                         *)
Superseded == IF temp > 0 THEN write.old + write.pending ELSE Size(disk \ Kept)

(* While the process lives, total_bytes is the real size of the files but  *)
(* for the change of the very call under way and for changes an interrupt  *)
(* kept from being counted; and at all times, after a death too, the       *)
(* directory with its temporary file exceeds the limit by no more than the *)
(* file about to be replaced or removed and the growth an interrupt kept   *)
(* from being counted (soak.py, _write, _atomic_write, write_checkpoint).  *)
BytesBounded ==
    /\ evPc # "dead" => Directory = total + Lag + missed.grown - missed.freed
    /\ Directory + temp <= ByteLimit + Superseded + missed.grown

=============================================================================
