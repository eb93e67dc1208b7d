------------------------------ MODULE SaveCopy ------------------------------
(***************************************************************************)
(* The copy of the live save tree into a diagnostics package, while the    *)
(* title may be saving (KI-065): the gate of mcla_save_copy_guard.h polled *)
(* by WaitForSaveCopyGate, and CopySaveTrees / CopyStableFile of           *)
(* mcla_diagnostics.cpp with the shared reader of                          *)
(* mcla_shared_read_copy_win.h.                                            *)
(*                                                                         *)
(* A file is a sequence of chunks, each the number of the save that wrote  *)
(* it, with a write time that every write moves.  The title's saved-game   *)
(* transaction is SDK code and external: it shows in the SDK's counter (if *)
(* the SDK exports one) and in scratch files next to the save, deletes a   *)
(* file and writes it again chunk by chunk.                                *)
(***************************************************************************)
EXTENDS Integers, Sequences, FiniteSetsExt

CONSTANTS
  SaveFiles,         \* files of the save tree
  Absent,            \* in place of the content of a removed file
  Indicators,        \* whether the SDK may export, or lack, its transaction counter
  MaxSaveBytes,      \* kMaxSaveBytes, in chunks
  MaxSaveFileBytes,  \* kMaxSaveFileBytes, in chunks
  WaitLimit,         \* kWaitTimeoutMs / kPollIntervalMs: polls before skipping
  Attempts,          \* copy attempts of one file
  MaxSaves           \* bound: transactions the title makes

ASSUME CopyConstants ==
  /\ Indicators \subseteq BOOLEAN
  /\ {MaxSaveBytes, MaxSaveFileBytes, WaitLimit, MaxSaves} \subseteq Nat
  /\ Attempts \in Nat \ {0}

VARIABLES
  title,      \* where the title's transaction is
  target,     \* the file the transaction writes
  scratch,    \* .rexpending / .rexbackup entries are in the tree
  content,    \* [SaveFiles -> chunks, or Absent]
  time,       \* [SaveFiles -> last write time]
  saves,      \* transactions begun
  copyStop,   \* stop token of the diagnostics worker
  copier,     \* where the worker is
  input,      \* GateInput: what the last poll saw, polls waited
  entriesLeft, \* entries of the tree the iterator has not reached
  file,       \* the file being copied: name, attempt, stat before, bytes read
  stats,      \* SaveCopyStats: bytes, skipped, inventory (name -> bytes)
  heldContents, \* history: contents each file has had
  quiet       \* history: at some moment of the poll nothing was being rewritten

titleVars == <<title, target, scratch, content, time, saves, heldContents>>
copyVars == <<copier, input, entriesLeft, file, stats>>
saveCopyVars == <<titleVars, copyStop, copyVars, quiet>>

NoFile == [name |-> "none", attempt |-> 0, size |-> 0, time |-> 0, read |-> <<>>]

Size(f) == IF content[f] = Absent THEN 0 ELSE Len(content[f])

\* The part of a transaction in which the tree is marked and rewritten.
Rewriting == title \in {"marked", "writing"}

SaveCopyInit ==
  /\ title = "closed" /\ target \in SaveFiles
  /\ scratch \in BOOLEAN          \* an interrupted save may have left some
  /\ content = [f \in SaveFiles |-> <<0, 0>>]
  /\ time = [f \in SaveFiles |-> 0]
  /\ saves = 0 /\ copyStop = FALSE
  /\ copier = "indicator"
  /\ \E b \in Indicators :
       input = [available |-> b, active |-> FALSE, files |-> FALSE, waited |-> 0]
  /\ entriesLeft = {} /\ file = NoFile
  /\ stats = [bytes |-> 0, skipped |-> 0, inventory |-> {}]
  /\ heldContents = [f \in SaveFiles |-> {<<0, 0>>}]
  /\ quiet = FALSE

-----------------------------------------------------------------------------
(* The title's saved-game transaction (external).                          *)

TitleStep(step) ==
  /\ title' = step
  /\ UNCHANGED <<copyStop, copyVars>>
  /\ quiet' = (quiet \/ ~Rewriting')

Writes(f, chunks) ==
  /\ content' = [content EXCEPT ![f] = chunks]
  /\ time' = [time EXCEPT ![f] = @ + 1]
  /\ heldContents' = [heldContents EXCEPT ![f] = @ \cup {chunks}]

\* The counter goes up first, then the marker and the backup appear.
SaveOpen ==
  /\ title = "closed" /\ saves < MaxSaves
  /\ saves' = saves + 1
  /\ target' \in SaveFiles
  /\ UNCHANGED <<scratch, content, time, heldContents>>
  /\ TitleStep("opened")

SaveMark ==
  /\ title = "opened"
  /\ scratch' = TRUE
  /\ UNCHANGED <<target, content, time, saves, heldContents>>
  /\ TitleStep("marked")

\* The file is removed and written again.
SaveDelete ==
  /\ title = "marked"
  /\ Writes(target, Absent)
  /\ UNCHANGED <<target, scratch, saves>>
  /\ TitleStep("writing")

SaveWrite ==
  /\ title = "writing"
  /\ Size(target) < 3
  /\ Writes(target, IF content[target] = Absent THEN <<saves>>
                    ELSE Append(content[target], saves))
  /\ UNCHANGED <<target, scratch, saves>>
  /\ TitleStep("writing")

SaveCommit ==
  /\ title = "writing" /\ content[target] # Absent
  /\ scratch' = FALSE
  /\ UNCHANGED <<target, content, time, saves, heldContents>>
  /\ TitleStep("committed")

SaveClose ==
  /\ title = "committed"
  /\ UNCHANGED <<target, scratch, content, time, saves, heldContents>>
  /\ TitleStep("closed")

Title ==
  SaveOpen \/ SaveMark \/ SaveDelete \/ SaveWrite \/ SaveCommit \/ SaveClose

RequestStop ==
  /\ ~copyStop /\ copyStop' = TRUE
  /\ UNCHANGED <<titleVars, copyVars, quiet>>

-----------------------------------------------------------------------------
(* save_copy_guard and WaitForSaveCopyGate.                                *)

\* Mutant: the marker files are not looked at.
BusyByIndicator(in) == in.available /\ in.active

GuardBusy(in) == (in.available /\ in.active) \/ in.files

Decide(in) ==
  CASE ~GuardBusy(in)                             -> "copy"
    [] GuardBusy(in) /\ in.waited >= WaitLimit    -> "skip"
    [] GuardBusy(in) /\ in.waited < WaitLimit     -> "wait"

\* A poll reads the counter first ...
GateIndicator ==
  /\ copier = "indicator"
  /\ input' = [input EXCEPT !.active = title # "closed"]
  /\ quiet' = ~Rewriting
  /\ copier' = "scan"
  /\ UNCHANGED <<titleVars, copyStop, entriesLeft, file, stats>>

\* ... then looks for scratch files in the tree, ...
GateScan ==
  /\ copier = "scan"
  /\ input' = [input EXCEPT !.files = scratch]
  /\ copier' = "decide"
  /\ UNCHANGED <<titleVars, copyStop, entriesLeft, file, stats, quiet>>

\* ... and decides: copy, skip, or sleep and poll again.
GateDecide ==
  /\ copier = "decide"
  /\ \/ /\ Decide(input) = "copy"
        /\ copier' = "copy"
        /\ entriesLeft' = SaveFiles
        /\ UNCHANGED input
     \/ /\ Decide(input) = "skip" \/ (Decide(input) = "wait" /\ copyStop)
        /\ copier' = "done"
        /\ UNCHANGED <<input, entriesLeft>>
     \/ /\ Decide(input) = "wait" /\ ~copyStop
        /\ copier' = "indicator"
        /\ input' = [input EXCEPT !.waited = @ + 1]
        /\ UNCHANGED entriesLeft
  /\ UNCHANGED <<titleVars, copyStop, file, stats, quiet>>

-----------------------------------------------------------------------------
(* CopySaveTrees and CopyStableFile.                                       *)

CopySame == UNCHANGED <<titleVars, copyStop, input, quiet>>

\* The iterator reaches f.  Scratch entries are passed over without being
\* read; a file that is gone by now is not a regular file and is passed over.
CopyNext(f) ==
  /\ copier = "copy" /\ f \in entriesLeft
  /\ entriesLeft' = entriesLeft \ {f}
  /\ \/ /\ content[f] # Absent
        /\ copier' = "stat"
        /\ file' = [NoFile EXCEPT !.name = f]
     \/ /\ content[f] = Absent
        /\ UNCHANGED <<copier, file>>
  /\ UNCHANGED stats /\ CopySame

CopyEnd ==
  /\ copier = "copy" /\ entriesLeft = {}
  /\ copier' = "done"
  /\ UNCHANGED <<entriesLeft, file, stats>> /\ CopySame

Skips ==
  /\ stats' = [stats EXCEPT !.skipped = @ + 1]
  /\ copier' = "copy" /\ file' = NoFile

\* A failed or unstable attempt; the last one gives the file up.
AttemptFails ==
  IF file.attempt + 1 < Attempts
    THEN /\ file' = [NoFile EXCEPT !.name = file.name,
                                   !.attempt = file.attempt + 1]
         /\ copier' = "stat"
         /\ UNCHANGED stats
    ELSE Skips

Fits(f) ==
  /\ content[f] # Absent
  /\ Size(f) <= MaxSaveFileBytes
  /\ stats.bytes + Size(f) <= MaxSaveBytes

\* The size before the copy ...
StatBefore ==
  /\ copier = "stat"
  /\ \/ ~Fits(file.name) /\ Skips
     \/ /\ Fits(file.name)
        /\ file' = [file EXCEPT !.size = Size(file.name)]
        /\ copier' = "time"
        /\ UNCHANGED stats
  /\ UNCHANGED entriesLeft /\ CopySame

\* ... and the time; the file may be gone, or the destination not be made.
TimeBefore ==
  /\ copier = "time"
  /\ \/ Skips
     \/ /\ content[file.name] # Absent
        /\ file' = [file EXCEPT !.time = time[file.name]]
        /\ copier' = "read"
        /\ UNCHANGED stats
  /\ UNCHANGED entriesLeft /\ CopySame

\* CopyFileSharedRead reads chunk after chunk until the end of the file, which
\* may change under it; opening, a read or the write of the copy may fail, and
\* a file past the limit is refused.
ReadChunk ==
  /\ copier = "read"
  /\ LET f == file.name
         next == Len(file.read) + 1 IN
     \/ /\ next <= Size(f)
        /\ next <= MaxSaveFileBytes
        /\ file' = [file EXCEPT !.read = Append(@, content[f][next])]
        /\ UNCHANGED <<copier, stats>>
     \/ /\ next > Size(f)
        /\ copier' = "after"
        /\ UNCHANGED <<file, stats>>
     \/ AttemptFails
  /\ UNCHANGED entriesLeft /\ CopySame

\* The size after the copy ...
SizeAfter ==
  /\ copier = "after"
  /\ \/ file.size # Size(file.name) /\ AttemptFails
     \/ /\ file.size = Size(file.name)
        /\ copier' = "compare"
        /\ UNCHANGED <<file, stats>>
  /\ UNCHANGED entriesLeft /\ CopySame

\* Mutant: the time is not compared.
StableBySize(f) == content[f] # Absent

Stable(f) == content[f] # Absent /\ file.time = time[f]

Lists ==
  /\ stats' = [stats EXCEPT !.bytes = @ + file.size,
                            !.inventory = @ \cup {<<file.name, file.read>>}]
  /\ copier' = "copy" /\ file' = NoFile

\* ... and the time: the same, and the copy is listed (unless its hash cannot
\* be read); else the attempt failed.
StatAfter ==
  /\ copier = "compare"
  /\ \/ Stable(file.name) /\ (Lists \/ Skips)
     \/ ~Stable(file.name) /\ AttemptFails
  /\ UNCHANGED entriesLeft /\ CopySame

Gate == GateIndicator \/ GateScan \/ GateDecide
Copy == (\E f \in SaveFiles : CopyNext(f)) \/ CopyEnd
          \/ StatBefore \/ TimeBefore \/ ReadChunk \/ SizeAfter \/ StatAfter

SaveCopyNext == Title \/ RequestStop \/ Gate \/ Copy

SaveCopySpec == SaveCopyInit /\ [][SaveCopyNext]_saveCopyVars

-----------------------------------------------------------------------------
\* A file listed in the inventory is what the save file held at one moment:
\* "a copy torn by a concurrent write is caught by the caller's size/time
\* stability check and retried".  And the listed copies together stay within
\* the save budget, although files grow between the check and the copy, and
\* the byte count is what was copied.
ListedIsTrue ==
  /\ \A entry \in stats.inventory : entry[2] \in heldContents[entry[1]]
  /\ stats.bytes <= MaxSaveBytes
  /\ stats.bytes = MapThenSumSet(LAMBDA entry : Len(entry[2]), stats.inventory)

\* A save that is being rewritten throughout a poll holds the copy back, with
\* or without the SDK's counter: the copy starts only when at some moment of the
\* poll that let it start nothing was being rewritten.
\* And the save step of a package ends (the gate polls a bounded time, a file is
\* tried a bounded number of times), even when the title never closes its
\* transaction or the markers of an interrupted save never go away.
SaveStepWaitsAndEnds ==
  /\ [][copier = "decide" /\ copier' = "copy" => quiet]_saveCopyVars
  /\ (copier = "scan") ~> (copier = "done")

\* The save tree is not read while a transaction is open: "it never races a
\* save transaction".
NeverRacesTransaction ==
  copier \in {"stat", "time", "read", "after", "compare"} => title = "closed"
=============================================================================
