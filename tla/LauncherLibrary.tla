---------------------------- MODULE LauncherLibrary ----------------------------
(***************************************************************************)
(* What the launcher promises about a user's profile library and settings: *)
(* the durable document only ever changes by one whole user operation      *)
(* applied to the latest durable document, whatever number of launcher     *)
(* processes is started on it.  An edit made behind the launcher's back is *)
(* counted, so that it cannot be mistaken for an operation, and a document *)
(* that no longer decodes is never replaced.                               *)
(***************************************************************************)
EXTENDS PreferenceDocument

VARIABLES
  library,  \* durable document: None (no file), Damaged or a document
  edits     \* edits made outside the launcher

Init ==
  /\ library = None
  /\ edits = 0

Commit ==
  /\ library # Damaged
  /\ library' \in Operations(DocumentOf(library))
  /\ UNCHANGED edits

Edit ==
  /\ edits < MaxEdits
  /\ edits' = edits + 1
  /\ library' \in Preferences \cup {None, Damaged}

Next == Commit \/ Edit
Spec == Init /\ [][Next]_<<library, edits>>
=============================================================================
