--------------------------- MODULE PreferenceDocument ---------------------------
(***************************************************************************)
(* The document kept in preferences.dat (mcla_launcher_preferences.h,      *)
(* mcla_launcher_library_codec.h, mcla_launcher_profile_policy.h) and the  *)
(* operations of the launcher on it.                                       *)
(*                                                                         *)
(* Roots, GPU name, render target, vsync, fullscreen and timing are one    *)
(* value, `settings'.  Encoding is canonical and Decode inverts it, so the *)
(* bytes of a valid file are its document; Damaged stands for the bytes    *)
(* DecodePreferences refuses.                                              *)
(***************************************************************************)
EXTENDS Integers, FiniteSets

CONSTANTS
  Entries,          \* profile identities
  Labels,           \* library labels
  Choices,          \* settings the form can hold
  FirstChoice,      \* FirstRunPreferences
  MaximumProfiles,  \* kMaximumProfiles, 64
  MaxEdits,         \* bound of the model: edits behind the launcher's back
  None,             \* absent value
  Damaged           \* bytes that do not decode

ASSUME LibraryConstants ==
  /\ FirstChoice \in Choices
  /\ MaximumProfiles \in Nat \ {0}
  /\ MaxEdits \in Nat
  /\ None \notin Entries \cup Labels
  /\ None # Damaged

Documents == [labels : [Entries -> Labels \cup {None}], selected : Entries \cup {None},
              settings : Choices]
WithLabel(p, e, a)  == [labels |-> [p.labels EXCEPT ![e] = a], selected |-> p.selected,
                        settings |-> p.settings]
WithSelected(p, e)  == [labels |-> p.labels, selected |-> e, settings |-> p.settings]
WithSettings(p, c)  == [labels |-> p.labels, selected |-> p.selected, settings |-> c]

Registered(p) == {e \in Entries : p.labels[e] # None}

\* ValidateStorageModel: identities are unique by construction here, the
\* number of entries is bounded, and a stale selection is representable.
Valid(p) == Cardinality(Registered(p)) <= MaximumProfiles
Preferences == {p \in Documents : Valid(p)}

\* Bytes that do not decode, and the absence of a file, are no document.
ASSUME NotDocuments == Preferences \cap {None, Damaged} = {}

\* First run: no profile, nothing selected, default settings.
FirstRun == [labels |-> [e \in Entries |-> None], selected |-> None, settings |-> FirstChoice]

\* The operations of the launcher that end in PreferenceStore::Save.
Registrations(p) == {WithLabel(p, e, a) : e \in Entries \ Registered(p), a \in Labels}
Selections(p)    == {WithSelected(p, e) : e \in Registered(p)}
Relabels(p)      == {WithLabel(p, e, a) : e \in Registered(p) \cap {p.selected}, a \in Labels}
NewSettings(p)   == {WithSettings(p, c) : c \in Choices}
AnyOperation(p) == Registrations(p) \cup Selections(p) \cup Relabels(p) \cup NewSettings(p)

\* EncodePreferences validates the result before anything is written.
Operations(p) == {q \in AnyOperation(p) : Valid(q)}

\* The document a reader of the file sees: a missing file is the first run.
DocumentOf(bytes) == IF bytes = None THEN FirstRun ELSE bytes
=============================================================================
