--------------------------- MODULE MCLauncherStores ---------------------------
(***************************************************************************)
(* The launcher apart from the profiles: its preference store, the build   *)
(* lease cache and the download behind it, its window, and the export of   *)
(* metadata with the performance log reader.  They share nothing; a        *)
(* behaviour explores one of them while the others rest.                   *)
(***************************************************************************)
EXTENDS PreferenceStore, BuildLease, LeaseFetch, LauncherWindow, MetadataExport, TLC

\* Export inputs: two that read alike and one whose files differ.
CONSTANTS x1, x2, x3
GoodFacts == [session |-> "complete", receipt |-> "selected profile", capabilities |-> "canonical",
              manifest |-> "live", stateHash |-> 1, manifestHash |-> 1]
Facts == [i \in {x1, x2, x3} |-> IF i = x3 THEN [GoodFacts EXCEPT !.stateHash = 2] ELSE GoodFacts]

VARIABLE scene

all == <<scene, vars, leaseVars, fetchVars, windowVars, exportVars, perfVars>>

Init == /\ StoreInit /\ LeaseInit /\ FetchInit /\ WindowInit /\ ExportInit /\ PerfInit
        /\ scene \in {"store", "lease", "fetch", "window", "export", "perf"}
        /\ scene # "lease" => schema = "V1"

Next == /\ \/ scene = "store" /\ StoreNext
              /\ UNCHANGED <<leaseVars, fetchVars, windowVars, exportVars, perfVars>>
           \/ scene = "lease" /\ LeaseNext
              /\ UNCHANGED <<vars, fetchVars, windowVars, exportVars, perfVars>>
           \/ scene = "fetch" /\ FetchNext
              /\ UNCHANGED <<vars, leaseVars, windowVars, exportVars, perfVars>>
           \/ scene = "window" /\ WindowNext
              /\ UNCHANGED <<vars, leaseVars, fetchVars, exportVars, perfVars>>
           \/ scene = "export" /\ ExportNext
              /\ UNCHANGED <<vars, leaseVars, fetchVars, windowVars, perfVars>>
           \/ scene = "perf" /\ PerfNext
              /\ UNCHANGED <<vars, leaseVars, fetchVars, windowVars, exportVars>>
        /\ UNCHANGED scene

Spec == Init /\ [][Next]_all

\* Launchers, profile identities and checking processes are interchangeable.
Symmetry == Permutations(Launchers) \cup Permutations(Entries) \cup Permutations(Checks)
=============================================================================
