------------------------------ MODULE RaceAudit ------------------------------
(***************************************************************************)
(* The race system audit of the host: hooks on seven guest functions, each *)
(* of which calls the original and then records under one mutex.  The      *)
(* three fields of a race description are read by separate getters and are *)
(* put together per guest object in a small table that reuses its oldest   *)
(* row.  A completed description, a finish and a checkpoint list longer    *)
(* than any before are written to the log one by one, as long as there is  *)
(* room for details.                                                       *)
(***************************************************************************)
EXTENDS Naturals, Sequences, FiniteSets

CONSTANTS Races,          \* guest race description objects
          NoRace,         \* a free row, an unread field (UINT32_MAX)
          AuditRows,      \* kRaceDescriptionAuditCapacity
          DetailCapacity, \* kRaceSystemDetailCapacity
          ListCounts,     \* numbers of checkpoints a list may have
          MaxAuditCalls   \* bound: calls of the hooked functions

ASSUME AuditConstants ==
    /\ AuditRows \in Nat \ {0} /\ NoRace \notin Races
    /\ DetailCapacity \in Nat /\ ListCounts \subseteq Nat

VARIABLES rTable,   \* race_description_audit_states
          rUpdates, \* race_system_audit_sequence
          rCounts,  \* race_system_audit_snapshot: completions, finishes, details, dropped;
                    \* grew (history): lists that were longer than any before
          rCalls,   \* race_system_audit_snapshot: checkpoint lists, hits and results,
                    \* and the length of the longest list
          rLatest,  \* its latest_race_type, latest_race_subtype and latest_cop_zones
          rEnabled, \* race_system_audit_enabled
          rFrozen   \* what FreezeRaceSystemAudit returned, or <<>>

auditVars == <<rTable, rUpdates, rCounts, rCalls, rLatest, rEnabled, rFrozen>>

Fields == {"type", "subtype", "cops"}
FreeRow == [race |-> NoRace, last |-> 0, read |-> [f \in Fields |-> NoRace]]
AuditInit ==
    /\ rTable = [i \in 1..AuditRows |-> FreeRow] /\ rUpdates = 0
    /\ rCounts = [complete |-> 0, finish |-> 0, grew |-> 0, details |-> 0, dropped |-> 0]
    /\ rCalls = [lists |-> 0, hits |-> 0, results |-> 0, longest |-> 0]
    /\ rLatest = [f \in Fields |-> NoRace]
    /\ rEnabled = TRUE /\ rFrozen = <<>>

IsComplete(row) == \A f \in Fields: row.read[f] # NoRace
Detailed(counts) == IF counts.details < DetailCapacity THEN [counts EXCEPT !.details = @ + 1]
                    ELSE [counts EXCEPT !.dropped = @ + 1]

\* A hook records while the audit is enabled; the bound on what is explored.
Records ==
    /\ rEnabled
    /\ rUpdates + rCounts.finish + rCalls.lists + rCalls.hits + rCalls.results < MaxAuditCalls

\* FindRaceDescriptionAuditState: the object's row, else the first free one, else
\* the one updated longest ago, which starts anew.
First(S) == CHOOSE i \in S: \A j \in S: i <= j
RowOf(race) ==
    LET own == {i \in 1..AuditRows: rTable[i].race = race}
        free == {i \in 1..AuditRows: rTable[i].race = NoRace}
    IN  IF own # {} THEN First(own)
        ELSE IF free # {} THEN First(free)
        ELSE First({i \in 1..AuditRows: \A j \in 1..AuditRows: rTable[i].last <= rTable[j].last})
\* A reused row keeps no field of the race it held.
StartsAnew(race, row) == IF row.race = race THEN row ELSE [FreeRow EXCEPT !.race = race]

\* RecordRaceDescriptionAudit, from one of the three getters.
RecordField(race, field) ==
    LET i == RowOf(race)
        before == StartsAnew(race, rTable[i])
        after == [before EXCEPT !.read[field] = race, !.last = rUpdates + 1]
        completes == ~IsComplete(before) /\ IsComplete(after)
    IN  /\ Records
        /\ rTable' = [rTable EXCEPT ![i] = after] /\ rUpdates' = rUpdates + 1
        /\ rCounts' = IF completes THEN Detailed([rCounts EXCEPT !.complete = @ + 1]) ELSE rCounts
        /\ UNCHANGED <<rCalls, rLatest, rEnabled, rFrozen>>

\* GetLatestCompleteRaceDescriptionAuditState
LatestComplete ==
    LET complete == {i \in 1..AuditRows: IsComplete(rTable[i])}
    IN  {i \in complete: \A j \in complete: rTable[j].last <= rTable[i].last}
\* RaceFinishProbe
RaceFinish ==
    /\ Records
    /\ rCounts' = Detailed([rCounts EXCEPT !.finish = @ + 1])
    /\ rLatest' = IF LatestComplete = {} THEN rLatest ELSE rTable[First(LatestComplete)].read
    /\ UNCHANGED <<rTable, rUpdates, rCalls, rEnabled, rFrozen>>

\* CheckpointListCountProbe: a list that is longer than any before is a detail.
CheckpointList(count) ==
    /\ Records
    /\ rCalls' = [rCalls EXCEPT !.lists = @ + 1, !.longest = IF count > @ THEN count ELSE @]
    /\ rCounts' = IF count > rCalls.longest THEN Detailed([rCounts EXCEPT !.grew = @ + 1]) ELSE rCounts
    /\ UNCHANGED <<rTable, rUpdates, rLatest, rEnabled, rFrozen>>
\* CheckpointHitProbe and RaceResultProbe only count.
CheckpointHit ==
    /\ Records /\ rCalls' = [rCalls EXCEPT !.hits = @ + 1]
    /\ UNCHANGED <<rTable, rUpdates, rCounts, rLatest, rEnabled, rFrozen>>
RaceResult ==
    /\ Records /\ rCalls' = [rCalls EXCEPT !.results = @ + 1]
    /\ UNCHANGED <<rTable, rUpdates, rCounts, rLatest, rEnabled, rFrozen>>
\* FreezeRaceSystemAudit
FreezeAudit ==
    /\ rEnabled /\ rEnabled' = FALSE /\ rFrozen' = <<rCounts, rCalls, rLatest>>
    /\ UNCHANGED <<rTable, rUpdates, rCounts, rCalls, rLatest>>

AuditNext ==
    \/ \E race \in Races, field \in Fields: RecordField(race, field)
    \/ \E count \in ListCounts: CheckpointList(count)
    \/ CheckpointHit \/ RaceFinish \/ RaceResult \/ FreezeAudit
AuditSpec == AuditInit /\ [][AuditNext]_auditVars

\* The description that a finish reports is one race's, all three fields, however
\* the getters of several races interleave and rows are reused
\* (RaceFinishProbe, FindRaceDescriptionAuditState).  The frozen summary accounts
\* for everything three of the hooks had to tell: each completed description, each
\* finish and each list that was the longest so far is a detail or is counted as
\* dropped, and nothing is dropped while there is room (FreezeRaceSystemAudit).
DescriptionIsOfOneRace ==
    /\ Cardinality({rLatest[f]: f \in Fields}) = 1
    /\ \A i \in 1..AuditRows: \A f \in Fields: rTable[i].read[f] \in {NoRace, rTable[i].race}
    /\ \A i, j \in 1..AuditRows: i # j /\ rTable[i].race # NoRace => rTable[i].race # rTable[j].race
    /\ rCounts.details + rCounts.dropped = rCounts.complete + rCounts.finish + rCounts.grew
    /\ rCounts.dropped > 0 => rCounts.details = DetailCapacity
    /\ rCounts.grew <= rCalls.lists /\ rCounts.grew <= rCalls.longest
    /\ ~rEnabled => rFrozen = <<rCounts, rCalls, rLatest>>
=============================================================================
