---------------------------- MODULE PortableProofs ---------------------------
(***************************************************************************)
(* The portable bundle, for any number of launchers and launches, each of  *)
(* which may be ended at any point:                                        *)
(*                                                                         *)
(*   OneWriterAtATime   bundle.lock, the open session and the running      *)
(*                      title have one owner, and the history its limit    *)
(*   ProvenanceIsKept   what is published stays, and so does a session in  *)
(*                      which the title ran                                *)
(*   EverySessionTellsItsEnd                                               *)
(*                      its snapshots are states of the save, it can be    *)
(*                      recovered, and closed it has the last save         *)
(*                                                                         *)
(* The first two follow from PortableInv.  Its core is Exclusive, that the *)
(* handle on bundle.lock is held by exactly the launchers inside it and    *)
(* that there is one at most; only then does what a launcher found below   *)
(* results at one step (Relies) still hold at the next.  The third adds    *)
(* SaveInv: what a launcher knows of the save at each step of a snapshot   *)
(* (Knows), and what a directory tells (Tells).                            *)
(***************************************************************************)
EXTENDS PortableLauncher, FiniteSetTheorems, TLAPS

Pairs == Nat \X Nat
PSteps == {"out", "delete", "again", "validate", "recover", "capacity", "manifest", "readSave", "readHeader",
           "copySave", "copyHeader", "afterSave", "afterHeader", "publish", "interrupted", "spawn", "job",
           "watch", "result", "rename", "journal", "name", "receipt", "leave", "remove"}
Unlocked == {"out", "delete", "again", "remove"}
Capturing == {"readSave", "readHeader", "copySave", "copyHeader", "afterSave", "afterHeader", "publish"}
Modes == {"play", "verify", "rename", "refused"}
Reasons == {"recover", "start", "watch", "exit"}

PLocals == [at : PSteps, mode : Modes, n : Nat, target : Nat, reason : Reasons, before : Pairs, last : Pairs,
            count : Nat, warned : BOOLEAN]
PRecords == [kind : {"none", "session", "rename"}, open : BOOLEAN, manifest : BOOLEAN, saves : Seq(Pairs),
             staging : Pairs, state : {"none", "complete", "interrupted", "renamed"}, final : Pairs,
             count : Nat, warned : BOOLEAN, ran : BOOLEAN]

PortableTypes ==
  /\ bundleLock \in [exists : BOOLEAN, holders : SUBSET PLaunchers]
  /\ pLauncher \in [PLaunchers -> PLocals]
  /\ results \in [Launches -> PRecords]
  /\ userSave \in Pairs
  /\ hosts \in [Launches -> {"none", "loose", "contained", "dying"}]
  /\ launches \in 0..MaxLaunches /\ writes \in Nat
  /\ strays \in SUBSET {"loose", "dying"}

\* bundle.lock is what it is for: the launchers inside hold it, and nobody else.
Exclusive ==
  /\ \A l \in PLaunchers : l \in bundleLock.holders <=> pLauncher[l].at \notin Unlocked
  /\ \A l, m \in bundleLock.holders : l = m
  /\ bundleLock.holders # {} => bundleLock.exists

\* A launch has a number of its own, and nothing is known of a later one.
Numbered(p) == p.at \notin {"out", "remove"}
Numbers ==
  /\ \A l \in PLaunchers : Numbered(pLauncher[l]) => pLauncher[l].n \in 1..launches
  /\ \A l, m \in PLaunchers :
       Numbered(pLauncher[l]) /\ Numbered(pLauncher[m]) /\ pLauncher[l].n = pLauncher[m].n => l = m
  /\ \A n \in Launches : n > launches => results[n].kind = "none"

\* What a launcher at some step relies on below results.
Fresh(p) == p.at \in {"delete", "again", "validate", "recover", "capacity", "interrupted", "rename"}
              \/ (p.at \in Capturing /\ p.reason = "recover")
Owns(p) == p.at \in {"manifest", "spawn", "job", "watch", "result"} \/ (p.at \in Capturing /\ p.reason # "recover")
OnTarget(p) == p.at \in Capturing \cup {"interrupted", "result"}
NotRun(p) == p.at \in {"manifest", "spawn"} \/ (p.at \in Capturing /\ p.reason = "start")
Renames(p) == p.at \in {"journal", "name", "receipt"}
Relies(p, res) ==
  /\ Fresh(p) => res[p.n].kind = "none"
  /\ Owns(p) => res[p.n].kind = "session" /\ res[p.n].open
  /\ NotRun(p) => ~res[p.n].ran
  /\ OnTarget(p) => p.target \in Launches /\ res[p.target].kind = "session" /\ res[p.target].open
  /\ OnTarget(p) /\ Owns(p) => p.target = p.n
  /\ Renames(p) => res[p.n].kind = "rename" /\ res[p.n].open

OneSession == \A m, n \in OpenSessions : m = n
TitleHasLauncher ==
  "loose" \notin strays => \A n \in Launches : hosts[n] \in {"loose", "contained"} => \E l \in bundleLock.holders : pLauncher[l].n = n

RanInSession == \A n \in Launches : results[n].ran => results[n].kind = "session"

PortableInv ==
  /\ PortableTypes /\ Exclusive /\ Numbers
  /\ \A l \in PLaunchers : Relies(pLauncher[l], results)
  /\ OneSession /\ TitleHasLauncher /\ RanInSession
  /\ Cardinality(Records) <= RecordsKept

LEMMA SaveTypes == NoSave \in Pairs /\ Outside \in PLocals /\ NoRecord \in PRecords
<1>1. NoSave \in Pairs
  BY DEF NoSave, Pairs
<1>2. <<>> \in Seq(Pairs)
  OBVIOUS
<1> QED BY <1>1, <1>2 DEF Outside, PLocals, NoRecord, PRecords, PSteps, Modes, Reasons

LEMMA InitPortable == PortableInit => PortableInv
<1> SUFFICES ASSUME PortableInit  PROVE PortableInv
  OBVIOUS
<1>1. /\ bundleLock = [exists |-> FALSE, holders |-> {}] /\ pLauncher = [l \in PLaunchers |-> Outside]
      /\ results = [n \in Launches |-> NoRecord] /\ hosts = [n \in Launches |-> "none"]
      /\ userSave \in {NoSave, <<1, 1>>} /\ launches = 0 /\ writes = 0 /\ strays = {}
  BY DEF PortableInit
<1>2. Outside.at = "out" /\ NoRecord.kind = "none" /\ ~NoRecord.ran
  BY DEF Outside, NoRecord
<1>3. PortableTypes
  <2>1. bundleLock \in [exists : BOOLEAN, holders : SUBSET PLaunchers]
    BY <1>1
  <2>2. userSave \in Pairs
    BY <1>1, SaveTypes DEF Pairs
  <2>3. strays \in SUBSET {"loose", "dying"}
    BY <1>1, Zenon
  <2>4. launches \in 0..MaxLaunches /\ writes \in Nat
    BY <1>1, PortableBounds
  <2> QED BY <1>1, <2>1, <2>2, <2>3, <2>4, SaveTypes DEF PortableTypes
<1>4. \A l \in PLaunchers : pLauncher[l].at = "out"
  BY <1>1, <1>2
<1>5. \A n \in Launches : results[n].kind = "none" /\ hosts[n] = "none" /\ ~results[n].ran
  BY <1>1, <1>2
<1>6. bundleLock.holders = {}
  BY <1>1
<1>7. Exclusive /\ Numbers
  BY <1>4, <1>5, <1>6 DEF Exclusive, Numbers, Numbered, Unlocked
<1>8. \A l \in PLaunchers : Relies(pLauncher[l], results)
  BY <1>4 DEF Relies, Fresh, Owns, OnTarget, NotRun, Renames, Capturing
<1>9. OneSession /\ TitleHasLauncher /\ RanInSession
  BY <1>5 DEF OneSession, TitleHasLauncher, OpenSessions, RanInSession
<1>10. Records = {}
  BY <1>5 DEF Records
<1>11. Cardinality(Records) <= RecordsKept
  BY <1>10, FS_EmptySet, PortableBounds
<1> QED BY <1>3, <1>7, <1>8, <1>9, <1>11 DEF PortableInv

-----------------------------------------------------------------------------
(* A step of the launcher inside the lock: it stays inside, keeps its       *)
(* number, and gives one directory k below results the record r.            *)

Goes(l, q, k, r) ==
  /\ pLauncher' = [pLauncher EXCEPT ![l] = q] /\ q.at \notin Unlocked /\ q.n = pLauncher[l].n
  /\ results' = [results EXCEPT ![k] = r]
  /\ UNCHANGED <<bundleLock, launches, strays>>
  /\ hosts' \in [Launches -> {"none", "loose", "contained", "dying"}]
  /\ \A m \in Launches : hosts'[m] \in {"loose", "contained"} => hosts[m] \in {"loose", "contained"} \/ m = pLauncher[l].n
  /\ userSave' = userSave /\ writes' = writes
  /\ results[k].kind # "none" /\ ~results[k].open => r = results[k]
  /\ results[k].ran => r.ran
  /\ r.ran => r.kind = "session"
  /\ r.kind = "session" /\ r.open => k \in OpenSessions \/ OpenSessions = {}
  /\ r.kind # "none" => results[k].kind # "none" \/ (HasHistoryCapacity /\ k = pLauncher[l].n)
  /\ Relies(q, results')

History == \A n \in Launches : /\ results[n].kind # "none" /\ ~results[n].open => results'[n] = results[n]
                               /\ results[n].ran => results'[n].ran

\* The launchers outside the lock do not rely on what the one inside changes.
LEMMA OthersRely ==
  ASSUME PortableInv, NEW l \in bundleLock.holders, NEW k \in Launches, NEW r,
         results' = [results EXCEPT ![k] = r], r.kind # "none" => results[k].kind # "none" \/ k = pLauncher[l].n,
         NEW m \in PLaunchers, m # l
  PROVE  Relies(pLauncher[m], results')
<1>1. results \in [Launches -> PRecords] /\ Relies(pLauncher[m], results) /\ Exclusive /\ Numbers /\ PortableTypes
  BY DEF PortableInv, PortableTypes
<1>2. l \in PLaunchers /\ pLauncher[l].at \notin Unlocked
  BY <1>1 DEF Exclusive, PortableTypes
<1>3. pLauncher[m].at \in Unlocked
  BY <1>1 DEF Exclusive
<1>4. ASSUME Fresh(pLauncher[m])  PROVE results'[pLauncher[m].n].kind = "none"
  <2>1. Numbered(pLauncher[m]) /\ Numbered(pLauncher[l])
    BY <1>2, <1>3, <1>4 DEF Fresh, Numbered, Unlocked, Capturing
  <2>2. pLauncher[m].n # pLauncher[l].n /\ pLauncher[m].n \in 1..launches
    BY <1>1, <1>2, <2>1 DEF Numbers
  <2>3. pLauncher[m].n \in Launches
    BY <1>1, <2>2, PortableBounds DEF PortableTypes, Launches
  <2>4. results[pLauncher[m].n].kind = "none"
    BY <1>1, <1>4 DEF Relies
  <2> QED BY <1>1, <2>2, <2>3, <2>4
<1>5. ~Owns(pLauncher[m]) /\ ~OnTarget(pLauncher[m]) /\ ~NotRun(pLauncher[m]) /\ ~Renames(pLauncher[m])
  BY <1>3 DEF Owns, OnTarget, NotRun, Renames, Unlocked, Capturing
<1> QED BY <1>4, <1>5 DEF Relies

\* One file of the save changes.
LEMMA PairWrites ==
  ASSUME NEW pair \in Pairs, NEW x \in Nat
  PROVE  /\ [pair EXCEPT ![1] = x] = <<x, pair[2]>> /\ [pair EXCEPT ![2] = x] = <<pair[1], x>>
         /\ pair = <<pair[1], pair[2]>> /\ pair[1] \in Nat /\ pair[2] \in Nat
<1>1. pair = <<pair[1], pair[2]>> /\ pair[1] \in Nat /\ pair[2] \in Nat
  BY DEF Pairs
<1>2. ASSUME NEW a, NEW b PROVE [<<a, b>> EXCEPT ![1] = x] = <<x, b>> /\ [<<a, b>> EXCEPT ![2] = x] = <<a, x>>
  OBVIOUS
<1> QED BY <1>1, <1>2

LEMMA LaunchesFinite == IsFiniteSet(Launches)
BY FS_Interval, PortableBounds DEF Launches

\* A step that gives one directory a record keeps the history within its limit.
LEMMA CapacityHolds ==
  ASSUME PortableInv, NEW k \in Launches, NEW r, results' = [results EXCEPT ![k] = r],
         r.kind # "none" => results[k].kind # "none" \/ HasHistoryCapacity
  PROVE  Cardinality(Records') <= RecordsKept
<1>1. Records \subseteq Launches /\ Records' \subseteq Launches /\ IsFiniteSet(Records) /\ IsFiniteSet(Records')
  BY LaunchesFinite, FS_Subset DEF Records
<1>2. Cardinality(Records) \in Nat /\ Cardinality(Records') \in Nat /\ RecordsKept \in Nat
  BY <1>1, FS_CardinalityType, PortableBounds
<1>3. results \in [Launches -> PRecords] /\ Cardinality(Records) <= RecordsKept
  BY DEF PortableInv, PortableTypes
<1>4. CASE r.kind # "none" /\ results[k].kind = "none"
  <2>1. Records' \subseteq Records \cup {k} /\ k \notin Records
    BY <1>3, <1>4 DEF Records
  <2>2. Cardinality(Records \cup {k}) = Cardinality(Records) + 1 /\ IsFiniteSet(Records \cup {k})
    BY <1>1, <2>1, FS_AddElement
  <2>3. Cardinality(Records') <= Cardinality(Records \cup {k})
    BY <2>1, <2>2, FS_Subset
  <2>4. Cardinality(Records) < RecordsKept
    BY <1>4 DEF HasHistoryCapacity
  <2> QED BY <1>2, <2>2, <2>3, <2>4
<1>5. CASE ~(r.kind # "none" /\ results[k].kind = "none")
  <2>1. Records' \subseteq Records
    BY <1>3, <1>5 DEF Records
  <2>2. Cardinality(Records') <= Cardinality(Records)
    BY <1>1, <2>1, FS_Subset
  <2> QED BY <1>2, <1>3, <2>2
<1> QED BY <1>4, <1>5

LEMMA GoesKeeps ==
  ASSUME PortableInv, NEW l \in bundleLock.holders, NEW q \in PLocals, NEW k \in Launches, NEW r \in PRecords,
         Goes(l, q, k, r)
  PROVE  PortableInv' /\ History
<1> DEFINE p == pLauncher[l]
<1>1. /\ PortableTypes /\ Exclusive /\ Numbers /\ OneSession /\ TitleHasLauncher /\ RanInSession /\ l \in PLaunchers
      /\ results \in [Launches -> PRecords] /\ pLauncher \in [PLaunchers -> PLocals]
  BY DEF PortableInv, PortableTypes
<1>2. pLauncher' = [pLauncher EXCEPT ![l] = q] /\ q.at \notin Unlocked /\ q.n = p.n
  BY DEF Goes
<1>3. results' = [results EXCEPT ![k] = r] /\ UNCHANGED <<bundleLock, launches, strays, userSave, writes>>
  BY DEF Goes
<1>4. /\ pLauncher' \in [PLaunchers -> PLocals] /\ pLauncher'[l] = q
      /\ \A m \in PLaunchers : m # l => pLauncher'[m] = pLauncher[m]
  BY <1>1, <1>2
<1>5. /\ results' \in [Launches -> PRecords] /\ results'[k] = r
      /\ \A n \in Launches : n # k => results'[n] = results[n]
  BY <1>1, <1>3
<1>6. PortableTypes'
  BY <1>1, <1>3, <1>4, <1>5 DEF PortableTypes, Goes
<1>7. p.at \notin Unlocked
  BY <1>1 DEF Exclusive
<1>8. Exclusive'
  BY <1>1, <1>2, <1>3, <1>4, <1>7 DEF Exclusive
<1>9. Numbers'
  <2>1. Numbered(p) /\ Numbered(q)
    BY <1>2, <1>7 DEF Numbered, Unlocked
  <2>2. \A m \in PLaunchers : pLauncher'[m].n = pLauncher[m].n
    BY <1>2, <1>4
  <2>3. \A m \in PLaunchers : Numbered(pLauncher'[m]) <=> Numbered(pLauncher[m])
    BY <1>4, <2>1
  <2>4. p.n \in 1..launches /\ launches \in Nat
    BY <1>1, <2>1 DEF Numbers, PortableTypes
  <2>5. r.kind # "none" => k <= launches
    <3>1. CASE results[k].kind # "none"
      BY <1>1, <2>4, <3>1 DEF Numbers, Launches
    <3>2. CASE results[k].kind = "none"
      BY <2>4, <3>2 DEF Goes
    <3> QED BY <3>1, <3>2
  <2>6. \A n \in Launches : n > launches => results'[n].kind = "none"
    <3> TAKE n \in Launches
    <3>1. CASE n = k
      BY <1>5, <2>4, <2>5, <3>1 DEF Launches
    <3>2. CASE n # k
      BY <1>1, <1>5, <3>2 DEF Numbers
    <3> QED BY <3>1, <3>2
  <2>7. \A m \in PLaunchers : Numbered(pLauncher'[m]) => pLauncher'[m].n \in 1..launches
    BY <1>1, <2>2, <2>3 DEF Numbers
  <2>8. \A h, m \in PLaunchers :
          Numbered(pLauncher'[h]) /\ Numbered(pLauncher'[m]) /\ pLauncher'[h].n = pLauncher'[m].n => h = m
    BY <1>1, <2>2, <2>3 DEF Numbers
  <2> QED BY <1>3, <2>6, <2>7, <2>8 DEF Numbers, Numbered
<1>10. \A m \in PLaunchers : Relies(pLauncher'[m], results')
  <2> TAKE m \in PLaunchers
  <2>1. CASE m = l
    BY <1>4, <2>1 DEF Goes
  <2>2. CASE m # l
    <3>1. r.kind # "none" => results[k].kind # "none" \/ k = pLauncher[l].n
      BY DEF Goes
    <3>2. Relies(pLauncher[m], results')
      BY <1>3, <2>2, <3>1, OthersRely
    <3> QED BY <1>4, <2>2, <3>2
  <2> QED BY <2>1, <2>2
<1>11. OneSession'
  <2>1. \A n \in OpenSessions' : n # k => n \in OpenSessions
    BY <1>5 DEF OpenSessions
  <2>2. k \in OpenSessions' => k \in OpenSessions \/ OpenSessions = {}
    BY <1>5 DEF OpenSessions, Goes
  <2> QED BY <1>1, <2>1, <2>2 DEF OneSession
<1>12. TitleHasLauncher'
  <2> SUFFICES ASSUME "loose" \notin strays, NEW n \in Launches, hosts'[n] \in {"loose", "contained"}
               PROVE  \E m \in bundleLock.holders : pLauncher'[m].n = n
    BY <1>3 DEF TitleHasLauncher
  <2>1. CASE n = p.n
    BY <1>2, <1>4, <2>1
  <2>2. CASE hosts[n] \in {"loose", "contained"}
    <3>1. PICK m \in bundleLock.holders : pLauncher[m].n = n
      BY <1>1, <2>2 DEF TitleHasLauncher
    <3>2. m \in PLaunchers
      BY <1>1 DEF PortableTypes
    <3>3. pLauncher'[m].n = n
      BY <1>2, <1>4, <3>1, <3>2
    <3> QED BY <3>3
  <2> QED BY <2>1, <2>2 DEF Goes
<1>13. Cardinality(Records') <= RecordsKept
  BY <1>3, CapacityHolds DEF Goes
<1>14. History
  BY <1>5 DEF History, Goes
<1>15. RanInSession'
  BY <1>1, <1>5 DEF RanInSession, Goes
<1> QED BY <1>6, <1>8, <1>9, <1>10, <1>11, <1>12, <1>13, <1>14, <1>15 DEF PortableInv

LEMMA InsideHolds ==
  ASSUME PortableInv, NEW l \in PLaunchers, pLauncher[l].at \notin Unlocked
  PROVE  /\ l \in bundleLock.holders /\ pLauncher[l] \in PLocals
         /\ pLauncher[l].n \in Launches /\ Relies(pLauncher[l], results)
         /\ results[pLauncher[l].n] \in PRecords
<1>1. l \in bundleLock.holders /\ pLauncher[l] \in PLocals /\ Relies(pLauncher[l], results)
  BY DEF PortableInv, PortableTypes, Exclusive
<1>2. pLauncher[l].n \in 1..launches /\ launches \in 0..MaxLaunches
  BY DEF PortableInv, PortableTypes, Numbers, Numbered, Unlocked
<1>3. pLauncher[l].n \in Launches
  BY <1>2, PortableBounds DEF Launches
<1> QED BY <1>1, <1>3 DEF PortableInv, PortableTypes

\* A step that changes nothing but where the launcher is, or the name.
LEMMA RenamingStays ==
  ASSUME PortableInv, NEW l \in PLaunchers, pLauncher[l].at \notin Unlocked,
         NEW q \in PLocals, q.at \notin Unlocked, q.n = pLauncher[l].n, Relies(q, results),
         Locals(l, q), UNCHANGED results, RenameSame
  PROVE  PortableInv' /\ History
<1> DEFINE k == pLauncher[l].n
<1>1. l \in bundleLock.holders /\ k \in Launches /\ results[k] \in PRecords
  BY InsideHolds
<1>2. results' = [results EXCEPT ![k] = results[k]] /\ hosts' = hosts /\ hosts \in [Launches -> {"none", "loose", "contained", "dying"}]
  BY DEF PortableInv, PortableTypes, RenameSame
<1>3. Relies(q, results')
  OBVIOUS
<1>4. /\ results[k].kind = "session" /\ results[k].open => k \in OpenSessions
      /\ results[k].ran => results[k].kind = "session"
  BY <1>1 DEF OpenSessions, PortableInv, RanInSession
<1>5. Goes(l, q, k, results[k])
  BY <1>2, <1>3, <1>4 DEF Goes, Locals, LockSame, RenameSame
<1> QED BY <1>1, <1>5, GoesKeeps

LEMMA StaysKeeps ==
  ASSUME PortableInv, NEW l \in PLaunchers, pLauncher[l].at \notin Unlocked,
         NEW q \in PLocals, q.at \notin Unlocked, q.n = pLauncher[l].n, Relies(q, results),
         Locals(l, q), UNCHANGED results, LockSame, DiskSame
  PROVE  PortableInv' /\ History
<1>1. RenameSame
  BY DEF RenameSame, DiskSame
<1> QED BY <1>1, RenamingStays

LEMMA QuitsRely ==
  ASSUME NEW n \in Nat, NEW res
  PROVE  LET q == [Outside EXCEPT !.at = "leave", !.n = n]
         IN q \in PLocals /\ q.at = "leave" /\ q.n = n /\ Relies(q, res)
<1> DEFINE q == [Outside EXCEPT !.at = "leave", !.n = n]
<1>1. q \in PLocals /\ q.at = "leave" /\ q.n = n
  BY SaveTypes DEF PLocals, PSteps
<1> HIDE DEF q
<1>2. Relies(q, res)
  BY <1>1 DEF Relies, Fresh, Owns, OnTarget, NotRun, Renames, Capturing
<1> QED BY <1>1, <1>2 DEF q

LEMMA RenamingQuits ==
  ASSUME PortableInv, NEW l \in PLaunchers, pLauncher[l].at \notin Unlocked,
         Quits(l), UNCHANGED results, RenameSame
  PROVE  PortableInv' /\ History
<1> DEFINE q == [Outside EXCEPT !.at = "leave", !.n = pLauncher[l].n]
<1>1. pLauncher[l].n \in Nat
  BY InsideHolds DEF PLocals
<1>2. q \in PLocals /\ q.at = "leave" /\ q.n = pLauncher[l].n /\ Relies(q, results)
  BY <1>1, QuitsRely
<1>3. Locals(l, q) /\ "leave" \notin Unlocked
  BY DEF Quits, Unlocked
<1> HIDE DEF q
<1> QED BY <1>2, <1>3, RenamingStays

LEMMA QuitsKeeps ==
  ASSUME PortableInv, NEW l \in PLaunchers, pLauncher[l].at \notin Unlocked,
         Quits(l), UNCHANGED results, LockSame, DiskSame
  PROVE  PortableInv' /\ History
<1>1. RenameSame
  BY DEF RenameSame, DiskSame
<1> QED BY <1>1, RenamingQuits

\* A step that gives the directory k of an open session or journal a record of
\* the same kind, or removes it before a title has run in it.
LEMMA GivesKeeps ==
  ASSUME PortableInv, NEW l \in PLaunchers, pLauncher[l].at \notin Unlocked,
         NEW q \in PLocals, q.at \notin Unlocked, q.n = pLauncher[l].n, Locals(l, q),
         NEW k \in Launches, NEW r \in PRecords, results' = [results EXCEPT ![k] = r],
         results[k].kind # "none" /\ results[k].open, results[k].ran => r.ran, r.ran => r.kind = "session",
         r.kind = results[k].kind \/ r.kind = "none",
         Relies(q, results'), LockSame, DiskSame
  PROVE  PortableInv' /\ History
<1>1. l \in bundleLock.holders
  BY InsideHolds
<1>2. hosts' = hosts /\ hosts \in [Launches -> {"none", "loose", "contained", "dying"}]
  BY DEF PortableInv, PortableTypes, DiskSame
<1>3. r.kind = "session" /\ r.open => k \in OpenSessions
  BY DEF OpenSessions
<1>4. Goes(l, q, k, r)
  BY <1>2, <1>3 DEF Goes, Locals, LockSame, DiskSame
<1> QED BY <1>1, <1>4, GoesKeeps

-----------------------------------------------------------------------------
(* CaptureSave.                                                             *)

LEMMA ReturnsKeeps ==
  ASSUME PortableInv, NEW l \in PLaunchers, pLauncher[l].at \in Capturing, NEW ok \in BOOLEAN,
         NEW fields \in PLocals, fields.n = pLauncher[l].n, fields.target = pLauncher[l].target,
         NEW record \in PRecords, record.kind = "session", record.open,
         results[pLauncher[l].target].ran <=> record.ran,
         SnapshotReturns(l, ok, fields, record), LockSame, DiskSame
  PROVE  PortableInv' /\ History
<1> DEFINE p == pLauncher[l]
           t == p.target
<1>1. /\ p.at \notin Unlocked /\ p \in PLocals /\ p.n \in Launches /\ p.n \in Nat /\ Relies(p, results)
      /\ results \in [Launches -> PRecords]
  BY InsideHolds DEF Unlocked, Capturing, PLocals, PortableInv, PortableTypes
<1>2. t \in Launches /\ results[t].kind = "session" /\ results[t].open
  BY <1>1 DEF Relies, OnTarget
<1>3. p.reason \in Reasons
  BY <1>1 DEF PLocals
<1>4. PICK kept \in (IF ~ok /\ Discards(p.reason) THEN Removed(record) ELSE {record}) :
        results' = [results EXCEPT ![t] = kept]
  BY DEF SnapshotReturns
<1>5. ~(~ok /\ Discards(p.reason)) => kept = record
  BY <1>4
<1>6. ~ok /\ Discards(p.reason) => kept \in Removed(record) /\ p.reason = "start"
  BY <1>4 DEF Discards
<1>7. kept \in PRecords /\ (kept.kind = "session" \/ (kept.kind = "none" /\ ~kept.ran))
  <2>1. [record EXCEPT !.manifest = FALSE] \in PRecords /\ [record EXCEPT !.manifest = FALSE].kind = "session"
    BY DEF PRecords
  <2>2. NoRecord \in PRecords /\ NoRecord.kind = "none" /\ ~NoRecord.ran
    BY SaveTypes DEF NoRecord
  <2> QED BY <1>5, <1>6, <2>1, <2>2 DEF Removed
<1>8. results[t].ran => kept.ran
  <2>1. CASE ~ok /\ Discards(p.reason)
    <3>1. NotRun(p) /\ Owns(p) /\ OnTarget(p)
      BY <1>6, <2>1 DEF NotRun, Owns, OnTarget
    <3> QED BY <1>1, <3>1 DEF Relies
  <2>2. CASE ~(~ok /\ Discards(p.reason))
    BY <1>5, <2>2
  <2> QED BY <2>1, <2>2
<1>9. CASE Quits(l)
  <2> DEFINE q == [Outside EXCEPT !.at = "leave", !.n = p.n]
  <2>1. q \in PLocals /\ q.at = "leave" /\ q.n = p.n /\ Relies(q, results')
    BY <1>1, QuitsRely
  <2>2. Locals(l, q) /\ "leave" \notin Unlocked
    BY <1>9 DEF Quits, Unlocked
  <2> HIDE DEF q
  <2> QED BY <1>1, <1>2, <1>4, <1>7, <1>8, <2>1, <2>2, GivesKeeps
<1>10. ASSUME NEW next \in {"interrupted", "spawn", "watch", "result"},
              next = "interrupted" => p.reason = "recover" /\ ok,
              next = "spawn" => p.reason = "start" /\ ok,
              next = "watch" => p.reason = "watch",
              next = "result" => p.reason = "exit",
              Locals(l, [fields EXCEPT !.at = next, !.before = NoSave, !.reason = "start",
                           !.warned = @ \/ (~ok /\ p.reason \in {"watch", "exit"})])
       PROVE  PortableInv' /\ History
  <2> DEFINE w == fields.warned \/ (~ok /\ p.reason \in {"watch", "exit"})
             q == [fields EXCEPT !.at = next, !.before = NoSave, !.reason = "start", !.warned = w]
  <2>1. w \in BOOLEAN
    BY DEF PLocals
  <2>2. Locals(l, q)
    BY <1>10 DEF PLocals
  <2> HIDE DEF w
  <2>3. q \in PLocals /\ q.at = next /\ q.n = p.n /\ q.target = t /\ q.reason = "start"
    BY <2>1, SaveTypes DEF PLocals, PSteps, Reasons
  <2> HIDE DEF q
  <2>4. kept = record
    BY <1>5, <1>10 DEF Discards
  <2>5. /\ results'[t] = record /\ \A n \in Launches : n # t => results'[n] = results[n]
    BY <1>1, <1>2, <1>4, <2>4
  <2>6. next \notin Unlocked /\ next \notin Capturing
    BY DEF Unlocked, Capturing
  <2>7. Relies(q, results')
    <3>1. CASE next = "interrupted"
      <4>1. Fresh(p)
        BY <1>10, <3>1 DEF Fresh
      <4>2. results'[q.n].kind = "none"
        BY <1>1, <1>2, <2>3, <2>5, <4>1 DEF Relies
      <4>3. ~Owns(q) /\ ~NotRun(q) /\ ~Renames(q)
        BY <2>3, <2>6, <3>1 DEF Owns, NotRun, Renames
      <4> QED BY <1>2, <2>3, <2>5, <4>2, <4>3 DEF Relies
    <3>2. CASE next # "interrupted"
      <4>1. Owns(p) /\ OnTarget(p) /\ (next = "spawn" => NotRun(p))
        BY <1>10, <3>2 DEF Owns, OnTarget, NotRun
      <4>2. t = p.n /\ (next = "spawn" => ~record.ran)
        BY <1>1, <4>1 DEF Relies
      <4>3. ~Fresh(q) /\ ~Renames(q) /\ (NotRun(q) => next = "spawn")
        BY <2>3, <2>6, <3>2 DEF Fresh, Renames, NotRun
      <4> QED BY <1>2, <2>3, <2>5, <4>2, <4>3 DEF Relies
    <3> QED BY <3>1, <3>2
  <2> QED BY <1>1, <1>2, <1>4, <1>7, <1>8, <2>2, <2>3, <2>6, <2>7, GivesKeeps
<1> QED
  <2> DEFINE after(x) == [fields EXCEPT !.at = x, !.before = NoSave, !.reason = "start",
                           !.warned = @ \/ (~ok /\ p.reason \in {"watch", "exit"})]
  <2> HIDE DEF after
  <2>1. \/ Quits(l)
        \/ p.reason = "recover" /\ ok /\ Locals(l, after("interrupted"))
        \/ p.reason = "start" /\ ok /\ Locals(l, after("spawn"))
        \/ p.reason = "watch" /\ Locals(l, after("watch"))
        \/ p.reason = "exit" /\ Locals(l, after("result"))
    BY <1>3 DEF SnapshotReturns, Reasons, after
  <2> QED BY <1>9, <1>10, <2>1 DEF after

\* From one step of CaptureSave to another.
LEMMA CapturingKeeps ==
  ASSUME PortableInv, NEW l \in PLaunchers, pLauncher[l].at \in Capturing,
         NEW q \in PLocals, q.at \in Capturing, q.n = pLauncher[l].n, q.target = pLauncher[l].target,
         q.reason = pLauncher[l].reason, Locals(l, q),
         NEW r \in PRecords, results' = [results EXCEPT ![pLauncher[l].target] = r],
         r.kind = "session", r.open, results[pLauncher[l].target].ran <=> r.ran, LockSame, DiskSame
  PROVE  PortableInv' /\ History
<1> DEFINE p == pLauncher[l]
           t == p.target
<1>1. /\ p.at \notin Unlocked /\ q.at \notin Unlocked /\ p.n \in Launches /\ Relies(p, results)
      /\ results \in [Launches -> PRecords]
  BY InsideHolds DEF Unlocked, Capturing, PortableInv, PortableTypes
<1>2. t \in Launches /\ results[t].kind = "session" /\ results[t].open
  BY <1>1 DEF Relies, OnTarget
<1>3. results'[t] = r /\ \A n \in Launches : n # t => results'[n] = results[n]
  BY <1>1, <1>2
<1>4. (Fresh(q) <=> Fresh(p)) /\ (Owns(q) <=> Owns(p)) /\ (NotRun(q) <=> NotRun(p)) /\ ~Renames(q) /\ OnTarget(q) /\ OnTarget(p)
  BY DEF Fresh, Owns, NotRun, Renames, OnTarget, Capturing
<1>5. ASSUME Fresh(p)  PROVE results'[q.n].kind = "none"
  BY <1>1, <1>2, <1>3, <1>5 DEF Relies
<1>6. ASSUME Owns(p)  PROVE q.target = q.n /\ results'[q.n].kind = "session" /\ results'[q.n].open
  BY <1>1, <1>3, <1>4, <1>6 DEF Relies
<1>7. ASSUME NotRun(p)  PROVE ~results'[q.n].ran
  <2>1. Owns(p)
    BY <1>7 DEF NotRun, Owns
  <2>2. t = p.n /\ ~results[p.n].ran
    BY <1>1, <1>4, <1>7, <2>1 DEF Relies
  <2> QED BY <1>3, <2>2
<1>8. Relies(q, results')
  BY <1>2, <1>3, <1>4, <1>5, <1>6, <1>7 DEF Relies
<1> QED BY <1>1, <1>2, <1>8, GivesKeeps

LEMMA CapturingTarget ==
  ASSUME PortableInv, NEW l \in PLaunchers, pLauncher[l].at \in Capturing
  PROVE  /\ pLauncher[l] \in PLocals /\ pLauncher[l].at \notin Unlocked /\ pLauncher[l].target \in Launches
         /\ results[pLauncher[l].target] \in PRecords
         /\ results[pLauncher[l].target].kind = "session" /\ results[pLauncher[l].target].open
         /\ results = [results EXCEPT ![pLauncher[l].target] = results[pLauncher[l].target]]
         /\ userSave \in Pairs
<1>1. /\ pLauncher[l] \in PLocals /\ pLauncher[l].at \notin Unlocked /\ Relies(pLauncher[l], results)
      /\ results \in [Launches -> PRecords] /\ userSave \in Pairs
  BY InsideHolds DEF Unlocked, Capturing, PortableInv, PortableTypes
<1> QED BY <1>1 DEF Relies, OnTarget

LEMMA ReadSaveKeeps ==
  ASSUME PortableInv, NEW l \in PLaunchers, ReadSave(l)
  PROVE  PortableInv' /\ History
<1> DEFINE p == pLauncher[l]
           q == [p EXCEPT !.at = "readHeader", !.before = <<userSave[1], 0>>]
<1>1. p.at \in Capturing /\ Locals(l, q) /\ UNCHANGED results /\ LockSame /\ DiskSame
  BY DEF ReadSave, At, Capturing
<1>2. <<userSave[1], 0>> \in Pairs /\ p \in PLocals
  BY <1>1, CapturingTarget DEF Pairs
<1>3. q \in PLocals /\ q.at \in Capturing /\ q.n = p.n /\ q.target = p.target /\ q.reason = p.reason
  BY <1>2 DEF PLocals, PSteps, Capturing
<1> HIDE DEF q
<1> QED BY <1>1, <1>3, CapturingTarget, CapturingKeeps

LEMMA ReadHeaderKeeps ==
  ASSUME PortableInv, NEW l \in PLaunchers, ReadHeader(l)
  PROVE  PortableInv' /\ History
<1> DEFINE p == pLauncher[l]
           r == results[p.target]
           before == <<p.before[1], userSave[2]>>
<1>1. p.at \in Capturing /\ LockSame /\ DiskSame
  BY DEF ReadHeader, At, Capturing
<1>2. /\ p \in PLocals /\ r \in PRecords /\ r.kind = "session" /\ r.open /\ userSave \in Pairs
      /\ results = [results EXCEPT ![p.target] = r]
  BY <1>1, CapturingTarget
<1>3. before \in Pairs
  BY <1>2 DEF Pairs, PLocals
<1> HIDE DEF before
<1>4. CASE SnapshotReturns(l, TRUE, p, r)
  BY <1>1, <1>2, <1>4, ReturnsKeeps
<1>5. CASE SnapshotReturns(l, FALSE, p, r)
  BY <1>1, <1>2, <1>5, ReturnsKeeps
<1>6. CASE SnapshotReturns(l, TRUE, [p EXCEPT !.last = before], r)
  <2>1. LET q == [p EXCEPT !.last = before] IN q \in PLocals /\ q.n = p.n /\ q.target = p.target
    BY <1>2, <1>3 DEF PLocals
  <2> QED BY <1>1, <1>2, <1>6, <2>1, ReturnsKeeps
<1>7. CASE Locals(l, [p EXCEPT !.at = "copySave", !.before = before]) /\ UNCHANGED results
  <2> DEFINE q == [p EXCEPT !.at = "copySave", !.before = before]
  <2>1. q \in PLocals /\ q.at \in Capturing /\ q.n = p.n /\ q.target = p.target /\ q.reason = p.reason
    BY <1>2, <1>3 DEF PLocals, PSteps, Capturing
  <2>2. Locals(l, q) /\ results' = [results EXCEPT ![p.target] = r]
    BY <1>2, <1>7
  <2> HIDE DEF q
  <2> QED BY <1>1, <1>2, <2>1, <2>2, CapturingKeeps
<1> QED BY <1>4, <1>5, <1>6, <1>7 DEF ReadHeader, before

LEMMA CopySaveKeeps ==
  ASSUME PortableInv, NEW l \in PLaunchers, CopySave(l)
  PROVE  PortableInv' /\ History
<1> DEFINE p == pLauncher[l]
           r == results[p.target]
           s == [r EXCEPT !.staging = <<userSave[1], 0>>]
<1>1. p.at \in Capturing /\ LockSame /\ DiskSame
  BY DEF CopySave, At, Capturing
<1>2. p \in PLocals /\ r \in PRecords /\ r.kind = "session" /\ r.open /\ <<userSave[1], 0>> \in Pairs
  BY <1>1, CapturingTarget DEF Pairs
<1>3. s \in PRecords /\ s.kind = "session" /\ s.open /\ (s.ran <=> r.ran)
  BY <1>2 DEF PRecords
<1>4. LET u == [s EXCEPT !.staging = NoSave] IN u \in PRecords /\ u.kind = "session" /\ u.open /\ (u.ran <=> r.ran)
  <2> HIDE DEF s
  <2> QED BY <1>3, SaveTypes DEF PRecords
<1>5. CASE \E kept \in Unstaged(s) : SnapshotReturns(l, FALSE, p, kept)
  <2>1. PICK kept \in Unstaged(s) : SnapshotReturns(l, FALSE, p, kept)
    BY <1>5
  <2>2. kept \in PRecords /\ kept.kind = "session" /\ kept.open /\ (kept.ran <=> r.ran)
    <3> HIDE DEF s
    <3> QED BY <1>3, <1>4, <2>1 DEF Unstaged
  <2> QED BY <1>1, <1>2, <2>1, <2>2, ReturnsKeeps
<1>6. CASE results' = [results EXCEPT ![p.target].staging = <<userSave[1], 0>>] /\ GoesTo(l, "copyHeader")
  <2> DEFINE q == [p EXCEPT !.at = "copyHeader"]
  <2>1. q \in PLocals /\ q.at \in Capturing /\ q.n = p.n /\ q.target = p.target /\ q.reason = p.reason
    BY <1>2 DEF PLocals, PSteps, Capturing
  <2>2. Locals(l, q) /\ results' = [results EXCEPT ![p.target] = s]
    BY <1>6 DEF GoesTo
  <2> HIDE DEF q, s
  <2> QED BY <1>1, <1>3, <2>1, <2>2, CapturingKeeps
<1> QED BY <1>5, <1>6 DEF CopySave

LEMMA CopyHeaderKeeps ==
  ASSUME PortableInv, NEW l \in PLaunchers, CopyHeader(l)
  PROVE  PortableInv' /\ History
<1> DEFINE p == pLauncher[l]
           r == results[p.target]
           s == [r EXCEPT !.staging = [r.staging EXCEPT ![2] = userSave[2]]]
           q == [p EXCEPT !.at = "afterSave"]
<1>1. p.at \in Capturing /\ LockSame /\ DiskSame /\ Locals(l, q)
  BY DEF CopyHeader, At, Capturing, GoesTo
<1>2. p \in PLocals /\ r \in PRecords /\ r.kind = "session" /\ r.open /\ userSave \in Pairs
  BY <1>1, CapturingTarget
<1>3. [r.staging EXCEPT ![2] = userSave[2]] \in Pairs
  <2>1. r.staging \in Pairs /\ userSave[2] \in Nat
    BY <1>2 DEF PRecords, Pairs
  <2>2. [r.staging EXCEPT ![2] = userSave[2]] = <<r.staging[1], userSave[2]>> /\ r.staging[1] \in Nat
    BY <2>1, PairWrites
  <2> QED BY <2>1, <2>2 DEF Pairs
<1>4. s \in PRecords /\ s.kind = "session" /\ s.open /\ (s.ran <=> r.ran)
  BY <1>2, <1>3 DEF PRecords
<1>5. q \in PLocals /\ q.at \in Capturing /\ q.n = p.n /\ q.target = p.target /\ q.reason = p.reason
  BY <1>2 DEF PLocals, PSteps, Capturing
<1>6. results' = [results EXCEPT ![p.target] = s]
  BY DEF CopyHeader
<1> HIDE DEF q, s
<1> QED BY <1>1, <1>4, <1>5, <1>6, CapturingKeeps

LEMMA CompareAfterKeeps ==
  ASSUME PortableInv, NEW l \in PLaunchers, CompareAfter(l)
  PROVE  PortableInv' /\ History
<1> DEFINE p == pLauncher[l]
           r == results[p.target]
<1>1. p.at \in Capturing /\ LockSame /\ DiskSame
  BY DEF CompareAfter, At, Capturing
<1>2. p \in PLocals /\ r \in PRecords /\ r.kind = "session" /\ r.open /\ results = [results EXCEPT ![p.target] = r]
  BY <1>1, CapturingTarget
<1>3. CASE \E kept \in Unstaged(r) : SnapshotReturns(l, TRUE, p, kept)
  <2>1. PICK kept \in Unstaged(r) : SnapshotReturns(l, TRUE, p, kept)
    BY <1>3
  <2>2. LET u == [r EXCEPT !.staging = NoSave] IN u \in PRecords /\ u.kind = "session" /\ u.open /\ (u.ran <=> r.ran)
    BY <1>2, SaveTypes DEF PRecords
  <2>3. kept \in PRecords /\ kept.kind = "session" /\ kept.open /\ (kept.ran <=> r.ran)
    BY <1>2, <2>1, <2>2 DEF Unstaged
  <2> QED BY <1>1, <1>2, <2>1, <2>3, ReturnsKeeps
<1>4. ASSUME NEW x \in {"afterHeader", "publish"}, GoesTo(l, x), UNCHANGED results  PROVE PortableInv' /\ History
  <2> DEFINE q == [p EXCEPT !.at = x]
  <2>1. q \in PLocals /\ q.at \in Capturing /\ q.n = p.n /\ q.target = p.target /\ q.reason = p.reason
    BY <1>2 DEF PLocals, PSteps, Capturing
  <2>2. Locals(l, q) /\ results' = [results EXCEPT ![p.target] = r]
    BY <1>2, <1>4 DEF GoesTo
  <2> HIDE DEF q
  <2> QED BY <1>1, <1>2, <2>1, <2>2, CapturingKeeps
<1>5. \/ \E kept \in Unstaged(r) : SnapshotReturns(l, TRUE, p, kept)
      \/ GoesTo(l, "afterHeader") /\ UNCHANGED results
      \/ GoesTo(l, "publish") /\ UNCHANGED results
  BY DEF CompareAfter
<1> QED BY <1>3, <1>4, <1>5

LEMMA KeptIsSequence ==
  ASSUME NEW saves \in Seq(Pairs), NEW x \in Pairs
  PROVE  KeepsNewest(<<x>> \o saves) \in Seq(Pairs)
<1> DEFINE s == <<x>> \o saves
           c == IF Len(s) < SnapshotsKept THEN Len(s) ELSE SnapshotsKept
<1>1. s \in Seq(Pairs) /\ Len(s) \in Nat
  OBVIOUS
<1>2. SnapshotsKept \in Nat
  BY PortableBounds
<1> HIDE DEF s
<1>3. c \in Nat /\ c <= Len(s)
  BY <1>1, <1>2
<1> HIDE DEF c
<1>4. SubSeq(s, 1, c) \in Seq(Pairs)
  BY <1>1, <1>3
<1> QED BY <1>4 DEF KeepsNewest, s, c

LEMMA PublishKeeps ==
  ASSUME PortableInv, NEW l \in PLaunchers, Publish(l)
  PROVE  PortableInv' /\ History
<1> DEFINE p == pLauncher[l]
           r == results[p.target]
           clean == [r EXCEPT !.staging = NoSave]
           fields == [p EXCEPT !.last = r.staging, !.count = @ + 1]
           record == [clean EXCEPT !.saves = KeepsNewest(<<r.staging>> \o @)]
<1>1. p.at \in Capturing /\ LockSame /\ DiskSame
  BY DEF Publish, At, Capturing
<1>2. p \in PLocals /\ r \in PRecords /\ r.kind = "session" /\ r.open
  BY <1>1, CapturingTarget
<1>3. clean \in PRecords /\ clean.kind = "session" /\ clean.open /\ (clean.ran <=> r.ran) /\ clean.saves = r.saves
  BY <1>2, SaveTypes DEF PRecords
<1>4. CASE \E kept \in Unstaged(r) : SnapshotReturns(l, FALSE, p, kept)
  <2>1. PICK kept \in Unstaged(r) : SnapshotReturns(l, FALSE, p, kept)
    BY <1>4
  <2>2. kept \in PRecords /\ kept.kind = "session" /\ kept.open /\ (kept.ran <=> r.ran)
    BY <1>2, <1>3, <2>1 DEF Unstaged
  <2> QED BY <1>1, <1>2, <2>1, <2>2, ReturnsKeeps
<1>5. CASE SnapshotReturns(l, TRUE, fields, record)
  <2>1. r.staging \in Pairs /\ p.count + 1 \in Nat
    BY <1>2 DEF PRecords, PLocals
  <2>2. fields \in PLocals /\ fields.n = p.n /\ fields.target = p.target
    BY <1>2, <2>1 DEF PLocals
  <2>3. KeepsNewest(<<r.staging>> \o clean.saves) \in Seq(Pairs)
    BY <1>3, <2>1, KeptIsSequence DEF PRecords
  <2> HIDE DEF clean, fields
  <2>4. record \in PRecords /\ record.kind = "session" /\ record.open /\ (record.ran <=> r.ran)
    BY <1>3, <2>3 DEF PRecords
  <2> HIDE DEF record
  <2> QED BY <1>1, <1>5, <2>2, <2>4, ReturnsKeeps
<1> QED BY <1>4, <1>5 DEF Publish

-----------------------------------------------------------------------------
(* The other steps inside the lock.                                         *)

LEMMA ValidateKeeps ==
  ASSUME PortableInv, NEW l \in PLaunchers, Validate(l)
  PROVE  PortableInv' /\ History
<1> DEFINE p == pLauncher[l]
<1>1. p.at = "validate" /\ p.at \notin Unlocked /\ UNCHANGED results /\ LockSame /\ DiskSame
  BY DEF Validate, At, Unlocked
<1>2. p \in PLocals /\ Relies(p, results)
  BY <1>1, InsideHolds
<1>3. CASE Quits(l)
  BY <1>1, <1>3, QuitsKeeps
<1>4. ASSUME NEW x \in {"recover", "rename"}, GoesTo(l, x)  PROVE PortableInv' /\ History
  <2> DEFINE q == [p EXCEPT !.at = x]
  <2>1. q \in PLocals /\ q.at = x /\ q.n = p.n
    BY <1>2 DEF PLocals, PSteps
  <2>2. Locals(l, q)
    BY <1>4 DEF GoesTo
  <2> HIDE DEF q
  <2>3. results[p.n].kind = "none"
    BY <1>1, <1>2 DEF Relies, Fresh
  <2>4. Relies(q, results) /\ q.at \notin Unlocked
    BY <2>1, <2>3 DEF Relies, Fresh, Owns, OnTarget, NotRun, Renames, Capturing, Unlocked
  <2> QED BY <1>1, <2>1, <2>2, <2>4, StaysKeeps
<1> QED BY <1>3, <1>4 DEF Validate, ManifestRefuses, ConfigRefuses

LEMMA RecoverKeeps ==
  ASSUME PortableInv, NEW l \in PLaunchers, Recover(l)
  PROVE  PortableInv' /\ History
<1> DEFINE p == pLauncher[l]
<1>1. p.at = "recover" /\ p.at \notin Unlocked /\ LockSame /\ DiskSame
  BY DEF Recover, At, Unlocked
<1>2. p \in PLocals /\ Relies(p, results) /\ p.n \in Launches /\ results \in [Launches -> PRecords]
  BY <1>1, InsideHolds DEF PortableInv, PortableTypes
<1>3. results[p.n].kind = "none"
  BY <1>1, <1>2 DEF Relies, Fresh
<1>4. CASE Quits(l) /\ UNCHANGED results
  BY <1>1, <1>4, QuitsKeeps
<1>5. CASE GoesTo(l, "capacity") /\ UNCHANGED results
  <2> DEFINE q == [p EXCEPT !.at = "capacity"]
  <2>1. q \in PLocals /\ q.at = "capacity" /\ q.n = p.n
    BY <1>2 DEF PLocals, PSteps
  <2>2. Locals(l, q)
    BY <1>5 DEF GoesTo
  <2> HIDE DEF q
  <2>3. Relies(q, results) /\ q.at \notin Unlocked
    BY <1>3, <2>1 DEF Relies, Fresh, Owns, OnTarget, NotRun, Renames, Capturing, Unlocked
  <2> QED BY <1>1, <1>5, <2>1, <2>2, <2>3, StaysKeeps
<1>6. ASSUME NEW k \in OpenSessions, results' = [results EXCEPT ![k] = Cleaned(results[k])],
             Locals(l, [p EXCEPT !.at = "readSave", !.reason = "recover", !.target = k, !.last = NoSave,
                                 !.count = CompletedSnapshots(results[k])])
      PROVE  PortableInv' /\ History
  <2> DEFINE r == Cleaned(results[k])
             c == CompletedSnapshots(results[k])
             q == [p EXCEPT !.at = "readSave", !.reason = "recover", !.target = k, !.last = NoSave, !.count = c]
  <2>1. k \in Launches /\ results[k] \in PRecords /\ results[k].kind = "session" /\ results[k].open
    BY <1>2 DEF OpenSessions
  <2>2. r \in PRecords /\ r.kind = "session" /\ r.open /\ (r.ran <=> results[k].ran)
    BY <2>1, SaveTypes DEF Cleaned, PRecords
  <2>3. c \in Nat /\ k \in Nat
    BY <2>1 DEF CompletedSnapshots, PRecords, Launches
  <2> HIDE DEF c
  <2>4. q \in PLocals /\ q.at = "readSave" /\ q.n = p.n /\ q.target = k /\ q.reason = "recover"
    BY <1>2, <2>3, SaveTypes DEF PLocals, PSteps, Reasons
  <2>5. Locals(l, q)
    BY <1>6 DEF c
  <2> HIDE DEF q, r
  <2>6. results'[k] = r /\ results'[p.n] = results[p.n]
    BY <1>2, <1>3, <1>6, <2>1 DEF r
  <2>7. Relies(q, results') /\ q.at \notin Unlocked
    BY <1>3, <2>1, <2>2, <2>4, <2>6 DEF Relies, Fresh, Owns, OnTarget, NotRun, Renames, Capturing, Unlocked
  <2>8. results' = [results EXCEPT ![k] = r]
    BY <1>6 DEF r
  <2> QED BY <1>1, <2>1, <2>2, <2>4, <2>5, <2>7, <2>8, GivesKeeps
<1> QED BY <1>4, <1>5, <1>6 DEF Recover

LEMMA EndsKeeps ==
  ASSUME PortableInv, NEW l \in PLaunchers, NEW state \in {"complete", "interrupted"}, NEW next,
         \/ pLauncher[l].at = "interrupted" /\ next = "recover"
         \/ pLauncher[l].at = "result" /\ next = "leave",
         Ends(l, state, next), LockSame, DiskSame
  PROVE  PortableInv' /\ History
<1> DEFINE p == pLauncher[l]
           t == p.target
           final == IF HasBoth(userSave) THEN userSave ELSE NoSave
           r == [results[t] EXCEPT !.state = state, !.count = p.count, !.final = final, !.warned = p.warned]
           s == [r EXCEPT !.open = FALSE]
<1>1. p.at \notin Unlocked /\ OnTarget(p)
  BY DEF Unlocked, OnTarget
<1>2. /\ p \in PLocals /\ Relies(p, results) /\ p.n \in Launches /\ p.n \in Nat
      /\ results \in [Launches -> PRecords] /\ userSave \in Pairs
  BY <1>1, InsideHolds DEF PortableInv, PortableTypes, PLocals
<1>3. t \in Launches /\ results[t] \in PRecords /\ results[t].kind = "session" /\ results[t].open
  BY <1>1, <1>2 DEF Relies
<1>4. final \in Pairs /\ p.count \in Nat /\ p.warned \in BOOLEAN
  BY <1>2, SaveTypes DEF PLocals
<1> HIDE DEF final
<1>5. r \in PRecords /\ r.kind = "session" /\ (r.ran <=> results[t].ran)
  BY <1>3, <1>4 DEF PRecords
<1>6. CASE Quits(l) /\ UNCHANGED results
  BY <1>1, <1>6, QuitsKeeps
<1>7. CASE Quits(l) /\ results' = [results EXCEPT ![t] = r]
  <2> DEFINE q == [Outside EXCEPT !.at = "leave", !.n = p.n]
  <2>1. q \in PLocals /\ q.at = "leave" /\ q.n = p.n /\ Relies(q, results')
    BY <1>2, QuitsRely
  <2>2. Locals(l, q) /\ "leave" \notin Unlocked
    BY <1>7 DEF Quits, Unlocked
  <2> HIDE DEF q, r
  <2> QED BY <1>1, <1>3, <1>5, <1>7, <2>1, <2>2, GivesKeeps
<1>8. CASE results' = [results EXCEPT ![t] = s] /\ Locals(l, [Outside EXCEPT !.at = next, !.n = p.n])
  <2> DEFINE q == [Outside EXCEPT !.at = next, !.n = p.n]
  <2> HIDE DEF r
  <2>1. s \in PRecords /\ s.kind = "session" /\ (s.ran <=> results[t].ran)
    BY <1>5 DEF PRecords
  <2> HIDE DEF s
  <2>2. q \in PLocals /\ q.at = next /\ q.n = p.n
    BY <1>2, SaveTypes DEF PLocals, PSteps
  <2>3. Locals(l, q) /\ q.at \notin Unlocked
    BY <1>8, <2>2 DEF Unlocked
  <2> HIDE DEF q
  <2>4. next = "recover" => results'[p.n].kind = "none"
    <3> SUFFICES ASSUME next = "recover"  PROVE results'[p.n].kind = "none"
      OBVIOUS
    <3>1. results[p.n].kind = "none"
      BY <1>2 DEF Relies, Fresh
    <3> QED BY <1>2, <1>3, <1>8, <3>1
  <2>5. Relies(q, results')
    BY <2>2, <2>4 DEF Relies, Fresh, Owns, OnTarget, NotRun, Renames, Capturing
  <2> QED BY <1>1, <1>3, <1>8, <2>1, <2>2, <2>3, <2>5, GivesKeeps
<1> QED BY <1>6, <1>7, <1>8 DEF Ends, final

\* A step that makes the directory of its launch.
LEMMA MakesKeeps ==
  ASSUME PortableInv, NEW l \in PLaunchers, pLauncher[l].at \notin Unlocked, Fresh(pLauncher[l]),
         NEW q \in PLocals, q.at \notin Unlocked, q.n = pLauncher[l].n, Locals(l, q),
         NEW r \in PRecords, results' = [results EXCEPT ![pLauncher[l].n] = r], ~r.ran,
         r.kind = "session" /\ r.open => OpenSessions = {}, HasHistoryCapacity,
         Relies(q, results'), LockSame, DiskSame
  PROVE  PortableInv' /\ History
<1> DEFINE k == pLauncher[l].n
<1>1. l \in bundleLock.holders /\ k \in Launches /\ Relies(pLauncher[l], results)
  BY InsideHolds
<1>2. results[k].kind = "none" /\ ~results[k].ran
  BY <1>1 DEF Relies, PortableInv, RanInSession
<1>3. hosts' = hosts /\ hosts \in [Launches -> {"none", "loose", "contained", "dying"}]
  BY DEF PortableInv, PortableTypes, DiskSame
<1>4. Goes(l, q, k, r)
  BY <1>2, <1>3 DEF Goes, Locals, LockSame, DiskSame
<1> QED BY <1>1, <1>4, GoesKeeps

LEMMA StageSessionKeeps ==
  ASSUME PortableInv, NEW l \in PLaunchers, StageSession(l)
  PROVE  PortableInv' /\ History
<1> DEFINE p == pLauncher[l]
           q == [p EXCEPT !.at = "manifest"]
           r == [NoRecord EXCEPT !.kind = "session", !.open = TRUE]
<1>1. p.at = "capacity" /\ p.at \notin Unlocked /\ LockSame /\ DiskSame /\ Fresh(p)
  BY DEF StageSession, At, Unlocked, Fresh
<1>2. p \in PLocals /\ p.n \in Launches /\ results \in [Launches -> PRecords]
  BY <1>1, InsideHolds DEF PortableInv, PortableTypes
<1>3. CASE Quits(l) /\ UNCHANGED results
  BY <1>1, <1>3, QuitsKeeps
<1>4. CASE /\ TreeIsValid(FALSE) /\ HasHistoryCapacity /\ results' = [results EXCEPT ![p.n] = r]
           /\ GoesTo(l, "manifest")
  <2>1. q \in PLocals /\ q.at = "manifest" /\ q.n = p.n /\ Locals(l, q)
    BY <1>2, <1>4 DEF PLocals, PSteps, GoesTo
  <2>2. r \in PRecords /\ r.kind = "session" /\ r.open /\ ~r.ran
    BY SaveTypes DEF PRecords, NoRecord
  <2> HIDE DEF q, r
  <2>3. OpenSessions = {}
    BY <1>4 DEF TreeIsValid, OpenSessions
  <2>4. results'[p.n] = r
    BY <1>2, <1>4
  <2>5. Relies(q, results') /\ q.at \notin Unlocked
    BY <2>1, <2>2, <2>4 DEF Relies, Fresh, Owns, OnTarget, NotRun, Renames, Capturing, Unlocked
  <2> QED BY <1>1, <1>4, <2>1, <2>2, <2>3, <2>5, MakesKeeps
<1> QED BY <1>3, <1>4 DEF StageSession

LEMMA WriteManifestKeeps ==
  ASSUME PortableInv, NEW l \in PLaunchers, WriteManifest(l)
  PROVE  PortableInv' /\ History
<1> DEFINE p == pLauncher[l]
           q == [p EXCEPT !.at = "readSave", !.reason = "start", !.target = p.n, !.last = NoSave]
           r == [results[p.n] EXCEPT !.manifest = TRUE]
<1>1. p.at = "manifest" /\ p.at \notin Unlocked /\ LockSame /\ DiskSame /\ Owns(p) /\ NotRun(p)
  BY DEF WriteManifest, At, Unlocked, Owns, NotRun
<1>2. p \in PLocals /\ p.n \in Launches /\ Relies(p, results) /\ results \in [Launches -> PRecords] /\ p.n \in Nat
  BY <1>1, InsideHolds DEF PortableInv, PortableTypes, PLocals
<1>3. results[p.n].kind = "session" /\ results[p.n].open /\ ~results[p.n].ran
  BY <1>1, <1>2 DEF Relies
<1>4. CASE Quits(l) /\ UNCHANGED results
  BY <1>1, <1>4, QuitsKeeps
<1>5. CASE results' = [results EXCEPT ![p.n].manifest = TRUE] /\ SnapshotStarts(l, "start", p.n, NoSave)
  <2>1. q \in PLocals /\ q.at = "readSave" /\ q.n = p.n /\ q.target = p.n /\ q.reason = "start"
    BY <1>2, SaveTypes DEF PLocals, PSteps, Reasons
  <2>2. Locals(l, q) /\ results' = [results EXCEPT ![p.n] = r]
    BY <1>5 DEF SnapshotStarts
  <2>3. r \in PRecords /\ r.kind = "session" /\ r.open /\ ~r.ran
    BY <1>2, <1>3 DEF PRecords
  <2> HIDE DEF q, r
  <2>4. results'[p.n] = r
    BY <1>2, <2>2
  <2>5. Relies(q, results') /\ q.at \notin Unlocked
    BY <1>2, <2>1, <2>3, <2>4 DEF Relies, Fresh, Owns, OnTarget, NotRun, Renames, Capturing, Unlocked
  <2> QED BY <1>1, <1>2, <1>3, <2>1, <2>2, <2>3, <2>5, GivesKeeps
<1> QED BY <1>4, <1>5 DEF WriteManifest

LEMMA SpawnKeeps ==
  ASSUME PortableInv, NEW l \in PLaunchers, Spawn(l)
  PROVE  PortableInv' /\ History
<1> DEFINE p == pLauncher[l]
           n == p.n
<1>1. /\ p.at = "spawn" /\ p.at \notin Unlocked /\ LockSame /\ Owns(p) /\ NotRun(p)
      /\ UNCHANGED <<userSave, profileName, launches, writes, heldSaves, strays>>
  BY DEF Spawn, At, Unlocked, Owns, NotRun
<1>2. /\ p \in PLocals /\ n \in Launches /\ Relies(p, results) /\ results \in [Launches -> PRecords] /\ n \in Nat
      /\ hosts \in [Launches -> {"none", "loose", "contained", "dying"}] /\ l \in bundleLock.holders
  BY <1>1, InsideHolds DEF PortableInv, PortableTypes, PLocals
<1>3. results[n].kind = "session" /\ results[n].open /\ ~results[n].ran
  BY <1>1, <1>2 DEF Relies
<1>4. CASE hosts' = [hosts EXCEPT ![n] = "loose"] /\ results' = [results EXCEPT ![n].ran = TRUE] /\ GoesTo(l, "job")
  <2> DEFINE q == [p EXCEPT !.at = "job"]
             r == [results[n] EXCEPT !.ran = TRUE]
  <2>1. q \in PLocals /\ q.at = "job" /\ q.n = n
    BY <1>2 DEF PLocals, PSteps
  <2>2. r \in PRecords /\ r.kind = "session" /\ r.open /\ r.ran
    BY <1>2, <1>3 DEF PRecords
  <2>3. Locals(l, q) /\ results' = [results EXCEPT ![n] = r]
    BY <1>4 DEF GoesTo
  <2>4. hosts' \in [Launches -> {"none", "loose", "contained", "dying"}] /\ \A m \in Launches : hosts'[m] \in {"loose", "contained"} => hosts[m] \in {"loose", "contained"} \/ m = n
    BY <1>2, <1>4
  <2>5. n \in OpenSessions
    BY <1>2, <1>3 DEF OpenSessions
  <2> HIDE DEF q, r
  <2>6. results'[n] = r
    BY <1>2, <2>3
  <2>7. Relies(q, results') /\ q.at \notin Unlocked
    BY <2>1, <2>2, <2>6 DEF Relies, Fresh, Owns, OnTarget, NotRun, Renames, Capturing, Unlocked
  <2>8. Goes(l, q, n, r)
    BY <1>1, <1>3, <2>1, <2>2, <2>3, <2>4, <2>5, <2>7 DEF Goes, Locals, LockSame
  <2> QED BY <1>2, <2>1, <2>2, <2>8, GoesKeeps
<1>5. CASE (\E kept \in Removed(results[n]) : results' = [results EXCEPT ![n] = kept]) /\ Quits(l) /\ UNCHANGED hosts
  <2> DEFINE q == [Outside EXCEPT !.at = "leave", !.n = n]
  <2>1. q \in PLocals /\ q.at = "leave" /\ q.n = n /\ Relies(q, results')
    BY <1>2, QuitsRely
  <2>2. Locals(l, q) /\ "leave" \notin Unlocked
    BY <1>5 DEF Quits, Unlocked
  <2> HIDE DEF q
  <2>3. PICK kept \in Removed(results[n]) : results' = [results EXCEPT ![n] = kept]
    BY <1>5
  <2>4. LET c == [results[n] EXCEPT !.manifest = FALSE] IN c \in PRecords /\ c.kind = "session" /\ ~c.ran
    BY <1>2, <1>3 DEF PRecords
  <2>5. NoRecord \in PRecords /\ NoRecord.kind = "none" /\ ~NoRecord.ran
    BY SaveTypes DEF NoRecord
  <2>6. kept \in PRecords /\ (kept.kind = "session" \/ kept.kind = "none") /\ ~kept.ran
    BY <1>2, <1>3, <2>3, <2>4, <2>5 DEF Removed
  <2>7. DiskSame
    BY <1>1, <1>5 DEF DiskSame
  <2> QED BY <1>1, <1>2, <1>3, <2>1, <2>2, <2>3, <2>6, <2>7, GivesKeeps
<1> QED BY <1>4, <1>5 DEF Spawn

LEMMA ContainKeeps ==
  ASSUME PortableInv, NEW l \in PLaunchers, Contain(l)
  PROVE  PortableInv' /\ History
<1> DEFINE p == pLauncher[l]
           n == p.n
           q == [p EXCEPT !.at = "watch"]
           r == results[n]
<1>1. /\ p.at = "job" /\ p.at \notin Unlocked /\ LockSame /\ Owns(p) /\ Locals(l, q)
      /\ UNCHANGED <<results, userSave, profileName, launches, writes, heldSaves, strays>>
  BY DEF Contain, At, Unlocked, Owns, GoesTo
<1>2. /\ p \in PLocals /\ n \in Launches /\ Relies(p, results) /\ results \in [Launches -> PRecords]
      /\ hosts \in [Launches -> {"none", "loose", "contained", "dying"}] /\ l \in bundleLock.holders
  BY <1>1, InsideHolds DEF PortableInv, PortableTypes
<1>3. r \in PRecords /\ r.kind = "session" /\ r.open /\ results' = [results EXCEPT ![n] = r] /\ n \in OpenSessions
  BY <1>1, <1>2 DEF Relies, OpenSessions
<1>4. hosts' \in [Launches -> {"none", "loose", "contained", "dying"}] /\ \A m \in Launches : hosts'[m] \in {"loose", "contained"} => hosts[m] \in {"loose", "contained"} \/ m = n
  BY <1>2 DEF Contain
<1>5. q \in PLocals /\ q.at = "watch" /\ q.n = n
  BY <1>2 DEF PLocals, PSteps
<1> HIDE DEF q
<1>6. Relies(q, results') /\ q.at \notin Unlocked
  BY <1>1, <1>3, <1>5 DEF Relies, Fresh, Owns, OnTarget, NotRun, Renames, Capturing, Unlocked
<1>7. Goes(l, q, n, r)
  BY <1>1, <1>3, <1>4, <1>5, <1>6 DEF Goes, Locals, LockSame
<1> QED BY <1>2, <1>3, <1>5, <1>7, GoesKeeps

LEMMA WatchKeeps ==
  ASSUME PortableInv, NEW l \in PLaunchers, Watch(l)
  PROVE  PortableInv' /\ History
<1> DEFINE p == pLauncher[l]
<1>1. p.at = "watch" /\ p.at \notin Unlocked /\ UNCHANGED results /\ LockSame /\ DiskSame /\ Owns(p)
  BY DEF Watch, At, Unlocked, Owns
<1>2. p \in PLocals /\ p.n \in Launches /\ p.n \in Nat /\ Relies(p, results)
  BY <1>1, InsideHolds DEF PLocals
<1>3. CASE Quits(l)
  BY <1>1, <1>3, QuitsKeeps
<1>4. ASSUME NEW x \in {"watch", "exit"}, SnapshotStarts(l, x, p.n, p.last)  PROVE PortableInv' /\ History
  <2> DEFINE q == [p EXCEPT !.at = "readSave", !.reason = x, !.target = p.n, !.last = p.last]
  <2>1. q \in PLocals /\ q.at = "readSave" /\ q.n = p.n /\ q.target = p.n /\ q.reason = x
    BY <1>2 DEF PLocals, PSteps, Reasons
  <2>2. Locals(l, q)
    BY <1>4 DEF SnapshotStarts
  <2> HIDE DEF q
  <2>3. results[p.n].kind = "session" /\ results[p.n].open
    BY <1>1, <1>2 DEF Relies
  <2>4. Relies(q, results) /\ q.at \notin Unlocked
    BY <1>2, <2>1, <2>3 DEF Relies, Fresh, Owns, OnTarget, NotRun, Renames, Capturing, Unlocked
  <2> QED BY <1>1, <2>1, <2>2, <2>4, StaysKeeps
<1> QED BY <1>3, <1>4 DEF Watch

LEMMA RenameKeeps ==
  ASSUME PortableInv, NEW l \in PLaunchers,
         RenameBegin(l) \/ RenameStage(l) \/ RenameMove(l) \/ RenameCloses(l)
  PROVE  PortableInv' /\ History
<1> DEFINE p == pLauncher[l]
<1>1. p.at \in {"rename", "journal", "name", "receipt"} /\ p.at \notin Unlocked
  BY DEF RenameBegin, RenameStage, RenameMove, RenameCloses, At, Unlocked
<1>2. /\ p \in PLocals /\ p.n \in Launches /\ p.n \in Nat /\ Relies(p, results)
      /\ results \in [Launches -> PRecords] /\ userSave \in Pairs
  BY <1>1, InsideHolds DEF PLocals, PortableInv, PortableTypes
<1>3. CASE RenameBegin(l)
  <2> DEFINE q == [p EXCEPT !.at = "journal", !.before = userSave]
             r == [NoRecord EXCEPT !.kind = "rename", !.open = TRUE]
  <2>1. p.at = "rename" /\ Fresh(p) /\ LockSame /\ DiskSame
    BY <1>3 DEF RenameBegin, At, Fresh
  <2>2. CASE Quits(l) /\ UNCHANGED results
    BY <1>1, <2>1, <2>2, QuitsKeeps
  <2>3. CASE HasHistoryCapacity /\ results' = [results EXCEPT ![p.n] = r] /\ Locals(l, q)
    <3>1. q \in PLocals /\ q.at = "journal" /\ q.n = p.n
      BY <1>2 DEF PLocals, PSteps
    <3>2. r \in PRecords /\ r.kind = "rename" /\ r.open /\ ~r.ran
      BY SaveTypes DEF PRecords, NoRecord
    <3> HIDE DEF q, r
    <3>3. results'[p.n] = r
      BY <1>2, <2>3
    <3>4. Relies(q, results') /\ q.at \notin Unlocked
      BY <3>1, <3>2, <3>3 DEF Relies, Fresh, Owns, OnTarget, NotRun, Renames, Capturing, Unlocked
    <3> QED BY <1>1, <2>1, <2>3, <3>1, <3>2, <3>4, MakesKeeps
  <2> QED BY <1>3, <2>2, <2>3 DEF RenameBegin
<1>4. ASSUME NEW x \in {"name", "receipt"}, GoesTo(l, x), Renames(p), UNCHANGED results, RenameSame
      PROVE  PortableInv' /\ History
  <2> DEFINE q == [p EXCEPT !.at = x]
  <2>1. q \in PLocals /\ q.at = x /\ q.n = p.n
    BY <1>2 DEF PLocals, PSteps
  <2>2. Locals(l, q)
    BY <1>4 DEF GoesTo
  <2> HIDE DEF q
  <2>3. results[p.n].kind = "rename" /\ results[p.n].open
    BY <1>2, <1>4 DEF Relies
  <2>4. Relies(q, results) /\ q.at \notin Unlocked
    BY <2>1, <2>3 DEF Relies, Fresh, Owns, OnTarget, NotRun, Renames, Capturing, Unlocked
  <2> QED BY <1>1, <1>4, <2>1, <2>2, <2>4, RenamingStays
<1>5. CASE RenameStage(l) \/ RenameMove(l)
  <2>1. Renames(p) /\ UNCHANGED results /\ RenameSame /\ (Quits(l) \/ GoesTo(l, "name") \/ GoesTo(l, "receipt"))
    BY <1>5 DEF RenameStage, RenameMove, Renames, At
  <2> QED BY <1>1, <1>4, <2>1, RenamingQuits
<1>6. CASE RenameCloses(l)
  <2> DEFINE q == [Outside EXCEPT !.at = "leave", !.n = p.n]
             r == [results[p.n] EXCEPT !.open = FALSE, !.state = "renamed", !.final = userSave]
  <2>1. Renames(p) /\ LockSame /\ DiskSame /\ Quits(l)
    BY <1>6 DEF RenameCloses, Renames, At
  <2>2. CASE UNCHANGED results
    BY <1>1, <2>1, <2>2, QuitsKeeps
  <2>3. CASE results' = [results EXCEPT ![p.n] = r]
    <3>1. results[p.n].kind = "rename" /\ results[p.n].open /\ ~results[p.n].ran
      BY <1>2, <2>1 DEF Relies, PortableInv, RanInSession
    <3>2. r \in PRecords /\ r.kind = "rename" /\ ~r.ran
      BY <1>2, <3>1 DEF PRecords
    <3>3. q \in PLocals /\ q.at = "leave" /\ q.n = p.n /\ Relies(q, results')
      BY <1>2, QuitsRely
    <3>4. Locals(l, q) /\ "leave" \notin Unlocked
      BY <2>1 DEF Quits, Unlocked
    <3> HIDE DEF q, r
    <3> QED BY <1>1, <1>2, <2>1, <2>3, <3>1, <3>2, <3>3, <3>4, GivesKeeps
  <2> QED BY <1>6, <2>2, <2>3 DEF RenameCloses
<1> QED BY <1>3, <1>5, <1>6

-----------------------------------------------------------------------------
(* Into the lock and out of it, and the title.                              *)

LEMMA ResultsSame ==
  ASSUME PortableInv, UNCHANGED results
  PROVE  /\ results' \in [Launches -> PRecords] /\ OneSession' /\ RanInSession'
         /\ Cardinality(Records') <= RecordsKept /\ History
<1>1. OpenSessions' = OpenSessions /\ Records' = Records
  BY DEF OpenSessions, Records
<1> QED BY <1>1 DEF PortableInv, PortableTypes, OneSession, RanInSession, History

LEMMA LockKeeps ==
  ASSUME PortableInv, NEW l \in PLaunchers, NEW q \in PLocals, Locals(l, q), UNCHANGED <<results, userSave, writes>>,
         launches' \in 0..MaxLaunches, launches <= launches',
         Numbered(q) => q.n \in 1..launches' /\ (q.n > launches \/ (Numbered(pLauncher[l]) /\ q.n = pLauncher[l].n)),
         Relies(q, results), Exclusive', TitleHasLauncher',
         hosts' \in [Launches -> {"none", "loose", "contained", "dying"}], strays' \in SUBSET {"loose", "dying"},
         bundleLock' \in [exists : BOOLEAN, holders : SUBSET PLaunchers]
  PROVE  PortableInv' /\ History
<1>1. PortableTypes /\ Numbers /\ \A m \in PLaunchers : Relies(pLauncher[m], results)
  BY DEF PortableInv
<1>2. /\ pLauncher' \in [PLaunchers -> PLocals] /\ pLauncher'[l] = q
      /\ \A m \in PLaunchers : m # l => pLauncher'[m] = pLauncher[m]
  BY <1>1 DEF Locals, PortableTypes
<1>3. PortableTypes'
  BY <1>1, <1>2 DEF PortableTypes
<1>4. launches \in Nat /\ launches' \in Nat
  BY <1>1, PortableBounds DEF PortableTypes
<1>5. \A m \in PLaunchers : Numbered(pLauncher[m]) => pLauncher[m].n \in 1..launches
  BY <1>1 DEF Numbers
<1>6. \A m \in PLaunchers : Numbered(pLauncher'[m]) => pLauncher'[m].n \in 1..launches'
  <2> TAKE m \in PLaunchers
  <2>1. CASE m = l
    BY <1>2, <2>1
  <2>2. CASE m # l
    BY <1>2, <1>4, <1>5, <2>2
  <2> QED BY <2>1, <2>2
<1>7. ASSUME NEW m \in PLaunchers, m # l, Numbered(q), Numbered(pLauncher[m])  PROVE pLauncher[m].n # q.n
  BY <1>1, <1>4, <1>5, <1>7 DEF Numbers
<1>8. \A h, m \in PLaunchers :
        Numbered(pLauncher'[h]) /\ Numbered(pLauncher'[m]) /\ pLauncher'[h].n = pLauncher'[m].n => h = m
  <2> SUFFICES ASSUME NEW h \in PLaunchers, NEW m \in PLaunchers, h # m, Numbered(pLauncher'[h]), Numbered(pLauncher'[m])
               PROVE  pLauncher'[h].n # pLauncher'[m].n
    OBVIOUS
  <2>1. CASE h = l
    BY <1>2, <1>7, <2>1
  <2>2. CASE m = l
    BY <1>2, <1>7, <2>2
  <2>3. CASE h # l /\ m # l
    BY <1>1, <1>2, <2>3 DEF Numbers
  <2> QED BY <2>1, <2>2, <2>3
<1>9. \A n \in Launches : n > launches' => results'[n].kind = "none"
  BY <1>1, <1>4 DEF Numbers, Launches
<1>10. Numbers'
  BY <1>6, <1>8, <1>9 DEF Numbers, Numbered
<1>11. \A m \in PLaunchers : Relies(pLauncher'[m], results')
  <2> TAKE m \in PLaunchers
  <2>1. CASE m = l
    BY <1>2, <2>1
  <2>2. CASE m # l
    <3>1. Relies(pLauncher[m], results) /\ pLauncher'[m] = pLauncher[m] /\ results' = results
      BY <1>1, <1>2, <2>2
    <3> QED BY <3>1
  <2> QED BY <2>1, <2>2
<1> QED BY <1>3, <1>10, <1>11, ResultsSame DEF PortableInv

\* The launcher takes the lock, which nobody has, or it does not.
LEMMA CreatesKeeps ==
  ASSUME PortableInv, NEW l \in PLaunchers, pLauncher[l].at \in {"out", "again"},
         NEW fields \in PLocals, NEW otherwise \in PLocals, otherwise.at \in {"out", "delete"},
         Creates(l, fields, otherwise), UNCHANGED <<results, userSave, writes, hosts, strays>>,
         launches' \in 0..MaxLaunches, launches <= launches', fields.n \in 1..launches',
         fields.n > launches \/ (Numbered(pLauncher[l]) /\ fields.n = pLauncher[l].n),
         fields.n > launches \/ results[fields.n].kind = "none",
         otherwise.at = "delete" => otherwise.n = fields.n
  PROVE  PortableInv' /\ History
<1>1. PortableTypes /\ Exclusive /\ Numbers /\ TitleHasLauncher
  BY DEF PortableInv
<1>2. l \notin bundleLock.holders
  BY <1>1 DEF Exclusive, Unlocked
<1>3. launches' \in Nat /\ fields.n \in Launches
  BY PortableBounds DEF Launches
<1>4. results[fields.n].kind = "none"
  BY <1>1, <1>3 DEF Numbers
<1>5. CASE /\ ~bundleLock.exists
           /\ bundleLock' = [exists |-> TRUE, holders |-> bundleLock.holders \cup {l}]
           /\ Locals(l, [fields EXCEPT !.at = "validate"])
  <2> DEFINE q == [fields EXCEPT !.at = "validate"]
  <2>1. q \in PLocals /\ q.at = "validate" /\ q.n = fields.n /\ Locals(l, q)
    BY <1>5 DEF PLocals, PSteps
  <2> HIDE DEF q
  <2>2. bundleLock.holders = {}
    BY <1>1, <1>5 DEF Exclusive
  <2>3. bundleLock' = [exists |-> TRUE, holders |-> {l}]
    BY <1>5, <2>2
  <2>4. bundleLock' \in [exists : BOOLEAN, holders : SUBSET PLaunchers] /\ bundleLock'.exists /\ bundleLock'.holders = {l}
    BY <2>3
  <2>5. pLauncher'[l] = q /\ \A m \in PLaunchers : m # l => pLauncher'[m] = pLauncher[m]
    BY <1>1, <2>1 DEF Locals, PortableTypes
  <2>6. Exclusive'
    BY <1>1, <2>1, <2>2, <2>4, <2>5 DEF Exclusive, Unlocked
  <2>7. TitleHasLauncher'
    BY <1>1, <2>2 DEF TitleHasLauncher
  <2>8. Relies(q, results) /\ Numbered(q)
    BY <1>4, <2>1 DEF Relies, Fresh, Owns, OnTarget, NotRun, Renames, Capturing, Numbered
  <2>9. hosts' \in [Launches -> {"none", "loose", "contained", "dying"}] /\ strays' \in SUBSET {"loose", "dying"}
    BY <1>1 DEF PortableTypes
  <2> QED BY <2>1, <2>4, <2>6, <2>7, <2>8, <2>9, LockKeeps
<1>6. CASE Locals(l, otherwise) /\ LockSame
  <2>1. pLauncher'[l] = otherwise /\ \A m \in PLaunchers : m # l => pLauncher'[m] = pLauncher[m]
    BY <1>1, <1>6 DEF Locals, PortableTypes
  <2>2. bundleLock' = bundleLock
    BY <1>6 DEF LockSame
  <2>3. Exclusive'
    BY <1>1, <1>2, <2>1, <2>2 DEF Exclusive, Unlocked
  <2>4. \A m \in bundleLock.holders : m \in PLaunchers /\ m # l
    BY <1>1, <1>2 DEF PortableTypes
  <2>5. TitleHasLauncher'
    BY <1>1, <2>1, <2>2, <2>4 DEF TitleHasLauncher
  <2>6. Relies(otherwise, results) /\ (Numbered(otherwise) => otherwise.n = fields.n)
    BY <1>4 DEF Relies, Fresh, Owns, OnTarget, NotRun, Renames, Capturing, Numbered
  <2>7. /\ hosts' \in [Launches -> {"none", "loose", "contained", "dying"}] /\ strays' \in SUBSET {"loose", "dying"}
        /\ bundleLock' \in [exists : BOOLEAN, holders : SUBSET PLaunchers]
    BY <1>1, <2>2 DEF PortableTypes
  <2> QED BY <1>6, <2>3, <2>5, <2>6, <2>7, LockKeeps
<1> QED BY <1>5, <1>6 DEF Creates

LEMMA ModeIsKnown ==
  ASSUME NEW options \in SUBSET {"verify", "probe", "name"}
  PROVE  LaunchMode(options) \in Modes
<1>1. CASE "name" \in options
  BY <1>1 DEF LaunchMode, Modes
<1>2. CASE "name" \notin options /\ "verify" \in options
  <2>1. "probe" \notin options => options = {"verify"}
    BY <1>2
  <2> QED BY <1>2, <2>1 DEF LaunchMode, Modes
<1>3. CASE "name" \notin options /\ "verify" \notin options
  <2>1. options = {} \/ options = {"probe"}
    BY <1>3
  <2> QED BY <1>3, <2>1 DEF LaunchMode, Modes
<1> QED BY <1>1, <1>2, <1>3

LEMMA LaunchKeeps ==
  ASSUME PortableInv, NEW l \in PLaunchers, Launch(l)
  PROVE  PortableInv' /\ History
<1>1. PICK options \in SUBSET {"verify", "probe", "name"} :
        LET fields == [Outside EXCEPT !.n = launches', !.mode = LaunchMode(options)]
        IN Creates(l, fields, [fields EXCEPT !.at = "delete"])
  BY DEF Launch
<1> DEFINE fields == [Outside EXCEPT !.n = launches', !.mode = LaunchMode(options)]
           otherwise == [fields EXCEPT !.at = "delete"]
<1>2. pLauncher[l].at = "out" /\ launches' = launches + 1 /\ launches < MaxLaunches
      /\ UNCHANGED <<results, userSave, writes, hosts, strays>>
  BY DEF Launch, At
<1>3. launches \in Nat /\ launches' \in Nat /\ launches' \in 0..MaxLaunches /\ launches' > launches
  BY <1>2, PortableBounds DEF PortableInv, PortableTypes
<1>4. fields \in PLocals /\ fields.n = launches'
  BY <1>3, SaveTypes, ModeIsKnown DEF PLocals
<1>5. Creates(l, fields, otherwise)
  BY <1>1
<1> HIDE DEF fields
<1>6. otherwise \in PLocals /\ otherwise.at = "delete" /\ otherwise.n = launches'
  BY <1>4 DEF PLocals, PSteps
<1> HIDE DEF otherwise
<1>7. fields.n \in 1..launches' /\ fields.n > launches /\ launches <= launches'
  BY <1>3, <1>4
<1> QED BY <1>2, <1>3, <1>4, <1>5, <1>6, <1>7, CreatesKeeps

LEMMA AcquireLockKeeps ==
  ASSUME PortableInv, NEW l \in PLaunchers, AcquireLock(l)
  PROVE  PortableInv' /\ History
<1> DEFINE p == pLauncher[l]
<1>1. PortableTypes /\ Exclusive /\ Numbers /\ TitleHasLauncher /\ p \in PLocals /\ Relies(p, results)
  BY DEF PortableInv, PortableTypes
<1>2. /\ p.at \in {"delete", "again"} /\ UNCHANGED <<results, userSave, writes, hosts, strays, launches>>
  BY DEF AcquireLock, At, DiskSame
<1>3. p.n \in 1..launches /\ results[p.n].kind = "none" /\ l \notin bundleLock.holders /\ Numbered(p)
  BY <1>1, <1>2 DEF Numbers, Numbered, Relies, Fresh, Exclusive, Unlocked
<1>4. launches' \in 0..MaxLaunches /\ launches <= launches' /\ launches \in Nat
  BY <1>1, <1>2, PortableBounds DEF PortableTypes
<1>5. CASE At(l, "again") /\ Creates(l, p, Outside)
  <2>1. Outside \in PLocals /\ Outside.at = "out"
    BY SaveTypes DEF Outside
  <2>2. p.at = "again" /\ p.n \in 1..launches' /\ Outside.at # "delete"
    BY <1>2, <1>3, <1>5, <2>1 DEF At
  <2> QED BY <1>1, <1>2, <1>3, <1>4, <1>5, <2>1, <2>2, CreatesKeeps
<1>6. CASE Locals(l, Outside) /\ LockSame
  <2>1. Outside \in PLocals /\ Outside.at = "out"
    BY SaveTypes DEF Outside
  <2>2. pLauncher'[l] = Outside /\ \A m \in PLaunchers : m # l => pLauncher'[m] = pLauncher[m]
    BY <1>1, <1>6 DEF Locals, PortableTypes
  <2>3. bundleLock' = bundleLock
    BY <1>6 DEF LockSame
  <2>4. Exclusive'
    BY <1>1, <1>3, <2>1, <2>2, <2>3 DEF Exclusive, Unlocked
  <2>5. \A m \in bundleLock.holders : m \in PLaunchers /\ m # l
    BY <1>1, <1>3 DEF PortableTypes
  <2>6. TitleHasLauncher'
    BY <1>1, <1>2, <2>2, <2>3, <2>5 DEF TitleHasLauncher
  <2>7. Relies(Outside, results) /\ ~Numbered(Outside)
    BY <2>1 DEF Relies, Fresh, Owns, OnTarget, NotRun, Renames, Capturing, Numbered
  <2>8. /\ hosts' \in [Launches -> {"none", "loose", "contained", "dying"}] /\ strays' \in SUBSET {"loose", "dying"}
        /\ bundleLock' \in [exists : BOOLEAN, holders : SUBSET PLaunchers]
    BY <1>1, <1>2, <2>3 DEF PortableTypes
  <2> QED BY <1>2, <1>4, <1>6, <2>1, <2>4, <2>6, <2>7, <2>8, LockKeeps
<1>7. CASE Deletable /\ GoesTo(l, "again") /\ bundleLock' = [bundleLock EXCEPT !.exists = FALSE]
  <2> DEFINE q == [p EXCEPT !.at = "again"]
  <2>1. q \in PLocals /\ q.at = "again" /\ q.n = p.n /\ Locals(l, q)
    BY <1>1, <1>7 DEF PLocals, PSteps, GoesTo
  <2> HIDE DEF q
  <2>2. bundleLock.holders = {} /\ bundleLock'.holders = {} /\ bundleLock' \in [exists : BOOLEAN, holders : SUBSET PLaunchers]
    BY <1>1, <1>7 DEF Deletable, PortableTypes
  <2>3. pLauncher'[l] = q /\ \A m \in PLaunchers : m # l => pLauncher'[m] = pLauncher[m]
    BY <1>1, <2>1 DEF Locals, PortableTypes
  <2>4. Exclusive'
    BY <1>1, <2>1, <2>2, <2>3 DEF Exclusive, Unlocked
  <2>5. TitleHasLauncher'
    BY <1>1, <1>2, <2>2 DEF TitleHasLauncher
  <2>6. Relies(q, results) /\ Numbered(q)
    BY <1>3, <2>1 DEF Relies, Fresh, Owns, OnTarget, NotRun, Renames, Capturing, Numbered
  <2>7. hosts' \in [Launches -> {"none", "loose", "contained", "dying"}] /\ strays' \in SUBSET {"loose", "dying"}
    BY <1>1, <1>2 DEF PortableTypes
  <2> QED BY <1>2, <1>3, <1>4, <2>1, <2>2, <2>4, <2>5, <2>6, <2>7, LockKeeps
<1> QED BY <1>5, <1>6, <1>7 DEF AcquireLock

\* The launcher's handles close: at the end of wmain, or because it was ended.
LEMMA ClosesKeeps ==
  ASSUME PortableInv, NEW l \in PLaunchers, NEW q \in PLocals, q.at \in {"out", "remove"}, Locals(l, q),
         ClosesJob(pLauncher[l].n), bundleLock' = [bundleLock EXCEPT !.holders = @ \ {l}],
         UNCHANGED <<results, userSave, launches, writes>>
  PROVE  PortableInv' /\ History
<1>1. PortableTypes /\ Exclusive /\ TitleHasLauncher /\ pLauncher \in [PLaunchers -> PLocals]
  BY DEF PortableInv, PortableTypes
<1>2. pLauncher'[l] = q /\ \A m \in PLaunchers : m # l => pLauncher'[m] = pLauncher[m]
  BY <1>1 DEF Locals
<1>3. /\ bundleLock' \in [exists : BOOLEAN, holders : SUBSET PLaunchers] /\ bundleLock'.exists = bundleLock.exists
      /\ bundleLock'.holders = bundleLock.holders \ {l}
  BY <1>1 DEF PortableTypes
<1>4. Exclusive'
  BY <1>1, <1>2, <1>3 DEF Exclusive, Unlocked
<1>5. /\ hosts' \in [Launches -> {"none", "loose", "contained", "dying"}]
      /\ \A m \in Launches : hosts'[m] \in {"loose", "contained"} =>
           hosts[m] \in {"loose", "contained"} /\ (m = pLauncher[l].n => hosts[m] = "loose")
  BY <1>1 DEF ClosesJob, PortableTypes
<1>6. strays' \in SUBSET {"loose", "dying"}
  BY <1>1 DEF ClosesJob, PortableTypes
<1>7. TitleHasLauncher'
  <2> SUFFICES ASSUME "loose" \notin strays', NEW n \in Launches, hosts'[n] \in {"loose", "contained"}
               PROVE  \E m \in bundleLock'.holders : pLauncher'[m].n = n
    BY DEF TitleHasLauncher
  <2>1. "loose" \notin strays /\ n # pLauncher[l].n
    BY <1>5 DEF ClosesJob
  <2>2. PICK m \in bundleLock.holders : pLauncher[m].n = n
    BY <1>1, <1>5, <2>1 DEF TitleHasLauncher
  <2>3. m # l /\ m \in PLaunchers
    BY <1>1, <2>1, <2>2 DEF PortableTypes
  <2> QED BY <1>2, <1>3, <2>2, <2>3
<1>8. Relies(q, results) /\ ~Numbered(q)
  BY DEF Relies, Fresh, Owns, OnTarget, NotRun, Renames, Capturing, Numbered
<1>9. launches' \in 0..MaxLaunches /\ launches <= launches'
  BY <1>1, PortableBounds DEF PortableTypes
<1> QED BY <1>3, <1>4, <1>5, <1>6, <1>7, <1>8, <1>9, LockKeeps

LEMMA LeavingKeeps ==
  ASSUME PortableInv, NEW l \in PLaunchers, Leave(l) \/ RemoveLock(l) \/ LauncherKilled(l)
  PROVE  PortableInv' /\ History
<1>1. Outside \in PLocals /\ Outside.at = "out"
  BY SaveTypes DEF Outside
<1>2. CASE Leave(l)
  <2>1. LET q == [Outside EXCEPT !.at = "remove"] IN q \in PLocals /\ q.at = "remove"
    BY <1>1 DEF PLocals, PSteps
  <2> QED BY <1>2, <2>1, ClosesKeeps DEF Leave
<1>3. CASE LauncherKilled(l)
  BY <1>1, <1>3, ClosesKeeps DEF LauncherKilled
<1>4. CASE RemoveLock(l)
  <2>1. PortableTypes /\ Exclusive /\ TitleHasLauncher
    BY DEF PortableInv
  <2>2. /\ pLauncher[l].at = "remove" /\ Locals(l, Outside) /\ UNCHANGED <<results, userSave, hosts, launches, writes, strays>>
        /\ bundleLock' = [bundleLock EXCEPT !.exists = @ /\ bundleLock.holders # {}]
    BY <1>4 DEF RemoveLock, At, DiskSame
  <2>3. l \notin bundleLock.holders
    BY <2>1, <2>2 DEF Exclusive, Unlocked
  <2>4. (bundleLock.exists /\ bundleLock.holders # {}) \in BOOLEAN
    OBVIOUS
  <2>5. bundleLock' \in [exists : BOOLEAN, holders : SUBSET PLaunchers] /\ bundleLock'.holders = bundleLock.holders
    BY <2>1, <2>2, <2>4 DEF PortableTypes
  <2>6. bundleLock'.exists <=> (bundleLock.exists /\ bundleLock.holders # {})
    BY <2>1, <2>2 DEF PortableTypes
  <2>7. pLauncher'[l] = Outside /\ \A m \in PLaunchers : m # l => pLauncher'[m] = pLauncher[m]
    BY <2>1, <2>2 DEF Locals, PortableTypes
  <2>8. Exclusive'
    BY <1>1, <2>1, <2>3, <2>5, <2>6, <2>7 DEF Exclusive, Unlocked
  <2>9. \A m \in bundleLock.holders : m \in PLaunchers /\ m # l
    BY <2>1, <2>3 DEF PortableTypes
  <2>10. TitleHasLauncher'
    BY <2>1, <2>2, <2>5, <2>7, <2>9 DEF TitleHasLauncher
  <2>11. Relies(Outside, results) /\ ~Numbered(Outside)
    BY <1>1 DEF Relies, Fresh, Owns, OnTarget, NotRun, Renames, Capturing, Numbered
  <2>12. launches' \in 0..MaxLaunches /\ launches <= launches'
    BY <2>1, <2>2, PortableBounds DEF PortableTypes
  <2>13. hosts' \in [Launches -> {"none", "loose", "contained", "dying"}] /\ strays' \in SUBSET {"loose", "dying"}
    BY <2>1, <2>2 DEF PortableTypes
  <2> QED BY <1>1, <2>2, <2>5, <2>8, <2>10, <2>11, <2>12, <2>13, LockKeeps
<1> QED BY <1>2, <1>3, <1>4

LEMMA TitleKeeps ==
  ASSUME PortableInv, TitleWrites \/ \E n \in Launches : TitleEnds(n)
  PROVE  PortableInv' /\ History
<1>1. PortableTypes /\ Exclusive /\ Numbers /\ TitleHasLauncher
  BY DEF PortableInv
<1>2. /\ UNCHANGED <<bundleLock, pLauncher, results, launches>>
      /\ strays' \in SUBSET {"loose", "dying"} /\ ("loose" \in strays' <=> "loose" \in strays)
  BY <1>1 DEF TitleWrites, TitleEnds, LockSame, PortableTypes
<1>3. /\ hosts' \in [Launches -> {"none", "loose", "contained", "dying"}]
      /\ \A m \in Launches : hosts'[m] \in {"loose", "contained"} => hosts[m] \in {"loose", "contained"}
  BY <1>1 DEF TitleWrites, TitleEnds, PortableTypes
<1>4. userSave' \in Pairs /\ writes' \in Nat
  <2>1. CASE UNCHANGED <<userSave, writes>>
    BY <1>1, <2>1 DEF PortableTypes
  <2>2. CASE TitleWrites
    <3>1. writes' = writes + 1 /\ writes \in Nat /\ writes + 2 \in Nat /\ userSave \in Pairs
      BY <1>1, <2>2 DEF TitleWrites, PortableTypes
    <3>2. PICK file \in {1, 2} : userSave' = [userSave EXCEPT ![file] = writes + 2]
      BY <2>2 DEF TitleWrites
    <3>3. userSave' = <<writes + 2, userSave[2]>> \/ userSave' = <<userSave[1], writes + 2>>
      BY <3>1, <3>2, PairWrites
    <3>4. userSave[1] \in Nat /\ userSave[2] \in Nat
      BY <3>1 DEF Pairs
    <3> QED BY <3>1, <3>3, <3>4 DEF Pairs
  <2> QED BY <2>1, <2>2 DEF TitleEnds
<1>5. PortableTypes' /\ Exclusive'
  BY <1>1, <1>2, <1>3, <1>4 DEF PortableTypes, Exclusive
<1>6. Numbers' /\ \A l \in PLaunchers : Relies(pLauncher'[l], results')
  BY <1>1, <1>2 DEF Numbers, PortableInv
<1>7. TitleHasLauncher'
  BY <1>1, <1>2, <1>3 DEF TitleHasLauncher
<1> QED BY <1>2, <1>5, <1>6, <1>7, ResultsSame DEF PortableInv

LEMMA NextPortable == PortableInv /\ [PortableNext]_portableVars => PortableInv' /\ History
<1> SUFFICES ASSUME PortableInv, [PortableNext]_portableVars  PROVE PortableInv' /\ History
  OBVIOUS
<1>1. ASSUME NEW l \in PLaunchers, PortableStep(l)  PROVE PortableInv' /\ History
  <2>1. CASE CaptureSaveSteps(l)
    BY <2>1, ReadSaveKeeps, ReadHeaderKeeps, CopySaveKeeps, CopyHeaderKeeps, CompareAfterKeeps, PublishKeeps
       DEF CaptureSaveSteps
  <2>2. CASE Interrupted(l) \/ Finish(l)
    <3>1. CASE Interrupted(l)
      BY <3>1, EndsKeeps DEF Interrupted, At
    <3>2. CASE Finish(l)
      BY <3>2, EndsKeeps DEF Finish, At
    <3> QED BY <2>2, <3>1, <3>2
  <2>3. CASE RenameBegin(l) \/ RenameStage(l) \/ RenameMove(l) \/ RenameCloses(l)
    BY <2>3, RenameKeeps
  <2>4. CASE Launch(l) \/ AcquireLock(l) \/ Leave(l) \/ RemoveLock(l) \/ LauncherKilled(l)
    BY <2>4, LaunchKeeps, AcquireLockKeeps, LeavingKeeps
  <2>5. CASE Validate(l) \/ Recover(l) \/ StageSession(l) \/ WriteManifest(l) \/ Spawn(l) \/ Contain(l) \/ Watch(l)
    BY <2>5, ValidateKeeps, RecoverKeeps, StageSessionKeeps, WriteManifestKeeps, SpawnKeeps, ContainKeeps, WatchKeeps
  <2> QED BY <1>1, <2>1, <2>2, <2>3, <2>4, <2>5 DEF PortableStep
<1>2. CASE TitleWrites \/ \E n \in Launches : TitleEnds(n)
  BY <1>2, TitleKeeps
<1>3. CASE UNCHANGED portableVars
  <2>1. UNCHANGED <<bundleLock, pLauncher, results, userSave, hosts, launches, writes, strays>>
    BY <1>3 DEF portableVars
  <2>2. PortableTypes' /\ Exclusive' /\ Numbers' /\ TitleHasLauncher'
    BY <2>1 DEF PortableInv, PortableTypes, Exclusive, Numbers, TitleHasLauncher
  <2>3. \A l \in PLaunchers : Relies(pLauncher'[l], results')
    BY <2>1 DEF PortableInv
  <2> QED BY <2>1, <2>2, <2>3, ResultsSame DEF PortableInv
<1> QED BY <1>1, <1>2, <1>3 DEF PortableNext

\* At most one member.
LEMMA AtMostOne ==
  ASSUME NEW S, \A x, y \in S : x = y
  PROVE  Cardinality(S) <= 1
<1>1. CASE S = {}
  BY <1>1, FS_EmptySet
<1>2. CASE S # {}
  <2>1. PICK x : x \in S
    BY <1>2
  <2>2. S = {x}
    BY <2>1
  <2> QED BY <2>2, FS_Singleton
<1> QED BY <1>1, <1>2

\* For any number of launchers and launches, each of them ended at any point: at
\* most one launcher is inside bundle.lock, at most one session is open, at most
\* one title runs that is not being ended with its job (unless one outlived its
\* launcher before it was in the job), and the history keeps within its limit.
THEOREM OneWriterAtATime == PortableSpec => []BundleHasOneWriter
<1>1. PortableInv => BundleHasOneWriter
  <2> SUFFICES ASSUME PortableInv  PROVE BundleHasOneWriter
    OBVIOUS
  <2>1. Cardinality(bundleLock.holders) <= 1 /\ Cardinality(OpenSessions) <= 1
    BY AtMostOne DEF PortableInv, Exclusive, OneSession
  <2>2. ASSUME "loose" \notin strays  PROVE Cardinality({n \in Launches : hosts[n] \in {"loose", "contained"}}) <= 1
    <3>1. \A m, n \in {n \in Launches : hosts[n] \in {"loose", "contained"}} : m = n
      BY <2>2 DEF PortableInv, TitleHasLauncher, Exclusive
    <3> QED BY <3>1, AtMostOne
  <2> QED BY <2>1, <2>2 DEF BundleHasOneWriter, PortableInv, Running
<1> QED BY <1>1, InitPortable, NextPortable, PTL DEF PortableSpec

\* Whatever is ended and recovered in between, a published directory is never
\* changed or removed, and a session in which the title ran is never thrown away.
THEOREM ProvenanceIsKept == PortableSpec => HistoryIsKept
<1>1. PortableInv /\ [PortableNext]_portableVars
        => [\A n \in Launches :
              LET old == results[n]
                  new == results'[n]
              IN /\ old.kind # "none" /\ ~old.open => new = old
                 /\ old.ran => new.ran]_portableVars
  BY NextPortable DEF History
<1> QED BY <1>1, InitPortable, NextPortable, PTL DEF PortableSpec, HistoryIsKept

-----------------------------------------------------------------------------
(* What a session tells.                                                    *)
(*                                                                          *)
(* Two things have to be known while a snapshot is taken.  The two files    *)
(* are read one after the other, and make a state of the save only because  *)
(* a file that has been written never has its old content again.  And while *)
(* the last snapshot of a session is taken nothing writes, because the only *)
(* title there could be is this launcher's and it has ended.                *)

Ending(p) == p.at \in Capturing /\ p.reason \in {"recover", "exit"}
Quiet(p) == p.at \notin Unlocked /\ (Fresh(p) \/ NotRun(p) \/ Ending(p) \/ p.at = "result")
InSession(p) == p.at \in Capturing \cup {"interrupted", "spawn", "job", "watch", "result"}
Ended(p) == p.at = "interrupted" \/ (p.at = "result" /\ ~p.warned)

Copying == {"copySave", "copyHeader", "afterSave"}
Compared == {"afterHeader", "publish"}

KnowsTitle(p, hst) == Quiet(p) /\ strays = {} => hst[p.n] \notin {"loose", "contained"}
KnowsSession(p, res) ==
  InSession(p) => /\ p.target \in Launches /\ (p.at \in {"spawn", "job", "watch"} => p.target = p.n)
                  /\ res[p.target].manifest
                  /\ HasBoth(p.last) => SnapshotPublished(res[p.target], p.last[1])
KnowsPair(p, res) ==
  /\ p.at \in Copying \cup {"readHeader"} => p.before[1] <= writes + 1
  /\ p.at \in Copying => p.before \in heldSaves \/ userSave[1] # p.before[1]
  /\ p.at \in Compared => p.before \in heldSaves /\ res[p.target].staging[1] = p.before[1]
  /\ p.at = "publish" => res[p.target].staging[2] = p.before[2]
KnowsEnd(p, res) ==
  Ending(p) /\ strays = {} =>
    /\ p.at = "readHeader" => p.before[1] = userSave[1]
    /\ p.at \in Copying \cup Compared => p.before = userSave
    /\ p.at \in Compared \cup {"copyHeader", "afterSave"} => res[p.target].staging[1] = userSave[1]
    /\ p.at \in Compared \cup {"afterSave"} => res[p.target].staging[2] = userSave[2]
KnowsLast(p, res) ==
  Ended(p) /\ strays = {} /\ HasBoth(userSave) => SnapshotPublished(res[p.target], userSave[1])
Knows(p, res, hst) ==
  KnowsTitle(p, hst) /\ KnowsSession(p, res) /\ KnowsPair(p, res) /\ KnowsEnd(p, res) /\ KnowsLast(p, res)

Tells(r) ==
  r.kind = "session" =>
    /\ \A i \in DOMAIN r.saves : r.saves[i] \in heldSaves
    /\ r.ran => r.manifest
    /\ ~r.open =>
         /\ r.manifest /\ r.state \in {"complete", "interrupted"}
         /\ ~r.warned /\ strays = {} /\ HasBoth(r.final) => SnapshotPublished(r, r.final[1])

SaveInv ==
  /\ userSave \in heldSaves /\ userSave[1] <= writes + 1
  /\ \A n \in Launches : Tells(results[n])
  /\ \A l \in PLaunchers : Knows(pLauncher[l], results, hosts)

LEMMA UnlockedKnows ==
  ASSUME NEW p, NEW res, NEW hst, p.at \in Unlocked \cup {"leave", "journal", "name", "receipt"}
  PROVE  Knows(p, res, hst)
<1>1. ~Quiet(p) /\ ~InSession(p) /\ ~Ending(p) /\ ~Ended(p) /\ p.at \notin Capturing
  BY DEF Quiet, InSession, Ending, Ended, Unlocked, Capturing, Fresh, NotRun
<1>2. p.at \notin Copying \cup Compared \cup {"readHeader"} /\ p.at # "publish"
  BY <1>1 DEF Copying, Compared, Capturing
<1> QED BY <1>1, <1>2 DEF Knows, KnowsTitle, KnowsSession, KnowsPair, KnowsEnd, KnowsLast

\* A step of the launcher inside the lock.
LEMMA SavesKeep ==
  ASSUME PortableInv, SaveInv, NEW l \in PLaunchers, pLauncher[l].at \notin Unlocked,
         NEW q, Locals(l, q), NEW k \in Launches, NEW r, results' = [results EXCEPT ![k] = r],
         UNCHANGED <<userSave, writes, heldSaves, strays>>, Tells(r), Knows(q, results', hosts')
  PROVE  SaveInv'
<1>1. /\ pLauncher \in [PLaunchers -> PLocals] /\ results \in [Launches -> PRecords] /\ Exclusive
  BY DEF PortableInv, PortableTypes
<1>2. pLauncher'[l] = q /\ \A m \in PLaunchers : m # l => pLauncher'[m] = pLauncher[m]
  BY <1>1 DEF Locals
<1>3. results'[k] = r /\ \A n \in Launches : n # k => results'[n] = results[n]
  BY <1>1
<1>4. \A m \in PLaunchers : m # l => pLauncher[m].at \in Unlocked
  BY <1>1 DEF Exclusive
<1>5. ASSUME NEW m \in PLaunchers  PROVE Knows(pLauncher'[m], results', hosts')
  <2>1. CASE m = l
    BY <1>2, <2>1
  <2>2. CASE m # l
    BY <1>2, <1>4, <2>2, UnlockedKnows
  <2> QED BY <2>1, <2>2
<1>6. ASSUME NEW x, NEW res, NEW hst  PROVE Knows(x, res, hst)' <=> Knows(x, res, hst)
  BY DEF Knows, KnowsTitle, KnowsSession, KnowsPair, KnowsEnd, KnowsLast, Quiet, InSession, Ending, Ended,
         Fresh, NotRun, SnapshotPublished, HasBoth, Copying, Compared, Capturing, Unlocked
<1>7. ASSUME NEW x  PROVE Tells(x)' <=> Tells(x)
  BY DEF Tells, SnapshotPublished, HasBoth
<1>8. \A n \in Launches : Tells(results'[n])
  BY <1>3 DEF SaveInv
<1>9. (userSave \in heldSaves /\ userSave[1] <= writes + 1)'
  BY DEF SaveInv
<1> QED BY <1>5, <1>6, <1>7, <1>8, <1>9 DEF SaveInv

\* ... that changes no directory.
LEMMA SavesStay ==
  ASSUME PortableInv, SaveInv, NEW l \in PLaunchers, pLauncher[l].at \notin Unlocked,
         NEW q, Locals(l, q), UNCHANGED <<results, userSave, writes, heldSaves, strays>>, Knows(q, results, hosts')
  PROVE  SaveInv'
<1> DEFINE k == pLauncher[l].n
<1>1. k \in Launches /\ results \in [Launches -> PRecords]
  BY InsideHolds DEF PortableInv, PortableTypes
<1>2. results' = [results EXCEPT ![k] = results[k]] /\ Tells(results[k])
  BY <1>1 DEF SaveInv
<1>3. Knows(q, results', hosts')
  OBVIOUS
<1> QED BY <1>1, <1>2, <1>3, SavesKeep

LEMMA SavesQuit ==
  ASSUME PortableInv, SaveInv, NEW l \in PLaunchers, pLauncher[l].at \notin Unlocked, Quits(l),
         NEW k \in Launches, NEW r, results' = [results EXCEPT ![k] = r], Tells(r),
         UNCHANGED <<userSave, writes, heldSaves, strays>>
  PROVE  SaveInv'
<1> DEFINE q == [Outside EXCEPT !.at = "leave", !.n = pLauncher[l].n]
<1>1. q.at = "leave" /\ Locals(l, q)
  BY DEF Quits, Outside
<1> HIDE DEF q
<1>2. Knows(q, results', hosts')
  BY <1>1, UnlockedKnows
<1> QED BY <1>1, <1>2, SavesKeep

LEMMA SavesQuitOnly ==
  ASSUME PortableInv, SaveInv, NEW l \in PLaunchers, pLauncher[l].at \notin Unlocked, Quits(l),
         UNCHANGED <<results, userSave, writes, heldSaves, strays>>
  PROVE  SaveInv'
<1> DEFINE k == pLauncher[l].n
<1>1. k \in Launches /\ results \in [Launches -> PRecords]
  BY InsideHolds DEF PortableInv, PortableTypes
<1>2. results' = [results EXCEPT ![k] = results[k]] /\ Tells(results[k])
  BY <1>1 DEF SaveInv
<1> QED BY <1>1, <1>2, SavesQuit

LEMMA ReturnsSaves ==
  ASSUME PortableInv, SaveInv, NEW l \in PLaunchers, pLauncher[l].at \in Capturing, NEW ok \in BOOLEAN,
         NEW fields \in PLocals, fields.n = pLauncher[l].n, fields.target = pLauncher[l].target,
         NEW record \in PRecords, record.kind = "session", record.open, Tells(record),
         record.manifest, results[pLauncher[l].target].ran <=> record.ran,
         HasBoth(fields.last) => SnapshotPublished(record, fields.last[1]),
         ok /\ Ending(pLauncher[l]) /\ strays = {} /\ HasBoth(userSave) => SnapshotPublished(record, userSave[1]),
         SnapshotReturns(l, ok, fields, record), UNCHANGED <<userSave, writes, heldSaves, strays, hosts>>
  PROVE  SaveInv'
<1> DEFINE p == pLauncher[l]
           t == p.target
<1>1. /\ p.at \notin Unlocked /\ p \in PLocals /\ p.n \in Launches /\ Relies(p, results)
      /\ results \in [Launches -> PRecords] /\ Knows(p, results, hosts)
  BY InsideHolds DEF Unlocked, Capturing, PortableInv, PortableTypes, SaveInv
<1>2. t \in Launches /\ p.reason \in Reasons
  BY <1>1 DEF Relies, OnTarget, PLocals
<1>3. PICK kept \in (IF ~ok /\ Discards(p.reason) THEN Removed(record) ELSE {record}) :
        results' = [results EXCEPT ![t] = kept]
  BY DEF SnapshotReturns
<1>4. ~(~ok /\ Discards(p.reason)) => kept = record
  BY <1>3
<1>5. Tells(kept)
  <2>1. CASE ~ok /\ Discards(p.reason)
    <3>1. p.reason = "start" /\ kept \in Removed(record)
      BY <1>3, <2>1 DEF Discards
    <3>2. NotRun(p) /\ Owns(p) /\ OnTarget(p)
      BY <3>1 DEF NotRun, Owns, OnTarget
    <3>3. ~record.ran
      BY <1>1, <3>2 DEF Relies
    <3>4. NoRecord.kind = "none"
      BY DEF NoRecord
    <3>5. LET c == [record EXCEPT !.manifest = FALSE] IN c.open /\ ~c.ran /\ c.saves = record.saves
      BY <3>3 DEF PRecords
    <3>6. Tells([record EXCEPT !.manifest = FALSE])
      <4> DEFINE c == [record EXCEPT !.manifest = FALSE]
      <4>1. c.open /\ ~c.ran /\ c.saves = record.saves
        BY <3>5
      <4> HIDE DEF c
      <4>2. Tells(c)
        BY <4>1 DEF Tells
      <4> QED BY <4>2 DEF c
    <3>7. Tells(NoRecord)
      BY <3>4 DEF Tells
    <3> QED BY <3>1, <3>6, <3>7 DEF Removed
  <2>2. CASE ~(~ok /\ Discards(p.reason))
    BY <1>4, <2>2
  <2> QED BY <2>1, <2>2
<1>6. CASE Quits(l)
  BY <1>1, <1>2, <1>3, <1>5, <1>6, SavesQuit
<1>7. ASSUME NEW next \in {"interrupted", "spawn", "watch", "result"},
             next = "interrupted" => p.reason = "recover" /\ ok,
             next = "spawn" => p.reason = "start" /\ ok,
             next = "watch" => p.reason = "watch",
             next = "result" => p.reason = "exit",
             Locals(l, [fields EXCEPT !.at = next, !.before = NoSave, !.reason = "start",
                          !.warned = @ \/ (~ok /\ p.reason \in {"watch", "exit"})])
      PROVE  SaveInv'
  <2> DEFINE w == fields.warned \/ (~ok /\ p.reason \in {"watch", "exit"})
             q == [fields EXCEPT !.at = next, !.before = NoSave, !.reason = "start", !.warned = w]
  <2>1. w \in BOOLEAN /\ (~w /\ p.reason = "exit" => ok)
    BY DEF PLocals
  <2>2. Locals(l, q)
    BY <1>7 DEF PLocals
  <2> HIDE DEF w
  <2>3. q.at = next /\ q.n = p.n /\ q.target = t /\ q.last = fields.last /\ q.warned = w /\ q.reason = "start"
    BY <2>1 DEF PLocals
  <2> HIDE DEF q
  <2>4. kept = record
    BY <1>4, <1>7 DEF Discards
  <2>5. results'[t] = record
    BY <1>1, <1>2, <1>3, <2>4
  <2>6. next \notin Unlocked /\ next \notin Capturing
    BY DEF Unlocked, Capturing
  <2>7. KnowsTitle(q, hosts')
    <3> SUFFICES ASSUME Quiet(q), strays = {}  PROVE hosts[p.n] \notin {"loose", "contained"}
      BY <2>3 DEF KnowsTitle
    <3>1. next # "watch"
      BY <2>3, <2>6 DEF Quiet, Fresh, NotRun, Ending
    <3>2. Quiet(p)
      BY <1>1, <1>7, <3>1 DEF Quiet, Ending, NotRun
    <3> QED BY <1>1, <3>2 DEF Knows, KnowsTitle
  <2>8. KnowsSession(q, results')
    <3>1. next \in {"spawn", "watch"} => t = p.n
      BY <1>1, <1>7 DEF Relies, OnTarget, Owns
    <3> QED BY <1>2, <2>3, <2>5, <2>6, <3>1 DEF KnowsSession, InSession
  <2>9. KnowsPair(q, results') /\ KnowsEnd(q, results')
    BY <2>3, <2>6 DEF KnowsPair, KnowsEnd, Ending, Capturing, Copying, Compared
  <2>10. KnowsLast(q, results')
    <3> SUFFICES ASSUME Ended(q), strays = {}, HasBoth(userSave)  PROVE SnapshotPublished(record, userSave[1])
      BY <2>3, <2>5 DEF KnowsLast
    <3>1. next = "interrupted" \/ (next = "result" /\ ~w)
      BY <2>3 DEF Ended
    <3>2. ok /\ Ending(p)
      BY <1>7, <2>1, <3>1 DEF Ending
    <3> QED BY <3>2
  <2>11. Knows(q, results', hosts')
    BY <2>7, <2>8, <2>9, <2>10 DEF Knows
  <2> QED BY <1>1, <1>2, <1>3, <1>5, <2>2, <2>11, SavesKeep
<1> QED
  <2> DEFINE after(x) == [fields EXCEPT !.at = x, !.before = NoSave, !.reason = "start",
                           !.warned = @ \/ (~ok /\ p.reason \in {"watch", "exit"})]
  <2> HIDE DEF after
  <2>1. \/ Quits(l)
        \/ p.reason = "recover" /\ ok /\ Locals(l, after("interrupted"))
        \/ p.reason = "start" /\ ok /\ Locals(l, after("spawn"))
        \/ p.reason = "watch" /\ Locals(l, after("watch"))
        \/ p.reason = "exit" /\ Locals(l, after("result"))
    BY <1>2 DEF SnapshotReturns, Reasons, after
  <2> QED BY <1>6, <1>7, <2>1 DEF after

\* From one step of CaptureSave to another.
LEMMA CapturingSaves ==
  ASSUME PortableInv, SaveInv, NEW l \in PLaunchers, pLauncher[l].at \in Capturing,
         NEW q, q.at \in Capturing, q.n = pLauncher[l].n, q.target = pLauncher[l].target,
         q.reason = pLauncher[l].reason, q.last = pLauncher[l].last, Locals(l, q),
         NEW r, results' = [results EXCEPT ![pLauncher[l].target] = r], Tells(r), r.manifest,
         r.saves = results[pLauncher[l].target].saves,
         KnowsPair(q, results'), KnowsEnd(q, results'),
         UNCHANGED <<userSave, writes, heldSaves, strays, hosts>>
  PROVE  SaveInv'
<1> DEFINE p == pLauncher[l]
           t == p.target
<1>1. p.at \notin Unlocked /\ t \in Launches /\ Knows(p, results, hosts) /\ results \in [Launches -> PRecords]
  BY CapturingTarget DEF SaveInv, PortableInv, PortableTypes
<1>2. results'[t] = r
  BY <1>1
<1>3. KnowsTitle(q, hosts')
  BY <1>1 DEF Knows, KnowsTitle, Quiet, Fresh, NotRun, Ending, Unlocked, Capturing
<1>4. HasBoth(q.last) => SnapshotPublished(r, q.last[1])
  BY <1>1 DEF Knows, KnowsSession, InSession, SnapshotPublished
<1>5. KnowsSession(q, results')
  BY <1>1, <1>2, <1>4 DEF KnowsSession, Capturing
<1>6. KnowsLast(q, results')
  BY DEF KnowsLast, Ended, Capturing
<1>7. Knows(q, results', hosts')
  BY <1>3, <1>5, <1>6 DEF Knows
<1> QED BY <1>1, <1>7, SavesKeep

\* What is staged next to the snapshots tells nothing.
LEMMA StagingTells ==
  ASSUME NEW r \in PRecords, NEW s, Tells(r), r.open
  PROVE  LET c == [r EXCEPT !.staging = s]
         IN /\ Tells(c) /\ c.kind = r.kind /\ c.open /\ (c.ran <=> r.ran) /\ (c.manifest <=> r.manifest)
            /\ c.saves = r.saves /\ c.staging = s
<1> DEFINE c == [r EXCEPT !.staging = s]
<1>1. /\ c.kind = r.kind /\ c.open /\ (c.ran <=> r.ran) /\ (c.manifest <=> r.manifest)
      /\ c.saves = r.saves /\ c.staging = s
  BY DEF PRecords
<1> HIDE DEF c
<1>2. Tells(c)
  BY <1>1 DEF Tells
<1> QED BY <1>1, <1>2 DEF c

LEMMA CapturingKnows ==
  ASSUME PortableInv, SaveInv, NEW l \in PLaunchers, pLauncher[l].at \in Capturing
  PROVE  /\ Tells(results[pLauncher[l].target]) /\ results[pLauncher[l].target].manifest
         /\ HasBoth(pLauncher[l].last) => SnapshotPublished(results[pLauncher[l].target], pLauncher[l].last[1])
         /\ KnowsPair(pLauncher[l], results) /\ KnowsEnd(pLauncher[l], results)
<1>1. pLauncher[l].target \in Launches /\ Knows(pLauncher[l], results, hosts)
  BY CapturingTarget DEF SaveInv
<1> QED BY <1>1 DEF SaveInv, Knows, KnowsSession, InSession

LEMMA ReadSaveSaves ==
  ASSUME PortableInv, SaveInv, NEW l \in PLaunchers, ReadSave(l)
  PROVE  SaveInv'
<1> DEFINE p == pLauncher[l]
           q == [p EXCEPT !.at = "readHeader", !.before = <<userSave[1], 0>>]
<1>1. p.at \in Capturing /\ Locals(l, q) /\ UNCHANGED <<results, userSave, writes, heldSaves, strays, hosts>>
  BY DEF ReadSave, At, Capturing, DiskSame
<1>2. q.at = "readHeader" /\ q.n = p.n /\ q.target = p.target /\ q.reason = p.reason /\ q.last = p.last
      /\ q.before = <<userSave[1], 0>>
  BY <1>1, CapturingTarget DEF PLocals
<1> HIDE DEF q
<1>3. q.before[1] = userSave[1] /\ q.before[1] <= writes + 1
  BY <1>2 DEF SaveInv
<1>4. KnowsPair(q, results') /\ KnowsEnd(q, results')
  BY <1>2, <1>3 DEF KnowsPair, KnowsEnd, Copying, Compared
<1> QED BY <1>1, <1>2, <1>4, CapturingTarget, CapturingKnows, CapturingSaves DEF Capturing

LEMMA ReadHeaderSaves ==
  ASSUME PortableInv, SaveInv, NEW l \in PLaunchers, ReadHeader(l)
  PROVE  SaveInv'
<1> DEFINE p == pLauncher[l]
           r == results[p.target]
           before == <<p.before[1], userSave[2]>>
<1>1. p.at \in Capturing /\ p.at = "readHeader" /\ UNCHANGED <<userSave, writes, heldSaves, strays, hosts>>
  BY DEF ReadHeader, At, Capturing, DiskSame
<1>2. /\ p \in PLocals /\ r \in PRecords /\ r.kind = "session" /\ r.open /\ userSave \in Pairs
      /\ results = [results EXCEPT ![p.target] = r]
  BY <1>1, CapturingTarget
<1>3. /\ Tells(r) /\ r.manifest /\ KnowsPair(p, results) /\ KnowsEnd(p, results)
      /\ HasBoth(p.last) => SnapshotPublished(r, p.last[1])
  BY <1>1, CapturingKnows
<1>4. before \in Pairs /\ before[1] = p.before[1] /\ before[2] = userSave[2]
  BY <1>2 DEF Pairs, PLocals
<1>5. before[1] = userSave[1] => before = userSave
  BY <1>2, PairWrites
<1>6. Ending(p) /\ strays = {} => before = userSave
  BY <1>1, <1>3, <1>4, <1>5 DEF KnowsEnd
<1>7. before[1] <= writes + 1 /\ (before \in heldSaves \/ userSave[1] # before[1])
  BY <1>1, <1>3, <1>4, <1>5 DEF KnowsPair, SaveInv
<1> HIDE DEF before
<1>8. CASE (~HasBoth(before) \/ before = p.last) /\ SnapshotReturns(l, TRUE, p, r)
  <2>1. Ending(p) /\ strays = {} /\ HasBoth(userSave) => SnapshotPublished(r, userSave[1])
    BY <1>3, <1>6, <1>8
  <2> QED BY <1>1, <1>2, <1>3, <1>8, <2>1, ReturnsSaves
<1>9. CASE SnapshotPublished(r, before[1]) /\ SnapshotReturns(l, TRUE, [p EXCEPT !.last = before], r)
  <2> DEFINE q == [p EXCEPT !.last = before]
  <2>1. q \in PLocals /\ q.n = p.n /\ q.target = p.target /\ q.last = before
    BY <1>2, <1>4 DEF PLocals
  <2>2. Ending(p) /\ strays = {} /\ HasBoth(userSave) => SnapshotPublished(r, userSave[1])
    BY <1>6, <1>9
  <2>3. SnapshotReturns(l, TRUE, q, r)
    BY <1>9
  <2>4. HasBoth(q.last) => SnapshotPublished(r, q.last[1])
    BY <1>9, <2>1
  <2> HIDE DEF q
  <2> QED BY <1>1, <1>2, <1>3, <2>1, <2>2, <2>3, <2>4, ReturnsSaves
<1>10. CASE SnapshotReturns(l, FALSE, p, r)
  BY <1>1, <1>2, <1>3, <1>10, ReturnsSaves
<1>11. CASE Locals(l, [p EXCEPT !.at = "copySave", !.before = before]) /\ UNCHANGED results
  <2> DEFINE q == [p EXCEPT !.at = "copySave", !.before = before]
  <2>1. /\ q.at = "copySave" /\ q.n = p.n /\ q.target = p.target /\ q.reason = p.reason /\ q.last = p.last
        /\ q.before = before
    BY <1>2 DEF PLocals
  <2>2. Locals(l, q) /\ results' = [results EXCEPT ![p.target] = r]
    BY <1>2, <1>11
  <2> HIDE DEF q
  <2>3. KnowsPair(q, results')
    BY <1>7, <2>1 DEF KnowsPair, Copying, Compared
  <2>4. Ending(q) <=> Ending(p)
    BY <1>1, <2>1 DEF Ending, Capturing
  <2>5. KnowsEnd(q, results')
    BY <1>6, <2>1, <2>4 DEF KnowsEnd, Copying, Compared
  <2>6. q.at \in Capturing
    BY <2>1 DEF Capturing
  <2> QED BY <1>1, <1>3, <2>1, <2>2, <2>3, <2>5, <2>6, CapturingSaves
<1> QED BY <1>8, <1>9, <1>10, <1>11 DEF ReadHeader, before

LEMMA CopySaveSaves ==
  ASSUME PortableInv, SaveInv, NEW l \in PLaunchers, CopySave(l)
  PROVE  SaveInv'
<1> DEFINE p == pLauncher[l]
           r == results[p.target]
           s == [r EXCEPT !.staging = <<userSave[1], 0>>]
<1>1. p.at \in Capturing /\ p.at = "copySave" /\ UNCHANGED <<userSave, writes, heldSaves, strays, hosts>>
  BY DEF CopySave, At, Capturing, DiskSame
<1>2. /\ p \in PLocals /\ r \in PRecords /\ r.kind = "session" /\ r.open /\ <<userSave[1], 0>> \in Pairs
      /\ p.target \in Launches /\ results \in [Launches -> PRecords]
  BY <1>1, CapturingTarget DEF Pairs, PortableInv, PortableTypes
<1>3. /\ Tells(r) /\ r.manifest /\ KnowsPair(p, results) /\ KnowsEnd(p, results)
      /\ HasBoth(p.last) => SnapshotPublished(r, p.last[1])
  BY <1>1, CapturingKnows
<1>4. /\ s \in PRecords /\ Tells(s) /\ s.kind = "session" /\ s.open /\ (s.ran <=> r.ran) /\ s.manifest
      /\ s.saves = r.saves /\ s.staging = <<userSave[1], 0>>
  BY <1>2, <1>3, StagingTells DEF PRecords
<1>5. CASE \E kept \in Unstaged(s) : SnapshotReturns(l, FALSE, p, kept)
  <2>1. PICK kept \in Unstaged(s) : SnapshotReturns(l, FALSE, p, kept)
    BY <1>5
  <2> HIDE DEF s
  <2>2. LET u == [s EXCEPT !.staging = NoSave]
        IN /\ u \in PRecords /\ Tells(u) /\ u.kind = "session" /\ u.open /\ (u.ran <=> s.ran) /\ (u.manifest <=> s.manifest)
           /\ u.saves = s.saves
    <3>1. [s EXCEPT !.staging = NoSave] \in PRecords
      BY <1>4, SaveTypes DEF PRecords
    <3> QED BY <1>4, <3>1, StagingTells
  <2>3. /\ kept \in PRecords /\ Tells(kept) /\ kept.kind = "session" /\ kept.open /\ (kept.ran <=> r.ran) /\ kept.manifest
        /\ kept.saves = r.saves
    BY <1>4, <2>1, <2>2 DEF Unstaged
  <2>4. HasBoth(p.last) => SnapshotPublished(kept, p.last[1])
    BY <1>3, <2>3 DEF SnapshotPublished
  <2> QED BY <1>1, <1>2, <2>1, <2>3, <2>4, ReturnsSaves
<1>6. CASE results' = [results EXCEPT ![p.target].staging = <<userSave[1], 0>>] /\ GoesTo(l, "copyHeader")
  <2> DEFINE q == [p EXCEPT !.at = "copyHeader"]
  <2>1. /\ q.at = "copyHeader" /\ q.n = p.n /\ q.target = p.target /\ q.reason = p.reason /\ q.last = p.last
        /\ q.before = p.before
    BY <1>2 DEF PLocals
  <2>2. Locals(l, q) /\ results' = [results EXCEPT ![p.target] = s]
    BY <1>6 DEF GoesTo
  <2> HIDE DEF q, s
  <2>3. results'[p.target] = s /\ s.staging[1] = userSave[1]
    BY <1>2, <1>4, <2>2
  <2>4. KnowsPair(q, results')
    BY <1>1, <1>3, <2>1 DEF KnowsPair, Copying, Compared
  <2>5. (Ending(q) <=> Ending(p)) /\ q.at \in Capturing
    BY <1>1, <2>1 DEF Ending, Capturing
  <2>6. KnowsEnd(q, results')
    BY <1>1, <1>3, <2>1, <2>3, <2>5 DEF KnowsEnd, Copying, Compared
  <2> QED BY <1>1, <1>4, <2>1, <2>2, <2>4, <2>5, <2>6, CapturingSaves
<1> QED BY <1>5, <1>6 DEF CopySave

LEMMA CopyHeaderSaves ==
  ASSUME PortableInv, SaveInv, NEW l \in PLaunchers, CopyHeader(l)
  PROVE  SaveInv'
<1> DEFINE p == pLauncher[l]
           r == results[p.target]
           new == [r.staging EXCEPT ![2] = userSave[2]]
           s == [r EXCEPT !.staging = new]
           q == [p EXCEPT !.at = "afterSave"]
<1>1. /\ p.at \in Capturing /\ p.at = "copyHeader" /\ UNCHANGED <<userSave, writes, heldSaves, strays, hosts>>
      /\ Locals(l, q) /\ results' = [results EXCEPT ![p.target] = s]
  BY DEF CopyHeader, At, Capturing, GoesTo, DiskSame
<1>2. /\ p \in PLocals /\ r \in PRecords /\ r.kind = "session" /\ r.open /\ userSave \in Pairs
      /\ p.target \in Launches /\ results \in [Launches -> PRecords]
  BY <1>1, CapturingTarget DEF PortableInv, PortableTypes
<1>3. Tells(r) /\ r.manifest /\ KnowsPair(p, results) /\ KnowsEnd(p, results)
  BY <1>1, CapturingKnows
<1>4. new[1] = r.staging[1] /\ new[2] = userSave[2]
  <2>1. r.staging \in Pairs /\ userSave[2] \in Nat
    BY <1>2 DEF PRecords, Pairs
  <2>2. new = <<r.staging[1], userSave[2]>>
    BY <2>1, PairWrites
  <2> QED BY <2>2
<1> HIDE DEF new
<1>5. Tells(s) /\ s.manifest /\ s.saves = r.saves /\ s.staging = new
  BY <1>2, <1>3, StagingTells
<1>6. /\ q.at = "afterSave" /\ q.n = p.n /\ q.target = p.target /\ q.reason = p.reason /\ q.last = p.last
      /\ q.before = p.before
  BY <1>2 DEF PLocals
<1> HIDE DEF q, s
<1>7. results'[p.target] = s
  BY <1>1, <1>2
<1>8. KnowsPair(q, results')
  BY <1>1, <1>3, <1>6 DEF KnowsPair, Copying, Compared
<1>9. (Ending(q) <=> Ending(p)) /\ q.at \in Capturing
  BY <1>1, <1>6 DEF Ending, Capturing
<1>10. KnowsEnd(q, results')
  BY <1>1, <1>3, <1>4, <1>5, <1>6, <1>7, <1>9 DEF KnowsEnd, Copying, Compared
<1> QED BY <1>1, <1>5, <1>6, <1>8, <1>9, <1>10, CapturingSaves

LEMMA CompareAfterSaves ==
  ASSUME PortableInv, SaveInv, NEW l \in PLaunchers, CompareAfter(l)
  PROVE  SaveInv'
<1> DEFINE p == pLauncher[l]
           r == results[p.target]
           file == IF p.at = "afterSave" THEN 1 ELSE 2
<1>1. p.at \in Capturing /\ p.at \in {"afterSave", "afterHeader"} /\ UNCHANGED <<userSave, writes, heldSaves, strays, hosts>>
  BY DEF CompareAfter, At, Capturing, DiskSame
<1>2. /\ p \in PLocals /\ r \in PRecords /\ r.kind = "session" /\ r.open /\ results = [results EXCEPT ![p.target] = r]
  BY <1>1, CapturingTarget
<1>3. /\ Tells(r) /\ r.manifest /\ KnowsPair(p, results) /\ KnowsEnd(p, results)
      /\ HasBoth(p.last) => SnapshotPublished(r, p.last[1])
  BY <1>1, CapturingKnows
<1>4. CASE ~SameAfter(p, r, file) /\ \E kept \in Unstaged(r) : SnapshotReturns(l, TRUE, p, kept)
  <2>1. PICK kept \in Unstaged(r) : SnapshotReturns(l, TRUE, p, kept)
    BY <1>4
  <2>2. LET u == [r EXCEPT !.staging = NoSave]
        IN /\ u \in PRecords /\ Tells(u) /\ u.kind = "session" /\ u.open /\ (u.ran <=> r.ran) /\ (u.manifest <=> r.manifest)
           /\ u.saves = r.saves
    <3>1. [r EXCEPT !.staging = NoSave] \in PRecords
      BY <1>2, SaveTypes DEF PRecords
    <3> QED BY <1>2, <1>3, <3>1, StagingTells
  <2>3. /\ kept \in PRecords /\ Tells(kept) /\ kept.kind = "session" /\ kept.open /\ (kept.ran <=> r.ran) /\ kept.manifest
        /\ kept.saves = r.saves
    BY <1>2, <1>3, <2>1, <2>2 DEF Unstaged
  <2>4. HasBoth(p.last) => SnapshotPublished(kept, p.last[1])
    BY <1>3, <2>3 DEF SnapshotPublished
  <2>5. ~(Ending(p) /\ strays = {})
    BY <1>1, <1>3, <1>4 DEF KnowsEnd, SameAfter, Copying, Compared
  <2> QED BY <1>1, <1>2, <2>1, <2>3, <2>4, <2>5, ReturnsSaves
<1>5. ASSUME NEW x, SameAfter(p, r, file), x = (IF file = 1 THEN "afterHeader" ELSE "publish"), GoesTo(l, x),
             UNCHANGED results
      PROVE  SaveInv'
  <2> DEFINE q == [p EXCEPT !.at = x]
  <2>1. /\ q.at = x /\ q.n = p.n /\ q.target = p.target /\ q.reason = p.reason /\ q.last = p.last
        /\ q.before = p.before
    BY <1>2 DEF PLocals
  <2>2. Locals(l, q) /\ results' = [results EXCEPT ![p.target] = r]
    BY <1>2, <1>5 DEF GoesTo
  <2> HIDE DEF q
  <2>3. \/ p.at = "afterSave" /\ x = "afterHeader" /\ p.before[1] = userSave[1] /\ p.before[1] = r.staging[1]
        \/ p.at = "afterHeader" /\ x = "publish" /\ p.before[2] = userSave[2] /\ p.before[2] = r.staging[2]
    <3>1. CASE p.at = "afterSave"
      <4>1. file = 1
        BY <3>1
      <4>2. x = "afterHeader" /\ SameAfter(p, r, 1)
        BY <1>5, <4>1
      <4> QED BY <3>1, <4>2 DEF SameAfter
    <3>2. CASE p.at = "afterHeader"
      <4>1. file = 2
        BY <3>2
      <4>2. x = "publish" /\ SameAfter(p, r, 2)
        BY <1>5, <4>1
      <4> QED BY <3>2, <4>2 DEF SameAfter
    <3> QED BY <1>1, <3>1, <3>2
  <2>4. KnowsPair(q, results')
    BY <1>3, <1>5, <2>1, <2>3 DEF KnowsPair, Copying, Compared
  <2>5. (Ending(q) <=> Ending(p)) /\ q.at \in Capturing
    BY <1>1, <2>1, <2>3 DEF Ending, Capturing
  <2>6. KnowsEnd(q, results')
    BY <1>3, <1>5, <2>1, <2>3, <2>5 DEF KnowsEnd, Copying, Compared
  <2> QED BY <1>1, <1>3, <2>1, <2>2, <2>4, <2>5, <2>6, CapturingSaves
<1> QED BY <1>4, <1>5 DEF CompareAfter

\* A snapshot is put in front of the others, and the newest ones are kept.
LEMMA NewestFirst ==
  ASSUME NEW saves \in Seq(Pairs), NEW x \in Pairs
  PROVE  /\ 1 \in DOMAIN KeepsNewest(<<x>> \o saves) /\ KeepsNewest(<<x>> \o saves)[1] = x
         /\ \A i \in DOMAIN KeepsNewest(<<x>> \o saves) :
              KeepsNewest(<<x>> \o saves)[i] = x \/ \E j \in DOMAIN saves : KeepsNewest(<<x>> \o saves)[i] = saves[j]
<1> DEFINE s == <<x>> \o saves
           c == IF Len(s) < SnapshotsKept THEN Len(s) ELSE SnapshotsKept
           k == KeepsNewest(s)
<1>1. s \in Seq(Pairs) /\ Len(s) = Len(saves) + 1 /\ Len(saves) \in Nat /\ s[1] = x /\ DOMAIN saves = 1..Len(saves)
  OBVIOUS
<1>2. \A i \in 1..Len(s) : i # 1 => i - 1 \in 1..Len(saves) /\ s[i] = saves[i - 1]
  OBVIOUS
<1>3. SnapshotsKept \in Nat \ {0}
  BY PortableBounds
<1> HIDE DEF s
<1>4. c \in Nat /\ c <= Len(s) /\ 1 <= c
  BY <1>1, <1>3
<1>5. k = SubSeq(s, 1, c)
  BY DEF KeepsNewest
<1> HIDE DEF c
<1>6. DOMAIN k = 1..c /\ \A i \in 1..c : k[i] = s[i]
  BY <1>1, <1>4, <1>5
<1> HIDE DEF k
<1>7. 1 \in DOMAIN k /\ k[1] = x
  BY <1>1, <1>4, <1>6
<1>8. ASSUME NEW i \in DOMAIN k  PROVE k[i] = x \/ \E j \in DOMAIN saves : k[i] = saves[j]
  <2>1. i \in 1..c /\ i \in 1..Len(s) /\ k[i] = s[i]
    BY <1>1, <1>4, <1>6
  <2>2. CASE i = 1
    BY <1>1, <2>1, <2>2
  <2>3. CASE i # 1
    BY <1>1, <1>2, <2>1, <2>3
  <2> QED BY <2>2, <2>3
<1> QED BY <1>7, <1>8 DEF k, s

LEMMA PublishSaves ==
  ASSUME PortableInv, SaveInv, NEW l \in PLaunchers, Publish(l)
  PROVE  SaveInv'
<1> DEFINE p == pLauncher[l]
           r == results[p.target]
           clean == [r EXCEPT !.staging = NoSave]
           fields == [p EXCEPT !.last = r.staging, !.count = @ + 1]
           new == KeepsNewest(<<r.staging>> \o clean.saves)
           record == [clean EXCEPT !.saves = new]
<1>1. p.at \in Capturing /\ p.at = "publish" /\ UNCHANGED <<userSave, writes, heldSaves, strays, hosts>>
  BY DEF Publish, At, Capturing, DiskSame
<1>2. p \in PLocals /\ r \in PRecords /\ r.kind = "session" /\ r.open /\ userSave \in Pairs
  BY <1>1, CapturingTarget
<1>3. /\ Tells(r) /\ r.manifest /\ KnowsPair(p, results) /\ KnowsEnd(p, results)
      /\ HasBoth(p.last) => SnapshotPublished(r, p.last[1])
  BY <1>1, CapturingKnows
<1>4. /\ clean \in PRecords /\ Tells(clean) /\ clean.kind = "session" /\ clean.open /\ (clean.ran <=> r.ran)
      /\ clean.manifest /\ clean.saves = r.saves
  <2>1. clean \in PRecords
    BY <1>2, SaveTypes DEF PRecords
  <2> QED BY <1>2, <1>3, <2>1, StagingTells
<1>5. CASE \E kept \in Unstaged(r) : SnapshotReturns(l, FALSE, p, kept)
  <2>1. PICK kept \in Unstaged(r) : SnapshotReturns(l, FALSE, p, kept)
    BY <1>5
  <2>2. /\ kept \in PRecords /\ Tells(kept) /\ kept.kind = "session" /\ kept.open /\ (kept.ran <=> r.ran) /\ kept.manifest
        /\ kept.saves = r.saves
    BY <1>2, <1>3, <1>4, <2>1 DEF Unstaged
  <2>3. HasBoth(p.last) => SnapshotPublished(kept, p.last[1])
    BY <1>3, <2>2 DEF SnapshotPublished
  <2> QED BY <1>1, <1>2, <2>1, <2>2, <2>3, ReturnsSaves
<1>6. CASE SnapshotReturns(l, TRUE, fields, record)
  <2>1. r.staging \in Pairs /\ p.before \in Pairs /\ p.count + 1 \in Nat /\ r.saves \in Seq(Pairs)
    BY <1>2 DEF PRecords, PLocals
  <2>2. r.staging = p.before
    <3>1. r.staging[1] = p.before[1] /\ r.staging[2] = p.before[2]
      BY <1>1, <1>3 DEF KnowsPair, Compared
    <3> QED BY <2>1, <3>1, PairWrites
  <2>3. r.staging \in heldSaves /\ (Ending(p) /\ strays = {} => r.staging = userSave)
    BY <1>1, <1>3, <2>2 DEF KnowsPair, KnowsEnd, Compared
  <2>4. fields \in PLocals /\ fields.n = p.n /\ fields.target = p.target /\ fields.last = r.staging
    BY <1>2, <2>1 DEF PLocals
  <2>5. /\ new \in Seq(Pairs) /\ 1 \in DOMAIN new /\ new[1] = r.staging
        /\ \A i \in DOMAIN new : new[i] = r.staging \/ \E j \in DOMAIN r.saves : new[i] = r.saves[j]
    <3>1. new = KeepsNewest(<<r.staging>> \o r.saves)
      BY <1>4
    <3> HIDE DEF new
    <3>2. new \in Seq(Pairs)
      <4>1. <<r.staging>> \o r.saves \in Seq(Pairs)
        BY <2>1
      <4> QED BY <3>1, <4>1, KeptIsSequence
    <3>3. 1 \in DOMAIN new /\ new[1] = r.staging
      BY <2>1, <3>1, NewestFirst
    <3>4. \A i \in DOMAIN new : new[i] = r.staging \/ \E j \in DOMAIN r.saves : new[i] = r.saves[j]
      BY <2>1, <3>1, NewestFirst
    <3> QED BY <3>2, <3>3, <3>4
  <2> HIDE DEF clean, fields, new
  <2>6. /\ record \in PRecords /\ record.kind = "session" /\ record.open /\ (record.ran <=> r.ran) /\ record.manifest
        /\ record.saves = new
    BY <1>4, <2>5 DEF PRecords
  <2> HIDE DEF record
  <2>7. \A i \in DOMAIN new : new[i] \in heldSaves
    BY <1>2, <1>3, <2>3, <2>5 DEF Tells
  <2>8. Tells(record)
    BY <2>6, <2>7 DEF Tells
  <2>9. SnapshotPublished(record, r.staging[1])
    BY <2>5, <2>6 DEF SnapshotPublished
  <2>10. SnapshotReturns(l, TRUE, fields, record)
    BY <1>6
  <2> QED BY <1>1, <2>3, <2>4, <2>6, <2>8, <2>9, <2>10, ReturnsSaves
<1> QED BY <1>5, <1>6 DEF Publish

LEMMA InitSaves == PortableInit => SaveInv
<1> SUFFICES ASSUME PortableInit  PROVE SaveInv
  OBVIOUS
<1>1. /\ pLauncher = [l \in PLaunchers |-> Outside] /\ results = [n \in Launches |-> NoRecord]
      /\ userSave \in {NoSave, <<1, 1>>} /\ writes = 0 /\ heldSaves = {userSave}
  BY DEF PortableInit
<1>2. userSave[1] <= writes + 1
  <2>1. userSave[1] \in {0, 1}
    BY <1>1 DEF NoSave
  <2> QED BY <1>1, <2>1
<1>3. ASSUME NEW n \in Launches  PROVE Tells(results[n])
  BY <1>1 DEF Tells, NoRecord
<1>4. ASSUME NEW l \in PLaunchers  PROVE Knows(pLauncher[l], results, hosts)
  <2>1. pLauncher[l].at = "out"
    BY <1>1 DEF Outside
  <2> QED BY <2>1, UnlockedKnows DEF Unlocked
<1> QED BY <1>1, <1>2, <1>3, <1>4 DEF SaveInv

\* Before and between sessions no title runs or writes, and nothing else is known.
LEMMA BetweenKnows ==
  ASSUME NEW p, NEW res, NEW hst, p.at \in {"validate", "recover", "capacity", "rename", "manifest"},
         strays = {} => hst[p.n] \notin {"loose", "contained"}
  PROVE  Knows(p, res, hst)
<1>1. ~InSession(p) /\ ~Ending(p) /\ ~Ended(p) /\ p.at \notin Capturing
  BY DEF InSession, Ending, Ended, Capturing
<1>2. p.at \notin Copying \cup Compared \cup {"readHeader"} /\ p.at # "publish"
  BY <1>1 DEF Copying, Compared, Capturing
<1> QED BY <1>1, <1>2 DEF Knows, KnowsTitle, KnowsSession, KnowsPair, KnowsEnd, KnowsLast

\* A snapshot begins.
LEMMA StartingKnows ==
  ASSUME NEW p, NEW res, NEW hst, p.at = "readSave", p.target \in Launches, res[p.target].manifest,
         HasBoth(p.last) => SnapshotPublished(res[p.target], p.last[1]),
         p.reason # "watch" /\ strays = {} => hst[p.n] \notin {"loose", "contained"}
  PROVE  Knows(p, res, hst)
<1>1. KnowsTitle(p, hst)
  BY DEF KnowsTitle, Quiet, Fresh, NotRun, Ending
<1>2. KnowsSession(p, res)
  BY DEF KnowsSession
<1>3. KnowsPair(p, res) /\ KnowsEnd(p, res) /\ KnowsLast(p, res)
  BY DEF KnowsPair, KnowsEnd, KnowsLast, Copying, Compared, Ended
<1> QED BY <1>1, <1>2, <1>3 DEF Knows

LEMMA InsideKnows ==
  ASSUME PortableInv, SaveInv, NEW l \in PLaunchers, pLauncher[l].at \notin Unlocked
  PROVE  /\ pLauncher[l] \in PLocals /\ pLauncher[l].n \in Launches /\ Relies(pLauncher[l], results)
         /\ results \in [Launches -> PRecords] /\ Tells(results[pLauncher[l].n])
         /\ Fresh(pLauncher[l]) \/ NotRun(pLauncher[l]) => (strays = {} => hosts[pLauncher[l].n] \notin {"loose", "contained"})
         /\ KnowsSession(pLauncher[l], results) /\ KnowsLast(pLauncher[l], results)
<1>1. /\ pLauncher[l] \in PLocals /\ pLauncher[l].n \in Launches /\ Relies(pLauncher[l], results)
      /\ results \in [Launches -> PRecords] /\ Tells(results[pLauncher[l].n])
  BY InsideHolds DEF PortableInv, PortableTypes, SaveInv
<1>2. /\ KnowsTitle(pLauncher[l], hosts)
      /\ KnowsSession(pLauncher[l], results) /\ KnowsLast(pLauncher[l], results)
  BY DEF SaveInv, Knows
<1> QED BY <1>1, <1>2 DEF KnowsTitle, Quiet

LEMMA ValidateSaves ==
  ASSUME PortableInv, SaveInv, NEW l \in PLaunchers, Validate(l)
  PROVE  SaveInv'
<1> DEFINE p == pLauncher[l]
<1>1. /\ p.at = "validate" /\ p.at \notin Unlocked /\ Fresh(p)
      /\ UNCHANGED <<results, userSave, writes, heldSaves, strays, hosts>>
  BY DEF Validate, At, Unlocked, DiskSame, Fresh
<1>2. p \in PLocals /\ (strays = {} => hosts[p.n] \notin {"loose", "contained"})
  BY <1>1, InsideKnows
<1>3. CASE Quits(l)
  BY <1>1, <1>3, SavesQuitOnly
<1>4. ASSUME NEW x \in {"recover", "rename"}, GoesTo(l, x)  PROVE SaveInv'
  <2> DEFINE q == [p EXCEPT !.at = x]
  <2>1. q.at = x /\ q.n = p.n /\ Locals(l, q)
    BY <1>2, <1>4 DEF PLocals, GoesTo
  <2> HIDE DEF q
  <2>2. Knows(q, results, hosts')
    BY <1>1, <1>2, <2>1, BetweenKnows
  <2> QED BY <1>1, <2>1, <2>2, SavesStay
<1> QED BY <1>3, <1>4 DEF Validate, ManifestRefuses, ConfigRefuses

LEMMA RecoverSaves ==
  ASSUME PortableInv, SaveInv, NEW l \in PLaunchers, Recover(l)
  PROVE  SaveInv'
<1> DEFINE p == pLauncher[l]
<1>1. p.at = "recover" /\ p.at \notin Unlocked /\ Fresh(p) /\ UNCHANGED <<userSave, writes, heldSaves, strays, hosts>>
  BY DEF Recover, At, Unlocked, DiskSame, Fresh
<1>2. p \in PLocals /\ (strays = {} => hosts[p.n] \notin {"loose", "contained"}) /\ results \in [Launches -> PRecords]
  BY <1>1, InsideKnows
<1>3. CASE Quits(l) /\ UNCHANGED results
  BY <1>1, <1>3, SavesQuitOnly
<1>4. CASE GoesTo(l, "capacity") /\ UNCHANGED results
  <2> DEFINE q == [p EXCEPT !.at = "capacity"]
  <2>1. q.at = "capacity" /\ q.n = p.n /\ Locals(l, q)
    BY <1>2, <1>4 DEF PLocals, GoesTo
  <2> HIDE DEF q
  <2>2. Knows(q, results, hosts')
    BY <1>1, <1>2, <2>1, BetweenKnows
  <2> QED BY <1>1, <1>4, <2>1, <2>2, SavesStay
<1>5. ASSUME NEW k \in OpenSessions, Identified(results[k]), results' = [results EXCEPT ![k] = Cleaned(results[k])],
             Locals(l, [p EXCEPT !.at = "readSave", !.reason = "recover", !.target = k, !.last = NoSave,
                                 !.count = CompletedSnapshots(results[k])])
      PROVE  SaveInv'
  <2> DEFINE r == Cleaned(results[k])
             q == [p EXCEPT !.at = "readSave", !.reason = "recover", !.target = k, !.last = NoSave,
                            !.count = CompletedSnapshots(results[k])]
  <2>1. k \in Launches /\ results[k] \in PRecords /\ results[k].open /\ results[k].manifest /\ Tells(results[k])
    BY <1>2, <1>5 DEF OpenSessions, Identified, SaveInv
  <2>2. Tells(r) /\ r.manifest
    BY <2>1, StagingTells DEF Cleaned
  <2>3. q.at = "readSave" /\ q.n = p.n /\ q.target = k /\ q.reason = "recover" /\ q.last = NoSave /\ Locals(l, q)
    BY <1>2, <1>5 DEF PLocals
  <2>4. results' = [results EXCEPT ![k] = r]
    BY <1>5
  <2> HIDE DEF q, r
  <2>5. results'[k] = r /\ ~HasBoth(NoSave)
    BY <1>2, <2>1, <2>4 DEF HasBoth, NoSave
  <2>6. Knows(q, results', hosts')
    BY <1>1, <1>2, <2>1, <2>2, <2>3, <2>5, StartingKnows
  <2> QED BY <1>1, <2>1, <2>2, <2>3, <2>4, <2>6, SavesKeep
<1> QED BY <1>3, <1>4, <1>5 DEF Recover

LEMMA EndsSaves ==
  ASSUME PortableInv, SaveInv, NEW l \in PLaunchers, NEW state \in {"complete", "interrupted"}, NEW next,
         \/ pLauncher[l].at = "interrupted" /\ next = "recover"
         \/ pLauncher[l].at = "result" /\ next = "leave",
         Ends(l, state, next), DiskSame
  PROVE  SaveInv'
<1> DEFINE p == pLauncher[l]
           t == p.target
           final == IF HasBoth(userSave) THEN userSave ELSE NoSave
           r == [results[t] EXCEPT !.state = state, !.count = p.count, !.final = final, !.warned = p.warned]
           s == [r EXCEPT !.open = FALSE]
<1>1. p.at \notin Unlocked /\ OnTarget(p) /\ InSession(p) /\ UNCHANGED <<userSave, writes, heldSaves, strays, hosts>>
  BY DEF Unlocked, OnTarget, InSession, DiskSame
<1>2. /\ p \in PLocals /\ Relies(p, results) /\ results \in [Launches -> PRecords]
      /\ KnowsSession(p, results) /\ KnowsLast(p, results)
  BY <1>1, InsideKnows
<1>3. t \in Launches /\ results[t] \in PRecords /\ results[t].open /\ results[t].manifest /\ Tells(results[t])
  BY <1>1, <1>2 DEF Relies, KnowsSession, SaveInv
<1>4. HasBoth(final) => final = userSave /\ HasBoth(userSave)
  BY DEF HasBoth, NoSave
<1> HIDE DEF final
<1>5. /\ r.kind = results[t].kind /\ r.open /\ r.manifest /\ r.saves = results[t].saves
  BY <1>3 DEF PRecords
<1>6. /\ s.kind = results[t].kind /\ s.manifest /\ s.saves = results[t].saves
      /\ s.state = state /\ s.final = final /\ s.warned = p.warned
  BY <1>3 DEF PRecords
<1> HIDE DEF s
<1>7. Tells(r)
  <2> HIDE DEF r
  <2> QED BY <1>3, <1>5 DEF Tells
<1>8. CASE Quits(l) /\ UNCHANGED results
  BY <1>1, <1>8, SavesQuitOnly
<1>9. CASE Quits(l) /\ results' = [results EXCEPT ![t] = r]
  <2> HIDE DEF r
  <2> QED BY <1>1, <1>3, <1>7, <1>9, SavesQuit
<1>10. CASE results' = [results EXCEPT ![t] = s] /\ Locals(l, [Outside EXCEPT !.at = next, !.n = p.n])
  <2> DEFINE q == [Outside EXCEPT !.at = next, !.n = p.n]
  <2>1. q.at = next /\ q.n = p.n /\ Locals(l, q)
    BY <1>10 DEF Outside
  <2> HIDE DEF q
  <2>2. ~s.warned /\ strays = {} /\ HasBoth(s.final) => SnapshotPublished(s, s.final[1])
    <3> SUFFICES ASSUME ~s.warned, strays = {}, HasBoth(s.final)  PROVE SnapshotPublished(s, s.final[1])
      OBVIOUS
    <3>1. Ended(p)
      BY <1>6 DEF Ended
    <3>2. s.final = userSave /\ HasBoth(userSave)
      BY <1>4, <1>6
    <3>3. SnapshotPublished(results[t], userSave[1])
      BY <1>2, <3>1, <3>2 DEF KnowsLast
    <3> QED BY <1>6, <3>2, <3>3 DEF SnapshotPublished
  <2>3. Tells(s)
    BY <1>3, <1>6, <2>2 DEF Tells
  <2>4. Knows(q, results', hosts')
    <3>1. CASE next = "leave"
      BY <2>1, <3>1, UnlockedKnows
    <3>2. CASE p.at = "interrupted" /\ next = "recover"
      <4>1. strays = {} => hosts'[q.n] \notin {"loose", "contained"}
        BY <1>1, <2>1, <3>2, InsideKnows DEF Fresh
      <4> QED BY <2>1, <3>2, <4>1, BetweenKnows
    <3> QED BY <3>1, <3>2
  <2> QED BY <1>1, <1>3, <1>10, <2>1, <2>3, <2>4, SavesKeep
<1> QED BY <1>8, <1>9, <1>10 DEF Ends, final, s

LEMMA StageSessionSaves ==
  ASSUME PortableInv, SaveInv, NEW l \in PLaunchers, StageSession(l)
  PROVE  SaveInv'
<1> DEFINE p == pLauncher[l]
           q == [p EXCEPT !.at = "manifest"]
           r == [NoRecord EXCEPT !.kind = "session", !.open = TRUE]
<1>1. p.at = "capacity" /\ p.at \notin Unlocked /\ Fresh(p) /\ UNCHANGED <<userSave, writes, heldSaves, strays, hosts>>
  BY DEF StageSession, At, Unlocked, DiskSame, Fresh
<1>2. p \in PLocals /\ p.n \in Launches /\ (strays = {} => hosts[p.n] \notin {"loose", "contained"})
  BY <1>1, InsideKnows
<1>3. CASE Quits(l) /\ UNCHANGED results
  BY <1>1, <1>3, SavesQuitOnly
<1>4. CASE results' = [results EXCEPT ![p.n] = r] /\ GoesTo(l, "manifest")
  <2>1. q.at = "manifest" /\ q.n = p.n /\ Locals(l, q)
    BY <1>2, <1>4 DEF PLocals, GoesTo
  <2>2. r.open /\ ~r.ran /\ r.saves = <<>>
    BY DEF NoRecord
  <2> HIDE DEF q, r
  <2>3. Tells(r)
    BY <2>2 DEF Tells
  <2>4. Knows(q, results', hosts')
    BY <1>1, <1>2, <2>1, BetweenKnows
  <2> QED BY <1>1, <1>2, <1>4, <2>1, <2>3, <2>4, SavesKeep
<1> QED BY <1>3, <1>4 DEF StageSession

LEMMA WriteManifestSaves ==
  ASSUME PortableInv, SaveInv, NEW l \in PLaunchers, WriteManifest(l)
  PROVE  SaveInv'
<1> DEFINE p == pLauncher[l]
           q == [p EXCEPT !.at = "readSave", !.reason = "start", !.target = p.n, !.last = NoSave]
           r == [results[p.n] EXCEPT !.manifest = TRUE]
<1>1. /\ p.at = "manifest" /\ p.at \notin Unlocked /\ Owns(p) /\ NotRun(p)
      /\ UNCHANGED <<userSave, writes, heldSaves, strays, hosts>>
  BY DEF WriteManifest, At, Unlocked, Owns, NotRun, DiskSame
<1>2. /\ p \in PLocals /\ p.n \in Launches /\ results \in [Launches -> PRecords] /\ results[p.n].open
      /\ Tells(results[p.n]) /\ (strays = {} => hosts[p.n] \notin {"loose", "contained"})
  BY <1>1, InsideKnows DEF Relies
<1>3. CASE Quits(l) /\ UNCHANGED results
  BY <1>1, <1>3, SavesQuitOnly
<1>4. CASE results' = [results EXCEPT ![p.n].manifest = TRUE] /\ SnapshotStarts(l, "start", p.n, NoSave)
  <2>1. q.at = "readSave" /\ q.n = p.n /\ q.target = p.n /\ q.reason = "start" /\ q.last = NoSave
    BY <1>2 DEF PLocals
  <2>2. Locals(l, q) /\ results' = [results EXCEPT ![p.n] = r]
    BY <1>4 DEF SnapshotStarts
  <2>3. /\ r.kind = results[p.n].kind /\ r.open /\ r.manifest /\ r.saves = results[p.n].saves
    BY <1>2 DEF PRecords
  <2> HIDE DEF q, r
  <2>4. Tells(r)
    BY <1>2, <2>3 DEF Tells
  <2>5. results'[p.n] = r /\ ~HasBoth(NoSave)
    BY <1>2, <2>2 DEF HasBoth, NoSave
  <2>6. Knows(q, results', hosts')
    BY <1>1, <1>2, <2>1, <2>3, <2>5, StartingKnows
  <2> QED BY <1>1, <1>2, <2>2, <2>4, <2>6, SavesKeep
<1> QED BY <1>3, <1>4 DEF WriteManifest

LEMMA SpawnSaves ==
  ASSUME PortableInv, SaveInv, NEW l \in PLaunchers, Spawn(l)
  PROVE  SaveInv'
<1> DEFINE p == pLauncher[l]
           n == p.n
<1>1. p.at = "spawn" /\ p.at \notin Unlocked /\ Owns(p) /\ NotRun(p) /\ UNCHANGED <<userSave, writes, heldSaves, strays>>
  BY DEF Spawn, At, Unlocked, Owns, NotRun
<1>2. /\ p \in PLocals /\ n \in Launches /\ results \in [Launches -> PRecords] /\ results[n].open /\ ~results[n].ran
      /\ Tells(results[n]) /\ KnowsSession(p, results)
  BY <1>1, InsideKnows DEF Relies
<1>3. p.target = n /\ results[n].manifest /\ (HasBoth(p.last) => SnapshotPublished(results[n], p.last[1]))
  BY <1>1, <1>2 DEF KnowsSession, InSession
<1>4. CASE results' = [results EXCEPT ![n].ran = TRUE] /\ GoesTo(l, "job")
  <2> DEFINE q == [p EXCEPT !.at = "job"]
             r == [results[n] EXCEPT !.ran = TRUE]
  <2>1. q.at = "job" /\ q.target = n /\ q.n = n /\ q.last = p.last
    BY <1>2, <1>3 DEF PLocals
  <2>2. r.kind = results[n].kind /\ r.open /\ r.manifest /\ r.saves = results[n].saves
    BY <1>2, <1>3 DEF PRecords
  <2>3. Locals(l, q) /\ results' = [results EXCEPT ![n] = r]
    BY <1>4 DEF GoesTo
  <2> HIDE DEF q, r
  <2>4. Tells(r)
    BY <1>2, <2>2 DEF Tells
  <2>5. results'[n] = r /\ (HasBoth(q.last) => SnapshotPublished(r, q.last[1]))
    BY <1>2, <1>3, <2>1, <2>2, <2>3 DEF SnapshotPublished
  <2>6. KnowsTitle(q, hosts') /\ KnowsPair(q, results') /\ KnowsEnd(q, results') /\ KnowsLast(q, results')
    BY <2>1 DEF KnowsTitle, KnowsPair, KnowsEnd, KnowsLast, Quiet, Fresh, NotRun, Ending, Ended, Capturing, Copying, Compared
  <2>7. KnowsSession(q, results')
    BY <1>2, <2>1, <2>2, <2>5 DEF KnowsSession
  <2>8. Knows(q, results', hosts')
    BY <2>6, <2>7 DEF Knows
  <2> QED BY <1>1, <1>2, <2>3, <2>4, <2>8, SavesKeep
<1>5. CASE (\E kept \in Removed(results[n]) : results' = [results EXCEPT ![n] = kept]) /\ Quits(l)
  <2>1. PICK kept \in Removed(results[n]) : results' = [results EXCEPT ![n] = kept]
    BY <1>5
  <2>2. Tells([results[n] EXCEPT !.manifest = FALSE])
    <3> DEFINE c == [results[n] EXCEPT !.manifest = FALSE]
    <3>1. c.kind = results[n].kind /\ c.open /\ ~c.ran /\ c.saves = results[n].saves
      BY <1>2 DEF PRecords
    <3> HIDE DEF c
    <3>2. Tells(c)
      BY <1>2, <3>1 DEF Tells
    <3> QED BY <3>2 DEF c
  <2>3. Tells(NoRecord)
    BY DEF Tells, NoRecord
  <2>4. Tells(kept)
    BY <1>2, <2>1, <2>2, <2>3 DEF Removed
  <2> QED BY <1>1, <1>2, <1>5, <2>1, <2>4, SavesQuit
<1> QED BY <1>4, <1>5 DEF Spawn

\* The title runs: what is known is that the session can be recovered.
LEMMA ContainSaves ==
  ASSUME PortableInv, SaveInv, NEW l \in PLaunchers, Contain(l)
  PROVE  SaveInv'
<1> DEFINE p == pLauncher[l]
           q == [p EXCEPT !.at = "watch"]
<1>1. p.at = "job" /\ p.at \notin Unlocked /\ Locals(l, q) /\ UNCHANGED <<results, userSave, writes, heldSaves, strays>>
  BY DEF Contain, At, Unlocked, GoesTo
<1>2. p \in PLocals /\ KnowsSession(p, results)
  BY <1>1, InsideKnows
<1>3. q.at = "watch" /\ q.n = p.n /\ q.target = p.target /\ q.last = p.last
  BY <1>2 DEF PLocals
<1> HIDE DEF q
<1>4. KnowsTitle(q, hosts') /\ KnowsPair(q, results) /\ KnowsEnd(q, results) /\ KnowsLast(q, results)
  BY <1>3 DEF KnowsTitle, KnowsPair, KnowsEnd, KnowsLast, Quiet, Fresh, NotRun, Ending, Ended, Capturing, Copying, Compared
<1>5. KnowsSession(q, results)
  BY <1>1, <1>2, <1>3 DEF KnowsSession, InSession
<1>6. Knows(q, results, hosts')
  BY <1>4, <1>5 DEF Knows
<1> QED BY <1>1, <1>6, SavesStay

LEMMA WatchSaves ==
  ASSUME PortableInv, SaveInv, NEW l \in PLaunchers, Watch(l)
  PROVE  SaveInv'
<1> DEFINE p == pLauncher[l]
<1>1. p.at = "watch" /\ p.at \notin Unlocked /\ UNCHANGED <<results, userSave, writes, heldSaves, strays, hosts>>
  BY DEF Watch, At, Unlocked, DiskSame
<1>2. p \in PLocals /\ p.n \in Launches /\ KnowsSession(p, results)
  BY <1>1, InsideKnows
<1>3. results[p.n].manifest /\ (HasBoth(p.last) => SnapshotPublished(results[p.n], p.last[1]))
  BY <1>1, <1>2 DEF KnowsSession, InSession
<1>4. CASE Quits(l)
  BY <1>1, <1>4, SavesQuitOnly
<1>5. ASSUME NEW x \in {"watch", "exit"}, x = "exit" => hosts[p.n] \notin {"loose", "contained"}, SnapshotStarts(l, x, p.n, p.last)
      PROVE  SaveInv'
  <2> DEFINE q == [p EXCEPT !.at = "readSave", !.reason = x, !.target = p.n, !.last = p.last]
  <2>1. q.at = "readSave" /\ q.n = p.n /\ q.target = p.n /\ q.reason = x /\ q.last = p.last
    BY <1>2 DEF PLocals
  <2>2. Locals(l, q)
    BY <1>5 DEF SnapshotStarts
  <2> HIDE DEF q
  <2>3. Knows(q, results, hosts')
    BY <1>1, <1>2, <1>3, <1>5, <2>1, StartingKnows
  <2> QED BY <1>1, <2>2, <2>3, SavesStay
<1> QED BY <1>4, <1>5 DEF Watch

LEMMA RenameSaves ==
  ASSUME PortableInv, SaveInv, NEW l \in PLaunchers,
         RenameBegin(l) \/ RenameStage(l) \/ RenameMove(l) \/ RenameCloses(l)
  PROVE  SaveInv'
<1> DEFINE p == pLauncher[l]
           n == p.n
<1>1. /\ p.at \in {"rename", "journal", "name", "receipt"} /\ p.at \notin Unlocked
      /\ UNCHANGED <<userSave, writes, heldSaves, strays, hosts>>
  BY DEF RenameBegin, RenameStage, RenameMove, RenameCloses, At, Unlocked, DiskSame, RenameSame
<1>2. p \in PLocals /\ n \in Launches /\ Relies(p, results) /\ results \in [Launches -> PRecords]
  BY <1>1, InsideKnows
<1>3. CASE Quits(l) /\ UNCHANGED results
  BY <1>1, <1>3, SavesQuitOnly
<1>4. ASSUME NEW x \in {"name", "receipt"}, GoesTo(l, x), UNCHANGED results  PROVE SaveInv'
  <2> DEFINE q == [p EXCEPT !.at = x]
  <2>1. q.at = x /\ Locals(l, q)
    BY <1>2, <1>4 DEF PLocals, GoesTo
  <2> HIDE DEF q
  <2>2. Knows(q, results, hosts')
    BY <2>1, UnlockedKnows
  <2> QED BY <1>1, <1>4, <2>1, <2>2, SavesStay
<1>5. CASE /\ results' = [results EXCEPT ![n] = [NoRecord EXCEPT !.kind = "rename", !.open = TRUE]]
           /\ Locals(l, [p EXCEPT !.at = "journal", !.before = userSave])
  <2> DEFINE q == [p EXCEPT !.at = "journal", !.before = userSave]
             r == [NoRecord EXCEPT !.kind = "rename", !.open = TRUE]
  <2>1. q.at = "journal" /\ r.kind = "rename"
    BY <1>2 DEF PLocals, NoRecord
  <2> HIDE DEF q, r
  <2>2. Knows(q, results', hosts') /\ Tells(r)
    BY <2>1, UnlockedKnows DEF Tells
  <2>3. Locals(l, q) /\ results' = [results EXCEPT ![n] = r]
    BY <1>5 DEF q, r
  <2> QED BY <1>1, <1>2, <2>2, <2>3, SavesKeep
<1>6. CASE RenameCloses(l) /\ ~UNCHANGED results
  <2> DEFINE r == [results[n] EXCEPT !.open = FALSE, !.state = "renamed", !.final = userSave]
  <2>1. Quits(l) /\ results' = [results EXCEPT ![n] = r] /\ p.at = "receipt"
    BY <1>6 DEF RenameCloses, At
  <2>2. results[n].kind = "rename"
    BY <1>2, <2>1 DEF Relies, Renames
  <2>3. r.kind = "rename"
    BY <1>2, <2>2 DEF PRecords
  <2> HIDE DEF r
  <2>4. Tells(r)
    BY <2>3 DEF Tells
  <2> QED BY <1>1, <1>2, <2>1, <2>4, SavesQuit
<1> QED BY <1>3, <1>4, <1>5, <1>6 DEF RenameBegin, RenameStage, RenameMove, RenameCloses

-----------------------------------------------------------------------------
(* Around the lock, and the title.                                          *)

\* Titles only end, and to have been outlived is for ever.
LEMMA FewerTitles ==
  ASSUME NEW p, NEW res, NEW old, NEW new, Knows(p, res, old), UNCHANGED <<userSave, writes, heldSaves>>,
         strays \subseteq strays', p.at \notin Unlocked => (old[p.n] \notin {"loose", "contained"} => new[p.n] \notin {"loose", "contained"})
  PROVE  Knows(p, res, new)'
<1>1. KnowsTitle(p, old) /\ KnowsSession(p, res) /\ KnowsPair(p, res) /\ KnowsEnd(p, res) /\ KnowsLast(p, res)
  BY DEF Knows
<1>2. KnowsTitle(p, new)'
  BY <1>1 DEF KnowsTitle, Quiet, Fresh, NotRun, Ending, Unlocked, Capturing
<1>3. KnowsSession(p, res)'
  BY <1>1 DEF KnowsSession, InSession, Capturing, HasBoth, SnapshotPublished, Launches
<1>4. KnowsPair(p, res)'
  BY <1>1 DEF KnowsPair, Copying, Compared
<1>5. KnowsEnd(p, res)'
  BY <1>1 DEF KnowsEnd, Copying, Compared, Ending, Capturing
<1>6. KnowsLast(p, res)'
  BY <1>1 DEF KnowsLast, Ended, HasBoth, SnapshotPublished
<1> QED BY <1>2, <1>3, <1>4, <1>5, <1>6 DEF Knows

LEMMA OutsideSaves ==
  ASSUME PortableInv, SaveInv, NEW l \in PLaunchers, NEW q, Locals(l, q),
         q.at \in Unlocked \/ (q.at = "validate" /\ (strays = {} => hosts'[q.n] \notin {"loose", "contained"})),
         \A n \in Launches : hosts[n] \notin {"loose", "contained"} => hosts'[n] \notin {"loose", "contained"}, strays \subseteq strays',
         q.at \notin Unlocked => strays' = strays,
         UNCHANGED <<results, userSave, writes, heldSaves>>
  PROVE  SaveInv'
<1>1. pLauncher'[l] = q /\ \A m \in PLaunchers : m # l => pLauncher'[m] = pLauncher[m]
  BY DEF PortableInv, PortableTypes, Locals
<1>2. ASSUME NEW p, NEW res, NEW hst, p.at \in Unlocked  PROVE Knows(p, res, hst)'
  <2>1. Knows(p, res, hst)
    BY <1>2, UnlockedKnows
  <2> QED BY <1>2, <2>1, FewerTitles
<1>3. ASSUME NEW p, NEW res, NEW hst, p.at = "validate", strays = {} => hst[p.n] \notin {"loose", "contained"}, strays \subseteq strays'
      PROVE  Knows(p, res, hst)'
  <2>1. Knows(p, res, hst)
    BY <1>3, BetweenKnows
  <2> QED BY <1>3, <2>1, FewerTitles
<1>4. ASSUME NEW m \in PLaunchers  PROVE Knows(pLauncher[m], results, hosts)'
  <2>1. CASE m = l
    BY <1>1, <1>2, <1>3, <2>1
  <2>2. CASE m # l
    <3>1. pLauncher[m].at \notin Unlocked => (hosts[pLauncher[m].n] \notin {"loose", "contained"} => hosts'[pLauncher[m].n] \notin {"loose", "contained"})
      BY InsideHolds
    <3>2. Knows(pLauncher[m], results, hosts)
      BY DEF SaveInv
    <3> QED BY <1>1, <2>2, <3>1, <3>2, FewerTitles
  <2> QED BY <2>1, <2>2
<1>5. ASSUME NEW n \in Launches  PROVE Tells(results[n])'
  BY DEF SaveInv, Tells, HasBoth, SnapshotPublished
<1> QED BY <1>4, <1>5 DEF SaveInv

\* A launcher that has not yet been inside has no title.
LEMMA NoTitleYet ==
  ASSUME PortableInv, NEW l \in PLaunchers, pLauncher[l].at \in Unlocked, NEW n \in Launches,
         n > launches \/ (Numbered(pLauncher[l]) /\ n = pLauncher[l].n), strays = {}
  PROVE  hosts[n] \notin {"loose", "contained"}
<1> SUFFICES ASSUME hosts[n] \in {"loose", "contained"}  PROVE FALSE
  OBVIOUS
<1>1. Exclusive /\ Numbers /\ bundleLock.holders \subseteq PLaunchers /\ launches \in Nat
  BY PortableBounds DEF PortableInv, PortableTypes
<1>2. PICK m \in bundleLock.holders : pLauncher[m].n = n
  BY DEF PortableInv, TitleHasLauncher
<1>3. m \in PLaunchers /\ m # l /\ Numbered(pLauncher[m])
  BY <1>1 DEF Exclusive, Numbered, Unlocked
<1>4. n \in 1..launches /\ ~(Numbered(pLauncher[l]) /\ n = pLauncher[l].n)
  BY <1>1, <1>2, <1>3 DEF Numbers
<1> QED BY <1>1, <1>4

LEMMA CreatesSaves ==
  ASSUME PortableInv, SaveInv, NEW l \in PLaunchers, pLauncher[l].at \in Unlocked,
         NEW fields \in PLocals, NEW otherwise, otherwise.at \in Unlocked, fields.n \in Launches,
         fields.n > launches \/ (Numbered(pLauncher[l]) /\ fields.n = pLauncher[l].n),
         Creates(l, fields, otherwise), UNCHANGED <<results, userSave, writes, heldSaves, hosts, strays>>
  PROVE  SaveInv'
<1>1. CASE Locals(l, otherwise)
  BY <1>1, OutsideSaves
<1>2. CASE Locals(l, [fields EXCEPT !.at = "validate"])
  <2> DEFINE q == [fields EXCEPT !.at = "validate"]
  <2>1. q.at = "validate" /\ q.n = fields.n /\ Locals(l, q)
    BY <1>2 DEF PLocals
  <2> HIDE DEF q
  <2>2. strays = {} => hosts'[q.n] \notin {"loose", "contained"}
    BY <2>1, NoTitleYet
  <2> QED BY <2>1, <2>2, OutsideSaves
<1> QED BY <1>1, <1>2 DEF Creates

LEMMA LaunchSaves ==
  ASSUME PortableInv, SaveInv, NEW l \in PLaunchers, Launch(l)
  PROVE  SaveInv'
<1>1. PICK options \in SUBSET {"verify", "probe", "name"} :
        LET fields == [Outside EXCEPT !.n = launches', !.mode = LaunchMode(options)]
        IN Creates(l, fields, [fields EXCEPT !.at = "delete"])
  BY DEF Launch
<1> DEFINE fields == [Outside EXCEPT !.n = launches', !.mode = LaunchMode(options)]
           otherwise == [fields EXCEPT !.at = "delete"]
<1>2. pLauncher[l].at = "out" /\ launches' = launches + 1 /\ launches < MaxLaunches
      /\ UNCHANGED <<results, userSave, writes, heldSaves, hosts, strays>>
  BY DEF Launch, At
<1>3. launches' \in Nat /\ launches' \in Launches /\ launches' > launches
  BY <1>2, PortableBounds DEF PortableInv, PortableTypes, Launches
<1>4. fields \in PLocals /\ fields.n = launches'
  BY <1>3, SaveTypes, ModeIsKnown DEF PLocals
<1>5. Creates(l, fields, otherwise)
  BY <1>1
<1> HIDE DEF fields
<1>6. otherwise.at = "delete"
  BY <1>4 DEF PLocals
<1> HIDE DEF otherwise
<1>7. pLauncher[l].at \in Unlocked /\ otherwise.at \in Unlocked
  BY <1>2, <1>6 DEF Unlocked
<1> QED BY <1>2, <1>3, <1>4, <1>5, <1>7, CreatesSaves

LEMMA AcquireLockSaves ==
  ASSUME PortableInv, SaveInv, NEW l \in PLaunchers, AcquireLock(l)
  PROVE  SaveInv'
<1> DEFINE p == pLauncher[l]
<1>1. /\ p.at \in {"delete", "again"} /\ UNCHANGED <<results, userSave, writes, heldSaves, hosts, strays>>
      /\ p.at \in Unlocked /\ Numbered(p)
  BY DEF AcquireLock, At, DiskSame, Unlocked, Numbered
<1>2. p \in PLocals /\ p.n \in Launches
  BY <1>1, PortableBounds DEF PortableInv, PortableTypes, Numbers, Launches
<1>3. Outside.at \in Unlocked
  BY DEF Outside, Unlocked
<1>4. CASE Creates(l, p, Outside)
  BY <1>1, <1>2, <1>3, <1>4, CreatesSaves
<1>5. CASE Locals(l, Outside)
  BY <1>1, <1>3, <1>5, OutsideSaves
<1>6. CASE GoesTo(l, "again")
  <2> DEFINE q == [p EXCEPT !.at = "again"]
  <2>1. q.at \in Unlocked /\ Locals(l, q)
    BY <1>2, <1>6 DEF PLocals, GoesTo, Unlocked
  <2> HIDE DEF q
  <2> QED BY <1>1, <2>1, OutsideSaves
<1> QED BY <1>4, <1>5, <1>6 DEF AcquireLock

LEMMA LeavingSaves ==
  ASSUME PortableInv, SaveInv, NEW l \in PLaunchers, Leave(l) \/ RemoveLock(l) \/ LauncherKilled(l)
  PROVE  SaveInv'
<1>1. UNCHANGED <<results, userSave, writes, heldSaves>>
  BY DEF Leave, RemoveLock, LauncherKilled, DiskSame
<1>2. (\A n \in Launches : hosts[n] \notin {"loose", "contained"} => hosts'[n] \notin {"loose", "contained"}) /\ (strays \subseteq strays')
  <2>1. CASE ClosesJob(pLauncher[l].n)
    BY <2>1 DEF ClosesJob
  <2>2. CASE RemoveLock(l)
    BY <2>2 DEF RemoveLock, DiskSame
  <2> QED BY <2>1, <2>2 DEF Leave, LauncherKilled
<1>3. PICK q : q.at \in Unlocked /\ Locals(l, q)
  <2>1. Outside.at \in Unlocked /\ [Outside EXCEPT !.at = "remove"].at \in Unlocked
    BY DEF Outside, Unlocked
  <2> QED BY <2>1 DEF Leave, RemoveLock, LauncherKilled
<1> QED BY <1>1, <1>2, <1>3, OutsideSaves

\* While a title runs no launcher is at rest, unless a title has outlived one.
LEMMA NobodyQuiet ==
  ASSUME PortableInv, SaveInv, NEW n \in Launches, hosts[n] \in {"loose", "contained"}, strays = {}, NEW l \in PLaunchers
  PROVE  ~Quiet(pLauncher[l])
<1> SUFFICES ASSUME Quiet(pLauncher[l])  PROVE FALSE
  OBVIOUS
<1>1. Exclusive /\ TitleHasLauncher
  BY DEF PortableInv
<1>2. l \in bundleLock.holders /\ hosts[pLauncher[l].n] \notin {"loose", "contained"}
  BY <1>1 DEF Quiet, Exclusive, SaveInv, Knows, KnowsTitle
<1>3. PICK m \in bundleLock.holders : pLauncher[m].n = n
  BY <1>1 DEF TitleHasLauncher
<1>4. m = l
  BY <1>1, <1>2, <1>3 DEF Exclusive
<1> QED BY <1>2, <1>3, <1>4

LEMMA TitleWritesSaves ==
  ASSUME PortableInv, SaveInv, TitleWrites
  PROVE  SaveInv'
<1>1. /\ UNCHANGED <<pLauncher, results, hosts>> /\ writes' = writes + 1 /\ writes \in Nat /\ userSave \in Pairs
      /\ heldSaves' = heldSaves \cup {userSave'} /\ userSave[1] <= writes + 1
  BY DEF TitleWrites, PortableInv, PortableTypes, SaveInv
<1>2. (strays' = {} => strays = {}) /\ (strays' = {} => \E n \in Launches : hosts[n] \in {"loose", "contained"})
  <2>1. PICK n \in Launches : /\ hosts[n] # "none"
                            /\ strays' = IF hosts[n] = "dying" THEN strays \cup {"dying"} ELSE strays
    BY DEF TitleWrites
  <2>2. hosts[n] \in {"none", "loose", "contained", "dying"}
    BY DEF PortableInv, PortableTypes
  <2> QED BY <2>1, <2>2
<1>3. userSave'[1] = userSave[1] \/ userSave'[1] = writes + 2
  <2>1. PICK file \in {1, 2} : userSave' = [userSave EXCEPT ![file] = writes + 2]
    BY DEF TitleWrites
  <2>2. userSave' = <<writes + 2, userSave[2]>> \/ userSave' = <<userSave[1], writes + 2>>
    <3>1. writes + 2 \in Nat
      BY <1>1
    <3> QED BY <1>1, <2>1, <3>1, PairWrites
  <2> QED BY <2>2
<1>4. userSave'[1] <= writes' + 1 /\ userSave' \in heldSaves'
  <2>1. userSave[1] \in Nat
    BY <1>1, PairWrites
  <2> QED BY <1>1, <1>3, <2>1
<1>5. ASSUME NEW k \in Launches  PROVE Tells(results[k])'
  BY <1>1, <1>2 DEF SaveInv, Tells, HasBoth, SnapshotPublished
<1>6. ASSUME NEW l \in PLaunchers  PROVE Knows(pLauncher[l], results, hosts)'
  <2> DEFINE p == pLauncher[l]
  <2>1. p \in PLocals /\ KnowsTitle(p, hosts) /\ KnowsSession(p, results) /\ KnowsPair(p, results)
    BY DEF SaveInv, Knows, PortableInv, PortableTypes
  <2>2. strays' # {} \/ ~Quiet(p)
    BY <1>2, NobodyQuiet
  <2>3. strays' # {} \/ (~Ending(p) /\ ~Ended(p))
    BY <2>2 DEF Quiet, Ending, Ended, Fresh, Unlocked, Capturing
  <2>4. KnowsTitle(p, hosts)' /\ KnowsSession(p, results)'
    BY <1>1, <1>2, <2>1 DEF KnowsTitle, KnowsSession, Quiet, Fresh, NotRun, Ending, Unlocked, Capturing, InSession,
                      HasBoth, SnapshotPublished, Launches
  <2>5. KnowsPair(p, results)'
    <3>1. p.before[1] \in Nat
      BY <2>1, PairWrites DEF PLocals
    <3>2. p.at \in Copying \cup {"readHeader"} => p.before[1] <= writes' + 1
      BY <1>1, <2>1, <3>1 DEF KnowsPair
    <3>3. p.at \in Copying => p.before \in heldSaves' \/ userSave'[1] # p.before[1]
      <4> SUFFICES ASSUME p.at \in Copying, p.before \notin heldSaves  PROVE userSave'[1] # p.before[1]
        BY <1>1
      <4>1. userSave[1] # p.before[1] /\ p.before[1] <= writes + 1
        BY <2>1 DEF KnowsPair
      <4>2. writes + 2 # p.before[1]
        BY <1>1, <3>1, <4>1
      <4> QED BY <1>3, <4>1, <4>2
    <3>4. p.at \in Compared => p.before \in heldSaves' /\ results[p.target].staging[1] = p.before[1]
      BY <1>1, <2>1 DEF KnowsPair
    <3>5. p.at = "publish" => results[p.target].staging[2] = p.before[2]
      BY <2>1 DEF KnowsPair
    <3> QED BY <1>1, <3>2, <3>3, <3>4, <3>5 DEF KnowsPair, Copying, Compared
  <2>6. KnowsEnd(p, results)' /\ KnowsLast(p, results)'
    BY <1>1, <2>3 DEF KnowsEnd, KnowsLast, Ending, Ended, Capturing
  <2> QED BY <2>4, <2>5, <2>6 DEF Knows
<1> QED BY <1>4, <1>5, <1>6 DEF SaveInv

LEMMA TitleEndsSaves ==
  ASSUME PortableInv, SaveInv, NEW n \in Launches, TitleEnds(n)
  PROVE  SaveInv'
<1>1. UNCHANGED <<pLauncher, results, userSave, writes, heldSaves, strays>>
  BY DEF TitleEnds
<1>2. \A m \in Launches : hosts[m] \notin {"loose", "contained"} => hosts'[m] \notin {"loose", "contained"}
  BY DEF TitleEnds, PortableInv, PortableTypes
<1>3. ASSUME NEW l \in PLaunchers  PROVE Knows(pLauncher[l], results, hosts)'
  <2>1. pLauncher[l].at \notin Unlocked => (hosts[pLauncher[l].n] \notin {"loose", "contained"} => hosts'[pLauncher[l].n] \notin {"loose", "contained"})
    BY <1>2, InsideHolds
  <2>2. Knows(pLauncher[l], results, hosts)
    BY DEF SaveInv
  <2> QED BY <1>1, <2>1, <2>2, FewerTitles
<1>4. ASSUME NEW k \in Launches  PROVE Tells(results[k])'
  BY <1>1 DEF SaveInv, Tells, HasBoth, SnapshotPublished
<1> QED BY <1>1, <1>3, <1>4 DEF SaveInv

LEMMA NextSaves == PortableInv /\ SaveInv /\ [PortableNext]_portableVars => SaveInv'
<1> SUFFICES ASSUME PortableInv, SaveInv, [PortableNext]_portableVars  PROVE SaveInv'
  OBVIOUS
<1>1. ASSUME NEW l \in PLaunchers, PortableStep(l)  PROVE SaveInv'
  <2>1. CASE CaptureSaveSteps(l)
    BY <2>1, ReadSaveSaves, ReadHeaderSaves, CopySaveSaves, CopyHeaderSaves, CompareAfterSaves, PublishSaves
       DEF CaptureSaveSteps
  <2>2. CASE Interrupted(l) \/ Finish(l)
    <3>1. CASE Interrupted(l)
      BY <3>1, EndsSaves DEF Interrupted, At
    <3>2. CASE Finish(l)
      BY <3>2, EndsSaves DEF Finish, At
    <3> QED BY <2>2, <3>1, <3>2
  <2>3. CASE RenameBegin(l) \/ RenameStage(l) \/ RenameMove(l) \/ RenameCloses(l)
    BY <2>3, RenameSaves
  <2>4. CASE Launch(l) \/ AcquireLock(l) \/ Leave(l) \/ RemoveLock(l) \/ LauncherKilled(l)
    BY <2>4, LaunchSaves, AcquireLockSaves, LeavingSaves
  <2>5. CASE Validate(l) \/ Recover(l) \/ StageSession(l) \/ WriteManifest(l) \/ Spawn(l) \/ Contain(l) \/ Watch(l)
    BY <2>5, ValidateSaves, RecoverSaves, StageSessionSaves, WriteManifestSaves, SpawnSaves, ContainSaves, WatchSaves
  <2> QED BY <1>1, <2>1, <2>2, <2>3, <2>4, <2>5 DEF PortableStep
<1>2. CASE TitleWrites \/ \E n \in Launches : TitleEnds(n)
  BY <1>2, TitleWritesSaves, TitleEndsSaves
<1>3. CASE UNCHANGED portableVars
  <2>1. UNCHANGED <<pLauncher, results, userSave, hosts, writes, heldSaves, strays>>
    BY <1>3 DEF portableVars
  <2>2. ASSUME NEW l \in PLaunchers  PROVE Knows(pLauncher[l], results, hosts)'
    <3>1. Knows(pLauncher[l], results, hosts)
      BY DEF SaveInv
    <3> QED BY <2>1, <3>1, FewerTitles
  <2>3. ASSUME NEW k \in Launches  PROVE Tells(results[k])'
    BY <2>1 DEF SaveInv, Tells, HasBoth, SnapshotPublished
  <2> QED BY <2>1, <2>2, <2>3 DEF SaveInv
<1> QED BY <1>1, <1>2, <1>3 DEF PortableNext

\* A session tells how the save was left, wherever launcher and title were cut
\* off: each of its snapshots is a state the save has been in although its two
\* files were read and copied one after the other while the title was writing;
\* one in which the title ran can be recovered; and a closed one without an
\* error of the save watcher, while no title outlived its launcher or wrote
\* while it was ended, has the mc4.sav it ended with among its snapshots.
THEOREM EverySessionTellsItsEnd == PortableSpec => []SessionTellsTheEnd
<1>1. SaveInv => SessionTellsTheEnd
  BY DEF SaveInv, Tells, SessionTellsTheEnd
<1> QED BY <1>1, InitPortable, NextPortable, InitSaves, NextSaves, PTL DEF PortableSpec
=============================================================================
