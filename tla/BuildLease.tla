------------------------------ MODULE BuildLease ------------------------------
(***************************************************************************)
(* Admission of a test build (mcla_build_lease_policy.cpp and              *)
(* mcla_build_lease_runtime_win.cpp): the launcher and the host check a    *)
(* signed ticket, a cached record and the published list of active builds. *)
(*                                                                         *)
(* Every process that checks reads the clock, opens the cache, asks the    *)
(* server, decides, writes the cache and reads the clock again.  All the   *)
(* checks of one user share a cache directory and its writer lock, those   *)
(* of other builds too, so the cache may be busy at any time.  The local   *)
(* clock may fall behind the time of the signer.  Signatures are external: *)
(* an answer is the published list or nothing (no network, timeout, not    *)
(* signed by the key).                                                     *)
(***************************************************************************)
EXTENDS Integers

CONSTANTS
  Checks,          \* processes that check the same build
  Nothing,         \* absent value
  Created,         \* creation time the ticket is signed with
  GraceSeconds,    \* kGraceSeconds: allowance of a V1 ticket
  OfflineSeconds,  \* kKillSwitchOfflineSeconds: of a V2 ticket
  CheckSeconds,    \* kKillSwitchCheckSeconds: of a check that listed the host
  Skew,            \* 300: how far in the future a list may be issued
  MaxTime,         \* bound of the model: time
  MaxLists,        \* bound of the model: lists published
  MaxBehind        \* bound of the model: how far the clock falls behind

\* n numbers the lists (history); until: valid_until of the host, Nothing when
\* the list does not name it.
Lists == [n : Nat, issued : Nat, until : Nat \cup {Nothing}]

\* What the cache holds for the host.  The list that omitted a revoked host is
\* history: the record does not hold it.
CacheRecords == [kind : {"checked"}, at : Nat, list : Lists]
                  \cup [kind : {"lease", "revoked"}, list : Lists]

ASSUME LeaseConstants ==
  /\ {Created, GraceSeconds, OfflineSeconds, CheckSeconds, Skew, MaxTime, MaxLists,
      MaxBehind} \subseteq Nat
  /\ Nothing \notin Checks \cup Nat \cup Lists \cup CacheRecords

VARIABLES
  schema,     \* of the ticket: "V1", or "V2" with a kill switch
  time,       \* the signer's time
  behind,     \* how far the local clock is behind it
  list,       \* active-builds.txt on the server
  cache,      \* <host>.lease (V1) or <host>.killswitch (V2)
  cacheLock,  \* holder of the writer lock of the cache directory
  step,       \* [Checks -> where Check or CheckKillSwitch is]
  now,        \* the clock it read first
  read,       \* the record it read, or Nothing
  answer,     \* the list it downloaded, or Nothing
  expires,    \* the end of the admission it decided on; 0: refused
  proven      \* history: until when the lists that checks have seen admit the host

locals == <<step, now, read, answer, expires>>
world == <<time, behind, list>>
leaseVars == <<schema, world, cache, cacheLock, locals, proven>>

LeaseInit ==
  /\ schema \in {"V1", "V2"}
  /\ time = Created /\ behind = 0
  /\ list = Nothing /\ cache = Nothing /\ cacheLock = Nothing
  /\ step = [c \in Checks |-> "out"]
  /\ now = [c \in Checks |-> 0] /\ read = [c \in Checks |-> Nothing]
  /\ answer = [c \in Checks |-> Nothing] /\ expires = [c \in Checks |-> 0]
  /\ proven = 0

clock == time - behind

Later(a, b) == IF a >= b THEN a ELSE b
Earlier(a, b) == IF a <= b THEN a ELSE b

-----------------------------------------------------------------------------
(* The policy.                                                             *)

\* A list issued too far in the future is no answer.
Timely(l, t) == l.issued - t <= Skew
Names(l) == l.until # Nothing

\* Evaluate: when a V1 build with this list expires; 0 when it is refused.
Evaluate(t, l) ==
  LET builtIn == Created + GraceSeconds
      expiry == IF l # Nothing /\ Names(l) THEN Later(builtIn, l.until) ELSE builtIn
  IN IF (l # Nothing /\ ~Timely(l, t)) \/ t >= expiry THEN 0 ELSE expiry

Checked(t, l) == [kind |-> "checked", at |-> t, list |-> l]
Lease(l) == [kind |-> "lease", list |-> l]
Revoked(l) == [kind |-> "revoked", list |-> l]
IsRevoked(r) == r # Nothing /\ r.kind = "revoked"
IsChecked(r) == r # Nothing /\ r.kind = "checked"

\* The offline rule of EvaluateKillSwitch.
OfflineExpiry(t, cached) ==
  LET own == Created + OfflineSeconds
  IN IF IsChecked(cached) /\ cached.at <= t /\ Names(cached.list)
       THEN Later(own, Earlier(cached.at + CheckSeconds, cached.list.until)) ELSE own

\* EvaluateKillSwitch: the end of the admission (0: refused) and the record the
\* cache is to hold (Nothing: keep it).
EvaluateKillSwitch(t, online, cached) ==
  IF online # Nothing /\ Timely(online, t)
    THEN IF Names(online) /\ online.until > t
           THEN [expires |-> Earlier(t + CheckSeconds, online.until),
                 record |-> Checked(t, online)]
           ELSE [expires |-> 0, record |-> Revoked(online)]
    ELSE LET expiry == OfflineExpiry(t, cached)
         IN [expires |-> IF IsRevoked(cached) \/ t >= expiry THEN 0 ELSE expiry,
             record |-> Nothing]

\* Check, V1: the best of the built-in allowance, the cached list and the
\* downloaded one; a downloaded one that is better is recorded.
BestLocal(t, cached) ==
  Later(Created + GraceSeconds, IF cached = Nothing THEN 0 ELSE Evaluate(t, cached.list))

\* Mutant: any valid answer replaces the record.
EvaluateLeaseAnyAnswer(t, online, cached) ==
  LET valid == IF online = Nothing THEN 0 ELSE Evaluate(t, online)
  IN [expires |-> Later(BestLocal(t, cached), valid),
      record |-> IF valid > 0 THEN Lease(online) ELSE Nothing]

EvaluateLease(t, online, cached) ==
  LET best == BestLocal(t, cached)
      valid == IF online = Nothing THEN 0 ELSE Evaluate(t, online)
  IN [expires |-> Later(best, valid),
      record |-> IF valid > best THEN Lease(online) ELSE Nothing]

Decision(c) ==
  IF schema = "V2" THEN EvaluateKillSwitch(now[c], answer[c], read[c])
                   ELSE EvaluateLease(now[c], answer[c], read[c])

-----------------------------------------------------------------------------
(* CheckBuildLease, Check and CheckKillSwitch of one process.              *)

Goes(c, s) == step' = [step EXCEPT ![c] = s]
\* The call ends: its lock is released and its locals are gone.
Ends(c, s) ==
  /\ Goes(c, s)
  /\ cacheLock' = IF cacheLock = c THEN Nothing ELSE cacheLock
  /\ now' = [now EXCEPT ![c] = 0] /\ expires' = [expires EXCEPT ![c] = 0]
  /\ read' = [read EXCEPT ![c] = Nothing] /\ answer' = [answer EXCEPT ![c] = Nothing]
  /\ UNCHANGED <<schema, world, cache, proven>>

\* The ticket is verified and the clock read; a clock before the ticket's
\* creation is refused at once.
CheckBegin(c) ==
  /\ step[c] \in {"out", "admitted"} /\ clock >= Created
  /\ now' = [now EXCEPT ![c] = clock]
  /\ Goes(c, "cache")
  /\ UNCHANGED <<schema, world, cache, cacheLock, read, answer, expires, proven>>

\* Only the holder of the writer lock writes the record.
MayWrite(c) == cacheLock = c

\* A record that is sufficient for a host under a launcher, which then follows
\* it instead of asking again.
Sufficient(r, t) ==
  IF schema = "V2"
    THEN IsChecked(r) /\ r.at <= t /\ t - r.at < CheckSeconds
    ELSE t < BestLocal(t, r)

\* With the record r: ask the server, or decide without an answer.
Opens(c, r, asks) ==
  /\ read' = [read EXCEPT ![c] = r]
  /\ Goes(c, IF asks THEN "fetch" ELSE "decide")

\* The launcher and the host read the record under the writer lock, which they
\* keep; a host under a launcher (prefer_cached) may be content with it.  CHECK
\* SETUP (read_only) reads it without the lock.  An unreadable record is none,
\* and there is none when the cache is busy or cannot be opened.  The life cycle
\* probe (ticket_only) has no record and never asks, nor does a host under a
\* launcher that needs no record.
OpenCache(c) ==
  /\ step[c] = "cache"
  /\ \/ \E r \in {cache, Nothing}, prefersCached \in BOOLEAN :
          /\ cacheLock = Nothing /\ cacheLock' = c
          /\ Opens(c, r, ~(prefersCached /\ Sufficient(r, now[c])))
     \/ \E r \in {cache, Nothing} : Opens(c, r, TRUE) /\ UNCHANGED cacheLock
     \/ Opens(c, Nothing, FALSE) /\ UNCHANGED cacheLock
  /\ UNCHANGED <<schema, world, cache, now, answer, expires, proven>>

\* Until when an answer of a check at time t admits the host (history).
Proves(a, t) == IF a = Nothing \/ ~Names(a) THEN 0
                ELSE IF schema = "V2" THEN Earlier(t + CheckSeconds, a.until)
                ELSE a.until

\* The list is downloaded and verified, or there is no answer.
FetchList(c) ==
  /\ step[c] = "fetch"
  /\ \E a \in {list, Nothing} :
       /\ answer' = [answer EXCEPT ![c] = a]
       /\ proven' = Later(proven, Proves(a, now[c]))
  /\ Goes(c, "decide")
  /\ UNCHANGED <<schema, world, cache, cacheLock, now, read, expires>>

\* The decision, and the record it asks for: only under the lock, and the write
\* may fail.  The record and the answer are not used any more.
Decide(c) ==
  /\ step[c] = "decide"
  /\ expires' = [expires EXCEPT ![c] = Decision(c).expires]
  /\ \/ cache' = cache
     \/ /\ MayWrite(c) /\ Decision(c).record # Nothing
        /\ cache' = Decision(c).record
  /\ read' = [read EXCEPT ![c] = Nothing] /\ answer' = [answer EXCEPT ![c] = Nothing]
  /\ Goes(c, "clock")
  /\ UNCHANGED <<schema, world, cacheLock, now, proven>>

\* Mutant: the clock is not read again.
CompleteOnFirstClock(c) ==
  /\ step[c] = "clock"
  /\ Ends(c, IF now[c] < expires[c] THEN "admitted" ELSE "out")

\* The clock is read again; it must not have gone back, nor reached the end of
\* the admission.
Complete(c) ==
  /\ step[c] = "clock"
  /\ Ends(c, IF clock >= now[c] /\ clock < expires[c] THEN "admitted" ELSE "out")

\* The process ends in the middle of the check.
CheckDies(c) == step[c] \notin {"out", "admitted"} /\ Ends(c, "out")

-----------------------------------------------------------------------------
(* The world around the checks.                                            *)

TimePasses ==
  /\ \/ time < MaxTime /\ time' = time + 1 /\ UNCHANGED behind
     \/ behind < MaxBehind /\ behind' = behind + 1 /\ UNCHANGED time
  /\ UNCHANGED <<schema, list, cache, cacheLock, locals, proven>>

Publish ==
  LET n == IF list = Nothing THEN 0 ELSE list.n IN
  /\ n < MaxLists
  /\ \E u \in {Nothing} \cup (time + 1 .. MaxTime) :
       list' = [n |-> n + 1, issued |-> time, until |-> u]
  /\ UNCHANGED <<schema, time, behind, cache, cacheLock, locals, proven>>

LeaseNext ==
  \/ \E c \in Checks : \/ CheckBegin(c) \/ OpenCache(c) \/ FetchList(c) \/ Decide(c)
                       \/ Complete(c) \/ CheckDies(c)
  \/ TimePasses \/ Publish

LeaseSpec == LeaseInit /\ [][LeaseNext]_leaseVars

-----------------------------------------------------------------------------
(* Properties *)

\* Whether there is evidence for a start at time t: the build is young enough,
\* or a list that this machine verified names the host beyond t and, for a V2
\* ticket, was checked less than the window ago.
Evidence(t) ==
  \/ t < Created + (IF schema = "V2" THEN OfflineSeconds ELSE GraceSeconds)
  \/ t < proven

\* A start is admitted only on evidence that still holds at the moment Check
\* returns, whichever of ticket, record and answer it was decided on, how long
\* the download took and whatever happened to the clock and the record meanwhile.
AdmissionIsCovered ==
  [][\A c \in Checks : step'[c] = "admitted" /\ step[c] # "admitted" => Evidence(clock)]_leaseVars

\* Until when a list grants the host; 0 when it does not name it.
Grant(l) == IF Names(l) THEN l.until ELSE 0

\* The record never goes back to an older list: an answer that was overtaken by
\* a newer one, a withdrawal say, is not written over it (the writer lock is kept
\* from the read to the write).  And "missing/shorter entries and untrusted responses
\* cannot reduce a cached grant": a V1 record is only replaced by a longer one, unless the check that
\* replaces it could not read it.
RecordNeverWeakens ==
  [][cache # Nothing /\ cache' # cache =>
       /\ cache'.list.n >= cache.list.n
       /\ \/ schema # "V1"
          \/ Grant(cache'.list) > Grant(cache.list)
          \/ \E c \in Checks : cacheLock = c /\ read[c] = Nothing]_leaseVars
=============================================================================
