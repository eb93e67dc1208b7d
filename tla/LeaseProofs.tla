------------------------------ MODULE LeaseProofs ------------------------------
(***************************************************************************)
(* Proofs about the build lease, for every clock, every history of lists   *)
(* and every order of deadline, closing and notifications:                 *)
(*                                                                         *)
(*   ContextIsCounted      the context of the download lives as long as    *)
(*                         it is used                                      *)
(*   AdmissionHasEvidence  a start rests on evidence that holds            *)
(*   RecordMovesForward    the kill-switch record is never weakened        *)
(***************************************************************************)
EXTENDS LeaseFetch, BuildLease, TLAPS

-----------------------------------------------------------------------------
(* The context of the download.                                            *)
(*                                                                         *)
(* That it lives as long as it is used is not inductive: a step only knows *)
(* the counter.  The invariant says whose references make up the count:    *)
(* the caller's, the handle's and the one of a running callback.           *)

CallerSteps == {"configure", "register", "send", "wait sent", "receive", "wait headers",
                "read", "wait bytes", "close", "release", "returned"}
Kinds == {"sent", "headers", "bytes"}

FetchTypeOK ==
  /\ caller \in CallerSteps
  /\ references \in Nat
  /\ request \in {"none", "open", "registered", "closing", "closed"}
  /\ operation \in Kinds \cup {"none"}
  /\ callback \in {"out", "called", "retained", "done"}
  /\ delivers \in Kinds \cup {"none", "error", "closing"}
  /\ completion \in Kinds \cup {"none", "error"}

\* The handle's reference is given back by the callback of its last notification.
HandleHolds ==
  \/ request \in {"registered", "closing"}
  \/ delivers = "closing" /\ callback \in {"called", "retained"}

OfCaller == IF caller # "returned" THEN 1 ELSE 0
OfHandle == IF HandleHolds THEN 1 ELSE 0
OfCallback == IF callback \in {"retained", "done"} THEN 1 ELSE 0

Accounted == references = OfCaller + OfHandle + OfCallback

\* The request exists once it is configured, and a callback is on behalf of a
\* handle: an open one, or for its last notification a closed one.
HandleMatches ==
  /\ caller = "configure" => request = "none"
  /\ caller = "register" => request = "open"
  /\ callback # "out" /\ delivers = "closing" => request = "closed"
  /\ callback # "out" /\ delivers # "closing" => request \in {"registered", "closing"}
  /\ callback = "out" => delivers = "none"

FetchInv == FetchTypeOK /\ Accounted /\ HandleMatches

\* Every step keeps the account: who takes a reference counts it, who gives one
\* back was counted.
LEMMA FetchStep == FetchInv /\ [FetchNext]_fetchVars => FetchInv'
<1> SUFFICES ASSUME FetchInv, [FetchNext]_fetchVars  PROVE FetchInv'
  OBVIOUS
<1>1. FetchTypeOK /\ Accounted /\ HandleMatches
  BY DEF FetchInv
<1>2. CASE Configure
  BY <1>1, <1>2 DEF Configure, transport, Accounted, OfCaller, OfHandle, OfCallback, HandleHolds, FetchTypeOK, HandleMatches, CallerSteps, Kinds, FetchInv
<1>3. CASE Register
  <2>1. references \in Nat
    BY <1>1 DEF FetchTypeOK
  <2>2. references' \in Nat
    BY <1>3, <2>1 DEF Register
  <2>3. FetchTypeOK' /\ HandleMatches'
    BY <1>1, <1>3, <2>2 DEF Register, transport, FetchTypeOK, HandleMatches, CallerSteps, Kinds
  <2>4. callback = "out" /\ delivers = "none" /\ request = "open"
    BY <1>1, <1>3 DEF Register, FetchTypeOK, HandleMatches, Kinds
  <2>5. OfCallback' = OfCallback /\ OfCaller' = OfCaller /\ OfHandle = 0
    BY <1>3, <2>4 DEF Register, transport, OfCaller, OfCallback, OfHandle, HandleHolds
  <2>6. OfHandle' = IF request' = "registered" THEN 1 ELSE 0
    BY <1>3, <2>4 DEF Register, transport, OfHandle, HandleHolds
  <2>7. OfCallback = 0 /\ OfCaller = 1
    BY <1>3, <2>4 DEF Register, OfCaller, OfCallback
  <2>8. Accounted'
    BY <1>1, <1>3, <2>4, <2>5, <2>6, <2>7 DEF Register, Accounted
  <2> QED BY <2>3, <2>8 DEF FetchInv
<1>4. CASE SendRequest \/ ReceiveResponse \/ ReadData
  BY <1>1, <1>4 DEF SendRequest, ReceiveResponse, ReadData, Begins, Accounted, OfCaller, OfHandle, OfCallback, HandleHolds, FetchTypeOK, HandleMatches, CallerSteps, Kinds, FetchInv
<1>5. CASE WaitSent \/ WaitHeaders \/ WaitBytes
  BY <1>1, <1>5 DEF WaitSent, WaitHeaders, WaitBytes, WaitFor, transport, Accounted, OfCaller, OfHandle, OfCallback, HandleHolds, FetchTypeOK, HandleMatches, CallerSteps, Kinds, FetchInv
<1>6. CASE CloseHandle
  BY <1>1, <1>6 DEF CloseHandle, transport, Accounted, OfCaller, OfHandle, OfCallback, HandleHolds, FetchTypeOK, HandleMatches, CallerSteps, Kinds, FetchInv
<1>7. CASE ReleaseContext
  BY <1>1, <1>7 DEF ReleaseContext, transport, Accounted, OfCaller, OfHandle, OfCallback, HandleHolds, FetchTypeOK, HandleMatches, CallerSteps, Kinds, FetchInv
<1>8. CASE Notify
  BY <1>1, <1>8 DEF Notify, Accounted, OfCaller, OfHandle, OfCallback, HandleHolds, FetchTypeOK, HandleMatches, CallerSteps, Kinds, FetchInv
<1>9. CASE NotifyClosing
  BY <1>1, <1>9 DEF NotifyClosing, Accounted, OfCaller, OfHandle, OfCallback, HandleHolds, FetchTypeOK, HandleMatches, CallerSteps, Kinds, FetchInv
<1>10. CASE CallbackRetain
  <2>1. /\ references' = references + 1 /\ callback = "called" /\ callback' = "retained"
        /\ UNCHANGED <<caller, request, operation, delivers, completion>>
    BY <1>10 DEF CallbackRetain
  <2>2. references \in Nat /\ references' \in Nat
    BY <1>1, <2>1 DEF FetchTypeOK
  <2>3. FetchTypeOK'
    BY <1>1, <2>1, <2>2 DEF FetchTypeOK
  <2>4. HandleMatches'
    BY <1>1, <2>1 DEF HandleMatches
  <2>5. OfCaller' = OfCaller /\ OfHandle' = OfHandle
    BY <2>1 DEF OfCaller, OfHandle, HandleHolds
  <2>6. OfCallback = 0 /\ OfCallback' = 1
    BY <2>1 DEF OfCallback
  <2>7. OfCaller \in Nat /\ OfHandle \in Nat
    BY DEF OfCaller, OfHandle
  <2>8. Accounted'
    BY <1>1, <2>1, <2>5, <2>6, <2>7 DEF Accounted
  <2> QED BY <2>3, <2>4, <2>8 DEF FetchInv
<1>11. CASE CallbackBody
  <2>1. OfCaller' = OfCaller /\ OfCallback = 1 /\ OfCallback' = 1 /\ OfCaller \in Nat
    BY <1>1, <1>11 DEF CallbackBody, OfCaller, OfCallback, FetchTypeOK, HandleMatches, CallerSteps, Kinds
  <2>2. CASE delivers = "closing"
    <3>1. OfHandle = 1 /\ OfHandle' = 0
      BY <1>1, <1>11, <2>2 DEF CallbackBody, OfHandle, HandleHolds, FetchTypeOK, HandleMatches, CallerSteps, Kinds
    <3>2. references' = references - 1
      BY <1>1, <1>11, <2>2 DEF CallbackBody, FetchTypeOK, HandleMatches, CallerSteps, Kinds
    <3>3. Accounted'
      BY <1>1, <2>1, <3>1, <3>2 DEF Accounted
    <3>4. references' \in Nat
      BY <1>1, <2>1, <3>1, <3>3 DEF Accounted
    <3>5. FetchTypeOK' /\ HandleMatches'
      BY <1>1, <1>11, <2>2, <3>4 DEF CallbackBody, FetchTypeOK, HandleMatches, CallerSteps, Kinds
    <3> QED BY <3>3, <3>5 DEF FetchInv
  <2>3. CASE delivers # "closing"
    <3>1. OfHandle' = OfHandle /\ OfHandle \in Nat
      BY <1>1, <1>11, <2>3 DEF CallbackBody, OfHandle, HandleHolds, FetchTypeOK, HandleMatches, CallerSteps, Kinds
    <3>2. references' = references
      BY <1>1, <1>11, <2>3 DEF CallbackBody, FetchTypeOK, HandleMatches, CallerSteps, Kinds
    <3>3. Accounted'
      BY <1>1, <2>1, <3>1, <3>2 DEF Accounted
    <3>4. FetchTypeOK' /\ HandleMatches'
      BY <1>1, <1>11, <2>3, <3>2 DEF CallbackBody, FetchTypeOK, HandleMatches, CallerSteps, Kinds
    <3> QED BY <3>3, <3>4 DEF FetchInv
  <2> QED BY <2>2, <2>3 DEF FetchInv
<1>12. CASE CallbackRelease
  <2>1. OfCaller' = OfCaller /\ OfCaller \in Nat /\ OfHandle \in Nat
    BY <1>1, <1>12 DEF CallbackRelease, OfCaller, OfHandle, FetchTypeOK, HandleMatches, CallerSteps, Kinds
  <2>2. OfHandle' = OfHandle
    BY <1>1, <1>12 DEF CallbackRelease, OfHandle, HandleHolds, FetchTypeOK, HandleMatches, CallerSteps, Kinds
  <2>3. OfCallback = 1 /\ OfCallback' = 0
    BY <1>1, <1>12 DEF CallbackRelease, OfCallback, FetchTypeOK, HandleMatches, CallerSteps, Kinds
  <2>4. references' = references - 1
    BY <1>1, <1>12 DEF CallbackRelease, FetchTypeOK, HandleMatches, CallerSteps, Kinds
  <2>5. Accounted' /\ references' \in Nat
    BY <1>1, <2>1, <2>2, <2>3, <2>4 DEF Accounted
  <2>6. FetchTypeOK' /\ HandleMatches'
    BY <1>1, <1>12, <2>5 DEF CallbackRelease, FetchTypeOK, HandleMatches, CallerSteps, Kinds
  <2> QED BY <2>5, <2>6 DEF FetchInv
<1>13. CASE UNCHANGED fetchVars
  <2>1. UNCHANGED <<caller, references, request, operation, callback, delivers, completion>>
    BY <1>1, <1>13 DEF fetchVars, transport
  <2>2. FetchTypeOK' /\ HandleMatches'
    BY <1>1, <2>1 DEF FetchTypeOK, HandleMatches
  <2>3. Accounted'
    BY <1>1, <2>1 DEF Accounted, OfCaller, OfHandle, OfCallback, HandleHolds
  <2> QED BY <2>2, <2>3 DEF FetchInv
<1> QED BY <1>2, <1>3, <1>4, <1>5, <1>6, <1>7, <1>8, <1>9, <1>10, <1>11, <1>12, <1>13 DEF FetchNext

\* The shared context of FetchPublicLeases is deleted exactly when neither the
\* caller nor a callback nor the open handle can touch it any more.
THEOREM ContextIsCounted == FetchSpec => []ContextLivesAsLongAsUsed
<1>1. FetchInit => FetchInv
  BY DEF FetchInit, FetchInv, FetchTypeOK, Accounted, HandleMatches, HandleHolds, OfCaller, OfHandle, OfCallback, CallerSteps, Kinds
<1>2. FetchInv => ContextLivesAsLongAsUsed
  BY DEF FetchInv, FetchTypeOK, Accounted, HandleMatches, HandleHolds, OfCaller, OfHandle, OfCallback, ContextLivesAsLongAsUsed, InUse
<1> QED BY <1>1, <1>2, FetchStep, PTL DEF FetchSpec

-----------------------------------------------------------------------------
(* The record and the admission.                                           *)
(*                                                                         *)
(* A step that writes the record, or that admits, looks back on what the   *)
(* check read and downloaded in earlier steps.  The invariant says what    *)
(* those values still mean: a record read under the lock is the record,    *)
(* an answer is not older than a record its holder may write over, and     *)
(* everything a check may lean on is covered by what was proven.           *)

LeaseSteps == {"out", "admitted", "cache", "fetch", "decide", "clock"}

LeaseTypeOK ==
  /\ schema \in {"V1", "V2"} /\ time \in Nat /\ behind \in Nat /\ proven \in Nat
  /\ list \in Lists \cup {Nothing} /\ cache \in CacheRecords \cup {Nothing}
  /\ step \in [Checks -> LeaseSteps] /\ now \in [Checks -> Nat] /\ expires \in [Checks -> Nat]
  /\ read \in [Checks -> CacheRecords \cup {Nothing}]
  /\ answer \in [Checks -> Lists \cup {Nothing}]

\* A check holds nothing before the step that fetches it, and what the holder of
\* the lock has read is still what the cache holds.
ReadsAreCurrent ==
  \A c \in Checks :
    /\ step[c] \in {"out", "admitted", "cache"} => read[c] = Nothing /\ cacheLock # c
    /\ step[c] \in {"out", "admitted", "cache", "fetch"} => answer[c] = Nothing
    /\ cacheLock = c /\ read[c] # Nothing => read[c] = cache

NotOlder(l, k) == l.n >= k.n /\ l.issued >= k.issued

\* Of the published list, the answers and the record.
InOrder ==
  /\ list # Nothing => list.issued <= time
  /\ cache # Nothing => list # Nothing /\ NotOlder(list, cache.list)
  /\ \A c \in Checks : answer[c] # Nothing => list # Nothing /\ NotOlder(list, answer[c])
  /\ \A c \in Checks : cacheLock = c /\ answer[c] # Nothing /\ cache # Nothing =>
       NotOlder(answer[c], cache.list)

\* The allowance a ticket carries by itself.
Allowance == Created + (IF schema = "V2" THEN OfflineSeconds ELSE GraceSeconds)

\* What a record can still admit was proven by an answer.
Covered(r) ==
  r # Nothing =>
    /\ schema = "V1" => Grant(r.list) <= proven
    /\ schema = "V2" /\ IsChecked(r) /\ Names(r.list) =>
         Earlier(r.at + CheckSeconds, r.list.until) <= proven

AllCovered ==
  /\ Covered(cache)
  /\ \A c \in Checks : /\ Covered(read[c])
                       /\ Proves(answer[c], now[c]) <= proven
                       /\ expires[c] <= Later(Allowance, proven)

LeaseInv == LeaseTypeOK /\ ReadsAreCurrent /\ InOrder /\ AllCovered

LEMMA LeaseNumbers ==
  /\ Created \in Nat /\ GraceSeconds \in Nat /\ OfflineSeconds \in Nat /\ CheckSeconds \in Nat
  /\ Skew \in Nat
BY LeaseConstants

\* Evaluate ends a V1 build at its built-in allowance or at the grant of the list.
LEMMA EvaluateBound ==
  ASSUME NEW t \in Nat, NEW l \in Lists
  PROVE  /\ Evaluate(t, l) \in Nat
         /\ Evaluate(t, l) <= Later(Created + GraceSeconds, Grant(l))
<1>1. l.issued \in Nat /\ l.until \in Nat \cup {Nothing} /\ l # Nothing
  BY LeaseConstants DEF Lists
<1>2. CASE Names(l)
  <2>1. l.until \in Nat /\ Grant(l) = l.until
    BY <1>1, <1>2 DEF Names, Grant
  <2> QED BY <1>1, <1>2, <2>1, LeaseNumbers DEF Evaluate, Later
<1>3. CASE ~Names(l)
  <2>1. Grant(l) = 0
    BY <1>3 DEF Grant
  <2> QED BY <1>1, <1>3, <2>1, LeaseNumbers DEF Evaluate, Later
<1> QED BY <1>2, <1>3

\* A list that is valid beyond the allowance is timely and its grant is what counts.
LEMMA EvaluateGrants ==
  ASSUME NEW t \in Nat, NEW l \in Lists, Evaluate(t, l) > Created + GraceSeconds
  PROVE  /\ Names(l) /\ l.until \in Nat /\ Evaluate(t, l) = l.until
         /\ Timely(l, t) /\ t < l.until
<1>1. l.issued \in Nat /\ l.until \in Nat \cup {Nothing} /\ l # Nothing
  BY LeaseConstants DEF Lists
<1>2. Names(l)
  BY <1>1, LeaseNumbers DEF Evaluate, Later
<1>3. l.until \in Nat
  BY <1>1, <1>2 DEF Names
<1>4. Timely(l, t)
  BY <1>1, <1>2, LeaseNumbers DEF Evaluate
<1> QED BY <1>1, <1>2, <1>3, <1>4, LeaseNumbers DEF Evaluate, Later

\* A timely list that Evaluate puts below v, with v still ahead, grants less than v.
LEMMA EvaluateBelow ==
  ASSUME NEW t \in Nat, NEW l \in Lists, NEW v \in Nat,
         Timely(l, t), Evaluate(t, l) < v, t < v
  PROVE  Grant(l) < v
<1>1. l.issued \in Nat /\ l.until \in Nat \cup {Nothing} /\ l # Nothing
  BY LeaseConstants DEF Lists
<1>2. CASE Names(l)
  <2>1. l.until \in Nat /\ Grant(l) = l.until
    BY <1>1, <1>2 DEF Names, Grant
  <2> QED BY <1>1, <1>2, <2>1, LeaseNumbers DEF Evaluate, Later
<1>3. CASE ~Names(l)
  BY <1>3 DEF Grant
<1> QED BY <1>2, <1>3

\* What a check decides on is covered, and the record it asks for is that of its
\* answer and covered too.
LEMMA DecisionV1 ==
  ASSUME LeaseTypeOK, AllCovered, NEW c \in Checks, schema = "V1"
  PROVE  LET d == EvaluateLease(now[c], answer[c], read[c]) IN
         /\ d.expires \in Nat /\ d.expires <= Later(Allowance, proven)
         /\ d.record # Nothing =>
              /\ answer[c] # Nothing /\ d.record = Lease(answer[c])
              /\ Evaluate(now[c], answer[c]) > BestLocal(now[c], read[c])
<1> DEFINE t == now[c]  a == answer[c]  r == read[c]
<1> DEFINE valid == IF a = Nothing THEN 0 ELSE Evaluate(t, a)
<1> DEFINE kept == IF r = Nothing THEN 0 ELSE Evaluate(t, r.list)
<1>1. t \in Nat /\ a \in Lists \cup {Nothing} /\ r \in CacheRecords \cup {Nothing} /\ proven \in Nat
  BY DEF LeaseTypeOK
<1>2. Allowance = Created + GraceSeconds /\ Allowance \in Nat
  BY LeaseNumbers DEF Allowance
<1>3. Proves(a, t) <= proven /\ Covered(r)
  BY DEF AllCovered
<1>4. valid \in Nat /\ valid <= Later(Allowance, proven)
  <2>1. CASE a = Nothing
    BY <1>1, <1>2, <2>1 DEF Later
  <2>2. CASE a # Nothing
    <3>1. a \in Lists
      BY <1>1, <2>2
    <3>2. Grant(a) = Proves(a, t)
      BY <2>2 DEF Grant, Proves
    <3>3. Grant(a) \in Nat
      BY <3>1 DEF Grant, Names, Lists
    <3>4. Evaluate(t, a) \in Nat /\ Evaluate(t, a) <= Later(Allowance, Grant(a))
      BY <1>1, <1>2, <3>1, EvaluateBound
    <3> HIDE DEF t, a
    <3> QED BY <1>1, <1>2, <1>3, <2>2, <3>2, <3>3, <3>4 DEF Later
  <2> QED BY <2>1, <2>2
<1>5. kept \in Nat /\ kept <= Later(Allowance, proven)
  <2>1. CASE r = Nothing
    BY <1>1, <1>2, <2>1 DEF Later
  <2>2. CASE r # Nothing
    <3>1. r.list \in Lists
      BY <1>1, <2>2 DEF CacheRecords
    <3>2. Grant(r.list) <= proven
      BY <1>3, <2>2 DEF Covered
    <3>3. Grant(r.list) \in Nat
      BY <3>1 DEF Grant, Names, Lists
    <3>4. Evaluate(t, r.list) \in Nat /\ Evaluate(t, r.list) <= Later(Allowance, Grant(r.list))
      BY <1>1, <1>2, <3>1, EvaluateBound
    <3> HIDE DEF t, r
    <3> QED BY <1>1, <1>2, <2>2, <3>2, <3>3, <3>4 DEF Later
  <2> QED BY <2>1, <2>2
<1>6. BestLocal(t, r) = Later(Allowance, kept)
  BY <1>2 DEF BestLocal
<1>7. EvaluateLease(t, a, r) = [expires |-> Later(BestLocal(t, r), valid),
                                record |-> IF valid > BestLocal(t, r) THEN Lease(a) ELSE Nothing]
  BY DEF EvaluateLease
<1> HIDE DEF t, a, r, kept
<1>8. BestLocal(t, r) \in Nat /\ BestLocal(t, r) <= Later(Allowance, proven)
  BY <1>1, <1>2, <1>5, <1>6 DEF Later
<1>9. Later(BestLocal(t, r), valid) \in Nat /\ Later(BestLocal(t, r), valid) <= Later(Allowance, proven)
  <2> HIDE DEF valid
  <2> QED BY <1>1, <1>2, <1>4, <1>8 DEF Later
<1>10. valid > BestLocal(t, r) => a # Nothing /\ Evaluate(t, a) > BestLocal(t, r)
  BY <1>8
<1> HIDE DEF valid
<1>11. EvaluateLease(t, a, r).expires \in Nat /\ EvaluateLease(t, a, r).expires <= Later(Allowance, proven)
  BY <1>7, <1>9
<1>12. EvaluateLease(t, a, r).record # Nothing =>
         /\ a # Nothing /\ EvaluateLease(t, a, r).record = Lease(a)
         /\ Evaluate(t, a) > BestLocal(t, r)
  BY <1>7, <1>10
<1> QED BY <1>11, <1>12 DEF t, a, r

LEMMA DecisionV2 ==
  ASSUME LeaseTypeOK, AllCovered, NEW c \in Checks, schema = "V2"
  PROVE  LET d == EvaluateKillSwitch(now[c], answer[c], read[c]) IN
         /\ d.expires \in Nat /\ d.expires <= Later(Allowance, proven)
         /\ d.record # Nothing =>
              /\ answer[c] # Nothing
              /\ \/ d.record = Revoked(answer[c])
                 \/ d.record = Checked(now[c], answer[c])
<1> DEFINE t == now[c]  a == answer[c]  r == read[c]
<1>1. t \in Nat /\ a \in Lists \cup {Nothing} /\ r \in CacheRecords \cup {Nothing} /\ proven \in Nat
  BY DEF LeaseTypeOK
<1>2. Allowance = Created + OfflineSeconds /\ Allowance \in Nat
  BY LeaseNumbers DEF Allowance
<1>3. Proves(a, t) <= proven /\ Covered(r)
  BY DEF AllCovered
<1>4. CASE a # Nothing /\ Timely(a, t)
  <2>1. CASE Names(a) /\ a.until > t
    <3>1. a.until \in Nat
      BY <1>1, <1>4, <2>1 DEF Lists, Names
    <3>2. Proves(a, t) = Earlier(t + CheckSeconds, a.until)
      BY <1>4, <2>1 DEF Proves
    <3>3. EvaluateKillSwitch(t, a, r) = [expires |-> Earlier(t + CheckSeconds, a.until),
                                         record |-> Checked(t, a)]
      BY <1>4, <2>1 DEF EvaluateKillSwitch
    <3> HIDE DEF t, a, r
    <3>4. Earlier(t + CheckSeconds, a.until) \in Nat
      BY <1>1, <3>1, LeaseNumbers DEF Earlier
    <3>5. Earlier(t + CheckSeconds, a.until) <= Later(Allowance, proven)
      BY <1>1, <1>2, <1>3, <3>2, <3>4 DEF Later
    <3>6. /\ EvaluateKillSwitch(t, a, r).expires = Earlier(t + CheckSeconds, a.until)
          /\ EvaluateKillSwitch(t, a, r).record = Checked(t, a)
      BY <3>3
    <3> QED BY <1>4, <3>4, <3>5, <3>6 DEF t, a, r
  <2>2. CASE ~(Names(a) /\ a.until > t)
    <3>1. EvaluateKillSwitch(t, a, r) = [expires |-> 0, record |-> Revoked(a)]
      BY <1>4, <2>2 DEF EvaluateKillSwitch
    <3> HIDE DEF t, a, r
    <3>2. 0 <= Later(Allowance, proven)
      BY <1>1, <1>2 DEF Later
    <3>3. EvaluateKillSwitch(t, a, r).expires = 0 /\ EvaluateKillSwitch(t, a, r).record = Revoked(a)
      BY <3>1
    <3> QED BY <1>4, <3>2, <3>3 DEF t, a, r
  <2> QED BY <2>1, <2>2
<1>5. CASE ~(a # Nothing /\ Timely(a, t))
  <2>1. OfflineExpiry(t, r) \in Nat /\ OfflineExpiry(t, r) <= Later(Allowance, proven)
    <3>1. CASE IsChecked(r) /\ r.at <= t /\ Names(r.list)
      <4>1. r # Nothing /\ r \in CacheRecords
        BY <1>1, <3>1 DEF IsChecked
      <4>2. r.at \in Nat /\ r.list \in Lists
        BY <3>1, <4>1 DEF IsChecked, CacheRecords
      <4>3. r.list.until \in Nat
        BY <3>1, <4>2 DEF Names, Lists
      <4>4. Earlier(r.at + CheckSeconds, r.list.until) <= proven
        BY <1>3, <3>1, <4>1 DEF Covered
      <4>5. OfflineExpiry(t, r) = Later(Allowance, Earlier(r.at + CheckSeconds, r.list.until))
        BY <1>2, <3>1 DEF OfflineExpiry
      <4>6. Earlier(r.at + CheckSeconds, r.list.until) \in Nat
        BY <4>2, <4>3, LeaseNumbers DEF Earlier
      <4> QED BY <1>1, <1>2, <4>4, <4>5, <4>6 DEF Later
    <3>2. CASE ~(IsChecked(r) /\ r.at <= t /\ Names(r.list))
      <4>1. OfflineExpiry(t, r) = Allowance
        BY <1>2, <3>2 DEF OfflineExpiry
      <4> QED BY <1>1, <1>2, <4>1 DEF Later
    <3> QED BY <3>1, <3>2
  <2>2. /\ EvaluateKillSwitch(t, a, r).record = Nothing
        /\ EvaluateKillSwitch(t, a, r).expires \in {0, OfflineExpiry(t, r)}
    BY <1>5 DEF EvaluateKillSwitch
  <2> HIDE DEF t, a, r
  <2>3. 0 <= Later(Allowance, proven)
    BY <1>1, <1>2 DEF Later
  <2> QED BY <2>1, <2>2, <2>3 DEF t, a, r
<1> QED BY <1>4, <1>5

LEMMA DecisionIsCovered ==
  ASSUME LeaseTypeOK, AllCovered, NEW c \in Checks
  PROVE  /\ Decision(c).expires \in Nat
         /\ Decision(c).expires <= Later(Allowance, proven)
         /\ Decision(c).record # Nothing =>
              /\ answer[c] # Nothing
              /\ Decision(c).record \in CacheRecords /\ Decision(c).record.list = answer[c]
              /\ Covered(Decision(c).record)
              /\ schema = "V1" => Evaluate(now[c], answer[c]) > BestLocal(now[c], read[c])
<1>1. now[c] \in Nat /\ answer[c] \in Lists \cup {Nothing} /\ schema \in {"V1", "V2"}
  BY DEF LeaseTypeOK
<1>2. Proves(answer[c], now[c]) <= proven
  BY DEF AllCovered
<1>3. CASE schema = "V1"
  <2>1. Decision(c) = EvaluateLease(now[c], answer[c], read[c])
    BY <1>3 DEF Decision
  <2>2. /\ Decision(c).expires \in Nat /\ Decision(c).expires <= Later(Allowance, proven)
        /\ Decision(c).record # Nothing =>
             /\ answer[c] # Nothing /\ Decision(c).record = Lease(answer[c])
             /\ Evaluate(now[c], answer[c]) > BestLocal(now[c], read[c])
    BY <1>3, <2>1, DecisionV1
  <2>3. ASSUME Decision(c).record # Nothing
        PROVE  /\ Decision(c).record \in CacheRecords /\ Decision(c).record.list = answer[c]
               /\ Covered(Decision(c).record)
    <3>1. answer[c] \in Lists /\ answer[c] # Nothing /\ Decision(c).record = Lease(answer[c])
      BY <1>1, <2>2, <2>3
    <3>2. Lease(answer[c]) \in CacheRecords /\ Lease(answer[c]).list = answer[c]
      BY <3>1 DEF Lease, CacheRecords
    <3>3. Proves(answer[c], now[c]) = Grant(answer[c])
      BY <1>3, <3>1 DEF Proves, Grant
    <3> QED BY <1>2, <1>3, <3>1, <3>2, <3>3 DEF Covered
  <2> QED BY <2>2, <2>3
<1>4. CASE schema = "V2"
  <2>1. Decision(c) = EvaluateKillSwitch(now[c], answer[c], read[c])
    BY <1>4 DEF Decision
  <2>2. /\ Decision(c).expires \in Nat /\ Decision(c).expires <= Later(Allowance, proven)
        /\ Decision(c).record # Nothing =>
             /\ answer[c] # Nothing
             /\ \/ Decision(c).record = Revoked(answer[c])
                \/ Decision(c).record = Checked(now[c], answer[c])
    BY <1>4, <2>1, DecisionV2
  <2>3. ASSUME Decision(c).record # Nothing
        PROVE  /\ Decision(c).record \in CacheRecords /\ Decision(c).record.list = answer[c]
               /\ Covered(Decision(c).record)
    <3>1. answer[c] \in Lists /\ answer[c] # Nothing
      BY <1>1, <2>2, <2>3
    <3>2. CASE Decision(c).record = Revoked(answer[c])
      BY <1>4, <3>1, <3>2 DEF Revoked, CacheRecords, Covered, IsChecked
    <3>3. CASE Decision(c).record = Checked(now[c], answer[c])
      <4>1. /\ Decision(c).record \in CacheRecords /\ Decision(c).record.list = answer[c]
            /\ Decision(c).record.at = now[c]
        BY <1>1, <3>1, <3>3 DEF Checked, CacheRecords
      <4>2. Names(answer[c]) => Proves(answer[c], now[c]) = Earlier(now[c] + CheckSeconds, answer[c].until)
        BY <1>4, <3>1 DEF Proves
      <4> QED BY <1>2, <1>4, <4>1, <4>2 DEF Covered
    <3> QED BY <2>2, <2>3, <3>2, <3>3
  <2> QED BY <1>4, <2>2, <2>3
<1> QED BY <1>1, <1>3, <1>4

\* A value that proves more covers what it covered.
LEMMA CoverGrows ==
  ASSUME LeaseTypeOK, AllCovered, schema' = schema, proven' \in Nat, proven' >= proven
  PROVE  /\ \A r \in CacheRecords \cup {Nothing} : Covered(r) => Covered(r)'
         /\ \A a \in Lists \cup {Nothing}, t \in Nat : Proves(a, t)' = Proves(a, t)
         /\ \A a \in Lists \cup {Nothing}, t \in Nat : Proves(a, t) \in Nat
         /\ Later(Allowance, proven) <= Later(Allowance, proven)'
         /\ Allowance' = Allowance
<1>1. proven \in Nat
  BY DEF LeaseTypeOK
<1>2. Allowance' = Allowance /\ Allowance \in Nat
  BY LeaseNumbers DEF Allowance
<1>3. Later(Allowance, proven) <= Later(Allowance, proven)'
  BY <1>1, <1>2 DEF Later
<1>4. ASSUME NEW r \in CacheRecords \cup {Nothing}, Covered(r)  PROVE Covered(r)'
  <2>1. CASE r = Nothing
    BY <2>1 DEF Covered
  <2>2. CASE r # Nothing
    <3>1. r.list \in Lists
      BY <2>2 DEF CacheRecords
    <3>2. Grant(r.list) \in Nat
      BY <3>1 DEF Grant, Names, Lists
    <3>3. IsChecked(r) /\ Names(r.list) => r.at \in Nat /\ r.list.until \in Nat
      BY <2>2, <3>1 DEF IsChecked, CacheRecords, Names, Lists
    <3>4. IsChecked(r) /\ Names(r.list) => Earlier(r.at + CheckSeconds, r.list.until) \in Nat
      BY <3>3, LeaseNumbers DEF Earlier
    <3> QED BY <1>1, <1>4, <2>2, <3>2, <3>4 DEF Covered
  <2> QED BY <2>1, <2>2
<1>5. ASSUME NEW a \in Lists \cup {Nothing}, NEW t \in Nat
      PROVE  Proves(a, t)' = Proves(a, t) /\ Proves(a, t) \in Nat
  <2>1. Proves(a, t)' = Proves(a, t)
    BY DEF Proves
  <2>2. CASE a = Nothing \/ ~Names(a)
    BY <2>2 DEF Proves
  <2>3. CASE a # Nothing /\ Names(a)
    <3>1. a.until \in Nat
      BY <2>3 DEF Lists, Names
    <3> QED BY <2>1, <2>3, <3>1, LeaseNumbers DEF Proves, Earlier
  <2> QED BY <2>1, <2>2, <2>3
<1> QED BY <1>2, <1>3, <1>4, <1>5

\* A check that ends leaves nothing behind but its verdict.
LEMMA EndsStep ==
  ASSUME LeaseInv, NEW c \in Checks, NEW s \in {"out", "admitted"}, Ends(c, s)
  PROVE  LeaseInv'
<1>1. LeaseTypeOK /\ ReadsAreCurrent /\ InOrder /\ AllCovered
  BY DEF LeaseInv
<1>2. /\ step' = [step EXCEPT ![c] = s] /\ now' = [now EXCEPT ![c] = 0]
      /\ cacheLock' = (IF cacheLock = c THEN Nothing ELSE cacheLock)
      /\ expires' = [expires EXCEPT ![c] = 0] /\ read' = [read EXCEPT ![c] = Nothing]
      /\ answer' = [answer EXCEPT ![c] = Nothing]
      /\ UNCHANGED <<schema, time, behind, list, cache, proven>>
  BY DEF Ends, Goes, world
<1>3. LeaseTypeOK'
  BY <1>1, <1>2 DEF LeaseTypeOK, LeaseSteps
<1>4. ReadsAreCurrent'
  BY <1>1, <1>2, LeaseConstants DEF LeaseTypeOK, ReadsAreCurrent
<1>5. InOrder'
  BY <1>1, <1>2, LeaseConstants DEF LeaseTypeOK, InOrder
<1>6. AllCovered'
  <2>1. proven \in Nat /\ schema' = schema /\ proven' = proven
    BY <1>1, <1>2 DEF LeaseTypeOK
  <2>2. Covered(Nothing)' /\ Covered(cache)'
    BY <1>1, <1>2 DEF Covered, AllCovered
  <2>3. Proves(Nothing, 0)' = 0
    BY DEF Proves
  <2>4. \A d \in Checks : Covered(read[d])' /\ Proves(answer[d], now[d])' <= proven
    BY <1>1, <1>2, <2>1, <2>2, <2>3 DEF AllCovered, LeaseTypeOK, Covered, Proves
  <2>5. \A d \in Checks : expires'[d] <= Later(Allowance, proven)
    <3>1. 0 <= Later(Allowance, proven)
      BY <2>1, LeaseNumbers DEF Later, Allowance
    <3> QED BY <1>1, <1>2, <3>1 DEF AllCovered, LeaseTypeOK
  <2>6. Later(Allowance, proven)' = Later(Allowance, proven)
    BY <2>1 DEF Later, Allowance
  <2> QED BY <2>1, <2>2, <2>4, <2>5, <2>6 DEF AllCovered
<1> QED BY <1>3, <1>4, <1>5, <1>6 DEF LeaseInv

\* Every step keeps the invariant.
LEMMA LeaseStep == LeaseInv /\ [LeaseNext]_leaseVars => LeaseInv'
<1> SUFFICES ASSUME LeaseInv, [LeaseNext]_leaseVars  PROVE LeaseInv'
  OBVIOUS
<1>1. LeaseTypeOK /\ ReadsAreCurrent /\ InOrder /\ AllCovered
  BY DEF LeaseInv
<1>2. ASSUME NEW c \in Checks, CheckBegin(c)  PROVE LeaseInv'
  <2>1. /\ step[c] \in {"out", "admitted"} /\ step' = [step EXCEPT ![c] = "cache"]
        /\ now' = [now EXCEPT ![c] = clock] /\ clock >= Created
        /\ UNCHANGED <<schema, time, behind, list, cache, cacheLock, read, answer, expires, proven>>
    BY <1>2 DEF CheckBegin, Goes, world
  <2>2. clock \in Nat
    BY <1>1, <2>1, LeaseNumbers DEF LeaseTypeOK, clock
  <2>3. LeaseTypeOK'
    BY <1>1, <2>1, <2>2 DEF LeaseTypeOK, LeaseSteps
  <2>4. ReadsAreCurrent'
    BY <1>1, <2>1 DEF LeaseTypeOK, ReadsAreCurrent
  <2>5. InOrder'
    BY <1>1, <2>1 DEF InOrder
  <2>6. AllCovered'
    <3>1. answer[c] = Nothing
      BY <1>1, <2>1 DEF ReadsAreCurrent
    <3>2. proven \in Nat /\ Proves(Nothing, clock)' = 0
      BY <1>1 DEF LeaseTypeOK, Proves
    <3>3. \A d \in Checks : Proves(answer[d], now[d])' <= proven
      BY <1>1, <2>1, <3>1, <3>2 DEF AllCovered, LeaseTypeOK, Proves
    <3> QED BY <1>1, <2>1, <3>3 DEF AllCovered, Covered, Later, Allowance
  <2> QED BY <2>3, <2>4, <2>5, <2>6 DEF LeaseInv
<1>3. ASSUME NEW c \in Checks, OpenCache(c)  PROVE LeaseInv'
  <2>1. PICK r \in {cache, Nothing}, s \in {"fetch", "decide"} :
          /\ step[c] = "cache" /\ step' = [step EXCEPT ![c] = s]
          /\ read' = [read EXCEPT ![c] = r]
          /\ \/ cacheLock = Nothing /\ cacheLock' = c
             \/ UNCHANGED cacheLock
          /\ UNCHANGED <<schema, time, behind, list, cache, now, answer, expires, proven>>
    BY <1>3, Zenon DEF OpenCache, Opens, Goes, world
  <2>2. read[c] = Nothing /\ answer[c] = Nothing /\ cacheLock # c
    BY <1>1, <2>1 DEF ReadsAreCurrent
  <2>3. LeaseTypeOK'
    BY <1>1, <2>1 DEF LeaseTypeOK, LeaseSteps
  <2>4. ReadsAreCurrent'
    BY <1>1, <2>1, <2>2, LeaseConstants DEF LeaseTypeOK, ReadsAreCurrent
  <2>5. InOrder'
    BY <1>1, <2>1, <2>2, LeaseConstants DEF LeaseTypeOK, InOrder
  <2>6. AllCovered'
    <3>1. Covered(cache) /\ Covered(Nothing)
      BY <1>1 DEF AllCovered, Covered
    <3>2. \A d \in Checks : Covered(read'[d])
      BY <1>1, <2>1, <3>1 DEF AllCovered, LeaseTypeOK
    <3> QED BY <1>1, <2>1, <3>2 DEF AllCovered, Covered, Proves, Later, Allowance
  <2> QED BY <2>3, <2>4, <2>5, <2>6 DEF LeaseInv
<1>4. ASSUME NEW c \in Checks, FetchList(c)  PROVE LeaseInv'
  <2>1. PICK a \in {list, Nothing} :
          /\ step[c] = "fetch" /\ step' = [step EXCEPT ![c] = "decide"]
          /\ answer' = [answer EXCEPT ![c] = a]
          /\ proven' = Later(proven, Proves(a, now[c]))
          /\ UNCHANGED <<schema, time, behind, list, cache, cacheLock, now, read, expires>>
    BY <1>4 DEF FetchList, Goes, world
  <2>2. a \in Lists \cup {Nothing} /\ now[c] \in Nat /\ proven \in Nat
    BY <1>1, <2>1 DEF LeaseTypeOK
  <2>3. Proves(a, now[c]) \in Nat
    <3>1. CASE a # Nothing /\ Names(a)
      <4>1. a.until \in Nat
        BY <2>2, <3>1 DEF Lists, Names
      <4> QED BY <2>2, <3>1, <4>1, LeaseNumbers DEF Proves, Earlier
    <3>2. CASE ~(a # Nothing /\ Names(a))
      BY <3>2 DEF Proves
    <3> QED BY <3>1, <3>2
  <2>4. proven' \in Nat /\ proven' >= proven /\ proven' >= Proves(a, now[c])
    BY <2>1, <2>2, <2>3 DEF Later
  <2>5. LeaseTypeOK'
    BY <1>1, <2>1, <2>2, <2>4 DEF LeaseTypeOK, LeaseSteps
  <2>6. ReadsAreCurrent'
    BY <1>1, <2>1 DEF LeaseTypeOK, ReadsAreCurrent
  <2>7. InOrder'
    <3>1. \A d \in Checks : answer'[d] = IF d = c THEN a ELSE answer[d]
      BY <1>1, <2>1 DEF LeaseTypeOK
    <3>2. list \in Lists => NotOlder(list, list)
      BY DEF NotOlder, Lists
    <3>3. list # Nothing => list \in Lists
      BY <1>1 DEF LeaseTypeOK
    <3> QED BY <1>1, <2>1, <3>1, <3>2, <3>3 DEF InOrder, NotOlder
  <2>8. AllCovered'
    <3>1. /\ \A r \in CacheRecords \cup {Nothing} : Covered(r) => Covered(r)'
          /\ \A b \in Lists \cup {Nothing}, t \in Nat : Proves(b, t)' = Proves(b, t) /\ Proves(b, t) \in Nat
          /\ Later(Allowance, proven) <= Later(Allowance, proven)'
      BY <1>1, <2>1, <2>4, CoverGrows
    <3>2. Covered(cache)' /\ \A d \in Checks : Covered(read[d])'
      BY <1>1, <2>1, <3>1 DEF AllCovered, LeaseTypeOK, Covered
    <3>3. ASSUME NEW d \in Checks  PROVE Proves(answer[d], now[d])' <= proven'
      <4>1. answer'[d] \in Lists \cup {Nothing} /\ now'[d] \in Nat
        BY <2>5 DEF LeaseTypeOK
      <4>2. Proves(answer[d], now[d])' = Proves(answer'[d], now'[d])
        BY <2>1 DEF Proves
      <4>3. CASE d = c
        BY <1>1, <2>1, <2>4, <4>2, <4>3 DEF LeaseTypeOK
      <4>4. CASE d # c
        <5>1. answer'[d] = answer[d] /\ now'[d] = now[d]
          BY <1>1, <2>1, <4>4 DEF LeaseTypeOK
        <5>2. Proves(answer[d], now[d]) \in Nat /\ Proves(answer[d], now[d]) <= proven
          BY <1>1, <3>1, <4>1, <5>1 DEF AllCovered
        <5> QED BY <2>2, <2>4, <4>2, <5>1, <5>2
      <4> QED BY <4>3, <4>4
    <3>4. ASSUME NEW d \in Checks  PROVE expires'[d] <= Later(Allowance, proven)'
      <4>1. Later(Allowance, proven) \in Nat /\ Later(Allowance, proven)' \in Nat
        BY <2>2, <2>4, LeaseNumbers DEF Later, Allowance
      <4>2. expires'[d] = expires[d] /\ expires[d] \in Nat /\ expires[d] <= Later(Allowance, proven)
        BY <1>1, <2>1 DEF AllCovered, LeaseTypeOK
      <4> QED BY <3>1, <4>1, <4>2
    <3> QED BY <3>2, <3>3, <3>4 DEF AllCovered
  <2> QED BY <2>5, <2>6, <2>7, <2>8 DEF LeaseInv
<1>5. ASSUME NEW c \in Checks, Decide(c)  PROVE LeaseInv'
  <2>1. /\ step[c] = "decide" /\ step' = [step EXCEPT ![c] = "clock"]
        /\ expires' = [expires EXCEPT ![c] = Decision(c).expires]
        /\ read' = [read EXCEPT ![c] = Nothing] /\ answer' = [answer EXCEPT ![c] = Nothing]
        /\ UNCHANGED <<schema, time, behind, list, cacheLock, now, proven>>
    BY <1>5 DEF Decide, Goes, world
  <2>2. \/ cache' = cache
        \/ cacheLock = c /\ Decision(c).record # Nothing /\ cache' = Decision(c).record
    BY <1>5 DEF Decide, MayWrite
  <2>3. /\ Decision(c).expires \in Nat
        /\ Decision(c).expires <= Later(Allowance, proven)
        /\ Decision(c).record # Nothing =>
             /\ answer[c] # Nothing
             /\ Decision(c).record \in CacheRecords /\ Decision(c).record.list = answer[c]
             /\ Covered(Decision(c).record)
    BY <1>1, DecisionIsCovered
  <2>4. LeaseTypeOK'
    BY <1>1, <2>1, <2>2, <2>3 DEF LeaseTypeOK, LeaseSteps
  <2>5. ReadsAreCurrent'
    BY <1>1, <2>1, <2>2 DEF LeaseTypeOK, ReadsAreCurrent
  <2>6. InOrder'
    <3>1. \A d \in Checks : answer'[d] = IF d = c THEN Nothing ELSE answer[d]
      BY <1>1, <2>1 DEF LeaseTypeOK
    <3>2. CASE cache' = cache
      BY <1>1, <2>1, <3>1, <3>2 DEF InOrder
    <3>3. CASE cacheLock = c /\ Decision(c).record # Nothing /\ cache' = Decision(c).record
      <4>1. list # Nothing /\ NotOlder(list, cache'.list)
        BY <1>1, <2>3, <3>3 DEF InOrder
      <4>2. \A d \in Checks : ~(cacheLock' = d /\ answer'[d] # Nothing)
        BY <2>1, <3>1, <3>3
      <4> QED BY <1>1, <2>1, <3>1, <4>1, <4>2 DEF InOrder, NotOlder
    <3> QED BY <2>2, <3>2, <3>3
  <2>7. AllCovered'
    <3>1. Covered(cache')
      BY <1>1, <2>2, <2>3 DEF AllCovered
    <3>2. \A d \in Checks : Covered(read'[d])
      <4>1. Covered(Nothing)
        BY DEF Covered
      <4> QED BY <1>1, <2>1, <4>1 DEF AllCovered, LeaseTypeOK
    <3>3. \A d \in Checks : Proves(answer'[d], now'[d]) <= proven
      <4>1. Proves(Nothing, now[c]) = 0 /\ proven \in Nat
        BY <1>1 DEF Proves, LeaseTypeOK
      <4> QED BY <1>1, <2>1, <4>1 DEF AllCovered, LeaseTypeOK
    <3>4. \A d \in Checks : expires'[d] <= Later(Allowance, proven)
      BY <1>1, <2>1, <2>3 DEF AllCovered, LeaseTypeOK
    <3> QED BY <2>1, <3>1, <3>2, <3>3, <3>4 DEF AllCovered, Covered, Proves, Later, Allowance
  <2> QED BY <2>4, <2>5, <2>6, <2>7 DEF LeaseInv
<1>6. ASSUME NEW c \in Checks, Complete(c) \/ CheckDies(c)  PROVE LeaseInv'
  <2>1. PICK s \in {"out", "admitted"} : Ends(c, s)
    BY <1>6, Zenon DEF Complete, CheckDies
  <2> QED BY <2>1, EndsStep
<1>7. CASE TimePasses
  <2>1. /\ time' \in Nat /\ behind' \in Nat /\ time' >= time
        /\ UNCHANGED <<schema, list, cache, cacheLock, step, now, read, answer, expires, proven>>
    BY <1>1, <1>7 DEF TimePasses, locals, LeaseTypeOK
  <2>2. LeaseTypeOK'
    BY <1>1, <2>1 DEF LeaseTypeOK
  <2>3. ReadsAreCurrent'
    BY <1>1, <2>1 DEF ReadsAreCurrent
  <2>4. InOrder'
    <3>1. list # Nothing => list.issued \in Nat
      BY <1>1 DEF LeaseTypeOK, Lists
    <3>2. time \in Nat
      BY <1>1 DEF LeaseTypeOK
    <3> QED BY <1>1, <2>1, <3>1, <3>2 DEF InOrder, NotOlder
  <2>5. AllCovered'
    BY <1>1, <2>1 DEF AllCovered, Covered, Proves, Later, Allowance
  <2> QED BY <2>2, <2>3, <2>4, <2>5 DEF LeaseInv
<1>8. CASE Publish
  <2> DEFINE n == IF list = Nothing THEN 0 ELSE list.n
  <2>1. PICK u \in {Nothing} \cup (time + 1 .. MaxTime) :
          /\ list' = [n |-> n + 1, issued |-> time, until |-> u]
          /\ UNCHANGED <<schema, time, behind, cache, cacheLock, step, now, read, answer, expires, proven>>
    BY <1>8 DEF Publish, locals
  <2>2. n \in Nat /\ time \in Nat
    BY <1>1 DEF LeaseTypeOK, Lists
  <2>3. u \in Nat \cup {Nothing}
    BY <2>1, <2>2
  <2>4. list' \in Lists /\ list' # Nothing
    BY <2>1, <2>2, <2>3, LeaseConstants DEF Lists
  <2>5. LeaseTypeOK'
    BY <1>1, <2>1, <2>4 DEF LeaseTypeOK
  <2>6. ReadsAreCurrent'
    BY <1>1, <2>1 DEF ReadsAreCurrent
  <2>7. InOrder'
    <3>1. ASSUME NEW k \in Lists, list # Nothing, NotOlder(list, k)  PROVE NotOlder(list', k)
      <4>1. list \in Lists /\ list.issued <= time
        BY <1>1, <3>1 DEF LeaseTypeOK, InOrder
      <4>2. list.n \in Nat /\ list.issued \in Nat /\ k.n \in Nat /\ k.issued \in Nat
        BY <3>1, <4>1 DEF Lists
      <4>3. list'.n = list.n + 1 /\ list'.issued = time
        BY <2>1, <3>1
      <4> QED BY <2>2, <3>1, <4>1, <4>2, <4>3 DEF NotOlder
    <3>2. list'.issued <= time'
      BY <2>1, <2>2
    <3>3. cache # Nothing => NotOlder(list', cache.list)
      BY <1>1, <3>1 DEF InOrder, LeaseTypeOK, CacheRecords
    <3>4. \A d \in Checks : answer[d] # Nothing => NotOlder(list', answer[d])
      BY <1>1, <3>1 DEF InOrder, LeaseTypeOK
    <3> QED BY <1>1, <2>1, <2>4, <3>2, <3>3, <3>4 DEF InOrder, NotOlder
  <2>8. AllCovered'
    BY <1>1, <2>1 DEF AllCovered, Covered, Proves, Later, Allowance
  <2> QED BY <2>5, <2>6, <2>7, <2>8 DEF LeaseInv
<1>9. CASE UNCHANGED leaseVars
  <2>1. UNCHANGED <<schema, time, behind, list, cache, cacheLock, step, now, read, answer, expires, proven>>
    BY <1>9 DEF leaseVars, world, locals
  <2>2. LeaseTypeOK' /\ ReadsAreCurrent'
    BY <1>1, <2>1 DEF LeaseTypeOK, ReadsAreCurrent
  <2>3. InOrder'
    BY <1>1, <2>1 DEF InOrder, NotOlder
  <2>4. AllCovered'
    BY <1>1, <2>1 DEF AllCovered, Covered, Proves, Later, Allowance
  <2> QED BY <2>2, <2>3, <2>4 DEF LeaseInv
<1> QED BY <1>2, <1>3, <1>4, <1>5, <1>6, <1>7, <1>8, <1>9 DEF LeaseNext

LEMMA LeaseStart == LeaseInit => LeaseInv
<1> SUFFICES ASSUME LeaseInit  PROVE LeaseInv
  OBVIOUS
<1>1. LeaseTypeOK
  BY LeaseNumbers DEF LeaseInit, LeaseTypeOK, LeaseSteps
<1>2. ReadsAreCurrent /\ InOrder
  BY LeaseConstants DEF LeaseInit, ReadsAreCurrent, InOrder
<1>3. AllCovered
  <2>1. 0 <= Later(Allowance, 0)
    BY LeaseNumbers DEF Later, Allowance
  <2> QED BY <2>1 DEF LeaseInit, AllCovered, Covered, Proves
<1> QED BY <1>1, <1>2, <1>3 DEF LeaseInv

\* Whatever the network, the record and the clock did during a check, a start is
\* admitted only while the ticket's own allowance runs or a list that was seen
\* names the host.
THEOREM AdmissionHasEvidence == LeaseSpec => AdmissionIsCovered
<1>1. ASSUME LeaseInv, [LeaseNext]_leaseVars
      PROVE  [\A c \in Checks : step'[c] = "admitted" /\ step[c] # "admitted" => Evidence(clock)]_leaseVars
  <2> SUFFICES ASSUME NEW c \in Checks, step'[c] = "admitted", step[c] # "admitted"
               PROVE  Evidence(clock)
    OBVIOUS
  <2>1. step' # step /\ step \in [Checks -> LeaseSteps]
    BY <1>1 DEF LeaseInv, LeaseTypeOK
  <2>2. PICK d \in Checks : \/ CheckBegin(d) \/ OpenCache(d) \/ FetchList(d) \/ Decide(d)
                            \/ Complete(d) \/ CheckDies(d)
    BY <1>1, <2>1 DEF LeaseNext, leaseVars, locals, TimePasses, Publish
  <2>3. ~(CheckBegin(d) \/ FetchList(d) \/ Decide(d) \/ CheckDies(d))
    BY <2>1 DEF CheckBegin, FetchList, Decide, CheckDies, Ends, Goes
  <2>4. ~OpenCache(d)
    BY <2>1, Zenon DEF OpenCache, Opens, Goes
  <2>5. d = c /\ clock < expires[c]
    BY <2>1, <2>2, <2>3, <2>4 DEF Complete, Ends, Goes
  <2>6. expires[c] \in Nat /\ expires[c] <= Later(Allowance, proven) /\ proven \in Nat
    BY <1>1 DEF LeaseInv, LeaseTypeOK, AllCovered
  <2>7. clock \in Int /\ Allowance \in Nat
    BY <1>1, LeaseNumbers DEF LeaseInv, LeaseTypeOK, clock, Allowance
  <2>8. clock < Allowance \/ clock < proven
    BY <2>5, <2>6, <2>7 DEF Later
  <2> QED BY <2>8 DEF Evidence, Allowance
<1> QED BY <1>1, LeaseStart, LeaseStep, PTL DEF LeaseSpec, AdmissionIsCovered

\* The record only moves forward in the lists, and a V1 record that could be read
\* is only replaced by a longer grant: the writer lock is kept from the read to
\* the write, and Check writes only what beats the record.
THEOREM RecordMovesForward == LeaseSpec => RecordNeverWeakens
<1> DEFINE Weakens == cache # Nothing /\ cache' # cache
           Forward == cache'.list.n >= cache.list.n
           Longer == \/ schema # "V1"
                     \/ Grant(cache'.list) > Grant(cache.list)
                     \/ \E c \in Checks : cacheLock = c /\ read[c] = Nothing
<1>1. ASSUME LeaseInv, [LeaseNext]_leaseVars
      PROVE  [Weakens => Forward /\ Longer]_leaseVars
  <2> SUFFICES ASSUME Weakens  PROVE Forward /\ Longer
    OBVIOUS
  <2>1. LeaseTypeOK /\ ReadsAreCurrent /\ InOrder /\ AllCovered
    BY <1>1 DEF LeaseInv
  <2>2. PICK c \in Checks : Decide(c)
    BY <1>1 DEF LeaseNext, leaseVars, world, locals, TimePasses, Publish, CheckBegin, OpenCache,
       FetchList, Complete, CheckDies, Ends
  <2>3. cacheLock = c /\ Decision(c).record # Nothing /\ cache' = Decision(c).record
    BY <2>2 DEF Decide, MayWrite
  <2>4. /\ answer[c] # Nothing /\ cache'.list = answer[c]
        /\ schema = "V1" => Evaluate(now[c], answer[c]) > BestLocal(now[c], read[c])
    BY <2>1, <2>3, DecisionIsCovered
  <2>5. NotOlder(answer[c], cache.list)
    BY <2>1, <2>3, <2>4 DEF InOrder
  <2>6. Forward
    BY <2>4, <2>5 DEF NotOlder
  <2>7. ASSUME schema = "V1", read[c] # Nothing  PROVE Grant(cache'.list) > Grant(cache.list)
    <3>1. read[c] = cache
      BY <2>1, <2>3, <2>7 DEF ReadsAreCurrent
    <3>2. now[c] \in Nat /\ answer[c] \in Lists /\ cache.list \in Lists
      BY <2>1, <2>4 DEF LeaseTypeOK, CacheRecords
    <3>3. /\ Evaluate(now[c], answer[c]) \in Nat /\ Evaluate(now[c], cache.list) \in Nat
      BY <3>2, EvaluateBound
    <3>4. BestLocal(now[c], read[c]) = Later(Created + GraceSeconds, Evaluate(now[c], cache.list))
      BY <2>7, <3>1 DEF BestLocal
    <3>5. /\ Evaluate(now[c], answer[c]) > Created + GraceSeconds
          /\ Evaluate(now[c], answer[c]) > Evaluate(now[c], cache.list)
      BY <2>4, <2>7, <3>3, <3>4, LeaseNumbers DEF Later
    <3>6. /\ Names(answer[c]) /\ answer[c].until \in Nat
          /\ Evaluate(now[c], answer[c]) = answer[c].until
          /\ Timely(answer[c], now[c]) /\ now[c] < answer[c].until
      BY <3>2, <3>5, EvaluateGrants
    <3>7. Timely(cache.list, now[c])
      <4>1. answer[c].issued \in Nat /\ cache.list.issued \in Nat
        BY <3>2 DEF Lists
      <4> QED BY <2>5, <3>2, <3>6, <4>1, LeaseNumbers DEF Timely, NotOlder
    <3>8. Grant(cache.list) < answer[c].until
      BY <3>2, <3>5, <3>6, <3>7, EvaluateBelow
    <3>9. Grant(cache.list) \in Nat
      BY <3>2 DEF Grant, Names, Lists
    <3> QED BY <2>4, <3>6, <3>8, <3>9 DEF Grant
  <2> QED BY <2>3, <2>6, <2>7
<1> QED BY <1>1, LeaseStart, LeaseStep, PTL DEF LeaseSpec, RecordNeverWeakens
=============================================================================
