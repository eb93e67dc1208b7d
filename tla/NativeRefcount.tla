---------------------------- MODULE NativeRefcount ----------------------------
(***************************************************************************)
(* The native AddRef and Release of D3D resources (mcla_native_refcount.h, *)
(* mcla_native_refcount.cpp).  Guest threads count references to a         *)
(* resource and to its parent: the first reference to the resource takes   *)
(* one to the parent, the last one gives it back and destroys the          *)
(* resource.  A count is one guest word, updated by a load and a           *)
(* compare-and-exchange without a lock.                                    *)
(***************************************************************************)
EXTENDS Integers, FiniteSetsExt, SequencesExt

CONSTANTS GuestThreads,
          MaxReferences  \* bound: references held at a time

ASSUME RefcountAssumption == MaxReferences \in Nat \ {0}

VARIABLES rCount,     \* the counter word of each resource
          rFresh,     \* no thread has referenced the child yet
          rHeld,      \* references each thread may still release
          rStack,     \* calls each thread is in, the innermost first
          rDestroyed  \* how often the guest's destroy was called

refVars == <<rCount, rFresh, rHeld, rStack, rDestroyed>>

Resources == {"child", "parent"}

\* Type 4 with bit 30: the word at 24 names a parent.
HasParent(object) == object = "child"

Frame(op, object) == [op |-> op, object |-> object, at |-> "load", raw |-> 0]

References(object) == MapThenSumSet(LAMBDA t : rHeld[t][object], GuestThreads)
Unreferenced(object) == \A t \in GuestThreads : rHeld[t][object] = 0

\* One thread has created the parent.
OneCreator(held) ==
  \E creator \in GuestThreads :
    held = [t \in GuestThreads |-> [o \in Resources |-> IF t = creator /\ o = "parent" THEN 1 ELSE 0]]

RefInit ==
  /\ rCount = [o \in Resources |-> IF o = "parent" THEN 1 ELSE 0]
  /\ rFresh = TRUE
  /\ rHeld \in [GuestThreads -> [Resources -> 0..1]] /\ OneCreator(rHeld)
  /\ rStack = [t \in GuestThreads |-> <<>>]
  /\ rDestroyed = [o \in Resources |-> 0]

\* Guest code calls for an object it holds; the creator of a child holds its parent.
CallAddRef(t, object) ==
  /\ rStack[t] = <<>>
  /\ rHeld[t][object] > 0 \/ (rFresh /\ object = "child" /\ rHeld[t]["parent"] > 0)
  /\ References("child") + References("parent") < MaxReferences
  /\ rStack' = [rStack EXCEPT ![t] = <<Frame("add", object)>>]
  /\ rFresh' = (rFresh /\ object # "child")
  /\ UNCHANGED <<rCount, rHeld, rDestroyed>>

CallRelease(t, object) ==
  /\ rStack[t] = <<>> /\ rHeld[t][object] > 0
  /\ rHeld' = [rHeld EXCEPT ![t][object] = @ - 1]
  /\ rStack' = [rStack EXCEPT ![t] = <<Frame("release", object)>>]
  /\ UNCHANGED <<rCount, rFresh, rDestroyed>>

Passes(t, to, object) ==
  /\ rStack[t] = <<>> /\ t # to /\ rHeld[t][object] > 0
  /\ rHeld' = [rHeld EXCEPT ![t][object] = @ - 1, ![to][object] = @ + 1]
  /\ UNCHANGED <<rCount, rFresh, rStack, rDestroyed>>

Inside(t, op, at) == rStack[t] # <<>> /\ Head(rStack[t]).op = op /\ Head(rStack[t]).at = at
Top(t) == Head(rStack[t])
GoesTo(t, at) == [rStack EXCEPT ![t] = <<[Top(t) EXCEPT !.at = at]>> \o Tail(@)]
Calls(t, at, op) == [rStack EXCEPT ![t] = <<Frame(op, "parent"), [Top(t) EXCEPT !.at = at]>> \o Tail(@)]

\* The reference is the thread's once the outermost AddRef returns; an inner one is the child's.
Returned(t) ==
  /\ rStack' = [rStack EXCEPT ![t] = Tail(@)]
  /\ rHeld' = IF Top(t).op = "add" /\ Len(rStack[t]) = 1
              THEN [rHeld EXCEPT ![t][Top(t).object] = @ + 1] ELSE rHeld

Updated(frame) == IF frame.op = "add" THEN frame.raw + 1 ELSE frame.raw - 1

UpdateLoads(t) ==
  /\ rStack[t] # <<>> /\ Top(t).at = "load"
  /\ rStack' = [rStack EXCEPT ![t] = <<[Top(t) EXCEPT !.at = "swap", !.raw = rCount[Top(t).object]]>> \o Tail(@)]
  /\ UNCHANGED <<rCount, rFresh, rHeld, rDestroyed>>

\* Mutant: a store in place of the compare-and-exchange.
StoresAnyway(t) == TRUE

StillRaw(t) == rCount[Top(t).object] = Top(t).raw

UpdateSwaps(t) ==
  /\ rStack[t] # <<>> /\ Top(t).at = "swap"
  /\ IF StillRaw(t)
     THEN /\ rCount' = [rCount EXCEPT ![Top(t).object] = Updated(Top(t))]
          /\ rStack' = GoesTo(t, "decide")
     ELSE /\ rStack' = [rStack EXCEPT ![t] = <<[Top(t) EXCEPT !.raw = rCount[Top(t).object]]>> \o Tail(@)]
          /\ UNCHANGED rCount
  /\ UNCHANGED <<rFresh, rHeld, rDestroyed>>

AddRef(t) ==
  /\ \/ /\ Inside(t, "add", "decide") /\ Updated(Top(t)) = 1 /\ HasParent(Top(t).object)
        /\ rStack' = Calls(t, "return", "add") /\ UNCHANGED rHeld
     \/ /\ \/ Inside(t, "add", "return")
           \/ Inside(t, "add", "decide") /\ ~(Updated(Top(t)) = 1 /\ HasParent(Top(t).object))
        /\ Returned(t)
  /\ UNCHANGED <<rCount, rFresh, rDestroyed>>

ReleaseFast(t) ==
  /\ Inside(t, "release", "decide") /\ Updated(Top(t)) # 0
  /\ Returned(t) /\ UNCHANGED <<rCount, rFresh, rDestroyed>>

\* The zero path: the parent is released first, then the object destroyed.
ReleaseDestroy(t) ==
  \/ /\ Inside(t, "release", "decide") /\ Updated(Top(t)) = 0
     /\ rStack' = IF HasParent(Top(t).object) THEN Calls(t, "destroy", "release") ELSE GoesTo(t, "destroy")
     /\ UNCHANGED <<rCount, rFresh, rHeld, rDestroyed>>
  \/ /\ Inside(t, "release", "destroy")
     /\ rDestroyed' = [rDestroyed EXCEPT ![Top(t).object] = @ + 1]
     /\ Returned(t) /\ UNCHANGED <<rCount, rFresh>>

RefNext ==
  \E t \in GuestThreads :
    \/ \E o \in Resources : CallAddRef(t, o) \/ CallRelease(t, o)
    \/ \E o \in Resources, to \in GuestThreads : Passes(t, to, o)
    \/ UpdateLoads(t) \/ UpdateSwaps(t) \/ AddRef(t) \/ ReleaseFast(t) \/ ReleaseDestroy(t)
RefSpec == RefInit /\ [][RefNext]_refVars

\* Whatever updates of AddRef and Release overlap, an object is destroyed once
\* and after its last reference, the parent not while a reference to the child
\* is left, and when no call is under way the objects nobody references are gone.
ParentOutlivesChild ==
  LET gone(o) == rDestroyed[o] > 0
      idle == \A t \in GuestThreads : rStack[t] = <<>>
      updates(t, o) == \E i \in DOMAIN rStack[t] : rStack[t][i].object = o /\ rStack[t][i].at \in {"load", "swap"}
  IN /\ \A o \in Resources :
          /\ rDestroyed[o] <= 1
          /\ gone(o) => Unreferenced(o) /\ \A t \in GuestThreads : ~updates(t, o)
     /\ gone("parent") => Unreferenced("child")
     /\ idle => /\ gone("child") <=> (~rFresh /\ Unreferenced("child"))
                /\ gone("parent") <=> (Unreferenced("parent") /\ Unreferenced("child"))
================================================================================
