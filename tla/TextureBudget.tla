---------------------------- MODULE TextureBudget ----------------------------
(***************************************************************************)
(* Sizing of the texture cache from the video-memory budget                *)
(* (mcla_texture_budget_win.cpp, mcla_vram_census_win.h).  At start-up the *)
(* UI thread sets the soft and the hard limit, unless the user did; a      *)
(* monitor thread lowers the hard limit step by step while memory is       *)
(* short, and logs one census line for each mark the UI thread leaves with *)
(* it.  Shutdown stops and joins the thread.                               *)
(***************************************************************************)
EXTENDS Integers, FiniteSetsExt

CONSTANTS Budgets,      \* local budgets DXGI may report, in MB
          Scales,       \* draw resolution scales
          Caps,         \* mcla_texture_budget_soft_cap_mb
          StepInterval, \* kStepInterval, in seconds
          MarkSlots,    \* marks_ takes 8
          MaxSeconds,   \* bound: seconds of monitoring
          MaxMarks      \* bound: accepted snapshots

ASSUME BudgetAssumption ==
  /\ Budgets \cup Scales \cup Caps \subseteq Nat
  /\ {StepInterval, MarkSlots, MaxSeconds, MaxMarks} \subseteq Nat \ {0}

VARIABLES tSetup,   \* what start-up finds, fixed for the session
          tLimit,   \* the two settings the texture cache rereads
          tUi,      \* what the UI thread does next with the monitor
          tMon,     \* the members of Monitor, and what its loop holds
          tSeconds, \* time since the monitor started
          tMarked   \* history: marks accepted, logged, and dropped for want of a sample

budgetVars == <<tSetup, tLimit, tUi, tMon, tSeconds, tMarked>>

kStartReserveMb == 1536
kStepMb == 256
kSoftMinMb == 384
kSoftMaxMb == 4096
kHardMinMb == 768
kHardMaxMb == 8192
\* What the SDK accepts for the hard limit.
SdkHardRange == 128..8192
SdkLimits == [soft |-> 384, hard |-> 768]

Clamp(value, least, most) == Min({Max({value, least}), most})

DecideStartLimits(budget, scale, cap) ==
  LET reserve == Max({budget - kStartReserveMb, 0})
      hard == Clamp(Min({(budget * 4) \div 5, reserve}), kHardMinMb, kHardMaxMb)
      legacy == Min({Clamp(budget \div 2, kSoftMinMb, kSoftMaxMb), hard})
      target == Max({Min({budget \div 2, cap}), kSoftMinMb})
      capped == cap > 0 /\ scale >= 2 /\ budget < 10 * 1024 /\ target < legacy
      soft == IF capped THEN target ELSE legacy
  IN [soft |-> soft, hard |-> hard, floor |-> soft]

DecideBudgetAction(s) ==
  IF s.wine THEN "wine"
  ELSE IF ~s.available THEN "unavailable"
  ELSE IF s.user # SdkLimits THEN "userSet" ELSE "apply"

\* Limits of the user are kept as they are, also a soft one above the hard one.
UserChoices == {SdkLimits, [soft |-> 1024, hard |-> 512]}

IdleMonitor ==
  [thread |-> "none", running |-> FALSE, stop |-> FALSE, steps |-> FALSE, hard |-> 0, floor |-> 0,
   since |-> StepInterval, marks |-> 0, taken |-> 0, tick |-> FALSE, stopping |-> FALSE, sampled |-> FALSE]

Setups ==
  [wine : BOOLEAN, available : BOOLEAN, census : BOOLEAN, user : UserChoices,
   budget : Budgets, scale : Scales, cap : Caps]

BudgetInit ==
  /\ tSetup \in Setups
  /\ tLimit = tSetup.user
  /\ tUi = "apply" /\ tMon = IdleMonitor /\ tSeconds = 0
  /\ tMarked = [accepted |-> 0, lines |-> 0, dropped |-> 0]

\* Monitor::Start: the thread runs before running_ is stored.
Started(hard, floor, steps) ==
  [IdleMonitor EXCEPT !.thread = "waits", !.steps = steps, !.hard = hard, !.floor = floor]

\* SetLimit succeeds: the limits are clamped to what the SDK accepts.
ApplyTextureCacheBudget ==
  LET action == DecideBudgetAction(tSetup)
      limits == DecideStartLimits(tSetup.budget, tSetup.scale, tSetup.cap)
      starts == action = "apply" \/ (action = "userSet" /\ tSetup.census)
  IN /\ tUi = "apply"
     /\ tLimit' = IF action = "apply" THEN [soft |-> limits.soft, hard |-> limits.hard] ELSE tLimit
     /\ tMon' = IF action = "apply" THEN Started(limits.hard, limits.floor, TRUE)
                ELSE IF starts THEN Started(tLimit.hard, tLimit.hard, FALSE) ELSE tMon
     /\ tUi' = IF starts THEN "publish" ELSE "live"
     /\ UNCHANGED <<tSetup, tSeconds, tMarked>>

StoresRunning ==
  /\ tUi = "publish"
  /\ tMon' = [tMon EXCEPT !.running = TRUE] /\ tUi' = "live"
  /\ UNCHANGED <<tSetup, tLimit, tSeconds, tMarked>>

\* An accepted snapshot leaves its reason, while there is room.
MonitorMark ==
  /\ tUi = "live" /\ tMarked.accepted < MaxMarks
  /\ tMon.running /\ tSetup.census /\ tMon.marks < MarkSlots
  /\ tMon' = [tMon EXCEPT !.marks = @ + 1]
  /\ tMarked' = [tMarked EXCEPT !.accepted = @ + 1]
  /\ UNCHANGED <<tSetup, tLimit, tUi, tSeconds>>

StopTextureCacheBudgetMonitor ==
  /\ tUi = "live"
  /\ tMon' = [tMon EXCEPT !.running = FALSE, !.stop = tMon.thread # "none"]
  /\ tUi' = IF tMon.thread = "none" THEN "stopped" ELSE "joins"
  /\ UNCHANGED <<tSetup, tLimit, tSeconds, tMarked>>

JoinsMonitor ==
  /\ tUi = "joins" /\ tMon.thread = "ended" /\ tUi' = "stopped"
  /\ UNCHANGED <<tSetup, tLimit, tMon, tSeconds, tMarked>>

\* wait_for ends after a second, or at once for a stop or a mark; the marks are
\* swapped out under the mutex.
MonitorWakes(seconds) ==
  LET woke == tMon.stop \/ tMon.marks > 0
  IN /\ tMon.thread = "waits"
     /\ woke \/ seconds = 1
     /\ tSeconds + seconds <= MaxSeconds /\ tSeconds' = tSeconds + seconds
     /\ tMon' = [tMon EXCEPT !.thread = "works", !.tick = ~woke, !.stopping = tMon.stop, !.marks = 0,
                             !.taken = tMon.marks, !.since = Min({@ + seconds, StepInterval})]
     /\ UNCHANGED <<tSetup, tLimit, tUi, tMarked>>

LoweredHard == Max({tMon.floor, IF tMon.hard > kStepMb THEN tMon.hard - kStepMb ELSE 0})

\* One step per kStepInterval, on ticks only, never below the floor.
MayStep(near) ==
  tMon.steps /\ tMon.tick /\ near /\ tMon.hard > tMon.floor /\ tMon.since >= StepInterval

\* One round of the loop with the mutex released: have is the answer of DXGI,
\* near its usage within the headroom.  EmitCensus logs nothing while no sample exists.
MonitorWorks(have, near) ==
  LET steps == have /\ MayStep(near) /\ LoweredHard < tMon.hard /\ LoweredHard \in SdkHardRange
      sampled == tMon.sampled \/ have
  IN /\ tMon.thread = "works"
     /\ tLimit' = IF steps THEN [tLimit EXCEPT !.hard = LoweredHard] ELSE tLimit
     /\ tMon' = [tMon EXCEPT !.thread = IF tMon.stopping THEN "ended" ELSE "waits",
                             !.hard = IF steps THEN LoweredHard ELSE @,
                             !.since = IF steps THEN 0 ELSE @,
                             !.sampled = sampled, !.taken = 0]
     /\ tMarked' = [tMarked EXCEPT !.lines = IF sampled THEN @ + tMon.taken ELSE @,
                                   !.dropped = IF sampled THEN @ ELSE @ + tMon.taken]
     /\ UNCHANGED <<tSetup, tUi, tSeconds>>

MonitorRound == \/ \E seconds \in 0..1 : MonitorWakes(seconds)
                \/ \E have, near \in BOOLEAN : MonitorWorks(have, near)

BudgetNext ==
  \/ ApplyTextureCacheBudget
  \/ StoresRunning
  \/ MonitorMark
  \/ StopTextureCacheBudgetMonitor
  \/ JoinsMonitor
  \/ MonitorRound

BudgetSpec == BudgetInit /\ [][BudgetNext]_budgetVars

\* Limits the user set, and those of a machine whose budget is unknown, stay
\* untouched.  Limits the host set stay in order: the hard one is what the
\* monitor believes, never under the soft one, never raised, and lowered at
\* most once per interval however marks wake the loop.  When the monitor is
\* joined every mark it accepted was logged, unless DXGI had not answered by then.
LimitsAreKept ==
  LET limits == DecideStartLimits(tSetup.budget, tSetup.scale, tSetup.cap)
  IN /\ DecideBudgetAction(tSetup) # "apply" => tLimit = tSetup.user
     /\ tMon.steps => /\ tLimit.hard = tMon.hard
                      /\ tLimit.soft = limits.soft
                      /\ tLimit.soft <= tLimit.hard /\ tLimit.hard <= limits.hard
                      /\ limits.hard - tLimit.hard <= kStepMb * (1 + tSeconds \div StepInterval)
     /\ tUi = "stopped" => tMarked.lines + tMarked.dropped = tMarked.accepted

\* Shutdown gets its monitor thread back.
MonitorIsJoined == tUi = "joins" ~> tUi = "stopped"
==============================================================================
