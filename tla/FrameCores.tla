----------------------------- MODULE FrameCores -----------------------------
(***************************************************************************)
(* The three bookkeeping cores of frame observation: the worker-iteration  *)
(* inventory (which successful wait belongs to which render), the scope    *)
(* tracker (which update a coordinator belongs to, which wait a worker     *)
(* render), and the swap ledger (which issued token a packet carries).     *)
(* Each is fed events that may come in the wrong order or carry arguments  *)
(* that do not fit.                                                        *)
(***************************************************************************)
EXTENDS Naturals, Sequences, FiniteSets

CONSTANTS MaxWaits,    \* wait operations, updates and coordinators explored
          LedgerRows,  \* Ledger Capacity
          Stocks       \* contents of a swap packet

ASSUME CoreConstants == MaxWaits \in Nat /\ LedgerRows \in Nat

VARIABLES wk,      \* worker_iteration::Worker
          wkEdges, \* pairs <<wait operation, iteration>> reported as consumed
          tk,      \* frame_context::Tracker
          tkSpent, \* contexts entered: <<"update" or "wait", identity>>
          lg,      \* swap_emission::Ledger entries in issue order
          lgSeen   \* consume attempts: <<serial, matched>> in order

workerVars == <<wk, wkEdges>>
trackerVars == <<tk, tkSpent>>
ledgerVars == <<lg, lgSeen>>

-----------------------------------------------------------------------------
(* Worker: Enter, WaitEnter, WaitExit, DispatchEnter, Render, DispatchExit,*)
(* Exit, Freeze and ObserverFault.  eligible is the successful wait that   *)
(* the next render of this iteration may claim.                            *)

WorkerInit == /\ wk = [life |-> "new", state |-> "idle", op |-> 0, last |-> 0, eligible |-> 0, null |-> FALSE,
                       render |-> FALSE, iteration |-> 0, won |-> 0, retired |-> 0, linked |-> 0]
              /\ wkEdges = <<>>

\* Retire: an eligible wait no render claimed is given up and counted.
Retire(w) == IF w.eligible = 0 THEN w ELSE [w EXCEPT !.retired = @ + 1, !.eligible = 0]
ClearWait(w) == [w EXCEPT !.op = 0, !.null = FALSE]
\* Fault: the worker fails for good; terminal workers ignore everything.
WFault(w) == [Retire(w) EXCEPT !.life = "failed"]
Active == wk.life = "active"

WkEnter(fits) == /\ wk.life = "new" /\ UNCHANGED wkEdges
                 /\ wk' = IF fits THEN [wk EXCEPT !.life = "active"] ELSE WFault(wk)
\* An event before Enter, or one the state or the arguments do not allow.
WkMisfit == /\ wk.life \in {"new", "active"} /\ wk' = WFault(wk) /\ UNCHANGED wkEdges
WkWaitEnter(handle) ==
    /\ Active /\ wk.state = "idle" /\ wk.iteration < MaxWaits
    /\ wk' = [Retire(wk) EXCEPT !.state = "wait", !.op = 0, !.null = ~handle, !.iteration = @ + 1]
    /\ UNCHANGED wkEdges
WkWaitExit(outcome) ==
    /\ Active /\ wk.state = "wait"
    /\ wk' = IF wk.null \/ outcome # "success"
             THEN ClearWait([wk EXCEPT !.state = "idle", !.last = IF wk.null THEN @ ELSE @ + 1])
             ELSE [wk EXCEPT !.state = "idle", !.op = wk.last + 1, !.last = @ + 1,
                             !.eligible = wk.last + 1, !.won = @ + 1]
    /\ UNCHANGED wkEdges
WkDispatchEnter == /\ Active /\ wk.state = "idle" /\ wk' = [wk EXCEPT !.state = "dispatch", !.render = FALSE]
                   /\ UNCHANGED wkEdges
\* Mutant: a render without a phase identity keeps the slot for the next one.
KeepsSlot(phase) == IF phase THEN 0 ELSE wk.eligible
SlotAfter(phase) == 0
WkRender(phase) ==
    /\ Active /\ wk.state = "dispatch" /\ ~wk.render
    /\ wk' = [wk EXCEPT !.render = TRUE, !.eligible = SlotAfter(phase),
                        !.linked = IF wk.eligible # 0 THEN @ + 1 ELSE @]
    /\ wkEdges' = IF wk.eligible # 0 THEN Append(wkEdges, <<wk.eligible, wk.iteration>>) ELSE wkEdges
WkDispatchExit ==
    /\ Active /\ wk.state = "dispatch" /\ UNCHANGED wkEdges
    /\ wk' = ClearWait([(IF wk.render THEN wk ELSE Retire(wk)) EXCEPT !.state = "idle"])
WkExit == /\ Active /\ wk.state = "idle" /\ wk' = [ClearWait(Retire(wk)) EXCEPT !.life = "exited"]
          /\ UNCHANGED wkEdges
WkFreeze == /\ Active /\ wk' = [Retire(wk) EXCEPT !.life = "frozen"] /\ UNCHANGED wkEdges

WorkerNext == \/ \E fits \in BOOLEAN : WkEnter(fits)
              \/ WkMisfit \/ WkDispatchEnter \/ WkDispatchExit \/ WkExit \/ WkFreeze
              \/ \E handle \in BOOLEAN : WkWaitEnter(handle)
              \/ \E outcome \in {"success", "timeout"} : WkWaitExit(outcome)
              \/ \E phase \in BOOLEAN : WkRender(phase)
WorkerSpec == WorkerInit /\ [][WorkerNext]_workerVars

\* Every successful wait is claimed by one render, of the iteration that waited, or
\* retired, or still open: Render, DispatchExit, the next WaitEnter, Exit, Freeze and
\* every fault agree on who clears the slot.
WorkerSpendsOnce ==
    /\ wk.won = wk.linked + wk.retired + IF wk.eligible # 0 THEN 1 ELSE 0
    /\ \A i, j \in DOMAIN wkEdges : i # j => wkEdges[i][1] # wkEdges[j][1] /\ wkEdges[i][2] # wkEdges[j][2]
    /\ wk.life \in {"failed", "frozen", "exited"} => wk.eligible = 0

-----------------------------------------------------------------------------
(* Tracker: one per native thread; any violation poisons it for good.      *)

TrackerInit == /\ tk = [failed |-> FALSE, stack |-> <<>>, update |-> 0, wait |-> 0, lastWait |-> 0,
                        epoch |-> 0, serial |-> 0]
               /\ tkSpent = <<>>
Poison == [tk EXCEPT !.failed = TRUE, !.update = 0, !.wait = 0, !.epoch = 0]
Misused == ~tk.failed /\ tk' = Poison /\ UNCHANGED tkSpent

\* worker_credit: a witnessed successful wait of the worker.
WorkerCredit(op, epoch) ==
    /\ ~tk.failed /\ UNCHANGED tkSpent
    /\ tk' = IF tk.stack # <<>> \/ tk.update # 0 \/ op <= tk.lastWait \/ tk.wait # 0 THEN Poison
             ELSE [tk EXCEPT !.wait = op, !.lastWait = op, !.epoch = epoch]

Pushed(kind, epoch) == [tk EXCEPT !.serial = @ + 1, !.stack = Append(@, [kind |-> kind, id |-> tk.serial + 1,
                                                                     epoch |-> epoch])]
Spends(what, id) == tkSpent' = Append(tkSpent, <<what, id>>)
\* enter, one disjunct per Kind; what does not fit is Misused.
TkEnter(kind, epoch) ==
    /\ ~tk.failed /\ tk.serial < MaxWaits * 2 /\ Len(tk.stack) < 2
    /\ \/ /\ kind = "update" /\ tk.stack = <<>> /\ tk.update = 0 /\ tk.wait = 0 /\ epoch = 0
          /\ tk' = Pushed(kind, 0) /\ UNCHANGED tkSpent
       \/ /\ kind = "coordinator" /\ tk.stack = <<>> /\ tk.update # 0 /\ tk.wait = 0 /\ epoch # 0
          /\ tk' = [Pushed(kind, epoch) EXCEPT !.update = 0] /\ Spends("update", tk.update)
       \/ /\ kind = "sync" /\ Len(tk.stack) = 1 /\ tk.stack[1].kind = "coordinator" /\ epoch # 0
          /\ epoch = tk.stack[1].epoch
          /\ tk' = Pushed(kind, epoch) /\ UNCHANGED tkSpent
       \/ /\ kind = "worker" /\ tk.stack = <<>> /\ tk.update = 0 /\ tk.wait # 0 /\ epoch # 0 /\ epoch = tk.epoch
          /\ tk' = [Pushed(kind, epoch) EXCEPT !.wait = 0, !.epoch = 0] /\ Spends("wait", tk.wait)

\* leave with the innermost lease; an unwound scope poisons the tracker.
TkLeave(completed) ==
    /\ ~tk.failed /\ tk.stack # <<>> /\ UNCHANGED tkSpent
    /\ LET top == tk.stack[Len(tk.stack)]
           popped == [tk EXCEPT !.stack = SubSeq(@, 1, Len(@) - 1)]
       IN tk' = IF completed /\ top.kind = "update" THEN [popped EXCEPT !.update = top.id]
                ELSE IF completed THEN popped
                ELSE [Poison EXCEPT !.stack = popped.stack]

TrackerNext == \/ Misused
               \/ \E op \in 1..MaxWaits, epoch \in 1..2 : WorkerCredit(op, epoch)
               \/ \E kind \in {"update", "coordinator", "sync", "worker"}, epoch \in 0..2 : TkEnter(kind, epoch)
               \/ \E completed \in BOOLEAN : TkLeave(completed)
TrackerSpec == TrackerInit /\ [][TrackerNext]_trackerVars

\* An update reaches at most one coordinator and a wait at most one worker render, in
\* the order they were witnessed, and nothing is offered by a poisoned tracker.
TrackerSpendsOnce ==
    /\ \A i, j \in DOMAIN tkSpent : i < j /\ tkSpent[i][1] = tkSpent[j][1] => tkSpent[i][2] < tkSpent[j][2]
    /\ tk.failed => tk.update = 0 /\ tk.wait = 0
    /\ tk.update # 0 => tk.wait = 0 /\ tk.stack = <<>>

-----------------------------------------------------------------------------
(* Swap ledger: tokens travel in packets through the ring; packets arrive  *)
(* late, twice, altered, or without the extension.                         *)

LedgerInit == lg = <<>> /\ lgSeen = <<>>
Issue(stock) == /\ Len(lg) < LedgerRows
                /\ lg' = Append(lg, [stock |-> stock, consumed |-> FALSE]) /\ UNCHANGED lgSeen
\* consume: epoch and serial are checked by Decode and the range test; one attempt each.
Consume(serial, stock) ==
    /\ serial \in DOMAIN lg /\ Len(lgSeen) < LedgerRows + 1
    /\ lg' = [lg EXCEPT ![serial].consumed = TRUE]
    /\ lgSeen' = Append(lgSeen, <<serial, ~lg[serial].consumed /\ stock = lg[serial].stock>>)
LedgerNext == \E stock \in Stocks : Issue(stock) \/ \E serial \in 1..LedgerRows : Consume(serial, stock)
LedgerSpec == LedgerInit /\ [][LedgerNext]_ledgerVars

\* A token is admitted at most once, and never after an attempt that was refused.
LedgerAdmitsOnce == \A i, j \in DOMAIN lgSeen : i < j /\ lgSeen[i][1] = lgSeen[j][1] => ~lgSeen[j][2]

\* What one of the cores hands out, it hands out once: waits to renders, updates to
\* coordinators, tokens to packets.
CoresSpendOnce == WorkerSpendsOnce /\ TrackerSpendsOnce /\ LedgerAdmitsOnce
=============================================================================
