----------------------------- MODULE TriggerLeader -----------------------------
(***************************************************************************)
(* Leadership of the trigger engine.  Every pod runs a NodeController that *)
(* competes for a session-level advisory lock; the pod that holds it runs  *)
(* the Cron engine and probes its lock connection every few seconds.  The  *)
(* database ends the lock when the connection ends, without telling the    *)
(* holder.  A pod keeps one Cron for its lifetime; the thread pool of the  *)
(* stale-indexing watchdog is made with it and is shut down by it.         *)
(***************************************************************************)
EXTENDS Naturals

CONSTANTS
    Pods,
    NoPod,     \* nobody holds the advisory lock
    MaxFaults  \* lost connections, outages, crashes and failures, in all (bound)

ASSUME LeaderAssumption == NoPod \notin Pods /\ MaxFaults \in Nat

VARIABLES
    db,        \* can new connections be made
    lock,      \* the pod whose connection holds the advisory lock
    ctl,       \* where NodeController.start() stands on each pod
    engine,    \* has the pod's Cron a scheduler
    watchdog,  \* the thread pool Cron._watchdog_executor
    lost,      \* history: pods whose lock was lost under them since they took it
    faults

leaderVars == <<db, lock, ctl, engine, watchdog, lost, faults>>

TypeOK ==
    /\ db \in {"up", "down"}
    /\ lock \in Pods \cup {NoPod}
    /\ ctl \in [Pods -> {"waiting", "acquired", "leading", "stopping", "stopped", "dead"}]
    /\ engine \in [Pods -> BOOLEAN]
    /\ watchdog \in [Pods -> {"open", "shut"}]
    /\ lost \subseteq Pods
    /\ faults \in 0..MaxFaults

Init ==
    /\ db = "up"
    /\ lock = NoPod
    /\ ctl = [p \in Pods |-> "waiting"]
    /\ engine = [p \in Pods |-> FALSE]
    /\ watchdog = [p \in Pods |-> "open"]
    /\ lost = {}
    /\ faults = 0

CtlMoves(p, from, to) == ctl[p] = from /\ ctl' = [ctl EXCEPT ![p] = to]
Fault == faults < MaxFaults /\ faults' = faults + 1

-----------------------------------------------------------------------------
(* NodeController.start *)

\* mutant: the answer of pg_try_advisory_lock is not looked at
LeadAnyway(p) ==
    /\ db = "up"
    /\ CtlMoves(p, "waiting", "acquired")
    /\ lock' = IF lock = NoPod THEN p ELSE lock
    /\ lost' = lost \ {p}
    /\ UNCHANGED <<db, engine, watchdog, faults>>
\* the lock is free; a taken lock means another sleep
TryLock(p) ==
    /\ db = "up" /\ lock = NoPod
    /\ CtlMoves(p, "waiting", "acquired")
    /\ lock' = p
    /\ lost' = lost \ {p}
    /\ UNCHANGED <<db, engine, watchdog, faults>>

\* LeaderLockContext.__enter__ raises, and so does start(): the task ends
TryLockRaises(p) ==
    /\ db = "down"
    /\ CtlMoves(p, "waiting", "dead")
    /\ UNCHANGED <<db, lock, engine, watchdog, lost, faults>>

\* start_async
StartEngine(p) ==
    /\ CtlMoves(p, "acquired", "leading")
    /\ engine' = [engine EXCEPT ![p] = TRUE]
    /\ UNCHANGED <<db, lock, watchdog, lost, faults>>
\* the scheduler may have been made, and even started, before
StartEngineRaises(p) ==
    /\ CtlMoves(p, "acquired", "stopping")
    /\ Fault
    /\ \E made \in BOOLEAN : engine' = [engine EXCEPT ![p] = made]
    /\ UNCHANGED <<db, lock, watchdog, lost>>

\* mutant: the loop trusts scheduler.running
ProbeScheduler(p) ==
    /\ CtlMoves(p, "leading", "stopping")
    /\ ~engine[p]
    /\ UNCHANGED <<db, lock, engine, watchdog, lost, faults>>
\* _hold_while_running: the probe fails once the connection is gone
Probe(p) ==
    /\ CtlMoves(p, "leading", "stopping")
    /\ lock # p
    /\ UNCHANGED <<db, lock, engine, watchdog, lost, faults>>

\* _lead, finally: Cron.shutdown(), which does nothing when there is no scheduler
Shutdown(p) ==
    /\ CtlMoves(p, "stopping", "stopped")
    /\ engine' = [engine EXCEPT ![p] = FALSE]
    /\ watchdog' = [watchdog EXCEPT ![p] = IF engine[p] THEN "shut" ELSE @]
    /\ UNCHANGED <<db, lock, lost, faults>>

\* mutant: the connection goes back to the pool with the lock
ReleaseNothing(p) ==
    /\ CtlMoves(p, "stopped", "waiting")
    /\ UNCHANGED <<db, lock, engine, watchdog, lost, faults>>
\* LeaderLockContext.__exit__; errors are swallowed
Release(p) ==
    /\ CtlMoves(p, "stopped", "waiting")
    /\ lock' = IF lock = p THEN NoPod ELSE lock
    /\ UNCHANGED <<db, engine, watchdog, lost, faults>>

ControllerStep(p) ==
    \/ TryLock(p) \/ TryLockRaises(p) \/ StartEngine(p) \/ Probe(p) \/ Shutdown(p) \/ Release(p)

-----------------------------------------------------------------------------
(* Faults *)

\* an idle connection is reaped
LoseLock(p) ==
    /\ lock = p
    /\ Fault
    /\ lock' = NoPod
    /\ lost' = lost \cup {p}
    /\ UNCHANGED <<db, ctl, engine, watchdog>>

\* failover: every connection ends, and for a while none can be made
DatabaseFails ==
    /\ db = "up"
    /\ Fault
    /\ db' = "down"
    /\ lock' = NoPod
    /\ lost' = lost \cup {p \in Pods : lock = p}
    /\ UNCHANGED <<ctl, engine, watchdog>>
DatabaseReturns ==
    /\ db = "down" /\ db' = "up"
    /\ UNCHANGED <<lock, ctl, engine, watchdog, lost, faults>>

\* the process dies and a new one starts with a Cron of its own
Restart(p) ==
    /\ Fault
    /\ ctl' = [ctl EXCEPT ![p] = "waiting"]
    /\ engine' = [engine EXCEPT ![p] = FALSE]
    /\ watchdog' = [watchdog EXCEPT ![p] = "open"]
    /\ lock' = IF lock = p THEN NoPod ELSE lock
    /\ lost' = lost \ {p}
    /\ UNCHANGED db

Next ==
    \/ DatabaseFails \/ DatabaseReturns
    \/ \E p \in Pods : ControllerStep(p) \/ StartEngineRaises(p) \/ LoseLock(p) \/ Restart(p)

Spec == Init /\ [][Next]_leaderVars
\* asyncio runs the controller's task, and outages pass
Fairness == WF_leaderVars(DatabaseReturns) /\ \A p \in Pods : WF_leaderVars(ControllerStep(p))
FairSpec == Spec /\ Fairness

-----------------------------------------------------------------------------
(* Properties *)

\* Two engines never run, unless the lock of one of them was lost under it
\* and its controller has not stepped down yet: "the scheduler has to be
\* stopped first or a standby could start a second engine" (_lead).
OneEngine ==
    \A p, q \in Pods : engine[p] /\ engine[q] /\ p # q => p \in lost \/ q \in lost

\* A leader whose lock was lost under it stops its engine.
StepsDown == \A p \in Pods : p \in lost /\ engine[p] ~> ~engine[p] \/ p \notin lost

\* Once faults end, some pod leads for good with the lock in its hands,
\* unless every controller met an outage at the moment it asked for the lock.
Leads(p) == ctl[p] = "leading" /\ engine[p] /\ lock = p
AllDead == \A p \in Pods : ctl[p] = "dead"
SomeoneLeads == <>[](AllDead \/ \E p \in Pods : Leads(p))
=============================================================================
