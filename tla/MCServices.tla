----------------------------- MODULE MCServices -----------------------------
(***************************************************************************)
(* Small instances, for TLC, of the services around the queue: the node    *)
(* registry, the wake-ups of the workers and the background threads.  They *)
(* share no state here, so one run checks them side by side: "part" is     *)
(* chosen at the start, that service runs, and the others rest in one      *)
(* initial state.                                                          *)
(***************************************************************************)
EXTENDS Membership, WorkerWake, Background, TLC

CONSTANTS m1, m2, f1

VARIABLE part   \* the service under test

serviceVars == <<memberVars, wakeVars, backVars>>

MCMembers == {[k \in MemberDisturbance |-> IF k \in on THEN 1 ELSE 0] :
                on \in {{"crash"}, {"raise"}, {"remove"}, {"stop"}, {"broadcast"}, {"approve"}}}

MCWakes == {[k \in WakeDisturbance |-> IF k \in on THEN 1 ELSE 0] :
              on \in {{"drain", "resume"}, {"pause"}, {"die"},
                      {"raise", "elsewhere"}}}

MCBacks == {[k \in BackDisturbance |-> IF k \in on THEN 1 ELSE 0] :
              on \in {{"raise"}, {"broken"}, {"crash"}, {"api"}}}

\* A rule for the file is added by the first edit.
MCRouted == 0 :> {} @@ 1 :> {f1} @@ 2 :> {f1}

Of(budgets) == CHOOSE b \in budgets : TRUE

ServicesInit ==
  /\ part \in {"registry", "wake", "background"}
  /\ MemberInit /\ WakeInit /\ BackInit
  /\ part # "registry" => mleft = Of(MemberBudgets)
  /\ part # "wake" => wleft = Of(WakeBudgets)
  /\ part # "background" => bleft = Of(BackBudgets)

ServicesNext ==
  \/ /\ part = "registry" /\ MemberNext
     /\ UNCHANGED <<part, wakeVars, backVars>>
  \/ /\ part = "wake" /\ WakeNext
     /\ UNCHANGED <<part, memberVars, backVars>>
  \/ /\ part = "background" /\ BackNext
     /\ UNCHANGED <<part, memberVars, wakeVars>>

\* The fairness of the service under test.
ServicesFairness ==
  /\ \A m \in Member : /\ WF_memberVars(part = "registry" /\ Loop(m))
                       /\ WF_memberVars(part = "registry" /\ Stopped(m))
  /\ WF_wakeVars(part = "wake" /\ Notify) /\ WF_wakeVars(part = "wake" /\ ClearDrain)
  /\ \A w \in Pool : /\ WF_wakeVars(part = "wake" /\ Thread(w))
                     /\ WF_wakeVars(part = "wake" /\ Respawn(w))
  /\ \A s \in Scanner : WF_backVars(part = "background" /\ ScannerStep(s))
  /\ WF_backVars(part = "background"
                 /\ (NoticeEdit \/ Debounce \/ BeginReload("watcher")))
  /\ WF_backVars(part = "background" /\ ReloadStep)

ServicesSpec ==
  ServicesInit /\ [][ServicesNext]_<<part, serviceVars>> /\ ServicesFairness

\* The state of every service is of its type.
ServicesTypeOK ==
  MemberTypeOK /\ WakeTypeOK /\ BackTypeOK

=============================================================================
