------------------------------ MODULE Failover ------------------------------
(***************************************************************************)
(* contrib/pool/pcoin-pool-failover: the script that points the pool's DNS   *)
(* name at the standby when the primary stops answering logins, and back      *)
(* once it answers again.  A cycle reads the record, probes both pools,       *)
(* decides, perhaps writes the record, and saves its counters; the pools go   *)
(* up and down, an operator edits the record, API calls fail and the process  *)
(* is restarted between any two of these steps.  Notifications and the saved   *)
(* ids of the zone and the record are left out.                               *)
(***************************************************************************)
EXTENDS Naturals, Sequences

CONSTANTS
  FAILS,        \* consecutive failures before a flip
  RECOVER,      \* consecutive successes before flipping back
  MaxChanges,   \* bound: times a pool goes up or down
  MaxEdits,     \* bound: edits of the record by hand
  MaxCallFaults,  \* bound: failed API calls and failed writes of the state file
  MaxRestarts   \* bound: restarts of the script

ASSUME FailoverAssumption ==
  /\ FAILS \in Nat \ {0} /\ RECOVER \in Nat \ {0}
  /\ MaxChanges \in Nat /\ MaxEdits \in Nat
  /\ MaxCallFaults \in Nat /\ MaxRestarts \in Nat

VARIABLES
  up,           \* up[p]: does the pool answer a stratum login
  record,       \* what the DNS record points at
  pc,           \* where the cycle stands
  current,      \* rec["content"], read at the start of the cycle
  fail, ok,     \* st["fail"], st["ok"]
  standbyOk,    \* s_ok
  saved,        \* the counters in the state file
  probes,       \* history: the newest results of probing the primary
  changes, edits, callFaults, restarts

failoverVars == <<up, record, pc, current, fail, ok, standbyOk, saved, probes,
          changes, edits, callFaults, restarts>>

world    == <<up, record, changes, edits>>
counters == <<fail, ok>>

Pool == {"primary", "standby"}

\* The counters go on past their thresholds; one more is all that matters.
Capped(n, max) == IF n > max THEN max ELSE n

Newest(s) == IF Len(s) > FAILS + RECOVER THEN Tail(s) ELSE s

FailoverInit ==
  /\ up = [p \in Pool |-> TRUE] /\ record = "primary"
  /\ pc = "sleep" /\ current = "primary" /\ standbyOk = FALSE
  /\ fail = 0 /\ ok = 0 /\ saved = <<0, 0>>
  /\ probes = <<>>
  /\ changes = 0 /\ edits = 0 /\ callFaults = 0 /\ restarts = 0

-----------------------------------------------------------------------------
(* The world.                                                               *)

PoolChanges(p) ==
  /\ changes < MaxChanges
  /\ up' = [up EXCEPT ![p] = ~@]
  /\ changes' = changes + 1
  /\ UNCHANGED <<record, pc, current, counters, standbyOk, saved, probes, edits,
                 callFaults, restarts>>

OperatorEdits ==
  /\ edits < MaxEdits
  /\ \E r \in {"primary", "standby", "other"} : r # record /\ record' = r
  /\ edits' = edits + 1
  /\ UNCHANGED <<up, pc, current, counters, standbyOk, saved, probes, changes,
                 callFaults, restarts>>

-----------------------------------------------------------------------------
(* cycle().                                                                 *)

ReadRecord ==
  /\ pc = "sleep"
  /\ current' = record
  /\ pc' = "probe"
  /\ UNCHANGED <<world, counters, standbyOk, saved, probes, callFaults, restarts>>

\* record() raised: the cycle ends before anything was counted.
ReadFails ==
  /\ pc = "sleep" /\ callFaults < MaxCallFaults
  /\ callFaults' = callFaults + 1
  /\ UNCHANGED <<world, pc, current, counters, standbyOk, saved, probes, restarts>>

\* Mutant: one failure does not clear the successes.
CountKeepsSuccesses(answered) ==
  /\ fail' = IF answered THEN 0 ELSE Capped(fail + 1, FAILS + 1)
  /\ ok' = IF answered THEN Capped(ok + 1, RECOVER + 1) ELSE ok

Count(answered) ==
  /\ fail' = IF answered THEN 0 ELSE Capped(fail + 1, FAILS + 1)
  /\ ok' = IF answered THEN Capped(ok + 1, RECOVER + 1) ELSE 0

Probe ==
  /\ pc = "probe"
  /\ Count(up["primary"])
  /\ standbyOk' = up["standby"]
  /\ probes' = Newest(Append(probes, up["primary"]))
  /\ pc' = "decide"
  /\ UNCHANGED <<world, current, saved, callFaults, restarts>>

\* Mutant: the standby's health is not asked.
WantsStandbyUnchecked == current = "primary" /\ fail >= FAILS

WantsStandby == current = "primary" /\ fail >= FAILS /\ standbyOk
WantsPrimary == current = "standby" /\ ok >= RECOVER

Flip(to) ==
  /\ record' = to
  /\ pc' = "save"
  /\ UNCHANGED <<up, current, counters, standbyOk, saved, probes, changes, edits,
                 callFaults, restarts>>

FlipToStandby == pc = "decide" /\ WantsStandby /\ Flip("standby")
FlipToPrimary == pc = "decide" /\ WantsPrimary /\ Flip("primary")

\* The record points elsewhere, or at the right pool already.
LeaveAlone ==
  /\ pc = "decide" /\ ~WantsStandby /\ ~WantsPrimary
  /\ pc' = "save"
  /\ UNCHANGED <<world, current, counters, standbyOk, saved, probes, callFaults, restarts>>

\* point() raised: the write did not happen, or its answer was lost.  main()
\* logs "state not advanced" and skips save_state.
FlipFails ==
  /\ pc = "decide" /\ (WantsStandby \/ WantsPrimary)
  /\ callFaults < MaxCallFaults
  /\ callFaults' = callFaults + 1
  /\ record' \in {record, IF WantsStandby THEN "standby" ELSE "primary"}
  /\ pc' = "sleep"
  /\ UNCHANGED <<up, current, counters, standbyOk, saved, probes, changes, edits, restarts>>

SaveState ==
  /\ pc = "save"
  /\ saved' = counters
  /\ pc' = "sleep"
  /\ UNCHANGED <<world, current, counters, standbyOk, probes, callFaults, restarts>>

\* save_state raised: the file keeps the last counters, memory the new ones.
SaveFails ==
  /\ pc = "save" /\ callFaults < MaxCallFaults
  /\ callFaults' = callFaults + 1
  /\ pc' = "sleep"
  /\ UNCHANGED <<world, current, counters, standbyOk, saved, probes, restarts>>

\* The process is restarted: load_state.
RestartScript ==
  /\ restarts < MaxRestarts
  /\ restarts' = restarts + 1
  /\ fail' = saved[1] /\ ok' = saved[2]
  /\ pc' = "sleep"
  /\ UNCHANGED <<world, current, standbyOk, saved, probes, callFaults>>

Cycle == ReadRecord \/ Probe \/ FlipToStandby \/ FlipToPrimary \/ LeaveAlone \/ SaveState

FailoverNext ==
  \/ \E p \in Pool : PoolChanges(p)
  \/ OperatorEdits
  \/ Cycle \/ ReadFails \/ FlipFails \/ SaveFails \/ RestartScript

FailoverSpec == FailoverInit /\ [][FailoverNext]_failoverVars

\* The script's loop runs on; nothing forces the pools, the operator or a fault.
FailoverFairSpec == FailoverSpec /\ WF_failoverVars(Cycle)

-----------------------------------------------------------------------------
\* "Flip only after FAILS consecutive failed probes of the primary, and only if
\* the standby is healthy at that moment", and "flip BACK only after the primary
\* has answered RECOVER consecutive probes": whatever came before, the newest
\* probes say so when the script writes the record, whatever API calls fail.  Up
\* to the first restart: one between a probe and the save that ends its cycle
\* brings back the counters from before that probe.
FlipsAreEarned ==
  [][ record' # record /\ edits' = edits /\ restarts = 0 =>
        IF record' = "standby"
        THEN standbyOk /\ Len(probes) >= FAILS
             /\ \A i \in (Len(probes) - FAILS + 1)..Len(probes) : ~probes[i]
        ELSE Len(probes) >= RECOVER
             /\ \A i \in (Len(probes) - RECOVER + 1)..Len(probes) : probes[i] ]_failoverVars

\* The name ends up where it should: on the standby while only that answers, on
\* the primary while that answers, unless someone pointed it elsewhere.
NameFollowsHealth ==
  /\ <>[](record = "other" \/ up["primary"] \/ ~up["standby"] \/ record = "standby")
  /\ <>[](record = "other" \/ ~up["primary"] \/ record = "primary")
=============================================================================
