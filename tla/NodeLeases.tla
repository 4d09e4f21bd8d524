----------------------------- MODULE NodeLeases -----------------------------
(***************************************************************************)
(* Which nodes stay listed in status.loadBalancer.ingress                  *)
(* (controller/src/lease.rs, run_lease_loop and run_prune_loop of          *)
(* controller/src/main.rs).  Each controller renews a Lease that carries   *)
(* its address and empties it when told to stop, and drops from the list   *)
(* the addresses that no live Lease carries on two passes in a row.  A     *)
(* Lease is live while its renewTime keeps changing as the process sees    *)
(* it.  One controller is shown at its pruning, its peers at everything    *)
(* else; it is called the pruner below.                                    *)
(*                                                                         *)
(* Time advances in ticks; a request and the LISTs of a starting           *)
(* controller take less than one.                                          *)
(***************************************************************************)
EXTENDS Integers, FiniteSets

CONSTANTS
    Peers,         \* the other nodes, each named by its address
    LeaseDuration, \* LEASE_DURATION in ticks
    LeaseRenew,    \* LEASE_RENEW
    PruneJitter,   \* PRUNE_JITTER_MAX
    MaxMissed,     \* renewals in a row that a peer may miss
    MaxStops,      \* crashes and SIGTERMs
    MaxFaults      \* failing requests of the pruner

ASSUME LeaseAssumption ==
    /\ LeaseRenew \in Nat \ {0} /\ PruneJitter \in Nat
    /\ LeaseDuration \in Nat /\ LeaseDuration > LeaseRenew
    /\ MaxMissed \in Nat /\ MaxStops \in Nat /\ MaxFaults \in Nat

\* Faulty: the jitter is drawn from one value too many.
LongInterval == LeaseRenew .. LeaseRenew + PruneJitter + 1

\* The sleep of run_prune_loop, and PRUNE_INTERVAL_MAX.
PruneInterval == LeaseRenew .. LeaseRenew + PruneJitter
PruneIntervalMax == LeaseRenew + PruneJitter

\* max_prune_latency
MaxPruneLatency(graceful) ==
    IF graceful THEN 2 * PruneIntervalMax ELSE LeaseDuration + 3 * PruneIntervalMax

\* A clock that stops one tick after the longest time it must tell apart.
Older(t, most) == IF t > most THEN t ELSE t + 1
Latest == MaxPruneLatency(FALSE)

VARIABLES
    process,  \* a peer's: "up", "stopping" (SIGTERM received), "left" (withdrawn) or "down"
    lease,    \* a peer's address annotation: "full", "empty", or "absent"
    sending,  \* sending[n][kind]: a PUT in flight with a "fresh" or "stale" resourceVersion
    renewIn,  \* ticks until the lease loop wakes up
    missed,   \* renewals that failed in a row
    since,    \* ticks a listed peer has not written its Lease: see Overdue
    settled,  \* the running process of a peer wrote its Lease before the last tick
    ingress,  \* the peers' addresses listed
    seen,     \* LeaseTracker.leases: [full, age] for each Lease listed
    news,     \* the renewTime changed since the pruner listed it
    uptime,   \* ticks since the pruner started, up to LeaseDuration
    suspects, \* PruneSuspects.previous
    pruneIn,  \* ticks until the prune loop wakes up
    pruning,  \* a pass has listed the Leases and goes on to the Service
    stops, faults

leaseVars == <<lease, sending, renewIn, missed, since>>
pruneVars == <<seen, news, uptime, suspects, pruneIn, pruning>>
vars == <<process, leaseVars, settled, ingress, pruneVars, stops, faults>>

Gone(n) == process[n] \in {"down", "left"}
Quiet == [kind \in {"renew", "withdraw"} |-> "none"]

\* The pruner has just started.  A peer is new, or it died long ago and its Lease
\* and its address were left behind.
Init ==
    /\ process \in [Peers -> {"up", "down"}]
    /\ lease = [n \in Peers |-> IF process[n] = "up" THEN "absent" ELSE "full"]
    /\ ingress = {n \in Peers : process[n] = "down"}
    /\ sending = [n \in Peers |-> Quiet]
    /\ renewIn = [n \in Peers |-> 0]
    /\ missed = [n \in Peers |-> 0]
    /\ since = [n \in Peers |-> 0]
    /\ settled = [n \in Peers |-> FALSE]
    /\ seen = << >> /\ news = [n \in Peers |-> FALSE]
    /\ uptime = 0 /\ suspects = {} /\ pruneIn \in PruneInterval /\ pruning = FALSE
    /\ stops = 0 /\ faults = 0

-----------------------------------------------------------------------------
(* The Lease loop and the withdrawal.                                      *)

\* A failed renewal is only tried again at the next one.
Missed(n) ==
    /\ missed[n] < MaxMissed
    /\ missed' = [missed EXCEPT ![n] = @ + 1]
    /\ renewIn' = [renewIn EXCEPT ![n] = LeaseRenew]

\* renew_lease, the GET (a Lease that is absent is created, which a create in
\* the meantime refuses just as a newer version refuses a PUT).
RenewGet(n) ==
    /\ process[n] = "up" /\ renewIn[n] = 0 /\ sending[n]["renew"] = "none"
    /\ \/ sending' = [sending EXCEPT ![n]["renew"] = "fresh"] /\ UNCHANGED <<renewIn, missed>>
       \/ Missed(n) /\ UNCHANGED sending
    /\ UNCHANGED <<process, lease, since, settled, ingress, pruneVars, stops, faults>>

\* withdraw_lease, the GET; the process exits when it fails.
WithdrawGet(n) ==
    /\ process[n] = "stopping" /\ sending[n]["withdraw"] = "none"
    /\ \/ sending' = [sending EXCEPT ![n]["withdraw"] = "fresh"] /\ UNCHANGED process
       \/ process' = [process EXCEPT ![n] = "down"] /\ UNCHANGED sending
    /\ UNCHANGED <<lease, renewIn, missed, since, settled, ingress, pruneVars, stops, faults>>

\* Faulty: the resourceVersion is left out of the PUT.
AnyVersion(n, kind) == sending[n][kind] # "none"

\* The API server takes a PUT that carries the live resourceVersion.
LiveVersion(n, kind) == sending[n][kind] = "fresh"

\* The PUT lands; others in flight for this Lease are now stale.
PutLands(n, kind) ==
    /\ LiveVersion(n, kind)
    /\ lease' = [lease EXCEPT ![n] = IF kind = "renew" THEN "full" ELSE "empty"]
    /\ sending' = [sending EXCEPT ![n] =
                     [k \in DOMAIN @ |-> IF k = kind \/ @[k] = "none" THEN "none" ELSE "stale"]]
    /\ since' = [since EXCEPT ![n] = 0]
    /\ news' = [news EXCEPT ![n] = TRUE]
    /\ IF kind = "renew"
       THEN /\ renewIn' = [renewIn EXCEPT ![n] = LeaseRenew]
            /\ missed' = [missed EXCEPT ![n] = 0]
            /\ UNCHANGED <<process, settled>>
       ELSE /\ process' = [process EXCEPT ![n] = "left"]
            /\ settled' = [settled EXCEPT ![n] = FALSE]
            /\ UNCHANGED <<renewIn, missed>>
    /\ UNCHANGED <<ingress, seen, uptime, suspects, pruneIn, pruning, stops, faults>>

\* The PUT is refused (409) or lost: a withdrawal is not tried again.
PutFails(n, kind) ==
    /\ sending[n][kind] # "none"
    /\ sending' = [sending EXCEPT ![n][kind] = "none"]
    /\ \/ kind = "renew" /\ process[n] = "up" /\ Missed(n) /\ UNCHANGED process
       \/ kind = "renew" /\ process[n] # "up" /\ UNCHANGED <<process, renewIn, missed>>
       \/ /\ kind = "withdraw"
          /\ process' = [process EXCEPT ![n] = "down"]
          /\ UNCHANGED <<renewIn, missed>>
    /\ UNCHANGED <<lease, since, settled, ingress, pruneVars, stops, faults>>

-----------------------------------------------------------------------------
(* A controller's life: stopped with SIGTERM, lost, started again.         *)

\* SIGTERM: the loops are dropped; a PUT already sent may still land.
Stop(n) ==
    /\ process[n] = "up" /\ stops < MaxStops
    /\ process' = [process EXCEPT ![n] = "stopping"]
    /\ settled' = [settled EXCEPT ![n] = FALSE]
    /\ stops' = stops + 1
    /\ UNCHANGED <<leaseVars, ingress, pruneVars, faults>>

Crash(n) ==
    /\ ~Gone(n) /\ stops < MaxStops
    /\ process' = [process EXCEPT ![n] = "down"]
    /\ settled' = [settled EXCEPT ![n] = FALSE]
    /\ stops' = stops + 1
    /\ UNCHANGED <<leaseVars, ingress, pruneVars, faults>>

\* The first renewal runs as soon as the Nodes are listed.
Start(n) ==
    /\ Gone(n) /\ sending[n] = Quiet
    /\ process' = [process EXCEPT ![n] = "up"]
    /\ renewIn' = [renewIn EXCEPT ![n] = 0]
    /\ missed' = [missed EXCEPT ![n] = 0]
    /\ UNCHANGED <<lease, sending, since, settled, ingress, pruneVars, stops, faults>>

\* The pruner is lost and started again: its loop begins anew.
PrunerRestart ==
    /\ stops < MaxStops /\ stops' = stops + 1
    /\ seen' = << >> /\ uptime' = 0 /\ suspects' = {} /\ pruning' = FALSE
    /\ pruneIn' \in PruneInterval
    /\ since' = [n \in Peers |-> 0]
    /\ UNCHANGED <<process, lease, sending, renewIn, missed, settled, ingress, news, faults>>

\* The node's own status write (IngressStatus has its steps).
Publish(n) ==
    /\ process[n] = "up" /\ n \notin ingress
    /\ ingress' = ingress \cup {n}
    /\ since' = [since EXCEPT ![n] = 0]
    /\ UNCHANGED <<process, lease, sending, renewIn, missed, settled, pruneVars, stops, faults>>

-----------------------------------------------------------------------------
(* The prune loop.                                                         *)

\* Faulty: every listing counts as a change.
ObserveAgain(n) == [full |-> lease[n] = "full", age |-> 0]

\* list_leases
Listed == {n \in Peers : lease[n] # "absent"}

\* LeaseTracker::observe
Observe(n) ==
    [full |-> lease[n] = "full",
     age  |-> IF news[n] \/ n \notin DOMAIN seen THEN 0 ELSE seen[n].age]

\* ObservedLease::is_live
IsLive(n) == n \in DOMAIN seen /\ seen[n].age < LeaseDuration

\* may_prune; the pruner's own Lease is live unless its renewals failed
MayPrune(ownLive) == uptime >= LeaseDuration /\ ownLive

EndPass == pruning' = FALSE /\ pruneIn' \in PruneInterval

\* The loop wakes up and lists the Leases.
PruneList(ownLive) ==
    /\ pruneIn = 0 /\ ~pruning
    /\ seen' = [n \in Listed |-> Observe(n)]
    /\ news' = [n \in Peers |-> FALSE]
    /\ ownLive \/ faults < MaxFaults
    /\ faults' = IF ownLive THEN faults ELSE faults + 1
    /\ \/ MayPrune(ownLive) /\ pruning' = TRUE /\ UNCHANGED <<suspects, pruneIn>>
       \/ ~MayPrune(ownLive) /\ suspects' = {} /\ EndPass
    /\ UNCHANGED <<process, leaseVars, settled, ingress, uptime, stops>>

\* The listing fails: the pass is skipped and the suspects stay.
PruneListFails ==
    /\ pruneIn = 0 /\ ~pruning /\ faults < MaxFaults
    /\ faults' = faults + 1 /\ EndPass
    /\ UNCHANGED <<process, leaseVars, settled, ingress, seen, news, uptime, suspects, stops>>

\* is_live_ip, for every address listed
Unmatched == {n \in ingress : ~(IsLive(n) /\ seen[n].full)}

\* Faulty: one pass is enough.
AnyUnmatched == Unmatched

\* confirmed_pruned_ingress
Confirmed == Unmatched \cap suspects

\* update_ingress with confirmed_pruned_ingress, then end_pass: the PATCH may
\* fail after the addresses were noted, the GET before.
Prune ==
    /\ pruning
    /\ \/ ingress' = ingress \ Confirmed /\ suspects' = Unmatched /\ UNCHANGED faults
       \/ /\ faults < MaxFaults /\ faults' = faults + 1
          /\ suspects' \in {Unmatched, {}} /\ UNCHANGED ingress
    /\ EndPass
    /\ UNCHANGED <<process, leaseVars, settled, seen, news, uptime, stops>>

-----------------------------------------------------------------------------
(* Time.                                                                   *)

\* Requests are short: nothing that could happen now is put off.
Urgent ==
    \/ \E n \in Peers : \/ process[n] = "up" /\ renewIn[n] = 0
                        \/ process[n] = "stopping" \/ sending[n] # Quiet
    \/ pruning \/ pruneIn = 0

\* The time a listed peer is overdue: from its last write or the pruner's
\* start, and one that left from its withdrawal or the end of the warm-up.
Overdue(n) ==
    IF n \notin ingress \/ (process[n] = "left" /\ uptime < LeaseDuration) THEN 0
    ELSE Older(since[n], Latest)

Tick ==
    /\ ~Urgent
    /\ renewIn' = [n \in Peers |-> IF Gone(n) THEN 0 ELSE renewIn[n] - 1]
    /\ since' = [n \in Peers |-> Overdue(n)]
    /\ settled' = [n \in Peers |-> process[n] = "up" /\ (settled[n] \/ missed[n] = 0)]
    /\ seen' = [n \in DOMAIN seen |-> IF IsLive(n) THEN [seen[n] EXCEPT !.age = @ + 1]
                                      ELSE seen[n]]
    /\ uptime' = Older(uptime, LeaseDuration - 1) /\ pruneIn' = pruneIn - 1
    /\ UNCHANGED <<process, lease, sending, missed, ingress, news, suspects, pruning, stops, faults>>

Next ==
    \/ \E n \in Peers :
         \/ RenewGet(n) \/ WithdrawGet(n) \/ Stop(n) \/ Crash(n) \/ Start(n) \/ Publish(n)
         \/ \E kind \in {"renew", "withdraw"} : PutLands(n, kind) \/ PutFails(n, kind)
    \/ \E ownLive \in BOOLEAN : PruneList(ownLive)
    \/ PruneListFails \/ Prune \/ PrunerRestart \/ Tick

Spec == Init /\ [][Next]_vars

\* The clock and the runtime of a process go on, and a request is answered in
\* the end; nothing obliges the cluster to start a node again.
FairSpec ==
    /\ Spec /\ WF_vars(Tick) /\ WF_vars(PruneList(TRUE)) /\ WF_vars(Prune)
    /\ \A n \in Peers :
         /\ WF_vars(RenewGet(n)) /\ WF_vars(WithdrawGet(n)) /\ WF_vars(Publish(n))
         /\ \A kind \in {"renew", "withdraw"} :
              WF_vars(PutLands(n, kind) \/ PutFails(n, kind))

-----------------------------------------------------------------------------
TypeOK ==
    /\ process \in [Peers -> {"up", "stopping", "left", "down"}]
    /\ lease \in [Peers -> {"absent", "full", "empty"}]
    /\ sending \in [Peers -> [{"renew", "withdraw"} -> {"none", "fresh", "stale"}]]
    /\ renewIn \in [Peers -> 0 .. LeaseRenew]
    /\ missed \in [Peers -> 0 .. MaxMissed]
    /\ since \in [Peers -> 0 .. Latest + 1]
    /\ settled \in [Peers -> BOOLEAN]
    /\ ingress \subseteq Peers
    /\ DOMAIN seen \subseteq Peers
    /\ \A n \in DOMAIN seen : seen[n] \in [full : BOOLEAN, age : 0 .. LeaseDuration]
    /\ news \in [Peers -> BOOLEAN]
    /\ uptime \in 0 .. LeaseDuration /\ suspects \subseteq Peers
    /\ pruneIn \in 0 .. PruneIntervalMax /\ pruning \in BOOLEAN
    /\ stops \in 0 .. MaxStops /\ faults \in 0 .. MaxFaults

\* max_prune_latency and its comment (lease.rs): while the pruner's requests
\* succeed, the address of a node that is gone leaves the list within the
\* non-graceful bound of the node's last write, to its Lease or to the list
\* itself, or of the pruner's start if that is later; and that of one that
\* withdrew it within the graceful bound of the withdrawal, or of the end of
\* the pruner's warm-up.
GoneInTime ==
    \A n \in Peers : Gone(n) /\ n \in ingress /\ faults = 0
                     => since[n] <= MaxPruneLatency(process[n] = "left")

\* "A healthy node is [never] dropped": a running node that has published
\* its Lease, and that missed no more than MaxMissed renewals in a row, is not
\* pruned, whatever the pruner itself went through.  The duration allows for
\* three, not for the four that lease.rs names.
HealthyKept == [][\A n \in Peers : settled[n] /\ process[n] = "up" /\ n \in ingress => n \in ingress']_vars

\* After the withdrawal a late renewal of the same process must not bring the
\* address back: the Lease stays empty until the node is started again.
WithdrawFinal ==
    [][\A n \in Peers : process[n] = "left" /\ process'[n] = "left" => lease'[n] = "empty"]_vars

\* In the end the list shows which nodes run: one that stays up stays listed,
\* and one that stays down is gone for good.
Tracks ==
    \A n \in Peers :
      /\ <>[](process[n] = "up") => <>[](n \in ingress)
      /\ <>[]Gone(n) => <>[](n \notin ingress)

=============================================================================
