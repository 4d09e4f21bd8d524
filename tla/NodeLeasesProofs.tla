-------------------------- MODULE NodeLeasesProofs --------------------------
(***************************************************************************)
(* Proofs about NodeLeases, for any nodes, any durations, any number of    *)
(* stops, restarts and failing requests: a withdrawal is final, a healthy  *)
(* node stays listed, and a node that is gone is off the list in time.     *)
(***************************************************************************)
EXTENDS NodeLeases, TLAPS

\* A peer's process and its requests: only a stopping one withdraws, only a
\* running one is settled, and of one that withdrew nothing is left to land.
Withdrawn(n) ==
    /\ process[n] = "up" => sending[n]["withdraw"] = "none"
    /\ process[n] # "up" => ~settled[n]
    /\ process[n] = "left" =>
         lease[n] = "empty" /\ \A kind \in {"renew", "withdraw"} : sending[n][kind] # "fresh"

WInv == TypeOK /\ \A n \in Peers : Withdrawn(n)

-----------------------------------------------------------------------------
(* Why a healthy node is kept.                                             *)

\* The running process of a peer has written its Lease.
Wrote(n) == process[n] = "up" /\ (settled[n] \/ (missed[n] = 0 /\ renewIn[n] > 0))

\* Its last write is at most this old.
Waited(n) == (missed[n] + 1) * LeaseRenew - renewIn[n]

\* Out of renewals to miss and due now: it writes before the next tick.
LastChance(n) == missed[n] = MaxMissed /\ renewIn[n] = 0

(***************************************************************************)
(* The pruner takes the Lease of such a process for no older than it is.   *)
(* It is suspected only if it was due for its last chance at the pass      *)
(* before, and then it has written by the next pass.                       *)
(***************************************************************************)
Healthy(n) ==
    /\ process[n] = "up" /\ sending[n]["renew"] # "none" => renewIn[n] = 0
    /\ Wrote(n) =>
         /\ lease[n] = "full"
         /\ \/ news[n] \/ n \notin DOMAIN seen
            \/ seen[n].full /\ seen[n].age <= Waited(n)
         /\ pruning => news[n] \/ n \in DOMAIN seen
         /\ n \in suspects =>
              \/ news[n] \/ n \notin DOMAIN seen \/ pruning
              \/ LastChance(n) /\ pruneIn > 0
    /\ settled[n] /\ pruning =>
         /\ n \in DOMAIN seen /\ seen[n].full
         /\ seen[n].age < LeaseDuration \/ n \notin suspects

HInv == WInv /\ \A n \in Peers : Healthy(n)

-----------------------------------------------------------------------------
(* Why a node that is gone leaves the list in time.                        *)

\* Passes at most PruneIntervalMax apart: one makes a suspect, the next prunes.
TwoPasses(n, from) ==
    since[n] + pruneIn <= IF n \in suspects THEN from + 2 * PruneIntervalMax
                          ELSE from + PruneIntervalMax

(***************************************************************************)
(* How long a listed peer can be overdue while no request of the pruner    *)
(* fails: until the next listing after its last write, then as long as its *)
(* Lease looks live, then two passes; two passes after the warm-up if it   *)
(* has no Lease, and two after its withdrawal.                             *)
(***************************************************************************)
InTime(n) ==
    /\ uptime < LeaseDuration => since[n] <= uptime
    /\ lease[n] # "absent" /\ (news[n] \/ n \notin DOMAIN seen)
         => since[n] + pruneIn <= PruneIntervalMax
    /\ n \in DOMAIN seen /\ ~news[n] /\ seen[n].age < LeaseDuration
         => since[n] <= seen[n].age + PruneIntervalMax
    /\ n \in DOMAIN seen /\ ~news[n] /\ seen[n].age = LeaseDuration
         => TwoPasses(n, LeaseDuration + PruneIntervalMax)
    /\ pruning /\ lease[n] # "absent" => (n \in DOMAIN seen /\ ~news[n]) \/ since[n] = 0
    /\ lease[n] = "absent" /\ uptime = LeaseDuration => TwoPasses(n, LeaseDuration)
    /\ process[n] = "left" =>
         /\ uptime < LeaseDuration => since[n] = 0
         /\ TwoPasses(n, 0)
         /\ pruning => since[n] = 0 \/ ~seen[n].full

\* What the pruner saw is no older than the pruner.
Observed ==
    /\ pruning => pruneIn = 0 /\ uptime = LeaseDuration
    /\ \A n \in DOMAIN seen : lease[n] # "absent" /\ seen[n].age <= uptime

TInv == WInv /\ Observed /\ (faults = 0 => \A n \in ingress : InTime(n))

-----------------------------------------------------------------------------
(* Types.                                                                  *)

\* The durations, the sleeps of the prune loop and max_prune_latency.
LEMMA Durations ==
  /\ LeaseRenew \in Nat /\ LeaseRenew > 0
  /\ LeaseDuration \in Nat /\ LeaseDuration > LeaseRenew
  /\ PruneIntervalMax \in Nat /\ PruneIntervalMax >= LeaseRenew
  /\ \A i \in PruneInterval : i \in Nat /\ i > 0 /\ i <= PruneIntervalMax
  /\ Latest \in Nat /\ Latest = LeaseDuration + 3 * PruneIntervalMax
  /\ MaxMissed \in Nat /\ MaxStops \in Nat /\ MaxFaults \in Nat
<1>1. /\ LeaseRenew \in Nat /\ LeaseRenew > 0 /\ PruneJitter \in Nat
      /\ LeaseDuration \in Nat /\ LeaseDuration > LeaseRenew
      /\ MaxMissed \in Nat /\ MaxStops \in Nat /\ MaxFaults \in Nat
  BY LeaseAssumption DEF LeaseAssumption
<1>2. PruneIntervalMax \in Nat /\ PruneIntervalMax >= LeaseRenew
  BY <1>1 DEF PruneIntervalMax
<1>3. \A i \in PruneInterval : i \in Nat /\ i > 0 /\ i <= PruneIntervalMax
  BY <1>1 DEF PruneInterval, PruneIntervalMax
<1>4. Latest \in Nat /\ Latest = LeaseDuration + 3 * PruneIntervalMax
  BY <1>1, <1>2 DEF Latest, MaxPruneLatency
<1> QED BY <1>1, <1>2, <1>3, <1>4

\* The initial states are typed.
LEMMA TypeInit == Init => TypeOK
<1> SUFFICES ASSUME Init PROVE TypeOK
  OBVIOUS
<1>1. DOMAIN seen = {}
  BY DEF Init
<1>2. sending \in [Peers -> [{"renew", "withdraw"} -> {"none", "fresh", "stale"}]]
  BY DEF Init, Quiet
<1>3. lease \in [Peers -> {"absent", "full", "empty"}]
  BY DEF Init
<1>4. 0 \in 0 .. LeaseRenew /\ 0 \in 0 .. MaxMissed /\ 0 \in 0 .. Latest + 1
        /\ 0 \in 0 .. LeaseDuration /\ 0 \in 0 .. MaxStops /\ 0 \in 0 .. MaxFaults
  BY Durations
<1>5. pruneIn \in 0 .. PruneIntervalMax
  BY Durations DEF Init
<1> QED BY <1>1, <1>2, <1>3, <1>4, <1>5 DEF Init, TypeOK

\* What a PUT leaves in flight: at most what was, and no longer fresh.
LEMMA LandedType ==
  ASSUME TypeOK, NEW n \in Peers, NEW kind \in {"renew", "withdraw"}, PutLands(n, kind)
  PROVE  /\ sending' \in [Peers -> [{"renew", "withdraw"} -> {"none", "fresh", "stale"}]]
         /\ \A k \in {"renew", "withdraw"} :
              sending'[n][k] = IF k = kind \/ sending[n][k] = "none" THEN "none" ELSE "stale"
         /\ \A m \in Peers \ {n} : sending'[m] = sending[m]
<1>1. sending[n] \in [{"renew", "withdraw"} -> {"none", "fresh", "stale"}]
  BY DEF TypeOK
<1> DEFINE s == [k \in {"renew", "withdraw"} |->
                  IF k = kind \/ sending[n][k] = "none" THEN "none" ELSE "stale"]
<1>2. sending' = [sending EXCEPT ![n] = s]
  BY <1>1 DEF PutLands
<1>3. s \in [{"renew", "withdraw"} -> {"none", "fresh", "stale"}]
  OBVIOUS
<1>4. sending'[n] = s /\ \A m \in Peers \ {n} : sending'[m] = sending[m]
  BY <1>2 DEF TypeOK
<1> QED BY <1>2, <1>3, <1>4 DEF TypeOK

\* A PUT concerns one peer.
LEMMA LandedElsewhere ==
  ASSUME TypeOK, NEW n \in Peers, NEW kind \in {"renew", "withdraw"}, PutLands(n, kind),
         NEW m \in Peers, m # n
  PROVE  /\ UNCHANGED <<process[m], lease[m], renewIn[m], missed[m], since[m]>>
         /\ UNCHANGED <<settled[m], news[m]>>
<1>1. UNCHANGED <<process[m], settled[m]>>
  BY DEF PutLands, TypeOK
<1>2. UNCHANGED <<renewIn[m], missed[m]>>
  BY DEF PutLands, TypeOK
<1>3. UNCHANGED <<lease[m], since[m], news[m]>>
  BY DEF PutLands, TypeOK
<1> QED BY <1>1, <1>2, <1>3

\* What a pruning pass sees is typed.
LEMMA SeenType ==
  ASSUME TypeOK, seen' = [n \in Listed |-> Observe(n)]
  PROVE  /\ DOMAIN seen' = Listed /\ Listed \subseteq Peers
         /\ \A n \in Listed : /\ seen'[n] \in [full : BOOLEAN, age : 0 .. LeaseDuration]
                              /\ seen'[n].full <=> lease[n] = "full"
                              /\ seen'[n].age = IF news[n] \/ n \notin DOMAIN seen THEN 0
                                                ELSE seen[n].age
<1>1. DOMAIN seen' = Listed /\ Listed \subseteq Peers
  BY DEF Listed
<1>2. ASSUME NEW n \in Listed
      PROVE  /\ seen'[n] \in [full : BOOLEAN, age : 0 .. LeaseDuration]
             /\ seen'[n].full <=> lease[n] = "full"
             /\ seen'[n].age = IF news[n] \/ n \notin DOMAIN seen THEN 0 ELSE seen[n].age
  <2>1. seen'[n] = Observe(n)
    OBVIOUS
  <2>2. (IF news[n] \/ n \notin DOMAIN seen THEN 0 ELSE seen[n].age) \in 0 .. LeaseDuration
    BY Durations DEF TypeOK
  <2> QED BY <2>1, <2>2 DEF Observe
<1> QED BY <1>1, <1>2

\* Time passes over what a pass saw.
LEMMA AgedType ==
  ASSUME TypeOK,
         seen' = [n \in DOMAIN seen |-> IF IsLive(n) THEN [seen[n] EXCEPT !.age = @ + 1] ELSE seen[n]]
  PROVE  /\ DOMAIN seen' = DOMAIN seen
         /\ \A n \in DOMAIN seen :
              /\ seen'[n] \in [full : BOOLEAN, age : 0 .. LeaseDuration]
              /\ seen'[n].full = seen[n].full
              /\ seen'[n].age = IF seen[n].age < LeaseDuration THEN seen[n].age + 1
                                ELSE LeaseDuration
<1>1. DOMAIN seen' = DOMAIN seen
  OBVIOUS
<1>2. ASSUME NEW n \in DOMAIN seen
      PROVE  /\ seen'[n] \in [full : BOOLEAN, age : 0 .. LeaseDuration]
             /\ seen'[n].full = seen[n].full
             /\ seen'[n].age = IF seen[n].age < LeaseDuration THEN seen[n].age + 1
                               ELSE LeaseDuration
  <2>1. seen[n] \in [full : BOOLEAN, age : 0 .. LeaseDuration] /\ LeaseDuration \in Nat
    BY Durations DEF TypeOK
  <2>2. seen'[n] = IF seen[n].age < LeaseDuration THEN [seen[n] EXCEPT !.age = @ + 1] ELSE seen[n]
    BY DEF IsLive
  <2>3. CASE seen[n].age < LeaseDuration
    <3>1. seen'[n] = [seen[n] EXCEPT !.age = seen[n].age + 1]
      BY <2>2, <2>3
    <3>2. seen[n].age + 1 \in 0 .. LeaseDuration
      BY <2>1, <2>3
    <3> QED BY <2>1, <2>3, <3>1, <3>2
  <2>4. CASE ~(seen[n].age < LeaseDuration)
    BY <2>1, <2>2, <2>4
  <2> QED BY <2>3, <2>4
<1> QED BY <1>1, <1>2

\* TypeOK in two parts, the peers' and the pruner's.
PeerTypes ==
    /\ process \in [Peers -> {"up", "stopping", "left", "down"}]
    /\ lease \in [Peers -> {"absent", "full", "empty"}]
    /\ sending \in [Peers -> [{"renew", "withdraw"} -> {"none", "fresh", "stale"}]]
    /\ renewIn \in [Peers -> 0 .. LeaseRenew]
    /\ missed \in [Peers -> 0 .. MaxMissed]
    /\ since \in [Peers -> 0 .. Latest + 1]
    /\ ingress \subseteq Peers

PrunerTypes ==
    /\ DOMAIN seen \subseteq Peers
    /\ \A n \in DOMAIN seen : seen[n] \in [full : BOOLEAN, age : 0 .. LeaseDuration]
    /\ uptime \in 0 .. LeaseDuration /\ suspects \subseteq Peers
    /\ pruneIn \in 0 .. PruneIntervalMax

FlagTypes ==
    settled \in [Peers -> BOOLEAN] /\ news \in [Peers -> BOOLEAN] /\ pruning \in BOOLEAN

CountTypes == stops \in 0 .. MaxStops /\ faults \in 0 .. MaxFaults

LEMMA TypeParts == TypeOK <=> PeerTypes /\ PrunerTypes /\ FlagTypes /\ CountTypes
BY DEF TypeOK, PeerTypes, PrunerTypes, FlagTypes, CountTypes

\* Every step keeps the types.
LEMMA TypeStep == TypeOK /\ [Next]_vars => TypeOK'
<1> SUFFICES ASSUME PeerTypes, PrunerTypes, FlagTypes, CountTypes, [Next]_vars
             PROVE  PeerTypes' /\ PrunerTypes' /\ FlagTypes' /\ CountTypes'
  BY DEF TypeOK, PeerTypes, PrunerTypes, FlagTypes, CountTypes
<1> USE Durations
<1>0. ASSUME UNCHANGED pruneVars PROVE PrunerTypes' /\ news' = news /\ pruning' = pruning
  BY <1>0 DEF PrunerTypes, pruneVars
<1>1. ASSUME NEW n \in Peers, RenewGet(n) \/ WithdrawGet(n) \/ Start(n) \/ Publish(n)
      PROVE  PeerTypes' /\ PrunerTypes' /\ FlagTypes' /\ CountTypes'
  <2>1. UNCHANGED <<pruneVars, settled, stops, faults>>
    BY <1>1 DEF RenewGet, WithdrawGet, Start, Publish
  <2>2. ASSUME RenewGet(n) PROVE PeerTypes'
    BY <2>2 DEF PeerTypes, RenewGet, Missed
  <2>3. ASSUME WithdrawGet(n) PROVE PeerTypes'
    BY <2>3 DEF PeerTypes, WithdrawGet
  <2>4. ASSUME Start(n) PROVE PeerTypes'
    BY <2>4 DEF PeerTypes, Start
  <2>5. ASSUME Publish(n) PROVE PeerTypes'
    BY <2>5 DEF PeerTypes, Publish
  <2> QED BY <1>0, <1>1, <2>1, <2>2, <2>3, <2>4, <2>5 DEF FlagTypes, CountTypes
<1>2. ASSUME NEW n \in Peers, Stop(n) \/ Crash(n)
      PROVE  PeerTypes' /\ PrunerTypes' /\ FlagTypes' /\ CountTypes'
  <2>1. PeerTypes'
    BY <1>2 DEF PeerTypes, Stop, Crash, leaseVars
  <2>2. settled' \in [Peers -> BOOLEAN]
    BY <1>2 DEF FlagTypes, Stop, Crash
  <2>3. CountTypes' /\ UNCHANGED pruneVars
    BY <1>2 DEF CountTypes, Stop, Crash
  <2> QED BY <1>0, <2>1, <2>2, <2>3 DEF FlagTypes
<1>3. ASSUME NEW n \in Peers, NEW kind \in {"renew", "withdraw"}, PutLands(n, kind)
      PROVE  PeerTypes' /\ PrunerTypes' /\ FlagTypes' /\ CountTypes'
  <2>1. sending' \in [Peers -> [{"renew", "withdraw"} -> {"none", "fresh", "stale"}]]
    BY <1>3, LandedType, TypeParts
  <2>2. PeerTypes'
    <3>1. process' \in [Peers -> {"up", "stopping", "left", "down"}]
      BY <1>3 DEF PeerTypes, PutLands
    <3>2. lease' \in [Peers -> {"absent", "full", "empty"}]
      BY <1>3 DEF PeerTypes, PutLands
    <3>3. renewIn' \in [Peers -> 0 .. LeaseRenew]
      BY <1>3 DEF PeerTypes, PutLands
    <3>4. missed' \in [Peers -> 0 .. MaxMissed] /\ since' \in [Peers -> 0 .. Latest + 1]
      BY <1>3 DEF PeerTypes, PutLands
    <3>5. ingress' \subseteq Peers
      BY <1>3 DEF PeerTypes, PutLands
    <3> QED BY <2>1, <3>1, <3>2, <3>3, <3>4, <3>5 DEF PeerTypes
  <2>3. PrunerTypes' /\ CountTypes' /\ pruning' = pruning
    BY <1>3 DEF PrunerTypes, CountTypes, PutLands
  <2>4. settled' \in [Peers -> BOOLEAN] /\ news' \in [Peers -> BOOLEAN]
    BY <1>3 DEF FlagTypes, PutLands
  <2> QED BY <2>2, <2>3, <2>4 DEF FlagTypes
<1>4. ASSUME NEW n \in Peers, NEW kind \in {"renew", "withdraw"}, PutFails(n, kind)
      PROVE  PeerTypes' /\ PrunerTypes' /\ FlagTypes' /\ CountTypes'
  <2>1. UNCHANGED <<pruneVars, settled, stops, faults>>
    BY <1>4 DEF PutFails
  <2>2. PeerTypes'
    BY <1>4 DEF PeerTypes, PutFails, Missed
  <2> QED BY <1>0, <2>1, <2>2 DEF FlagTypes, CountTypes
<1>5. ASSUME UNCHANGED <<process, leaseVars, settled, stops>>, ingress' \subseteq Peers
      PROVE  PeerTypes' /\ settled' \in [Peers -> BOOLEAN] /\ stops' \in 0 .. MaxStops
  BY <1>5 DEF PeerTypes, FlagTypes, CountTypes, leaseVars
<1>6. ASSUME NEW ownLive \in BOOLEAN, PruneList(ownLive)
      PROVE  PeerTypes' /\ PrunerTypes' /\ FlagTypes' /\ CountTypes'
  <2>1. DOMAIN seen' \subseteq Peers
          /\ \A n \in DOMAIN seen' : seen'[n] \in [full : BOOLEAN, age : 0 .. LeaseDuration]
    BY <1>6, SeenType, TypeParts DEF PruneList
  <2>2. faults' \in 0 .. MaxFaults
    BY <1>6 DEF PruneList, CountTypes
  <2>3. /\ pruneIn' \in 0 .. PruneIntervalMax /\ suspects' \subseteq Peers
        /\ uptime' \in 0 .. LeaseDuration
    BY <1>6 DEF PruneList, PrunerTypes, EndPass
  <2>4. pruning' \in BOOLEAN /\ news' \in [Peers -> BOOLEAN]
    BY <1>6 DEF PruneList, EndPass
  <2>5. UNCHANGED <<process, leaseVars, settled, stops>> /\ ingress' \subseteq Peers
    BY <1>6 DEF PruneList, PeerTypes
  <2> QED BY <1>5, <2>1, <2>2, <2>3, <2>4, <2>5 DEF PrunerTypes, FlagTypes, CountTypes
<1>7. CASE PruneListFails \/ Prune
  <2>1. UNCHANGED <<process, leaseVars, settled, stops, seen, news, uptime>>
    BY <1>7 DEF PruneListFails, Prune
  <2>2. ingress' \subseteq Peers /\ suspects' \subseteq Peers
    BY <1>7 DEF PruneListFails, Prune, PeerTypes, PrunerTypes, Unmatched
  <2>3. pruning' \in BOOLEAN /\ pruneIn' \in 0 .. PruneIntervalMax
    <3>1. pruning' = FALSE /\ pruneIn' \in PruneInterval
      BY <1>7, Zenon DEF PruneListFails, Prune, EndPass
    <3>2. pruning' \in BOOLEAN
      BY <3>1, Zenon
    <3>3. pruneIn' \in 0 .. PruneIntervalMax
      BY <3>1
    <3> QED BY <3>2, <3>3
  <2>4. faults' \in 0 .. MaxFaults
    BY <1>7 DEF PruneListFails, Prune, CountTypes
  <2> QED BY <1>5, <2>1, <2>2, <2>3, <2>4 DEF PrunerTypes, FlagTypes, CountTypes
<1>8. CASE PrunerRestart
  <2>1. DOMAIN seen' = {} /\ uptime' = 0 /\ suspects' = {} /\ pruneIn' \in PruneInterval
    BY <1>8 DEF PrunerRestart
  <2>2. PrunerTypes'
    BY <2>1 DEF PrunerTypes
  <2>3. PeerTypes' /\ CountTypes'
    BY <1>8 DEF PrunerRestart, PeerTypes, CountTypes
  <2>4. FlagTypes'
    BY <1>8 DEF PrunerRestart, FlagTypes
  <2> QED BY <2>2, <2>3, <2>4
<1>9. CASE Tick
  <2>1. DOMAIN seen' \subseteq Peers
          /\ \A n \in DOMAIN seen' : seen'[n] \in [full : BOOLEAN, age : 0 .. LeaseDuration]
    BY <1>9, AgedType, TypeParts DEF Tick, PrunerTypes
  <2>2. ASSUME NEW n \in Peers
        PROVE  /\ (IF Gone(n) THEN 0 ELSE renewIn[n] - 1) \in 0 .. LeaseRenew
               /\ Overdue(n) \in 0 .. Latest + 1
    <3>1. renewIn[n] \in 0 .. LeaseRenew /\ since[n] \in 0 .. Latest + 1
      BY DEF PeerTypes
    <3>2. process[n] = "up" => renewIn[n] # 0
      BY <1>9 DEF Tick, Urgent
    <3>3. Gone(n) \/ process[n] = "up"
      BY <1>9 DEF Tick, Urgent, Gone, PeerTypes
    <3> QED BY <3>1, <3>2, <3>3 DEF Overdue, Older
  <2>3. renewIn' \in [Peers -> 0 .. LeaseRenew] /\ since' \in [Peers -> 0 .. Latest + 1]
    BY <1>9, <2>2 DEF Tick
  <2>4. PeerTypes'
    BY <1>9, <2>3 DEF Tick, PeerTypes
  <2>5. pruneIn' \in 0 .. PruneIntervalMax
    <3>1. pruneIn' = pruneIn - 1 /\ pruneIn # 0
      BY <1>9 DEF Tick, Urgent
    <3> QED BY <3>1 DEF PrunerTypes
  <2>6. uptime' \in 0 .. LeaseDuration
    <3>1. uptime' = Older(uptime, LeaseDuration - 1)
      BY <1>9 DEF Tick
    <3> QED BY <3>1 DEF PrunerTypes, Older
  <2>7. FlagTypes' /\ CountTypes'
    BY <1>9 DEF Tick, FlagTypes, CountTypes
  <2> QED BY <1>9, <2>1, <2>4, <2>5, <2>6, <2>7 DEF Tick, PrunerTypes
<1>10. CASE UNCHANGED vars
  BY <1>0, <1>5, <1>10 DEF vars, FlagTypes, CountTypes, PeerTypes
<1> QED BY <1>1, <1>2, <1>3, <1>4, <1>6, <1>7, <1>8, <1>9, <1>10 DEF Next

(***************************************************************************)
(* Types: the clocks of the loops stay within their periods, and no Lease  *)
(* is taken for older than LEASE_DURATION by more than it is.              *)
(***************************************************************************)
THEOREM TypeCorrect == Spec => []TypeOK
BY TypeInit, TypeStep, PTL DEF Spec

-----------------------------------------------------------------------------
(* The withdrawal.                                                         *)

\* What a step of the peers, of the pruner and of time does to Withdrawn.
LEMMA WithdrawnStep ==
  ASSUME WInv, [Next]_vars, NEW n \in Peers
  PROVE  Withdrawn(n)'
<1> USE DEF WInv
<1>0. Withdrawn(n) /\ TypeOK
  OBVIOUS
<1>1. ASSUME UNCHANGED <<process[n], sending[n], lease[n], settled[n]>> PROVE Withdrawn(n)'
  BY <1>0, <1>1 DEF Withdrawn
<1>2. ASSUME NEW m \in Peers, RenewGet(m) PROVE Withdrawn(n)'
  <2>1. UNCHANGED <<process, lease, settled>> /\ process[m] = "up"
    BY <1>2 DEF RenewGet
  <2>2. m # n => sending'[n] = sending[n]
    BY <1>0, <1>2 DEF RenewGet, TypeOK
  <2>3. sending'[n]["withdraw"] = sending[n]["withdraw"]
    BY <1>0, <1>2 DEF RenewGet, TypeOK
  <2> QED BY <1>0, <1>1, <2>1, <2>2, <2>3 DEF Withdrawn
<1>3. ASSUME NEW m \in Peers, WithdrawGet(m) PROVE Withdrawn(n)'
  <2>1. UNCHANGED <<lease, settled>> /\ process[m] = "stopping" /\ process'[m] \in {"stopping", "down"}
    BY <1>0, <1>3 DEF WithdrawGet, TypeOK
  <2>2. m # n => sending'[n] = sending[n] /\ process'[n] = process[n]
    BY <1>0, <1>3 DEF WithdrawGet, TypeOK
  <2> QED BY <1>0, <1>1, <2>1, <2>2 DEF Withdrawn
<1>4. ASSUME NEW m \in Peers, Stop(m) \/ Crash(m) PROVE Withdrawn(n)'
  <2>1. /\ UNCHANGED <<lease, sending>> /\ process'[m] \in {"stopping", "down"}
        /\ ~settled'[m]
    BY <1>0, <1>4 DEF Stop, Crash, TypeOK, leaseVars
  <2>2. m # n => settled'[n] = settled[n] /\ process'[n] = process[n]
    BY <1>0, <1>4 DEF Stop, Crash, TypeOK
  <2> QED BY <1>0, <1>1, <2>1, <2>2 DEF Withdrawn
<1>5. ASSUME NEW m \in Peers, Start(m) PROVE Withdrawn(n)'
  <2>1. /\ UNCHANGED <<lease, sending, settled>> /\ process'[m] = "up"
        /\ sending[m]["withdraw"] = "none"
    BY <1>0, <1>5 DEF Start, TypeOK, Quiet
  <2>2. m # n => process'[n] = process[n]
    BY <1>0, <1>5 DEF Start, TypeOK
  <2> QED BY <1>0, <1>1, <2>1, <2>2 DEF Withdrawn
<1>6. ASSUME NEW m \in Peers, Publish(m) PROVE Withdrawn(n)'
  BY <1>1, <1>6 DEF Publish
<1>7. ASSUME NEW m \in Peers, NEW kind \in {"renew", "withdraw"}, PutLands(m, kind)
      PROVE  Withdrawn(n)'
  <2>1. m # n => UNCHANGED <<process[n], sending[n], lease[n], settled[n]>>
    BY <1>0, <1>7, LandedType, LandedElsewhere
  <2> SUFFICES ASSUME m = n PROVE Withdrawn(n)'
    BY <1>1, <2>1
  <2>2. \A k \in {"renew", "withdraw"} :
           sending'[n][k] = IF k = kind \/ sending[n][k] = "none" THEN "none" ELSE "stale"
    BY <1>0, <1>7, LandedType
  <2>3. CASE kind = "renew"
    <3>1. UNCHANGED <<process, settled>> /\ process[n] # "left"
      BY <1>0, <1>7, <2>3 DEF PutLands, Withdrawn, LiveVersion
    <3> QED BY <1>0, <2>2, <3>1 DEF Withdrawn
  <2>4. CASE kind = "withdraw"
    <3>1. process'[n] = "left" /\ ~settled'[n] /\ lease'[n] = "empty"
      BY <1>0, <1>7, <2>4 DEF PutLands, TypeOK
    <3> QED BY <2>2, <3>1 DEF Withdrawn
  <2> QED BY <2>3, <2>4
<1>8. ASSUME NEW m \in Peers, NEW kind \in {"renew", "withdraw"}, PutFails(m, kind)
      PROVE  Withdrawn(n)'
  <2>1. UNCHANGED <<lease, settled>>
    BY <1>8 DEF PutFails
  <2>2. m # n => UNCHANGED <<process[n], sending[n]>>
    BY <1>0, <1>8 DEF PutFails, TypeOK
  <2>3. /\ sending'[m][kind] = "none"
        /\ \A k \in {"renew", "withdraw"} \ {kind} : sending'[m][k] = sending[m][k]
    BY <1>0, <1>8 DEF PutFails, TypeOK
  <2>4. kind = "renew" => process' = process
    BY <1>8 DEF PutFails
  <2>5. kind = "withdraw" => process'[m] = "down" /\ process[m] # "up"
    BY <1>0, <1>8 DEF PutFails, TypeOK, Withdrawn
  <2> QED BY <1>0, <1>1, <2>1, <2>2, <2>3, <2>4, <2>5 DEF Withdrawn
<1>9. CASE (\E ownLive \in BOOLEAN : PruneList(ownLive)) \/ PruneListFails \/ Prune
             \/ PrunerRestart \/ UNCHANGED vars
  <2>1. UNCHANGED <<process, sending, lease, settled>>
    BY <1>9 DEF PruneList, PruneListFails, Prune, PrunerRestart, leaseVars, vars
  <2> QED BY <1>1, <2>1
<1>10. CASE Tick
  <2>1. /\ UNCHANGED <<process, sending, lease>>
        /\ settled'[n] => process[n] = "up"
    BY <1>10 DEF Tick
  <2> QED BY <1>0, <2>1 DEF Withdrawn
<1> QED BY <1>2, <1>3, <1>4, <1>5, <1>6, <1>7, <1>8, <1>9, <1>10 DEF Next

LEMMA WInvInit == Init => WInv
<1> SUFFICES ASSUME Init PROVE WInv
  OBVIOUS
<1>1. ASSUME NEW n \in Peers PROVE Withdrawn(n)
  BY DEF Init, Withdrawn, Quiet
<1> QED BY <1>1, TypeInit DEF WInv

LEMMA WInvStep == WInv /\ [Next]_vars => WInv'
BY TypeStep, WithdrawnStep DEF WInv

(***************************************************************************)
(* A withdrawal is final: whatever PUT of the dropped Lease loop is still  *)
(* in flight, it does not bring the address back.                          *)
(***************************************************************************)
THEOREM WithdrawalFinal == Spec => WithdrawFinal
<1>1. WInv' => \A n \in Peers : process[n] = "left" /\ process'[n] = "left" => lease'[n] = "empty"
  BY DEF WInv, Withdrawn
<1> QED BY <1>1, WInvInit, WInvStep, PTL DEF Spec, WithdrawFinal

-----------------------------------------------------------------------------
(* A healthy node is kept.                                                 *)

\* A process that misses at most MaxMissed renewals writes within LEASE_DURATION,
\* and it takes that long only up to its last chance.
LEMMA WaitedBound ==
  ASSUME TypeOK, (MaxMissed + 1) * LeaseRenew <= LeaseDuration, NEW n \in Peers
  PROVE  /\ Waited(n) \in Nat
         /\ ~LastChance(n) => Waited(n) < LeaseDuration
<1>1. /\ missed[n] \in Nat /\ missed[n] <= MaxMissed /\ MaxMissed \in Nat
      /\ renewIn[n] \in Nat /\ renewIn[n] <= LeaseRenew /\ LeaseRenew \in Nat /\ LeaseRenew > 0
      /\ LeaseDuration \in Nat
  BY Durations DEF TypeOK
<1>2. missed[n] * LeaseRenew \in Nat /\ MaxMissed * LeaseRenew \in Nat
  BY <1>1
<1>3. Waited(n) = (missed[n] * LeaseRenew + LeaseRenew) - renewIn[n]
  BY <1>1 DEF Waited
<1>4. (MaxMissed + 1) * LeaseRenew = MaxMissed * LeaseRenew + LeaseRenew
  BY <1>1
<1>5. missed[n] < MaxMissed => missed[n] * LeaseRenew + LeaseRenew <= MaxMissed * LeaseRenew
  <2> SUFFICES ASSUME missed[n] < MaxMissed
               PROVE  missed[n] * LeaseRenew + LeaseRenew <= MaxMissed * LeaseRenew
    OBVIOUS
  <2>1. PICK d \in Nat : MaxMissed = (missed[n] + 1) + d
    <3>1. MaxMissed - (missed[n] + 1) \in Nat
      BY <1>1
    <3> QED BY <1>1, <3>1
  <2>2. MaxMissed * LeaseRenew = (missed[n] * LeaseRenew + LeaseRenew) + d * LeaseRenew
    BY <1>1, <2>1
  <2>3. d * LeaseRenew \in Nat
    BY <1>1, <2>1
  <2> QED BY <1>2, <1>1, <2>2, <2>3
<1> QED BY <1>1, <1>2, <1>3, <1>4, <1>5 DEF LastChance

\* A missed renewal is as long ago as before.
LEMMA WaitedMissed ==
  ASSUME TypeOK, NEW n \in Peers, Missed(n), renewIn[n] = 0
  PROVE  /\ Waited(n)' = Waited(n) /\ ~LastChance(n) /\ missed'[n] > 0
         /\ \A m \in Peers \ {n} : UNCHANGED <<missed[m], renewIn[m]>>
<1>1. /\ missed'[n] = missed[n] + 1 /\ renewIn'[n] = LeaseRenew /\ missed[n] < MaxMissed
      /\ \A m \in Peers \ {n} : UNCHANGED <<missed[m], renewIn[m]>>
  BY DEF Missed, TypeOK
<1>2. missed[n] \in Nat /\ LeaseRenew \in Nat /\ MaxMissed \in Nat
  BY Durations DEF TypeOK
<1>3. (missed[n] + 2) * LeaseRenew - LeaseRenew = (missed[n] + 1) * LeaseRenew
  BY <1>2
<1>4. Waited(n)' = (missed[n] + 2) * LeaseRenew - LeaseRenew
  BY <1>1, <1>2 DEF Waited
<1>5. Waited(n) = (missed[n] + 1) * LeaseRenew - 0
  BY DEF Waited
<1>6. (missed[n] + 1) * LeaseRenew \in Nat
  BY <1>2
<1> QED BY <1>1, <1>2, <1>3, <1>4, <1>5, <1>6 DEF LastChance

\* The peers' steps.
LEMMA HealthyPeerStep ==
  ASSUME HInv, NEW n \in Peers, NEW m \in Peers,
         \/ RenewGet(m) \/ WithdrawGet(m) \/ Stop(m) \/ Crash(m) \/ Start(m) \/ Publish(m)
         \/ \E kind \in {"renew", "withdraw"} : PutLands(m, kind) \/ PutFails(m, kind)
  PROVE  Healthy(n)'
<1>0. TypeOK /\ Withdrawn(n) /\ Healthy(n)
  BY DEF HInv, WInv
<1>1. UNCHANGED <<seen, suspects, pruneIn, pruning>>
  BY DEF RenewGet, WithdrawGet, Stop, Crash, Start, Publish, PutLands, PutFails, pruneVars
<1>2. ASSUME UNCHANGED <<process[n], sending[n], lease[n], settled[n], missed[n], renewIn[n],
                         news[n]>>
      PROVE  Healthy(n)'
  BY <1>0, <1>1, <1>2 DEF Healthy, Wrote, Waited, LastChance
<1>3. ASSUME process'[n] # "up", ~settled'[n] PROVE Healthy(n)'
  BY <1>3 DEF Healthy, Wrote
<1>4. CASE m # n
  <2>1. UNCHANGED <<process[n], lease[n], settled[n], news[n]>>
    <3>1. CASE \E kind \in {"renew", "withdraw"} : PutLands(m, kind)
      BY <1>0, <1>4, <3>1, LandedElsewhere
    <3>2. CASE ~\E kind \in {"renew", "withdraw"} : PutLands(m, kind)
      <4>1. UNCHANGED <<lease, news>>
        BY <3>2 DEF RenewGet, WithdrawGet, Stop, Crash, Start, Publish, PutFails, pruneVars, leaseVars
      <4>2. UNCHANGED <<process[n], settled[n]>>
        BY <1>0, <1>4, <3>2
           DEF RenewGet, WithdrawGet, Stop, Crash, Start, Publish, PutFails, TypeOK
      <4> QED BY <4>1, <4>2
    <3> QED BY <3>1, <3>2
  <2>2. UNCHANGED <<sending[n], missed[n], renewIn[n]>>
    <3>1. CASE \E kind \in {"renew", "withdraw"} : PutLands(m, kind)
      BY <1>0, <1>4, <3>1, LandedElsewhere, LandedType
    <3>2. CASE ~\E kind \in {"renew", "withdraw"} : PutLands(m, kind)
      BY <1>0, <1>4, <3>2
         DEF RenewGet, WithdrawGet, Stop, Crash, Start, Publish, PutFails, Missed, TypeOK, leaseVars
    <3> QED BY <3>1, <3>2
  <2> QED BY <1>2, <2>1, <2>2
<1> SUFFICES ASSUME m = n PROVE Healthy(n)'
  BY <1>4
<1>5. CASE RenewGet(n)
  <2>1. UNCHANGED <<process, lease, settled, news>> /\ renewIn[n] = 0
    BY <1>5 DEF RenewGet, pruneVars
  <2>2. CASE UNCHANGED <<renewIn, missed>>
    BY <1>0, <1>1, <2>1, <2>2 DEF Healthy, Wrote, Waited, LastChance
  <2>3. CASE Missed(n) /\ UNCHANGED sending
    <3>1. Waited(n)' = Waited(n) /\ ~LastChance(n) /\ missed'[n] > 0
      BY <1>0, <2>1, <2>3, WaitedMissed
    <3>2. Wrote(n)' => Wrote(n)
      BY <2>1, <3>1 DEF Wrote
    <3>3. sending[n]["renew"] = "none"
      BY <1>5 DEF RenewGet
    <3> QED BY <1>0, <1>1, <2>1, <2>3, <3>1, <3>2, <3>3 DEF Healthy
  <2> QED BY <1>5, <2>2, <2>3 DEF RenewGet
<1>6. CASE WithdrawGet(n)
  <2>1. process'[n] # "up" /\ settled' = settled /\ process[n] # "up"
    BY <1>0, <1>6 DEF WithdrawGet, TypeOK
  <2> QED BY <1>0, <1>3, <2>1 DEF Withdrawn
<1>7. CASE Stop(n) \/ Crash(n)
  <2>1. process'[n] # "up" /\ ~settled'[n]
    BY <1>0, <1>7 DEF Stop, Crash, TypeOK
  <2> QED BY <1>3, <2>1
<1>8. CASE Start(n)
  <2>1. /\ process[n] # "up" /\ settled'[n] = settled[n] /\ renewIn'[n] = 0
        /\ sending[n]["renew"] = "none" /\ sending' = sending
    BY <1>0, <1>8 DEF Start, Gone, TypeOK, Quiet
  <2>2. ~settled'[n]
    BY <1>0, <2>1 DEF Withdrawn
  <2> QED BY <2>1, <2>2 DEF Healthy, Wrote
<1>9. CASE Publish(n)
  BY <1>2, <1>9 DEF Publish, pruneVars
<1>10. ASSUME NEW kind \in {"renew", "withdraw"}, PutLands(n, kind) PROVE Healthy(n)'
  <2>1. CASE kind = "withdraw"
    <3>1. process'[n] # "up" /\ ~settled'[n]
      BY <1>0, <1>10, <2>1 DEF PutLands, TypeOK
    <3> QED BY <1>3, <3>1
  <2>2. CASE kind = "renew"
    <3>1. lease'[n] = "full" /\ news'[n] /\ UNCHANGED <<process, settled>>
      BY <1>0, <1>10, <2>2 DEF PutLands, TypeOK
    <3>2. sending'[n]["renew"] = "none"
      BY <1>0, <1>10, <2>2, LandedType
    <3>3. settled'[n] /\ pruning' =>
            /\ n \in DOMAIN seen' /\ seen'[n].full
            /\ seen'[n].age < LeaseDuration \/ n \notin suspects'
      BY <1>0, <1>1, <3>1 DEF Healthy
    <3> QED BY <3>1, <3>2, <3>3 DEF Healthy
  <2> QED BY <2>1, <2>2
<1>11. ASSUME NEW kind \in {"renew", "withdraw"}, PutFails(n, kind) PROVE Healthy(n)'
  <2>1. /\ UNCHANGED <<lease, settled, news>> /\ sending[n][kind] # "none"
        /\ sending'[n][kind] = "none"
        /\ \A k \in {"renew", "withdraw"} \ {kind} : sending'[n][k] = sending[n][k]
    BY <1>0, <1>11 DEF PutFails, TypeOK, pruneVars
  <2>2. CASE kind = "withdraw"
    <3>1. process'[n] # "up" /\ process[n] # "up"
      BY <1>0, <1>11, <2>1, <2>2 DEF PutFails, TypeOK, Withdrawn
    <3> QED BY <1>0, <1>3, <2>1, <3>1 DEF Withdrawn
  <2>3. CASE kind = "renew" /\ process[n] # "up"
    <3>1. process' = process
      BY <1>11, <2>3 DEF PutFails
    <3> QED BY <1>0, <1>3, <2>1, <2>3, <3>1 DEF Withdrawn
  <2>4. CASE kind = "renew" /\ process[n] = "up"
    <3>1. renewIn[n] = 0 /\ Missed(n) /\ process' = process
      BY <1>0, <1>11, <2>1, <2>4 DEF PutFails, Healthy
    <3>2. Waited(n)' = Waited(n) /\ ~LastChance(n) /\ missed'[n] > 0
      BY <1>0, <3>1, WaitedMissed
    <3>3. Wrote(n)' => Wrote(n)
      BY <2>1, <3>1, <3>2 DEF Wrote
    <3> QED BY <1>0, <1>1, <2>1, <2>4, <3>1, <3>2, <3>3 DEF Healthy
  <2> QED BY <2>2, <2>3, <2>4
<1> QED BY <1>5, <1>6, <1>7, <1>8, <1>9, <1>10, <1>11

\* The pruner's steps, and time.
LEMMA HealthyPrunerStep ==
  ASSUME (MaxMissed + 1) * LeaseRenew <= LeaseDuration, HInv, NEW n \in Peers,
         \/ \E ownLive \in BOOLEAN : PruneList(ownLive)
         \/ PruneListFails \/ Prune \/ PrunerRestart \/ Tick
  PROVE  Healthy(n)'
<1>0. TypeOK /\ Withdrawn(n) /\ Healthy(n)
  BY DEF HInv, WInv
<1>1. ASSUME NEW ownLive \in BOOLEAN, PruneList(ownLive) PROVE Healthy(n)'
  <2>1. /\ UNCHANGED <<process, sending, lease, settled, missed, renewIn>>
        /\ ~pruning /\ pruneIn = 0 /\ seen' = [k \in Listed |-> Observe(k)]
        /\ (pruning' /\ suspects' = suspects) \/ (~pruning' /\ suspects' = {})
    BY <1>1 DEF PruneList, leaseVars, EndPass
  <2> SUFFICES ASSUME Wrote(n) PROVE Healthy(n)'
    <3>1. Wrote(n)' => Wrote(n)
      BY <2>1 DEF Wrote
    <3>2. settled[n] => Wrote(n)
      BY <1>0 DEF Wrote, Withdrawn
    <3> QED BY <1>0, <2>1, <3>1, <3>2 DEF Healthy
  <2>2. n \in Listed /\ lease[n] = "full"
    BY <1>0 DEF Listed, Healthy
  <2>3. /\ n \in DOMAIN seen' /\ seen'[n].full
        /\ seen'[n].age = IF news[n] \/ n \notin DOMAIN seen THEN 0 ELSE seen[n].age
    BY <1>0, <2>1, <2>2, SeenType
  <2>4. Waited(n) \in Nat /\ Waited(n)' = Waited(n)
    BY <1>0, <2>1, WaitedBound DEF Waited
  <2>5. seen'[n].age <= Waited(n)
    BY <1>0, <2>3, <2>4 DEF Healthy
  <2>6. n \in suspects => seen'[n].age = 0
    BY <1>0, <2>1, <2>3 DEF Healthy
  <2>7. n \in suspects => seen'[n].age < LeaseDuration
    BY <2>6, Durations
  <2> QED BY <1>0, <2>1, <2>2, <2>3, <2>4, <2>5, <2>7 DEF Healthy
<1>2. CASE PruneListFails
  <2>1. /\ UNCHANGED <<process, sending, lease, settled, missed, renewIn, seen, news, suspects>>
        /\ ~pruning /\ ~pruning' /\ pruneIn = 0
    BY <1>2 DEF PruneListFails, leaseVars, EndPass
  <2> QED BY <1>0, <2>1 DEF Healthy, Wrote, Waited
<1>3. CASE Prune
  <2>1. /\ UNCHANGED <<process, sending, lease, settled, missed, renewIn, seen, news>>
        /\ pruning /\ ~pruning' /\ pruneIn' \in PruneInterval /\ suspects' \subseteq Unmatched
    BY <1>3 DEF Prune, leaseVars, EndPass
  <2>2. pruneIn' > 0
    BY <2>1, Durations
  <2>3. ASSUME Wrote(n), n \in suspects', ~news[n] PROVE LastChance(n)
    <3>1. n \in DOMAIN seen /\ seen[n].full /\ seen[n].age <= Waited(n)
      BY <1>0, <2>1, <2>3 DEF Healthy
    <3>2. ~(seen[n].age < LeaseDuration)
      BY <2>1, <2>3, <3>1 DEF Unmatched, IsLive
    <3>3. Waited(n) \in Nat /\ seen[n].age \in Nat /\ LeaseDuration \in Nat
      BY <1>0, <3>1, WaitedBound, Durations DEF TypeOK
    <3> QED BY <1>0, <3>1, <3>2, <3>3, WaitedBound
  <2> QED BY <1>0, <2>1, <2>2, <2>3 DEF Healthy, Wrote, Waited, LastChance
<1>4. CASE PrunerRestart
  <2>1. /\ UNCHANGED <<process, sending, lease, settled, missed, renewIn, news>>
        /\ DOMAIN seen' = {} /\ suspects' = {} /\ ~pruning'
    BY <1>4 DEF PrunerRestart
  <2> QED BY <1>0, <2>1 DEF Healthy, Wrote
<1>5. CASE Tick
  <2>1. /\ UNCHANGED <<process, sending, lease, missed, news, suspects, pruning>>
        /\ ~pruning /\ pruneIn' = pruneIn - 1
        /\ process[n] = "up" => renewIn[n] > 0 /\ renewIn'[n] = renewIn[n] - 1
    BY <1>0, <1>5 DEF Tick, Urgent, Gone, TypeOK
  <2>2. settled'[n] => process[n] = "up" /\ (settled[n] \/ missed[n] = 0)
    BY <1>5 DEF Tick
  <2>3. Wrote(n)' => Wrote(n)
    BY <2>1, <2>2 DEF Wrote
  <2> SUFFICES ASSUME Wrote(n) PROVE Healthy(n)'
    <3>1. process[n] = "up" => sending[n]["renew"] = "none"
      BY <1>0, <2>1 DEF Healthy, TypeOK
    <3> QED BY <2>1, <2>3, <3>1 DEF Healthy
  <2>4. Waited(n)' = Waited(n) + 1 /\ Waited(n) \in Nat
    <3>1. renewIn[n] \in Nat /\ (missed[n] + 1) * LeaseRenew \in Int
      BY <1>0, Durations DEF TypeOK
    <3>2. renewIn'[n] = renewIn[n] - 1 /\ missed'[n] = missed[n]
      BY <2>1 DEF Wrote
    <3> QED BY <1>0, <3>1, <3>2, WaitedBound DEF Waited
  <2>5. /\ DOMAIN seen' = DOMAIN seen
        /\ n \in DOMAIN seen => /\ seen'[n].full = seen[n].full
                                /\ seen'[n].age <= seen[n].age + 1
                                /\ seen'[n].age \in Nat /\ seen[n].age \in Nat
    <3>1. DOMAIN seen' = DOMAIN seen
      BY <1>0, <1>5, AgedType DEF Tick
    <3>2. ASSUME n \in DOMAIN seen
          PROVE  /\ seen'[n].full = seen[n].full
                 /\ seen'[n].age = IF seen[n].age < LeaseDuration THEN seen[n].age + 1
                                   ELSE LeaseDuration
      BY <1>0, <1>5, <3>2, AgedType DEF Tick
    <3>3. n \in DOMAIN seen => seen[n].age \in Nat /\ LeaseDuration \in Nat
      BY <1>0, Durations DEF TypeOK
    <3> QED BY <3>1, <3>2, <3>3
  <2>6. ~LastChance(n)
    BY <2>1 DEF LastChance, Wrote
  <2>7. news'[n] \/ n \notin DOMAIN seen' \/ (seen'[n].full /\ seen'[n].age <= Waited(n)')
    BY <1>0, <2>1, <2>4, <2>5 DEF Healthy
  <2>8. process[n] = "up" => sending[n]["renew"] = "none"
    BY <1>0, <2>1 DEF Healthy, TypeOK
  <2> QED BY <1>0, <2>1, <2>5, <2>6, <2>7, <2>8 DEF Healthy
<1> QED BY <1>1, <1>2, <1>3, <1>4, <1>5

(***************************************************************************)
(* A healthy node is never dropped: with at most as many renewals missed   *)
(* in a row as LEASE_DURATION has room for, a running node whose Lease has *)
(* been written stays listed, at any number of pruner restarts and         *)
(* failing requests and whichever moments the passes fall on.              *)
(***************************************************************************)
THEOREM HealthyNodesKept ==
  ASSUME (MaxMissed + 1) * LeaseRenew <= LeaseDuration
  PROVE  Spec => HealthyKept
<1>1. Init => HInv
  <2> SUFFICES ASSUME Init PROVE HInv
    OBVIOUS
  <2>1. ASSUME NEW n \in Peers PROVE Healthy(n)
    BY DEF Init, Healthy, Wrote
  <2> QED BY <2>1, WInvInit DEF HInv
<1>2. HInv /\ [Next]_vars => HInv'
  <2> SUFFICES ASSUME HInv, [Next]_vars, NEW n \in Peers PROVE Healthy(n)'
    BY WInvStep DEF HInv
  <2>1. CASE UNCHANGED vars
    BY <2>1 DEF HInv, vars, leaseVars, pruneVars, Healthy, Wrote, Waited, LastChance
  <2> QED BY <2>1, HealthyPeerStep, HealthyPrunerStep DEF Next
<1>3. HInv /\ [Next]_vars =>
        \A n \in Peers : settled[n] /\ process[n] = "up" /\ n \in ingress => n \in ingress'
  <2> SUFFICES ASSUME HInv, [Next]_vars, NEW n \in Peers, settled[n], n \in ingress
               PROVE  n \in ingress'
    OBVIOUS
  <2>1. CASE Prune
    <3>1. /\ n \in DOMAIN seen /\ seen[n].full
          /\ seen[n].age < LeaseDuration \/ n \notin suspects
      BY <2>1 DEF Prune, HInv, Healthy
    <3>2. n \notin Confirmed
      BY <3>1 DEF Confirmed, Unmatched, IsLive
    <3> QED BY <2>1, <3>2 DEF Prune
  <2>2. CASE ~Prune
    BY <2>2 DEF Next, RenewGet, WithdrawGet, Stop, Crash, Start, Publish, PutLands, PutFails,
               PruneList, PruneListFails, PrunerRestart, Tick, vars
  <2> QED BY <2>1, <2>2
<1> QED BY <1>1, <1>2, <1>3, PTL DEF Spec, HealthyKept

-----------------------------------------------------------------------------
(* A node that is gone leaves the list in time.                            *)

\* The next pass is at most PruneIntervalMax away.
LEMMA NextPass ==
  ASSUME NEW p \in 0 .. PruneIntervalMax, NEW u \in 0 .. LeaseDuration
  PROVE  /\ 0 + p <= PruneIntervalMax /\ 0 <= u
         /\ \A d \in Nat : 0 + p <= d + PruneIntervalMax /\ 0 + p <= d + 2 * PruneIntervalMax
BY Durations

\* A peer that is not overdue at all is in time.
LEMMA JustNow ==
  ASSUME TypeOK', NEW n \in Peers, since'[n] = 0
  PROVE  InTime(n)'
<1>1. pruneIn' \in 0 .. PruneIntervalMax /\ uptime' \in 0 .. LeaseDuration
  BY DEF TypeOK
<1>2. /\ 0 + pruneIn' <= PruneIntervalMax /\ 0 <= uptime'
      /\ \A d \in Nat : 0 + pruneIn' <= d + PruneIntervalMax
                        /\ 0 + pruneIn' <= d + 2 * PruneIntervalMax
  BY <1>1, NextPass, Zenon
<1>3. PruneIntervalMax \in Nat /\ LeaseDuration \in Nat
  BY Durations
<1>4. n \in DOMAIN seen' => 0 <= seen'[n].age + PruneIntervalMax
  <2>1. n \in DOMAIN seen' => seen'[n].age \in Nat
    BY Durations DEF TypeOK
  <2> QED BY <1>3, <2>1
<1>5. ASSUME NEW d \in Nat PROVE TwoPasses(n, d)'
  BY <1>2 DEF TwoPasses
<1>6. LeaseDuration + PruneIntervalMax \in Nat /\ 0 \in Nat
  BY <1>3
<1> QED BY <1>2, <1>3, <1>4, <1>5, <1>6 DEF InTime

\* InTime looks at one peer and the pruner.
LEMMA InTimeKept ==
  ASSUME NEW n \in Peers, InTime(n), UNCHANGED <<since[n], lease[n], news[n]>>,
         UNCHANGED <<seen, uptime, suspects, pruneIn, pruning>>,
         process'[n] = "left" => process[n] = "left"
  PROVE  InTime(n)'
BY DEF InTime, TwoPasses

\* Every step keeps what the pruner saw no older than the pruner.
LEMMA ObservedStep ==
  ASSUME WInv, Observed, [Next]_vars
  PROVE  Observed'
<1>0. TypeOK
  BY DEF WInv
<1>1. ASSUME UNCHANGED <<seen, uptime, pruneIn, pruning>>,
             \A n \in Peers : lease[n] # "absent" => lease'[n] # "absent"
      PROVE  Observed'
  BY <1>0, <1>1 DEF Observed, TypeOK
<1>2. ASSUME NEW m \in Peers, NEW kind \in {"renew", "withdraw"}, PutLands(m, kind)
      PROVE  Observed'
  <2>1. \A n \in Peers : lease[n] # "absent" => lease'[n] # "absent"
    BY <1>0, <1>2 DEF PutLands, TypeOK
  <2> QED BY <1>1, <1>2, <2>1 DEF PutLands
<1>3. ASSUME NEW m \in Peers,
             \/ RenewGet(m) \/ WithdrawGet(m) \/ Stop(m) \/ Crash(m) \/ Start(m) \/ Publish(m)
             \/ \E kind \in {"renew", "withdraw"} : PutFails(m, kind)
      PROVE  Observed'
  <2>1. UNCHANGED <<seen, uptime, pruneIn, pruning, lease>>
    BY <1>3 DEF RenewGet, WithdrawGet, Stop, Crash, Start, Publish, PutFails, pruneVars, leaseVars
  <2> QED BY <1>1, <2>1
<1>4. ASSUME NEW ownLive \in BOOLEAN, PruneList(ownLive) PROVE Observed'
  <2>1. /\ lease' = lease /\ uptime' = uptime /\ pruneIn = 0
        /\ pruning' => uptime >= LeaseDuration /\ pruneIn' = pruneIn
    BY <1>4 DEF PruneList, leaseVars, MayPrune, EndPass
  <2>2. uptime \in Nat /\ uptime <= LeaseDuration /\ LeaseDuration \in Nat
    BY <1>0, Durations DEF TypeOK
  <2>3. /\ DOMAIN seen' = Listed /\ Listed \subseteq Peers
        /\ \A n \in Listed :
             seen'[n].age = IF news[n] \/ n \notin DOMAIN seen THEN 0 ELSE seen[n].age
    BY <1>0, <1>4, SeenType DEF PruneList
  <2>4. \A n \in DOMAIN seen' : lease'[n] # "absent" /\ seen'[n].age <= uptime'
    BY <2>1, <2>2, <2>3 DEF Listed, Observed
  <2> QED BY <2>1, <2>2, <2>4 DEF Observed
<1>5. CASE PruneListFails \/ Prune
  <2>1. ~pruning' /\ UNCHANGED <<seen, lease, uptime>>
    BY <1>5 DEF PruneListFails, Prune, EndPass, leaseVars
  <2> QED BY <2>1 DEF Observed
<1>6. CASE PrunerRestart
  <2>1. ~pruning' /\ DOMAIN seen' = {}
    BY <1>6 DEF PrunerRestart
  <2> QED BY <2>1 DEF Observed
<1>7. CASE Tick
  <2>1. ~pruning' /\ lease' = lease /\ uptime' = Older(uptime, LeaseDuration - 1)
    BY <1>7 DEF Tick, Urgent
  <2>2. uptime \in Nat /\ uptime <= LeaseDuration /\ LeaseDuration \in Nat
    BY <1>0, Durations DEF TypeOK
  <2>3. /\ DOMAIN seen' = DOMAIN seen
        /\ \A n \in DOMAIN seen : seen'[n].age = IF seen[n].age < LeaseDuration
                                                 THEN seen[n].age + 1 ELSE LeaseDuration
    BY <1>0, <1>7, AgedType DEF Tick
  <2>4. \A n \in DOMAIN seen : seen[n].age \in Nat /\ seen[n].age <= uptime /\ lease[n] # "absent"
    BY <1>0 DEF TypeOK, Observed
  <2>5. uptime' = IF uptime < LeaseDuration THEN uptime + 1 ELSE LeaseDuration
    BY <2>1, <2>2 DEF Older
  <2> QED BY <2>1, <2>2, <2>3, <2>4, <2>5 DEF Observed
<1>8. CASE UNCHANGED vars
  BY <1>1, <1>8 DEF vars, leaseVars, pruneVars
<1> QED BY <1>2, <1>3, <1>4, <1>5, <1>6, <1>7, <1>8 DEF Next

\* The peers' steps.
LEMMA InTimePeerStep ==
  ASSUME WInv, WInv', NEW m \in Peers,
         \/ RenewGet(m) \/ WithdrawGet(m) \/ Stop(m) \/ Crash(m) \/ Start(m) \/ Publish(m)
         \/ \E kind \in {"renew", "withdraw"} : PutLands(m, kind) \/ PutFails(m, kind),
         \A n \in ingress : InTime(n), NEW n \in ingress'
  PROVE  InTime(n)'
<1>0. TypeOK /\ TypeOK' /\ n \in Peers
  BY DEF WInv, TypeOK
<1>1. UNCHANGED <<seen, uptime, suspects, pruneIn, pruning>>
  BY DEF RenewGet, WithdrawGet, Stop, Crash, Start, Publish, PutLands, PutFails, pruneVars
<1>2. CASE Publish(m)
  <2>1. CASE n = m
    <3>1. since'[n] = 0
      BY <1>0, <1>2, <2>1 DEF Publish, TypeOK
    <3> QED BY <1>0, <3>1, JustNow
  <2>2. CASE n # m
    <3>1. n \in ingress /\ UNCHANGED <<since[n], lease[n], news[n]>> /\ process' = process
      BY <1>0, <1>2, <2>2 DEF Publish, TypeOK, pruneVars
    <3> QED BY <1>0, <1>1, <3>1, InTimeKept
  <2> QED BY <2>1, <2>2
<1>3. ASSUME NEW kind \in {"renew", "withdraw"}, PutLands(m, kind) PROVE InTime(n)'
  <2>1. CASE n = m
    <3>1. since'[n] = 0
      BY <1>0, <1>3, <2>1 DEF PutLands, TypeOK
    <3> QED BY <1>0, <3>1, JustNow
  <2>2. CASE n # m
    <3>1. n \in ingress
      BY <1>3 DEF PutLands
    <3>2. UNCHANGED <<since[n], lease[n], news[n]>> /\ process'[n] = process[n]
      BY <1>0, <1>3, <2>2, LandedElsewhere
    <3> QED BY <1>0, <1>1, <3>1, <3>2, InTimeKept
  <2> QED BY <2>1, <2>2
<1>4. CASE RenewGet(m) \/ WithdrawGet(m) \/ Stop(m) \/ Crash(m) \/ Start(m)
             \/ \E kind \in {"renew", "withdraw"} : PutFails(m, kind)
  <2>1. n \in ingress /\ UNCHANGED <<since, lease, news>>
    BY <1>4 DEF RenewGet, WithdrawGet, Stop, Crash, Start, PutFails, pruneVars, leaseVars
  <2>2. process'[n] = "left" => process[n] = "left"
    BY <1>0, <1>4 DEF RenewGet, WithdrawGet, Stop, Crash, Start, PutFails, TypeOK
  <2> QED BY <1>0, <1>1, <2>1, <2>2, InTimeKept
<1> QED BY <1>2, <1>3, <1>4

\* A listing of the Leases.
LEMMA InTimeList ==
  ASSUME WInv, WInv', Observed, NEW ownLive \in BOOLEAN, PruneList(ownLive),
         faults = 0, faults' = 0, NEW n \in ingress, InTime(n)
  PROVE  InTime(n)'
<1>0. TypeOK /\ TypeOK' /\ n \in Peers /\ Withdrawn(n)
  BY DEF WInv, TypeOK
<1>1. /\ UNCHANGED <<since, lease, process, uptime>> /\ pruneIn = 0 /\ ~pruning /\ ~news'[n]
      /\ seen' = [k \in Listed |-> Observe(k)]
  BY <1>0 DEF PruneList, leaseVars
<1>2. ownLive
  BY DEF PruneList
<1>3. /\ uptime \in Nat /\ uptime <= LeaseDuration /\ LeaseDuration \in Nat /\ LeaseDuration > 0
      /\ PruneIntervalMax \in Nat /\ since[n] \in Nat
      /\ n \in DOMAIN seen => seen[n].age \in Nat
  BY <1>0, Durations DEF TypeOK
<1>4. /\ n \in DOMAIN seen' <=> lease[n] # "absent"
      /\ n \in DOMAIN seen' => /\ seen'[n].full <=> lease[n] = "full"
                               /\ seen'[n].age = IF news[n] \/ n \notin DOMAIN seen THEN 0
                                                 ELSE seen[n].age
  BY <1>0, <1>1, SeenType DEF Listed
<1>5. n \in DOMAIN seen' /\ seen'[n].age < LeaseDuration
        => since'[n] <= seen'[n].age + PruneIntervalMax
  BY <1>1, <1>3, <1>4 DEF InTime
<1>6. CASE uptime = LeaseDuration
  <2>1. pruning' /\ UNCHANGED <<suspects, pruneIn>>
    BY <1>2, <1>3, <1>6 DEF PruneList, MayPrune
  <2>2. \A d : TwoPasses(n, d) => TwoPasses(n, d)'
    BY <1>1, <2>1 DEF TwoPasses
  <2>3. n \in DOMAIN seen' /\ seen'[n].age = LeaseDuration
          => TwoPasses(n, LeaseDuration + PruneIntervalMax)'
    BY <1>3, <1>4, <2>2 DEF InTime
  <2>4. process[n] = "left" => TwoPasses(n, 0)' /\ ~seen'[n].full
    BY <1>0, <1>4, <2>2 DEF InTime, Withdrawn
  <2>5. lease[n] = "absent" => TwoPasses(n, LeaseDuration)'
    BY <1>6, <2>2 DEF InTime
  <2>6. ~(uptime < LeaseDuration)
    BY <1>3, <1>6
  <2> QED BY <1>1, <1>4, <1>5, <2>3, <2>4, <2>5, <2>6 DEF InTime
<1>7. CASE uptime < LeaseDuration
  <2>1. ~pruning' /\ suspects' = {} /\ pruneIn' \in PruneInterval
    BY <1>3, <1>7 DEF PruneList, MayPrune, EndPass
  <2>2. ~(n \in DOMAIN seen' /\ seen'[n].age = LeaseDuration)
    BY <1>3, <1>4, <1>7 DEF Observed
  <2>3. process[n] = "left" => since[n] = 0
    BY <1>7 DEF InTime
  <2>4. process[n] = "left" => TwoPasses(n, 0)'
    BY <1>1, <1>3, <2>1, <2>3, Durations DEF TwoPasses
  <2>5. uptime # LeaseDuration /\ since[n] <= uptime
    BY <1>3, <1>7 DEF InTime
  <2> QED BY <1>1, <1>4, <1>5, <2>1, <2>2, <2>3, <2>4, <2>5 DEF InTime
<1> QED BY <1>3, <1>6, <1>7

\* The rest of a pass: an address no live Lease carries is noted, then pruned.
LEMMA InTimePrune ==
  ASSUME WInv, WInv', Observed, Prune, faults = 0, faults' = 0,
         NEW n \in ingress', n \in ingress => InTime(n)
  PROVE  InTime(n)'
<1>0. TypeOK /\ TypeOK' /\ n \in Peers
  BY DEF WInv, TypeOK
<1>1. /\ UNCHANGED <<process, since, lease, seen, news, uptime>>
      /\ pruning /\ ~pruning' /\ pruneIn' \in PruneInterval
      /\ ingress' = ingress \ Confirmed /\ suspects' = Unmatched
  BY DEF Prune, leaseVars, EndPass
<1>2. n \in ingress /\ InTime(n) /\ n \notin Confirmed /\ pruneIn = 0 /\ uptime = LeaseDuration
  BY <1>1 DEF Observed
<1>3. /\ pruneIn' \in Nat /\ pruneIn' <= PruneIntervalMax /\ PruneIntervalMax \in Nat
      /\ since[n] \in Nat /\ LeaseDuration \in Nat
  BY <1>0, <1>1, Durations DEF TypeOK
<1>4. CASE since[n] = 0
  BY <1>0, <1>1, <1>4, JustNow
<1>5. CASE since[n] # 0
  <2>1. ASSUME n \in Unmatched, NEW d \in Nat, TwoPasses(n, d) PROVE TwoPasses(n, d)'
    <3>1. n \notin suspects /\ n \in suspects'
      BY <1>1, <1>2, <2>1 DEF Confirmed
    <3>2. since[n] + 0 <= d + PruneIntervalMax
      BY <1>2, <2>1, <3>1 DEF TwoPasses
    <3> QED BY <1>1, <1>3, <3>1, <3>2 DEF TwoPasses
  <2>2. lease[n] # "absent" => n \in DOMAIN seen /\ ~news[n]
    BY <1>1, <1>2, <1>5 DEF InTime
  <2>3. lease[n] = "absent" => n \in Unmatched
    BY <1>2 DEF Observed, Unmatched, IsLive
  <2>4. n \in DOMAIN seen /\ seen[n].age = LeaseDuration => n \in Unmatched
    BY <1>2, <1>3 DEF Unmatched, IsLive
  <2>5. process[n] = "left" => n \in Unmatched
    BY <1>1, <1>2, <1>5 DEF InTime, Unmatched
  <2>6. lease[n] = "absent" => TwoPasses(n, LeaseDuration)'
    BY <1>2, <1>3, <2>1, <2>3 DEF InTime
  <2>7. n \in DOMAIN seen /\ ~news[n] /\ seen[n].age = LeaseDuration
          => TwoPasses(n, LeaseDuration + PruneIntervalMax)'
    BY <1>2, <1>3, <2>1, <2>4 DEF InTime
  <2>8. process[n] = "left" => TwoPasses(n, 0)'
    BY <1>2, <2>1, <2>5 DEF InTime
  <2>9. ~(uptime < LeaseDuration)
    BY <1>2, <1>3
  <2> QED BY <1>1, <1>2, <2>2, <2>6, <2>7, <2>8, <2>9 DEF InTime
<1> QED BY <1>4, <1>5

\* A tick.
LEMMA InTimeTick ==
  ASSUME WInv, WInv', Observed, Tick, NEW n \in ingress, InTime(n)
  PROVE  InTime(n)'
<1>0. TypeOK /\ TypeOK' /\ n \in Peers
  BY DEF WInv, TypeOK
<1>1. /\ UNCHANGED <<process, lease, news, suspects, pruning>> /\ ~pruning
      /\ pruneIn' = pruneIn - 1 /\ since'[n] = Overdue(n)
      /\ uptime' = Older(uptime, LeaseDuration - 1)
  BY <1>0 DEF Tick, Urgent
<1>2. /\ pruneIn \in Nat /\ pruneIn <= PruneIntervalMax /\ PruneIntervalMax \in Nat
      /\ pruneIn' \in Nat /\ since[n] \in Nat /\ LeaseDuration \in Nat
      /\ uptime \in Nat /\ uptime <= LeaseDuration /\ Latest \in Nat
  BY <1>0, Durations DEF TypeOK
<1>3. CASE process[n] = "left" /\ uptime < LeaseDuration
  <2>1. since'[n] = 0
    BY <1>1, <1>3 DEF Overdue
  <2> QED BY <1>0, <2>1, JustNow
<1>4. CASE ~(process[n] = "left" /\ uptime < LeaseDuration)
  <2>1. since'[n] \in Nat /\ since'[n] <= since[n] + 1
    BY <1>1, <1>2, <1>4 DEF Overdue, Older
  <2>2. uptime' = IF uptime < LeaseDuration THEN uptime + 1 ELSE LeaseDuration
    BY <1>1, <1>2 DEF Older
  <2>3. /\ n \in DOMAIN seen' <=> n \in DOMAIN seen
        /\ n \in DOMAIN seen =>
             /\ seen[n].age \in Nat /\ seen[n].age <= LeaseDuration
             /\ seen'[n].full = seen[n].full
             /\ seen'[n].age = IF seen[n].age < LeaseDuration THEN seen[n].age + 1
                               ELSE LeaseDuration
    <3>1. seen' = [k \in DOMAIN seen |-> IF IsLive(k) THEN [seen[k] EXCEPT !.age = @ + 1]
                                         ELSE seen[k]]
      BY DEF Tick
    <3>2. n \in DOMAIN seen => seen[n].age \in Nat /\ seen[n].age <= LeaseDuration
      BY <1>0, <1>2 DEF TypeOK
    <3> QED BY <1>0, <3>1, <3>2, AgedType
  <2>4. ASSUME NEW d \in Nat, TwoPasses(n, d) PROVE TwoPasses(n, d)'
    BY <1>1, <1>2, <2>1, <2>4 DEF TwoPasses
  <2>5. ASSUME NEW d \in Nat, since'[n] <= d PROVE TwoPasses(n, d)'
    BY <1>1, <1>2, <2>1, <2>5 DEF TwoPasses
  <2>6. uptime' < LeaseDuration => since'[n] <= uptime'
    BY <1>2, <2>1, <2>2 DEF InTime
  <2>7. lease[n] # "absent" /\ (news[n] \/ n \notin DOMAIN seen)
          => since'[n] + pruneIn' <= PruneIntervalMax
    BY <1>1, <1>2, <2>1 DEF InTime
  <2>8. n \in DOMAIN seen /\ ~news[n] /\ seen'[n].age < LeaseDuration
          => since'[n] <= seen'[n].age + PruneIntervalMax
    BY <1>2, <2>1, <2>3 DEF InTime
  <2>9. ASSUME n \in DOMAIN seen, ~news[n], seen'[n].age = LeaseDuration
        PROVE  TwoPasses(n, LeaseDuration + PruneIntervalMax)'
    <3>1. CASE seen[n].age = LeaseDuration
      BY <1>2, <2>4, <2>9, <3>1 DEF InTime
    <3>2. CASE seen[n].age < LeaseDuration
      <4>1. since[n] <= seen[n].age + PruneIntervalMax
        BY <2>9, <3>2 DEF InTime
      <4>2. since'[n] <= LeaseDuration + PruneIntervalMax
        BY <1>2, <2>1, <2>3, <2>9, <3>2, <4>1
      <4> QED BY <1>2, <2>5, <4>2
    <3> QED BY <1>2, <2>3, <2>9, <3>1, <3>2
  <2>10. ASSUME lease[n] = "absent", uptime' = LeaseDuration PROVE TwoPasses(n, LeaseDuration)'
    <3>1. CASE uptime = LeaseDuration
      BY <1>2, <2>4, <2>10, <3>1 DEF InTime
    <3>2. CASE uptime < LeaseDuration
      <4>1. since[n] <= uptime
        BY <3>2 DEF InTime
      <4>2. since'[n] <= LeaseDuration
        BY <1>2, <2>1, <2>2, <2>10, <3>2, <4>1
      <4> QED BY <1>2, <2>5, <4>2
    <3> QED BY <1>2, <3>1, <3>2
  <2>11. process[n] = "left" => TwoPasses(n, 0)' /\ ~(uptime' < LeaseDuration)
    BY <1>2, <1>4, <2>2, <2>4 DEF InTime
  <2> QED BY <1>1, <2>3, <2>6, <2>7, <2>8, <2>9, <2>10, <2>11 DEF InTime
<1> QED BY <1>3, <1>4

\* The initial states: nobody is overdue.
LEMMA TInvInit == Init => TInv
<1> SUFFICES ASSUME Init PROVE TInv
  OBVIOUS
<1>1. TypeOK /\ WInv /\ DOMAIN seen = {} /\ ~pruning /\ uptime = 0
  BY TypeInit, WInvInit DEF Init
<1>2. Observed
  BY <1>1 DEF Observed
<1>3. ASSUME NEW n \in ingress PROVE InTime(n)
  <2>1. since[n] = 0 /\ n \in Peers /\ process[n] = "down"
    BY DEF Init
  <2>2. /\ pruneIn \in Nat /\ pruneIn <= PruneIntervalMax
        /\ PruneIntervalMax \in Nat /\ LeaseDuration \in Nat /\ LeaseDuration > 0
    BY <1>1, Durations DEF TypeOK
  <2> QED BY <1>1, <2>1, <2>2 DEF InTime
<1> QED BY <1>1, <1>2, <1>3 DEF TInv

\* Every step keeps the peers in time.
LEMMA TInvStep == TInv /\ [Next]_vars => TInv'
<1> SUFFICES ASSUME TInv, [Next]_vars PROVE TInv'
  OBVIOUS
<1>1. WInv /\ WInv' /\ Observed /\ Observed'
  BY WInvStep, ObservedStep DEF TInv
<1>2. ASSUME faults' = 0, NEW n \in ingress' PROVE InTime(n)'
  <2>1. faults = 0
    <3>1. faults' = faults \/ faults' = faults + 1
      BY DEF Next, RenewGet, WithdrawGet, Stop, Crash, Start, Publish, PutLands, PutFails,
             PruneList, PruneListFails, Prune, PrunerRestart, Tick, vars
    <3>2. faults \in Nat
      BY <1>1, Durations DEF WInv, TypeOK
    <3> QED BY <1>2, <3>1, <3>2
  <2>2. \A m \in ingress : InTime(m)
    BY <2>1 DEF TInv
  <2>3. n \in Peers
    BY <1>1 DEF WInv, TypeOK
  <2>4. ASSUME NEW m \in Peers,
               \/ RenewGet(m) \/ WithdrawGet(m) \/ Stop(m) \/ Crash(m) \/ Start(m) \/ Publish(m)
               \/ \E kind \in {"renew", "withdraw"} : PutLands(m, kind) \/ PutFails(m, kind)
        PROVE  InTime(n)'
    BY <1>1, <2>2, <2>4, InTimePeerStep
  <2>5. ASSUME NEW ownLive \in BOOLEAN, PruneList(ownLive) PROVE InTime(n)'
    <3>1. n \in ingress
      BY <2>5 DEF PruneList
    <3> QED BY <1>1, <1>2, <2>1, <2>2, <2>5, <3>1, InTimeList
  <2>6. ~PruneListFails
    BY <1>2, <2>1 DEF PruneListFails
  <2>7. CASE Prune
    BY <1>1, <1>2, <2>1, <2>2, <2>7, InTimePrune
  <2>8. CASE PrunerRestart
    <3>1. since'[n] = 0
      BY <2>3, <2>8 DEF PrunerRestart
    <3> QED BY <1>1, <2>3, <3>1, JustNow DEF WInv
  <2>9. CASE Tick
    <3>1. n \in ingress
      BY <2>9 DEF Tick
    <3> QED BY <1>1, <2>2, <2>9, <3>1, InTimeTick
  <2>10. CASE UNCHANGED vars
    <3>1. UNCHANGED <<ingress, since, lease, news, process, seen, uptime, suspects, pruneIn, pruning>>
      BY <2>10 DEF vars, leaseVars, pruneVars
    <3> QED BY <2>2, <2>3, <3>1, InTimeKept
  <2> QED BY <2>4, <2>5, <2>6, <2>7, <2>8, <2>9, <2>10 DEF Next
<1> QED BY <1>1, <1>2 DEF TInv

(***************************************************************************)
(* max_prune_latency is kept: while no request of the pruner fails, the    *)
(* address of a node that is gone leaves the list within the bound the     *)
(* code states, for any LEASE_DURATION, renewal period and jitter.         *)
(***************************************************************************)
THEOREM GoneNodesLeaveInTime == Spec => []GoneInTime
<1>1. ASSUME TInv PROVE GoneInTime
  <2> SUFFICES ASSUME NEW n \in Peers, Gone(n), n \in ingress, faults = 0
               PROVE  since[n] <= MaxPruneLatency(process[n] = "left")
    BY DEF GoneInTime
  <2>1. InTime(n) /\ TypeOK /\ Observed
    BY <1>1 DEF TInv, WInv
  <2>2. /\ pruneIn \in Nat /\ PruneIntervalMax \in Nat /\ since[n] \in Nat
        /\ LeaseDuration \in Nat /\ uptime \in Nat /\ uptime <= LeaseDuration
        /\ n \in DOMAIN seen => seen[n].age \in Nat /\ seen[n].age <= LeaseDuration
    BY <2>1, Durations DEF TypeOK
  <2>3. CASE process[n] = "left"
    <3>1. since[n] <= 2 * PruneIntervalMax
      BY <2>1, <2>2, <2>3 DEF InTime, TwoPasses
    <3> QED BY <2>3, <3>1 DEF MaxPruneLatency
  <2>4. CASE process[n] # "left"
    <3>1. ASSUME NEW d \in Nat, TwoPasses(n, d) PROVE since[n] <= d + 2 * PruneIntervalMax
      BY <2>2, <3>1 DEF TwoPasses
    <3>2. CASE lease[n] = "absent"
      <4>1. uptime < LeaseDuration \/ since[n] <= LeaseDuration + 2 * PruneIntervalMax
        BY <2>1, <2>2, <3>1, <3>2 DEF InTime
      <4>2. since[n] <= LeaseDuration + 3 * PruneIntervalMax
        BY <2>1, <2>2, <4>1 DEF InTime
      <4> QED BY <2>4, <4>2 DEF MaxPruneLatency
    <3>3. CASE lease[n] # "absent"
      <4>1. CASE news[n] \/ n \notin DOMAIN seen
        <5>1. since[n] + pruneIn <= PruneIntervalMax
          BY <2>1, <3>3, <4>1 DEF InTime
        <5>2. since[n] <= LeaseDuration + 3 * PruneIntervalMax
          BY <2>2, <5>1
        <5> QED BY <2>4, <5>2 DEF MaxPruneLatency
      <4>2. CASE ~news[n] /\ n \in DOMAIN seen
        <5>1. seen[n].age < LeaseDuration
                \/ since[n] <= (LeaseDuration + PruneIntervalMax) + 2 * PruneIntervalMax
          BY <2>1, <2>2, <3>1, <4>2 DEF InTime
        <5>2. seen[n].age < LeaseDuration => since[n] <= seen[n].age + PruneIntervalMax
          BY <2>1, <4>2 DEF InTime
        <5>3. since[n] <= LeaseDuration + 3 * PruneIntervalMax
          BY <2>2, <4>2, <5>1, <5>2
        <5> QED BY <2>4, <5>3 DEF MaxPruneLatency
      <4> QED BY <4>1, <4>2
    <3> QED BY <3>2, <3>3
  <2> QED BY <2>3, <2>4
<1> QED BY <1>1, TInvInit, TInvStep, PTL DEF Spec
=============================================================================
