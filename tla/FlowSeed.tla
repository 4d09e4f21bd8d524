------------------------------ MODULE FlowSeed ------------------------------
(***************************************************************************)
(* The cluster-wide flow-hash seed (controller/src/seed.rs): one Secret,   *)
(* which the first controller creates and the others read, and each node's *)
(* pinned CONFIG row, which a running controller keeps equal to it.        *)
(***************************************************************************)
EXTENDS Naturals

CONSTANTS
    SeedNodes,  \* the nodes whose controllers share the Secret
    Seeds       \* 64-bit values, 1 .. n; a random one is new to the cluster

NoSeed == 0

ASSUME SeedsAssumption == 1 \in Seeds /\ NoSeed \notin Seeds

VARIABLES
    secret,    \* the stored seed, or NoSeed
    issued,    \* every seed the Secret ever held
    stage,     \* where the controller's create_or_read or seed_tick is
    mine,      \* the seed that it offers, or the one that it keeps
    got,       \* the seed that the apiserver answered with, until it is written
    configSeed \* CONFIG.flow_hash_seed, pinned

seedVars == <<secret, issued, stage, mine, got, configSeed>>

Starting == {"post", "get", "populate"}
Ticking == {"repost", "reget", "adopt"}

At(n, from, to) == stage[n] = from /\ stage' = [stage EXCEPT ![n] = to]

\* random_seed
Unused == Seeds \ (issued \cup {mine[n] : n \in SeedNodes})
FreshSeed == CHOOSE s \in Unused : TRUE

\* load_or_create_seed draws a candidate.
Draw(n) ==
    /\ At(n, "off", "post") /\ Unused # {}
    /\ mine' = [mine EXCEPT ![n] = FreshSeed]
    /\ UNCHANGED <<secret, issued, got, configSeed>>

\* What a failed request does: the start fails, a tick gives up for now.
Abandon(n) == IF stage[n] \in Starting THEN "off" ELSE "run"

\* The POST of create_or_read: the first one creates.
Created(n) ==
    /\ secret = NoSeed
    /\ secret' = mine[n] /\ issued' = issued \cup {mine[n]}

\* Faulty: a controller that lost the race goes on with its own seed.
OwnSeed(n) ==
    /\ secret # NoSeed /\ UNCHANGED <<secret, issued>>
    /\ \/ At(n, "post", "populate") /\ got' = [got EXCEPT ![n] = mine[n]]
       \/ At(n, "repost", "run") /\ UNCHANGED got

\* CONFLICT: read the stored one.
ReadExisting(n) ==
    /\ secret # NoSeed /\ UNCHANGED <<secret, issued, got>>
    /\ \/ At(n, "post", "get") \/ At(n, "repost", "reget")

Post(n) ==
    /\ \/ /\ Created(n)
          /\ \/ At(n, "post", "populate") /\ got' = [got EXCEPT ![n] = mine[n]]
             \/ At(n, "repost", "run") /\ UNCHANGED got
       \/ ReadExisting(n)
    /\ UNCHANGED <<mine, configSeed>>

\* The POST fails, or its answer is lost.
PostFails(n) ==
    /\ stage[n] \in {"post", "repost"}
    /\ stage' = [stage EXCEPT ![n] = Abandon(n)]
    /\ Created(n) \/ UNCHANGED <<secret, issued>>
    /\ UNCHANGED <<mine, got, configSeed>>

\* Faulty: a Secret that is gone again counts as one that holds 0.
GetUnchecked(n) ==
    /\ \/ At(n, "get", "populate") \/ At(n, "reget", "adopt")
    /\ got' = [got EXCEPT ![n] = secret]
    /\ UNCHANGED <<secret, issued, mine, configSeed>>

\* The GET after a conflict; the Secret may be gone again.
Get(n) ==
    /\ stage[n] \in {"get", "reget"}
    /\ stage' = [stage EXCEPT ![n] =
                    IF secret = NoSeed THEN Abandon(n)
                    ELSE IF @ = "get" THEN "populate"
                    ELSE IF secret = mine[n] THEN "run" ELSE "adopt"]
    /\ got' = [got EXCEPT ![n] = IF stage'[n] \in {"populate", "adopt"} THEN secret ELSE @]
    /\ UNCHANGED <<secret, issued, mine, configSeed>>

\* populate_config, with the seed that the controller starts from.
Populate(n) ==
    /\ At(n, "populate", "run")
    /\ configSeed' = [configSeed EXCEPT ![n] = got[n]]
    /\ mine' = [mine EXCEPT ![n] = got[n]]
    /\ got' = [got EXCEPT ![n] = NoSeed]
    /\ UNCHANGED <<secret, issued>>

\* seed_tick: its GET, and seed_action.  A failing GET changes nothing.
Tick(n) ==
    /\ stage[n] = "run" /\ secret # mine[n]
    /\ got' = [got EXCEPT ![n] = secret]  \* NoSeed for a Secret that is gone
    /\ stage' = [stage EXCEPT ![n] = IF secret = NoSeed THEN "repost" ELSE "adopt"]
    /\ UNCHANGED <<secret, issued, mine, configSeed>>

\* Faulty: the seed counts as adopted although CONFIG was not written.
KeptAnyway(n, ok) == got[n]

\* What the controller takes for CONFIG's seed after write_config_seed.
AfterWrite(n, ok) == IF ok THEN got[n] ELSE mine[n]

Adopt(n, ok) ==
    /\ At(n, "adopt", "run")
    /\ configSeed' = IF ok THEN [configSeed EXCEPT ![n] = got[n]] ELSE configSeed
    /\ mine' = [mine EXCEPT ![n] = AfterWrite(n, ok)]
    /\ got' = [got EXCEPT ![n] = NoSeed]
    /\ UNCHANGED <<secret, issued>>

\* The controller's process ends; CONFIG stays.
SeedLost(n) ==
    /\ stage' = [stage EXCEPT ![n] = "off"]
    /\ mine' = [mine EXCEPT ![n] = NoSeed] /\ got' = [got EXCEPT ![n] = NoSeed]
    /\ UNCHANGED <<secret, issued, configSeed>>

\* Somebody deletes the Secret or stores another value.
EditSecret ==
    /\ \/ secret # NoSeed /\ secret' = NoSeed /\ UNCHANGED issued
       \/ Unused # {} /\ secret' = FreshSeed /\ issued' = issued \cup {FreshSeed}
    /\ UNCHANGED <<stage, mine, got, configSeed>>

SeedInit ==
    /\ secret = NoSeed /\ issued = {}
    /\ stage = [n \in SeedNodes |-> "off"]
    /\ mine = [n \in SeedNodes |-> NoSeed]
    /\ got = mine /\ configSeed = mine

\* The controller of n runs already.
SeedSettled(n) ==
    /\ secret = 1 /\ issued = {1}
    /\ stage = [m \in SeedNodes |-> IF m = n THEN "run" ELSE "off"]
    /\ mine = [m \in SeedNodes |-> IF m = n THEN 1 ELSE NoSeed]
    /\ configSeed = mine /\ got = [m \in SeedNodes |-> NoSeed]

SeedTypeOK ==
    /\ secret \in Seeds \cup {NoSeed} /\ issued \subseteq Seeds
    /\ stage \in [SeedNodes -> {"off", "run"} \cup Starting \cup Ticking]
    /\ mine \in [SeedNodes -> Seeds \cup {NoSeed}]
    /\ got \in [SeedNodes -> Seeds \cup {NoSeed}]
    /\ configSeed \in [SeedNodes -> Seeds \cup {NoSeed}]
    /\ \A n \in SeedNodes : stage[n] \in {"run"} \cup Ticking => NoSeed \notin {configSeed[n], mine[n]}
=============================================================================
