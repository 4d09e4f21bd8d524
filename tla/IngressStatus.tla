---------------------------- MODULE IngressStatus ----------------------------
(***************************************************************************)
(* status.loadBalancer.ingress of one Service with externalTrafficPolicy   *)
(* Local: one atomic list in the API server, written by the controller of  *)
(* every node (controller/src/status.rs), each adding or withdrawing only  *)
(* its own address.  A watch event, a LIST or a retry starts an attempt    *)
(* (publish_ingress of controller/src/main.rs spawns a task for it), so    *)
(* several attempts of one node run at once, each with the addresses it    *)
(* was started with.  An attempt is a get-modify-patch loop, and reports   *)
(* its outcome to the node's PublishRetry.  The list is a set here and a   *)
(* node is its own address.                                                *)
(*                                                                         *)
(* The API server keeps the Service's versions; a controller's watch       *)
(* delivers them in order, and after a reconnect again from the last LIST  *)
(* or bookmark (run_list_watch of controller/src/watch.rs).                *)
(***************************************************************************)
EXTENDS Naturals, Sequences, SequencesExt

CONSTANTS
    Nodes,               \* nodes, and the address of each
    Peers,               \* addresses of nodes outside the model
    MaxConflictRetries,  \* 5: rounds of one attempt
    MaxTasks,            \* bound on attempts of a node at once
    MaxTroubles          \* bound on changes of the Service, writes of peers, locality
                         \* events, reconnects, relists, failed requests and crashes

ASSUME IngressAssumption ==
    /\ Peers \cap Nodes = {}
    /\ MaxConflictRetries \in Nat \ {0} /\ MaxTasks \in Nat \ {0, 1}
    /\ MaxTroubles \in Nat

Kinds    == {"LoadBalancer", "other", "gone"}
Versions == [kind : Kinds, ingress : SUBSET (Nodes \cup Peers)]

\* publish_ingress: what an attempt was started with, where its loop is, and
\* whether a younger attempt of the node has failed meanwhile.
Tasks == [desired : BOOLEAN, clear : BOOLEAN, overtaken : BOOLEAN,
          at : {"get", "patch", "done", "failed", "gone"}, rv : Nat,
          attempt : 0..(MaxConflictRetries - 1)]

\* PublishRetry, for the one Service: why it is kept, and whether a retry is due.
Retries == [why : {"nothing", "publish", "clear", "deferred"}, armed : BOOLEAN]

VARIABLES
    log,        \* versions of the Service; resourceVersion is the index
    \* The controller of each node.
    at,         \* the version its watch is at
    mark,       \* the version its watch resumes at
    listed,     \* the LISTs that have completed: "Service", "others"
    tracked,    \* the Service is in WatchState, as a LoadBalancer
    local,      \* the node has a usable pod of the Service
    tasks,      \* its attempts, the oldest first
    retry,      \* its PublishRetry
    erased,     \* history: an overtaken attempt's outcome was recorded last
    troubles    \* bound

watch == <<at, mark, listed, tracked, local>>
vars  == <<log, at, mark, listed, tracked, local, tasks, retry, erased,
           troubles>>

Service == log[Len(log)]

Trouble == troubles < MaxTroubles /\ troubles' = troubles + 1

\* ingress_decidable: every LIST has completed.
Decidable(lists) == lists = {"Service", "others"}

-----------------------------------------------------------------------------
(* What a node does about the Service.                                     *)

\* merged_ingress
MergedIngress(n, existing, desired) ==
    IF desired THEN existing \cup {n} ELSE existing \ {n}

NoRetry  == [why |-> "nothing", armed |-> FALSE]
Deferred == [why |-> "deferred", armed |-> FALSE]

\* PublishRetry::record
Recorded(done, clear) ==
    IF done THEN NoRetry
    ELSE [why |-> IF clear THEN "clear" ELSE "publish", armed |-> TRUE]

\* service_event_work; a non-LoadBalancer Service without ingress calls for none.
EventWork(v) ==
    CASE v.kind = "LoadBalancer" -> "Publish"
      [] v.kind = "other" -> IF v.ingress # {} THEN "Clear" ELSE "None"
      [] v.kind = "gone" -> "Forget"

\* services_relist_work: a deleted Service is not in the LIST.
RelistWork(v) == IF v.kind = "gone" THEN "None" ELSE EventWork(v)

\* retry_work
RetryWork(isTracked, clear) ==
    IF isTracked THEN "Publish" ELSE IF clear THEN "Clear" ELSE "Forget"

Attempt(desired, clear) ==
    [desired |-> desired, clear |-> clear, overtaken |-> FALSE, at |-> "get",
     rv |-> 0, attempt |-> 0]

\* run_ingress_work: the attempt it starts, and what becomes of the retry.
Started(work, ready, desired) ==
    IF ready /\ work \in {"Publish", "Clear"}
    THEN <<Attempt(work = "Publish" /\ desired, work = "Clear")>> ELSE <<>>

Kept(work, ready, r) ==
    IF work = "Forget" THEN NoRetry
    ELSE IF work = "Clear" /\ ~ready THEN Deferred ELSE r

\* Faulty: clears put off until now are forgotten.
AfterListPublish(isTracked, r) == IF isTracked THEN "Publish" ELSE "None"

\* after_list, when the LIST was the last outstanding one.
AfterList(isTracked, r) ==
    IF isTracked THEN "Publish" ELSE IF r.why \in {"clear", "deferred"} THEN "Clear" ELSE "None"

\* republish_if_own_ips_changed, and what a slice event does: the Service's policy
\* is Local, so it is among the keys whether or not the addresses changed.
Republished(isTracked) == IF isTracked THEN "Publish" ELSE "None"

\* The node starts attempts s; they know all that the node knows now.
Start(n, s) ==
    /\ Len(tasks[n]) + Len(s) <= MaxTasks
    /\ tasks' = [tasks EXCEPT ![n] = @ \o s]
    /\ erased' = [erased EXCEPT ![n] = @ /\ s = <<>>]

-----------------------------------------------------------------------------
(* The watches.                                                            *)

\* on_service
ServiceEvent(n) ==
    /\ "Service" \in listed[n] /\ at[n] < Len(log)
    /\ LET v       == log[at[n] + 1]
           work    == EventWork(v)
           ready   == Decidable(listed[n])
           isTracked == v.kind = "LoadBalancer"
       IN  /\ tracked' = [tracked EXCEPT ![n] = isTracked]
           /\ Start(n, Started(work, ready, isTracked /\ local[n]))
           /\ retry' = [retry EXCEPT ![n] = Kept(work, ready, @)]
    /\ at' = [at EXCEPT ![n] = @ + 1]
    /\ UNCHANGED <<log, mark, listed, local, troubles>>

\* The stream ended: the watch starts over at its last bookmark or LIST.
Reconnect(n) ==
    /\ "Service" \in listed[n] /\ Trouble
    /\ \E v \in mark[n]..at[n] :
          /\ at' = [at EXCEPT ![n] = v]
          /\ mark' = [mark EXCEPT ![n] = v]
    /\ UNCHANGED <<log, listed, tracked, local, tasks, retry, erased>>

\* The work of a LIST, and then after_list.
Listed(n, lists, isTracked, work) ==
    LET ready   == Decidable(lists)
        desired == isTracked /\ local[n]
        kept    == Kept(work, ready, retry[n])
        more    == IF ready /\ ~Decidable(listed[n]) THEN AfterList(isTracked, kept) ELSE "None"
    IN  /\ listed' = [listed EXCEPT ![n] = lists]
        /\ tracked' = [tracked EXCEPT ![n] = isTracked]
        /\ Start(n, Started(work, ready, desired) \o Started(more, ready, desired))
        /\ retry' = [retry EXCEPT ![n] = Kept(more, ready, kept)]

\* on_services_relist: at the start, and when the resourceVersion has expired.
ServicesRelist(n) ==
    /\ \/ "Service" \notin listed[n] /\ UNCHANGED troubles
       \/ "Service" \in listed[n] /\ Trouble
    /\ Listed(n, listed[n] \cup {"Service"}, Service.kind = "LoadBalancer", RelistWork(Service))
    /\ at' = [at EXCEPT ![n] = Len(log)]
    /\ mark' = [mark EXCEPT ![n] = Len(log)]
    /\ UNCHANGED <<log, local>>

\* on_endpoint_slices_relist, on_nodes_relist: the later of the first two.
OthersListed(n) ==
    /\ "others" \notin listed[n]
    /\ Listed(n, listed[n] \cup {"others"}, tracked[n], Republished(tracked[n]))
    /\ UNCHANGED <<log, at, mark, local, troubles>>

\* on_endpoint_slice, on_node: the node's pods may have changed.
LocalityEvent(n) ==
    /\ Trouble
    /\ \E here \in BOOLEAN :
          /\ local' = [local EXCEPT ![n] = here]
          /\ Start(n, Started(Republished(tracked[n]), Decidable(listed[n]), here))
    /\ UNCHANGED <<log, at, mark, listed, tracked, retry>>

\* run_publish_retry_loop
RetryDue(n) ==
    /\ retry[n].armed
    /\ LET work  == RetryWork(tracked[n], retry[n].why = "clear")
           ready == Decidable(listed[n])
       IN  /\ Start(n, Started(work, ready, tracked[n] /\ local[n]))
           /\ retry' = [retry EXCEPT ![n] = Kept(work, ready, [@ EXCEPT !.armed = FALSE])]
    /\ UNCHANGED <<log, watch, troubles>>

-----------------------------------------------------------------------------
(* An attempt: update_ingress.                                             *)

\* Faulty: the PATCH does not carry the resourceVersion.
NoConflict(t) == FALSE

Conflict(t) == t.rv # Len(log)

\* Faulty: one round too many.
GivesUpLate(t) == t.attempt = MaxConflictRetries

GivesUp(t) == t.attempt = MaxConflictRetries - 1

Proposed(n, t) == MergedIngress(n, log[t.rv].ingress, t.desired)

Update(n, i, t) == tasks' = [tasks EXCEPT ![n][i] = t]

Ended(t, how) == [t EXCEPT !.at = how, !.rv = 0, !.attempt = 0]

\* The GET, and the answer of compute.
Get(n, i) ==
    LET t    == tasks[n][i]
        read == [t EXCEPT !.rv = Len(log)]
    IN  /\ t.at = "get"
        /\ Update(n, i,
             IF Service.kind = "gone" THEN Ended(t, "gone")
             ELSE IF Proposed(n, read) = Service.ingress THEN Ended(t, "done")
             ELSE [read EXCEPT !.at = "patch"])
        /\ UNCHANGED <<log, watch, retry, erased, troubles>>

\* The PATCH that goes through.
Patch(n, i) ==
    LET t == tasks[n][i]
    IN  /\ t.at = "patch" /\ Service.kind # "gone" /\ ~Conflict(t)
        /\ log' = Append(log, [Service EXCEPT !.ingress = Proposed(n, t)])
        /\ \/ Update(n, i, Ended(t, "done")) /\ UNCHANGED troubles
           \/ \* Its answer is lost.
              /\ Trouble
              /\ Update(n, i, Ended(t, "failed"))
        /\ UNCHANGED <<watch, retry, erased>>

\* Faulty: the PATCH is sent again as it was.
SameCopyAgain(t) == [t EXCEPT !.at = "patch"]

\* After a 409 the Service is read again.
NextRound(t) == [t EXCEPT !.at = "get", !.rv = 0, !.attempt = @ + 1]

\* A 409 starts the next round; a 404 here is a failure like any other.
PatchRefused(n, i) ==
    LET t == tasks[n][i]
    IN  /\ t.at = "patch"
        /\ \/ /\ Service.kind = "gone"
              /\ Update(n, i, Ended(t, "failed"))
           \/ /\ Service.kind # "gone" /\ Conflict(t)
              /\ Update(n, i, IF GivesUp(t) THEN Ended(t, "failed") ELSE NextRound(t))
        /\ UNCHANGED <<log, watch, retry, erased, troubles>>

\* A request that does not reach the API server, or is refused by it.
RequestFails(n, i) ==
    LET t == tasks[n][i]
    IN  /\ t.at \in {"get", "patch"} /\ Trouble
        /\ Update(n, i, Ended(t, "failed"))
        /\ UNCHANGED <<log, watch, retry, erased>>

\* attempt_done
AttemptDone(t) == t.at = "done" \/ (t.at = "gone" /\ t.clear)

\* The end of the spawned task.
Record(n, i) ==
    LET t     == tasks[n][i]
        older == [j \in 1..Len(tasks[n]) |->
                    IF j < i /\ ~AttemptDone(t)
                    THEN [tasks[n][j] EXCEPT !.overtaken = TRUE] ELSE tasks[n][j]]
    IN  /\ t.at \in {"done", "failed", "gone"}
        /\ tasks' = [tasks EXCEPT ![n] = RemoveAt(older, i)]
        /\ retry' = [retry EXCEPT ![n] = Recorded(AttemptDone(t), t.clear)]
        /\ erased' = [erased EXCEPT ![n] = @ \/ t.overtaken]
        /\ UNCHANGED <<log, watch, troubles>>

-----------------------------------------------------------------------------
(* The environment.                                                        *)

\* The Service is edited, deleted or created again.
ServiceChange ==
    /\ Trouble
    /\ \E k \in Kinds \ {Service.kind} :
          log' = Append(log, [kind |-> k,
                              ingress |-> IF "gone" \in {k, Service.kind} THEN {}
                                          ELSE Service.ingress])
    /\ UNCHANGED <<watch, tasks, retry, erased>>

\* Another node publishes or withdraws its own address, or prunes one that has
\* no live Lease (confirmed_pruned_ingress), in an attempt that goes through.
PeerWrite ==
    /\ Service.kind # "gone" /\ Trouble
    /\ \/ \E p \in Peers, desired \in BOOLEAN :
             log' = Append(log, [Service EXCEPT !.ingress = MergedIngress(p, @, desired)])
       \/ \E n \in Nodes : log' = Append(log, [Service EXCEPT !.ingress = @ \ {n}])
    /\ Service'.ingress # Service.ingress
    /\ UNCHANGED <<watch, tasks, retry, erased>>

\* A controller dies; the next one knows nothing before its LISTs.
Crash(n) ==
    /\ listed[n] # {} /\ Trouble
    /\ at' = [at EXCEPT ![n] = 0]
    /\ mark' = [mark EXCEPT ![n] = 0]
    /\ listed' = [listed EXCEPT ![n] = {}]
    /\ tracked' = [tracked EXCEPT ![n] = FALSE]
    /\ tasks' = [tasks EXCEPT ![n] = <<>>]
    /\ retry' = [retry EXCEPT ![n] = NoRetry]
    /\ erased' = [erased EXCEPT ![n] = FALSE]
    /\ UNCHANGED <<log, local>>

-----------------------------------------------------------------------------
\* Controllers start on what earlier ones have left in the list.
Init ==
    /\ \E s \in Versions : (s.kind = "gone" => s.ingress = {}) /\ log = <<s>>
    /\ at = [n \in Nodes |-> 0] /\ mark = [n \in Nodes |-> 0]
    /\ listed = [n \in Nodes |-> {}]
    /\ tracked = [n \in Nodes |-> FALSE]
    /\ local \in [Nodes -> BOOLEAN]
    /\ tasks = [n \in Nodes |-> <<>>]
    /\ retry = [n \in Nodes |-> NoRetry]
    /\ erased = [n \in Nodes |-> FALSE]
    /\ troubles = 0

Answer(n, i) == Get(n, i) \/ Patch(n, i) \/ PatchRefused(n, i) \/ Record(n, i)

StartUp(n) == ("Service" \notin listed[n] /\ ServicesRelist(n)) \/ OthersListed(n)

Next ==
    \/ \E n \in Nodes :
          \/ ServiceEvent(n)
          \/ Reconnect(n)
          \/ ServicesRelist(n)
          \/ OthersListed(n)
          \/ LocalityEvent(n)
          \/ RetryDue(n)
          \/ Crash(n)
          \/ \E i \in 1..Len(tasks[n]) : Answer(n, i) \/ RequestFails(n, i)
    \/ ServiceChange
    \/ PeerWrite

Spec == Init /\ [][Next]_vars

\* The API server answers every request, the watch delivers, the LISTs complete
\* and the retry loop polls its deadline.  Events and retries do not wait for
\* attempts to end, only the bound MaxTasks does: hence SF.
GoesOn(n) ==
    /\ \A i \in 1..MaxTasks : WF_vars(i <= Len(tasks[n]) /\ Answer(n, i))
    /\ SF_vars(ServiceEvent(n))
    /\ SF_vars(RetryDue(n))

Fairness == \A n \in Nodes : GoesOn(n) /\ WF_vars(StartUp(n))

FairSpec == Spec /\ Fairness

-----------------------------------------------------------------------------
(* Properties.                                                             *)

(***************************************************************************)
(* Types.  No attempt of update_ingress goes beyond its last round.        *)
(***************************************************************************)
TypeOK ==
    /\ log \in Seq(Versions) /\ log # <<>>
    /\ \A n \in Nodes : at[n] \in 0..Len(log) /\ mark[n] \in 0..at[n]
    /\ listed \in [Nodes -> SUBSET {"Service", "others"}]
    /\ tracked \in [Nodes -> BOOLEAN] /\ local \in [Nodes -> BOOLEAN]
    /\ tasks \in [Nodes -> Seq(Tasks)]
    /\ retry \in [Nodes -> Retries]
    /\ erased \in [Nodes -> BOOLEAN]

(***************************************************************************)
(* "Every entry whose ip is NOT in own_ips belongs to another node and is  *)
(* never touched": although every node rewrites the whole list from a copy *)
(* read earlier, an address comes and goes only by an attempt of the node  *)
(* it belongs to, by a peer's own write, or with the Service.              *)
(***************************************************************************)
OwnEntriesOnly ==
    [][\A a \in Nodes \cup Peers : (a \in Service.ingress) # (a \in Service'.ingress)
          => \/ "gone" \in {Service.kind, Service'.kind}
             \/ PeerWrite
             \/ a \in Nodes /\ tasks'[a] # tasks[a]]_vars

\* A node with nothing under way and nothing due.
AtRest(n) ==
    /\ Decidable(listed[n]) /\ at[n] = Len(log)
    /\ tasks[n] = <<>> /\ ~retry[n].armed

\* The node's address is in the list exactly if it should be.
Correct(n) ==
    Service.kind # "gone"
    => ((n \in Service.ingress) <=> (Service.kind = "LoadBalancer" /\ local[n]))

(***************************************************************************)
(* PublishRetry keeps failed attempts "until it succeeds": a node is never *)
(* at rest with its address missing or wrongly advertised, whatever failed *)
(* and in whatever order its attempts and the replayed events came.        *)
(***************************************************************************)
RetriedUntilDone == \A n \in Nodes : AtRest(n) => Correct(n)

(***************************************************************************)
(* The same, unless the outcome of an attempt was recorded after a younger *)
(* attempt had failed: in every other order the watch, the LISTs and the   *)
(* retries leave each node's address as it should be.                      *)
(***************************************************************************)
AddressSettles == \A n \in Nodes : AtRest(n) /\ ~erased[n] => Correct(n)

(***************************************************************************)
(* Writing the list does not keep the controllers busy for ever: every     *)
(* write, a controller's own or another's, comes back to each of them as a *)
(* Service event and is answered with an attempt that may conflict with    *)
(* another's (update_ingress, run_publish_retry_loop); yet attempts and    *)
(* retries of every controller that has started come to an end, also after *)
(* the Service has been deleted.                                           *)
(***************************************************************************)
WorkEnds == <>[](\A n \in Nodes : listed[n] # {} => AtRest(n))
=============================================================================
