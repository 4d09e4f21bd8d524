------------------------- MODULE IngressStatusProofs -------------------------
(***************************************************************************)
(* Proofs about IngressStatus, for any nodes, peers, rounds, attempts at   *)
(* once and troubles: its types, that an address is written only by the    *)
(* node it belongs to, and that a node does not come to rest on a wrong    *)
(* list unless an overtaken attempt erased its retry.                      *)
(***************************************************************************)
EXTENDS IngressStatus, SequenceTheorems, TLAPS

(***************************************************************************)
(* Types, the two versions of a watch being functions of the node.         *)
(***************************************************************************)
TypeInv == TypeOK /\ at \in [Nodes -> Nat] /\ mark \in [Nodes -> Nat]

\* A watch that is not listed yet is before every version, and one that is at
\* the latest version tracks the Service as it is.
Follows(n) ==
    /\ "Service" \notin listed[n] => at[n] = 0
    /\ "Service" \in listed[n] /\ at[n] = Len(log)
       => (tracked[n] <=> Service.kind = "LoadBalancer")

\* Before every LIST has completed nothing is started, and a clear that the
\* latest version calls for has been put off.
PutOff(n) ==
    ~Decidable(listed[n]) =>
        /\ tasks[n] = <<>>
        /\ retry[n] \in {NoRetry, Deferred}
        /\ at[n] = Len(log) /\ Service.kind = "other" /\ n \in Service.ingress
           => retry[n] = Deferred

\* An attempt that is still going to set the list right, or has failed to.
Right(n, t) ==
    /\ t.desired <=> Service.kind = "LoadBalancer" /\ local[n]
    /\ t.clear <=> Service.kind # "LoadBalancer"
    /\ t.at \in {"get", "patch", "failed"}

\* The retry that is due will start such an attempt, and no attempt under way
\* can end without being noticed as overtaken.
Due(n) ==
    /\ retry[n].armed
    /\ Service.kind = "LoadBalancer" \/ retry[n].why = "clear"
    /\ \A i \in 1..Len(tasks[n]) : tasks[n][i].overtaken

(***************************************************************************)
(* A node that has seen the latest version and finds its address wrong is  *)
(* at work on it: with its youngest attempt, or with a retry that is due.  *)
(***************************************************************************)
AtWork(n) ==
    Decidable(listed[n]) /\ at[n] = Len(log) /\ ~erased[n] /\ ~Correct(n)
    => \/ tasks[n] # <<>> /\ Right(n, tasks[n][Len(tasks[n])])
       \/ Due(n)

NodeInv(n) == Follows(n) /\ PutOff(n) /\ AtWork(n)

StatusInv == TypeInv /\ \A n \in Nodes : NodeInv(n)

-----------------------------------------------------------------------------
(* The operators.                                                          *)

(***************************************************************************)
(* What a sequence is after one of its elements has been removed.          *)
(***************************************************************************)
LEMMA RemoveAtProperties ==
  ASSUME NEW S, NEW s \in Seq(S), NEW i \in 1..Len(s)
  PROVE  /\ RemoveAt(s, i) \in Seq(S)
         /\ Len(RemoveAt(s, i)) = Len(s) - 1
         /\ \A j \in 1..(Len(s) - 1) :
              RemoveAt(s, i)[j] = IF j < i THEN s[j] ELSE s[j + 1]
<1> DEFINE a == SubSeq(s, 1, i - 1)
           b == SubSeq(s, i + 1, Len(s))
<1>0. Len(s) \in Nat /\ \A j \in 1..Len(s) : s[j] \in S
  BY ElementOfSeq, LenProperties
<1>1. /\ a \in Seq(S) /\ Len(a) = i - 1
      /\ \A j \in 1..(i - 1) : a[j] = s[j]
  <2>1. \A j \in 1..(i - 1) : s[j] \in S
    BY <1>0
  <2>2. /\ a \in Seq(S)
        /\ Len(a) = IF 1 <= i - 1 THEN (i - 1) - 1 + 1 ELSE 0
        /\ \A j \in 1..((i - 1) - 1 + 1) : a[j] = s[1 + j - 1]
    BY <1>0, <2>1, SubSeqProperties
  <2> QED BY <1>0, <2>2
<1>2. /\ b \in Seq(S) /\ Len(b) = Len(s) - i
      /\ \A j \in 1..(Len(s) - i) : b[j] = s[i + j]
  <2>1. \A j \in (i + 1)..Len(s) : s[j] \in S
    BY <1>0
  <2>2. /\ b \in Seq(S)
        /\ Len(b) = IF i + 1 <= Len(s) THEN Len(s) - (i + 1) + 1 ELSE 0
        /\ \A j \in 1..(Len(s) - (i + 1) + 1) : b[j] = s[(i + 1) + j - 1]
    BY <1>0, <2>1, SubSeqProperties
  <2> QED BY <1>0, <2>2
<1>3. /\ a \o b \in Seq(S) /\ Len(a \o b) = Len(a) + Len(b)
      /\ \A j \in 1..(Len(a) + Len(b)) :
           (a \o b)[j] = IF j <= Len(a) THEN a[j] ELSE b[j - Len(a)]
  BY <1>1, <1>2, ConcatProperties
<1>4. RemoveAt(s, i) = a \o b
  BY DEF RemoveAt
<1> HIDE DEF a, b
<1>5. Len(a) + Len(b) = Len(s) - 1
  BY <1>0, <1>1, <1>2
<1>6. ASSUME NEW j \in 1..(Len(s) - 1)
      PROVE  (a \o b)[j] = IF j < i THEN s[j] ELSE s[j + 1]
  <2>1. CASE j < i
    <3>1. j \in 1..(i - 1) /\ j <= Len(a)
      BY <1>0, <1>1, <2>1
    <3> QED BY <1>1, <1>3, <1>5, <2>1, <3>1
  <2>2. CASE ~(j < i)
    <3>1. j - Len(a) \in 1..(Len(s) - i) /\ ~(j <= Len(a)) /\ i + (j - Len(a)) = j + 1
      BY <1>0, <1>1, <2>2
    <3> QED BY <1>2, <1>3, <1>5, <2>2, <3>1
  <2> QED BY <2>1, <2>2
<1> QED BY <1>3, <1>4, <1>5, <1>6

(***************************************************************************)
(* run_ingress_work starts one attempt or none.                            *)
(***************************************************************************)
LEMMA StartedOne ==
  ASSUME NEW work, NEW ready \in BOOLEAN, NEW desired \in BOOLEAN
  PROVE  /\ Started(work, ready, desired) \in Seq(Tasks)
         /\ ready /\ work \in {"Publish", "Clear"} =>
              /\ Len(Started(work, ready, desired)) = 1
              /\ Started(work, ready, desired)[1].at = "get"
              /\ Started(work, ready, desired)[1].desired <=> work = "Publish" /\ desired
              /\ Started(work, ready, desired)[1].clear <=> work = "Clear"
         /\ ~(ready /\ work \in {"Publish", "Clear"}) =>
              Started(work, ready, desired) = <<>>
<1> DEFINE t == Attempt(work = "Publish" /\ desired, work = "Clear")
<1>1. t \in Tasks
  BY IngressAssumption DEF Attempt, Tasks, IngressAssumption
<1>2. t.at = "get" /\ (t.desired <=> work = "Publish" /\ desired) /\ (t.clear <=> work = "Clear")
  BY DEF Attempt
<1> HIDE DEF t
<1>3. <<t>> \in Seq(Tasks) /\ Len(<<t>>) = 1 /\ <<t>>[1] = t
  BY <1>1
<1>4. CASE ready /\ work \in {"Publish", "Clear"}
  <2>1. Started(work, ready, desired) = <<t>>
    BY <1>4 DEF Started, t
  <2> QED BY <1>2, <1>3, <1>4, <2>1
<1>5. CASE ~(ready /\ work \in {"Publish", "Clear"})
  <2>1. Started(work, ready, desired) = <<>>
    BY <1>5 DEF Started
  <2> QED BY <1>5, <2>1
<1> QED BY <1>4, <1>5

(***************************************************************************)
(* After Start a node has the attempts it had and then the new ones.       *)
(***************************************************************************)
LEMMA StartProperties ==
  ASSUME TypeInv, NEW n \in Nodes, NEW s \in Seq(Tasks), Start(n, s)
  PROVE  /\ tasks' \in [Nodes -> Seq(Tasks)] /\ erased' \in [Nodes -> BOOLEAN]
         /\ \A m \in Nodes \ {n} : tasks'[m] = tasks[m] /\ erased'[m] = erased[m]
         /\ s = <<>> => tasks'[n] = tasks[n] /\ (erased'[n] <=> erased[n])
         /\ s # <<>> => /\ tasks'[n] # <<>> /\ ~erased'[n]
                        /\ tasks'[n][Len(tasks'[n])] = s[Len(s)]
<1>1. tasks \in [Nodes -> Seq(Tasks)] /\ erased \in [Nodes -> BOOLEAN] /\ tasks[n] \in Seq(Tasks)
  BY DEF TypeInv, TypeOK
<1>2. /\ tasks[n] \o s \in Seq(Tasks) /\ Len(tasks[n] \o s) = Len(tasks[n]) + Len(s)
      /\ \A i \in 1..(Len(tasks[n]) + Len(s)) : (tasks[n] \o s)[i] =
            IF i <= Len(tasks[n]) THEN tasks[n][i] ELSE s[i - Len(tasks[n])]
  BY <1>1, ConcatProperties
<1>3. /\ tasks' = [tasks EXCEPT ![n] = tasks[n] \o s]
      /\ erased' = [erased EXCEPT ![n] = erased[n] /\ s = <<>>]
  BY DEF Start
<1>4. /\ tasks' \in [Nodes -> Seq(Tasks)] /\ tasks'[n] = tasks[n] \o s
      /\ \A m \in Nodes \ {n} : tasks'[m] = tasks[m]
  BY <1>1, <1>2, <1>3
<1>5. /\ erased' \in [Nodes -> BOOLEAN] /\ (erased'[n] <=> erased[n] /\ s = <<>>)
      /\ \A m \in Nodes \ {n} : erased'[m] = erased[m]
  BY <1>1, <1>3, Zenon
<1>6. s = <<>> => tasks'[n] = tasks[n]
  BY <1>1, <1>4, ConcatEmptySeq
<1>7. ASSUME s # <<>>
      PROVE  tasks'[n] # <<>> /\ tasks'[n][Len(tasks'[n])] = s[Len(s)]
  <2>1. Len(s) \in Nat \ {0} /\ Len(tasks[n]) \in Nat
    BY <1>1, <1>7, EmptySeq, LenProperties
  <2>2. Len(tasks'[n]) = Len(tasks[n]) + Len(s)
    BY <1>2, <1>4
  <2>3. (tasks[n] \o s)[Len(tasks[n]) + Len(s)] = s[(Len(tasks[n]) + Len(s)) - Len(tasks[n])]
    BY <1>2, <2>1
  <2>4. (Len(tasks[n]) + Len(s)) - Len(tasks[n]) = Len(s)
    BY <2>1
  <2>5. tasks'[n] # <<>>
    BY <2>1, <2>2, EmptySeq
  <2> QED BY <1>4, <2>2, <2>3, <2>4, <2>5
<1> QED BY <1>4, <1>5, <1>6, <1>7

(***************************************************************************)
(* An attempt that has moved on is the only one to change.                 *)
(***************************************************************************)
LEMMA UpdateProperties ==
  ASSUME TypeInv, NEW n \in Nodes, NEW i \in 1..Len(tasks[n]), NEW t \in Tasks, Update(n, i, t)
  PROVE  /\ tasks' \in [Nodes -> Seq(Tasks)]
         /\ \A m \in Nodes \ {n} : tasks'[m] = tasks[m]
         /\ Len(tasks'[n]) = Len(tasks[n]) /\ tasks'[n] # <<>>
         /\ \A j \in 1..Len(tasks[n]) : tasks'[n][j] = IF j = i THEN t ELSE tasks[n][j]
<1>1. tasks \in [Nodes -> Seq(Tasks)] /\ tasks[n] \in Seq(Tasks)
  BY DEF TypeInv, TypeOK
<1> DEFINE new == [tasks[n] EXCEPT ![i] = t]
<1>2. /\ new \in Seq(Tasks) /\ Len(new) = Len(tasks[n])
      /\ \A j \in 1..Len(tasks[n]) : new[j] = IF j = i THEN t ELSE tasks[n][j]
  BY <1>1, ExceptSeq
<1>3. tasks' = [tasks EXCEPT ![n] = new]
  BY DEF Update
<1> HIDE DEF new
<1>4. tasks' \in [Nodes -> Seq(Tasks)] /\ tasks'[n] = new /\ \A m \in Nodes \ {n} : tasks'[m] = tasks[m]
  BY <1>1, <1>2, <1>3
<1>5. tasks'[n] # <<>>
  BY <1>1, <1>2, <1>4, EmptySeq, LenProperties
<1> QED BY <1>2, <1>4, <1>5

\* The log, and its latest version, are of their types.
LEMMA LatestVersion ==
  ASSUME TypeInv
  PROVE  Len(log) \in Nat \ {0} /\ Service \in Versions
<1>1. log \in Seq(Versions) /\ log # <<>>
  BY DEF TypeInv, TypeOK
<1>2. Len(log) \in Nat \ {0}
  BY <1>1, EmptySeq
<1>3. log[Len(log)] \in Versions
  BY <1>1, <1>2, ElementOfSeq
<1> QED BY <1>2, <1>3 DEF Service

(***************************************************************************)
(* A write to the Service adds a version, which no watch has seen.         *)
(***************************************************************************)
LEMMA LogGrows ==
  ASSUME TypeInv, NEW v \in Versions, log' = Append(log, v)
  PROVE  /\ log' \in Seq(Versions) /\ log' # <<>>
         /\ Len(log') = Len(log) + 1 /\ Service' = v
         /\ \A n \in Nodes : at[n] \in 0..Len(log') /\ at[n] # Len(log')
<1>1. log \in Seq(Versions) /\ Len(log) \in Nat /\ \A n \in Nodes : at[n] \in 0..Len(log)
  BY LatestVersion DEF TypeInv, TypeOK
<1>2. /\ log' \in Seq(Versions) /\ log' # <<>> /\ Len(log') = Len(log) + 1
      /\ log'[Len(log) + 1] = v
  BY <1>1, AppendProperties
<1> QED BY <1>1, <1>2 DEF Service

\* What becomes of the retry is a retry.
LEMMA RetryTypes ==
  /\ NoRetry \in Retries /\ Deferred \in Retries
  /\ \A done, clear \in BOOLEAN : Recorded(done, clear) \in Retries
  /\ \A work : \A ready \in BOOLEAN : \A r \in Retries : Kept(work, ready, r) \in Retries
<1>1. NoRetry \in Retries /\ Deferred \in Retries
  BY DEF NoRetry, Deferred, Retries
<1>2. ASSUME NEW done \in BOOLEAN, NEW clear \in BOOLEAN
      PROVE  Recorded(done, clear) \in Retries
  BY <1>1 DEF Recorded, Retries
<1>3. ASSUME NEW work, NEW ready \in BOOLEAN, NEW r \in Retries
      PROVE  Kept(work, ready, r) \in Retries
  BY <1>1, <1>3 DEF Kept
<1> QED BY <1>1, <1>2, <1>3

\* Where an attempt goes next.
LEMMA TaskTypes ==
  ASSUME NEW t \in Tasks
  PROVE  /\ \A how \in {"done", "failed", "gone"} :
              Ended(t, how) \in Tasks /\ Ended(t, how).at = how
              /\ Ended(t, how).desired = t.desired /\ Ended(t, how).clear = t.clear
              /\ Ended(t, how).overtaken = t.overtaken
         /\ AttemptDone(t) \in BOOLEAN
<1>1. 0 \in 0..(MaxConflictRetries - 1)
  BY IngressAssumption DEF IngressAssumption
<1>2. ASSUME NEW how \in {"done", "failed", "gone"}
      PROVE  Ended(t, how) \in Tasks /\ Ended(t, how).at = how
             /\ Ended(t, how).desired = t.desired /\ Ended(t, how).clear = t.clear
             /\ Ended(t, how).overtaken = t.overtaken
  BY <1>1 DEF Ended, Tasks
<1>3. AttemptDone(t) \in BOOLEAN
  BY DEF AttemptDone
<1> QED BY <1>2, <1>3

-----------------------------------------------------------------------------
(* Types.                                                                  *)

LEMMA TypeInit == Init => TypeInv
<1> SUFFICES ASSUME Init PROVE TypeInv
  OBVIOUS
<1>1. log \in Seq(Versions) /\ log # <<>>
  <2>1. PICK s \in Versions : log = <<s>>
    BY DEF Init
  <2> QED BY <2>1
<1>2. tasks \in [Nodes -> Seq(Tasks)]
  BY EmptySeq DEF Init
<1>3. retry \in [Nodes -> Retries]
  BY RetryTypes DEF Init
<1>4. at \in [Nodes -> Nat] /\ mark \in [Nodes -> Nat] /\ listed \in [Nodes -> SUBSET {"Service", "others"}]
  BY DEF Init
<1>5. tracked \in [Nodes -> BOOLEAN] /\ local \in [Nodes -> BOOLEAN] /\ erased \in [Nodes -> BOOLEAN]
  BY Zenon DEF Init
<1>6. \A n \in Nodes : at[n] \in 0..Len(log) /\ mark[n] \in 0..at[n]
  <2>1. Len(log) \in Nat
    BY <1>1, LenProperties
  <2> QED BY <2>1 DEF Init
<1> QED BY <1>1, <1>2, <1>3, <1>4, <1>5, <1>6 DEF TypeInv, TypeOK

\* The LISTs and watches: everything but the log.
LEMMA WatchTypes ==
  ASSUME TypeInv, NEW n \in Nodes,
         \/ ServiceEvent(n) \/ Reconnect(n) \/ ServicesRelist(n) \/ OthersListed(n)
         \/ LocalityEvent(n) \/ RetryDue(n) \/ Crash(n)
  PROVE  TypeInv'
<1> USE DEF TypeInv, TypeOK
<1>0. Len(log) \in Nat \ {0} /\ Service \in Versions
  BY LatestVersion
<1>1. CASE ServiceEvent(n)
  <2> DEFINE v == log[at[n] + 1]
             ready == Decidable(listed[n])
             lb == v.kind = "LoadBalancer"
             s == Started(EventWork(v), ready, lb /\ local[n])
  <2>1. ready \in BOOLEAN /\ (lb /\ local[n]) \in BOOLEAN /\ lb \in BOOLEAN
    BY DEF Decidable
  <2>2. s \in Seq(Tasks)
    BY <2>1, StartedOne
  <2>3. Start(n, s) /\ tracked' = [tracked EXCEPT ![n] = lb]
    BY <1>1 DEF ServiceEvent
  <2>4. retry' = [retry EXCEPT ![n] = Kept(EventWork(v), ready, retry[n])]
    BY <1>1 DEF ServiceEvent
  <2>5. Kept(EventWork(v), ready, retry[n]) \in Retries
    BY <2>1, RetryTypes
  <2> HIDE DEF s, lb, ready, v
  <2>6. retry' \in [Nodes -> Retries]
    BY <2>4, <2>5
  <2>7. tracked' \in [Nodes -> BOOLEAN]
    BY <2>1, <2>3, Zenon
  <2>8. tasks' \in [Nodes -> Seq(Tasks)] /\ erased' \in [Nodes -> BOOLEAN]
    BY <2>2, <2>3, StartProperties
  <2>9. /\ at' \in [Nodes -> Nat]
        /\ \A m \in Nodes : at'[m] \in 0..Len(log) /\ mark[m] \in 0..at'[m]
    BY <1>0, <1>1 DEF ServiceEvent
  <2>10. UNCHANGED <<log, mark, listed, local>>
    BY <1>1 DEF ServiceEvent
  <2> QED BY <2>6, <2>7, <2>8, <2>9, <2>10
<1>2. CASE Reconnect(n)
  <2>1. PICK v \in mark[n]..at[n] : at' = [at EXCEPT ![n] = v] /\ mark' = [mark EXCEPT ![n] = v]
    BY <1>2 DEF Reconnect
  <2>2. v \in Nat /\ v \in 0..Len(log)
    BY <1>0
  <2>3. /\ at' \in [Nodes -> Nat] /\ mark' \in [Nodes -> Nat]
        /\ \A m \in Nodes : at'[m] \in 0..Len(log) /\ mark'[m] \in 0..at'[m]
    BY <1>0, <2>1, <2>2
  <2> QED BY <1>2, <2>3 DEF Reconnect
<1>3. ASSUME NEW lists \in SUBSET {"Service", "others"}, NEW isTracked \in BOOLEAN, NEW work,
             Listed(n, lists, isTracked, work)
      PROVE  /\ listed' \in [Nodes -> SUBSET {"Service", "others"}]
             /\ tracked' \in [Nodes -> BOOLEAN]
             /\ tasks' \in [Nodes -> Seq(Tasks)] /\ erased' \in [Nodes -> BOOLEAN]
             /\ retry' \in [Nodes -> Retries]
  <2> DEFINE ready == Decidable(lists)
             desired == isTracked /\ local[n]
             kept == Kept(work, ready, retry[n])
             more == IF ready /\ ~Decidable(listed[n]) THEN AfterList(isTracked, kept) ELSE "None"
             s == Started(work, ready, desired) \o Started(more, ready, desired)
  <2>1. ready \in BOOLEAN /\ desired \in BOOLEAN
    BY DEF Decidable
  <2>2. /\ listed' = [listed EXCEPT ![n] = lists] /\ tracked' = [tracked EXCEPT ![n] = isTracked]
        /\ Start(n, s) /\ retry' = [retry EXCEPT ![n] = Kept(more, ready, kept)]
    BY <1>3 DEF Listed
  <2> HIDE DEF ready, desired, more
  <2>3. Started(work, ready, desired) \in Seq(Tasks) /\ Started(more, ready, desired) \in Seq(Tasks)
    BY <2>1, StartedOne
  <2>4. s \in Seq(Tasks)
    BY <2>3, ConcatProperties
  <2>5. kept \in Retries
    BY <2>1, RetryTypes
  <2>6. Kept(more, ready, kept) \in Retries
    BY <2>1, <2>5, RetryTypes
  <2> HIDE DEF kept, s
  <2>7. tasks' \in [Nodes -> Seq(Tasks)] /\ erased' \in [Nodes -> BOOLEAN]
    BY <2>2, <2>4, StartProperties
  <2>8. tracked' \in [Nodes -> BOOLEAN]
    BY <2>2, Zenon
  <2> QED BY <2>2, <2>6, <2>7, <2>8
<1>4. CASE ServicesRelist(n)
  <2>1. /\ Listed(n, listed[n] \cup {"Service"}, Service.kind = "LoadBalancer", RelistWork(Service))
        /\ at' = [at EXCEPT ![n] = Len(log)] /\ mark' = [mark EXCEPT ![n] = Len(log)]
        /\ UNCHANGED <<log, local>>
    BY <1>4 DEF ServicesRelist
  <2>2. listed[n] \cup {"Service"} \in SUBSET {"Service", "others"}
    OBVIOUS
  <2>3. (Service.kind = "LoadBalancer") \in BOOLEAN
    OBVIOUS
  <2>4. /\ at' \in [Nodes -> Nat] /\ mark' \in [Nodes -> Nat]
        /\ \A m \in Nodes : at'[m] \in 0..Len(log) /\ mark'[m] \in 0..at'[m]
    BY <1>0, <2>1
  <2> QED BY <1>3, <2>1, <2>2, <2>3, <2>4
<1>5. CASE OthersListed(n)
  <2>1. /\ Listed(n, listed[n] \cup {"others"}, tracked[n], Republished(tracked[n]))
        /\ UNCHANGED <<log, at, mark, local>>
    BY <1>5 DEF OthersListed
  <2>2. listed[n] \cup {"others"} \in SUBSET {"Service", "others"} /\ tracked[n] \in BOOLEAN
    OBVIOUS
  <2> QED BY <1>3, <2>1, <2>2
<1>6. CASE LocalityEvent(n)
  <2>1. PICK here \in BOOLEAN :
          /\ local' = [local EXCEPT ![n] = here]
          /\ Start(n, Started(Republished(tracked[n]), Decidable(listed[n]), here))
    BY <1>6 DEF LocalityEvent
  <2>2. Decidable(listed[n]) \in BOOLEAN
    BY DEF Decidable
  <2>3. Started(Republished(tracked[n]), Decidable(listed[n]), here) \in Seq(Tasks)
    BY <2>2, StartedOne
  <2>4. tasks' \in [Nodes -> Seq(Tasks)] /\ erased' \in [Nodes -> BOOLEAN]
    BY <2>1, <2>3, StartProperties
  <2>5. local' \in [Nodes -> BOOLEAN]
    BY <2>1, Zenon
  <2> QED BY <1>6, <2>4, <2>5 DEF LocalityEvent
<1>7. CASE RetryDue(n)
  <2> DEFINE work == RetryWork(tracked[n], retry[n].why = "clear")
             ready == Decidable(listed[n])
             r == [retry[n] EXCEPT !.armed = FALSE]
  <2>1. ready \in BOOLEAN /\ (tracked[n] /\ local[n]) \in BOOLEAN /\ r \in Retries
    BY DEF Decidable, Retries
  <2>2. /\ Start(n, Started(work, ready, tracked[n] /\ local[n]))
        /\ retry' = [retry EXCEPT ![n] = Kept(work, ready, r)]
        /\ UNCHANGED <<log, watch>>
    BY <1>7 DEF RetryDue
  <2> HIDE DEF work, ready, r
  <2>3. Started(work, ready, tracked[n] /\ local[n]) \in Seq(Tasks)
    BY <2>1, StartedOne
  <2>4. tasks' \in [Nodes -> Seq(Tasks)] /\ erased' \in [Nodes -> BOOLEAN]
    BY <2>2, <2>3, StartProperties
  <2>5. Kept(work, ready, r) \in Retries
    BY <2>1, RetryTypes
  <2>6. retry' \in [Nodes -> Retries]
    BY <2>2, <2>5
  <2> QED BY <2>2, <2>4, <2>6 DEF watch
<1>8. CASE Crash(n)
  <2>1. /\ at' = [at EXCEPT ![n] = 0] /\ mark' = [mark EXCEPT ![n] = 0]
        /\ listed' = [listed EXCEPT ![n] = {}] /\ tracked' = [tracked EXCEPT ![n] = FALSE]
        /\ tasks' = [tasks EXCEPT ![n] = <<>>] /\ retry' = [retry EXCEPT ![n] = NoRetry]
        /\ erased' = [erased EXCEPT ![n] = FALSE] /\ UNCHANGED <<log, local>>
    BY <1>8 DEF Crash
  <2>2. tasks' \in [Nodes -> Seq(Tasks)]
    BY <2>1, EmptySeq
  <2>3. retry' \in [Nodes -> Retries]
    BY <2>1, RetryTypes
  <2>4. tracked' \in [Nodes -> BOOLEAN] /\ erased' \in [Nodes -> BOOLEAN]
    BY <2>1, Zenon
  <2>5. /\ at' \in [Nodes -> Nat] /\ mark' \in [Nodes -> Nat]
        /\ \A m \in Nodes : at'[m] \in 0..Len(log) /\ mark'[m] \in 0..at'[m]
    BY <1>0, <2>1
  <2>6. listed' \in [Nodes -> SUBSET {"Service", "others"}]
    BY <2>1
  <2> QED BY <2>1, <2>2, <2>3, <2>4, <2>5, <2>6
<1> QED BY <1>1, <1>2, <1>4, <1>5, <1>6, <1>7, <1>8

(***************************************************************************)
(* A round of update_ingress that writes nothing: the attempt stays what   *)
(* it was started for, and is done only if the list is as it wants it.     *)
(***************************************************************************)
LEMMA Rounds ==
  ASSUME TypeInv, NEW n \in Nodes, NEW i \in 1..Len(tasks[n]),
         Get(n, i) \/ PatchRefused(n, i) \/ RequestFails(n, i)
  PROVE  /\ UNCHANGED <<log, watch, retry, erased>>
         /\ \E u \in Tasks :
              /\ Update(n, i, u)
              /\ u.desired = tasks[n][i].desired /\ u.clear = tasks[n][i].clear
              /\ u.overtaken = tasks[n][i].overtaken
              /\ \/ u.at \in {"get", "patch", "failed"}
                 \/ u.at = "gone" /\ Service.kind = "gone"
                 \/ u.at = "done" /\ MergedIngress(n, Service.ingress, u.desired) = Service.ingress
<1>1. PICK t : t = tasks[n][i]
  OBVIOUS
<1>2. t \in Tasks
  BY <1>1, ElementOfSeq DEF TypeInv, TypeOK
<1>3. Len(log) \in Nat /\ MaxConflictRetries \in Nat
  BY LatestVersion, IngressAssumption DEF IngressAssumption
<1>4. CASE Get(n, i)
  <2> DEFINE read == [t EXCEPT !.rv = Len(log)]
             u == IF Service.kind = "gone" THEN Ended(t, "gone")
                  ELSE IF Proposed(n, read) = Service.ingress THEN Ended(t, "done")
                  ELSE [read EXCEPT !.at = "patch"]
  <2>1. t.at = "get" /\ Update(n, i, u) /\ UNCHANGED <<log, watch, retry, erased>>
    BY <1>1, <1>4 DEF Get
  <2>2. read \in Tasks /\ read.rv = Len(log) /\ read.desired = t.desired
        /\ read.clear = t.clear /\ read.overtaken = t.overtaken
    BY <1>2, <1>3 DEF Tasks
  <2>3. Proposed(n, read) = MergedIngress(n, Service.ingress, t.desired)
    BY <2>2 DEF Proposed, Service
  <2> HIDE DEF read
  <2>4. CASE Service.kind = "gone"
    <3>1. u = Ended(t, "gone")
      BY <2>4
    <3> QED BY <1>1, <1>2, <2>1, <2>4, <3>1, TaskTypes
  <2>5. CASE Service.kind # "gone" /\ Proposed(n, read) = Service.ingress
    <3>1. u = Ended(t, "done")
      BY <2>5
    <3> HIDE DEF u
    <3>2. /\ u \in Tasks /\ u.at = "done" /\ u.desired = t.desired /\ u.clear = t.clear
          /\ u.overtaken = t.overtaken
      BY <1>2, <3>1, TaskTypes
    <3>3. MergedIngress(n, Service.ingress, u.desired) = Service.ingress
      BY <2>3, <2>5, <3>2
    <3> QED BY <1>1, <2>1, <3>2, <3>3
  <2>6. CASE Service.kind # "gone" /\ Proposed(n, read) # Service.ingress
    <3>1. u = [read EXCEPT !.at = "patch"]
      BY <2>6
    <3>2. u \in Tasks /\ u.at = "patch" /\ u.desired = t.desired /\ u.clear = t.clear
          /\ u.overtaken = t.overtaken
      BY <2>2, <3>1 DEF Tasks
    <3> QED BY <1>1, <2>1, <3>2
  <2> QED BY <2>4, <2>5, <2>6
<1>5. CASE PatchRefused(n, i)
  <2>1. UNCHANGED <<log, watch, retry, erased>>
    BY <1>5 DEF PatchRefused, NextRound
  <2>2. CASE Update(n, i, Ended(t, "failed"))
    BY <1>1, <1>2, <2>1, <2>2, TaskTypes
  <2>3. CASE ~GivesUp(t) /\ Update(n, i, [t EXCEPT !.at = "get", !.rv = 0, !.attempt = @ + 1])
    <3> DEFINE u == [t EXCEPT !.at = "get", !.rv = 0, !.attempt = @ + 1]
    <3>1. t.attempt \in 0..(MaxConflictRetries - 1) /\ t.attempt # MaxConflictRetries - 1
      BY <1>2, <2>3 DEF Tasks, GivesUp
    <3>2. t.attempt + 1 \in 0..(MaxConflictRetries - 1)
      BY <1>3, <3>1
    <3>3. u \in Tasks /\ u.at = "get" /\ u.desired = t.desired /\ u.clear = t.clear
          /\ u.overtaken = t.overtaken
      BY <1>2, <3>2 DEF Tasks
    <3>4. Update(n, i, u)
      BY <2>3
    <3> QED BY <1>1, <2>1, <3>3, <3>4
  <2> QED BY <1>1, <1>5, <2>2, <2>3 DEF PatchRefused, NextRound
<1>6. CASE RequestFails(n, i)
  <2>1. Update(n, i, Ended(t, "failed")) /\ UNCHANGED <<log, watch, retry, erased>>
    BY <1>1, <1>6 DEF RequestFails
  <2> QED BY <1>1, <1>2, <2>1, TaskTypes
<1> QED BY <1>4, <1>5, <1>6

(***************************************************************************)
(* A PATCH that goes through was made from the latest version: it adds one *)
(* that differs in the node's own address at most.                         *)
(***************************************************************************)
LEMMA Patches ==
  ASSUME TypeInv, NEW n \in Nodes, NEW i \in 1..Len(tasks[n]), Patch(n, i)
  PROVE  /\ UNCHANGED <<watch, retry, erased>>
         /\ \E v \in Versions :
              /\ log' = Append(log, v) /\ v.kind = Service.kind
              /\ v.ingress = MergedIngress(n, Service.ingress, tasks[n][i].desired)
         /\ \E u \in Tasks : Update(n, i, u) /\ u.at # tasks[n][i].at
<1>1. PICK t : t = tasks[n][i]
  OBVIOUS
<1>2. t \in Tasks /\ Service \in Versions
  BY <1>1, ElementOfSeq, LatestVersion DEF TypeInv, TypeOK
<1>3. t.at = "patch" /\ t.rv = Len(log) /\ UNCHANGED <<watch, retry, erased>>
  BY <1>1 DEF Patch, Conflict
<1>4. Proposed(n, t) = MergedIngress(n, Service.ingress, t.desired)
  BY <1>3 DEF Proposed, Service
<1>5. log' = Append(log, [Service EXCEPT !.ingress = Proposed(n, t)])
  BY <1>1 DEF Patch
<1>6. \/ Update(n, i, Ended(t, "done")) \/ Update(n, i, Ended(t, "failed"))
  BY <1>1 DEF Patch
<1>7. \E u \in Tasks : Update(n, i, u) /\ u.at # t.at
  BY <1>2, <1>3, <1>6, TaskTypes
<1>8. \E v \in Versions : /\ log' = Append(log, v) /\ v.kind = Service.kind
                          /\ v.ingress = MergedIngress(n, Service.ingress, t.desired)
  <2> DEFINE v == [Service EXCEPT !.ingress = Proposed(n, t)]
  <2>1. MergedIngress(n, Service.ingress, t.desired) \in SUBSET (Nodes \cup Peers)
    BY <1>2 DEF MergedIngress, Versions
  <2>2. v \in Versions /\ v.kind = Service.kind /\ v.ingress = Proposed(n, t)
    BY <1>2, <1>4, <2>1 DEF Versions
  <2> QED BY <1>4, <1>5, <2>2
<1> QED BY <1>1, <1>3, <1>7, <1>8

(***************************************************************************)
(* The end of an attempt: it leaves, and if it was no success, every older *)
(* one is marked.                                                          *)
(***************************************************************************)
LEMMA Records ==
  ASSUME TypeInv, NEW n \in Nodes, NEW i \in 1..Len(tasks[n]), Record(n, i)
  PROVE  /\ UNCHANGED <<log, watch>> /\ tasks[n][i].at \in {"done", "failed", "gone"}
         /\ tasks' \in [Nodes -> Seq(Tasks)] /\ erased' \in [Nodes -> BOOLEAN]
         /\ retry' \in [Nodes -> Retries]
         /\ \A m \in Nodes \ {n} : /\ tasks'[m] = tasks[m] /\ erased'[m] = erased[m]
                                   /\ retry'[m] = retry[m]
         /\ Len(tasks'[n]) = Len(tasks[n]) - 1
         /\ \A j \in 1..(Len(tasks[n]) - 1) :
              /\ j < i /\ ~AttemptDone(tasks[n][i]) => tasks'[n][j].overtaken
              /\ ~(j < i) => tasks'[n][j] = tasks[n][j + 1]
         /\ retry'[n] = Recorded(AttemptDone(tasks[n][i]), tasks[n][i].clear)
         /\ erased'[n] <=> erased[n] \/ tasks[n][i].overtaken
<1>1. PICK t : t = tasks[n][i]
  OBVIOUS
<1>2. /\ tasks \in [Nodes -> Seq(Tasks)] /\ tasks[n] \in Seq(Tasks)
      /\ erased \in [Nodes -> BOOLEAN] /\ retry \in [Nodes -> Retries]
      /\ Len(tasks[n]) \in Nat /\ \A j \in 1..Len(tasks[n]) : tasks[n][j] \in Tasks
  BY ElementOfSeq, LenProperties DEF TypeInv, TypeOK
<1>3. t \in Tasks
  BY <1>1, <1>2
<1> DEFINE Mark(j) == IF j < i /\ ~AttemptDone(t)
                      THEN [tasks[n][j] EXCEPT !.overtaken = TRUE] ELSE tasks[n][j]
           older == [j \in 1..Len(tasks[n]) |-> Mark(j)]
<1>4. /\ t.at \in {"done", "failed", "gone"}
      /\ tasks' = [tasks EXCEPT ![n] = RemoveAt(older, i)]
      /\ retry' = [retry EXCEPT ![n] = Recorded(AttemptDone(t), t.clear)]
      /\ erased' = [erased EXCEPT ![n] = erased[n] \/ t.overtaken]
      /\ UNCHANGED <<log, watch>>
  BY <1>1 DEF Record
<1>5. ASSUME NEW j \in 1..Len(tasks[n])
      PROVE  /\ Mark(j) \in Tasks
             /\ j < i /\ ~AttemptDone(t) => Mark(j).overtaken
             /\ ~(j < i) => Mark(j) = tasks[n][j]
  <2>1. PICK o : o = tasks[n][j]
    OBVIOUS
  <2>2. o \in Tasks
    BY <1>2, <2>1
  <2>3. CASE j < i /\ ~AttemptDone(t)
    <3>1. Mark(j) = [o EXCEPT !.overtaken = TRUE]
      BY <2>1, <2>3
    <3>2. [o EXCEPT !.overtaken = TRUE] \in Tasks
      BY <2>2 DEF Tasks
    <3> QED BY <2>1, <2>2, <3>1, <3>2 DEF Tasks
  <2>4. CASE ~(j < i /\ ~AttemptDone(t))
    BY <2>1, <2>2, <2>4
  <2> QED BY <2>3, <2>4
<1> HIDE DEF Mark
<1>6. older \in Seq(Tasks) /\ Len(older) = Len(tasks[n]) /\ i \in 1..Len(older)
  <2>1. older \in [1..Len(tasks[n]) -> Tasks]
    BY <1>5
  <2>2. older \in Seq(Tasks)
    BY <1>2, <2>1, SeqDef
  <2> QED BY <1>2, <2>1, <2>2, LenProperties
<1>7. \A j \in 1..Len(tasks[n]) : older[j] = Mark(j)
  OBVIOUS
<1> HIDE DEF older
<1>8. /\ RemoveAt(older, i) \in Seq(Tasks)
      /\ Len(RemoveAt(older, i)) = Len(tasks[n]) - 1
      /\ \A j \in 1..(Len(tasks[n]) - 1) :
            RemoveAt(older, i)[j] = IF j < i THEN older[j] ELSE older[j + 1]
  BY <1>6, RemoveAtProperties
<1>9. /\ tasks' \in [Nodes -> Seq(Tasks)] /\ tasks'[n] = RemoveAt(older, i)
      /\ \A m \in Nodes \ {n} : tasks'[m] = tasks[m]
  BY <1>2, <1>4, <1>8
<1>10. /\ retry' \in [Nodes -> Retries] /\ retry'[n] = Recorded(AttemptDone(t), t.clear)
       /\ \A m \in Nodes \ {n} : retry'[m] = retry[m]
  <2>1. AttemptDone(t) \in BOOLEAN /\ t.clear \in BOOLEAN
    BY <1>3, TaskTypes DEF Tasks
  <2>2. Recorded(AttemptDone(t), t.clear) \in Retries
    BY <2>1, RetryTypes
  <2> QED BY <1>2, <1>4, <2>2
<1>11. /\ erased' \in [Nodes -> BOOLEAN] /\ (erased'[n] <=> erased[n] \/ t.overtaken)
       /\ \A m \in Nodes \ {n} : erased'[m] = erased[m]
  <2>1. t.overtaken \in BOOLEAN
    BY <1>3 DEF Tasks
  <2> QED BY <1>2, <1>4, <2>1, Zenon
<1>12. ASSUME NEW j \in 1..(Len(tasks[n]) - 1)
       PROVE  /\ j < i /\ ~AttemptDone(tasks[n][i]) => tasks'[n][j].overtaken
              /\ ~(j < i) => tasks'[n][j] = tasks[n][j + 1]
  <2>1. PICK k \in 1..Len(tasks[n]) : k = IF j < i THEN j ELSE j + 1
    BY <1>2
  <2>2. tasks'[n][j] = Mark(k)
    BY <1>7, <1>8, <1>9, <2>1
  <2>3. (j < i => k < i) /\ (~(j < i) => k = j + 1 /\ ~(k < i))
    BY <2>1
  <2> QED BY <1>1, <1>5, <2>2, <2>3
<1> QED BY <1>1, <1>4, <1>8, <1>9, <1>10, <1>11, <1>12

LEMMA AttemptTypes ==
  ASSUME TypeInv, NEW n \in Nodes, NEW i \in 1..Len(tasks[n]),
         Answer(n, i) \/ RequestFails(n, i)
  PROVE  TypeInv'
<1> USE DEF TypeInv, TypeOK
<1>1. CASE Get(n, i) \/ PatchRefused(n, i) \/ RequestFails(n, i)
  <2>1. PICK u \in Tasks : Update(n, i, u)
    BY <1>1, Rounds
  <2>2. tasks' \in [Nodes -> Seq(Tasks)]
    BY <2>1, UpdateProperties
  <2>3. UNCHANGED <<log, watch, retry, erased>>
    BY <1>1, Rounds
  <2> QED BY <2>2, <2>3 DEF watch
<1>2. CASE Patch(n, i)
  <2>1. PICK u \in Tasks : Update(n, i, u)
    BY <1>2, Patches
  <2>2. tasks' \in [Nodes -> Seq(Tasks)]
    BY <2>1, UpdateProperties
  <2>3. UNCHANGED <<watch, retry, erased>>
    BY <1>2, Patches
  <2>4. PICK v \in Versions : log' = Append(log, v)
    BY <1>2, Patches
  <2>5. /\ log' \in Seq(Versions) /\ log' # <<>>
        /\ \A m \in Nodes : at[m] \in 0..Len(log')
    BY <2>4, LogGrows
  <2> QED BY <2>2, <2>3, <2>5 DEF watch
<1>3. CASE Record(n, i)
  BY <1>3, Records DEF watch
<1> QED BY <1>1, <1>2, <1>3 DEF Answer

(***************************************************************************)
(* What the environment does to the Service is a new version.              *)
(***************************************************************************)
LEMMA Changes ==
  ASSUME TypeInv, ServiceChange \/ PeerWrite
  PROVE  /\ UNCHANGED <<watch, tasks, retry, erased>>
         /\ \E v \in Versions :
              /\ log' = Append(log, v)
              /\ ServiceChange => \/ "gone" \in {Service.kind, v.kind}
                                  \/ v.ingress = Service.ingress
<1>0. Service \in Versions
  BY LatestVersion
<1>1. CASE ServiceChange
  <2>1. PICK k \in Kinds : log' = Append(log, [kind |-> k,
             ingress |-> IF "gone" \in {k, Service.kind} THEN {} ELSE Service.ingress])
    BY <1>1 DEF ServiceChange
  <2> DEFINE v == [kind |-> k,
                   ingress |-> IF "gone" \in {k, Service.kind} THEN {} ELSE Service.ingress]
  <2>2. /\ v \in Versions /\ v.kind = k
        /\ v.ingress = IF "gone" \in {k, Service.kind} THEN {} ELSE Service.ingress
    BY <1>0 DEF Versions
  <2>3. log' = Append(log, v)
    BY <2>1
  <2> HIDE DEF v
  <2> QED BY <1>1, <2>2, <2>3 DEF ServiceChange
<1>2. CASE PeerWrite /\ ~ServiceChange
  <2>1. UNCHANGED <<watch, tasks, retry, erased>>
    BY <1>2 DEF PeerWrite
  <2>2. ASSUME NEW S \in SUBSET (Nodes \cup Peers)
        PROVE  [Service EXCEPT !.ingress = S] \in Versions
    BY <1>0 DEF Versions
  <2>3. ASSUME NEW p \in Peers, NEW desired \in BOOLEAN
        PROVE  MergedIngress(p, Service.ingress, desired) \in SUBSET (Nodes \cup Peers)
    BY <1>0 DEF MergedIngress, Versions
  <2>4. ASSUME NEW m \in Nodes
        PROVE  Service.ingress \ {m} \in SUBSET (Nodes \cup Peers)
    BY <1>0 DEF Versions
  <2>5. \E v \in Versions : log' = Append(log, v)
    <3>1. CASE \E p \in Peers, desired \in BOOLEAN : log' =
                  Append(log, [Service EXCEPT !.ingress = MergedIngress(p, Service.ingress, desired)])
      BY <2>2, <2>3, <3>1
    <3>2. CASE \E m \in Nodes : log' = Append(log, [Service EXCEPT !.ingress = Service.ingress \ {m}])
      BY <2>2, <2>4, <3>2
    <3> QED BY <1>2, <3>1, <3>2 DEF PeerWrite
  <2> QED BY <1>2, <2>1, <2>5
<1> QED BY <1>1, <1>2

LEMMA TypeStep ==
  ASSUME TypeInv, [Next]_vars
  PROVE  TypeInv'
<1>1. CASE UNCHANGED vars
  BY <1>1 DEF vars, TypeInv, TypeOK, Service
<1>2. CASE \E n \in Nodes : \/ ServiceEvent(n) \/ Reconnect(n) \/ ServicesRelist(n)
                            \/ OthersListed(n) \/ LocalityEvent(n) \/ RetryDue(n) \/ Crash(n)
  BY <1>2, WatchTypes
<1>3. CASE \E n \in Nodes : \E i \in 1..Len(tasks[n]) : Answer(n, i) \/ RequestFails(n, i)
  BY <1>3, AttemptTypes
<1>4. CASE ServiceChange \/ PeerWrite
  <2>1. PICK v \in Versions : log' = Append(log, v)
    BY <1>4, Changes
  <2>2. UNCHANGED <<watch, tasks, retry, erased>>
    BY <1>4, Changes
  <2>3. /\ log' \in Seq(Versions) /\ log' # <<>> /\ \A m \in Nodes : at[m] \in 0..Len(log')
    BY <2>1, LogGrows
  <2> QED BY <2>2, <2>3 DEF watch, TypeInv, TypeOK
<1> QED BY <1>1, <1>2, <1>3, <1>4 DEF Next

(***************************************************************************)
(* The types hold in every reachable state: in particular no attempt of    *)
(* update_ingress goes beyond its last round, and no watch is ahead of the *)
(* API server.                                                             *)
(***************************************************************************)
THEOREM TypeCorrect == Spec => []TypeOK
<1>1. TypeInv => TypeOK
  BY DEF TypeInv
<1> QED BY <1>1, TypeInit, TypeStep, PTL DEF Spec

-----------------------------------------------------------------------------
(* Whose address it is.                                                    *)

LEMMA OwnEntriesStep ==
  ASSUME TypeInv, [Next]_vars
  PROVE  [\A a \in Nodes \cup Peers : (a \in Service.ingress) # (a \in Service'.ingress)
             => \/ "gone" \in {Service.kind, Service'.kind}
                \/ PeerWrite
                \/ a \in Nodes /\ tasks'[a] # tasks[a]]_vars
<1> SUFFICES ASSUME NEW a \in Nodes \cup Peers, ~("gone" \in {Service.kind, Service'.kind}),
                    ~PeerWrite, ~(a \in Nodes /\ tasks'[a] # tasks[a])
             PROVE  a \in Service.ingress <=> a \in Service'.ingress
  OBVIOUS
<1>1. CASE UNCHANGED log
  BY <1>1 DEF Service
<1>2. CASE ServiceChange
  <2>1. PICK v \in Versions : /\ log' = Append(log, v)
                              /\ \/ "gone" \in {Service.kind, v.kind}
                                 \/ v.ingress = Service.ingress
    BY <1>2, Changes
  <2>2. Service' = v
    BY <2>1, LogGrows
  <2> QED BY <2>1, <2>2
<1>3. ASSUME NEW n \in Nodes, NEW i \in 1..Len(tasks[n]), Patch(n, i)
      PROVE  a \in Service.ingress <=> a \in Service'.ingress
  <2>1. PICK v \in Versions : /\ log' = Append(log, v)
                              /\ v.ingress = MergedIngress(n, Service.ingress, tasks[n][i].desired)
    BY <1>3, Patches
  <2>2. Service' = v
    BY <2>1, LogGrows
  <2>3. PICK u \in Tasks : Update(n, i, u) /\ u.at # tasks[n][i].at
    BY <1>3, Patches
  <2>4. tasks'[n][i] = u
    BY <2>3, UpdateProperties
  <2>5. tasks'[n] # tasks[n]
    BY <2>3, <2>4
  <2>6. a # n
    BY <2>5
  <2> QED BY <2>1, <2>2, <2>6 DEF MergedIngress
<1>4. ASSUME NEW n \in Nodes, NEW i \in 1..Len(tasks[n]),
             (Answer(n, i) /\ ~Patch(n, i)) \/ RequestFails(n, i)
      PROVE  UNCHANGED log
  BY <1>4 DEF Answer, Get, PatchRefused, NextRound, Record, RequestFails
<1>5. ASSUME NEW n \in Nodes,
             \/ ServiceEvent(n) \/ Reconnect(n) \/ ServicesRelist(n) \/ OthersListed(n)
             \/ LocalityEvent(n) \/ RetryDue(n) \/ Crash(n)
      PROVE  UNCHANGED log
  BY <1>5 DEF ServiceEvent, Reconnect, ServicesRelist, OthersListed, LocalityEvent, RetryDue, Crash
<1>6. UNCHANGED vars => UNCHANGED log
  BY DEF vars
<1> QED BY <1>1, <1>2, <1>3, <1>4, <1>5, <1>6 DEF Next

(***************************************************************************)
(* "Every entry whose ip is NOT in own_ips belongs to another node and is  *)
(* never touched": for any number of nodes that rewrite the whole list     *)
(* from copies read earlier, an address comes and goes only by an attempt  *)
(* of the node it belongs to, a peer's own write, or with the Service.     *)
(***************************************************************************)
THEOREM OthersEntriesKept == Spec => OwnEntriesOnly
<1> QED BY TypeInit, TypeStep, OwnEntriesStep, PTL DEF Spec, OwnEntriesOnly

-----------------------------------------------------------------------------
(* A node does not rest on a wrong list.                                   *)

LEMMA StatusInit == Init => StatusInv
<1> SUFFICES ASSUME Init PROVE StatusInv
  OBVIOUS
<1>1. TypeInv
  BY TypeInit
<1>2. Len(log) \in Nat \ {0}
  BY <1>1, LatestVersion
<1>3. ASSUME NEW n \in Nodes
      PROVE  Follows(n) /\ PutOff(n) /\ AtWork(n)
  <2>1. at[n] = 0 /\ listed[n] = {} /\ tasks[n] = <<>> /\ retry[n] = NoRetry
    BY DEF Init
  <2>2. ~Decidable(listed[n]) /\ at[n] # Len(log)
    BY <1>2, <2>1 DEF Decidable
  <2> QED BY <2>1, <2>2 DEF Follows, PutOff, AtWork
<1> QED BY <1>1, <1>3 DEF StatusInv, NodeInv

\* A step of another node that writes nothing does not matter.
LEMMA Bystander ==
  ASSUME NEW m \in Nodes, NodeInv(m), UNCHANGED log, at'[m] = at[m], listed'[m] = listed[m],
         tracked'[m] = tracked[m], local'[m] = local[m], tasks'[m] = tasks[m],
         retry'[m] = retry[m], erased'[m] = erased[m]
  PROVE  NodeInv(m)'
<1>1. Service' = Service
  BY DEF Service
<1>2. Follows(m)'
  BY <1>1 DEF NodeInv, Follows
<1>3. PutOff(m)'
  BY <1>1 DEF NodeInv, PutOff, NoRetry, Deferred, Decidable
<1>4. AtWork(m)'
  BY <1>1 DEF NodeInv, AtWork, Right, Due, Correct, Decidable
<1> QED BY <1>2, <1>3, <1>4 DEF NodeInv

\* A node behind the latest version will hear of it.
LEMMA Behind ==
  ASSUME NEW m \in Nodes, NodeInv(m), at'[m] # Len(log'), listed'[m] = listed[m],
         "Service" \notin listed[m] => at'[m] = at[m],
         ~Decidable(listed[m]) => /\ tasks'[m] = tasks[m]
                                  /\ retry'[m] \in {retry[m], NoRetry, Deferred}
  PROVE  NodeInv(m)'
<1>1. Follows(m)'
  BY DEF NodeInv, Follows
<1>2. PutOff(m)'
  BY DEF NodeInv, PutOff, NoRetry, Deferred, Decidable
<1>3. AtWork(m)'
  BY DEF AtWork
<1> QED BY <1>1, <1>2, <1>3 DEF NodeInv

\* The event, the LIST or the retry has just started the right attempt.
LEMMA JustStarted ==
  ASSUME NEW m \in Nodes, tasks'[m] # <<>>, NEW t, t = tasks'[m][Len(tasks'[m])], t.at = "get",
         t.desired <=> Service'.kind = "LoadBalancer" /\ local'[m],
         t.clear <=> Service'.kind # "LoadBalancer"
  PROVE  AtWork(m)'
BY DEF AtWork, Right

\* What a version that leaves the node's address wrong calls for.
LEMMA WrongCallsForWork ==
  ASSUME NEW n \in Nodes, Service \in Versions, ~Correct(n)
  PROVE  \/ /\ Service.kind = "LoadBalancer"
            /\ EventWork(Service) = "Publish" /\ RelistWork(Service) = "Publish"
         \/ /\ Service.kind = "other" /\ n \in Service.ingress
            /\ EventWork(Service) = "Clear" /\ RelistWork(Service) = "Clear"
<1>1. Service.kind \in {"LoadBalancer", "other"}
  BY DEF Correct, Versions, Kinds
<1>2. CASE Service.kind = "LoadBalancer"
  BY <1>2 DEF EventWork, RelistWork
<1>3. CASE Service.kind = "other"
  <2>1. n \in Service.ingress
    BY <1>3 DEF Correct
  <2>2. Service.ingress # {}
    BY <2>1
  <2> QED BY <1>3, <2>1, <2>2 DEF EventWork, RelistWork
<1> QED BY <1>1, <1>2, <1>3

LEMMA ServiceEventStep ==
  ASSUME StatusInv, NEW n \in Nodes, ServiceEvent(n)
  PROVE  \A m \in Nodes : NodeInv(m)'
<1>0. TypeInv /\ (\A m \in Nodes : NodeInv(m)) /\ Len(log) \in Nat /\ Service \in Versions
  BY LatestVersion DEF StatusInv
<1> DEFINE v == log[at[n] + 1]
           work == EventWork(v)
           ready == Decidable(listed[n])
           lb == v.kind = "LoadBalancer"
           s == Started(work, ready, lb /\ local[n])
<1>1. /\ "Service" \in listed[n] /\ at[n] < Len(log)
      /\ tracked' = [tracked EXCEPT ![n] = lb] /\ Start(n, s)
      /\ retry' = [retry EXCEPT ![n] = Kept(work, ready, retry[n])]
      /\ at' = [at EXCEPT ![n] = at[n] + 1]
      /\ UNCHANGED <<log, mark, listed, local>>
  BY DEF ServiceEvent
<1>2. ready \in BOOLEAN /\ (lb /\ local[n]) \in BOOLEAN /\ lb \in BOOLEAN
  BY <1>0 DEF Decidable, TypeInv, TypeOK
<1>3. /\ at \in [Nodes -> Nat] /\ tracked \in [Nodes -> BOOLEAN] /\ retry \in [Nodes -> Retries]
      /\ at[n] \in 0..Len(log)
  BY <1>0 DEF TypeInv, TypeOK
<1>4. PICK w : w = work
  OBVIOUS
<1>5. /\ s \in Seq(Tasks)
      /\ ready /\ w \in {"Publish", "Clear"} =>
           /\ Len(s) = 1 /\ s[1].at = "get" /\ (s[1].desired <=> w = "Publish" /\ lb /\ local[n])
           /\ s[1].clear <=> w = "Clear"
      /\ ~ready => s = <<>>
  <2> HIDE DEF work, ready, lb
  <2> QED BY <1>2, <1>4, StartedOne
<1> HIDE DEF s, ready, lb, work, v
<1>6. /\ \A m \in Nodes \ {n} : tasks'[m] = tasks[m] /\ erased'[m] = erased[m]
      /\ s = <<>> => tasks'[n] = tasks[n] /\ (erased'[n] <=> erased[n])
      /\ s # <<>> => /\ tasks'[n] # <<>> /\ ~erased'[n]
                     /\ tasks'[n][Len(tasks'[n])] = s[Len(s)]
  BY <1>0, <1>1, <1>5, StartProperties
<1>7. /\ at'[n] = at[n] + 1 /\ retry'[n] = Kept(work, ready, retry[n])
      /\ \A m \in Nodes \ {n} : at'[m] = at[m] /\ retry'[m] = retry[m]
  BY <1>1, <1>3
<1>8. (tracked'[n] <=> lb) /\ \A m \in Nodes \ {n} : tracked'[m] = tracked[m]
  BY <1>1, <1>2, <1>3, Zenon
<1>9. ASSUME NEW m \in Nodes \ {n}
      PROVE  NodeInv(m)'
  BY <1>0, <1>1, <1>6, <1>7, <1>8, Bystander
<1>10. ~ready => tasks'[n] = tasks[n] /\ retry'[n] \in {retry[n], NoRetry, Deferred}
  BY <1>5, <1>6, <1>7 DEF Kept
<1>11. CASE at'[n] # Len(log)
  <2>1. NodeInv(n)'
    BY <1>0, <1>1, <1>10, <1>11, Behind DEF ready
  <2> QED BY <1>9, <2>1
<1>12. CASE at'[n] = Len(log)
  <2>1. v = Service /\ Service' = Service
    BY <1>1, <1>7, <1>12 DEF v, Service
  <2>2. Follows(n)'
    BY <1>1, <1>8, <2>1 DEF Follows, lb
  <2>3. Correct(n)' <=> Correct(n)
    BY <1>1, <2>1 DEF Correct
  <2>4. work = EventWork(Service)
    BY <2>1 DEF work
  <2>5. PutOff(n)'
    <3>1. ~ready /\ Service.kind = "other" /\ n \in Service.ingress => retry'[n] = Deferred
      <4>1. Service.kind = "other" /\ n \in Service.ingress => EventWork(Service) = "Clear"
        BY DEF EventWork
      <4> QED BY <1>7, <2>4, <4>1 DEF Kept
    <3>2. ~ready => tasks[n] = <<>> /\ retry[n] \in {NoRetry, Deferred}
      BY <1>0 DEF NodeInv, PutOff, ready
    <3>3. Decidable(listed[n])' <=> ready
      BY <1>1 DEF Decidable, ready
    <3> QED BY <1>10, <2>1, <3>1, <3>2, <3>3 DEF PutOff, NoRetry, Deferred
  <2>6. AtWork(n)'
    <3> SUFFICES ASSUME Decidable(listed[n])', ~Correct(n)
                 PROVE  AtWork(n)'
      BY <2>3 DEF AtWork
    <3>1. ready
      BY <1>1 DEF ready, Decidable
    <3>2. \/ Service.kind = "LoadBalancer" /\ w = "Publish"
          \/ Service.kind = "other" /\ w = "Clear"
      BY <1>0, <1>4, <2>4, WrongCallsForWork
    <3>3. /\ Len(s) = 1 /\ s[1].at = "get" /\ (s[1].desired <=> w = "Publish" /\ lb /\ local[n])
          /\ s[1].clear <=> w = "Clear"
      BY <1>5, <3>1, <3>2
    <3>4. s # <<>>
      BY <1>5, <3>3, EmptySeq
    <3>5. lb <=> Service.kind = "LoadBalancer"
      BY <2>1 DEF lb
    <3>6. local'[n] = local[n]
      BY <1>1
    <3>7. tasks'[n] # <<>> /\ tasks'[n][Len(tasks'[n])] = s[1]
      BY <1>6, <3>3, <3>4
    <3> QED BY <2>1, <3>2, <3>3, <3>5, <3>6, <3>7, JustStarted
  <2> QED BY <1>9, <2>2, <2>5, <2>6 DEF NodeInv
<1> QED BY <1>11, <1>12

LEMMA ReconnectStep ==
  ASSUME StatusInv, NEW n \in Nodes, Reconnect(n)
  PROVE  \A m \in Nodes : NodeInv(m)'
<1>0. TypeInv /\ (\A m \in Nodes : NodeInv(m)) /\ Len(log) \in Nat
  BY LatestVersion DEF StatusInv
<1>1. PICK v \in mark[n]..at[n] : at' = [at EXCEPT ![n] = v]
  BY DEF Reconnect
<1>2. /\ at \in [Nodes -> Nat] /\ at[n] \in 0..Len(log) /\ mark[n] \in Nat
  BY <1>0 DEF TypeInv, TypeOK
<1>3. "Service" \in listed[n] /\ UNCHANGED <<log, listed, tracked, local, tasks, retry, erased>>
  BY DEF Reconnect
<1>4. at'[n] = v /\ \A m \in Nodes \ {n} : at'[m] = at[m]
  BY <1>1, <1>2
<1>5. ASSUME NEW m \in Nodes, at'[m] = at[m]
      PROVE  NodeInv(m)'
  BY <1>0, <1>3, <1>5, Bystander
<1>6. CASE v = at[n]
  BY <1>4, <1>5, <1>6
<1>7. CASE v # at[n]
  <2>1. at'[n] # Len(log')
    BY <1>0, <1>2, <1>3, <1>4, <1>7
  <2>2. NodeInv(n)'
    BY <1>0, <1>3, <2>1, Behind
  <2> QED BY <1>4, <1>5, <2>2
<1> QED BY <1>6, <1>7

(***************************************************************************)
(* A LIST whose work is right for the latest version, and after_list.      *)
(***************************************************************************)
LEMMA ListedStep ==
  ASSUME StatusInv, NEW n \in Nodes, NEW lists \in SUBSET {"Service", "others"},
         NEW isTracked \in BOOLEAN, NEW work, Listed(n, lists, isTracked, work),
         UNCHANGED <<log, local>>, \A m \in Nodes \ {n} : at'[m] = at[m],
         listed[n] \subseteq lists, "Service" \notin lists => at'[n] = 0,
         "Service" \in lists /\ at'[n] = Len(log)
           => (isTracked <=> Service.kind = "LoadBalancer"),
         ~Decidable(lists) /\ at'[n] = Len(log) /\ Service.kind = "other" /\ n \in Service.ingress
           => work = "Clear",
         Decidable(lists) /\ at'[n] = Len(log) /\ ~Correct(n)
           => \/ Service.kind = "LoadBalancer" /\ work = "Publish"
              \/ /\ Service.kind = "other"
                 /\ \/ work = "Clear"
                    \/ work = "None" /\ ~Decidable(listed[n]) /\ retry[n] = Deferred
  PROVE  \A m \in Nodes : NodeInv(m)'
<1>0. TypeInv /\ (\A m \in Nodes : NodeInv(m)) /\ Len(log) \in Nat
  BY LatestVersion DEF StatusInv
<1> DEFINE ready == Decidable(lists)
           desired == isTracked /\ local[n]
           kept == Kept(work, ready, retry[n])
           more == IF ready /\ ~Decidable(listed[n]) THEN AfterList(isTracked, kept) ELSE "None"
           s1 == Started(work, ready, desired)
           s2 == Started(more, ready, desired)
<1>1. /\ listed' = [listed EXCEPT ![n] = lists] /\ tracked' = [tracked EXCEPT ![n] = isTracked]
      /\ Start(n, s1 \o s2) /\ retry' = [retry EXCEPT ![n] = Kept(more, ready, kept)]
  BY DEF Listed
<1>2. /\ listed \in [Nodes -> SUBSET {"Service", "others"}] /\ tracked \in [Nodes -> BOOLEAN]
      /\ retry \in [Nodes -> Retries] /\ local[n] \in BOOLEAN
  BY <1>0 DEF TypeInv, TypeOK
<1>3. ready \in BOOLEAN /\ desired \in BOOLEAN
  BY <1>2 DEF Decidable
<1> HIDE DEF more, kept, desired, ready
<1>4. PICK w : w = more
  OBVIOUS
<1>5. /\ s1 \in Seq(Tasks)
      /\ ready /\ work \in {"Publish", "Clear"} =>
           /\ Len(s1) = 1 /\ s1[1].at = "get" /\ (s1[1].desired <=> work = "Publish" /\ desired)
           /\ s1[1].clear <=> work = "Clear"
      /\ ~(ready /\ work \in {"Publish", "Clear"}) => s1 = <<>>
  BY <1>3, StartedOne
<1>6. /\ s2 \in Seq(Tasks)
      /\ ready /\ w \in {"Publish", "Clear"} =>
           /\ Len(s2) = 1 /\ s2[1].at = "get" /\ (s2[1].desired <=> w = "Publish" /\ desired)
           /\ s2[1].clear <=> w = "Clear"
      /\ ~(ready /\ w \in {"Publish", "Clear"}) => s2 = <<>>
  BY <1>3, <1>4, StartedOne
<1> HIDE DEF s1, s2
<1>7. /\ s1 \o s2 \in Seq(Tasks) /\ Len(s1 \o s2) = Len(s1) + Len(s2)
      /\ \A i \in 1..(Len(s1) + Len(s2)) :
            (s1 \o s2)[i] = IF i <= Len(s1) THEN s1[i] ELSE s2[i - Len(s1)]
  BY <1>5, <1>6, ConcatProperties
<1>8. /\ \A m \in Nodes \ {n} : tasks'[m] = tasks[m] /\ erased'[m] = erased[m]
      /\ s1 \o s2 = <<>> => tasks'[n] = tasks[n] /\ (erased'[n] <=> erased[n])
      /\ s1 \o s2 # <<>> => /\ tasks'[n] # <<>> /\ ~erased'[n]
                            /\ tasks'[n][Len(tasks'[n])] = (s1 \o s2)[Len(s1 \o s2)]
  BY <1>0, <1>1, <1>7, StartProperties
<1>9. /\ listed'[n] = lists /\ retry'[n] = Kept(more, ready, kept)
      /\ \A m \in Nodes \ {n} : listed'[m] = listed[m] /\ retry'[m] = retry[m]
  BY <1>1, <1>2
<1>10. (tracked'[n] <=> isTracked) /\ \A m \in Nodes \ {n} : tracked'[m] = tracked[m]
  BY <1>1, <1>2, Zenon
<1>11. ASSUME NEW m \in Nodes \ {n}
       PROVE  NodeInv(m)'
  BY <1>0, <1>8, <1>9, <1>10, Bystander
<1>12. Service' = Service /\ local'[n] = local[n] /\ (Correct(n)' <=> Correct(n))
  BY DEF Service, Correct
<1>13. Follows(n)'
  BY <1>9, <1>10, <1>12 DEF Follows
<1>14. Decidable(listed'[n]) <=> ready
  BY <1>9 DEF ready
<1>15. PutOff(n)'
  <2> SUFFICES ASSUME ~ready
               PROVE  /\ tasks'[n] = <<>> /\ retry'[n] \in {NoRetry, Deferred}
                      /\ at'[n] = Len(log) /\ Service.kind = "other" /\ n \in Service.ingress
                         => retry'[n] = Deferred
    BY <1>12, <1>14 DEF PutOff, NoRetry, Deferred, Decidable
  <2>1. ~Decidable(listed[n])
    BY <1>2 DEF ready, Decidable
  <2>2. tasks[n] = <<>> /\ retry[n] \in {NoRetry, Deferred}
    BY <1>0, <2>1 DEF NodeInv, PutOff
  <2>3. s1 \o s2 = <<>>
    BY <1>5, <1>6
  <2>4. more = "None"
    BY DEF more
  <2>5. retry'[n] = kept
    BY <1>9, <2>4 DEF Kept
  <2>6. kept \in {NoRetry, Deferred} /\ (work = "Clear" => kept = Deferred)
    BY <2>2 DEF kept, Kept
  <2> QED BY <1>8, <2>2, <2>3, <2>5, <2>6 DEF ready
<1>16. AtWork(n)'
  <2> SUFFICES ASSUME ready, at'[n] = Len(log), ~Correct(n)
               PROVE  AtWork(n)'
    BY <1>12, <1>14 DEF AtWork, Decidable
  <2> DEFINE lb == Service.kind = "LoadBalancer"
  <2>1. "Service" \in lists /\ (isTracked <=> lb)
    BY DEF ready, Decidable
  <2>2. \/ lb /\ work = "Publish"
        \/ ~lb /\ work = "Clear"
        \/ ~lb /\ work = "None" /\ ~Decidable(listed[n]) /\ retry[n] = Deferred
    BY DEF ready
  <2>3. w \in {"None", IF lb THEN "Publish" ELSE "Clear"}
    BY <1>4, <2>1 DEF more, AfterList
  <2>4. ~lb /\ work = "None" /\ ~Decidable(listed[n]) /\ retry[n] = Deferred => w = "Clear"
    BY <1>4, <2>1 DEF more, AfterList, kept, Kept, Deferred
  <2> HIDE DEF lb
  <2>5. CASE w \in {"Publish", "Clear"}
    <3>1. /\ Len(s2) = 1 /\ s2[1].at = "get" /\ (s2[1].desired <=> lb /\ local[n])
          /\ s2[1].clear <=> ~lb
      BY <1>6, <2>1, <2>3, <2>5 DEF desired
    <3>2. Len(s1) \in Nat
      BY <1>5, LenProperties
    <3>3. (s1 \o s2)[Len(s1) + 1] = s2[(Len(s1) + 1) - Len(s1)]
      BY <1>7, <3>1, <3>2
    <3>4. s1 \o s2 # <<>> /\ (s1 \o s2)[Len(s1 \o s2)] = s2[1]
      BY <1>7, <3>1, <3>2, <3>3, EmptySeq
    <3> QED BY <1>8, <1>12, <3>1, <3>4, JustStarted DEF lb
  <2>6. CASE w = "None"
    <3>1. work = IF lb THEN "Publish" ELSE "Clear"
      BY <2>2, <2>4, <2>6
    <3>2. /\ Len(s1) = 1 /\ s1[1].at = "get" /\ (s1[1].desired <=> lb /\ local[n])
          /\ s1[1].clear <=> ~lb
      BY <1>5, <2>1, <3>1 DEF desired
    <3>3. s2 = <<>> /\ Len(s2) = 0
      BY <1>6, <2>6
    <3>4. s1 \o s2 # <<>> /\ (s1 \o s2)[Len(s1 \o s2)] = s1[1]
      BY <1>7, <3>2, <3>3, EmptySeq
    <3> QED BY <1>8, <1>12, <3>2, <3>4, JustStarted DEF lb
  <2> QED BY <2>3, <2>5, <2>6
<1> QED BY <1>11, <1>13, <1>15, <1>16 DEF NodeInv

LEMMA ServicesRelistStep ==
  ASSUME StatusInv, NEW n \in Nodes, ServicesRelist(n)
  PROVE  \A m \in Nodes : NodeInv(m)'
<1>0. TypeInv /\ (\A m \in Nodes : NodeInv(m)) /\ Len(log) \in Nat /\ Service \in Versions
  BY LatestVersion DEF StatusInv
<1>1. /\ Listed(n, listed[n] \cup {"Service"}, Service.kind = "LoadBalancer", RelistWork(Service))
      /\ at' = [at EXCEPT ![n] = Len(log)] /\ UNCHANGED <<log, local>>
  BY DEF ServicesRelist
<1>2. /\ at'[n] = Len(log) /\ \A m \in Nodes \ {n} : at'[m] = at[m]
  BY <1>0, <1>1 DEF TypeInv
<1>3. PICK lists \in SUBSET {"Service", "others"} :
        lists = listed[n] \cup {"Service"} /\ "Service" \in lists /\ listed[n] \subseteq lists
  <2>1. listed[n] \cup {"Service"} \in SUBSET {"Service", "others"}
    BY <1>0 DEF TypeInv, TypeOK
  <2> QED BY <2>1, Zenon
<1>4. PICK lb \in BOOLEAN : lb = (Service.kind = "LoadBalancer")
  OBVIOUS
<1>5. PICK work : work = RelistWork(Service)
  OBVIOUS
<1>6. Listed(n, lists, lb, work)
  BY <1>1, <1>3, <1>4, <1>5, Zenon
<1>7. Service.kind = "other" /\ n \in Service.ingress => work = "Clear"
  BY <1>5 DEF RelistWork, EventWork
<1>8. ~Correct(n) => \/ Service.kind = "LoadBalancer" /\ work = "Publish"
                     \/ Service.kind = "other" /\ work = "Clear"
  BY <1>0, <1>5, WrongCallsForWork
<1>9. lb <=> Service.kind = "LoadBalancer"
  BY <1>4
<1>10. UNCHANGED <<log, local>>
  BY <1>1
<1> QED BY <1>2, <1>3, <1>6, <1>7, <1>8, <1>9, <1>10, ListedStep

LEMMA OthersListedStep ==
  ASSUME StatusInv, NEW n \in Nodes, OthersListed(n)
  PROVE  \A m \in Nodes : NodeInv(m)'
<1>0. TypeInv /\ NodeInv(n) /\ Service \in Versions
  BY LatestVersion DEF StatusInv
<1>1. /\ "others" \notin listed[n]
      /\ Listed(n, listed[n] \cup {"others"}, tracked[n], Republished(tracked[n]))
      /\ UNCHANGED <<log, at, local>>
  BY DEF OthersListed
<1>2. PICK lists \in SUBSET {"Service", "others"} :
        /\ lists = listed[n] \cup {"others"} /\ listed[n] \subseteq lists
        /\ "Service" \in lists <=> "Service" \in listed[n]
  <2>1. listed[n] \cup {"others"} \in SUBSET {"Service", "others"}
    BY <1>0 DEF TypeInv, TypeOK
  <2>2. "Service" \in listed[n] \cup {"others"} <=> "Service" \in listed[n]
    OBVIOUS
  <2> QED BY <2>1, <2>2, Zenon
<1>3. PICK work : work = Republished(tracked[n])
  OBVIOUS
<1>4. tracked[n] \in BOOLEAN /\ Listed(n, lists, tracked[n], work)
  BY <1>0, <1>1, <1>2, <1>3 DEF TypeInv, TypeOK
<1>5. /\ "Service" \notin lists => at'[n] = 0
      /\ "Service" \in lists /\ at'[n] = Len(log) => (tracked[n] <=> Service.kind = "LoadBalancer")
  BY <1>0, <1>1, <1>2 DEF NodeInv, Follows
<1>6. ~Decidable(listed[n]) /\ (Decidable(lists) <=> "Service" \in lists)
  BY <1>1, <1>2 DEF Decidable
<1>7. ~Decidable(lists) => at'[n] # Len(log)
  BY <1>0, <1>5, <1>6, LatestVersion
<1>8. ASSUME Decidable(lists), at'[n] = Len(log), ~Correct(n)
      PROVE  \/ Service.kind = "LoadBalancer" /\ work = "Publish"
             \/ Service.kind = "other" /\ work = "None" /\ retry[n] = Deferred
  <2>1. CASE Service.kind = "LoadBalancer"
    BY <1>3, <1>5, <1>6, <1>8, <2>1 DEF Republished
  <2>2. CASE Service.kind = "other" /\ n \in Service.ingress
    <3>1. work = "None"
      BY <1>3, <1>5, <1>6, <1>8, <2>2 DEF Republished
    <3>2. retry[n] = Deferred
      BY <1>0, <1>1, <1>6, <1>8, <2>2 DEF NodeInv, PutOff
    <3> QED BY <2>2, <3>1, <3>2
  <2> QED BY <1>0, <1>8, <2>1, <2>2, WrongCallsForWork
<1> QED BY <1>1, <1>2, <1>4, <1>5, <1>6, <1>7, <1>8, ListedStep

LEMMA LocalityEventStep ==
  ASSUME StatusInv, NEW n \in Nodes, LocalityEvent(n)
  PROVE  \A m \in Nodes : NodeInv(m)'
<1>0. TypeInv /\ (\A m \in Nodes : NodeInv(m)) /\ Service \in Versions
  BY LatestVersion DEF StatusInv
<1> DEFINE ready == Decidable(listed[n])
           work == Republished(tracked[n])
<1>1. PICK here \in BOOLEAN : /\ local' = [local EXCEPT ![n] = here]
                              /\ Start(n, Started(work, ready, here))
  BY DEF LocalityEvent
<1> DEFINE s == Started(work, ready, here)
<1>2. UNCHANGED <<log, at, mark, listed, tracked, retry>> /\ Service' = Service
  BY DEF LocalityEvent, Service
<1>3. ready \in BOOLEAN /\ local \in [Nodes -> BOOLEAN]
  BY <1>0 DEF Decidable, TypeInv, TypeOK
<1>4. (local'[n] <=> here) /\ \A m \in Nodes \ {n} : local'[m] = local[m]
  BY <1>1, <1>3, Zenon
<1>5. PICK w : w = work
  OBVIOUS
<1>6. /\ s \in Seq(Tasks)
      /\ ready /\ w \in {"Publish", "Clear"} =>
           /\ Len(s) = 1 /\ s[1].at = "get" /\ (s[1].desired <=> w = "Publish" /\ here)
           /\ s[1].clear <=> w = "Clear"
      /\ ~(ready /\ w \in {"Publish", "Clear"}) => s = <<>>
  <2> HIDE DEF work, ready
  <2> QED BY <1>3, <1>5, StartedOne
<1>7. Start(n, s)
  BY <1>1
<1> HIDE DEF s, ready, work
<1>8. /\ \A m \in Nodes \ {n} : tasks'[m] = tasks[m] /\ erased'[m] = erased[m]
      /\ s = <<>> => tasks'[n] = tasks[n] /\ (erased'[n] <=> erased[n])
      /\ s # <<>> => /\ tasks'[n] # <<>> /\ ~erased'[n]
                     /\ tasks'[n][Len(tasks'[n])] = s[Len(s)]
  BY <1>0, <1>6, <1>7, StartProperties
<1>9. ASSUME NEW m \in Nodes \ {n}
      PROVE  NodeInv(m)'
  BY <1>0, <1>2, <1>4, <1>8, Bystander
<1>10. Follows(n)'
  BY <1>0, <1>2 DEF NodeInv, Follows
<1>11. PutOff(n)'
  <2>1. ~ready => tasks'[n] = tasks[n]
    BY <1>6, <1>8
  <2> QED BY <1>0, <1>2, <2>1 DEF NodeInv, PutOff, ready, Decidable, NoRetry, Deferred
<1>12. AtWork(n)'
  <2> SUFFICES ASSUME Decidable(listed'[n]), at'[n] = Len(log'), ~erased'[n], ~Correct(n)'
               PROVE  AtWork(n)'
    BY DEF AtWork, Decidable
  <2>1. ready /\ at[n] = Len(log) /\ "Service" \in listed[n]
    BY <1>2 DEF ready, Decidable
  <2>2. tracked[n] <=> Service.kind = "LoadBalancer"
    BY <1>0, <2>1 DEF NodeInv, Follows
  <2>3. CASE Service.kind = "LoadBalancer"
    <3>1. w = "Publish"
      BY <1>5, <2>2, <2>3 DEF work, Republished
    <3>2. Len(s) = 1 /\ s[1].at = "get" /\ (s[1].desired <=> here) /\ ~s[1].clear
      BY <1>6, <2>1, <3>1
    <3>3. s # <<>>
      <4>1. Len(s) = 1 /\ Len(<<>>) = 0
        BY <3>2
      <4> QED BY <4>1
    <3>4. tasks'[n] # <<>> /\ tasks'[n][Len(tasks'[n])] = s[1]
      BY <1>8, <3>2, <3>3
    <3> QED BY <1>2, <1>4, <2>3, <3>2, <3>4, JustStarted
  <2>4. CASE Service.kind # "LoadBalancer"
    <3>1. w = "None"
      BY <1>5, <2>2, <2>4 DEF work, Republished
    <3>2. tasks'[n] = tasks[n] /\ ~erased[n]
      BY <1>6, <1>8, <3>1
    <3>3. ~Correct(n)
      BY <1>2, <2>4 DEF Correct
    <3>4. \/ tasks[n] # <<>> /\ Right(n, tasks[n][Len(tasks[n])])
          \/ Due(n)
      BY <1>0, <2>1, <3>2, <3>3 DEF NodeInv, AtWork, ready
    <3>5. (Right(n, tasks[n][Len(tasks[n])]) => Right(n, tasks[n][Len(tasks[n])])') /\ (Due(n) => Due(n)')
      BY <1>2, <2>4, <3>2 DEF Right, Due
    <3> QED BY <3>2, <3>4, <3>5 DEF AtWork, Right
  <2> QED BY <2>3, <2>4
<1> QED BY <1>9, <1>10, <1>11, <1>12 DEF NodeInv

LEMMA RetryDueStep ==
  ASSUME StatusInv, NEW n \in Nodes, RetryDue(n)
  PROVE  \A m \in Nodes : NodeInv(m)'
<1>0. TypeInv /\ (\A m \in Nodes : NodeInv(m)) /\ Service \in Versions
  BY LatestVersion DEF StatusInv
<1> DEFINE ready == Decidable(listed[n])
           work == RetryWork(tracked[n], retry[n].why = "clear")
           desired == tracked[n] /\ local[n]
           s == Started(work, ready, desired)
<1>1. /\ retry[n].armed /\ Start(n, s)
      /\ retry' = [retry EXCEPT ![n] = Kept(work, ready, [retry[n] EXCEPT !.armed = FALSE])]
      /\ UNCHANGED <<log, watch>>
  BY DEF RetryDue
<1>2. ready
  BY <1>0, <1>1 DEF NodeInv, PutOff, NoRetry, Deferred
<1>3. ready \in BOOLEAN /\ desired \in BOOLEAN /\ retry \in [Nodes -> Retries]
  BY <1>0 DEF Decidable, TypeInv, TypeOK
<1>4. PICK w : w = work
  OBVIOUS
<1>5. /\ s \in Seq(Tasks)
      /\ w \in {"Publish", "Clear"} =>
           /\ Len(s) = 1 /\ s[1].at = "get" /\ (s[1].desired <=> w = "Publish" /\ desired)
           /\ s[1].clear <=> w = "Clear"
      /\ w \notin {"Publish", "Clear"} => s = <<>>
  <2> HIDE DEF work, ready, desired
  <2>1. /\ s \in Seq(Tasks)
        /\ ready /\ w \in {"Publish", "Clear"} =>
             /\ Len(s) = 1 /\ s[1].at = "get" /\ (s[1].desired <=> w = "Publish" /\ desired)
             /\ s[1].clear <=> w = "Clear"
        /\ ~(ready /\ w \in {"Publish", "Clear"}) => s = <<>>
    BY <1>3, <1>4, StartedOne
  <2> HIDE DEF s
  <2> QED BY <1>2, <2>1
<1>6. \A m \in Nodes \ {n} : retry'[m] = retry[m]
  BY <1>1, <1>3
<1> HIDE DEF s, ready, work
<1>7. /\ \A m \in Nodes \ {n} : tasks'[m] = tasks[m] /\ erased'[m] = erased[m]
      /\ s = <<>> => tasks'[n] = tasks[n] /\ (erased'[n] <=> erased[n])
      /\ s # <<>> => /\ tasks'[n] # <<>> /\ ~erased'[n]
                     /\ tasks'[n][Len(tasks'[n])] = s[Len(s)]
  BY <1>0, <1>1, <1>5, StartProperties
<1>8. UNCHANGED <<at, listed, tracked, local>> /\ Service' = Service
  BY <1>1 DEF watch, Service
<1>9. ASSUME NEW m \in Nodes \ {n}
      PROVE  NodeInv(m)'
  BY <1>0, <1>1, <1>6, <1>7, <1>8, Bystander
<1>10. Follows(n)'
  BY <1>0, <1>1, <1>8 DEF NodeInv, Follows
<1>11. PutOff(n)'
  BY <1>2, <1>8 DEF PutOff, ready, Decidable
<1>12. AtWork(n)'
  <2> SUFFICES ASSUME at[n] = Len(log), ~erased'[n], ~Correct(n)
               PROVE  AtWork(n)'
    BY <1>1, <1>8 DEF AtWork, Correct
  <2>1. tracked[n] <=> Service.kind = "LoadBalancer"
    BY <1>0, <1>2 DEF NodeInv, Follows, ready, Decidable
  <2>2. CASE w \in {"Publish", "Clear"}
    <3>1. w = "Publish" <=> Service.kind = "LoadBalancer"
      BY <1>4, <2>1, <2>2 DEF work, RetryWork
    <3>2. /\ Len(s) = 1 /\ s[1].at = "get"
          /\ s[1].desired <=> Service.kind = "LoadBalancer" /\ local[n]
          /\ s[1].clear <=> Service.kind # "LoadBalancer"
      BY <1>5, <2>1, <2>2, <3>1
    <3>3. s # <<>>
      BY <1>5, <3>2, EmptySeq
    <3>4. tasks'[n] # <<>> /\ tasks'[n][Len(tasks'[n])] = s[1] /\ local'[n] = local[n]
      BY <1>7, <1>8, <3>2, <3>3
    <3> QED BY <1>8, <3>2, <3>4, JustStarted
  <2>3. CASE w \notin {"Publish", "Clear"}
    <3>1. Service.kind # "LoadBalancer" /\ retry[n].why # "clear"
      BY <1>4, <2>1, <2>3 DEF work, RetryWork
    <3>2. tasks'[n] = tasks[n] /\ ~erased[n]
      BY <1>5, <1>7, <2>3
    <3>3. tasks[n] # <<>> /\ Right(n, tasks[n][Len(tasks[n])])
      BY <1>0, <1>2, <3>1, <3>2 DEF NodeInv, AtWork, Due, ready
    <3> QED BY <1>8, <3>2, <3>3 DEF AtWork, Right
  <2> QED BY <2>2, <2>3
<1> QED BY <1>9, <1>10, <1>11, <1>12 DEF NodeInv

LEMMA CrashStep ==
  ASSUME StatusInv, NEW n \in Nodes, Crash(n)
  PROVE  \A m \in Nodes : NodeInv(m)'
<1>0. TypeInv /\ (\A m \in Nodes : NodeInv(m)) /\ Len(log) \in Nat \ {0}
  BY LatestVersion DEF StatusInv
<1>1. /\ at' = [at EXCEPT ![n] = 0] /\ listed' = [listed EXCEPT ![n] = {}]
      /\ tracked' = [tracked EXCEPT ![n] = FALSE] /\ tasks' = [tasks EXCEPT ![n] = <<>>]
      /\ retry' = [retry EXCEPT ![n] = NoRetry] /\ erased' = [erased EXCEPT ![n] = FALSE]
      /\ UNCHANGED <<log, local>>
  BY DEF Crash
<1>2. /\ at \in [Nodes -> Nat] /\ listed \in [Nodes -> SUBSET {"Service", "others"}]
      /\ tracked \in [Nodes -> BOOLEAN] /\ tasks \in [Nodes -> Seq(Tasks)]
      /\ retry \in [Nodes -> Retries] /\ erased \in [Nodes -> BOOLEAN]
  BY <1>0 DEF TypeInv, TypeOK
<1>3. at'[n] = 0 /\ listed'[n] = {} /\ tasks'[n] = <<>> /\ retry'[n] = NoRetry
  BY <1>1, <1>2
<1>4. NodeInv(n)'
  <2>1. at'[n] # Len(log') /\ ~Decidable(listed'[n])
    BY <1>0, <1>1, <1>3 DEF Decidable
  <2> QED BY <1>3, <2>1 DEF NodeInv, Follows, PutOff, AtWork, NoRetry, Deferred, Decidable
<1>5. ASSUME NEW m \in Nodes \ {n}
      PROVE  NodeInv(m)'
  <2>1. /\ at'[m] = at[m] /\ listed'[m] = listed[m] /\ tracked'[m] = tracked[m]
        /\ tasks'[m] = tasks[m] /\ retry'[m] = retry[m] /\ erased'[m] = erased[m]
    BY <1>1, <1>2
  <2> QED BY <1>0, <1>1, <2>1, Bystander
<1> QED BY <1>4, <1>5

\* Attempts run only once every LIST has completed.
LEMMA AttemptsDecidable ==
  ASSUME StatusInv, NEW n \in Nodes, NEW i \in 1..Len(tasks[n])
  PROVE  Decidable(listed[n])
<1>1. tasks[n] # <<>>
  <2>1. Len(tasks[n]) \in Nat
    BY LenProperties DEF StatusInv, TypeInv, TypeOK
  <2>2. Len(tasks[n]) # 0 /\ Len(<<>>) = 0
    BY <2>1
  <2> QED BY <2>2
<1> QED BY <1>1 DEF StatusInv, NodeInv, PutOff

LEMMA RoundsStep ==
  ASSUME StatusInv, NEW n \in Nodes, NEW i \in 1..Len(tasks[n]),
         Get(n, i) \/ PatchRefused(n, i) \/ RequestFails(n, i)
  PROVE  \A m \in Nodes : NodeInv(m)'
<1>0. TypeInv /\ \A m \in Nodes : NodeInv(m)
  BY DEF StatusInv
<1>1. UNCHANGED <<log, watch, retry, erased>>
  BY <1>0, Rounds
<1>2. PICK u \in Tasks :
        /\ Update(n, i, u)
        /\ u.desired = tasks[n][i].desired /\ u.clear = tasks[n][i].clear
        /\ u.overtaken = tasks[n][i].overtaken
        /\ \/ u.at \in {"get", "patch", "failed"}
           \/ u.at = "gone" /\ Service.kind = "gone"
           \/ u.at = "done" /\ MergedIngress(n, Service.ingress, u.desired) = Service.ingress
  BY <1>0, Rounds
<1>3. /\ \A m \in Nodes \ {n} : tasks'[m] = tasks[m]
      /\ Len(tasks'[n]) = Len(tasks[n]) /\ tasks'[n] # <<>>
      /\ \A j \in 1..Len(tasks[n]) : tasks'[n][j] = IF j = i THEN u ELSE tasks[n][j]
  BY <1>0, <1>2, UpdateProperties
<1>4. UNCHANGED <<at, listed, tracked, local, retry, erased>> /\ Service' = Service
  BY <1>1 DEF watch, Service
<1>5. ASSUME NEW m \in Nodes \ {n}
      PROVE  NodeInv(m)'
  BY <1>0, <1>1, <1>3, <1>4, Bystander
<1>6. Follows(n)'
  BY <1>0, <1>1, <1>4 DEF NodeInv, Follows
<1>7. PutOff(n)'
  <2>1. Decidable(listed[n])
    BY AttemptsDecidable
  <2> QED BY <1>4, <2>1 DEF PutOff, Decidable
<1>8. AtWork(n)'
  <2> SUFFICES ASSUME Decidable(listed[n]), at[n] = Len(log), ~erased[n], ~Correct(n)
               PROVE  AtWork(n)'
    BY <1>1, <1>4 DEF AtWork, Correct, Decidable
  <2>0. Len(tasks[n]) \in Nat
    BY <1>0, LenProperties DEF TypeInv, TypeOK
  <2>1. CASE Right(n, tasks[n][Len(tasks[n])])
    <3>1. CASE i = Len(tasks[n])
      <4>1. tasks'[n][Len(tasks'[n])] = u
        BY <1>3, <3>1
      <4>2. u.desired <=> Service.kind = "LoadBalancer" /\ local[n]
        BY <1>2, <2>1, <3>1 DEF Right
      <4>3. Service.kind # "gone"
        BY DEF Correct
      <4>4. ~(u.at = "done" /\ MergedIngress(n, Service.ingress, u.desired) = Service.ingress)
        BY <4>2 DEF Correct, MergedIngress
      <4>5. Right(n, u)
        BY <1>2, <2>1, <3>1, <4>3, <4>4 DEF Right
      <4> QED BY <1>3, <1>4, <4>1, <4>5 DEF AtWork, Right
    <3>2. CASE i # Len(tasks[n])
      <4>1. tasks'[n][Len(tasks'[n])] = tasks[n][Len(tasks[n])]
        BY <1>3, <2>0, <3>2
      <4> QED BY <1>3, <1>4, <2>1, <4>1 DEF AtWork, Right
    <3> QED BY <3>1, <3>2
  <2>2. CASE Due(n)
    <3>1. \A j \in 1..Len(tasks'[n]) : tasks'[n][j].overtaken
      BY <1>2, <1>3, <2>2 DEF Due
    <3> QED BY <1>4, <2>2, <3>1 DEF AtWork, Due
  <2> QED BY <1>0, <2>1, <2>2 DEF NodeInv, AtWork
<1> QED BY <1>5, <1>6, <1>7, <1>8 DEF NodeInv

LEMMA RecordStep ==
  ASSUME StatusInv, NEW n \in Nodes, NEW i \in 1..Len(tasks[n]), Record(n, i)
  PROVE  \A m \in Nodes : NodeInv(m)'
<1>0. TypeInv /\ \A m \in Nodes : NodeInv(m)
  BY DEF StatusInv
<1>1. PICK t : t = tasks[n][i]
  OBVIOUS
<1>2. /\ UNCHANGED <<log, watch>> /\ t.at \in {"done", "failed", "gone"}
      /\ \A m \in Nodes \ {n} : /\ tasks'[m] = tasks[m] /\ erased'[m] = erased[m]
                                /\ retry'[m] = retry[m]
      /\ Len(tasks'[n]) = Len(tasks[n]) - 1 /\ tasks'[n] \in Seq(Tasks)
      /\ retry'[n] = Recorded(AttemptDone(t), t.clear)
      /\ erased'[n] <=> erased[n] \/ t.overtaken
  BY <1>0, <1>1, Records
<1>3. ASSUME NEW j \in 1..(Len(tasks[n]) - 1)
      PROVE  /\ j < i /\ ~AttemptDone(t) => tasks'[n][j].overtaken
             /\ ~(j < i) => tasks'[n][j] = tasks[n][j + 1]
  BY <1>0, <1>1, Records
<1>4. UNCHANGED <<at, listed, tracked, local>> /\ Service' = Service
  BY <1>2 DEF watch, Service
<1>5. ASSUME NEW m \in Nodes \ {n}
      PROVE  NodeInv(m)'
  BY <1>0, <1>2, <1>4, Bystander
<1>6. Follows(n)'
  BY <1>0, <1>2, <1>4 DEF NodeInv, Follows
<1>7. PutOff(n)'
  <2>1. Decidable(listed[n])
    BY AttemptsDecidable
  <2> QED BY <1>4, <2>1 DEF PutOff, Decidable
<1>8. AtWork(n)'
  <2> SUFFICES ASSUME Decidable(listed[n]), at[n] = Len(log), ~erased'[n], ~Correct(n)
               PROVE  AtWork(n)'
    BY <1>2, <1>4 DEF AtWork, Correct, Decidable
  <2>0. Len(tasks[n]) \in Nat /\ ~erased[n] /\ ~t.overtaken
    BY <1>0, <1>2, LenProperties DEF TypeInv, TypeOK
  <2>1. CASE Right(n, tasks[n][Len(tasks[n])])
    <3>1. CASE i = Len(tasks[n])
      <4>1. t.at = "failed" /\ (t.clear <=> Service.kind # "LoadBalancer")
        BY <1>1, <1>2, <2>1, <3>1 DEF Right
      <4>2. ~AttemptDone(t)
        BY <4>1 DEF AttemptDone
      <4>3. retry'[n].armed /\ (Service.kind = "LoadBalancer" \/ retry'[n].why = "clear")
        BY <1>2, <4>1, <4>2 DEF Recorded
      <4>4. \A j \in 1..Len(tasks'[n]) : tasks'[n][j].overtaken
        BY <1>2, <1>3, <2>0, <3>1, <4>2
      <4> QED BY <1>4, <4>3, <4>4 DEF AtWork, Due
    <3>2. CASE i # Len(tasks[n])
      <4>1. /\ Len(tasks[n]) - 1 \in 1..(Len(tasks[n]) - 1) /\ ~(Len(tasks[n]) - 1 < i)
            /\ (Len(tasks[n]) - 1) + 1 = Len(tasks[n])
        BY <2>0, <3>2
      <4>2. tasks'[n][Len(tasks'[n])] = tasks[n][Len(tasks[n])]
        BY <1>2, <1>3, <4>1
      <4>3. tasks'[n] # <<>>
        <5>1. \A k \in Nat : i \in 1..k /\ i # k => k - 1 # 0
          OBVIOUS
        <5>2. Len(tasks'[n]) # 0 /\ Len(<<>>) = 0
          BY <1>2, <2>0, <3>2, <5>1
        <5> QED BY <5>2
      <4> QED BY <1>4, <2>1, <4>2, <4>3 DEF AtWork, Right
    <3> QED BY <3>1, <3>2
  <2>2. CASE Due(n)
    BY <1>1, <2>0, <2>2 DEF Due
  <2> QED BY <1>0, <2>0, <2>1, <2>2 DEF NodeInv, AtWork
<1> QED BY <1>5, <1>6, <1>7, <1>8 DEF NodeInv

\* A new version: every node is behind it.
LEMMA WriteStep ==
  ASSUME StatusInv,
         \/ ServiceChange \/ PeerWrite
         \/ \E n \in Nodes : \E i \in 1..Len(tasks[n]) : Patch(n, i)
  PROVE  \A m \in Nodes : NodeInv(m)'
<1>0. TypeInv /\ \A m \in Nodes : NodeInv(m)
  BY DEF StatusInv
<1>1. /\ UNCHANGED <<watch, retry>> /\ \E v \in Versions : log' = Append(log, v)
      /\ \A m \in Nodes : ~Decidable(listed[m]) => tasks'[m] = tasks[m]
  <2>1. CASE ServiceChange \/ PeerWrite
    BY <1>0, <2>1, Changes
  <2>2. ASSUME NEW n \in Nodes, NEW i \in 1..Len(tasks[n]), Patch(n, i)
        PROVE  /\ UNCHANGED <<watch, retry>> /\ \E v \in Versions : log' = Append(log, v)
               /\ \A m \in Nodes : ~Decidable(listed[m]) => tasks'[m] = tasks[m]
    <3>1. PICK u \in Tasks : Update(n, i, u)
      BY <1>0, <2>2, Patches
    <3>2. \A m \in Nodes \ {n} : tasks'[m] = tasks[m]
      BY <1>0, <3>1, UpdateProperties
    <3>3. Decidable(listed[n])
      BY AttemptsDecidable
    <3> QED BY <1>0, <2>2, <3>2, <3>3, Patches
  <2> QED BY <2>1, <2>2
<1>2. \A m \in Nodes : at[m] # Len(log')
  BY <1>0, <1>1, LogGrows
<1>3. UNCHANGED <<at, listed, retry>>
  BY <1>1 DEF watch
<1> QED BY <1>0, <1>1, <1>2, <1>3, Behind

LEMMA StatusStep ==
  ASSUME StatusInv, [Next]_vars
  PROVE  StatusInv'
<1>1. TypeInv'
  BY TypeStep DEF StatusInv
<1>2. CASE UNCHANGED vars
  <2>1. \A m \in Nodes : NodeInv(m)'
    BY <1>2, Bystander DEF StatusInv, vars
  <2> QED BY <1>1, <2>1 DEF StatusInv
<1>3. CASE Next
  <2>1. \A m \in Nodes : NodeInv(m)'
    <3>1. ASSUME NEW n \in Nodes,
                 \/ ServiceEvent(n) \/ Reconnect(n) \/ ServicesRelist(n) \/ OthersListed(n)
                 \/ LocalityEvent(n) \/ RetryDue(n) \/ Crash(n)
          PROVE  \A m \in Nodes : NodeInv(m)'
      BY <3>1, ServiceEventStep, ReconnectStep, ServicesRelistStep, OthersListedStep,
         LocalityEventStep, RetryDueStep, CrashStep
    <3>2. ASSUME NEW n \in Nodes, NEW i \in 1..Len(tasks[n]), Answer(n, i) \/ RequestFails(n, i)
          PROVE  \A m \in Nodes : NodeInv(m)'
      BY <3>2, RoundsStep, RecordStep, WriteStep DEF Answer
    <3> QED BY <1>3, <3>1, <3>2, WriteStep DEF Next
  <2> QED BY <1>1, <2>1 DEF StatusInv
<1> QED BY <1>2, <1>3

(***************************************************************************)
(* A node with nothing under way and nothing due has its address in the    *)
(* list exactly if it should, whatever failed and however its attempts,    *)
(* the other nodes' writes, reconnects, relists and crashes interleaved,   *)
(* unless PublishRetry last recorded an attempt that a younger failed one  *)
(* had overtaken: that order is the only flaw of the retry.                *)
(***************************************************************************)
THEOREM AddressesSettle == Spec => []AddressSettles
<1>1. StatusInv => AddressSettles
  <2> SUFFICES ASSUME StatusInv, NEW n \in Nodes, AtRest(n), ~erased[n], ~Correct(n)
               PROVE  FALSE
    BY DEF AddressSettles
  <2>1. \/ tasks[n] # <<>> /\ Right(n, tasks[n][Len(tasks[n])])
        \/ Due(n)
    BY DEF StatusInv, NodeInv, AtWork, AtRest
  <2> QED BY <2>1 DEF AtRest, Due
<1> QED BY <1>1, StatusInit, StatusStep, PTL DEF Spec
=============================================================================
