-------------------------- MODULE SupervisorProofs --------------------------
(***************************************************************************)
(* What the supervisor guarantees for any number of questions, supervisor   *)
(* processes, requests and workers, and any retry budget.                  *)
(***************************************************************************)
EXTENDS Supervisor, TLAPS

-----------------------------------------------------------------------------
(* Failures and retries.                                                     *)

LEMMA NoneApart ==
  /\ None \notin Nat /\ None \notin Stages
  /\ None \notin Continuing /\ None \notin Stopping
  /\ None \notin {"SCIENTIFIC_RESULT", "ATTRIBUTION", "OTHER", "MIGRATE"}
  /\ None \notin {"TOO_EASY", "VALIDATION_PASSED", "BLOCKED"}
BY SupervisorAssumption

LEMMA RecordTyped ==
  ASSUME RecoveryTypeOK, NEW q \in Questions, NEW r \in Rounds, NEW s \in Stages,
         RecordFailure(q, r, s)
  PROVE  RecoveryTypeOK'
<1>1. failures' \in [Questions -> [Rounds -> [Stages -> 0 .. MaxFailures]]]
  BY RecoveryAssumption DEF RecoveryTypeOK, RecordFailure, Count
<1>2. circuit' \in {circuit, Open}
  BY DEF RecordFailure
<1> QED
  BY <1>1, <1>2 DEF RecoveryTypeOK, Open

LEMMA ClearTyped ==
  ASSUME RecoveryTypeOK, NEW q \in Questions, NEW r \in Rounds, ClearRound(q, r)
  PROVE  RecoveryTypeOK'
BY RecoveryAssumption DEF RecoveryTypeOK, ClearRound

-----------------------------------------------------------------------------
(* Requests and workers.                                                     *)

RequestsTyped == requests \in [Questions -> Seq(Requests)]

\* No request is forgotten.
RequestsStay == \A x \in Questions : Len(requests'[x]) >= Len(requests[x])

SameJob(v, w) ==
    v.question = w.question /\ v.request = w.request /\ v.kind = w.kind

\* W lists the workers of today, possibly with other owners or no longer alive.
SameWorkers(W) ==
    /\ W \in Seq(WorkerRecords)
    /\ Len(W) = Len(workers)
    /\ \A w \in DOMAIN workers : SameJob(W[w], workers[w])

\* At most one worker is started, to do the job given.
AtMostOneStarted(q, a, kind) ==
    /\ workers' \in Seq(WorkerRecords)
    /\ Len(workers') \in {Len(workers), Len(workers) + 1}
    /\ \A w \in DOMAIN workers : SameJob(workers'[w], workers[w])
    /\ Len(workers') = Len(workers) + 1 =>
           /\ workers'[Len(workers')].question = q
           /\ workers'[Len(workers')].request = a
           /\ workers'[Len(workers')].kind = kind

LEMMA OrphanedSame ==
  ASSUME ControlTypeOK, NEW p \in Probers
  PROVE  SameWorkers(Orphaned(p))
<1>1. workers \in Seq(WorkerRecords)
  BY DEF ControlTypeOK
<1>2. ASSUME NEW w \in DOMAIN workers
      PROVE  Orphaned(p)[w] \in WorkerRecords /\ SameJob(Orphaned(p)[w], workers[w])
  <2>1. workers[w] \in WorkerRecords
    BY <1>1
  <2>2. Orphaned(p)[w] \in {workers[w], [workers[w] EXCEPT !.owner = None]}
    BY DEF Orphaned
  <2> QED
    BY <2>1, <2>2 DEF WorkerRecords, SameJob
<1> QED
  BY <1>1, <1>2 DEF Orphaned, SameWorkers

LEMMA WatchedSame ==
  ASSUME ControlTypeOK, NEW p \in Probers, NEW k, NEW n
  PROVE  SameWorkers(Watched(p, k, n))
<1>1. SameWorkers(workers)
  BY DEF SameWorkers, SameJob, ControlTypeOK
<1> QED
  BY <1>1, OrphanedSame DEF Watched

LEMMA NoneStarted ==
  ASSUME SameWorkers(workers'), NEW q, NEW a, NEW kind, workers \in Seq(WorkerRecords)
  PROVE  AtMostOneStarted(q, a, kind)
BY DEF SameWorkers, AtMostOneStarted

LEMMA OneStarted ==
  ASSUME NEW W, SameWorkers(W), workers \in Seq(WorkerRecords),
         NEW q \in Questions, NEW a \in Nat, NEW kind \in {"session", "continuation"},
         NEW owner \in Probers \cup {None},
         workers' = Append(W, Worker(q, a, kind, owner))
  PROVE  AtMostOneStarted(q, a, kind)
<1>1. Worker(q, a, kind, owner) \in WorkerRecords
  BY DEF Worker, WorkerRecords
<1>2. /\ Append(W, Worker(q, a, kind, owner)) \in Seq(WorkerRecords)
      /\ Len(workers') = Len(workers) + 1
      /\ workers'[Len(workers')] = Worker(q, a, kind, owner)
      /\ \A w \in DOMAIN workers : workers'[w] = W[w]
  BY <1>1 DEF SameWorkers
<1> QED
  BY <1>2 DEF SameWorkers, AtMostOneStarted, Worker

\* What is left to show of the workers, for every action.
LEMMA ControlTyped ==
  ASSUME ControlTypeOK, RequestsTyped', RequestsStay,
         NEW q, NEW a, NEW kind,
         AtMostOneStarted(q, a, kind),
         Len(workers') = Len(workers) \/ a \in DOMAIN requests'[q]
  PROVE  ControlTypeOK'
<1>1. \A x \in Questions : DOMAIN requests[x] \subseteq DOMAIN requests'[x]
  BY DEF RequestsTyped, RequestsStay, ControlTypeOK
<1>2. workers \in Seq(WorkerRecords) /\ workers' \in Seq(WorkerRecords)
  BY DEF ControlTypeOK, AtMostOneStarted
<1>3. ASSUME NEW w \in DOMAIN workers'
      PROVE  workers'[w].request \in DOMAIN requests'[workers'[w].question]
  <2>1. CASE w \in DOMAIN workers
    <3>1. workers[w] \in WorkerRecords
      BY <1>2, <2>1
    <3>2. workers[w].question \in Questions
      BY <3>1 DEF WorkerRecords
    <3> QED
      BY <1>1, <2>1, <3>2 DEF ControlTypeOK, AtMostOneStarted, SameJob
  <2>2. CASE w \notin DOMAIN workers
    BY <1>2, <2>2 DEF AtMostOneStarted
  <2> QED
    BY <2>1, <2>2
<1> QED
  BY <1>2, <1>3 DEF ControlTypeOK, RequestsTyped

LEMMA ContinuedOnce ==
  ASSUME ControlTypeOK, LaunchedOnce, NEW q, NEW a,
         AtMostOneStarted(q, a, "continuation")
  PROVE  LaunchedOnce'
<1>1. workers \in Seq(WorkerRecords) /\ workers' \in Seq(WorkerRecords)
  BY DEF ControlTypeOK, AtMostOneStarted
<1>2. ASSUME NEW w \in DOMAIN workers', workers'[w].kind = "session"
      PROVE  w \in DOMAIN workers /\ SameJob(workers'[w], workers[w])
  BY <1>1, <1>2 DEF AtMostOneStarted
<1> QED
  BY <1>2 DEF LaunchedOnce, SameJob

LEMMA StartedOnce ==
  ASSUME ControlTypeOK, LaunchedOnce, NEW q \in Questions, NEW a,
         AtMostOneStarted(q, a, "session"), a \notin DOMAIN requests[q]
  PROVE  LaunchedOnce'
<1>1. workers \in Seq(WorkerRecords) /\ workers' \in Seq(WorkerRecords)
  BY DEF ControlTypeOK, AtMostOneStarted
<1>2. ASSUME NEW v \in DOMAIN workers', NEW w \in DOMAIN workers',
             workers'[v].question = workers'[w].question,
             workers'[v].request = workers'[w].request,
             w \in DOMAIN workers
      PROVE  v \in DOMAIN workers
  <2>1. workers[w].request \in DOMAIN requests[workers[w].question]
    BY <1>2 DEF ControlTypeOK
  <2>2. SameJob(workers'[w], workers[w])
    BY <1>2 DEF AtMostOneStarted
  <2> SUFFICES ASSUME v \notin DOMAIN workers PROVE FALSE
    OBVIOUS
  <2>3. v = Len(workers') /\ Len(workers') = Len(workers) + 1
    BY <1>1 DEF AtMostOneStarted
  <2> QED
    BY <1>2, <2>1, <2>2, <2>3 DEF AtMostOneStarted, SameJob
<1>3. ASSUME NEW v \in DOMAIN workers', NEW w \in DOMAIN workers',
             v \notin DOMAIN workers, w \notin DOMAIN workers
      PROVE  v = w
  BY <1>1, <1>3 DEF AtMostOneStarted
<1>4. \A w \in DOMAIN workers : SameJob(workers'[w], workers[w])
  BY DEF AtMostOneStarted
<1> QED
  BY <1>2, <1>3, <1>4 DEF LaunchedOnce, SameJob
LEMMA NoneStartedKeeps ==
  ASSUME ControlTypeOK, LaunchedOnce, RequestsTyped', RequestsStay, SameWorkers(workers')
  PROVE  ControlTypeOK' /\ LaunchedOnce'
<1>1. AtMostOneStarted(1, 1, "continuation") /\ Len(workers') = Len(workers)
  BY NoneStarted DEF SameWorkers, ControlTypeOK
<1> QED
  BY <1>1, ControlTyped, ContinuedOnce

-----------------------------------------------------------------------------
(* What the actions do to the requests.                                      *)

\* Only the last round may lack a decision to continue, and only a scientific
\* round has a decision.
Ordered(rounds) ==
    \A i \in DOMAIN rounds :
        /\ i < Len(rounds) => rounds[i].decision \in Continuing
        /\ rounds[i].decision # None => rounds[i].outcome \in Scientific

RoundsOrdered ==
    \A x \in Questions : \A b \in DOMAIN requests[x] : Ordered(requests[x][b].rounds)

\* The rounds of next begin with all the decided ones of rounds.
Extends(rounds, next) ==
    \A i \in DOMAIN rounds :
        rounds[i].decision # None => i \in DOMAIN next /\ next[i] = rounds[i]

DecisionsKept ==
    \A x \in Questions : \A b \in DOMAIN requests[x] :
        Extends(requests[x][b].rounds, requests'[x][b].rounds)

OnlyOf(q) == \A x \in Questions : x # q => requests'[x] = requests[x]

NoneIssued == \A x \in Questions : Len(requests'[x]) = Len(requests[x])

RequestsStep ==
    RequestsTyped' /\ RequestsStay /\ RoundsOrdered' /\ DecisionsKept

LEMMA RequestTyped ==
  ASSUME RequestsTyped, NEW q \in Questions, NEW a \in DOMAIN requests[q]
  PROVE  /\ requests[q] \in Seq(Requests)
         /\ requests[q][a] \in Requests
         /\ requests[q][a].rounds \in Seq(RoundRecords)
         /\ \A i \in DOMAIN requests[q][a].rounds :
                requests[q][a].rounds[i] \in RoundRecords
<1>1. requests[q] \in Seq(Requests)
  BY DEF RequestsTyped
<1>2. requests[q][a] \in Requests
  BY <1>1
<1>3. requests[q][a].rounds \in Seq(RoundRecords)
  BY <1>2 DEF Requests
<1> QED
  BY <1>1, <1>2, <1>3

\* A request is replaced by another.
Replaced(q, a, request) == [requests EXCEPT ![q][a] = request]

LEMMA ReplacedTyped ==
  ASSUME RequestsTyped, NEW q \in Questions, NEW a \in DOMAIN requests[q],
         NEW request \in Requests,
         requests' = Replaced(q, a, request)
  PROVE  /\ RequestsTyped' /\ RequestsStay
         /\ \A x \in Questions : Len(requests'[x]) = Len(requests[x])
         /\ \A x \in Questions : \A b \in DOMAIN requests[x] :
                requests'[x][b] = IF x = q /\ b = a THEN request ELSE requests[x][b]
<1>1. requests \in [Questions -> Seq(Requests)]
  BY DEF RequestsTyped
<1>2. requests' = [requests EXCEPT ![q] = [requests[q] EXCEPT ![a] = request]]
  BY DEF Replaced
<1>3. requests[q] \in Seq(Requests)
  BY <1>1
<1>4. [requests[q] EXCEPT ![a] = request] \in Seq(Requests)
  BY <1>3
<1>5. Len([requests[q] EXCEPT ![a] = request]) = Len(requests[q])
  BY <1>3
<1>6. \A x \in Questions :
          requests'[x] \in Seq(Requests) /\ Len(requests'[x]) = Len(requests[x])
  BY <1>1, <1>2, <1>3, <1>4, <1>5
<1>7. \A x \in Questions : Len(requests[x]) \in Nat
  BY <1>1
<1> QED
  BY <1>1, <1>2, <1>3, <1>6, <1>7 DEF RequestsTyped, RequestsStay

LEMMA RequestsUnchanged ==
  ASSUME RequestsTyped, RoundsOrdered, UNCHANGED requests, NEW q
  PROVE  RequestsStep /\ OnlyOf(q) /\ NoneIssued
<1>1. \A x \in Questions : Len(requests[x]) \in Nat
  BY DEF RequestsTyped
<1> QED
  BY <1>1 DEF RequestsStep, OnlyOf, NoneIssued, RequestsTyped, RequestsStay,
              RoundsOrdered, DecisionsKept, Extends

LEMMA ReplacedStep ==
  ASSUME RequestsTyped, RoundsOrdered,
         NEW q \in Questions, NEW a \in DOMAIN requests[q], NEW request \in Requests,
         Ordered(request.rounds),
         Extends(requests[q][a].rounds, request.rounds),
         requests' = Replaced(q, a, request)
  PROVE  RequestsStep /\ OnlyOf(q) /\ NoneIssued /\ requests'[q][a] = request
<1>1. /\ RequestsTyped' /\ RequestsStay /\ NoneIssued
      /\ \A x \in Questions : \A b \in DOMAIN requests[x] :
             requests'[x][b] = IF x = q /\ b = a THEN request ELSE requests[x][b]
  BY ReplacedTyped DEF NoneIssued
<1>2. OnlyOf(q)
  BY DEF OnlyOf, Replaced, RequestsTyped
<1>3. \A x \in Questions : DOMAIN requests'[x] = DOMAIN requests[x]
  BY <1>1 DEF RequestsTyped, NoneIssued
<1>4. RoundsOrdered'
  BY <1>1, <1>3 DEF RoundsOrdered
<1>5. DecisionsKept
  BY <1>1 DEF DecisionsKept, Extends
<1> QED
  BY <1>1, <1>2, <1>4, <1>5 DEF RequestsStep

\* A decision is published, or found published.
LEMMA DecidedStep ==
  ASSUME RequestsTyped, RoundsOrdered,
         NEW q \in Questions, NEW a \in DOMAIN requests[q], NEW i, NEW action,
         MayDecide(requests[q][a], i, action),
         requests' = Decided(q, a, i, action)
  PROVE  /\ RequestsStep /\ OnlyOf(q) /\ NoneIssued
         /\ i \in 1 .. 5
         /\ Len(requests'[q][a].rounds) = Len(requests[q][a].rounds)
         /\ \A j \in DOMAIN requests[q][a].rounds :
                j # i => requests'[q][a].rounds[j] = requests[q][a].rounds[j]
         /\ requests'[q][a].rounds[i].decision = action
<1> DEFINE old == requests[q][a].rounds
           rounds == [old EXCEPT ![i] = [old[i] EXCEPT !.decision = action]]
           request == [requests[q][a] EXCEPT !.rounds = rounds]
<1>1. /\ requests[q][a] \in Requests
      /\ old \in Seq(RoundRecords)
      /\ i \in DOMAIN old /\ old[i] \in RoundRecords
      /\ old[i].decision \in {None, action}
      /\ Ordered(old)
  BY RequestTyped DEF MayDecide, RoundsOrdered
<1>2. /\ i \in 1 .. 5 /\ old[i].outcome \in Scientific
      /\ action \in Continuing \cup Stopping
  BY <1>1 DEF MayDecide, Allowed, RoundRecords, Scientific, Continuing, Stopping
<1>3. [old[i] EXCEPT !.decision = action] \in RoundRecords
  BY <1>1, <1>2 DEF RoundRecords
<1>4. rounds \in Seq(RoundRecords) /\ Len(rounds) = Len(old) /\ DOMAIN rounds = DOMAIN old
  BY <1>1, <1>3
<1>5. /\ \A j \in DOMAIN old : j # i => rounds[j] = old[j]
      /\ rounds[i].outcome = old[i].outcome
      /\ rounds[i].decision = action
      /\ old[i].decision # None => rounds[i] = old[i]
  BY <1>1 DEF RoundRecords
<1>6. request \in Requests
  BY <1>1, <1>4 DEF Requests
<1>7. request.rounds = rounds
  BY <1>1 DEF Requests
<1>8. requests' = Replaced(q, a, request)
  BY DEF Decided, Replaced
<1> HIDE DEF rounds, request
<1>9. Ordered(rounds)
  <2>1. i < Len(old) => action \in Continuing
    BY <1>1, NoneApart DEF Ordered
  <2> QED
    BY <1>1, <1>2, <1>4, <1>5, <2>1 DEF Ordered
<1>10. Extends(old, rounds)
  BY <1>1, <1>4, <1>5 DEF Extends
<1>11. RequestsStep /\ OnlyOf(q) /\ NoneIssued /\ requests'[q][a] = request
  BY <1>6, <1>7, <1>8, <1>9, <1>10, ReplacedStep
<1> QED
  BY <1>2, <1>4, <1>5, <1>7, <1>11

\* A failed round is archived: it has no decision, nor is it followed by another.
LEMMA ArchivedStep ==
  ASSUME RequestsTyped, RoundsOrdered, NEW q \in Questions,
         sup[q].attempt \in DOMAIN requests[q], sup[q].round \in Rounds,
         Archivable(q), requests' = Archived(q)
  PROVE  /\ RequestsStep /\ OnlyOf(q) /\ NoneIssued
         /\ Len(requests'[q][sup[q].attempt].rounds) <= Len(Current(q).rounds)
         /\ \A i \in DOMAIN requests'[q][sup[q].attempt].rounds :
                requests'[q][sup[q].attempt].rounds[i] = Current(q).rounds[i]
<1> DEFINE a == sup[q].attempt
           r == sup[q].round
           old == requests[q][a].rounds
           rounds == SubSeq(old, 1, r - 1)
           request == [requests[q][a] EXCEPT !.rounds = rounds]
<1>1. /\ requests[q][a] \in Requests /\ old \in Seq(RoundRecords)
      /\ Ordered(old) /\ r \in Nat /\ r > 0
  BY RequestTyped, SupervisorAssumption DEF RoundsOrdered
<1>2. CASE r \notin DOMAIN old
  <2>1. UNCHANGED requests
    BY <1>2 DEF Archived, Current
  <2> QED
    BY <1>1, <2>1, RequestsUnchanged DEF Current
<1>3. CASE r \in DOMAIN old
  <2>1. /\ rounds \in Seq(RoundRecords) /\ Len(rounds) = r - 1
        /\ DOMAIN rounds = 1 .. (r - 1)
        /\ \A i \in 1 .. (r - 1) : rounds[i] = old[i]
    BY <1>1, <1>3
  <2>2. old[r].decision = None /\ r = Len(old)
    BY <1>1, <1>3, NoneApart DEF Archivable, Current, Ordered
  <2>3. request \in Requests /\ request.rounds = rounds
    BY <1>1, <2>1 DEF Requests
  <2>4. requests' = Replaced(q, a, request)
    BY <1>3 DEF Archived, Replaced, Current
  <2> HIDE DEF rounds, request
  <2>5. Ordered(rounds) /\ Extends(old, rounds)
    <3>1. DOMAIN old = 1 .. r
      BY <1>1, <2>2
    <3>2. ASSUME NEW i \in DOMAIN old, i # r
          PROVE  i \in DOMAIN rounds /\ rounds[i] = old[i]
      BY <1>1, <2>1, <3>1, <3>2
    <3>3. Extends(old, rounds)
      BY <2>2, <3>2 DEF Extends
    <3>4. ASSUME NEW i \in DOMAIN rounds
          PROVE  i \in DOMAIN old /\ i < Len(old) /\ rounds[i] = old[i]
      BY <1>1, <2>1, <2>2, <3>1
    <3>5. Ordered(rounds)
      BY <1>1, <3>4 DEF Ordered
    <3> QED
      BY <3>3, <3>5
  <2>6. RequestsStep /\ OnlyOf(q) /\ NoneIssued /\ requests'[q][a] = request
    BY <2>3, <2>4, <2>5, ReplacedStep
  <2> QED
    BY <1>1, <1>3, <2>1, <2>3, <2>6 DEF Current
<1> QED
  BY <1>2, <1>3

\* A request is issued, which has no round yet.
LEMMA IssuedStep ==
  ASSUME RequestsTyped, RoundsOrdered, NEW q \in Questions,
         requests' = [requests EXCEPT ![q] = Append(@, Request)]
  PROVE  /\ RequestsStep /\ OnlyOf(q)
         /\ Len(requests'[q]) = Len(requests[q]) + 1
         /\ requests'[q][Len(requests[q]) + 1] = Request
         /\ \A b \in DOMAIN requests[q] : requests'[q][b] = requests[q][b]
<1>1. requests[q] \in Seq(Requests) /\ Request \in Requests
  <2>1. <<>> \in Seq(RoundRecords)
    OBVIOUS
  <2> QED
    BY <2>1 DEF RequestsTyped, Request, Requests
<1>2. /\ requests'[q] \in Seq(Requests)
      /\ Len(requests'[q]) = Len(requests[q]) + 1
      /\ requests'[q][Len(requests[q]) + 1] = Request
      /\ \A b \in DOMAIN requests[q] : requests'[q][b] = requests[q][b]
  BY <1>1 DEF RequestsTyped
<1>3. OnlyOf(q)
  BY DEF OnlyOf, RequestsTyped
<1>4. RequestsTyped'
  <2>1. requests' \in [Questions -> Seq(Requests)]
    BY <1>1 DEF RequestsTyped
  <2> QED
    BY <2>1 DEF RequestsTyped
<1>5. RequestsStay
  BY <1>1, <1>2, <1>3 DEF RequestsStay, OnlyOf, RequestsTyped
<1>6. Ordered(Request.rounds)
  BY DEF Ordered, Request
<1>7. RoundsOrdered'
  <2>1. ASSUME NEW x \in Questions, NEW b \in DOMAIN requests'[x]
        PROVE  Ordered(requests'[x][b].rounds)
    <3>1. CASE x # q
      BY <1>3, <3>1 DEF OnlyOf, RoundsOrdered
    <3>2. CASE x = q /\ b \in DOMAIN requests[q]
      BY <1>2, <3>2 DEF RoundsOrdered
    <3>3. CASE x = q /\ b \notin DOMAIN requests[q]
      BY <1>1, <1>2, <1>6, <3>3
    <3> QED
      BY <3>1, <3>2, <3>3
  <2> QED
    BY <2>1 DEF RoundsOrdered
<1>8. DecisionsKept
  BY <1>2, <1>3 DEF DecisionsKept, Extends, OnlyOf
<1> QED
  BY <1>2, <1>3, <1>4, <1>5, <1>7, <1>8 DEF RequestsStep

\* A worker writes to its request.
LEMMA PublishedStep ==
  ASSUME ControlTypeOK, RoundsOrdered, NEW w \in DOMAIN workers,
         NEW outcome \in Scientific \cup {"PLATFORM"}, Publish(w, outcome)
  PROVE  /\ RequestsStep /\ NoneIssued
         /\ \A x \in Questions : \A b \in DOMAIN requests[x] :
                \A i \in DOMAIN requests'[x][b].rounds :
                    requests'[x][b].rounds[i].decision # None =>
                        /\ i \in DOMAIN requests[x][b].rounds
                        /\ requests'[x][b].rounds[i] = requests[x][b].rounds[i]
<1> DEFINE q == workers[w].question
           a == workers[w].request
           old == requests[q][a].rounds
           rounds == Append(old, Undecided(outcome))
           request == [requests[q][a] EXCEPT !.rounds = rounds]
<1>1. RequestsTyped /\ q \in Questions /\ a \in DOMAIN requests[q]
  <2>1. workers[w] \in WorkerRecords
    BY DEF ControlTypeOK
  <2> QED
    BY <2>1 DEF ControlTypeOK, RequestsTyped, WorkerRecords
<1>2. requests[q][a] \in Requests /\ old \in Seq(RoundRecords) /\ Ordered(old)
  BY <1>1, RequestTyped DEF RoundsOrdered
<1>3. Undecided(outcome) \in RoundRecords /\ Undecided(outcome).decision = None
  BY DEF Undecided, RoundRecords
<1>4. /\ rounds \in Seq(RoundRecords) /\ DOMAIN rounds = 1 .. (Len(old) + 1)
      /\ Len(rounds) = Len(old) + 1 /\ DOMAIN old = 1 .. Len(old)
      /\ \A i \in DOMAIN old : rounds[i] = old[i]
      /\ rounds[Len(old) + 1] = Undecided(outcome)
  BY <1>2, <1>3
<1>5. request \in Requests /\ request.rounds = rounds
  BY <1>2, <1>4 DEF Requests
<1>6. requests' = Replaced(q, a, request)
  BY DEF Publish, Replaced
<1>7. \A i \in DOMAIN old : old[i].decision \in Continuing
  BY DEF Publish, MayRun, Served
<1> HIDE DEF rounds, request
<1>8. Ordered(rounds)
  <2>1. ASSUME NEW i \in DOMAIN rounds
        PROVE  /\ i < Len(rounds) => rounds[i].decision \in Continuing
               /\ rounds[i].decision # None => rounds[i].outcome \in Scientific
    <3>1. CASE i \in DOMAIN old
      <4>1. rounds[i] = old[i]
        BY <1>4, <3>1
      <4> QED
        BY <1>2, <1>7, <3>1, <4>1 DEF Ordered
    <3>2. CASE i \notin DOMAIN old
      <4>1. Len(old) \in Nat
        BY <1>2
      <4>2. i = Len(old) + 1
        <5>1. i \in 1 .. (Len(old) + 1) /\ i \notin 1 .. Len(old)
          BY <1>4, <3>2
        <5> QED
          BY <4>1, <5>1
      <4>3. i = Len(rounds) /\ Len(rounds) \in Nat /\ rounds[i] = Undecided(outcome)
        BY <1>4, <4>1, <4>2
      <4> QED
        BY <1>3, <4>3
    <3> QED
      BY <3>1, <3>2
  <2> QED
    BY <2>1 DEF Ordered
<1>9. Extends(old, rounds)
  BY <1>2, <1>4 DEF Extends
<1>10. RequestsStep /\ NoneIssued
  BY <1>1, <1>5, <1>6, <1>8, <1>9, ReplacedStep
<1>11. \A x \in Questions : \A b \in DOMAIN requests[x] :
           requests'[x][b] = IF x = q /\ b = a THEN request ELSE requests[x][b]
  BY <1>1, <1>5, <1>6, ReplacedTyped
<1>12. \A i \in DOMAIN rounds :
           rounds[i].decision # None => i \in DOMAIN old /\ rounds[i] = old[i]
  BY <1>2, <1>3, <1>4
<1> QED
  BY <1>5, <1>10, <1>11, <1>12

LEMMA ReceiptStep ==
  ASSUME ControlTypeOK, RoundsOrdered, NEW w \in DOMAIN workers,
         NEW value \in Stages \cup {"SCIENTIFIC_RESULT"}, Receipt(w, value)
  PROVE  /\ RequestsStep /\ NoneIssued
         /\ \A x \in Questions : \A b \in DOMAIN requests[x] :
                requests'[x][b].rounds = requests[x][b].rounds
<1> DEFINE q == workers[w].question
           a == workers[w].request
           request == [requests[q][a] EXCEPT !.receipt = value]
<1>1. RequestsTyped /\ q \in Questions /\ a \in DOMAIN requests[q]
  <2>1. workers[w] \in WorkerRecords
    BY DEF ControlTypeOK
  <2> QED
    BY <2>1 DEF ControlTypeOK, RequestsTyped, WorkerRecords
<1>2. requests[q][a] \in Requests /\ Ordered(requests[q][a].rounds)
  BY <1>1, RequestTyped DEF RoundsOrdered
<1>3. request \in Requests /\ request.rounds = requests[q][a].rounds
  BY <1>2 DEF Requests
<1>4. requests' = Replaced(q, a, request)
  BY DEF Receipt, Replaced
<1> HIDE DEF request
<1>5. Extends(requests[q][a].rounds, request.rounds)
  BY <1>3 DEF Extends
<1>6. RequestsStep /\ NoneIssued
  BY <1>1, <1>2, <1>3, <1>4, <1>5, ReplacedStep
<1>7. \A x \in Questions : \A b \in DOMAIN requests[x] :
           requests'[x][b] = IF x = q /\ b = a THEN request ELSE requests[x][b]
  BY <1>1, <1>3, <1>4, ReplacedTyped
<1> QED
  BY <1>3, <1>6, <1>7
-----------------------------------------------------------------------------
(* The inductive invariant.                                                  *)

Hinted(request) ==
    Len(request.rounds) >= 3 /\ request.rounds[3].decision = "CONTINUE_HINT"

\* A snapshot from which a hinted session is never launched anew.
Noticed(s) ==
    \/ s.decided >= 3 /\ s.round >= 4
    \/ s.phase = "TEACHER_ACTION" /\ s.round = 3
    \/ s.phase = "FINISHED"

SupTyped ==
    /\ sup \in [Questions -> Snapshots]
    /\ \A x \in Questions : Storable(sup[x])

\* The attempt of a snapshot was issued before the snapshot was stored.
AttemptsIssued == \A x \in Questions : sup[x].attempt <= Len(requests[x])

\* A hint that was published is known to the snapshot, or the snapshot still
\* waits for it.
HintsNoticed ==
    \A x \in Questions :
        sup[x].attempt # 0 /\ Hinted(Current(x)) => Noticed(sup[x])

SnapshotInv == SupTyped /\ AttemptsIssued /\ HintsNoticed

\* A retry is scheduled only after its failure was counted.
LedgerInv ==
    /\ RecoveryTypeOK
    /\ retried \in [Questions -> [Rounds -> [Stages -> Nat]]]
    /\ \A x \in Questions, r \in Rounds, s \in Stages :
           retried[x][r][s] <= failures[x][r][s] /\ retried[x][r][s] <= RetryBudget

RestTyped ==
    /\ lost \in [Questions -> SUBSET Nat]
    /\ runs \in [Questions -> [ledger : SUBSET Nat, verdict : Verdicts]]
    /\ probing \subseteq Probers

IInv ==
    /\ ControlTypeOK /\ RoundsOrdered /\ LaunchedOnce
    /\ SnapshotInv /\ LedgerInv /\ RestTyped

\* The step HintedSessionContinues speaks of.
HintedContinues ==
    \A x \in Questions :
        LET n == Len(requests[x]) IN
        Len(requests'[x]) > n /\ n > 0 =>
            \/ Len(requests[x][n].rounds) < 3
            \/ requests[x][n].rounds[3].decision # "CONTINUE_HINT"
            \/ requests[x][n].receipt # None

StepKeeps == IInv' /\ DecisionsKept /\ HintedContinues

LEMMA IInvTyped ==
  ASSUME IInv
  PROVE  TypeOK /\ RetriesBounded /\ RequestsTyped
BY DEF IInv, SnapshotInv, SupTyped, Storable, LedgerInv, RestTyped, TypeOK,
       RetriesBounded, ControlTypeOK, RequestsTyped

-----------------------------------------------------------------------------
(* What the actions do to the snapshots.                                     *)

\* The snapshot of q becomes s (or was s before).
Stored(q, s) ==
    /\ s \in Snapshots /\ Storable(s)
    /\ s.attempt <= Len(requests'[q])
    /\ s.attempt # 0 /\ Hinted(requests'[q][s.attempt]) => Noticed(s)
    /\ sup' = [sup EXCEPT ![q] = s]

\* Hints do not appear in a request whose third round stays as it is.
LEMMA HintKept ==
  ASSUME NEW old \in Seq(RoundRecords), NEW next \in Seq(RoundRecords),
         NEW r1, r1.rounds = old, NEW r2, r2.rounds = next,
         Len(next) <= Len(old),
         3 \in DOMAIN next /\ next[3].decision = "CONTINUE_HINT" => next[3] = old[3],
         Hinted(r2)
  PROVE  Hinted(r1)
<1>1. Len(next) >= 3 /\ Len(next) \in Nat /\ Len(old) \in Nat
  BY DEF Hinted
<1>2. 3 \in DOMAIN next
  BY <1>1
<1>3. old[3].decision = "CONTINUE_HINT"
  BY <1>2 DEF Hinted
<1> QED
  BY <1>1, <1>3 DEF Hinted

LEMMA CurrentTyped ==
  ASSUME RequestsTyped, SnapshotInv, NEW q \in Questions
  PROVE  /\ sup[q] \in Snapshots /\ Storable(sup[q])
         /\ sup[q].attempt \in Nat /\ sup[q].round \in Rounds
         /\ sup[q].attempt # 0 => sup[q].attempt \in DOMAIN requests[q]
<1>1. sup[q] \in Snapshots /\ Storable(sup[q])
  BY DEF SnapshotInv, SupTyped
<1>2. sup[q].attempt \in 0 .. MaxRequests /\ sup[q].round \in Rounds
  BY <1>1 DEF Snapshots
<1>3. requests[q] \in Seq(Requests) /\ sup[q].attempt <= Len(requests[q])
  BY DEF RequestsTyped, SnapshotInv, AttemptsIssued
<1> QED
  BY <1>1, <1>2, <1>3, SupervisorAssumption

LEMMA StoredKeeps ==
  ASSUME RequestsTyped, SnapshotInv, NEW q \in Questions, OnlyOf(q),
         \E s : Stored(q, s)
  PROVE  SnapshotInv'
<1>1. PICK s : Stored(q, s)
  OBVIOUS
<1>2. sup \in [Questions -> Snapshots]
  BY DEF SnapshotInv, SupTyped
<1>3. sup'[q] = s /\ \A x \in Questions : x # q => sup'[x] = sup[x]
  BY <1>1, <1>2 DEF Stored
<1>4. SupTyped'
  <2>1. sup' \in [Questions -> Snapshots]
    BY <1>1, <1>2 DEF Stored
  <2>2. \A x \in Questions : Storable(sup'[x])
    BY <1>1, <1>3 DEF Stored, SnapshotInv, SupTyped
  <2> QED
    BY <2>1, <2>2 DEF SupTyped, Storable
<1>5. AttemptsIssued'
  BY <1>1, <1>3 DEF Stored, SnapshotInv, AttemptsIssued, OnlyOf
<1>6. HintsNoticed'
  BY <1>1, <1>3 DEF Stored, SnapshotInv, HintsNoticed, OnlyOf, Current
<1> QED
  BY <1>4, <1>5, <1>6 DEF SnapshotInv

LEMMA KeptStored ==
  ASSUME RequestsTyped, SnapshotInv, RequestsTyped', RequestsStay, NEW q \in Questions,
         UNCHANGED sup,
         sup[q].attempt # 0 /\ Hinted(requests'[q][sup[q].attempt]) => Noticed(sup[q])
  PROVE  \E s : Stored(q, s)
<1>1. sup[q] \in Snapshots /\ Storable(sup[q]) /\ sup[q].attempt \in Nat
  BY CurrentTyped
<1>2. sup[q].attempt <= Len(requests[q]) /\ Len(requests[q]) \in Nat
      /\ Len(requests'[q]) >= Len(requests[q]) /\ Len(requests'[q]) \in Nat
  BY DEF RequestsTyped, RequestsStay, SnapshotInv, AttemptsIssued
<1>3. sup' = [sup EXCEPT ![q] = sup[q]]
  BY DEF SnapshotInv, SupTyped
<1>4. sup[q].attempt <= Len(requests'[q])
  BY <1>1, <1>2
<1>5. Stored(q, sup[q])
  BY <1>1, <1>3, <1>4 DEF Stored
<1> QED
  BY <1>5

LEMMA WriteStored ==
  ASSUME NEW q \in Questions, NEW s \in Snapshots, Storable(s),
         s.attempt <= Len(requests'[q]),
         s.attempt # 0 /\ Hinted(requests'[q][s.attempt]) => Noticed(s),
         Write(q, s)
  PROVE  \E t : Stored(q, t)
<1> DEFINE t == [s EXCEPT !.noted = FALSE]
<1>1. t \in Snapshots
  BY DEF Snapshots
<1>2. /\ t.phase = s.phase /\ t.attempt = s.attempt /\ t.worker = s.worker
      /\ t.condition = s.condition /\ t.decided = s.decided /\ t.round = s.round
  BY DEF Snapshots
<1>3. sup' = [sup EXCEPT ![q] = t]
  BY DEF Write
<1> HIDE DEF t
<1> QED
  BY <1>1, <1>2, <1>3 DEF Stored, Storable, Noticed

LEMMA LedgerUnchanged ==
  ASSUME LedgerInv, UNCHANGED <<recoveryVars, retried>>
  PROVE  LedgerInv'
BY DEF LedgerInv, recoveryVars, RecoveryTypeOK

\* The snapshot of q becomes s, in the same round of the same attempt.
Moved(q, s) ==
    /\ s \in Snapshots /\ Storable(s)
    /\ s.attempt = sup[q].attempt /\ s.decided = sup[q].decided /\ s.round = sup[q].round
    /\ sup' = [sup EXCEPT ![q] = s]

LEMMA MovedStored ==
  ASSUME RequestsTyped, SnapshotInv, UNCHANGED requests, NEW q \in Questions,
         sup[q].phase \notin {"TEACHER_ACTION", "FINISHED"},
         \E s : Moved(q, s)
  PROVE  \E s : Stored(q, s)
<1>1. PICK s : Moved(q, s)
  OBVIOUS
<1>2. s.attempt <= Len(requests'[q])
  BY <1>1 DEF Moved, SnapshotInv, AttemptsIssued
<1>3. s.attempt # 0 /\ Hinted(requests'[q][s.attempt]) => Noticed(s)
  BY <1>1 DEF Moved, SnapshotInv, HintsNoticed, Current, Noticed
<1> QED
  BY <1>1, <1>2, <1>3 DEF Moved, Stored

LEMMA KeptMoved ==
  ASSUME SnapshotInv, NEW q \in Questions, UNCHANGED sup
  PROVE  \E s : Moved(q, s)
<1>1. Moved(q, sup[q])
  BY DEF Moved, SnapshotInv, SupTyped
<1> QED
  BY <1>1

LEMMA WriteMoved ==
  ASSUME NEW q \in Questions, NEW s \in Snapshots, Storable(s),
         s.attempt = sup[q].attempt, s.decided = sup[q].decided,
         s.round = sup[q].round, Write(q, s)
  PROVE  \E t : Moved(q, t)
<1> DEFINE t == [s EXCEPT !.noted = FALSE]
<1>1. t \in Snapshots
  BY DEF Snapshots
<1>2. /\ t.phase = s.phase /\ t.attempt = s.attempt /\ t.worker = s.worker
      /\ t.condition = s.condition /\ t.decided = s.decided /\ t.round = s.round
  BY DEF Snapshots
<1>3. sup' = [sup EXCEPT ![q] = t]
  BY DEF Write
<1> HIDE DEF t
<1>4. Moved(q, t)
  BY <1>1, <1>2, <1>3 DEF Moved, Storable
<1> QED
  BY <1>4

\* A failure is counted before what follows from the count is stored.
LEMMA FailureRecovered ==
  ASSUME SnapshotInv, LedgerInv, NEW q \in Questions, NEW stage \in Stages,
         NEW k \in 1 .. 3, RecoverFailure(q, stage, k)
  PROVE  LedgerInv' /\ \E s : Moved(q, s)
<1> DEFINE r == sup[q].round
           action == IF Blocked(q) THEN "MIGRATE" ELSE Decide(stage, Count(q, r, stage))
           s == Recovered(q, stage, action)
<1>1. sup[q] \in Snapshots /\ r \in Rounds
  BY DEF SnapshotInv, SupTyped, Snapshots
<1>2. action = "RETRY_RUNTIME" => Count(q, r, stage) <= RetryBudget
  BY DEF Decide
<1>3. k >= 2 => RecordFailure(q, r, stage)
  BY DEF RecoverFailure
<1>4. k < 2 => UNCHANGED recoveryVars
  BY DEF RecoverFailure
<1>5. WriteLast(q, k, 3, s)
  BY DEF RecoverFailure
<1>6. retried' = IF k = 3 /\ action = "RETRY_RUNTIME"
                 THEN [retried EXCEPT ![q][r][stage] = @ + 1]
                 ELSE retried
  BY DEF RecoverFailure
<1> HIDE DEF action
<1>7. \E t : Moved(q, t)
  <2>1. CASE k = 3
    <3>1. s \in Snapshots
      BY <1>1 DEF Recovered, Snapshots, Phases
    <3>2. /\ s.attempt = sup[q].attempt /\ s.decided = sup[q].decided
          /\ s.round = sup[q].round
          /\ s.phase # "RUNNING"
          /\ s.phase = "WAITING_EXTERNAL" => s.condition = "OTHER"
      BY <1>1 DEF Recovered, Snapshots
    <3>3. Storable(s)
      BY <3>2, NoneApart DEF Storable
    <3>4. Write(q, s)
      BY <1>5, <2>1 DEF WriteLast
    <3> HIDE DEF s
    <3> QED
      BY <3>1, <3>2, <3>3, <3>4, WriteMoved
  <2>2. CASE k # 3
    <3>1. UNCHANGED sup
      BY <1>5, <2>2 DEF WriteLast
    <3> QED
      BY <3>1, KeptMoved
  <2> QED
    BY <2>1, <2>2
<1>8. RecoveryTypeOK'
  <2>1. CASE k >= 2
    BY <1>1, <1>3, <2>1, RecordTyped DEF LedgerInv
  <2>2. CASE k < 2
    BY <1>4, <2>2 DEF LedgerInv, RecoveryTypeOK, recoveryVars
  <2> QED
    BY <2>1, <2>2
<1>9. \A x \in Questions, y \in Rounds, z \in Stages :
          /\ failures[x][y][z] \in Nat /\ failures'[x][y][z] \in Nat
          /\ retried[x][y][z] \in Nat
  <2>1. \A n \in 0 .. MaxFailures : n \in Nat
    BY RecoveryAssumption
  <2> QED
    BY <1>8, <2>1 DEF LedgerInv, RecoveryTypeOK
<1>10. \A x \in Questions, y \in Rounds, z \in Stages :
           /\ failures'[x][y][z] >= failures[x][y][z]
           /\ k >= 2 /\ x = q /\ y = r /\ z = stage
              => failures'[x][y][z] = Count(q, r, stage)
  <2>1. CASE k >= 2
    <3>1. failures \in [Questions -> [Rounds -> [Stages -> 0 .. MaxFailures]]]
      BY DEF LedgerInv, RecoveryTypeOK
    <3>2. failures' = [failures EXCEPT ![q][r][stage] = Count(q, r, stage)]
      BY <1>3, <2>1 DEF RecordFailure
    <3> QED
      BY <1>1, <1>9, <3>1, <3>2 DEF Count
  <2>2. CASE k < 2
    BY <1>4, <1>9, <2>2 DEF recoveryVars
  <2> QED
    BY <2>1, <2>2
<1>11. retried' \in [Questions -> [Rounds -> [Stages -> Nat]]]
  <2>1. retried \in [Questions -> [Rounds -> [Stages -> Nat]]]
    BY DEF LedgerInv
  <2> QED
    BY <1>1, <1>6, <2>1
<1>12. \A x \in Questions, y \in Rounds, z \in Stages :
           retried'[x][y][z] \in
               IF k = 3 /\ action = "RETRY_RUNTIME" /\ x = q /\ y = r /\ z = stage
               THEN {retried[x][y][z] + 1} ELSE {retried[x][y][z]}
  <2>1. retried \in [Questions -> [Rounds -> [Stages -> Nat]]]
    BY DEF LedgerInv
  <2> QED
    BY <1>1, <1>6, <2>1
<1>13. ASSUME NEW x \in Questions, NEW y \in Rounds, NEW z \in Stages
       PROVE  retried'[x][y][z] <= failures'[x][y][z] /\ retried'[x][y][z] <= RetryBudget
  <2>1. retried[x][y][z] <= failures[x][y][z] /\ retried[x][y][z] <= RetryBudget
    BY DEF LedgerInv
  <2>2. CASE k = 3 /\ action = "RETRY_RUNTIME" /\ x = q /\ y = r /\ z = stage
    <3>1. retried'[x][y][z] = retried[x][y][z] + 1
      BY <1>12, <2>2
    <3>2. failures'[x][y][z] = failures[x][y][z] + 1
      BY <1>10, <2>2 DEF Count
    <3>3. failures[x][y][z] + 1 <= RetryBudget
      BY <1>2, <2>2 DEF Count
    <3> QED
      BY <1>9, <2>1, <3>1, <3>2, <3>3, RecoveryAssumption
  <2>3. CASE ~(k = 3 /\ action = "RETRY_RUNTIME" /\ x = q /\ y = r /\ z = stage)
    <3>1. retried'[x][y][z] = retried[x][y][z]
      BY <1>12, <2>3
    <3> QED
      BY <1>9, <1>10, <2>1, <3>1
  <2> QED
    BY <2>2, <2>3
<1> QED
  BY <1>7, <1>8, <1>11, <1>13 DEF LedgerInv

\* What is left to show of an action that issues no request.
LEMMA Assembled ==
  ASSUME IInv, NEW q \in Questions, RequestsStep, OnlyOf(q), NoneIssued,
         ControlTypeOK', LaunchedOnce', \E s : Stored(q, s), LedgerInv', RestTyped'
  PROVE  StepKeeps
<1>1. SnapshotInv'
  BY IInvTyped, StoredKeeps DEF IInv
<1>2. HintedContinues
  <2>1. \A x \in Questions : Len(requests[x]) \in Nat
    BY IInvTyped DEF RequestsTyped
  <2> QED
    BY <2>1 DEF HintedContinues, NoneIssued
<1> QED
  BY <1>1, <1>2 DEF StepKeeps, IInv, RequestsStep
-----------------------------------------------------------------------------
(* The actions of a supervisor process.                                      *)

LEMMA LaunchKeeps ==
  ASSUME IInv, NEW p \in Probers, NEW q \in Questions, NEW k \in 1 .. 3, Launch(p, q, k)
  PROVE  StepKeeps
<1> DEFINE a == sup[q].attempt + 1
           s == [sup[q] EXCEPT !.phase = "RUNNING", !.attempt = a,
                               !.worker = Len(workers) + 1, !.stage = None,
                               !.condition = None]
<1>1. /\ RequestsTyped /\ RoundsOrdered /\ ControlTypeOK /\ LaunchedOnce
      /\ SnapshotInv /\ LedgerInv /\ RestTyped
  BY IInvTyped DEF IInv
<1>2. /\ sup[q] \in Snapshots /\ Storable(sup[q]) /\ sup[q].attempt \in Nat
      /\ sup[q].attempt # 0 => sup[q].attempt \in DOMAIN requests[q]
  BY <1>1, CurrentTyped
<1>3. Len(requests[q]) = sup[q].attempt /\ a \notin DOMAIN requests[q]
  <2>1. Len(requests[q]) = sup[q].attempt /\ requests[q] \in Seq(Requests)
    BY <1>1 DEF Launch, MayIssue, RequestsTyped
  <2> QED
    BY <1>2, <2>1
<1>4. requests' = [requests EXCEPT ![q] = Append(@, Request)]
  BY <1>3 DEF Launch
<1>5. /\ RequestsStep /\ OnlyOf(q)
      /\ Len(requests'[q]) = a /\ requests'[q][a] = Request
      /\ \A b \in DOMAIN requests[q] : requests'[q][b] = requests[q][b]
  BY <1>1, <1>3, <1>4, IssuedStep
<1>6. RequestsTyped' /\ RequestsStay /\ RoundsOrdered' /\ DecisionsKept
  BY <1>5 DEF RequestsStep
<1>7. AtMostOneStarted(q, a, "session")
  <2>1. SameWorkers(Watched(p, k, 3)) /\ workers \in Seq(WorkerRecords)
    BY <1>1, WatchedSame DEF ControlTypeOK
  <2>2. CASE k >= 2
    <3>1. workers' = Append(Watched(p, k, 3),
                            Worker(q, a, "session", IF k = 3 THEN p ELSE None))
      BY <2>2 DEF Launch
    <3>2. (IF k = 3 THEN p ELSE None) \in Probers \cup {None}
      OBVIOUS
    <3> QED
      BY <1>2, <2>1, <3>1, <3>2, OneStarted
  <2>3. CASE ~(k >= 2)
    <3>1. workers' = Watched(p, k, 3)
      BY <2>3 DEF Launch
    <3>2. SameWorkers(workers')
      BY <2>1, <3>1
    <3> QED
      BY <2>1, <3>2, NoneStarted
  <2> QED
    BY <2>2, <2>3
<1>8. a \in DOMAIN requests'[q] /\ a \in Nat
  BY <1>2, <1>5, <1>6 DEF RequestsTyped
<1>9. ControlTypeOK'
  BY <1>1, <1>6, <1>7, <1>8, ControlTyped
<1>10. LaunchedOnce'
  BY <1>1, <1>3, <1>7, StartedOnce
<1>11. \E t : Stored(q, t)
  <2>1. CASE k = 3
    <3>1. s \in Snapshots
      <4>1. a \in 0 .. MaxRequests /\ Len(workers) + 1 \in Nat
        BY <1>1, <1>2, SupervisorAssumption DEF Launch, ControlTypeOK
      <4> QED
        BY <1>2, <4>1 DEF Snapshots, Phases
    <3>2. /\ s.phase = "RUNNING" /\ s.attempt = a /\ s.worker = Len(workers) + 1
      BY <1>2 DEF Snapshots
    <3>3. Storable(s)
      <4>1. a # 0 /\ Len(workers) + 1 # None
        BY <1>1, <1>2, NoneApart DEF ControlTypeOK
      <4> QED
        BY <3>2, <4>1 DEF Storable
    <3>4. s.attempt <= Len(requests'[q]) /\ ~Hinted(requests'[q][s.attempt])
      BY <1>2, <1>5, <3>2 DEF Hinted, Request
    <3>5. Write(q, s)
      BY <2>1 DEF Launch, WriteLast
    <3> HIDE DEF s
    <3> QED
      BY <3>1, <3>3, <3>4, <3>5, WriteStored
  <2>2. CASE k # 3
    <3>1. UNCHANGED sup
      BY <2>2 DEF Launch, WriteLast
    <3>2. sup[q].attempt # 0 /\ Hinted(requests'[q][sup[q].attempt]) => Noticed(sup[q])
      BY <1>1, <1>2, <1>5 DEF SnapshotInv, HintsNoticed, Current
    <3> QED
      BY <1>1, <1>6, <3>1, <3>2, KeptStored
  <2> QED
    BY <2>1, <2>2
<1>12. SnapshotInv'
  BY <1>1, <1>5, <1>11, StoredKeeps
<1>13. LedgerInv' /\ RestTyped'
  BY <1>1, LedgerUnchanged DEF Launch, RestTyped
<1>14. HintedContinues
  <2> SUFFICES ASSUME NEW x \in Questions, Len(requests'[x]) > Len(requests[x]),
                      Len(requests[x]) > 0,
                      Len(requests[x][Len(requests[x])].rounds) >= 3,
                      requests[x][Len(requests[x])].rounds[3].decision = "CONTINUE_HINT",
                      requests[x][Len(requests[x])].receipt = None
               PROVE  FALSE
    <3>1. ASSUME NEW x \in Questions, Len(requests[x]) > 0
          PROVE  Len(requests[x][Len(requests[x])].rounds) \in Nat
      <4>1. Len(requests[x]) \in DOMAIN requests[x]
        BY <1>1, <3>1 DEF RequestsTyped
      <4> QED
        BY <1>1, <4>1, RequestTyped
    <3> QED
      BY <3>1 DEF HintedContinues
  <2>1. x = q
    BY <1>1 DEF RequestsTyped, OnlyOf, Launch
  <2>2. sup[q].attempt # 0 /\ Hinted(Current(q)) /\ Current(q).receipt = None
    BY <1>2, <1>3, <2>1 DEF Hinted, Current
  <2>3. Noticed(sup[q])
    BY <1>1, <2>2 DEF SnapshotInv, HintsNoticed
  <2>4. sup[q].phase \in {"READY", "RETRY_SCHEDULED"} /\ ~IsContinuation(q)
    BY DEF Launch, Due
  <2> QED
    BY <2>2, <2>3, <2>4 DEF IsContinuation, Hinted, Noticed
<1> QED
  BY <1>6, <1>9, <1>10, <1>12, <1>13, <1>14 DEF StepKeeps, IInv

LEMMA RetryContinuationKeeps ==
  ASSUME IInv, NEW p \in Probers, NEW q \in Questions, NEW k \in 1 .. 3,
         RetryContinuation(p, q, k)
  PROVE  StepKeeps
<1> DEFINE a == sup[q].attempt
           s == [sup[q] EXCEPT !.phase = "RUNNING", !.worker = Len(workers) + 1,
                               !.stage = None, !.condition = None]
<1>1. /\ RequestsTyped /\ RoundsOrdered /\ ControlTypeOK /\ LaunchedOnce
      /\ SnapshotInv /\ LedgerInv /\ RestTyped
  BY IInvTyped DEF IInv
<1>2. /\ sup[q] \in Snapshots /\ Storable(sup[q]) /\ a \in Nat /\ a # 0
      /\ sup[q].round \in Rounds /\ a \in DOMAIN requests[q]
  BY <1>1, CurrentTyped DEF RetryContinuation, IsContinuation
<1>3. /\ RequestsStep /\ OnlyOf(q) /\ NoneIssued
      /\ Len(requests'[q][a].rounds) <= Len(requests[q][a].rounds)
      /\ \A i \in DOMAIN requests'[q][a].rounds :
             requests'[q][a].rounds[i] = requests[q][a].rounds[i]
  BY <1>1, <1>2, ArchivedStep DEF RetryContinuation, Current
<1>4. RequestsTyped' /\ RequestsStay
  BY <1>3 DEF RequestsStep
<1>5. AtMostOneStarted(q, a, "continuation")
  <2>1. SameWorkers(Watched(p, k, 3)) /\ workers \in Seq(WorkerRecords)
    BY <1>1, WatchedSame DEF ControlTypeOK
  <2>2. CASE k >= 2
    <3>1. workers' = Append(Watched(p, k, 3),
                            Worker(q, a, "continuation", IF k = 3 THEN p ELSE None))
      BY <2>2 DEF RetryContinuation
    <3>2. (IF k = 3 THEN p ELSE None) \in Probers \cup {None}
      OBVIOUS
    <3> QED
      BY <1>2, <2>1, <3>1, <3>2, OneStarted
  <2>3. CASE ~(k >= 2)
    <3>1. SameWorkers(workers')
      BY <2>1, <2>3 DEF RetryContinuation
    <3> QED
      BY <2>1, <3>1, NoneStarted
  <2> QED
    BY <2>2, <2>3
<1>6. a \in DOMAIN requests'[q] /\ a <= Len(requests'[q])
  BY <1>1, <1>2, <1>3, <1>4 DEF RequestsTyped, NoneIssued
<1>7. ControlTypeOK' /\ LaunchedOnce'
  BY <1>1, <1>2, <1>4, <1>5, <1>6, ControlTyped, ContinuedOnce
<1>8. Hinted(requests'[q][a]) => Hinted(Current(q))
  <2>1. requests[q][a].rounds \in Seq(RoundRecords)
        /\ requests'[q][a].rounds \in Seq(RoundRecords)
    <3>1. requests'[q] \in Seq(Requests)
      BY <1>4 DEF RequestsTyped
    <3>2. requests'[q][a] \in Requests
      BY <1>6, <3>1
    <3> QED
      BY <1>1, <1>2, <3>2, RequestTyped DEF Requests
  <2> QED
    BY <1>3, <2>1, HintKept DEF Current
<1>9. Hinted(requests'[q][a]) => Noticed(sup[q])
  BY <1>1, <1>2, <1>8 DEF SnapshotInv, HintsNoticed
<1>10. \E t : Stored(q, t)
  <2>1. CASE k = 3
    <3>1. Len(workers) + 1 \in Nat /\ Len(workers) + 1 # None
      BY <1>1, NoneApart DEF ControlTypeOK
    <3>2. s \in Snapshots
      BY <1>2, <3>1 DEF Snapshots, Phases
    <3>3. /\ s.phase = "RUNNING" /\ s.attempt = a /\ s.worker = Len(workers) + 1
          /\ s.decided = sup[q].decided /\ s.round = sup[q].round
      BY <1>2 DEF Snapshots
    <3>4. Storable(s)
      BY <1>2, <3>1, <3>3 DEF Storable
    <3>5. Hinted(requests'[q][s.attempt]) => Noticed(s)
      <4>1. sup[q].phase \in {"READY", "RETRY_SCHEDULED"}
        BY DEF RetryContinuation, Due
      <4> QED
        BY <1>9, <3>3, <4>1 DEF Noticed
    <3>6. Write(q, s)
      BY <2>1 DEF RetryContinuation, WriteLast
    <3> HIDE DEF s
    <3> QED
      BY <1>6, <3>2, <3>3, <3>4, <3>5, <3>6, WriteStored
  <2>2. CASE k # 3
    <3>1. UNCHANGED sup
      BY <2>2 DEF RetryContinuation, WriteLast
    <3> QED
      BY <1>1, <1>4, <1>9, <3>1, KeptStored
  <2> QED
    BY <2>1, <2>2
<1>11. LedgerInv' /\ RestTyped'
  BY <1>1, LedgerUnchanged DEF RetryContinuation, RestTyped
<1> QED
  BY <1>3, <1>7, <1>10, <1>11, Assembled

LEMMA AnswerKeeps ==
  ASSUME IInv, NEW p \in Probers, NEW q \in Questions, NEW k \in 1 .. 2, Answer(p, q, k)
  PROVE  StepKeeps
<1> DEFINE a == sup[q].attempt
           i == sup[q].decided + 1
           action == Automatic(i, requests[q][a].rounds[i].outcome)
           s == [sup[q] EXCEPT !.decided = i, !.round = i + 1]
<1>1. /\ RequestsTyped /\ RoundsOrdered /\ ControlTypeOK /\ LaunchedOnce
      /\ SnapshotInv /\ LedgerInv /\ RestTyped
  BY IInvTyped DEF IInv
<1>2. /\ sup[q].phase = "RUNNING" /\ sup[q] \in Snapshots /\ Storable(sup[q])
      /\ a \in Nat /\ a # 0 /\ a \in DOMAIN requests[q]
  BY <1>1, CurrentTyped DEF Answer, Storable
<1>3. MayDecide(requests[q][a], i, action) /\ requests' = Decided(q, a, i, action)
  BY DEF Answer, Current
<1> HIDE DEF action
<1>4. /\ RequestsStep /\ OnlyOf(q) /\ NoneIssued
      /\ i \in 1 .. 5
      /\ Len(requests'[q][a].rounds) = Len(requests[q][a].rounds)
      /\ \A j \in DOMAIN requests[q][a].rounds :
             j # i => requests'[q][a].rounds[j] = requests[q][a].rounds[j]
      /\ requests'[q][a].rounds[i].decision = action
  BY <1>1, <1>2, <1>3, DecidedStep
<1>5. RequestsTyped' /\ RequestsStay
  BY <1>4 DEF RequestsStep
<1>6. AtMostOneStarted(q, a, "continuation") /\ Len(workers') = Len(workers)
  <2>1. SameWorkers(workers') /\ workers \in Seq(WorkerRecords)
    BY <1>1, WatchedSame DEF ControlTypeOK, Answer
  <2> QED
    BY <2>1, NoneStarted DEF SameWorkers
<1>7. ControlTypeOK' /\ LaunchedOnce'
  BY <1>1, <1>2, <1>5, <1>6, ControlTyped, ContinuedOnce
<1>8. Hinted(requests'[q][a]) => Hinted(requests[q][a])
  <2>1. action # "CONTINUE_HINT"
    BY NoneApart DEF action, Automatic, Continuing
  <2>2. /\ requests[q][a].rounds \in Seq(RoundRecords)
        /\ requests'[q][a].rounds \in Seq(RoundRecords)
    <3>1. requests'[q] \in Seq(Requests) /\ a \in DOMAIN requests'[q]
      BY <1>1, <1>2, <1>4, <1>5 DEF RequestsTyped, NoneIssued
    <3>2. requests'[q][a] \in Requests
      BY <3>1
    <3> QED
      BY <1>1, <1>2, <3>2, RequestTyped DEF Requests
  <2>3. Len(requests'[q][a].rounds) <= Len(requests[q][a].rounds)
    BY <1>4, <2>2
  <2>4. 3 \in DOMAIN requests'[q][a].rounds /\ i # 3
        => requests'[q][a].rounds[3] = requests[q][a].rounds[3]
    BY <1>4, <2>2
  <2>5. i = 3 => requests'[q][a].rounds[3].decision # "CONTINUE_HINT"
    BY <1>4, <2>1
  <2> QED
    BY <2>2, <2>3, <2>4, <2>5, HintKept
<1>9. Hinted(requests'[q][a]) => Noticed(sup[q])
  BY <1>1, <1>2, <1>8 DEF SnapshotInv, HintsNoticed, Current
<1>10. a <= Len(requests'[q])
  BY <1>1, <1>2, <1>4 DEF RequestsTyped, NoneIssued
<1>11. \E t : Stored(q, t)
  <2>1. CASE k = 2
    <3>1. s \in Snapshots
      <4>1. i \in 0 .. 5 /\ i + 1 \in Rounds
        BY <1>4, SupervisorAssumption
      <4> QED
        BY <1>2, <4>1 DEF Snapshots
    <3>2. /\ s.phase = "RUNNING" /\ s.attempt = a /\ s.worker = sup[q].worker
          /\ s.decided = i /\ s.round = i + 1 /\ s.condition = sup[q].condition
      BY <1>2 DEF Snapshots
    <3>3. Storable(s)
      BY <1>2, <3>2 DEF Storable
    <3>4. Hinted(requests'[q][s.attempt]) => Noticed(s)
      <4>1. Hinted(requests'[q][a]) => sup[q].decided >= 3
        BY <1>2, <1>9 DEF Noticed
      <4>2. sup[q].decided \in Nat
        BY <1>2 DEF Snapshots
      <4> QED
        BY <3>2, <4>1, <4>2 DEF Noticed
    <3>5. Write(q, s)
      BY <2>1 DEF Answer, WriteLast
    <3> HIDE DEF s
    <3> QED
      BY <1>10, <3>1, <3>2, <3>3, <3>4, <3>5, WriteStored
  <2>2. CASE k # 2
    <3>1. UNCHANGED sup
      BY <2>2 DEF Answer, WriteLast
    <3> QED
      BY <1>1, <1>5, <1>9, <3>1, KeptStored
  <2> QED
    BY <2>1, <2>2
<1>12. LedgerInv' /\ RestTyped'
  BY <1>1, LedgerUnchanged DEF Answer, RestTyped
<1> QED
  BY <1>4, <1>7, <1>11, <1>12, Assembled

\* Actions that only move a running question within its round: everything else
\* is shown by their lemmas.
LEMMA MovedKeeps ==
  ASSUME IInv, NEW q \in Questions, UNCHANGED requests, SameWorkers(workers'),
         sup[q].phase \notin {"TEACHER_ACTION", "FINISHED"},
         \E s : Moved(q, s), LedgerInv', RestTyped'
  PROVE  StepKeeps
<1>1. RequestsTyped /\ RoundsOrdered /\ ControlTypeOK /\ LaunchedOnce /\ SnapshotInv
  BY IInvTyped DEF IInv
<1>2. RequestsStep /\ OnlyOf(q) /\ NoneIssued
  BY <1>1, RequestsUnchanged
<1>3. RequestsTyped' /\ RequestsStay
  BY <1>2 DEF RequestsStep
<1>4. ControlTypeOK' /\ LaunchedOnce'
  BY <1>1, <1>3, NoneStartedKeeps
<1>5. \E s : Stored(q, s)
  BY <1>1, MovedStored
<1> QED
  BY <1>2, <1>4, <1>5, Assembled

LEMMA FinishKeeps ==
  ASSUME IInv, NEW p \in Probers, NEW q \in Questions, NEW k \in 1 .. 3, Finish(p, q, k)
  PROVE  StepKeeps
<1> DEFINE s == [sup[q] EXCEPT !.phase = "TEACHER_ACTION", !.worker = None,
                               !.condition = "ATTRIBUTION"]
<1>1. /\ RequestsTyped /\ ControlTypeOK /\ SnapshotInv /\ LedgerInv /\ RestTyped
  BY IInvTyped DEF IInv
<1>2. /\ sup[q] \in Snapshots /\ Storable(sup[q]) /\ sup[q].attempt \in Nat
      /\ sup[q].round \in Rounds /\ sup[q].phase = "RUNNING"
  BY <1>1, CurrentTyped DEF Finish, Received
<1>3. SameWorkers(workers')
  BY <1>1, WatchedSame DEF Finish
<1>4. \E t : Moved(q, t)
  <2>1. CASE k = 3
    <3>1. s \in Snapshots
      BY <1>2 DEF Snapshots, Phases
    <3>2. /\ s.attempt = sup[q].attempt /\ s.decided = sup[q].decided
          /\ s.round = sup[q].round /\ s.phase = "TEACHER_ACTION"
      BY <1>2 DEF Snapshots
    <3>3. Storable(s)
      BY <3>2 DEF Storable
    <3>4. Write(q, s)
      BY <2>1 DEF Finish, WriteLast
    <3> HIDE DEF s
    <3> QED
      BY <3>1, <3>2, <3>3, <3>4, WriteMoved
  <2>2. CASE k # 3
    <3>1. UNCHANGED sup
      BY <2>2 DEF Finish, WriteLast
    <3> QED
      BY <1>1, <3>1, KeptMoved
  <2> QED
    BY <2>1, <2>2
<1>5. LedgerInv'
  <2>1. CASE k >= 2
    <3>1. /\ failures' = [failures EXCEPT ![q][sup[q].round] = [z \in Stages |-> 0]]
          /\ retried' = [retried EXCEPT ![q][sup[q].round] = [z \in Stages |-> 0]]
      BY <2>1 DEF Finish, ClearRound
    <3>2. RecoveryTypeOK'
      BY <1>1, <1>2, <2>1, ClearTyped DEF Finish, LedgerInv
    <3>3. retried \in [Questions -> [Rounds -> [Stages -> Nat]]]
          /\ failures \in [Questions -> [Rounds -> [Stages -> 0 .. MaxFailures]]]
      BY <1>1 DEF LedgerInv, RecoveryTypeOK
    <3>4. retried' \in [Questions -> [Rounds -> [Stages -> Nat]]]
      BY <1>2, <3>1, <3>3
    <3>5. ASSUME NEW x \in Questions, NEW y \in Rounds, NEW z \in Stages
          PROVE  retried'[x][y][z] <= failures'[x][y][z] /\ retried'[x][y][z] <= RetryBudget
      <4>1. CASE x = q /\ y = sup[q].round
        <5>1. retried'[x][y][z] = 0 /\ failures'[x][y][z] = 0
          BY <1>2, <3>1, <3>3, <4>1
        <5> QED
          BY <5>1, RecoveryAssumption
      <4>2. CASE ~(x = q /\ y = sup[q].round)
        <5>1. retried'[x][y][z] = retried[x][y][z] /\ failures'[x][y][z] = failures[x][y][z]
          BY <1>2, <3>1, <3>3, <4>2
        <5> QED
          BY <1>1, <5>1 DEF LedgerInv
      <4> QED
        BY <4>1, <4>2
    <3> QED
      BY <3>2, <3>4, <3>5 DEF LedgerInv
  <2>2. CASE ~(k >= 2)
    BY <1>1, <2>2, LedgerUnchanged DEF Finish
  <2> QED
    BY <2>1, <2>2
<1>6. RestTyped'
  <2>1. Imported(q, sup[q].attempt) \in [ledger : SUBSET Nat, verdict : Verdicts]
    BY <1>1, <1>2 DEF RestTyped, Imported, VerdictOf, Verdicts
  <2> QED
    BY <1>1, <2>1 DEF RestTyped, Finish
<1> QED
  BY <1>2, <1>3, <1>4, <1>5, <1>6, MovedKeeps DEF Finish

LEMMA FinishFailedKeeps ==
  ASSUME IInv, NEW p \in Probers, NEW q \in Questions, NEW k \in 1 .. 3,
         FinishFailed(p, q, k)
  PROVE  StepKeeps
<1>1. /\ RequestsTyped /\ ControlTypeOK /\ SnapshotInv /\ LedgerInv /\ RestTyped
  BY IInvTyped DEF IInv
<1>2. sup[q].attempt \in Nat /\ sup[q].phase = "RUNNING"
  BY <1>1, CurrentTyped DEF FinishFailed, Received
<1>3. SameWorkers(workers')
  BY <1>1, WatchedSame DEF FinishFailed
<1>4. LedgerInv' /\ \E s : Moved(q, s)
  BY <1>1, FailureRecovered DEF FinishFailed
<1>5. RestTyped'
  <2>1. Imported(q, sup[q].attempt) \in [ledger : SUBSET Nat, verdict : Verdicts]
    BY <1>1, <1>2 DEF RestTyped, Imported, VerdictOf, Verdicts
  <2> QED
    BY <1>1, <2>1 DEF RestTyped, FinishFailed
<1> QED
  BY <1>2, <1>3, <1>4, <1>5, MovedKeeps DEF FinishFailed

LEMMA LoseWorkerKeeps ==
  ASSUME IInv, NEW p \in Probers, NEW q \in Questions, NEW k \in 1 .. 3,
         LoseWorker(p, q, k)
  PROVE  StepKeeps
<1>1. /\ RequestsTyped /\ ControlTypeOK /\ SnapshotInv /\ LedgerInv /\ RestTyped
  BY IInvTyped DEF IInv
<1>2. /\ sup[q] \in Snapshots /\ Storable(sup[q]) /\ sup[q].attempt \in Nat
      /\ sup[q].round \in Rounds /\ sup[q].phase = "RUNNING"
  BY <1>1, CurrentTyped DEF LoseWorker
<1>3. SameWorkers(workers')
  BY <1>1, WatchedSame DEF LoseWorker
<1>4. "PLATFORM" \in Stages
  BY SupervisorAssumption
<1>5. LedgerInv' /\ \E s : Moved(q, s)
  <2>1. CASE RecoverFailure(q, "PLATFORM", k)
    BY <1>1, <1>4, <2>1, FailureRecovered
  <2>2. CASE /\ IF k = 2 THEN RecordFailure(q, sup[q].round, "PLATFORM")
                ELSE UNCHANGED recoveryVars
             /\ sup' = [sup EXCEPT ![q].noted = TRUE]
             /\ UNCHANGED retried
    <3> DEFINE s == [sup[q] EXCEPT !.noted = TRUE]
    <3>1. s \in Snapshots
      BY <1>2 DEF Snapshots
    <3>2. /\ s.phase = sup[q].phase /\ s.attempt = sup[q].attempt
          /\ s.worker = sup[q].worker /\ s.condition = sup[q].condition
          /\ s.decided = sup[q].decided /\ s.round = sup[q].round
      BY <1>2 DEF Snapshots
    <3>3. sup' = [sup EXCEPT ![q] = s]
      BY <2>2
    <3> HIDE DEF s
    <3>4. Moved(q, s)
      BY <1>2, <3>1, <3>2, <3>3 DEF Moved, Storable
    <3>5. LedgerInv'
      <4>1. CASE k = 2
        <5>1. RecordFailure(q, sup[q].round, "PLATFORM") /\ UNCHANGED retried
          BY <2>2, <4>1
        <5>2. RecoveryTypeOK'
          BY <1>1, <1>2, <1>4, <5>1, RecordTyped DEF LedgerInv
        <5>3. failures \in [Questions -> [Rounds -> [Stages -> 0 .. MaxFailures]]]
          BY <1>1 DEF LedgerInv, RecoveryTypeOK
        <5>4. ASSUME NEW x \in Questions, NEW y \in Rounds, NEW z \in Stages
              PROVE  retried[x][y][z] <= failures'[x][y][z]
          <6>1. failures[x][y][z] \in Nat /\ retried[x][y][z] \in Nat
            <7>1. failures[x][y][z] \in 0 .. MaxFailures
              BY <5>3
            <7> QED
              BY <1>1, <7>1, RecoveryAssumption DEF LedgerInv
          <6>2. failures'[x][y][z] \in {failures[x][y][z], failures[x][y][z] + 1}
            BY <1>2, <1>4, <5>1, <5>3 DEF RecordFailure, Count
          <6> QED
            BY <1>1, <6>1, <6>2 DEF LedgerInv
        <5> QED
          BY <1>1, <5>1, <5>2, <5>4 DEF LedgerInv
      <4>2. CASE k # 2
        BY <1>1, <2>2, <4>2, LedgerUnchanged
      <4> QED
        BY <4>1, <4>2
    <3> QED
      BY <3>4, <3>5
  <2> QED
    BY <2>1, <2>2 DEF LoseWorker
<1>6. RestTyped'
  BY <1>1, <1>2 DEF RestTyped, LoseWorker
<1> QED
  BY <1>2, <1>3, <1>5, <1>6, MovedKeeps DEF LoseWorker

\* Actions that change nothing but the snapshot.
LEMMA WriteKeeps ==
  ASSUME IInv, NEW q \in Questions, NEW s \in Snapshots, Storable(s), Write(q, s),
         UNCHANGED <<requests, workers, recoveryVars, lost, runs, probing, retried>>,
         s.attempt = sup[q].attempt,
         s.attempt # 0 /\ Hinted(Current(q)) => Noticed(s)
  PROVE  StepKeeps
<1>1. /\ RequestsTyped /\ RoundsOrdered /\ ControlTypeOK /\ LaunchedOnce
      /\ SnapshotInv /\ LedgerInv /\ RestTyped
  BY IInvTyped DEF IInv
<1>2. RequestsStep /\ OnlyOf(q) /\ NoneIssued
  BY <1>1, RequestsUnchanged
<1>3. RequestsTyped' /\ RequestsStay
  BY <1>2 DEF RequestsStep
<1>4. SameWorkers(workers')
  BY <1>1 DEF SameWorkers, SameJob, ControlTypeOK
<1>5. ControlTypeOK' /\ LaunchedOnce'
  BY <1>1, <1>3, <1>4, NoneStartedKeeps
<1>6. \E t : Stored(q, t)
  <2>1. s.attempt <= Len(requests'[q])
    BY <1>1 DEF SnapshotInv, AttemptsIssued
  <2>2. s.attempt # 0 /\ Hinted(requests'[q][s.attempt]) => Noticed(s)
    BY DEF Current
  <2> QED
    BY <2>1, <2>2, WriteStored
<1>7. LedgerInv' /\ RestTyped'
  BY <1>1, LedgerUnchanged DEF RestTyped
<1> QED
  BY <1>2, <1>5, <1>6, <1>7, Assembled

LEMMA AskTeacherKeeps ==
  ASSUME IInv, NEW q \in Questions, AskTeacher(q)
  PROVE  StepKeeps
<1> DEFINE i == sup[q].decided + 1
           s == [sup[q] EXCEPT !.phase = "TEACHER_ACTION", !.round = i]
<1>1. /\ sup[q] \in Snapshots /\ sup[q].phase = "RUNNING"
      /\ sup[q].attempt # 0 /\ Hinted(Current(q)) => Noticed(sup[q])
  BY IInvTyped, CurrentTyped DEF IInv, AskTeacher, SnapshotInv, HintsNoticed
<1>2. sup[q].decided \in 0 .. 5 /\ i \in Rounds
  BY <1>1, SupervisorAssumption DEF Snapshots
<1>3. s \in Snapshots
  BY <1>1, <1>2 DEF Snapshots, Phases
<1>4. /\ s.attempt = sup[q].attempt /\ s.decided = sup[q].decided
      /\ s.round = i /\ s.phase = "TEACHER_ACTION"
  BY <1>1 DEF Snapshots
<1>5. Storable(s)
  BY <1>4 DEF Storable
<1>6. s.attempt # 0 /\ Hinted(Current(q)) => Noticed(s)
  BY <1>1, <1>2, <1>4 DEF Noticed
<1>7. Write(q, s)
  BY DEF AskTeacher
<1> HIDE DEF s
<1> QED
  BY <1>3, <1>4, <1>5, <1>6, <1>7, WriteKeeps DEF AskTeacher

LEMMA ResumeModelWaitKeeps ==
  ASSUME IInv, NEW q \in Questions, ResumeModelWait(q)
  PROVE  StepKeeps
<1> DEFINE s == [sup[q] EXCEPT !.phase = "READY", !.condition = None]
<1>1. /\ sup[q] \in Snapshots /\ sup[q].phase = "WAITING_EXTERNAL"
      /\ sup[q].attempt # 0 /\ Hinted(Current(q)) => Noticed(sup[q])
  BY IInvTyped, CurrentTyped
     DEF IInv, ResumeModelWait, WaitsForModel, SnapshotInv, HintsNoticed
<1>2. s \in Snapshots
  BY <1>1 DEF Snapshots, Phases
<1>3. /\ s.attempt = sup[q].attempt /\ s.decided = sup[q].decided
      /\ s.round = sup[q].round /\ s.phase = "READY"
  BY <1>1 DEF Snapshots
<1>4. Storable(s)
  BY <1>3 DEF Storable
<1>5. s.attempt # 0 /\ Hinted(Current(q)) => Noticed(s)
  BY <1>1, <1>3 DEF Noticed
<1>6. Write(q, s)
  BY DEF ResumeModelWait
<1> HIDE DEF s
<1> QED
  BY <1>2, <1>3, <1>4, <1>5, <1>6, WriteKeeps DEF ResumeModelWait

LEMMA ResumeWaitKeeps ==
  ASSUME IInv, NEW q \in Questions, ResumeWait(q)
  PROVE  StepKeeps
<1> DEFINE s == [sup[q] EXCEPT
               !.phase = IF IsContinuation(q) THEN "RETRY_SCHEDULED" ELSE "READY",
               !.condition = None, !.worker = None]
<1>1. /\ sup[q] \in Snapshots /\ sup[q].phase = "WAITING_EXTERNAL"
      /\ sup[q].attempt # 0 /\ Hinted(Current(q)) => Noticed(sup[q])
  BY IInvTyped, CurrentTyped DEF IInv, ResumeWait, SnapshotInv, HintsNoticed
<1>2. s \in Snapshots
  BY <1>1 DEF Snapshots, Phases
<1>3. /\ s.attempt = sup[q].attempt /\ s.decided = sup[q].decided
      /\ s.round = sup[q].round /\ s.phase \in {"READY", "RETRY_SCHEDULED"}
  BY <1>1 DEF Snapshots
<1>4. Storable(s)
  BY <1>3 DEF Storable
<1>5. s.attempt # 0 /\ Hinted(Current(q)) => Noticed(s)
  BY <1>1, <1>3 DEF Noticed
<1>6. Write(q, s)
  BY DEF ResumeWait
<1> HIDE DEF s
<1> QED
  BY <1>2, <1>3, <1>4, <1>5, <1>6, WriteKeeps DEF ResumeWait

LEMMA AttributeKeeps ==
  ASSUME IInv, NEW q \in Questions, Attribute(q)
  PROVE  StepKeeps
<1> DEFINE s == [sup[q] EXCEPT !.phase = "FINISHED", !.condition = None]
<1>1. sup[q] \in Snapshots
  BY IInvTyped, CurrentTyped DEF IInv
<1>2. s \in Snapshots
  BY <1>1 DEF Snapshots, Phases
<1>3. s.attempt = sup[q].attempt /\ s.phase = "FINISHED"
  BY <1>1 DEF Snapshots
<1>4. Storable(s) /\ Noticed(s)
  BY <1>3 DEF Storable, Noticed
<1>5. Write(q, s)
  BY DEF Attribute
<1> HIDE DEF s
<1> QED
  BY <1>2, <1>3, <1>4, <1>5, WriteKeeps DEF Attribute

LEMMA TeacherActKeeps ==
  ASSUME IInv, NEW q \in Questions, NEW action \in {"CONTINUE_HINT", "STOP_BLOCKED"},
         NEW k \in 1 .. 3, TeacherAct(q, action, k)
  PROVE  StepKeeps
<1> DEFINE a == sup[q].attempt
           r == sup[q].round
           s == [sup[q] EXCEPT
                    !.phase = "RUNNING", !.decided = r, !.round = r + 1,
                    !.worker = IF action = "CONTINUE_HINT" THEN Len(workers) + 1
                               ELSE sup[q].worker]
<1>1. /\ RequestsTyped /\ RoundsOrdered /\ ControlTypeOK /\ LaunchedOnce
      /\ SnapshotInv /\ LedgerInv /\ RestTyped
  BY IInvTyped DEF IInv
<1>2. /\ sup[q] \in Snapshots /\ sup[q].phase = "TEACHER_ACTION"
      /\ a \in Nat /\ a # 0 /\ a \in DOMAIN requests[q]
  BY <1>1, CurrentTyped DEF TeacherAct
<1>3. MayDecide(requests[q][a], r, action) /\ requests' = Decided(q, a, r, action)
  BY DEF TeacherAct, Current
<1>4. /\ RequestsStep /\ OnlyOf(q) /\ NoneIssued
      /\ r \in 1 .. 5
      /\ Len(requests'[q][a].rounds) = Len(requests[q][a].rounds)
      /\ \A j \in DOMAIN requests[q][a].rounds :
             j # r => requests'[q][a].rounds[j] = requests[q][a].rounds[j]
  BY <1>1, <1>2, <1>3, DecidedStep
<1>5. RequestsTyped' /\ RequestsStay
  BY <1>4 DEF RequestsStep
<1>6. AtMostOneStarted(q, a, "continuation")
  <2>1. SameWorkers(workers) /\ workers \in Seq(WorkerRecords)
    BY <1>1 DEF SameWorkers, SameJob, ControlTypeOK
  <2>2. CASE workers' = Append(workers, Worker(q, a, "continuation", None))
    BY <1>2, <2>1, <2>2, OneStarted
  <2>3. CASE workers' = workers
    <3>1. SameWorkers(workers')
      BY <2>1, <2>3
    <3> QED
      BY <2>1, <3>1, NoneStarted
  <2> QED
    BY <2>2, <2>3 DEF TeacherAct
<1>7. a \in DOMAIN requests'[q] /\ a <= Len(requests'[q])
  BY <1>1, <1>2, <1>4, <1>5 DEF RequestsTyped, NoneIssued
<1>8. ControlTypeOK' /\ LaunchedOnce'
  BY <1>1, <1>5, <1>6, <1>7, ControlTyped, ContinuedOnce
<1>9. r # 3 /\ Hinted(requests'[q][a]) => Noticed(sup[q])
  <2>1. /\ requests[q][a].rounds \in Seq(RoundRecords)
        /\ requests'[q][a].rounds \in Seq(RoundRecords)
    <3>1. requests'[q] \in Seq(Requests)
      BY <1>5 DEF RequestsTyped
    <3>2. requests'[q][a] \in Requests
      BY <1>7, <3>1
    <3> QED
      BY <1>1, <1>2, <3>2, RequestTyped DEF Requests
  <2>2. Len(requests'[q][a].rounds) <= Len(requests[q][a].rounds)
    BY <1>4, <2>1
  <2>3. 3 \in DOMAIN requests'[q][a].rounds /\ r # 3
        => requests'[q][a].rounds[3] = requests[q][a].rounds[3]
    BY <1>4, <2>1
  <2>4. r # 3 /\ Hinted(requests'[q][a]) => Hinted(requests[q][a])
    BY <2>1, <2>2, <2>3, HintKept
  <2> QED
    BY <1>1, <1>2, <2>4 DEF SnapshotInv, HintsNoticed, Current
<1>10. \E t : Stored(q, t)
  <2>1. CASE Write(q, s) /\ Storable(s)
    <3>1. s \in Snapshots
      <4>1. r \in 0 .. 5 /\ r + 1 \in Rounds /\ Len(workers) + 1 \in Nat
        BY <1>1, <1>4, SupervisorAssumption DEF ControlTypeOK
      <4>2. sup[q].worker \in Nat \cup {None}
        BY <1>2 DEF Snapshots
      <4> QED
        BY <1>2, <4>1, <4>2 DEF Snapshots, Phases
    <3>2. s.attempt = a /\ s.decided = r /\ s.round = r + 1
      BY <1>2 DEF Snapshots
    <3>3. Hinted(requests'[q][s.attempt]) => Noticed(s)
      <4>1. CASE r >= 3
        BY <1>4, <3>2, <4>1 DEF Noticed
      <4>2. CASE ~(r >= 3)
        BY <1>2, <1>4, <1>9, <3>2, <4>2 DEF Noticed
      <4> QED
        BY <4>1, <4>2
    <3> HIDE DEF s
    <3> QED
      BY <1>7, <2>1, <3>1, <3>2, <3>3, WriteStored
  <2>2. CASE UNCHANGED sup
    <3>1. Hinted(requests'[q][a]) => Noticed(sup[q])
      BY <1>2, <1>9 DEF Noticed
    <3> QED
      BY <1>1, <1>5, <2>2, <3>1, KeptStored
  <2> QED
    BY <2>1, <2>2 DEF TeacherAct
<1>11. LedgerInv' /\ RestTyped'
  BY <1>1, LedgerUnchanged DEF TeacherAct, RestTyped
<1> QED
  BY <1>4, <1>8, <1>10, <1>11, Assembled

-----------------------------------------------------------------------------
(* The probes, the end of a process, and the workers.                        *)

\* Actions that leave the snapshots, the requests and the runs alone.
LEMMA AsideKeeps ==
  ASSUME IInv, UNCHANGED <<requests, failures, sup, lost, runs, retried>>,
         SameWorkers(workers'), RecoveryTypeOK', probing' \subseteq Probers
  PROVE  StepKeeps
<1>1. /\ RequestsTyped /\ RoundsOrdered /\ ControlTypeOK /\ LaunchedOnce
      /\ SnapshotInv /\ LedgerInv /\ RestTyped
  BY IInvTyped DEF IInv
<1>2. RequestsStep /\ NoneIssued
  BY <1>1, RequestsUnchanged
<1>3. RequestsTyped' /\ RequestsStay
  BY <1>2 DEF RequestsStep
<1>4. ControlTypeOK' /\ LaunchedOnce'
  BY <1>1, <1>3, NoneStartedKeeps
<1>5. SnapshotInv'
  BY <1>1 DEF SnapshotInv, SupTyped, Storable, AttemptsIssued, HintsNoticed, Current
<1>6. LedgerInv' /\ RestTyped'
  BY <1>1 DEF LedgerInv, RestTyped
<1>7. HintedContinues
  <2>1. \A x \in Questions : Len(requests[x]) \in Nat
    BY <1>1 DEF RequestsTyped
  <2> QED
    BY <1>2, <2>1 DEF HintedContinues, NoneIssued
<1> QED
  BY <1>2, <1>4, <1>5, <1>6, <1>7 DEF StepKeeps, IInv, RequestsStep

LEMMA StartProbeKeeps ==
  ASSUME IInv, NEW p \in Probers, StartProbe(p)
  PROVE  StepKeeps
<1>1. RecoveryTypeOK /\ probing \subseteq Probers /\ SameWorkers(workers)
  BY DEF IInv, LedgerInv, RestTyped, SameWorkers, SameJob, ControlTypeOK
<1>2. RecoveryTypeOK'
  BY <1>1 DEF StartProbe, ClaimProbe, RecoveryTypeOK
<1> QED
  BY <1>1, <1>2, AsideKeeps DEF StartProbe, ClaimProbe, SameWorkers

LEMMA EndProbeKeeps ==
  ASSUME IInv, NEW p \in Probers, EndProbe(p)
  PROVE  StepKeeps
<1>1. RecoveryTypeOK /\ probing \subseteq Probers /\ SameWorkers(workers)
  BY DEF IInv, LedgerInv, RestTyped, SameWorkers, SameJob, ControlTypeOK
<1>2. RecoveryTypeOK' /\ UNCHANGED failures
  BY <1>1 DEF EndProbe, FinishProbe, RecoveryTypeOK, Closed, Open
<1> QED
  BY <1>1, <1>2, AsideKeeps DEF EndProbe, SameWorkers

LEMMA RestartKeeps ==
  ASSUME IInv, NEW p \in Probers, Restart(p)
  PROVE  StepKeeps
<1>1. RecoveryTypeOK /\ probing \subseteq Probers /\ ControlTypeOK
  BY DEF IInv, LedgerInv, RestTyped
<1>2. SameWorkers(workers')
  BY <1>1, OrphanedSame DEF Restart
<1>3. RecoveryTypeOK'
  BY <1>1 DEF Restart, Abandoned, HoldsProbe, RecoveryTypeOK
<1> QED
  BY <1>1, <1>2, <1>3, AsideKeeps DEF Restart

LEMMA ExitSame ==
  ASSUME ControlTypeOK, NEW w \in DOMAIN workers, Exit(w)
  PROVE  SameWorkers(workers')
<1>1. workers \in Seq(WorkerRecords) /\ workers[w] \in WorkerRecords
  BY DEF ControlTypeOK
<1>2. [workers[w] EXCEPT !.alive = FALSE] \in WorkerRecords
      /\ SameJob([workers[w] EXCEPT !.alive = FALSE], workers[w])
  BY <1>1 DEF WorkerRecords, SameJob
<1>3. workers' = [workers EXCEPT ![w] = [workers[w] EXCEPT !.alive = FALSE]]
  BY DEF Exit
<1> QED
  BY <1>1, <1>2, <1>3 DEF SameWorkers, SameJob

LEMMA WorkerStepKeeps ==
  ASSUME IInv, NEW w \in DOMAIN workers, WorkerStep(w),
         UNCHANGED <<recoveryVars, supervisorVars>>
  PROVE  StepKeeps
<1>1. /\ RequestsTyped /\ RoundsOrdered /\ ControlTypeOK /\ LaunchedOnce
      /\ SnapshotInv /\ LedgerInv /\ RestTyped
  BY IInvTyped DEF IInv
<1>2. SameWorkers(workers)
  BY <1>1 DEF SameWorkers, SameJob, ControlTypeOK
<1>3. /\ RequestsStep /\ NoneIssued /\ SameWorkers(workers')
      /\ \A x \in Questions : \A b \in DOMAIN requests[x] :
             Hinted(requests'[x][b]) => Hinted(requests[x][b])
  <2>1. ASSUME NEW outcome \in Scientific \cup {"PLATFORM"}, Publish(w, outcome)
        PROVE  <1>3
    <3>1. /\ RequestsStep /\ NoneIssued
          /\ \A x \in Questions : \A b \in DOMAIN requests[x] :
                 \A i \in DOMAIN requests'[x][b].rounds :
                     requests'[x][b].rounds[i].decision # None =>
                         /\ i \in DOMAIN requests[x][b].rounds
                         /\ requests'[x][b].rounds[i] = requests[x][b].rounds[i]
      BY <1>1, <2>1, PublishedStep
    <3>2. SameWorkers(workers')
      BY <1>2, <2>1 DEF Publish
    <3>3. ASSUME NEW x \in Questions, NEW b \in DOMAIN requests[x],
                 Hinted(requests'[x][b])
          PROVE  Hinted(requests[x][b])
      <4>1. b \in DOMAIN requests'[x] /\ RequestsTyped'
        BY <1>1, <3>1, <3>3 DEF NoneIssued, RequestsStep, RequestsTyped
      <4>2. requests'[x] \in Seq(Requests)
        BY <4>1 DEF RequestsTyped
      <4>3. requests'[x][b] \in Requests
        BY <4>1, <4>2
      <4>4. requests'[x][b].rounds \in Seq(RoundRecords)
            /\ requests[x][b].rounds \in Seq(RoundRecords)
        BY <1>1, <4>3, RequestTyped DEF Requests
      <4>5. 3 \in DOMAIN requests'[x][b].rounds
            /\ requests'[x][b].rounds[3].decision = "CONTINUE_HINT"
        BY <3>3, <4>4 DEF Hinted
      <4>6. 3 \in DOMAIN requests[x][b].rounds
            /\ requests[x][b].rounds[3].decision = "CONTINUE_HINT"
        BY <3>1, <4>5, NoneApart DEF Continuing
      <4> QED
        BY <4>4, <4>6 DEF Hinted
    <3> QED
      BY <3>1, <3>2, <3>3
  <2>2. ASSUME NEW value \in Stages \cup {"SCIENTIFIC_RESULT"}, Receipt(w, value)
        PROVE  <1>3
    <3>1. Exit(w)
      BY <2>2 DEF Receipt
    <3> QED
      BY <1>1, <2>2, <3>1, ExitSame, ReceiptStep DEF Hinted
  <2>3. CASE Vanish(w)
    <3>1. Exit(w) /\ UNCHANGED requests
      BY <2>3 DEF Vanish
    <3> QED
      BY <1>1, <3>1, ExitSame, RequestsUnchanged
  <2> QED
    BY <2>1, <2>2, <2>3 DEF WorkerStep, Settle, Fail
<1>4. RequestsTyped' /\ RequestsStay
  BY <1>3 DEF RequestsStep
<1>5. ControlTypeOK' /\ LaunchedOnce'
  BY <1>1, <1>3, <1>4, NoneStartedKeeps
<1>6. UNCHANGED <<sup, lost, runs, probing, retried>> /\ UNCHANGED <<recoveryVars, retried>>
  BY DEF supervisorVars
<1>7. SnapshotInv'
  <2>1. SupTyped'
    BY <1>1, <1>6 DEF SnapshotInv, SupTyped, Storable
  <2>2. AttemptsIssued'
    BY <1>1, <1>3, <1>6 DEF SnapshotInv, AttemptsIssued, NoneIssued
  <2>3. HintsNoticed'
    <3>1. \A x \in Questions : sup[x].attempt # 0 => sup[x].attempt \in DOMAIN requests[x]
      BY <1>1, CurrentTyped
    <3> QED
      BY <1>1, <1>3, <1>6, <3>1 DEF SnapshotInv, HintsNoticed, Current
  <2> QED
    BY <2>1, <2>2, <2>3 DEF SnapshotInv
<1>8. LedgerInv' /\ RestTyped'
  BY <1>1, <1>6, LedgerUnchanged DEF RestTyped
<1>9. HintedContinues
  <2>1. \A x \in Questions : Len(requests[x]) \in Nat
    BY <1>1 DEF RequestsTyped
  <2> QED
    BY <1>3, <2>1 DEF HintedContinues, NoneIssued
<1> QED
  BY <1>3, <1>5, <1>7, <1>8, <1>9 DEF StepKeeps, IInv, RequestsStep

-----------------------------------------------------------------------------
(* All steps together.                                                       *)

LEMMA InitIInv == Init => IInv
<1> SUFFICES ASSUME Init PROVE IInv
  OBVIOUS
<1> USE DEF Init, ControlInit, RecoveryInit
<1>1. ControlTypeOK /\ RoundsOrdered /\ LaunchedOnce
  BY DEF ControlTypeOK, RoundsOrdered, LaunchedOnce
<1>2. SnapshotInv
  <2>1. Registered \in Snapshots
    BY SupervisorAssumption DEF Registered, Snapshots, Phases
  <2>2. Storable(Registered) /\ Registered.attempt = 0
    BY DEF Storable, Registered
  <2> QED
    BY <2>1, <2>2 DEF SnapshotInv, SupTyped, AttemptsIssued, HintsNoticed
<1>3. LedgerInv
  <2>1. 0 \in 0 .. MaxFailures /\ 0 <= RetryBudget
    BY RecoveryAssumption
  <2> QED
    BY <2>1 DEF LedgerInv, RecoveryTypeOK, Closed
<1>4. RestTyped
  BY DEF RestTyped, Verdicts
<1> QED
  BY <1>1, <1>2, <1>3, <1>4 DEF IInv

LEMMA StutterKeeps == IInv /\ UNCHANGED vars => StepKeeps
<1> SUFFICES ASSUME IInv, UNCHANGED vars PROVE StepKeeps
  OBVIOUS
<1>1. RecoveryTypeOK /\ probing \subseteq Probers /\ SameWorkers(workers)
  BY DEF IInv, LedgerInv, RestTyped, SameWorkers, SameJob, ControlTypeOK
<1>2. RecoveryTypeOK'
  BY <1>1 DEF RecoveryTypeOK, vars
<1>3. SameWorkers(workers')
  BY <1>1 DEF vars
<1> QED
  BY <1>1, <1>2, <1>3, AsideKeeps DEF vars

LEMMA NextKeeps == IInv /\ [Next]_vars => StepKeeps
<1> SUFFICES ASSUME IInv, [Next]_vars PROVE StepKeeps
  OBVIOUS
<1>1. ASSUME NEW p \in Probers, NEW q \in Questions, Advance(p, q)
      PROVE  StepKeeps
  BY <1>1, LaunchKeeps, RetryContinuationKeeps, FinishKeeps, FinishFailedKeeps,
     LoseWorkerKeeps, AnswerKeeps, AskTeacherKeeps, ResumeModelWaitKeeps
     DEF Advance
<1>2. ASSUME NEW q \in Questions, Resume(q)
      PROVE  StepKeeps
  BY <1>2, ResumeWaitKeeps, TeacherActKeeps, AttributeKeeps DEF Resume
<1> QED
  BY <1>1, <1>2, StartProbeKeeps, EndProbeKeeps, RestartKeeps, WorkerStepKeeps,
     StutterKeeps DEF Next

LEMMA IInvHolds == Spec => []IInv
<1>1. IInv /\ [Next]_vars => IInv'
  BY NextKeeps DEF StepKeeps
<1> QED
  BY <1>1, InitIInv, PTL DEF Spec

-----------------------------------------------------------------------------
(* Verdicts: what the run of a question has imported stays what it was.     *)

Answered(request) ==
    \E i \in DOMAIN request.rounds : request.rounds[i].decision # None

\* A snapshot that is attributed, or only waits to be.
Final(s) == s.condition = "ATTRIBUTION" \/ s.phase = "FINISHED"

\* The run has the verdict of a session that ended in a decision to stop.
Settled(asked, run) ==
    \E a \in run.ledger : /\ a \in DOMAIN asked /\ Stopped(asked[a])
                          /\ run.verdict = VerdictOf(asked[a])

\* Without a verdict a run has imported failures before any scientific round.
Accounted(asked, run) ==
    \A a \in run.ledger :
        /\ a \in DOMAIN asked
        /\ Stopped(asked[a]) => run.verdict = VerdictOf(asked[a])
        /\ run.verdict = None => asked[a].receipt \in Stages /\ ~HasScience(asked[a])

\* A continuation serves a session that was answered; a worker that runs a
\* session has not reported its failure.
Fit(asked, v) ==
    LET request == asked[v.question][v.request] IN
    /\ v.kind = "continuation" => Answered(request)
    /\ v.kind = "session" /\ v.alive => request.receipt \notin Stages

WorkersFit == \A w \in DOMAIN workers : Fit(requests, workers[w])

FinalsSettled == \A x \in Questions : Final(sup[x]) => Settled(requests[x], runs[x])

RunsAccounted == \A x \in Questions : Accounted(requests[x], runs[x])

VerdictInv == FinalsSettled /\ RunsAccounted /\ WorkersFit

\* Request b of a question whose run has imported what it has is only touched so
\* that a stop stands, and that nothing is decided in an imported session, nor
\* published in one that left the run without a verdict.
SteadyRequest(old, next, b, run) ==
    /\ Stopped(old) => Stopped(next) /\ VerdictOf(next) = VerdictOf(old)
    /\ b \in run.ledger =>
           /\ Stopped(next) => Stopped(old)
           /\ run.verdict = None /\ old.receipt \in Stages /\ ~HasScience(old)
              => next.receipt \in Stages /\ ~HasScience(next)

Steady(asked, next, run) ==
    \A b \in DOMAIN asked :
        b \in DOMAIN next /\ SteadyRequest(asked[b], next[b], b, run)

AllSteady == \A x \in Questions : Steady(requests[x], requests'[x], runs[x])

LEMMA SteadyKeeps ==
  ASSUME NEW asked, NEW next, NEW run, Steady(asked, next, run)
  PROVE  /\ Settled(asked, run) => Settled(next, run)
         /\ Accounted(asked, run) => Accounted(next, run)
BY DEF Steady, SteadyRequest, Settled, Accounted

LEMMA SteadyUnchanged ==
  ASSUME UNCHANGED requests
  PROVE  AllSteady
BY DEF AllSteady, Steady, SteadyRequest

\* A stopped session has an answer to its last round, and only to it one to stop.
LEMMA StoppedRequest ==
  ASSUME NEW request \in Requests, Ordered(request.rounds)
  PROVE  /\ request.rounds \in Seq(RoundRecords)
         /\ Stopped(request) =>
               /\ HasScience(request)
               /\ Len(request.rounds) \in DOMAIN request.rounds
               /\ \A i \in DOMAIN request.rounds : request.rounds[i].decision # None
         /\ Answered(request) => HasScience(request)
<1> DEFINE rounds == request.rounds
<1>1. rounds \in Seq(RoundRecords)
  BY DEF Requests
<1>2. Answered(request) => HasScience(request)
  BY DEF Ordered, Answered, HasScience
<1>3. ASSUME Stopped(request)
      PROVE  /\ Len(rounds) \in DOMAIN rounds
             /\ \A i \in DOMAIN rounds : rounds[i].decision # None
  <2>1. Len(rounds) \in DOMAIN rounds /\ rounds[Len(rounds)].decision \in Stopping
    BY <1>1, <1>3 DEF Stopped, LastRound
  <2>2. ASSUME NEW i \in DOMAIN rounds
        PROVE  rounds[i].decision # None
    <3>1. i = Len(rounds) \/ i < Len(rounds)
      BY <1>1
    <3>2. i < Len(rounds) => rounds[i].decision \in Continuing
      BY DEF Ordered
    <3> QED
      BY <2>1, <3>1, <3>2, NoneApart
  <2> QED
    BY <2>1, <2>2
<1> QED
  BY <1>1, <1>2, <1>3 DEF Answered

\* A session that was stopped stays so, whatever is appended to others.
LEMMA StopStands ==
  ASSUME NEW old \in Requests, NEW next \in Requests, Ordered(old.rounds),
         Extends(old.rounds, next.rounds), Len(next.rounds) = Len(old.rounds),
         Stopped(old)
  PROVE  Stopped(next) /\ VerdictOf(next) = VerdictOf(old)
<1>1. /\ Len(old.rounds) \in DOMAIN old.rounds
      /\ old.rounds[Len(old.rounds)].decision # None
      /\ old.rounds \in Seq(RoundRecords) /\ next.rounds \in Seq(RoundRecords)
  BY StoppedRequest DEF Requests
<1>2. next.rounds[Len(next.rounds)] = old.rounds[Len(old.rounds)] /\ next.rounds # <<>>
  BY <1>1 DEF Extends
<1> QED
  BY <1>2 DEF Stopped, LastRound, VerdictOf

LEMMA ReplacedSteady ==
  ASSUME RequestsTyped, NEW q \in Questions, NEW a \in DOMAIN requests[q],
         NEW request \in Requests, requests' = Replaced(q, a, request),
         SteadyRequest(requests[q][a], request, a, runs[q])
  PROVE  /\ AllSteady
         /\ requests'[q][a] = request
         /\ \A x \in Questions : \A b \in DOMAIN requests[x] :
                x # q \/ b # a => requests'[x][b] = requests[x][b]
<1>1. /\ RequestsTyped'
      /\ \A x \in Questions : Len(requests'[x]) = Len(requests[x])
      /\ \A x \in Questions : \A b \in DOMAIN requests[x] :
             requests'[x][b] = IF x = q /\ b = a THEN request ELSE requests[x][b]
  BY ReplacedTyped
<1>2. \A x \in Questions : DOMAIN requests'[x] = DOMAIN requests[x]
  BY <1>1 DEF RequestsTyped
<1>3. ASSUME NEW x \in Questions, NEW b \in DOMAIN requests[x]
      PROVE  SteadyRequest(requests[x][b], requests'[x][b], b, runs[x])
  <2>1. CASE x = q /\ b = a
    BY <1>1, <2>1
  <2>2. CASE ~(x = q /\ b = a)
    <3>1. requests'[x][b] = requests[x][b]
      BY <1>1, <2>2
    <3> QED
      BY <3>1 DEF SteadyRequest
  <2> QED
    BY <2>1, <2>2
<1>4. AllSteady
  BY <1>2, <1>3 DEF AllSteady, Steady
<1> QED
  BY <1>1, <1>4

ReceiptsKept ==
    \A x \in Questions : \A b \in DOMAIN requests[x] :
        requests'[x][b].receipt \in Stages => requests[x][b].receipt \in Stages

\* Decisions are published only for a run without a verdict, and only for
\* scientific rounds: not in a session that was imported.
LEMMA DecidedSteady ==
  ASSUME RequestsTyped, RoundsOrdered, RunsAccounted,
         NEW q \in Questions, NEW a \in DOMAIN requests[q], NEW i, NEW action,
         MayDecide(requests[q][a], i, action), runs[q].verdict = None,
         requests' = Decided(q, a, i, action)
  PROVE  AllSteady /\ ReceiptsKept /\ Answered(requests'[q][a])
<1> DEFINE old == requests[q][a].rounds
           rounds == [old EXCEPT ![i] = [old[i] EXCEPT !.decision = action]]
           request == [requests[q][a] EXCEPT !.rounds = rounds]
<1>1. /\ requests[q][a] \in Requests /\ old \in Seq(RoundRecords) /\ Ordered(old)
      /\ i \in DOMAIN old /\ old[i] \in RoundRecords
      /\ old[i].decision \in {None, action}
  BY RequestTyped DEF MayDecide, RoundsOrdered
<1>2. /\ old[i].outcome \in Scientific
      /\ action \in Continuing \cup Stopping
  BY <1>1 DEF MayDecide, Allowed, RoundRecords, Scientific, Continuing, Stopping
<1>3. [old[i] EXCEPT !.decision = action] \in RoundRecords
  BY <1>1, <1>2 DEF RoundRecords
<1>4. rounds \in Seq(RoundRecords) /\ Len(rounds) = Len(old) /\ DOMAIN rounds = DOMAIN old
  BY <1>1, <1>3
<1>5. /\ \A j \in DOMAIN old : j # i => rounds[j] = old[j]
      /\ rounds[i].decision = action
      /\ old[i].decision # None => rounds[i] = old[i]
  BY <1>1 DEF RoundRecords
<1>6. /\ request \in Requests /\ request.rounds = rounds
      /\ request.receipt = requests[q][a].receipt
  BY <1>1, <1>4 DEF Requests
<1>7. requests' = Replaced(q, a, request)
  BY DEF Decided, Replaced
<1> HIDE DEF rounds, request
<1>8. Stopped(requests[q][a])
      => Stopped(request) /\ VerdictOf(request) = VerdictOf(requests[q][a])
  <2>1. Extends(old, rounds)
    BY <1>1, <1>4, <1>5 DEF Extends
  <2> QED
    BY <1>1, <1>4, <1>6, <2>1, StopStands
<1>9. a \notin runs[q].ledger
  BY <1>1, <1>2 DEF RunsAccounted, Accounted, HasScience
<1>10. SteadyRequest(requests[q][a], request, a, runs[q])
  BY <1>8, <1>9 DEF SteadyRequest
<1>11. /\ AllSteady
       /\ requests'[q][a] = request
       /\ \A x \in Questions : \A b \in DOMAIN requests[x] :
              x # q \/ b # a => requests'[x][b] = requests[x][b]
  BY <1>6, <1>7, <1>10, ReplacedSteady
<1>12. ReceiptsKept
  BY <1>6, <1>11 DEF ReceiptsKept
<1>13. action # None
  BY <1>2, NoneApart
<1> QED
  BY <1>1, <1>4, <1>5, <1>6, <1>11, <1>12, <1>13 DEF Answered

\* An archived round was the last one, and had no answer.
LEMMA ArchivedSteady ==
  ASSUME RequestsTyped, RoundsOrdered, NEW q \in Questions,
         sup[q].attempt \in DOMAIN requests[q], sup[q].round \in Rounds,
         Archivable(q), requests' = Archived(q)
  PROVE  AllSteady /\ ReceiptsKept
<1> DEFINE a == sup[q].attempt
           r == sup[q].round
           old == requests[q][a].rounds
           rounds == SubSeq(old, 1, r - 1)
           request == [requests[q][a] EXCEPT !.rounds = rounds]
<1>1. /\ requests[q][a] \in Requests /\ old \in Seq(RoundRecords)
      /\ Ordered(old) /\ r \in Nat /\ r > 0
  BY RequestTyped, SupervisorAssumption DEF RoundsOrdered
<1>2. CASE r \notin DOMAIN old
  <2>1. UNCHANGED requests
    BY <1>2 DEF Archived, Current
  <2> QED
    BY <2>1, SteadyUnchanged DEF ReceiptsKept
<1>3. CASE r \in DOMAIN old
  <2>1. /\ rounds \in Seq(RoundRecords) /\ Len(rounds) = r - 1
        /\ DOMAIN rounds = 1 .. (r - 1) /\ DOMAIN old = 1 .. Len(old)
        /\ \A i \in 1 .. (r - 1) : rounds[i] = old[i]
    BY <1>1, <1>3
  <2>2. old[r].decision = None /\ r = Len(old)
    BY <1>1, <1>3, NoneApart DEF Archivable, Current, Ordered
  <2>3. /\ request \in Requests /\ request.rounds = rounds
        /\ request.receipt = requests[q][a].receipt
    BY <1>1, <2>1 DEF Requests
  <2>4. requests' = Replaced(q, a, request)
    BY <1>3 DEF Archived, Replaced, Current
  <2> HIDE DEF rounds, request
  <2>5. ~Stopped(requests[q][a])
    BY <1>1, <1>3, <2>2, StoppedRequest
  <2>6. ASSUME NEW i \in DOMAIN rounds
        PROVE  i \in DOMAIN old /\ i < Len(old) /\ rounds[i] = old[i]
    <3>1. i \in 1 .. (r - 1)
      BY <2>1
    <3>2. i \in 1 .. r /\ i < r
      BY <1>1, <3>1
    <3> QED
      BY <2>1, <2>2, <3>1, <3>2
  <2>7. ~Stopped(request)
    <3>1. ASSUME rounds # <<>> PROVE rounds[Len(rounds)].decision \in Continuing
      <4>1. Len(rounds) \in DOMAIN rounds
        BY <2>1, <3>1
      <4> QED
        BY <1>1, <2>6, <4>1 DEF Ordered
    <3>2. \A d \in Continuing : d \notin Stopping
      BY DEF Continuing, Stopping
    <3> QED
      BY <2>3, <3>1, <3>2 DEF Stopped, LastRound
  <2>8. HasScience(request) => HasScience(requests[q][a])
    BY <2>3, <2>6 DEF HasScience
  <2>9. SteadyRequest(requests[q][a], request, a, runs[q])
    BY <2>3, <2>5, <2>7, <2>8 DEF SteadyRequest
  <2>10. /\ AllSteady
         /\ requests'[q][a] = request
         /\ \A x \in Questions : \A b \in DOMAIN requests[x] :
                x # q \/ b # a => requests'[x][b] = requests[x][b]
    BY <2>3, <2>4, <2>9, ReplacedSteady
  <2> QED
    BY <2>3, <2>10 DEF ReceiptsKept
<1> QED
  BY <1>2, <1>3

\* What an alive worker writes: nothing to a session that was imported as failed,
\* as its worker ended and nobody continues it.
LEMMA ServedTyped ==
  ASSUME ControlTypeOK, NEW w \in DOMAIN workers
  PROVE  /\ RequestsTyped /\ workers[w] \in WorkerRecords
         /\ workers[w].question \in Questions
         /\ workers[w].request \in DOMAIN requests[workers[w].question]
<1>1. workers[w] \in WorkerRecords
  BY DEF ControlTypeOK
<1> QED
  BY <1>1 DEF ControlTypeOK, RequestsTyped, WorkerRecords

LEMMA AliveServes ==
  ASSUME ControlTypeOK, RoundsOrdered, WorkersFit,
         NEW w \in DOMAIN workers, workers[w].alive
  PROVE  Served(w).receipt \notin Stages \/ HasScience(Served(w))
<1>1. workers[w].kind \in {"session", "continuation"}
  BY ServedTyped DEF WorkerRecords
<1>2. CASE workers[w].kind = "session"
  BY <1>2 DEF WorkersFit, Fit, Served
<1>3. CASE workers[w].kind = "continuation"
  <2>1. Answered(Served(w))
    BY <1>3 DEF WorkersFit, Fit, Served
  <2>2. Served(w) \in Requests /\ Ordered(Served(w).rounds)
    BY ServedTyped, RequestTyped DEF Served, RoundsOrdered
  <2> QED
    BY <2>1, <2>2, StoppedRequest
<1> QED
  BY <1>1, <1>2, <1>3

LEMMA PublishedSteady ==
  ASSUME ControlTypeOK, RoundsOrdered, WorkersFit, NEW w \in DOMAIN workers,
         NEW outcome \in Scientific \cup {"PLATFORM"}, Publish(w, outcome)
  PROVE  AllSteady /\ ReceiptsKept
<1> DEFINE q == workers[w].question
           a == workers[w].request
           old == requests[q][a].rounds
           rounds == Append(old, Undecided(outcome))
           request == [requests[q][a] EXCEPT !.rounds = rounds]
<1>1. /\ RequestsTyped /\ q \in Questions /\ a \in DOMAIN requests[q]
      /\ requests[q][a] \in Requests /\ old \in Seq(RoundRecords)
  BY ServedTyped, RequestTyped
<1>2. Undecided(outcome) \in RoundRecords /\ Undecided(outcome).decision = None
  BY DEF Undecided, RoundRecords
<1>3. rounds \in Seq(RoundRecords) /\ rounds[Len(rounds)] = Undecided(outcome)
  <2>1. rounds \in Seq(RoundRecords) /\ Len(rounds) = Len(old) + 1
        /\ rounds[Len(old) + 1] = Undecided(outcome)
    <3>1. old \in Seq(RoundRecords)
      BY <1>1
    <3> HIDE DEF old
    <3> QED
      BY <1>2, <3>1
  <2> QED
    BY <2>1
<1>4. /\ request \in Requests /\ request.rounds = rounds
      /\ request.receipt = requests[q][a].receipt
  BY <1>1, <1>3 DEF Requests
<1>5. requests' = Replaced(q, a, request)
  BY DEF Publish, Replaced
<1>6. ~Stopped(requests[q][a])
  <2>1. \A i \in DOMAIN old : old[i].decision \in Continuing
    BY DEF Publish, MayRun, Served
  <2>2. \A d \in Continuing : d \notin Stopping
    BY DEF Continuing, Stopping
  <2>3. old # <<>> => Len(old) \in DOMAIN old
    BY <1>1
  <2> QED
    BY <2>1, <2>2, <2>3 DEF Stopped, LastRound
<1>7. requests[q][a].receipt \notin Stages \/ HasScience(requests[q][a])
  BY AliveServes DEF Publish, Served
<1> HIDE DEF rounds, request
<1>8. ~Stopped(request)
  BY <1>2, <1>3, <1>4, NoneApart DEF Stopped, LastRound
<1>9. SteadyRequest(requests[q][a], request, a, runs[q])
  BY <1>6, <1>7, <1>8 DEF SteadyRequest
<1>10. /\ AllSteady
       /\ requests'[q][a] = request
       /\ \A x \in Questions : \A b \in DOMAIN requests[x] :
              x # q \/ b # a => requests'[x][b] = requests[x][b]
  BY <1>1, <1>4, <1>5, <1>9, ReplacedSteady
<1> QED
  BY <1>4, <1>10 DEF ReceiptsKept

LEMMA ReceiptSteady ==
  ASSUME ControlTypeOK, RoundsOrdered, NEW w \in DOMAIN workers,
         NEW value \in Stages \cup {"SCIENTIFIC_RESULT"}, Receipt(w, value),
         value \in Stages \/ HasScience(Served(w))
  PROVE  /\ AllSteady
         /\ \A x \in Questions : \A b \in DOMAIN requests[x] :
                requests'[x][b].receipt \in Stages =>
                    \/ requests[x][b].receipt \in Stages
                    \/ value \in Stages /\ x = workers[w].question
                                        /\ b = workers[w].request
<1> DEFINE q == workers[w].question
           a == workers[w].request
           request == [requests[q][a] EXCEPT !.receipt = value]
<1>1. /\ RequestsTyped /\ q \in Questions /\ a \in DOMAIN requests[q]
      /\ requests[q][a] \in Requests
  BY ServedTyped, RequestTyped
<1>2. /\ request \in Requests /\ request.rounds = requests[q][a].rounds
      /\ request.receipt = value
  BY <1>1 DEF Requests
<1>3. requests' = Replaced(q, a, request)
  BY DEF Receipt, Replaced
<1>4. value \in Stages \/ HasScience(requests[q][a])
  BY DEF Served
<1> HIDE DEF request
<1>5. /\ Stopped(request) = Stopped(requests[q][a])
      /\ VerdictOf(request) = VerdictOf(requests[q][a])
      /\ HasScience(request) = HasScience(requests[q][a])
  BY <1>2 DEF Stopped, VerdictOf, HasScience, LastRound
<1>6. SteadyRequest(requests[q][a], request, a, runs[q])
  BY <1>2, <1>4, <1>5 DEF SteadyRequest
<1>7. /\ AllSteady
      /\ requests'[q][a] = request
      /\ \A x \in Questions : \A b \in DOMAIN requests[x] :
             x # q \/ b # a => requests'[x][b] = requests[x][b]
  BY <1>1, <1>2, <1>3, <1>6, ReplacedSteady
<1> QED
  BY <1>2, <1>7

\* The workers after a step: those of before, and perhaps one more that fits.
NextFit ==
    \A w \in DOMAIN workers' :
        \/ /\ w \in DOMAIN workers
           /\ SameJob(workers'[w], workers[w])
           /\ workers'[w].alive => workers[w].alive
        \/ Fit(requests', workers'[w])

LEMMA FitKeeps ==
  ASSUME ControlTypeOK, WorkersFit, DecisionsKept, ReceiptsKept, NextFit
  PROVE  WorkersFit'
<1>1. ASSUME NEW w \in DOMAIN workers', w \in DOMAIN workers,
             SameJob(workers'[w], workers[w]), workers'[w].alive => workers[w].alive
      PROVE  Fit(requests', workers'[w])
  <2> DEFINE q == workers[w].question
             a == workers[w].request
  <2>1. q \in Questions /\ a \in DOMAIN requests[q]
    BY <1>1, ServedTyped
  <2>2. Fit(requests, workers[w])
    BY <1>1 DEF WorkersFit
  <2>3. Answered(requests[q][a]) => Answered(requests'[q][a])
    BY <2>1 DEF DecisionsKept, Extends, Answered
  <2>4. requests'[q][a].receipt \in Stages => requests[q][a].receipt \in Stages
    BY <2>1 DEF ReceiptsKept
  <2> QED
    BY <1>1, <2>2, <2>3, <2>4 DEF Fit, SameJob
<1>2. \A w \in DOMAIN workers' : Fit(requests', workers'[w])
  BY <1>1 DEF NextFit
<1> QED
  BY <1>2 DEF WorkersFit, Fit, Answered

LEMMA WatchedAlive ==
  ASSUME ControlTypeOK, NEW p, NEW k, NEW n
  PROVE  /\ Watched(p, k, n) \in Seq(WorkerRecords) => Len(Watched(p, k, n)) = Len(workers)
         /\ DOMAIN Watched(p, k, n) = DOMAIN workers
         /\ \A w \in DOMAIN workers :
                /\ SameJob(Watched(p, k, n)[w], workers[w])
                /\ Watched(p, k, n)[w].alive = workers[w].alive
<1>1. ASSUME NEW w \in DOMAIN workers
      PROVE  /\ SameJob(Orphaned(p)[w], workers[w])
             /\ Orphaned(p)[w].alive = workers[w].alive
  <2>1. workers[w] \in WorkerRecords
    BY DEF ControlTypeOK
  <2>2. Orphaned(p)[w] \in {workers[w], [workers[w] EXCEPT !.owner = None]}
    BY DEF Orphaned
  <2> QED
    BY <2>1, <2>2 DEF WorkerRecords, SameJob
<1>2. DOMAIN Orphaned(p) = DOMAIN workers
  BY DEF Orphaned
<1>3. \A W \in Seq(WorkerRecords) : DOMAIN W = DOMAIN workers => Len(W) = Len(workers)
  BY DEF ControlTypeOK
<1> QED
  BY <1>1, <1>2, <1>3 DEF Watched, SameJob

LEMMA NoneNew ==
  ASSUME ControlTypeOK, NEW p, NEW k, NEW n, workers' = Watched(p, k, n)
  PROVE  NextFit
BY WatchedAlive DEF NextFit

LEMMA OneNew ==
  ASSUME ControlTypeOK, NEW p \in Probers, NEW k, NEW n, NEW v,
         workers' = Append(Watched(p, k, n), v), Fit(requests', v)
  PROVE  NextFit
<1> DEFINE W == Watched(p, k, n)
<1>1. /\ W \in Seq(WorkerRecords) /\ DOMAIN W = DOMAIN workers
      /\ \A w \in DOMAIN workers :
             SameJob(W[w], workers[w]) /\ W[w].alive = workers[w].alive
  BY WatchedSame, WatchedAlive DEF SameWorkers
<1>2. workers' = Append(W, v)
  OBVIOUS
<1> HIDE DEF W
<1>3. \A w \in DOMAIN workers' : (w \in DOMAIN W /\ workers'[w] = W[w]) \/ workers'[w] = v
  BY <1>1, <1>2
<1> QED
  BY <1>1, <1>3 DEF NextFit

LEMMA SameFit ==
  ASSUME UNCHANGED workers
  PROVE  NextFit
BY DEF NextFit, SameJob

\* No snapshot becomes final.
NoneFinal == \A x \in Questions : Final(sup'[x]) => Final(sup[x])

LEMMA WrittenNotFinal ==
  ASSUME SupTyped, NEW q \in Questions, NEW s, NEW k, NEW n,
         Final([s EXCEPT !.noted = FALSE]) => Final(sup[q]),
         WriteLast(q, k, n, s)
  PROVE  NoneFinal
<1>1. sup' \in {sup, [sup EXCEPT ![q] = [s EXCEPT !.noted = FALSE]]}
  BY DEF WriteLast, Write
<1>2. ASSUME NEW x \in Questions
      PROVE  sup'[x] = sup[x] \/ (x = q /\ sup'[x] = [s EXCEPT !.noted = FALSE])
  <2>1. DOMAIN sup = Questions
    BY DEF SupTyped
  <2> QED
    BY <1>1, <2>1
<1> QED
  BY <1>2 DEF NoneFinal

\* What is left to show of an action that imports nothing.
LEMMA RunsKept ==
  ASSUME VerdictInv, AllSteady, NoneFinal, UNCHANGED runs, WorkersFit'
  PROVE  VerdictInv'
<1>1. FinalsSettled /\ RunsAccounted
  BY DEF VerdictInv
<1>2. ASSUME NEW x \in Questions
      PROVE  /\ Settled(requests[x], runs[x]) => Settled(requests'[x], runs'[x])
             /\ Accounted(requests[x], runs[x]) => Accounted(requests'[x], runs'[x])
  <2>1. PICK run : run = runs[x]
    OBVIOUS
  <2>2. runs'[x] = run /\ Steady(requests[x], requests'[x], run)
    BY <2>1 DEF AllSteady
  <2> QED
    BY <2>1, <2>2, SteadyKeeps
<1>3. FinalsSettled'
  <2>1. \A x \in Questions : Final(sup'[x]) => Settled(requests'[x], runs'[x])
    BY <1>1, <1>2 DEF FinalsSettled, NoneFinal
  <2> QED
    BY <2>1 DEF FinalsSettled
<1>4. RunsAccounted'
  <2>1. \A x \in Questions : Accounted(requests'[x], runs'[x])
    BY <1>1, <1>2 DEF RunsAccounted
  <2> QED
    BY <2>1 DEF RunsAccounted
<1> QED
  BY <1>3, <1>4 DEF VerdictInv

LEMMA VerdictsKept ==
  ASSUME IInv, DecisionsKept, VerdictInv, AllSteady, ReceiptsKept, NextFit,
         NoneFinal, UNCHANGED runs
  PROVE  VerdictInv'
<1>1. WorkersFit'
  BY FitKeeps DEF IInv, VerdictInv
<1> QED
  BY <1>1, RunsKept

\* A receipt is imported: the verdict of a stopped session, or what the failure of
\* one that was not stopped leaves.
LEMMA ImportSettles ==
  ASSUME RequestsTyped, RestTyped, RunsAccounted, NEW q \in Questions,
         NEW a \in DOMAIN requests[q], MayImport(q, a),
         requests[q][a].receipt \in Stages \/ Stopped(requests[q][a]),
         UNCHANGED requests, runs' = [runs EXCEPT ![q] = Imported(q, a)]
  PROVE  /\ RunsAccounted'
         /\ \A x \in Questions :
                Settled(requests[x], runs[x]) => Settled(requests'[x], runs'[x])
         /\ Stopped(requests[q][a]) => Settled(requests'[q], runs'[q])
<1> DEFINE request == requests[q][a]
<1>1. runs'[q] = Imported(q, a) /\ \A x \in Questions : x # q => runs'[x] = runs[x]
  BY DEF RestTyped
<1>2. Accounted(requests[q], runs[q])
  BY DEF RunsAccounted
<1>3. CASE a \in runs[q].ledger
  <2>1. \A x \in Questions : runs'[x] = runs[x]
    BY <1>1, <1>3 DEF Imported
  <2>2. Stopped(request) => Settled(requests[q], runs[q])
    BY <1>2, <1>3 DEF Accounted, Settled
  <2> QED
    BY <2>1, <2>2 DEF RunsAccounted
<1>4. CASE a \notin runs[q].ledger
  <2>1. runs[q].verdict = None
    BY <1>4 DEF MayImport
  <2>2. /\ runs'[q].ledger = runs[q].ledger \cup {a}
        /\ Stopped(request) => runs'[q].verdict = VerdictOf(request)
        /\ runs'[q].verdict = None => ~Stopped(request) /\ ~HasScience(request)
    BY <1>1, <1>4, NoneApart DEF Imported, VerdictOf
  <2>3. \A b \in runs[q].ledger : ~Stopped(requests[q][b])
    BY <1>2, <2>1, NoneApart DEF Accounted, VerdictOf
  <2>4. Accounted(requests[q], runs'[q])
    BY <1>2, <2>1, <2>2, <2>3 DEF Accounted
  <2>5. ~Settled(requests[q], runs[q])
    BY <2>3 DEF Settled
  <2>6. Stopped(request) => Settled(requests[q], runs'[q])
    BY <2>2 DEF Settled
  <2> QED
    BY <1>1, <2>4, <2>5, <2>6 DEF RunsAccounted
<1> QED
  BY <1>3, <1>4

\* Facts every action below starts from.
LEMMA VerdictTyped ==
  ASSUME IInv, VerdictInv, NEW q \in Questions
  PROVE  /\ RequestsTyped /\ RoundsOrdered /\ ControlTypeOK /\ LaunchedOnce
         /\ SnapshotInv /\ SupTyped /\ RestTyped
         /\ FinalsSettled /\ RunsAccounted /\ WorkersFit
         /\ sup[q] \in Snapshots
         /\ sup[q].attempt # 0 => sup[q].attempt \in DOMAIN requests[q]
         /\ sup[q].phase = "RUNNING" => sup[q].attempt # 0
<1>1. RequestsTyped /\ SnapshotInv
  BY IInvTyped DEF IInv
<1> QED
  BY <1>1, CurrentTyped DEF IInv, SnapshotInv, VerdictInv, Storable

LEMMA LaunchVerdict ==
  ASSUME IInv, VerdictInv, DecisionsKept,
         NEW p \in Probers, NEW q \in Questions, NEW k \in 1 .. 3, Launch(p, q, k)
  PROVE  VerdictInv'
<1> DEFINE a == sup[q].attempt + 1
           s == [sup[q] EXCEPT !.phase = "RUNNING", !.attempt = a,
                               !.worker = Len(workers) + 1, !.stage = None,
                               !.condition = None]
<1>1. /\ RequestsTyped /\ RoundsOrdered /\ ControlTypeOK /\ SnapshotInv /\ SupTyped
      /\ sup[q] \in Snapshots /\ sup[q].attempt \in Nat
  BY VerdictTyped, CurrentTyped
<1>2. Len(requests[q]) = sup[q].attempt /\ a \notin DOMAIN requests[q]
  <2>1. Len(requests[q]) = sup[q].attempt /\ requests[q] \in Seq(Requests)
    BY <1>1 DEF Launch, MayIssue, RequestsTyped
  <2> QED
    BY <1>1, <2>1
<1>3. requests' = [requests EXCEPT ![q] = Append(@, Request)]
  BY <1>2 DEF Launch
<1>4. /\ RequestsStep /\ OnlyOf(q) /\ requests'[q][a] = Request
      /\ \A b \in DOMAIN requests[q] : requests'[q][b] = requests[q][b]
  BY <1>1, <1>2, <1>3, IssuedStep
<1>5. ASSUME NEW x \in Questions, NEW b \in DOMAIN requests[x]
      PROVE  b \in DOMAIN requests'[x] /\ requests'[x][b] = requests[x][b]
  <2>1. Len(requests'[x]) >= Len(requests[x]) /\ RequestsTyped'
    BY <1>4 DEF RequestsStep, RequestsStay
  <2>2. requests[x] \in Seq(Requests) /\ requests'[x] \in Seq(Requests)
    BY <1>1, <2>1 DEF RequestsTyped
  <2>3. b \in DOMAIN requests'[x]
    BY <2>1, <2>2
  <2>4. requests'[x][b] = requests[x][b]
    BY <1>4 DEF OnlyOf
  <2> QED
    BY <2>3, <2>4
<1>6. AllSteady /\ ReceiptsKept
  BY <1>5 DEF AllSteady, Steady, SteadyRequest, ReceiptsKept
<1>7. NextFit
  <2>1. CASE k >= 2
    <3> DEFINE v == Worker(q, a, "session", IF k = 3 THEN p ELSE None)
    <3>1. workers' = Append(Watched(p, k, 3), v)
      BY <2>1 DEF Launch
    <3>2. Fit(requests', v)
      <4>1. v.question = q /\ v.request = a /\ v.kind = "session"
        BY DEF Worker
      <4>2. Request.receipt \notin Stages
        BY NoneApart DEF Request
      <4> HIDE DEF v
      <4> QED
        BY <1>4, <4>1, <4>2 DEF Fit
    <3> HIDE DEF v
    <3> QED
      BY <1>1, <3>1, <3>2, OneNew
  <2>2. CASE ~(k >= 2)
    <3>1. workers' = Watched(p, k, 3)
      BY <2>2 DEF Launch
    <3> QED
      BY <1>1, <3>1, NoneNew
  <2> QED
    BY <2>1, <2>2
<1>8. NoneFinal
  <2>1. ~Final([s EXCEPT !.noted = FALSE])
    BY <1>1, NoneApart DEF Final, Snapshots
  <2>2. WriteLast(q, k, 3, s)
    BY DEF Launch
  <2> HIDE DEF s
  <2> QED
    BY <1>1, <2>1, <2>2, WrittenNotFinal
<1>9. UNCHANGED runs
  BY DEF Launch
<1> QED
  BY <1>6, <1>7, <1>8, <1>9, VerdictsKept

LEMMA RetryContinuationVerdict ==
  ASSUME IInv, VerdictInv, DecisionsKept,
         NEW p \in Probers, NEW q \in Questions, NEW k \in 1 .. 3,
         RetryContinuation(p, q, k)
  PROVE  VerdictInv'
<1> DEFINE a == sup[q].attempt
           s == [sup[q] EXCEPT !.phase = "RUNNING", !.worker = Len(workers) + 1,
                               !.stage = None, !.condition = None]
<1>1. /\ RequestsTyped /\ RoundsOrdered /\ ControlTypeOK /\ SnapshotInv /\ SupTyped
      /\ sup[q] \in Snapshots /\ sup[q].round \in Rounds
      /\ a \in DOMAIN requests[q]
  BY VerdictTyped, CurrentTyped DEF RetryContinuation, IsContinuation
<1>2. AllSteady /\ ReceiptsKept
  BY <1>1, ArchivedSteady DEF RetryContinuation
<1>3. Answered(requests'[q][a])
  <2>1. requests[q][a].rounds \in Seq(RoundRecords)
    BY <1>1, RequestTyped
  <2>2. 3 \in DOMAIN requests[q][a].rounds
        /\ requests[q][a].rounds[3].decision = "CONTINUE_HINT"
    BY <2>1 DEF RetryContinuation, IsContinuation, Current
  <2>3. requests[q][a].rounds[3].decision # None
    BY <2>2, NoneApart DEF Continuing
  <2> QED
    BY <1>1, <2>2, <2>3 DEF DecisionsKept, Extends, Answered
<1>4. NextFit
  <2>1. CASE k >= 2
    <3> DEFINE v == Worker(q, a, "continuation", IF k = 3 THEN p ELSE None)
    <3>1. workers' = Append(Watched(p, k, 3), v)
      BY <2>1 DEF RetryContinuation
    <3>2. Fit(requests', v)
      <4>1. v.question = q /\ v.request = a /\ v.kind = "continuation"
        BY DEF Worker
      <4> HIDE DEF v
      <4> QED
        BY <1>3, <4>1 DEF Fit
    <3> HIDE DEF v
    <3> QED
      BY <1>1, <3>1, <3>2, OneNew
  <2>2. CASE ~(k >= 2)
    <3>1. workers' = Watched(p, k, 3)
      BY <2>2 DEF RetryContinuation
    <3> QED
      BY <1>1, <3>1, NoneNew
  <2> QED
    BY <2>1, <2>2
<1>5. NoneFinal
  <2>1. ~Final([s EXCEPT !.noted = FALSE])
    BY <1>1, NoneApart DEF Final, Snapshots
  <2>2. WriteLast(q, k, 3, s)
    BY DEF RetryContinuation
  <2> HIDE DEF s
  <2> QED
    BY <1>1, <2>1, <2>2, WrittenNotFinal
<1>6. UNCHANGED runs
  BY DEF RetryContinuation
<1> QED
  BY <1>2, <1>4, <1>5, <1>6, VerdictsKept

LEMMA AnswerVerdict ==
  ASSUME IInv, VerdictInv, DecisionsKept,
         NEW p \in Probers, NEW q \in Questions, NEW k \in 1 .. 2, Answer(p, q, k)
  PROVE  VerdictInv'
<1> DEFINE a == sup[q].attempt
           i == sup[q].decided + 1
           action == Automatic(i, requests[q][a].rounds[i].outcome)
           s == [sup[q] EXCEPT !.decided = i, !.round = i + 1]
<1>1. /\ RequestsTyped /\ RoundsOrdered /\ ControlTypeOK /\ SupTyped /\ RunsAccounted
      /\ sup[q] \in Snapshots /\ a \in DOMAIN requests[q]
  BY VerdictTyped DEF Answer
<1>2. MayDecide(requests[q][a], i, action) /\ requests' = Decided(q, a, i, action)
  BY DEF Answer, Current
<1>3. runs[q].verdict = None /\ UNCHANGED runs /\ workers' = Watched(p, k, 2)
  BY DEF Answer
<1>4. NoneFinal
  <2>1. Final([s EXCEPT !.noted = FALSE]) => Final(sup[q])
    BY <1>1 DEF Final, Snapshots
  <2>2. WriteLast(q, k, 2, s)
    BY DEF Answer
  <2> HIDE DEF s
  <2> QED
    BY <1>1, <2>1, <2>2, WrittenNotFinal
<1> HIDE DEF a, i, action, s
<1>5. AllSteady /\ ReceiptsKept
  BY <1>1, <1>2, <1>3, DecidedSteady
<1>6. NextFit
  BY <1>1, <1>3, NoneNew
<1> QED
  BY <1>3, <1>4, <1>5, <1>6, VerdictsKept

LEMMA TeacherActVerdict ==
  ASSUME IInv, VerdictInv, DecisionsKept, NEW q \in Questions,
         NEW action \in {"CONTINUE_HINT", "STOP_BLOCKED"},
         NEW k \in 1 .. 3, TeacherAct(q, action, k)
  PROVE  VerdictInv'
<1> DEFINE a == sup[q].attempt
           r == sup[q].round
           v == Worker(q, a, "continuation", None)
           s == [sup[q] EXCEPT
                    !.phase = "RUNNING", !.decided = r, !.round = r + 1,
                    !.worker = IF action = "CONTINUE_HINT" THEN Len(workers) + 1
                               ELSE sup[q].worker]
<1>1. /\ RequestsTyped /\ RoundsOrdered /\ ControlTypeOK /\ SupTyped /\ RunsAccounted
      /\ sup[q] \in Snapshots /\ a \in DOMAIN requests[q]
  BY VerdictTyped DEF TeacherAct
<1>2. MayDecide(requests[q][a], r, action) /\ requests' = Decided(q, a, r, action)
  BY DEF TeacherAct, Current
<1>3. runs[q].verdict = None /\ UNCHANGED runs
  BY DEF TeacherAct
<1>4. NoneFinal
  <2>1. Final([s EXCEPT !.noted = FALSE]) => Final(sup[q])
    BY <1>1 DEF Final, Snapshots
  <2>2. WriteLast(q, k, 3, s) \/ UNCHANGED sup
    BY DEF TeacherAct, WriteLast
  <2> HIDE DEF s
  <2>3. UNCHANGED sup => NoneFinal
    BY DEF NoneFinal
  <2> QED
    BY <1>1, <2>1, <2>2, <2>3, WrittenNotFinal
<1>5. AllSteady /\ ReceiptsKept /\ Answered(requests'[q][a])
  BY <1>1, <1>2, <1>3, DecidedSteady
<1>6. NextFit
  <2>1. workers' = Append(workers, v) \/ UNCHANGED workers
    BY DEF TeacherAct
  <2>2. Fit(requests', v)
    <3>1. v.question = q /\ v.request = a /\ v.kind = "continuation"
      BY DEF Worker
    <3> HIDE DEF v
    <3> QED
      BY <1>5, <3>1 DEF Fit
  <2>3. workers \in Seq(WorkerRecords)
    BY <1>1 DEF ControlTypeOK
  <2> HIDE DEF v
  <2>4. ASSUME workers' = Append(workers, v)
        PROVE  NextFit
    <3>1. \A w \in DOMAIN workers' :
              (w \in DOMAIN workers /\ workers'[w] = workers[w]) \/ workers'[w] = v
      BY <2>3, <2>4
    <3> QED
      BY <2>2, <3>1 DEF NextFit, SameJob
  <2> QED
    BY <2>1, <2>4, SameFit
<1> QED
  BY <1>3, <1>4, <1>5, <1>6, VerdictsKept

\* Actions that leave the requests alone and import nothing.
LEMMA RequestsAside ==
  ASSUME IInv, VerdictInv, DecisionsKept, UNCHANGED <<requests, runs>>,
         NextFit, NoneFinal
  PROVE  VerdictInv'
<1>1. AllSteady /\ ReceiptsKept
  BY SteadyUnchanged DEF ReceiptsKept
<1> QED
  BY <1>1, VerdictsKept

LEMMA AskTeacherVerdict ==
  ASSUME IInv, VerdictInv, DecisionsKept, NEW q \in Questions, AskTeacher(q)
  PROVE  VerdictInv'
<1> DEFINE s == [sup[q] EXCEPT !.phase = "TEACHER_ACTION", !.round = sup[q].decided + 1]
<1>1. SupTyped /\ sup[q] \in Snapshots
  BY VerdictTyped
<1>2. Final([s EXCEPT !.noted = FALSE]) => Final(sup[q])
  BY <1>1 DEF Final, Snapshots
<1>3. WriteLast(q, 1, 1, s)
  BY DEF AskTeacher, WriteLast
<1> HIDE DEF s
<1>4. NoneFinal
  BY <1>1, <1>2, <1>3, WrittenNotFinal
<1> QED
  BY <1>4, SameFit, RequestsAside DEF AskTeacher

LEMMA ResumeModelWaitVerdict ==
  ASSUME IInv, VerdictInv, DecisionsKept, NEW q \in Questions, ResumeModelWait(q)
  PROVE  VerdictInv'
<1> DEFINE s == [sup[q] EXCEPT !.phase = "READY", !.condition = None]
<1>1. SupTyped /\ sup[q] \in Snapshots
  BY VerdictTyped
<1>2. ~Final([s EXCEPT !.noted = FALSE])
  BY <1>1, NoneApart DEF Final, Snapshots
<1>3. WriteLast(q, 1, 1, s)
  BY DEF ResumeModelWait, WriteLast
<1> HIDE DEF s
<1>4. NoneFinal
  BY <1>1, <1>2, <1>3, WrittenNotFinal
<1> QED
  BY <1>4, SameFit, RequestsAside DEF ResumeModelWait

LEMMA ResumeWaitVerdict ==
  ASSUME IInv, VerdictInv, DecisionsKept, NEW q \in Questions, ResumeWait(q)
  PROVE  VerdictInv'
<1> DEFINE s == [sup[q] EXCEPT
                    !.phase = IF IsContinuation(q) THEN "RETRY_SCHEDULED" ELSE "READY",
                    !.condition = None, !.worker = None]
<1>1. SupTyped /\ sup[q] \in Snapshots
  BY VerdictTyped
<1>2. ~Final([s EXCEPT !.noted = FALSE])
  BY <1>1, NoneApart DEF Final, Snapshots
<1>3. WriteLast(q, 1, 1, s)
  BY DEF ResumeWait, WriteLast
<1> HIDE DEF s
<1>4. NoneFinal
  BY <1>1, <1>2, <1>3, WrittenNotFinal
<1> QED
  BY <1>4, SameFit, RequestsAside DEF ResumeWait

\* Only a question that awaits its attribution is finished.
LEMMA AttributeVerdict ==
  ASSUME IInv, VerdictInv, DecisionsKept, NEW q \in Questions, Attribute(q)
  PROVE  VerdictInv'
<1> DEFINE s == [sup[q] EXCEPT !.phase = "FINISHED", !.condition = None]
<1>1. SupTyped /\ Final(sup[q])
  BY VerdictTyped DEF Attribute, AwaitsAttribution, Final
<1>2. WriteLast(q, 1, 1, s)
  BY DEF Attribute, WriteLast
<1> HIDE DEF s
<1>3. NoneFinal
  BY <1>1, <1>2, WrittenNotFinal
<1> QED
  BY <1>3, SameFit, RequestsAside DEF Attribute

\* What recovering from a failure stores is not final.
LEMMA FailureNotFinal ==
  ASSUME SupTyped, NEW q \in Questions, NEW stage, NEW k, RecoverFailure(q, stage, k)
  PROVE  NoneFinal
<1> DEFINE action == IF Blocked(q) THEN "MIGRATE"
                     ELSE Decide(stage, Count(q, sup[q].round, stage))
           s == Recovered(q, stage, action)
<1>1. sup[q] \in Snapshots
  BY DEF SupTyped
<1>2. WriteLast(q, k, 3, s)
  BY DEF RecoverFailure
<1> HIDE DEF action
<1>3. ~Final([s EXCEPT !.noted = FALSE])
  BY <1>1, NoneApart DEF Recovered, Final, Snapshots
<1> HIDE DEF s
<1> QED
  BY <1>2, <1>3, WrittenNotFinal

LEMMA LoseWorkerVerdict ==
  ASSUME IInv, VerdictInv, DecisionsKept,
         NEW p \in Probers, NEW q \in Questions, NEW k \in 1 .. 3, LoseWorker(p, q, k)
  PROVE  VerdictInv'
<1>1. SupTyped /\ sup[q] \in Snapshots /\ ControlTypeOK
  BY VerdictTyped
<1>2. RecoverFailure(q, "PLATFORM", k) \/ sup' = [sup EXCEPT ![q].noted = TRUE]
  BY DEF LoseWorker
<1>3. ASSUME sup' = [sup EXCEPT ![q].noted = TRUE]
      PROVE  NoneFinal
  <2>1. \A x \in Questions :
            sup'[x] = sup[x] \/ (x = q /\ sup'[x] = [sup[q] EXCEPT !.noted = TRUE])
    BY <1>1, <1>3 DEF SupTyped
  <2>2. Final([sup[q] EXCEPT !.noted = TRUE]) => Final(sup[q])
    BY <1>1 DEF Final, Snapshots
  <2> QED
    BY <2>1, <2>2 DEF NoneFinal
<1>4. NoneFinal
  BY <1>1, <1>2, <1>3, FailureNotFinal
<1>5. NextFit
  BY <1>1, NoneNew DEF LoseWorker
<1> QED
  BY <1>4, <1>5, RequestsAside DEF LoseWorker

\* A receipt is imported, which a stopped session may leave attributed.
LEMMA ImportedVerdict ==
  ASSUME IInv, VerdictInv, DecisionsKept,
         NEW q \in Questions, NEW a \in DOMAIN requests[q], MayImport(q, a),
         requests[q][a].receipt \in Stages \/ Stopped(requests[q][a]),
         UNCHANGED requests, runs' = [runs EXCEPT ![q] = Imported(q, a)], NextFit,
         \A x \in Questions :
             Final(sup'[x]) => Final(sup[x]) \/ (x = q /\ Stopped(requests[q][a]))
  PROVE  VerdictInv'
<1>1. /\ RequestsTyped /\ RestTyped /\ ControlTypeOK
      /\ FinalsSettled /\ RunsAccounted /\ WorkersFit
  BY VerdictTyped
<1>2. /\ RunsAccounted'
      /\ \A x \in Questions :
             Settled(requests[x], runs[x]) => Settled(requests'[x], runs'[x])
      /\ Stopped(requests[q][a]) => Settled(requests'[q], runs'[q])
  BY <1>1, ImportSettles
<1>3. FinalsSettled'
  <2>1. \A x \in Questions : Final(sup'[x]) => Settled(requests'[x], runs'[x])
    BY <1>1, <1>2 DEF FinalsSettled
  <2> QED
    BY <2>1 DEF FinalsSettled
<1>4. ReceiptsKept
  BY DEF ReceiptsKept
<1>5. WorkersFit'
  BY <1>1, <1>4, FitKeeps
<1> QED
  BY <1>2, <1>3, <1>5 DEF VerdictInv

LEMMA FinishVerdict ==
  ASSUME IInv, VerdictInv, DecisionsKept,
         NEW p \in Probers, NEW q \in Questions, NEW k \in 1 .. 3, Finish(p, q, k)
  PROVE  VerdictInv'
<1> DEFINE a == sup[q].attempt
           s == [sup[q] EXCEPT !.phase = "TEACHER_ACTION", !.worker = None,
                               !.condition = "ATTRIBUTION"]
<1>1. SupTyped /\ ControlTypeOK /\ a \in DOMAIN requests[q]
  BY VerdictTyped DEF Finish, Received
<1>2. Stopped(requests[q][a]) /\ MayImport(q, a)
  BY DEF Finish, Current
<1>3. UNCHANGED requests /\ runs' = [runs EXCEPT ![q] = Imported(q, a)]
      /\ workers' = Watched(p, k, 3) /\ WriteLast(q, k, 3, s)
  BY DEF Finish
<1>4. NextFit
  BY <1>1, <1>3, NoneNew
<1> HIDE DEF a, s
<1>5. \A x \in Questions : x # q => sup'[x] = sup[x]
  BY <1>1, <1>3 DEF WriteLast, Write, SupTyped
<1> QED
  BY <1>1, <1>2, <1>3, <1>4, <1>5, ImportedVerdict

LEMMA FinishFailedVerdict ==
  ASSUME IInv, VerdictInv, DecisionsKept,
         NEW p \in Probers, NEW q \in Questions, NEW k \in 1 .. 3, FinishFailed(p, q, k)
  PROVE  VerdictInv'
<1> DEFINE a == sup[q].attempt
<1>1. SupTyped /\ ControlTypeOK /\ a \in DOMAIN requests[q]
  BY VerdictTyped DEF FinishFailed, Received
<1>2. UNCHANGED requests /\ requests[q][a].receipt \in Stages
  BY DEF FinishFailed, Current
<1>3. NoneFinal
  BY <1>1, FailureNotFinal DEF FinishFailed
<1>4. NextFit
  BY <1>1, NoneNew DEF FinishFailed
<1>5. CASE MayImport(q, a) /\ runs' = [runs EXCEPT ![q] = Imported(q, a)]
  BY <1>1, <1>2, <1>3, <1>4, <1>5, ImportedVerdict DEF NoneFinal
<1>6. CASE UNCHANGED runs
  BY <1>2, <1>3, <1>4, <1>6, RequestsAside
<1> QED
  BY <1>5, <1>6 DEF FinishFailed

LEMMA AsideVerdict ==
  ASSUME IInv, VerdictInv, DecisionsKept, UNCHANGED <<requests, runs, sup>>, NextFit
  PROVE  VerdictInv'
<1>1. NoneFinal
  BY DEF NoneFinal
<1> QED
  BY <1>1, RequestsAside

LEMMA ProbeVerdict ==
  ASSUME IInv, VerdictInv, DecisionsKept, NEW p \in Probers,
         StartProbe(p) \/ EndProbe(p) \/ Restart(p) \/ UNCHANGED vars
  PROVE  VerdictInv'
<1>1. UNCHANGED <<requests, runs, sup>>
  BY DEF StartProbe, EndProbe, Restart, vars
<1>2. NextFit
  <2>1. CASE workers' = Orphaned(p)
    <3>1. workers' = Watched(p, 0, 1) /\ ControlTypeOK
      BY <2>1 DEF Watched, IInv
    <3> QED
      BY <3>1, NoneNew
  <2>2. CASE UNCHANGED workers
    BY <2>2, SameFit
  <2> QED
    BY <2>1, <2>2 DEF StartProbe, EndProbe, Restart, vars
<1> QED
  BY <1>1, <1>2, AsideVerdict

\* A worker that ends is no longer one that runs.
LEMMA ExitFit ==
  ASSUME ControlTypeOK, NEW w \in DOMAIN workers, Exit(w)
  PROVE  /\ NextFit
         /\ DOMAIN workers' = DOMAIN workers
         /\ \A v \in DOMAIN workers : SameJob(workers'[v], workers[v])
         /\ ~workers'[w].alive
         /\ \A v \in DOMAIN workers : v # w => workers'[v] = workers[v]
<1>1. workers[w] \in WorkerRecords
  BY ServedTyped
<1> DEFINE gone == [workers[w] EXCEPT !.alive = FALSE]
<1>2. SameJob(gone, workers[w]) /\ ~gone.alive
  BY <1>1 DEF WorkerRecords, SameJob
<1>3. workers' = [workers EXCEPT ![w] = gone]
  BY DEF Exit
<1> HIDE DEF gone
<1>4. /\ DOMAIN workers' = DOMAIN workers /\ workers'[w] = gone
      /\ \A v \in DOMAIN workers : v # w => workers'[v] = workers[v]
  BY <1>3
<1>5. \A v \in DOMAIN workers : SameJob(workers'[v], workers[v])
  BY <1>2, <1>4 DEF SameJob
<1> QED
  BY <1>2, <1>4, <1>5 DEF NextFit

\* The worker that reports a failure is the only one that ran the session.
LEMMA FailedFit ==
  ASSUME ControlTypeOK, RoundsOrdered, LaunchedOnce, WorkersFit, DecisionsKept,
         NEW w \in DOMAIN workers, NEW stage \in Stages, Fail(w, stage)
  PROVE  WorkersFit'
<1> DEFINE q == workers[w].question
           a == workers[w].request
<1>1. workers[w].kind = "session" /\ Receipt(w, stage) /\ Exit(w)
  BY DEF Fail, Receipt
<1>2. /\ DOMAIN workers' = DOMAIN workers
      /\ \A v \in DOMAIN workers : SameJob(workers'[v], workers[v])
      /\ ~workers'[w].alive
      /\ \A v \in DOMAIN workers : v # w => workers'[v] = workers[v]
  BY <1>1, ExitFit
<1>3. \A x \in Questions : \A b \in DOMAIN requests[x] :
          requests'[x][b].receipt \in Stages =>
              requests[x][b].receipt \in Stages \/ (x = q /\ b = a)
  BY <1>1, ReceiptSteady
<1>4. ASSUME NEW v \in DOMAIN workers
      PROVE  Fit(requests', workers'[v])
  <2>1. /\ workers[v].question \in Questions
        /\ workers[v].request \in DOMAIN requests[workers[v].question]
        /\ Fit(requests, workers[v]) /\ SameJob(workers'[v], workers[v])
    BY <1>2, ServedTyped DEF WorkersFit
  <2>2. Answered(requests[workers[v].question][workers[v].request])
        => Answered(requests'[workers[v].question][workers[v].request])
    BY <2>1 DEF DecisionsKept, Extends, Answered
  <2>3. ASSUME workers'[v].kind = "session", workers'[v].alive
        PROVE  requests'[workers[v].question][workers[v].request].receipt \notin Stages
    <3>1. v # w /\ workers[v].kind = "session" /\ workers[v].alive
      BY <1>2, <2>3
    <3>2. ~(workers[v].question = q /\ workers[v].request = a)
      BY <1>1, <3>1 DEF LaunchedOnce
    <3> QED
      BY <1>3, <2>1, <3>1, <3>2 DEF Fit
  <2> QED
    BY <2>1, <2>2, <2>3 DEF Fit, SameJob
<1>5. \A v \in DOMAIN workers' : Fit(requests', workers'[v])
  BY <1>2, <1>4
<1> QED
  BY <1>5 DEF WorkersFit, Fit, Answered

LEMMA WorkerStepVerdict ==
  ASSUME IInv, VerdictInv, DecisionsKept, NEW w \in DOMAIN workers, WorkerStep(w),
         UNCHANGED <<recoveryVars, supervisorVars>>
  PROVE  VerdictInv'
<1>1. /\ RequestsTyped /\ RoundsOrdered /\ ControlTypeOK /\ LaunchedOnce
      /\ FinalsSettled /\ RunsAccounted /\ WorkersFit
  <2>1. workers[w].question \in Questions
    BY ServedTyped DEF IInv
  <2> QED
    BY <2>1, VerdictTyped
<1>2. NoneFinal /\ UNCHANGED runs
  BY DEF supervisorVars, NoneFinal
<1>3. ASSUME NEW outcome \in Scientific \cup {"PLATFORM"}, Publish(w, outcome)
      PROVE  VerdictInv'
  <2>1. AllSteady /\ ReceiptsKept
    BY <1>1, <1>3, PublishedSteady
  <2>2. NextFit
    BY <1>3, SameFit DEF Publish
  <2> QED
    BY <1>2, <2>1, <2>2, VerdictsKept
<1>4. ASSUME Settle(w)
      PROVE  VerdictInv'
  <2>1. HasScience(Served(w))
    <3>1. Served(w) \in Requests /\ Ordered(Served(w).rounds)
      BY <1>1, ServedTyped, RequestTyped DEF Served, RoundsOrdered
    <3> QED
      BY <1>4, <3>1, StoppedRequest DEF Settle
  <2>2. Receipt(w, "SCIENTIFIC_RESULT") /\ Exit(w)
    BY <1>4 DEF Settle, Receipt
  <2>3. AllSteady /\ ReceiptsKept
    BY <1>1, <2>1, <2>2, ReceiptSteady, SupervisorAssumption DEF ReceiptsKept
  <2>4. NextFit
    BY <1>1, <2>2, ExitFit
  <2> QED
    BY <1>2, <2>3, <2>4, VerdictsKept
<1>5. ASSUME NEW stage \in Stages, Fail(w, stage)
      PROVE  VerdictInv'
  <2>1. AllSteady
    BY <1>1, <1>5, ReceiptSteady DEF Fail
  <2>2. WorkersFit'
    BY <1>1, <1>5, FailedFit
  <2> QED
    BY <1>1, <1>2, <2>1, <2>2, RunsKept
<1>6. ASSUME Vanish(w)
      PROVE  VerdictInv'
  <2>1. NextFit /\ UNCHANGED requests
    BY <1>1, <1>6, ExitFit DEF Vanish
  <2> QED
    BY <1>2, <2>1, RequestsAside
<1> QED
  BY <1>3, <1>4, <1>5, <1>6 DEF WorkerStep

LEMMA NextVerdict == IInv /\ VerdictInv /\ [Next]_vars => VerdictInv'
<1> SUFFICES ASSUME IInv, VerdictInv, [Next]_vars PROVE VerdictInv'
  OBVIOUS
<1>1. DecisionsKept
  BY NextKeeps DEF StepKeeps
<1>2. ASSUME NEW p \in Probers, NEW q \in Questions, Advance(p, q)
      PROVE  VerdictInv'
  BY <1>1, <1>2, LaunchVerdict, RetryContinuationVerdict, FinishVerdict,
     FinishFailedVerdict, LoseWorkerVerdict, AnswerVerdict, AskTeacherVerdict,
     ResumeModelWaitVerdict DEF Advance
<1>3. ASSUME NEW q \in Questions, Resume(q)
      PROVE  VerdictInv'
  BY <1>1, <1>3, ResumeWaitVerdict, TeacherActVerdict, AttributeVerdict DEF Resume
<1>4. ASSUME NEW p \in Probers, StartProbe(p) \/ EndProbe(p) \/ Restart(p)
      PROVE  VerdictInv'
  BY <1>1, <1>4, ProbeVerdict
<1>5. CASE UNCHANGED vars
  <2>1. NextFit
    BY <1>5, SameFit DEF vars
  <2> QED
    BY <1>1, <1>5, <2>1, AsideVerdict DEF vars
<1> QED
  BY <1>1, <1>2, <1>3, <1>4, <1>5, WorkerStepVerdict DEF Next

LEMMA VerdictInvHolds == Spec => []VerdictInv
<1>1. Init => VerdictInv
  <2> SUFFICES ASSUME Init PROVE VerdictInv
    OBVIOUS
  <2>1. FinalsSettled
    BY NoneApart DEF Init, FinalsSettled, Final, Registered
  <2>2. RunsAccounted
    BY DEF Init, RunsAccounted, Accounted
  <2>3. WorkersFit
    BY DEF Init, ControlInit, WorkersFit
  <2> QED
    BY <2>1, <2>2, <2>3 DEF VerdictInv
<1> QED
  BY <1>1, NextVerdict, IInvHolds, PTL DEF Spec

-----------------------------------------------------------------------------
(* Sessions as trials: every decision was one the controller allows.          *)

Legal(rounds) ==
    \A i \in DOMAIN rounds :
        rounds[i].decision # None => rounds[i].decision \in Allowed(i, rounds[i].outcome)

RoundsLegal ==
    \A x \in Questions : \A b \in DOMAIN requests[x] : Legal(requests[x][b].rounds)

LEMMA LegalUnchanged ==
  ASSUME RoundsLegal, UNCHANGED requests
  PROVE  RoundsLegal'
BY DEF RoundsLegal, Legal

LEMMA ReplacedLegal ==
  ASSUME RequestsTyped, RoundsLegal,
         NEW q \in Questions, NEW a \in DOMAIN requests[q], NEW request \in Requests,
         Legal(request.rounds), requests' = Replaced(q, a, request)
  PROVE  RoundsLegal'
<1>1. /\ \A x \in Questions : Len(requests'[x]) = Len(requests[x])
      /\ \A x \in Questions : \A b \in DOMAIN requests[x] :
             requests'[x][b] = IF x = q /\ b = a THEN request ELSE requests[x][b]
      /\ RequestsTyped'
  BY ReplacedTyped
<1>2. \A x \in Questions : DOMAIN requests'[x] = DOMAIN requests[x]
  BY <1>1 DEF RequestsTyped
<1> QED
  BY <1>1, <1>2 DEF RoundsLegal

LEMMA DecidedLegal ==
  ASSUME RequestsTyped, RoundsLegal,
         NEW q \in Questions, NEW a \in DOMAIN requests[q], NEW i, NEW action,
         MayDecide(requests[q][a], i, action),
         requests' = Decided(q, a, i, action)
  PROVE  RoundsLegal'
<1> DEFINE old == requests[q][a].rounds
           rounds == [old EXCEPT ![i] = [old[i] EXCEPT !.decision = action]]
           request == [requests[q][a] EXCEPT !.rounds = rounds]
<1>1. /\ requests[q][a] \in Requests
      /\ old \in Seq(RoundRecords)
      /\ i \in DOMAIN old /\ old[i] \in RoundRecords
      /\ Legal(old)
  BY RequestTyped DEF MayDecide, RoundsLegal
<1>2. action \in Allowed(i, old[i].outcome) /\ action \in Continuing \cup Stopping
  BY <1>1 DEF MayDecide, Allowed, Continuing, Stopping
<1>3. [old[i] EXCEPT !.decision = action] \in RoundRecords
  BY <1>1, <1>2 DEF RoundRecords
<1>4. /\ rounds \in Seq(RoundRecords) /\ DOMAIN rounds = DOMAIN old
      /\ \A j \in DOMAIN old : j # i => rounds[j] = old[j]
      /\ rounds[i] = [old[i] EXCEPT !.decision = action]
  BY <1>1, <1>3
<1>5. rounds[i].outcome = old[i].outcome /\ rounds[i].decision = action
  BY <1>1, <1>4 DEF RoundRecords
<1>6. request \in Requests /\ request.rounds = rounds
  BY <1>1, <1>4 DEF Requests
<1>7. requests' = Replaced(q, a, request)
  BY DEF Decided, Replaced
<1> HIDE DEF rounds, request
<1>8. Legal(rounds)
  BY <1>1, <1>2, <1>4, <1>5 DEF Legal
<1> QED
  BY <1>6, <1>7, <1>8, ReplacedLegal

LEMMA ArchivedLegal ==
  ASSUME RequestsTyped, RoundsLegal, NEW q \in Questions,
         sup[q].attempt \in DOMAIN requests[q], sup[q].round \in Rounds,
         requests' = Archived(q)
  PROVE  RoundsLegal'
<1> DEFINE a == sup[q].attempt
           r == sup[q].round
           old == requests[q][a].rounds
           rounds == SubSeq(old, 1, r - 1)
           request == [requests[q][a] EXCEPT !.rounds = rounds]
<1>1. /\ requests[q][a] \in Requests /\ old \in Seq(RoundRecords)
      /\ Legal(old) /\ r \in Nat /\ r > 0
  BY RequestTyped, SupervisorAssumption DEF RoundsLegal
<1>2. CASE r \notin DOMAIN old
  BY <1>2, LegalUnchanged DEF Archived, Current
<1>3. CASE r \in DOMAIN old
  <2>1. /\ rounds \in Seq(RoundRecords)
        /\ DOMAIN rounds = 1 .. (r - 1)
        /\ \A i \in 1 .. (r - 1) : rounds[i] = old[i]
    BY <1>1, <1>3
  <2>2. request \in Requests /\ request.rounds = rounds
    BY <1>1, <2>1 DEF Requests
  <2>3. requests' = Replaced(q, a, request)
    BY <1>3 DEF Archived, Replaced, Current
  <2>4. \A i \in 1 .. (r - 1) : i \in DOMAIN old
    BY <1>1, <1>3
  <2> HIDE DEF rounds, request
  <2>5. Legal(rounds)
    BY <1>1, <2>1, <2>4 DEF Legal
  <2> QED
    BY <2>2, <2>3, <2>5, ReplacedLegal
<1> QED
  BY <1>2, <1>3

LEMMA IssuedLegal ==
  ASSUME RequestsTyped, RoundsOrdered, RoundsLegal, NEW q \in Questions,
         requests' = [requests EXCEPT ![q] = Append(@, Request)]
  PROVE  RoundsLegal'
<1>1. /\ RequestsTyped' /\ OnlyOf(q)
      /\ Len(requests'[q]) = Len(requests[q]) + 1
      /\ requests'[q][Len(requests[q]) + 1] = Request
      /\ \A b \in DOMAIN requests[q] : requests'[q][b] = requests[q][b]
  BY IssuedStep DEF RequestsStep
<1>2. Legal(Request.rounds)
  BY DEF Legal, Request
<1>3. ASSUME NEW x \in Questions, NEW b \in DOMAIN requests'[x]
      PROVE  Legal(requests'[x][b].rounds)
  <2>1. CASE x # q
    BY <1>1, <2>1 DEF OnlyOf, RoundsLegal
  <2>2. CASE x = q /\ b \in DOMAIN requests[q]
    BY <1>1, <2>2 DEF RoundsLegal
  <2>3. CASE x = q /\ b \notin DOMAIN requests[q]
    <3>1. b = Len(requests[q]) + 1
      BY <1>1, <2>3 DEF RequestsTyped
    <3> QED
      BY <1>1, <1>2, <2>3, <3>1
  <2> QED
    BY <2>1, <2>2, <2>3
<1> QED
  BY <1>3 DEF RoundsLegal

LEMMA WorkerLegal ==
  ASSUME ControlTypeOK, RoundsLegal, NEW w \in DOMAIN workers, WorkerStep(w)
  PROVE  RoundsLegal'
<1> DEFINE q == workers[w].question
           a == workers[w].request
           old == requests[q][a].rounds
<1>1. RequestsTyped /\ q \in Questions /\ a \in DOMAIN requests[q]
  BY ServedTyped DEF ControlTypeOK, RequestsTyped
<1>2. requests[q][a] \in Requests /\ old \in Seq(RoundRecords) /\ Legal(old)
  BY <1>1, RequestTyped DEF RoundsLegal
<1>3. ASSUME NEW outcome \in Scientific \cup {"PLATFORM"}, Publish(w, outcome)
      PROVE  RoundsLegal'
  <2> DEFINE rounds == Append(old, Undecided(outcome))
             request == [requests[q][a] EXCEPT !.rounds = rounds]
  <2>1. Undecided(outcome) \in RoundRecords /\ Undecided(outcome).decision = None
    BY DEF Undecided, RoundRecords
  <2>2. /\ rounds \in Seq(RoundRecords)
        /\ \A i \in DOMAIN rounds :
               (i \in DOMAIN old /\ rounds[i] = old[i]) \/ rounds[i] = Undecided(outcome)
    BY <1>2, <2>1
  <2>3. request \in Requests /\ request.rounds = rounds
    BY <1>2, <2>2 DEF Requests
  <2>4. requests' = Replaced(q, a, request)
    BY <1>3 DEF Publish, Replaced
  <2> HIDE DEF rounds, request
  <2>5. Legal(rounds)
    BY <1>2, <2>1, <2>2 DEF Legal
  <2> QED
    BY <1>1, <2>3, <2>4, <2>5, ReplacedLegal
<1>4. ASSUME NEW value \in Stages \cup {"SCIENTIFIC_RESULT"}, Receipt(w, value)
      PROVE  RoundsLegal'
  <2> DEFINE request == [requests[q][a] EXCEPT !.receipt = value]
  <2>1. request \in Requests /\ request.rounds = old
    BY <1>2 DEF Requests
  <2>2. requests' = Replaced(q, a, request)
    BY <1>4 DEF Receipt, Replaced
  <2> HIDE DEF request
  <2> QED
    BY <1>1, <1>2, <2>1, <2>2, ReplacedLegal
<1>5. CASE Settle(w)
  BY <1>4, <1>5 DEF Settle
<1>6. ASSUME NEW stage \in Stages, Fail(w, stage)
      PROVE  RoundsLegal'
  BY <1>4, <1>6 DEF Fail
<1>7. CASE Vanish(w)
  BY <1>7, LegalUnchanged DEF Vanish
<1> QED
  BY <1>3, <1>5, <1>6, <1>7 DEF WorkerStep

LEMMA AdvanceLegal ==
  ASSUME IInv, RoundsLegal, NEW p \in Probers, NEW q \in Questions, Advance(p, q)
  PROVE  RoundsLegal'
<1>1. /\ RequestsTyped /\ RoundsOrdered /\ SnapshotInv
      /\ sup[q].attempt # 0 => sup[q].attempt \in DOMAIN requests[q]
      /\ sup[q].round \in Rounds
  BY IInvTyped, CurrentTyped DEF IInv
<1>2. ASSUME NEW k \in 1 .. 3, Launch(p, q, k)
      PROVE  RoundsLegal'
  <2>1. CASE (sup[q].attempt + 1) \in DOMAIN requests[q]
    <3>1. UNCHANGED requests
      BY <1>1, <1>2, <2>1 DEF Launch, RequestsTyped
    <3> QED
      BY <3>1, LegalUnchanged
  <2>2. CASE (sup[q].attempt + 1) \notin DOMAIN requests[q]
    <3>1. requests' = [requests EXCEPT ![q] = Append(@, Request)]
      BY <1>2, <2>2 DEF Launch
    <3> QED
      BY <1>1, <3>1, IssuedLegal
  <2> QED
    BY <2>1, <2>2
<1>3. ASSUME NEW k \in 1 .. 3, RetryContinuation(p, q, k)
      PROVE  RoundsLegal'
  <2>1. requests' = Archived(q) /\ sup[q].attempt # 0
    BY <1>3 DEF RetryContinuation, IsContinuation
  <2> QED
    BY <1>1, <2>1, ArchivedLegal
<1>4. ASSUME NEW k \in 1 .. 2, Answer(p, q, k)
      PROVE  RoundsLegal'
  <2>1. sup[q].attempt # 0
    BY <1>1, <1>4 DEF Answer, SnapshotInv, SupTyped, Storable
  <2>2. PICK action :
            /\ MayDecide(requests[q][sup[q].attempt], sup[q].decided + 1, action)
            /\ requests' = Decided(q, sup[q].attempt, sup[q].decided + 1, action)
    BY <1>4 DEF Answer, Current
  <2> QED
    BY <1>1, <2>1, <2>2, DecidedLegal
<1>5. ASSUME UNCHANGED requests
      PROVE  RoundsLegal'
  BY <1>5, LegalUnchanged
<1> QED
  BY <1>2, <1>3, <1>4, <1>5
  DEF Advance, Finish, FinishFailed, LoseWorker, AskTeacher, ResumeModelWait

LEMMA ResumeLegal ==
  ASSUME IInv, RoundsLegal, NEW q \in Questions, Resume(q)
  PROVE  RoundsLegal'
<1>1. ASSUME NEW action, NEW k, TeacherAct(q, action, k)
      PROVE  RoundsLegal'
  <2>1. RequestsTyped /\ sup[q].attempt \in DOMAIN requests[q]
    BY <1>1, IInvTyped, CurrentTyped DEF IInv, TeacherAct
  <2>2. /\ MayDecide(requests[q][sup[q].attempt], sup[q].round, action)
        /\ requests' = Decided(q, sup[q].attempt, sup[q].round, action)
    BY <1>1 DEF TeacherAct, Current
  <2> QED
    BY <2>1, <2>2, DecidedLegal
<1>2. CASE UNCHANGED requests
  BY <1>2, LegalUnchanged
<1> QED
  BY <1>1, <1>2 DEF Resume, ResumeWait, Attribute

LEMMA LegalHolds == Spec => []RoundsLegal
<1>1. Init => RoundsLegal
  BY DEF Init, ControlInit, RoundsLegal
<1>2. IInv /\ RoundsLegal /\ [Next]_vars => RoundsLegal'
  <2> SUFFICES ASSUME IInv, RoundsLegal, [Next]_vars PROVE RoundsLegal'
    OBVIOUS
  <2>1. CASE UNCHANGED requests
    BY <2>1, LegalUnchanged
  <2>2. ASSUME NEW w \in DOMAIN workers, WorkerStep(w)
        PROVE  RoundsLegal'
    BY <2>2, WorkerLegal DEF IInv
  <2> QED
    BY <2>1, <2>2, AdvanceLegal, ResumeLegal
    DEF Next, StartProbe, EndProbe, Restart, vars
<1> QED
  BY <1>1, <1>2, IInvHolds, PTL DEF Spec

\* A session that goes on has only low rounds behind it, at most four.
LEMMA BehindIsLow ==
  ASSUME NEW request \in Requests, Ordered(request.rounds), Legal(request.rounds),
         request.rounds # <<>>
  PROVE  /\ Len(request.rounds) \in 1 .. 5
         /\ DOMAIN request.rounds = 1 .. Len(request.rounds)
         /\ \A i \in 1 .. Len(request.rounds) : request.rounds[i] \in RoundRecords
         /\ \A i \in 1 .. (Len(request.rounds) - 1) : request.rounds[i].outcome = "LOW"
<1> DEFINE rounds == request.rounds
<1>1. rounds \in Seq(RoundRecords)
  BY DEF Requests
<1> HIDE DEF rounds
<1>2. /\ Len(rounds) \in Nat /\ DOMAIN rounds = 1 .. Len(rounds)
      /\ \A i \in 1 .. Len(rounds) : rounds[i] \in RoundRecords
  BY <1>1
<1>3. Len(rounds) > 0
  BY <1>1 DEF rounds
<1>4. Ordered(rounds) /\ Legal(rounds)
  BY DEF rounds
<1>5. ASSUME NEW i \in 1 .. (Len(rounds) - 1)
      PROVE  rounds[i].outcome = "LOW" /\ i <= 4
  <2>1. i \in DOMAIN rounds /\ i < Len(rounds) /\ i \in Nat
    BY <1>2
  <2>2. /\ rounds[i].decision \in Continuing
        /\ rounds[i].decision \in Allowed(i, rounds[i].outcome)
    BY <1>4, <2>1, NoneApart DEF Ordered, Legal
  <2> QED
    BY <2>1, <2>2 DEF Allowed, Continuing
<1>6. Len(rounds) <= 5
  <2> SUFFICES ASSUME Len(rounds) > 5 PROVE FALSE
    BY <1>2
  <2>1. 5 \in 1 .. (Len(rounds) - 1)
    BY <1>2
  <2> QED
    BY <1>5, <2>1
<1>7. Len(rounds) \in 1 .. 5
  <2>1. \A n \in Nat : n > 0 /\ n <= 5 => n \in 1 .. 5
    OBVIOUS
  <2> QED
    BY <1>2, <1>3, <1>6, <2>1
<1>8. \A i \in 1 .. (Len(rounds) - 1) : rounds[i].outcome = "LOW"
  BY <1>5
<1> QED
  BY <1>2, <1>7, <1>8 DEF rounds

\* The last decision, where it is to stop, is the one the rounds call for.
LEMMA StopDeserved ==
  ASSUME NEW request \in Requests, Ordered(request.rounds), Legal(request.rounds),
         Stopped(request)
  PROVE  LET n == Len(request.rounds) IN
         /\ request.rounds[n].outcome \in Scientific
         /\ request.rounds[n].outcome = "HIGH" /\ n <= 3 =>
                request.rounds[n].decision = "STOP_TOO_EASY"
         /\ request.rounds[n].outcome = "HIGH" /\ n > 3 =>
                request.rounds[n].decision = "STOP_PASSED"
         /\ request.rounds[n].outcome = "LOW" =>
                n >= 3 /\ request.rounds[n].decision = "STOP_BLOCKED"
<1> DEFINE n == Len(request.rounds)
<1>1. /\ n \in 1 .. 5 /\ n \in DOMAIN request.rounds
      /\ request.rounds[n] \in RoundRecords
  BY BehindIsLow DEF Stopped
<1>2. /\ request.rounds[n].decision \in Stopping
      /\ request.rounds[n].decision # None
  BY NoneApart DEF Stopped, LastRound
<1> HIDE DEF n
<1>3. /\ request.rounds[n].decision \in Allowed(n, request.rounds[n].outcome)
      /\ request.rounds[n].outcome \in Scientific
  BY <1>1, <1>2 DEF Legal, Ordered
<1>4. LET r == request.rounds[n] IN
      /\ r.outcome = "HIGH" /\ n <= 3 => r.decision = "STOP_TOO_EASY"
      /\ r.outcome = "HIGH" /\ n > 3 => r.decision = "STOP_PASSED"
      /\ r.outcome = "LOW" => n >= 3 /\ r.decision = "STOP_BLOCKED"
  BY <1>1, <1>2, <1>3 DEF Allowed, Stopping
<1> QED
  BY <1>3, <1>4 DEF n

\* The trial of a session that is over.
LEMMA TrialOf ==
  ASSUME NEW request \in Requests, Ordered(request.rounds), Legal(request.rounds),
         request.rounds # <<>>,
         Stopped(request) \/ LastRound(request).outcome = "PLATFORM"
  PROVE  LET trial == Trial(request)
             n == Len(request.rounds)
         IN
         /\ trial \in Run!PersistentTrials
         /\ n \in 1 .. 5 /\ Len(trial) = n
         /\ trial[n] = IF LastRound(request).outcome = "PLATFORM" THEN "FAILED"
                       ELSE LastRound(request).outcome
<1> DEFINE n == Len(request.rounds)
           trial == Trial(request)
<1>1. /\ n \in 1 .. 5 /\ DOMAIN request.rounds = 1 .. n
      /\ \A i \in 1 .. n : request.rounds[i] \in RoundRecords
      /\ \A i \in 1 .. (n - 1) : request.rounds[i].outcome = "LOW"
  BY BehindIsLow
<1>2. trial \in [1 .. n -> {"LOW", "HIGH", "FAILED"}]
  BY <1>1 DEF Trial, Scientific
<1>3. trial \in Seq({"LOW", "HIGH", "FAILED"}) /\ Len(trial) = n
  BY <1>1, <1>2
<1>4. /\ \A i \in 1 .. (n - 1) : trial[i] = "LOW"
      /\ trial[n] = IF LastRound(request).outcome = "PLATFORM" THEN "FAILED"
                    ELSE LastRound(request).outcome
  BY <1>1 DEF Trial, Scientific, LastRound, RoundRecords
<1>5. n < 3 => trial[n] # "LOW"
  <2>1. CASE Stopped(request)
    <3>1. n < 3 => request.rounds[n].outcome # "LOW"
      BY <1>1, <2>1, StopDeserved
    <3> QED
      BY <1>1, <1>4, <3>1 DEF LastRound
  <2>2. CASE LastRound(request).outcome = "PLATFORM"
    BY <1>4, <2>2
  <2> QED
    BY <2>1, <2>2
<1> HIDE DEF n, trial
<1>6. trial \in Run!PersistentTrials
  <2>1. trial \in UNION {[1 .. m -> {"LOW", "HIGH", "FAILED"}] : m \in 1 .. 5}
    BY <1>1, <1>2
  <2> QED
    BY <1>3, <1>4, <1>5, <2>1 DEF Run!PersistentTrials
<1> QED
  BY <1>1, <1>3, <1>4, <1>6 DEF n, trial

\* The workflow settles a stopped session as the supervisor says.
LEMMA StoppedTrial ==
  ASSUME NEW request \in Requests, Ordered(request.rounds), Legal(request.rounds),
         Stopped(request)
  PROVE  /\ Trial(request) \in Run!PersistentTrials
         /\ Run!Terminal(Trial(request)) = LastRound(request).decision
         /\ Run!TrialVerdict(Trial(request))[1] = VerdictOf(request)
<1> DEFINE n == Len(request.rounds)
           trial == Trial(request)
           last == LastRound(request)
<1>1. last.outcome \in {"LOW", "HIGH"}
  BY StopDeserved DEF LastRound, Scientific
<1>2. /\ trial \in Run!PersistentTrials
      /\ n \in 1 .. 5 /\ Len(trial) = n /\ trial[n] = last.outcome
  BY <1>1, TrialOf DEF Stopped
<1>3. /\ last.outcome = "HIGH" /\ n <= 3 => last.decision = "STOP_TOO_EASY"
      /\ last.outcome = "HIGH" /\ n > 3 => last.decision = "STOP_PASSED"
      /\ last.outcome = "LOW" => last.decision = "STOP_BLOCKED"
  BY StopDeserved DEF LastRound
<1> HIDE DEF trial, last, n
<1>4. Run!Terminal(trial) = last.decision
  BY <1>1, <1>2, <1>3 DEF Run!Terminal
<1>5. last.decision \in {"STOP_TOO_EASY", "STOP_PASSED", "STOP_BLOCKED"}
  BY <1>1, <1>2, <1>3
<1>6. Run!TrialVerdict(trial)[1] =
          CASE last.decision = "STOP_TOO_EASY" -> "TOO_EASY"
            [] last.decision = "STOP_PASSED" -> "VALIDATION_PASSED"
            [] OTHER -> "BLOCKED"
  BY <1>4, <1>5 DEF Run!TrialVerdict
<1>7. VerdictOf(request) =
          CASE last.decision = "STOP_TOO_EASY" -> "TOO_EASY"
            [] last.decision = "STOP_PASSED" -> "VALIDATION_PASSED"
            [] OTHER -> "BLOCKED"
  BY DEF VerdictOf, last
<1> QED
  BY <1>2, <1>4, <1>6, <1>7 DEF trial, last

\* A session that a platform failure ended blocks the run when it has science.
LEMMA FailedTrial ==
  ASSUME NEW request \in Requests, Ordered(request.rounds), Legal(request.rounds),
         request.rounds # <<>>, LastRound(request).outcome = "PLATFORM"
  PROVE  /\ Trial(request) \in Run!PersistentTrials
         /\ Run!Terminal(Trial(request)) = "NONE"
         /\ Run!TrialVerdict(Trial(request))[1] =
                IF HasScience(request) THEN "BLOCKED" ELSE "BLIND_VALIDATION"
<1> DEFINE n == Len(request.rounds)
           trial == Trial(request)
<1>1. /\ trial \in Run!PersistentTrials
      /\ n \in 1 .. 5 /\ Len(trial) = n /\ trial[n] = "FAILED"
  BY TrialOf
<1> HIDE DEF trial
<1>2. HasScience(request) <=> n > 1
  <2>1. /\ DOMAIN request.rounds = 1 .. n
        /\ \A i \in 1 .. (n - 1) : request.rounds[i].outcome = "LOW"
        /\ request.rounds[n].outcome = "PLATFORM"
    BY BehindIsLow DEF LastRound
  <2>2. CASE n > 1
    BY <1>1, <2>1, <2>2 DEF HasScience, Scientific
  <2>3. CASE n = 1
    BY <1>1, <2>1, <2>3 DEF HasScience, Scientific
  <2> HIDE DEF n
  <2>4. n > 1 \/ n = 1
    BY <1>1
  <2> QED
    BY <2>2, <2>3, <2>4
<1> HIDE DEF n
<1>3. Run!Terminal(trial) = "NONE"
  BY <1>1 DEF Run!Terminal
<1>4. Run!TrialVerdict(trial)[1] = IF n > 1 THEN "BLOCKED" ELSE "BLIND_VALIDATION"
  BY <1>1, <1>3 DEF Run!TrialVerdict
<1> QED
  BY <1>1, <1>2, <1>3, <1>4 DEF trial

-----------------------------------------------------------------------------
(* The supervisor implements Sessions.                                       *)

\* Sessions settles a session by the workflow's own operators.
LEMMA SameVerdicts ==
  /\ Promise!PersistentTrials = Run!PersistentTrials
  /\ \A trial : /\ Promise!Terminal(trial) = Run!Terminal(trial)
                /\ Promise!TrialVerdict(trial) = Run!TrialVerdict(trial)
<1>1. Promise!PersistentTrials = Run!PersistentTrials
  BY Zenon DEF Promise!PersistentTrials, Run!PersistentTrials
<1>2. \A trial : Promise!Terminal(trial) = Run!Terminal(trial)
  BY Zenon DEF Promise!Terminal, Run!Terminal
<1>3. \A trial : Promise!TrialVerdict(trial) = Run!TrialVerdict(trial)
  BY <1>2, SMT DEF Promise!TrialVerdict, Run!TrialVerdict
<1> QED
  BY <1>1, <1>2, <1>3

LEMMA SessionsTyped ==
  ASSUME RequestsTyped
  PROVE  /\ DOMAIN SessionsOf = Questions
         /\ \A x \in Questions :
                /\ SessionsOf[x] \in Seq(Seq(RoundRecords))
                /\ Len(SessionsOf[x]) = Len(requests[x])
                /\ DOMAIN SessionsOf[x] = DOMAIN requests[x]
                /\ \A b \in DOMAIN requests[x] : SessionsOf[x][b] = requests[x][b].rounds
<1> SUFFICES ASSUME NEW x \in Questions
             PROVE  /\ SessionsOf[x] \in Seq(Seq(RoundRecords))
                    /\ Len(SessionsOf[x]) = Len(requests[x])
                    /\ DOMAIN SessionsOf[x] = DOMAIN requests[x]
                    /\ \A b \in DOMAIN requests[x] : SessionsOf[x][b] = requests[x][b].rounds
  BY DEF SessionsOf
<1>1. requests[x] \in Seq(Requests) /\ DOMAIN requests[x] = 1 .. Len(requests[x])
      /\ Len(requests[x]) \in Nat
  BY DEF RequestsTyped
<1>2. \A b \in DOMAIN requests[x] : requests[x][b].rounds \in Seq(RoundRecords)
  BY RequestTyped
<1>3. SessionsOf[x] = [b \in 1 .. Len(requests[x]) |-> requests[x][b].rounds]
  BY <1>1 DEF SessionsOf
<1> QED
  BY <1>1, <1>2, <1>3

LEMMA SessionsUnchanged ==
  ASSUME UNCHANGED requests
  PROVE  SessionsOf' = SessionsOf
BY DEF SessionsOf

\* A session whose rounds stay leaves the sessions as they are.
LEMMA SameRounds ==
  ASSUME RequestsTyped, NEW q \in Questions, NEW a \in DOMAIN requests[q]
  PROVE  [SessionsOf EXCEPT ![q][a] = requests[q][a].rounds] = SessionsOf
<1>1. /\ SessionsOf[q] \in Seq(Seq(RoundRecords))
      /\ a \in DOMAIN SessionsOf[q] /\ SessionsOf[q][a] = requests[q][a].rounds
  BY SessionsTyped
<1>2. ASSUME NEW f \in Seq(Seq(RoundRecords)), NEW b \in DOMAIN f
      PROVE  [f EXCEPT ![b] = f[b]] = f
  OBVIOUS
<1>3. [SessionsOf[q] EXCEPT ![a] = requests[q][a].rounds] = SessionsOf[q]
  BY <1>1, <1>2, Zenon
<1>4. SessionsOf = [x \in Questions |-> SessionsOf[x]]
  BY DEF SessionsOf
<1> QED
  BY <1>3, <1>4

LEMMA SessionsReplaced ==
  ASSUME RequestsTyped, NEW q \in Questions, NEW a \in DOMAIN requests[q],
         NEW request \in Requests, requests' = Replaced(q, a, request)
  PROVE  SessionsOf' = [SessionsOf EXCEPT ![q][a] = request.rounds]
<1>1. /\ RequestsTyped' /\ \A x \in Questions : Len(requests'[x]) = Len(requests[x])
      /\ \A x \in Questions : \A b \in DOMAIN requests[x] :
             requests'[x][b] = IF x = q /\ b = a THEN request ELSE requests[x][b]
  BY ReplacedTyped
<1>2. \A x \in Questions : DOMAIN requests'[x] = DOMAIN requests[x]
  BY <1>1 DEF RequestsTyped
<1>3. \A x \in Questions : x # q => SessionsOf'[x] = SessionsOf[x]
  BY <1>1, <1>2 DEF SessionsOf
<1>4. SessionsOf'[q] = [SessionsOf[q] EXCEPT ![a] = request.rounds]
  BY <1>1, <1>2 DEF SessionsOf
<1>5. DOMAIN SessionsOf = Questions /\ DOMAIN SessionsOf' = Questions
  BY DEF SessionsOf
<1>6. SessionsOf' = [x \in Questions |-> SessionsOf'[x]]
  BY DEF SessionsOf
<1> QED
  BY <1>3, <1>4, <1>5, <1>6

LEMMA SessionOpened ==
  ASSUME RequestsTyped, RoundsOrdered, NEW q \in Questions,
         requests' = [requests EXCEPT ![q] = Append(@, Request)]
  PROVE  SessionsOf' = [SessionsOf EXCEPT ![q] = Append(@, <<>>)]
<1>1. /\ RequestsTyped' /\ OnlyOf(q)
      /\ Len(requests'[q]) = Len(requests[q]) + 1
      /\ requests'[q][Len(requests[q]) + 1] = Request
      /\ \A b \in DOMAIN requests[q] : requests'[q][b] = requests[q][b]
  BY IssuedStep DEF RequestsStep
<1>2. \A x \in Questions : x # q => SessionsOf'[x] = SessionsOf[x]
  BY <1>1 DEF SessionsOf, OnlyOf
<1>3. SessionsOf'[q] = Append(SessionsOf[q], <<>>)
  <2> DEFINE n == Len(requests[q])
  <2>1. /\ n \in Nat /\ DOMAIN requests[q] = 1 .. n /\ DOMAIN requests'[q] = 1 .. (n + 1)
    BY <1>1 DEF RequestsTyped
  <2>2. /\ SessionsOf[q] \in Seq(Seq(RoundRecords)) /\ Len(SessionsOf[q]) = n
        /\ \A b \in 1 .. n : SessionsOf[q][b] = requests[q][b].rounds
    BY <2>1, SessionsTyped
  <2>3. SessionsOf'[q] = [b \in 1 .. (n + 1) |-> requests'[q][b].rounds]
    BY <2>1 DEF SessionsOf
  <2>4. Request.rounds = <<>>
    BY DEF Request
  <2> HIDE DEF n
  <2>5. \A b \in 1 .. (n + 1) :
            requests'[q][b].rounds = IF b \in 1 .. n THEN SessionsOf[q][b] ELSE <<>>
    BY <1>1, <2>1, <2>2, <2>4 DEF n
  <2>6. Append(SessionsOf[q], <<>>) =
            [b \in 1 .. (n + 1) |-> IF b \in 1 .. n THEN SessionsOf[q][b] ELSE <<>>]
    BY <2>1, <2>2
  <2> QED
    BY <2>3, <2>5, <2>6
<1>5. SessionsOf' = [x \in Questions |-> SessionsOf'[x]] /\ DOMAIN SessionsOf = Questions
  BY DEF SessionsOf
<1> QED
  BY <1>2, <1>3, <1>5

LEMMA SessionRounds ==
  ASSUME NEW request \in Requests
  PROVE  /\ Promise!Progress(request.rounds) = Trial(request)
         /\ Promise!Ended(request.rounds) <=> Stopped(request)
<1>1. /\ request.rounds \in Seq(RoundRecords)
      /\ \A i \in DOMAIN request.rounds : request.rounds[i] \in RoundRecords
  BY DEF Requests
<1>2. Promise!Progress(request.rounds) = Trial(request)
  BY <1>1 DEF Promise!Progress, Trial, RoundRecords, Scientific
<1>3. ASSUME request.rounds # <<>>
      PROVE  LastRound(request).decision \in Continuing \cup Stopping \cup {None}
  <2>1. Len(request.rounds) \in DOMAIN request.rounds
    BY <1>1, <1>3
  <2> QED
    BY <1>1, <2>1 DEF LastRound, RoundRecords
<1>4. Promise!Ended(request.rounds) <=> Stopped(request)
  BY <1>3, NoneApart
  DEF Promise!Ended, Promise!Last, Promise!Continues, Stopped, LastRound, Continuing, Stopping
<1> QED
  BY <1>2, <1>4

\* What the controller lets answer a result is what the rounds call for.
LEMMA DecisionFits ==
  ASSUME NEW request \in Requests, Ordered(request.rounds), Legal(request.rounds),
         request.rounds # <<>>,
         NEW action, action \in Allowed(Len(request.rounds), LastRound(request).outcome),
         NEW next \in Requests, Ordered(next.rounds), Legal(next.rounds),
         next.rounds = [request.rounds EXCEPT ![Len(request.rounds)] =
                            Promise!Round(LastRound(request).outcome, action)]
  PROVE  Promise!Fits(request.rounds, action)
<1> DEFINE n == Len(request.rounds)
<1>1. /\ n \in 1 .. 5 /\ DOMAIN request.rounds = 1 .. n
      /\ \A i \in 1 .. n : request.rounds[i] \in RoundRecords
      /\ \A i \in 1 .. (n - 1) : request.rounds[i].outcome = "LOW"
      /\ request.rounds \in Seq(RoundRecords)
  BY BehindIsLow DEF Requests
<1>2. LastRound(request).outcome \in Scientific /\ action \in Continuing \cup Stopping
  BY DEF Allowed, Scientific, Continuing, Stopping
<1>3. CASE action \in Stopping
  <2>1. /\ next.rounds # <<>> /\ Len(next.rounds) = n /\ DOMAIN next.rounds = 1 .. n
        /\ LastRound(next) = Promise!Round(LastRound(request).outcome, action)
        /\ \A i \in 1 .. (n - 1) : next.rounds[i] = request.rounds[i]
    BY <1>1 DEF LastRound
  <2>2. LastRound(next).decision = action /\ LastRound(next).outcome = LastRound(request).outcome
    BY <2>1 DEF Promise!Round
  <2>3. Stopped(next)
    BY <1>3, <2>1, <2>2 DEF Stopped
  <2>4. \A i \in 1 .. n : next.rounds[i].outcome = request.rounds[i].outcome
    BY <1>1, <2>1, <2>2 DEF LastRound
  <2>5. Trial(next) = Trial(request)
    BY <1>1, <2>1, <2>4 DEF Trial
  <2>6. Trial(next) \in Run!PersistentTrials /\ Run!Terminal(Trial(next)) = action
    BY <2>2, <2>3, StoppedTrial
  <2> QED
    BY <1>2, <2>5, <2>6, SameVerdicts, SessionRounds
    DEF Promise!Fits, Promise!Last, LastRound, Scientific
<1>4. CASE action \in Continuing
  <2> HIDE DEF n
  <2>1. /\ LastRound(request).outcome = "LOW" /\ n < 5
        /\ action = IF n < 3 THEN "CONTINUE_BLIND" ELSE "CONTINUE_HINT"
    <3>1. \A k \in 1 .. 5 : \A o : action \in Allowed(k, o) /\ action \in Continuing =>
              /\ o = "LOW" /\ k < 5
              /\ action = IF k < 3 THEN "CONTINUE_BLIND" ELSE "CONTINUE_HINT"
      BY DEF Allowed, Continuing
    <3>2. action \in Allowed(n, LastRound(request).outcome)
      BY DEF n
    <3> QED
      BY <1>1, <1>4, <3>1, <3>2
  <2>2. \A i \in 1 .. n : request.rounds[i].outcome = "LOW"
    BY <1>1, <2>1 DEF LastRound, n
  <2> QED
    BY <1>1, <2>1, <2>2 DEF Promise!Fits, n
<1> QED
  BY <1>2, <1>3, <1>4

\* The run and the finished questions stay as they are.
SettledSame == VerdictsOf' = VerdictsOf /\ FinishedOf' = FinishedOf

\* A decision that is published, or found published.
LEMMA DecidedImplements ==
  ASSUME RequestsTyped, RoundsOrdered, RoundsLegal,
         NEW q \in Questions, NEW a \in DOMAIN requests[q], NEW i, NEW action,
         MayDecide(requests[q][a], i, action), requests' = Decided(q, a, i, action),
         runs[q].verdict = None, SettledSame
  PROVE  Promise!Next \/ UNCHANGED Promise!vars
<1> DEFINE request == requests[q][a]
           old == request.rounds
           next == [request EXCEPT !.rounds = [old EXCEPT ![i] = [old[i] EXCEPT !.decision = action]]]
<1>1. /\ request \in Requests /\ old \in Seq(RoundRecords)
      /\ i \in DOMAIN old /\ old[i] \in RoundRecords
      /\ action \in Allowed(i, old[i].outcome) /\ old[i].decision \in {None, action}
      /\ Ordered(old) /\ Legal(old)
  BY RequestTyped DEF MayDecide, RoundsOrdered, RoundsLegal
<1>2. action \in Continuing \cup Stopping
  BY <1>1 DEF Allowed, Continuing, Stopping
<1>3. [old[i] EXCEPT !.decision = action] = Promise!Round(old[i].outcome, action)
      /\ Promise!Round(old[i].outcome, action) \in RoundRecords
  BY <1>1, <1>2 DEF RoundRecords, Promise!Round
<1>4. next.rounds = [old EXCEPT ![i] = Promise!Round(old[i].outcome, action)]
      /\ next \in Requests
  <2>1. [old EXCEPT ![i] = [old[i] EXCEPT !.decision = action]] \in Seq(RoundRecords)
    BY <1>1, <1>3
  <2>2. next \in Requests /\ next.rounds = [old EXCEPT ![i] = [old[i] EXCEPT !.decision = action]]
    BY <1>1, <2>1 DEF Requests
  <2> QED
    BY <1>3, <2>2
<1>5. requests' = Replaced(q, a, next)
  BY DEF Decided, Replaced
<1>6. /\ Ordered(next.rounds) /\ Legal(next.rounds)
  <2>1. RequestsStep /\ RoundsLegal'
    BY DecidedStep, DecidedLegal
  <2>2. /\ RequestsTyped /\ \A x \in Questions : Len(requests'[x]) = Len(requests[x])
        /\ requests'[q][a] = next /\ RequestsTyped'
    BY <1>4, <1>5, ReplacedTyped
  <2>3. a \in DOMAIN requests'[q]
    BY <2>2 DEF RequestsTyped
  <2> HIDE DEF next
  <2>4. Ordered(requests'[q][a].rounds)
    BY <2>1, <2>3 DEF RequestsStep, RoundsOrdered
  <2>5. Legal(requests'[q][a].rounds)
    BY <2>1, <2>3 DEF RoundsLegal
  <2> QED
    BY <2>2, <2>4, <2>5
<1> HIDE DEF next
<1>7. SessionsOf' = [SessionsOf EXCEPT ![q][a] = next.rounds]
  BY <1>4, <1>5, SessionsReplaced
<1>8. /\ DOMAIN SessionsOf = Questions /\ SessionsOf[q] \in Seq(Seq(RoundRecords))
      /\ a \in DOMAIN SessionsOf[q] /\ SessionsOf[q][a] = old
  BY SessionsTyped
<1>9. CASE old[i].decision = action
  <2>1. Promise!Round(old[i].outcome, action) = old[i]
    BY <1>1, <1>9 DEF RoundRecords, Promise!Round
  <2>2. next.rounds = old
    BY <1>1, <1>4, <2>1
  <2>3. SessionsOf' = SessionsOf
    BY <1>7, <2>2, SameRounds
  <2> QED
    BY <2>3 DEF Promise!vars, SettledSame
<1>10. CASE old[i].decision = None
  <2>1. i = Len(old) /\ old # <<>>
    BY <1>1, <1>10, NoneApart DEF Ordered
  <2>2. Promise!Fits(old, action)
    BY <1>1, <1>4, <1>6, <2>1, DecisionFits DEF LastRound
  <2>3. VerdictsOf[q] = None
    BY DEF VerdictsOf
  <2>4. Promise!Answer(q, a, action)
    BY <1>4, <1>7, <1>8, <1>10, <2>1, <2>2, <2>3
    DEF Promise!Answer, Promise!Last, SettledSame
  <2>5. Promise!OfSession(q, a)
    BY <1>2, <2>4 DEF Promise!OfSession, Continuing, Stopping
  <2> QED
    BY <1>8, <2>5 DEF Promise!Next
<1> QED
  BY <1>1, <1>9, <1>10

\* A failed round that is archived.
LEMMA ArchivedImplements ==
  ASSUME RequestsTyped, RoundsOrdered, NEW q \in Questions,
         sup[q].attempt \in DOMAIN requests[q], sup[q].round \in Rounds,
         Archivable(q), requests' = Archived(q), SettledSame
  PROVE  Promise!Next \/ UNCHANGED Promise!vars
<1> DEFINE a == sup[q].attempt
           r == sup[q].round
           request == requests[q][a]
           old == request.rounds
           next == [request EXCEPT !.rounds = SubSeq(old, 1, r - 1)]
<1>1. request \in Requests /\ old \in Seq(RoundRecords) /\ Ordered(old)
      /\ r \in Nat /\ r > 0
  BY RequestTyped, SupervisorAssumption DEF RoundsOrdered
<1>2. CASE r \notin DOMAIN old
  <2>1. UNCHANGED requests
    BY <1>2 DEF Archived, Current
  <2> QED
    BY <2>1, SessionsUnchanged DEF Promise!vars, SettledSame
<1>3. CASE r \in DOMAIN old
  <2>1. old[r] \in RoundRecords /\ old[r].outcome = "PLATFORM"
    <3>1. old[r] \in RoundRecords
      BY <1>1, <1>3
    <3>2. old[r].outcome \notin Scientific
      BY <1>3 DEF Archivable, Current
    <3> QED
      BY <3>1, <3>2 DEF RoundRecords
  <2>2. old[r].decision = None
    BY <1>1, <1>3, <2>1 DEF Ordered, Scientific
  <2>3. r = Len(old) /\ old # <<>>
    BY <1>1, <1>3, <2>2, NoneApart DEF Ordered
  <2>4. old[r] = Promise!Round("PLATFORM", None)
    BY <2>1, <2>2 DEF RoundRecords, Promise!Round
  <2>5. SubSeq(old, 1, r - 1) \in Seq(RoundRecords)
    BY <1>1, <1>3
  <2>6. next \in Requests /\ next.rounds = SubSeq(old, 1, r - 1)
    BY <1>1, <2>5 DEF Requests
  <2>7. requests' = Replaced(q, a, next)
    BY <1>3 DEF Archived, Replaced, Current
  <2> HIDE DEF next
  <2>8. SessionsOf' = [SessionsOf EXCEPT ![q][a] = next.rounds]
    BY <2>6, <2>7, SessionsReplaced
  <2>9. a \in DOMAIN SessionsOf[q] /\ SessionsOf[q][a] = old
    BY SessionsTyped
  <2>10. Promise!Withdraw(q, a)
    BY <2>3, <2>4, <2>6, <2>8, <2>9 DEF Promise!Withdraw, Promise!Last, SettledSame
  <2> QED
    BY <2>9, <2>10 DEF Promise!Next, Promise!OfSession
<1> QED
  BY <1>2, <1>3

LEMMA OpenedImplements ==
  ASSUME RequestsTyped, RoundsOrdered, NEW q \in Questions, runs[q].verdict = None,
         requests' = [requests EXCEPT ![q] = Append(@, Request)], SettledSame
  PROVE  Promise!Next
<1>1. SessionsOf' = [SessionsOf EXCEPT ![q] = Append(@, <<>>)]
  BY SessionOpened
<1>2. VerdictsOf[q] = None
  BY DEF VerdictsOf
<1> QED
  BY <1>1, <1>2 DEF Promise!Next, Promise!Open, SettledSame

\* What workers do is to run rounds; their receipts are no part of a session.
LEMMA WorkerImplements ==
  ASSUME ControlTypeOK, NEW w \in DOMAIN workers, WorkerStep(w), SettledSame
  PROVE  Promise!Next \/ UNCHANGED Promise!vars
<1> DEFINE q == workers[w].question
           a == workers[w].request
           old == requests[q][a].rounds
<1>1. RequestsTyped /\ q \in Questions /\ a \in DOMAIN requests[q]
  BY ServedTyped DEF ControlTypeOK, RequestsTyped
<1>2. requests[q][a] \in Requests /\ old \in Seq(RoundRecords)
  BY <1>1, RequestTyped
<1>3. /\ DOMAIN SessionsOf = Questions /\ SessionsOf[q] \in Seq(Seq(RoundRecords))
      /\ a \in DOMAIN SessionsOf[q] /\ SessionsOf[q][a] = old
  BY <1>1, SessionsTyped
<1>4. ASSUME NEW outcome \in Scientific \cup {"PLATFORM"}, Publish(w, outcome)
      PROVE  Promise!Next
  <2> DEFINE rounds == Append(old, Undecided(outcome))
             next == [requests[q][a] EXCEPT !.rounds = rounds]
  <2>1. Undecided(outcome) \in RoundRecords
        /\ Undecided(outcome) = Promise!Round(outcome, None)
    BY DEF Undecided, RoundRecords, Promise!Round
  <2>2. rounds \in Seq(RoundRecords) /\ rounds = Append(old, Promise!Round(outcome, None))
    BY <1>2, <2>1
  <2>3. next \in Requests /\ next.rounds = rounds
    BY <1>2, <2>2 DEF Requests
  <2>4. requests' = Replaced(q, a, next)
    BY <1>4 DEF Publish, Replaced
  <2>5. \A i \in DOMAIN old : old[i].decision \in Continuing
    BY <1>4 DEF Publish, MayRun, Served
  <2> HIDE DEF rounds, next
  <2>6. SessionsOf' = [SessionsOf EXCEPT ![q][a] = rounds]
    BY <1>1, <2>3, <2>4, SessionsReplaced
  <2>7. Promise!Play(q, a, outcome)
    BY <1>3, <2>2, <2>5, <2>6
    DEF Promise!Play, Promise!Continues, Continuing, SettledSame
  <2>8. Promise!OfSession(q, a)
    BY <2>7 DEF Promise!OfSession, Scientific
  <2> QED
    BY <1>1, <1>3, <2>8 DEF Promise!Next
<1>5. ASSUME NEW value \in Stages \cup {"SCIENTIFIC_RESULT"}, Receipt(w, value)
      PROVE  UNCHANGED Promise!vars
  <2> DEFINE next == [requests[q][a] EXCEPT !.receipt = value]
  <2>1. next \in Requests /\ next.rounds = old
    BY <1>2 DEF Requests
  <2>2. requests' = Replaced(q, a, next)
    BY <1>5 DEF Receipt, Replaced
  <2> HIDE DEF next
  <2>3. SessionsOf' = [SessionsOf EXCEPT ![q][a] = old]
    BY <1>1, <2>1, <2>2, SessionsReplaced
  <2>4. [SessionsOf EXCEPT ![q][a] = old] = SessionsOf
    BY <1>1, SameRounds
  <2> HIDE DEF q, a, old
  <2>5. SessionsOf' = SessionsOf
    BY <2>3, <2>4
  <2> QED
    BY <2>5 DEF Promise!vars, SettledSame
<1>6. CASE Vanish(w)
  BY <1>6, SessionsUnchanged DEF Vanish, Promise!vars, SettledSame
<1> QED
  BY <1>4, <1>5, <1>6 DEF WorkerStep, Settle, Fail

\* The import of a session, which repeats without effect.
LEMMA ImportedImplements ==
  ASSUME RequestsTyped, RoundsOrdered, RoundsLegal, RestTyped,
         NEW q \in Questions, NEW a \in DOMAIN requests[q], MayImport(q, a),
         UNCHANGED requests, runs' = [runs EXCEPT ![q] = Imported(q, a)],
         FinishedOf' = FinishedOf
  PROVE  Promise!Next \/ UNCHANGED Promise!vars
<1> DEFINE request == requests[q][a]
<1>1. /\ request \in Requests /\ Ordered(request.rounds) /\ Legal(request.rounds)
      /\ a \in DOMAIN SessionsOf[q] /\ SessionsOf[q][a] = request.rounds
      /\ SessionsOf' = SessionsOf
  BY RequestTyped, SessionsTyped, SessionsUnchanged DEF RoundsOrdered, RoundsLegal
<1>2. VerdictsOf' = [VerdictsOf EXCEPT ![q] = Imported(q, a).verdict]
  BY DEF VerdictsOf, RestTyped
<1>3. CASE Imported(q, a).verdict = runs[q].verdict
  <2>1. VerdictsOf' = VerdictsOf
    BY <1>2, <1>3 DEF VerdictsOf
  <2> QED
    BY <1>1, <2>1 DEF Promise!vars
<1>4. CASE Imported(q, a).verdict # runs[q].verdict
  <2>1. a \notin runs[q].ledger /\ runs[q].verdict = None
    BY <1>4 DEF Imported, MayImport
  <2>2. VerdictsOf[q] = None
    BY <2>1 DEF VerdictsOf
  <2>3. Promise!Settle(q, a)
    <3>1. CASE Stopped(request)
      <4>1. Imported(q, a).verdict = VerdictOf(request)
        BY <2>1, <3>1 DEF Imported
      <4>2. Promise!TrialVerdict(Promise!Progress(request.rounds))[1] = VerdictOf(request)
        BY <1>1, <3>1, SessionRounds, SameVerdicts, StoppedTrial
      <4>3. Promise!Ended(request.rounds)
        BY <1>1, <3>1, SessionRounds
      <4> QED
        BY <1>1, <1>2, <2>2, <4>1, <4>2, <4>3 DEF Promise!Settle
    <3>2. CASE ~Stopped(request)
      <4>1. Imported(q, a).verdict = "MIGRATE" /\ HasScience(request)
        BY <1>4, <2>1, <3>2 DEF Imported
      <4>2. ~Promise!Ended(request.rounds)
        BY <1>1, <3>2, SessionRounds
      <4>3. \E i \in DOMAIN request.rounds : request.rounds[i].outcome # "PLATFORM"
        BY <4>1 DEF HasScience, Scientific
      <4> QED
        BY <1>1, <1>2, <2>2, <4>1, <4>2, <4>3 DEF Promise!Settle
    <3> QED
      BY <3>1, <3>2
  <2> QED
    BY <1>1, <2>3 DEF Promise!Next, Promise!OfSession
<1> QED
  BY <1>3, <1>4

LEMMA AttributedImplements ==
  ASSUME IInv, VerdictInv, RoundsLegal, NEW q \in Questions, Attribute(q)
  PROVE  Promise!Next
<1>1. /\ RequestsTyped /\ RoundsOrdered /\ SupTyped /\ FinalsSettled
      /\ sup[q].phase = "TEACHER_ACTION" /\ Final(sup[q])
  BY VerdictTyped DEF Attribute, AwaitsAttribution, Final
<1>2. PICK a \in runs[q].ledger :
          /\ a \in DOMAIN requests[q] /\ Stopped(requests[q][a])
          /\ runs[q].verdict = VerdictOf(requests[q][a])
  BY <1>1 DEF FinalsSettled, Settled
<1>3. /\ requests[q][a] \in Requests
      /\ Ordered(requests[q][a].rounds) /\ Legal(requests[q][a].rounds)
      /\ a \in DOMAIN SessionsOf[q] /\ SessionsOf[q][a] = requests[q][a].rounds
  BY <1>1, <1>2, RequestTyped, SessionsTyped DEF RoundsOrdered, RoundsLegal
<1>4. /\ Promise!Ended(SessionsOf[q][a])
      /\ VerdictsOf[q] = Promise!TrialVerdict(Promise!Progress(SessionsOf[q][a]))[1]
  BY <1>2, <1>3, SessionRounds, SameVerdicts, StoppedTrial DEF VerdictsOf
<1>5. q \notin FinishedOf /\ FinishedOf' = FinishedOf \cup {q}
  <2> DEFINE s == [[sup[q] EXCEPT !.phase = "FINISHED", !.condition = None] EXCEPT !.noted = FALSE]
  <2>1. sup' = [sup EXCEPT ![q] = s] /\ sup \in [Questions -> Snapshots]
    BY <1>1 DEF Attribute, Write, SupTyped
  <2>2. s.phase = "FINISHED"
    <3>1. sup[q] \in Snapshots
      BY <2>1
    <3> QED
      BY <3>1 DEF Snapshots
  <2> HIDE DEF s
  <2>3. sup'[q] = s /\ \A x \in Questions : x # q => sup'[x] = sup[x]
    BY <2>1
  <2> QED
    BY <1>1, <2>2, <2>3 DEF FinishedOf
<1>6. SessionsOf' = SessionsOf /\ VerdictsOf' = VerdictsOf
  BY SessionsUnchanged DEF Attribute, VerdictsOf
<1>7. Promise!Finish(q)
  BY <1>3, <1>4, <1>5, <1>6 DEF Promise!Finish
<1> QED
  BY <1>7 DEF Promise!Next

LEMMA WrittenUnfinished ==
  ASSUME SupTyped, NEW q \in Questions, NEW s, NEW k, NEW n,
         sup[q].phase # "FINISHED", [s EXCEPT !.noted = FALSE].phase # "FINISHED",
         WriteLast(q, k, n, s)
  PROVE  FinishedOf' = FinishedOf
<1>1. sup' \in {sup, [sup EXCEPT ![q] = [s EXCEPT !.noted = FALSE]]}
  BY DEF WriteLast, Write
<1>2. ASSUME NEW x \in Questions
      PROVE  sup'[x] = sup[x] \/ (x = q /\ sup'[x] = [s EXCEPT !.noted = FALSE])
  <2>1. DOMAIN sup = Questions
    BY DEF SupTyped
  <2> QED
    BY <1>1, <2>1
<1> QED
  BY <1>2 DEF FinishedOf

LEMMA FailureUnfinished ==
  ASSUME SupTyped, NEW q \in Questions, NEW stage, NEW k, RecoverFailure(q, stage, k),
         sup[q].phase = "RUNNING"
  PROVE  FinishedOf' = FinishedOf
<1> DEFINE action == IF Blocked(q) THEN "MIGRATE"
                     ELSE Decide(stage, Count(q, sup[q].round, stage))
           s == Recovered(q, stage, action)
<1>1. sup[q] \in Snapshots
  BY DEF SupTyped
<1>2. WriteLast(q, k, 3, s)
  BY DEF RecoverFailure
<1> HIDE DEF action
<1>3. [s EXCEPT !.noted = FALSE].phase # "FINISHED"
  BY <1>1 DEF Recovered, Snapshots
<1> HIDE DEF s
<1> QED
  BY <1>2, <1>3, WrittenUnfinished

\* No handler of the loop finishes a question.
LEMMA AdvanceUnfinished ==
  ASSUME SupTyped, NEW p \in Probers, NEW q \in Questions, Advance(p, q)
  PROVE  FinishedOf' = FinishedOf
<1>1. sup[q] \in Snapshots
  BY DEF SupTyped
<1>2. ASSUME NEW k, NEW n, NEW s \in Snapshots, WriteLast(q, k, n, s),
             sup[q].phase # "FINISHED", s.phase # "FINISHED"
      PROVE  FinishedOf' = FinishedOf
  <2>1. [s EXCEPT !.noted = FALSE].phase = s.phase
    BY <1>2 DEF Snapshots
  <2> QED
    BY <1>2, <2>1, WrittenUnfinished
<1>3. ASSUME NEW k \in 1 .. 3, Launch(p, q, k)
      PROVE  FinishedOf' = FinishedOf
  <2> DEFINE s == [sup[q] EXCEPT !.phase = "RUNNING", !.attempt = sup[q].attempt + 1,
                                 !.worker = Len(workers) + 1, !.stage = None,
                                 !.condition = None]
  <2>1. [s EXCEPT !.noted = FALSE].phase = "RUNNING"
    BY <1>1 DEF Snapshots
  <2>2. WriteLast(q, k, 3, s) /\ sup[q].phase # "FINISHED"
    BY <1>3 DEF Launch, Due
  <2> HIDE DEF s
  <2> QED
    BY <2>1, <2>2, WrittenUnfinished
<1>4. ASSUME NEW k \in 1 .. 3, RetryContinuation(p, q, k)
      PROVE  FinishedOf' = FinishedOf
  <2> DEFINE s == [sup[q] EXCEPT !.phase = "RUNNING", !.worker = Len(workers) + 1,
                                 !.stage = None, !.condition = None]
  <2>1. [s EXCEPT !.noted = FALSE].phase = "RUNNING"
    BY <1>1 DEF Snapshots
  <2>2. WriteLast(q, k, 3, s) /\ sup[q].phase # "FINISHED"
    BY <1>4 DEF RetryContinuation, Due
  <2> HIDE DEF s
  <2> QED
    BY <2>1, <2>2, WrittenUnfinished
<1>5. ASSUME NEW k \in 1 .. 3, Finish(p, q, k)
      PROVE  FinishedOf' = FinishedOf
  <2> DEFINE s == [sup[q] EXCEPT !.phase = "TEACHER_ACTION", !.worker = None,
                                 !.condition = "ATTRIBUTION"]
  <2>1. [s EXCEPT !.noted = FALSE].phase = "TEACHER_ACTION"
    BY <1>1 DEF Snapshots
  <2>2. WriteLast(q, k, 3, s) /\ sup[q].phase # "FINISHED"
    BY <1>5 DEF Finish, Received
  <2> HIDE DEF s
  <2> QED
    BY <2>1, <2>2, WrittenUnfinished
<1>6. ASSUME NEW k \in 1 .. 3, FinishFailed(p, q, k)
      PROVE  FinishedOf' = FinishedOf
  BY <1>6, FailureUnfinished DEF FinishFailed, Received
<1>7. ASSUME NEW k \in 1 .. 3, LoseWorker(p, q, k)
      PROVE  FinishedOf' = FinishedOf
  <2>1. sup[q].phase = "RUNNING"
    BY <1>7 DEF LoseWorker
  <2>2. RecoverFailure(q, "PLATFORM", k) \/ sup' = [sup EXCEPT ![q].noted = TRUE]
    BY <1>7 DEF LoseWorker
  <2>3. ASSUME sup' = [sup EXCEPT ![q].noted = TRUE]
        PROVE  FinishedOf' = FinishedOf
    <3>1. \A x \in Questions :
              sup'[x] = sup[x] \/ (x = q /\ sup'[x] = [sup[q] EXCEPT !.noted = TRUE])
      BY <2>3 DEF SupTyped
    <3>2. [sup[q] EXCEPT !.noted = TRUE].phase = sup[q].phase
      BY <1>1 DEF Snapshots
    <3>3. \A x \in Questions : sup'[x].phase = sup[x].phase
      BY <3>1, <3>2
    <3> QED
      BY <3>3 DEF FinishedOf
  <2> QED
    BY <2>1, <2>2, <2>3, FailureUnfinished
<1>8. ASSUME NEW k \in 1 .. 2, Answer(p, q, k)
      PROVE  FinishedOf' = FinishedOf
  <2> DEFINE s == [sup[q] EXCEPT !.decided = sup[q].decided + 1,
                                 !.round = sup[q].decided + 1 + 1]
  <2>1. [s EXCEPT !.noted = FALSE].phase = sup[q].phase
    BY <1>1 DEF Snapshots
  <2>2. WriteLast(q, k, 2, s) /\ sup[q].phase = "RUNNING"
    BY <1>8 DEF Answer
  <2> HIDE DEF s
  <2> QED
    BY <2>1, <2>2, WrittenUnfinished
<1>9. CASE AskTeacher(q)
  <2> DEFINE s == [sup[q] EXCEPT !.phase = "TEACHER_ACTION", !.round = sup[q].decided + 1]
  <2>1. [s EXCEPT !.noted = FALSE].phase = "TEACHER_ACTION"
    BY <1>1 DEF Snapshots
  <2>2. WriteLast(q, 1, 1, s) /\ sup[q].phase = "RUNNING"
    BY <1>9 DEF AskTeacher, WriteLast
  <2> HIDE DEF s
  <2> QED
    BY <2>1, <2>2, WrittenUnfinished
<1>10. CASE ResumeModelWait(q)
  <2> DEFINE s == [sup[q] EXCEPT !.phase = "READY", !.condition = None]
  <2>1. [s EXCEPT !.noted = FALSE].phase = "READY"
    BY <1>1 DEF Snapshots
  <2>2. WriteLast(q, 1, 1, s) /\ sup[q].phase = "WAITING_EXTERNAL"
    BY <1>10 DEF ResumeModelWait, WaitsForModel, WriteLast
  <2> HIDE DEF s
  <2> QED
    BY <2>1, <2>2, WrittenUnfinished
<1> QED
  BY <1>3, <1>4, <1>5, <1>6, <1>7, <1>8, <1>9, <1>10 DEF Advance

\* Of the operator's steps only an attribution does.
LEMMA ResumeUnfinished ==
  ASSUME SupTyped, NEW q \in Questions, Resume(q), ~Attribute(q)
  PROVE  FinishedOf' = FinishedOf
<1>1. sup[q] \in Snapshots
  BY DEF SupTyped
<1>2. CASE ResumeWait(q)
  <2> DEFINE s == [sup[q] EXCEPT
                      !.phase = IF IsContinuation(q) THEN "RETRY_SCHEDULED" ELSE "READY",
                      !.condition = None, !.worker = None]
  <2>1. [s EXCEPT !.noted = FALSE].phase # "FINISHED"
    BY <1>1 DEF Snapshots
  <2>2. WriteLast(q, 1, 1, s) /\ sup[q].phase = "WAITING_EXTERNAL"
    BY <1>2 DEF ResumeWait, WriteLast
  <2> HIDE DEF s
  <2> QED
    BY <2>1, <2>2, WrittenUnfinished
<1>3. ASSUME NEW action, NEW k, TeacherAct(q, action, k)
      PROVE  FinishedOf' = FinishedOf
  <2> DEFINE s == [sup[q] EXCEPT
                      !.phase = "RUNNING", !.decided = sup[q].round,
                      !.round = sup[q].round + 1,
                      !.worker = IF action = "CONTINUE_HINT" THEN Len(workers) + 1
                                 ELSE sup[q].worker]
  <2>1. [s EXCEPT !.noted = FALSE].phase = "RUNNING"
    BY <1>1 DEF Snapshots
  <2>2. sup[q].phase = "TEACHER_ACTION" /\ (Write(q, s) \/ UNCHANGED sup)
    BY <1>3 DEF TeacherAct
  <2>3. WriteLast(q, 1, 1, s) \/ WriteLast(q, 0, 1, s)
    BY <2>2 DEF WriteLast
  <2> HIDE DEF s
  <2> QED
    BY <2>1, <2>2, <2>3, WrittenUnfinished
<1> QED
  BY <1>2, <1>3 DEF Resume

\* Nothing that a session consists of changes.
LEMMA Aside ==
  ASSUME UNCHANGED <<requests, runs>>, FinishedOf' = FinishedOf
  PROVE  UNCHANGED Promise!vars
BY SessionsUnchanged DEF VerdictsOf, Promise!vars

LEMMA AdvanceImplements ==
  ASSUME IInv, VerdictInv, RoundsLegal, NEW p \in Probers, NEW q \in Questions,
         Advance(p, q)
  PROVE  Promise!Next \/ UNCHANGED Promise!vars
<1> DEFINE a == sup[q].attempt
<1>1. /\ RequestsTyped /\ RoundsOrdered /\ RestTyped /\ SupTyped
      /\ a # 0 => a \in DOMAIN requests[q]
      /\ sup[q].phase = "RUNNING" => a # 0
      /\ sup[q].round \in Rounds
  BY VerdictTyped, CurrentTyped
<1>2. FinishedOf' = FinishedOf
  BY <1>1, AdvanceUnfinished
<1>3. UNCHANGED runs => SettledSame
  BY <1>2 DEF SettledSame, VerdictsOf
<1>4. ASSUME NEW k \in 1 .. 3, Launch(p, q, k)
      PROVE  Promise!Next \/ UNCHANGED Promise!vars
  <2>1. CASE (a + 1) \in DOMAIN requests[q]
    <3>1. UNCHANGED requests
      BY <1>1, <1>4, <2>1 DEF Launch, RequestsTyped
    <3> QED
      BY <1>2, <1>4, <3>1, Aside DEF Launch
  <2>2. CASE (a + 1) \notin DOMAIN requests[q]
    <3>1. requests' = [requests EXCEPT ![q] = Append(@, Request)]
      BY <1>4, <2>2 DEF Launch
    <3>2. runs[q].verdict = None /\ UNCHANGED runs
      BY <1>4 DEF Launch
    <3> QED
      BY <1>1, <1>3, <3>1, <3>2, OpenedImplements
  <2> QED
    BY <2>1, <2>2
<1>5. ASSUME NEW k \in 1 .. 3, RetryContinuation(p, q, k)
      PROVE  Promise!Next \/ UNCHANGED Promise!vars
  <2>1. requests' = Archived(q) /\ Archivable(q) /\ a # 0 /\ UNCHANGED runs
    BY <1>5 DEF RetryContinuation, IsContinuation
  <2> QED
    BY <1>1, <1>3, <2>1, ArchivedImplements
<1>6. ASSUME NEW k \in 1 .. 3, Finish(p, q, k) \/ FinishFailed(p, q, k)
      PROVE  Promise!Next \/ UNCHANGED Promise!vars
  <2>1. a \in DOMAIN requests[q] /\ UNCHANGED requests
    BY <1>1, <1>6 DEF Finish, FinishFailed, Received
  <2>2. UNCHANGED runs \/ (MayImport(q, a) /\ runs' = [runs EXCEPT ![q] = Imported(q, a)])
    BY <1>6 DEF Finish, FinishFailed
  <2> HIDE DEF a
  <2>3. CASE UNCHANGED runs
    BY <1>2, <2>1, <2>3, Aside
  <2>4. CASE MayImport(q, a) /\ runs' = [runs EXCEPT ![q] = Imported(q, a)]
    BY <1>1, <1>2, <2>1, <2>4, ImportedImplements
  <2> QED
    BY <2>2, <2>3, <2>4
<1>7. ASSUME NEW k \in 1 .. 2, Answer(p, q, k)
      PROVE  Promise!Next \/ UNCHANGED Promise!vars
  <2>1. a \in DOMAIN requests[q] /\ runs[q].verdict = None /\ UNCHANGED runs
    BY <1>1, <1>7 DEF Answer
  <2>2. PICK action : /\ MayDecide(requests[q][a], sup[q].decided + 1, action)
                      /\ requests' = Decided(q, a, sup[q].decided + 1, action)
    BY <1>7 DEF Answer, Current
  <2> HIDE DEF a
  <2> QED
    BY <1>1, <1>3, <2>1, <2>2, DecidedImplements
<1>8. ASSUME UNCHANGED <<requests, runs>>
      PROVE  Promise!Next \/ UNCHANGED Promise!vars
  BY <1>2, <1>8, Aside
<1>9. ASSUME NEW k \in 1 .. 3, LoseWorker(p, q, k)
      PROVE  UNCHANGED <<requests, runs>>
  BY <1>9 DEF LoseWorker
<1>10. AskTeacher(q) \/ ResumeModelWait(q) => UNCHANGED <<requests, runs>>
  BY DEF AskTeacher, ResumeModelWait
<1> QED
  BY <1>4, <1>5, <1>6, <1>7, <1>8, <1>9, <1>10 DEF Advance

LEMMA ResumeImplements ==
  ASSUME IInv, VerdictInv, RoundsLegal, NEW q \in Questions, Resume(q)
  PROVE  Promise!Next \/ UNCHANGED Promise!vars
<1> DEFINE a == sup[q].attempt
<1>1. /\ RequestsTyped /\ RoundsOrdered /\ SupTyped
      /\ a # 0 => a \in DOMAIN requests[q]
  BY VerdictTyped
<1>2. CASE Attribute(q)
  BY <1>2, AttributedImplements
<1>3. CASE ~Attribute(q)
  <2>1. FinishedOf' = FinishedOf
    BY <1>1, <1>3, ResumeUnfinished
  <2>2. UNCHANGED runs
    BY <1>3 DEF Resume, ResumeWait, TeacherAct
  <2>3. SettledSame
    BY <2>1, <2>2 DEF SettledSame, VerdictsOf
  <2>4. CASE ResumeWait(q)
    BY <2>1, <2>4, Aside DEF ResumeWait
  <2>5. ASSUME NEW action, NEW k, TeacherAct(q, action, k)
        PROVE  Promise!Next \/ UNCHANGED Promise!vars
    <3>1. a \in DOMAIN requests[q] /\ runs[q].verdict = None
      BY <1>1, <2>5 DEF TeacherAct
    <3>2. /\ MayDecide(requests[q][a], sup[q].round, action)
          /\ requests' = Decided(q, a, sup[q].round, action)
      BY <2>5 DEF TeacherAct, Current
    <3> HIDE DEF a
    <3> QED
      BY <1>1, <2>3, <3>1, <3>2, DecidedImplements
  <2> QED
    BY <1>3, <2>4, <2>5 DEF Resume
<1> QED
  BY <1>2, <1>3

\* Every step is one of Sessions, or nothing to it.
LEMMA NextImplements ==
  IInv /\ VerdictInv /\ RoundsLegal /\ [Next]_vars => [Promise!Next]_(Promise!vars)
<1> SUFFICES ASSUME IInv, VerdictInv, RoundsLegal, [Next]_vars
             PROVE  Promise!Next \/ UNCHANGED Promise!vars
  OBVIOUS
<1>1. ASSUME UNCHANGED <<requests, runs, sup>>
      PROVE  UNCHANGED Promise!vars
  <2>1. FinishedOf' = FinishedOf
    BY <1>1 DEF FinishedOf
  <2> QED
    BY <1>1, <2>1, Aside
<1>2. ASSUME NEW w \in DOMAIN workers, WorkerStep(w), UNCHANGED supervisorVars
      PROVE  Promise!Next \/ UNCHANGED Promise!vars
  <2>1. SettledSame
    BY <1>2 DEF SettledSame, VerdictsOf, FinishedOf, supervisorVars
  <2> QED
    BY <1>2, <2>1, WorkerImplements DEF IInv
<1>3. ASSUME NEW p \in Probers, StartProbe(p) \/ EndProbe(p) \/ Restart(p)
      PROVE  UNCHANGED <<requests, runs, sup>>
  BY <1>3 DEF StartProbe, EndProbe, Restart
<1>4. CASE UNCHANGED vars
  BY <1>1, <1>4 DEF vars
<1> QED
  BY <1>1, <1>2, <1>3, <1>4, AdvanceImplements, ResumeImplements DEF Next

-----------------------------------------------------------------------------
(* The theorems.                                                             *)

\* Every snapshot stored is a valid one, and everything has its type, whenever a
\* supervisor process dies (SupervisorSnapshot.validate).
THEOREM TypeCorrect == Spec => []TypeOK
<1>1. IInv => TypeOK
  BY IInvTyped
<1> QED
  BY <1>1, IInvHolds, PTL

\* A round is retried by itself at most as often as there are transient delays
\* (RecoveryPolicy.decide), for any number of crashes between the count of a
\* failure and the snapshot that follows from it.
THEOREM RetriesStayBounded == Spec => []RetriesBounded
<1>1. IInv => RetriesBounded
  BY IInvTyped
<1> QED
  BY <1>1, IInvHolds, PTL

\* No two workers run the session of one request from its first round (_launch,
\* CapabilityStore.issue).
THEOREM SessionsLaunchedOnce == Spec => []LaunchedOnce
<1>1. IInv => LaunchedOnce
  BY DEF IInv
<1> QED
  BY <1>1, IInvHolds, PTL

\* No decision that was published is replaced or withdrawn, not even when the
\* failed round after it is archived (_publish_immutable,
\* _archive_platform_round_result).
THEOREM PublishedDecisionsStand == Spec => DecisionsStand
<1>1. IInv /\ [Next]_vars => DecisionsKept
  BY NextKeeps DEF StepKeeps
<1>2. DecisionsKept =>
        \A q \in Questions : \A a \in DOMAIN requests[q] :
            \A i \in DOMAIN requests[q][a].rounds :
                requests[q][a].rounds[i].decision # None =>
                    /\ i \in DOMAIN requests'[q][a].rounds
                    /\ requests'[q][a].rounds[i] = requests[q][a].rounds[i]
  BY DEF DecisionsKept, Extends
<1> QED
  BY <1>1, <1>2, IInvHolds, PTL DEF Spec, DecisionsStand

\* A session that was answered with a hint and left no receipt is continued, never
\* launched anew (_is_persistent_continuation).
THEOREM HintedSessionsContinue == Spec => HintedSessionContinues
<1>1. IInv /\ [Next]_vars => HintedContinues
  BY NextKeeps DEF StepKeeps
<1>2. HintedContinues =>
        \A q \in Questions :
            LET n == Len(requests[q]) IN
            Len(requests'[q]) > n /\ n > 0 =>
                \/ Len(requests[q][n].rounds) < 3
                \/ requests[q][n].rounds[3].decision # "CONTINUE_HINT"
                \/ requests[q][n].receipt # None
  BY DEF HintedContinues
<1> QED
  BY <1>1, <1>2, IInvHolds, PTL DEF Spec, HintedSessionContinues

\* Every session that is over, by a decision to stop or by a platform failure, is a
\* trial of the kind the workflow imports: its rounds are the progression, its last
\* decision is the terminal action they call for (_validate_progression), and the
\* run is settled the way the supervisor expects (record_persistent_
\* validation_session).
SessionsSettled ==
    \A q \in Questions : \A a \in DOMAIN requests[q] :
        LET request == requests[q][a]
            trial == Trial(request)
        IN
        /\ Stopped(request) =>
               /\ trial \in Run!PersistentTrials
               /\ Run!Terminal(trial) = LastRound(request).decision
               /\ Run!TrialVerdict(trial)[1] = VerdictOf(request)
        /\ request.rounds # <<>> /\ LastRound(request).outcome = "PLATFORM" =>
               /\ trial \in Run!PersistentTrials
               /\ Run!Terminal(trial) = "NONE"
               /\ Run!TrialVerdict(trial)[1] =
                      IF HasScience(request) THEN "BLOCKED" ELSE "BLIND_VALIDATION"

\* What Workflow assumes of the trials it imports, their rounds and what they
\* are worth, the controller and the supervisor see to.
THEOREM SessionsAreTrials == Spec => []SessionsSettled
<1>1. ASSUME IInv, RoundsLegal, NEW q \in Questions, NEW a \in DOMAIN requests[q]
      PROVE  /\ requests[q][a] \in Requests
             /\ Ordered(requests[q][a].rounds) /\ Legal(requests[q][a].rounds)
  BY <1>1, IInvTyped, RequestTyped DEF IInv, RoundsOrdered, RoundsLegal
<1>2. IInv /\ RoundsLegal => SessionsSettled
  BY <1>1, StoppedTrial, FailedTrial DEF SessionsSettled
<1> QED
  BY <1>2, IInvHolds, LegalHolds, PTL

\* A question is FINISHED only with the verdict of a session its run has imported
\* and that ended in a decision to stop, whatever failed, died or was started
\* again before (_finish_worker, _apply_terminal_attribution); the rounds of that
\* session deserve the verdict.
THEOREM QuestionsFinishOnScience == Spec => []FinishedOnScience
<1>1. IInv /\ VerdictInv /\ RoundsLegal => FinishedOnScience
  <2> SUFFICES ASSUME IInv, VerdictInv, RoundsLegal, NEW q \in Questions,
                      sup[q].phase = "FINISHED"
               PROVE  \E a \in runs[q].ledger :
                          LET trial == Trial(requests[q][a]) IN
                          /\ Stopped(requests[q][a])
                          /\ trial \in Run!PersistentTrials
                          /\ Run!Terminal(trial) = LastRound(requests[q][a]).decision
                          /\ Run!TrialVerdict(trial)[1] = runs[q].verdict
    BY DEF FinishedOnScience
  <2>1. PICK a \in runs[q].ledger :
            /\ a \in DOMAIN requests[q] /\ Stopped(requests[q][a])
            /\ runs[q].verdict = VerdictOf(requests[q][a])
    BY DEF VerdictInv, FinalsSettled, Final, Settled
  <2>2. /\ requests[q][a] \in Requests
        /\ Ordered(requests[q][a].rounds) /\ Legal(requests[q][a].rounds)
    BY <2>1, IInvTyped, RequestTyped DEF IInv, RoundsOrdered, RoundsLegal
  <2> QED
    BY <2>1, <2>2, StoppedTrial
<1> QED
  BY <1>1, IInvHolds, VerdictInvHolds, LegalHolds, PTL

\* The supervisor, its workers and the Teacher implement Sessions through every
\* crash, lost worker and restart: an answer is given once and as the rounds call
\* for (_publish_automatic_decision, _apply_teacher_action), only a failed round is
\* taken back (_archive_platform_round_result), and a question is finished with the
\* verdict one of its sessions deserves (_finish_worker, _apply_terminal_attribution).
THEOREM SupervisorImplementsSessions == Spec => SessionsSpec
<1>1. Init => Promise!Init
  BY NoneApart
  DEF Init, ControlInit, Registered, Promise!Init, SessionsOf, VerdictsOf, FinishedOf
<1> QED
  BY <1>1, NextImplements, IInvHolds, VerdictInvHolds, LegalHolds, PTL
  DEF Spec, SessionsSpec, Promise!Spec
=============================================================================
