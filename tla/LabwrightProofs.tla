-------------------------- MODULE LabwrightProofs --------------------------
(***************************************************************************)
(* Deltas, workers and imports for any number of requests, workers and     *)
(* fences.  Types hold without an assumption.  The rest needs one          *)
(* requester and one importer, which take no lock: the file that one found *)
(* missing must still be missing when it writes.  Among workers the lock   *)
(* of the request and the fence of its claim are enough.                   *)
(***************************************************************************)
EXTENDS Labwright, TLAPS

Asks == [at : {"write"}, request : Requests, content : Contents]

Applies == [at : {"receipt", "ready"}, request : Requests, content : Contents, checked : Nat]

Imports == [at : {"promote", "register"}, fence : Fences, stage : 1 .. 3]

LEMMA LabTypes ==
    LabTypeOK =>
        /\ asking \in [Requesters -> Asks \cup {Idle}]
        /\ applying \in [Workers -> Applies \cup {Idle}]
        /\ importing \in [Importers -> Imports \cup {Idle}]
BY DEF LabTypeOK, Asks, Applies, Imports

-----------------------------------------------------------------------------
(* Types.                                                                    *)

LEMMA RequestStepType ==
    ASSUME LabTypeOK, RequestStep
    PROVE  LabTypeOK'
<1>1. PICK p \in Requesters :
        \/ \E r \in Requests, content \in Contents : FindNoRequest(p, r, content)
        \/ WriteRequest(p) \/ GiveUpRequest(p)
  BY DEF RequestStep
<1>2. ASSUME NEW r \in Requests, NEW content \in Contents, FindNoRequest(p, r, content)
      PROVE  LabTypeOK'
  <2>1. asking' \in [Requesters ->
           [at : {"write"}, request : Requests, content : Contents] \cup {Idle}]
    BY <1>2 DEF LabTypeOK, FindNoRequest
  <2> QED BY <2>1, <1>2 DEF LabTypeOK, FindNoRequest, imageVars
<1>3. CASE WriteRequest(p)
  <2>1. asking[p].request \in Requests /\ asking[p].content \in Contents
    BY <1>3 DEF LabTypeOK, WriteRequest, Idle
  <2>2. Pending(asking[p].content) \in Requested
    BY <2>1 DEF Pending, Requested
  <2>3. requests' \in [Requests -> Requested \cup {NoFile}]
    BY <2>1, <2>2, <1>3 DEF LabTypeOK, WriteRequest
  <2>4. asking' \in [Requesters ->
           [at : {"write"}, request : Requests, content : Contents] \cup {Idle}]
    BY <1>3 DEF LabTypeOK, WriteRequest
  <2> QED BY <2>3, <2>4, <1>3 DEF LabTypeOK, WriteRequest, imageVars
<1>4. CASE GiveUpRequest(p)
  <2>1. asking' \in [Requesters ->
           [at : {"write"}, request : Requests, content : Contents] \cup {Idle}]
    BY <1>4 DEF LabTypeOK, GiveUpRequest
  <2> QED BY <2>1, <1>4 DEF LabTypeOK, GiveUpRequest, imageVars
<1> QED BY <1>1, <1>2, <1>3, <1>4

\* The job of a worker, when it has one.
LEMMA JobOfWorker ==
    ASSUME LabTypeOK, NEW w \in Workers, applying[w] # Idle
    PROVE  /\ applying[w] \in Applies
           /\ applying[w].request \in Requests /\ applying[w].content \in Contents
           /\ applying[w].checked \in Nat /\ applying[w].at \in {"receipt", "ready"}
BY LabTypes DEF Applies

LEMMA WorkerStepType ==
    ASSUME LabTypeOK, WorkerStep
    PROVE  LabTypeOK'
<1>1. PICK w \in Workers :
        \/ \E r \in Requests : Claim(w, r) \/ CheckEvidence(w, r) \/ WriteEvidence(w, r)
        \/ WriteReceipt(w) \/ WriteReady(w) \/ WorkerDies(w)
  BY DEF WorkerStep
<1>2. ASSUME NEW r \in Requests, Claim(w, r)
      PROVE  LabTypeOK'
  <2>1. requests[r] \in Requested
    BY <1>2 DEF LabTypeOK, Claim
  <2>2. requests'[r] \in Requested
    BY <2>1, <1>2 DEF LabTypeOK, Claim, Requested
  <2>3. requests' \in [Requests -> Requested \cup {NoFile}]
    BY <2>2, <1>2 DEF LabTypeOK, Claim
  <2> QED BY <2>3, <1>2 DEF LabTypeOK, Claim, imageVars
<1>3. ASSUME NEW r \in Requests, CheckEvidence(w, r)
      PROVE  LabTypeOK'
  <2>1. requests[r].content \in Contents /\ evidence[r][w] \in Nat
    BY <1>3 DEF LabTypeOK, CheckEvidence, MayComplete, Requested
  <2>2. applying' \in [Workers ->
           [at : {"receipt", "ready"}, request : Requests, content : Contents,
            checked : Nat] \cup {Idle}]
    BY <2>1, <1>3 DEF LabTypeOK, CheckEvidence
  <2> QED BY <2>2, <1>3 DEF LabTypeOK, CheckEvidence, imageVars
<1>4. ASSUME NEW r \in Requests, WriteEvidence(w, r)
      PROVE  LabTypeOK'
  <2>1. evidence' \in [Requests -> [Workers -> Nat]]
    BY <1>4 DEF LabTypeOK, WriteEvidence
  <2> QED BY <2>1, <1>4 DEF LabTypeOK, WriteEvidence, imageVars
<1>5. CASE WriteReceipt(w)
  <2>1. applying[w] # Idle
    BY <1>5 DEF WriteReceipt, Idle
  <2> DEFINE r == applying[w].request
             receipt == [content |-> applying[w].content, fence |-> w,
                         checked |-> applying[w].checked, digest |-> evidence[r][w]]
  <2>2. r \in Requests /\ evidence[r][w] \in Nat
    BY <2>1, JobOfWorker DEF LabTypeOK
  <2>3. receipt \in Receipts
    BY <2>1, <2>2, JobOfWorker DEF Receipts
  <2>4. receipts' = [receipts EXCEPT ![r] = receipt]
    BY <1>5 DEF WriteReceipt
  <2> HIDE DEF receipt
  <2>5. receipts' \in [Requests -> Receipts \cup {NoFile}]
    BY <2>2, <2>3, <2>4 DEF LabTypeOK
  <2>6. [applying[w] EXCEPT !.at = "ready"] \in Applies
    BY <2>1, JobOfWorker DEF Applies
  <2>7. applying' \in [Workers -> Applies \cup {Idle}]
    BY <2>6, <1>5, LabTypes DEF WriteReceipt
  <2> QED BY <2>5, <2>7, <1>5 DEF LabTypeOK, WriteReceipt, imageVars, Applies
<1>6. CASE WriteReady(w)
  <2>1. applying[w] # Idle
    BY <1>6 DEF WriteReady, Idle
  <2>2. [content |-> applying[w].content, status |-> "READY", fence |-> w] \in Requested
    BY <2>1, JobOfWorker DEF Requested
  <2>3. requests' \in [Requests -> Requested \cup {NoFile}]
    BY <2>1, <2>2, <1>6, JobOfWorker DEF LabTypeOK, WriteReady
  <2>4. applying' \in [Workers -> Applies \cup {Idle}]
    BY <1>6, LabTypes DEF WriteReady
  <2> QED BY <2>3, <2>4, <1>6 DEF LabTypeOK, WriteReady, imageVars, Applies
<1>7. CASE WorkerDies(w)
  <2>1. applying' \in [Workers -> Applies \cup {Idle}]
    BY <1>7, LabTypes DEF WorkerDies
  <2> QED BY <2>1, <1>7 DEF LabTypeOK, WorkerDies, imageVars, Applies
<1> QED BY <1>1, <1>2, <1>3, <1>4, <1>5, <1>6, <1>7

LEMMA SealPlanType ==
    ASSUME LabTypeOK, CreateSealPlan
    PROVE  LabTypeOK'
<1>1. \A r \in needed : receipts[r] \in Receipts
  BY DEF LabTypeOK, CreateSealPlan, Resolved
<1>2. plan' \in [needed -> Receipts]
  BY <1>1 DEF CreateSealPlan
<1> QED BY <1>2 DEF LabTypeOK, CreateSealPlan, imageVars

\* The job of an importer, when it has one.
LEMMA JobOfImporter ==
    ASSUME LabTypeOK, NEW i \in Importers, importing[i] # Idle
    PROVE  /\ importing[i] \in Imports
           /\ importing[i].fence \in Fences /\ importing[i].stage \in 1 .. 3
           /\ importing[i].at \in {"promote", "register"}
BY LabTypes DEF Imports

LEMMA StageOfPromotion ==
    ASSUME NEW stage \in 1 .. 3
    PROVE  /\ Stages[stage] \in {"CANDIDATE", "VERIFYING", "STABLE"}
           /\ stage = 3 => Stages[stage] = "STABLE"
           /\ stage # 3 => stage + 1 \in 1 .. 3
<1>1. stage = 1 \/ stage = 2 \/ stage = 3
  OBVIOUS
<1>2. Stages[1] = "CANDIDATE" /\ Stages[2] = "VERIFYING" /\ Stages[3] = "STABLE"
  BY DEF Stages
<1> QED BY <1>1, <1>2

LEMMA ImportStepType ==
    ASSUME LabTypeOK, ImportStep
    PROVE  LabTypeOK'
<1>1. PICK i \in Importers :
        \/ \E fence \in Fences : BeginImport(i, fence)
        \/ Promote(i) \/ RegisterEnvironment(i) \/ ImporterDies(i)
  BY DEF ImportStep
<1>2. ASSUME NEW fence \in Fences, BeginImport(i, fence)
      PROVE  LabTypeOK'
  <2>1. /\ [at |-> "promote", fence |-> fence, stage |-> 1] \in Imports
        /\ [at |-> "register", fence |-> fence, stage |-> 3] \in Imports
    BY DEF Imports
  <2>2. importing' \in [Importers -> Imports \cup {Idle}]
    BY <2>1, <1>2, LabTypes DEF BeginImport
  <2> QED BY <2>2, <1>2 DEF LabTypeOK, BeginImport, deltaVars, Imports
<1>3. CASE Promote(i)
  <2>1. importing[i] # Idle
    BY <1>3 DEF Promote, Idle
  <2>2. lifecycle' \in Lifecycles
    <3>1. /\ Stages[importing[i].stage] \in {"CANDIDATE", "VERIFYING", "STABLE"}
          /\ importing[i].fence \in Fences
      BY <2>1, JobOfImporter, StageOfPromotion
    <3> QED BY <3>1, <1>3 DEF Promote, Lifecycles
  <2>3. /\ [importing[i] EXCEPT !.at = "register"] \in Imports
        /\ importing[i].stage # 3 => [importing[i] EXCEPT !.stage = @ + 1] \in Imports
    BY <2>1, JobOfImporter, StageOfPromotion DEF Imports
  <2>4. importing' \in [Importers -> Imports \cup {Idle}]
    BY <2>3, <1>3, LabTypes DEF Promote
  <2> QED BY <2>2, <2>4, <1>3 DEF LabTypeOK, Promote, deltaVars, Imports
<1>4. CASE RegisterEnvironment(i)
  <2>1. importing' \in [Importers -> Imports \cup {Idle}]
    BY <1>4, LabTypes DEF RegisterEnvironment
  <2> QED BY <2>1, <1>4 DEF LabTypeOK, RegisterEnvironment, deltaVars, Imports
<1>5. CASE ImporterDies(i)
  <2>1. importing' \in [Importers -> Imports \cup {Idle}]
    BY <1>5, LabTypes DEF ImporterDies
  <2> QED BY <2>1, <1>5 DEF LabTypeOK, ImporterDies, deltaVars, Imports
<1> QED BY <1>1, <1>2, <1>3, <1>4, <1>5

\* Every file and every process in its type, whatever runs at the same time.
THEOREM LabTypeCorrect == LabSpec => []LabTypeOK
<1>1. LabInit => LabTypeOK
  <2> SUFFICES ASSUME LabInit PROVE LabTypeOK
    OBVIOUS
  <2>1. /\ requests \in [Requests -> Requested \cup {NoFile}]
        /\ receipts \in [Requests -> Receipts \cup {NoFile}]
        /\ evidence \in [Requests -> [Workers -> Nat]]
        /\ needed \subseteq Requests
    BY DEF LabInit
  <2>2. /\ asking \in [Requesters -> Asks \cup {Idle}]
        /\ applying \in [Workers -> Applies \cup {Idle}]
        /\ importing \in [Importers -> Imports \cup {Idle}]
    BY DEF LabInit
  <2> QED BY <2>1, <2>2 DEF LabInit, LabTypeOK, Asks, Applies, Imports
<1>2. LabTypeOK /\ [LabNext]_labVars => LabTypeOK'
  <2>1. LabTypeOK /\ UNCHANGED labVars => LabTypeOK'
    BY DEF LabTypeOK, labVars, deltaVars, imageVars
  <2> QED BY <2>1, RequestStepType, WorkerStepType, SealPlanType, ImportStepType DEF LabNext
<1> QED BY <1>1, <1>2, PTL DEF LabSpec

-----------------------------------------------------------------------------
(* Deltas.                                                                   *)

\* What is on disk of a delta answers to (content, fence).
Answers(r, receipt) ==
    /\ requests[r] # NoFile /\ requests[r].status \in {"APPLYING", "READY"}
    /\ requests[r].content = receipt.content /\ requests[r].fence = receipt.fence

\* A requester that found no file still finds none; a worker in a completion holds the
\* claim it read; receipts answer to their claims, and what is ready has one.
DeltaInv ==
    /\ \A p \in Requesters : asking[p] # Idle => requests[asking[p].request] = NoFile
    /\ \A w \in Workers : applying[w] # Idle =>
           LET r == applying[w].request IN
           /\ requests[r] # NoFile /\ requests[r].status = "APPLYING"
           /\ requests[r].fence = w /\ requests[r].content = applying[w].content
           /\ applying[w].at = "ready" =>
                  /\ receipts[r] # NoFile
                  /\ receipts[r].content = applying[w].content /\ receipts[r].fence = w
    /\ \A r \in Requests : receipts[r] # NoFile => Answers(r, receipts[r])
    /\ plan # NoFile => \A r \in needed : Answers(r, plan[r])
    /\ \A r \in Requests :
           requests[r] # NoFile /\ requests[r].status = "READY" => receipts[r] # NoFile

OneRequester == \A p, q \in Requesters : p = q

LEMMA DeltaInvInit == LabInit => DeltaInv
BY DEF LabInit, DeltaInv, Idle

\* A file that was missing is a new request, which nobody claimed or answered.
LEMMA RequestKeeps ==
    ASSUME LabTypeOK, DeltaInv, OneRequester, RequestStep
    PROVE  DeltaInv'
<1>1. PICK p \in Requesters :
        \/ \E r \in Requests, content \in Contents : FindNoRequest(p, r, content)
        \/ WriteRequest(p) \/ GiveUpRequest(p)
  BY DEF RequestStep
<1>2. ASSUME NEW r \in Requests, NEW content \in Contents, FindNoRequest(p, r, content)
      PROVE  DeltaInv'
  <2>1. \A q \in Requesters : asking'[q] # Idle => asking'[q].request = r
    BY <1>2 DEF OneRequester, FindNoRequest, LabTypeOK
  <2> QED BY <2>1, <1>2 DEF DeltaInv, Answers, FindNoRequest
<1>3. CASE WriteRequest(p)
  <2> DEFINE r == asking[p].request
  <2>1. asking[p] # Idle
    BY <1>3 DEF WriteRequest, Idle
  <2>2. r \in Requests /\ requests[r] = NoFile
    BY <2>1, LabTypes DEF Asks, DeltaInv
  <2>3. requests' \in [Requests -> Requested \cup {NoFile}]
    BY RequestStepType DEF LabTypeOK
  <2>4. \A s \in Requests : s # r => requests'[s] = requests[s]
    BY <1>3 DEF WriteRequest, LabTypeOK
  <2>5. requests'[r].status = "PENDING"
    BY <2>2, <1>3 DEF WriteRequest, LabTypeOK, Pending
  <2>6. \A q \in Requesters : asking'[q] = Idle
    BY <1>3 DEF OneRequester, WriteRequest, LabTypeOK
  <2>7. \A w \in Workers : applying[w] # Idle =>
            applying[w].request # r /\ applying[w].request \in Requests
    BY <2>2, JobOfWorker DEF DeltaInv
  <2>8. receipts[r] = NoFile /\ (plan # NoFile => r \notin needed)
    BY <2>2 DEF DeltaInv, Answers
  <2>9. UNCHANGED <<receipts, plan, needed, applying>>
    BY <1>3 DEF WriteRequest
  <2> HIDE DEF r
  <2>10. \A w \in Workers : applying[w] # Idle =>
            requests'[applying[w].request] = requests[applying[w].request]
    BY <2>4, <2>7
  <2>11. \A s \in Requests : receipts[s] # NoFile => s # r /\ requests'[s] = requests[s]
    BY <2>4, <2>8
  <2>12. plan # NoFile => \A s \in needed : requests'[s] = requests[s]
    BY <2>4, <2>8 DEF LabTypeOK
  <2>13. \A s \in Requests : requests'[s].status = "READY" => requests'[s] = requests[s]
    BY <2>4, <2>5
  <2> QED BY <2>6, <2>9, <2>10, <2>11, <2>12, <2>13 DEF DeltaInv, Answers
<1>4. CASE GiveUpRequest(p)
  <2>1. \A q \in Requesters : asking'[q] \in {asking[q], Idle}
    BY <1>4 DEF GiveUpRequest, LabTypeOK
  <2> QED BY <2>1, <1>4 DEF DeltaInv, Answers, GiveUpRequest
<1> QED BY <1>1, <1>2, <1>3, <1>4

\* A pending request is nobody's.
LEMMA ClaimKeeps ==
    ASSUME LabTypeOK, DeltaInv, NEW w \in Workers, NEW r \in Requests, Claim(w, r)
    PROVE  DeltaInv'
<1>1. requests[r] \in Requested
  BY DEF LabTypeOK, Claim
<1>2. \A s \in Requests : s # r => requests'[s] = requests[s]
  BY DEF Claim, LabTypeOK
<1>3. requests'[r] = [requests[r] EXCEPT !.status = "APPLYING", !.fence = w]
  BY DEF Claim, LabTypeOK
<1>4. requests'[r] \in Requested /\ requests'[r].status = "APPLYING"
  BY <1>1, <1>3 DEF Requested
<1>5. \A v \in Workers : applying[v] # Idle =>
          applying[v].request # r /\ applying[v].request \in Requests
  BY JobOfWorker DEF DeltaInv, Claim
<1>6. receipts[r] = NoFile /\ (plan # NoFile => r \notin needed)
  BY DEF DeltaInv, Answers, Claim
<1>7. \A p \in Requesters : asking[p] # Idle =>
          asking[p].request # r /\ asking[p].request \in Requests
  BY LabTypes DEF DeltaInv, Claim, Asks
<1>8. UNCHANGED <<receipts, plan, needed, applying, asking>>
  BY DEF Claim
<1>9. \A v \in Workers : applying[v] # Idle =>
          requests'[applying[v].request] = requests[applying[v].request]
  BY <1>2, <1>5
<1>10. \A s \in Requests : receipts[s] # NoFile => requests'[s] = requests[s]
  BY <1>2, <1>6
<1>11. plan # NoFile => \A s \in needed : requests'[s] = requests[s]
  BY <1>2, <1>6 DEF LabTypeOK
<1>12. \A s \in Requests : requests'[s].status = "READY" => requests'[s] = requests[s]
  BY <1>2, <1>4
<1>13. \A p \in Requesters : asking[p] # Idle =>
          requests'[asking[p].request] = requests[asking[p].request]
  BY <1>2, <1>7
<1> QED BY <1>8, <1>9, <1>10, <1>11, <1>12, <1>13 DEF DeltaInv, Answers

\* The receipt answers to the claim its worker holds.
LEMMA WriteReceiptKeeps ==
    ASSUME LabTypeOK, DeltaInv, NEW w \in Workers, WriteReceipt(w)
    PROVE  DeltaInv'
<1> DEFINE r == applying[w].request
<1>1. applying[w] # Idle
  BY DEF WriteReceipt, Idle
<1>2. applying[w] \in Applies /\ r \in Requests
  BY <1>1, JobOfWorker
<1>3. /\ requests[r] # NoFile /\ requests[r].status = "APPLYING"
      /\ requests[r].fence = w /\ requests[r].content = applying[w].content
  BY <1>1 DEF DeltaInv
<1>4. receipts' \in [Requests -> Receipts \cup {NoFile}]
  BY WorkerStepType DEF WorkerStep, LabTypeOK
<1>5. /\ receipts'[r] # NoFile
      /\ receipts'[r].content = applying[w].content /\ receipts'[r].fence = w
  <2> DEFINE receipt == [content |-> applying[w].content, fence |-> w,
                         checked |-> applying[w].checked, digest |-> evidence[r][w]]
  <2>1. receipts'[r] = receipt
    BY <1>2 DEF WriteReceipt, LabTypeOK
  <2>2. receipt \in Receipts
    BY <1>1, <1>2, JobOfWorker DEF Receipts, LabTypeOK
  <2>3. receipt # NoFile
    BY <2>2, LabwrightAssumption
  <2> QED BY <2>1, <2>3
<1>6. \A s \in Requests : s # r => receipts'[s] = receipts[s]
  BY DEF WriteReceipt, LabTypeOK
<1>7. /\ applying'[w] = [applying[w] EXCEPT !.at = "ready"]
      /\ \A v \in Workers : v # w => applying'[v] = applying[v]
  BY DEF WriteReceipt, LabTypeOK
<1>8. applying'[w].request = r /\ applying'[w].content = applying[w].content
  BY <1>2, <1>7 DEF Applies
<1>9. \A v \in Workers : v # w /\ applying[v] # Idle =>
          applying[v].request # r /\ applying[v].request \in Requests
  BY <1>3, JobOfWorker DEF DeltaInv
<1>10. UNCHANGED <<requests, plan, needed, asking>>
  BY DEF WriteReceipt
<1> HIDE DEF r
<1>11. \A v \in Workers : applying'[v] # Idle =>
          LET s == applying'[v].request IN
          /\ requests[s] # NoFile /\ requests[s].status = "APPLYING"
          /\ requests[s].fence = v /\ requests[s].content = applying'[v].content
          /\ applying'[v].at = "ready" =>
                 /\ receipts'[s] # NoFile
                 /\ receipts'[s].content = applying'[v].content /\ receipts'[s].fence = v
  <2> TAKE v \in Workers
  <2>1. CASE v = w
    BY <2>1, <1>3, <1>5, <1>8
  <2>2. CASE v # w
    <3>1. applying'[v] = applying[v]
      BY <2>2, <1>7
    <3>2. applying[v] # Idle => receipts'[applying[v].request] = receipts[applying[v].request]
      BY <2>2, <1>6, <1>9
    <3> QED BY <3>1, <3>2 DEF DeltaInv
  <2> QED BY <2>1, <2>2
<1>12. \A s \in Requests : receipts'[s] # NoFile =>
          /\ requests[s] # NoFile /\ requests[s].status \in {"APPLYING", "READY"}
          /\ requests[s].content = receipts'[s].content
          /\ requests[s].fence = receipts'[s].fence
  BY <1>3, <1>5, <1>6 DEF DeltaInv, Answers
<1>13. \A s \in Requests :
          requests[s] # NoFile /\ requests[s].status = "READY" => receipts'[s] # NoFile
  BY <1>5, <1>6 DEF DeltaInv
<1>14. /\ \A p \in Requesters : asking[p] # Idle => requests[asking[p].request] = NoFile
       /\ plan # NoFile => \A s \in needed : Answers(s, plan[s])
  BY DEF DeltaInv
<1> QED BY <1>10, <1>11, <1>12, <1>13, <1>14 DEF DeltaInv, Answers

\* The request is ready as it was claimed.
LEMMA WriteReadyKeeps ==
    ASSUME LabTypeOK, DeltaInv, NEW w \in Workers, WriteReady(w)
    PROVE  DeltaInv'
<1> DEFINE r == applying[w].request
<1>1. applying[w] # Idle
  BY DEF WriteReady, Idle
<1>2. r \in Requests
  BY <1>1, JobOfWorker
<1>3. /\ requests[r] # NoFile /\ requests[r].status = "APPLYING"
      /\ requests[r].fence = w /\ requests[r].content = applying[w].content
      /\ receipts[r] # NoFile
  BY <1>1 DEF DeltaInv, WriteReady
<1>4. requests' \in [Requests -> Requested \cup {NoFile}]
  BY WorkerStepType DEF WorkerStep, LabTypeOK
<1>5. requests'[r] = [content |-> applying[w].content, status |-> "READY", fence |-> w]
  BY <1>2 DEF WriteReady, LabTypeOK
<1>6. requests'[r] # NoFile
  <2>1. requests'[r] \in Requested
    BY <1>1, <1>5, JobOfWorker DEF Requested
  <2> QED BY <2>1, LabwrightAssumption
<1>7. /\ requests'[r].status = "READY" /\ requests'[r].content = requests[r].content
      /\ requests'[r].fence = requests[r].fence
  BY <1>3, <1>5
<1>8. \A s \in Requests : s # r => requests'[s] = requests[s]
  BY DEF WriteReady, LabTypeOK
<1>9. applying'[w] = Idle /\ \A v \in Workers : v # w => applying'[v] = applying[v]
  BY DEF WriteReady, LabTypeOK
<1>10. \A v \in Workers : v # w /\ applying[v] # Idle =>
          applying[v].request # r /\ applying[v].request \in Requests
  BY <1>3, JobOfWorker DEF DeltaInv
<1>11. \A p \in Requesters : asking[p] # Idle =>
          asking[p].request # r /\ asking[p].request \in Requests
  BY <1>3, LabTypes DEF DeltaInv, Asks
<1>12. UNCHANGED <<receipts, plan, needed, asking>>
  BY DEF WriteReady
<1> HIDE DEF r
<1>13. \A v \in Workers : applying'[v] # Idle =>
          /\ v # w /\ applying'[v] = applying[v]
          /\ requests'[applying[v].request] = requests[applying[v].request]
  BY <1>8, <1>9, <1>10
<1>14. \A s \in Requests : receipts[s] # NoFile => Answers(s, receipts[s])'
  BY <1>3, <1>6, <1>7, <1>8, <1>12 DEF DeltaInv, Answers
<1>15. plan # NoFile => \A s \in needed : Answers(s, plan[s])'
  BY <1>3, <1>6, <1>7, <1>8, <1>12 DEF DeltaInv, Answers, LabTypeOK
<1> QED BY <1>3, <1>8, <1>11, <1>12, <1>13, <1>14, <1>15 DEF DeltaInv

LEMMA WorkerKeeps ==
    ASSUME LabTypeOK, DeltaInv, WorkerStep
    PROVE  DeltaInv'
<1>1. PICK w \in Workers :
        \/ \E r \in Requests : Claim(w, r) \/ CheckEvidence(w, r) \/ WriteEvidence(w, r)
        \/ WriteReceipt(w) \/ WriteReady(w) \/ WorkerDies(w)
  BY DEF WorkerStep
<1>2. ASSUME NEW r \in Requests, CheckEvidence(w, r)
      PROVE  DeltaInv'
  <2>1. /\ applying'[w] = [at |-> "receipt", request |-> r, content |-> requests[r].content,
                           checked |-> evidence[r][w]]
        /\ \A v \in Workers : v # w => applying'[v] = applying[v]
    BY <1>2 DEF CheckEvidence, LabTypeOK
  <2> QED BY <2>1, <1>2 DEF CheckEvidence, MayComplete, DeltaInv, Answers
<1>3. ASSUME NEW r \in Requests, WriteEvidence(w, r)
      PROVE  DeltaInv'
  BY <1>3 DEF WriteEvidence, DeltaInv, Answers
<1>4. CASE WorkerDies(w)
  <2>1. \A v \in Workers : applying'[v] \in {applying[v], Idle}
    BY <1>4 DEF WorkerDies, LabTypeOK
  <2> QED BY <2>1, <1>4 DEF WorkerDies, DeltaInv, Answers
<1> QED BY <1>1, <1>2, <1>3, <1>4, ClaimKeeps, WriteReceiptKeeps, WriteReadyKeeps

LEMMA DeltaInvStep ==
    ASSUME LabTypeOK, DeltaInv, OneRequester, [LabNext]_labVars
    PROVE  DeltaInv'
<1>1. CASE CreateSealPlan
  <2>1. \A r \in needed : plan'[r] = receipts[r] /\ r \in Requests /\ receipts[r] # NoFile
    BY <1>1 DEF CreateSealPlan, Resolved, LabTypeOK
  <2> QED BY <2>1, <1>1 DEF CreateSealPlan, DeltaInv, Answers
<1>2. CASE UNCHANGED deltaVars
  BY <1>2 DEF DeltaInv, Answers, deltaVars
<1>3. ImportStep => UNCHANGED deltaVars
  BY DEF ImportStep, BeginImport, Promote, RegisterEnvironment, ImporterDies
<1>4. UNCHANGED labVars => UNCHANGED deltaVars
  BY DEF labVars
<1> QED BY <1>1, <1>2, <1>3, <1>4, RequestKeeps, WorkerKeeps DEF LabNext

LEMMA DeltasStand ==
    ASSUME OneRequester
    PROVE  LabSpec => []DeltaInv
<1>1. LabTypeOK /\ DeltaInv /\ [LabNext]_labVars => DeltaInv'
  BY DeltaInvStep
<1> QED BY <1>1, DeltaInvInit, LabTypeCorrect, PTL DEF LabSpec

\* With one requester, every receipt on disk or in a seal plan is its claimant's answer
\* to what was asked, for any number of workers that die anywhere.
THEOREM ReceiptsAnswerClaims ==
    ASSUME OneRequester
    PROVE  LabSpec => []ReceiptOfItsClaim
<1>1. LabTypeOK /\ DeltaInv => ReceiptOfItsClaim
  BY DEF DeltaInv, Answers, ReceiptOfItsClaim
<1> QED BY <1>1, DeltasStand, LabTypeCorrect, PTL

\* And a delta that is ready has its receipt and is never touched again.
THEOREM ReadyStands ==
    ASSUME OneRequester
    PROVE  LabSpec => ReadyIsFinal
<1> DEFINE Ready(r) == requests[r] # NoFile /\ requests[r].status = "READY"
           Final == \A r \in Requests : Ready(r) =>
                        /\ requests'[r] = requests[r]
                        /\ receipts[r] # NoFile
                        /\ receipts'[r] = receipts[r]
<1>1. LabTypeOK /\ DeltaInv /\ [LabNext]_labVars => [Final]_labVars
  <2> SUFFICES ASSUME LabTypeOK, DeltaInv, LabNext, NEW r \in Requests, Ready(r)
               PROVE  requests'[r] = requests[r] /\ receipts'[r] = receipts[r]
    BY DEF DeltaInv
  <2>1. CASE RequestStep
    <3>1. PICK p \in Requesters :
            \/ \E s \in Requests, content \in Contents : FindNoRequest(p, s, content)
            \/ WriteRequest(p) \/ GiveUpRequest(p)
      BY <2>1 DEF RequestStep
    <3>2. CASE WriteRequest(p)
      <4>1. asking[p] # Idle
        BY <3>2 DEF WriteRequest, Idle
      <4>2. asking[p].request # r
        BY <4>1 DEF DeltaInv
      <4> QED BY <4>2, <3>2 DEF WriteRequest, LabTypeOK
    <3> QED BY <3>1, <3>2 DEF FindNoRequest, GiveUpRequest
  <2>2. CASE WorkerStep
    <3>1. PICK w \in Workers :
            \/ \E s \in Requests : Claim(w, s) \/ CheckEvidence(w, s) \/ WriteEvidence(w, s)
            \/ WriteReceipt(w) \/ WriteReady(w) \/ WorkerDies(w)
      BY <2>2 DEF WorkerStep
    <3>2. applying[w] # Idle => applying[w].request # r
      BY DEF DeltaInv
    <3>3. ASSUME NEW s \in Requests, Claim(w, s)
          PROVE  requests'[r] = requests[r] /\ receipts'[r] = receipts[r]
      BY <3>3 DEF Claim, LabTypeOK
    <3>4. CASE WriteReceipt(w)
      <4>1. applying[w].request # r
        BY <3>2, <3>4 DEF WriteReceipt, Idle
      <4> QED BY <4>1, <3>4 DEF WriteReceipt, LabTypeOK
    <3>5. CASE WriteReady(w)
      <4>1. applying[w].request # r
        BY <3>2, <3>5 DEF WriteReady, Idle
      <4> QED BY <4>1, <3>5 DEF WriteReady, LabTypeOK
    <3> QED BY <3>1, <3>3, <3>4, <3>5 DEF CheckEvidence, WriteEvidence, WorkerDies
  <2>3. CASE CreateSealPlan \/ ImportStep
    BY <2>3 DEF CreateSealPlan, ImportStep, BeginImport, Promote, RegisterEnvironment,
                ImporterDies, deltaVars
  <2> QED BY <2>1, <2>2, <2>3 DEF LabNext
<1>2. LabSpec => [][Final]_labVars
  BY <1>1, DeltasStand, LabTypeCorrect, PTL DEF LabSpec
<1> QED BY <1>2 DEF ReadyIsFinal

-----------------------------------------------------------------------------
(* Imports.                                                                  *)

OneImporter == \A i, j \in Importers : i = j

\* Nothing is registered while it is promoted; what is about to be registered, and what
\* is, went to the end.
ImportInv ==
    /\ \A i \in Importers : importing[i].at = "promote" => ~registered
    /\ \A i \in Importers : importing[i].at = "register" =>
           lifecycle # NoFile /\ lifecycle.state = "STABLE"
    /\ RegisteredIsStable

\* With one importer, only an environment promoted to the end is registered, wherever
\* it dies and whoever imports again.
THEOREM RegisteredStaysStable ==
    ASSUME OneImporter
    PROVE  LabSpec => []RegisteredIsStable
<1>1. LabInit => ImportInv
  BY DEF LabInit, ImportInv, RegisteredIsStable, Idle
<1>2. LabTypeOK /\ ImportInv /\ [LabNext]_labVars => ImportInv'
  <2> SUFFICES ASSUME LabTypeOK, ImportInv, [LabNext]_labVars
               PROVE  ImportInv'
    OBVIOUS
  <2>1. CASE UNCHANGED imageVars
    BY <2>1 DEF ImportInv, RegisteredIsStable, imageVars
  <2>2. CASE ImportStep
    <3>1. PICK i \in Importers :
            \/ \E fence \in Fences : BeginImport(i, fence)
            \/ Promote(i) \/ RegisterEnvironment(i) \/ ImporterDies(i)
      BY <2>2 DEF ImportStep
    <3>2. \A j \in Importers : j = i
      BY DEF OneImporter
    <3>3. ASSUME NEW fence \in Fences, BeginImport(i, fence)
          PROVE  ImportInv'
      <4>1. CASE lifecycle = NoFile
        <5>1. ~registered
          BY <4>1 DEF ImportInv, RegisteredIsStable
        <5>2. importing'[i].at = "promote" \/ IsPromoted(fence)
          BY <3>3 DEF BeginImport, LabTypeOK
        <5>3. Stable(fence) # NoFile
          <6>1. Stable(fence) \in Lifecycles
            BY DEF Stable, Lifecycles
          <6> QED BY <6>1, LabwrightAssumption
        <5>4. ~IsPromoted(fence)
          BY <4>1, <5>3 DEF IsPromoted
        <5> QED BY <5>1, <5>2, <5>4, <3>2, <3>3
                DEF BeginImport, ImportInv, RegisteredIsStable
      <4>2. CASE lifecycle # NoFile
        <5>1. IsPromoted(fence) /\ importing'[i].at = "register"
          BY <4>2, <3>3 DEF BeginImport, LabTypeOK
        <5>2. lifecycle.state = "STABLE"
          BY <5>1 DEF IsPromoted, Stable
        <5> QED BY <4>2, <5>1, <5>2, <3>2, <3>3
                DEF BeginImport, ImportInv, RegisteredIsStable
      <4> QED BY <4>1, <4>2
    <3>4. CASE Promote(i)
      <4>1. importing[i] # Idle
        BY <3>4 DEF Promote, Idle
      <4>2. importing[i] \in Imports /\ importing[i].at = "promote" /\ ~registered
        BY <4>1, <3>4, JobOfImporter DEF Promote, ImportInv
      <4>3. lifecycle' \in Lifecycles
        <5>1. /\ Stages[importing[i].stage] \in {"CANDIDATE", "VERIFYING", "STABLE"}
              /\ importing[i].fence \in Fences
          BY <4>1, JobOfImporter, StageOfPromotion
        <5> QED BY <5>1, <3>4 DEF Promote, Lifecycles
      <4>4. lifecycle' # NoFile
        BY <4>3, LabwrightAssumption
      <4>5. importing[i].stage = 3 => lifecycle'.state = "STABLE"
        BY <4>1, <3>4, JobOfImporter, StageOfPromotion DEF Promote
      <4>6. importing[i].stage # 3 => importing'[i].at = "promote"
        BY <4>2, <3>4 DEF Promote, Imports, LabTypeOK
      <4>7. importing[i].stage = 3 => importing'[i].at = "register"
        BY <4>2, <3>4 DEF Promote, Imports, LabTypeOK
      <4>8. ~registered'
        BY <4>2, <3>4 DEF Promote
      <4> QED BY <4>4, <4>5, <4>6, <4>7, <4>8, <3>2 DEF ImportInv, RegisteredIsStable
    <3>5. CASE RegisterEnvironment(i)
      <4>1. importing'[i] = Idle
        BY <3>5 DEF RegisterEnvironment, LabTypeOK
      <4> QED BY <4>1, <3>2, <3>5
              DEF RegisterEnvironment, ImportInv, RegisteredIsStable, Idle
    <3>6. CASE ImporterDies(i)
      <4>1. importing'[i] = Idle
        BY <3>6 DEF ImporterDies, LabTypeOK
      <4> QED BY <4>1, <3>2, <3>6 DEF ImporterDies, ImportInv, RegisteredIsStable, Idle
    <3> QED BY <3>1, <3>3, <3>4, <3>5, <3>6
  <2>3. RequestStep \/ WorkerStep \/ CreateSealPlan => UNCHANGED imageVars
    BY DEF RequestStep, FindNoRequest, WriteRequest, GiveUpRequest, WorkerStep, Claim,
           CheckEvidence, WriteEvidence, WriteReceipt, WriteReady, WorkerDies, CreateSealPlan
  <2>4. UNCHANGED labVars => UNCHANGED imageVars
    BY DEF labVars
  <2> QED BY <2>1, <2>2, <2>3, <2>4 DEF LabNext
<1>3. ImportInv => RegisteredIsStable
  BY DEF ImportInv
<1> QED BY <1>1, <1>2, <1>3, LabTypeCorrect, PTL DEF LabSpec
=============================================================================
