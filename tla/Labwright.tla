------------------------------ MODULE Labwright ------------------------------
(***************************************************************************)
(* How a runtime lacking something is extended while a Researcher works:   *)
(* its delta request (FileLabwrightRegistry.request_delta), the claim and  *)
(* the completion of it by Labwright workers, the seal plan made of the    *)
(* receipts (FileLabwrightRuntimeService), and the import of the sealed    *)
(* image as a Stable environment (import_stable).                          *)
(*                                                                         *)
(* claim() and complete() hold the lock of the request; request_delta()    *)
(* and import_stable() hold none, so each of their file accesses is an     *)
(* action.  Files are written atomically, one after the other, and a       *)
(* process may die between two.  Evidence files belong to their workers    *)
(* and are abstracted to a version: what is checked when they are read, a  *)
(* digest when they are bound.                                             *)
(***************************************************************************)
EXTENDS Naturals

CONSTANTS
    Requests,
    Contents,       \* what a request may ask for
    Requesters,     \* processes that call request_delta()
    Workers,        \* Labwright workers, each with a fence of its own
    Importers,      \* processes that call import_stable()
    Fences,         \* fences of promotions
    MaxEvidence,    \* bound: versions of an evidence file
    NoFile

Requested ==
    [content : Contents, status : {"PENDING", "APPLYING", "READY"},
     fence : Workers \cup {NoFile}]
Receipts == [content : Contents, fence : Workers, checked : Nat, digest : Nat]
Lifecycles == [state : {"CANDIDATE", "VERIFYING", "STABLE"}, fence : Fences]

ASSUME LabwrightAssumption == NoFile \notin Requested \cup Receipts \cup Lifecycles

VARIABLES
    requests,       \* request -> its file
    receipts,       \* request -> its receipt
    evidence,       \* request -> worker -> version of the evidence files
    needed,         \* the deltas the scientific trace lists
    plan,           \* the image seal plan: delta -> receipt
    asking,         \* requester -> what it found to write
    applying,       \* worker -> the completion it is in, with the request's lock
    lifecycle,      \* the environment's lifecycle file
    registered,     \* the environment is in the Stable registry
    importing       \* importer -> what it is doing

deltaVars == <<requests, receipts, evidence, needed, plan, asking, applying>>
imageVars == <<lifecycle, registered, importing>>
labVars == <<deltaVars, imageVars>>

Idle == [at |-> "idle"]

-----------------------------------------------------------------------------
(* A request.                                                                *)

Pending(content) == [content |-> content, status |-> "PENDING", fence |-> NoFile]

\* The file is not there.  If it is, only the same pending request is accepted,
\* and nothing is written.
FindNoRequest(p, r, content) ==
    /\ asking[p] = Idle
    /\ requests[r] = NoFile
    /\ asking' = [asking EXCEPT ![p] = [at |-> "write", request |-> r, content |-> content]]
    /\ UNCHANGED <<requests, receipts, evidence, needed, plan, applying, imageVars>>

WriteRequest(p) ==
    /\ asking[p].at = "write"
    /\ requests' = [requests EXCEPT ![asking[p].request] = Pending(asking[p].content)]
    /\ asking' = [asking EXCEPT ![p] = Idle]
    /\ UNCHANGED <<receipts, evidence, needed, plan, applying, imageVars>>

GiveUpRequest(p) ==
    /\ asking[p] # Idle
    /\ asking' = [asking EXCEPT ![p] = Idle]
    /\ UNCHANGED <<requests, receipts, evidence, needed, plan, applying, imageVars>>

-----------------------------------------------------------------------------
(* A worker.                                                                 *)

Unlocked(r) == \A w \in Workers : applying[w] # Idle => applying[w].request # r

\* The same worker with the same fence is given its claim again, unchanged.
Claim(w, r) ==
    /\ Unlocked(r) /\ applying[w] = Idle
    /\ requests[r] # NoFile /\ requests[r].status = "PENDING"
    /\ requests' = [requests EXCEPT ![r].status = "APPLYING", ![r].fence = w]
    /\ UNCHANGED <<receipts, evidence, needed, plan, asking, applying, imageVars>>

\* A mutant for TLC: any worker completes what is being applied.
MayCompleteAny(w, r) == requests[r] # NoFile /\ requests[r].status = "APPLYING"

MayComplete(w, r) ==
    /\ requests[r] # NoFile
    /\ requests[r].status = "APPLYING" /\ requests[r].fence = w

\* complete() takes the lock, reads the request and checks the evidence.
CheckEvidence(w, r) ==
    /\ Unlocked(r) /\ applying[w] = Idle
    /\ MayComplete(w, r)
    /\ evidence[r][w] > 0
    /\ applying' = [applying EXCEPT ![w] =
           [at |-> "receipt", request |-> r, content |-> requests[r].content,
            checked |-> evidence[r][w]]]
    /\ UNCHANGED <<requests, receipts, evidence, needed, plan, asking, imageVars>>

\* A mutant for TLC: the request is ready before its receipt is written.
WriteReadyFirst(w) ==
    /\ applying[w].at = "receipt"
    /\ requests' = [requests EXCEPT ![applying[w].request].status = "READY"]
    /\ UNCHANGED <<receipts, evidence, needed, plan, asking, applying, imageVars>>

\* The digests are taken now.
WriteReceipt(w) ==
    LET r == applying[w].request IN
    /\ applying[w].at = "receipt"
    /\ receipts' = [receipts EXCEPT ![r] =
           [content |-> applying[w].content, fence |-> w,
            checked |-> applying[w].checked, digest |-> evidence[r][w]]]
    /\ applying' = [applying EXCEPT ![w].at = "ready"]
    /\ UNCHANGED <<requests, evidence, needed, plan, asking, imageVars>>

WriteReady(w) ==
    LET r == applying[w].request IN
    /\ applying[w].at = "ready"
    /\ requests' = [requests EXCEPT ![r] =
           [content |-> applying[w].content, status |-> "READY", fence |-> w]]
    /\ applying' = [applying EXCEPT ![w] = Idle]
    /\ UNCHANGED <<receipts, evidence, needed, plan, asking, imageVars>>

\* The worker dies, and the lock with it.
WorkerDies(w) ==
    /\ applying[w] # Idle
    /\ applying' = [applying EXCEPT ![w] = Idle]
    /\ UNCHANGED <<requests, receipts, evidence, needed, plan, asking, imageVars>>

\* Outside: a worker writes its evidence, perhaps again.
WriteEvidence(w, r) ==
    /\ evidence[r][w] < MaxEvidence
    /\ evidence' = [evidence EXCEPT ![r][w] = @ + 1]
    /\ UNCHANGED <<requests, receipts, needed, plan, asking, applying, imageVars>>

\* resolve(): the receipt is there and the files are those it binds.
Resolved(r) ==
    /\ receipts[r] # NoFile
    /\ receipts[r].digest = evidence[r][receipts[r].fence]

\* Exactly the deltas of the trace, all resolved.
CreateSealPlan ==
    /\ \A r \in needed : Resolved(r)
    /\ plan' = [r \in needed |-> receipts[r]]
    /\ UNCHANGED <<requests, receipts, evidence, needed, asking, applying, imageVars>>

-----------------------------------------------------------------------------
(* The import.                                                               *)

Stages == <<"CANDIDATE", "VERIFYING", "STABLE">>

Stable(fence) == [state |-> "STABLE", fence |-> fence]

\* A mutant for TLC: a promotion by the same fence is taken as it is found.
IsPromotedByFence(fence) == lifecycle # NoFile /\ lifecycle.fence = fence

IsPromoted(fence) == lifecycle = Stable(fence)

\* The image was built and verified outside.  Another fence, and a promotion that
\* stopped half way, are conflicts.
BeginImport(i, fence) ==
    /\ importing[i] = Idle
    /\ \/ /\ lifecycle = NoFile
          /\ importing' = [importing EXCEPT ![i] =
                 [at |-> "promote", fence |-> fence, stage |-> 1]]
       \/ /\ IsPromoted(fence)
          /\ importing' = [importing EXCEPT ![i] =
                 [at |-> "register", fence |-> fence, stage |-> 3]]
    /\ UNCHANGED <<deltaVars, lifecycle, registered>>

Promote(i) ==
    LET job == importing[i] IN
    /\ job.at = "promote"
    /\ lifecycle' = [state |-> Stages[job.stage], fence |-> job.fence]
    /\ importing' = [importing EXCEPT ![i] =
           IF job.stage = 3 THEN [job EXCEPT !.at = "register"]
                            ELSE [job EXCEPT !.stage = @ + 1]]
    /\ UNCHANGED <<deltaVars, registered>>

\* A registered environment is compared, not written again.
RegisterEnvironment(i) ==
    /\ importing[i].at = "register"
    /\ registered' = TRUE
    /\ importing' = [importing EXCEPT ![i] = Idle]
    /\ UNCHANGED <<deltaVars, lifecycle>>

ImporterDies(i) ==
    /\ importing[i] # Idle
    /\ importing' = [importing EXCEPT ![i] = Idle]
    /\ UNCHANGED <<deltaVars, lifecycle, registered>>

-----------------------------------------------------------------------------
LabInit ==
    /\ requests = [r \in Requests |-> NoFile]
    /\ receipts = [r \in Requests |-> NoFile]
    /\ evidence = [r \in Requests |-> [w \in Workers |-> 0]]
    /\ needed \in SUBSET Requests
    /\ plan = NoFile
    /\ asking = [p \in Requesters |-> Idle]
    /\ applying = [w \in Workers |-> Idle]
    /\ lifecycle = NoFile
    /\ registered = FALSE
    /\ importing = [i \in Importers |-> Idle]

RequestStep ==
    \E p \in Requesters :
        \/ \E r \in Requests, content \in Contents : FindNoRequest(p, r, content)
        \/ WriteRequest(p) \/ GiveUpRequest(p)

WorkerStep ==
    \E w \in Workers :
        \/ \E r \in Requests : Claim(w, r) \/ CheckEvidence(w, r) \/ WriteEvidence(w, r)
        \/ WriteReceipt(w) \/ WriteReady(w) \/ WorkerDies(w)

ImportStep ==
    \E i \in Importers :
        \/ \E fence \in Fences : BeginImport(i, fence)
        \/ Promote(i) \/ RegisterEnvironment(i) \/ ImporterDies(i)

LabNext == RequestStep \/ WorkerStep \/ CreateSealPlan \/ ImportStep

LabSpec == LabInit /\ [][LabNext]_labVars

-----------------------------------------------------------------------------
\* Every file and every process in its type.
LabTypeOK ==
    /\ requests \in [Requests -> Requested \cup {NoFile}]
    /\ receipts \in [Requests -> Receipts \cup {NoFile}]
    /\ evidence \in [Requests -> [Workers -> Nat]]
    /\ needed \subseteq Requests
    /\ plan \in [needed -> Receipts] \cup {NoFile}
    /\ asking \in [Requesters ->
           [at : {"write"}, request : Requests, content : Contents] \cup {Idle}]
    /\ applying \in [Workers ->
           [at : {"receipt", "ready"}, request : Requests, content : Contents,
            checked : Nat] \cup {Idle}]
    /\ lifecycle \in Lifecycles \cup {NoFile}
    /\ registered \in BOOLEAN
    /\ importing \in [Importers ->
           [at : {"promote", "register"}, fence : Fences, stage : 1 .. 3] \cup {Idle}]

\* A receipt, on disk or in a seal plan, is the one of the request as it was asked
\* and of the one worker it was claimed by: no other worker answers a claimed delta
\* and no later call asks it anew, whoever dies in between
\* (labwright_runtime.py:211, 264-267; labwright.py:330-334).
ReceiptOfItsClaim ==
    \A r \in Requests :
        \A receipt \in {receipts[r]} \cup (IF plan # NoFile /\ r \in needed
                                           THEN {plan[r]} ELSE {}) :
            receipt # NoFile =>
                /\ requests[r] # NoFile
                /\ requests[r].content = receipt.content
                /\ requests[r].fence = receipt.fence

\* A delta that is ready has its receipt, and is never claimed or answered again.
ReadyIsFinal ==
    [][\A r \in Requests :
         requests[r] # NoFile /\ requests[r].status = "READY" =>
             /\ requests'[r] = requests[r]
             /\ receipts[r] # NoFile
             /\ receipts'[r] = receipts[r]]_labVars

\* An environment that can be resolved was promoted to the end: a process that dies
\* half way, and a retry of it, never leave a registered environment of which the
\* lifecycle is not STABLE (labwright.py:200, 295).
RegisteredIsStable ==
    registered => lifecycle # NoFile /\ lifecycle.state = "STABLE"

\* Not kept by the code: a promotion that was interrupted can be completed by its own
\* fence, as "幂等" says (labwright.py:252).
PromotionIdempotent ==
    (\A i \in Importers : importing[i] = Idle) =>
        lifecycle = NoFile \/ lifecycle.state = "STABLE"

\* Not kept by the code: what is bound by a receipt is what was checked.
CheckedIsBound ==
    \A r \in Requests : receipts[r] # NoFile => receipts[r].checked = receipts[r].digest

\* Not kept by the code: the receipts of a seal plan stand.  A worker that died before
\* READY answers again, with another receipt.
PlannedReceiptsStand ==
    plan # NoFile => \A r \in needed : plan[r] = receipts[r]
=============================================================================
