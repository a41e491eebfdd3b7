----------------------------- MODULE HarnessPut -----------------------------
(***************************************************************************)
(* Backend.Put of storage/backend/harness/harness.go.  Put buffers the     *)
(* whole archive.  A large one is cut into parts: a distributor goroutine  *)
(* sends them to workers, the workers PUT them as objects of their own and *)
(* report to Put, which at the end PUTs the list of the parts, the         *)
(* manifest, as the object at the key.                                     *)
(*                                                                         *)
(* The workers assign and test the error variable of the block they are    *)
(* declared in: partErr, one for all workers of an upload.                 *)
(***************************************************************************)
EXTENDS HarnessStore, FiniteSets, Functions

VARIABLES
  put,       \* where each call of Put is, or what it returned
  left,      \* bytes of the buffer that are not in a part yet
  cut,       \* how many parts have been cut off it
  jobs,      \* the jobs channel
  closed,    \* there is no open jobs channel
  worker,    \* the workers
  partErr,   \* the shared err is not nil
  results,   \* the results channel
  completed  \* completedParts

goroutineVars == <<left, cut, jobs, closed, worker, partErr, results, completed>>
putVars == <<put, goroutineVars>>

(* A worker: where it is, its job, attempts used, whether it has a link. *)
Worker0(at) == [at |-> at, number |-> 0, bytes |-> <<>>, tries |-> 0,
                link |-> FALSE, failed |-> FALSE]

PutInit ==
  /\ put = [u \in Upload |-> IF u \in scenario.uploads THEN "start" ELSE "unused"]
  /\ left = [u \in Upload |-> Content(u)]
  /\ cut = [u \in Upload |-> 0]
  /\ jobs = [u \in Upload |-> <<>>]
  /\ closed = [u \in Upload |-> TRUE]
  /\ worker = [u \in Upload |-> [w \in scenario.workers |-> Worker0("ended")]]
  /\ partErr = [u \in Upload |-> FALSE]
  /\ results = [u \in Upload |-> <<>>]
  /\ completed = [u \in Upload |-> <<>>]

Return(u, value) == put' = [put EXCEPT ![u] = value]

(* The whole of one request that stores obj at the key. *)
StoreObject(u, obj) ==
  \E out \in PutOutcome :
    /\ Answer(out.ok)
    /\ object' = IF out.stored THEN obj ELSE object
    /\ Return(u, IF out.ok THEN "ok" ELSE "error")
    /\ UNCHANGED <<scenario, parts>>

-----------------------------------------------------------------------------
(* The function itself. *)

(* A key that ends in a slash: an empty object at a key of its own. *)
PutMarker(u) ==
  /\ put[u] = "start"
  /\ u \in scenario.dir
  /\ \E ok \in BOOLEAN : Answer(ok) /\ Return(u, IF ok THEN "ok" ELSE "error")
  /\ UNCHANGED <<scenario, object, parts>> /\ UNCHANGED goroutineVars

Buffering(u) == put[u] = "start" /\ u \notin scenario.dir

(* The archiver closed the pipe with an error. *)
ReadFails(u) ==
  /\ Buffering(u)
  /\ Return(u, "error")
  /\ UNCHANGED storeVars /\ UNCHANGED goroutineVars

(* The checks of the sizes, in the order of the code. *)
Accepted(u) ==
  /\ scenario.maxSize > 0 /\ scenario.size[u] <= scenario.maxSize
  /\ scenario.chunk > 0
  /\ scenario.threshold > 0

Refuse(u) ==
  /\ Buffering(u)
  /\ ~ Accepted(u)
  /\ Return(u, "error")
  /\ UNCHANGED storeVars /\ UNCHANGED goroutineVars

Multipart(u) == scenario.enabled /\ scenario.size[u] > scenario.threshold

PutPlain(u) ==
  /\ Buffering(u)
  /\ Accepted(u) /\ ~ Multipart(u)
  /\ StoreObject(u, Plain(Content(u)))
  /\ UNCHANGED goroutineVars

(* The service may give an upload id or not: nothing depends on it. *)
Initiate(u) ==
  /\ Buffering(u)
  /\ Accepted(u) /\ Multipart(u)
  /\ \/ /\ Succeeds
        /\ Return(u, "parts")
        /\ closed' = [closed EXCEPT ![u] = FALSE]
        /\ worker' = [worker EXCEPT ![u] = [w \in scenario.workers |-> Worker0("idle")]]
     \/ /\ Fails
        /\ Return(u, "error")
        /\ UNCHANGED <<closed, worker>>
  /\ UNCHANGED <<scenario, object, parts, left, cut, jobs, partErr, results, completed>>

(* The loop over results. *)
CollectPart(u) ==
  /\ put[u] = "parts"
  /\ results[u] # <<>>
  /\ LET result == Head(results[u])
     IN IF result.failed
          THEN Return(u, "error") /\ UNCHANGED completed
          ELSE /\ completed' = [completed EXCEPT ![u] = Append(@, result.number)]
               /\ UNCHANGED put
  /\ results' = [results EXCEPT ![u] = Tail(@)]
  /\ UNCHANGED storeVars /\ UNCHANGED <<left, cut, jobs, closed, worker, partErr>>

MutantSorted(numbers) == numbers

(* sort.Slice: in place k stands the k-th of the numbers in their order. *)
Sorted(numbers) ==
  [k \in DOMAIN numbers |->
     CHOOSE n \in Range(numbers) :
       /\ Cardinality({i \in DOMAIN numbers : numbers[i] < n}) < k
       /\ Cardinality({i \in DOMAIN numbers : numbers[i] <= n}) >= k]

(* wg.Wait() has returned: results is closed. *)
WorkersEnded(u) == \A w \in scenario.workers : worker[u][w].at = "ended"

Complete(u) ==
  /\ put[u] = "parts"
  /\ WorkersEnded(u) /\ results[u] = <<>>
  /\ StoreObject(u, Manifest(Sorted(completed[u]), Content(u)))
  /\ UNCHANGED goroutineVars

-----------------------------------------------------------------------------
(* The distributor and the workers, which outlive a Put that fails. *)

(* io.ReadFull: a whole chunk, or what is left. *)
Chunk(u) == SubSeq(left[u], 1, IF Len(left[u]) < scenario.chunk
                                 THEN Len(left[u]) ELSE scenario.chunk)

CutPart(u) ==
  /\ ~ closed[u] /\ left[u] # <<>>
  /\ Len(jobs[u]) < Cardinality(scenario.workers)
  /\ jobs' = [jobs EXCEPT ![u] = Append(@, [number |-> cut[u] + 1, bytes |-> Chunk(u)])]
  /\ left' = [left EXCEPT ![u] = SubSeq(@, Len(Chunk(u)) + 1, Len(@))]
  /\ cut' = [cut EXCEPT ![u] = @ + 1]
  /\ UNCHANGED storeVars
  /\ UNCHANGED <<put, closed, worker, partErr, results, completed>>

MutantAllCut(u) == left[u] = <<>> /\ cut[u] * scenario.chunk = scenario.size[u]

(* After a short chunk, or at the end of a buffer of whole chunks. *)
AllCut(u) == left[u] = <<>>

CloseJobs(u) ==
  /\ ~ closed[u] /\ AllCut(u)
  /\ closed' = [closed EXCEPT ![u] = TRUE]
  /\ UNCHANGED storeVars
  /\ UNCHANGED <<put, left, cut, jobs, worker, partErr, results, completed>>

SetWorker(u, w, state) == worker' = [worker EXCEPT ![u][w] = state]

TakeJob(u, w) ==
  /\ worker[u][w].at = "idle" /\ jobs[u] # <<>>
  /\ SetWorker(u, w, [Worker0("link") EXCEPT !.number = Head(jobs[u]).number,
                                            !.bytes = Head(jobs[u]).bytes])
  /\ jobs' = [jobs EXCEPT ![u] = Tail(@)]
  /\ UNCHANGED storeVars
  /\ UNCHANGED <<put, left, cut, closed, partErr, results, completed>>

WorkerEnds(u, w) ==
  /\ worker[u][w].at = "idle" /\ closed[u] /\ jobs[u] = <<>>
  /\ SetWorker(u, w, Worker0("ended"))
  /\ UNCHANGED storeVars
  /\ UNCHANGED <<put, left, cut, jobs, closed, partErr, results, completed>>

(* partURL, err = ...: the link is the worker's, the error everybody's. *)
AskPartLink(u, w) ==
  /\ worker[u][w].at = "link"
  /\ \E ok \in BOOLEAN :
       /\ Answer(ok)
       /\ partErr' = [partErr EXCEPT ![u] = ~ ok]
       /\ SetWorker(u, w, [worker[u][w] EXCEPT !.at = "test", !.link = ok])
  /\ UNCHANGED <<scenario, object, parts>>
  /\ UNCHANGED <<put, left, cut, jobs, closed, results, completed>>

MutantTriesLeft(state) == state.tries < MaxTries

TriesLeft(state) == state.tries + 1 < MaxTries

MutantAgain(state) ==
  IF TriesLeft(state)
    THEN [state EXCEPT !.at = "link", !.tries = @ + 1]
    ELSE [state EXCEPT !.at = "send"]

(* continue after the backoff, or give the part up. *)
Again(state) ==
  IF TriesLeft(state)
    THEN [state EXCEPT !.at = "link", !.tries = @ + 1]
    ELSE [state EXCEPT !.at = "send", !.failed = TRUE]

TestPartErr(u, w) ==
  /\ worker[u][w].at = "test"
  /\ SetWorker(u, w, IF partErr[u] THEN Again(worker[u][w])
                                   ELSE [worker[u][w] EXCEPT !.at = "request"])
  /\ UNCHANGED storeVars
  /\ UNCHANGED <<put, left, cut, jobs, closed, partErr, results, completed>>

(* No request can be made with the empty link of a failure nobody saw. *)
PutPart(u, w) ==
  /\ worker[u][w].at = "request"
  /\ LET job == worker[u][w]
     IN \/ /\ ~ job.link
           /\ SetWorker(u, w, Again(job))
           /\ UNCHANGED storeVars
        \/ /\ job.link
           /\ \E out \in PutOutcome :
                /\ Answer(out.ok)
                /\ parts' = IF out.stored THEN PartsWith(job.number, job.bytes) ELSE parts
                /\ SetWorker(u, w, IF out.ok THEN [job EXCEPT !.at = "send"]
                                             ELSE Again(job))
           /\ UNCHANGED <<scenario, object>>
  /\ UNCHANGED <<put, left, cut, jobs, closed, partErr, results, completed>>

(* results has room for one result per worker; nobody may be receiving. *)
SendResult(u, w) ==
  /\ worker[u][w].at = "send"
  /\ Len(results[u]) < Cardinality(scenario.workers)
  /\ results' = [results EXCEPT ![u] = Append(@,
       [number |-> worker[u][w].number, failed |-> worker[u][w].failed])]
  /\ SetWorker(u, w, Worker0("idle"))
  /\ UNCHANGED storeVars
  /\ UNCHANGED <<put, left, cut, jobs, closed, partErr, completed>>

-----------------------------------------------------------------------------
PutWorkerStep(u, w) ==
  \/ TakeJob(u, w) \/ WorkerEnds(u, w) \/ AskPartLink(u, w)
  \/ TestPartErr(u, w) \/ PutPart(u, w) \/ SendResult(u, w)

PutCallStep(u) ==
  \/ PutMarker(u) \/ ReadFails(u) \/ Refuse(u) \/ PutPlain(u)
  \/ Initiate(u) \/ CollectPart(u) \/ Complete(u)

DistributorStep(u) == CutPart(u) \/ CloseJobs(u)

PutNext ==
  \E u \in Upload : \/ PutCallStep(u) \/ DistributorStep(u)
                    \/ \E w \in scenario.workers : PutWorkerStep(u, w)
=============================================================================
