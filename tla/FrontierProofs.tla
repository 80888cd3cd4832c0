--------------------------- MODULE FrontierProofs ---------------------------
(***************************************************************************)
(* Proof that ProcessBatch answers for every URL of its batch, for every   *)
(* batch, number of workers and order of theirs; that what it accepts is   *)
(* stable under normalization; and that of the URLs that denote one        *)
(* resource it accepts one, by what normalization does to every path and   *)
(* every query.                                                            *)
(***************************************************************************)
EXTENDS Frontier, SequenceFacts

-----------------------------------------------------------------------------
(* Who has which index *)

Counters == Outcome \union {"ProcessedCount"}

BatchTypes ==
    /\ urls \in Batches
    /\ sent \in 0..Len(urls) /\ taken \in 0..sent
    /\ worker \in [Worker -> {"recv", "check", "process", "exited"}]
    /\ holds \in [Worker -> 0..Len(urls)]
    /\ DOMAIN results = 1..Len(urls) /\ DOMAIN errs = 1..Len(urls)
    /\ caller \in {"sending", "waiting", "returned"}
    /\ caller # "sending" => sent = Len(urls)

\* Workers hold different indices, and exit when none is left.
Shared ==
    /\ \A w \in Worker : IF worker[w] \in {"check", "process"} THEN holds[w] \in 1..taken
                         ELSE holds[w] = 0
    /\ \A v, w \in Worker : v # w /\ holds[w] # 0 => holds[v] # holds[w]
    /\ \A w \in Worker : worker[w] = "exited" => caller # "sending" /\ taken = sent
    /\ caller = "returned" => \A w \in Worker : worker[w] = "exited"

\* A batch is a sequence, and its indices are the numbers up to its length.
LEMMA BatchIsSequence ==
    ASSUME BatchTypes
    PROVE  Len(urls) \in Nat /\ Indices = 1..Len(urls) /\ sent \in Nat /\ taken \in Nat
PROOF
<1>1. urls \in Seq(Url \union {Malformed})
    BY FrontierAssumption DEF BatchTypes
<1>2. Len(urls) \in Nat /\ DOMAIN urls = 1..Len(urls)
    BY <1>1
<1>3. PICK n : n = Len(urls)
    OBVIOUS
<1>4. sent \in 0..n /\ taken \in 0..sent
    BY <1>3 DEF BatchTypes
<1>5. n \in Nat
    BY <1>2, <1>3
<1>6. sent \in Nat
    BY <1>4, <1>5
<1>7. taken \in Nat
    BY <1>4, <1>6
<1> QED
    BY <1>2, <1>6, <1>7 DEF Indices

\* Nothing is sent, and nobody holds anything, before the first step.
LEMMA SharedInit == Init => BatchTypes /\ Shared
PROOF
<1> SUFFICES ASSUME Init PROVE BatchTypes /\ Shared
    OBVIOUS
<1>1. urls \in Seq(Url \union {Malformed})
    BY FrontierAssumption DEF Init
<1>2. Len(urls) \in Nat /\ DOMAIN urls = 1..Len(urls)
    BY <1>1
<1>3. BatchTypes
    BY <1>2 DEF Init, BatchTypes
<1>4. Shared
    BY FrontierAssumption DEF Init, Shared
<1> QED
    BY <1>3, <1>4

\* What an answer of Process changes.
LEMMA AnswerKeepsDomains ==
    ASSUME NEW i, Process(i)
    PROVE  DOMAIN results' = DOMAIN results /\ DOMAIN errs' = DOMAIN errs
PROOF
    BY DEF Process, ProcessUrl, Answer

\* Each index goes to one worker, who has it until it is answered.
LEMMA SharedInvariance == BatchTypes /\ Shared /\ [Next]_vars => BatchTypes' /\ Shared'
PROOF
<1> SUFFICES ASSUME BatchTypes, Shared, [Next]_vars PROVE BatchTypes' /\ Shared'
    OBVIOUS
<1>1. Len(urls) \in Nat /\ sent \in Nat /\ taken \in Nat
    BY BatchIsSequence
<1>2. CASE Send
  <2>1. BatchTypes'
      BY <1>1, <1>2 DEF Send, BatchTypes, workerVars
  <2>2. Shared'
      BY <1>2 DEF Send, Shared, workerVars
  <2> QED
      BY <2>1, <2>2
<1>3. CASE CloseJobs
    BY <1>3 DEF CloseJobs, BatchTypes, Shared, workerVars
<1>4. CASE Return
    BY <1>4 DEF Return, BatchTypes, Shared, workerVars
<1>5. CASE Cancel
    BY <1>5 DEF Cancel, BatchTypes, Shared, batchVars, workerVars
<1>6. CASE Returned \/ UNCHANGED vars
    BY <1>6 DEF Returned, vars, BatchTypes, Shared
<1>7. ASSUME NEW w \in Worker, Receive(w) PROVE BatchTypes' /\ Shared'
  <2>1. /\ worker[w] = "recv" /\ taken < sent /\ taken' = taken + 1
        /\ holds' = [holds EXCEPT ![w] = taken + 1]
        /\ worker' = [worker EXCEPT ![w] = "check"]
        /\ urls' = urls /\ sent' = sent /\ results' = results /\ errs' = errs
        /\ caller' = caller
      BY <1>7 DEF Receive
  <2>2. BatchTypes'
      BY <1>1, <2>1 DEF BatchTypes
  <2>3. \A v \in Worker : /\ holds'[v] = IF v = w THEN taken + 1 ELSE holds[v]
                          /\ worker'[v] = IF v = w THEN "check" ELSE worker[v]
      BY <2>1 DEF BatchTypes
  <2>4. \A v \in Worker : holds[v] \in 0..taken
      BY <1>1 DEF BatchTypes, Shared
  <2>5. \A v \in Worker : IF worker'[v] \in {"check", "process"} THEN holds'[v] \in 1..taken'
                          ELSE holds'[v] = 0
      BY <1>1, <2>1, <2>3 DEF Shared
  <2>6. \A u, v \in Worker : u # v /\ holds'[v] # 0 => holds'[u] # holds'[v]
      BY <1>1, <2>3, <2>4 DEF Shared
  <2>7. \A v \in Worker : worker[v] # "exited"
      BY <1>1, <2>1 DEF Shared
  <2>8. \A v \in Worker : worker'[v] # "exited"
      BY <2>3, <2>7
  <2>9. caller' # "returned"
      BY <2>1, <2>7 DEF Shared
  <2> QED
      BY <2>2, <2>5, <2>6, <2>8, <2>9 DEF Shared
<1>8. ASSUME NEW w \in Worker, CheckContext(w) \/ ProcessJob(w) PROVE BatchTypes' /\ Shared'
  <2>1. /\ worker[w] \in {"check", "process"}
        /\ urls' = urls /\ sent' = sent /\ taken' = taken /\ caller' = caller
      BY <1>8 DEF CheckContext, ProcessJob, batchVars
  <2>2. \/ /\ worker' = [worker EXCEPT ![w] = "recv"] /\ holds' = [holds EXCEPT ![w] = 0]
        \/ /\ worker' = [worker EXCEPT ![w] = "process"] /\ holds' = holds
      BY <1>8 DEF CheckContext, ProcessJob
  <2>3. DOMAIN results' = DOMAIN results /\ DOMAIN errs' = DOMAIN errs
      BY <1>8, AnswerKeepsDomains DEF CheckContext, ProcessJob
  <2>4. BatchTypes'
      BY <1>1, <2>1, <2>2, <2>3 DEF BatchTypes
  <2>5. Shared'
    <3>1. CASE worker' = [worker EXCEPT ![w] = "recv"] /\ holds' = [holds EXCEPT ![w] = 0]
        BY <2>1, <3>1 DEF BatchTypes, Shared
    <3>2. CASE worker' = [worker EXCEPT ![w] = "process"] /\ holds' = holds
        BY <2>1, <3>2 DEF BatchTypes, Shared
    <3> QED
        BY <2>2, <3>1, <3>2
  <2> QED
      BY <2>4, <2>5
<1>9. ASSUME NEW w \in Worker, WorkerExit(w) PROVE BatchTypes' /\ Shared'
    BY <1>9 DEF WorkerExit, BatchTypes, Shared, batchVars
<1> QED
    BY <1>2, <1>3, <1>4, <1>5, <1>6, <1>7, <1>8, <1>9 DEF Next, WorkerNext

-----------------------------------------------------------------------------
(* What Process may say of an index *)

Accepts(i) ==
    /\ urls[i] # Malformed /\ IsValid(Normalize(urls[i])) /\ Normalize(urls[i]) \notin seen
    /\ Answer(i, {Normalize(urls[i])}, None, {"ValidCount"})
    /\ seen' = seen \union {Normalize(urls[i])}

Repeats(i) ==
    /\ urls[i] # Malformed /\ Normalize(urls[i]) \in seen
    /\ Answer(i, {}, "duplicate", {"DuplicateCount"})
    /\ seen' = seen

Rejects(i) ==
    /\ urls[i] = Malformed \/ ~IsValid(Normalize(urls[i]))
    /\ Answer(i, {}, "invalid", {"InvalidCount"})
    /\ seen' = seen

Fails(i) ==
    /\ urls[i] # Malformed
    /\ Answer(i, {}, "store", {})
    /\ seen' = seen \/ (/\ Normalize(urls[i]) \notin seen
                        /\ seen' = seen \union {Normalize(urls[i])})

Cancels(i) ==
    /\ results' = results /\ errs' = [errs EXCEPT ![i] = "cancelled"]
    /\ seen' = seen /\ counts' = counts

\* A worker's step with an index is one of five.
LEMMA WorkerAnswers ==
    ASSUME NEW w \in Worker, CheckContext(w) \/ ProcessJob(w)
    PROVE  /\ urls' = urls /\ taken' = taken /\ caller' = caller
           /\ \/ UNCHANGED <<holds, results, errs, seen, counts>>
              \/ /\ holds' = [holds EXCEPT ![w] = 0]
                 /\ \/ Accepts(holds[w]) \/ Repeats(holds[w]) \/ Rejects(holds[w])
                    \/ Fails(holds[w]) \/ Cancels(holds[w])
PROOF
<1>1. CASE CheckContext(w)
    BY <1>1 DEF CheckContext, Cancels, batchVars
<1>2. CASE ProcessJob(w)
  <2>1. /\ urls' = urls /\ taken' = taken /\ caller' = caller
        /\ holds' = [holds EXCEPT ![w] = 0] /\ Process(holds[w])
      BY <1>2 DEF ProcessJob, batchVars
  <2>2. PICK i : i = holds[w]
      OBVIOUS
  <2>3. Accepts(i) \/ Repeats(i) \/ Rejects(i) \/ Fails(i)
    <3>1. CASE urls[i] = Malformed
        BY <2>1, <2>2, <3>1 DEF Process, Rejects
    <3>2. CASE urls[i] # Malformed
      <4>1. ProcessUrl(i, Normalize(urls[i]))
          BY <2>1, <2>2, <3>2 DEF Process
      <4> QED
          BY <3>2, <4>1 DEF ProcessUrl, AlreadySeen, Accepts, Repeats, Rejects, Fails
    <3> QED
        BY <3>1, <3>2
  <2> QED
      BY <2>1, <2>2, <2>3
<1> QED
    BY <1>1, <1>2

-----------------------------------------------------------------------------
(* Every index that was taken and let go is answered *)

Held(i) == \E w \in Worker : holds[w] = i
Untouched(i) == results[i] = {} /\ errs[i] = None

Verdict(i) ==
    \/ /\ results[i] = {Normalize(urls[i])} /\ errs[i] = None
       /\ urls[i] # Malformed /\ IsValid(Normalize(urls[i])) /\ Normalize(urls[i]) \in seen
    \/ /\ results[i] = {} /\ errs[i] = "duplicate"
       /\ urls[i] # Malformed /\ Normalize(urls[i]) \in seen
    \/ /\ results[i] = {} /\ errs[i] = "invalid"
       /\ urls[i] = Malformed \/ ~IsValid(Normalize(urls[i]))
    \/ results[i] = {} /\ errs[i] \in {"store", "cancelled"}

Answers ==
    \A i \in 1..Len(urls) : IF i <= taken /\ ~Held(i) THEN Verdict(i) ELSE Untouched(i)

\* Each of the five answers is a verdict, and touches no other index.
LEMMA VerdictGiven ==
    ASSUME BatchTypes, NEW i \in 1..Len(urls), Untouched(i), urls' = urls,
           Accepts(i) \/ Repeats(i) \/ Rejects(i) \/ Fails(i) \/ Cancels(i)
    PROVE  /\ Verdict(i)' /\ seen \subseteq seen'
           /\ \A j \in 1..Len(urls) : j # i => results'[j] = results[j] /\ errs'[j] = errs[j]
PROOF
<1>1. DOMAIN results = 1..Len(urls) /\ DOMAIN errs = 1..Len(urls)
    BY DEF BatchTypes
<1>2. CASE Accepts(i)
    BY <1>1, <1>2 DEF Accepts, Answer, Verdict
<1>3. CASE Repeats(i)
    BY <1>1, <1>3 DEF Repeats, Answer, Verdict
<1>4. CASE Rejects(i)
    BY <1>1, <1>4 DEF Rejects, Answer, Verdict
<1>5. CASE Fails(i)
    BY <1>1, <1>5 DEF Fails, Answer, Verdict
<1>6. CASE Cancels(i)
    BY <1>1, <1>6 DEF Cancels, Untouched, Verdict
<1> QED
    BY <1>2, <1>3, <1>4, <1>5, <1>6

\* The index a worker lets go is answered; for the others nothing changes.
LEMMA AnswersInvariance ==
    BatchTypes /\ Shared /\ Answers /\ [Next]_vars => Answers'
PROOF
<1> SUFFICES ASSUME BatchTypes, Shared, Answers, [Next]_vars PROVE Answers'
    OBVIOUS
<1>1. Len(urls) \in Nat /\ taken \in Nat
    BY BatchIsSequence
<1>2. ASSUME urls' = urls, taken' = taken, UNCHANGED <<holds, results, errs, seen>>
      PROVE  Answers'
    BY <1>2 DEF Answers, Held, Verdict, Untouched
<1>3. CASE Send \/ CloseJobs \/ Return \/ Cancel \/ Returned \/ UNCHANGED vars
    BY <1>2, <1>3 DEF Send, CloseJobs, Return, Cancel, Returned, vars, batchVars, workerVars
<1>4. ASSUME NEW w \in Worker, WorkerExit(w) PROVE Answers'
    BY <1>2, <1>4 DEF WorkerExit, batchVars
<1>5. ASSUME NEW w \in Worker, Receive(w) PROVE Answers'
  <2>1. /\ worker[w] = "recv" /\ taken < sent /\ taken' = taken + 1
        /\ holds' = [holds EXCEPT ![w] = taken + 1]
        /\ urls' = urls /\ results' = results /\ errs' = errs /\ seen' = seen
      BY <1>5 DEF Receive
  <2>2. holds[w] = 0
      BY <2>1 DEF Shared
  <2>3. \A v \in Worker : holds'[v] = IF v = w THEN taken + 1 ELSE holds[v]
      BY <2>1 DEF BatchTypes
  <2>4. \A i \in 1..Len(urls) : Held(i)' <=> Held(i) \/ i = taken + 1
      BY <2>2, <2>3 DEF Held
  <2>5. \A i \in 1..Len(urls) : /\ Verdict(i)' <=> Verdict(i)
                                /\ Untouched(i)' <=> Untouched(i)
      BY <2>1 DEF Verdict, Untouched
  <2>6. ASSUME NEW i \in 1..Len(urls)
        PROVE  IF i <= taken' /\ ~Held(i)' THEN Verdict(i)' ELSE Untouched(i)'
    <3>1. CASE i = taken + 1
      <4>1. ~(i <= taken)
          BY <1>1, <3>1
      <4> QED
          BY <2>4, <2>5, <3>1, <4>1 DEF Answers
    <3>2. CASE i # taken + 1
      <4>1. i <= taken' <=> i <= taken
          BY <1>1, <2>1, <3>2
      <4> QED
          BY <2>4, <2>5, <3>2, <4>1 DEF Answers
    <3> QED
        BY <3>1, <3>2
  <2> QED
      BY <2>1, <2>6 DEF Answers
<1>6. ASSUME NEW w \in Worker, CheckContext(w) \/ ProcessJob(w) PROVE Answers'
  <2>1. /\ urls' = urls /\ taken' = taken
        /\ \/ UNCHANGED <<holds, results, errs, seen, counts>>
           \/ /\ holds' = [holds EXCEPT ![w] = 0]
              /\ \/ Accepts(holds[w]) \/ Repeats(holds[w]) \/ Rejects(holds[w])
                 \/ Fails(holds[w]) \/ Cancels(holds[w])
      BY <1>6, WorkerAnswers
  <2>2. CASE UNCHANGED <<holds, results, errs, seen, counts>>
      BY <1>2, <2>1, <2>2
  <2>3. CASE /\ holds' = [holds EXCEPT ![w] = 0]
             /\ \/ Accepts(holds[w]) \/ Repeats(holds[w]) \/ Rejects(holds[w])
                \/ Fails(holds[w]) \/ Cancels(holds[w])
    <3>1. worker[w] \in {"check", "process"}
        BY <1>6 DEF CheckContext, ProcessJob
    <3>2. PICK i \in 1..taken : i = holds[w]
        BY <3>1 DEF Shared
    <3>3. i \in 1..Len(urls) /\ i <= taken
        BY <1>1, <3>2 DEF BatchTypes
    <3>4. Held(i)
        BY <3>2 DEF Held
    <3>5. Untouched(i)
        BY <3>3, <3>4 DEF Answers
    <3>6. /\ Verdict(i)' /\ seen \subseteq seen'
          /\ \A j \in 1..Len(urls) : j # i => results'[j] = results[j] /\ errs'[j] = errs[j]
        BY <2>1, <2>3, <3>2, <3>3, <3>5, VerdictGiven
    <3>7. \A v \in Worker : holds'[v] = IF v = w THEN 0 ELSE holds[v]
        BY <2>3 DEF BatchTypes
    <3>8. ~Held(i)'
        BY <3>2, <3>3, <3>7 DEF Held, Shared
    <3>9. \A j \in 1..Len(urls) : j # i => (Held(j)' <=> Held(j))
        BY <3>2, <3>7 DEF Held
    <3>10. ASSUME NEW j \in 1..Len(urls), j # i
           PROVE  (Verdict(j) => Verdict(j)') /\ (Untouched(j) => Untouched(j)')
        BY <2>1, <3>6, <3>10 DEF Verdict, Untouched
    <3>11. ASSUME NEW j \in 1..Len(urls)
           PROVE  IF j <= taken /\ ~Held(j)' THEN Verdict(j)' ELSE Untouched(j)'
      <4>1. CASE j = i
          BY <3>3, <3>6, <3>8, <4>1
      <4>2. CASE j # i
          BY <3>9, <3>10, <4>2 DEF Answers
      <4> QED
          BY <4>1, <4>2
    <3> QED
        BY <2>1, <3>11 DEF Answers
  <2> QED
      BY <2>1, <2>2, <2>3
<1> QED
    BY <1>3, <1>4, <1>5, <1>6 DEF Next, WorkerNext

-----------------------------------------------------------------------------
(* What the store has seen *)

\* Beyond what it had, the store has what was accepted, and if it did not fail,
\* nothing else.
SeenGrows ==
    \E old \in OldUrls :
        /\ old \subseteq seen /\ Accepted \subseteq seen /\ Accepted \intersect old = {}
        /\ (\A i \in Indices : errs[i] # "store") => seen = old \union Accepted

\* Nothing is accepted at first.
LEMMA SeenInit == Init => SeenGrows
PROOF
<1> SUFFICES ASSUME Init PROVE SeenGrows
    OBVIOUS
<1>1. seen \in OldUrls /\ Accepted = {}
    BY DEF Init, Accepted, Indices
<1> QED
    BY <1>1 DEF SeenGrows

\* How the answer of an index that had none changes what is accepted.
LEMMA AcceptedGrows ==
    ASSUME BatchTypes, NEW i \in 1..Len(urls), Untouched(i), urls' = urls,
           Accepts(i) \/ Repeats(i) \/ Rejects(i) \/ Fails(i) \/ Cancels(i)
    PROVE  Accepted' = Accepted \union results'[i]
PROOF
<1>1. DOMAIN results = 1..Len(urls) /\ Indices = 1..Len(urls) /\ Indices' = Indices
    BY BatchIsSequence DEF BatchTypes, Indices
<1>2. \A j \in Indices : j # i => results'[j] = results[j]
    BY <1>1, VerdictGiven
<1>3. results[i] = {} /\ i \in Indices
    BY <1>1 DEF Untouched
<1>4. Accepted' = UNION {results'[j] : j \in Indices}
    BY <1>1 DEF Accepted
<1>5. \A url \in Accepted' : url \in Accepted \/ url \in results'[i]
    BY <1>2, <1>4 DEF Accepted
<1>6. \A url \in Accepted : url \in Accepted'
    BY <1>2, <1>3, <1>4 DEF Accepted
<1>7. \A url \in results'[i] : url \in Accepted'
    BY <1>3, <1>4
<1> QED
    BY <1>5, <1>6, <1>7

\* What is accepted is new to the store, and is in it from then on.
LEMMA SeenStep ==
    ASSUME BatchTypes, SeenGrows, NEW i \in 1..Len(urls), Untouched(i), urls' = urls,
           Accepts(i) \/ Repeats(i) \/ Rejects(i) \/ Fails(i) \/ Cancels(i)
    PROVE  SeenGrows'
PROOF
<1>1. PICK old \in OldUrls :
        /\ old \subseteq seen /\ Accepted \subseteq seen /\ Accepted \intersect old = {}
        /\ (\A j \in Indices : errs[j] # "store") => seen = old \union Accepted
    BY DEF SeenGrows
<1>2. /\ DOMAIN results = 1..Len(urls) /\ DOMAIN errs = 1..Len(urls)
      /\ Indices = 1..Len(urls) /\ Indices' = Indices
    BY BatchIsSequence DEF BatchTypes, Indices
<1>3. Accepted' = Accepted \union results'[i] /\ seen \subseteq seen'
    BY AcceptedGrows, VerdictGiven
<1>4. (\A j \in Indices : errs'[j] # "store") => \A j \in Indices : errs[j] # "store"
  <2>1. \A j \in Indices : j # i => errs'[j] = errs[j]
      BY <1>2, VerdictGiven
  <2>2. errs[i] # "store"
      BY DEF Untouched, None
  <2> QED
      BY <2>1, <2>2
<1>5. CASE Accepts(i)
  <2>1. /\ results'[i] = {Normalize(urls[i])} /\ Normalize(urls[i]) \notin seen
        /\ seen' = seen \union {Normalize(urls[i])}
      BY <1>2, <1>5 DEF Accepts, Answer
  <2>2. /\ old \subseteq seen' /\ Accepted' \subseteq seen' /\ Accepted' \intersect old = {}
        /\ (\A j \in Indices' : errs'[j] # "store") => seen' = old \union Accepted'
      BY <1>1, <1>2, <1>3, <1>4, <2>1
  <2> QED
      BY <2>2 DEF SeenGrows
<1>6. ASSUME results'[i] = {}, seen' = seen \/ errs'[i] = "store" PROVE SeenGrows'
  <2>1. Accepted' = Accepted
      BY <1>3, <1>6
  <2>2. (\A j \in Indices : errs'[j] # "store") => seen' = seen
      BY <1>2, <1>6
  <2>3. /\ old \subseteq seen' /\ Accepted' \subseteq seen' /\ Accepted' \intersect old = {}
        /\ (\A j \in Indices' : errs'[j] # "store") => seen' = old \union Accepted'
      BY <1>1, <1>2, <1>3, <1>4, <2>1, <2>2
  <2> QED
      BY <2>3 DEF SeenGrows
<1>7. CASE Repeats(i) \/ Rejects(i) \/ Fails(i)
  <2>1. results'[i] = {} /\ (seen' = seen \/ errs'[i] = "store")
      BY <1>2, <1>7 DEF Repeats, Rejects, Fails, Answer
  <2> QED
      BY <1>6, <2>1
<1>8. CASE Cancels(i)
  <2>1. results'[i] = {} /\ seen' = seen
      BY <1>2, <1>8 DEF Cancels, Untouched
  <2> QED
      BY <1>6, <2>1
<1> QED
    BY <1>5, <1>7, <1>8

-----------------------------------------------------------------------------
(* The counters *)

Successes == {i \in Indices : results[i] # {}}
Errors(err) == {i \in Indices : errs[i] = err}
Handled == {i \in Indices : results[i] # {} \/ errs[i] \in {"duplicate", "invalid", "store"}}

CountersAgree ==
    /\ counts \in [Counters -> Nat]
    /\ IsFiniteSet(Accepted)
    /\ counts["ValidCount"] = Cardinality(Accepted)
    /\ counts["ValidCount"] = Cardinality(Successes)
    /\ counts["DuplicateCount"] = Cardinality(Errors("duplicate"))
    /\ counts["InvalidCount"] = Cardinality(Errors("invalid"))
    /\ counts["ProcessedCount"] = Cardinality(Handled)

\* A batch has finitely many indices.
LEMMA IndicesFinite ==
    ASSUME BatchTypes
    PROVE  IsFiniteSet(Indices) /\ Cardinality(Indices) = Len(urls)
PROOF
<1>1. Len(urls) \in Nat /\ Indices = 1..Len(urls)
    BY BatchIsSequence
<1>2. PICK n \in Nat : n = Len(urls)
    BY <1>1
<1>3. IsFiniteSet(1..n) /\ Cardinality(1..n) = n
  <2>1. IsFiniteSet(1..n) /\ Cardinality(1..n) = IF 1 > n THEN 0 ELSE n - 1 + 1
      BY FS_Interval
  <2> QED
      BY <2>1
<1> QED
    BY <1>1, <1>2, <1>3

\* A set of indices that gets one more has one more.
LEMMA OneIndexMore ==
    ASSUME BatchTypes, NEW S \in SUBSET Indices, NEW i, i \notin S
    PROVE  Cardinality(S \union {i}) = Cardinality(S) + 1
PROOF
    BY IndicesFinite, FS_Subset, FS_AddElement

\* All counters start at zero.
LEMMA CountersInit == Init => CountersAgree
PROOF
<1> SUFFICES ASSUME Init PROVE CountersAgree
    OBVIOUS
<1>1. /\ Accepted = {} /\ Successes = {} /\ Errors("duplicate") = {}
      /\ Errors("invalid") = {} /\ Handled = {}
    BY DEF Init, Accepted, Successes, Errors, Handled, Indices, None
<1>2. counts = [o \in Counters |-> 0]
    BY DEF Init, Counters
<1>3. /\ counts \in [Counters -> Nat]
      /\ counts["ValidCount"] = 0 /\ counts["DuplicateCount"] = 0
      /\ counts["InvalidCount"] = 0 /\ counts["ProcessedCount"] = 0
    BY <1>2 DEF Counters, Outcome
<1> QED
    BY <1>1, <1>3, FS_EmptySet DEF CountersAgree

\* Each answer is counted where it belongs.
LEMMA CountersStep ==
    ASSUME BatchTypes, SeenGrows, CountersAgree,
           NEW i \in 1..Len(urls), Untouched(i), urls' = urls,
           Accepts(i) \/ Repeats(i) \/ Rejects(i) \/ Fails(i) \/ Cancels(i)
    PROVE  CountersAgree'
PROOF
<1>1. /\ DOMAIN results = 1..Len(urls) /\ DOMAIN errs = 1..Len(urls)
      /\ Indices = 1..Len(urls) /\ Indices' = Indices /\ i \in Indices
    BY BatchIsSequence DEF BatchTypes, Indices
<1>2. \A j \in Indices : j # i => results'[j] = results[j] /\ errs'[j] = errs[j]
    BY <1>1, VerdictGiven
<1>3. results[i] = {} /\ errs[i] = None
    BY DEF Untouched
<1>4. /\ counts \in [Counters -> Nat] /\ IsFiniteSet(Accepted)
      /\ counts["ValidCount"] = Cardinality(Accepted)
      /\ counts["ValidCount"] = Cardinality(Successes)
      /\ counts["DuplicateCount"] = Cardinality(Errors("duplicate"))
      /\ counts["InvalidCount"] = Cardinality(Errors("invalid"))
      /\ counts["ProcessedCount"] = Cardinality(Handled)
    BY DEF CountersAgree
<1>5. /\ i \notin Successes /\ i \notin Errors("duplicate") /\ i \notin Errors("invalid")
      /\ i \notin Handled
    BY <1>3 DEF Successes, Errors, Handled, None
<1>6. /\ Cardinality(Successes \union {i}) = Cardinality(Successes) + 1
      /\ Cardinality(Errors("duplicate") \union {i}) = Cardinality(Errors("duplicate")) + 1
      /\ Cardinality(Errors("invalid") \union {i}) = Cardinality(Errors("invalid")) + 1
      /\ Cardinality(Handled \union {i}) = Cardinality(Handled) + 1
  <2>1. /\ Successes \in SUBSET Indices /\ Errors("duplicate") \in SUBSET Indices
        /\ Errors("invalid") \in SUBSET Indices /\ Handled \in SUBSET Indices
      BY DEF Successes, Errors, Handled
  <2> QED
      BY <1>5, <2>1, OneIndexMore
<1>7. Successes' = IF results'[i] # {} THEN Successes \union {i} ELSE Successes
    BY <1>1, <1>2, <1>5 DEF Successes
<1>8. /\ Errors("duplicate")' = IF errs'[i] = "duplicate" THEN Errors("duplicate") \union {i}
                                ELSE Errors("duplicate")
      /\ Errors("invalid")' = IF errs'[i] = "invalid" THEN Errors("invalid") \union {i}
                              ELSE Errors("invalid")
    BY <1>1, <1>2, <1>5 DEF Errors
<1>9. Handled' = IF results'[i] # {} \/ errs'[i] \in {"duplicate", "invalid", "store"}
                 THEN Handled \union {i} ELSE Handled
    BY <1>1, <1>2, <1>5 DEF Handled
<1>10. Accepted' = Accepted \union results'[i]
    BY AcceptedGrows
<1>11. ASSUME results'[i] = {} PROVE Accepted' = Accepted /\ Successes' = Successes
    BY <1>7, <1>10, <1>11
<1>12. CASE Accepts(i)
  <2>1. /\ results'[i] = {Normalize(urls[i])} /\ errs'[i] = None
        /\ Normalize(urls[i]) \notin seen
        /\ counts' = [o \in Counters |->
              counts[o] + IF o \in {"ValidCount", "ProcessedCount"} THEN 1 ELSE 0]
      BY <1>1, <1>4, <1>12 DEF Accepts, Answer
  <2>2. /\ counts' \in [Counters -> Nat]
        /\ counts'["ValidCount"] = counts["ValidCount"] + 1
        /\ counts'["DuplicateCount"] = counts["DuplicateCount"]
        /\ counts'["InvalidCount"] = counts["InvalidCount"]
        /\ counts'["ProcessedCount"] = counts["ProcessedCount"] + 1
      BY <1>4, <2>1 DEF Counters, Outcome
  <2>3. Normalize(urls[i]) \notin Accepted
      BY <2>1 DEF SeenGrows
  <2>4. /\ IsFiniteSet(Accepted')
        /\ Cardinality(Accepted') = Cardinality(Accepted) + 1
    <3>1. PICK accepted, url : accepted = Accepted /\ url = Normalize(urls[i])
        OBVIOUS
    <3>2. IsFiniteSet(accepted) /\ url \notin accepted /\ Accepted' = accepted \union {url}
        BY <1>4, <1>10, <2>1, <2>3, <3>1
    <3>3. /\ IsFiniteSet(accepted \union {url})
          /\ Cardinality(accepted \union {url}) = Cardinality(accepted) + 1
        BY <3>2, FS_AddElement
    <3> QED
        BY <3>1, <3>2, <3>3
  <2>5. /\ Successes' = Successes \union {i} /\ Handled' = Handled \union {i}
        /\ Errors("duplicate")' = Errors("duplicate") /\ Errors("invalid")' = Errors("invalid")
      BY <1>7, <1>8, <1>9, <2>1 DEF None
  <2> QED
      BY <1>4, <1>6, <2>2, <2>4, <2>5 DEF CountersAgree
<1>13. CASE Repeats(i)
  <2>1. /\ results'[i] = {} /\ errs'[i] = "duplicate"
        /\ counts' = [o \in Counters |->
              counts[o] + IF o \in {"DuplicateCount", "ProcessedCount"} THEN 1 ELSE 0]
      BY <1>1, <1>4, <1>13 DEF Repeats, Answer
  <2>2. /\ counts' \in [Counters -> Nat]
        /\ counts'["ValidCount"] = counts["ValidCount"]
        /\ counts'["DuplicateCount"] = counts["DuplicateCount"] + 1
        /\ counts'["InvalidCount"] = counts["InvalidCount"]
        /\ counts'["ProcessedCount"] = counts["ProcessedCount"] + 1
      BY <1>4, <2>1 DEF Counters, Outcome
  <2>3. /\ Errors("duplicate")' = Errors("duplicate") \union {i}
        /\ Errors("invalid")' = Errors("invalid") /\ Handled' = Handled \union {i}
      BY <1>8, <1>9, <2>1
  <2> QED
      BY <1>4, <1>6, <1>11, <2>1, <2>2, <2>3 DEF CountersAgree
<1>14. CASE Rejects(i)
  <2>1. /\ results'[i] = {} /\ errs'[i] = "invalid"
        /\ counts' = [o \in Counters |->
              counts[o] + IF o \in {"InvalidCount", "ProcessedCount"} THEN 1 ELSE 0]
      BY <1>1, <1>4, <1>14 DEF Rejects, Answer
  <2>2. /\ counts' \in [Counters -> Nat]
        /\ counts'["ValidCount"] = counts["ValidCount"]
        /\ counts'["DuplicateCount"] = counts["DuplicateCount"]
        /\ counts'["InvalidCount"] = counts["InvalidCount"] + 1
        /\ counts'["ProcessedCount"] = counts["ProcessedCount"] + 1
      BY <1>4, <2>1 DEF Counters, Outcome
  <2>3. /\ Errors("duplicate")' = Errors("duplicate")
        /\ Errors("invalid")' = Errors("invalid") \union {i} /\ Handled' = Handled \union {i}
      BY <1>8, <1>9, <2>1
  <2> QED
      BY <1>4, <1>6, <1>11, <2>1, <2>2, <2>3 DEF CountersAgree
<1>15. CASE Fails(i)
  <2>1. /\ results'[i] = {} /\ errs'[i] = "store"
        /\ counts' = [o \in Counters |->
              counts[o] + IF o \in {"ProcessedCount"} THEN 1 ELSE 0]
      BY <1>1, <1>4, <1>15 DEF Fails, Answer
  <2>2. /\ counts' \in [Counters -> Nat]
        /\ counts'["ValidCount"] = counts["ValidCount"]
        /\ counts'["DuplicateCount"] = counts["DuplicateCount"]
        /\ counts'["InvalidCount"] = counts["InvalidCount"]
        /\ counts'["ProcessedCount"] = counts["ProcessedCount"] + 1
      BY <1>4, <2>1 DEF Counters, Outcome
  <2>3. /\ Errors("duplicate")' = Errors("duplicate")
        /\ Errors("invalid")' = Errors("invalid") /\ Handled' = Handled \union {i}
      BY <1>8, <1>9, <2>1
  <2> QED
      BY <1>4, <1>6, <1>11, <2>1, <2>2, <2>3 DEF CountersAgree
<1>16. CASE Cancels(i)
  <2>1. results'[i] = {} /\ errs'[i] = "cancelled" /\ counts' = counts
      BY <1>1, <1>3, <1>16 DEF Cancels
  <2>2. /\ Errors("duplicate")' = Errors("duplicate")
        /\ Errors("invalid")' = Errors("invalid") /\ Handled' = Handled
      BY <1>8, <1>9, <2>1
  <2> QED
      BY <1>4, <1>11, <2>1, <2>2 DEF CountersAgree
<1> QED
    BY <1>12, <1>13, <1>14, <1>15, <1>16

BatchInv == BatchTypes /\ Shared /\ Answers /\ SeenGrows /\ CountersAgree

\* Nothing but the five answers touches the store and the counters.
LEMMA BatchInvariance == BatchInv /\ [Next]_vars => BatchInv'
PROOF
<1> SUFFICES ASSUME BatchTypes, Shared, Answers, SeenGrows, CountersAgree, [Next]_vars
             PROVE  SeenGrows' /\ CountersAgree'
    BY SharedInvariance, AnswersInvariance DEF BatchInv
<1>1. ASSUME urls' = urls, UNCHANGED <<results, errs, seen, counts>>
      PROVE  SeenGrows' /\ CountersAgree'
  <2>1. Accepted' = Accepted /\ Indices' = Indices
      BY <1>1 DEF Accepted, Indices
  <2>2. SeenGrows'
      BY <1>1, <2>1 DEF SeenGrows
  <2>3. /\ Successes' = Successes /\ Handled' = Handled
        /\ Errors("duplicate")' = Errors("duplicate") /\ Errors("invalid")' = Errors("invalid")
      BY <1>1, <2>1 DEF Successes, Handled, Errors
  <2> QED
      BY <1>1, <2>1, <2>2, <2>3 DEF CountersAgree
<1>2. CASE Send \/ CloseJobs \/ Return \/ Cancel \/ Returned \/ UNCHANGED vars
    BY <1>1, <1>2 DEF Send, CloseJobs, Return, Cancel, Returned, vars, batchVars, workerVars
<1>3. ASSUME NEW w \in Worker, Receive(w) \/ WorkerExit(w) PROVE SeenGrows' /\ CountersAgree'
    BY <1>1, <1>3 DEF Receive, WorkerExit, batchVars
<1>4. ASSUME NEW w \in Worker, CheckContext(w) \/ ProcessJob(w)
      PROVE  SeenGrows' /\ CountersAgree'
  <2>1. /\ urls' = urls
        /\ \/ UNCHANGED <<holds, results, errs, seen, counts>>
           \/ /\ holds' = [holds EXCEPT ![w] = 0]
              /\ \/ Accepts(holds[w]) \/ Repeats(holds[w]) \/ Rejects(holds[w])
                 \/ Fails(holds[w]) \/ Cancels(holds[w])
      BY <1>4, WorkerAnswers
  <2>2. worker[w] \in {"check", "process"}
      BY <1>4 DEF CheckContext, ProcessJob
  <2>3. PICK i \in 1..taken : i = holds[w]
      BY <2>2 DEF Shared
  <2>4. Len(urls) \in Nat /\ taken \in Nat
      BY BatchIsSequence
  <2>5. i \in 1..Len(urls)
      BY <2>3, <2>4 DEF BatchTypes
  <2>6. Untouched(i)
      BY <2>3, <2>5 DEF Answers, Held
  <2>7. CASE UNCHANGED <<holds, results, errs, seen, counts>>
      BY <1>1, <2>1, <2>7
  <2>8. CASE \/ Accepts(holds[w]) \/ Repeats(holds[w]) \/ Rejects(holds[w])
             \/ Fails(holds[w]) \/ Cancels(holds[w])
      BY <2>1, <2>3, <2>5, <2>6, <2>8, SeenStep, CountersStep
  <2> QED
      BY <2>1, <2>7, <2>8
<1> QED
    BY <1>2, <1>3, <1>4 DEF Next, WorkerNext

\* When ProcessBatch returns, its workers have let go of all indices.
LEMMA AllAnswered ==
    ASSUME BatchInv, caller = "returned"
    PROVE  \A i \in Indices : Verdict(i)
PROOF
<1>1. \A w \in Worker : worker[w] = "exited"
    BY DEF BatchInv, Shared
<1>2. taken = sent /\ sent = Len(urls)
    BY <1>1, FrontierAssumption DEF BatchInv, BatchTypes, Shared
<1>3. \A w \in Worker : holds[w] = 0
    BY <1>1 DEF BatchInv, Shared
<1>4. Len(urls) \in Nat /\ Indices = 1..Len(urls)
    BY BatchIsSequence DEF BatchInv
<1>5. \A i \in 1..Len(urls) : i <= taken /\ ~Held(i)
    BY <1>2, <1>3, <1>4 DEF Held
<1> QED
    BY <1>4, <1>5 DEF BatchInv, Answers

\* The invariant holds at the start.
LEMMA BatchInit == Init => BatchInv
PROOF
<1>1. ASSUME Init PROVE Answers
  <2>1. urls \in Seq(Url \union {Malformed})
      BY <1>1, FrontierAssumption DEF Init
  <2>2. \A i \in 1..Len(urls) : ~(i <= taken) /\ Untouched(i)
      BY <1>1, <2>1 DEF Init, Untouched
  <2> QED
      BY <2>2 DEF Answers
<1> QED
    BY <1>1, SharedInit, SeenInit, CountersInit DEF BatchInv

\* Whatever the workers' order, ProcessBatch returns for each URL an accepted one or
\* an error, and if neither the store nor a cancellation got in the way, it has
\* accepted each acceptable URL that the store did not have, once, and the counters
\* agree (ProcessBatch and Process).
THEOREM BatchAnsweredHolds == Spec => []BatchAnswered
PROOF
<1>1. Init => BatchInv
    BY BatchInit
<1>2. BatchInv => BatchAnswered
  <2> SUFFICES ASSUME BatchInv, caller = "returned"
               PROVE  BatchAnswered
      BY DEF BatchAnswered
  <2>1. \A i \in Indices : Verdict(i)
      BY AllAnswered
  <2>2. \A i \in Indices : (results[i] = {}) # (errs[i] = None)
      BY <2>1 DEF Verdict, None
  <2>3. ASSUME \A i \in Indices : errs[i] \notin {"cancelled", "store"}
        PROVE  /\ \E old \in OldUrls :
                     Accepted = Acceptable \ old /\ seen = Acceptable \union old
               /\ Cardinality(Successes) = Cardinality(Accepted)
               /\ counts.ValidCount = Cardinality(Accepted)
               /\ counts.ProcessedCount = Len(urls)
               /\ counts.ValidCount + counts.DuplicateCount + counts.InvalidCount
                     = Len(urls)
    <3>1. PICK old \in OldUrls : Accepted \intersect old = {} /\ seen = old \union Accepted
        BY <2>3 DEF BatchInv, SeenGrows
    <3>2. Accepted \subseteq Acceptable
      <4> SUFFICES ASSUME NEW url \in Accepted PROVE url \in Acceptable
          OBVIOUS
      <4>1. PICK i \in Indices : url \in results[i]
          BY DEF Accepted
      <4> QED
          BY <2>1, <4>1 DEF Verdict, Acceptable, Parsed
    <3>3. Acceptable \subseteq seen
      <4> SUFFICES ASSUME NEW url \in Acceptable PROVE url \in seen
          OBVIOUS
      <4>1. PICK i \in Indices : urls[i] # Malformed /\ url = Normalize(urls[i]) /\ IsValid(url)
          BY DEF Acceptable, Parsed
      <4> QED
          BY <2>1, <2>3, <4>1 DEF Verdict
    <3>4. Accepted = Acceptable \ old /\ seen = Acceptable \union old
        BY <3>1, <3>2, <3>3
    <3>5. /\ counts["ValidCount"] = Cardinality(Accepted)
          /\ counts["ValidCount"] = Cardinality(Successes)
          /\ counts["DuplicateCount"] = Cardinality(Errors("duplicate"))
          /\ counts["InvalidCount"] = Cardinality(Errors("invalid"))
          /\ counts["ProcessedCount"] = Cardinality(Handled)
        BY DEF BatchInv, CountersAgree
    <3>6. IsFiniteSet(Indices) /\ Cardinality(Indices) = Len(urls)
        BY IndicesFinite DEF BatchInv
    <3>7. Handled = Indices
        BY <2>1, <2>3 DEF Handled, Verdict
    <3>8. PICK good, twice, bad :
            good = Successes /\ twice = Errors("duplicate") /\ bad = Errors("invalid")
        OBVIOUS
    <3>9. /\ good \intersect twice = {} /\ (good \union twice) \intersect bad = {}
          /\ (good \union twice) \union bad = Indices
      <4>1. \A i \in Indices : \/ results[i] # {} /\ errs[i] = None
                               \/ results[i] = {} /\ errs[i] = "duplicate"
                               \/ results[i] = {} /\ errs[i] = "invalid"
          BY <2>1, <2>3 DEF Verdict
      <4> QED
          BY <3>8, <4>1 DEF Successes, Errors, None
    <3>10. IsFiniteSet(good) /\ IsFiniteSet(twice) /\ IsFiniteSet(bad)
        BY <3>6, <3>9, FS_Subset
    <3>11. /\ IsFiniteSet(good \union twice)
           /\ Cardinality(good \union twice) = Cardinality(good) + Cardinality(twice)
      <4>1. /\ IsFiniteSet(good \union twice)
            /\ Cardinality(good \union twice)
                  = Cardinality(good) + Cardinality(twice) - Cardinality({})
          BY <3>9, <3>10, FS_Union
      <4>2. Cardinality(good) \in Nat /\ Cardinality(twice) \in Nat /\ Cardinality({}) = 0
          BY <3>10, FS_CardinalityType, FS_EmptySet
      <4> QED
          BY <4>1, <4>2
    <3>12. Cardinality(Indices) = Cardinality(good) + Cardinality(twice) + Cardinality(bad)
      <4>1. Cardinality((good \union twice) \union bad)
              = Cardinality(good \union twice) + Cardinality(bad) - Cardinality({})
          BY <3>9, <3>10, <3>11, FS_Union
      <4>2. /\ Cardinality(good \union twice) \in Nat /\ Cardinality(bad) \in Nat
            /\ Cardinality({}) = 0
          BY <3>10, <3>11, FS_CardinalityType, FS_EmptySet
      <4>3. Cardinality((good \union twice) \union bad)
              = Cardinality(good \union twice) + Cardinality(bad)
          BY <4>1, <4>2
      <4>4. Cardinality(Indices) = Cardinality(good \union twice) + Cardinality(bad)
          BY <3>9, <4>3
      <4> QED
          BY <3>11, <4>4
    <3> QED
        BY <3>1, <3>4, <3>5, <3>6, <3>7, <3>8, <3>12
  <2> QED
      BY <2>2, <2>3 DEF BatchAnswered, Successes
<1> QED
    BY <1>1, <1>2, BatchInvariance, PTL DEF Spec

-----------------------------------------------------------------------------
(* Normalization is stable *)

Names == DOMAIN Decode
PlainNames == {name \in Names : Decode[name] = name}
ProperOf(T) == {name \in T : Proper(name)}

\* The names of a decoded path have nothing left to decode.
LEMMA DecodedNames ==
    ASSUME NEW path \in Seq(Seq(Names))
    PROVE  Decoded(path) \in Seq(PlainNames)
PROOF
<1>1. Joined(path) \in Seq(Names)
    BY JoinedElements
<1>2. \A i \in 1..Len(Joined(path)) : Joined(path)[i] \in Names
    BY <1>1
<1>3. \A name \in Names : Decode[name] \in PlainNames
    BY DecodeAssumption DEF PlainNames, Names
<1> QED
    BY <1>1, <1>2, <1>3 DEF Decoded

\* The cleaned prefixes of some names, up to the whole.
Cleanings(T, names) ==
    {part \in [0..Len(names) -> Seq(ProperOf(T))] :
        /\ part[0] = <<>>
        /\ Cleaned(names) = IF part[Len(names)] = <<>> THEN <<"">> ELSE part[Len(names)]
        /\ \A n \in 0..(Len(names) - 1) : part[n + 1] = AddName(part[n], names[n + 1])}

\* A name adds itself, takes the last one away, or does nothing.
LEMMA AddNameKeeps ==
    ASSUME NEW T, NEW v \in Seq(ProperOf(T)), NEW name \in T
    PROVE  AddName(v, name) \in Seq(ProperOf(T))
PROOF
<1>1. CASE name = ".." /\ v # <<>>
  <2>1. AddName(v, name) = Front(v)
      BY <1>1 DEF AddName
  <2>2. Front(v) \in Seq(ProperOf(T))
    <3>1. Len(v) \in Nat /\ Len(v) # 0 /\ \A i \in 1..Len(v) : v[i] \in ProperOf(T)
        BY <1>1
    <3>2. 1 \in 1..(Len(v) + 1) /\ Len(v) - 1 \in 0..Len(v)
        BY <3>1
    <3> QED
        BY <3>1, <3>2 DEF Front
  <2> QED
      BY <2>1, <2>2
<1>2. CASE ~(name = ".." /\ v # <<>>) /\ Proper(name)
  <2>1. name \in ProperOf(T)
      BY <1>2 DEF ProperOf
  <2>2. AddName(v, name) = Append(v, name)
      BY <1>2 DEF AddName
  <2> QED
      BY <2>1, <2>2
<1>3. CASE ~(name = ".." /\ v # <<>>) /\ ~Proper(name)
    BY <1>3 DEF AddName
<1> QED
    BY <1>1, <1>2, <1>3

\* Cleaning goes from name to name.
LEMMA CleanedGrows ==
    ASSUME NEW T, NEW names \in Seq(T)
    PROVE  Cleanings(T, names) # {}
PROOF
<1> DEFINE N == Len(names)
           V == Seq(ProperOf(T))
           Value(i, v) == AddName(v, names[i])
           Body(f, s) == IF s = {} THEN <<>> ELSE Value(Max(s), f[s \ {Max(s)}])
           Iter == CHOOSE f : f = [s \in SUBSET (1..N) |-> Body(f, s)]
           step == [i \in 1..N |-> [v \in V |-> Value(i, v)]]
<1>1. N \in Nat /\ DOMAIN names = 1..N /\ \A i \in 1..N : names[i] \in T
    OBVIOUS
<1>2. Cleaned(names) = IF Iter[1..N] = <<>> THEN <<"">> ELSE Iter[1..N]
    BY <1>1 DEF Cleaned, FoldLeft, MapThenFoldSet
<1> HIDE DEF N
<1>3. step \in [1..N -> [V -> V]] /\ <<>> \in V
  <2>1. \A i \in 1..N, v \in V : AddName(v, names[i]) \in V
      BY <1>1, AddNameKeeps
  <2> QED
      BY <2>1
<1> HIDE DEF V
<1>4. \A i \in 1..N, v \in V : step[i][v] = Value(i, v)
    OBVIOUS
<1> HIDE DEF step, Value
<1>5. PICK f : f \in Foldings(1..N, V, <<>>, step, LastOf(N))
  <2>1. Foldings(1..N, V, <<>>, step, LastOf(N)) # {}
      BY <1>1, <1>3, LeftFoldingExists
  <2> QED
      BY <2>1
<1>6. f = [s \in SUBSET (1..N) |-> Body(f, s)]
  <2>1. /\ f \in [SUBSET (1..N) -> V]
        /\ \A s \in SUBSET (1..N) :
              f[s] = IF s = {} THEN <<>> ELSE step[Max(s)][f[s \ {Max(s)}]]
      BY <1>5 DEF Foldings, LastOf
  <2>2. ASSUME NEW s \in SUBSET (1..N), s # {} PROVE f[s] = Value(Max(s), f[s \ {Max(s)}])
    <3>1. Max(s) \in 1..N /\ s \ {Max(s)} \in SUBSET (1..N)
        BY <1>1, <2>2, MaxOfIndices
    <3> QED
        BY <1>4, <2>1, <2>2, <3>1
  <2> QED
      BY <2>1, <2>2
<1>7. Iter = [s \in SUBSET (1..N) |-> Body(Iter, s)]
  <2> HIDE DEF Body
  <2> QED
      BY <1>6
<1> HIDE DEF Iter
<1>8. Iter[{}] = <<>>
  <2>1. Iter[{}] = Body(Iter, {})
    <3> HIDE DEF Body
    <3> QED
        BY <1>7
  <2> QED
      BY <2>1
<1>9. ASSUME NEW s \in SUBSET (1..N), s # {}, Iter[s \ {Max(s)}] \in V
      PROVE  Iter[s] = step[Max(s)][Iter[s \ {Max(s)}]]
  <2>1. Max(s) \in 1..N
      BY <1>1, <1>9, MaxOfIndices
  <2>2. Iter[s] = Body(Iter, s)
    <3> HIDE DEF Body
    <3> QED
        BY <1>7
  <2> QED
      BY <1>4, <1>9, <2>1, <2>2
<1>10. PICK part \in PrefixValues(N, V, <<>>, step) : Iter[1..N] = part[N]
  <2>1. Iter[1..N] \in Folded(N, V, <<>>, step)
      BY <1>1, <1>3, <1>8, <1>9, FoldedPrefixes
  <2> QED
      BY <2>1 DEF Folded
<1>11. /\ part \in [0..N -> V] /\ part[0] = <<>>
       /\ \A n \in 0..(N - 1) : part[n + 1] = step[n + 1][part[n]]
    BY <1>10 DEF PrefixValues
<1>12. \A n \in 0..(N - 1) : part[n + 1] = Value(n + 1, part[n])
  <2> TAKE n \in 0..(N - 1)
  <2>1. n + 1 \in 1..N /\ n \in 0..N
      BY <1>1
  <2> QED
      BY <1>4, <1>11, <2>1
<1>13. part \in Cleanings(T, names)
    BY <1>2, <1>10, <1>11, <1>12 DEF N, V, Value, Cleanings
<1> QED
    BY <1>13

\* Proper names stay as they are.
LEMMA ProperIsClean ==
    ASSUME NEW T, NEW names \in Seq(ProperOf(T)), names # <<>>
    PROVE  Cleaned(names) = names
PROOF
<1> DEFINE N == Len(names)
           U == ProperOf(T)
<1>1. N \in Nat /\ DOMAIN names = 1..N /\ \A i \in 1..N : names[i] \in U /\ Proper(names[i])
    BY DEF ProperOf
<1>2. PICK part \in [0..N -> Seq(ProperOf(U))] :
        /\ part[0] = <<>>
        /\ Cleaned(names) = IF part[N] = <<>> THEN <<"">> ELSE part[N]
        /\ \A n \in 0..(N - 1) : part[n + 1] = AddName(part[n], names[n + 1])
  <2>1. names \in Seq(U)
      OBVIOUS
  <2> HIDE DEF U
  <2> QED
      BY <2>1, CleanedGrows DEF Cleanings
<1>3. part \in [0..N -> Seq(U)] /\ part[0] = <<>> /\ names \in Seq(U)
  <2>1. ProperOf(U) = U
      BY DEF ProperOf
  <2> HIDE DEF U, N
  <2>2. part \in [0..N -> Seq(U)] /\ part[0] = <<>>
      BY <1>2, <2>1
  <2> QED
      BY <2>2 DEF U
<1> HIDE DEF N, U
<1> DEFINE A == {n \in 0..N : Len(part[n]) = n /\ \A i \in 1..n : part[n][i] = names[i]}
<1>4. 0 \in A
  <2>1. 0 \in 0..N
      BY <1>1
  <2> QED
      BY <1>3, <2>1
<1>5. ASSUME NEW n \in 0..(N - 1), n \in A PROVE n + 1 \in A
  <2>1. n + 1 \in 0..N /\ n + 1 \in 1..N /\ part[n] \in Seq(U)
      BY <1>1, <1>3
  <2>2. Len(part[n]) = n /\ \A i \in 1..n : part[n][i] = names[i]
      BY <1>5
  <2>3. Proper(names[n + 1]) /\ names[n + 1] \in U
      BY <1>1, <2>1
  <2>4. part[n + 1] = Append(part[n], names[n + 1])
      BY <1>2, <2>3 DEF AddName, Proper
  <2>5. /\ Len(part[n + 1]) = n + 1 /\ part[n + 1][n + 1] = names[n + 1]
        /\ \A i \in 1..n : part[n + 1][i] = part[n][i]
      BY <2>1, <2>2, <2>3, <2>4, AppendProperties
  <2> QED
      BY <2>1, <2>2, <2>5
<1>6. N \in A
  <2> HIDE DEF A
  <2>1. \A n \in 0..N : n \in A
      BY <1>1, <1>4, <1>5, InductionUpTo
  <2> QED
      BY <1>1, <2>1
<1>7. part[N] = names
  <2>1. part[N] \in Seq(U) /\ N \in 0..N
      BY <1>1, <1>3
  <2>2. Len(part[N]) = Len(names) /\ \A i \in 1..Len(names) : part[N][i] = names[i]
      BY <1>6 DEF N
  <2> QED
      BY <1>3, <2>1, <2>2, SeqEqual
<1> QED
    BY <1>2, <1>7

\* The root is clean.
LEMMA RootIsClean == Cleaned(<<"">>) = <<"">>
PROOF
<1>1. <<"">> \in Seq({""}) /\ Len(<<"">>) = 1
    OBVIOUS
<1>2. PICK part : part \in Cleanings({""}, <<"">>)
    BY <1>1, CleanedGrows
<1>3. part[1] = AddName(part[0], "") /\ part[0] = <<>>
  <2>1. /\ part[0] = <<>>
        /\ \A n \in 0..(Len(<<"">>) - 1) : part[n + 1] = AddName(part[n], <<"">>[n + 1])
      BY <1>2 DEF Cleanings
  <2>2. 0 \in 0..(Len(<<"">>) - 1) /\ 0 + 1 = 1 /\ <<"">>[1] = ""
      OBVIOUS
  <2>3. part[0 + 1] = AddName(part[0], <<"">>[0 + 1])
      BY <2>1, <2>2
  <2> QED
      BY <2>1, <2>2, <2>3
<1>4. part[1] = <<>>
    BY <1>3 DEF AddName, Proper
<1> QED
    BY <1>1, <1>2, <1>4 DEF Cleanings

\* What is cleaned is clean: proper names, or the root.
LEMMA CleanedIsClean ==
    ASSUME NEW T, NEW names \in Seq(T)
    PROVE  /\ Cleaned(Cleaned(names)) = Cleaned(names)
           /\ Cleaned(names) = <<"">> \/ Cleaned(names) \in Seq(ProperOf(T))
PROOF
<1>1. PICK part : part \in Cleanings(T, names)
    BY CleanedGrows
<1>2. Len(names) \in 0..Len(names)
    OBVIOUS
<1>3. /\ part[Len(names)] \in Seq(ProperOf(T))
      /\ Cleaned(names) = IF part[Len(names)] = <<>> THEN <<"">> ELSE part[Len(names)]
    BY <1>1, <1>2 DEF Cleanings
<1>4. CASE part[Len(names)] = <<>>
    BY <1>3, <1>4, RootIsClean
<1>5. CASE part[Len(names)] # <<>>
    BY <1>3, <1>5, ProperIsClean
<1> QED
    BY <1>4, <1>5

\* The elements that CleanPath writes are one name each.
LEMMA JoinedSingles ==
    ASSUME NEW T, NEW names \in Seq(T)
    PROVE  Joined([i \in DOMAIN names |-> <<names[i]>>]) = names
PROOF
<1> DEFINE N == Len(names)
           seqs == [i \in DOMAIN names |-> <<names[i]>>]
<1>1. N \in Nat /\ DOMAIN names = 1..N /\ \A i \in 1..N : names[i] \in T
    OBVIOUS
<1>2. /\ seqs \in Seq(Seq(T)) /\ Len(seqs) = N
      /\ \A i \in 1..N : seqs[i] = <<names[i]>>
    BY <1>1
<1> HIDE DEF seqs, N
<1>3. PICK part \in [0..N -> Seq(T)] :
        /\ part[0] = <<>> /\ Joined(seqs) = part[N]
        /\ \A n \in 0..(N - 1) : part[n + 1] = part[n] \o seqs[n + 1]
    BY <1>2, JoinedGrows
<1> DEFINE A == {n \in 0..N : Len(part[n]) = n /\ \A i \in 1..n : part[n][i] = names[i]}
<1>4. 0 \in A
  <2>1. 0 \in 0..N
      BY <1>1
  <2> QED
      BY <1>3, <2>1
<1>5. ASSUME NEW n \in 0..(N - 1), n \in A PROVE n + 1 \in A
  <2>1. n + 1 \in 0..N /\ n + 1 \in 1..N /\ part[n] \in Seq(T) /\ names[n + 1] \in T
      BY <1>1, <1>3
  <2>2. Len(part[n]) = n /\ \A i \in 1..n : part[n][i] = names[i]
      BY <1>5
  <2>3. part[n + 1] = part[n] \o <<names[n + 1]>>
      BY <1>2, <1>3, <2>1
  <2>4. Len(part[n + 1]) = n + 1
      BY <2>1, <2>2, <2>3
  <2>5. part[n + 1][n + 1] = names[n + 1]
    <3>1. PICK last : last = <<names[n + 1]>>
        OBVIOUS
    <3>2. last \in Seq(T) /\ Len(last) = 1 /\ last[1] = names[n + 1]
        BY <2>1, <3>1
    <3>3. part[n + 1] = part[n] \o last
        BY <2>3, <3>1
    <3>4. n + 1 \in 1..(Len(part[n]) + Len(last)) /\ ~(n + 1 <= Len(part[n]))
          /\ (n + 1) - Len(part[n]) = 1
        BY <2>1, <2>2, <3>2
    <3>5. part[n + 1][n + 1] = last[(n + 1) - Len(part[n])]
      <4>1. \A i \in 1..(Len(part[n]) + Len(last)) :
              (part[n] \o last)[i] = IF i <= Len(part[n]) THEN part[n][i]
                                     ELSE last[i - Len(part[n])]
          BY <2>1, <3>2, ConcatProperties
      <4> QED
          BY <3>3, <3>4, <4>1
    <3> QED
        BY <3>2, <3>4, <3>5
  <2>6. \A i \in 1..n : part[n + 1][i] = part[n][i]
      BY <2>1, <2>2, <2>3
  <2> QED
      BY <2>1, <2>2, <2>4, <2>5, <2>6
<1>6. N \in A
  <2> HIDE DEF A
  <2>1. \A n \in 0..N : n \in A
      BY <1>1, <1>4, <1>5, InductionUpTo
  <2> QED
      BY <1>1, <2>1
<1>7. part[N] = names
  <2>1. part[N] \in Seq(T) /\ N \in 0..N
      BY <1>1, <1>3
  <2>2. Len(part[N]) = Len(names) /\ \A i \in 1..Len(names) : part[N][i] = names[i]
      BY <1>6 DEF N
  <2> QED
      BY <2>1, <2>2, SeqEqual
<1> QED
    BY <1>3, <1>7 DEF seqs

\* A cleaned path is clean: it was clean, or it is written anew, a name for an element.
LEMMA CleanPathIsStable ==
    ASSUME NEW path \in Seq(Seq(Names))
    PROVE  CleanPath(CleanPath(path)) = CleanPath(path)
PROOF
<1> DEFINE cleaned == Cleaned(Decoded(path))
           written == [i \in DOMAIN cleaned |-> <<cleaned[i]>>]
<1>1. CASE path = <<>> \/ cleaned = Decoded(path)
    BY <1>1 DEF CleanPath
<1>2. CASE ~(path = <<>> \/ cleaned = Decoded(path))
  <2>1. CleanPath(path) = written
      BY <1>2 DEF CleanPath
  <2>2. cleaned \in Seq(PlainNames)
    <3>1. Decoded(path) \in Seq(PlainNames)
        BY DecodedNames
    <3>2. cleaned = <<"">> \/ cleaned \in Seq(ProperOf(PlainNames))
        BY <3>1, CleanedIsClean
    <3>3. "" \in PlainNames /\ ProperOf(PlainNames) \subseteq PlainNames
        BY DecodeAssumption DEF PlainNames, Names, ProperOf
    <3> HIDE DEF cleaned
    <3>4. CASE cleaned \in Seq(ProperOf(PlainNames))
      <4>1. PICK S : S = ProperOf(PlainNames)
          OBVIOUS
      <4>2. S \subseteq PlainNames /\ cleaned \in Seq(S)
          BY <3>3, <3>4, <4>1
      <4>3. \A i \in 1..Len(cleaned) : cleaned[i] \in S
          BY <4>2
      <4> QED
          BY <4>2, <4>3
    <3>5. CASE cleaned = <<"">>
      <4>1. PICK empty \in PlainNames : empty = ""
          BY <3>3
      <4>2. <<empty>> \in Seq(PlainNames)
        <5>1. \A S : \A element \in S : <<element>> \in Seq(S)
            OBVIOUS
        <5> QED
            BY <4>1, <5>1
      <4> QED
          BY <3>5, <4>1, <4>2
    <3> QED
        BY <3>2, <3>4, <3>5
  <2>3. Cleaned(cleaned) = cleaned
      BY DecodedNames, CleanedIsClean
  <2> HIDE DEF cleaned
  <2>4. Joined(written) = cleaned
      BY <2>2, JoinedSingles
  <2>5. Decoded(written) = cleaned
    <3>1. \A i \in DOMAIN cleaned : Decode[cleaned[i]] = cleaned[i]
        BY <2>2 DEF PlainNames
    <3>2. cleaned = [i \in DOMAIN cleaned |-> cleaned[i]]
        BY <2>2
    <3> HIDE DEF written
    <3> QED
        BY <2>4, <3>1, <3>2 DEF Decoded
  <2>6. CleanPath(written) = written
    <3> HIDE DEF written
    <3> QED
        BY <2>3, <2>5 DEF CleanPath
  <2> QED
      BY <2>1, <2>6
<1> QED
    BY <1>1, <1>2

ParamOrder == {pair \in Parameter \X Parameter : InOrder(pair[1], pair[2])}

\* Parameters are in the order of their keys, and with one key in that of their values.
LEMMA ParamsAreOrdered == StrictOrder(ParamOrder, Parameter)
PROOF
<1>1. \A p, q \in Parameter : <<p, q>> \in ParamOrder <=>
        p.key < q.key \/ (p.key = q.key /\ p.value < q.value)
    BY DEF ParamOrder, InOrder, ByKeyAndValue
<1>2. \A p \in Parameter : p.key \in Nat /\ p.value \in Nat
    BY DEF Parameter
<1>3. \A p, q \in Parameter : p.key = q.key /\ p.value = q.value => p = q
    BY DEF Parameter
<1>4. \A p \in Parameter : <<p, p>> \notin ParamOrder
    BY <1>1, <1>2
<1>5. \A p, q \in Parameter : p = q \/ <<p, q>> \in ParamOrder \/ <<q, p>> \in ParamOrder
  <2> TAKE p, q \in Parameter
  <2>1. CASE p.key = q.key
    <3>1. p.value = q.value \/ p.value < q.value \/ q.value < p.value
        BY <1>2
    <3> QED
        BY <1>1, <1>3, <2>1, <3>1
  <2>2. CASE p.key # q.key
      BY <1>1, <1>2, <2>2
  <2> QED
      BY <2>1, <2>2
<1>6. ASSUME NEW p \in Parameter, NEW q \in Parameter, NEW r \in Parameter,
             <<p, q>> \in ParamOrder, <<q, r>> \in ParamOrder
      PROVE  <<p, r>> \in ParamOrder
    BY <1>1, <1>2, <1>6
<1> QED
    BY <1>4, <1>5, <1>6 DEF StrictOrder

\* A query that was sorted and filtered stays as it is.
LEMMA QueryIsStable ==
    ASSUME NEW params \in Seq(Parameter)
    PROVE  LET query == processQueryParameters(params)
           IN  processQueryParameters(query) = query /\ SortQueryParams(query) = query
PROOF
<1> DEFINE kept == KeptParams(params)
           query == processQueryParameters(params)
<1>1. /\ kept \in Seq(Parameter)
      /\ ToSet(kept) = ToSet(params) \cap {param \in ToSet(params) : KeptParam(param)}
    BY OnlyElements DEF KeptParams
<1>2. \A seq : SortQueryParams(seq) = SortBy(seq, ParamOrder)
    BY DEF SortQueryParams, ParamOrder
<1>3. query = SortBy(kept, ParamOrder)
    BY <1>2 DEF processQueryParameters
<1> HIDE DEF kept
<1>4. /\ query \in Seq(Parameter) /\ ToSet(query) = ToSet(kept)
      /\ Sorted(query, ParamOrder)
    BY <1>1, <1>3, ParamsAreOrdered, SortByElements
<1> HIDE DEF query
<1>5. \A param \in ToSet(query) : KeptParam(param)
    BY <1>1, <1>4
<1>6. KeptParams(query) = query
  <2>1. ToSet(query) \subseteq {param \in ToSet(query) : KeptParam(param)}
      BY <1>5
  <2> QED
      BY <1>4, <2>1, OnlyElements DEF KeptParams
<1>7. SortBy(query, ParamOrder) = query
    BY <1>4, ParamsAreOrdered, SortByIsStable
<1>8. SortQueryParams(query) = query /\ processQueryParameters(query) = query
    BY <1>2, <1>6, <1>7 DEF processQueryParameters
<1> QED
    BY <1>8 DEF query

\* What normalization makes of a URL, by component.
LEMMA NormalizeFields ==
    ASSUME NEW url \in Url
    PROVE  Normalize(url) =
             [scheme |-> url.scheme, host |-> url.host, upper |-> FALSE,
              port |-> RemoveDefaultPort(url.port, url.scheme), path |-> CleanPath(url.path),
              params |-> IF url.badQuery THEN url.params ELSE processQueryParameters(url.params),
              badQuery |-> url.badQuery, forceQuery |-> url.forceQuery, fragment |-> FALSE]
PROOF
<1> DEFINE port == RemoveDefaultPort(url.port, url.scheme)
           path == CleanPath(url.path)
           params == IF url.badQuery THEN url.params ELSE processQueryParameters(url.params)
<1>1. url = [scheme |-> url.scheme, host |-> url.host, upper |-> url.upper,
             port |-> url.port, path |-> url.path, params |-> url.params,
             badQuery |-> url.badQuery, forceQuery |-> url.forceQuery,
             fragment |-> url.fragment]
    BY DEF Url
<1>2. Normalize(url) = [url EXCEPT !.upper = FALSE, !.port = port, !.path = path,
                                   !.params = params, !.fragment = FALSE]
    BY DEF Normalize
<1> HIDE DEF port, path, params
<1>3. Normalize(url) = [scheme |-> url.scheme, host |-> url.host, upper |-> FALSE, port |-> port,
                        path |-> path, params |-> params, badQuery |-> url.badQuery,
                        forceQuery |-> url.forceQuery, fragment |-> FALSE]
    BY <1>1, <1>2
<1> QED
    BY <1>3 DEF port, path, params

\* Normalizing what is normalized changes nothing, nor does canonicalizing it.
LEMMA NormalizeIsStable ==
    ASSUME NEW url \in Url
    PROVE  /\ Normalize(Normalize(url)) = Normalize(url)
           /\ Canonicalize(Normalize(url)) = Normalize(url)
PROOF
<1> DEFINE port == RemoveDefaultPort(url.port, url.scheme)
           path == CleanPath(url.path)
           params == IF url.badQuery THEN url.params ELSE processQueryParameters(url.params)
<1>1. Normalize(url) = [scheme |-> url.scheme, host |-> url.host, upper |-> FALSE, port |-> port,
                        path |-> path, params |-> params, badQuery |-> url.badQuery,
                        forceQuery |-> url.forceQuery, fragment |-> FALSE]
    BY NormalizeFields
<1>2. RemoveDefaultPort(port, url.scheme) = port
    BY DEF RemoveDefaultPort
<1>3. CleanPath(path) = path
    BY CleanPathIsStable DEF Url, Names
<1>4. ~url.badQuery => processQueryParameters(params) = params /\ SortQueryParams(params) = params
    BY QueryIsStable DEF Url
<1> HIDE DEF port, path, params
<1>5. PICK result : result = Normalize(url)
    OBVIOUS
<1>6. /\ result.scheme = url.scheme /\ result.upper = FALSE /\ result.port = port
      /\ result.path = path /\ result.params = params /\ result.badQuery = url.badQuery
      /\ result.fragment = FALSE
    BY <1>1, <1>5
<1>7. Normalize(result) = [result EXCEPT !.upper = FALSE, !.port = port, !.path = path,
                                         !.params = params, !.fragment = FALSE]
    BY <1>2, <1>3, <1>4, <1>6 DEF Normalize
<1>8. Canonicalize(result) = [result EXCEPT !.upper = FALSE, !.port = port, !.path = path,
                                         !.params = params, !.fragment = FALSE]
    BY <1>2, <1>3, <1>4, <1>6 DEF Canonicalize
<1>9. [result EXCEPT !.upper = FALSE, !.port = port, !.path = path,
                                         !.params = params, !.fragment = FALSE] = result
  <2>1. PICK no : no = FALSE
      OBVIOUS
  <2>2. PICK scheme, host, badQuery, forceQuery :
          result = [scheme |-> scheme, host |-> host, upper |-> no, port |-> port,
                    path |-> path, params |-> params, badQuery |-> badQuery,
                    forceQuery |-> forceQuery, fragment |-> no]
      BY <1>1, <1>5, <2>1
  <2>3. [result EXCEPT !.upper = no, !.port = port, !.path = path,
                       !.params = params, !.fragment = no] = result
    <3>1. result.upper = no /\ result.port = port /\ result.path = path
          /\ result.params = params /\ result.fragment = no
        BY <2>2
    <3>2. result = [field \in DOMAIN result |-> result[field]]
        BY <2>2
    <3>3. [result EXCEPT !.upper = no, !.port = port, !.path = path,
                       !.params = params, !.fragment = no]
           = [field \in DOMAIN result |-> result[field]]
        BY <3>1, Zenon
    <3> QED
        BY <3>2, <3>3
  <2> QED
      BY <2>1, <2>3
<1> QED
    BY <1>5, <1>7, <1>8, <1>9

\* An accepted URL is what normalization makes of itself, and what a link's resolution
\* makes of it, whatever the configuration (Process, Normalize and Canonicalize).
THEOREM AcceptedIsStableHolds == Spec => []AcceptedIsStable
PROOF
<1>1. Init => BatchInv
    BY BatchInit
<1>2. BatchInv => AcceptedIsStable
  <2> SUFFICES ASSUME BatchInv, NEW url \in Accepted
               PROVE  Normalize(url) = url /\ Canonicalize(url) = url
      BY DEF AcceptedIsStable
  <2>1. Indices = 1..Len(urls)
      BY BatchIsSequence DEF BatchInv
  <2>2. PICK i \in 1..Len(urls) : url \in results[i]
      BY <2>1 DEF Accepted
  <2>3. Verdict(i)
      BY <2>2 DEF BatchInv, Answers, Untouched
  <2>4. urls[i] # Malformed /\ url = Normalize(urls[i])
      BY <2>2, <2>3 DEF Verdict
  <2>5. urls[i] \in Url
    <3>1. urls \in Seq(Url \union {Malformed})
        BY FrontierAssumption DEF BatchInv, BatchTypes
    <3>2. urls[i] \in Url \union {Malformed}
        BY <3>1
    <3> QED
        BY <2>4, <3>2
  <2> QED
      BY <2>4, <2>5, NormalizeIsStable
<1> QED
    BY <1>1, <1>2, BatchInvariance, PTL DEF Spec

-----------------------------------------------------------------------------
(* What of a path stays *)

Ups(names, i, j) == Cardinality({k \in i + 1..j : names[k] = ".."})
Downs(names, i, j) == Cardinality({k \in i + 1..j : Proper(names[k])})
StaysUpto(names, n, i) ==
    /\ Proper(names[i])
    /\ \A j \in i + 1..n : Ups(names, i, j) <= Downs(names, i, j)

\* A name that stays to the end.
LEMMA StaysToTheEnd ==
    ASSUME NEW names, NEW i
    PROVE  Stays(names, i) <=> StaysUpto(names, Len(names), i)
PROOF
    BY DEF Stays, StaysUpto, Count, Ups, Downs

\* One number more in an interval.
LEMMA CountOneMore ==
    ASSUME NEW P, NEW i \in Nat, NEW n \in Nat, i <= n
    PROVE  /\ Cardinality({k \in i + 1..n : k \in P}) \in Nat
           /\ Cardinality({k \in i + 1..n + 1 : k \in P})
                = Cardinality({k \in i + 1..n : k \in P}) + IF n + 1 \in P THEN 1 ELSE 0
PROOF
<1> DEFINE A == {k \in i + 1..n : k \in P}
           B == {k \in i + 1..n + 1 : k \in P}
<1>1. IsFiniteSet(A)
  <2>1. IsFiniteSet(i + 1..n) /\ A \in SUBSET (i + 1..n)
      BY FS_Interval
  <2> QED
      BY <2>1, FS_Subset
<1>2. i + 1..n + 1 = (i + 1..n) \union {n + 1} /\ n + 1 \notin A
    OBVIOUS
<1>3. B = IF n + 1 \in P THEN A \union {n + 1} ELSE A
    BY <1>2
<1> HIDE DEF A, B
<1>4. Cardinality(A) \in Nat
    BY <1>1, FS_CardinalityType
<1>5. Cardinality(A \union {n + 1}) = Cardinality(A) + 1
    BY <1>1, <1>2, FS_AddElement
<1>6. Cardinality(B) = Cardinality(A) + IF n + 1 \in P THEN 1 ELSE 0
    BY <1>3, <1>4, <1>5
<1> QED
    BY <1>4, <1>6 DEF A, B

\* How the counts grow from name to name.
LEMMA CountsGrow ==
    ASSUME NEW names, NEW i \in Nat, NEW n \in Nat, i <= n
    PROVE  /\ Ups(names, i, n) \in Nat /\ Downs(names, i, n) \in Nat
           /\ Ups(names, i, n + 1) = Ups(names, i, n) + IF names[n + 1] = ".." THEN 1 ELSE 0
           /\ Downs(names, i, n + 1)
                = Downs(names, i, n) + IF Proper(names[n + 1]) THEN 1 ELSE 0
           /\ Ups(names, i, i) = 0 /\ Downs(names, i, i) = 0
PROOF
<1> DEFINE U == {k \in Int : names[k] = ".."}
           D == {k \in Int : Proper(names[k])}
<1>1. \A j \in Nat : /\ {k \in i + 1..j : names[k] = ".."} = {k \in i + 1..j : k \in U}
                     /\ {k \in i + 1..j : Proper(names[k])} = {k \in i + 1..j : k \in D}
    OBVIOUS
<1>2. n + 1 \in Nat /\ i + 1..i = {}
    OBVIOUS
<1>3. /\ names[n + 1] = ".." <=> n + 1 \in U
      /\ Proper(names[n + 1]) <=> n + 1 \in D
    OBVIOUS
<1>4. \A j \in Nat : /\ Ups(names, i, j) = Cardinality({k \in i + 1..j : k \in U})
                     /\ Downs(names, i, j) = Cardinality({k \in i + 1..j : k \in D})
    BY <1>1 DEF Ups, Downs
<1> HIDE DEF U, D
<1>5. /\ Cardinality({k \in i + 1..n : k \in U}) \in Nat
      /\ Cardinality({k \in i + 1..n + 1 : k \in U})
            = Cardinality({k \in i + 1..n : k \in U}) + IF n + 1 \in U THEN 1 ELSE 0
    BY CountOneMore
<1>6. /\ Cardinality({k \in i + 1..n : k \in D}) \in Nat
      /\ Cardinality({k \in i + 1..n + 1 : k \in D})
            = Cardinality({k \in i + 1..n : k \in D}) + IF n + 1 \in D THEN 1 ELSE 0
    BY CountOneMore
<1>7. Ups(names, i, n) \in Nat /\ Downs(names, i, n) \in Nat
    BY <1>4, <1>5, <1>6
<1>8. Ups(names, i, n + 1) = Ups(names, i, n) + IF names[n + 1] = ".." THEN 1 ELSE 0
    BY <1>2, <1>3, <1>4, <1>5
<1>9. Downs(names, i, n + 1) = Downs(names, i, n) + IF Proper(names[n + 1]) THEN 1 ELSE 0
    BY <1>2, <1>3, <1>4, <1>6
<1>10. Ups(names, i, i) = 0 /\ Downs(names, i, i) = 0
    BY <1>2, FS_EmptySet DEF Ups, Downs
<1> QED
    BY <1>7, <1>8, <1>9, <1>10

\* Whether a name stays, one name later.
LEMMA StaysGrows ==
    ASSUME NEW names, NEW n \in Nat
    PROVE  /\ \A i \in 1..n : StaysUpto(names, n + 1, i) <=>
                 StaysUpto(names, n, i) /\ Ups(names, i, n + 1) <= Downs(names, i, n + 1)
           /\ StaysUpto(names, n + 1, n + 1) <=> Proper(names[n + 1])
           /\ \A i \in 1..n : StaysUpto(names, n, i) => Ups(names, i, n) <= Downs(names, i, n)
PROOF
<1>1. \A i \in 1..n : i + 1..n + 1 = (i + 1..n) \union {n + 1}
    OBVIOUS
<1>2. (n + 1) + 1..n + 1 = {}
    OBVIOUS
<1>3. ASSUME NEW i \in 1..n, StaysUpto(names, n, i) PROVE Ups(names, i, n) <= Downs(names, i, n)
  <2>1. CASE i = n
    <3>1. Ups(names, i, i) = 0 /\ Downs(names, i, i) = 0
        BY CountsGrow
    <3> QED
        BY <2>1, <3>1
  <2>2. CASE i # n
    <3>1. n \in i + 1..n
        BY <2>2
    <3> QED
        BY <1>3, <3>1 DEF StaysUpto
  <2> QED
      BY <2>1, <2>2
<1> QED
    BY <1>1, <1>2, <1>3 DEF StaysUpto

\* The names that stay among the first n, each as high as there are names on it.
Stacks(names, n, v) ==
    {list \in ListingsOf(names, {i \in 1..n : StaysUpto(names, n, i)}, v) :
        \A m \in 1..Len(list) :
            Downs(names, list[m], n) - Ups(names, list[m], n) = Len(list) - m}

\* One name more is put on the stack, takes the highest away, or does nothing.
LEMMA StackStep ==
    ASSUME NEW T, NEW names \in Seq(T), NEW n \in Nat, n + 1 \in 1..Len(names),
           NEW v \in Seq(T), Stacks(names, n, v) # {}
    PROVE  Stacks(names, n + 1, AddName(v, names[n + 1])) # {}
PROOF
<1> DEFINE P == {i \in 1..n : StaysUpto(names, n, i)}
           Q == {i \in 1..(n + 1) : StaysUpto(names, n + 1, i)}
           name == names[n + 1]
           height(i, j) == Downs(names, i, j) - Ups(names, i, j)
<1>1. PICK list \in ListingsOf(names, P, v) :
        \A m \in 1..Len(list) : height(list[m], n) = Len(list) - m
    BY DEF Stacks
<1>2. /\ list \in Seq(1..Len(names)) /\ ToSet(list) = P /\ Len(list) = Len(v)
      /\ Increasing(list)
    BY DEF ListingsOf
<1>3. PICK N \in Nat : N = Len(list) /\ N = Len(v)
    BY <1>2
<1>4. \A m \in 1..N : list[m] \in P /\ list[m] \in 1..n
  <2>1. DOMAIN list = 1..N
      BY <1>2, <1>3
  <2> QED
      BY <1>2, <2>1 DEF ToSet
<1>5. \A i \in P : \E m \in 1..N : list[m] = i
  <2>1. DOMAIN list = 1..N
      BY <1>2, <1>3
  <2> QED
      BY <1>2, <2>1 DEF ToSet
<1>6. ASSUME NEW i \in 1..n
      PROVE  /\ Ups(names, i, n) \in Nat /\ Downs(names, i, n) \in Nat
             /\ Ups(names, i, n + 1) = Ups(names, i, n) + IF name = ".." THEN 1 ELSE 0
             /\ Downs(names, i, n + 1) = Downs(names, i, n) + IF Proper(name) THEN 1 ELSE 0
  <2>1. i \in Nat /\ i <= n
      OBVIOUS
  <2> QED
      BY <2>1, CountsGrow
<1>7. ~(name = ".." /\ Proper(name))
    BY DEF Proper
<1>8. ASSUME NEW i \in 1..n
      PROVE  /\ i \in Q <=> i \in P /\ Ups(names, i, n + 1) <= Downs(names, i, n + 1)
             /\ i \in P => Ups(names, i, n) <= Downs(names, i, n)
  <2>1. i \in 1..(n + 1)
      OBVIOUS
  <2> QED
      BY <2>1, StaysGrows
<1>9. /\ n + 1 \in Q <=> Proper(name)
      /\ P \in SUBSET (1..n) /\ Q \in SUBSET ((1..n) \union {n + 1}) /\ n + 1 \notin 1..n
  <2>1. n + 1 \in 1..(n + 1) /\ 1..(n + 1) = (1..n) \union {n + 1} /\ n + 1 \notin 1..n
      OBVIOUS
  <2>2. n + 1 \in Q <=> Proper(name)
      BY <2>1, StaysGrows
  <2> QED
      BY <2>1, <2>2
<1> SUFFICES \E l \in ListingsOf(names, Q, AddName(v, name)) :
                 \A m \in 1..Len(l) : height(l[m], n + 1) = Len(l) - m
    BY DEF Stacks
<1> HIDE DEF P, Q
<1>10. CASE Proper(name)
  <2>1. Q = P \union {n + 1}
    <3>1. \A i \in 1..n : i \in P => i \in Q
        BY <1>6, <1>7, <1>8, <1>10
    <3> QED
        BY <1>8, <1>9, <1>10, <3>1
  <2>2. AddName(v, name) = Append(v, name)
      BY <1>7, <1>10 DEF AddName
  <2> DEFINE l == Append(list, n + 1)
  <2>3. l \in ListingsOf(names, Q, AddName(v, name))
      BY <1>9, <2>1, <2>2, ListingAppend
  <2>4. /\ Len(l) = N + 1 /\ l[N + 1] = n + 1
        /\ \A m \in 1..N : l[m] = list[m]
      BY <1>2, <1>3, AppendProperties
  <2> HIDE DEF l
  <2>5. height(n + 1, n + 1) = 0
    <3>1. Ups(names, n + 1, n + 1) = 0 /\ Downs(names, n + 1, n + 1) = 0
        BY CountsGrow, n + 1 \in Nat
    <3> QED
        BY <3>1
  <2>6. \A m \in 1..N : height(list[m], n + 1) = (N + 1) - m
    <3> TAKE m \in 1..N
    <3>1. list[m] \in 1..n /\ height(list[m], n) = N - m
        BY <1>1, <1>3, <1>4
    <3>2. /\ Downs(names, list[m], n + 1) = Downs(names, list[m], n) + 1
          /\ Ups(names, list[m], n + 1) = Ups(names, list[m], n) + 0
          /\ Ups(names, list[m], n) \in Nat /\ Downs(names, list[m], n) \in Nat
        BY <1>6, <1>7, <1>10, <3>1
    <3> QED
        BY <3>1, <3>2
  <2>7. \A m \in 1..(N + 1) : height(l[m], n + 1) = (N + 1) - m
    <3> TAKE m \in 1..(N + 1)
    <3>1. m \in 1..N \/ m = N + 1
        OBVIOUS
    <3> HIDE DEF height
    <3>2. m \in 1..N => height(l[m], n + 1) = (N + 1) - m
        BY <2>4, <2>6
    <3>3. m = N + 1 => height(l[m], n + 1) = (N + 1) - m
        BY <2>4, <2>5
    <3> QED
        BY <3>1, <3>2, <3>3
  <2> HIDE DEF height
  <2> QED
      BY <2>3, <2>4, <2>7
<1>11. CASE name = ".." /\ v = <<>>
  <2>1. N = 0
      BY <1>3, <1>11
  <2>2. P = {}
      BY <1>5, <2>1
  <2>3. Q = {}
      BY <1>7, <1>8, <1>9, <1>11, <2>2
  <2>4. AddName(v, name) = v
      BY <1>7, <1>11 DEF AddName
  <2>5. list \in ListingsOf(names, Q, AddName(v, name))
      BY <2>2, <2>3, <2>4
  <2>6. 1..Len(list) = {}
      BY <1>3, <2>1
  <2> HIDE DEF height
  <2> QED
      BY <2>5, <2>6
<1>12. CASE name = ".." /\ v # <<>>
  <2>1. AddName(v, name) = Front(v)
      BY <1>12 DEF AddName
  <2> DEFINE l == Front(list)
  <2>2. /\ l \in ListingsOf(names, P \ {list[N]}, Front(v))
        /\ Len(l) = N - 1 /\ N # 0
        /\ \A m \in 1..(N - 1) : l[m] = list[m]
    <3>1. /\ l \in ListingsOf(names, P \ {list[Len(list)]}, Front(v))
          /\ Len(l) = Len(list) - 1
          /\ \A m \in 1..(Len(list) - 1) : l[m] = list[m]
          /\ Len(list) \in Nat \ {0}
        BY <1>12, ListingFront
    <3> HIDE DEF l
    <3> QED
        BY <1>3, <3>1
  <2> HIDE DEF l
  <2>3. ASSUME NEW m \in 1..N
        PROVE  /\ list[m] \in P /\ list[m] \in 1..n
               /\ height(list[m], n + 1) = (N - 1) - m
               /\ list[m] \in Q <=> m # N
    <3>1. list[m] \in 1..n /\ list[m] \in P /\ height(list[m], n) = N - m
        BY <1>1, <1>3, <1>4
    <3>2. /\ Downs(names, list[m], n + 1) = Downs(names, list[m], n) + 0
          /\ Ups(names, list[m], n + 1) = Ups(names, list[m], n) + 1
          /\ Ups(names, list[m], n) \in Nat /\ Downs(names, list[m], n) \in Nat
        BY <1>6, <1>7, <1>12, <3>1
    <3>3. height(list[m], n + 1) = (N - 1) - m
        BY <3>1, <3>2
    <3>4. Ups(names, list[m], n + 1) <= Downs(names, list[m], n + 1) <=> m # N
        BY <3>1, <3>2
    <3> QED
        BY <1>8, <3>1, <3>3, <3>4
  <2>4. N \in 1..N /\ \A m \in 1..(N - 1) : m \in 1..N
      BY <2>2
  <2>5. Q = P \ {list[N]}
    <3>1. ASSUME NEW i \in Q PROVE i \in P /\ i # list[N]
      <4>1. i \in 1..n /\ i \in P
          BY <1>7, <1>8, <1>9, <1>12, <3>1
      <4>2. list[N] \notin Q
          BY <2>3, <2>4
      <4> QED
          BY <3>1, <4>1, <4>2
    <3>2. ASSUME NEW i \in P, i # list[N] PROVE i \in Q
      <4>1. PICK m \in 1..N : list[m] = i
          BY <1>5
      <4> QED
          BY <2>3, <3>2, <4>1
    <3> QED
        BY <3>1, <3>2
  <2> HIDE DEF height
  <2>6. \A m \in 1..(N - 1) : height(l[m], n + 1) = (N - 1) - m
      BY <2>2, <2>3, <2>4
  <2> QED
      BY <2>1, <2>2, <2>5, <2>6
<1>13. CASE name # ".." /\ ~Proper(name)
  <2>1. AddName(v, name) = v
      BY <1>13 DEF AddName
  <2>2. Q = P
    <3>1. \A i \in 1..n : i \in P <=> i \in Q
        BY <1>6, <1>8, <1>13
    <3> QED
        BY <1>9, <1>13, <3>1
  <2>3. \A m \in 1..N : height(list[m], n + 1) = height(list[m], n)
      BY <1>4, <1>6, <1>13
  <2> HIDE DEF height
  <2> QED
      BY <1>1, <1>3, <2>1, <2>2, <2>3
<1> QED
    BY <1>10, <1>11, <1>12, <1>13

\* Of every path, path.Clean (Cleaned) keeps the names that no later ".." climbs over, in
\* their order, and nothing else.
THEOREM CleanedStays ==
    ASSUME NEW T, NEW names \in Seq(T)
    PROVE  LET staying == Only([i \in DOMAIN names |-> IF Stays(names, i) THEN names[i] ELSE ""],
                               {name \in ToSet(names) : Proper(name)})
           IN  Cleaned(names) = IF staying = <<>> THEN <<"">> ELSE staying
PROOF
<1> DEFINE N == Len(names)
           S == {name \in ToSet(names) : Proper(name)}
           marked == [i \in DOMAIN names |-> IF Stays(names, i) THEN names[i] ELSE ""]
           places == {i \in 1..N : Stays(names, i)}
<1>1. /\ N \in Nat /\ DOMAIN names = 1..N
      /\ \A i \in 1..N : names[i] \in T /\ names[i] \in ToSet(names)
    BY DEF ToSet
<1>2. PICK part \in [0..N -> Seq(ProperOf(T))] :
        /\ part[0] = <<>>
        /\ Cleaned(names) = IF part[N] = <<>> THEN <<"">> ELSE part[N]
        /\ \A n \in 0..(N - 1) : part[n + 1] = AddName(part[n], names[n + 1])
    BY CleanedGrows DEF Cleanings
<1>3. \A n \in 0..N : part[n] \in Seq(T)
  <2>1. PICK U : U = ProperOf(T) /\ U \subseteq T
      BY DEF ProperOf
  <2> HIDE DEF N
  <2> TAKE n \in 0..N
  <2>2. part[n] \in Seq(U)
      BY <1>2, <2>1
  <2>3. \A i \in 1..Len(part[n]) : part[n][i] \in U
      BY <2>2
  <2> QED
      BY <2>1, <2>2, <2>3
<1> HIDE DEF N
<1> DEFINE A == {n \in 0..N : Stacks(names, n, part[n]) # {}}
<1>4. 0 \in A
  <2>1. 0 \in 0..N /\ {i \in 1..0 : StaysUpto(names, 0, i)} = {}
      BY <1>1
  <2>2. <<>> \in ListingsOf(names, {}, <<>>)
    <3>1. <<>> \in Seq(1..Len(names)) /\ Len(<<>>) = 0
        OBVIOUS
    <3> QED
        BY <3>1, ToSetEmpty DEF ListingsOf, Increasing
  <2>3. <<>> \in Stacks(names, 0, <<>>)
      BY <2>1, <2>2 DEF Stacks
  <2> QED
      BY <1>2, <2>1, <2>3
<1>5. ASSUME NEW n \in 0..(N - 1), n \in A PROVE n + 1 \in A
  <2>1. n \in Nat /\ n \in 0..N /\ n + 1 \in 0..N /\ n + 1 \in 1..Len(names)
      BY <1>1 DEF N
  <2>2. part[n] \in Seq(T) /\ Stacks(names, n, part[n]) # {}
      BY <1>3, <1>5, <2>1
  <2>3. Stacks(names, n + 1, AddName(part[n], names[n + 1])) # {}
      BY <2>1, <2>2, StackStep
  <2> QED
      BY <1>2, <2>1, <2>3
<1>6. Stacks(names, N, part[N]) # {}
  <2> HIDE DEF A
  <2>1. \A n \in 0..N : n \in A
      BY <1>1, <1>4, <1>5, InductionUpTo
  <2>2. N \in A
      BY <1>1, <2>1
  <2> QED
      BY <2>2 DEF A
<1>7. PICK list : list \in ListingsOf(names, places, part[N])
  <2>1. {i \in 1..N : StaysUpto(names, N, i)} = places
      BY StaysToTheEnd DEF N
  <2> QED
      BY <1>6, <2>1 DEF Stacks
<1>8. /\ marked \in Seq(T \union {""}) /\ Len(marked) = N
      /\ \A i \in 1..N : marked[i] = IF Stays(names, i) THEN names[i] ELSE ""
  <2>1. \A i \in 1..N : marked[i] = IF Stays(names, i) THEN names[i] ELSE ""
      BY <1>1
  <2>2. \A i \in 1..N : marked[i] \in T \union {""}
      BY <1>1, <2>1
  <2>3. marked \in [1..N -> T \union {""}]
      BY <1>1, <2>2
  <2> HIDE DEF marked
  <2>4. ASSUME NEW V, NEW w \in [1..N -> V] PROVE w \in Seq(V) /\ Len(w) = N
      BY <1>1, <2>4
  <2> QED
      BY <2>1, <2>3, <2>4
<1>9. {i \in 1..N : marked[i] \in S} = places
    BY <1>1, <1>8 DEF Stays, Proper
<1>10. PICK other : other \in ListingsOf(marked, places, Only(marked, S))
  <2> HIDE DEF marked, S, places
  <2> QED
      BY <1>8, <1>9, OnlyPlaces
<1> HIDE DEF marked, S
<1>11. /\ list \in Seq(1..N) /\ Increasing(list) /\ ToSet(list) = places
       /\ Len(list) = Len(part[N])
       /\ \A m \in 1..Len(part[N]) : part[N][m] = names[list[m]]
    BY <1>7 DEF ListingsOf, N
<1>12. /\ other \in Seq(1..N) /\ Increasing(other) /\ ToSet(other) = places
       /\ Len(other) = Len(Only(marked, S))
       /\ \A m \in 1..Len(Only(marked, S)) : Only(marked, S)[m] = marked[other[m]]
    BY <1>8, <1>10 DEF ListingsOf, N
<1> HIDE DEF places
<1>13. list = other
  <2>1. \A q \in Seq(1..N) : q \in Seq(Nat)
      BY <1>1
  <2> QED
      BY <1>11, <1>12, <2>1, OneListing
<1>14. \A m \in 1..Len(list) : list[m] \in 1..N /\ Stays(names, list[m])
  <2>1. DOMAIN list = 1..Len(list)
      BY <1>11
  <2> QED
      BY <1>11, <2>1 DEF ToSet, places
<1>15. Only(marked, S) = part[N]
  <2>1. Only(marked, S) \in Seq(T \union {""}) /\ part[N] \in Seq(T \union {""})
    <3>1. part[N] \in Seq(T)
        BY <1>1, <1>3
    <3>2. Only(marked, S) \in Seq(T \union {""})
        BY <1>8, OnlyElements
    <3>3. ASSUME NEW V, T \subseteq V, NEW w \in Seq(T) PROVE w \in Seq(V)
      <4>1. \A i \in 1..Len(w) : w[i] \in T
          OBVIOUS
      <4> QED
          BY <3>3, <4>1
    <3>4. T \subseteq T \union {""}
        OBVIOUS
    <3> QED
        BY <3>1, <3>2, <3>3, <3>4
  <2>2. Len(Only(marked, S)) = Len(part[N])
      BY <1>11, <1>12, <1>13
  <2>3. \A m \in 1..Len(Only(marked, S)) : Only(marked, S)[m] = part[N][m]
    <3> TAKE m \in 1..Len(Only(marked, S))
    <3>1. m \in 1..Len(list) /\ m \in 1..Len(part[N])
        BY <1>11, <1>12, <1>13
    <3>2. Only(marked, S)[m] = marked[list[m]]
        BY <1>12, <1>13
    <3>3. marked[list[m]] = names[list[m]]
        BY <1>8, <1>14, <3>1
    <3> QED
        BY <1>11, <3>1, <3>2, <3>3
  <2> QED
      BY <2>1, <2>2, <2>3, SeqEqual
<1> QED
    BY <1>2, <1>15 DEF marked, S

-----------------------------------------------------------------------------
(* Normalization tells resources apart *)

\* What remains of a path, in the terms of Resource.
Remaining(names) ==
    Only([i \in DOMAIN names |-> IF Stays(names, i) THEN names[i] ELSE ""],
         {name \in ToSet(names) : Proper(name)})

Singles(names) == [i \in DOMAIN names |-> <<names[i]>>]

\* What remains are proper names.
LEMMA RemainingIsProper ==
    ASSUME NEW T, NEW names \in Seq(T)
    PROVE  /\ Remaining(names) \in Seq(T \union {""})
           /\ \A i \in 1..Len(Remaining(names)) : Proper(Remaining(names)[i])
PROOF
<1> DEFINE S == {name \in ToSet(names) : Proper(name)}
           marked == [i \in DOMAIN names |-> IF Stays(names, i) THEN names[i] ELSE ""]
           V == T \union {""}
<1>1. marked \in Seq(V)
  <2>1. DOMAIN names = 1..Len(names) /\ Len(names) \in Nat
      OBVIOUS
  <2>2. \A i \in 1..Len(names) : names[i] \in T
      OBVIOUS
  <2>3. \A i \in DOMAIN names : marked[i] \in V
      BY <2>1, <2>2
  <2>4. marked \in [1..Len(names) -> V]
      BY <2>1, <2>3
  <2> HIDE DEF marked, V
  <2> QED
      BY <2>1, <2>4
<1> HIDE DEF marked, V, S
<1>2. Only(marked, S) \in Seq(V) /\ ToSet(Only(marked, S)) \subseteq S
    BY <1>1, OnlyElements
<1>3. DOMAIN Only(marked, S) = 1..Len(Only(marked, S))
    BY <1>2
<1>4. \A i \in 1..Len(Only(marked, S)) : Only(marked, S)[i] \in S
    BY <1>2, <1>3 DEF ToSet
<1>5. \A name \in S : Proper(name)
    BY DEF S
<1> QED
    BY <1>2, <1>4, <1>5 DEF Remaining, marked, S, V

\* A path is cleaned to what remains of it, one name for an element.
LEMMA SameRemains ==
    ASSUME NEW T, NEW s \in Seq(T), NEW t \in Seq(T)
    PROVE  Singles(Cleaned(s)) = Singles(Cleaned(t)) <=> Remaining(s) = Remaining(t)
PROOF
<1>1. \A names \in Seq(T) :
        /\ Cleaned(names) = IF Remaining(names) = <<>> THEN <<"">> ELSE Remaining(names)
        /\ Remaining(names) \in Seq(T \union {""})
        /\ \A i \in 1..Len(Remaining(names)) : Proper(Remaining(names)[i])
    BY CleanedStays, RemainingIsProper DEF Remaining
<1>2. ASSUME NEW names \in Seq(T) PROVE Remaining(names) # <<"">>
  <2>1. ASSUME NEW name, \A i \in 1..Len(<<name>>) : Proper(<<name>>[i]) PROVE Proper(name)
    <3>1. 1 \in 1..Len(<<name>>)
        OBVIOUS
    <3>2. Proper(<<name>>[1])
        BY <2>1, <3>1
    <3> QED
        BY <3>2
  <2>2. \A name : Remaining(names) = <<name>> => Proper(name)
      BY <1>1, <2>1
  <2> QED
      BY <2>2 DEF Proper
<1>3. Cleaned(s) = Cleaned(t) <=> Remaining(s) = Remaining(t)
    BY <1>1, <1>2
<1>4. ASSUME Singles(Cleaned(s)) = Singles(Cleaned(t)) PROVE Cleaned(s) = Cleaned(t)
  <2>1. Cleaned(s) \in Seq(T \union {""}) /\ Cleaned(t) \in Seq(T \union {""})
    <3>1. \A V : \A element \in V : <<element>> \in Seq(V)
        OBVIOUS
    <3>2. "" \in T \union {""}
        OBVIOUS
    <3>3. <<"">> \in Seq(T \union {""})
        BY <3>1, <3>2
    <3> QED
        BY <1>1, <3>3
  <2>2. PICK a, b : a = Cleaned(s) /\ b = Cleaned(t)
      OBVIOUS
  <2>3. PICK V : a \in Seq(V) /\ b \in Seq(V)
      BY <2>1, <2>2
  <2>4. DOMAIN Singles(a) = DOMAIN a /\ DOMAIN Singles(b) = DOMAIN b
      BY DEF Singles
  <2>5. DOMAIN a = DOMAIN b
      BY <1>4, <2>2, <2>4
  <2>6. \A i \in DOMAIN a : a[i] = b[i]
    <3> TAKE i \in DOMAIN a
    <3>1. Singles(a)[i] = <<a[i]>> /\ Singles(b)[i] = <<b[i]>>
        BY <2>5 DEF Singles
    <3>2. <<a[i]>> = <<b[i]>>
        BY <1>4, <2>2, <3>1
    <3> QED
        BY <3>2
  <2>7. Len(a) = Len(b) /\ \A i \in 1..Len(a) : a[i] = b[i]
      BY <2>3, <2>5, <2>6
  <2> QED
      BY <2>2, <2>3, <2>7, SeqEqual
<1> QED
    BY <1>3, <1>4

\* A plain path is its names, one for an element, and is cleaned to what remains of them.
LEMMA PlainPath ==
    ASSUME NEW url \in Url, Plain(url)
    PROVE  /\ Joined(url.path) \in Seq(Names)
           /\ CleanPath(url.path) = Singles(Cleaned(Joined(url.path)))
PROOF
<1> DEFINE path == url.path
           names == [i \in DOMAIN path |-> path[i][1]]
<1>1. path \in Seq(Seq(Names))
    BY DEF Url, Names
<1>2. path # <<>> /\ \A i \in DOMAIN path : Len(path[i]) = 1 /\ Decode[path[i][1]] = path[i][1]
    BY DEF Plain
<1> HIDE DEF path
<1>3. /\ Len(path) \in Nat /\ DOMAIN path = 1..Len(path)
      /\ \A i \in 1..Len(path) : path[i] \in Seq(Names)
    BY <1>1
<1>4. \A i \in 1..Len(path) : path[i][1] \in Names /\ path[i] = <<path[i][1]>>
  <2> TAKE i \in 1..Len(path)
  <2>1. PICK element \in Seq(Names) : element = path[i]
      BY <1>3
  <2>2. Len(element) = 1
      BY <1>2, <1>3, <2>1
  <2>3. element[1] \in Names /\ element = <<element[1]>>
    <3>1. PICK name \in Names : name = element[1]
        BY <2>2
    <3>2. PICK single : single = <<name>>
        OBVIOUS
    <3>3. single \in Seq(Names) /\ Len(single) = 1 /\ single[1] = name
        BY <3>2
    <3>4. \A k \in 1..Len(element) : element[k] = single[k]
        BY <2>2, <3>1, <3>3
    <3>5. element = single
        BY <2>2, <3>3, <3>4, SeqEqual
    <3> QED
        BY <3>1, <3>2, <3>5
  <2> QED
      BY <2>1, <2>3
<1>5. names \in [1..Len(path) -> Names]
    BY <1>3, <1>4
<1>6. names \in Seq(Names) /\ DOMAIN names = DOMAIN path
    BY <1>3, <1>5
<1>7. \A i \in DOMAIN path : names[i] = path[i][1]
    OBVIOUS
<1> HIDE DEF names
<1>8. path = [i \in DOMAIN names |-> <<names[i]>>]
  <2>1. path = [i \in DOMAIN path |-> path[i]]
      BY <1>1
  <2>2. \A i \in DOMAIN path : path[i] = <<names[i]>>
      BY <1>3, <1>4, <1>7
  <2> QED
      BY <1>6, <2>1, <2>2
<1>9. Joined(path) = names
    BY <1>6, <1>8, JoinedSingles
<1>10. Decoded(path) = names
  <2>1. \A i \in DOMAIN names : Decode[names[i]] = names[i]
      BY <1>2, <1>6, <1>7
  <2>2. names = [i \in DOMAIN names |-> names[i]]
      BY <1>6
  <2> QED
      BY <1>9, <2>1, <2>2 DEF Decoded
<1>11. CleanPath(path) = Singles(Cleaned(names))
  <2>1. CASE Cleaned(names) = names
      BY <1>8, <1>10, <2>1 DEF CleanPath, Singles
  <2>2. CASE Cleaned(names) # names
      BY <1>2, <1>10, <2>2 DEF CleanPath, Singles
  <2> QED
      BY <2>1, <2>2
<1> QED
    BY <1>6, <1>9, <1>11 DEF path

\* Any two plain URLs that Normalize makes the same denote one resource; and if they are of
\* the web and denote one resource, Normalize makes them the same.
THEOREM NormalizeTellsResources ==
    ASSUME NEW u \in Url, NEW v \in Url, Plain(u), Plain(v)
    PROVE  /\ Normalize(u) = Normalize(v) => Resource(u) = Resource(v)
           /\ ValidateScheme(u.scheme) /\ Resource(u) = Resource(v) => Normalize(u) = Normalize(v)
PROOF
<1> DEFINE port(url) == RemoveDefaultPort(url.port, url.scheme)
           path(url) == CleanPath(url.path)
           params(url) == processQueryParameters(url.params)
           atPort(url) == IF url.port # "none" THEN url.port
                          ELSE CASE url.scheme = "http" -> "80"
                                 [] url.scheme = "https" -> "443"
                                 [] OTHER -> "unknown"
           remaining(url) == Remaining(Joined(url.path))
           query(url) == ToBag(KeptParams(url.params))
<1>1. /\ u.badQuery = FALSE /\ u.forceQuery = FALSE
      /\ v.badQuery = FALSE /\ v.forceQuery = FALSE
    BY DEF Plain, Url
<1>2. /\ Normalize(u) = [scheme |-> u.scheme, host |-> u.host, upper |-> FALSE, port |-> port(u),
                         path |-> path(u), params |-> params(u), badQuery |-> FALSE,
                         forceQuery |-> FALSE, fragment |-> FALSE]
      /\ Normalize(v) = [scheme |-> v.scheme, host |-> v.host, upper |-> FALSE, port |-> port(v),
                         path |-> path(v), params |-> params(v), badQuery |-> FALSE,
                         forceQuery |-> FALSE, fragment |-> FALSE]
    BY <1>1, NormalizeFields
<1>3. /\ Resource(u) = [scheme |-> u.scheme, host |-> u.host, port |-> atPort(u),
                        path |-> remaining(u), query |-> query(u)]
      /\ Resource(v) = [scheme |-> v.scheme, host |-> v.host, port |-> atPort(v),
                        path |-> remaining(v), query |-> query(v)]
    BY DEF Resource, Remaining
<1>4. path(u) = path(v) <=> remaining(u) = remaining(v)
    BY PlainPath, SameRemains
<1>5. params(u) = params(v) <=> query(u) = query(v)
  <2>1. \A url \in Url : KeptParams(url.params) \in Seq(Parameter)
    <3> TAKE url \in Url
    <3>1. url.params \in Seq(Parameter)
        BY DEF Url
    <3> QED
        BY <3>1, OnlyElements DEF KeptParams
  <2>2. \A url : params(url) = SortBy(KeptParams(url.params), ParamOrder)
      BY DEF processQueryParameters, SortQueryParams, ParamOrder
  <2> QED
      BY <2>1, <2>2, ParamsAreOrdered, SameBagSorted
<1>6. u.scheme = v.scheme /\ port(u) = port(v) => atPort(u) = atPort(v)
    BY DEF RemoveDefaultPort
<1>7. u.scheme = v.scheme /\ ValidateScheme(u.scheme) /\ atPort(u) = atPort(v) => port(u) = port(v)
    BY DEF RemoveDefaultPort, ValidateScheme
<1> HIDE DEF port, path, params, atPort, remaining, query
<1>8. ASSUME Normalize(u) = Normalize(v) PROVE Resource(u) = Resource(v)
  <2>1. /\ u.scheme = v.scheme /\ u.host = v.host /\ port(u) = port(v) /\ path(u) = path(v)
        /\ params(u) = params(v)
      BY <1>2, <1>8
  <2> QED
      BY <1>3, <1>4, <1>5, <1>6, <2>1
<1>9. ASSUME ValidateScheme(u.scheme), Resource(u) = Resource(v) PROVE Normalize(u) = Normalize(v)
  <2>1. /\ u.scheme = v.scheme /\ u.host = v.host /\ atPort(u) = atPort(v)
        /\ remaining(u) = remaining(v) /\ query(u) = query(v)
      BY <1>3, <1>9
  <2> QED
      BY <1>2, <1>4, <1>5, <1>7, <1>9, <2>1
<1> QED
    BY <1>8, <1>9

-----------------------------------------------------------------------------
(* Each URL once *)

WasThere(url) == \E old \in OldUrls : url \in old
Meets(i, url) == urls[i] # Malformed /\ Normalize(urls[i]) = url

\* No two URLs that were accepted are normalized to one; what the store has seen it had,
\* or an URL that is answered was normalized to it; and a duplicate is one of such.
Told ==
    /\ \A i, j \in 1..Len(urls) : i # j /\ results[i] # {} /\ results[j] # {}
          => Normalize(urls[i]) # Normalize(urls[j])
    /\ \A url \in seen : WasThere(url) \/ \E j \in 1..Len(urls) : ~Untouched(j) /\ Meets(j, url)
    /\ \A i \in 1..Len(urls) : errs[i] = "duplicate" =>
          \/ WasThere(Normalize(urls[i]))
          \/ \E j \in 1..Len(urls) : j # i /\ Meets(j, Normalize(urls[i]))

\* Each of the five answers keeps to that.
LEMMA ToldStep ==
    ASSUME BatchTypes, Answers, Told, NEW i \in 1..Len(urls), Untouched(i), urls' = urls,
           Accepts(i) \/ Repeats(i) \/ Rejects(i) \/ Fails(i) \/ Cancels(i)
    PROVE  Told'
PROOF
<1> DEFINE N == Len(urls)
           mine == Normalize(urls[i])
<1>1. /\ seen \subseteq seen'
      /\ \A j \in 1..N : j # i => results'[j] = results[j] /\ errs'[j] = errs[j]
    BY VerdictGiven
<1>2. DOMAIN results = 1..N /\ DOMAIN errs = 1..N /\ results[i] = {} /\ errs[i] = None
    BY DEF BatchTypes, Untouched
<1>3. \/ /\ urls[i] # Malformed /\ mine \notin seen /\ results'[i] = {mine}
         /\ errs'[i] = None /\ seen' = seen \union {mine}
      \/ /\ urls[i] # Malformed /\ mine \in seen /\ results'[i] = {}
         /\ errs'[i] = "duplicate" /\ seen' = seen
      \/ /\ results'[i] = {} /\ errs'[i] = "invalid" /\ seen' = seen
      \/ /\ urls[i] # Malformed /\ results'[i] = {} /\ errs'[i] = "store"
         /\ seen' = seen \/ seen' = seen \union {mine}
      \/ results'[i] = {} /\ errs'[i] = "cancelled" /\ seen' = seen
  <2>1. CASE Accepts(i)
      BY <1>2, <2>1 DEF Accepts, Answer
  <2>2. CASE Repeats(i)
      BY <1>2, <2>2 DEF Repeats, Answer
  <2>3. CASE Rejects(i)
      BY <1>2, <2>3 DEF Rejects, Answer
  <2>4. CASE Fails(i)
      BY <1>2, <2>4 DEF Fails, Answer
  <2>5. CASE Cancels(i)
      BY <1>2, <2>5 DEF Cancels
  <2> QED
      BY <2>1, <2>2, <2>3, <2>4, <2>5
<1>4. ~Untouched(i)'
    BY <1>3 DEF Untouched, None
<1>5. \A j \in 1..N : /\ ~Untouched(j) => ~Untouched(j)'
                      /\ \A url : Meets(j, url)' <=> Meets(j, url)
    BY <1>1, <1>4 DEF Untouched, Meets
<1>6. ASSUME NEW j \in 1..N, results[j] # {} PROVE Normalize(urls[j]) \in seen
  <2>1. Verdict(j)
      BY <1>6 DEF Answers, Untouched
  <2> QED
      BY <1>6, <2>1 DEF Verdict
<1>7. ASSUME NEW j \in 1..N, NEW k \in 1..N, j # k, results'[j] # {}, results'[k] # {}
      PROVE  Normalize(urls[j]) # Normalize(urls[k])
  <2>1. CASE j # i /\ k # i
      BY <1>1, <1>7, <2>1 DEF Told
  <2>2. ASSUME NEW l \in 1..N, l # i, results'[l] # {}, results'[i] # {}
        PROVE  Normalize(urls[l]) # mine
      BY <1>1, <1>3, <1>6, <2>2
  <2> QED
      BY <1>7, <2>1, <2>2
<1>8. ASSUME NEW url \in seen'
      PROVE  WasThere(url) \/ \E j \in 1..N : ~Untouched(j)' /\ Meets(j, url)
  <2>1. CASE url \in seen
      BY <1>5, <2>1 DEF Told
  <2>2. CASE url \notin seen
    <3>1. Meets(i, url)
        BY <1>3, <1>8, <2>2 DEF Meets
    <3> QED
        BY <1>4, <3>1
  <2> QED
      BY <2>1, <2>2
<1>9. ASSUME NEW j \in 1..N, errs'[j] = "duplicate"
      PROVE  \/ WasThere(Normalize(urls[j]))
             \/ \E k \in 1..N : k # j /\ Meets(k, Normalize(urls[j]))
  <2>1. CASE j # i
      BY <1>1, <1>9, <2>1 DEF Told
  <2>2. CASE j = i
    <3>1. mine \in seen
        BY <1>3, <1>9, <2>2 DEF None
    <3>2. WasThere(mine) \/ \E k \in 1..N : ~Untouched(k) /\ Meets(k, mine)
        BY <3>1 DEF Told
    <3> QED
        BY <2>2, <3>2
  <2> QED
      BY <2>1, <2>2
<1>10. ASSUME NEW j \in 1..N, errs'[j] = "duplicate"
       PROVE  \/ \E old \in OldUrls : Normalize(urls[j]) \in old
              \/ \E k \in 1..N : /\ k # j /\ urls[k] # Malformed
                                 /\ Normalize(urls[k]) = Normalize(urls[j])
    BY <1>9, <1>10 DEF WasThere, Meets
<1>11. ASSUME NEW url \in seen'
       PROVE  \/ \E old \in OldUrls : url \in old
              \/ \E j \in 1..N : /\ ~Untouched(j)' /\ urls[j] # Malformed
                                 /\ Normalize(urls[j]) = url
    BY <1>8 DEF WasThere, Meets
<1> QED
    BY <1>7, <1>10, <1>11 DEF Told, WasThere, Meets

\* Nothing else touches it.
LEMMA ToldInvariance == BatchInv /\ Told /\ [Next]_vars => Told'
PROOF
<1> SUFFICES ASSUME BatchTypes, Shared, Answers, Told, [Next]_vars
             PROVE  Told'
    BY DEF BatchInv
<1>1. ASSUME urls' = urls, UNCHANGED <<results, errs, seen>> PROVE Told'
    BY <1>1 DEF Told, WasThere, Meets, Untouched
<1>2. CASE Send \/ CloseJobs \/ Return \/ Cancel \/ Returned \/ UNCHANGED vars
    BY <1>1, <1>2 DEF Send, CloseJobs, Return, Cancel, Returned, vars, batchVars, workerVars
<1>3. ASSUME NEW w \in Worker, Receive(w) \/ WorkerExit(w) PROVE Told'
    BY <1>1, <1>3 DEF Receive, WorkerExit, batchVars
<1>4. ASSUME NEW w \in Worker, CheckContext(w) \/ ProcessJob(w)
      PROVE  Told'
  <2>1. /\ urls' = urls
        /\ \/ UNCHANGED <<holds, results, errs, seen, counts>>
           \/ /\ holds' = [holds EXCEPT ![w] = 0]
              /\ \/ Accepts(holds[w]) \/ Repeats(holds[w]) \/ Rejects(holds[w])
                 \/ Fails(holds[w]) \/ Cancels(holds[w])
      BY <1>4, WorkerAnswers
  <2>2. worker[w] \in {"check", "process"}
      BY <1>4 DEF CheckContext, ProcessJob
  <2>3. PICK i \in 1..taken : i = holds[w]
      BY <2>2 DEF Shared
  <2>4. Len(urls) \in Nat /\ taken \in Nat
      BY BatchIsSequence
  <2>5. i \in 1..Len(urls)
      BY <2>3, <2>4 DEF BatchTypes
  <2>6. Untouched(i)
      BY <2>3, <2>5 DEF Answers, Held
  <2>7. CASE UNCHANGED <<holds, results, errs, seen, counts>>
      BY <1>1, <2>1, <2>7
  <2>8. CASE \/ Accepts(holds[w]) \/ Repeats(holds[w]) \/ Rejects(holds[w])
             \/ Fails(holds[w]) \/ Cancels(holds[w])
      BY <2>1, <2>3, <2>5, <2>6, <2>8, ToldStep
  <2> QED
      BY <2>1, <2>7, <2>8
<1> QED
    BY <1>2, <1>3, <1>4 DEF Next, WorkerNext

\* What is parsed is a URL.
LEMMA ParsedAreUrls ==
    ASSUME BatchInv
    PROVE  Indices = 1..Len(urls) /\ \A i \in Parsed : i \in 1..Len(urls) /\ urls[i] \in Url
PROOF
<1>1. urls \in Seq(Url \union {Malformed})
    BY FrontierAssumption DEF BatchInv, BatchTypes
<1>2. Indices = 1..Len(urls)
    BY BatchIsSequence DEF BatchInv
<1>3. \A i \in 1..Len(urls) : urls[i] \in Url \union {Malformed}
    BY <1>1
<1> QED
    BY <1>2, <1>3 DEF Parsed

\* Of the plainly spelled URLs that denote one resource at most one is accepted, and none
\* is refused as a duplicate but of one that denotes the same, of one that is not spelled
\* plainly, or of what the store had, for all URLs and workers (Normalize and Process).
THEOREM OneOfEachResourceHolds == Spec => []OneOfEachResource
PROOF
<1>1. Init => BatchInv /\ Told
  <2>1. ASSUME Init PROVE Told
    <3>1. urls \in Seq(Url \union {Malformed})
        BY <2>1, FrontierAssumption DEF Init
    <3>2. /\ seen \in OldUrls
          /\ \A i \in 1..Len(urls) : results[i] = {} /\ errs[i] = None
        BY <2>1, <3>1 DEF Init
    <3> QED
        BY <3>2 DEF Told, WasThere, None
  <2> QED
      BY <2>1, BatchInit
<1>2. BatchInv /\ Told => OneOfEachResource
  <2> SUFFICES ASSUME BatchInv, Told, NEW i \in Parsed, Plain(urls[i])
               PROVE  /\ results[i] # {} => \A j \in Parsed \ {i} :
                            Plain(urls[j]) /\ results[j] # {}
                               => Resource(urls[i]) # Resource(urls[j])
                      /\ errs[i] = "duplicate" =>
                            \/ \E j \in Parsed \ {i} :
                                  ~Plain(urls[j]) \/ Resource(urls[i]) = Resource(urls[j])
                            \/ \E old \in OldUrls : Normalize(urls[i]) \in old
      BY DEF OneOfEachResource
  <2>1. \A k \in Parsed : k \in 1..Len(urls) /\ urls[k] \in Url
      BY ParsedAreUrls
  <2>2. ASSUME results[i] # {}, NEW j \in Parsed \ {i}, Plain(urls[j]), results[j] # {}
        PROVE  Resource(urls[i]) # Resource(urls[j])
    <3>1. Verdict(i)
        BY <2>1, <2>2 DEF BatchInv, Answers, Untouched
    <3>2. IsValid(Normalize(urls[i]))
        BY <2>2, <3>1 DEF Verdict
    <3>3. Normalize(urls[i]).scheme = urls[i].scheme
        BY <2>1, NormalizeFields
    <3>4. ValidateScheme(urls[i].scheme)
        BY <3>2, <3>3 DEF IsValid
    <3>5. Normalize(urls[i]) # Normalize(urls[j])
        BY <2>1, <2>2 DEF Told
    <3> QED
        BY <2>1, <2>2, <3>4, <3>5, NormalizeTellsResources
  <2>3. ASSUME errs[i] = "duplicate"
        PROVE  \/ \E j \in Parsed \ {i} :
                     ~Plain(urls[j]) \/ Resource(urls[i]) = Resource(urls[j])
               \/ \E old \in OldUrls : Normalize(urls[i]) \in old
    <3>1. \/ WasThere(Normalize(urls[i]))
          \/ \E j \in 1..Len(urls) : j # i /\ Meets(j, Normalize(urls[i]))
        BY <2>1, <2>3 DEF Told
    <3>2. CASE WasThere(Normalize(urls[i]))
        BY <3>2 DEF WasThere
    <3>3. ASSUME NEW j \in 1..Len(urls), j # i, Meets(j, Normalize(urls[i]))
          PROVE  \E k \in Parsed \ {i} :
                    ~Plain(urls[k]) \/ Resource(urls[i]) = Resource(urls[k])
      <4>1. j \in Parsed \ {i} /\ Normalize(urls[j]) = Normalize(urls[i])
          BY <3>3, ParsedAreUrls DEF Meets, Parsed
      <4>2. Plain(urls[j]) => Resource(urls[i]) = Resource(urls[j])
          BY <2>1, <4>1, NormalizeTellsResources
      <4> QED
          BY <4>1, <4>2
    <3> QED
        BY <3>1, <3>2, <3>3
  <2> QED
      BY <2>2, <2>3
<1> QED
    BY <1>1, <1>2, BatchInvariance, ToldInvariance, PTL DEF Spec
=============================================================================
