--------------------------- MODULE CheckpointProofs ---------------------------
(***************************************************************************)
(* Theorems about Checkpoint: the files, for any crawl, any number of runs *)
(* and any number of periodic saves.                                       *)
(***************************************************************************)
EXTENDS Checkpoint, CoordinatorProofs

-----------------------------------------------------------------------------
(* The files *)

Content == [state: {"whole", "empty", "torn"}, items: SUBSET SavedItem]
SaverPlaces == {"off", "marshalled", "opened", "written", "idle", "saved", "failed"}

DiskTypes ==
    /\ saver \in [Savers -> SaverPlaces]
    /\ fd \in [Savers -> Inode \union {NoInode}]
    /\ DOMAIN snapshot = Savers /\ DOMAIN disk = Inode
    /\ tmp \in Inode \union {NoInode} /\ file \in Inode \union {NoInode}

\* A saver has a file open exactly while it writes, and path.tmp never names
\* the checkpoint.  While no two saves were under way at once, the one there is
\* has its file under the name path.tmp, empty until the snapshot is written.
DiskInv ==
    /\ \A s \in Savers : saver[s] = "opened" <=> fd[s] # NoInode
    /\ tmp # NoInode => tmp # file
    /\ "overlap" \notin mishaps =>
          /\ \A s, t \in Savers : saver[s] \in Saving /\ saver[t] \in Saving => s = t
          /\ \A s \in Savers :
                /\ saver[s] = "opened" => fd[s] = tmp /\ disk[tmp] = Empty
                /\ saver[s] = "written" => tmp # NoInode /\ disk[tmp].state = "whole"
          /\ file # NoInode => disk[file].state = "whole"

\* No inode has the number that stands for none.
LEMMA NoInodeIsNone == NoInode \notin Inode
  BY DiskAssumption DEF NoInode

\* The inode of a new file is one that nobody names or has open.
LEMMA FreeInodeIsFree ==
  ASSUME DiskTypes, tmp = NoInode
  PROVE  FreeInode \in Inode /\ FreeInode \notin {tmp, file} \union Range(fd)
  <1>1. Range(fd) = {fd["loop"], fd["final"]}
    BY DEF DiskTypes, Range, Savers
  <1>2. \E inode \in Inode : inode \notin {file, fd["loop"], fd["final"]}
    BY DiskAssumption DEF DiskTypes, Savers
  <1>3. \E inode \in Inode : inode \notin {tmp, file} \union Range(fd)
    BY <1>1, <1>2, NoInodeIsNone
  <1> QED
    BY <1>3 DEF FreeInode

LEMMA DiskInit == CInit => DiskTypes /\ DiskInv
  BY DEF CInit, DiskTypes, DiskInv, SaverPlaces, Savers, Saving

\* What a step of a save, or anything else, does to the files.
LEMMA DiskStep == DiskTypes /\ DiskInv /\ [CNext]_allVars => (DiskTypes /\ DiskInv)'
  <1> SUFFICES ASSUME DiskTypes, DiskInv, [CNext]_allVars PROVE (DiskTypes /\ DiskInv)'
    OBVIOUS
  <1> USE DEF DiskTypes, DiskInv, SaverPlaces, Saving, saveVars, diskVars, historyVars
  <1>0. "loop" \in Savers /\ "final" \in Savers /\ NoInode \notin Inode
    BY NoInodeIsNone DEF Savers
  <1>1. CASE UNCHANGED <<saveVars, diskVars>> /\ mishaps \subseteq mishaps'
    BY <1>1
  <1>2. ASSUME NEW s \in Savers, saver[s] \in {"off", "idle"}, TakeSnapshot(s)
        PROVE  (DiskTypes /\ DiskInv)'
    BY <1>2 DEF TakeSnapshot
  <1>3. ASSUME NEW s \in Savers, OpenTmp(s) PROVE (DiskTypes /\ DiskInv)'
    <2> DEFINE inode == IF tmp = NoInode THEN FreeInode ELSE tmp
    <2>1. inode \in Inode /\ inode # file
      BY <1>0, FreeInodeIsFree
    <2> HIDE DEF inode
    <2>2. /\ saver[s] = "marshalled" /\ saver' = [saver EXCEPT ![s] = "opened"]
          /\ tmp' = inode /\ fd' = [fd EXCEPT ![s] = inode]
          /\ disk' = [disk EXCEPT ![inode] = Empty]
          /\ UNCHANGED <<snapshot, file, mishaps>>
      BY <1>3 DEF OpenTmp, inode
    <2> QED
      BY <1>0, <2>1, <2>2 DEF Empty
  <1>4. ASSUME NEW s \in Savers, WriteTmp(s) PROVE (DiskTypes /\ DiskInv)'
    <2>1. PICK content \in Written(disk[fd[s]], snapshot[s]) :
             disk' = [disk EXCEPT ![fd[s]] = content]
      BY <1>4 DEF WriteTmp
    <2>2. disk[fd[s]] = Empty => content.state = "whole"
      BY <2>1 DEF Written, Whole, Empty
    <2> QED
      BY <1>0, <1>4, <2>1, <2>2 DEF WriteTmp
  <1>5. ASSUME NEW s \in Savers, SaveFails(s) PROVE (DiskTypes /\ DiskInv)'
    BY <1>0, <1>5 DEF SaveFails
  <1>6. ASSUME NEW s \in Savers, Rename(s) PROVE (DiskTypes /\ DiskInv)'
    BY <1>0, <1>6 DEF Rename, Renames, Kept
  <1>7. CASE Restart
    BY <1>0, <1>7 DEF Restart, Kept, Savers
  <1>8. CASE CrawlStep \/ ResumeSaved \/ ReturnSaved \/ WriteRecord \/ Done \/ UNCHANGED allVars
    <2>1. UNCHANGED <<saveVars, diskVars>> /\ mishaps \subseteq mishaps'
      BY <1>8 DEF CrawlStep, ResumeSaved, ReturnSaved, WriteRecord, Done, allVars, checkpointVars
    <2> QED
      BY <1>1, <2>1
  <1>9. CASE Tick \/ FinalSave
    BY <1>0, <1>2, <1>9 DEF Tick, FinalSave
  <1> QED
    BY <1>3, <1>4, <1>5, <1>6, <1>7, <1>8, <1>9 DEF CNext, Save

LEMMA DiskInvariant == CSpec => [](DiskTypes /\ DiskInv)
  BY DiskInit, DiskStep, PTL DEF CSpec

\* Whatever crashes, restarts and failed writes happen, the checkpoint file is a
\* whole snapshot if it exists, as long as no two saves were under way at once.
THEOREM LoneSaveIsAtomicHolds == CSpec => []LoneSaveIsAtomic
  <1>1. DiskTypes /\ DiskInv => LoneSaveIsAtomic
    BY DEF DiskInv, LoneSaveIsAtomic
  <1> QED
    BY <1>1, DiskInvariant, PTL

-----------------------------------------------------------------------------
(* A crawl in every run *)

\* A run starts with nothing anywhere.
Blank ==
    main = "resume" =>
        /\ queue = {} /\ pending = {} /\ submitting = {} /\ working = {}
        /\ ready = {} /\ handling = {} /\ emitting = {}

\* What is known of the coordinator in any run of the process.
CrawlInv ==
    /\ TypeOK /\ Hands /\ Counted /\ CompleteEnd /\ OutHand /\ Blank
    /\ IsFiniteSet(queue)

\* A set of items that a queue can be saved as.
Savable(items) == items \subseteq SavedItem /\ IsFiniteSet(items)

\* What has been saved, or is about to be, was a queue.
SavedTypes ==
    /\ snapshot \in [Savers -> SUBSET SavedItem]
    /\ disk \in [Inode -> Content]
    /\ \A s \in Savers : Savable(snapshot[s])
    /\ \A i \in Inode : Savable(disk[i].items)

\* A step of a run is one of the coordinator or leaves it alone.
LEMMA RunSteps ==
  ASSUME [CNext]_allVars
  PROVE  [Next]_vars \/ ResumeSaved \/ Restart
  <1>1. CASE CrawlStep
    BY <1>1 DEF CrawlStep, Next, RunNext
  <1>2. CASE ReturnSaved
    BY <1>2 DEF ReturnSaved, Next, RunNext
  <1>3. CASE Tick \/ FinalSave \/ WriteRecord \/ Done \/ UNCHANGED allVars
    BY <1>3 DEF Tick, FinalSave, TakeSnapshot, WriteRecord, Done, allVars
  <1>4. CASE \E s \in Savers : Save(s)
    BY <1>4 DEF Save, OpenTmp, WriteTmp, SaveFails, Rename
  <1> QED
    BY <1>1, <1>2, <1>3, <1>4 DEF CNext

\* The queue stays finite, and nothing is anywhere before the checkpoint has
\* been loaded.
LEMMA BlankStep ==
  ASSUME Hands, OutHand, Blank, IsFiniteSet(queue), [Next]_vars, ~Resume
  PROVE  Blank' /\ IsFiniteSet(queue')
  <1>1. CASE EnqueuePush
    <2>1. PICK new \in pending :
             \/ UNCHANGED queue
             \/ queue' = queue \union
                    {[url |-> new.url, depth |-> new.depth, attempt |-> 0,
                      retry |-> FALSE, priority |-> new.priority, seq |-> seq']}
      BY <1>1 DEF EnqueuePush
    <2>2. IsFiniteSet(queue')
      BY <2>1, AddOne
    <2>3. main' # "resume"
      BY <1>1 DEF EnqueuePush, Hands, Woken
    <2> QED
      BY <2>2, <2>3 DEF Blank
  <1>2. CASE FeedPop
    <2>1. PICK item \in queue : queue' = queue \ {item}
      BY <1>2 DEF FeedPop
    <2>2. IsFiniteSet(queue')
      BY <2>1, RemoveOne
    <2> QED
      BY <1>2, <2>2 DEF FeedPop, Blank
  <1>3. CASE Account
    <2>1. PICK result \in handling :
             \/ UNCHANGED queue
             \/ queue' = queue \union
                    {[url |-> result.job.url, depth |-> result.job.depth,
                      attempt |-> result.job.attempt + 1, retry |-> TRUE,
                      priority |-> DiscoveredPriority, seq |-> seq']}
      BY <1>3 DEF Account
    <2>2. IsFiniteSet(queue')
      BY <2>1, AddOne
    <2>3. main' # "resume"
      BY <1>3 DEF Account, Hands, runVars
    <2> QED
      BY <2>2, <2>3 DEF Blank
  <1>4. CASE ConsumerReceive \/ EnqueueChild \/ Emit \/ ConsumerExit
    BY <1>4 DEF ConsumerReceive, EnqueueChild, Emit, ConsumerExit, Hands, Blank,
       runVars, frontierVars
  <1>5. CASE Signal \/ BroadcastCancel \/ NoticeCancel
    BY <1>5 DEF Signal, BroadcastCancel, NoticeCancel, Woken, Hands, Blank, runVars,
       consumerVars, frontierVars, serviceVars
  <1>6. CASE EngineStep
    <2>1. /\ UNCHANGED <<main, queue, pending, submitting, handling, emitting>>
          /\ main = "resume" => working' = {} /\ ready' = {}
      BY <1>6 DEF EngineStep, Engine!Answer, Engine!Lose, Engine!CloseJobs,
         Engine!CloseResults, Blank, runVars, consumerVars, frontierVars
    <2> QED
      BY <2>1 DEF Blank
  <1>7. CASE CancelRun \/ UNCHANGED vars
    BY <1>7 DEF CancelRun, Engine!Cancel, Blank, runVars, consumerVars, frontierVars, vars
  <1>8. CASE \/ Seed \/ StartConsumer \/ FeedWait \/ FeedFinish \/ SubmitAccepted
             \/ SubmitRefused \/ StopEngine \/ Return
    BY <1>8 DEF Seed, StartConsumer, FeedWait, FeedFinish, SubmitAccepted,
       SubmitRefused, StopEngine, Return, Blank, frontierVars
  <1> QED
    BY <1>1, <1>2, <1>3, <1>4, <1>5, <1>6, <1>7, <1>8
       DEF Next, RunNext, RunBody, ConsumerNext, CancellerNext, Returned

\* The items that a run starts with, as they come out of the file.
LEMMA LoadedItems ==
  ASSUME DiskTypes, SavedTypes,
         NEW items \in Bijection(1..Cardinality(LoadCheckpoint), LoadCheckpoint)
  PROVE  /\ items \in Seq(SavedItem)
         /\ ResumedUrls(items) = UrlsIn(LoadCheckpoint)
         /\ OneEach(LoadCheckpoint) =>
               \A i, j \in 1..Len(items) : items[i].url = items[j].url => i = j
  <1>1. LoadCheckpoint \subseteq SavedItem /\ IsFiniteSet(LoadCheckpoint)
    BY FS_EmptySet, NoInodeIsNone DEF LoadCheckpoint, Loadable, DiskTypes, SavedTypes, Savable
  <1>2. PICK n \in Nat : n = Cardinality(LoadCheckpoint)
    BY <1>1, FS_CardinalityType
  <1>3. /\ items \in [1..n -> LoadCheckpoint]
        /\ \A i, j \in 1..n : items[i] = items[j] => i = j
        /\ \A item \in LoadCheckpoint : \E i \in 1..n : items[i] = item
    BY <1>2 DEF Bijection, Injection, Surjection, IsInjective
  <1>4. items \in Seq(SavedItem) /\ Len(items) = n
    BY <1>1, <1>3
  <1>5. ResumedUrls(items) = UrlsIn(LoadCheckpoint)
    BY <1>3, <1>4 DEF ResumedUrls, UrlsIn
  <1> QED
    BY <1>3, <1>4, <1>5 DEF OneEach

\* What a run saves is a queue, by what it was then.
LEMMA SnapshotTypes ==
  ASSUME TypeOK, IsFiniteSet(queue)
  PROVE  Savable(SnapshotQueue)
  <1>1. \A item \in queue : Form(item) \in SavedItem
    BY DEF TypeOK, Item, SavedItem, Form
  <1>2. SnapshotQueue \subseteq SavedItem
    BY <1>1 DEF SnapshotQueue
  <1>3. IsFiniteSet({Form(item) : item \in queue})
    <2> DEFINE f == [item \in queue |-> Form(item)]
    <2>1. f \in Surjection(queue, {Form(item) : item \in queue})
      BY DEF Surjection
    <2> HIDE DEF f
    <2> QED
      BY <2>1, FS_Surjection
  <1> QED
    BY <1>2, <1>3 DEF Savable, SnapshotQueue

\* Each save copies the queue, and each write a copy.
LEMMA SavedStep ==
  ASSUME TypeOK, IsFiniteSet(queue), DiskTypes, DiskInv, SavedTypes, [CNext]_allVars
  PROVE  SavedTypes'
  <1> USE DEF SavedTypes, DiskTypes
  <1>0. Savable({}) /\ Empty \in Content
    BY FS_EmptySet DEF Savable, Content, Empty
  <1>1. ASSUME NEW s \in Savers, TakeSnapshot(s) PROVE SavedTypes'
    BY <1>1, SnapshotTypes DEF TakeSnapshot, diskVars, Savable
  <1>2. ASSUME NEW s \in Savers, OpenTmp(s) PROVE SavedTypes'
    <2>1. PICK inode : disk' = [disk EXCEPT ![inode] = Empty] /\ UNCHANGED snapshot
      BY <1>2 DEF OpenTmp
    <2> QED
      BY <1>0, <2>1 DEF Empty
  <1>3. ASSUME NEW s \in Savers, WriteTmp(s) PROVE SavedTypes'
    <2>1. PICK content \in Written(disk[fd[s]], snapshot[s]) :
             disk' = [disk EXCEPT ![fd[s]] = content]
      BY <1>3 DEF WriteTmp
    <2>2. content = Whole(snapshot[s]) \/ content = Torn
      BY <2>1 DEF Written
    <2>3. content.items = snapshot[s] \/ content.items = {}
      BY <2>2 DEF Whole, Torn
    <2>4. Savable(content.items)
      BY <1>0, <2>3
    <2>5. content \in Content
      BY <2>2 DEF Content, Whole, Torn
    <2> QED
      BY <1>3, <2>1, <2>4, <2>5 DEF WriteTmp
  <1>4. ASSUME NEW s \in Savers, SaveFails(s) PROVE SavedTypes'
    BY <1>0, <1>4 DEF SaveFails, diskVars, Savable
  <1>5. ASSUME NEW s \in Savers, Rename(s) PROVE SavedTypes'
    BY <1>0, <1>5 DEF Rename, Kept, Empty, Savable
  <1>6. CASE Restart
    BY <1>0, <1>6 DEF Restart, Kept, Empty, Savable
  <1>7. CASE CrawlStep \/ ResumeSaved \/ ReturnSaved \/ WriteRecord \/ Done \/ UNCHANGED allVars
    <2>1. UNCHANGED <<snapshot, disk>>
      BY <1>7 DEF CrawlStep, ResumeSaved, ReturnSaved, WriteRecord, Done, allVars,
         checkpointVars, saveVars, diskVars
    <2> QED
      BY <2>1
  <1>8. CASE Tick \/ FinalSave
    BY <1>1, <1>8 DEF Tick, FinalSave, Savers
  <1> QED
    BY <1>2, <1>3, <1>4, <1>5, <1>6, <1>7, <1>8 DEF CNext, Save

\* A new process is well typed whatever it leaves behind.
LEMMA RestartTyped ==
  ASSUME TypeOK, Restart
  PROVE  TypeOK'
  <1>2. /\ seen' \subseteq URL /\ hashes' \subseteq Text
    BY DEF Restart, TypeOK
  <1>3. todo' \in Seq([raw: Raw, priority: {SeedPriority, SitemapPriority}])
    BY InputAssumption DEF Restart
  <1>4. stats' \in [StatFields -> Nat]
    BY DEF Restart, ZeroStats
  <1>5. /\ main' = "resume" /\ consumer' = "unstarted" /\ canceller' = "waiting"
        /\ links' = <<>> /\ pending' = {} /\ submitting' = {} /\ handling' = {}
        /\ emitting' = {} /\ queue' = {} /\ seq' = 0 /\ inFlight' = 0
        /\ dispatched' = 0 /\ done' = FALSE /\ simhashes' = {} /\ sunk' = {}
        /\ working' = {} /\ ready' = {} /\ engine' = "running" /\ closed' = FALSE
        /\ cancelled' = FALSE
    BY DEF Restart
  <1>6. Engine!ServiceTypeOK'
    BY <1>5 DEF Engine!ServiceTypeOK
  <1>7. /\ pending' \subseteq [url: URL, depth: Nat, priority: Priorities]
        /\ submitting' \subseteq Job /\ queue' \subseteq Item
        /\ handling' \subseteq Result /\ emitting' \subseteq Result
        /\ simhashes' \subseteq Text /\ sunk' \subseteq Result /\ links' \in Seq(Raw)
    BY <1>5
  <1>8. seq' \in Nat /\ inFlight' \in Int /\ dispatched' \in Nat
    BY <1>5
  <1>9. done' \in BOOLEAN
    BY DEF Restart
  <1> QED
    BY <1>2, <1>3, <1>4, <1>5, <1>6, <1>7, <1>8, <1>9 DEF TypeOK

\* The coordinator's invariants hold in every run, resumed or not.
LEMMA CrawlStepKeeps ==
  ASSUME CrawlInv, DiskTypes, SavedTypes, [CNext]_allVars
  PROVE  CrawlInv'
  <1> USE DEF CrawlInv
  <1>1. ASSUME [Next]_vars, ~Resume PROVE CrawlInv'
    <2>1. TypeOK' /\ Hands'
      BY <1>1, TypeStep, HandsStep
    <2>2. Counted' /\ OutHand'
      BY <1>1, <2>1, CountedStep, OutHandStep
    <2>3. CompleteEnd'
      BY <1>1, <2>1, <2>2, CompleteEndStep DEF CountingInv
    <2>4. Blank' /\ IsFiniteSet(queue')
      BY <1>1, BlankStep
    <2> QED
      BY <2>1, <2>2, <2>3, <2>4
  <1>2. ASSUME NEW items \in Seq(SavedItem), ResumeWith(items) PROVE CrawlInv'
    <2>1. /\ main = "resume" /\ main' = "seed" /\ queue' = queue \union Resumed(items)
          /\ UNCHANGED <<submitting, consumerVars, pending, canceller, inFlight, done,
                         serviceVars>>
      BY <1>2 DEF ResumeWith
    <2>2. queue' = Resumed(items) /\ IsFiniteSet(queue')
      BY <2>1, ResumedCount DEF Blank
    <2>3. TypeOK'
      BY <1>2, ResumeTyped
    <2>4. Hands' /\ OutHand' /\ Blank' /\ CompleteEnd'
      BY <2>1 DEF Hands, OutHand, Blank, CompleteEnd, Ended, consumerVars, serviceVars
    <2>5. Counted'
      BY <2>1 DEF Counted, Busy, consumerVars, serviceVars
    <2> QED
      BY <2>2, <2>3, <2>4, <2>5
  <1>3. CASE Resume
    BY <1>2, <1>3, InputAssumption DEF Resume
  <1>4. CASE ResumeSaved
    BY <1>2, <1>4, LoadedItems DEF ResumeSaved
  <1>5. CASE Restart
    <2>1. /\ main' = "resume" /\ consumer' = "unstarted" /\ canceller' = "waiting"
          /\ links' = <<>> /\ pending' = {} /\ submitting' = {} /\ handling' = {}
          /\ emitting' = {} /\ queue' = {} /\ inFlight' = 0 /\ done' = FALSE
          /\ working' = {} /\ ready' = {} /\ engine' = "running" /\ cancelled' = FALSE
      BY <1>5 DEF Restart
    <2>2. Hands' /\ OutHand' /\ Blank' /\ CompleteEnd'
      BY <2>1 DEF Hands, OutHand, Blank, CompleteEnd, Ended
    <2>3. Counted' /\ IsFiniteSet(queue')
      BY <2>1, FS_EmptySet DEF Counted, Busy
    <2> QED
      BY <1>5, <2>2, <2>3, RestartTyped
  <1> QED
    BY <1>1, <1>3, <1>4, <1>5, RunSteps

RunInv == CrawlInv /\ DiskTypes /\ DiskInv /\ SavedTypes

LEMMA RunInvariant == CSpec => []RunInv
  <1>1. CInit => RunInv
    <2> SUFFICES ASSUME CInit PROVE RunInv
      OBVIOUS
    <2>1. Init
      BY DEF CInit
    <2>2. TypeOK /\ Hands /\ Counted
      BY <2>1, TypeInit, HandsInit, CountedInit
    <2>3. CompleteEnd /\ OutHand /\ Blank /\ IsFiniteSet(queue)
      BY <2>1, FS_EmptySet DEF Init, Started, Engine!ServiceInit, CompleteEnd, Ended,
         OutHand, Blank
    <2>4. SavedTypes
      BY FS_EmptySet DEF CInit, SavedTypes, Savable, Empty, Content
    <2> QED
      BY <2>2, <2>3, <2>4, DiskInit DEF RunInv, CrawlInv
  <1>2. RunInv /\ [CNext]_allVars => RunInv'
    <2> SUFFICES ASSUME RunInv, [CNext]_allVars PROVE RunInv'
      OBVIOUS
    <2>1. CrawlInv'
      BY CrawlStepKeeps DEF RunInv
    <2>2. (DiskTypes /\ DiskInv)'
      BY DiskStep DEF RunInv
    <2>3. SavedTypes'
      BY SavedStep DEF RunInv, CrawlInv
    <2> QED
      BY <2>1, <2>2, <2>3 DEF RunInv
  <1> QED
    BY <1>1, <1>2, PTL DEF CSpec

-----------------------------------------------------------------------------
(* A URL is in one place, in every run *)

\* No URL is in a saved queue twice.
SavedOnce ==
    /\ \A s \in Savers : OneEach(snapshot[s])
    /\ \A i \in Inode : OneEach(disk[i].items)

LEMMA SnapshotOnce ==
  ASSUME OneEach(queue)
  PROVE  OneEach(SnapshotQueue)
  BY DEF SnapshotQueue, Form, OneEach

LEMMA SavedOnceStep ==
  ASSUME DiskTypes, OneEach(queue), SavedOnce, [CNext]_allVars
  PROVE  SavedOnce'
  <1> USE DEF SavedOnce, DiskTypes
  <1>0. OneEach({})
    BY DEF OneEach
  <1>1. ASSUME NEW s \in Savers, TakeSnapshot(s) PROVE SavedOnce'
    BY <1>1, SnapshotOnce DEF TakeSnapshot, diskVars
  <1>2. ASSUME NEW s \in Savers, OpenTmp(s) PROVE SavedOnce'
    <2>1. PICK inode : disk' = [disk EXCEPT ![inode] = Empty] /\ UNCHANGED snapshot
      BY <1>2 DEF OpenTmp
    <2> QED
      BY <1>0, <2>1 DEF Empty
  <1>3. ASSUME NEW s \in Savers, WriteTmp(s) PROVE SavedOnce'
    <2>1. PICK content \in Written(disk[fd[s]], snapshot[s]) :
             disk' = [disk EXCEPT ![fd[s]] = content]
      BY <1>3 DEF WriteTmp
    <2>2. content = Whole(snapshot[s]) \/ content = Torn
      BY <2>1 DEF Written
    <2>3. content.items = snapshot[s] \/ content.items = {}
      BY <2>2 DEF Whole, Torn
    <2>4. OneEach(content.items)
      BY <1>0, <2>3
    <2> QED
      BY <1>3, <2>1, <2>4 DEF WriteTmp
  <1>4. ASSUME NEW s \in Savers, SaveFails(s) PROVE SavedOnce'
    BY <1>0, <1>4 DEF SaveFails, diskVars
  <1>5. ASSUME NEW s \in Savers, Rename(s) PROVE SavedOnce'
    BY <1>0, <1>5 DEF Rename, Kept, Empty
  <1>6. CASE Restart
    BY <1>0, <1>6 DEF Restart, Kept, Empty
  <1>7. CASE CrawlStep \/ ResumeSaved \/ ReturnSaved \/ WriteRecord \/ Done \/ UNCHANGED allVars
    <2>1. UNCHANGED <<snapshot, disk>>
      BY <1>7 DEF CrawlStep, ResumeSaved, ReturnSaved, WriteRecord, Done, allVars,
         checkpointVars, saveVars, diskVars
    <2> QED
      BY <2>1
  <1>8. CASE Tick \/ FinalSave
    BY <1>1, <1>8 DEF Tick, FinalSave, Savers
  <1> QED
    BY <1>2, <1>3, <1>4, <1>5, <1>6, <1>7, <1>8 DEF CNext, Save

\* A run starts with no URL anywhere, whatever the store keeps.
LEMMA RestartPlaces ==
  ASSUME Restart
  PROVE  PlaceInv'
  <1>1. /\ queue' = {} /\ pending' = {} /\ submitting' = {} /\ working' = {}
        /\ ready' = {} /\ handling' = {}
    BY DEF Restart
  <1>2. /\ UrlsIn(queue') = {} /\ UrlsIn(pending') = {} /\ UrlsIn(submitting') = {}
        /\ UrlsIn(working') = {} /\ UrlsIn(JobsOf(ready')) = {}
        /\ UrlsIn(JobsOf(handling')) = {}
    BY <1>1 DEF UrlsIn, JobsOf
  <1>3. \A i \in 1..6 : Places'[i] = {}
    BY <1>2, PlacesByNameNext
  <1>4. Apart' /\ Covered' /\ FreshStart'
    BY <1>3 DEF Apart, Covered, FreshStart
  <1>5. Alone' /\ AnsweredOnce'
    BY <1>1 DEF Alone, OneEach, AnsweredOnce
  <1> QED
    BY <1>4, <1>5 DEF PlaceInv

LEMMA RunPlaceStep ==
  ASSUME ~StoreErrors, RunInv, PlaceInv, SavedOnce, [CNext]_allVars
  PROVE  PlaceInv' /\ SavedOnce'
  <1>1. SavedOnce'
    BY SavedOnceStep DEF RunInv, PlaceInv, Alone
  <1>2. ASSUME [Next]_vars PROVE PlaceInv'
    BY <1>2, PlaceStep DEF RunInv, CrawlInv
  <1>3. ASSUME ResumeSaved PROVE PlaceInv'
    <2>1. PICK items \in Bijection(1..Cardinality(LoadCheckpoint), LoadCheckpoint) :
             ResumeWith(items)
      BY <1>3 DEF ResumeSaved
    <2>2. OneEach(LoadCheckpoint)
      BY NoInodeIsNone DEF LoadCheckpoint, Loadable, SavedOnce, RunInv, DiskTypes, OneEach
    <2>3. \A i, j \in 1..Len(items) : items[i].url = items[j].url => i = j
      BY <2>2, LoadedItems DEF RunInv
    <2> QED
      BY <2>1, <2>3, ResumePlaces
  <1> QED
    BY <1>1, <1>2, <1>3, RestartPlaces, RunSteps

LEMMA RunPlaceInvariant ==
  ASSUME ~StoreErrors
  PROVE  CSpec => [](PlaceInv /\ SavedOnce)
  <1>1. CInit => PlaceInv /\ SavedOnce
    BY PlaceInit DEF CInit, SavedOnce, OneEach, Empty
  <1>2. RunInv /\ PlaceInv /\ SavedOnce /\ [CNext]_allVars => (PlaceInv /\ SavedOnce)'
    BY RunPlaceStep
  <1> QED
    BY <1>1, <1>2, RunInvariant, PTL DEF CSpec

\* While the store answers, no URL is ever in two places of the pipeline, nor
\* twice in one, whatever crashes, torn saves and resumed checkpoints there are.
THEOREM OnePlaceInEveryRun ==
  ASSUME ~StoreErrors
  PROVE  CSpec => []OnePlace
  <1>1. PlaceInv => OnePlace
    BY DEF PlaceInv, Apart, Covered, Alone, AnsweredOnce, OnePlace, OneEach, JobsOf
  <1> QED
    BY <1>1, RunPlaceInvariant, PTL

-----------------------------------------------------------------------------
(* The output file and the store *)

Line == [url: URL \union {"none"}, text: Text \union {NoText}]

\* What the sink is writing is one result with a text, between two receives.
SinkInv ==
    /\ output \in Seq(Line) /\ writing \subseteq Result
    /\ \A result \in writing : result.page.text # NoText
    /\ \A x, y \in writing : x = y
    /\ writing # {} => consumer = "recv"
    /\ main = "returned" => consumer = "exited"
    /\ broken => "loss" \in mishaps

\* Whoever has a text, a record of the file, the sink in this run or the write
\* under way, its hash is in the store; and while nothing goes wrong each hash
\* of the store has its record, or the sink is writing it.
FileInv ==
    "forgotten" \notin mishaps /\ OnlyExactDedup =>
        /\ \A result \in sunk : result.page.text # NoText => result.page.text \in hashes
        /\ \A result \in writing : result.page.text \in hashes
        /\ \A i \in Records : output[i].text \in hashes
        /\ \A i \in Records : \A result \in writing : output[i].text # result.page.text
        /\ \A i, j \in Records : output[i].text = output[j].text => i = j
        /\ mishaps = {} =>
              /\ \A i \in DOMAIN output : output[i] # Piece
              /\ \A text \in hashes :
                    \/ \E i \in DOMAIN output : output[i].text = text
                    \/ \E result \in writing : result.page.text = text

\* A record is a line with a text, and so no piece of one.
LEMMA RecordIsLine ==
  ASSUME NEW result \in Result, result.page.text # NoText
  PROVE  /\ Record(result) \in Line /\ Record(result).text = result.page.text
         /\ Record(result) # Piece
  <1>1. result.page.text \in Text /\ result.job.url \in URL
    BY DEF Result, Page, Job
  <1> QED
    BY <1>1 DEF Record, Piece, Line

LEMMA PieceIsLine == Piece \in Line
  BY DEF Piece, Line

\* The file with one more line.
LEMMA AppendLine ==
  ASSUME NEW lines \in Seq(Line), NEW line \in Line
  PROVE  /\ Append(lines, line) \in Seq(Line)
         /\ DOMAIN lines = 1..Len(lines) /\ Len(lines) \in Nat
         /\ DOMAIN Append(lines, line) = 1..(Len(lines) + 1)
         /\ \A i \in 1..Len(lines) : Append(lines, line)[i] = lines[i]
         /\ Append(lines, line)[Len(lines) + 1] = line
  OBVIOUS

\* Without the other filters, a new text is stored and given to the sink, and a
\* known one is neither.
LEMMA ExactEmit ==
  ASSUME OnlyExactDedup, Emit
  PROVE  \E result \in emitting :
            \/ UNCHANGED <<hashes, sunk>>
            \/ /\ result.page.text = NoText
               /\ hashes' = hashes /\ sunk' = sunk \union {result}
            \/ /\ result.page.text # NoText /\ result.page.text \notin hashes
               /\ hashes' = hashes \union {result.page.text}
               /\ sunk' = sunk \union {result}
  BY DEF OnlyExactDedup, Emit, PastExact, PastDedup, OffLanguage, Known, outputVars

\* What a crawl step leaves for the sink to write.
LEMMA EmitWrites ==
  ASSUME TypeOK, SinkInv, OutHand, CrawlStep, writing = {}
  PROVE  /\ \A x, y \in writing' : x = y
         /\ \A result \in writing' : result.page.text # NoText /\ result \in sunk'
         /\ writing' # {} => consumer' = "recv" /\ Emit
  <1>1. [Next]_vars
    BY DEF CrawlStep, Next, RunNext
  <1>2. writing' = {result \in sunk' \ sunk : result.page.text # NoText}
    BY DEF CrawlStep, Recorded
  <1>3. CASE UNCHANGED outputVars
    BY <1>2, <1>3 DEF outputVars
  <1>4. CASE Emit
    <2>1. PICK result \in emitting : sunk' = sunk \/ sunk' = sunk \union {result}
      BY <1>4, EmitOutputs
    <2> QED
      BY <1>2, <1>4, <2>1 DEF Emit
  <1> QED
    BY <1>1, <1>3, <1>4, OnlyEmitOutputs

LEMMA SinkStep ==
  ASSUME RunInv, RunInv', SinkInv, [CNext]_allVars
  PROVE  SinkInv'
  <1> USE DEF SinkInv
  <1>t. TypeOK /\ TypeOK' /\ OutHand /\ Hands /\ Blank
    BY DEF RunInv, CrawlInv
  <1>1. CASE CrawlStep /\ writing = {}
    <2>1. /\ \A x, y \in writing' : x = y
          /\ \A result \in writing' : result.page.text # NoText /\ result \in sunk'
          /\ writing' # {} => consumer' = "recv"
      BY <1>1, <1>t, EmitWrites
    <2>2. writing' \subseteq Result
      BY <1>t, <2>1 DEF TypeOK
    <2>3. main' = "returned" => consumer' = "exited"
      <3>1. main' = "returned" => main = "returned"
        BY <1>1 DEF CrawlStep, RunBody, Seed, StartConsumer, FeedWait, FeedFinish,
           FeedPop, SubmitAccepted, SubmitRefused, StopEngine, EnqueuePush,
           ConsumerNext, ConsumerExit, ConsumerReceive, EnqueueChild, Account, Signal,
           Emit, CancellerNext, NoticeCancel, BroadcastCancel, EngineStep, CancelRun,
           Woken, runVars
      <3>2. main = "returned" /\ consumer = "exited" => consumer' = "exited"
        BY <1>1 DEF CrawlStep, RunBody, Seed, StartConsumer, FeedWait, FeedFinish,
           FeedPop, SubmitAccepted, SubmitRefused, StopEngine, EnqueuePush,
           ConsumerNext, ConsumerExit, ConsumerReceive, EnqueueChild, Account, Signal,
           Emit, CancellerNext, NoticeCancel, BroadcastCancel, EngineStep, CancelRun,
           consumerVars
      <3> QED
        BY <3>1, <3>2
    <2>4. UNCHANGED <<output, broken, mishaps>>
      BY <1>1 DEF CrawlStep
    <2> QED
      BY <2>1, <2>2, <2>3, <2>4
  <1>2. CASE WriteRecord
    <2>1. PICK result \in writing : TRUE
      BY <1>2 DEF WriteRecord
    <2>2. output' \in Seq(Line)
      BY <1>2, <2>1, RecordIsLine, PieceIsLine, AppendLine DEF WriteRecord
    <2> QED
      BY <1>2, <2>2 DEF WriteRecord, vars
  <1>3. CASE Restart
    <2>1. output' = <<>> \/ output' = output \/ output' = Append(output, Piece)
      BY <1>3 DEF Restart, Reopened
    <2>2. Append(output, Piece) \in Seq(Line)
      BY PieceIsLine, AppendLine
    <2>3. <<>> \in Seq(Line)
      OBVIOUS
    <2>4. output' \in Seq(Line)
      BY <2>1, <2>2, <2>3
    <2> QED
      BY <1>3, <2>4 DEF Restart
  <1>4. CASE ReturnSaved
    BY <1>4 DEF ReturnSaved, Return, Joined, consumerVars, sinkVars
  <1>5. CASE ResumeSaved
    BY <1>5 DEF ResumeSaved, ResumeWith, consumerVars, checkpointVars, sinkVars, historyVars
  <1>6. CASE UNCHANGED <<vars, sinkVars>> /\ mishaps \subseteq mishaps'
    BY <1>6 DEF vars, sinkVars
  <1>7. CASE Tick \/ FinalSave \/ (\E s \in Savers : Save(s)) \/ Done \/ UNCHANGED allVars
    <2>1. UNCHANGED <<vars, sinkVars>> /\ mishaps \subseteq mishaps'
      BY <1>7 DEF Tick, FinalSave, TakeSnapshot, Save, OpenTmp, WriteTmp, SaveFails,
         Rename, Done, allVars, checkpointVars, historyVars
    <2> QED
      BY <1>6, <2>1
  <1> QED
    BY <1>1, <1>2, <1>3, <1>4, <1>5, <1>7 DEF CNext

\* What records the file has after a record, or a piece of one, was appended.
LEMMA RecordAppended ==
  ASSUME output \in Seq(Line), NEW line \in Line, output' = Append(output, line)
  PROVE  /\ \A i \in Records' :
               \/ i \in Records /\ output'[i] = output[i]
               \/ i = Len(output) + 1 /\ output'[i] = line /\ line # Piece
         /\ \A i \in DOMAIN output : i \in DOMAIN output' /\ output'[i] = output[i]
         /\ \A i \in DOMAIN output' :
               (i \in DOMAIN output /\ output'[i] = output[i]) \/ output'[i] = line
         /\ \E i \in DOMAIN output' : output'[i] = line
  <1>1. /\ DOMAIN output = 1..Len(output) /\ Len(output) \in Nat
        /\ DOMAIN output' = 1..(Len(output) + 1)
        /\ \A i \in 1..Len(output) : output'[i] = output[i]
        /\ output'[Len(output) + 1] = line
    BY AppendLine
  <1>2. \A i \in 1..(Len(output) + 1) : i \in 1..Len(output) \/ i = Len(output) + 1
    BY <1>1
  <1>3. Len(output) + 1 \in 1..(Len(output) + 1) /\ 1..Len(output) \subseteq 1..(Len(output) + 1)
    BY <1>1
  <1> QED
    BY <1>1, <1>2, <1>3 DEF Records

LEMMA FileStep ==
  ASSUME RunInv, SinkInv, FileInv, [CNext]_allVars
  PROVE  FileInv'
  <1> SUFFICES ASSUME "forgotten" \notin mishaps', OnlyExactDedup PROVE FileInv'
    BY DEF FileInv, OnlyExactDedup
  <1>t. TypeOK /\ OutHand /\ output \in Seq(Line) /\ writing \subseteq Result
    BY DEF RunInv, CrawlInv, SinkInv
  <1>0. mishaps \subseteq mishaps'
    BY DEF CNext, CrawlStep, ResumeSaved, ReturnSaved, Tick, FinalSave, TakeSnapshot, Save,
       OpenTmp, WriteTmp, SaveFails, Rename, WriteRecord, Restart, Done, allVars,
       checkpointVars, historyVars
  <1>a. /\ \A result \in sunk : result.page.text # NoText => result.page.text \in hashes
        /\ \A result \in writing : result.page.text \in hashes
        /\ \A i \in Records : output[i].text \in hashes
        /\ \A i \in Records : \A result \in writing : output[i].text # result.page.text
        /\ \A i, j \in Records : output[i].text = output[j].text => i = j
    BY <1>0 DEF FileInv
  <1>b. mishaps = {} =>
              /\ \A i \in DOMAIN output : output[i] # Piece
              /\ \A text \in hashes :
                    \/ \E i \in DOMAIN output : output[i].text = text
                    \/ \E result \in writing : result.page.text = text
    BY DEF FileInv
  <1>1. CASE UNCHANGED <<output, writing, hashes, sunk>>
    BY <1>0, <1>1, <1>a, <1>b DEF FileInv, Records
  <1>2. CASE CrawlStep /\ writing = {}
    <2>1. writing' = {result \in sunk' \ sunk : result.page.text # NoText}
      BY <1>2 DEF CrawlStep, Recorded
    <2>2. UNCHANGED <<output, mishaps>>
      BY <1>2 DEF CrawlStep
    <2>3. CASE UNCHANGED outputVars
      BY <1>1, <1>2, <2>1, <2>2, <2>3 DEF outputVars
    <2>4. CASE Emit
      <3>1. PICK result \in emitting :
            \/ UNCHANGED <<hashes, sunk>>
            \/ /\ result.page.text = NoText
               /\ hashes' = hashes /\ sunk' = sunk \union {result}
            \/ /\ result.page.text # NoText /\ result.page.text \notin hashes
               /\ hashes' = hashes \union {result.page.text}
               /\ sunk' = sunk \union {result}
        BY <2>4, ExactEmit
      <3>2. CASE UNCHANGED <<hashes, sunk>>
        BY <1>1, <1>2, <2>1, <2>2, <3>2
      <3>3. CASE /\ result.page.text = NoText
                 /\ hashes' = hashes /\ sunk' = sunk \union {result}
        <4>1. writing' = {}
          BY <2>1, <3>3
        <4>2. \A new \in sunk' : new.page.text # NoText => new.page.text \in hashes'
          BY <1>a, <3>3
        <4> QED
          BY <1>2, <1>a, <1>b, <2>2, <3>3, <4>1, <4>2 DEF FileInv, Records
      <3>4. CASE /\ result.page.text # NoText /\ result.page.text \notin hashes
                 /\ hashes' = hashes \union {result.page.text}
                 /\ sunk' = sunk \union {result}
        <4>1. result \notin sunk
          BY <1>a, <3>4
        <4>2. writing' = {result}
          BY <2>1, <3>4, <4>1
        <4>3. \A new \in sunk' : new.page.text # NoText => new.page.text \in hashes'
          BY <1>a, <3>4
        <4>4. \A i \in Records : output[i].text \in hashes' /\ output[i].text # result.page.text
          BY <1>a, <3>4
        <4>5. mishaps = {} => \A text \in hashes' :
                    \/ \E i \in DOMAIN output : output[i].text = text
                    \/ \E other \in writing' : other.page.text = text
          BY <1>2, <1>b, <3>4, <4>2
        <4> QED
          BY <1>a, <1>b, <2>2, <3>4, <4>2, <4>3, <4>4, <4>5 DEF FileInv, Records
      <3> QED
        BY <3>1, <3>2, <3>3, <3>4
    <2>5. [Next]_vars
      BY <1>2 DEF CrawlStep, Next, RunNext
    <2> QED
      BY <2>3, <2>4, <2>5, OnlyEmitOutputs
  <1>3. CASE WriteRecord
    <2>1. writing' = {} /\ writing # {} /\ UNCHANGED <<hashes, sunk>>
      BY <1>3 DEF WriteRecord, vars
    <2>2. CASE broken /\ UNCHANGED <<output, mishaps>>
      BY <1>a, <2>1, <2>2 DEF FileInv, SinkInv, Records
    <2>3. ASSUME NEW result \in writing, output' = Append(output, Record(result)),
                 UNCHANGED mishaps
          PROVE  FileInv'
      <3>1. /\ Record(result) \in Line /\ Record(result).text = result.page.text
            /\ Record(result) # Piece
        BY <1>t, RecordIsLine DEF SinkInv
      <3>2. /\ \A i \in Records' :
                  \/ i \in Records /\ output'[i] = output[i]
                  \/ i = Len(output) + 1 /\ output'[i] = Record(result)
            /\ \A i \in DOMAIN output : i \in DOMAIN output' /\ output'[i] = output[i]
            /\ \A i \in DOMAIN output' :
                  (i \in DOMAIN output /\ output'[i] = output[i]) \/ output'[i] = Record(result)
            /\ \E i \in DOMAIN output' : output'[i] = Record(result)
        BY <1>t, <2>3, <3>1, RecordAppended
      <3>3. \A i \in Records' : output'[i].text \in hashes'
        BY <1>a, <2>1, <3>1, <3>2
      <3>4. \A i, j \in Records' : output'[i].text = output'[j].text => i = j
        BY <1>a, <3>1, <3>2
      <3>5. mishaps = {} => \A text \in hashes' : \E i \in DOMAIN output' : output'[i].text = text
        <4> SUFFICES ASSUME mishaps = {}, NEW text \in hashes
                     PROVE  \E i \in DOMAIN output' : output'[i].text = text
          BY <2>1
        <4>1. CASE \E i \in DOMAIN output : output[i].text = text
          BY <3>2, <4>1
        <4>2. CASE \E other \in writing : other.page.text = text
          <5>1. result.page.text = text
            BY <4>2 DEF SinkInv
          <5> QED
            BY <3>1, <3>2, <5>1
        <4> QED
          BY <1>b, <4>1, <4>2
      <3>6. mishaps = {} => \A i \in DOMAIN output' : output'[i] # Piece
        BY <1>b, <3>1, <3>2
      <3> QED
        BY <1>a, <2>1, <2>3, <3>3, <3>4, <3>5, <3>6 DEF FileInv
    <2>4. CASE "loss" \in mishaps' /\ output' \in {output, Append(output, Piece)}
      <3>1. \A i \in Records' : i \in Records /\ output'[i] = output[i]
        <4>1. CASE output' = output
          BY <4>1 DEF Records
        <4>2. CASE output' = Append(output, Piece)
          BY <1>t, <4>2, PieceIsLine, RecordAppended
        <4> QED
          BY <2>4, <4>1, <4>2
      <3> QED
        BY <1>a, <2>1, <2>4, <3>1 DEF FileInv
    <2> QED
      BY <1>0, <1>3, <2>2, <2>3, <2>4 DEF WriteRecord
  <1>4. CASE Restart
    <2>1. /\ hashes' = hashes /\ sunk' = {} /\ writing' = {}
          /\ output' = output \/ (writing # {} /\ output' = Append(output, Piece))
      BY <1>4 DEF Restart, Reopened
    <2>2. \A i \in Records' : i \in Records /\ output'[i] = output[i]
      <3>1. CASE output' = output
        BY <3>1 DEF Records
      <3>2. CASE output' = Append(output, Piece)
        BY <1>t, <3>2, PieceIsLine, RecordAppended
      <3> QED
        BY <2>1, <3>1, <3>2
    <2>3. mishaps' = {} => mishaps = {} /\ writing = {} /\ output' = output
      <3>1. mishaps' = {} => mishaps = {} /\ main = "returned"
        BY <1>0, <1>4 DEF Restart
      <3> QED
        BY <2>1, <3>1 DEF SinkInv
    <2> QED
      BY <1>a, <1>b, <2>1, <2>2, <2>3 DEF FileInv
  <1>5. CASE ReturnSaved \/ ResumeSaved
    <2>1. UNCHANGED <<output, writing, hashes, sunk>>
      BY <1>5 DEF ReturnSaved, ResumeSaved, Return, ResumeWith, outputVars,
         checkpointVars, sinkVars
    <2> QED
      BY <1>1, <2>1
  <1>6. CASE Tick \/ FinalSave \/ (\E s \in Savers : Save(s)) \/ Done \/ UNCHANGED allVars
    <2>1. UNCHANGED <<output, writing, hashes, sunk>>
      BY <1>6 DEF Tick, FinalSave, TakeSnapshot, Save, OpenTmp, WriteTmp, SaveFails,
         Rename, Done, allVars, vars, checkpointVars, sinkVars
    <2> QED
      BY <1>1, <2>1
  <1> QED
    BY <1>2, <1>3, <1>4, <1>5, <1>6 DEF CNext

\* As long as the store is kept, no text has two records in the output file,
\* and while nothing goes wrong there is a record on a line of its own for every
\* text that the store keeps others from.
THEOREM FileAgreesWithStoreHolds == CSpec => []FileAgreesWithStore
  <1>1. CInit => SinkInv /\ FileInv
    BY DEF CInit, Init, Started, SinkInv, FileInv, Records
  <1>2. RunInv /\ RunInv' /\ SinkInv /\ [CNext]_allVars => SinkInv'
    BY SinkStep
  <1>3. RunInv /\ SinkInv /\ FileInv /\ [CNext]_allVars => FileInv'
    BY FileStep
  <1>4. SinkInv /\ FileInv => FileAgreesWithStore
    <2> SUFFICES ASSUME SinkInv, FileInv, "forgotten" \notin mishaps, OnlyExactDedup
                 PROVE  /\ \A i, j \in Records : output[i].text = output[j].text => i = j
                        /\ mishaps = {} /\ writing = {} =>
                              hashes = {output[i].text : i \in Readable}
      BY DEF FileAgreesWithStore
    <2>1. \A i, j \in Records : output[i].text = output[j].text => i = j
      BY DEF FileInv
    <2>2. ASSUME mishaps = {}, writing = {}
          PROVE  hashes = {output[i].text : i \in Readable}
      <3>1. \A i \in DOMAIN output : output[i] # Piece
        BY <2>2 DEF FileInv
      <3>2. \A i \in DOMAIN output : i > 1 => i - 1 \in DOMAIN output
        <4>1. DOMAIN output = 1..Len(output) /\ Len(output) \in Nat
          BY DEF SinkInv
        <4> QED
          BY <4>1
      <3>3. Readable = DOMAIN output /\ Records = DOMAIN output
        BY <3>1, <3>2 DEF Readable, Records
      <3> QED
        BY <2>2, <3>3 DEF FileInv
    <2> QED
      BY <2>1, <2>2
  <1> QED
    BY <1>1, <1>2, <1>3, <1>4, RunInvariant, PTL DEF CSpec

-----------------------------------------------------------------------------
(* The final save *)

\* Both goroutines of the run are at their end: the queue is what it will be.
AtRest == main \in {"join", "returned"} /\ consumer = "exited" /\ engine = "stopped"

\* The final save begins when the run is at rest.  While nothing goes wrong, a
\* save under way from then on, the loop's included, is of the queue as it is
\* now, and so is the file once the final save is done.
SaverInv ==
    /\ main \in {"resume", "seed"} => \A s \in Savers : saver[s] = "off"
    /\ saver["final"] # "idle"
    /\ saver["final"] # "off" => AtRest
    /\ main = "returned" => saver["final"] \in {"saved", "failed"}
    /\ saver["final"] = "failed" => "loss" \in mishaps
    /\ mishaps = {} =>
          /\ \A s \in Savers :
                saver[s] = "written" => tmp # NoInode /\ disk[tmp] = Whole(snapshot[s])
          /\ \A s \in Savers :
                saver[s] \in Saving /\ saver["final"] # "off" => snapshot[s] = SnapshotQueue
          /\ saver["final"] = "saved" =>
                file # NoInode /\ disk[file] = Whole(SnapshotQueue)

\* At rest, the coordinator's state stays: nothing is in anyone's hands.
LEMMA StaysAtRest ==
  ASSUME Hands, OutHand, AtRest, [Next]_vars
  PROVE  /\ AtRest' /\ UNCHANGED queue
         /\ submitting = {} /\ handling = {} /\ pending = {} /\ emitting = {}
         /\ main = "returned" => main' = "returned"
  <1>1. /\ submitting = {} /\ handling = {} /\ pending = {} /\ emitting = {}
        /\ main \in {"join", "returned"} /\ consumer = "exited" /\ engine = "stopped"
    BY DEF AtRest, Hands, OutHand
  <1>2. CASE EngineStep \/ CancelRun
    BY <1>1, <1>2 DEF AtRest, EngineStep, CancelRun, Engine!Answer, Engine!Lose,
       Engine!CloseJobs, Engine!CloseResults, Engine!Cancel, runVars, consumerVars,
       frontierVars
  <1>3. CASE Return \/ NoticeCancel \/ BroadcastCancel \/ UNCHANGED vars
    BY <1>1, <1>3 DEF AtRest, Return, NoticeCancel, BroadcastCancel, Woken, runVars,
       consumerVars, frontierVars, serviceVars, vars
  <1> QED
    BY <1>1, <1>2, <1>3
       DEF Next, RunNext, RunBody, ConsumerNext, CancellerNext, Returned, Resume,
       ResumeWith, Seed, StartConsumer, FeedWait, FeedFinish, FeedPop, SubmitAccepted,
       SubmitRefused, StopEngine, EnqueuePush, ConsumerExit, ConsumerReceive,
       EnqueueChild, Account, Signal, Emit

\* Once past the seeds, a run does not seed again.
LEMMA PastSeeds ==
  ASSUME [Next]_vars, main' \in {"resume", "seed"}
  PROVE  main \in {"resume", "seed"}
  BY DEF Next, RunNext, RunBody, ConsumerNext, CancellerNext, Returned, Resume,
     ResumeWith, Seed, StartConsumer, FeedWait, FeedFinish, FeedPop, SubmitAccepted,
     SubmitRefused, StopEngine, Return, EnqueuePush, ConsumerExit, ConsumerReceive,
     EnqueueChild, Account, Signal, Emit, NoticeCancel, BroadcastCancel, EngineStep,
     CancelRun, Woken, runVars, vars

\* A step of the coordinator leaves the saves alone.
LEMMA SaverStepCrawl ==
  ASSUME CrawlInv, SaverInv, [Next]_vars, UNCHANGED <<saveVars, diskVars, mishaps>>,
         main' = "returned" => main = "returned" \/ saver["final"] \in {"saved", "failed"}
  PROVE  SaverInv'
  <1>1. saver["final"] # "off" => AtRest' /\ UNCHANGED queue
    BY StaysAtRest DEF SaverInv, CrawlInv
  <1>2. UNCHANGED queue => SnapshotQueue' = SnapshotQueue
    BY DEF SnapshotQueue
  <1>3. UNCHANGED <<saver, snapshot, disk, tmp, file, mishaps>>
    BY DEF saveVars, diskVars
  <1>4. main' \in {"resume", "seed"} => \A s \in Savers : saver'[s] = "off"
    BY <1>3, PastSeeds DEF SaverInv
  <1>5. mishaps' = {} =>
          /\ \A s \in Savers : saver'[s] \in Saving /\ saver'["final"] # "off" =>
                snapshot'[s] = SnapshotQueue'
          /\ saver'["final"] = "saved" => file' # NoInode /\ disk'[file'] = Whole(SnapshotQueue')
    BY <1>1, <1>2, <1>3 DEF SaverInv
  <1> QED
    BY <1>1, <1>3, <1>4, <1>5 DEF SaverInv

LEMMA SaverStep ==
  ASSUME RunInv, RunInv', SaverInv, [CNext]_allVars
  PROVE  SaverInv'
  <1>0. /\ "loop" \in Savers /\ "final" \in Savers
        /\ \A s \in Savers : s = "loop" \/ s = "final"
        /\ NoInode \notin Inode
    BY NoInodeIsNone DEF Savers
  <1>i. DiskTypes /\ DiskInv /\ CrawlInv
    BY DEF RunInv
  <1>q. UNCHANGED vars => SnapshotQueue' = SnapshotQueue /\ AtRest' = AtRest /\ main' = main
    BY DEF vars, SnapshotQueue, AtRest
  <1>1. ASSUME NEW s \in Savers, saver[s] \in {"off", "idle"}, TakeSnapshot(s),
               s = "final" => AtRest, main \notin {"resume", "seed"}
        PROVE  SaverInv'
    <2>1. /\ snapshot' = [snapshot EXCEPT ![s] = SnapshotQueue]
          /\ saver' = [saver EXCEPT ![s] = "marshalled"]
          /\ UNCHANGED <<vars, disk, tmp, file>>
          /\ mishaps' = {} => mishaps = {} /\ \A t \in Savers \ {s} : saver[t] \notin Saving
      BY <1>1 DEF TakeSnapshot, diskVars
    <2>2. "loss" \in mishaps => "loss" \in mishaps'
      BY <1>1 DEF TakeSnapshot
    <2> QED
      BY <1>0, <1>i, <1>q, <1>1, <2>1, <2>2 DEF SaverInv, DiskTypes, SaverPlaces, Saving
  <1>2. ASSUME NEW s \in Savers, OpenTmp(s) PROVE SaverInv'
    <2> DEFINE inode == IF tmp = NoInode THEN FreeInode ELSE tmp
    <2>1. inode \in Inode /\ inode # file
      BY <1>0, <1>i, FreeInodeIsFree DEF DiskTypes, DiskInv
    <2> HIDE DEF inode
    <2>2. /\ saver[s] = "marshalled" /\ saver' = [saver EXCEPT ![s] = "opened"]
          /\ disk' = [disk EXCEPT ![inode] = Empty]
          /\ UNCHANGED <<vars, snapshot, file, mishaps>>
      BY <1>2 DEF OpenTmp, inode, historyVars
    <2>3. mishaps = {} => \A t \in Savers \ {s} : saver[t] \notin Saving
      BY <1>i, <2>2 DEF DiskInv, Saving
    <2>4. file # NoInode => disk'[file] = disk[file]
      BY <1>i, <2>1, <2>2 DEF DiskTypes
    <2> QED
      BY <1>0, <1>i, <1>q, <2>2, <2>3, <2>4 DEF SaverInv, DiskTypes, SaverPlaces, Saving
  <1>3. ASSUME NEW s \in Savers, WriteTmp(s) PROVE SaverInv'
    <2>1. PICK content \in Written(disk[fd[s]], snapshot[s]) :
             disk' = [disk EXCEPT ![fd[s]] = content]
      BY <1>3 DEF WriteTmp
    <2>2. /\ saver[s] = "opened" /\ saver' = [saver EXCEPT ![s] = "written"]
          /\ UNCHANGED <<vars, snapshot, tmp, file, mishaps>>
      BY <1>3 DEF WriteTmp, historyVars
    <2>3. mishaps = {} =>
            /\ fd[s] = tmp /\ tmp \in Inode /\ tmp # file /\ disk[tmp] = Empty
            /\ \A t \in Savers \ {s} : saver[t] \notin Saving
      BY <1>0, <1>i, <2>2 DEF DiskInv, DiskTypes, Saving
    <2>4. mishaps = {} => content = Whole(snapshot[s])
      BY <2>1, <2>3 DEF Written
    <2>5. mishaps = {} => /\ disk'[tmp] = Whole(snapshot[s])
                          /\ file # NoInode => disk'[file] = disk[file]
      BY <1>i, <2>1, <2>3, <2>4 DEF DiskTypes
    <2> QED
      BY <1>0, <1>i, <1>q, <2>2, <2>3, <2>5 DEF SaverInv, DiskTypes, SaverPlaces, Saving
  <1>4. ASSUME NEW s \in Savers, SaveFails(s) PROVE SaverInv'
    <2>1. /\ saver[s] # "off" /\ mishaps' = mishaps \union {"loss"} /\ UNCHANGED vars
          /\ saver' = [saver EXCEPT ![s] = IF s = "loop" THEN "idle" ELSE "failed"]
      BY <1>4 DEF SaveFails
    <2> QED
      BY <1>0, <1>i, <1>q, <2>1 DEF SaverInv, DiskTypes
  <1>5. ASSUME NEW s \in Savers, Rename(s) PROVE SaverInv'
    <2>1. /\ saver[s] = "written" /\ tmp # NoInode /\ file' = tmp
          /\ saver' = [saver EXCEPT ![s] = IF s = "loop" THEN "idle" ELSE "saved"]
          /\ snapshot' = [snapshot EXCEPT ![s] = {}]
          /\ UNCHANGED <<vars, mishaps>>
      BY <1>5 DEF Rename, Renames, historyVars
    <2>2. tmp \in Inode /\ disk'[tmp] = disk[tmp]
      BY <1>5, <1>i, <2>1 DEF Rename, Kept, DiskTypes
    <2>3. mishaps = {} => \A t \in Savers \ {s} : saver[t] \notin Saving
      BY <1>i, <2>1 DEF DiskInv, Saving
    <2>4. mishaps = {} => disk'[file'] = Whole(snapshot[s])
      BY <2>1, <2>2 DEF SaverInv
    <2>5. mishaps = {} /\ saver["final"] # "off" => snapshot[s] = SnapshotQueue
      BY <2>1 DEF SaverInv, Saving
    <2> QED
      BY <1>0, <1>i, <1>q, <2>1, <2>3, <2>4, <2>5 DEF SaverInv, DiskTypes, SaverPlaces, Saving
  <1>6. CASE Restart
    BY <1>0, <1>6 DEF Restart, SaverInv, Saving
  <1>7. CASE CrawlStep
    <2>1. [Next]_vars /\ UNCHANGED <<saveVars, diskVars, mishaps>>
      BY <1>7 DEF CrawlStep, Next, RunNext
    <2>2. main' = "returned" => main = "returned"
      BY <1>7 DEF CrawlStep, RunBody, Seed, StartConsumer, FeedWait, FeedFinish,
         FeedPop, SubmitAccepted, SubmitRefused, StopEngine, EnqueuePush, ConsumerNext,
         ConsumerExit, ConsumerReceive, EnqueueChild, Account, Signal, Emit,
         CancellerNext, NoticeCancel, BroadcastCancel, EngineStep, CancelRun, Woken,
         runVars
    <2> QED
      BY <1>i, <2>1, <2>2, SaverStepCrawl
  <1>8. CASE ReturnSaved
    <2>1. [Next]_vars /\ UNCHANGED <<saveVars, diskVars, mishaps>>
      BY <1>8 DEF ReturnSaved, Next, RunNext
    <2> QED
      BY <1>8, <1>i, <2>1, SaverStepCrawl DEF ReturnSaved
  <1>9. CASE ResumeSaved
    <2>1. main = "resume" /\ main' = "seed" /\ UNCHANGED <<saver, mishaps>>
      BY <1>9 DEF ResumeSaved, ResumeWith, checkpointVars, saveVars, historyVars
    <2> QED
      BY <1>0, <2>1 DEF SaverInv, Saving
  <1>10. CASE WriteRecord
    <2>1. UNCHANGED <<vars, saver, snapshot, disk, tmp, file>> /\ mishaps \subseteq mishaps'
      BY <1>10 DEF WriteRecord, saveVars, diskVars
    <2> QED
      BY <1>q, <2>1 DEF SaverInv
  <1>11. CASE Done \/ UNCHANGED allVars
    <2>1. UNCHANGED <<vars, saver, snapshot, disk, tmp, file, mishaps>>
      BY <1>11 DEF Done, allVars, checkpointVars, saveVars, diskVars, historyVars
    <2> QED
      BY <1>q, <2>1 DEF SaverInv
  <1>12. CASE Tick
    BY <1>1, <1>12, <1>0 DEF Tick
  <1>13. CASE FinalSave
    BY <1>1, <1>13, <1>0 DEF FinalSave, Joined, AtRest
  <1> QED
    BY <1>2, <1>3, <1>4, <1>5, <1>6, <1>7, <1>8, <1>9, <1>10, <1>11, <1>12, <1>13
       DEF CNext, Save

LEMMA SaverInvariant == CSpec => []SaverInv
  <1>1. CInit => SaverInv
    BY DEF CInit, Init, Started, SaverInv, Saving, Savers
  <1> QED
    BY <1>1, SaverStep, RunInvariant, PTL DEF CSpec

\* The queue has the URLs of what is saved of it.
LEMMA SnapshotUrls == UrlsIn(SnapshotQueue) = UrlsIn(queue)
  <1>1. \A item \in queue : Form(item) \in SnapshotQueue /\ Form(item).url = item.url
    BY DEF SnapshotQueue, Form
  <1>2. \A saved \in SnapshotQueue : \E item \in queue : saved.url = item.url
    BY DEF SnapshotQueue, Form
  <1> QED
    BY <1>1, <1>2 DEF UrlsIn

\* A process that starts after an undisturbed run finds the queue of that run
\* in the file, and any process finds there what the one before it left.
LEMMA RestartLoads ==
  ASSUME RunInv, SaverInv, Restart
  PROVE  /\ LoadCheckpoint' = LoadCheckpoint
         /\ mishaps' = {} =>
               /\ mishaps = {} /\ main = "returned"
               /\ UrlsIn(LoadCheckpoint) = UrlsIn(queue)
  <1>1. /\ file' = file /\ disk' = Kept({tmp, file})
        /\ mishaps' = {} => mishaps = {} /\ main = "returned"
    BY DEF Restart
  <1>2. file # NoInode => disk'[file] = disk[file]
    BY <1>1 DEF Kept, RunInv, DiskTypes
  <1>3. LoadCheckpoint' = LoadCheckpoint
    BY <1>1, <1>2 DEF LoadCheckpoint, Loadable
  <1>4. ASSUME mishaps' = {} PROVE UrlsIn(LoadCheckpoint) = UrlsIn(queue)
    <2>1. file # NoInode /\ disk[file] = Whole(SnapshotQueue)
      BY <1>1, <1>4 DEF SaverInv
    <2>2. LoadCheckpoint = SnapshotQueue
      BY <2>1 DEF LoadCheckpoint, Loadable, Whole
    <2> QED
      BY <2>2, SnapshotUrls
  <1> QED
    BY <1>1, <1>3, <1>4

-----------------------------------------------------------------------------
(* Nothing is lost but in mid-air *)

\* The URLs of which a run has to give account: settled, given up in mid-air, on
\* their way, or at the output filters.
AccountedFor == settled \union adrift \union InPlay \union UrlsIn(JobsOf(emitting))

\* A crawl step takes no URL out of account, and takes in what it marks seen.
LEMMA AccountStep ==
  ASSUME MaxQueue = 0, mishaps = {}, Hands, OutHand, CrawlStep,
         \A x, y \in pending : x = y
  PROVE  /\ AccountedFor \union (seen' \ seen) \subseteq AccountedFor'
         /\ settled \subseteq settled' /\ adrift \subseteq adrift'
         /\ \A x, y \in pending' : x = y
  <1>0. settled \subseteq settled' /\ adrift \subseteq adrift'
    BY DEF CrawlStep, Undisturbed
  <1> SUFFICES /\ AccountedFor \union (seen' \ seen) \subseteq AccountedFor'
               /\ \A x, y \in pending' : x = y
    BY <1>0
  <1>n. AccountedFor' = settled' \union adrift' \union InPlay' \union UrlsIn(JobsOf(emitting'))
    BY DEF AccountedFor, UrlsIn, JobsOf
  <1>a. ASSUME UNCHANGED <<pending, seen>>,
               InPlay \subseteq InPlay' \union settled' \union adrift' \union UrlsIn(JobsOf(emitting')),
               UrlsIn(JobsOf(emitting)) \subseteq settled' \union UrlsIn(JobsOf(emitting'))
        PROVE  /\ AccountedFor \union (seen' \ seen) \subseteq AccountedFor'
               /\ \A x, y \in pending' : x = y
    BY <1>0, <1>n, <1>a DEF AccountedFor
  <1>1. CASE Seed \/ EnqueueChild
    <2>1. PICK raw, depth, priority : EnqueueProcess(raw, depth, priority)
      BY <1>1 DEF Seed, EnqueueChild
    <2>2. /\ UNCHANGED <<queue, submitting, working, ready, handling, emitting>>
          /\ pending = {}
      BY <1>1 DEF Seed, EnqueueChild, runVars, frontierVars, consumerVars, serviceVars
    <2>3. /\ seen' \ seen \subseteq UrlsIn(pending')
          /\ \A x, y \in pending' : x = y
      BY <2>1, <2>2 DEF EnqueueProcess, UrlsIn
    <2>4. UrlsIn(pending) = {}
      BY <2>2 DEF UrlsIn
    <2> QED
      BY <1>0, <1>n, <2>2, <2>3, <2>4, InPlayNext DEF InPlay, AccountedFor
  <1>2. CASE EnqueuePush
    <2>1. /\ pending # {} /\ pending' = {}
          /\ UNCHANGED <<submitting, working, ready, handling, emitting, seen>>
      BY <1>2 DEF EnqueuePush, consumerVars, serviceVars
    <2>2. PICK new \in pending :
             \/ done /\ UNCHANGED queue
             \/ queue' = queue \union
                    {[url |-> new.url, depth |-> new.depth, attempt |-> 0,
                      retry |-> FALSE, priority |-> new.priority, seq |-> seq']}
      BY <1>2 DEF EnqueuePush, Full
    <2>3. UrlsIn(pending) = {new.url}
      BY DEF UrlsIn
    <2>4. UrlsIn(queue) \subseteq UrlsIn(queue')
      BY <2>2 DEF UrlsIn
    <2>5. new.url \in adrift' \union UrlsIn(queue')
      <3>1. CASE done
        BY <2>1, <2>3, <3>1 DEF CrawlStep, Undisturbed
      <3>2. CASE ~done
        <4> DEFINE entry == [url |-> new.url, depth |-> new.depth, attempt |-> 0,
                             retry |-> FALSE, priority |-> new.priority, seq |-> seq']
        <4>1. entry \in queue' /\ entry.url = new.url
          BY <2>2, <3>2
        <4> QED
          BY <4>1 DEF UrlsIn
      <3> QED
        BY <3>1, <3>2
    <2> QED
      BY <1>0, <1>n, <2>1, <2>3, <2>4, <2>5, InPlayNext DEF InPlay, AccountedFor
  <1>3. CASE FeedPop
    <2>1. /\ main = "feed" /\ submitting = {}
          /\ UNCHANGED <<pending, working, ready, handling, seen, emitting>>
      BY <1>3 DEF FeedPop, Hands, consumerVars, serviceVars
    <2>2. UrlsIn(queue) \subseteq UrlsIn(queue') \union UrlsIn(submitting')
      BY <1>3 DEF FeedPop, UrlsIn
    <2>3. UrlsIn(submitting) = {}
      BY <2>1 DEF UrlsIn
    <2> QED
      BY <1>a, <2>1, <2>2, <2>3, InPlayNext DEF InPlay
  <1>4. CASE SubmitAccepted
    <2>1. main = "submit" /\ UNCHANGED <<queue, pending, ready, handling, seen, emitting>>
      BY <1>4 DEF SubmitAccepted, Engine!Accept, consumerVars, frontierVars
    <2>2. PICK job : submitting = {job}
      BY <2>1 DEF Hands
    <2>3. working' = working \union {job}
      BY <1>4, <2>2 DEF SubmitAccepted, Engine!Accept
    <2>4. UrlsIn(submitting) \union UrlsIn(working) \subseteq UrlsIn(working')
      BY <2>2, <2>3 DEF UrlsIn
    <2> QED
      BY <1>a, <2>1, <2>4, InPlayNext DEF InPlay
  <1>5. CASE SubmitRefused
    <2>1. UNCHANGED <<queue, pending, working, ready, handling, seen, emitting>>
      BY <1>5 DEF SubmitRefused, consumerVars, serviceVars
    <2>2. UrlsIn(submitting) \subseteq settled'
      BY <1>5 DEF CrawlStep, Undisturbed, SubmitRefused
    <2> QED
      BY <1>a, <2>1, <2>2, InPlayNext DEF InPlay
  <1>6. CASE ConsumerReceive
    <2>1. /\ handling = {}
          /\ UNCHANGED <<queue, pending, submitting, working, seen, emitting>>
      BY <1>6 DEF ConsumerReceive, Engine!Receive, Hands, runVars, frontierVars
    <2>2. UrlsIn(JobsOf(ready)) \subseteq UrlsIn(JobsOf(ready')) \union UrlsIn(JobsOf(handling'))
      BY <1>6 DEF ConsumerReceive, Engine!Receive, UrlsIn, JobsOf
    <2>3. UrlsIn(JobsOf(handling)) = {}
      BY <2>1 DEF UrlsIn, JobsOf
    <2> QED
      BY <1>a, <2>1, <2>2, <2>3, InPlayNext DEF InPlay
  <1>7. CASE Account
    <2>1. /\ consumer = "children" /\ UNCHANGED <<pending, submitting, working, ready, seen>>
          /\ emitting = {}
      BY <1>7 DEF Account, OutHand, runVars, serviceVars
    <2>2. PICK result : handling = {result}
      BY <2>1 DEF Hands
    <2>3. \/ /\ queue' = queue \union
                  {[url |-> result.job.url, depth |-> result.job.depth,
                    attempt |-> result.job.attempt + 1, retry |-> TRUE,
                    priority |-> DiscoveredPriority, seq |-> seq']}
          \/ UNCHANGED queue /\ emitting' = {result}
      BY <1>7, <2>2 DEF Account, Emits
    <2>4. UrlsIn(JobsOf(handling)) = {result.job.url} /\ UrlsIn(JobsOf(emitting)) = {}
      BY <2>1, <2>2 DEF UrlsIn, JobsOf
    <2>5. result.job.url \in UrlsIn(queue') \union UrlsIn(JobsOf(emitting'))
      <3> DEFINE entry == [url |-> result.job.url, depth |-> result.job.depth,
                           attempt |-> result.job.attempt + 1, retry |-> TRUE,
                           priority |-> DiscoveredPriority, seq |-> seq']
      <3>1. entry.url = result.job.url
        OBVIOUS
      <3>2. CASE entry \in queue'
        BY <3>1, <3>2 DEF UrlsIn
      <3>3. CASE emitting' = {result}
        BY <3>3 DEF UrlsIn, JobsOf
      <3> QED
        BY <2>3, <3>2, <3>3
    <2>6. UrlsIn(queue) \subseteq UrlsIn(queue')
      BY <2>3 DEF UrlsIn
    <2> QED
      BY <1>a, <2>1, <2>4, <2>5, <2>6, InPlayNext DEF InPlay
  <1>8. CASE Emit
    <2>1. /\ UNCHANGED <<queue, pending, submitting, working, ready, handling, seen>>
          /\ UrlsIn(JobsOf(emitting)) \subseteq settled'
      BY <1>8 DEF Emit, CrawlStep, Undisturbed, runVars, frontierVars, serviceVars
    <2> QED
      BY <1>a, <2>1, InPlayNext DEF InPlay
  <1>9. CASE EngineStep
    <2>1. UNCHANGED <<queue, pending, submitting, handling, seen, emitting>>
      BY <1>9 DEF EngineStep, runVars, consumerVars, frontierVars
    <2>2. /\ UrlsIn(JobsOf(ready)) \subseteq UrlsIn(JobsOf(ready'))
      BY <1>9 DEF EngineStep, Engine!Answer, Engine!Lose, Engine!CloseJobs,
         Engine!CloseResults, UrlsIn, JobsOf
    <2>3. ASSUME NEW job \in working
          PROVE  job.url \in UrlsIn(working') \union UrlsIn(JobsOf(ready')) \union adrift'
      <3>1. CASE job \in working'
        BY <3>1 DEF UrlsIn
      <3>2. CASE job \in JobsOf(ready')
        BY <3>2 DEF UrlsIn
      <3>3. CASE job \notin working' /\ job \notin JobsOf(ready')
        BY <3>3 DEF CrawlStep, Undisturbed, UrlsIn
      <3> QED
        BY <3>1, <3>2, <3>3
    <2>4. UrlsIn(working) \subseteq UrlsIn(working') \union UrlsIn(JobsOf(ready')) \union adrift'
      BY <2>3 DEF UrlsIn
    <2> QED
      BY <1>a, <2>1, <2>2, <2>4, InPlayNext DEF InPlay
  <1>10. CASE UNCHANGED <<queue, pending, submitting, working, ready, handling, emitting, seen>>
    BY <1>a, <1>10, InPlayNext DEF InPlay
  <1> QED
    BY <1>0, <1>1, <1>2, <1>3, <1>4, <1>5, <1>6, <1>7, <1>8, <1>9, <1>10
       DEF CrawlStep, RunBody, ConsumerNext, CancellerNext, StartConsumer, FeedWait,
       FeedFinish, StopEngine, ConsumerExit, Signal, NoticeCancel, BroadcastCancel,
       CancelRun, Engine!Stop, Engine!Cancel, runVars, consumerVars, frontierVars,
       serviceVars

\* While nothing goes wrong, every URL marked seen is accounted for: when a run
\* begins, in the checkpoint.  A run gives up nothing unless it is cancelled.
LostInv ==
    /\ runs \in Nat /\ runs >= 1
    /\ \A x, y \in pending : x = y
    /\ mishaps = {} =>
          /\ main # "resume" => seen \subseteq AccountedFor
          /\ main = "resume" => seen \subseteq settled \union adrift \union UrlsIn(LoadCheckpoint)
          /\ main = "returned" => UrlsIn(working) \union UrlsIn(JobsOf(ready)) \subseteq adrift
          /\ adrift # {} => runs > 1 \/ cancelled

\* Only cancellation makes a run give up a URL in mid-air.
LEMMA GivenUp ==
  ASSUME Hands, CompleteEnd, CrawlStep, mishaps = {}, adrift' # adrift
  PROVE  cancelled
  <1> SUFFICES ASSUME ~cancelled PROVE adrift' = adrift
    OBVIOUS
  <1>1. done => pending = {}
    BY DEF Hands, CompleteEnd
  <1>2. engine # "running" => working = {}
    BY DEF Hands, CompleteEnd, Ended
  <1>3. \A job \in working : ~Engine!Lose(job)
    BY <1>2 DEF Engine!Lose, Engine!ContextDone
  <1>4. working \subseteq working' \union JobsOf(ready')
    <2>1. CASE EngineStep
      BY <1>3, <2>1 DEF EngineStep, Engine!Answer, Engine!CloseJobs, Engine!CloseResults, JobsOf
    <2>2. CASE ~EngineStep
      BY <2>2 DEF CrawlStep, RunBody, Seed, StartConsumer, FeedWait, FeedFinish, FeedPop,
         SubmitAccepted, SubmitRefused, StopEngine, EnqueuePush, ConsumerNext,
         ConsumerExit, ConsumerReceive, EnqueueChild, Account, Signal, Emit,
         CancellerNext, NoticeCancel, BroadcastCancel, CancelRun, Engine!Accept,
         Engine!Stop, Engine!Receive, Engine!Cancel, serviceVars
    <2> QED
      BY <2>1, <2>2
  <1>5. working \ (working' \union JobsOf(ready')) = {} /\ UrlsIn({}) = {}
    BY <1>4 DEF UrlsIn
  <1> QED
    BY <1>1, <1>5 DEF CrawlStep, Undisturbed, UrlsIn

\* Nobody takes a cancellation back.
LEMMA StaysCancelled ==
  ASSUME [Next]_vars, cancelled
  PROVE  cancelled'
  BY DEF Next, RunNext, RunBody, ConsumerNext, CancellerNext, Returned, Resume, ResumeWith,
     Seed, StartConsumer, FeedWait, FeedFinish, FeedPop, SubmitAccepted, SubmitRefused,
     StopEngine, Return, EnqueuePush, ConsumerExit, ConsumerReceive, EnqueueChild,
     Account, Signal, Emit, NoticeCancel, BroadcastCancel, EngineStep, CancelRun,
     Engine!Accept, Engine!Answer, Engine!Receive, Engine!Lose, Engine!Cancel,
     Engine!Stop, Engine!CloseJobs, Engine!CloseResults, serviceVars, vars

\* Saves and writes change nothing that LostInv or TwiceInv speaks of: no save
\* is under way before the checkpoint has been loaded.
LEMMA ElseUntouched ==
  ASSUME SaverInv,
         Tick \/ FinalSave \/ (\E s \in Savers : Save(s)) \/ WriteRecord \/ Done
           \/ UNCHANGED allVars
  PROVE  /\ UNCHANGED <<vars, settled, adrift, runs>> /\ mishaps \subseteq mishaps'
         /\ main = "resume" => LoadCheckpoint' = LoadCheckpoint
  <1>1. CASE Tick \/ FinalSave \/ WriteRecord \/ Done \/ UNCHANGED allVars
    <2>1. /\ UNCHANGED <<vars, settled, adrift, runs, disk, file>>
          /\ mishaps \subseteq mishaps'
      BY <1>1 DEF Tick, FinalSave, TakeSnapshot, WriteRecord, Done, allVars,
         checkpointVars, historyVars, diskVars
    <2> QED
      BY <2>1 DEF LoadCheckpoint, Loadable
  <1>2. CASE \E s \in Savers : Save(s)
    <2>1. PICK s \in Savers : Save(s)
      BY <1>2
    <2>2. saver[s] # "off" /\ UNCHANGED <<vars, settled, adrift, runs>> /\ mishaps \subseteq mishaps'
      BY <2>1 DEF Save, OpenTmp, WriteTmp, SaveFails, Rename, Renames, historyVars
    <2> QED
      BY <2>2 DEF SaverInv
  <1> QED
    BY <1>1, <1>2

LEMMA LostStep ==
  ASSUME MaxQueue = 0, RunInv, SaverInv, LostInv, [CNext]_allVars
  PROVE  LostInv'
  <1>i. Hands /\ OutHand /\ CompleteEnd /\ Blank
    BY DEF RunInv, CrawlInv
  <1>1. CASE CrawlStep
    <2>1. [Next]_vars /\ UNCHANGED <<saveVars, diskVars, runs, mishaps>>
      BY <1>1 DEF CrawlStep, Next, RunNext
    <2>2. (\A x, y \in pending' : x = y) /\ runs' \in Nat /\ runs' >= 1
      <3>1. \A x, y \in pending' : x = y
        BY <1>1 DEF CrawlStep, RunBody, Seed, StartConsumer, FeedWait, FeedFinish, FeedPop,
           SubmitAccepted, SubmitRefused, StopEngine, EnqueuePush, ConsumerNext,
           ConsumerExit, ConsumerReceive, EnqueueChild, EnqueueProcess, Account, Signal,
           Emit, CancellerNext, NoticeCancel, BroadcastCancel, EngineStep, CancelRun,
           LostInv
      <3> QED
        BY <2>1, <3>1 DEF LostInv
    <2> SUFFICES ASSUME mishaps = {}
                 PROVE  /\ main' # "resume" => seen' \subseteq AccountedFor'
                        /\ main' = "resume" =>
                              seen' \subseteq settled' \union adrift' \union UrlsIn(LoadCheckpoint')
                        /\ main' = "returned" =>
                              UrlsIn(working') \union UrlsIn(JobsOf(ready')) \subseteq adrift'
                        /\ adrift' # {} => runs' > 1 \/ cancelled'
      BY <2>1, <2>2 DEF LostInv, UrlsIn, JobsOf
    <2>3. /\ AccountedFor \union (seen' \ seen) \subseteq AccountedFor'
          /\ settled \subseteq settled' /\ adrift \subseteq adrift'
      BY <1>1, <1>i, AccountStep DEF LostInv
    <2>4. /\ main' = "resume" <=> main = "resume"
          /\ main' = "returned" <=> main = "returned"
          /\ main = "resume" => UNCHANGED seen
      BY <1>1, <1>i DEF CrawlStep, RunBody, Seed, StartConsumer, FeedWait, FeedFinish, FeedPop,
         SubmitAccepted, SubmitRefused, StopEngine, EnqueuePush, ConsumerNext,
         ConsumerExit, ConsumerReceive, EnqueueChild, Account, Signal,
         Emit, CancellerNext, NoticeCancel, BroadcastCancel, EngineStep, CancelRun,
         Woken, runVars, Hands
    <2>5. LoadCheckpoint' = LoadCheckpoint
      BY <2>1 DEF LoadCheckpoint, Loadable, diskVars
    <2>6. main = "returned" =>
             UrlsIn(working') \union UrlsIn(JobsOf(ready'))
                \subseteq UrlsIn(working) \union UrlsIn(JobsOf(ready))
      BY <1>1, <1>i DEF CrawlStep, RunBody, Seed, StartConsumer, FeedWait, FeedFinish, FeedPop,
         SubmitAccepted, SubmitRefused, StopEngine, EnqueuePush, ConsumerNext,
         ConsumerExit, ConsumerReceive, EnqueueChild, Account, Signal,
         Emit, CancellerNext, NoticeCancel, BroadcastCancel, EngineStep, CancelRun,
         Engine!Answer, Engine!Receive, Engine!Lose, Engine!Cancel,
         Engine!CloseJobs, Engine!CloseResults, serviceVars, UrlsIn, JobsOf
    <2>7. adrift' # {} => runs' > 1 \/ cancelled'
      BY <1>1, <1>i, <2>1, GivenUp, StaysCancelled DEF LostInv
    <2> QED
      BY <2>3, <2>4, <2>5, <2>6, <2>7 DEF LostInv
  <1>2. CASE ReturnSaved
    <2>1. /\ main = "join" /\ main' = "returned" /\ UNCHANGED <<runs, mishaps>>
          /\ UNCHANGED <<queue, pending, submitting, working, ready, handling, emitting, seen,
                         settled, cancelled>>
          /\ adrift' = Undisturbed(adrift \union UrlsIn(working \union JobsOf(ready)))
      BY <1>2 DEF ReturnSaved, Return, Joined, consumerVars, frontierVars, serviceVars
    <2>2. UrlsIn(working \union JobsOf(ready)) = UrlsIn(working) \union UrlsIn(JobsOf(ready))
      BY DEF UrlsIn
    <2>3. ~cancelled => working = {} /\ ready = {}
      BY <1>i, <2>1 DEF CompleteEnd, Ended
    <2>4. ~cancelled => UrlsIn(working) \union UrlsIn(JobsOf(ready)) = {}
      BY <2>3 DEF UrlsIn, JobsOf
    <2>5. InPlay' = InPlay
      BY <2>1, InPlayNext DEF InPlay
    <2> QED
      BY <2>1, <2>2, <2>4, <2>5 DEF LostInv, AccountedFor, Undisturbed
  <1>3. CASE ResumeSaved
    <2>1. PICK items \in Bijection(1..Cardinality(LoadCheckpoint), LoadCheckpoint) :
             ResumeWith(items)
      BY <1>3 DEF ResumeSaved
    <2>2. /\ main = "resume" /\ main' = "seed" /\ queue' = queue \union Resumed(items)
          /\ seen' \subseteq seen \union ResumedUrls(items)
          /\ UNCHANGED <<pending, runs, mishaps, settled, adrift, cancelled>>
      BY <1>3, <2>1 DEF ResumeSaved, ResumeWith, checkpointVars, historyVars, serviceVars
    <2>3. ResumedUrls(items) = UrlsIn(LoadCheckpoint)
      BY LoadedItems DEF RunInv
    <2>4. UrlsIn(Resumed(items)) \subseteq UrlsIn(queue')
      BY <2>2 DEF UrlsIn
    <2>5. UrlsIn(LoadCheckpoint) \subseteq InPlay'
      BY <2>3, <2>4, ResumedItems, InPlayNext
    <2> QED
      BY <2>2, <2>3, <2>5 DEF LostInv, AccountedFor
  <1>4. CASE Restart
    <2>1. /\ pending' = {} /\ main' = "resume" /\ runs' = runs + 1
          /\ mishaps' = {} => seen' = seen /\ settled' = settled /\ adrift' = adrift
      BY <1>4 DEF Restart
    <2> SUFFICES ASSUME mishaps' = {}
                 PROVE  seen \subseteq settled \union adrift \union UrlsIn(LoadCheckpoint)
      BY <1>4, <2>1, RestartLoads DEF LostInv
    <2>2. mishaps = {} /\ main = "returned" /\ UrlsIn(LoadCheckpoint) = UrlsIn(queue)
      BY <1>4, RestartLoads
    <2>3. submitting = {} /\ handling = {} /\ pending = {} /\ emitting = {}
      BY <1>i, <2>2, StaysAtRest DEF SaverInv, AtRest, Hands, OutHand
    <2>4. /\ UrlsIn(submitting) = {} /\ UrlsIn(JobsOf(handling)) = {} /\ UrlsIn(pending) = {}
          /\ UrlsIn(JobsOf(emitting)) = {}
      BY <2>3 DEF UrlsIn, JobsOf
    <2> QED
      BY <2>2, <2>4 DEF LostInv, AccountedFor, InPlay
  <1>5. CASE Tick \/ FinalSave \/ (\E s \in Savers : Save(s)) \/ WriteRecord \/ Done
                \/ UNCHANGED allVars
    <2>1. /\ UNCHANGED <<vars, settled, adrift, runs>> /\ mishaps \subseteq mishaps'
          /\ main = "resume" => LoadCheckpoint' = LoadCheckpoint
      BY <1>5, ElseUntouched
    <2>2. /\ UNCHANGED <<queue, pending, submitting, working, ready, handling, emitting, seen,
                         main, cancelled>>
      BY <2>1 DEF vars
    <2>3. InPlay' = InPlay
      BY <2>2, InPlayNext DEF InPlay
    <2> QED
      BY <2>1, <2>2, <2>3 DEF LostInv, AccountedFor
  <1> QED
    BY <1>1, <1>2, <1>3, <1>4, <1>5 DEF CNext

\* A run that nobody disturbs returns with every URL it has marked seen settled
\* or in the checkpoint, but for those in mid-air when it was cancelled, if its
\* frontier is unbounded and the store was empty before the first run.
THEOREM OnlyMidAirLostHolds ==
  ASSUME MaxQueue = 0, OldSeen = {{}}
  PROVE  CSpec => []OnlyMidAirLost
  <1>1. CInit => LostInv
    BY DEF CInit, Init, Started, LostInv
  <1>2. RunInv /\ SaverInv /\ LostInv /\ [CNext]_allVars => LostInv'
    BY LostStep
  <1>3. RunInv /\ SaverInv /\ LostInv => OnlyMidAirLost
    <2> SUFFICES ASSUME RunInv, SaverInv, LostInv,
                        main = "returned", saver["final"] = "saved", mishaps = {}
                 PROVE  /\ seen \subseteq settled \union adrift \union UrlsIn(LoadCheckpoint)
                        /\ adrift # {} => runs > 1 \/ cancelled
      BY DEF OnlyMidAirLost
    <2>1. submitting = {} /\ handling = {} /\ pending = {} /\ emitting = {}
      BY DEF SaverInv, AtRest, Hands, OutHand, RunInv, CrawlInv
    <2>2. /\ UrlsIn(submitting) = {} /\ UrlsIn(JobsOf(handling)) = {} /\ UrlsIn(pending) = {}
          /\ UrlsIn(JobsOf(emitting)) = {}
      BY <2>1 DEF UrlsIn, JobsOf
    <2>3. LoadCheckpoint = SnapshotQueue
      BY DEF SaverInv, LoadCheckpoint, Loadable, Whole
    <2> QED
      BY <2>2, <2>3, SnapshotUrls DEF LostInv, AccountedFor, InPlay
  <1> QED
    BY <1>1, <1>2, <1>3, RunInvariant, SaverInvariant, PTL DEF CSpec

-----------------------------------------------------------------------------
(* No page in two runs *)

\* What is settled has been seen and is on its way nowhere, nor saved to be.
TwiceInv ==
    mishaps = {} =>
        /\ settled \subseteq seen
        /\ main # "resume" =>
              settled \intersect (InPlay \union UrlsIn(JobsOf(emitting))) = {}
        /\ main = "resume" => settled \intersect UrlsIn(LoadCheckpoint) = {}

\* In every run, what is through has left the places for good.
LEMMA RunApartStep ==
  ASSUME RunInv, PlaceInv, SunkApart, [CNext]_allVars
  PROVE  SunkApart'
  <1>0. /\ Out' = UrlsIn(JobsOf(emitting')) \union UrlsIn(JobsOf(sunk'))
        /\ UrlsIn(JobsOf(emitting))' = UrlsIn(JobsOf(emitting'))
        /\ UrlsIn(JobsOf(sunk))' = UrlsIn(JobsOf(sunk'))
    BY DEF Out, UrlsIn, JobsOf
  <1>1. CASE [Next]_vars
    BY <1>1, SunkApartStep DEF RunInv, CrawlInv, CountingInv
  <1>2. CASE ResumeSaved
    <2>1. main = "resume" /\ main' # "resume" /\ UNCHANGED <<emitting, sunk>>
      BY <1>2 DEF ResumeSaved, ResumeWith, consumerVars, outputVars
    <2> QED
      BY <1>0, <2>1 DEF SunkApart, Out
  <1>3. CASE Restart
    <2>1. emitting' = {} /\ sunk' = {}
      BY <1>3 DEF Restart
    <2>2. UrlsIn(JobsOf(emitting')) = {} /\ UrlsIn(JobsOf(sunk')) = {}
      BY <2>1 DEF UrlsIn, JobsOf
    <2> QED
      BY <1>0, <2>2 DEF SunkApart
  <1> QED
    BY <1>1, <1>2, <1>3, RunSteps

\* A URL is settled where it leaves the places, or the filters.
LEMMA SettledBy ==
  ASSUME ~StoreErrors, Hands, OutHand, PlaceInv, SunkApart, CrawlStep, mishaps = {}
  PROVE  /\ settled' \subseteq settled \union InPlay \union UrlsIn(JobsOf(emitting))
         /\ (settled' \ settled) \intersect (InPlay' \union UrlsIn(JobsOf(emitting'))) = {}
  <1>2. CASE main = "submit" /\ SubmitRefused
    <2>1. /\ submitting' = {} /\ consumer' = consumer
          /\ UNCHANGED <<queue, pending, working, ready, handling, emitting>>
      BY <1>2 DEF SubmitRefused, consumerVars, serviceVars
    <2>2. settled' = settled \union UrlsIn(submitting)
      BY <1>2, <2>1 DEF CrawlStep, Undisturbed
    <2>3. UrlsIn(submitting') = {}
      BY <2>1 DEF UrlsIn
    <2>4. \A k \in (1..6) \ {3} : Places[k] \intersect UrlsIn(submitting) = {}
      BY PlacesByName, 3 \in 1..6 DEF PlaceInv, Apart
    <2>5. InPlay' \intersect UrlsIn(submitting) = {}
      BY <2>1, <2>3, <2>4, PlacesByName, InPlayNext
    <2>6. UrlsIn(submitting) \subseteq InPlay
      BY DEF InPlay
    <2> QED
      BY <2>1, <2>2, <2>5, <2>6 DEF SunkApart, Out
  <1>3. CASE consumer = "emit" /\ consumer' = "recv"
    <2>1. Emit
      BY <1>3 DEF CrawlStep, RunBody, Seed, StartConsumer, FeedWait, FeedFinish, FeedPop,
         SubmitAccepted, SubmitRefused, StopEngine, EnqueuePush, ConsumerNext,
         ConsumerExit, ConsumerReceive, EnqueueChild, Account, Signal,
         CancellerNext, NoticeCancel, BroadcastCancel, EngineStep, CancelRun,
         consumerVars, Hands
    <2>2. /\ UNCHANGED <<queue, pending, submitting, working, ready, handling>>
          /\ emitting' = {}
      BY <2>1 DEF Emit, runVars, frontierVars, serviceVars
    <2>3. settled' = settled \union UrlsIn(JobsOf(emitting))
      BY <1>3, <2>1 DEF CrawlStep, Undisturbed, Emit, SubmitRefused, runVars, UrlsIn
    <2>4. InPlay' = InPlay /\ UrlsIn(JobsOf(emitting')) = {}
      BY <2>2, InPlayNext DEF InPlay, UrlsIn, JobsOf
    <2> QED
      BY <2>3, <2>4 DEF SunkApart, Out
  <1>4. CASE ~(main = "submit" /\ SubmitRefused) /\ ~(consumer = "emit" /\ consumer' = "recv")
    <2>1. settled' = settled
      BY <1>4 DEF CrawlStep, Undisturbed
    <2> QED
      BY <2>1
  <1> QED
    BY <1>2, <1>3, <1>4

\* What a crawl step is on its way with, or passes through the filters, it was
\* on its way with before, or has just been seen.
LEMMA OnTheWay ==
  ASSUME Hands, CrawlStep
  PROVE  /\ seen \subseteq seen'
         /\ InPlay' \subseteq InPlay \union (seen' \ seen)
         /\ UrlsIn(JobsOf(emitting')) \subseteq UrlsIn(JobsOf(emitting)) \union InPlay
  <1>1. [Next]_vars /\ ~Resume
    BY DEF CrawlStep, Next, RunNext, RunBody, EnqueuePush, ConsumerNext, CancellerNext,
       Resume, ResumeWith, Seed, StartConsumer, FeedWait, FeedFinish, FeedPop,
       SubmitAccepted, SubmitRefused, StopEngine, ConsumerExit, ConsumerReceive,
       EnqueueChild, Account, Signal, Emit, NoticeCancel, BroadcastCancel, EngineStep,
       CancelRun, Woken, runVars, Hands
  <1>2. emitting' \subseteq emitting \/ emitting' \subseteq handling
    BY DEF CrawlStep, RunBody, EnqueuePush, ConsumerNext, CancellerNext, Seed, StartConsumer,
       FeedWait, FeedFinish, FeedPop, SubmitAccepted, SubmitRefused, StopEngine,
       ConsumerExit, ConsumerReceive, EnqueueChild, Account, Emits, Signal, Emit,
       NoticeCancel, BroadcastCancel, EngineStep, CancelRun, consumerVars
  <1>3. UrlsIn(JobsOf(emitting')) \subseteq UrlsIn(JobsOf(emitting)) \union UrlsIn(JobsOf(handling))
    BY <1>2 DEF UrlsIn, JobsOf
  <1> QED
    BY <1>1, <1>3, InPlayStep DEF InPlay

LEMMA TwiceStep ==
  ASSUME ~StoreErrors, RunInv, SaverInv, PlaceInv, SunkApart, TwiceInv, [CNext]_allVars
  PROVE  TwiceInv'
  <1>i. Hands /\ OutHand /\ Blank /\ TypeOK
    BY DEF RunInv, CrawlInv
  <1>s. InPlay \subseteq seen
    BY PlacesByName DEF InPlay, PlaceInv, Covered
  <1>n. /\ UrlsIn(JobsOf(emitting))' = UrlsIn(JobsOf(emitting'))
        /\ UrlsIn(LoadCheckpoint)' = UrlsIn(LoadCheckpoint')
    BY DEF UrlsIn, JobsOf
  <1>1. CASE CrawlStep
    <2>1. UNCHANGED <<saveVars, diskVars, mishaps>>
      BY <1>1 DEF CrawlStep
    <2> SUFFICES ASSUME mishaps = {}
                 PROVE  /\ settled' \subseteq seen'
                        /\ main' # "resume" =>
                              settled' \intersect (InPlay' \union UrlsIn(JobsOf(emitting'))) = {}
                        /\ main' = "resume" => settled' \intersect UrlsIn(LoadCheckpoint') = {}
      BY <1>n, <2>1 DEF TwiceInv
    <2>2. /\ settled' \subseteq settled \union InPlay \union UrlsIn(JobsOf(emitting))
          /\ (settled' \ settled) \intersect (InPlay' \union UrlsIn(JobsOf(emitting'))) = {}
      BY <1>1, <1>i, SettledBy
    <2>3. /\ seen \subseteq seen'
          /\ InPlay' \subseteq InPlay \union (seen' \ seen)
          /\ UrlsIn(JobsOf(emitting')) \subseteq UrlsIn(JobsOf(emitting)) \union InPlay
      BY <1>1, <1>i, OnTheWay
    <2>4. LoadCheckpoint' = LoadCheckpoint
      BY <2>1 DEF LoadCheckpoint, Loadable, diskVars
    <2>5. main' = "resume" => main = "resume"
      BY <1>1 DEF CrawlStep, RunBody, Seed, StartConsumer, FeedWait, FeedFinish, FeedPop,
         SubmitAccepted, SubmitRefused, StopEngine, EnqueuePush, ConsumerNext,
         ConsumerExit, ConsumerReceive, EnqueueChild, Account, Signal, Emit,
         CancellerNext, NoticeCancel, BroadcastCancel, EngineStep, CancelRun, Woken, runVars
    <2>6. main = "resume" => main' = "resume" /\ settled' = settled
      <3>1. main = "resume" => main' = "resume"
        BY <1>1, <1>i DEF CrawlStep, RunBody, Seed, StartConsumer, FeedWait, FeedFinish,
           FeedPop, SubmitAccepted, SubmitRefused, StopEngine, EnqueuePush, ConsumerNext,
           ConsumerExit, ConsumerReceive, EnqueueChild, Account, Signal, Emit, Hands,
           CancellerNext, NoticeCancel, BroadcastCancel, EngineStep, CancelRun, Woken, runVars
      <3>2. main = "resume" => settled' = settled
        BY <1>1, <1>i DEF CrawlStep, Undisturbed, Hands
      <3> QED
        BY <3>1, <3>2
    <2>7. settled \union InPlay \union UrlsIn(JobsOf(emitting)) \subseteq seen
      BY <1>s DEF TwiceInv, SunkApart, Out
    <2> QED
      BY <2>2, <2>3, <2>4, <2>5, <2>6, <2>7 DEF TwiceInv
  <1>2. CASE ReturnSaved
    <2>1. /\ main = "join" /\ main' = "returned" /\ UNCHANGED mishaps
          /\ UNCHANGED <<queue, pending, submitting, working, ready, handling, emitting, seen,
                         settled>>
      BY <1>2 DEF ReturnSaved, Return, Joined, consumerVars, frontierVars, serviceVars
    <2>2. InPlay' = InPlay
      BY <2>1, InPlayNext DEF InPlay
    <2> QED
      BY <1>n, <2>1, <2>2 DEF TwiceInv
  <1>3. CASE ResumeSaved
    <2>1. PICK items \in Bijection(1..Cardinality(LoadCheckpoint), LoadCheckpoint) :
             ResumeWith(items)
      BY <1>3 DEF ResumeSaved
    <2>2. /\ main = "resume" /\ main' = "seed" /\ queue' = queue \union Resumed(items)
          /\ seen \subseteq seen'
          /\ UNCHANGED <<pending, submitting, working, ready, handling, emitting, mishaps, settled>>
      BY <1>3, <2>1 DEF ResumeSaved, ResumeWith, checkpointVars, historyVars, serviceVars,
         consumerVars
    <2>3. /\ queue = {} /\ pending' = {} /\ submitting' = {} /\ working' = {} /\ ready' = {}
          /\ handling' = {} /\ emitting' = {}
      BY <1>i, <2>2 DEF Blank
    <2>4. /\ UrlsIn(pending') = {} /\ UrlsIn(submitting') = {} /\ UrlsIn(working') = {}
          /\ UrlsIn(JobsOf(ready')) = {} /\ UrlsIn(JobsOf(handling')) = {}
          /\ UrlsIn(JobsOf(emitting')) = {}
      BY <2>3 DEF UrlsIn, JobsOf
    <2>5. UrlsIn(queue') = UrlsIn(LoadCheckpoint)
      <3>1. queue' = Resumed(items)
        BY <2>2, <2>3
      <3> QED
        BY <3>1, ResumedItems, LoadedItems DEF RunInv
    <2>6. InPlay' = UrlsIn(LoadCheckpoint)
      BY <2>4, <2>5, InPlayNext
    <2> QED
      BY <1>n, <2>2, <2>4, <2>6 DEF TwiceInv
  <1>4. CASE Restart
    <2>1. main' = "resume" /\ (mishaps' = {} => seen' = seen /\ settled' = settled)
      BY <1>4 DEF Restart
    <2>2. mishaps' = {} =>
             /\ mishaps = {} /\ main = "returned"
             /\ UrlsIn(LoadCheckpoint') = UrlsIn(queue)
      BY <1>4, RestartLoads
    <2>3. UrlsIn(queue) \subseteq InPlay
      BY DEF InPlay
    <2> QED
      BY <1>n, <2>1, <2>2, <2>3 DEF TwiceInv
  <1>5. CASE Tick \/ FinalSave \/ (\E s \in Savers : Save(s)) \/ WriteRecord \/ Done
                \/ UNCHANGED allVars
    <2>1. /\ UNCHANGED <<vars, settled, adrift, runs>> /\ mishaps \subseteq mishaps'
          /\ main = "resume" => LoadCheckpoint' = LoadCheckpoint
      BY <1>5, ElseUntouched
    <2>2. /\ UNCHANGED <<queue, pending, submitting, working, ready, handling, emitting, seen,
                         main>>
      BY <2>1 DEF vars
    <2>3. InPlay' = InPlay
      BY <2>2, InPlayNext DEF InPlay
    <2> QED
      BY <1>n, <2>1, <2>2, <2>3 DEF TwiceInv
  <1> QED
    BY <1>1, <1>2, <1>3, <1>4, <1>5 DEF CNext

\* As long as the store answers and nobody disturbs the runs, no page reaches
\* the filters that an earlier run, or this one, has settled.
THEOREM NoPageTwiceHolds ==
  ASSUME ~StoreErrors
  PROVE  CSpec => NoPageTwice
  <1>1. CInit => SunkApart /\ TwiceInv
    <2> SUFFICES ASSUME CInit PROVE SunkApart /\ TwiceInv
      OBVIOUS
    <2>1. emitting = {} /\ sunk = {} /\ settled = {}
      BY DEF CInit, Init, Started
    <2>2. UrlsIn(JobsOf(emitting)) = {} /\ UrlsIn(JobsOf(sunk)) = {}
      BY <2>1 DEF UrlsIn, JobsOf
    <2> QED
      BY <2>1, <2>2 DEF SunkApart, Out, TwiceInv
  <1>2. RunInv /\ PlaceInv /\ SunkApart /\ [CNext]_allVars => SunkApart'
    BY RunApartStep
  <1>3. RunInv /\ SaverInv /\ PlaceInv /\ SunkApart /\ TwiceInv /\ [CNext]_allVars => TwiceInv'
    BY TwiceStep
  <1>4. RunInv /\ TwiceInv =>
           [\A result \in emitting :
               consumer = "emit" /\ consumer' = "recv" /\ mishaps = {} =>
                  result.job.url \notin settled]_allVars
    <2> SUFFICES ASSUME RunInv, TwiceInv, NEW result \in emitting,
                        consumer = "emit", mishaps = {}
                 PROVE  result.job.url \notin settled
      OBVIOUS
    <2>1. main # "resume"
      BY DEF RunInv, CrawlInv, Hands
    <2>2. result.job.url \in UrlsIn(JobsOf(emitting))
      BY DEF UrlsIn, JobsOf
    <2> QED
      BY <2>1, <2>2 DEF TwiceInv
  <1> QED
    BY <1>1, <1>2, <1>3, <1>4, RunInvariant, SaverInvariant, RunPlaceInvariant, PTL
       DEF CSpec, NoPageTwice

-----------------------------------------------------------------------------
(* Types *)

RestTypes ==
    /\ ticks \in 0..MaxTicks /\ runs \in 1..MaxRuns /\ broken \in BOOLEAN
    /\ settled \subseteq URL /\ adrift \subseteq URL
    /\ mishaps \subseteq Mishaps

\* Whatever has a URL is at one of URL.
LEMMA UrlTypes ==
  ASSUME TypeOK
  PROVE  /\ UrlsIn(submitting) \subseteq URL /\ UrlsIn(pending) \subseteq URL
         /\ UrlsIn(working) \subseteq URL /\ UrlsIn(JobsOf(ready)) \subseteq URL
         /\ UrlsIn(JobsOf(emitting)) \subseteq URL
  BY DEF TypeOK, Engine!ServiceTypeOK, UrlsIn, JobsOf, Job, Result

LEMMA RestStep ==
  ASSUME TypeOK, RestTypes, [CNext]_allVars
  PROVE  RestTypes'
  <1> USE DEF RestTypes
  <1>1. CASE CrawlStep
    <2>1. settled' \subseteq URL
      BY <1>1, UrlTypes DEF CrawlStep, Undisturbed
    <2>2. UrlsIn(working \ (working' \union JobsOf(ready'))) \subseteq UrlsIn(working)
      BY DEF UrlsIn
    <2>3. adrift' \subseteq URL
      BY <1>1, <2>2, UrlTypes DEF CrawlStep, Undisturbed
    <2> QED
      BY <1>1, <2>1, <2>3 DEF CrawlStep
  <1>2. CASE ReturnSaved
    <2>1. UrlsIn(working \union JobsOf(ready)) = UrlsIn(working) \union UrlsIn(JobsOf(ready))
      BY DEF UrlsIn
    <2>2. adrift' \subseteq URL
      BY <1>2, <2>1, UrlTypes DEF ReturnSaved, Undisturbed
    <2> QED
      BY <1>2, <2>2 DEF ReturnSaved, sinkVars
  <1>3. CASE Tick
    BY <1>3, DiskAssumption DEF Tick, TakeSnapshot, sinkVars, Mishaps
  <1>4. CASE FinalSave
    BY <1>4 DEF FinalSave, TakeSnapshot, sinkVars, Mishaps
  <1>5. CASE \E s \in Savers : Save(s)
    BY <1>5 DEF Save, OpenTmp, WriteTmp, SaveFails, Rename, sinkVars, historyVars, Mishaps
  <1>6. CASE WriteRecord
    BY <1>6 DEF WriteRecord, Mishaps
  <1>7. CASE Restart
    <2>1. runs' \in 1..MaxRuns
      BY <1>7, DiskAssumption DEF Restart
    <2>2. mishaps' \subseteq Mishaps
      BY <1>7 DEF Restart, Mishaps
    <2>3. broken' \in BOOLEAN /\ settled' \subseteq URL /\ adrift' \subseteq URL
      BY <1>7 DEF Restart
    <2> QED
      BY <1>7, <2>1, <2>2, <2>3 DEF Restart
  <1>8. CASE ResumeSaved \/ Done \/ UNCHANGED allVars
    BY <1>8 DEF ResumeSaved, Done, allVars, checkpointVars, sinkVars, historyVars
  <1> QED
    BY <1>1, <1>2, <1>3, <1>4, <1>5, <1>6, <1>7, <1>8 DEF CNext

\* Every state of every run, and what the runs leave on the disk, is well typed,
\* if there is a run at all.
THEOREM CheckpointTypeCorrect ==
  ASSUME MaxRuns > 0
  PROVE  CSpec => []CTypeOK
  <1>1. CInit => RestTypes /\ SinkInv
    <2> SUFFICES ASSUME CInit PROVE RestTypes /\ SinkInv
      OBVIOUS
    <2>1. ticks = 0 /\ runs = 1 /\ broken = FALSE /\ settled = {} /\ adrift = {} /\ mishaps = {}
      BY DEF CInit
    <2>2. 0 \in 0..MaxTicks /\ 1 \in 1..MaxRuns
      BY DiskAssumption
    <2>3. broken \in BOOLEAN
      BY <2>1
    <2>4. SinkInv
      BY DEF CInit, Init, Started, SinkInv
    <2> QED
      BY <2>1, <2>2, <2>3, <2>4 DEF RestTypes
  <1>2. RunInv /\ RestTypes /\ [CNext]_allVars => RestTypes'
    BY RestStep DEF RunInv, CrawlInv
  <1>3. RunInv /\ RunInv' /\ SinkInv /\ [CNext]_allVars => SinkInv'
    BY SinkStep
  <1>4. RunInv /\ RestTypes /\ SinkInv => CTypeOK
    <2> SUFFICES ASSUME RunInv, RestTypes, SinkInv PROVE CTypeOK
      OBVIOUS
    <2> QED
      BY DEF CTypeOK, RunInv, CrawlInv, DiskTypes, SavedTypes, Content, RestTypes, SinkInv, Line,
         SaverPlaces
  <1> QED
    BY <1>1, <1>2, <1>3, <1>4, RunInvariant, PTL DEF CSpec
=============================================================================
