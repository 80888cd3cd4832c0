----------------------------- MODULE Checkpoint -----------------------------
(***************************************************************************)
(* A crawl with SetCheckpoint: the coordinator, the goroutine of           *)
(* checkpointLoop, the final save of Run, the files both write             *)
(* (internal/crawler/checkpoint.go), the output file that the sink of      *)
(* cmd/crawler appends to (internal/crawler/sink.go), and the death and    *)
(* restart of the process.  Files are names for inodes, because both       *)
(* savers write the same temporary file and a rename moves whatever has    *)
(* that name.                                                              *)
(***************************************************************************)
EXTENDS Coordinator, Functions

CONSTANTS
    Inode,          \* enough inodes for two files and two open descriptors
    MaxTicks,       \* bound: periodic saves
    MaxRuns         \* bound: runs of the process

NoInode == 0
ASSUME DiskAssumption ==
    /\ Inode \subseteq Nat \ {NoInode}
    /\ \A i, j, k \in Inode \union {NoInode} : \E inode \in Inode : inode \notin {i, j, k}
    /\ MaxTicks \in Nat /\ MaxRuns \in Nat

Savers == {"loop", "final"}

VARIABLES
    saver,      \* where each save is
    snapshot,   \* the items it saves
    fd,         \* the inode it has open
    disk,       \* what each inode holds
    tmp, file,  \* the inodes that path.tmp and path name
    writing,    \* the result whose record the sink has not written yet, as a set
    output,     \* the records in the output file and the pieces of records, left
                \* out of account once the store was lost
    broken,     \* whether the sink's encoder has seen a write fail
    ticks, runs,    \* counters for the bounds
    settled,    \* history, until something goes wrong: URLs that SubmitJob
                \* refused or whose final result went through the filters, in any run
    adrift,     \* history, until then: URLs that a cancelled run gave up in mid-air
    mishaps     \* history: what has gone wrong so far

saveVars == <<saver, snapshot, fd>>
diskVars == <<disk, tmp, file>>
sinkVars == <<writing, output, broken>>
historyVars == <<settled, adrift, mishaps>>
checkpointVars == <<saveVars, diskVars, sinkVars, ticks, runs, historyVars>>
allVars == <<vars, checkpointVars>>

\* "loss": the process died, or a save or a write failed.  "forgotten": the store
\* was lost.  "overlap": a save began while the other was under way.
Mishaps == {"loss", "forgotten", "overlap"}

Undisturbed(urls) == IF mishaps = {} THEN urls ELSE {}

\* The content of a file: a whole snapshot, nothing yet, or a mixture.
Whole(items) == [state |-> "whole", items |-> items]
Empty == [state |-> "empty", items |-> {}]
Torn == [state |-> "torn", items |-> {}]

CInit ==
    /\ Init
    /\ saver = [s \in Savers |-> "off"]
    /\ snapshot = [s \in Savers |-> {}]
    /\ fd = [s \in Savers |-> NoInode]
    /\ disk = [i \in Inode |-> Empty]
    /\ tmp = NoInode /\ file = NoInode
    /\ ticks = 0 /\ runs = 1
    /\ writing = {} /\ output = <<>> /\ broken = FALSE
    /\ settled = {} /\ adrift = {} /\ mishaps = {}

-----------------------------------------------------------------------------
(* saveCheckpoint *)

\* The on-disk form of an item has neither its seq nor its retry flag.
Form(item) == [url |-> item.url, depth |-> item.depth, attempt |-> item.attempt,
               priority |-> item.priority]
SnapshotQueue == {Form(item) : item \in queue}

Saving == {"marshalled", "opened", "written"}

TakeSnapshot(s) ==
    /\ snapshot' = [snapshot EXCEPT ![s] = SnapshotQueue]
    /\ saver' = [saver EXCEPT ![s] = "marshalled"]
    /\ mishaps' = mishaps \union
          (IF \E other \in Savers \ {s} : saver[other] \in Saving THEN {"overlap"} ELSE {})
    /\ UNCHANGED <<vars, fd, diskVars, sinkVars, runs, settled, adrift>>

\* An inode with no name and no open descriptor is freed.
Kept(used) == [i \in Inode |-> IF i \in used THEN disk[i] ELSE Empty]

FreeInode == CHOOSE i \in Inode : i \notin {tmp, file} \union Range(fd)

\* os.WriteFile opens path.tmp, truncating the file of that name if there is one ...
OpenTmp(s) ==
    /\ saver[s] = "marshalled"
    /\ saver' = [saver EXCEPT ![s] = "opened"]
    /\ LET inode == IF tmp = NoInode THEN FreeInode ELSE tmp
       IN  /\ tmp' = inode
           /\ fd' = [fd EXCEPT ![s] = inode]
           /\ disk' = [disk EXCEPT ![inode] = Empty]
    /\ UNCHANGED <<vars, snapshot, file, ticks, runs, sinkVars, historyVars>>

\* ... then writes at the start of the inode it opened, whatever its name is by
\* now: over another text the result is whole only if it covers all of it.
Written(old, items) ==
    IF old \in {Empty, Whole(items)} THEN {Whole(items)} ELSE {Whole(items), Torn}

WriteTmp(s) ==
    /\ saver[s] = "opened"
    /\ saver' = [saver EXCEPT ![s] = "written"]
    /\ fd' = [fd EXCEPT ![s] = NoInode]
    /\ \E content \in Written(disk[fd[s]], snapshot[s]) :
          disk' = [disk EXCEPT ![fd[s]] = content]
    /\ UNCHANGED <<vars, snapshot, tmp, file, sinkVars, ticks, runs, historyVars>>

\* os.WriteFile fails to write, or os.Rename fails because the other saver has
\* already moved path.tmp away: the caller logs the error and goes on.
SaveFails(s) ==
    /\ saver[s] = "opened" \/ (saver[s] = "written" /\ tmp = NoInode)
    /\ saver' = [saver EXCEPT ![s] = IF s = "loop" THEN "idle" ELSE "failed"]
    /\ fd' = [fd EXCEPT ![s] = NoInode]
    /\ snapshot' = [snapshot EXCEPT ![s] = {}]
    /\ mishaps' = mishaps \union {"loss"}
    /\ UNCHANGED <<vars, diskVars, sinkVars, ticks, runs, settled, adrift>>

RenamesAnyway(s) == saver[s] \in {"opened", "written"} /\ tmp # NoInode
Renames(s) == saver[s] = "written" /\ tmp # NoInode

Rename(s) ==
    /\ Renames(s)
    /\ saver' = [saver EXCEPT ![s] = IF s = "loop" THEN "idle" ELSE "saved"]
    /\ snapshot' = [snapshot EXCEPT ![s] = {}]
    /\ file' = tmp
    /\ tmp' = NoInode
    /\ disk' = Kept({tmp} \union Range(fd))
    /\ UNCHANGED <<vars, fd, sinkVars, ticks, runs, historyVars>>

Save(s) == OpenTmp(s) \/ WriteTmp(s) \/ SaveFails(s) \/ Rename(s)

-----------------------------------------------------------------------------
(* checkpointLoop and the end of Run *)

\* The goroutine starts just before the consumer.  Its select may still take a
\* tick when the stop channel is closed too, and Run does not wait for it.
Tick ==
    /\ saver["loop"] \in {"off", "idle"}
    /\ main \notin {"resume", "seed"}
    /\ ticks < MaxTicks
    /\ ticks' = ticks + 1
    /\ TakeSnapshot("loop")

FinalSave ==
    /\ Joined
    /\ saver["final"] = "off"
    /\ TakeSnapshot("final")
    /\ UNCHANGED ticks

ReturnSaved ==
    /\ saver["final"] \in {"saved", "failed"}
    /\ Return
    /\ adrift' = Undisturbed(adrift \union UrlsIn(working \union JobsOf(ready)))
    /\ UNCHANGED <<saveVars, diskVars, sinkVars, ticks, runs, settled, mishaps>>

-----------------------------------------------------------------------------
(* The sink *)

\* A page that failed, or whose content was not accepted, makes no record.
Recorded(results) == {result \in results : result.page.text # NoText}

\* What is in the file: records, each the end of a line, and pieces of records.
Record(result) == [url |-> result.job.url, text |-> result.page.text]
Piece == [url |-> "none", text |-> NoText]

\* json.Encoder writes a record in one call, and nothing after a failed one.
WriteRecord ==
    /\ writing # {}
    /\ writing' = {}
    /\ \/ /\ broken \/ "forgotten" \in mishaps
          /\ UNCHANGED <<output, broken, mishaps>>
       \/ /\ ~broken /\ "forgotten" \notin mishaps
          /\ \E result \in writing : output' = Append(output, Record(result))
          /\ UNCHANGED <<broken, mishaps>>
       \/ /\ ~broken /\ "forgotten" \notin mishaps
          /\ broken' = TRUE
          /\ output' \in {output, Append(output, Piece)}
          /\ mishaps' = mishaps \union {"loss"}
    /\ UNCHANGED <<vars, saveVars, diskVars, ticks, runs, settled, adrift>>

-----------------------------------------------------------------------------
(* resumeFromCheckpoint and restarts *)

Loadable == file # NoInode /\ disk[file].state = "whole"
LoadCheckpoint == IF Loadable THEN disk[file].items ELSE {}

\* The order of the file is the heap's slice order; any order will do.
ResumeSaved ==
    /\ \E items \in Bijection(1..Cardinality(LoadCheckpoint), LoadCheckpoint) :
          ResumeWith(items)
    /\ UNCHANGED checkpointVars

\* With a checkpoint to resume from, the file is opened for appending.
Truncated == <<>>
Reopened == output

\* The process ends, after Run returned or by dying, and a new one starts.  The
\* files stay; the store stays if it is Redis and can be reached.
Restart ==
    /\ runs < MaxRuns
    /\ runs' = runs + 1
    /\ \E kept \in BOOLEAN :
          /\ seen' = IF kept THEN seen ELSE {}
          /\ hashes' = IF kept THEN hashes ELSE {}
          /\ mishaps' = mishaps
                \union (IF main = "returned" THEN {} ELSE {"loss"})
                \union (IF kept THEN {} ELSE {"forgotten"})
    /\ output' \in IF "forgotten" \in mishaps' THEN {<<>>}
                   ELSE {Reopened} \union {Append(output, Piece) : result \in writing}
    /\ writing' = {} /\ broken' = FALSE
    /\ main' = "resume" /\ todo' = Seeds /\ submitting' = {}
    /\ consumer' = "unstarted" /\ handling' = {} /\ links' = <<>> /\ emitting' = {}
    /\ pending' = {} /\ canceller' = "waiting"
    /\ queue' = {} /\ seq' = 0 /\ inFlight' = 0 /\ dispatched' = 0 /\ done' = FALSE
    /\ stats' = ZeroStats /\ simhashes' = {} /\ sunk' = {}
    /\ working' = {} /\ ready' = {} /\ engine' = "running"
    /\ closed' = FALSE /\ cancelled' = FALSE
    /\ saver' = [s \in Savers |-> "off"]
    /\ snapshot' = [s \in Savers |-> {}]
    /\ fd' = [s \in Savers |-> NoInode]
    /\ disk' = Kept({tmp, file})
    /\ settled' = IF mishaps' = {} THEN settled ELSE {}
    /\ adrift' = IF mishaps' = {} THEN adrift ELSE {}
    /\ UNCHANGED <<tmp, file, ticks>>

-----------------------------------------------------------------------------
CrawlStep ==
    /\ \/ RunBody \/ EnqueuePush \/ ConsumerNext \/ CancellerNext
       \/ EngineStep \/ CancelRun
    /\ writing' = writing \union Recorded(sunk' \ sunk)
    /\ settled' = Undisturbed(settled
          \union (IF main = "submit" /\ SubmitRefused THEN UrlsIn(submitting) ELSE {})
          \union (IF consumer = "emit" /\ consumer' = "recv"
                  THEN UrlsIn(JobsOf(emitting)) ELSE {}))
    /\ adrift' = Undisturbed(adrift
          \union (IF done /\ pending' = {} THEN UrlsIn(pending) ELSE {})
          \union UrlsIn(working \ (working' \union JobsOf(ready'))))
    /\ UNCHANGED <<saveVars, diskVars, output, broken, ticks, runs, mishaps>>

Done == main = "returned" /\ UNCHANGED allVars

\* What others do while a record is written they may as well do before: only
\* the death of the process tells the difference.
CNext ==
    \/ /\ writing = {}
       /\ \/ CrawlStep \/ ResumeSaved \/ ReturnSaved
          \/ Tick \/ FinalSave \/ (\E s \in Savers : Save(s))
    \/ WriteRecord \/ Restart \/ Done

CSpec == CInit /\ [][CNext]_allVars

-----------------------------------------------------------------------------
(* Properties *)

CTypeOK ==
    /\ TypeOK
    /\ saver \in [Savers -> {"off", "marshalled", "opened", "written", "idle", "saved",
                           "failed"}]
    /\ snapshot \in [Savers -> SUBSET SavedItem]
    /\ fd \in [Savers -> Inode \union {NoInode}]
    /\ disk \in [Inode -> [state: {"whole", "empty", "torn"}, items: SUBSET SavedItem]]
    /\ tmp \in Inode \union {NoInode} /\ file \in Inode \union {NoInode}
    /\ ticks \in 0..MaxTicks /\ runs \in 1..MaxRuns
    /\ writing \subseteq Result /\ broken \in BOOLEAN
    /\ output \in Seq([url: URL \union {"none"}, text: Text \union {NoText}])
    /\ settled \subseteq URL /\ adrift \subseteq URL
    /\ mishaps \subseteq Mishaps

\* Whatever crashes, restarts and failed writes happen, the checkpoint file is a
\* whole snapshot if it exists, as long as no two saves were ever under way at
\* once.
LoneSaveIsAtomic ==
    "overlap" \notin mishaps /\ file # NoInode => disk[file].state = "whole"

\* If every run returned before the next one started and saved its checkpoint,
\* and the store was kept, no page reaches the filters in two runs.
NoPageTwice ==
    [][\A result \in emitting :
          consumer = "emit" /\ consumer' = "recv" /\ mishaps = {} =>
              result.job.url \notin settled]_allVars

\* A run that nobody disturbs returns with every URL it has marked seen settled
\* or in the checkpoint, but for those in mid-air when it was cancelled; and the
\* next run takes up all that was saved, although the store knows it already.
OnlyMidAirLost ==
    main = "returned" /\ saver["final"] = "saved" /\ mishaps = {} =>
        /\ seen \subseteq settled \union adrift \union UrlsIn(LoadCheckpoint)
        /\ adrift # {} => runs > 1 \/ cancelled

Records == {i \in DOMAIN output : output[i] # Piece}
Readable == {i \in Records : i > 1 => output[i - 1] # Piece}

OnlyExactDedup == DedupContent /\ ~DedupNear /\ AllowedLangs = {} /\ ~StoreErrors

\* As long as the store is kept and answers, no text is in two records of the
\* file, whatever crashes, resumed checkpoints and failed writes happen, since the
\* hash is stored before the record is written; and unless one of these happens,
\* and no other filter is on, the file has a record on a line of its own for every
\* text that the store keeps others from.
FileAgreesWithStore ==
    "forgotten" \notin mishaps /\ OnlyExactDedup =>
        /\ \A i, j \in Records : output[i].text = output[j].text => i = j
        /\ mishaps = {} /\ writing = {} => hashes = {output[i].text : i \in Readable}

-----------------------------------------------------------------------------
(* What comments and tests of the code say and the code does not do *)

\* "so a crash mid-write cannot corrupt an existing checkpoint"
\* (checkpoint.go:31): a file that exists is always a whole snapshot.
SaveIsAtomic == file # NoInode => disk[file].state = "whole"
=============================================================================
