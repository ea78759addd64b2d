----------------------------- MODULE ArtifactProofs -----------------------------
(***************************************************************************)
(* What a run leaves on disk: its directory, and the queue of evaluations  *)
(* that its trainer, worker and supervisor share.                          *)
(*                                                                         *)
(* Directory.  Whatever the ranks, the target, the limit and the number of *)
(* runs, the writes of a commit keep a directory sound wherever they stop. *)
(*                                                                         *)
(* Queue.  Whatever the evaluations, records and faults, with the names of *)
(* the worker bound or unbound: UnboundNames is not constrained further.   *)
(***************************************************************************)
EXTENDS RunDirectory, EvalQueue, FiniteSetTheorems, TLAPS

-----------------------------------------------------------------------------
(* The run directory                                                        *)

(* A directory that still has its metadata lists everything a checkpoint    *)
(* has: retention may remove files, nothing ever shortens the list.         *)
Sound(files) == Metadata \in files.parts => files.listed \union {Integrity} = Parts

(* Resumable, of a directory in hand.                                       *)
Good(dir, s) == /\ Validates(dir.checkpoint[s])
                /\ Controller \in dir.checkpoint[s].parts

(* Good, or replaced by its successor under a retention of one.             *)
Safe(d, dir, s) == Good(dir, s) \/ (dir.limit = 1 /\ dir.newest = <<d, s + 1>>)

Pointers(dir) == {dir.link, dir.resumeJson, dir.resumeText}
Last(dir) == dir.events[Len(dir.events)]
Listed(dir, s) == \E i \in DOMAIN dir.events : dir.events[i] = s

(* What holds of a run directory by itself, at any time.                    *)
DirectoryInv(d, dir) ==
  /\ \A s \in Steps : Sound(dir.checkpoint[s])
  /\ \A p \in Pointers(dir) \ {None, dir.source} :
       p[1] = d /\ p[2] \in dir.report /\ Safe(d, dir, p[2])
  /\ dir.newest # None => dir.newest[1] = d /\ Good(dir, dir.newest[2])
  /\ \A i \in DOMAIN dir.events :
       LET s == dir.events[i]
       IN  s \in dir.report /\ s \in dir.model /\ <<d, s>> \in dir.queue
  /\ dir.events # <<>> => Safe(d, dir, Last(dir))
  /\ \A s \in {dir.latest, dir.progress} : s = dir.source[2] \/ Listed(dir, s)

Saving == {"setup", "shards", "metadata", "integrity", "rename"}
Checked == {"link", "resumeJson", "resumeText"}
Publishing == {"publish", "latest", "progress"}
Exporting == {"export", "complete", "modelJson", "enqueue"}
Following == Exporting \union Publishing \union {"idle"}
Committing == Saving \union {"newest", "retire", "verify"} \union Checked
                     \union Publishing

(* What the temporary directory holds, write by write.                      *)
TemporaryInv(p, files) ==
  /\ p = "shards" => files.parts \subseteq Ranks
  /\ p = "metadata" => files.parts = Ranks \union {Controller}
  /\ p = "integrity" => files.parts = Ranks \union {Controller, Metadata}
  /\ p = "rename" => files.parts = Parts /\ files.listed \union {Integrity} = Parts

(* Where the trainer is, in its directory: an update is safe once renamed,  *)
(* and what has been published or pointed to is at most one update old.     *)
TrainerInv(p, d, dir, s) ==
  /\ s >= dir.source[2]
  /\ p # "idle" => s \in Steps
  /\ p = "materialize" => s = dir.source[2]
  /\ p \in Committing => s > dir.source[2]
  /\ TemporaryInv(p, dir.temporary)
  /\ \A t \in Steps : dir.checkpoint[t].parts # {} => t <= s
  /\ s = dir.source[2] => dir.events = <<>> /\ dir.newest = None
                          /\ Pointers(dir) \subseteq {None, dir.source}
  /\ dir.newest # None => dir.newest[2] \in {s - 1, s}
  /\ \A q \in Pointers(dir) \ {None, dir.source} : q[2] \in {s - 1, s}
  /\ dir.events # <<>> => Last(dir) \in {s - 1, s}
  /\ s > dir.source[2] =>
       /\ p \notin Saving => Good(dir, s)
       /\ p \notin Saving \union {"newest"} => dir.newest = <<d, s>>
       /\ p \in Checked \union Following => s \in dir.report
       /\ p \in {"resumeJson", "resumeText"} \union Following => dir.link = <<d, s>>
       /\ p \in {"resumeText"} \union Following => dir.resumeJson = <<d, s>>
       /\ p \in Following => dir.resumeText = <<d, s>>
       /\ p \in {"latest", "progress", "idle"} => dir.events # <<>> /\ Last(dir) = s
  /\ p = "complete" => s \in dir.exported
  /\ p \in {"modelJson", "enqueue"} \union Publishing => s \in dir.model
  /\ p \in Publishing => <<d, s>> \in dir.queue

(* A run descends from an earlier one, and from a checkpoint that stays.    *)
SourceInv(d) ==
  disk[d].source # None => /\ disk[d].source \in (1 .. d - 1) \X Steps
                           /\ Resumable(disk[d].source[1], disk[d].source[2])

TasksInv(d) == \A q \in disk[d].queue : q[2] \in disk[q[1]].model

RunsInv ==
  /\ TypeOK
  /\ pc # "down" => run \in Runs /\ TrainerInv(pc, run, disk[run], step)
  /\ \A d \in Runs : DirectoryInv(d, disk[d]) /\ SourceInv(d) /\ TasksInv(d)
  /\ \A d \in Runs : d > run => disk[d] = EmptyRun(None, Target)
-----------------------------------------------------------------------------
(* A write into the directory of the running process.                       *)
LEMMA WriteKeeps ==
  ASSUME RunsInv, NEW from, NEW to \in Pcs, NEW STATE dir, dir \in RunDir,
         Write(from, to, dir), from # "down",
         dir.source = Here.source, Here.model \subseteq dir.model,
         \A q \in dir.queue : \/ q \in Here.queue
                              \/ q[1] = run /\ q[2] \in dir.model
                              \/ q[1] # run /\ q[2] \in disk[q[1]].model,
         DirectoryInv(run, dir),
         to # "down" => TrainerInv(to, run, dir, step)
  PROVE  RunsInv'
<1>1. /\ run \in Runs /\ pc' = to /\ run' = run /\ step' = step
      /\ disk \in [0 .. MaxRuns -> RunDir] /\ disk' = [disk EXCEPT ![run] = dir]
      /\ Runs \subseteq 0 .. MaxRuns /\ MaxRuns \in Nat
  BY DirectoryConstants DEF RunsInv, TypeOK, Write, Runs
<1>2. /\ disk'[run] = dir
      /\ \A d \in 0 .. MaxRuns : d # run => disk'[d] = disk[d]
  BY <1>1
<1>3. TypeOK'
  BY <1>1 DEF RunsInv, TypeOK
<1>4. ASSUME NEW d \in Runs
      PROVE  DirectoryInv(d, disk'[d])
  BY <1>2, <1>1 DEF RunsInv
<1>5. ASSUME NEW d \in Runs
      PROVE  SourceInv(d)'
  <2>1. disk'[d].source = disk[d].source
    BY <1>1, <1>2 DEF Here
  <2>2. CASE disk[d].source = None
    BY <2>1, <2>2 DEF SourceInv
  <2>3. CASE disk[d].source # None
    <3>1. /\ disk[d].source \in (1 .. d - 1) \X Steps
          /\ Resumable(disk[d].source[1], disk[d].source[2])
      BY <2>3 DEF RunsInv, SourceInv
    <3>2. PICK e \in 1 .. d - 1, s \in Steps : disk[d].source = <<e, s>>
      BY <3>1
    <3>3. e \in Runs
      BY <1>1, <3>2 DEF Runs
    <3>4. Resumable(e, s)'
      <4>1. e # run
        <5>1. d <= run
          <6> SUFFICES ASSUME d > run PROVE FALSE
            BY <1>1 DEF Runs
          <6> QED
            BY <2>3 DEF RunsInv, EmptyRun
        <5> QED
          BY <1>1, <5>1 DEF Runs
      <4>2. disk'[e] = disk[e]
        BY <1>1, <1>2, <3>3, <4>1
      <4> QED
        BY <3>1, <3>2, <4>2 DEF Resumable, Validates
    <3> QED
      BY <2>1, <3>1, <3>2, <3>4 DEF SourceInv
  <2> QED
    BY <2>2, <2>3
<1>6. ASSUME NEW d \in Runs
      PROVE  TasksInv(d)'
  <2>1. \A e \in Runs : disk[e].model \subseteq disk'[e].model
    BY <1>1, <1>2 DEF Here
  <2>2. ASSUME NEW q \in disk'[d].queue
        PROVE  q[2] \in disk'[q[1]].model
    <3>1. disk'[d] \in RunDir
      BY <1>1, <1>3 DEF TypeOK
    <3>2. q \in Runs \X Steps
      BY <2>2, <3>1 DEF RunDir
    <3>3. q[1] \in Runs
      BY <3>2
    <3>4. CASE q \in disk[d].queue
      BY <2>1, <3>3, <3>4 DEF RunsInv, TasksInv
    <3>5. CASE q \notin disk[d].queue
      <4>1. d = run
        BY <1>1, <1>2, <2>2, <3>5
      <4> QED
        BY <1>1, <1>2, <2>1, <2>2, <3>3, <3>5, <4>1 DEF Here
    <3> QED
      BY <3>4, <3>5
  <2> QED
    BY <2>2 DEF TasksInv
<1>7. \A d \in Runs : d > run => disk'[d] = EmptyRun(None, Target)
  BY <1>1, <1>2 DEF RunsInv, Runs
<1> QED
  BY <1>1, <1>2, <1>3, <1>4, <1>5, <1>6, <1>7 DEF RunsInv
-----------------------------------------------------------------------------
(* Most writes touch neither the checkpoints nor what has been published.   *)
Alike(dir, old) ==
  /\ dir.source = old.source /\ dir.limit = old.limit
  /\ dir.checkpoint = old.checkpoint
  /\ dir.events = old.events /\ dir.latest = old.latest
  /\ dir.progress = old.progress /\ dir.newest = old.newest
  /\ old.report \subseteq dir.report /\ old.model \subseteq dir.model
  /\ old.queue \subseteq dir.queue

SamePointers(dir, old) ==
  /\ dir.link = old.link /\ dir.resumeJson = old.resumeJson
  /\ dir.resumeText = old.resumeText

LEMMA InDirectory ==
  ASSUME RunsInv, pc # "down"
  PROVE  /\ run \in Runs /\ step \in 0 .. Target /\ step \in Nat
         /\ Here \in RunDir
         /\ DirectoryInv(run, Here) /\ TrainerInv(pc, run, Here, step)
         /\ SourceInv(run) /\ TasksInv(run)
<1>1. run \in Runs /\ MaxRuns \in Nat /\ Target \in Nat
  BY DirectoryConstants DEF RunsInv
<1> QED
  BY <1>1 DEF RunsInv, TypeOK, Here, Runs

LEMMA DirectoryGrows ==
  ASSUME NEW d, NEW old, NEW dir, DirectoryInv(d, old), Alike(dir, old),
         \A p \in Pointers(dir) :
           \/ p \in Pointers(old)
           \/ p[1] = d /\ p[2] \in dir.report /\ Safe(d, dir, p[2])
  PROVE  DirectoryInv(d, dir)
<1>1. /\ \A s : Good(old, s) => Good(dir, s)
      /\ \A s : Safe(d, old, s) => Safe(d, dir, s)
  BY DEF Good, Safe, Alike
<1>2. \A s \in Steps : Sound(dir.checkpoint[s])
  BY DEF DirectoryInv, Alike
<1>3. /\ \A p \in Pointers(dir) \ {None, dir.source} :
            p[1] = d /\ p[2] \in dir.report /\ Safe(d, dir, p[2])
      /\ dir.newest # None => dir.newest[1] = d /\ Good(dir, dir.newest[2])
  BY <1>1 DEF DirectoryInv, Alike
<1>4. \A i \in DOMAIN dir.events :
         LET s == dir.events[i]
         IN  s \in dir.report /\ s \in dir.model /\ <<d, s>> \in dir.queue
  BY DEF DirectoryInv, Alike
<1>5. dir.events # <<>> => Safe(d, dir, Last(dir))
  BY <1>1 DEF DirectoryInv, Alike, Last
<1>6. \A s \in {dir.latest, dir.progress} : s = dir.source[2] \/ Listed(dir, s)
  BY DEF DirectoryInv, Alike, Listed
<1> QED
  BY <1>2, <1>3, <1>4, <1>5, <1>6 DEF DirectoryInv

(* Such a write by the trainer, as far as it has to be looked at.           *)
LEMMA QuietWrite ==
  ASSUME RunsInv, NEW from, NEW to \in Pcs, NEW STATE dir, dir \in RunDir,
         Write(from, to, dir), from # "down",
         Alike(dir, Here), SamePointers(dir, Here), dir.queue = Here.queue,
         to # "down" => TrainerInv(to, run, dir, step)
  PROVE  RunsInv'
<1>1. pc # "down"
  BY DEF Write
<1>2. \A p \in Pointers(dir) : p \in Pointers(Here)
  BY DEF Pointers, SamePointers
<1>3. DirectoryInv(run, dir)
  BY <1>1, <1>2, InDirectory, DirectoryGrows
<1> QED
  BY <1>3, WriteKeeps DEF Alike

(* The parts of TrainerInv that such a write leaves alone.                  *)
LEMMA TrainerStays ==
  ASSUME NEW d, NEW old, NEW dir, NEW s, NEW p, TrainerInv(p, d, old, s),
         Alike(dir, old), SamePointers(dir, old)
  PROVE  /\ s >= dir.source[2]
         /\ p # "idle" => s \in Steps
         /\ p = "materialize" => s = dir.source[2]
         /\ p \in Committing => s > dir.source[2]
         /\ \A t \in Steps : dir.checkpoint[t].parts # {} => t <= s
         /\ s = dir.source[2] => dir.events = <<>> /\ dir.newest = None
                                 /\ Pointers(dir) \subseteq {None, dir.source}
         /\ dir.newest # None => dir.newest[2] \in {s - 1, s}
         /\ dir.newest = old.newest
         /\ \A q \in Pointers(dir) \ {None, dir.source} : q[2] \in {s - 1, s}
         /\ dir.events # <<>> => Last(dir) \in {s - 1, s}
         /\ \A t : Good(dir, t) <=> Good(old, t)
         /\ Last(dir) = Last(old)
<1>1. Pointers(dir) = Pointers(old)
  BY DEF Pointers, SamePointers
<1> QED
  BY <1>1 DEF TrainerInv, Alike, Good, Last

(* The writes up to the rename, which all go to the temporary directory.    *)
LEMMA SavingMoves ==
  ASSUME RunsInv, NEW from \in Saving, NEW to \in Saving,
         NEW STATE files, files \in Files, TemporaryInv(to, files),
         Write(from, to, [Here EXCEPT !.temporary = files])
  PROVE  RunsInv'
<1> DEFINE dir == [Here EXCEPT !.temporary = files]
<1>1. pc = from /\ from # "down" /\ to \in Pcs
  BY DEF Write, Saving, Pcs
<1>2. Here \in RunDir /\ TrainerInv(pc, run, Here, step)
  BY <1>1, InDirectory
<1>3. /\ dir \in RunDir /\ Alike(dir, Here) /\ SamePointers(dir, Here)
      /\ dir.queue = Here.queue /\ dir.temporary = files
  BY <1>2 DEF RunDir, Alike, SamePointers
<1> HIDE DEF dir
<1>4. TrainerInv(to, run, dir, step)
  <2>1. /\ pc \in Committing /\ pc # "idle" /\ to \in Saving
        /\ to \notin Checked \union Following
        /\ to \notin {"materialize", "complete", "modelJson", "enqueue"}
        /\ to \notin Publishing
        /\ to \notin {"resumeJson", "resumeText"} \union Following
        /\ to \notin {"resumeText"} \union Following
        /\ to \notin {"latest", "progress", "idle"}
    BY <1>1
    DEF Saving, Committing, Checked, Following, Exporting, Publishing
  <2>2. TrainerInv(pc, run, Here, step)
    BY <1>2
  <2>3. TemporaryInv(to, dir.temporary)
    BY <1>3
  <2>4. /\ step >= dir.source[2] /\ step \in Steps /\ step > dir.source[2]
        /\ \A t \in Steps : dir.checkpoint[t].parts # {} => t <= step
        /\ step = dir.source[2] => dir.events = <<>> /\ dir.newest = None
                                   /\ Pointers(dir) \subseteq {None, dir.source}
        /\ dir.newest # None => dir.newest[2] \in {step - 1, step}
        /\ \A q \in Pointers(dir) \ {None, dir.source} : q[2] \in {step - 1, step}
        /\ dir.events # <<>> => Last(dir) \in {step - 1, step}
    BY <1>3, <2>1, <2>2, TrainerStays
  <2>5. to # "idle" /\ to \notin {"newest"}
    BY <2>1 DEF Saving
  <2> QED
    BY <2>1, <2>3, <2>4, <2>5 DEF TrainerInv
<1>5. Write(from, to, dir)
  BY DEF dir
<1> QED
  BY <1>1, <1>3, <1>4, <1>5, QuietWrite

LEMMA TemporaryFiles ==
  ASSUME RunsInv, pc # "down"
  PROVE  /\ Here.temporary \in Files
         /\ [Here EXCEPT !.temporary = Here.temporary] = Here
         /\ TemporaryInv(pc, Here.temporary)
<1>1. Here \in RunDir /\ TrainerInv(pc, run, Here, step)
  BY InDirectory
<1> QED
  BY <1>1 DEF RunDir, TrainerInv

LEMMA SetupInv == ASSUME RunsInv, Setup PROVE RunsInv'
<1>1. pc = "setup" /\ Write("setup", "shards", Here) /\ Here.temporary = NoFiles
  BY DEF Setup, Write
<1>2. TemporaryInv("shards", Here.temporary)
  BY <1>1 DEF TemporaryInv, NoFiles
<1> QED
  BY <1>1, <1>2, TemporaryFiles, SavingMoves DEF Saving

LEMMA RankSavesInv ==
  ASSUME RunsInv, NEW r \in Ranks, RankSaves(r) PROVE RunsInv'
<1> DEFINE files == [Here.temporary EXCEPT !.parts = @ \union {r}]
<1>1. pc = "shards" /\ Write("shards", "shards", [Here EXCEPT !.temporary = files])
  BY DEF RankSaves, Write
<1>2. Here.temporary \in Files /\ Here.temporary.parts \subseteq Ranks
  BY <1>1, TemporaryFiles DEF TemporaryInv
<1>3. files \in Files /\ files.parts \subseteq Ranks
  BY <1>2 DEF Files, Parts
<1> HIDE DEF files
<1>4. TemporaryInv("shards", files)
  BY <1>3 DEF TemporaryInv
<1> QED
  BY <1>1, <1>3, <1>4, SavingMoves DEF Saving

LEMMA DriverSavesInv == ASSUME RunsInv, DriverSaves PROVE RunsInv'
<1> DEFINE files == [Here.temporary EXCEPT !.parts = @ \union {Controller}]
<1>1. /\ pc = "shards" /\ Ranks \subseteq Here.temporary.parts
      /\ Write("shards", "metadata", [Here EXCEPT !.temporary = files])
  BY DEF DriverSaves, Write
<1>2. Here.temporary \in Files /\ Here.temporary.parts = Ranks
  BY <1>1, TemporaryFiles DEF TemporaryInv
<1>3. files \in Files /\ files.parts = Ranks \union {Controller}
  BY <1>2 DEF Files, Parts
<1> HIDE DEF files
<1>4. TemporaryInv("metadata", files)
  BY <1>3 DEF TemporaryInv
<1> QED
  BY <1>1, <1>3, <1>4, SavingMoves DEF Saving

LEMMA WriteMetadataInv == ASSUME RunsInv, WriteMetadata PROVE RunsInv'
<1> DEFINE files == [Here.temporary EXCEPT !.parts = @ \union {Metadata}]
<1>1. /\ pc = "metadata"
      /\ Write("metadata", "integrity", [Here EXCEPT !.temporary = files])
  BY DEF WriteMetadata, Write
<1>2. Here.temporary \in Files /\ Here.temporary.parts = Ranks \union {Controller}
  BY <1>1, TemporaryFiles DEF TemporaryInv
<1>3. files \in Files /\ files.parts = Ranks \union {Controller, Metadata}
  BY <1>2 DEF Files, Parts
<1> HIDE DEF files
<1>4. TemporaryInv("integrity", files)
  BY <1>3 DEF TemporaryInv
<1> QED
  BY <1>1, <1>3, <1>4, SavingMoves DEF Saving

LEMMA WriteIntegrityInv == ASSUME RunsInv, WriteIntegrity PROVE RunsInv'
<1> DEFINE old == Here.temporary
           files == [parts |-> old.parts \union {Integrity}, listed |-> old.parts]
<1>1. /\ pc = "integrity"
      /\ Write("integrity", "rename", [Here EXCEPT !.temporary = files])
  BY DEF WriteIntegrity, Write
<1>2. old \in Files /\ old.parts = Ranks \union {Controller, Metadata}
  BY <1>1, TemporaryFiles DEF TemporaryInv
<1>3. files \in Files /\ files.parts = Parts /\ files.listed \union {Integrity} = Parts
  BY <1>2 DEF Files, Parts
<1> HIDE DEF files
<1>4. TemporaryInv("rename", files)
  BY <1>3 DEF TemporaryInv
<1> QED
  BY <1>1, <1>3, <1>4, SavingMoves DEF Saving
-----------------------------------------------------------------------------
(* The rename and the retention change checkpoints: what is pointed to or   *)
(* published is of this update or the one before it, and must stay good.    *)
LEMMA CheckpointWrite ==
  ASSUME RunsInv, NEW from \in {"rename", "retire"}, NEW to \in {"newest", "retire"},
         NEW STATE dir, dir \in RunDir, Write(from, to, dir),
         dir.source = Here.source, dir.events = Here.events,
         dir.report = Here.report, dir.model = Here.model, dir.queue = Here.queue,
         dir.latest = Here.latest, dir.progress = Here.progress,
         SamePointers(dir, Here), dir.newest = Here.newest,
         to = "retire" => Here.newest = <<run, step>>,
         \A t \in Steps : Sound(dir.checkpoint[t]),
         \A t \in Steps :
           t \in {step - 1, step} /\ Safe(run, Here, t) => Safe(run, dir, t),
         Here.newest # None => Good(dir, Here.newest[2]),
         Good(dir, step),
         \A t \in Steps : dir.checkpoint[t].parts # {} => t <= step
  PROVE  RunsInv'
<1>1. pc = from /\ from # "down" /\ to \in Pcs /\ to # "down"
  BY DEF Write, Pcs
<1>2. /\ Here \in RunDir /\ run \in Runs
      /\ DirectoryInv(run, Here) /\ TrainerInv(pc, run, Here, step)
  BY <1>1, InDirectory
<1>3. Pointers(dir) = Pointers(Here) /\ Last(dir) = Last(Here)
  BY DEF Pointers, SamePointers, Last
<1>4. \A p \in Pointers(dir) \ {None, dir.source} :
         /\ p[2] \in Steps /\ p[2] \in {step - 1, step}
         /\ p[1] = run /\ p[2] \in dir.report /\ Safe(run, Here, p[2])
  <2>1. Pointers(Here) \subseteq Pointer
    BY <1>2 DEF RunDir, Pointers
  <2>2. \A p \in Pointer \ {None} : p[2] \in Steps
    BY DEF Pointer
  <2> QED
    BY <1>2, <1>3, <2>1, <2>2 DEF DirectoryInv, TrainerInv
<1>5. dir.events # <<>> =>
         /\ Last(dir) \in Steps /\ Last(dir) \in {step - 1, step}
         /\ Safe(run, Here, Last(dir))
  <2>1. Here.events \in Seq(Steps)
    BY <1>2 DEF RunDir
  <2>2. Here.events # <<>> => Last(Here) \in Steps
    BY <2>1 DEF Last
  <2> QED
    BY <1>2, <1>3, <2>2 DEF DirectoryInv, TrainerInv
<1>6. DirectoryInv(run, dir)
  <2>1. \A p \in Pointers(dir) \ {None, dir.source} :
           p[1] = run /\ p[2] \in dir.report /\ Safe(run, dir, p[2])
    BY <1>4
  <2>2. /\ dir.events # <<>> => Safe(run, dir, Last(dir))
        /\ dir.newest # None => dir.newest[1] = run /\ Good(dir, dir.newest[2])
    BY <1>2, <1>5 DEF DirectoryInv
  <2>3. \A i \in DOMAIN dir.events :
           LET s == dir.events[i]
           IN  s \in dir.report /\ s \in dir.model /\ <<run, s>> \in dir.queue
    BY <1>2 DEF DirectoryInv
  <2>4. \A s \in {dir.latest, dir.progress} : s = dir.source[2] \/ Listed(dir, s)
    BY <1>2 DEF DirectoryInv, Listed
  <2> QED
    BY <2>1, <2>2, <2>3, <2>4 DEF DirectoryInv
<1>7. TrainerInv(to, run, dir, step)
  <2>1. /\ pc \in Committing /\ pc # "idle" /\ to \notin Saving
        /\ to \notin Checked \union Following
        /\ to \notin {"materialize", "complete", "modelJson", "enqueue", "idle",
                      "latest", "progress"}
        /\ to \notin {"resumeJson", "resumeText"} \union Following
        /\ to \notin {"resumeText"} \union Following
        /\ to \notin Publishing
    BY <1>1
    DEF Saving, Committing, Checked, Following, Exporting, Publishing
  <2>2. TemporaryInv(to, dir.temporary)
    BY DEF TemporaryInv
  <2>3. /\ step \in Steps /\ step > dir.source[2]
        /\ step >= dir.source[2]
        /\ step = dir.source[2] => FALSE
        /\ dir.newest # None => dir.newest[2] \in {step - 1, step}
        /\ to \notin Saving \union {"newest"} => dir.newest = <<run, step>>
    BY <1>2, <2>1 DEF TrainerInv, Steps, RunDir, Pointer, None
  <2> QED
    BY <1>1, <1>4, <1>5, <2>1, <2>2, <2>3 DEF TrainerInv
<1>8. Write(from, to, dir) /\ Here.model \subseteq dir.model
  OBVIOUS
<1> QED
  BY <1>1, <1>6, <1>7, <1>8, WriteKeeps

LEMMA RenameInv == ASSUME RunsInv, Rename PROVE RunsInv'
<1> DEFINE dir == [Here EXCEPT !.checkpoint[step] = Here.temporary,
                               !.temporary = NoFiles]
<1>1. pc = "rename" /\ Write("rename", "newest", dir)
  BY DEF Rename, Write
<1>2. /\ Here \in RunDir /\ step \in Steps
      /\ DirectoryInv(run, Here) /\ TrainerInv(pc, run, Here, step)
  BY <1>1, InDirectory DEF TrainerInv
<1>3. /\ Here.temporary \in Files /\ Here.temporary.parts = Parts
      /\ Here.temporary.listed \union {Integrity} = Parts
  BY <1>1, TemporaryFiles DEF TemporaryInv
<1>4. NoFiles \in Files
  BY DEF NoFiles, Files
<1>5. dir \in RunDir
  BY <1>2, <1>3, <1>4 DEF RunDir
<1>6. /\ dir.source = Here.source /\ dir.limit = Here.limit
      /\ dir.events = Here.events
      /\ dir.report = Here.report /\ dir.model = Here.model /\ dir.queue = Here.queue
      /\ dir.latest = Here.latest /\ dir.progress = Here.progress
      /\ SamePointers(dir, Here) /\ dir.newest = Here.newest
      /\ dir.checkpoint[step] = Here.temporary
      /\ \A t \in Steps \ {step} : dir.checkpoint[t] = Here.checkpoint[t]
  BY <1>2 DEF RunDir, SamePointers
<1> HIDE DEF dir
<1>7. Good(dir, step)
  BY <1>3, <1>6 DEF Good, Validates, Parts
<1>8. \A t \in Steps : Sound(dir.checkpoint[t])
  BY <1>2, <1>3, <1>6 DEF Sound, DirectoryInv
<1>9. /\ \A t \in Steps : Safe(run, Here, t) => Safe(run, dir, t)
      /\ Here.newest # None => Good(dir, Here.newest[2])
  <2>1. \A t \in Steps : Good(Here, t) => Good(dir, t)
    BY <1>6, <1>7 DEF Good
  <2>2. Here.newest # None => Here.newest[2] \in Steps
    BY <1>2 DEF RunDir, Pointer
  <2> QED
    BY <1>2, <1>6, <2>1, <2>2 DEF Safe, DirectoryInv
<1>10. \A t \in Steps : dir.checkpoint[t].parts # {} => t <= step
  BY <1>2, <1>6 DEF TrainerInv, Steps
<1> QED
  BY <1>1, <1>5, <1>6, <1>7, <1>8, <1>9, <1>10, CheckpointWrite

(* Retention: of the checkpoints kept, none is newer than this update's and *)
(* at most one than its predecessor's.  So this one is not retired, nor is  *)
(* its predecessor where there is room for two.                             *)
LEMMA RecentStay ==
  ASSUME RunsInv, pc = "retire", NEW t \in Steps, Good(Here, t),
         t = step \/ (t = step - 1 /\ Here.limit # 1)
  PROVE  ~ Victim(t)
<1>1. /\ Here \in RunDir /\ step \in Nat /\ TrainerInv(pc, run, Here, step)
      /\ Here.limit \in Nat \ {0}
  BY InDirectory DEF RunDir
<1> DEFINE newer == {u \in Kept : u > t}
<1>2. \A u \in newer : u = step
  <2> SUFFICES ASSUME NEW u \in Steps, Metadata \in Here.checkpoint[u].parts, u > t
               PROVE  u = step
    BY DEF Kept
  <2>1. u <= step
    BY <1>1 DEF TrainerInv
  <2> QED
    BY <1>1, <2>1 DEF Steps
<1>3. newer \in SUBSET {step} /\ (t = step => newer = {})
  BY <1>1, <1>2
<1>4. IsFiniteSet({step}) /\ Cardinality({step}) = 1
  BY FS_Singleton
<1>5. Cardinality(newer) <= 1 /\ IsFiniteSet(newer)
  BY <1>3, <1>4, FS_Subset
<1>6. Cardinality(newer) \in Nat
  BY <1>5, FS_CardinalityType
<1>7. ~ Cardinality(newer) >= Here.limit
  <2>1. CASE t = step
    BY <1>1, <1>3, <2>1, FS_EmptySet
  <2>2. CASE Here.limit # 1
    BY <1>1, <1>5, <1>6, <2>2
  <2> QED
    BY <2>1, <2>2
<1>8. ~ Retired(t)
  BY <1>7 DEF Retired
<1>9. t \in Kept
  BY DEF Kept, Good, Validates
<1> QED
  BY <1>8, <1>9 DEF Victim

LEMMA RemovePartInv == ASSUME RunsInv, RemovePart PROVE RunsInv'
<1>s. PICK s \in Steps : \E p :
         /\ Victim(s)
         /\ Write("retire", "retire", [Here EXCEPT !.checkpoint[s].parts = @ \ {p}])
  BY DEF RemovePart
<1>1. PICK p :
         /\ Victim(s)
         /\ Write("retire", "retire", [Here EXCEPT !.checkpoint[s].parts = @ \ {p}])
  BY <1>s
<1> DEFINE dir == [Here EXCEPT !.checkpoint[s].parts = @ \ {p}]
<1>2. pc = "retire"
  BY <1>1 DEF Write
<1>3. /\ Here \in RunDir /\ step \in Steps
      /\ DirectoryInv(run, Here) /\ TrainerInv(pc, run, Here, step)
  BY <1>2, InDirectory DEF TrainerInv
<1>4. Here.checkpoint \in [Steps -> Files]
  BY <1>3 DEF RunDir
<1>5. dir.checkpoint = [Here.checkpoint EXCEPT ![s].parts = @ \ {p}]
  BY <1>3 DEF RunDir
<1>6. /\ dir.checkpoint \in [Steps -> Files]
      /\ dir.checkpoint[s].parts = Here.checkpoint[s].parts \ {p}
      /\ dir.checkpoint[s].listed = Here.checkpoint[s].listed
      /\ \A t \in Steps \ {s} : dir.checkpoint[t] = Here.checkpoint[t]
  BY <1>4, <1>5 DEF Files
<1>7. /\ dir.source = Here.source /\ dir.limit = Here.limit
      /\ dir.events = Here.events
      /\ dir.report = Here.report /\ dir.model = Here.model /\ dir.queue = Here.queue
      /\ dir.latest = Here.latest /\ dir.progress = Here.progress
      /\ SamePointers(dir, Here) /\ dir.newest = Here.newest
  BY <1>3 DEF RunDir, SamePointers
<1>8. dir \in RunDir
  BY <1>3, <1>5, <1>6 DEF RunDir
<1>9. Write("retire", "retire", dir)
  BY <1>1
<1> HIDE DEF dir
<1>10. \A t \in Steps : Sound(dir.checkpoint[t])
  BY <1>3, <1>6 DEF Sound, DirectoryInv
<1>11. Good(Here, step) /\ Here.newest = <<run, step>>
  BY <1>2, <1>3
  DEF TrainerInv, Committing, Saving, RunDir, Pointer, Steps, None
<1>12. \A t \in Steps : Good(Here, t) /\ ~ Victim(t) => Good(dir, t)
  BY <1>1, <1>6 DEF Good
<1>14. Good(dir, step)
  BY <1>2, <1>3, <1>11, <1>12, RecentStay
<1>15. ASSUME NEW t \in Steps, t \in {step - 1, step}, Safe(run, Here, t)
       PROVE  Safe(run, dir, t)
  <2>1. CASE Here.limit = 1 /\ t # step
    BY <1>3, <1>7, <1>11, <1>15, <2>1 DEF Safe, Steps
  <2>2. CASE t = step
    BY <1>14, <2>2 DEF Safe
  <2>3. CASE Here.limit # 1
    <3>1. Good(Here, t)
      BY <1>15, <2>3 DEF Safe
    <3> QED
      BY <1>2, <1>12, <1>15, <2>3, <3>1, RecentStay DEF Safe
  <2> QED
    BY <2>1, <2>2, <2>3
<1>13. \A t \in Steps : dir.checkpoint[t].parts # {} => t <= step
  BY <1>3, <1>6 DEF TrainerInv
<1> QED
  BY <1>3, <1>7, <1>8, <1>9, <1>10, <1>11, <1>13, <1>14, <1>15, CheckpointWrite
-----------------------------------------------------------------------------
(* The writes after the rename                                              *)

LEMMA ThisUpdate ==
  ASSUME run \in Runs, step \in Steps PROVE <<run, step>> \in Pointer
BY DEF Pointer

LEMMA WriteNewestInv == ASSUME RunsInv, WriteNewest PROVE RunsInv'
<1> DEFINE dir == [Here EXCEPT !.newest = <<run, step>>]
<1>1. pc = "newest" /\ Write("newest", "retire", dir)
  BY DEF WriteNewest, Write
<1>2. /\ Here \in RunDir /\ step \in Steps /\ step \in Nat /\ run \in Runs
      /\ DirectoryInv(run, Here) /\ TrainerInv("newest", run, Here, step)
  BY <1>1, InDirectory DEF TrainerInv
<1>3. /\ dir \in RunDir /\ SamePointers(dir, Here) /\ dir.newest = <<run, step>>
      /\ dir.source = Here.source /\ dir.limit = Here.limit
      /\ dir.checkpoint = Here.checkpoint
      /\ dir.events = Here.events /\ dir.report = Here.report
      /\ dir.model = Here.model /\ dir.queue = Here.queue
      /\ dir.latest = Here.latest /\ dir.progress = Here.progress
  BY <1>2, ThisUpdate DEF RunDir, SamePointers
<1> HIDE DEF dir
<1>4. /\ Pointers(dir) = Pointers(Here) /\ Last(dir) = Last(Here)
      /\ \A t : Good(dir, t) <=> Good(Here, t)
  BY <1>3 DEF Pointers, SamePointers, Last, Good
<1>5. /\ "newest" \in Committing /\ "newest" \notin Saving
      /\ "retire" \notin Checked \union Following
      /\ "retire" \notin {"resumeJson", "resumeText"} \union Following
      /\ "retire" \notin {"resumeText"} \union Following
      /\ "retire" \notin Following
      /\ "retire" \notin {"modelJson", "enqueue"} \union Publishing
      /\ "retire" \notin Publishing
  BY DEF Committing, Saving, Checked, Following, Exporting, Publishing
<1>6. /\ Good(dir, step) /\ step > dir.source[2] /\ step # dir.source[2]
  BY <1>2, <1>3, <1>4, <1>5 DEF TrainerInv, RunDir, Pointer, None, Steps
<1>7. ASSUME NEW t \in Steps, t \in {step - 1, step}, Safe(run, Here, t)
      PROVE  Safe(run, dir, t)
  <2>1. CASE Good(Here, t)
    BY <1>4, <2>1 DEF Safe
  <2>2. CASE Here.limit = 1 /\ Here.newest = <<run, t + 1>>
    <3>1. Here.newest # None => Here.newest[2] \in {step - 1, step}
      BY <1>2 DEF TrainerInv
    <3>2. Here.newest # None
      BY <1>2, <2>2, DirectoryConstants DEF None, Runs
    <3>3. t + 1 = step
      BY <1>2, <1>7, <2>2, <3>1, <3>2 DEF Steps
    <3> QED
      BY <1>3, <2>2, <3>3 DEF Safe
  <2> QED
    BY <1>7, <2>1, <2>2 DEF Safe
<1>8. \A p \in Pointers(dir) \ {None, dir.source} :
         p[1] = run /\ p[2] \in dir.report /\ Safe(run, dir, p[2])
  <2>1. \A p \in Pointers(Here) \ {None} : p[2] \in Steps
    BY <1>2 DEF RunDir, Pointers, Pointer
  <2> QED
    BY <1>2, <1>3, <1>4, <1>7, <2>1 DEF DirectoryInv, TrainerInv
<1>9. dir.events # <<>> => Safe(run, dir, Last(dir))
  <2>1. Here.events \in Seq(Steps)
    BY <1>2 DEF RunDir
  <2>2. Here.events # <<>> => Last(Here) \in Steps
    BY <2>1 DEF Last
  <2> QED
    BY <1>2, <1>3, <1>4, <1>7, <2>2 DEF DirectoryInv, TrainerInv
<1>10. DirectoryInv(run, dir)
  <2>1. \A i \in DOMAIN dir.events :
           LET s == dir.events[i]
           IN  s \in dir.report /\ s \in dir.model /\ <<run, s>> \in dir.queue
    BY <1>2, <1>3 DEF DirectoryInv
  <2>2. \A s \in {dir.latest, dir.progress} : s = dir.source[2] \/ Listed(dir, s)
    BY <1>2, <1>3 DEF DirectoryInv, Listed
  <2>3. \A s \in Steps : Sound(dir.checkpoint[s])
    BY <1>2, <1>3 DEF DirectoryInv
  <2> QED
    BY <1>3, <1>6, <1>8, <1>9, <2>1, <2>2, <2>3 DEF DirectoryInv
<1>11. TrainerInv("retire", run, dir, step)
  <2>1. TemporaryInv("retire", dir.temporary)
    BY DEF TemporaryInv
  <2>2. \A t \in Steps : dir.checkpoint[t].parts # {} => t <= step
    BY <1>2, <1>3 DEF TrainerInv
  <2>3. /\ \A q \in Pointers(dir) \ {None, dir.source} : q[2] \in {step - 1, step}
        /\ dir.events # <<>> => Last(dir) \in {step - 1, step}
        /\ step >= dir.source[2]
    BY <1>2, <1>3, <1>4 DEF TrainerInv
  <2> QED
    BY <1>2, <1>3, <1>5, <1>6, <2>1, <2>2, <2>3 DEF TrainerInv
<1>12. Write("newest", "retire", dir) /\ Here.model \subseteq dir.model
  BY <1>1, <1>3
<1> QED
  BY <1>3, <1>10, <1>11, <1>12, WriteKeeps DEF Pcs

LEMMA RetentionDoneInv == ASSUME RunsInv, RetentionDone PROVE RunsInv'
<1>1. pc = "retire" /\ Write("retire", "verify", Here)
  BY DEF RetentionDone, Write
<1>2. Here \in RunDir /\ TrainerInv(pc, run, Here, step)
  BY <1>1, InDirectory
<1>3. Alike(Here, Here) /\ SamePointers(Here, Here)
  BY DEF Alike, SamePointers
<1>4. TrainerInv("verify", run, Here, step)
  <2>1. TemporaryInv("verify", Here.temporary)
    BY DEF TemporaryInv
  <2>2. /\ pc \in Committing /\ "retire" \notin Saving
        /\ "verify" \notin Checked \union Following
        /\ "verify" \notin {"resumeJson", "resumeText"} \union Following
        /\ "verify" \notin {"resumeText"} \union Following
        /\ "verify" \notin {"modelJson", "enqueue"} \union Publishing
        /\ "verify" \notin Publishing
    BY <1>1 DEF Committing, Saving, Checked, Following, Exporting, Publishing
  <2> QED
    BY <1>1, <1>2, <2>1, <2>2 DEF TrainerInv
<1> QED
  BY <1>1, <1>2, <1>3, <1>4, QuietWrite DEF Pcs

LEMMA VerifyInv == ASSUME RunsInv, Verify PROVE RunsInv'
<1> DEFINE dir == [Here EXCEPT !.report = @ \union {step}]
<1>1. pc = "verify" /\ Write("verify", "link", dir)
  BY DEF Verify, Write
<1>2. /\ Here \in RunDir /\ step \in Steps
      /\ TrainerInv(pc, run, Here, step)
  BY <1>1, InDirectory DEF TrainerInv
<1>3. /\ dir \in RunDir /\ Alike(dir, Here) /\ SamePointers(dir, Here)
      /\ dir.queue = Here.queue /\ step \in dir.report
  BY <1>2 DEF RunDir, Alike, SamePointers
<1> HIDE DEF dir
<1>4. TrainerInv("link", run, dir, step)
  <2>1. TemporaryInv("link", dir.temporary)
    BY DEF TemporaryInv
  <2>2. /\ pc \in Committing /\ "verify" \notin Saving
        /\ "link" \notin {"resumeJson", "resumeText"} \union Following
        /\ "link" \notin {"resumeText"} \union Following
        /\ "link" \notin Following
        /\ "link" \notin {"modelJson", "enqueue"} \union Publishing
        /\ "link" \notin Publishing
    BY <1>1 DEF Committing, Saving, Checked, Following, Exporting, Publishing
  <2>3. TrainerInv("verify", run, Here, step)
    BY <1>1, <1>2
  <2>4. /\ step > dir.source[2] /\ Here.source = dir.source
        /\ Good(Here, step) /\ Here.newest = <<run, step>>
    BY <1>1, <1>3, <2>2, <2>3 DEF TrainerInv, Alike
  <2>5. /\ step >= dir.source[2] /\ step \in Steps
        /\ \A t \in Steps : dir.checkpoint[t].parts # {} => t <= step
        /\ step = dir.source[2] => dir.events = <<>> /\ dir.newest = None
                                   /\ Pointers(dir) \subseteq {None, dir.source}
        /\ dir.newest = Here.newest
        /\ dir.newest # None => dir.newest[2] \in {step - 1, step}
        /\ \A q \in Pointers(dir) \ {None, dir.source} : q[2] \in {step - 1, step}
        /\ dir.events # <<>> => Last(dir) \in {step - 1, step}
        /\ Good(dir, step) <=> Good(Here, step)
    BY <1>2, <1>3, <2>3, TrainerStays
  <2>6. /\ "link" \notin {"resumeJson", "resumeText"} \union Following
        /\ "link" \notin {"resumeText"} \union Following
        /\ "link" \notin Following
        /\ "link" \notin {"modelJson", "enqueue"} \union Publishing
        /\ "link" \notin Publishing
    BY <2>2
  <2> QED
    BY <1>3, <2>1, <2>4, <2>5, <2>6 DEF TrainerInv
<1> QED
  BY <1>1, <1>3, <1>4, QuietWrite DEF Pcs

(* The three pointers to the update that has been verified.                 *)
LEMMA PointerWrite ==
  ASSUME RunsInv, NEW from \in Checked,
         NEW to \in {"resumeJson", "resumeText", "export"},
         NEW STATE dir, dir \in RunDir, Write(from, to, dir),
         Alike(dir, Here), dir.queue = Here.queue,
         \A p \in Pointers(dir) : p \in Pointers(Here) \/ p = <<run, step>>,
         dir.link = <<run, step>>,
         to \in {"resumeText", "export"} => dir.resumeJson = <<run, step>>,
         to = "export" => dir.resumeText = <<run, step>>
  PROVE  RunsInv'
<1>1. pc = from /\ from # "down" /\ to \in Pcs
  BY DEF Write, Checked, Pcs
<1>2. /\ run \in Runs /\ Here \in RunDir /\ step \in Nat
      /\ DirectoryInv(run, Here) /\ TrainerInv(pc, run, Here, step)
  BY <1>1, InDirectory
<1>3. /\ pc \in Committing /\ pc \notin Saving /\ pc # "idle"
      /\ pc \in Checked \union Following
      /\ to \in {"resumeJson", "resumeText"} \union Following
      /\ to \in {"resumeText"} \union Following => to \in {"resumeText", "export"}
      /\ to \in Following => to = "export"
      /\ to \notin {"materialize", "idle", "complete", "latest", "progress"}
      /\ to \notin {"modelJson", "enqueue"} \union Publishing
      /\ to \notin Publishing
  BY <1>1 DEF Committing, Saving, Checked, Following, Exporting, Publishing
<1>4. /\ step > dir.source[2] /\ step \in Steps
      /\ Good(Here, step) /\ step \in Here.report
  BY <1>2, <1>3 DEF TrainerInv, Alike
<1>5. Good(dir, step) /\ Safe(run, dir, step) /\ step \in dir.report
  BY <1>4 DEF Good, Safe, Alike
<1>6. DirectoryInv(run, dir)
  BY <1>2, <1>5, DirectoryGrows
<1>7. TrainerInv(to, run, dir, step)
  <2>1. TemporaryInv(to, dir.temporary)
    BY DEF TemporaryInv
  <2>2. \A q \in Pointers(dir) \ {None, dir.source} : q[2] \in {step - 1, step}
    BY <1>2 DEF TrainerInv, Alike
  <2>3. /\ dir.events # <<>> => Last(dir) \in {step - 1, step}
        /\ dir.newest # None => dir.newest[2] \in {step - 1, step}
        /\ dir.newest = <<run, step>>
    BY <1>1, <1>2, <1>3, <1>4 DEF TrainerInv, Alike, Last, Checked
  <2>4. \A t \in Steps : dir.checkpoint[t].parts # {} => t <= step
    BY <1>2 DEF TrainerInv, Alike
  <2>5. step >= dir.source[2] /\ step # dir.source[2]
    BY <1>2, <1>4 DEF TrainerInv, Alike, RunDir, Pointer, None, Steps
  <2> QED
    BY <1>3, <1>4, <1>5, <2>1, <2>2, <2>3, <2>4, <2>5 DEF TrainerInv
<1> QED
  BY <1>1, <1>6, <1>7, WriteKeeps DEF Alike

LEMMA PointLinkInv == ASSUME RunsInv, PointLink PROVE RunsInv'
<1> DEFINE dir == [Here EXCEPT !.link = <<run, step>>]
<1>1. pc = "link" /\ Write("link", "resumeJson", dir)
  BY DEF PointLink, Write
<1>2. Here \in RunDir /\ step \in Steps /\ run \in Runs
  BY <1>1, InDirectory DEF TrainerInv
<1>3. /\ dir \in RunDir /\ Alike(dir, Here) /\ dir.queue = Here.queue
      /\ dir.link = <<run, step>>
      /\ dir.resumeJson = Here.resumeJson /\ dir.resumeText = Here.resumeText
  BY <1>2, ThisUpdate DEF RunDir, Alike
<1> HIDE DEF dir
<1>4. \A p \in Pointers(dir) : p \in Pointers(Here) \/ p = <<run, step>>
  BY <1>3 DEF Pointers
<1> QED
  BY <1>1, <1>3, <1>4, PointerWrite DEF Checked

LEMMA PointResumeJsonInv == ASSUME RunsInv, PointResumeJson PROVE RunsInv'
<1> DEFINE dir == [Here EXCEPT !.resumeJson = <<run, step>>]
<1>1. pc = "resumeJson" /\ Write("resumeJson", "resumeText", dir)
  BY DEF PointResumeJson, Write
<1>2. /\ Here \in RunDir /\ step \in Steps /\ run \in Runs
      /\ TrainerInv("resumeJson", run, Here, step)
  BY <1>1, InDirectory DEF TrainerInv
<1>3. Here.link = <<run, step>>
  <2>1. "resumeJson" \in Committing
    BY DEF Committing, Checked
  <2> QED
    BY <1>2, <2>1 DEF TrainerInv
<1>4. /\ dir \in RunDir /\ Alike(dir, Here) /\ dir.queue = Here.queue
      /\ dir.link = <<run, step>> /\ dir.resumeJson = <<run, step>>
      /\ dir.resumeText = Here.resumeText
  BY <1>2, <1>3, ThisUpdate DEF RunDir, Alike
<1> HIDE DEF dir
<1>5. \A p \in Pointers(dir) : p \in Pointers(Here) \/ p = <<run, step>>
  BY <1>4 DEF Pointers
<1> QED
  BY <1>1, <1>4, <1>5, PointerWrite DEF Checked

LEMMA PointResumeTextInv == ASSUME RunsInv, PointResumeText PROVE RunsInv'
<1> DEFINE dir == [Here EXCEPT !.resumeText = <<run, step>>]
<1>1. pc = "resumeText" /\ Write("resumeText", "export", dir)
  BY DEF PointResumeText, Write
<1>2. /\ Here \in RunDir /\ step \in Steps /\ run \in Runs
      /\ TrainerInv("resumeText", run, Here, step)
  BY <1>1, InDirectory DEF TrainerInv
<1>3. Here.link = <<run, step>> /\ Here.resumeJson = <<run, step>>
  <2>1. "resumeText" \in Committing
    BY DEF Committing, Checked
  <2> QED
    BY <1>2, <2>1 DEF TrainerInv
<1>4. /\ dir \in RunDir /\ Alike(dir, Here) /\ dir.queue = Here.queue
      /\ dir.link = <<run, step>> /\ dir.resumeJson = <<run, step>>
      /\ dir.resumeText = <<run, step>>
  BY <1>2, <1>3, ThisUpdate DEF RunDir, Alike
<1> HIDE DEF dir
<1>5. \A p \in Pointers(dir) : p \in Pointers(Here) \/ p = <<run, step>>
  BY <1>4 DEF Pointers
<1> QED
  BY <1>1, <1>4, <1>5, PointerWrite DEF Checked
-----------------------------------------------------------------------------
(* The exported model, the evaluation task and the publication.  A resumed  *)
(* run comes here too, for the update it was restored from.                 *)
LEMMA ExportWrite ==
  ASSUME RunsInv, NEW from \in Exporting \union {"materialize"},
         NEW to \in Exporting \union {"idle", "publish"},
         NEW STATE dir, dir \in RunDir, Write(from, to, dir),
         Alike(dir, Here), SamePointers(dir, Here),
         from = "materialize" => to \in {"idle", "export"},
         to = "publish" => step # Here.source[2] /\ <<run, step>> \in dir.queue,
         to = "idle" => step = Here.source[2],
         to = "complete" => step \in dir.exported,
         to \in {"modelJson", "enqueue", "publish"} => step \in dir.model,
         \A q \in dir.queue : \/ q \in Here.queue
                              \/ q[1] = run /\ q[2] \in dir.model
                              \/ q[1] # run /\ q[2] \in disk[q[1]].model
  PROVE  RunsInv'
<1>1. pc = from /\ from # "down" /\ to \in Pcs
  BY DEF Write, Exporting, Pcs
<1>2. /\ run \in Runs /\ Here \in RunDir /\ step \in Nat
      /\ DirectoryInv(run, Here) /\ TrainerInv(pc, run, Here, step)
  BY <1>1, InDirectory
<1>3. /\ pc # "idle" /\ pc \notin Saving
      /\ to \notin Saving
      /\ to \in Committing => to = "publish"
      /\ to \notin {"materialize", "latest", "progress"}
      /\ to \in Publishing => to = "publish"
      /\ pc # "materialize" => pc \in Following
  BY <1>1 DEF Committing, Saving, Checked, Following, Exporting, Publishing
<1>4. step \in Nat /\ Here.source[2] \in Nat /\ step >= Here.source[2]
      /\ dir.source = Here.source
  BY <1>2 DEF TrainerInv, RunDir, Pointer, None, Steps, Alike
<1>5. \A p \in Pointers(dir) : p \in Pointers(Here)
  BY DEF Pointers, SamePointers
<1>6. DirectoryInv(run, dir)
  BY <1>2, <1>5, DirectoryGrows
<1>7. TrainerInv(to, run, dir, step)
  <2>1. TemporaryInv(to, dir.temporary)
    BY <1>3 DEF TemporaryInv, Saving
  <2>2. to \in Committing => step > dir.source[2]
    BY <1>3, <1>4
  <2>3. ASSUME step > dir.source[2]
        PROVE  /\ Good(dir, step) /\ step \in dir.report
               /\ dir.link = <<run, step>> /\ dir.resumeJson = <<run, step>>
               /\ dir.resumeText = <<run, step>> /\ to # "idle"
               /\ dir.newest = <<run, step>>
    <3>1. step # Here.source[2]
      BY <1>4, <2>3
    <3>2. pc # "materialize" /\ to # "idle"
      BY <1>2, <3>1 DEF TrainerInv
    <3>3. /\ Good(Here, step) /\ step \in Here.report
          /\ Here.link = <<run, step>> /\ Here.resumeJson = <<run, step>>
          /\ Here.resumeText = <<run, step>> /\ Here.newest = <<run, step>>
      BY <1>1, <1>2, <1>3, <1>4, <2>3, <3>2 DEF TrainerInv, Exporting
    <3> QED
      BY <3>2, <3>3 DEF Alike, SamePointers, Good
  <2>4. /\ \A t \in Steps : dir.checkpoint[t].parts # {} => t <= step
        /\ step = dir.source[2] => dir.events = <<>> /\ dir.newest = None
                                   /\ Pointers(dir) \subseteq {None, dir.source}
        /\ dir.newest # None => dir.newest[2] \in {step - 1, step}
        /\ \A q \in Pointers(dir) \ {None, dir.source} : q[2] \in {step - 1, step}
        /\ dir.events # <<>> => Last(dir) \in {step - 1, step}
    BY <1>2, TrainerStays
  <2>5. step \in Steps
    BY <1>2, <1>3 DEF TrainerInv
  <2> QED
    BY <1>3, <1>4, <2>1, <2>2, <2>3, <2>4, <2>5 DEF TrainerInv
<1> QED
  BY <1>1, <1>6, <1>7, WriteKeeps DEF Alike

LEMMA MaterializeInv ==
  ASSUME RunsInv, NEW external \in BOOLEAN, Materialize(external) PROVE RunsInv'
<1>1. pc = "materialize"
  BY DEF Materialize, Write
<1>2. /\ run \in Runs /\ Here \in RunDir /\ step \in Steps
      /\ step = Here.source[2] /\ SourceInv(run) /\ TasksInv(run)
  BY <1>1, InDirectory DEF TrainerInv
<1>3. CASE external
  <2> DEFINE old == Here.source[1]
             dir == [Here EXCEPT !.queue = @ \union {<<old, step>>}]
  <2>1. Write("materialize", "idle", dir) /\ step \in disk[old].model
    BY <1>3 DEF Materialize
  <2>2. old \in Runs /\ old # run
    <3>1. Here.source # None
      BY <1>2 DEF None, Steps
    <3>2. Here.source \in (1 .. run - 1) \X Steps
      BY <1>2, <3>1 DEF SourceInv, Here
    <3>3. run \in Nat /\ run <= MaxRuns
      BY <1>2, DirectoryConstants DEF Runs
    <3> QED
      BY <3>2, <3>3, DirectoryConstants DEF Runs
  <2>3. /\ dir \in RunDir /\ Alike(dir, Here) /\ SamePointers(dir, Here)
        /\ dir.queue = Here.queue \union {<<old, step>>}
    BY <1>2, <2>2 DEF RunDir, Alike, SamePointers
  <2>4. \A q \in dir.queue : \/ q \in Here.queue
                             \/ q[1] = run /\ q[2] \in dir.model
                             \/ q[1] # run /\ q[2] \in disk[q[1]].model
    BY <2>1, <2>2, <2>3
  <2> HIDE DEF dir, old
  <2> QED
    BY <1>2, <2>1, <2>3, <2>4, ExportWrite
<1>4. CASE ~ external
  <2>1. Write("materialize", "export", Here)
    BY <1>4 DEF Materialize
  <2>2. Alike(Here, Here) /\ SamePointers(Here, Here)
    BY DEF Alike, SamePointers
  <2> QED
    BY <1>2, <2>1, <2>2, ExportWrite DEF Exporting
<1> QED
  BY <1>3, <1>4

LEMMA ExportWeightsInv == ASSUME RunsInv, ExportWeights PROVE RunsInv'
<1> DEFINE dir == [Here EXCEPT !.exported = {step}]
<1>1. pc = "export" /\ Write("export", "complete", dir)
  BY DEF ExportWeights, Write
<1>2. Here \in RunDir /\ step \in Steps
  BY <1>1, InDirectory DEF TrainerInv
<1>3. /\ dir \in RunDir /\ Alike(dir, Here) /\ SamePointers(dir, Here)
      /\ dir.queue = Here.queue /\ step \in dir.exported
  BY <1>2 DEF RunDir, Alike, SamePointers
<1> HIDE DEF dir
<1> QED
  BY <1>1, <1>3, ExportWrite DEF Exporting

LEMMA ExportModelInv == ASSUME RunsInv, ExportModel PROVE RunsInv'
<1> DEFINE dir == [Here EXCEPT !.model = @ \union Here.exported, !.exported = {}]
<1>1. pc = "complete" /\ Write("complete", "modelJson", dir)
  BY DEF ExportModel, Write
<1>2. Here \in RunDir /\ step \in Steps /\ step \in Here.exported
  BY <1>1, InDirectory DEF TrainerInv
<1>3. /\ dir \in RunDir /\ Alike(dir, Here) /\ SamePointers(dir, Here)
      /\ dir.queue = Here.queue /\ step \in dir.model
  BY <1>2 DEF RunDir, Alike, SamePointers
<1> HIDE DEF dir
<1> QED
  BY <1>1, <1>3, ExportWrite DEF Exporting

LEMMA PointModelJsonInv == ASSUME RunsInv, PointModelJson PROVE RunsInv'
<1> DEFINE dir == [Here EXCEPT !.modelJson = <<run, step>>]
<1>1. pc = "modelJson" /\ Write("modelJson", "enqueue", dir)
  BY DEF PointModelJson, Write
<1>2. Here \in RunDir /\ step \in Steps /\ run \in Runs /\ step \in Here.model
  BY <1>1, InDirectory DEF TrainerInv
<1>3. /\ dir \in RunDir /\ Alike(dir, Here) /\ SamePointers(dir, Here)
      /\ dir.queue = Here.queue /\ step \in dir.model
  BY <1>2, ThisUpdate DEF RunDir, Alike, SamePointers
<1> HIDE DEF dir
<1> QED
  BY <1>1, <1>3, ExportWrite DEF Exporting

LEMMA EnqueueTaskInv == ASSUME RunsInv, EnqueueTask PROVE RunsInv'
<1> DEFINE dir == [Here EXCEPT !.queue = @ \union {<<run, step>>}]
           follow == IF step = Here.source[2] THEN "idle" ELSE "publish"
<1>1. pc = "enqueue" /\ Write("enqueue", follow, dir)
  BY DEF EnqueueTask, Write
<1>2. Here \in RunDir /\ step \in Steps /\ run \in Runs /\ step \in Here.model
  BY <1>1, InDirectory DEF TrainerInv
<1>3. /\ dir \in RunDir /\ Alike(dir, Here) /\ SamePointers(dir, Here)
      /\ dir.queue = Here.queue \union {<<run, step>>} /\ step \in dir.model
  <2>1. Here.queue \union {<<run, step>>} \in SUBSET (Runs \X Steps)
    BY <1>2 DEF RunDir
  <2>2. dir \in RunDir /\ dir.queue = Here.queue \union {<<run, step>>}
    BY <1>2, <2>1 DEF RunDir
  <2>3. Alike(dir, Here) /\ SamePointers(dir, Here) /\ dir.model = Here.model
    BY <1>2 DEF RunDir, Alike, SamePointers
  <2> QED
    BY <1>2, <2>2, <2>3
<1>4. /\ follow \in {"idle", "publish"}
      /\ follow = "idle" => step = Here.source[2]
      /\ follow = "publish" => step # Here.source[2]
  OBVIOUS
<1>5. \A q \in dir.queue : \/ q \in Here.queue
                           \/ q[1] = run /\ q[2] \in dir.model
                           \/ q[1] # run /\ q[2] \in disk[q[1]].model
  BY <1>3
<1> HIDE DEF dir, follow
<1> QED
  BY <1>1, <1>3, <1>4, <1>5, ExportWrite DEF Exporting

(* The three writes that publish an update.                                 *)
LEMMA Published ==
  ASSUME RunsInv, pc \in Publishing
  PROVE  /\ Here \in RunDir /\ run \in Runs /\ step \in Steps /\ step \in Nat
         /\ Here.source[2] \in Nat /\ step > Here.source[2]
         /\ Good(Here, step) /\ step \in Here.report /\ step \in Here.model
         /\ <<run, step>> \in Here.queue
         /\ Here.link = <<run, step>> /\ Here.resumeJson = <<run, step>>
         /\ Here.resumeText = <<run, step>> /\ Here.newest = <<run, step>>
         /\ \A t \in Steps : Here.checkpoint[t].parts # {} => t <= step
         /\ pc # "publish" => Here.events # <<>> /\ Last(Here) = step
         /\ DirectoryInv(run, Here)
<1>1. pc # "down" /\ pc # "idle"
  BY DEF Publishing
<1>2. /\ run \in Runs /\ Here \in RunDir /\ step \in Nat
      /\ DirectoryInv(run, Here) /\ TrainerInv(pc, run, Here, step)
  BY <1>1, InDirectory
<1>3. /\ pc \in Committing /\ pc \notin Saving /\ pc \in Following
      /\ pc # "publish" => pc \in {"latest", "progress", "idle"}
      /\ pc \notin Saving \union {"newest"}
  BY DEF Committing, Saving, Following, Publishing
<1>4. Here.source[2] \in Nat
  BY <1>2 DEF RunDir, Pointer, None, Steps
<1> QED
  BY <1>1, <1>2, <1>3, <1>4 DEF TrainerInv

LEMMA PublishWrite ==
  ASSUME RunsInv, NEW from \in Publishing, NEW to \in {"latest", "progress", "idle"},
         NEW STATE dir, dir \in RunDir, Write(from, to, dir),
         dir.source = Here.source, dir.checkpoint = Here.checkpoint,
         dir.report = Here.report, dir.model = Here.model, dir.queue = Here.queue,
         SamePointers(dir, Here), dir.newest = Here.newest,
         dir.events # <<>>, Last(dir) = step,
         DirectoryInv(run, dir)
  PROVE  RunsInv'
<1>1. pc = from /\ pc \in Publishing /\ from # "down" /\ to \in Pcs /\ to # "down"
  BY DEF Write, Publishing, Pcs
<1>2. /\ to \notin Saving
      /\ to \notin {"materialize", "complete", "modelJson", "enqueue"}
  BY DEF Saving
<1>3. Pointers(dir) = {<<run, step>>}
  BY <1>1, Published DEF Pointers, SamePointers
<1>4. TrainerInv(to, run, dir, step)
  <2>1. TemporaryInv(to, dir.temporary)
    BY DEF TemporaryInv
  <2>2. Good(dir, step)
    BY <1>1, Published DEF Good
  <2>3. step >= dir.source[2] /\ step # dir.source[2] /\ step > dir.source[2]
    BY <1>1, Published
  <2> QED
    BY <1>1, <1>2, <1>3, <2>1, <2>2, <2>3, Published DEF TrainerInv, SamePointers
<1> QED
  BY <1>1, <1>4, WriteKeeps

LEMMA PublishEventInv == ASSUME RunsInv, PublishEvent PROVE RunsInv'
<1> DEFINE dir == [Here EXCEPT !.events = Append(@, step)]
<1>1. pc = "publish" /\ pc \in Publishing /\ Write("publish", "latest", dir)
  BY DEF PublishEvent, Write, Publishing
<1>2. Here.events \in Seq(Steps) /\ step \in Steps
  BY <1>1, Published DEF RunDir
<1>3. /\ dir \in RunDir /\ dir.source = Here.source /\ dir.limit = Here.limit
      /\ dir.checkpoint = Here.checkpoint /\ dir.report = Here.report
      /\ dir.model = Here.model /\ dir.queue = Here.queue
      /\ dir.latest = Here.latest /\ dir.progress = Here.progress
      /\ SamePointers(dir, Here) /\ dir.newest = Here.newest
      /\ dir.events = Append(Here.events, step)
  <2>1. Here \in RunDir /\ Append(Here.events, step) \in Seq(Steps)
    BY <1>1, <1>2, Published
  <2>2. dir \in RunDir /\ dir.events = Append(Here.events, step)
    BY <2>1 DEF RunDir
  <2> QED
    BY <2>1, <2>2 DEF RunDir, SamePointers
<1> HIDE DEF dir
<1>4. /\ dir.events # <<>> /\ Last(dir) = step
      /\ \A i \in DOMAIN dir.events : dir.events[i] = step \/
            (i \in DOMAIN Here.events /\ dir.events[i] = Here.events[i])
      /\ \A i \in DOMAIN Here.events : i \in DOMAIN dir.events
                                       /\ dir.events[i] = Here.events[i]
  <2> DEFINE old == Here.events
             new == Append(old, step)
  <2>1. /\ Len(old) \in Nat /\ DOMAIN old = 1 .. Len(old)
        /\ Len(new) = Len(old) + 1 /\ DOMAIN new = 1 .. Len(old) + 1
        /\ new[Len(old) + 1] = step /\ new # <<>>
        /\ \A i \in 1 .. Len(old) : new[i] = old[i]
    BY <1>2
  <2>2. dir.events = new
    BY <1>3
  <2> HIDE DEF old, new
  <2>3. \A i \in DOMAIN new : i \in DOMAIN old \/ i = Len(old) + 1
    BY <2>1
  <2>4. \A i \in DOMAIN old : i \in DOMAIN new
    BY <2>1
  <2>5. old = Here.events
    BY DEF old
  <2>6. Last(dir) = step
    BY <2>1, <2>2 DEF Last
  <2>7. \A i \in DOMAIN old : i \in DOMAIN new /\ new[i] = old[i]
    BY <2>1, <2>4
  <2>8. ASSUME NEW i \in DOMAIN new
        PROVE  new[i] = step \/ (i \in DOMAIN old /\ new[i] = old[i])
    <3>1. CASE i \in DOMAIN old
      BY <2>7, <3>1
    <3>2. CASE i = Len(old) + 1
      BY <2>1, <3>2
    <3> QED
      BY <2>3, <3>1, <3>2
  <2> QED
    BY <2>1, <2>2, <2>5, <2>6, <2>7, <2>8
<1>5. DirectoryInv(run, dir)
  <2>1. /\ \A s : Good(dir, s) <=> Good(Here, s)
        /\ \A s : Safe(run, dir, s) <=> Safe(run, Here, s)
    BY <1>3 DEF Good, Safe
  <2>2. \A i \in DOMAIN dir.events :
           LET s == dir.events[i]
           IN  s \in dir.report /\ s \in dir.model /\ <<run, s>> \in dir.queue
    BY <1>1, <1>3, <1>4, Published DEF DirectoryInv
  <2>3. Pointers(dir) = Pointers(Here)
    BY <1>3 DEF Pointers, SamePointers
  <2>4. \A s \in {dir.latest, dir.progress} : s = dir.source[2] \/ Listed(dir, s)
    BY <1>1, <1>3, <1>4, Published DEF DirectoryInv, Listed
  <2>5. dir.events # <<>> => Safe(run, dir, Last(dir))
    BY <1>1, <1>4, <2>1, Published DEF Safe
  <2>6. \A s \in Steps : Sound(dir.checkpoint[s])
    BY <1>1, <1>3, Published DEF DirectoryInv
  <2>7. /\ \A p \in Pointers(dir) \ {None, dir.source} :
              p[1] = run /\ p[2] \in dir.report /\ Safe(run, dir, p[2])
        /\ dir.newest # None => dir.newest[1] = run /\ Good(dir, dir.newest[2])
    BY <1>1, <1>3, <2>1, <2>3, Published DEF DirectoryInv
  <2> QED
    BY <2>2, <2>4, <2>5, <2>6, <2>7 DEF DirectoryInv
<1> QED
  BY <1>1, <1>3, <1>4, <1>5, PublishWrite

LEMMA LastIsListed ==
  ASSUME RunsInv, pc \in {"latest", "progress"}, NEW dir, dir.events = Here.events
  PROVE  Listed(dir, step) /\ dir.events # <<>> /\ Last(dir) = step
<1>1. pc \in Publishing /\ pc # "publish"
  BY DEF Publishing
<1>2. Here.events \in Seq(Steps) /\ Here.events # <<>> /\ Last(Here) = step
  BY <1>1, Published DEF RunDir
<1>3. Len(Here.events) \in DOMAIN Here.events
  BY <1>2
<1> QED
  BY <1>2, <1>3 DEF Listed, Last

LEMMA ProgressMoves ==
  ASSUME NEW d, NEW old, NEW dir, NEW s, DirectoryInv(d, old),
         dir.source = old.source, dir.limit = old.limit,
         dir.checkpoint = old.checkpoint, dir.report = old.report, dir.model = old.model, dir.queue = old.queue,
         dir.events = old.events, SamePointers(dir, old), Listed(dir, s),
         dir.newest = old.newest,
         dir.latest \in {old.latest, s}, dir.progress \in {old.progress, s}
  PROVE  DirectoryInv(d, dir)
<1>1. /\ \A t : Good(dir, t) <=> Good(old, t)
      /\ \A t : Safe(d, dir, t) <=> Safe(d, old, t)
  BY DEF Good, Safe
<1>2. \A t : Listed(dir, t) <=> Listed(old, t)
  BY DEF Listed
<1>3. Pointers(dir) = Pointers(old) /\ Last(dir) = Last(old)
  BY DEF Pointers, SamePointers, Last
<1> QED
  BY <1>1, <1>2, <1>3 DEF DirectoryInv

LEMMA WriteLatestInv == ASSUME RunsInv, WriteLatest PROVE RunsInv'
<1> DEFINE dir == [Here EXCEPT !.latest = step]
<1>1. pc = "latest" /\ pc \in Publishing /\ Write("latest", "progress", dir)
  BY DEF WriteLatest, Write, Publishing
<1>2. /\ dir \in RunDir /\ dir.source = Here.source /\ dir.limit = Here.limit
      /\ dir.checkpoint = Here.checkpoint /\ dir.report = Here.report
      /\ dir.model = Here.model /\ dir.queue = Here.queue
      /\ dir.latest = step /\ dir.progress = Here.progress
      /\ SamePointers(dir, Here) /\ dir.events = Here.events
      /\ dir.newest = Here.newest
  <2>1. Here \in RunDir /\ step \in 0 .. Target
    BY <1>1, Published, DirectoryConstants DEF Steps
  <2> QED
    BY <2>1 DEF RunDir, SamePointers
<1> HIDE DEF dir
<1>3. Listed(dir, step) /\ dir.events # <<>> /\ Last(dir) = step
  BY <1>1, <1>2, LastIsListed
<1>4. DirectoryInv(run, dir)
  BY <1>1, <1>2, <1>3, Published, ProgressMoves
<1> QED
  BY <1>1, <1>2, <1>3, <1>4, PublishWrite

LEMMA WriteProgressInv == ASSUME RunsInv, WriteProgress PROVE RunsInv'
<1> DEFINE dir == [Here EXCEPT !.progress = step]
<1>1. pc = "progress" /\ pc \in Publishing /\ Write("progress", "idle", dir)
  BY DEF WriteProgress, Write, Publishing
<1>2. /\ dir \in RunDir /\ dir.source = Here.source /\ dir.limit = Here.limit
      /\ dir.checkpoint = Here.checkpoint /\ dir.report = Here.report
      /\ dir.model = Here.model /\ dir.queue = Here.queue
      /\ dir.latest = Here.latest /\ dir.progress = step
      /\ SamePointers(dir, Here) /\ dir.events = Here.events
      /\ dir.newest = Here.newest
  <2>1. Here \in RunDir /\ step \in 0 .. Target
    BY <1>1, Published, DirectoryConstants DEF Steps
  <2> QED
    BY <2>1 DEF RunDir, SamePointers
<1> HIDE DEF dir
<1>3. Listed(dir, step) /\ dir.events # <<>> /\ Last(dir) = step
  BY <1>1, <1>2, LastIsListed
<1>4. DirectoryInv(run, dir)
  BY <1>1, <1>2, <1>3, Published, ProgressMoves
<1> QED
  BY <1>1, <1>2, <1>3, <1>4, PublishWrite
-----------------------------------------------------------------------------
(* Processes                                                                *)

(* A write that leaves every directory's claims alone while the process is  *)
(* going: a failed save removes its temporary directory.                    *)
LEMMA SaveFailsInv == ASSUME RunsInv, SaveFails PROVE RunsInv'
<1> DEFINE dir == [Here EXCEPT !.temporary = NoFiles]
<1>1. /\ pc # "down" /\ pc' = "down" /\ disk' = [disk EXCEPT ![run].temporary = NoFiles]
      /\ run' = run /\ step' = step
  BY DEF SaveFails
<1>2. Here \in RunDir /\ run \in Runs
  BY <1>1, InDirectory
<1>3. run \in DOMAIN disk
  BY <1>2, DirectoryConstants DEF RunsInv, TypeOK, Runs
<1>4. disk' = [disk EXCEPT ![run] = dir]
  BY <1>1, <1>3 DEF Here
<1>5. Write(pc, "down", dir)
  BY <1>1, <1>4 DEF Write
<1>6. /\ dir \in RunDir /\ Alike(dir, Here) /\ SamePointers(dir, Here)
      /\ dir.queue = Here.queue
  <2>1. NoFiles \in Files
    BY DEF NoFiles, Files
  <2> QED
    BY <1>2, <2>1 DEF RunDir, Alike, SamePointers
<1> HIDE DEF dir
<1> QED
  BY <1>1, <1>5, <1>6, QuietWrite DEF Pcs

LEMMA ProcessEndsInv == ASSUME RunsInv, ProcessEnds PROVE RunsInv'
<1>1. pc' = "down" /\ UNCHANGED <<run, step, disk>>
  BY DEF ProcessEnds
<1>2. TypeOK'
  BY <1>1 DEF RunsInv, TypeOK, Pcs
<1> QED
  BY <1>1, <1>2 DEF RunsInv, SourceInv, TasksInv, Resumable, Validates

LEMMA TrainUpdateInv == ASSUME RunsInv, TrainUpdate PROVE RunsInv'
<1>1. /\ pc = "idle" /\ pc' = "setup" /\ step < Target /\ step' = step + 1
      /\ UNCHANGED <<run, disk>>
  BY DEF TrainUpdate
<1>2. /\ Here \in RunDir /\ run \in Runs /\ step \in 0 .. Target
      /\ TrainerInv("idle", run, Here, step)
  BY <1>1, InDirectory
<1>3. Target \in Nat /\ step \in Nat /\ step + 1 \in Steps /\ step' \in 0 .. Target
  BY <1>1, <1>2, DirectoryConstants DEF Steps
<1>4. TypeOK'
  BY <1>1, <1>3 DEF RunsInv, TypeOK, Pcs
<1>5. Here.source[2] \in Nat /\ step >= Here.source[2]
  BY <1>2 DEF TrainerInv, RunDir, Pointer, None, Steps
<1>6. "idle" \in Following /\ "idle" \notin Saving
      /\ "setup" \in Saving /\ "setup" \notin Checked \union Following
      /\ "setup" \notin {"resumeJson", "resumeText"} \union Following
      /\ "setup" \notin {"resumeText"} \union Following
      /\ "setup" \notin {"modelJson", "enqueue"} \union Publishing
      /\ "setup" \notin Publishing /\ "setup" \notin Following
  BY DEF Following, Saving, Checked, Exporting, Publishing
<1>7. /\ \A q \in Pointers(Here) \ {None, Here.source} : q[2] = step
      /\ Here.events # <<>> => Last(Here) = step
      /\ Here.newest # None => Here.newest[2] = step
  <2>1. CASE step = Here.source[2]
    BY <1>2, <2>1 DEF TrainerInv
  <2>2. CASE step > Here.source[2]
    BY <1>2, <1>6, <2>2 DEF TrainerInv, Pointers
  <2> QED
    BY <1>3, <1>5, <2>1, <2>2
<1>8. TrainerInv("setup", run, Here, step + 1)
  <2>1. TemporaryInv("setup", Here.temporary)
    BY DEF TemporaryInv
  <2>2. /\ step + 1 >= Here.source[2] /\ step + 1 > Here.source[2]
        /\ step + 1 # Here.source[2] /\ (step + 1) - 1 = step
    BY <1>3, <1>5
  <2>3. \A t \in Steps : Here.checkpoint[t].parts # {} => t <= step + 1
    BY <1>2, <1>3 DEF TrainerInv, Steps
  <2> QED
    BY <1>3, <1>6, <1>7, <2>1, <2>2, <2>3 DEF TrainerInv
<1>9. TrainerInv(pc, run, disk[run], step)'
  BY <1>1, <1>8 DEF Here
<1> QED
  BY <1>1, <1>2, <1>4, <1>9 DEF RunsInv, SourceInv, TasksInv, Resumable, Validates

(* A new process gets an empty directory, which only points to its source.  *)
LEMMA BootInv ==
  ASSUME RunsInv, NEW source \in Pointer, NEW where \in {"idle", "materialize"},
         NEW limit \in Nat \ {0}, Boot(source, where, limit),
         where = "materialize" => source \in (1 .. run) \X Steps
                                  /\ Resumable(source[1], source[2]),
         where = "idle" => source = None
  PROVE  RunsInv'
<1> DEFINE new == run + 1
           dir == EmptyRun(source, limit)
<1>1. /\ pc = "down" /\ run < MaxRuns /\ run' = new /\ step' = source[2]
      /\ pc' = where /\ disk' = [disk EXCEPT ![new] = dir]
  BY DEF Boot
<1>2. /\ run \in Nat /\ MaxRuns \in Nat /\ Target \in Nat
      /\ disk \in [0 .. MaxRuns -> RunDir]
      /\ new \in Runs /\ new \in 0 .. MaxRuns /\ Runs \subseteq 0 .. MaxRuns
  BY <1>1, DirectoryConstants DEF RunsInv, TypeOK, Runs
<1>3. /\ disk'[new] = dir
      /\ \A d \in 0 .. MaxRuns : d # new => disk'[d] = disk[d]
  BY <1>1, <1>2
<1>4. /\ dir.source = source /\ dir.events = <<>> /\ dir.newest = None
      /\ Pointers(dir) \subseteq {None, source}
      /\ dir.queue = {} /\ dir.model = {} /\ dir.latest = source[2]
      /\ dir.progress = source[2]
      /\ \A t \in Steps : dir.checkpoint[t].parts = {}
  BY DEF EmptyRun, Pointers, NoFiles
<1>5. source[2] \in 0 .. Target
  BY <1>2 DEF Pointer, None, Steps
<1>6. dir \in RunDir
  <2>1. /\ NoFiles \in Files /\ None \in Pointer
        /\ [s \in Steps |-> NoFiles] \in [Steps -> Files] /\ <<>> \in Seq(Steps)
    BY DEF NoFiles, Files, Pointer
  <2> QED
    BY <1>5, <2>1 DEF RunDir, EmptyRun
<1>7. disk[new] = EmptyRun(None, Target)
  BY <1>2 DEF RunsInv
<1>8. disk[new].model = {}
  BY <1>7 DEF EmptyRun
<1> HIDE DEF new, dir
<1>9. TypeOK'
  BY <1>1, <1>2, <1>5, <1>6 DEF TypeOK, Pcs, Runs
<1>10. where = "idle" => source[2] = 0
  BY DEF None
<1>11. TrainerInv(where, new, dir, source[2])
  <2>1. TemporaryInv(where, dir.temporary)
    BY DEF TemporaryInv
  <2>2. /\ where \notin Committing /\ where \notin Publishing
        /\ where \notin {"modelJson", "enqueue"} \union Publishing
        /\ where # "complete"
    BY DEF Committing, Saving, Checked, Publishing
  <2>3. where # "idle" => source[2] \in Steps
    OBVIOUS
  <2>4. source[2] >= source[2] /\ ~ source[2] > source[2]
    BY <1>2, <1>5
  <2> QED
    BY <1>4, <2>1, <2>2, <2>3, <2>4 DEF TrainerInv
<1>12. DirectoryInv(new, dir)
  <2>1. \A s \in Steps : Sound(dir.checkpoint[s])
    BY <1>4 DEF Sound
  <2> QED
    BY <1>4, <2>1 DEF DirectoryInv
<1>13. ASSUME NEW d \in Runs
       PROVE  DirectoryInv(d, disk'[d])
  BY <1>2, <1>3, <1>12 DEF RunsInv
<1>14. \A e \in Runs, s \in Steps : e <= run /\ Resumable(e, s) => Resumable(e, s)'
  <2> SUFFICES ASSUME NEW e \in Runs, NEW s \in Steps, e <= run, Resumable(e, s)
               PROVE  Resumable(e, s)'
    OBVIOUS
  <2>1. e # new
    BY <1>2 DEF new, Runs
  <2>2. disk'[e] = disk[e]
    BY <1>2, <1>3, <2>1
  <2> QED
    BY <2>2 DEF Resumable, Validates
<1>15. ASSUME NEW d \in Runs
       PROVE  SourceInv(d)'
  <2>1. CASE d = new
    <3>1. SUFFICES ASSUME source # None
                   PROVE  /\ source \in (1 .. d - 1) \X Steps
                          /\ Resumable(source[1], source[2])'
      BY <1>3, <1>4, <2>1 DEF SourceInv
    <3>2. source \in (1 .. run) \X Steps /\ Resumable(source[1], source[2])
      BY <3>1
    <3>3. PICK e \in 1 .. run, s \in Steps : source = <<e, s>>
      BY <3>2
    <3>4. e \in Runs /\ e <= run
      BY <1>1, <1>2, <3>3 DEF Runs
    <3>5. Resumable(e, s)'
      BY <1>14, <3>2, <3>3, <3>4
    <3>6. d - 1 = run
      BY <1>2, <2>1 DEF new
    <3> QED
      BY <3>2, <3>3, <3>5, <3>6
  <2>2. CASE d # new
    <3>1. disk'[d] = disk[d]
      BY <1>2, <1>3, <2>2
    <3>2. SUFFICES ASSUME disk[d].source # None
                   PROVE  /\ disk[d].source \in (1 .. d - 1) \X Steps
                          /\ Resumable(disk[d].source[1], disk[d].source[2])'
      BY <3>1 DEF SourceInv
    <3>3. /\ disk[d].source \in (1 .. d - 1) \X Steps
          /\ Resumable(disk[d].source[1], disk[d].source[2])
      BY <3>2 DEF RunsInv, SourceInv
    <3>4. d <= run
      <4>1. d > run => disk[d] = EmptyRun(None, Target)
        BY DEF RunsInv
      <4> QED
        BY <1>2, <3>2, <4>1 DEF EmptyRun, Runs
    <3>5. PICK e \in 1 .. d - 1, s \in Steps : disk[d].source = <<e, s>>
      BY <3>3
    <3>6. e \in Runs /\ e <= run
      BY <1>2, <3>4, <3>5 DEF Runs
    <3>7. Resumable(e, s)'
      BY <1>14, <3>3, <3>5, <3>6
    <3> QED
      BY <3>1, <3>3, <3>5, <3>7
  <2> QED
    BY <2>1, <2>2
<1>16. ASSUME NEW d \in Runs
       PROVE  TasksInv(d)'
  <2>1. CASE d = new
    BY <1>3, <1>4, <2>1 DEF TasksInv
  <2>2. CASE d # new
    <3> SUFFICES ASSUME NEW q \in disk[d].queue
                 PROVE  q[2] \in disk'[q[1]].model
      BY <1>2, <1>3, <2>2 DEF TasksInv
    <3>1. q[2] \in disk[q[1]].model
      BY DEF RunsInv, TasksInv
    <3>2. q \in Runs \X Steps
      BY <1>2 DEF RunDir
    <3>3. q[1] \in Runs /\ q[1] # new
      BY <1>8, <3>1, <3>2
    <3> QED
      BY <1>2, <1>3, <3>1, <3>3
  <2> QED
    BY <2>1, <2>2
<1>17. \A d \in Runs : d > new => disk'[d] = EmptyRun(None, Target)
  <2> SUFFICES ASSUME NEW d \in Runs, d > new
               PROVE  disk'[d] = EmptyRun(None, Target)
    OBVIOUS
  <2>1. d > run /\ d # new
    BY <1>2 DEF new, Runs
  <2> QED
    BY <1>2, <1>3, <2>1 DEF RunsInv
<1> QED
  BY <1>1, <1>2, <1>3, <1>9, <1>11, <1>13, <1>15, <1>16, <1>17 DEF RunsInv

LEMMA LaunchInv == ASSUME RunsInv, Launch PROVE RunsInv'
<1>1. CASE StartFresh
  <2>1. None \in Pointer
    BY DEF Pointer
  <2>2. PICK limit \in Limits : Boot(None, "idle", limit)
    BY <1>1 DEF StartFresh
  <2> QED
    BY <2>1, <2>2, BootInv, DirectoryConstants
<1>2. ASSUME NEW d \in Runs, NEW s \in Steps, Resume(d, s)
      PROVE  RunsInv'
  <2>1. /\ d \in 1 .. run /\ Resumable(d, s)
        /\ Boot(<<d, s>>, "materialize", Target)
    BY <1>2 DEF Resume
  <2>2. <<d, s>> \in Pointer /\ <<d, s>> \in (1 .. run) \X Steps
        /\ <<d, s>>[1] = d /\ <<d, s>>[2] = s
    BY <2>1 DEF Pointer
  <2> QED
    BY <2>1, <2>2, BootInv, DirectoryConstants
<1> QED
  BY <1>1, <1>2 DEF Launch
-----------------------------------------------------------------------------
LEMMA RunsInit == Init => RunsInv
<1> SUFFICES ASSUME Init PROVE RunsInv
  OBVIOUS
<1>1. /\ pc = "down" /\ run = 0 /\ step = 0
      /\ disk = [d \in 0 .. MaxRuns |-> EmptyRun(None, Target)]
      /\ MaxRuns \in Nat /\ Target \in Nat /\ Runs \subseteq 0 .. MaxRuns
  BY DirectoryConstants DEF Init, Runs
<1> DEFINE dir == EmptyRun(None, Target)
<1>2. dir \in RunDir
  <2>1. /\ NoFiles \in Files /\ None \in Pointer /\ 0 \in 0 .. Target
        /\ [s \in Steps |-> NoFiles] \in [Steps -> Files] /\ <<>> \in Seq(Steps)
    BY <1>1 DEF NoFiles, Files, Pointer
  <2> QED
    BY <2>1, DirectoryConstants DEF RunDir, EmptyRun, None
<1>3. /\ dir.source = None /\ dir.events = <<>> /\ Pointers(dir) = {None}
      /\ dir.newest = None
      /\ dir.queue = {} /\ dir.latest = None[2] /\ dir.progress = None[2]
      /\ \A t \in Steps : dir.checkpoint[t].parts = {}
  BY DEF EmptyRun, Pointers, NoFiles
<1>4. \A d \in 0 .. MaxRuns : disk[d] = dir
  BY <1>1
<1> HIDE DEF dir
<1>5. TypeOK
  BY <1>1, <1>2, <1>4 DEF TypeOK, Pcs
<1>6. \A d \in Runs : DirectoryInv(d, dir)
  BY <1>3 DEF DirectoryInv, Sound
<1>7. \A d \in Runs : SourceInv(d) /\ TasksInv(d)
  BY <1>1, <1>3, <1>4 DEF SourceInv, TasksInv
<1>8. \A d \in Runs : disk[d] = EmptyRun(None, Target)
  BY <1>1, <1>4 DEF dir
<1> QED
  BY <1>1, <1>4, <1>5, <1>6, <1>7, <1>8 DEF RunsInv

LEMMA RunsStep == RunsInv /\ [Next]_vars => RunsInv'
<1> SUFFICES ASSUME RunsInv, [Next]_vars PROVE RunsInv'
  OBVIOUS
<1>1. CASE Launch
  BY <1>1, LaunchInv
<1>2. CASE TrainUpdate
  BY <1>2, TrainUpdateInv
<1>3. CASE Save
  BY <1>3, SetupInv, DriverSavesInv, WriteMetadataInv, WriteIntegrityInv,
     RenameInv, WriteNewestInv, RemovePartInv, RetentionDoneInv, RankSavesInv
  DEF Save
<1>4. CASE Derive
  BY <1>4, VerifyInv, PointLinkInv, PointResumeJsonInv, PointResumeTextInv,
     ExportWeightsInv, ExportModelInv, PointModelJsonInv, EnqueueTaskInv,
     PublishEventInv, WriteLatestInv, WriteProgressInv, MaterializeInv
  DEF Derive
<1>5. CASE SaveFails
  BY <1>5, SaveFailsInv
<1>6. CASE ProcessEnds
  BY <1>6, ProcessEndsInv
<1>7. CASE UNCHANGED vars
  BY <1>7 DEF vars, RunsInv, TypeOK, SourceInv, TasksInv, Resumable, Validates
<1> QED
  BY <1>1, <1>2, <1>3, <1>4, <1>5, <1>6, <1>7 DEF Next

LEMMA RunsInvariant == Spec => []RunsInv
BY RunsInit, RunsStep, PTL DEF Spec
-----------------------------------------------------------------------------
(* Every file and pointer of every run directory keeps its type.            *)
THEOREM DirectoryTypeCorrect == Spec => []TypeOK
<1>1. RunsInv => TypeOK
  BY DEF RunsInv
<1> QED
  BY <1>1, RunsInvariant, PTL

(* A checkpoint that a resume accepts is complete, wherever a commit or the *)
(* retention of an earlier process was cut off.                             *)
THEOREM AcceptedMeansWhole == Spec => []ResumableMeansWhole
<1>1. ASSUME RunsInv PROVE ResumableMeansWhole
  <2> SUFFICES ASSUME NEW d \in Runs, NEW s \in Steps, Resumable(d, s)
               PROVE  disk[d].checkpoint[s].parts = Parts
    BY DEF ResumableMeansWhole
  <2> DEFINE files == disk[d].checkpoint[s]
  <2>1. disk[d] \in RunDir
    BY <1>1, DirectoryConstants DEF RunsInv, TypeOK, Runs
  <2>2. files.parts \subseteq Parts
    BY <2>1 DEF RunDir, Files
  <2>3. Metadata \in files.parts /\ Integrity \in files.parts
        /\ files.listed \subseteq files.parts
    BY DEF Resumable, Validates
  <2>4. files.listed \union {Integrity} = Parts
    BY <1>1, <2>3 DEF RunsInv, DirectoryInv, Sound
  <2> QED
    BY <2>2, <2>3, <2>4
<1> QED
  BY <1>1, RunsInvariant, PTL

(* What is safe in a directory of a run resolves, or has been replaced.      *)
LEMMA SafeStands ==
  ASSUME RunsInv, NEW d \in Runs, NEW s \in Steps, Safe(d, disk[d], s)
  PROVE  Resumable(d, s) \/ Replaced(<<d, s>>)
<1>1. CASE Good(disk[d], s)
  BY <1>1 DEF Good, Resumable
<1>2. CASE disk[d].limit = 1 /\ disk[d].newest = <<d, s + 1>>
  <2>1. disk[d].newest # None /\ disk[d].newest[2] = s + 1
    BY <1>2, DirectoryConstants DEF None, Runs
  <2>2. DirectoryInv(d, disk[d])
    BY DEF RunsInv
  <2>3. Good(disk[d], s + 1)
    BY <2>1, <2>2 DEF DirectoryInv
  <2> QED
    BY <1>2, <2>3 DEF Good, Resumable, Replaced
<1> QED
  BY <1>1, <1>2 DEF Safe

(* For every retention, latest_checkpoint.json never dangles; no other      *)
(* pointer of a run directory, its own or inherited, leads to a checkpoint  *)
(* that was not verified, or dangles: with a retention of one, unless the   *)
(* next checkpoint stands in its place.                                     *)
THEOREM PointersAlwaysResolve == Spec => []PointersResolve
<1>1. ASSUME RunsInv PROVE PointersResolve
  <2>1. ASSUME NEW d \in Runs, disk[d].newest # None
        PROVE  Resumable(disk[d].newest[1], disk[d].newest[2])
    BY <1>1, <2>1 DEF RunsInv, DirectoryInv, Good, Resumable
  <2>2. ASSUME NEW d \in Runs, NEW p \in Pointers(disk[d]) \ {None}
        PROVE  /\ Resumable(p[1], p[2]) \/ Replaced(p)
               /\ p[1] = d => p[2] \in disk[d].report
    <3>1. CASE p = disk[d].source
      <4>1. /\ disk[d].source \in (1 .. d - 1) \X Steps
            /\ Resumable(disk[d].source[1], disk[d].source[2])
        BY <1>1, <2>2, <3>1 DEF RunsInv, SourceInv
      <4>2. p[1] # d
        BY <3>1, <4>1, DirectoryConstants DEF Runs
      <4> QED
        BY <3>1, <4>1, <4>2
    <3>2. CASE p # disk[d].source
      <4>1. p[1] = d /\ p[2] \in disk[d].report /\ Safe(d, disk[d], p[2])
        BY <1>1, <2>2, <3>2 DEF RunsInv, DirectoryInv
      <4>2. disk[d] \in RunDir
        BY <1>1, DirectoryConstants DEF RunsInv, TypeOK, Runs
      <4>3. p \in Runs \X Steps
        BY <2>2, <4>2 DEF RunDir, Pointers, Pointer
      <4>4. p = <<d, p[2]>> /\ p[2] \in Steps
        BY <4>1, <4>3
      <4> QED
        BY <1>1, <4>1, <4>4, SafeStands
    <3> QED
      BY <3>1, <3>2
  <2> QED
    BY <2>1, <2>2 DEF PointersResolve, Pointers
<1> QED
  BY <1>1, RunsInvariant, PTL

(* For every retention, the newest published update, or the one resumed     *)
(* from, stays resumable; with a retention of one, it or its successor does.*)
THEOREM PublishedStaysResumable == Spec => []PublishedIsResumable
<1>1. ASSUME RunsInv PROVE PublishedIsResumable
  <2> SUFFICES ASSUME NEW d \in Runs, LastPublished(d) # None
               PROVE  \/ Resumable(LastPublished(d)[1], LastPublished(d)[2])
                      \/ Replaced(LastPublished(d))
    BY DEF PublishedIsResumable
  <2>1. CASE disk[d].events = <<>>
    BY <1>1, <2>1 DEF LastPublished, RunsInv, SourceInv
  <2>2. CASE disk[d].events # <<>>
    <3>1. Safe(d, disk[d], Last(disk[d]))
      BY <1>1, <2>2 DEF RunsInv, DirectoryInv
    <3>2. LastPublished(d) = <<d, Last(disk[d])>>
      BY <2>2 DEF LastPublished, Last
    <3>3. disk[d] \in RunDir
      BY <1>1, DirectoryConstants DEF RunsInv, TypeOK, Runs
    <3>4. Last(disk[d]) \in Steps
      BY <2>2, <3>3 DEF RunDir, Last
    <3> QED
      BY <1>1, <3>1, <3>2, <3>4, SafeStands
  <2> QED
    BY <2>1, <2>2
<1> QED
  BY <1>1, RunsInvariant, PTL

(* Publication comes after verification, model and evaluation task, and no  *)
(* task a worker may claim lacks its model.                                 *)
THEOREM PublicationComesLast == Spec => []PublishedLast
<1>1. ASSUME RunsInv PROVE PublishedLast
  <2> SUFFICES ASSUME NEW d \in Runs
               PROVE  /\ \A i \in 1 .. Len(disk[d].events) :
                           LET s == disk[d].events[i]
                           IN  /\ s \in disk[d].report
                               /\ s \in disk[d].model
                               /\ <<d, s>> \in disk[d].queue
                      /\ {disk[d].latest, disk[d].progress} \subseteq
                           {disk[d].source[2]} \union
                           {disk[d].events[i] : i \in 1 .. Len(disk[d].events)}
                      /\ \A q \in disk[d].queue : q[2] \in disk[q[1]].model
    BY DEF PublishedLast
  <2>1. disk[d] \in RunDir
    BY <1>1, DirectoryConstants DEF RunsInv, TypeOK, Runs
  <2>2. disk[d].events \in Seq(Steps)
    BY <2>1 DEF RunDir
  <2>3. DOMAIN disk[d].events = 1 .. Len(disk[d].events)
    BY <2>2
  <2>4. DirectoryInv(d, disk[d]) /\ TasksInv(d)
    BY <1>1 DEF RunsInv
  <2> QED
    BY <2>3, <2>4 DEF DirectoryInv, TasksInv, Listed
<1> QED
  BY <1>1, RunsInvariant, PTL

-----------------------------------------------------------------------------
(* Evaluation tasks                                                         *)

(* An update has its checkpoint after all earlier ones have their tasks, in *)
(* its run or in one it descends from; the trainer goes on with a task for  *)
(* its own update too.                                                      *)
EvalInv ==
  /\ pc # "down" => \A t \in 1 .. step - 1 : Enqueued(run, t)
  /\ pc \in Publishing \union {"idle"} /\ step # 0 => Enqueued(run, step)
  /\ \A d \in Runs, s \in Steps :
       disk[d].checkpoint[s].parts # {} => \A t \in 1 .. s - 1 : Enqueued(d, t)

(* Tasks are not withdrawn, and a run keeps its source.                     *)
LEMMA EnqueuedStays ==
  ASSUME \A e \in Runs : /\ disk[e].queue \subseteq disk'[e].queue
                         /\ disk'[e].source = disk[e].source \/ disk[e].source[1] = 0,
         NEW d, NEW s, Enqueued(d, s)
  PROVE  Enqueued(d, s)'
<1> SUFFICES ASSUME NEW A \in SUBSET Runs, d \in A,
                    \A e \in A : disk'[e].source[1] \in A \union {0}
             PROVE  \E e \in A : \E q \in disk'[e].queue : q[2] = s
  BY DEF Enqueued, Lineages, Runs
<1>1. \A e \in A : disk[e].source[1] \in A \union {0}
  OBVIOUS
<1>2. PICK e \in A : \E q \in disk[e].queue : q[2] = s
  BY <1>1 DEF Enqueued, Lineages
<1> QED
  BY <1>2

(* A write that adds no checkpoint but this update's, and goes on to publish*)
(* only with a task.                                                        *)
LEMMA EvalWrite ==
  ASSUME RunsInv, EvalInv, NEW from, NEW to, NEW STATE dir,
         Write(from, to, dir), from # "down",
         dir.source = Here.source, Here.queue \subseteq dir.queue,
         \A s \in Steps : dir.checkpoint[s].parts # {} =>
                            Here.checkpoint[s].parts # {} \/ s = step,
         to \in Publishing \union {"idle"} =>
           from \in Publishing \union {"idle"} \/ \E q \in dir.queue : q[2] = step
  PROVE  EvalInv'
<1>1. /\ pc = from /\ pc' = to /\ UNCHANGED <<run, step>>
      /\ disk' = [disk EXCEPT ![run] = dir]
  BY DEF Write
<1>2. /\ run \in Runs /\ Here = disk[run] /\ step \in Nat
      /\ disk \in [0 .. MaxRuns -> RunDir] /\ Runs \subseteq 0 .. MaxRuns
  BY <1>1, InDirectory, DirectoryConstants DEF Here, RunsInv, TypeOK, Runs
<1>3. disk'[run] = dir /\ \A d \in Runs \ {run} : disk'[d] = disk[d]
  BY <1>1, <1>2
<1>4. \A e \in Runs : /\ disk[e].queue \subseteq disk'[e].queue
                      /\ disk'[e].source = disk[e].source \/ disk[e].source[1] = 0
  BY <1>2, <1>3
<1>5. \A d, s : Enqueued(d, s) => Enqueued(d, s)'
  BY <1>4, EnqueuedStays
<1>6. (pc # "down" => \A t \in 1 .. step - 1 : Enqueued(run, t))'
  BY <1>1, <1>5 DEF EvalInv
<1>7. (pc \in Publishing \union {"idle"} /\ step # 0 => Enqueued(run, step))'
  <2> SUFFICES ASSUME to \in Publishing \union {"idle"}, step # 0 PROVE Enqueued(run, step)'
    BY <1>1
  <2>1. CASE from \in Publishing \union {"idle"}
    BY <1>1, <1>5, <2>1 DEF EvalInv
  <2>2. CASE \E q \in dir.queue : q[2] = step
    BY <1>1, <1>3, <2>2 DEF Enqueued, Lineages
  <2> QED
    BY <2>1, <2>2
<1>8. ASSUME NEW d \in Runs, NEW s \in Steps, disk'[d].checkpoint[s].parts # {},
             NEW t \in 1 .. s - 1
      PROVE  Enqueued(d, t)'
  <2>1. CASE disk[d].checkpoint[s].parts # {}
    BY <1>5, <2>1 DEF EvalInv
  <2>2. CASE disk[d].checkpoint[s].parts = {}
    <3>1. d = run /\ s = step
      BY <1>2, <1>3, <1>8, <2>2
    <3> QED
      BY <1>1, <1>5, <3>1 DEF EvalInv
  <2> QED
    BY <2>1, <2>2
<1> QED
  BY <1>6, <1>7, <1>8 DEF EvalInv, Runs, Steps

LEMMA EvalSave == ASSUME RunsInv, EvalInv, Save PROVE EvalInv'
<1>0. Here \in RunDir \/ pc = "down"
  BY InDirectory
<1>1. \A p \in {"shards", "metadata", "integrity", "rename", "newest", "retire", "verify"} :
        p \notin Publishing \union {"idle"}
  BY DEF Publishing
<1>2. CASE Setup
  BY <1>1, <1>2, EvalWrite DEF Setup
<1>3. ASSUME NEW r \in Ranks, RankSaves(r) PROVE EvalInv'
  <2> DEFINE dir == [Here EXCEPT !.temporary.parts = @ \union {r}]
  <2>1. Write("shards", "shards", dir)
    BY <1>3 DEF RankSaves
  <2>2. dir.source = Here.source /\ dir.queue = Here.queue /\ dir.checkpoint = Here.checkpoint
    BY <1>0, <2>1 DEF RunDir, Write
  <2> HIDE DEF dir
  <2> QED
    BY <1>1, <2>1, <2>2, EvalWrite
<1>4. CASE DriverSaves
  <2> DEFINE dir == [Here EXCEPT !.temporary.parts = @ \union {Controller}]
  <2>1. Write("shards", "metadata", dir)
    BY <1>4 DEF DriverSaves
  <2>2. dir.source = Here.source /\ dir.queue = Here.queue /\ dir.checkpoint = Here.checkpoint
    BY <1>0, <2>1 DEF RunDir, Write
  <2> HIDE DEF dir
  <2> QED
    BY <1>1, <2>1, <2>2, EvalWrite
<1>5. CASE WriteMetadata
  <2> DEFINE dir == [Here EXCEPT !.temporary.parts = @ \union {Metadata}]
  <2>1. Write("metadata", "integrity", dir)
    BY <1>5 DEF WriteMetadata
  <2>2. dir.source = Here.source /\ dir.queue = Here.queue /\ dir.checkpoint = Here.checkpoint
    BY <1>0, <2>1 DEF RunDir, Write
  <2> HIDE DEF dir
  <2> QED
    BY <1>1, <2>1, <2>2, EvalWrite
<1>6. CASE WriteIntegrity
  <2> DEFINE dir == [Here EXCEPT !.temporary =
                       [parts |-> @.parts \union {Integrity}, listed |-> @.parts]]
  <2>1. Write("integrity", "rename", dir)
    BY <1>6 DEF WriteIntegrity
  <2>2. dir.source = Here.source /\ dir.queue = Here.queue /\ dir.checkpoint = Here.checkpoint
    BY <1>0, <2>1 DEF RunDir, Write
  <2> HIDE DEF dir
  <2> QED
    BY <1>1, <2>1, <2>2, EvalWrite
<1>7. CASE Rename
  <2> DEFINE dir == [Here EXCEPT !.checkpoint[step] = Here.temporary, !.temporary = NoFiles]
  <2>1. Write("rename", "newest", dir)
    BY <1>7 DEF Rename
  <2>2. /\ dir.source = Here.source /\ dir.queue = Here.queue
        /\ \A s \in Steps : s # step => dir.checkpoint[s] = Here.checkpoint[s]
    BY <1>0, <2>1 DEF RunDir, Write
  <2> HIDE DEF dir
  <2> QED
    BY <1>1, <2>1, <2>2, EvalWrite
<1>8. CASE WriteNewest
  <2> DEFINE dir == [Here EXCEPT !.newest = <<run, step>>]
  <2>1. Write("newest", "retire", dir)
    BY <1>8 DEF WriteNewest
  <2>2. dir.source = Here.source /\ dir.queue = Here.queue /\ dir.checkpoint = Here.checkpoint
    BY <1>0, <2>1 DEF RunDir, Write
  <2> HIDE DEF dir
  <2> QED
    BY <1>1, <2>1, <2>2, EvalWrite
<1>9. CASE RemovePart
  <2>1. PICK s \in Steps :
          \E p \in Here.checkpoint[s].parts :
            Write("retire", "retire", [Here EXCEPT !.checkpoint[s].parts = @ \ {p}])
    BY <1>9 DEF RemovePart
  <2>4. PICK p \in Here.checkpoint[s].parts :
          Write("retire", "retire", [Here EXCEPT !.checkpoint[s].parts = @ \ {p}])
    BY <2>1
  <2> DEFINE dir == [Here EXCEPT !.checkpoint[s].parts = @ \ {p}]
  <2>2. /\ dir.source = Here.source /\ dir.queue = Here.queue
        /\ \A t \in Steps : dir.checkpoint[t].parts \subseteq Here.checkpoint[t].parts
    BY <1>0, <2>4 DEF RunDir, Files, Write
  <2>3. Write("retire", "retire", dir)
    BY <2>4
  <2> HIDE DEF dir
  <2> QED
    BY <1>1, <2>2, <2>3, EvalWrite
<1>10. CASE RetentionDone
  BY <1>1, <1>10, EvalWrite DEF RetentionDone
<1> QED
  BY <1>2, <1>3, <1>4, <1>5, <1>6, <1>7, <1>8, <1>9, <1>10 DEF Save

LEMMA EvalDerive == ASSUME RunsInv, EvalInv, Derive PROVE EvalInv'
<1>0. Here \in RunDir \/ pc = "down"
  BY InDirectory
<1>1. /\ \A p \in {"link", "resumeJson", "resumeText", "export", "complete", "modelJson",
                   "enqueue"} : p \notin Publishing \union {"idle"}
      /\ \A p \in {"publish", "latest", "progress", "idle"} : p \in Publishing \union {"idle"}
  BY DEF Publishing
(* All but the two writes that enqueue.                                     *)
<1>2. ASSUME NEW from, NEW to, NEW STATE dir, Write(from, to, dir), from # "down",
             dir.source = Here.source, dir.queue = Here.queue,
             dir.checkpoint = Here.checkpoint,
             to \in Publishing \union {"idle"} => from \in Publishing \union {"idle"}
      PROVE  EvalInv'
  BY <1>2, EvalWrite
<1>3. CASE Verify
  <2> DEFINE dir == [Here EXCEPT !.report = @ \union {step}]
  <2>1. Write("verify", "link", dir)
    BY <1>3 DEF Verify
  <2>2. dir.source = Here.source /\ dir.queue = Here.queue /\ dir.checkpoint = Here.checkpoint
    BY <1>0, <2>1 DEF RunDir, Write
  <2> HIDE DEF dir
  <2> QED
    BY <1>1, <1>2, <2>1, <2>2
<1>4. CASE PointLink
  <2> DEFINE dir == [Here EXCEPT !.link = <<run, step>>]
  <2>1. Write("link", "resumeJson", dir)
    BY <1>4 DEF PointLink
  <2>2. dir.source = Here.source /\ dir.queue = Here.queue /\ dir.checkpoint = Here.checkpoint
    BY <1>0, <2>1 DEF RunDir, Write
  <2> HIDE DEF dir
  <2> QED
    BY <1>1, <1>2, <2>1, <2>2
<1>5. CASE PointResumeJson
  <2> DEFINE dir == [Here EXCEPT !.resumeJson = <<run, step>>]
  <2>1. Write("resumeJson", "resumeText", dir)
    BY <1>5 DEF PointResumeJson
  <2>2. dir.source = Here.source /\ dir.queue = Here.queue /\ dir.checkpoint = Here.checkpoint
    BY <1>0, <2>1 DEF RunDir, Write
  <2> HIDE DEF dir
  <2> QED
    BY <1>1, <1>2, <2>1, <2>2
<1>6. CASE PointResumeText
  <2> DEFINE dir == [Here EXCEPT !.resumeText = <<run, step>>]
  <2>1. Write("resumeText", "export", dir)
    BY <1>6 DEF PointResumeText
  <2>2. dir.source = Here.source /\ dir.queue = Here.queue /\ dir.checkpoint = Here.checkpoint
    BY <1>0, <2>1 DEF RunDir, Write
  <2> HIDE DEF dir
  <2> QED
    BY <1>1, <1>2, <2>1, <2>2
<1>7. CASE ExportWeights
  <2> DEFINE dir == [Here EXCEPT !.exported = {step}]
  <2>1. Write("export", "complete", dir)
    BY <1>7 DEF ExportWeights
  <2>2. dir.source = Here.source /\ dir.queue = Here.queue /\ dir.checkpoint = Here.checkpoint
    BY <1>0, <2>1 DEF RunDir, Write
  <2> HIDE DEF dir
  <2> QED
    BY <1>1, <1>2, <2>1, <2>2
<1>8. CASE ExportModel
  <2> DEFINE dir == [Here EXCEPT !.model = @ \union Here.exported, !.exported = {}]
  <2>1. Write("complete", "modelJson", dir)
    BY <1>8 DEF ExportModel
  <2>2. dir.source = Here.source /\ dir.queue = Here.queue /\ dir.checkpoint = Here.checkpoint
    BY <1>0, <2>1 DEF RunDir, Write
  <2> HIDE DEF dir
  <2> QED
    BY <1>1, <1>2, <2>1, <2>2
<1>9. CASE PointModelJson
  <2> DEFINE dir == [Here EXCEPT !.modelJson = <<run, step>>]
  <2>1. Write("modelJson", "enqueue", dir)
    BY <1>9 DEF PointModelJson
  <2>2. dir.source = Here.source /\ dir.queue = Here.queue /\ dir.checkpoint = Here.checkpoint
    BY <1>0, <2>1 DEF RunDir, Write
  <2> HIDE DEF dir
  <2> QED
    BY <1>1, <1>2, <2>1, <2>2
<1>10. CASE EnqueueTask
  <2> DEFINE dir == [Here EXCEPT !.queue = @ \union {<<run, step>>}]
             follow == IF step = Here.source[2] THEN "idle" ELSE "publish"
  <2>1. Write("enqueue", follow, dir)
    BY <1>10 DEF EnqueueTask
  <2>2. /\ dir.source = Here.source /\ dir.checkpoint = Here.checkpoint
        /\ dir.queue = Here.queue \union {<<run, step>>}
    BY <1>0, <2>1 DEF RunDir, Write
  <2> HIDE DEF dir, follow
  <2>3. <<run, step>> \in dir.queue /\ Here.queue \subseteq dir.queue
    BY <2>2
  <2>4. \E q \in dir.queue : q[2] = step
    BY <2>3
  <2> QED
    BY <2>1, <2>2, <2>3, <2>4, EvalWrite
<1>11. CASE PublishEvent
  <2> DEFINE dir == [Here EXCEPT !.events = Append(@, step)]
  <2>1. Write("publish", "latest", dir)
    BY <1>11 DEF PublishEvent
  <2>2. dir.source = Here.source /\ dir.queue = Here.queue /\ dir.checkpoint = Here.checkpoint
    BY <1>0, <2>1 DEF RunDir, Write
  <2> HIDE DEF dir
  <2> QED
    BY <1>1, <1>2, <2>1, <2>2
<1>12. CASE WriteLatest
  <2> DEFINE dir == [Here EXCEPT !.latest = step]
  <2>1. Write("latest", "progress", dir)
    BY <1>12 DEF WriteLatest
  <2>2. dir.source = Here.source /\ dir.queue = Here.queue /\ dir.checkpoint = Here.checkpoint
    BY <1>0, <2>1 DEF RunDir, Write
  <2> HIDE DEF dir
  <2> QED
    BY <1>1, <1>2, <2>1, <2>2
<1>13. CASE WriteProgress
  <2> DEFINE dir == [Here EXCEPT !.progress = step]
  <2>1. Write("progress", "idle", dir)
    BY <1>13 DEF WriteProgress
  <2>2. dir.source = Here.source /\ dir.queue = Here.queue /\ dir.checkpoint = Here.checkpoint
    BY <1>0, <2>1 DEF RunDir, Write
  <2> HIDE DEF dir
  <2> QED
    BY <1>1, <1>2, <2>1, <2>2
<1>14. ASSUME NEW external \in BOOLEAN, Materialize(external) PROVE EvalInv'
  <2>1. CASE external
    <3> DEFINE dir == [Here EXCEPT !.queue = @ \union {<<Here.source[1], step>>}]
    <3>1. Write("materialize", "idle", dir)
      BY <1>14, <2>1 DEF Materialize
    <3>2. /\ dir.source = Here.source /\ dir.checkpoint = Here.checkpoint
          /\ dir.queue = Here.queue \union {<<Here.source[1], step>>}
      BY <1>0, <3>1 DEF RunDir, Write
    <3> HIDE DEF dir
    <3>3. <<Here.source[1], step>> \in dir.queue /\ Here.queue \subseteq dir.queue
      BY <3>2
    <3>4. \E q \in dir.queue : q[2] = step
      BY <3>3
    <3> QED
      BY <3>1, <3>2, <3>3, <3>4, EvalWrite
  <2>2. CASE ~ external
    <3>1. Write("materialize", "export", Here)
      BY <1>14, <2>2 DEF Materialize
    <3> QED
      BY <1>1, <1>2, <3>1
  <2> QED
    BY <2>1, <2>2
<1> QED
  BY <1>3, <1>4, <1>5, <1>6, <1>7, <1>8, <1>9, <1>10, <1>11, <1>12, <1>13, <1>14 DEF Derive

(* A resumed run inherits what its source run had enqueued.                 *)
LEMMA EvalBoot ==
  ASSUME RunsInv, EvalInv, NEW source \in Pointer, NEW where, NEW limit,
         Boot(source, where, limit),
         \/ source = None /\ where = "idle"
         \/ /\ source \in (1 .. run) \X Steps /\ where = "materialize"
            /\ Resumable(source[1], source[2])
  PROVE  EvalInv'
<1>0. PICK new \in Nat : new = run + 1
  BY DEF Boot, RunsInv, TypeOK
<1>1. /\ run < MaxRuns /\ run' = new /\ step' = source[2] /\ pc' = where
      /\ disk' = [disk EXCEPT ![new] = EmptyRun(source, limit)]
  BY <1>0 DEF Boot
<1>2. /\ run \in 0 .. MaxRuns /\ new \in Runs /\ new > run /\ run \in Nat
      /\ disk \in [0 .. MaxRuns -> RunDir] /\ Runs \subseteq 0 .. MaxRuns
  BY <1>0, <1>1, DirectoryConstants DEF RunsInv, TypeOK, Runs
<1>3. disk[new] = EmptyRun(None, Target)
  BY <1>2 DEF RunsInv
<1>4. disk'[new] = EmptyRun(source, limit) /\ \A d \in Runs \ {new} : disk'[d] = disk[d]
  BY <1>1, <1>2
<1>5. /\ disk[new].queue = {} /\ disk[new].source[1] = 0
      /\ disk'[new].source = source /\ \A s \in Steps : disk'[new].checkpoint[s].parts = {}
  BY <1>3, <1>4 DEF EmptyRun, None, NoFiles
<1>6. \A d, s : Enqueued(d, s) => Enqueued(d, s)'
  <2>1. \A e \in Runs : /\ disk[e].queue \subseteq disk'[e].queue
                        /\ disk'[e].source = disk[e].source \/ disk[e].source[1] = 0
    BY <1>4, <1>5
  <2> QED
    BY <2>1, EnqueuedStays
<1>7. ASSUME NEW d \in Runs, NEW s \in Steps, disk'[d].checkpoint[s].parts # {},
             NEW t \in 1 .. s - 1
      PROVE  Enqueued(d, t)'
  <2>1. d # new /\ disk[d].checkpoint[s].parts # {}
    BY <1>4, <1>5, <1>7
  <2> QED
    BY <1>6, <2>1 DEF EvalInv
<1>8. CASE source = None /\ where = "idle"
  <2>1. step' = 0
    BY <1>1, <1>8 DEF None
  <2> QED
    BY <1>7, <2>1 DEF EvalInv, Runs, Steps
<1>9. CASE /\ source \in (1 .. run) \X Steps /\ where = "materialize"
           /\ Resumable(source[1], source[2])
  <2>1. PICK d \in 1 .. run, s \in Steps : source = <<d, s>>
    BY <1>9
  <2>2. d \in Runs /\ d # new /\ d # 0
    BY <1>0, <1>1, <1>2, <2>1, DirectoryConstants DEF Runs
  <2>3. disk[d].checkpoint[s].parts # {}
    BY <1>9, <2>1 DEF Resumable, Validates
  <2>4. ASSUME NEW t \in 1 .. s - 1 PROVE Enqueued(new, t)'
    <3>1. Enqueued(d, t)'
      BY <1>6, <2>2, <2>3 DEF EvalInv
    <3> SUFFICES ASSUME NEW A \in SUBSET Runs, new \in A,
                        \A e \in A : disk'[e].source[1] \in A \union {0}
                 PROVE  \E e \in A : \E q \in disk'[e].queue : q[2] = t
      BY DEF Enqueued, Lineages, Runs
    <3>2. d \in A
      BY <1>5, <2>1, <2>2
    <3> QED
      BY <3>1, <3>2 DEF Enqueued, Lineages, Runs
  <2>5. step' = s /\ pc' = "materialize" /\ run' = new
    BY <1>1, <1>9, <2>1
  <2>6. (pc # "down" => \A t \in 1 .. step - 1 : Enqueued(run, t))'
    BY <2>4, <2>5 DEF Enqueued, Lineages
  <2> QED
    BY <1>7, <2>5, <2>6 DEF EvalInv, Publishing, Runs, Steps
<1> QED
  BY <1>8, <1>9

LEMMA EvalLaunch == ASSUME RunsInv, EvalInv, Launch PROVE EvalInv'
<1>1. CASE StartFresh
  <2>1. PICK limit \in Limits : Boot(None, "idle", limit)
    BY <1>1 DEF StartFresh
  <2> QED
    BY <2>1, EvalBoot DEF Pointer
<1>2. ASSUME NEW d \in Runs, NEW s \in Steps, Resume(d, s) PROVE EvalInv'
  <2>1. /\ <<d, s>> \in Pointer /\ <<d, s>> \in (1 .. run) \X Steps
        /\ Resumable(d, s) /\ Boot(<<d, s>>, "materialize", Target)
    BY <1>2 DEF Resume, Pointer
  <2> QED
    BY <2>1, EvalBoot
<1> QED
  BY <1>1, <1>2 DEF Launch

LEMMA EvalStep == RunsInv /\ EvalInv /\ [Next]_vars => EvalInv'
<1> SUFFICES ASSUME RunsInv, EvalInv, [Next]_vars PROVE EvalInv'
  OBVIOUS
<1>1. CASE TrainUpdate
  <2>1. /\ pc = "idle" /\ pc' = "setup" /\ step' = step + 1 /\ UNCHANGED <<run, disk>>
    BY <1>1 DEF TrainUpdate
  <2>2. \A d, s : Enqueued(d, s) => Enqueued(d, s)'
    BY <2>1, EnqueuedStays
  <2>3. step \in Nat
    BY <2>1, InDirectory
  <2>4. \A t \in 1 .. step : Enqueued(run, t)
    BY <2>1, <2>3 DEF EvalInv
  <2>5. (\A t \in 1 .. step - 1 : Enqueued(run, t))'
    BY <2>1, <2>2, <2>3, <2>4
  <2>6. ASSUME NEW d \in Runs, NEW s \in Steps, disk'[d].checkpoint[s].parts # {},
               NEW t \in 1 .. s - 1
        PROVE  Enqueued(d, t)'
    BY <2>1, <2>2, <2>6 DEF EvalInv
  <2> QED
    BY <2>1, <2>5, <2>6 DEF EvalInv, Publishing, Runs, Steps
<1>2. CASE SaveFails
  <2> DEFINE dir == [Here EXCEPT !.temporary = NoFiles]
  <2>1. /\ pc # "down" /\ pc' = "down" /\ disk' = [disk EXCEPT ![run].temporary = NoFiles]
        /\ run' = run /\ step' = step
    BY <1>2 DEF SaveFails
  <2>2. Here \in RunDir /\ run \in Runs
    BY <2>1, InDirectory
  <2>3. run \in DOMAIN disk
    BY <2>2, DirectoryConstants DEF RunsInv, TypeOK, Runs
  <2>4. Write(pc, "down", dir)
    BY <2>1, <2>3 DEF Here, Write
  <2>5. dir.source = Here.source /\ dir.queue = Here.queue /\ dir.checkpoint = Here.checkpoint
    BY <2>2 DEF RunDir
  <2> HIDE DEF dir
  <2> QED
    BY <2>1, <2>4, <2>5, EvalWrite DEF Publishing
<1>3. CASE ProcessEnds \/ UNCHANGED vars
  <2>1. UNCHANGED <<run, step, disk>> /\ (pc' = pc \/ pc' = "down")
    BY <1>3 DEF ProcessEnds, vars
  <2>2. \A d, s : Enqueued(d, s) => Enqueued(d, s)'
    BY <2>1, EnqueuedStays
  <2>3. ASSUME NEW d \in Runs, NEW s \in Steps, disk'[d].checkpoint[s].parts # {},
               NEW t \in 1 .. s - 1
        PROVE  Enqueued(d, t)'
    BY <2>1, <2>2, <2>3 DEF EvalInv
  <2> QED
    BY <2>1, <2>2, <2>3 DEF EvalInv, Publishing, Runs, Steps
<1> QED
  BY <1>1, <1>2, <1>3, EvalLaunch, EvalSave, EvalDerive DEF Next

(* However often runs die between a checkpoint and its evaluation task, no  *)
(* update in the history of the model is left without one.                  *)
THEOREM EveryUpdateIsEnqueued == Spec => []NoEvaluationLost
<1>1. Init => EvalInv
  <2>1. Init => pc = "down" /\ \A d \in Runs, s \in Steps : disk[d].checkpoint[s].parts = {}
    BY DirectoryConstants DEF Init, Runs, EmptyRun, NoFiles
  <2> QED
    BY <2>1 DEF EvalInv, Publishing
<1>2. ASSUME RunsInv, EvalInv PROVE NoEvaluationLost
  <2>1. pc = "idle" => step \in Nat
    BY <1>2, InDirectory
  <2> QED
    BY <1>2, <2>1 DEF EvalInv, NoEvaluationLost
<1> QED
  BY <1>1, <1>2, EvalStep, RunsInvariant, PTL DEF Spec

-----------------------------------------------------------------------------
(* The evaluation queue                                                     *)

(* Where the worker has a claimed task in hand, and where it may still be   *)
(* about to change or log its outcome.                                      *)
Claimed == {"probe", "work", "evaluating", "publish", "metrics", "complete"}
InHand == Claimed \union {"failing", "log", "logFailure"}

(* Tasks enter the queue in order; only the task in hand is running; while  *)
(* it is in hand every earlier task is settled and no later one published.  *)
ClaimInv ==
  /\ \A u \in Updates : tasks[u] # "absent" => u < next
  /\ \A u \in Updates : tasks[u] = "running" =>
       u = current /\ worker \in Claimed \union {"failing", "exited"}
  /\ worker \in Claimed => tasks[current] = "running"
  /\ worker \in InHand =>
       /\ current \in Updates
       /\ current < next
       /\ \A u \in Updates : u < current => tasks[u] \in {"absent", "completed"}
       /\ \A v \in published : v <= current

(* An output is published once, and then its records are counted by         *)
(* written until they are complete.                                         *)
PublishInv ==
  /\ \A u \in published : tasks[u] # "absent"
  /\ \A u \in Updates : u \notin published => metrics[u] = 0
  /\ worker \in {"evaluating", "publish"} => current \notin published
  /\ worker = "metrics" =>
       current \in published /\ metrics[current] = written /\ written < Records
  /\ worker = "complete" =>
       current \in published /\ metrics[current] = Records

(* What the worker believes of the trainer stays true.                      *)
ResultInv ==
  /\ sawPass => trainer = "passed"
  /\ finished => worker = "exited"

FaultCounts == [transient : Nat, disk : Nat, kills : Nat]

QueueInv ==
  /\ QueueTypeOK
  /\ ClaimInv
  /\ PublishInv
  /\ ResultInv
  /\ RecordsWrittenOnce
  /\ CompletedMeansScored
  /\ ScoredInOrder
  /\ FinishedMeansAllScored
-----------------------------------------------------------------------------
LEMMA QueueInitInv == QueueInit => QueueInv
<1> SUFFICES ASSUME QueueInit
             PROVE  QueueInv
  OBVIOUS
<1> USE EvalConstants DEF EvalConstants, Updates, QueueInit
<1>1. faults \in FaultCounts
  BY DEF FaultCounts
<1>2. QueueTypeOK
  <2>1. /\ next \in 1 .. Evaluations + 1
        /\ tasks \in [Updates -> {"absent", "pending", "running", "completed"}]
        /\ metrics \in [Updates -> Nat]
        /\ current \in 0 .. Evaluations /\ written \in 0 .. Records
    OBVIOUS
  <2>2. /\ published \subseteq Updates
        /\ worker = "loop" /\ supervisor = "driver" /\ trainer = "training"
        /\ {sawPass, finished, stop} \subseteq BOOLEAN
    OBVIOUS
  <2> QED
    BY ONLY <1>1, <2>1, <2>2 DEF QueueTypeOK, FaultCounts, Updates
<1>3. ClaimInv /\ PublishInv /\ ResultInv
  BY DEF ClaimInv, PublishInv, ResultInv, Claimed, InHand
<1>4. RecordsWrittenOnce /\ CompletedMeansScored
  BY DEF RecordsWrittenOnce, CompletedMeansScored
<1>5. ScoredInOrder /\ FinishedMeansAllScored
  BY DEF ScoredInOrder, FinishedMeansAllScored
<1> QED
  BY <1>2, <1>3, <1>4, <1>5 DEF QueueInv

(* A fault of any kind leaves three counts.                                 *)
LEMMA FaultsStayCounts ==
  ASSUME NEW f \in FaultCounts
  PROVE  /\ [f EXCEPT !.transient = @ + 1] \in FaultCounts
         /\ [f EXCEPT !.disk = @ + 1] \in FaultCounts
         /\ [f EXCEPT !.kills = @ + 1] \in FaultCounts
BY DEF FaultCounts

LEMMA QueueStepInv == QueueInv /\ [QueueNext]_evalVars => QueueInv'
<1> SUFFICES ASSUME QueueInv, [QueueNext]_evalVars
             PROVE  QueueInv'
  OBVIOUS
<1> USE EvalConstants
        DEF EvalConstants, Updates, Queued, Pending, Step, QueueInv, QueueTypeOK,
            ClaimInv, PublishInv, ResultInv, Claimed, InHand,
            RecordsWrittenOnce, CompletedMeansScored, ScoredInOrder,
            FinishedMeansAllScored, queueVars, workerVars, jobVars
<1> USE DEF FaultCounts
<1>1. CASE EnqueueEval
  <2>1. QueueTypeOK'
    BY <1>1 DEF EnqueueEval
  <2>2. ClaimInv'
    BY <1>1 DEF EnqueueEval
  <2>3. PublishInv' /\ ResultInv'
    BY <1>1 DEF EnqueueEval
  <2>4. RecordsWrittenOnce' /\ CompletedMeansScored'
    BY <1>1 DEF EnqueueEval
  <2>5. ScoredInOrder' /\ FinishedMeansAllScored'
    BY <1>1 DEF EnqueueEval
  <2> QED
    BY <2>1, <2>2, <2>3, <2>4, <2>5
<1>2. CASE TrainerEnds
  BY <1>2 DEF TrainerEnds
<1>3. CASE ClaimNextEval
  <2>1. PICK u \in Pending : /\ \A v \in Pending : u <= v
                             /\ current' = u
                             /\ tasks' = [tasks EXCEPT ![u] = "running"]
    BY <1>3 DEF ClaimNextEval
  <2>2. /\ worker = "loop" /\ worker' = "probe"
        /\ UNCHANGED <<published, metrics, written, sawPass, finished, jobVars,
                       faults>>
    BY <1>3 DEF ClaimNextEval
  <2>3. \A v \in Updates : v < u => tasks[v] \in {"absent", "completed"}
    BY <2>1, <2>2
  <2>4. \A v \in published : v <= u
    BY <2>1
  <2>5. QueueTypeOK'
    BY <2>1, <2>2
  <2>6. ClaimInv'
    BY <2>1, <2>2, <2>3, <2>4
  <2>7. PublishInv' /\ ResultInv' /\ RecordsWrittenOnce' /\ CompletedMeansScored'
    BY <2>1, <2>2
  <2>8. ScoredInOrder' /\ FinishedMeansAllScored'
    BY <2>1, <2>2, <2>4
  <2> QED
    BY <2>5, <2>6, <2>7, <2>8
<1>4. CASE NothingPending
  BY <1>4 DEF NothingPending
<1>5. CASE ReadTrainerResult
  BY <1>5 DEF ReadTrainerResult
<1>6. CASE SnapshotQueue
  <2>1. QueueTypeOK'
    BY <1>6 DEF SnapshotQueue
  <2>2. ClaimInv'
    BY <1>6 DEF SnapshotQueue
  <2>3. PublishInv' /\ ResultInv'
    BY <1>6 DEF SnapshotQueue
  <2>4. RecordsWrittenOnce' /\ CompletedMeansScored'
    BY <1>6 DEF SnapshotQueue
  <2>5. ScoredInOrder' /\ FinishedMeansAllScored'
    BY <1>6 DEF SnapshotQueue
  <2> QED
    BY <2>1, <2>2, <2>3, <2>4, <2>5
<1>7. CASE StopWorker
  BY <1>7 DEF StopWorker
<1>8. CASE Probe
  BY <1>8 DEF Probe
<1>9. CASE DeferEval
  <2>1. faults' \in FaultCounts
    BY <1>9, FaultsStayCounts DEF DeferEval
  <2>2. /\ Step("probe", "loop")
        /\ tasks' = [tasks EXCEPT ![current] = "pending"]
        /\ current' = 0
        /\ UNCHANGED <<published, metrics, written, sawPass, finished, jobVars>>
    BY <1>9 DEF DeferEval
  <2>3. current \in Updates /\ tasks[current] = "running"
    BY <2>2
  <2>4. QueueTypeOK'
    BY <2>1, <2>2, <2>3
  <2>5. ClaimInv' /\ PublishInv' /\ ResultInv'
    BY <2>2, <2>3
  <2>6. RecordsWrittenOnce' /\ CompletedMeansScored'
    BY <2>2, <2>3
  <2>7. ScoredInOrder' /\ FinishedMeansAllScored'
    BY <2>2, <2>3
  <2> QED
    BY <2>4, <2>5, <2>6, <2>7
<1>10. CASE RunTask
  <2>1. QueueTypeOK'
    BY <1>10 DEF RunTask
  <2>2. ClaimInv'
    BY <1>10 DEF RunTask
  <2>3. PublishInv' /\ ResultInv'
    BY <1>10 DEF RunTask
  <2>4. RecordsWrittenOnce' /\ CompletedMeansScored'
    BY <1>10 DEF RunTask
  <2>5. ScoredInOrder' /\ FinishedMeansAllScored'
    BY <1>10 DEF RunTask
  <2> QED
    BY <2>1, <2>2, <2>3, <2>4, <2>5
<1>11. CASE Aggregate
  BY <1>11 DEF Aggregate
<1>12. CASE Publish
  <2>1. /\ worker = "publish" /\ worker' = "metrics"
        /\ published' = published \union {current}
        /\ written' = 0
        /\ current \in Updates /\ current \notin published
        /\ UNCHANGED <<tasks, metrics, current, sawPass, finished, jobVars,
                       faults>>
    BY <1>12 DEF Publish
  <2>2. QueueTypeOK'
    BY <2>1
  <2>3. ClaimInv' /\ ResultInv'
    BY <2>1
  <2>4. PublishInv' /\ RecordsWrittenOnce' /\ CompletedMeansScored'
    BY <2>1
  <2>5. ScoredInOrder' /\ FinishedMeansAllScored'
    BY <2>1
  <2> QED
    BY <2>2, <2>3, <2>4, <2>5
<1>13. CASE AppendMetric
  <2>1. QueueTypeOK'
    BY <1>13 DEF AppendMetric
  <2>2. ClaimInv'
    BY <1>13 DEF AppendMetric
  <2>3. PublishInv' /\ ResultInv'
    BY <1>13 DEF AppendMetric
  <2>4. RecordsWrittenOnce' /\ CompletedMeansScored'
    BY <1>13 DEF AppendMetric
  <2>5. ScoredInOrder' /\ FinishedMeansAllScored'
    BY <1>13 DEF AppendMetric
  <2> QED
    BY <2>1, <2>2, <2>3, <2>4, <2>5
<1>14. CASE CompleteEval
  <2>1. QueueTypeOK'
    BY <1>14 DEF CompleteEval
  <2>2. ClaimInv'
    BY <1>14 DEF CompleteEval
  <2>3. PublishInv' /\ ResultInv'
    BY <1>14 DEF CompleteEval
  <2>4. RecordsWrittenOnce' /\ CompletedMeansScored'
    BY <1>14 DEF CompleteEval
  <2>5. ScoredInOrder' /\ FinishedMeansAllScored'
    BY <1>14 DEF CompleteEval
  <2> QED
    BY <2>1, <2>2, <2>3, <2>4, <2>5
<1>15. CASE LogEvent
  <2>1. QueueTypeOK'
    BY <1>15 DEF LogEvent
  <2>2. ClaimInv'
    BY <1>15 DEF LogEvent
  <2>3. PublishInv' /\ ResultInv'
    BY <1>15 DEF LogEvent
  <2>4. RecordsWrittenOnce' /\ CompletedMeansScored'
    BY <1>15 DEF LogEvent
  <2>5. ScoredInOrder' /\ FinishedMeansAllScored'
    BY <1>15 DEF LogEvent
  <2> QED
    BY <2>1, <2>2, <2>3, <2>4, <2>5
<1>16. CASE FailEval
  <2>1. QueueTypeOK'
    BY <1>16 DEF FailEval
  <2>2. ClaimInv'
    BY <1>16 DEF FailEval
  <2>3. PublishInv' /\ ResultInv'
    BY <1>16 DEF FailEval
  <2>4. RecordsWrittenOnce' /\ CompletedMeansScored'
    BY <1>16 DEF FailEval
  <2>5. ScoredInOrder' /\ FinishedMeansAllScored'
    BY <1>16 DEF FailEval
  <2> QED
    BY <2>1, <2>2, <2>3, <2>4, <2>5
<1>17. CASE TaskRaises
  <2>1. faults' \in FaultCounts
    BY <1>17, FaultsStayCounts DEF TaskRaises
  <2>2. /\ worker \in {"probe", "work", "evaluating", "publish"}
        /\ worker' = "failing"
        /\ UNCHANGED <<queueVars, current, written, sawPass, finished, jobVars>>
    BY <1>17 DEF TaskRaises
  <2>3. QueueTypeOK'
    BY <2>1, <2>2
  <2>4. ClaimInv'
    BY <2>1, <2>2
  <2>5. PublishInv' /\ ResultInv'
    BY <2>1, <2>2
  <2>6. RecordsWrittenOnce' /\ CompletedMeansScored'
    BY <2>1, <2>2
  <2>7. ScoredInOrder' /\ FinishedMeansAllScored'
    BY <2>1, <2>2
  <2> QED
    BY <2>3, <2>4, <2>5, <2>6, <2>7
<1>18. CASE DiskFault
  <2>1. faults' \in FaultCounts
    BY <1>18, FaultsStayCounts DEF DiskFault
  <2>2. /\ worker \in {"metrics", "complete", "log", "failing", "logFailure"}
        /\ worker' = IF worker \in {"failing", "logFailure"} THEN "exited"
                                                             ELSE "failing"
        /\ UNCHANGED <<queueVars, current, written, sawPass, finished, jobVars>>
    BY <1>18 DEF DiskFault
  <2>3. QueueTypeOK'
    BY <2>1, <2>2
  <2>4. ClaimInv'
    BY <2>1, <2>2
  <2>5. PublishInv' /\ ResultInv'
    BY <2>1, <2>2
  <2>6. RecordsWrittenOnce' /\ CompletedMeansScored'
    BY <2>1, <2>2
  <2>7. ScoredInOrder' /\ FinishedMeansAllScored'
    BY <2>1, <2>2
  <2> QED
    BY <2>3, <2>4, <2>5, <2>6, <2>7
<1>19. CASE DriverReturns
  BY <1>19 DEF DriverReturns
<1>20. CASE WorkerReturns
  BY <1>20 DEF WorkerReturns
<1>21. CASE KillWorker
  <2>1. faults' \in FaultCounts
    BY <1>21, FaultsStayCounts DEF KillWorker
  <2>2. /\ worker' = "exited"
        /\ UNCHANGED <<queueVars, current, written, sawPass, finished, jobVars>>
    BY <1>21 DEF KillWorker
  <2>3. QueueTypeOK'
    BY <2>1, <2>2
  <2>4. ClaimInv'
    BY <2>1, <2>2
  <2>5. PublishInv' /\ ResultInv'
    BY <2>1, <2>2
  <2>6. RecordsWrittenOnce' /\ CompletedMeansScored'
    BY <2>1, <2>2
  <2>7. ScoredInOrder' /\ FinishedMeansAllScored'
    BY <2>1, <2>2
  <2> QED
    BY <2>3, <2>4, <2>5, <2>6, <2>7
<1>22. CASE Interrupt
  <2>1. QueueTypeOK'
    BY <1>22 DEF Interrupt
  <2>2. ClaimInv'
    BY <1>22 DEF Interrupt
  <2>3. PublishInv' /\ ResultInv'
    BY <1>22 DEF Interrupt
  <2>4. RecordsWrittenOnce' /\ CompletedMeansScored'
    BY <1>22 DEF Interrupt
  <2>5. ScoredInOrder' /\ FinishedMeansAllScored'
    BY <1>22 DEF Interrupt
  <2> QED
    BY <2>1, <2>2, <2>3, <2>4, <2>5
<1>23. CASE UNCHANGED evalVars
  BY <1>23 DEF evalVars
<1> QED
  BY <1>1, <1>2, <1>3, <1>4, <1>5, <1>6, <1>7, <1>8, <1>9, <1>10, <1>11, <1>12, <1>13, <1>14, <1>15, <1>16, <1>17, <1>18, <1>19, <1>20, <1>21, <1>22, <1>23
     DEF QueueNext, Trainer, Worker, Supervisor

LEMMA QueueInvariant == QueueSpec => []QueueInv
BY QueueInitInv, QueueStepInv, PTL DEF QueueSpec

(* Type correctness of queue, worker, trainer and supervisor.               *)
THEOREM QueueTypeCorrect == QueueSpec => []QueueTypeOK
<1>1. QueueInv => QueueTypeOK
  BY DEF QueueInv
<1> QED
  BY <1>1, QueueInvariant, PTL

(* No history of failures and retries writes a metric record twice or       *)
(* before the predictions it summarises.                                    *)
THEOREM RecordsAreWrittenOnce == QueueSpec => []RecordsWrittenOnce
<1>1. QueueInv => RecordsWrittenOnce
  BY DEF QueueInv
<1> QED
  BY <1>1, QueueInvariant, PTL

(* A completed task has its output and all its records on disk.             *)
THEOREM CompletedTasksAreScored == QueueSpec => []CompletedMeansScored
<1>1. QueueInv => CompletedMeansScored
  BY DEF QueueInv
<1> QED
  BY <1>1, QueueInvariant, PTL

(* Updates are scored in order, through all deferrals and retries.          *)
THEOREM UpdatesScoredInOrder == QueueSpec => []ScoredInOrder
<1>1. QueueInv => ScoredInOrder
  BY DEF QueueInv
<1> QED
  BY <1>1, QueueInvariant, PTL

(* The worker's PASS means that everything queued has been scored and that  *)
(* the training had passed.                                                 *)
THEOREM FinishedWorkerScoredAll == QueueSpec => []FinishedMeansAllScored
<1>1. QueueInv => FinishedMeansAllScored
  BY DEF QueueInv
<1> QED
  BY <1>1, QueueInvariant, PTL
=============================================================================
