----------------------------- MODULE RunDirectory -----------------------------
(***************************************************************************)
(* What the commit of an update writes into the run directory, in order:   *)
(* the checkpoint, its verification, the pointers to it, the exported      *)
(* model, the evaluation task, the event line and the progress files.  The *)
(* process may raise or be killed between any two of these writes.  A new  *)
(* process trains from scratch or resumes from a checkpoint that validates,*)
(* always in a run directory of its own, where it first makes up for the   *)
(* model and the task of the restored update.                              *)
(*                                                                         *)
(* An update stands for a cadence update (every 20th); the ones between    *)
(* write no checkpoint.  A file set is the set of its parts.               *)
(***************************************************************************)
EXTENDS Integers, FiniteSets, Sequences

CONSTANTS Ranks,    \* the FSDP ranks, each writes a shard
          Target,   \* the last update
          Limits,   \* values of checkpoint.formal_limit in use
          MaxRuns   \* bound: run directories

(* _enforce_checkpoint_limit takes every positive formal_limit.  The        *)
(* committed recipes have 2 or 3, or null, which is a limit of Target.      *)
ASSUME DirectoryConstants ==
  /\ Ranks # {}
  /\ Target \in Nat \ {0}
  /\ Limits # {} /\ Limits \subseteq Nat \ {0}
  /\ MaxRuns \in Nat \ {0}

Runs == 1 .. MaxRuns
Steps == 1 .. Target
None == <<0, 0>>     \* no run, no update
Controller == "controller"
Metadata == "metadata"
Integrity == "integrity"
Parts == Ranks \union {Controller, Metadata, Integrity}

VARIABLES
  pc,      \* what the trainer does next; "down" when there is none
  run,     \* its run directory, 0 before the first
  step,    \* updates its model has learnt
  disk     \* the run directories; 0 is none and stays empty

vars == <<pc, run, step, disk>>

(* A checkpoint: the parts that are there, the ones integrity.sha256 lists. *)
NoFiles == [parts |-> {}, listed |-> {}]

EmptyRun(source, limit) ==
  [source |-> source,                        \* run_manifest.json
   limit |-> limit,                          \* formal_limit of its config
   temporary |-> NoFiles,                    \* update_XXX.tmp
   checkpoint |-> [s \in Steps |-> NoFiles], \* checkpoints/resume/update_XXX
   newest |-> None,                          \* latest_checkpoint.json
   report |-> {},                            \* reports/*_readonly.json
   link |-> None,                            \* checkpoints/resume/latest
   resumeJson |-> source,                    \* latest_resume_checkpoint.json
   resumeText |-> source,                    \* state/latest_checkpoint
   exported |-> {},                          \* checkpoints/models/.tmp_update_XXX
   model |-> {},                             \* checkpoints/models/update_XXX
   modelJson |-> None,                       \* latest_model_checkpoint.json
   queue |-> {},                             \* eval_queue.json: <<run, update>>
   events |-> <<>>,                          \* successful_updates.jsonl
   latest |-> source[2],                     \* latest_successful_update
   progress |-> source[2]]                   \* training_progress.json

Here == disk[run]
Write(from, to, dir) ==
  /\ pc = from
  /\ pc' = to
  /\ disk' = [disk EXCEPT ![run] = dir]
  /\ UNCHANGED <<run, step>>

(* AtomicCheckpointCommitter.validate, and the existence check of the       *)
(* controller state by prepare_verified_resume_recovery.                    *)
Validates(files) ==
  /\ {Metadata, Integrity} \subseteq files.parts
  /\ files.listed \subseteq files.parts

Resumable(d, s) == /\ Validates(disk[d].checkpoint[s])
                   /\ Controller \in disk[d].checkpoint[s].parts
-----------------------------------------------------------------------------
(* Processes                                                                *)

Boot(source, where, limit) ==
  /\ pc = "down"
  /\ run < MaxRuns
  /\ run' = run + 1
  /\ step' = source[2]
  /\ pc' = where
  /\ disk' = [disk EXCEPT ![run + 1] = EmptyRun(source, limit)]

StartFresh == \E limit \in Limits : Boot(None, "idle", limit)

(* The resume scripts set formal_limit to None.                             *)
Resume(d, s) ==
  /\ d \in 1 .. run
  /\ Resumable(d, s)
  /\ Boot(<<d, s>>, "materialize", Target)

(* Defect: resuming leaves the task of the restored update to its run.       *)
TrustSourceRun(external) ==
  Write("materialize", "idle", Here)

(* _materialize_missing_resume_cadence_artifacts: the model is the verified *)
(* one of the source run, if the operator names it, or exported again.      *)
Materialize(external) ==
  IF external
    THEN /\ Write("materialize", "idle",
                  [Here EXCEPT !.queue = @ \union {<<Here.source[1], step>>}])
         /\ step \in disk[Here.source[1]].model
    ELSE Write("materialize", "export", Here)

(* kill -9, or an exception: commit_successful_update has no recovery.      *)
ProcessEnds ==
  /\ pc # "down"
  /\ pc' = "down"
  /\ UNCHANGED <<run, step, disk>>
-----------------------------------------------------------------------------
(* _save_checkpoint: AtomicCheckpointCommitter.commit as the driver calls it*)

(* An attempt of StrictUpdate up to its commit.                             *)
TrainUpdate ==
  /\ pc = "idle"
  /\ step < Target
  /\ step' = step + 1
  /\ pc' = "setup"
  /\ UNCHANGED <<run, disk>>

(* Defect: room is made before the new checkpoint is safe.                   *)
SetupMakesRoom ==
  /\ Write("setup", "shards",
           [Here EXCEPT !.checkpoint = [s \in Steps |-> NoFiles]])
  /\ Here.temporary = NoFiles
  /\ Here.checkpoint[step] = NoFiles

Setup ==
  /\ Write("setup", "shards", Here)
  /\ Here.temporary = NoFiles
  /\ Here.checkpoint[step] = NoFiles

RankSaves(r) ==
  /\ r \notin Here.temporary.parts
  /\ Write("shards", "shards", [Here EXCEPT !.temporary.parts = @ \union {r}])

(* Defect: the driver does not wait for the shards.                          *)
DriverSavesEarly ==
  Write("shards", "metadata",
        [Here EXCEPT !.temporary.parts = @ \union {Controller}])

DriverSaves ==
  /\ Ranks \subseteq Here.temporary.parts
  /\ Write("shards", "metadata",
           [Here EXCEPT !.temporary.parts = @ \union {Controller}])

(* Any rank's exception: the temporary directory goes, and the process.     *)
SaveFails ==
  /\ pc \in {"shards", "metadata", "integrity", "rename"}
  /\ pc' = "down"
  /\ disk' = [disk EXCEPT ![run].temporary = NoFiles]
  /\ UNCHANGED <<run, step>>

WriteMetadata ==
  Write("metadata", "integrity",
        [Here EXCEPT !.temporary.parts = @ \union {Metadata}])

WriteIntegrity ==
  Write("integrity", "rename",
        [Here EXCEPT !.temporary =
           [parts |-> @.parts \union {Integrity}, listed |-> @.parts]])

(* os.replace; what raises after it leaves the final directory behind.      *)
Rename ==
  Write("rename", "newest",
        [Here EXCEPT !.checkpoint[step] = Here.temporary,
                     !.temporary = NoFiles])

WriteNewest ==
  /\ Write("newest", "retire", [Here EXCEPT !.newest = <<run, step>>])
  /\ Validates(Here.checkpoint[step])
-----------------------------------------------------------------------------
(* _enforce_checkpoint_limit                                                *)

Kept == {s \in Steps : Metadata \in Here.checkpoint[s].parts}

(* Defect: the list is sorted the other way, and the oldest ones are kept.   *)
KeepsOldest(s) == Cardinality({t \in Kept : t < s}) >= Here.limit

Retired(s) == Cardinality({t \in Kept : t > s}) >= Here.limit

(* rmtree removes file after file; only its list of victims is fixed, and a *)
(* victim that has lost its metadata stays a victim.                        *)
Victim(s) == Here.checkpoint[s].parts # {} /\ (Retired(s) \/ s \notin Kept)

RemovePart ==
  /\ \E s \in Steps : \E p \in Here.checkpoint[s].parts :
       /\ Victim(s)
       /\ Write("retire", "retire",
                [Here EXCEPT !.checkpoint[s].parts = @ \ {p}])

RetentionDone ==
  /\ \A s \in Steps : ~ Victim(s)
  /\ Write("retire", "verify", Here)
-----------------------------------------------------------------------------
(* The rest of commit_successful_update                                     *)

(* Defect: without a live reload nothing is verified.                        *)
SkipVerification ==
  /\ Write("verify", "link", Here)
  /\ Validates(Here.checkpoint[step])

(* verify_checkpoint_readonly.py and the reload check; the former leaves    *)
(* its report behind.                                                       *)
Verify ==
  /\ Write("verify", "link", [Here EXCEPT !.report = @ \union {step}])
  /\ Validates(Here.checkpoint[step])

PointLink ==
  Write("link", "resumeJson", [Here EXCEPT !.link = <<run, step>>])

PointResumeJson ==
  Write("resumeJson", "resumeText", [Here EXCEPT !.resumeJson = <<run, step>>])

(* Defect: the task is queued before its model exists.                       *)
EnqueueBeforeExport ==
  Write("resumeText", "export", [Here EXCEPT !.resumeText = <<run, step>>,
                                             !.queue = @ \union {<<run, step>>}])

PointResumeText ==
  Write("resumeText", "export", [Here EXCEPT !.resumeText = <<run, step>>])

(* export_hf_model_checkpoint: rank zero writes the weights of the update    *)
(* just committed, or just restored, to a temporary directory.              *)
ExportWeights ==
  /\ Write("export", "complete", [Here EXCEPT !.exported = {step}])
  /\ step \notin Here.model

(* The driver adds tokenizer, metadata and COMPLETED, and renames.          *)
ExportModel ==
  Write("complete", "modelJson", [Here EXCEPT !.model = @ \union Here.exported,
                                              !.exported = {}])

(* Defect: evaluation.asynchronous is taken to be off.                       *)
PublishUnevaluated ==
  Write("modelJson", IF step = Here.source[2] THEN "idle" ELSE "publish",
        [Here EXCEPT !.modelJson = <<run, step>>])

(* The models/latest link, then the JSON file.                              *)
PointModelJson ==
  Write("modelJson", "enqueue", [Here EXCEPT !.modelJson = <<run, step>>])

EnqueueTask ==
  Write("enqueue", IF step = Here.source[2] THEN "idle" ELSE "publish",
        [Here EXCEPT !.queue = @ \union {<<run, step>>}])

(* Defect: the event names the update the attempt started from.              *)
PublishPrevious ==
  Write("publish", "latest", [Here EXCEPT !.events = Append(@, step - 1)])

PublishEvent ==
  Write("publish", "latest", [Here EXCEPT !.events = Append(@, step)])

WriteLatest ==
  Write("latest", "progress", [Here EXCEPT !.latest = step])

WriteProgress ==
  Write("progress", "idle", [Here EXCEPT !.progress = step])
-----------------------------------------------------------------------------
Init ==
  /\ pc = "down"
  /\ run = 0
  /\ step = 0
  /\ disk = [d \in 0 .. MaxRuns |-> EmptyRun(None, Target)]

Launch == StartFresh \/ \E d \in Runs, s \in Steps : Resume(d, s)

Save == Setup \/ DriverSaves \/ WriteMetadata \/ WriteIntegrity \/ Rename
        \/ WriteNewest \/ RemovePart \/ RetentionDone
        \/ \E r \in Ranks : RankSaves(r)

Derive == Verify \/ PointLink \/ PointResumeJson \/ PointResumeText
          \/ ExportWeights \/ ExportModel
          \/ PointModelJson \/ EnqueueTask \/ PublishEvent \/ WriteLatest
          \/ WriteProgress
          \/ \E external \in BOOLEAN : Materialize(external)

Next == Launch \/ TrainUpdate \/ Save \/ Derive \/ SaveFails \/ ProcessEnds

Spec == Init /\ [][Next]_vars
-----------------------------------------------------------------------------
Pcs == {"down", "idle", "materialize", "setup", "shards", "metadata",
        "integrity", "rename", "newest", "retire", "verify", "link",
        "resumeJson", "resumeText", "export", "complete", "modelJson", "enqueue",
        "publish", "latest", "progress"}

Pointer == {None} \union (Runs \X Steps)
Files == [parts : SUBSET Parts, listed : SUBSET Parts]

RunDir ==
  [source : Pointer, limit : Nat \ {0}, temporary : Files, checkpoint : [Steps -> Files],
   newest : Pointer, report : SUBSET Steps, link : Pointer,
   resumeJson : Pointer, resumeText : Pointer, exported : SUBSET Steps,
   model : SUBSET Steps,
   modelJson : Pointer, queue : SUBSET (Runs \X Steps), events : Seq(Steps),
   latest : 0 .. Target, progress : 0 .. Target]

(* Every variable keeps its type.                                           *)
TypeOK ==
  /\ pc \in Pcs
  /\ run \in 0 .. MaxRuns
  /\ step \in 0 .. Target
  /\ disk \in [0 .. MaxRuns -> RunDir]

(* Whatever was killed or removed half way: a directory that a resume would *)
(* accept holds every shard, the controller state and the metadata.         *)
ResumableMeansWhole ==
  \A d \in Runs, s \in Steps :
    Resumable(d, s) => disk[d].checkpoint[s].parts = Parts

(* A retention of one removes a checkpoint while pointers still name it, but *)
(* not before latest_checkpoint.json names its successor, which is whole.   *)
Replaced(p) == /\ disk[p[1]].limit = 1
               /\ disk[p[1]].newest = <<p[1], p[2] + 1>>
               /\ Resumable(p[1], p[2] + 1)

(* latest_checkpoint.json, which the committer writes, never dangles.  The  *)
(* pointers that operators and tools follow never lead to a checkpoint whose*)
(* verification is not on record, in the run itself or in the one it was    *)
(* resumed from, and retention does not remove a target; where it keeps a   *)
(* single checkpoint, it does so only in favour of the next one.            *)
PointersResolve ==
  \A d \in Runs :
    /\ disk[d].newest # None => Resumable(disk[d].newest[1], disk[d].newest[2])
    /\ \A p \in {disk[d].link, disk[d].resumeJson, disk[d].resumeText} \ {None} :
         /\ Resumable(p[1], p[2]) \/ Replaced(p)
         /\ p[1] = d => p[2] \in disk[d].report

(* A published update survives: the newest one in the event file, or the    *)
(* one the run was resumed from, can be resumed from at any later time; with*)
(* a retention of one, it or the newer checkpoint that replaced it can.     *)
LastPublished(d) ==
  LET events == disk[d].events
  IN  IF events = <<>> THEN disk[d].source ELSE <<d, events[Len(events)]>>

PublishedIsResumable ==
  \A d \in Runs :
    LET p == LastPublished(d)
    IN  p # None => Resumable(p[1], p[2]) \/ Replaced(p)

(* An update is published after everything derived from it: verification,   *)
(* exported model and evaluation task; no progress file ever runs ahead,    *)
(* and a task the worker may claim at any moment has its model in place.    *)
PublishedLast ==
  \A d \in Runs :
    /\ \A i \in 1 .. Len(disk[d].events) :
         LET s == disk[d].events[i]
         IN  /\ s \in disk[d].report
             /\ s \in disk[d].model
             /\ <<d, s>> \in disk[d].queue
    /\ {disk[d].latest, disk[d].progress} \subseteq {disk[d].source[2]} \union
         {disk[d].events[i] : i \in 1 .. Len(disk[d].events)}
    /\ \A q \in disk[d].queue : q[2] \in disk[q[1]].model

(* A lineage has with each of its runs the one that run was resumed from;   *)
(* the smallest lineage of a run is its ancestry.                           *)
Lineages(d) ==
  {A \in SUBSET Runs : d \in A /\ \A e \in A : disk[e].source[1] \in A \union {0}}

Enqueued(d, s) == \A A \in Lineages(d) : \E e \in A : \E q \in disk[e].queue : q[2] = s

(* However often a run died between its checkpoint and its evaluation task: *)
(* when training goes on, every update in the history of the model has been *)
(* enqueued by this run or by one it descends from.                         *)
NoEvaluationLost == pc = "idle" => \A s \in 1 .. step : Enqueued(run, s)
=============================================================================
