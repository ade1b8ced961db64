---------------------------- MODULE RunDirProofs ----------------------------
(***************************************************************************)
(* Proofs about RunDir, for any manifests, requests, library and outputs   *)
(* that meet its three assumptions, and any bounds.                        *)
(*                                                                         *)
(* The inductive invariant has two halves that no action relates: DirInv,  *)
(* about the run, which a change of the library leaves alone (a verdict is *)
(* only read), and LibraryInv, about the library and the client's copy.    *)
(*                                                                         *)
(* DirInv holds the properties together by three facts: a request that has *)
(* a directory was admissible under a manifest that loads (Progress), the  *)
(* loop over the inputs leaves those it has passed where the run looks for *)
(* them (Files), and the artifacts of a record are either those under      *)
(* output/ or without a path (Artifacts).                                  *)
(***************************************************************************)
EXTENDS RunDir, UploadProofs

(* The request has a directory and has not ended.                          *)
Working == {"building", "sweeping", "added", "queued", "running"}

(* What Boot and Refuse have let through.                                  *)
Sound == Loads(manifest, Specs) /\ Admissible(q, manifest)

OwnRecord(r) == r # None => Sound /\ r.timeout = TimeoutOf(q, Wf)

Progress ==
  /\ daemon = "up" => Loads(manifest, Specs)
  /\ daemon # "up" => pc \in {"new", "cut"}
  /\ pc = "new" => ~made /\ at = 1 /\ output = {}
  /\ pc \in Working => made /\ Sound
  /\ pc \in {"new", "building", "sweeping"} => rec = None /\ meta = None
  /\ pc \in {"added", "queued", "running"} => rec # None /\ meta # None
  /\ OwnRecord(rec) /\ OwnRecord(meta)

(* Input i is where the run finds it. *)
Handled(i) ==
  LET in == Wf.inputs[i] IN
  /\ in.required => in.name \in DOMAIN q.uploads
  /\ in.name \in DOMAIN q.uploads =>
       /\ in.filename \in DOMAIN inputs
       /\ OwnFile(i) => inputs[in.filename] = in.name
       /\ in.env \in DOMAIN childEnv /\ childEnv[in.env] = in.filename

Files ==
  /\ pc = "building" \/ meta # None =>
       at \in Nat \ {0} /\ \A i \in CSVs : i < at => Handled(i)
  /\ meta # None => at > Len(Wf.inputs)

Artifacts ==
  /\ rec # None =>
       IF pc = "cut" THEN \A a \in rec.artifacts : a.rel = NoPath
       ELSE rec.artifacts = IF pc = "over" /\ rec.state = "ended" THEN Collected ELSE {}
  /\ meta # None => \A a \in meta.artifacts : a.rel = NoPath

(* The client's copy is what was on offer at a moment since which every    *)
(* file that has come is newer than all before it, or is among the late.   *)
Kept ==
  /\ IsFiniteSet(library) /\ IsFiniteSet(listing)
  /\ tag # <<>> =>
       /\ tag = ETag(listing)
       /\ {e \in List(library) : e.time <= tag[2]} \ late \subseteq listing

LibraryTyped ==
  /\ \A e \in library \ Library : e.name \in Attachments /\ ~e.dir /\ e.time \in 0..latest
  /\ \A e \in listing : e.name \notin Skipped /\ ~e.dir /\ e.time \in 0..latest
  /\ latest \in 0..MaxTime /\ late \subseteq library

DirTyped ==
  /\ daemon \in {"down", "up", "refused"} /\ boots \in 0..MaxBoots
  /\ manifest \in Manifests /\ q \in Requests
  /\ pc \in {"new", "building", "sweeping", "added", "queued", "running", "over", "unswept",
             "cut"}
  /\ reply \in {"none", "refused", "unknown schema", "failed", "full", "accepted"}
  /\ made \in BOOLEAN /\ (inputs # <<>> => made) /\ output \in Outputs \union {{}}
  /\ rec \in RunRecords /\ meta \in RunRecords

DirInv ==
  /\ DirTyped /\ Progress /\ Files /\ Artifacts /\ LeavesNothing
  /\ reply # "unknown schema"

LibraryInv == LibraryTyped /\ Kept

-----------------------------------------------------------------------------
(* The manifest and the timeouts.                                          *)

LEMMA SoundWorkflow ==
  ASSUME manifest \in Manifests, Sound
  PROVE  /\ WorkflowIsSound(manifest, Specs, Wf)
         /\ Wf.default \in Int /\ Wf.max \in Int /\ Len(Wf.inputs) \in Nat
<1> DEFINE Is(i) == i \in Indices(manifest.workflows) /\ manifest.workflows[i].id = q.workflow
           n == CHOOSE i \in Indices(manifest.workflows) : manifest.workflows[i].id = q.workflow
<1>1. \E i \in Indices(manifest.workflows) : manifest.workflows[i].id = q.workflow
  BY DEF Sound, Admissible, Knows
<1>2. n \in Indices(manifest.workflows)
  BY <1>1
<1>3. Wf = manifest.workflows[n]
  BY DEF Wf, Workflow
<1> HIDE DEF n
<1>4. WorkflowIsSound(manifest, Specs, manifest.workflows[n])
  BY <1>2 DEF Sound, Loads
<1> QED BY <1>2, <1>3, <1>4, RunDirAssumption DEF RunDirAssumption

LEMMA BoundedTimeout ==
  ASSUME manifest \in Manifests, q \in Requests, Sound
  PROVE  TimeoutOf(q, Wf) \in 1..Wf.max
<1>1. q.timeout \in Int
  BY RunDirAssumption DEF RunDirAssumption
<1>2. Wf.default \in Int /\ Wf.max \in Int /\ Wf.default > 0 /\ Wf.max >= Wf.default
  BY SoundWorkflow DEF WorkflowIsSound, TimeoutsAreSound
<1> QED BY <1>1, <1>2 DEF TimeoutOf

LEMMA LargerOfTwo ==
  ASSUME NEW a \in Int, NEW b \in Int
  PROVE  Max({a, b}) \in {a, b} /\ Max({a, b}) >= a /\ Max({a, b}) >= b
<1>1. \E x \in {a, b} : \A y \in {a, b} : x >= y
  OBVIOUS
<1>2. Max({a, b}) \in {a, b} /\ \A y \in {a, b} : Max({a, b}) >= y
  BY <1>1 DEF Max
<1> QED BY <1>2

LEMMA PlaywrightIsFirst ==
  ASSUME NEW t \in Int
  PROVE  t > 30 => PlaywrightTimeout(t) < t
<1>1. PlaywrightTimeout(t) \in {t - 120, 30} /\ PlaywrightTimeout(t) >= 30
  BY LargerOfTwo DEF PlaywrightTimeout
<1> QED BY <1>1

-----------------------------------------------------------------------------
(* meta.json keeps everything of a record but the paths of its artifacts,  *)
(* and recovery changes its state only.                                    *)

LEMMA PersistedRecord ==
  ASSUME NEW r \in RunRecords
  PROVE  /\ Persisted(r) \in RunRecords
         /\ Persisted(r) = None <=> r = None
         /\ r # None => /\ Persisted(r).timeout = r.timeout
                        /\ Persisted(r).state = r.state
                        /\ \A a \in Persisted(r).artifacts : a.rel = NoPath
<1>1. CASE r = None
  BY <1>1 DEF Persisted, RunRecords
<1>2. CASE r # None
  <2> DEFINE gone == {[a EXCEPT !.rel = NoPath] : a \in r.artifacts}
  <2>1. /\ r \in [state : {"queued", "running", "ended", "errored"}, timeout : Int,
                  artifacts : SUBSET [id : Paths, rel : Paths]]
        /\ Persisted(r) = [r EXCEPT !.artifacts = gone]
    BY <1>2 DEF Persisted, RunRecords
  <2>a. NoPath \in Paths
    BY DEF Paths
  <2>2. \A a \in r.artifacts : /\ [a EXCEPT !.rel = NoPath] \in [id : Paths, rel : Paths]
                               /\ [a EXCEPT !.rel = NoPath].rel = NoPath
    BY <2>1, <2>a
  <2>3. gone \in SUBSET [id : Paths, rel : Paths] /\ \A a \in gone : a.rel = NoPath
    BY <2>2
  <2> HIDE DEF gone
  <2>4. /\ Persisted(r) \in [state : {"queued", "running", "ended", "errored"}, timeout : Int,
                             artifacts : SUBSET [id : Paths, rel : Paths]]
        /\ Persisted(r).timeout = r.timeout /\ Persisted(r).state = r.state
        /\ Persisted(r).artifacts = gone
    BY <2>1, <2>3
  <2>5. Persisted(r) # None
    BY <2>4 DEF None
  <2> QED BY <1>2, <2>3, <2>4, <2>5 DEF RunRecords
<1> QED BY <1>1, <1>2

LEMMA RecoveredRecord ==
  ASSUME NEW r \in RunRecords
  PROVE  /\ Recovered(r) \in RunRecords
         /\ Recovered(r) = None <=> r = None
         /\ r # None => /\ Recovered(r).timeout = r.timeout
                        /\ Recovered(r).artifacts = r.artifacts
<1>1. CASE Recovered(r) = r
  BY <1>1
<1>2. CASE Recovered(r) # r
  <2>1. /\ r \in [state : {"queued", "running", "ended", "errored"}, timeout : Int,
                  artifacts : SUBSET [id : Paths, rel : Paths]]
        /\ r # None
        /\ Recovered(r) = [r EXCEPT !.state = "errored"]
    BY <1>2 DEF Recovered, RunRecords
  <2>2. /\ Recovered(r) \in [state : {"queued", "running", "ended", "errored"}, timeout : Int,
                             artifacts : SUBSET [id : Paths, rel : Paths]]
        /\ Recovered(r).state = "errored"
        /\ Recovered(r).timeout = r.timeout /\ Recovered(r).artifacts = r.artifacts
    BY <2>1
  <2>3. Recovered(r) # None
    BY <2>2 DEF None
  <2> QED BY <2>1, <2>2, <2>3 DEF RunRecords
<1> QED BY <1>1, <1>2

-----------------------------------------------------------------------------
(* The manifest and the request stay what they are.                        *)

LEMMA Frame ==
  ASSUME manifest' = manifest, q' = q
  PROVE  /\ Sound' <=> Sound
         /\ Wf' = Wf
         /\ CSVs' = CSVs
         /\ Loads(manifest, Specs)' <=> Loads(manifest, Specs)
<1>1. Wf' = Wf
  BY DEF Wf
<1> QED BY <1>1 DEF Sound, CSVs

LEMMA HandledStays ==
  ASSUME manifest' = manifest, q' = q, inputs' = inputs, childEnv' = childEnv, NEW i
  PROVE  Handled(i)' <=> Handled(i)
BY Frame DEF Handled, OwnFile

LEMMA FilesStay ==
  ASSUME Files, UNCHANGED <<manifest, q, inputs, childEnv, at>>,
         pc' = "building" \/ meta' # None => pc = "building" \/ meta # None,
         meta' # None => meta # None
  PROVE  Files'
<1>1. \A i : Handled(i)' <=> Handled(i)
  BY HandledStays
<1> QED BY <1>1, Frame DEF Files

LEMMA Bounds == MaxTime \in Nat /\ MaxBoots \in Nat
BY RunDirAssumption DEF RunDirAssumption

LEMMA BootKeeps == ASSUME DirInv, Boot PROVE DirInv'
<1>0. DirTyped /\ Progress /\ Files /\ Artifacts /\ LeavesNothing /\ reply # "unknown schema"
  BY DEF DirInv
<1>1. manifest' = manifest /\ q' = q /\ pc' = pc /\ pc \in {"new", "cut"}
  BY <1>0 DEF Boot, requestVars, Progress
<1>2. rec \in RunRecords /\ meta \in RunRecords
  BY <1>0 DEF DirTyped
<1>3. boots' \in 0..MaxBoots
  <2>1. boots < MaxBoots /\ boots' = boots + 1
    BY DEF Boot
  <2>2. boots \in 0..MaxBoots
    BY <1>0 DEF DirTyped
  <2> QED BY <2>1, <2>2, Bounds
<1>4. CASE ~Loads(manifest, Specs)
  <2>1. rec' = rec /\ meta' = meta /\ daemon' = "refused" /\ made' = made /\ at' = at
        /\ output' = output /\ inputs' = inputs /\ childEnv' = childEnv /\ reply' = reply
    BY <1>4 DEF Boot, requestVars
  <2>2. DirTyped'
    BY <1>0, <1>1, <1>3, <2>1 DEF DirTyped
  <2>3. Progress'
    BY <1>0, <1>1, <2>1, Frame DEF Progress, OwnRecord, Working
  <2>4. Files'
    BY <1>0, <1>1, <2>1, FilesStay
  <2>5. Artifacts' /\ LeavesNothing'
    BY <1>0, <1>1, <2>1 DEF Artifacts, LeavesNothing
  <2> QED BY <1>0, <2>1, <2>2, <2>3, <2>4, <2>5 DEF DirInv
<1>5. CASE Loads(manifest, Specs)
  <2>1. /\ daemon' = "up" /\ made' = made /\ at' = at /\ output' = output
        /\ inputs' = inputs /\ childEnv' = childEnv /\ reply' = reply
        /\ rec' = Recovered(meta)
        /\ meta' = Persisted(Recovered(meta)) \/ meta' = meta
    BY <1>5 DEF Boot, requestVars, Update
  <2>2. /\ rec' \in RunRecords
        /\ rec' = None <=> meta = None
        /\ meta # None => rec'.timeout = meta.timeout /\ rec'.artifacts = meta.artifacts
    BY <1>2, <2>1, RecoveredRecord
  <2>3. /\ meta' \in RunRecords
        /\ meta' = None <=> meta = None
        /\ meta # None => meta'.timeout = meta.timeout
        /\ meta' # None => (meta' = meta \/ \A a \in meta'.artifacts : a.rel = NoPath)
    BY <1>2, <2>1, <2>2, PersistedRecord
  <2>4. DirTyped'
    BY <1>0, <1>1, <1>3, <2>1, <2>2, <2>3 DEF DirTyped
  <2>5. Progress'
    BY <1>0, <1>1, <1>5, <2>1, <2>2, <2>3, Frame DEF Progress, OwnRecord, Working
  <2>6. Files'
    BY <1>0, <1>1, <2>1, <2>3, FilesStay
  <2>7. Artifacts'
    BY <1>0, <1>1, <2>1, <2>2, <2>3 DEF Artifacts, Progress
  <2>8. LeavesNothing'
    BY <1>0, <1>1, <2>1 DEF LeavesNothing
  <2> QED BY <1>0, <2>1, <2>4, <2>5, <2>6, <2>7, <2>8 DEF DirInv
<1> QED BY <1>4, <1>5 DEF DirInv

LEMMA CrashKeeps == ASSUME DirInv, Crash PROVE DirInv'
<1>0. DirTyped /\ Progress /\ Files /\ Artifacts /\ LeavesNothing /\ reply # "unknown schema"
  BY DEF DirInv
<1>1. /\ manifest' = manifest /\ q' = q /\ rec' = None /\ meta' = meta /\ daemon' = "down"
      /\ made' = made /\ at' = at /\ output' = output /\ inputs' = inputs
      /\ childEnv' = childEnv /\ reply' = reply /\ boots' = boots
      /\ pc' = IF pc = "new" THEN "new" ELSE "cut"
  BY DEF Crash, dirVars
<1>2. DirTyped'
  BY <1>0, <1>1 DEF DirTyped, RunRecords
<1>3. Progress'
  BY <1>0, <1>1, Frame DEF Progress, OwnRecord, Working
<1>4. Files'
  BY <1>0, <1>1, FilesStay
<1>5. Artifacts' /\ LeavesNothing'
  BY <1>0, <1>1 DEF Artifacts, LeavesNothing
<1> QED BY <1>1, <1>2, <1>3, <1>4, <1>5 DEF DirInv

-----------------------------------------------------------------------------
(* Each step of createRun keeps DirInv.                                    *)

LEMMA RefuseKeeps == ASSUME DirInv, Refuse PROVE DirInv'
<1>0. DirTyped /\ Progress /\ Files /\ Artifacts /\ LeavesNothing /\ reply # "unknown schema"
  BY DEF DirInv
<1>1. /\ UNCHANGED <<daemon, boots, manifest, q, made, at, output, inputs, childEnv, rec, meta>>
      /\ pc = "new" /\ daemon = "up" /\ pc' = "over" /\ reply' = "refused"
  BY DEF Refuse, daemonVars, dirVars
<1>2. DirTyped'
  BY <1>0, <1>1 DEF DirTyped
<1>3. Progress' /\ LeavesNothing'
  BY <1>0, <1>1, Frame DEF Progress, OwnRecord, Working, LeavesNothing
<1>4. Files'
  BY <1>0, <1>1, FilesStay
<1>5. Artifacts'
  BY <1>0, <1>1 DEF Artifacts, Progress
<1> QED BY <1>1, <1>2, <1>3, <1>4, <1>5 DEF DirInv

LEMMA MakeDirKeeps == ASSUME DirInv, MakeDir PROVE DirInv'
<1>0. DirTyped /\ Progress /\ Files /\ Artifacts /\ LeavesNothing /\ reply # "unknown schema"
  BY DEF DirInv
<1>1. /\ UNCHANGED <<daemon, boots, manifest, q, at, output, inputs, rec, meta>>
      /\ pc = "new" /\ daemon = "up" /\ made' = TRUE /\ Admissible(q, manifest)
      /\ \/ pc' = "building" /\ reply' = reply
         \/ pc' = "over" /\ reply' = "failed"
  BY DEF MakeDir, daemonVars
<1>2. DirTyped'
  BY <1>0, <1>1 DEF DirTyped
<1>3. rec = None /\ meta = None /\ at = 1 /\ Sound
  BY <1>0, <1>1 DEF Progress, Sound
<1>4. Progress'
  BY <1>0, <1>1, <1>3, Frame DEF Progress, OwnRecord, Working
<1>5. Files'
  <2>1. at' = 1 /\ meta' = None
    BY <1>1, <1>3
  <2>2. \A i \in CSVs : i \in Int /\ i >= 1
    <3>1. Len(Wf.inputs) \in Nat
      BY <1>0, <1>3, SoundWorkflow DEF DirTyped
    <3>2. CSVs \subseteq 1..Len(Wf.inputs)
      BY DEF CSVs, Indices
    <3> QED BY <3>1, <3>2
  <2>3. CSVs' = CSVs
    BY <1>1, Frame
  <2>4. \A i \in CSVs : ~(i < at')
    BY <2>1, <2>2
  <2>5. at' \in Nat \ {0} /\ \A i \in CSVs' : i < at' => Handled(i)'
    BY <2>1, <2>3, <2>4
  <2> QED BY <2>1, <2>5 DEF Files
<1>6. Artifacts' /\ LeavesNothing'
  BY <1>0, <1>1, <1>3 DEF Artifacts, LeavesNothing
<1> QED BY <1>1, <1>2, <1>4, <1>5, <1>6 DEF DirInv

(* What a step of the loop over the inputs has to show. *)
LEMMA LoopKeeps ==
  ASSUME DirInv, pc = "building", UNCHANGED <<daemonVars, q, made, output, meta, rec>>,
         pc' \in {"building", "sweeping"},
         reply' \in {"refused", "failed"} \/ reply' = reply,
         pc' = "building" => Files'
  PROVE  DirInv'
<1>0. DirTyped /\ Progress /\ Files /\ Artifacts /\ LeavesNothing /\ reply # "unknown schema"
  BY DEF DirInv
<1>1. UNCHANGED <<daemon, boots, manifest, q, made, output, meta, rec>>
  BY DEF daemonVars
<1>2. rec = None /\ meta = None /\ made = TRUE /\ Sound
  BY <1>0 DEF Progress, Working, DirTyped
<1>3. DirTyped'
  <2>1. /\ pc' \in {"new", "building", "sweeping", "added", "queued", "running", "over",
                  "unswept", "cut"}
        /\ reply' \in {"none", "refused", "unknown schema", "failed", "full", "accepted"}
    BY <1>0 DEF DirTyped
  <2> QED BY <1>0, <1>1, <1>2, <2>1 DEF DirTyped
<1>4. Progress'
  <2>1. daemon' = "up" /\ Loads(manifest, Specs) /\ pc' \notin {"new", "added", "queued", "running", "cut"}
    BY <1>0, <1>1 DEF Progress
  <2> QED BY <1>0, <1>1, <1>2, <2>1, Frame DEF Progress, OwnRecord, Working
<1>5. Files'
  BY <1>0, <1>1, <1>2 DEF Files
<1>6. Artifacts' /\ LeavesNothing'
  BY <1>0, <1>1, <1>2 DEF Artifacts, LeavesNothing
<1> QED BY <1>3, <1>4, <1>5, <1>6 DEF DirInv

(* The loop is at an input that WorkflowIsSound has passed. *)
LEMMA AtInput ==
  ASSUME DirInv, pc = "building", at <= Len(Wf.inputs)
  PROVE  /\ rec = None /\ meta = None /\ made = TRUE
         /\ at \in Nat \ {0} /\ at \in Indices(Wf.inputs)
         /\ InputIsSound(manifest, In)
         /\ InputsDiffer(Wf.inputs)
         /\ CSVs \subseteq Indices(Wf.inputs)
         /\ Indices(Wf.inputs) \subseteq Int
<1>1. Sound /\ rec = None /\ meta = None /\ made = TRUE /\ manifest \in Manifests
  BY DEF DirInv, DirTyped, Progress, Working
<1>2. at \in Nat \ {0}
  BY DEF DirInv, Files
<1>3. WorkflowIsSound(manifest, Specs, Wf) /\ Len(Wf.inputs) \in Nat
  BY <1>1, SoundWorkflow
<1>4. at \in Indices(Wf.inputs) /\ Indices(Wf.inputs) \subseteq Int
  BY <1>2, <1>3 DEF Indices
<1>5. InputIsSound(manifest, In) /\ InputsDiffer(Wf.inputs)
  BY <1>3, <1>4 DEF WorkflowIsSound, In
<1> QED BY <1>1, <1>2, <1>4, <1>5 DEF CSVs

(* The loop moves on when the input it was at is handled, and those before *)
(* it stay so.                                                             *)
LEMMA Advance ==
  ASSUME DirInv, pc = "building", at <= Len(Wf.inputs),
         UNCHANGED <<manifest, q, meta>>, at' = at + 1,
         \A i \in CSVs : (i < at /\ Handled(i)) \/ i = at => Handled(i)'
  PROVE  Files'
<1>1. \A i \in CSVs : i < at => Handled(i)
  BY DEF DirInv, Files
<1>2. at \in Nat \ {0} /\ meta = None /\ CSVs \subseteq Int
  BY AtInput
<1>3. \A i \in CSVs : i < at' => i < at \/ i = at
  BY <1>2
<1>4. CSVs' = CSVs
  BY Frame
<1>5. at' \in Nat \ {0}
  BY <1>2
<1>6. ASSUME NEW i \in CSVs, i < at'
      PROVE  Handled(i)'
  <2>1. (i < at /\ Handled(i)) \/ i = at
    BY <1>1, <1>3, <1>6
  <2> QED BY <2>1
<1>7. meta' = None
  BY <1>2
<1> QED BY <1>4, <1>5, <1>6, <1>7 DEF Files

LEMMA SkipCSVKeeps == ASSUME DirInv, SkipCSV PROVE DirInv'
<1>1. /\ UNCHANGED <<daemonVars, q, made, output, meta, rec, inputs, childEnv>>
      /\ pc = "building" /\ pc' = pc /\ reply' = reply
      /\ at <= Len(Wf.inputs) /\ at' = at + 1
      /\ ~In.required /\ In.name \notin DOMAIN q.uploads
  BY DEF SkipCSV, Handling, Given, dirVars
<1>2. manifest' = manifest
  BY <1>1 DEF daemonVars
<1>3. \A i : Handled(i)' <=> Handled(i)
  BY <1>1, <1>2, HandledStays
<1>4. ASSUME NEW i \in CSVs, i = at
      PROVE  Handled(i)
  BY <1>1, <1>4 DEF Handled, In
<1>5. \A i \in CSVs : (i < at /\ Handled(i)) \/ i = at => Handled(i)'
  BY <1>3, <1>4
<1>6. UNCHANGED <<manifest, q, meta>>
  BY <1>1, <1>2
<1>7. Files'
  BY <1>1, <1>5, <1>6, Advance
<1> QED BY <1>1, <1>7, LoopKeeps

LEMMA RejectCSVKeeps == ASSUME DirInv, RejectCSV PROVE DirInv'
<1>1. /\ UNCHANGED <<daemonVars, q, made, output, meta, rec>>
      /\ pc = "building" /\ pc' = "sweeping"
      /\ at <= Len(Wf.inputs) /\ In.kind = "csv"
  BY DEF RejectCSV, Handling, Reject, In
<1>2. In.schema \in DOMAIN manifest.schemas
  BY <1>1, AtInput DEF InputIsSound
<1>3. Verdict(manifest, In, q.uploads[In.name], library) \in {"refused", "ok"}
  BY <1>2 DEF Verdict
<1>4. reply' = "refused"
  BY <1>3 DEF RejectCSV, Reject
<1> QED BY <1>1, <1>4, LoopKeeps

LEMMA RejectIntKeeps == ASSUME DirInv, RejectInt PROVE DirInv'
<1>1. /\ UNCHANGED <<daemonVars, q, made, output, meta, rec>>
      /\ pc = "building" /\ pc' = "sweeping" /\ reply' = "refused"
  BY DEF RejectInt, Handling, Reject
<1> QED BY <1>1, LoopKeeps

(* The variable of one input is not that of another. *)
LEMMA OtherInput ==
  ASSUME DirInv, pc = "building", at <= Len(Wf.inputs),
         NEW i \in CSVs, i < at
  PROVE  /\ Wf.inputs[i].env # In.env
         /\ OwnFile(i) /\ at \in CSVs => Wf.inputs[i].filename # In.filename
<1>1. i \in Indices(Wf.inputs) /\ at \in Indices(Wf.inputs) /\ i \in Int /\ at \in Int
  BY AtInput
<1>2. i # at
  BY <1>1
<1> QED BY <1>1, <1>2, AtInput DEF InputsDiffer, In, OwnFile

LEMMA SetIntKeeps == ASSUME DirInv, SetInt PROVE DirInv'
<1>1. /\ UNCHANGED <<daemonVars, q, made, output, meta, rec, inputs>>
      /\ pc = "building" /\ pc' = pc /\ reply' = reply
      /\ at <= Len(Wf.inputs) /\ at' = at + 1 /\ In.kind = "int"
  BY DEF SetInt, Handling, dirVars, In
<1>0. \/ childEnv' = Put(childEnv, In.env, q.params[In.name])
      \/ childEnv' = Put(childEnv, In.env, In.default)
      \/ childEnv' = childEnv
  BY DEF SetInt
<1>2. UNCHANGED <<manifest, q, meta>>
  BY <1>1 DEF daemonVars
<1>3. at \notin CSVs
  BY <1>1 DEF CSVs, In
<1>4. ASSUME NEW i \in CSVs, i < at, Handled(i)
      PROVE  Handled(i)'
  <2>1. Wf.inputs[i].env # In.env
    BY <1>1, <1>4, OtherInput
  <2>2. Wf.inputs[i].env \in DOMAIN childEnv =>
          /\ Wf.inputs[i].env \in DOMAIN childEnv'
          /\ childEnv'[Wf.inputs[i].env] = childEnv[Wf.inputs[i].env]
    BY <1>0, <2>1 DEF Put
  <2>3. Wf' = Wf /\ CSVs' = CSVs
    BY <1>2, Frame
  <2> QED BY <1>1, <1>2, <1>4, <2>2, <2>3 DEF Handled, OwnFile
<1>5. \A i \in CSVs : (i < at /\ Handled(i)) \/ i = at => Handled(i)'
  BY <1>3, <1>4
<1>6. Files'
  BY <1>1, <1>2, <1>5, Advance
<1> QED BY <1>1, <1>6, LoopKeeps

LEMMA StoreCSVKeeps == ASSUME DirInv, StoreCSV PROVE DirInv'
<1>1. /\ UNCHANGED <<daemonVars, q, made, output, meta, rec>>
      /\ pc = "building" /\ at <= Len(Wf.inputs) /\ In.name \in DOMAIN q.uploads
  BY DEF StoreCSV, Handling, Given
<1>4. at \in CSVs
  BY <1>1, AtInput DEF CSVs, In, StoreCSV, Handling
<1>2. CASE Reject("failed")
  BY <1>1, <1>2, LoopKeeps DEF Reject
<1>3. CASE /\ inputs' = Put(inputs, In.filename, In.name)
           /\ childEnv' = Put(childEnv, In.env, In.filename)
           /\ at' = at + 1
           /\ UNCHANGED <<pc, reply>>
  <2>1. UNCHANGED <<manifest, q, meta>>
    BY <1>1 DEF daemonVars
  <2>2. Wf' = Wf /\ CSVs' = CSVs
    BY <2>1, Frame
  <2>3. ASSUME NEW i \in CSVs, i < at, Handled(i)
        PROVE  Handled(i)'
    <3> DEFINE file == Wf.inputs[i].filename
               env == Wf.inputs[i].env
    <3>1. env # In.env
      BY <1>1, <2>3, OtherInput
    <3>2. env \in DOMAIN childEnv => env \in DOMAIN childEnv' /\ childEnv'[env] = childEnv[env]
      BY <1>3, <3>1 DEF Put
    <3>3. file \in DOMAIN inputs => file \in DOMAIN inputs'
      BY <1>3 DEF Put
    <3>4. OwnFile(i) => file # In.filename
      BY <1>1, <1>4, <2>3, OtherInput
    <3>5. OwnFile(i) /\ file \in DOMAIN inputs => inputs'[file] = inputs[file]
      BY <1>3, <3>4 DEF Put
    <3> QED BY <2>1, <2>2, <2>3, <3>2, <3>3, <3>5 DEF Handled, OwnFile
  <2>4. ASSUME NEW i \in CSVs, i = at
        PROVE  Handled(i)'
    <3>1. /\ In.filename \in DOMAIN inputs' /\ inputs'[In.filename] = In.name
          /\ In.env \in DOMAIN childEnv' /\ childEnv'[In.env] = In.filename
      BY <1>3 DEF Put
    <3> QED BY <1>1, <2>1, <2>2, <2>4, <3>1 DEF Handled, In
  <2>5. \A i \in CSVs : (i < at /\ Handled(i)) \/ i = at => Handled(i)'
    BY <2>3, <2>4
  <2>6. Files'
    BY <1>1, <1>3, <2>1, <2>5, Advance
  <2> QED BY <1>1, <1>3, <2>6, LoopKeeps
<1> QED BY <1>2, <1>3 DEF StoreCSV

-----------------------------------------------------------------------------
(* So does what comes after the loop, and the run.                         *)

LEMMA SweepKeeps == ASSUME DirInv, Sweep PROVE DirInv'
<1>0. DirTyped /\ Progress /\ Files /\ Artifacts /\ reply # "unknown schema"
  BY DEF DirInv
<1>1. /\ UNCHANGED <<daemon, boots, manifest, q, output, rec, meta, reply>>
      /\ pc = "sweeping" /\ daemon = "up"
      /\ \/ pc' = "over" /\ made' = FALSE /\ inputs' = <<>>
         \/ pc' = "unswept" /\ made' = made
  BY DEF Sweep, daemonVars
<1>2. rec = None /\ meta = None /\ made = TRUE
  BY <1>0, <1>1 DEF Progress, Working, DirTyped
<1>3. DirTyped'
  <2>1. made' \in BOOLEAN /\ (inputs' # <<>> => made') /\ pc' \in {"over", "unswept"}
    BY <1>1, <1>2
  <2> QED BY <1>0, <1>1, <2>1 DEF DirTyped
<1>4. Progress'
  BY <1>0, <1>1, <1>2, Frame DEF Progress, OwnRecord, Working
<1>5. Files'
  BY <1>1, <1>2 DEF Files
<1>6. Artifacts' /\ LeavesNothing'
  BY <1>1, <1>2 DEF Artifacts, LeavesNothing
<1> QED BY <1>0, <1>1, <1>3, <1>4, <1>5, <1>6 DEF DirInv

LEMMA AddRecordKeeps == ASSUME DirInv, AddRecord PROVE DirInv'
<1>0. DirTyped /\ Progress /\ Files /\ reply # "unknown schema"
  BY DEF DirInv
<1>1. /\ UNCHANGED <<daemon, boots, manifest, q, output, inputs, childEnv, made, at>>
      /\ pc = "building" /\ daemon = "up" /\ at > Len(Wf.inputs)
      /\ rec' = [state |-> "queued", timeout |-> TimeoutOf(q, Wf), artifacts |-> {}]
      /\ \/ pc' = "added" /\ meta' = Persisted(rec') /\ reply' = reply
         \/ pc' = "over" /\ reply' = "failed" /\ meta' = meta
  BY DEF AddRecord, daemonVars
<1>2. /\ made = TRUE /\ meta = None /\ Sound /\ manifest \in Manifests /\ q \in Requests
      /\ \A i \in CSVs : i < at => Handled(i)
      /\ at \in Nat \ {0}
  BY <1>0, <1>1 DEF Progress, Working, DirTyped, Files
<1>3. /\ rec' # None /\ rec' \in RunRecords
      /\ rec'.timeout = TimeoutOf(q, Wf) /\ rec'.artifacts = {} /\ rec'.state = "queued"
  <2>1. TimeoutOf(q, Wf) \in Int
    <3>1. Wf.max \in Int
      BY <1>2, SoundWorkflow
    <3>2. TimeoutOf(q, Wf) \in 1..Wf.max
      BY <1>2, BoundedTimeout
    <3> QED BY <3>1, <3>2
  <2>2. rec' \in [state : {"queued", "running", "ended", "errored"}, timeout : Int,
                  artifacts : SUBSET [id : Paths, rel : Paths]]
    BY <1>1, <2>1
  <2>3. /\ rec'.timeout = TimeoutOf(q, Wf) /\ rec'.artifacts = {} /\ rec'.state = "queued"
    BY <1>1
  <2>4. rec' # None
    BY <2>3 DEF None
  <2> QED BY <2>2, <2>3, <2>4 DEF RunRecords
<1>4. /\ meta' \in RunRecords
      /\ meta' # None => /\ meta'.timeout = TimeoutOf(q, Wf)
                         /\ \A a \in meta'.artifacts : a.rel = NoPath
      /\ pc' = "added" => meta' # None
  <2>1. CASE pc' = "added"
    BY <1>1, <1>3, <2>1, PersistedRecord
  <2>2. CASE pc' # "added"
    BY <1>1, <1>2, <2>2 DEF RunRecords
  <2> QED BY <2>1, <2>2
<1>5. DirTyped'
  BY <1>0, <1>1, <1>3, <1>4 DEF DirTyped
<1>6. Progress'
  <2>1. daemon' = "up" /\ Loads(manifest, Specs) /\ pc' \in {"added", "over"} /\ made' = TRUE
    BY <1>0, <1>1, <1>2 DEF Progress
  <2> QED BY <1>1, <1>2, <1>3, <1>4, <2>1, Frame DEF Progress, OwnRecord, Working
<1>7. Files'
  <2>1. Wf' = Wf /\ CSVs' = CSVs
    BY <1>1, Frame
  <2>2. \A i : Handled(i)' <=> Handled(i)
    BY <1>1, HandledStays
  <2> QED BY <1>1, <1>2, <2>1, <2>2 DEF Files
<1>8. Artifacts' /\ LeavesNothing'
  BY <1>1, <1>3, <1>4 DEF Artifacts, LeavesNothing
<1> QED BY <1>0, <1>1, <1>5, <1>6, <1>7, <1>8 DEF DirInv

(* What a step that changes the record of a run has to show.               *)
LEMMA UpdateKeeps ==
  ASSUME DirInv, pc \in {"added", "queued", "running"},
         UNCHANGED <<daemonVars, q, at, childEnv, made, inputs, output>>,
         pc' \in {"queued", "running", "over"},
         reply' \in {"accepted", "full"} \/ reply' = reply,
         NEW r \in RunRecords, r # None, r.timeout = rec.timeout,
         r.artifacts = IF pc' = "over" /\ r.state = "ended" THEN Collected ELSE {},
         rec' = r, meta' = meta \/ meta' = Persisted(r)
  PROVE  DirInv'
<1>0. DirTyped /\ Progress /\ Files /\ Artifacts /\ reply # "unknown schema"
  BY DEF DirInv
<1>1. UNCHANGED <<daemon, boots, manifest, q, at, childEnv, made, inputs, output>>
  BY DEF daemonVars
<1>2. /\ made = TRUE /\ Sound /\ rec # None /\ meta # None
      /\ daemon = "up" /\ Loads(manifest, Specs)
      /\ rec.timeout = TimeoutOf(q, Wf) /\ meta.timeout = TimeoutOf(q, Wf)
  BY <1>0 DEF Progress, Working, DirTyped, OwnRecord
<1>3. /\ meta' \in RunRecords /\ meta' # None /\ meta'.timeout = TimeoutOf(q, Wf)
      /\ \A a \in meta'.artifacts : a.rel = NoPath
  <2>1. CASE meta' = meta
    BY <1>0, <1>2, <2>1 DEF DirTyped, Artifacts
  <2>2. CASE meta' = Persisted(r)
    BY <1>2, <2>2, PersistedRecord
  <2> QED BY <2>1, <2>2
<1>4. DirTyped'
  <2>1. /\ pc' \in {"new", "building", "sweeping", "added", "queued", "running", "over",
                  "unswept", "cut"}
        /\ reply' \in {"none", "refused", "unknown schema", "failed", "full", "accepted"}
    BY <1>0 DEF DirTyped
  <2>2. rec' \in RunRecords /\ (inputs' # <<>> => made')
    BY <1>1, <1>2
  <2> QED BY <1>0, <1>1, <1>3, <2>1, <2>2 DEF DirTyped
<1>5. Progress'
  BY <1>1, <1>2, <1>3, Frame DEF Progress, OwnRecord, Working
<1>6. Files'
  BY <1>0, <1>1, <1>2, FilesStay
<1>7. Collected' = Collected
  BY <1>1 DEF Collected
<1>8. Artifacts' /\ LeavesNothing'
  BY <1>3, <1>7 DEF Artifacts, LeavesNothing
<1> QED BY <1>0, <1>4, <1>5, <1>6, <1>8 DEF DirInv

(* While it waits or runs, a record has no artifacts.                      *)
LEMMA ActiveRecord ==
  ASSUME DirInv, pc \in {"added", "queued", "running"}
  PROVE  /\ rec # None /\ rec.artifacts = {}
         /\ rec \in [state : {"queued", "running", "ended", "errored"}, timeout : Int,
                     artifacts : SUBSET [id : Paths, rel : Paths]]
<1>1. rec # None /\ rec \in RunRecords
  BY DEF DirInv, Progress, DirTyped
<1>2. rec.artifacts = {}
  BY <1>1 DEF DirInv, Artifacts
<1> QED BY <1>1, <1>2 DEF RunRecords

LEMMA WithState ==
  ASSUME DirInv, pc \in {"added", "queued", "running"}, NEW s \in {"running", "errored"}
  PROVE  LET r == [rec EXCEPT !.state = s]
         IN r \in RunRecords /\ r # None /\ r.timeout = rec.timeout /\ r.artifacts = {}
            /\ r.state = s
<1> DEFINE r == [rec EXCEPT !.state = s]
<1>1. /\ r \in [state : {"queued", "running", "ended", "errored"}, timeout : Int,
                artifacts : SUBSET [id : Paths, rel : Paths]]
      /\ r.timeout = rec.timeout /\ r.artifacts = {} /\ r.state = s
  BY ActiveRecord
<1>2. r # None
  BY <1>1 DEF None
<1> QED BY <1>1, <1>2 DEF RunRecords

LEMMA EnqueueKeeps == ASSUME DirInv, Enqueue PROVE DirInv'
<1>1. /\ UNCHANGED <<daemonVars, q, at, childEnv, made, inputs, output>> /\ pc = "added"
  BY DEF Enqueue
<1>2. CASE pc' = "queued" /\ reply' = "accepted" /\ UNCHANGED <<rec, meta>>
  BY <1>1, <1>2, ActiveRecord, UpdateKeeps DEF RunRecords
<1>3. CASE pc' = "over" /\ reply' = "full" /\ Update([rec EXCEPT !.state = "errored"])
  BY <1>1, <1>3, WithState, UpdateKeeps DEF Update
<1> QED BY <1>2, <1>3 DEF Enqueue

LEMMA RunKeeps == ASSUME DirInv, Run PROVE DirInv'
<1>1. /\ UNCHANGED <<daemonVars, q, at, childEnv, made, inputs, output, reply>>
      /\ pc = "queued" /\ pc' = "running" /\ Update([rec EXCEPT !.state = "running"])
  BY DEF Run
<1> QED BY <1>1, WithState, UpdateKeeps DEF Update

LEMMA FinishKeeps == ASSUME DirInv, Finish PROVE DirInv'
<1> DEFINE r == [rec EXCEPT !.state = "ended", !.artifacts = Collected]
<1>1. /\ UNCHANGED <<daemonVars, q, at, childEnv, made, inputs, output, reply>>
      /\ pc \in {"queued", "running"} /\ pc' = "over" /\ Update(r)
  BY DEF Finish
<1>2. output \subseteq Paths
  BY DEF DirInv, DirTyped, Paths
<1>3. Collected \subseteq [id : Paths, rel : Paths]
  BY <1>2 DEF Collected
<1>4. /\ r \in [state : {"queued", "running", "ended", "errored"}, timeout : Int,
                artifacts : SUBSET [id : Paths, rel : Paths]]
      /\ r.timeout = rec.timeout /\ r.artifacts = Collected /\ r.state = "ended"
  BY <1>1, <1>3, ActiveRecord
<1>5. r # None
  BY <1>4 DEF None
<1> QED BY <1>1, <1>4, <1>5, UpdateKeeps DEF Update, RunRecords

LEMMA WriteKeeps == ASSUME DirInv, Write PROVE DirInv'
<1>0. DirTyped /\ Progress /\ Files /\ Artifacts /\ LeavesNothing /\ reply # "unknown schema"
  BY DEF DirInv
<1>1. /\ UNCHANGED <<daemon, boots, manifest, q, at, childEnv, made, inputs, rec, meta, pc, reply>>
      /\ pc = "running" /\ output' \in Outputs
  BY DEF Write, daemonVars, requestVars
<1>2. DirTyped'
  BY <1>0, <1>1 DEF DirTyped
<1>3. Progress'
  BY <1>0, <1>1, Frame DEF Progress, OwnRecord, Working
<1>4. Files'
  BY <1>0, <1>1, FilesStay
<1>5. Artifacts' /\ LeavesNothing'
  BY <1>0, <1>1 DEF Artifacts, LeavesNothing
<1> QED BY <1>0, <1>1, <1>2, <1>3, <1>4, <1>5 DEF DirInv

-----------------------------------------------------------------------------
(* DirInv is inductive.                                                    *)

LEMMA LibraryKeepsDir ==
  ASSUME DirInv, UNCHANGED <<daemonVars, requestVars, dirVars, rec>>
  PROVE  DirInv'
<1>0. DirTyped /\ Progress /\ Files /\ Artifacts /\ LeavesNothing /\ reply # "unknown schema"
  BY DEF DirInv
<1>1. UNCHANGED <<daemon, boots, manifest, q, at, childEnv, made, inputs, output, rec, meta, pc, reply>>
  BY DEF daemonVars, requestVars, dirVars
<1>2. DirTyped'
  BY <1>0, <1>1 DEF DirTyped
<1>3. Progress'
  BY <1>0, <1>1, Frame DEF Progress, OwnRecord, Working
<1>4. Files'
  BY <1>0, <1>1, FilesStay
<1>5. Collected' = Collected
  BY <1>1 DEF Collected
<1>6. Artifacts' /\ LeavesNothing'
  BY <1>0, <1>1, <1>5 DEF Artifacts, LeavesNothing
<1> QED BY <1>0, <1>1, <1>2, <1>3, <1>4, <1>6 DEF DirInv

LEMMA InitDir == Init => DirInv
<1> SUFFICES ASSUME Init PROVE DirInv
  OBVIOUS
<1>1. /\ daemon = "down" /\ boots = 0 /\ manifest \in Manifests /\ q \in Requests
      /\ pc = "new" /\ at = 1 /\ reply = "none" /\ made = FALSE
      /\ inputs = <<>> /\ output = {} /\ rec = None /\ meta = None
  BY DEF Init
<1>2. DirTyped
  <2>1. boots \in 0..MaxBoots
    BY <1>1, Bounds
  <2> QED BY <1>1, <2>1 DEF DirTyped, RunRecords
<1>3. Progress
  BY <1>1 DEF Progress, OwnRecord, Working
<1>4. Files /\ Artifacts /\ LeavesNothing
  BY <1>1 DEF Files, Artifacts, LeavesNothing
<1> QED BY <1>1, <1>2, <1>3, <1>4 DEF DirInv

LEMMA StepKeepsDir == DirInv /\ [Next]_vars => DirInv'
<1> SUFFICES ASSUME DirInv, [Next]_vars PROVE DirInv'
  OBVIOUS
<1>1. CASE Boot
  BY <1>1, BootKeeps
<1>2. CASE Crash
  BY <1>2, CrashKeeps
<1>3. CASE CreateRun
  BY <1>3, RefuseKeeps, MakeDirKeeps, SkipCSVKeeps, RejectCSVKeeps, StoreCSVKeeps,
     SetIntKeeps, RejectIntKeeps, SweepKeeps, AddRecordKeeps, EnqueueKeeps DEF CreateRun
<1>4. CASE Run
  BY <1>4, RunKeeps
<1>5. CASE Write
  BY <1>5, WriteKeeps
<1>6. CASE Finish
  BY <1>6, FinishKeeps
<1>7. CASE \/ \E name \in Attachments :
                RemoveReceipt(name) \/ \E time \in 0..MaxTime : PutReceipt(name, time)
           \/ ListReceipts
  BY <1>7, LibraryKeepsDir DEF PutReceipt, RemoveReceipt, ListReceipts
<1>8. CASE UNCHANGED vars
  BY <1>8, LibraryKeepsDir DEF vars
<1> QED BY <1>1, <1>2, <1>3, <1>4, <1>5, <1>6, <1>7, <1>8 DEF Next

LEMMA DirInvHolds == Spec => []DirInv
BY InitDir, StepKeepsDir, PTL DEF Spec

-----------------------------------------------------------------------------
(***************************************************************************)
(* A request that ended without a record has left no directory, unless it  *)
(* was answered 500 or the removal failed (handlers.go:209-239).           *)
(***************************************************************************)
THEOREM Undone == Spec => []LeavesNothing
<1>1. DirInv => LeavesNothing
  BY DEF DirInv
<1> QED BY <1>1, DirInvHolds, PTL

LEMMA InputsReach == DirInv => InputsReachTheRun
<1> SUFFICES ASSUME DirInv, meta # None, NEW i \in CSVs
             PROVE  LET in == Wf.inputs[i] IN
                    /\ in.required => in.name \in DOMAIN q.uploads
                    /\ in.name \in DOMAIN q.uploads =>
                         /\ in.filename \in DOMAIN inputs
                         /\ OwnFile(i) => inputs[in.filename] = in.name
                         /\ childEnv[in.env] = in.filename
  BY DEF InputsReachTheRun
<1>1. \A j \in CSVs : j < at => Handled(j)
  BY DEF DirInv, Files
<1>2. at \in Nat /\ at > Len(Wf.inputs)
  BY DEF DirInv, Files
<1>3. Len(Wf.inputs) \in Nat
  BY SoundWorkflow DEF DirInv, DirTyped, Progress, OwnRecord
<1>4. i \in 1..Len(Wf.inputs)
  BY DEF CSVs, Indices
<1>5. i < at
  BY <1>2, <1>3, <1>4
<1>6. Handled(i)
  BY <1>1, <1>5
<1> QED BY <1>6 DEF Handled

(***************************************************************************)
(* A record on disk comes with its inputs and with the variables that name *)
(* them: createRun adds the record after its loop (handlers.go:203-262).   *)
(***************************************************************************)
THEOREM InputsArrive == Spec => []InputsReachTheRun
BY InputsReach, DirInvHolds, PTL

LEMMA SoundSuffices == DirInv => ManifestSuffices
<1> SUFFICES ASSUME DirInv PROVE ManifestSuffices
  OBVIOUS
<1>1. ASSUME rec # None
      PROVE  /\ rec.timeout \in 1..Wf.max
             /\ rec.timeout > 30 => PlaywrightTimeout(rec.timeout) < rec.timeout
  <2>1. Sound /\ rec.timeout = TimeoutOf(q, Wf) /\ manifest \in Manifests /\ q \in Requests
    BY <1>1 DEF DirInv, DirTyped, Progress, OwnRecord
  <2>2. rec.timeout \in 1..Wf.max
    BY <2>1, BoundedTimeout
  <2>3. Wf.max \in Int
    BY <2>1, SoundWorkflow
  <2>4. rec.timeout \in Int
    BY <2>2, <2>3
  <2> QED BY <2>2, <2>4, PlaywrightIsFirst
<1>2. reply # "unknown schema"
  BY DEF DirInv
<1> QED BY <1>1, <1>2 DEF ManifestSuffices

(***************************************************************************)
(* What index lets through is enough for createRun: no schema is missing,  *)
(* every timeout is within its bounds, and Playwright's is shorter than a  *)
(* wall clock of more than 30 s (catalog.go:4-6, exec.go:193-197).         *)
(***************************************************************************)
THEOREM ManifestIsEnough == Spec => []ManifestSuffices
BY SoundSuffices, DirInvHolds, PTL

LEMMA OwnDownloads == DirInv => DownloadsAreOwn
<1> SUFFICES ASSUME DirInv, rec # None PROVE DownloadsAreOwn
  BY DEF DownloadsAreOwn
<1>1. NoPath \notin output
  BY OutputsAssumption DEF DirInv, DirTyped
<1>2. CASE pc = "cut"
  <2>1. \A a \in rec.artifacts : a.rel = NoPath
    BY <1>2 DEF DirInv, Artifacts
  <2>2. \A a \in rec.artifacts : Download(a.id) = NoPath
    BY <2>1 DEF Download, Found
  <2>3. Results = {}
    BY <2>2 DEF Results
  <2> QED BY <1>2, <2>2, <2>3 DEF DownloadsAreOwn
<1>3. CASE pc = "over" /\ rec.state = "ended"
  <2>1. rec.artifacts = Collected
    BY <1>3 DEF DirInv, Artifacts
  <2>2. \A a \in Collected : a.rel = a.id /\ a.id \in output
    BY DEF Collected
  <2>3. \A a \in rec.artifacts : Found(a.id) = a
    <3>1. \A a, b \in Collected : a.id = b.id => a = b
      BY DEF Collected
    <3> QED BY <2>1, <3>1 DEF Found
  <2>4. \A a \in rec.artifacts : Download(a.id) = a.id
    BY <2>1, <2>2, <2>3 DEF Download
  <2>5. Results = {a.id : a \in {b \in Collected : b.id.name = "output.json"}}
    BY <1>1, <2>1, <2>2, <2>4 DEF Results
  <2>6. Results = {p \in output : p.name = "output.json"}
    <3>1. \A p \in output : p.name = "output.json" =>
            \E b \in Collected : b.id = p
      <4>1. \A p \in output : p.name = "output.json" => [id |-> p, rel |-> p] \in Collected
        BY DEF Collected, Internal
      <4> QED BY <4>1
    <3> QED BY <2>2, <2>5, <3>1
  <2> QED BY <1>3, <2>4, <2>6 DEF DownloadsAreOwn
<1>4. CASE pc # "cut" /\ ~(pc = "over" /\ rec.state = "ended")
  <2>1. rec.artifacts = {}
    BY <1>4 DEF DirInv, Artifacts
  <2>2. Results = {}
    BY <2>1 DEF Results
  <2> QED BY <1>4, <2>1, <2>2 DEF DownloadsAreOwn
<1> QED BY <1>2, <1>3, <1>4

(***************************************************************************)
(* An artifact is never served from a file of another, and it is served    *)
(* while the daemon that finished the run is up (handlers.go:452-541).     *)
(***************************************************************************)
THEOREM DownloadsHold == Spec => []DownloadsAreOwn
BY OwnDownloads, DirInvHolds, PTL

-----------------------------------------------------------------------------
(* The library.  Newest is what its name says, because times are bounded.  *)

LEMMA NewestIs ==
  ASSUME NEW l, NEW n \in Nat, \A e \in l : e.time \in 0..n
  PROVE  Newest(l) \in 0..n /\ \A e \in l : e.time <= Newest(l)
<1>1. CASE l = {}
  BY <1>1 DEF Newest
<1>2. CASE l # {}
  <2> DEFINE times == {e.time : e \in l}
  <2>1. times \subseteq 0..n /\ times # {}
    BY <1>2
  <2>2. \E t \in times : \A u \in times : u <= t
    BY <2>1, Greatest
  <2>3. \E t \in times : \A e \in l : e.time <= t
    BY <2>2
  <2>4. Newest(l) = CHOOSE t \in times : \A e \in l : e.time <= t
    BY <1>2 DEF Newest
  <2>5. Newest(l) \in times /\ \A e \in l : e.time <= Newest(l)
    BY <2>3, <2>4
  <2> QED BY <2>1, <2>5
<1> QED BY <1>1, <1>2

LEMMA Times ==
  ASSUME LibraryInv
  PROVE  /\ latest \in Nat
         /\ \A e \in library : e.time \in 0..latest
         /\ \A e \in listing : e.time \in 0..latest
         /\ IsFiniteSet(List(library))
<1>1. latest \in Nat
  BY Bounds DEF LibraryInv, LibraryTyped
<1>2. ASSUME NEW e \in library PROVE e.time \in 0..latest
  <2>1. CASE e \in Library
    BY <1>1, <2>1, RunDirAssumption DEF RunDirAssumption
  <2>2. CASE e \notin Library
    BY <1>1, <2>2 DEF LibraryInv, LibraryTyped
  <2> QED BY <2>1, <2>2
<1>3. List(library) \in SUBSET library
  BY DEF List
<1>4. IsFiniteSet(List(library))
  BY <1>3, FS_Subset DEF LibraryInv, Kept
<1> QED BY <1>1, <1>2, <1>4 DEF LibraryInv, LibraryTyped

LEMMA InitLibrary == Init => LibraryInv
<1> SUFFICES ASSUME Init PROVE LibraryInv
  OBVIOUS
<1>1. library = Library /\ latest = 0 /\ listing = {} /\ tag = <<>> /\ late = {}
  BY DEF Init
<1>2. LibraryTyped
  BY <1>1, Bounds DEF LibraryTyped
<1>3. Kept
  BY <1>1, RunDirAssumption, FS_EmptySet DEF Kept, RunDirAssumption
<1> QED BY <1>2, <1>3 DEF LibraryInv

(* A change of the library: what was there may go, and what comes is newer *)
(* than all before it, or late.                                            *)
LEMMA ChangeKeeps ==
  ASSUME LibraryInv, UNCHANGED <<listing, tag>>, IsFiniteSet(library'),
         latest' \in 0..MaxTime, latest' >= latest,
         late' \subseteq library', late \intersect library' \subseteq late',
         \A e \in library' \ library :
            /\ e.name \in Attachments /\ ~e.dir /\ e.time \in 0..latest'
            /\ e \in late' \/ e.time > latest
  PROVE  LibraryInv'
<1>1. latest \in Nat /\ latest' \in Nat /\ \A e \in listing : e.time \in 0..latest
  BY Times, Bounds
<1>2. LibraryTyped'
  <2>1. ASSUME NEW e \in library' \ Library
        PROVE  e.name \in Attachments /\ ~e.dir /\ e.time \in 0..latest'
    <3>1. CASE e \in library
      BY <1>1, <2>1, <3>1 DEF LibraryInv, LibraryTyped
    <3>2. CASE e \notin library
      BY <2>1, <3>2
    <3> QED BY <3>1, <3>2
  <2>2. \A e \in listing : e.name \notin Skipped /\ ~e.dir /\ e.time \in 0..latest'
    BY <1>1 DEF LibraryInv, LibraryTyped
  <2> QED BY <2>1, <2>2 DEF LibraryTyped
<1>3. Kept'
  <2>1. ASSUME tag # <<>>, NEW e \in List(library'), e.time <= tag[2], e \notin late'
        PROVE  e \in listing
    <3>1. tag[2] = Newest(listing)
      BY <2>1 DEF LibraryInv, Kept, ETag
    <3>2. tag[2] \in 0..latest
      BY <1>1, <3>1, NewestIs
    <3>3. e \in library' /\ e \notin late
      BY <2>1 DEF List
    <3>4. e \in library
      <4>1. e.time \in Int /\ e.time > latest => FALSE
        BY <1>1, <2>1, <3>2
      <4> QED BY <2>1, <3>3, <4>1
    <3>5. e \in List(library)
      BY <2>1, <3>4 DEF List
    <3> QED BY <2>1, <3>3, <3>5 DEF LibraryInv, Kept
  <2>2. List(library)' = List(library')
    BY DEF List
  <2>3. ETag(listing)' = ETag(listing)
    BY DEF ETag
  <2> QED BY <2>1, <2>2, <2>3 DEF LibraryInv, Kept
<1> QED BY <1>2, <1>3 DEF LibraryInv

LEMMA ListKeeps == ASSUME LibraryInv, ListReceipts PROVE LibraryInv'
<1>1. /\ UNCHANGED <<library, latest>>
      /\ \/ UNCHANGED <<listing, tag, late>>
         \/ listing' = List(library) /\ tag' = ETag(List(library)) /\ late' = {}
  BY DEF ListReceipts
<1>2. CASE UNCHANGED <<listing, tag, late>>
  BY <1>1, <1>2 DEF LibraryInv, LibraryTyped, Kept
<1>3. CASE listing' = List(library) /\ tag' = ETag(List(library)) /\ late' = {}
  <2>1. LibraryTyped'
    <3>1. \A e \in listing' : e.name \notin Skipped /\ ~e.dir /\ e.time \in 0..latest
      BY <1>3, Times DEF List
    <3> QED BY <1>1, <1>3, <3>1 DEF LibraryInv, LibraryTyped
  <2>2. IsFiniteSet(library') /\ IsFiniteSet(listing')
    BY <1>1, <1>3, Times DEF LibraryInv, Kept
  <2>3. List(library)' = List(library)
    BY <1>1 DEF List
  <2>4. ETag(listing)' = ETag(listing')
    BY DEF ETag
  <2> QED BY <1>3, <2>1, <2>2, <2>3, <2>4 DEF LibraryInv, Kept
<1> QED BY <1>1, <1>2, <1>3

LEMMA PutKeeps ==
  ASSUME LibraryInv, NEW name \in Attachments, NEW time \in 0..MaxTime, PutReceipt(name, time)
  PROVE  LibraryInv'
<1> DEFINE rest == {e \in library : e.name # name}
           file == [name |-> name, dir |-> FALSE, time |-> time]
<1>1. /\ UNCHANGED <<listing, tag>> /\ library' = rest \union {file}
      /\ latest' = Max({latest, time})
      /\ late' = IF time > latest THEN late \intersect library'
                 ELSE (late \intersect library') \union {file}
  BY DEF PutReceipt
<1>2. latest \in 0..MaxTime /\ IsFiniteSet(library) /\ MaxTime \in Nat
  BY Bounds DEF LibraryInv, LibraryTyped, Kept
<1>3. IsFiniteSet(library')
  <2>1. IsFiniteSet(rest)
    BY <1>2, FS_Subset
  <2> QED BY <1>1, <2>1, FS_AddElement
<1>4. latest' \in 0..MaxTime /\ latest' >= latest /\ latest' >= time
  <2>1. latest \in Int /\ time \in Int
    BY <1>2
  <2>2. /\ Max({latest, time}) \in {latest, time}
        /\ Max({latest, time}) >= latest /\ Max({latest, time}) >= time
    BY <2>1, LargerOfTwo
  <2> QED BY <1>1, <1>2, <2>2
<1>5. late' \subseteq library' /\ late \intersect library' \subseteq late'
  BY <1>1
<1>6. ASSUME NEW e \in library' \ library
      PROVE  /\ e.name \in Attachments /\ ~e.dir /\ e.time \in 0..latest'
             /\ e \in late' \/ e.time > latest
  <2>1. e = file
    BY <1>1
  <2>2. time \in 0..latest'
    BY <1>2, <1>4
  <2> QED BY <1>1, <2>1, <2>2
<1> QED BY <1>1, <1>3, <1>4, <1>5, <1>6, ChangeKeeps

LEMMA RemoveKeeps ==
  ASSUME LibraryInv, NEW name, RemoveReceipt(name) PROVE LibraryInv'
<1>1. /\ UNCHANGED <<latest, listing, tag>> /\ library' \in SUBSET library
      /\ late' = late \intersect library'
  BY DEF RemoveReceipt
<1>2. IsFiniteSet(library')
  BY <1>1, FS_Subset DEF LibraryInv, Kept
<1>3. latest' \in 0..MaxTime /\ latest' >= latest
  BY <1>1, Bounds DEF LibraryInv, LibraryTyped
<1>4. late' \subseteq library' /\ late \intersect library' \subseteq late'
  BY <1>1
<1> QED BY <1>1, <1>2, <1>3, <1>4, ChangeKeeps

LEMMA StepKeepsLibrary == LibraryInv /\ [Next]_vars => LibraryInv'
<1> SUFFICES ASSUME LibraryInv, [Next]_vars PROVE LibraryInv'
  OBVIOUS
<1>1. ASSUME NEW name \in Attachments, NEW time \in 0..MaxTime, PutReceipt(name, time)
      PROVE  LibraryInv'
  BY <1>1, PutKeeps
<1>2. ASSUME NEW name \in Attachments, RemoveReceipt(name) PROVE LibraryInv'
  BY <1>2, RemoveKeeps
<1>3. ASSUME UNCHANGED libraryVars PROVE LibraryInv'
  BY <1>3 DEF libraryVars, LibraryInv, LibraryTyped, Kept
<1>4. CASE Boot \/ Crash \/ CreateRun \/ Run \/ Write \/ Finish \/ UNCHANGED vars
  <2>1. CASE Boot \/ Crash \/ Run \/ Write \/ Finish \/ UNCHANGED vars
    BY <1>3, <2>1 DEF Boot, Crash, Run, Write, Finish, vars
  <2>2. CASE CreateRun
    BY <1>3, <2>2 DEF CreateRun, Refuse, MakeDir, SkipCSV, RejectCSV, StoreCSV, SetInt,
                      RejectInt, Sweep, AddRecord, Enqueue
  <2> QED BY <1>4, <2>1, <2>2
<1>5. CASE ListReceipts
  BY <1>5, ListKeeps
<1> QED BY <1>1, <1>2, <1>4, <1>5 DEF Next

LEMMA LibraryInvHolds == Spec => []LibraryInv
BY InitLibrary, StepKeepsLibrary, PTL DEF Spec

LEMMA SameListing == LibraryInv => FreshIfNotModified
<1> SUFFICES ASSUME LibraryInv, tag # <<>>, ETag(List(library)) = tag
             PROVE  /\ List(library) \ listing \subseteq late
                    /\ List(library) \subseteq listing => listing = List(library)
  BY DEF FreshIfNotModified
<1> DEFINE now == List(library)
<1>1. tag = ETag(listing) /\ {e \in now : e.time <= tag[2]} \ late \subseteq listing
      /\ IsFiniteSet(listing)
  BY DEF LibraryInv, Kept
<1>2. latest \in Nat /\ \A e \in now : e.time \in 0..latest
  BY Times DEF List
<1>3. tag[2] = Newest(now) /\ Cardinality(now) = Cardinality(listing)
  BY <1>1 DEF ETag
<1>4. \A e \in now : e.time <= tag[2]
  BY <1>2, <1>3, NewestIs
<1>5. now \ listing \subseteq late
  BY <1>1, <1>4
<1>6. ASSUME now \subseteq listing PROVE listing = now
  BY <1>1, <1>3, <1>6, FS_Subset
<1> QED BY <1>5, <1>6

(***************************************************************************)
(* What a 304 keeps from the client came late: of the files that came      *)
(* since its list, newer than all before them, none is missing.  And if no *)
(* file is missing, the list is the current one, because the count is the  *)
(* same (receipts.go:69-78).                                               *)
(***************************************************************************)
THEOREM FreshList == Spec => []FreshIfNotModified
BY SameListing, LibraryInvHolds, PTL

-----------------------------------------------------------------------------
(* The verdict on a CSV.  Whether it is right depends on the library, whose *)
(* files have names.                                                        *)

LEMMA NamedFiles ==
  ASSUME LibraryInv PROVE \A e \in library : e.name # ""
BY UploadAssumption DEF LibraryInv, LibraryTyped

LEMMA SameHeaders ==
  ASSUME NEW rows, NEW want PROVE FullHeaders(rows, want) = FullRows(rows, want)
<1> DEFINE n == Min({Len(rows), HeaderScanRows})
<1>1. ASSUME NEW i, NEW k
      PROVE  (\E j \in Indices(rows[i]) : Trimmed(rows[i][j]) = <<want[k]>>)
               <=> ColumnsOf(rows[i], want[k]) # {}
  BY DEF ColumnsOf
<1> HIDE DEF n
<1> QED BY <1>1 DEF FullHeaders, FullRows, n

LEMMA SameFiles ==
  ASSUME LibraryInv, NEW text
  PROVE  BlankOrFile(text) <=>
           text = <<>> \/ \E e \in library : text = <<e.name>> /\ Has(library, e.name)
<1>1. ASSUME NEW e \in library, Has(library, e.name)
      PROVE  \E d \in library : d.name = e.name /\ ~d.dir
  BY <1>1 DEF Has
<1>2. ASSUME NEW e \in library, ~e.dir PROVE Has(library, e.name)
  BY <1>2, NamedFiles DEF Has
<1> QED BY <1>1, <1>2 DEF BlankOrFile

(* The index that present[col] has is that of the last such column.        *)
LEMMA LastColumn ==
  ASSUME NEW row, Len(row) \in Nat, NEW name, NEW j
  PROVE  j \in Indices(row) /\ IsColumn(row, j, name) <=>
           ColumnsOf(row, name) # {} /\ j = Max(ColumnsOf(row, name))
<1> DEFINE cols == ColumnsOf(row, name)
<1>1. cols \subseteq 0..Len(row) /\ cols \subseteq Int
  BY DEF ColumnsOf, Indices
<1>2. j \in Indices(row) /\ IsColumn(row, j, name) <=> j \in cols /\ \A k \in cols : ~(k > j)
  BY DEF IsColumn, ColumnsOf
<1> HIDE DEF cols
<1>3. ASSUME cols # {} PROVE Max(cols) \in cols /\ \A k \in cols : Max(cols) >= k
  <2>1. \E x \in cols : \A k \in cols : k <= x
    BY <1>1, <1>3, Greatest
  <2>2. \E x \in cols : \A k \in cols : x >= k
    BY <1>1, <2>1
  <2> QED BY <2>2 DEF Max
<1> DEFINE m == Max(cols)
<1>a. cols # {} => m \in cols /\ \A k \in cols : m >= k
  BY <1>3
<1> HIDE DEF m
<1>4. ASSUME j \in cols, \A k \in cols : ~(k > j) PROVE cols # {} /\ j = m
  <2>1. m \in cols /\ m >= j /\ ~(m > j)
    BY <1>a, <1>4
  <2>2. m \in Int /\ j \in Int
    BY <1>1, <1>4, <2>1
  <2> QED BY <1>4, <2>1, <2>2
<1>5. ASSUME cols # {}, j = m PROVE j \in cols /\ \A k \in cols : ~(k > j)
  <2>1. ASSUME NEW k \in cols PROVE ~(k > m)
    <3>1. m \in Int /\ k \in Int /\ m >= k
      BY <1>1, <1>a, <1>5
    <3> QED BY <3>1
  <2> QED BY <1>a, <1>5, <2>1
<1> QED BY <1>2, <1>4, <1>5 DEF cols, m

LEMMA SameReferences ==
  ASSUME LibraryInv, NEW rows, NEW h, Len(rows) \in Nat, h \in Nat, Len(rows[h]) \in Nat
  PROVE  (\A text \in References(rows, h) :
            \E e \in library : text = <<e.name>> /\ Has(library, e.name))
           <=> \A name \in AttachmentColumns, i \in Indices(rows), j \in Indices(rows[h]) :
                 i > h /\ j <= Len(rows[i]) /\ IsColumn(rows[h], j, name)
                   => BlankOrFile(TrimSpace(rows[i][j]))
<1> DEFINE Cols == {Max(ColumnsOf(rows[h], c)) :
                      c \in {d \in AttachmentColumns : ColumnsOf(rows[h], d) # {}}}
           Below == (h + 1)..Len(rows)
           Texts(i) == {TrimSpace(rows[i][j]) : j \in {k \in Cols : k <= Len(rows[i])}}
<1>1. \A j : j \in Cols <=> \E name \in AttachmentColumns :
                                j \in Indices(rows[h]) /\ IsColumn(rows[h], j, name)
  BY LastColumn
<1>2. \A i : i \in Below <=> i \in Indices(rows) /\ i > h
  BY DEF Indices
<1>3. References(rows, h) = (UNION {Texts(i) : i \in Below}) \ {<<>>}
  BY DEF References
<1> HIDE DEF Cols, Below
<1>4. ASSUME NEW text
      PROVE  text \in References(rows, h) <=>
               /\ text # <<>>
               /\ \E i \in Below, j \in Cols : j <= Len(rows[i]) /\ text = TrimSpace(rows[i][j])
  BY <1>3
<1>5. (\A text \in References(rows, h) :
         \E e \in library : text = <<e.name>> /\ Has(library, e.name))
        <=> \A i \in Below, j \in Cols : j <= Len(rows[i]) => BlankOrFile(TrimSpace(rows[i][j]))
  BY <1>4, SameFiles
<1> QED BY <1>1, <1>2, <1>5

LEMMA VerdictFits ==
  ASSUME LibraryInv, DirTyped, NEW in, NEW name \in DOMAIN q.uploads
  PROVE  Verdict(manifest, in, q.uploads[name], library) = "ok" <=> Fits(in, q.uploads[name])
<1> DEFINE upload == q.uploads[name]
           rows == upload.rows
           want == manifest.schemas[in.schema]
           header == HeaderRow(rows, want)
           full == FullRows(rows, want)
<1>1. rows \in Seq(Seq(Seq(STRING)))
  BY UploadAssumption DEF DirTyped
<1>2. CASE in.schema \notin DOMAIN manifest.schemas
  BY <1>2 DEF Verdict, Fits
<1>3. CASE in.schema \in DOMAIN manifest.schemas /\ ~upload.csv
  BY <1>3 DEF Verdict, Fits
<1>4. CASE in.schema \in DOMAIN manifest.schemas /\ upload.csv
  <2>1. want \in Seq(STRING)
    BY <1>4, UploadAssumption DEF DirTyped
  <2>2. Len(want) \in Nat /\ Len(rows) \in Nat /\ HeaderScanRows \in Nat
    BY <1>1, <2>1, RunDirAssumption DEF RunDirAssumption
  <2>3. want # <<>> <=> Len(want) > 0
    BY <2>1
  <2> DEFINE whole == header # 0 /\ Score(rows[header], want) = Len(want)
             there(h) == \A text \in References(rows, h) :
                           \E e \in library : text = <<e.name>> /\ Has(library, e.name)
  <2>4. (whole <=> want # <<>> /\ full # {}) /\ (want # <<>> /\ full # {} => header = Min(full))
    BY <2>2, <2>3, HeaderIsFirstFull
  <2>5. Fits(in, upload) <=> want # <<>> /\ full # {} /\ there(Min(full))
    <3>1. FullHeaders(rows, want) = full
      BY SameHeaders
    <3>2. ASSUME full # {} PROVE Min(full) \in Nat /\ Len(rows[Min(full)]) \in Nat
      <4>1. full \subseteq 1..Len(rows)
        BY <2>2, ScannedRows DEF FullRows
      <4> HIDE DEF full
      <4>2. Min(full) \in full
        <5>a. full \subseteq Nat
          BY <2>2, <4>1
        <5>1. \E x \in full : \A y \in full : x <= y
          BY <3>2, <5>a, Least
        <5> QED BY <5>1 DEF Min
      <4>3. Min(full) \in 1..Len(rows)
        BY <4>1, <4>2
      <4>4. rows[Min(full)] \in Seq(Seq(STRING))
        BY <1>1, <4>3
      <4> QED BY <2>2, <4>3, <4>4
    <3> HIDE DEF full, there
    <3>3. full # {} => (there(Min(full)) <=>
            \A c \in AttachmentColumns, i \in Indices(rows), j \in Indices(rows[Min(full)]) :
              i > Min(full) /\ j <= Len(rows[i]) /\ IsColumn(rows[Min(full)], j, c)
                => BlankOrFile(TrimSpace(rows[i][j])))
      BY <2>2, <3>2, SameReferences DEF there
    <3> QED BY <1>4, <3>1, <3>3 DEF Fits
  <2>6. CASE rows = <<>>
    <3>1. full = {}
      <4>1. Len(rows) = 0
        BY <2>6
      <4>2. Min({Len(rows), HeaderScanRows}) \in 0..Len(rows)
        BY <2>2, ScannedRows
      <4> QED BY <4>1, <4>2 DEF FullRows
    <3>2. Verdict(manifest, in, upload, library) = "refused"
      BY <1>4, <2>6 DEF Verdict
    <3> QED BY <2>5, <3>1, <3>2
  <2>7. CASE rows # <<>>
    <3>1. Verdict(manifest, in, upload, library) = "ok" <=> whole /\ there(header)
      BY <1>4, <2>7 DEF Verdict
    <3> HIDE DEF whole, there, full, header
    <3>2. Verdict(manifest, in, upload, library) = "ok" <=> Fits(in, upload)
      BY <2>4, <2>5, <3>1
    <3> QED BY <3>2
  <2> QED BY <2>6, <2>7
<1> QED BY <1>2, <1>3, <1>4

(***************************************************************************)
(* validateCSV accepts what it promises to accept, whatever the sheet, the *)
(* schema and the library are: the search for the header finds the first   *)
(* of its ten rows that has every column, and no row below it has anything *)
(* but a file of the library in an attachment column (handlers.go:284-382). *)
(***************************************************************************)
THEOREM VerdictHolds == Spec => []VerdictIsRight
<1>1. DirInv /\ LibraryInv => VerdictIsRight
  <2> SUFFICES ASSUME DirInv, LibraryInv PROVE VerdictIsRight
    OBVIOUS
  <2>1. DirTyped
    BY DEF DirInv
  <2> QED BY <2>1, VerdictFits DEF VerdictIsRight
<1> QED BY <1>1, DirInvHolds, LibraryInvHolds, PTL

(* Every variable of RunDir has its type, in the states of createRun, of   *)
(* the run and of the library together (handlers.go, run.go, receipts.go). *)
THEOREM TypeIsCorrect == Spec => []RunDirTypeOK
<1>1. DirInv /\ LibraryInv => RunDirTypeOK
  BY DEF DirInv, DirTyped, LibraryInv, LibraryTyped, RunDirTypeOK
<1> QED BY <1>1, DirInvHolds, LibraryInvHolds, PTL
=============================================================================
