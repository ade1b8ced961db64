------------------------------- MODULE RunDir -------------------------------
(***************************************************************************)
(* The directory of one run from the request that makes it to the          *)
(* downloads, across restarts: createRun up to the answer                  *)
(* (server/internal/httpapi/handlers.go), the layout (run/layout.go), what *)
(* Collect makes of the output (run/results.go), what meta.json keeps of   *)
(* it (run/run.go, store.go), the manifest read at boot (catalog.go), and  *)
(* a client that revalidates its list of receipts.                         *)
(*                                                                         *)
(* A path is a directory and a name.  Runs have directories of their own,  *)
(* so one is enough; the queue between Submit and finish is module Queue.  *)
(***************************************************************************)
EXTENDS Upload

CONSTANTS Manifests,   (* the manifests a daemon may find when it boots    *)
          Specs,       (* the spec files that exist                        *)
          Requests,    (* the requests a client may make                   *)
          Library,     (* the attachment library at first                  *)
          Attachments, (* the names of the files that come and go in it    *)
          Outputs,     (* what a run may leave: sets of paths              *)
          MaxTime,     (* bound: the times a file in it may have           *)
          MaxBoots     (* bound: how often the daemon boots                *)

ASSUME RunDirAssumption ==
  /\ HeaderScanRows \in Nat \ {0}
  /\ MaxTime \in Nat /\ MaxBoots \in Nat \ {0}
  /\ \A m \in Manifests : \A i \in Indices(m.workflows) :
       LET wf == m.workflows[i]
       IN wf.default \in Int /\ wf.max \in Int /\ Len(wf.inputs) \in Nat
  /\ \A r \in Requests : r.timeout \in Int
  /\ IsFiniteSet(Library) /\ \A e \in Library : e.time = 0

(* A schema lists the names of its columns, a sheet is rows of cells, and  *)
(* a file has a name.                                                      *)
ASSUME UploadAssumption ==
  /\ \A m \in Manifests : \A s \in DOMAIN m.schemas : m.schemas[s] \in Seq(STRING)
  /\ \A r \in Requests : \A name \in DOMAIN r.uploads :
       r.uploads[name].rows \in Seq(Seq(Seq(STRING)))
  /\ "" \notin Attachments /\ \A e \in Library : e.name # ""

VARIABLES daemon,    (* "down", "up", or "refused" by its manifest         *)
          boots,     (* how often it has booted                            *)
          manifest,  (* workflows.json                                     *)
          library,   (* the attachment library ...                         *)
          latest,    (* ... and the newest time a file in it has had       *)
          listing,   (* the client's copy of the list of receipts ...      *)
          tag,       (* ... and the ETag that came with it                 *)
          late,      (* for the properties: the files that came since, and *)
                     (* were no newer than "latest"                        *)
          q,         (* the request                                        *)
          pc,        (* where createRun, then the run, is; "over" when it  *)
                     (* has ended, "unswept" when its directory could not  *)
                     (* be removed, "cut" once the daemon has gone down    *)
          at,        (* the input that is handled next                     *)
          reply,     (* the answer to the request                          *)
          made,      (* the run directory exists                           *)
          inputs,    (* input/: file names to the input each came from     *)
          childEnv,  (* the variables the request gives the child          *)
          output,    (* the paths of the files the run has left            *)
          rec,       (* the record in memory                               *)
          meta       (* meta.json                                          *)

libraryVars == <<library, latest, listing, tag, late>>
daemonVars == <<daemon, boots, manifest>>
requestVars == <<q, pc, at, reply, childEnv>>
dirVars == <<made, inputs, output, meta>>
vars == <<libraryVars, daemonVars, requestVars, dirVars, rec>>

None == [state |-> "absent"]

Init ==
  /\ daemon = "down" /\ boots = 0 /\ manifest \in Manifests
  /\ library = Library /\ latest = 0 /\ listing = {} /\ tag = <<>> /\ late = {}
  /\ q \in Requests /\ pc = "new" /\ at = 1 /\ reply = "none"
  /\ made = FALSE /\ inputs = <<>> /\ childEnv = <<>> /\ output = {}
  /\ rec = None /\ meta = None

-----------------------------------------------------------------------------
(* Boot, recovery and crash.                                               *)

(* meta.json does not have the Rel of an artifact (run.go:58). *)
NoPath == [dir |-> "", name |-> ""]

(* What is under output/ has a path of its own. *)
ASSUME OutputsAssumption == \A o \in Outputs : NoPath \notin o

Persisted(r) ==
  IF r = None THEN None
  ELSE [r EXCEPT !.artifacts = {[a EXCEPT !.rel = NoPath] : a \in @}]

Recovered(r) ==
  IF r # None /\ r.state \in {"queued", "running"} THEN [r EXCEPT !.state = "errored"] ELSE r

(* Store.Update; a write that fails is logged, or not even that. *)
Update(r) ==
  /\ rec' = r
  /\ \/ meta' = Persisted(r)
     \/ UNCHANGED meta

(* A manifest that does not load ends the daemon before Recover. *)
Boot ==
  /\ daemon = "down" /\ boots < MaxBoots
  /\ boots' = boots + 1
  /\ \/ Loads(manifest, Specs) /\ daemon' = "up" /\ Update(Recovered(meta))
     \/ ~Loads(manifest, Specs) /\ daemon' = "refused" /\ UNCHANGED <<rec, meta>>
  /\ UNCHANGED <<libraryVars, manifest, requestVars, made, inputs, output>>

(* The handler and the worker end with it; the directory stays. *)
Crash ==
  /\ daemon = "up" /\ boots < MaxBoots
  /\ daemon' = "down"
  /\ rec' = None
  /\ pc' = IF pc = "new" THEN "new" ELSE "cut"
  /\ UNCHANGED <<libraryVars, boots, manifest, q, at, reply, childEnv, dirVars>>

-----------------------------------------------------------------------------
(* createRun.                                                              *)

Wf == Workflow(manifest, q.workflow)

Refuse ==
  /\ daemon = "up" /\ pc = "new" /\ ~Admissible(q, manifest)
  /\ reply' = "refused" /\ pc' = "over"
  /\ UNCHANGED <<libraryVars, daemonVars, q, at, childEnv, dirVars, rec>>

(* f[key] = value *)
Put(f, key, value) == [k \in DOMAIN f \union {key} |-> IF k = key THEN value ELSE f[k]]

(* lay.Create, which may stop half-way. *)
MakeDir ==
  /\ daemon = "up" /\ pc = "new" /\ Admissible(q, manifest)
  /\ made' = TRUE
  /\ \/ /\ pc' = "building"
        /\ childEnv' = Put(<<>>, "ENV", EnvOf(q))
        /\ UNCHANGED reply
     \/ /\ pc' = "over" /\ reply' = "failed"
        /\ UNCHANGED childEnv
  /\ UNCHANGED <<libraryVars, daemonVars, q, at, inputs, output, meta, rec>>

Handling(kind) ==
  /\ daemon = "up" /\ pc = "building" /\ at <= Len(Wf.inputs)
  /\ Wf.inputs[at].kind = kind

In == Wf.inputs[at]

Given == In.name \in DOMAIN q.uploads

Reject(answer) ==
  /\ reply' = answer /\ pc' = "sweeping"
  /\ UNCHANGED <<at, inputs, childEnv>>

Mut_SkipCSV ==
  /\ Handling("csv")
  /\ ~Given
  /\ at' = at + 1
  /\ UNCHANGED <<libraryVars, daemonVars, q, pc, reply, childEnv, dirVars, rec>>

SkipCSV ==
  /\ Handling("csv")
  /\ ~Given /\ ~In.required
  /\ at' = at + 1
  /\ UNCHANGED <<libraryVars, daemonVars, q, pc, reply, childEnv, dirVars, rec>>

RejectCSV ==
  /\ Handling("csv")
  /\ \/ ~Given /\ In.required /\ Reject("refused")
     \/ /\ Given /\ Verdict(manifest, In, q.uploads[In.name], library) # "ok"
        /\ Reject(Verdict(manifest, In, q.uploads[In.name], library))
  /\ UNCHANGED <<libraryVars, daemonVars, q, made, output, meta, rec>>

(* os.WriteFile, which may fail. *)
StoreCSV ==
  /\ Handling("csv")
  /\ Given /\ Verdict(manifest, In, q.uploads[In.name], library) = "ok"
  /\ \/ /\ inputs' = Put(inputs, In.filename, In.name)
        /\ childEnv' = Put(childEnv, In.env, In.filename)
        /\ at' = at + 1
        /\ UNCHANGED <<pc, reply>>
     \/ Reject("failed")
  /\ UNCHANGED <<libraryVars, daemonVars, q, made, output, meta, rec>>

(* A value is passed on as it is; none is checked against min and max. *)
SetInt ==
  /\ Handling("int")
  /\ \/ In.name \in DOMAIN q.params /\ childEnv' = Put(childEnv, In.env, q.params[In.name])
     \/ /\ In.name \notin DOMAIN q.params /\ In.default # ""
        /\ childEnv' = Put(childEnv, In.env, In.default)
     \/ /\ In.name \notin DOMAIN q.params /\ In.default = "" /\ ~In.required
        /\ UNCHANGED childEnv
  /\ at' = at + 1
  /\ UNCHANGED <<libraryVars, daemonVars, q, pc, reply, dirVars, rec>>

RejectInt ==
  /\ Handling("int")
  /\ In.name \notin DOMAIN q.params /\ In.default = "" /\ In.required
  /\ Reject("refused")
  /\ UNCHANGED <<libraryVars, daemonVars, q, made, output, meta, rec>>

Mut_Sweep ==
  /\ daemon = "up" /\ pc = "sweeping"
  /\ pc' = "over"
  /\ UNCHANGED <<libraryVars, daemonVars, q, at, reply, childEnv, dirVars, rec>>

(* RemoveAll, after the answer.  It may remove some of the files and fail, *)
(* which nobody is told.                                                   *)
Sweep ==
  /\ daemon = "up" /\ pc = "sweeping"
  /\ \/ pc' = "over" /\ made' = FALSE /\ inputs' = <<>>
     \/ /\ pc' = "unswept" /\ UNCHANGED made
        /\ \E left \in SUBSET DOMAIN inputs : inputs' = [name \in left |-> inputs[name]]
  /\ UNCHANGED <<libraryVars, daemonVars, q, at, reply, childEnv, output, meta, rec>>

(* Store.Add; a record that cannot be written stays in memory. *)
AddRecord ==
  /\ daemon = "up" /\ pc = "building" /\ at > Len(Wf.inputs)
  /\ rec' = [state |-> "queued", timeout |-> TimeoutOf(q, Wf), artifacts |-> {}]
  /\ \/ pc' = "added" /\ meta' = Persisted(rec') /\ UNCHANGED reply
     \/ pc' = "over" /\ reply' = "failed" /\ UNCHANGED meta
  /\ UNCHANGED <<libraryVars, daemonVars, q, at, childEnv, made, inputs, output>>

(* Submit has room, or the record ends as errored, "queue full". *)
Enqueue ==
  /\ daemon = "up" /\ pc = "added"
  /\ \/ pc' = "queued" /\ reply' = "accepted" /\ UNCHANGED <<rec, meta>>
     \/ /\ pc' = "over" /\ reply' = "full"
        /\ Update([rec EXCEPT !.state = "errored"])
  /\ UNCHANGED <<libraryVars, daemonVars, q, at, childEnv, made, inputs, output>>

-----------------------------------------------------------------------------
(* The run: execute, Playwright's output, finish with Collect.             *)

Run ==
  /\ daemon = "up" /\ pc = "queued"
  /\ Update([rec EXCEPT !.state = "running"])
  /\ pc' = "running"
  /\ UNCHANGED <<libraryVars, daemonVars, q, at, reply, childEnv, made, inputs, output>>

(* What Playwright writes: under output/, or its report beside it. *)
Write ==
  /\ daemon = "up" /\ pc = "running" /\ output = {}
  /\ output' \in Outputs
  /\ UNCHANGED <<libraryVars, daemonVars, requestVars, made, inputs, meta, rec>>

(* Its bookkeeping is not for download. *)
Internal == {".last-run.json", ".playwright-artifacts"}

Collected == {[id |-> p, rel |-> p] : p \in {o \in output : o.name \notin Internal}}

(* The outcome, whichever.  A run cancelled while it waits is finished     *)
(* without being executed.                                                 *)
Finish ==
  /\ daemon = "up" /\ pc \in {"queued", "running"}
  /\ Update([rec EXCEPT !.state = "ended", !.artifacts = Collected])
  /\ pc' = "over"
  /\ UNCHANGED <<libraryVars, daemonVars, q, at, reply, childEnv, made, inputs, output>>

-----------------------------------------------------------------------------
(* Downloads read only.  An artifact is asked for by its id.               *)

Mut_Found(id) == CHOOSE a \in rec.artifacts : a.id.name = id.name

Found(id) == CHOOSE a \in rec.artifacts : a.id = id

(* Without its path an artifact resolves to the run directory itself, which *)
(* opens and cannot be read.                                               *)
Download(id) ==
  LET rel == Found(id).rel IN IF rel \in output THEN rel ELSE NoPath

(* getResults leaves out what it cannot read. *)
Results == {Download(a.id) : a \in {b \in rec.artifacts : b.id.name = "output.json"}} \ {NoPath}

-----------------------------------------------------------------------------
(* The library, which somebody else changes, and the client's list of it.  *)

(* What happens while the daemon is down can as well happen just before.   *)

(* A file that is written there, anew or over an old one, has the time of  *)
(* now; one that is moved, unpacked or copied with its time has any.       *)
PutReceipt(name, time) ==
  LET file == [name |-> name, dir |-> FALSE, time |-> time] IN
  /\ daemon = "up"
  /\ library' = {e \in library : e.name # name} \union {file}
  /\ latest' = Max({latest, time})
  /\ late' = IF time > latest THEN late \intersect library'
             ELSE (late \intersect library') \union {file}
  /\ UNCHANGED <<listing, tag, daemonVars, requestVars, dirVars, rec>>

RemoveReceipt(name) ==
  /\ daemon = "up"
  /\ \E e \in library : e.name = name
  /\ library' = {e \in library : e.name # name}
  /\ late' = late \intersect library'
  /\ UNCHANGED <<latest, listing, tag, daemonVars, requestVars, dirVars, rec>>

(* If-None-Match: 304 leaves the client with the list it has. *)
ListReceipts ==
  /\ daemon = "up"
  /\ IF ETag(List(library)) = tag THEN UNCHANGED <<listing, tag, late>>
     ELSE listing' = List(library) /\ tag' = ETag(List(library)) /\ late' = {}
  /\ UNCHANGED <<library, latest, daemonVars, requestVars, dirVars, rec>>

-----------------------------------------------------------------------------
CreateRun ==
  \/ Refuse \/ MakeDir \/ SkipCSV \/ RejectCSV \/ StoreCSV \/ SetInt \/ RejectInt
  \/ Sweep \/ AddRecord \/ Enqueue

Next ==
  \/ Boot \/ Crash \/ CreateRun \/ Run \/ Write \/ Finish
  \/ \E name \in Attachments :
       RemoveReceipt(name) \/ \E time \in 0..MaxTime : PutReceipt(name, time)
  \/ ListReceipts

Spec == Init /\ [][Next]_vars

-----------------------------------------------------------------------------
(* What holds of the directory, the answers and the record.                *)

Paths == {NoPath} \union UNION Outputs

RunRecords ==
  {None} \union
  [state : {"queued", "running", "ended", "errored"}, timeout : Int,
   artifacts : SUBSET [id : Paths, rel : Paths]]

RunDirTypeOK ==
  /\ daemon \in {"down", "up", "refused"} /\ boots \in 0..MaxBoots
  /\ manifest \in Manifests /\ q \in Requests
  /\ \A e \in library \ Library : e.name \in Attachments /\ ~e.dir /\ e.time \in 0..latest
  /\ \A e \in listing : e.name \notin Skipped /\ ~e.dir /\ e.time \in 0..latest
  /\ latest \in 0..MaxTime /\ late \subseteq library
  /\ pc \in {"new", "building", "sweeping", "added", "queued", "running", "over", "unswept",
             "cut"}
  /\ reply \in {"none", "refused", "unknown schema", "failed", "full", "accepted"}
  /\ made \in BOOLEAN /\ (inputs # <<>> => made) /\ output \in Outputs \union {{}}
  /\ rec \in RunRecords /\ meta \in RunRecords

(***************************************************************************)
(* A request that has ended leaves a directory only with a record in it,   *)
(* or after a 500: each refusal inside the loop over the inputs undoes     *)
(* what lay.Create and the inputs before have left (handlers.go:209-239),  *)
(* unless the removal itself fails.                                        *)
(***************************************************************************)
LeavesNothing == pc = "over" /\ made => meta # None \/ reply = "failed"

(***************************************************************************)
(* A record on disk means that the inputs are there too, so that "a crash  *)
(* loses only work that was in flight, never a request we acknowledged"    *)
(* (queue.go:88-90): every required CSV was given, every CSV that was      *)
(* given is in a file, its own if no other input has that filename, and    *)
(* the child is told which.                                                *)
(***************************************************************************)
CSVs == {i \in Indices(Wf.inputs) : Wf.inputs[i].kind = "csv"}

OwnFile(i) == \A j \in CSVs : Wf.inputs[j].filename = Wf.inputs[i].filename => j = i

InputsReachTheRun ==
  meta # None =>
    \A i \in CSVs : LET in == Wf.inputs[i] IN
      /\ in.required => in.name \in DOMAIN q.uploads
      /\ in.name \in DOMAIN q.uploads =>
           /\ in.filename \in DOMAIN inputs
           /\ OwnFile(i) => inputs[in.filename] = in.name
           /\ childEnv[in.env] = in.filename

(***************************************************************************)
(* What validateCSV accepts (handlers.go:284-382), told apart from how the *)
(* loop of findHeaderRow gets there: one of the first rows has all of the  *)
(* columns, and below the first such row each cell of an attachment column *)
(* is blank or names a file of the library.                                *)
(***************************************************************************)
FullHeaders(rows, want) ==
  {i \in 1..Min({Len(rows), HeaderScanRows}) :
     \A k \in Indices(want) : \E j \in Indices(rows[i]) : Trimmed(rows[i][j]) = <<want[k]>>}

IsColumn(row, j, name) ==
  /\ Trimmed(row[j]) = <<name>>
  /\ \A k \in Indices(row) : k > j => Trimmed(row[k]) # <<name>>

BlankOrFile(text) == text = <<>> \/ \E e \in library : text = <<e.name>> /\ ~e.dir

Fits(in, upload) ==
  /\ in.schema \in DOMAIN manifest.schemas /\ upload.csv
  /\ LET want == manifest.schemas[in.schema]
         rows == upload.rows
         headers == FullHeaders(rows, want)
         first == Min(headers)
     IN /\ want # <<>> /\ headers # {}
        /\ \A name \in AttachmentColumns, i \in Indices(rows), j \in Indices(rows[first]) :
             i > first /\ j <= Len(rows[i]) /\ IsColumn(rows[first], j, name)
               => BlankOrFile(TrimSpace(rows[i][j]))

VerdictIsRight ==
  daemon = "up" /\ Admissible(q, manifest) =>
    \A i \in CSVs : LET in == Wf.inputs[i] IN
      in.name \in DOMAIN q.uploads =>
        (Verdict(manifest, in, q.uploads[in.name], library) = "ok" <=> Fits(in, q.uploads[in.name]))

(***************************************************************************)
(* "A manifest that names a spec which no longer exists should stop the    *)
(* server booting, not surface as a confusing failure forty minutes into   *)
(* someone's run" (catalog.go:4-6).  What index lets through is enough: no *)
(* request is refused for what is wrong with the manifest (handlers.go:    *)
(* 285-288), and the wall clock of every run that is recorded is positive  *)
(* and bounded, whatever was asked for.  One of more than 30 s leaves      *)
(* Playwright time to give up first (exec.go:193-197); nothing is said of  *)
(* a shorter one.                                                          *)
(***************************************************************************)
ManifestSuffices ==
  /\ reply # "unknown schema"
  /\ rec # None =>
       /\ rec.timeout \in 1..Wf.max
       /\ rec.timeout > 30 => PlaywrightTimeout(rec.timeout) < rec.timeout

(***************************************************************************)
(* What a 304 can keep from a client (receipts.go:69-78).  The ETag has    *)
(* only the count and the newest time, and times are whatever the files    *)
(* came with: the current list may have files the client has not seen, but *)
(* only those that came late, no newer than one before them; and if the    *)
(* client has seen all there are, its copy has none that is gone.          *)
(***************************************************************************)
FreshIfNotModified ==
  tag # <<>> /\ ETag(List(library)) = tag =>
    /\ List(library) \ listing \subseteq late
    /\ List(library) \subseteq listing => listing = List(library)

(***************************************************************************)
(* An artifact is served from its own file: never from another, and        *)
(* nothing is served instead of it unless the daemon that finished the run *)
(* has gone (run.go:58).  The results are those of output.json files of    *)
(* the run, of all of them while that daemon is up (handlers.go:452-541,   *)
(* layout.go:45-61).                                                       *)
(***************************************************************************)
DownloadsAreOwn ==
  rec # None =>
    /\ \A a \in rec.artifacts :
         Download(a.id) = a.id \/ (pc = "cut" /\ Download(a.id) = NoPath)
    /\ LET own == {p \in output : p.name = "output.json"}
       IN Results \subseteq own /\ (pc = "over" /\ rec.state = "ended" => Results = own)
=============================================================================
