---------------------------- MODULE RecordLifecycle ----------------------------
(***************************************************************************)
(* The provenance commands that change a repository: each is a process of  *)
(* its own that loads every record when it starts, works on that copy, and *)
(* reads and writes the shared files - record files, hash manifest, write  *)
(* permissions, git's index and head - one after the other.  Two may run   *)
(* at a time, and one may be killed between any two of its steps.          *)
(*                                                                         *)
(* Directories are never locked by this code, so unlocking one to create a *)
(* declared file is left out.                                              *)
(***************************************************************************)
EXTENDS CommitRules

CONSTANTS Procs,      \* processes that can run at once
          Ids,        \* ids records may get
          Files,      \* tracked files of the tree, specs included
          Shared,     \* records loaded from a shared repository, by id
          Templates,  \* what authors write in a new draft
          Configs     \* configurations, one of which is in force; its field
                      \* budget bounds commands, commits, edits and crashes

AnyId == Ids \cup DOMAIN Shared \cup {None}
Path == Seq(STRING)
Pattern == [kind : {"exact", "glob"}, segs : Path]
             \cup [kind : {"regex"}, valid : BOOLEAN, hits : SUBSET Path, base : Path]

Record ==
    [id : AnyId, type : RecordTypes \cup {""}, status : Statuses, missing : SUBSET STRING,
     malformed : SUBSET {"id", "created_at", "sealed_at_sha"}, long : BOOLEAN, constraints : BOOLEAN,
     affected : SUBSET Pattern, forbidden : SUBSET Pattern, supersedes : AnyId, by : AnyId,
     extends : AnyId, implements : AnyId, related : SUBSET AnyId, specs : SUBSET [path : Path],
     traces : BOOLEAN, monitors : BOOLEAN, sealed : BOOLEAN, locked : BOOLEAN, remote : BOOLEAN]

\* The records of a tree by the id each has.
ById(recs) ==
    /\ recs = [id \in DOMAIN recs |-> recs[id]]
    /\ \A id \in DOMAIN recs : recs[id] \in Record /\ recs[id].id = id

\* Record files that authors wrote may lack the lines of two fields: those of
\* c.unlinked that of superseded_by, and those of c.inList and c.inItem that of
\* sealed_at_sha, which complete then adds in front of an indented list of tags,
\* or in an entry of associated_specs.  A file that create wrote has both lines.
Placed(c) == c.inList \cup c.inItem

\* A repository starts with nothing completed, since it has no manifest.
ASSUME RecordsAssumption ==
    /\ None \notin Ids
    /\ ById(Shared) /\ \A id \in DOMAIN Shared : Shared[id].remote
    /\ \A t \in Templates : t \in Record /\ t.status = "draft" /\ ~t.remote
    /\ \A c \in Configs :
          /\ ById(c.recs) /\ DOMAIN c.recs \subseteq Ids
          /\ \A id \in DOMAIN c.recs : c.recs[id].status # "implemented" /\ ~c.recs[id].remote
          /\ c.budget \in [commands : Nat, commits : Nat, edits : Nat, crashes : Nat]
          /\ c.unlinked \cup Placed(c) \subseteq DOMAIN c.recs

ASSUME ManifestAssumption == \A S \in SUBSET Ids : NoManifest \notin [S -> Record]

VARIABLES disk,      \* record files by id
          manifest,  \* the hash manifest, or NoManifest
          writable,  \* the files whose write bit is set
          head,      \* [recs, manifest] as last committed
          index,     \* [recs, manifest, code]: staged versions, staged code
          log,       \* the commits made
          proc,      \* the commands under way
          config,
          left       \* what is left of config.budget

vars == <<disk, manifest, writable, head, index, log, proc, config, left>>
files == <<disk, manifest, writable>>
repo == <<head, index, log>>

Empty == [i \in {} |-> {}]
Idle == [pc |-> "idle", cmd |-> "none", id |-> None]

Put(f, i, x) == [j \in DOMAIN f \cup {i} |-> IF j = i THEN x ELSE f[j]]
Drop(f, i) == [j \in DOMAIN f \ {i} |-> f[j]]
Over(f, g) == [j \in DOMAIN f \cup DOMAIN g |-> IF j \in DOMAIN f THEN f[j] ELSE g[j]]
Ran(f) == {f[i] : i \in DOMAIN f}

LoadAll == Over(disk, Shared)

\* The developer waits for a command to end, unless commands may overlap.
Alone == config.concurrent \/ \A q \in Procs : proc[q] = Idle

SealedIn(m) == IF m = NoManifest THEN Empty ELSE m

World(recs) == [recs |-> recs, files |-> Files, manifest |-> manifest,
                enforcement |-> config.enforcement, exclude |-> config.exclude]

-----------------------------------------------------------------------------
(***************************************************************************)
(* SaveRecord: a new file is written whole; of an existing one only the    *)
(* lines of three fields are rewritten, and an empty value does not        *)
(* replace another.  Where there is no such line superseded_by is left     *)
(* out, and sealed_at_sha is added under the last line with a colon: where *)
(* a list follows, the list becomes part of the value, and where that line *)
(* is an entry's of associated_specs, the field is that entry's.           *)
(***************************************************************************)
UnsealedYAMLText(old, r) ==   \* mutant: sealed_at_sha is not among the fields
    [old EXCEPT !.status = r.status,
                !.by     = IF r.by = None \/ r.id \in config.unlinked THEN @ ELSE r.by]

updateRecordYAMLText(old, r) ==
    [old EXCEPT !.status = r.status,
                !.sealed = @ \/ (r.sealed /\ r.id \notin config.inItem),
                !.malformed = IF r.sealed /\ r.id \in config.inList THEN @ \cup {"sealed_at_sha"} ELSE @,
                !.by     = IF r.by = None \/ r.id \in config.unlinked THEN @ ELSE r.by]

SaveRecord(d, r) ==
    Put(d, r.id, IF r.id \in DOMAIN d THEN updateRecordYAMLText(d[r.id], r) ELSE r)

CompileManifest(m, recs) ==
    LET sealed == {id \in DOMAIN recs : ~recs[id].remote /\ isTerminalStatus(recs[id].status)}
        kept   == DOMAIN SealedIn(m) \ (DOMAIN recs \ sealed)
        merged == [id \in kept \cup sealed |->
                      IF id \in sealed THEN Content(recs[id]) ELSE m[id]]
    IN  IF merged = SealedIn(m) THEN m ELSE merged

-----------------------------------------------------------------------------
(***************************************************************************)
(* Write permission.                                                       *)
(***************************************************************************)
Always(recs) == AlwaysWritablePaths(config, Ran(recs))
Projected(f, recs) == IsWritablePath(f, Always(recs), OpenAllowlistScope(Ran(recs)))

\* The files an exact scope path names; patterns are left to reconcile.
materializeTargets(scope) == {p.segs : p \in {q \in scope : q.kind = "exact"}} \cap Files

MaterializeScope(w, scope) == w \cup materializeTargets(scope)

RelockedAlways(w, closed, recs) ==   \* mutant: other open records are not looked at
    IF config.restrict THEN w \ materializeTargets(closed.affected) ELSE w

Relocked(w, closed, recs) ==
    IF config.restrict
    THEN w \ {f \in materializeTargets(closed.affected) : ~Projected(f, recs)}
    ELSE w

ColdStartSkip(recs) == recs = Empty /\ ~config.cloned

OnlyUnlocked(w, recs) ==   \* mutant: what is writable is never locked again
    LET mine == boundToOwnConfigDir(config.ownDir, Files)
    IN  IF ~config.restrict THEN w \cup mine
        ELSE IF ColdStartSkip(recs) THEN w
        ELSE w \cup {f \in mine : Projected(f, recs)}

Reconciled(w, recs) ==
    LET mine == boundToOwnConfigDir(config.ownDir, Files)
    IN  IF ~config.restrict THEN w \cup mine
        ELSE IF ColdStartSkip(recs) THEN w
        ELSE (w \ mine) \cup {f \in mine : Projected(f, recs)}

-----------------------------------------------------------------------------
(***************************************************************************)
(* Git.  The installed hooks lint the staged records, run the specs of one *)
(* that goes from open to implemented, and check the scope of the commit.  *)
(***************************************************************************)
Changed(a, b) == {id \in DOMAIN a \cup DOMAIN b :
                    ~(id \in DOMAIN a /\ id \in DOMAIN b /\ a[id] = b[id])}

StagedFiles(ix) ==
    {RecordPath(id) : id \in Changed(head.recs, ix.recs)}
        \cup ix.code \cup (IF ix.manifest = head.manifest THEN {} ELSE {ManifestPath})

Commit(ix, tags) ==
    [tags |-> tags, files |-> StagedFiles(ix), before |-> head.recs, after |-> ix.recs]

HookRunsSpecs(c) ==
    /\ config.runSpecs
    /\ \E f \in c.files : /\ Holds(c.before, f) /\ At(c.before, f).status = "open"
                          /\ Holds(c.after, f) /\ At(c.after, f).status = "implemented"
                          /\ LoadAll[Base(f)].specs # {}

PreCommit(c) ==
    \A id \in Changed(c.before, c.after) \cap DOMAIN LoadAll :
        ~HasErrors(LintRecord(World(LoadAll), id))

CommitMsg(c) == CheckStaged(c, LoadAll, config.exclude, config.tagRequired) = {}

\* Other hooks, or a failing spec, may refuse any commit; git an empty one.
MayPass(c) == c.files # {} /\ (config.hook => PreCommit(c) /\ CommitMsg(c))
MayFail(c) == ~MayPass(c) \/ config.faults \/ (config.hook /\ HookRunsSpecs(c))

Committed(ix, c) ==
    /\ head' = [recs |-> ix.recs, manifest |-> ix.manifest]
    /\ index' = [ix EXCEPT !.code = {}]
    /\ log' = log \cup {c}

Add(ix, id) == [ix EXCEPT !.recs = Put(@, id, disk[id])]

Reset(ix, id) ==
    [ix EXCEPT !.recs = IF id \in DOMAIN head.recs THEN Put(@, id, head.recs[id]) ELSE Drop(@, id)]

-----------------------------------------------------------------------------
(***************************************************************************)
(* A command starts: it loads the records, and refuses what it can see.    *)
(***************************************************************************)
Lockable(r) == ~r.remote /\ r.status # "implemented"

AddedScope(recs, r) ==
    {Exact(f) : f \in {g \in GetFilesChangedInCommits(log, r.id) :
        g # RecordPath(r.id) /\ ~IsPathExcluded(g, Always(recs))}} \ r.affected

\* NextID draws at random: two commands never draw one id.
Fresh(recs, id) == id \notin DOMAIN recs /\ \A q \in Procs : proc[q].id # id

Accepts(cmd, recs, id, force) ==
    LET r == recs[id]
    IN  CASE cmd \in {"create", "locklayer"} -> Fresh(recs, id)
          [] cmd = "open"      -> id \in DOMAIN recs /\ ~r.remote /\ r.status = "draft"
          [] cmd = "complete"  -> /\ id \in DOMAIN recs /\ ~r.remote /\ r.status # "implemented"
                                  /\ force \/ \A s \in r.specs : s.path \in Entries(Files)
          [] cmd = "deprecate" -> id \in DOMAIN recs /\ ~r.remote
                                  /\ r.status \notin {"deprecated", "superseded"}
          [] cmd = "lockscope" -> id \in DOMAIN recs /\ Lockable(r) /\ ScopeMode(r) = "observed"
          [] cmd = "addscope"  -> /\ id \in DOMAIN recs /\ Lockable(r) /\ ScopeMode(r) = "allowlist"
                                  /\ AddedScope(recs, r) # {}

OnRecord == {"create", "locklayer", "open", "complete", "deprecate", "lockscope", "addscope"}
OnAll == {"reconcile", "compile", "savescope"}

Begin(p, command) ==
    /\ proc[p] = Idle
    /\ left.commands > 0
    /\ Alone
    /\ left' = [left EXCEPT !.commands = @ - 1]
    /\ proc' = [proc EXCEPT ![p] = Over(command, [pc |-> "loaded", mem |-> LoadAll, before |-> files])]
    /\ UNCHANGED <<files, repo, config>>

Start(p, cmd, id, force) ==
    /\ cmd \in config.commands /\ Accepts(cmd, LoadAll, id, force)
    /\ Begin(p, [cmd |-> cmd, id |-> id, force |-> force])

StartOnAll(p, cmd) ==
    /\ cmd \in config.commands
    /\ Begin(p, [cmd |-> cmd, id |-> None, force |-> FALSE])

Running(p, cmds, pc) == proc[p].pc = pc /\ proc[p].cmd \in cmds
Mem(p) == proc[p].mem
Mine(p) == proc[p].mem[proc[p].id]

Goto(p, pc) == proc' = [proc EXCEPT ![p].pc = pc]
Done(p) == proc' = [proc EXCEPT ![p] = Idle]

-----------------------------------------------------------------------------
(***************************************************************************)
(* Create, and the first half of lock-layer: the new file, then the record *)
(* it supersedes.                                                          *)
(***************************************************************************)
Draft(t, id, supersedes, locked) ==
    [t EXCEPT !.id = id, !.supersedes = supersedes, !.locked = locked]

createRecord(p, t, supersedes) ==
    LET mem == Mem(p)
        new == Draft(t, proc[p].id, supersedes, proc[p].cmd = "locklayer")
    IN  /\ Running(p, {"create", "locklayer"}, "loaded")
        /\ supersedes # None => supersedes \in DOMAIN mem /\ mem[supersedes].by = None
        /\ proc[p].cmd = "locklayer" => supersedes = None
        /\ disk' = SaveRecord(disk, new)
        /\ proc' = [proc EXCEPT ![p].mem = Put(mem, new.id, new), ![p].pc = "created"]
        /\ UNCHANGED <<manifest, writable, repo, config, left>>

Supersede(p) ==
    LET target == Mine(p).supersedes
        old    == [Mem(p)[target] EXCEPT !.by = proc[p].id, !.status = "superseded"]
    IN  /\ Running(p, {"create"}, "created")
        /\ disk' = IF target = None \/ Mem(p)[target].remote THEN disk ELSE SaveRecord(disk, old)
        /\ Done(p)
        /\ UNCHANGED <<manifest, writable, repo, config, left>>

\* lock-layer commits the draft before it seals it.
CommitDraft(p) ==
    LET ix == Add(index, proc[p].id)
        c  == Commit(ix, {proc[p].id})
    IN  /\ Running(p, {"locklayer"}, "created")
        /\ proc[p].id \in DOMAIN disk
        /\ IF config.commit
           THEN \/ MayPass(c) /\ Committed(ix, c) /\ Goto(p, "loaded2")
                \/ MayFail(c) /\ index' = ix /\ Done(p) /\ UNCHANGED <<head, log>>
           ELSE Goto(p, "loaded2") /\ UNCHANGED repo
        /\ UNCHANGED <<files, config, left>>

\* ... and goes on as complete --force.
SealLayer(p) ==
    /\ Running(p, {"locklayer"}, "loaded2")
    /\ proc' = [proc EXCEPT ![p].cmd = "complete", ![p].force = TRUE, ![p].pc = "loaded",
                            ![p].before = files]
    /\ UNCHANGED <<files, repo, config, left>>

-----------------------------------------------------------------------------
(***************************************************************************)
(* Open, complete and deprecate: snapshot and save, (seal,) validate,      *)
(* (unlock,) commit, (re-lock).                                            *)
(***************************************************************************)
Transition == {"open", "complete", "deprecate"}
NextStatus == [open |-> "open", complete |-> "implemented", deprecate |-> "deprecated"]

Save(p) ==
    LET cmd == proc[p].cmd
        r   == [Mine(p) EXCEPT !.status = NextStatus[cmd], !.sealed = @ \/ cmd = "complete"]
        unlocks == materializeTargets(r.affected)
    IN  /\ Running(p, Transition, "loaded")
        /\ r.id \in DOMAIN disk
        /\ disk' = SaveRecord(disk, r)
        /\ proc' = [proc EXCEPT ![p] =
              Over([snap |-> disk[r.id], snapManifest |-> manifest,
                    targets |-> unlocks, perms |-> unlocks \cap writable, copy |-> NoManifest],
                   [@ EXCEPT !.mem[r.id] = r, !.pc = "saved"])]
        /\ UNCHANGED <<manifest, writable, repo, config, left>>

\* SealRecord reads the manifest and writes it back whole.
ReadManifest(p) ==
    /\ Running(p, {"complete"}, "saved")
    /\ proc' = [proc EXCEPT ![p].copy = manifest, ![p].pc = "sealing"]
    /\ UNCHANGED <<files, repo, config, left>>

SealFirst(p) ==   \* mutant: the hash is of the record before it was saved
    /\ Running(p, {"complete"}, "sealing")
    /\ \/ manifest' = Put(SealedIn(proc[p].copy), proc[p].id, Content(proc[p].snap))
       \/ config.faults /\ UNCHANGED manifest
    /\ Goto(p, "sealed")
    /\ UNCHANGED <<disk, writable, repo, config, left>>

SealRecord(p) ==
    /\ Running(p, {"complete"}, "sealing")
    /\ \/ manifest' = Put(SealedIn(proc[p].copy), proc[p].id, Content(Mine(p)))
       \/ config.faults /\ UNCHANGED manifest
    /\ Goto(p, "sealed")
    /\ UNCHANGED <<disk, writable, repo, config, left>>

RollbackFiles(p) ==   \* mutant: write bits are not restored
    LET r == proc[p]
    IN  /\ disk' = Put(disk, r.id, r.snap)
        /\ manifest' = IF r.cmd = "complete" THEN r.snapManifest ELSE manifest
        /\ UNCHANGED writable
        /\ Done(p)

Rollback(p) ==
    LET r == proc[p]
    IN  /\ disk' = Put(disk, r.id, r.snap)
        /\ manifest' = IF r.cmd = "complete" THEN r.snapManifest ELSE manifest
        /\ writable' = IF r.cmd = "open" THEN (writable \ r.targets) \cup r.perms ELSE writable
        /\ Done(p)

ToValidate(p) == Running(p, {"open"}, "saved") \/ Running(p, {"complete"}, "sealed")
Invalid(p) == HasErrors(LintRecord(World(Mem(p)), proc[p].id))

Refuse(p) ==
    /\ ToValidate(p) /\ Invalid(p)
    /\ Rollback(p)
    /\ UNCHANGED <<repo, config, left>>

Validate(p) ==
    /\ ToValidate(p) /\ ~Invalid(p)
    /\ Goto(p, "valid")
    /\ UNCHANGED <<files, repo, config, left>>

\* The specs of the record, and in block mode those of the sealed records the
\* commits tagged with it touched, may fail.
OwnSpecs(p) == ~proc[p].force /\ config.runSpecs /\ Mine(p).specs # {}

Touched(p) ==
    IF config.overlap = "off" THEN {} ELSE completionOverlapSelector(Mem(p), log, proc[p].id)

BlockedByOverlap(p) ==
    config.overlap = "block" /\ config.runSpecs /\ \E id \in Touched(p) : Mem(p)[id].specs # {}

SpecsFail(p) ==
    /\ Running(p, {"complete"}, "valid")
    /\ OwnSpecs(p) \/ BlockedByOverlap(p)
    /\ Rollback(p)
    /\ UNCHANGED <<repo, config, left>>

SpecsPass(p) ==
    /\ Running(p, {"complete"}, "valid")
    /\ Goto(p, "ready")
    /\ UNCHANGED <<files, repo, config, left>>

Unlock(p) ==
    /\ Running(p, {"open"}, "valid")
    /\ writable' = MaterializeScope(writable, Mine(p).affected)
    /\ Goto(p, "ready")
    /\ UNCHANGED <<disk, manifest, repo, config, left>>

ToCommit(p) == Running(p, {"open", "complete"}, "ready") \/ Running(p, {"deprecate"}, "saved")

StagedBy(p) ==
    [Add(index, proc[p].id) EXCEPT !.manifest = IF proc[p].cmd = "complete" THEN manifest ELSE @]

CommitStatus(p) ==
    LET c == Commit(StagedBy(p), {proc[p].id})
    IN  /\ ToCommit(p) /\ proc[p].id \in DOMAIN disk
        /\ IF config.commit THEN MayPass(c) /\ Committed(StagedBy(p), c) ELSE UNCHANGED repo
        /\ Goto(p, "committed")
        /\ UNCHANGED <<files, config, left>>

CommitRejected(p) ==
    LET c == Commit(StagedBy(p), {proc[p].id})
        unstaged == Reset(index, proc[p].id)
    IN  /\ ToCommit(p) /\ proc[p].id \in DOMAIN disk
        /\ config.commit /\ MayFail(c)
        /\ Rollback(p)
        /\ index' = IF proc[p].cmd = "complete" THEN [unstaged EXCEPT !.manifest = head.manifest]
                                                ELSE unstaged
        /\ UNCHANGED <<head, log, config, left>>

relockClosedScope(p) ==
    /\ Running(p, Transition, "committed")
    /\ writable' = IF proc[p].cmd = "open" THEN writable ELSE Relocked(writable, Mine(p), Mem(p))
    /\ Done(p)
    /\ UNCHANGED <<disk, manifest, repo, config, left>>

-----------------------------------------------------------------------------
(***************************************************************************)
(* Scope taken from git's history reaches memory and the write bits; of    *)
(* the record file only the three fields are rewritten.                    *)
(***************************************************************************)
ChangeScope(p) ==
    LET r     == Mine(p)
        added == IF proc[p].cmd = "lockscope" THEN AutoPopulateScope(r, log)
                                              ELSE AddedScope(Mem(p), r)
    IN  /\ Running(p, {"lockscope", "addscope"}, "loaded")
        /\ r.id \in DOMAIN disk
        /\ disk' = SaveRecord(disk, [r EXCEPT !.affected = @ \cup added])
        /\ writable' = IF r.status = "open" THEN MaterializeScope(writable, added) ELSE writable
        /\ Done(p)
        /\ UNCHANGED <<manifest, repo, config, left>>

\* status --save-scope, for every open record without a scope.
SaveScope(p) ==
    LET populated == {id \in DOMAIN Mem(p) : /\ Mem(p)[id].status = "open" /\ ~Mem(p)[id].remote
                                             /\ ScopeMode(Mem(p)[id]) = "observed"
                                             /\ AutoPopulateScope(Mem(p)[id], log) # {}}
    IN  /\ Running(p, {"savescope"}, "loaded")
        /\ disk' = [id \in DOMAIN disk |->
                       IF id \in populated THEN updateRecordYAMLText(disk[id], Mem(p)[id]) ELSE disk[id]]
        /\ Done(p)
        /\ UNCHANGED <<manifest, writable, repo, config, left>>

\* reconcile, and the start of every `next`.
Reconcile(p) ==
    /\ Running(p, {"reconcile"}, "loaded")
    /\ writable' = Reconciled(writable, Mem(p))
    /\ Done(p)
    /\ UNCHANGED <<disk, manifest, repo, config, left>>

Compile(p) ==
    /\ Running(p, {"compile"}, "loaded")
    /\ manifest' = CompileManifest(manifest, Mem(p))
    /\ Done(p)
    /\ UNCHANGED <<disk, writable, repo, config, left>>

Crash(p) ==
    /\ proc[p] # Idle /\ left.crashes > 0
    /\ left' = [left EXCEPT !.crashes = @ - 1]
    /\ Done(p)
    /\ UNCHANGED <<files, repo, config>>

-----------------------------------------------------------------------------
(***************************************************************************)
(* The developer: edits a record by hand, commits code and record files.   *)
(***************************************************************************)
HandEdit(id, status) ==
    /\ Alone /\ left.edits > 0 /\ id \in DOMAIN disk
    /\ left' = [left EXCEPT !.edits = @ - 1]
    /\ disk' = [disk EXCEPT ![id].status = status, ![id].long = ~@]
    /\ UNCHANGED <<manifest, writable, repo, proc, config>>

StageRecord(id) ==
    /\ Alone /\ left.commits > 0 /\ id \in DOMAIN disk /\ index # Add(index, id)
    /\ index' = Add(index, id)
    /\ UNCHANGED <<files, head, log, proc, config, left>>

StageCode(f) ==
    /\ Alone /\ left.commits > 0 /\ f \in (config.code \cap writable) \ index.code
    /\ index' = [index EXCEPT !.code = @ \cup {f}]
    /\ UNCHANGED <<files, head, log, proc, config, left>>

UserCommit(tags) ==
    LET c == Commit(index, tags)
    IN  /\ Alone /\ left.commits > 0 /\ MayPass(c)
        /\ left' = [left EXCEPT !.commits = @ - 1]
        /\ Committed(index, c)
        /\ UNCHANGED <<files, proc, config>>

-----------------------------------------------------------------------------
Init ==
    /\ config \in Configs
    /\ disk = config.recs /\ manifest = NoManifest
    /\ writable = Reconciled(Files, Over(config.recs, Shared))
    /\ head = [recs |-> config.recs, manifest |-> NoManifest]
    /\ index = [recs |-> config.recs, manifest |-> NoManifest, code |-> {}]
    /\ log = {} /\ proc = [p \in Procs |-> Idle] /\ left = config.budget

Step(p) ==
    \/ \E t \in Templates, s \in DOMAIN LoadAll \cup {None} : createRecord(p, t, s)
    \/ Supersede(p) \/ CommitDraft(p) \/ SealLayer(p)
    \/ Save(p) \/ ReadManifest(p) \/ SealRecord(p) \/ Refuse(p) \/ Validate(p)
    \/ SpecsFail(p) \/ SpecsPass(p) \/ Unlock(p)
    \/ CommitStatus(p) \/ CommitRejected(p) \/ relockClosedScope(p)
    \/ ChangeScope(p) \/ SaveScope(p) \/ Reconcile(p) \/ Compile(p)

Next ==
    \/ \E p \in Procs :
          \/ \E cmd \in OnRecord, id \in Ids, force \in BOOLEAN : Start(p, cmd, id, force)
          \/ \E cmd \in OnAll : StartOnAll(p, cmd)
          \/ Step(p) \/ Crash(p)
    \/ \E id \in Ids, s \in Statuses : HandEdit(id, s)
    \/ \E id \in Ids : StageRecord(id)
    \/ \E f \in Files : StageCode(f)
    \/ \E tags \in {{}} \cup {{id} : id \in Ids} : UserCommit(tags)

Spec == Init /\ [][Next]_vars
=============================================================================
