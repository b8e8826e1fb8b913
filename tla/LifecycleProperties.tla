-------------------------- MODULE LifecycleProperties --------------------------
(***************************************************************************)
(* What the provenance commands promise.  Commands may overlap, be killed  *)
(* and fail to write, and a record may be edited by hand: the names below  *)
(* say which of these a promise survives.                                  *)
(***************************************************************************)
EXTENDS RecordLifecycle

OneAtATime == ~config.concurrent /\ config.budget.crashes = 0
Untampered == OneAtATime /\ config.budget.edits = 0
AllIdle == \A p \in Procs : proc[p] = Idle

Ended(p) == proc[p] # Idle /\ proc'[p] = Idle /\ left' = left
Local(recs) == {id \in DOMAIN recs : ~recs[id].remote}

-----------------------------------------------------------------------------
(***************************************************************************)
(* Complete seals what it saves: with one command at a time, no hand edits *)
(* and no failing write, every implemented record has an entry in the      *)
(* manifest that is the hash of the record as it is on disk, across        *)
(* roll-backs, re-completions and compiles - of the records whose file has *)
(* a line for sealed_at_sha, or a place for it at its end, as every file   *)
(* that create wrote has.  Of the others it fails, against "preserve       *)
(* formatting by updating specific fields" (loader.go:229).                *)
(***************************************************************************)
SealsAgree(id) ==
    disk[id].status = "implemented" => id \in DOMAIN SealedIn(manifest) /\ manifest[id] = disk[id]

SealMatchesRecord ==
    AllIdle /\ Untampered /\ ~config.faults => \A id \in DOMAIN disk \ Placed(config) : SealsAgree(id)

(***************************************************************************)
(* Open, complete and deprecate are all or nothing: a command that ends    *)
(* without moving its record to the new status leaves the record file, the *)
(* manifest, every write bit and git's index as it found them.             *)
(***************************************************************************)
Unstaged(ix, id) == id \in DOMAIN ix.recs => id \in DOMAIN head.recs /\ ix.recs[id] = head.recs[id]

AllOrNothing ==
    [][\A p \in Procs :
        OneAtATime /\ Ended(p) /\ proc[p].cmd \in Transition =>
            LET id == proc[p].id
            IN  \/ disk'[id].status = NextStatus[proc[p].cmd]
                \/ files' = proc[p].before /\ (Unstaged(index', id) \/ index' = index)]_vars

(***************************************************************************)
(* Sealing does not invalidate: a record that lints without an error when  *)
(* complete starts is not refused by complete's own lint of what it is     *)
(* about to make immutable - unless it was a draft, of which lint does not *)
(* look at scope and specs.                                                *)
(***************************************************************************)
CleanBefore(p) ==
    LET recs == Over(proc[p].before[1], Shared)
        w    == [World(recs) EXCEPT !.manifest = proc[p].before[2]]
    IN  recs[proc[p].id].status # "draft" /\ ~HasErrors(LintRecord(w, proc[p].id))

CleanRecordCompletes ==
    [][\A p \in Procs :
        OneAtATime /\ ~config.faults /\ Running(p, {"complete"}, "sealed") /\ proc'[p] = Idle =>
            ~CleanBefore(p)]_vars

(***************************************************************************)
(* The commands pass their own hook: when open or complete commits a       *)
(* record that git holds as draft or open (open: or does not hold yet),    *)
(* and nothing else is staged, the commit check has no objection, unless   *)
(* the record forbids its own file.                                        *)
(***************************************************************************)
InHeadAs(id, statuses) == id \in DOMAIN head.recs /\ head.recs[id].status \in statuses

OwnCommitsPassTheHook ==
    \A p \in Procs :
        LET id == proc[p].id
            c  == Commit(StagedBy(p), {id})
        IN  /\ Untampered /\ config.commit
            /\ Running(p, {"open", "complete"}, "ready") /\ id \in DOMAIN disk
            /\ c.files \subseteq {RecordPath(id), ManifestPath}
            /\ ~isFileForbiddenForRecord(RecordPath(id), disk[id])
            /\ InHeadAs(id, {"draft", "open"}) \/ (proc[p].cmd = "open" /\ id \notin DOMAIN head.recs)
            => CommitMsg(c)

(***************************************************************************)
(* The audit agrees with the hook: a commit the hook let through, of a     *)
(* record that git then holds and that was not sealed before it, is never  *)
(* reported later, whatever becomes of the record.                         *)
(***************************************************************************)
AuditAgreesWithHook ==
    config.hook =>
        \A c \in log : (\A id \in c.tags : id \in DOMAIN c.after /\ ~wasRecordImplemented(c.before, id)) =>
                          CheckCommit(c, LoadAll, config.exclude) = {}

(***************************************************************************)
(* Hook, commands and audit apply one set of rules at three moments, and   *)
(* none refuses what another of them made or let through.                  *)
(***************************************************************************)
HookAgrees == OwnCommitsPassTheHook /\ AuditAgreesWithHook

(***************************************************************************)
(* The files an open record names can be written: through openings,        *)
(* closings of records with overlapping scopes, roll-backs and reconciles. *)
(***************************************************************************)
OpenScopeWritable ==
    AllIdle /\ Untampered =>
        \A id \in Local(disk) : disk[id].status = "open" =>
            materializeTargets(disk[id].affected) \subseteq writable

(***************************************************************************)
(* reconcile repairs: after it no file this configuration governs is       *)
(* writable that no open record and no exemption covers, whatever crashes, *)
(* fault or edits came before.                                             *)
(***************************************************************************)
ReconcileRepairs ==
    [][\A p \in Procs :
        ~config.concurrent /\ Ended(p) /\ proc[p].cmd = "reconcile" /\ config.restrict
            /\ ~ColdStartSkip(LoadAll) =>
            \A f \in boundToOwnConfigDir(config.ownDir, Files) :
                f \in writable' <=> Projected(f, LoadAll)]_vars
=============================================================================
