------------------------------ MODULE CommitRules ------------------------------
(***************************************************************************)
(* Which commits a provenance record allows: the check of the commit hook  *)
(* on what is staged, and the audit of a commit already made.  Both look   *)
(* at a change                                                             *)
(*                                                                         *)
(*   c.tags            the record ids its message names                    *)
(*   c.files           the paths it changes                                *)
(*   c.before, c.after the record files before and after it, by id         *)
(***************************************************************************)
EXTENDS RecordLint

\* Record r lives in provenance/<id>.yml; the manifest has one place.
RecordPath(id) == <<"provenance", id>>
ManifestPath == <<".linespec", "hash_manifest.json">>
Base(f) == f[Len(f)]

isRecordFile(f, r) == Base(f) = r.id
isHashManifest(f) == f = ManifestPath
isFileForbiddenForRecord(f, r) == MatchesAny(f, r.forbidden)

At(tree, f) == tree[Base(f)]
Holds(tree, f) == Len(f) > 1 /\ f = RecordPath(Base(f)) /\ Base(f) \in DOMAIN tree

wasRecordImplemented(tree, id) == id \in DOMAIN tree /\ tree[id].status = "implemented"

isImplementsFile(c, f, id) == Holds(c.after, f) /\ At(c.after, f).implements = id

isCompletionTransition(c, f) ==
    /\ Holds(c.before, f) /\ Holds(c.after, f)
    /\ At(c.before, f).status \in {"open", "draft"}
    /\ At(c.after, f).status = "implemented"

isSupersessionTransition(c, f, by) ==
    /\ Holds(c.before, f) /\ Holds(c.after, f)
    /\ At(c.before, f).status = "implemented"
    /\ At(c.after, f).status = "superseded" /\ At(c.after, f).by = by

SupersedesThrough(c, r, f) ==
    r.supersedes # None /\ Base(f) = r.supersedes /\ isSupersessionTransition(c, f, r.id)

\* What neither check ever looks at: excluded files, the manifest, and the
\* records that implement this one.
Enforceable(c, exclude, id) ==
    {f \in c.files : ~IsPathExcluded(f, exclude) /\ ~isHashManifest(f) /\ ~isImplementsFile(c, f, id)}

Violation(id, f) == [record |-> id, file |-> f]

-----------------------------------------------------------------------------
(***************************************************************************)
(* Staged: the record is read as it stands in the working tree.            *)
(***************************************************************************)
MayStageUnsealed(c, r, f) ==   \* mutant: any file of a record still being edited
    \/ r.status \in {"open", "draft"} /\ ~isFileForbiddenForRecord(f, r)
    \/ SupersedesThrough(c, r, f)
    \/ IsInScope(r, f)

MayStage(c, r, f) ==
    \/ /\ isRecordFile(f, r) /\ ~isFileForbiddenForRecord(f, r)
       /\ r.status \in {"open", "draft"} \/ isCompletionTransition(c, f)
    \/ SupersedesThrough(c, r, f)
    \/ IsInScope(r, f)

StagedViolations(c, exclude, r) ==
    LET files == Enforceable(c, exclude, r.id)
    IN  IF files = {} THEN {}
        ELSE IF /\ r.status = "implemented"
                /\ ~\E f \in files : isRecordFile(f, r) /\ isCompletionTransition(c, f)
             THEN {Violation(r.id, None)}
             ELSE {Violation(r.id, f) : f \in {g \in files : ~MayStage(c, r, g)}}

CheckStaged(c, loaded, exclude, commitTagRequired) ==
    IF c.tags = {}
    THEN When(commitTagRequired /\ \E f \in c.files : ~IsPathExcluded(f, exclude), Violation(None, None))
    ELSE UNION {StagedViolations(c, exclude, loaded[id]) : id \in c.tags \cap DOMAIN loaded}

-----------------------------------------------------------------------------
(***************************************************************************)
(* Committed: a record that was not yet sealed before the commit is judged *)
(* as such, whatever it has become.                                        *)
(***************************************************************************)
MayCommit(c, r, f) ==
    \/ isRecordFile(f, r) /\ ~isFileForbiddenForRecord(f, r)
    \/ SupersedesThrough(c, r, f)
    \/ IsInScope(r, f)

CommitViolations(c, exclude, r) ==
    LET files == Enforceable(c, exclude, r.id)
    IN  IF wasRecordImplemented(c.before, r.id)
        THEN When(files # {}, Violation(r.id, None))
        ELSE {Violation(r.id, f) : f \in {g \in files : ~MayCommit(c, r, g)}}

CheckCommit(c, loaded, exclude) ==
    UNION {CommitViolations(c, exclude, loaded[id]) : id \in c.tags \cap DOMAIN loaded}

CheckRange(commits, loaded, exclude) == UNION {CheckCommit(c, loaded, exclude) : c \in commits}

-----------------------------------------------------------------------------
(***************************************************************************)
(* What git's history says of a record: the files of the commits tagged    *)
(* with it, and the sealed records those files belong to.                  *)
(***************************************************************************)
GetFilesChangedInCommits(commits, id) == UNION {c.files : c \in {d \in commits : id \in d.tags}}

AutoPopulateScope(r, commits) ==
    IF ScopeMode(r) = "allowlist" THEN r.affected
    ELSE {Exact(f) : f \in GetFilesChangedInCommits(commits, r.id)}

overlappingSealedRecords(loaded, self, files) ==
    {id \in DOMAIN loaded \ {self} :
        /\ loaded[id].status = "implemented" /\ loaded[id].sealed /\ ~loaded[id].remote
        /\ \E f \in files : IsInScope(loaded[id], f)}

completionOverlapSelector(loaded, commits, self) ==
    overlappingSealedRecords(loaded, self, GetFilesChangedInCommits(commits, self))

declaredOverlapSealedRecords(loaded, self) ==
    {id \in DOMAIN loaded \ {self} :
        /\ loaded[id].status = "implemented" /\ loaded[id].sealed /\ ~loaded[id].remote
        /\ scopesOverlap(loaded[self], loaded[id])}
=============================================================================
