------------------------------ MODULE RecordLint ------------------------------
(***************************************************************************)
(* The provenance linter.  Its rules read a repository                     *)
(*                                                                         *)
(*   w.recs         the loaded records, by id                              *)
(*   w.files        the files on disk                                      *)
(*   w.manifest     id -> sealed content, or NoManifest                    *)
(*   w.enforcement  "none", "warn" or "strict"                             *)
(*   w.exclude      exclude_paths                                          *)
(*                                                                         *)
(* and a record, whose texts are abstracted to what the rules ask of them: *)
(* missing (required fields left blank), malformed (fields in a wrong      *)
(* format), long (a title over 120 characters), and whether it has         *)
(* constraints, traces and monitors.  An issue is [record, rule, severity].*)
(***************************************************************************)
EXTENDS ScopePatterns

CONSTANTS None,         \* an empty reference
          NoManifest    \* there is no hash_manifest.json

Statuses == {"draft", "open", "implemented", "superseded", "deprecated"}
RecordTypes == {"brief", "blueprint", "bug", "imprint"}
isTerminalStatus(s) == s \in {"implemented", "superseded", "deprecated"}

effectiveType(r) == IF r.type = "" THEN "blueprint" ELSE r.type

Content(r) == [r EXCEPT !.remote = FALSE]

Issue(r, rule, severity) == [record |-> r.id, rule |-> rule, severity |-> severity]
When(bad, issue) == IF bad THEN {issue} ELSE {}

Known(w, id) == id \in DOMAIN w.recs

-----------------------------------------------------------------------------
(***************************************************************************)
(* Fields.                                                                 *)
(***************************************************************************)
validateRequiredFields(r) ==
    {Issue(r, field, "error") : field \in r.missing}
    \cup When(effectiveType(r) = "brief" /\ ~r.constraints, Issue(r, "constraints", "error"))
    \cup When(effectiveType(r) = "imprint" /\ r.implements = None, Issue(r, "implements", "error"))

\* A blank field is reported once, as missing.
validateFormats(r) ==
    {Issue(r, field, "error") : field \in (r.malformed \cap {"id", "created_at"}) \ r.missing}
    \cup When(r.status \notin Statuses /\ "status" \notin r.missing, Issue(r, "status", "error"))

validateType(r) ==
    When(r.type = "", Issue(r, "type", "hint"))
    \cup When(r.type \notin RecordTypes \cup {""}, Issue(r, "type", "error"))

validateNotApplicableFields(r) ==
    {Issue(r, "not applicable", "warning") : field \in
        {f \in {"affected_scope", "forbidden_scope", "associated_specs"} :
            /\ effectiveType(r) = "brief"
            /\ CASE f = "affected_scope" -> r.affected # {}
                 [] f = "forbidden_scope" -> r.forbidden # {}
                 [] f = "associated_specs" -> r.specs # {}}}
    \cup When(effectiveType(r) = "imprint" /\ (r.traces \/ r.monitors),
              Issue(r, "not applicable", "warning"))

validateTitleLength(r) == When(r.long, Issue(r, "title length", "warning"))

validateConstraintsHint(r) ==
    When("intent" \notin r.missing /\ ~r.constraints, Issue(r, "constraints", "hint"))

validateSealedAtSHA(r) ==
    When(r.sealed /\ ~isTerminalStatus(r.status), Issue(r, "sealed_at_sha", "warning"))
    \cup When(r.sealed /\ "sealed_at_sha" \in r.malformed, Issue(r, "sealed_at_sha", "warning"))

-----------------------------------------------------------------------------
(***************************************************************************)
(* The graph.                                                              *)
(***************************************************************************)
Extenders(w, r) ==
    {id \in DOMAIN w.recs \ {r.id} :
        w.recs[id].extends = r.supersedes /\ w.recs[id].status \notin {"superseded", "deprecated"}}

validateSupersedes(w, r) ==
    When(r.supersedes # None /\ (~Known(w, r.supersedes) \/ Extenders(w, r) # {}),
         Issue(r, "supersedes", "error"))

validateSupersessionType(w, r) ==
    LET mine   == effectiveType(r)
        target == w.recs[r.supersedes]
        theirs == effectiveType(target)
    IN  IF r.supersedes = None \/ ~Known(w, r.supersedes) \/ mine = "bug" THEN {}
        ELSE When(mine # theirs \/ (mine = "imprint" /\ r.implements # target.implements),
                  Issue(r, "supersedes type", "error"))

\* Any record that supersedes r: the loader keeps no order between them.
Superseders(w, r) == {id \in DOMAIN w.recs : w.recs[id].supersedes = r.id}

validateSupersededBy(w, r) ==
    When(IF Superseders(w, r) = {} THEN r.by # None ELSE r.by \notin Superseders(w, r),
         Issue(r, "superseded_by", "warning"))

validateRelated(w, r) ==
    When(r.related \ DOMAIN w.recs # {}, Issue(r, "related", "warning"))

\* A bug extends under validateBugConditionals.
validateExtends(w, r) ==
    LET target == w.recs[r.extends]
        mine   == effectiveType(r)
    IN  IF r.extends = None \/ mine = "bug" THEN {}
        ELSE When(\/ ~Known(w, r.extends)
                  \/ effectiveType(target) # mine
                  \/ mine = "imprint" /\ r.implements # target.implements,
                  Issue(r, "extends", "error"))

ParentTier == [blueprint |-> "brief", imprint |-> "blueprint"]

validateImplements(w, r) ==
    When(/\ r.implements # None
         /\ \/ ~Known(w, r.implements)
            \/ effectiveType(r) \notin DOMAIN ParentTier
            \/ effectiveType(w.recs[r.implements]) # ParentTier[effectiveType(r)],
         Issue(r, "implements", "error"))

validateBugConditionals(w, r) ==
    LET onlyBlueprintOrBug(id) == effectiveType(w.recs[id]) \in {"blueprint", "bug"}
    IN  When(/\ r.type = "bug"
             /\ \/ (r.supersedes = None) = (r.extends = None)
                \/ r.supersedes # None /\ Known(w, r.supersedes) /\ ~onlyBlueprintOrBug(r.supersedes)
                \/ r.extends # None /\ (~Known(w, r.extends) \/ ~onlyBlueprintOrBug(r.extends)),
             Issue(r, "bug", "error"))

-----------------------------------------------------------------------------
(***************************************************************************)
(* Scope.  A pattern that names nothing yet is an error, a warning once    *)
(* the record is closed, and a hint in an open record's affected_scope.    *)
(***************************************************************************)
validateScopePatterns(r) ==
    When(\E p \in r.affected \cup r.forbidden : p.kind = "regex" /\ ~p.valid,
         Issue(r, "scope", "error"))

validateScopeSelfOverlap(r) ==
    When(\E p \in r.affected, q \in r.forbidden : patternsOverlap(p, q),
         Issue(r, "self overlap", "error"))

validateExactPath(w, r, p, invalid, notFound) ==
    When(p.segs \notin Entries(w.files), Issue(r, "scope", notFound))
    \cup When(p.segs \in Entries(w.files) \ w.files, Issue(r, "scope", invalid))

validateGlobPattern(w, r, p, notFound) ==
    When(~patternHasMatches(w.files, p), Issue(r, "scope", notFound))

validateRegexPattern(w, r, p, notFound) ==
    When(~patternHasMatches(w.files, p), Issue(r, "scope", IF p.valid THEN notFound ELSE "error"))

validateScopePatternList(w, r, patterns, invalid, notFound) ==
    LET checked == {p \in patterns : p.kind = "regex" \/ ~IsPathExcluded(p.segs, w.exclude)}
    IN  UNION {CASE p.kind = "regex" -> validateRegexPattern(w, r, p, notFound)
                 [] p.kind = "glob"  -> validateGlobPattern(w, r, p, notFound)
                 [] p.kind = "exact" -> validateExactPath(w, r, p, invalid, notFound) : p \in checked}

validateScopePaths(w, r) ==
    LET missing == IF isTerminalStatus(r.status) THEN "warning" ELSE "error"
    IN  validateScopePatternList(w, r, r.affected, missing,
                                 IF r.status = "open" THEN "hint" ELSE missing)
        \cup validateScopePatternList(w, r, r.forbidden, missing, missing)

\* PROV023: what an open imprint governs on disk, its blueprint governs too.
validateImprintScopeContainment(w, r) ==
    LET blueprint == w.recs[r.implements]
    IN  When(/\ effectiveType(r) = "imprint" /\ r.status = "open"
             /\ r.implements # None /\ Known(w, r.implements)
             /\ blueprint.affected # {}
             /\ \E f \in filesMatchingPatterns(w.files, r.affected) : ~MatchesAny(f, blueprint.affected),
             Issue(r, "affected_scope", "error"))

SpecSeverity == [strict |-> "error", warn |-> "warning", none |-> "hint"]

validateAssociatedSpecs(w, r) ==
    When(\E s \in r.specs : s.path \notin w.files,
         Issue(r, "associated_specs", IF isTerminalStatus(r.status) THEN "warning" ELSE "error"))
    \cup When(/\ effectiveType(r) # "brief" /\ r.status = "open" /\ r.specs = {}
              /\ w.enforcement = "none" => r.constraints,
              Issue(r, "associated_specs", SpecSeverity[w.enforcement]))

\* PROV-IMM.  A missing entry counts once the manifest has any.
validateImmutability(w, r) ==
    When(/\ r.status = "implemented" /\ w.manifest # NoManifest
         /\ IF r.id \in DOMAIN w.manifest THEN w.manifest[r.id] # Content(r)
                                          ELSE DOMAIN w.manifest # {},
         Issue(r, "integrity", "error"))

-----------------------------------------------------------------------------
(***************************************************************************)
(* lintRecord stops early for a draft, and for a remote record.            *)
(***************************************************************************)
lintRecord(w, r) ==
    validateRequiredFields(r) \cup validateFormats(r) \cup validateType(r)
    \cup validateSupersedes(w, r) \cup validateExtends(w, r) \cup validateSupersessionType(w, r)
    \cup validateSupersededBy(w, r) \cup validateRelated(w, r) \cup validateImplements(w, r)
    \cup validateNotApplicableFields(r) \cup validateBugConditionals(w, r)
    \cup validateTitleLength(r)
    \cup (IF r.status = "draft" THEN validateSealedAtSHA(r)
          ELSE IF r.remote THEN validateConstraintsHint(r)
          ELSE validateScopePatterns(r) \cup validateScopeSelfOverlap(r) \cup validateScopePaths(w, r)
               \cup validateImprintScopeContainment(w, r) \cup validateAssociatedSpecs(w, r)
               \cup validateConstraintsHint(r) \cup validateImmutability(w, r)
               \cup validateSealedAtSHA(r))

checkDeadRecords(w) ==
    {Issue(w.recs[id], "dead", "warning") : id \in
        {i \in DOMAIN w.recs : /\ w.recs[i].affected # {}
                               /\ \A p \in w.recs[i].affected : ~patternHasMatches(w.files, p)}}

Surfaces(r) == r.affected \cup {Exact(s.path) : s \in r.specs}

checkLockedScope(w) ==
    {Issue(w.recs[id], "locked", "error") : id \in
        {i \in DOMAIN w.recs :
            /\ w.recs[i].status = "open"
            /\ \E l \in DOMAIN w.recs :
                  /\ w.recs[l].locked /\ w.recs[i].supersedes # l
                  /\ \E p \in Surfaces(w.recs[i]), q \in Surfaces(w.recs[l]) : patternsOverlap(p, q)}}

LintAll(w) ==
    UNION {lintRecord(w, w.recs[id]) : id \in DOMAIN w.recs} \cup checkDeadRecords(w) \cup checkLockedScope(w)

LintRecord(w, id) == lintRecord(w, w.recs[id])

HasErrors(issues) == \E i \in issues : i.severity = "error"
=============================================================================
