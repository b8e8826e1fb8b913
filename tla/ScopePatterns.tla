---------------------------- MODULE ScopePatterns ----------------------------
(***************************************************************************)
(* Which files a provenance record's scope names.                          *)
(*                                                                         *)
(* A path is a sequence of directory and file names.  A pattern is one of  *)
(*                                                                         *)
(*   [kind |-> "exact", segs |-> path]                                     *)
(*   [kind |-> "glob",  segs |-> names, "*" and "**"]                      *)
(*   [kind |-> "regex", valid |-> does it compile, hits |-> paths it       *)
(*    matches, base |-> its leading literal directories]                   *)
(*                                                                         *)
(* Wildcards stand for whole names: "?" and "*.go" are not modelled.       *)
(***************************************************************************)
EXTENDS Naturals, Sequences, FiniteSets

Exact(path) == [kind |-> "exact", segs |-> path]
Glob(segs) == [kind |-> "glob", segs |-> segs]
Regex(hits, base) == [kind |-> "regex", valid |-> TRUE, hits |-> hits, base |-> base]
BadRegex == [kind |-> "regex", valid |-> FALSE, hits |-> {}, base |-> << >>]

Wild == {"*", "**"}

isPattern(p) == p.kind # "exact"

\* The directories above a path, the root left out.
Parents(f) == {SubSeq(f, 1, n) : n \in 1..(Len(f) - 1)}
Dir(f) == SubSeq(f, 1, Len(f) - 1)

(***************************************************************************)
(* GlobToRegex: "*" stands for one name, "**" for any text, which between  *)
(* two slashes is one name or more.                                        *)
(***************************************************************************)
GlobMatches(f, g) ==
    LET match[i \in 0..Len(f), j \in 0..Len(g)] ==
            IF j = Len(g) THEN i = Len(f)
            ELSE IF g[j + 1] = "**" THEN \E k \in (i + 1)..Len(f) : match[k, j + 1]
            ELSE i < Len(f) /\ g[j + 1] \in {"*", f[i + 1]} /\ match[i + 1, j + 1]
    IN  match[0, 0]

MatchPattern(f, p) ==
    CASE p.kind = "exact" -> f = p.segs
      [] p.kind = "glob"  -> GlobMatches(f, p.segs)
      [] p.kind = "regex" -> p.valid /\ f \in p.hits

MatchesAny(f, patterns) == \E p \in patterns : MatchPattern(f, p)

ScopeMode(r) == IF r.affected # {} THEN "allowlist" ELSE "observed"

\* Forbidden paths first; an empty affected_scope leaves all others open.
IsInScope(r, f) ==
    /\ ~MatchesAny(f, r.forbidden)
    /\ ScopeMode(r) = "allowlist" => MatchesAny(f, r.affected)

(***************************************************************************)
(* An exclude_paths entry is a pattern, or names a file or a directory.    *)
(***************************************************************************)
matchesExcludePattern(f, p) ==
    IF p.kind = "exact" THEN f = p.segs \/ p.segs \in Parents(f) ELSE MatchPattern(f, p)

IsPathExcluded(f, exclude) == \E p \in exclude : matchesExcludePattern(f, p)

-----------------------------------------------------------------------------
(***************************************************************************)
(* filepath.Glob, which lint uses to see whether a pattern names anything  *)
(* on disk: it finds directories too, and to it "**" is "*".               *)
(***************************************************************************)
Entries(files) == files \cup UNION {Parents(f) : f \in files}

DiskGlob(files, g) ==
    {e \in Entries(files) :
        Len(e) = Len(g) /\ \A i \in 1..Len(g) : g[i] \in Wild \cup {e[i]}}

patternHasMatches(files, p) ==
    CASE p.kind = "exact" -> p.segs \in Entries(files)
      [] p.kind = "glob"  -> DiskGlob(files, p.segs) # {}
      [] p.kind = "regex" -> p.valid /\ p.hits \cap files # {}

\* The files on disk that some pattern matches; an exact path may be a directory.
filesMatchingPatterns(files, patterns) ==
    {f \in files : MatchesAny(f, {p \in patterns : isPattern(p)})}
        \cup ({p.segs : p \in {q \in patterns : q.kind = "exact"}} \cap Entries(files))

-----------------------------------------------------------------------------
(***************************************************************************)
(* Whether two patterns may name one file, judged from two sample paths    *)
(* per pattern: the first "**" and then the first "*" are filled in.       *)
(***************************************************************************)
FirstAt(g, names) ==
    LET at == {i \in 1..Len(g) : g[i] \in names}
    IN  IF at = {} THEN 0 ELSE CHOOSE i \in at : \A j \in at : i <= j

Fill(g, deep, name) ==
    LET i    == FirstAt(g, {"**"})
        wide == IF i = 0 THEN g ELSE SubSeq(g, 1, i - 1) \o deep \o SubSeq(g, i + 1, Len(g))
        j    == FirstAt(wide, Wild)
    IN  IF j = 0 THEN wide
        ELSE [wide EXCEPT ![j] = IF wide[j] = "*" THEN name ELSE name \o "*"]

generateSamplePaths(p) ==
    IF p.kind = "regex"
    THEN {<<"test", "file.go">>, <<"pkg", "module", "file.go">>, <<"src", "test.go">>}
    ELSE {Fill(p.segs, <<"pkg", "module">>, "file"), Fill(p.segs, <<"src", "sub">>, "test")}

globPatternsOverlap(a, b) ==
    /\ \A p \in {a, b} : p.kind = "regex" => p.valid
    /\ \/ \E s \in generateSamplePaths(a) : MatchPattern(s, b)
       \/ \E s \in generateSamplePaths(b) : MatchPattern(s, a)

patternsOverlap(a, b) ==
    \/ a = b
    \/ ~isPattern(a) /\ MatchPattern(a.segs, b)
    \/ ~isPattern(b) /\ MatchPattern(b.segs, a)
    \/ isPattern(a) /\ isPattern(b) /\ globPatternsOverlap(a, b)

scopesOverlap(a, b) == \E p \in a.affected, q \in b.affected : patternsOverlap(p, q)

-----------------------------------------------------------------------------
(***************************************************************************)
(* Write permission.                                                       *)
(***************************************************************************)
LiteralPrefix(segs) ==
    LET n == FirstAt(segs, Wild)
    IN  IF n = 0 THEN Dir(segs) ELSE SubSeq(segs, 1, n - 1)

patternBaseDir(p) == IF p.kind = "regex" THEN p.base ELSE LiteralPrefix(p.segs)

AlwaysWritablePaths(config, recs) ==
    config.exclude \cup {Exact(config.dir), Exact(config.file), Exact(<<".linespec">>)}
        \cup UNION {{Exact(s.path) : s \in r.specs} : r \in recs}

OpenAllowlistScope(recs) ==
    UNION {r.affected : r \in {s \in recs : s.status = "open"}}

IsWritablePath(f, always, openScope) == IsPathExcluded(f, always) \/ MatchesAny(f, openScope)

\* The closest config governs a file: a nested one takes its directory away.
isWithinDir(f, dir) == dir = << >> \/ f = dir \/ dir \in Parents(f)

nestedConfigDirs(ownDir, files) ==
    {Dir(f) : f \in {g \in files : g[Len(g)] = ".linespec.yml"
                                     /\ Dir(g) # ownDir /\ isWithinDir(Dir(g), ownDir)}}

boundToOwnConfigDir(ownDir, files) ==
    {f \in files : /\ isWithinDir(f, ownDir)
                   /\ \A d \in nestedConfigDirs(ownDir, files) : ~isWithinDir(f, d)}
=============================================================================
