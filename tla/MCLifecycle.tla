------------------------------ MODULE MCLifecycle ------------------------------
(***************************************************************************)
(* Instances of LifecycleProperties for TLC.                               *)
(***************************************************************************)
EXTENDS LifecycleProperties, TLC

A == <<"src", "a">>
B == <<"src", "b">>
C == <<"vendor", "c">>
S == <<"specs", "s">>
MCFiles == {A, B, C, S, <<"vendor", ".linespec.yml">>, ManifestPath}

MCProcs == {"p", "q"}
MCIds == {"r1", "r2", "r3"}

Template ==
    [id |-> None, type |-> "blueprint", status |-> "draft", missing |-> {}, malformed |-> {},
     long |-> FALSE, constraints |-> TRUE, affected |-> {}, forbidden |-> {}, supersedes |-> None,
     by |-> None, extends |-> None, implements |-> None, related |-> {}, specs |-> {},
     traces |-> FALSE, monitors |-> FALSE, sealed |-> FALSE, locked |-> FALSE, remote |-> FALSE]

\* A scoped record with a spec, one over a directory, one without scope, one
\* lint refuses, one whose scope lies in another configuration's directory.
Scoped == [Template EXCEPT !.affected = {Exact(A)}, !.specs = {[path |-> S]}]
Wide == [Template EXCEPT !.affected = {Glob(<<"src", "*">>)}, !.forbidden = {Exact(C)}, !.specs = {[path |-> S]}]
Observed == [Template EXCEPT !.specs = {[path |-> S]}]
Untitled == [Template EXCEPT !.missing = {"title"}, !.affected = {Exact(A)}]
MCTemplates == {Scoped, Untitled}

Named(id, r) == id :> [r EXCEPT !.id = id]
As(status, r) == [r EXCEPT !.status = status]

MCShared == Named("m1", [As("open", Template) EXCEPT !.remote = TRUE, !.affected = {Exact(C)}])
            @@ Named("m2", [As("implemented", Template) EXCEPT !.remote = TRUE])

Regime ==
    [enforcement |-> "strict", exclude |-> {Exact(<<"docs">>)}, dir |-> <<"provenance">>,
     file |-> <<".linespec.yml">>, restrict |-> TRUE, cloned |-> FALSE, ownDir |-> << >>,
     runSpecs |-> TRUE, overlap |-> "block", hook |-> TRUE, commit |-> TRUE, tagRequired |-> FALSE,
     faults |-> FALSE, concurrent |-> FALSE, code |-> {A, C},
     unlinked |-> {}, inList |-> {}, inItem |-> {},
     commands |-> Transition \cup {"create", "reconcile"},
     budget |-> [commands |-> 4, commits |-> 0, edits |-> 0, crashes |-> 0],
     recs |-> Named("r1", As("open", Scoped)) @@ Named("r2", As("draft", [Scoped EXCEPT !.affected = {Exact(A), Exact(B)}]))]

Bounds(c, e, h, k) == [commands |-> c, commits |-> e, edits |-> h, crashes |-> k]

\* One command at a time.
Sequential == [Regime EXCEPT !.budget = Bounds(4, 0, 0, 0)]

\* Writes and commits fail, and specs do not run.
Faulty == [Regime EXCEPT !.faults = TRUE, !.runSpecs = FALSE, !.hook = FALSE, !.overlap = "warn",
                        !.commands = Transition \cup {"reconcile"},
                        !.budget = Bounds(3, 0, 0, 0)]
Killed == [Faulty EXCEPT !.budget = Bounds(2, 0, 0, 1)]

\* Statuses change without commits, so no hook looks at the saved record; r1's file
\* has no place of its own for the seal, and r2's none for what supersedes it.
Uncommitted == [Regime EXCEPT !.commit = FALSE, !.inItem = {"r1"}, !.unlinked = {"r2"}, !.commands = Transition \cup {"create", "compile"},
                             !.budget = Bounds(3, 0, 0, 0)]

\* Code is committed under records, with and without the hook, and scope taken
\* from history; the seal of r2 goes in front of its tags.
Committing == [Regime EXCEPT !.tagRequired = TRUE, !.inList = {"r2"}, !.enforcement = "warn",
                            !.commands = {"complete", "lockscope", "addscope", "savescope"},
                            !.recs = Named("r1", As("open", Wide)) @@ Named("r2", As("open", Observed)),
                            !.budget = Bounds(2, 2, 0, 0)]

\* Records are edited by hand and the manifest compiled; nothing is committed
\* by commands.
Edited == [Regime EXCEPT !.commit = FALSE, !.runSpecs = FALSE,
                        !.commands = {"complete", "compile", "deprecate", "locklayer"},
                        !.recs = Named("r1", As("open", Wide)) @@ Named("r2", As("draft", Scoped)),
                        !.code = {A},
                        !.budget = Bounds(2, 1, 1, 0)]

Layered == [Regime EXCEPT !.inItem = {"r2"}, !.commands = {"locklayer", "complete", "open"}, !.budget = Bounds(2, 1, 0, 0),
                         !.restrict = FALSE, !.ownDir = <<"src">>, !.code = {B}]

\* Two commands overlap, and one may be killed.
Overlapping == [Regime EXCEPT !.concurrent = TRUE, !.commands = Transition \cup {"reconcile", "create"},
                             !.commit = FALSE, !.runSpecs = FALSE, !.budget = Bounds(2, 0, 0, 1)]

LifecycleConfigs == {Sequential, Faulty, Killed, Uncommitted, Committing, Edited, Layered, Overlapping}
=============================================================================
