---------------------------- MODULE LifecycleProofs ----------------------------
(***************************************************************************)
(* Theorems about the provenance commands, for any records, templates,     *)
(* configurations and budgets, and any number of processes.                *)
(***************************************************************************)
EXTENDS LifecycleProperties, TLAPS

-----------------------------------------------------------------------------
(***************************************************************************)
(* Types.                                                                  *)
(***************************************************************************)
Tree(d) == ById(d) /\ DOMAIN d \subseteq Ids /\ \A id \in DOMAIN d : ~d[id].remote

Manifest(m) == m = NoManifest \/ \E S \in SUBSET Ids : m \in [S -> Record]

\* What a process loads: the local records are on disk, since none is deleted.
Memory(m) ==
  /\ ById(m)
  /\ \A id \in DOMAIN m : ~m[id].remote => id \in DOMAIN disk

Places == {"loaded", "created", "loaded2", "saved", "sealing", "sealed", "valid", "ready", "committed"}

Midway(p) == proc[p].cmd \in Transition /\ proc[p].pc # "loaded"

\* The fields of a record that no command and no edit changes.
SameRules(a, b) ==
  a.affected = b.affected /\ a.forbidden = b.forbidden /\ a.supersedes = b.supersedes

Command(p) ==
  /\ {"pc", "cmd", "id", "force", "mem", "before"} \subseteq DOMAIN proc[p]
  /\ proc[p].pc \in Places /\ proc[p].cmd \in OnRecord \cup OnAll
  /\ proc[p].cmd \in OnRecord => proc[p].id \in Ids
  /\ Memory(Mem(p))
  /\ proc[p].cmd \in OnRecord /\ ~(proc[p].cmd \in {"create", "locklayer"} /\ proc[p].pc = "loaded")
       => proc[p].id \in DOMAIN Mem(p) /\ ~Mine(p).remote
  /\ proc[p].pc = "created" => Mine(p).supersedes \in DOMAIN Mem(p) \cup {None}

Journaled(p) ==
  /\ {"snap", "snapManifest", "targets", "perms", "copy"} \subseteq DOMAIN proc[p]
  /\ proc[p].snap \in Record /\ proc[p].snap.id = proc[p].id /\ ~proc[p].snap.remote
  /\ proc[p].id \in DOMAIN disk /\ SameRules(proc[p].snap, disk[proc[p].id])
  /\ Manifest(proc[p].snapManifest) /\ Manifest(proc[p].copy)

ProcOK(p) == proc[p] # Idle => Command(p) /\ (Midway(p) => Journaled(p))

Repo ==
  /\ {"recs", "manifest"} \subseteq DOMAIN head /\ {"recs", "manifest", "code"} \subseteq DOMAIN index
  /\ Tree(head.recs) /\ DOMAIN head.recs \subseteq DOMAIN disk
  /\ Tree(index.recs) /\ DOMAIN index.recs \subseteq DOMAIN disk
  /\ \A c \in log : DOMAIN c.after \subseteq DOMAIN disk

Budget ==
  /\ left \in [commands : Nat, commits : Nat, edits : Nat, crashes : Nat]
  /\ left.edits <= config.budget.edits /\ left.crashes <= config.budget.crashes

Typed ==
  /\ config \in Configs /\ Tree(disk) /\ Manifest(manifest) /\ Repo /\ Budget
  /\ DOMAIN proc = Procs /\ \A p \in Procs : ProcOK(p)

-----------------------------------------------------------------------------
(***************************************************************************)
(* Where commands do not overlap, a command knows what is on disk - all    *)
(* but the record it saved, whose file may say something else - and a      *)
(* transition under way is a change to what it found.                      *)
(***************************************************************************)
Solo == \A p, q \in Procs : proc[p] # Idle /\ proc[q] # Idle => p = q

Remembers(p) == Mem(p) = IF Midway(p) THEN Put(LoadAll, proc[p].id, Mine(p)) ELSE LoadAll

UpToDate ==
  \A p \in Procs : proc[p] # Idle =>
    /\ Remembers(p)
    /\ proc[p].cmd \in {"create", "locklayer"} /\ proc[p].pc = "loaded" => proc[p].id \notin DOMAIN Mem(p)

Transitioned(r, cmd) == [r EXCEPT !.status = NextStatus[cmd], !.sealed = @ \/ cmd = "complete"]

Sealing(p, m) ==
  CASE proc[p].pc = "saved"   -> manifest = m
    [] proc[p].pc = "sealing" -> manifest = m /\ proc[p].copy = m
    [] OTHER -> \/ manifest = Put(SealedIn(m), proc[p].id, Content(Mine(p)))
                \/ manifest = m /\ config.faults

Unlocking(p, w) ==
  writable = IF proc[p].cmd = "open" /\ proc[p].pc \in {"ready", "committed"}
             THEN w \cup proc[p].targets ELSE w

\* A transition that found the files d, m and w.
From(p, d, m, w) ==
  LET id == proc[p].id
  IN  IF proc[p].pc = "loaded" THEN disk = d /\ manifest = m /\ writable = w
      ELSE /\ id \in DOMAIN d /\ proc[p].snap = d[id] /\ proc[p].snapManifest = m
           /\ Mine(p) = Transitioned(d[id], proc[p].cmd)
           /\ disk = Put(d, id, updateRecordYAMLText(d[id], Mine(p)))
           /\ proc[p].targets = materializeTargets(Mine(p).affected)
           /\ proc[p].perms = proc[p].targets \cap w
           /\ IF proc[p].cmd = "complete" THEN Sealing(p, m) ELSE manifest = m
           /\ Unlocking(p, w)

Places0 == [open |-> {"loaded", "saved", "valid", "ready", "committed"},
            complete |-> Places \ {"created", "loaded2"},
            deprecate |-> {"loaded", "saved", "committed"}]

Journal(p) ==
  proc[p].cmd \in Transition =>
    /\ proc[p].pc \in Places0[proc[p].cmd]
    /\ \E d, m, w : proc[p].before = <<d, m, w>> /\ Tree(d) /\ Manifest(m) /\ From(p, d, m, w)

OneCommand == ~config.concurrent => Solo /\ UpToDate /\ \A p \in Procs : Journal(p)

-----------------------------------------------------------------------------
(***************************************************************************)
(* What a command finds, and leaves.                                       *)
(***************************************************************************)
Seals(d, m) ==
  Untampered /\ ~config.faults =>
    \A id \in DOMAIN d \ Placed(config) : d[id].status = "implemented" =>
      id \in DOMAIN SealedIn(m) /\ m[id] = d[id]

Writable(d, w) ==
  Untampered => \A id \in DOMAIN d : d[id].status = "open" => materializeTargets(d[id].affected) \subseteq w

\* The files as they are.
Fine == Seals(disk, manifest) /\ Writable(disk, writable)

\* The files as the command of p found them.
Found(p) ==
  \A d, m, w : proc[p].before = <<d, m, w>> => Seals(d, m) /\ Writable(d, w)

Good ==
  ~config.concurrent =>
    /\ (\A p \in Procs : ~Midway(p)) => Fine
    /\ \A p \in Procs : Midway(p) => Found(p)

-----------------------------------------------------------------------------
(***************************************************************************)
(* Records, and trees of them.                                             *)
(***************************************************************************)
Fields ==
  {"id", "type", "status", "missing", "malformed", "long", "constraints", "affected", "forbidden",
   "supersedes", "by", "extends", "implements", "related", "specs", "traces", "monitors",
   "sealed", "locked", "remote"}

LEMMA RecordFields ==
  ASSUME NEW r \in Record
  PROVE  /\ DOMAIN r = Fields /\ r = [f \in Fields |-> r[f]]
         /\ r.id \in AnyId /\ r.status \in Statuses /\ r.by \in AnyId /\ r.supersedes \in AnyId
         /\ r.sealed \in BOOLEAN /\ r.remote \in BOOLEAN /\ r.locked \in BOOLEAN /\ r.long \in BOOLEAN
         /\ r.affected \in SUBSET Pattern /\ r.forbidden \in SUBSET Pattern
BY DEF Record, Fields

LEMMA StatusSet ==
  ASSUME NEW r \in Record, NEW s \in Statuses
  PROVE  [r EXCEPT !.status = s] \in Record
BY DEF Record

LEMMA SealedSet ==
  ASSUME NEW r \in Record, NEW b \in BOOLEAN
  PROVE  [r EXCEPT !.sealed = b] \in Record
BY DEF Record

LEMMA MalformedSet ==
  ASSUME NEW r \in Record, NEW S \in SUBSET {"id", "created_at", "sealed_at_sha"}
  PROVE  [r EXCEPT !.malformed = S] \in Record
BY DEF Record

LEMMA BySet ==
  ASSUME NEW r \in Record, NEW i \in AnyId
  PROVE  [r EXCEPT !.by = i] \in Record
BY DEF Record

LEMMA RemoteSet ==
  ASSUME NEW r \in Record
  PROVE  [r EXCEPT !.remote = FALSE] \in Record
BY DEF Record

LEMMA LongSet ==
  ASSUME NEW r \in Record, NEW b \in BOOLEAN
  PROVE  [r EXCEPT !.long = b] \in Record
BY DEF Record

LEMMA DraftSet ==
  ASSUME NEW t \in Record, NEW id \in AnyId, NEW s \in AnyId, NEW l \in BOOLEAN
  PROVE  /\ Draft(t, id, s, l) \in Record /\ Draft(t, id, s, l).id = id
         /\ Draft(t, id, s, l).remote = t.remote /\ Draft(t, id, s, l).status = t.status
         /\ Draft(t, id, s, l).supersedes = s
BY DEF Record, Draft

LEMMA ContentSame ==
  ASSUME NEW r \in Record
  PROVE  Content(r) \in Record /\ (~r.remote => Content(r) = r)
<1>1. Content(r) \in Record
  BY RemoteSet DEF Content
<1>2. ASSUME ~r.remote PROVE Content(r) = r
  <2>1. r.remote = FALSE /\ DOMAIN r = Fields /\ r = [f \in Fields |-> r[f]]
    BY <1>2, RecordFields
  <2>2. \A f \in Fields : Content(r)[f] = r[f]
    BY <2>1 DEF Content
  <2> QED BY <1>1, <2>1, <2>2, RecordFields
<1> QED BY <1>1, <1>2

LEMMA UpdateSet ==
  ASSUME NEW old \in Record, NEW r \in Record
  PROVE  /\ updateRecordYAMLText(old, r) \in Record
         /\ updateRecordYAMLText(old, r).id = old.id /\ updateRecordYAMLText(old, r).remote = old.remote
         /\ updateRecordYAMLText(old, r).status = r.status
         /\ SameRules(updateRecordYAMLText(old, r), old)
<1> DEFINE new == updateRecordYAMLText(old, r)
           by == IF r.by = None \/ r.id \in config.unlinked THEN old.by ELSE r.by
           sealed == old.sealed \/ (r.sealed /\ r.id \notin config.inItem)
           bad == IF r.sealed /\ r.id \in config.inList THEN old.malformed \cup {"sealed_at_sha"} ELSE old.malformed
           x == [[old EXCEPT !.status = r.status] EXCEPT !.sealed = sealed]
           y == [x EXCEPT !.malformed = bad]
<1>1. /\ old.sealed \in BOOLEAN /\ r.sealed \in BOOLEAN /\ r.status \in Statuses /\ by \in AnyId
      /\ DOMAIN old = Fields
  BY RecordFields
<1>2. sealed \in BOOLEAN /\ bad \in SUBSET {"id", "created_at", "sealed_at_sha"}
  BY <1>1 DEF Record
<1>3. new = [y EXCEPT !.by = by]
  BY <1>1 DEF updateRecordYAMLText, Fields
<1>4. new \in Record
  <2> HIDE DEF by, sealed, bad
  <2>1. x \in Record
    BY <1>1, <1>2, StatusSet, SealedSet
  <2>2. y \in Record
    BY <1>2, <2>1, MalformedSet
  <2> HIDE DEF y
  <2> QED BY <1>1, <1>3, <2>2, BySet
<1>5. new.id = old.id /\ new.remote = old.remote /\ new.status = r.status
      /\ new.affected = old.affected /\ new.forbidden = old.forbidden /\ new.supersedes = old.supersedes
  BY <1>1 DEF updateRecordYAMLText, Fields
<1> QED BY <1>4, <1>5 DEF SameRules

LEMMA PutAt ==
  ASSUME NEW d, NEW i, NEW x
  PROVE  /\ DOMAIN Put(d, i, x) = DOMAIN d \cup {i} /\ Put(d, i, x)[i] = x
         /\ \A j \in DOMAIN d : j # i => Put(d, i, x)[j] = d[j]
         /\ Put(d, i, x) = [j \in DOMAIN Put(d, i, x) |-> Put(d, i, x)[j]]
BY DEF Put

LEMMA PutTwice ==
  ASSUME NEW d, NEW i, NEW x, NEW y
  PROVE  Put(Put(d, i, x), i, y) = Put(d, i, y)
<1> DEFINE e == Put(d, i, x)
<1>1. DOMAIN e = DOMAIN d \cup {i} /\ \A j \in DOMAIN d : j # i => e[j] = d[j]
  BY DEF Put
<1> HIDE DEF e
<1>2. DOMAIN e \cup {i} = DOMAIN d \cup {i}
  BY <1>1
<1>3. Put(e, i, y) = Put(d, i, y)
  BY <1>1, <1>2 DEF Put
<1> QED BY <1>3 DEF e

LEMMA PutTree ==
  ASSUME NEW d, Tree(d), NEW i \in Ids, NEW x \in Record, x.id = i, ~x.remote
  PROVE  Tree(Put(d, i, x))
<1> DEFINE e == Put(d, i, x)
<1>1. /\ DOMAIN e = DOMAIN d \cup {i} /\ e[i] = x /\ e = [j \in DOMAIN e |-> e[j]]
      /\ \A j \in DOMAIN d : j # i => e[j] = d[j]
  BY DEF Put
<1> HIDE DEF e
<1>2. Tree(e)
  BY <1>1 DEF Tree, ById
<1> QED BY <1>2 DEF e

LEMMA OverAt ==
  ASSUME NEW d, NEW e
  PROVE  /\ DOMAIN Over(d, e) = DOMAIN d \cup DOMAIN e
         /\ \A j \in DOMAIN d : Over(d, e)[j] = d[j]
         /\ \A j \in DOMAIN e : j \notin DOMAIN d => Over(d, e)[j] = e[j]
         /\ Over(d, e) = [j \in DOMAIN Over(d, e) |-> Over(d, e)[j]]
BY DEF Over

\* Writing and loading commute.
LEMMA OverPut ==
  ASSUME NEW d, NEW e, NEW i, NEW x
  PROVE  Over(Put(d, i, x), e) = Put(Over(d, e), i, x)
BY DEF Over, Put

\* What is loaded: the tree on disk, and the shared records.
LEMMA Loads ==
  ASSUME Tree(disk)
  PROVE  /\ Memory(LoadAll) /\ DOMAIN LoadAll = DOMAIN disk \cup DOMAIN Shared
         /\ \A id \in DOMAIN disk : LoadAll[id] = disk[id]
         /\ \A id \in DOMAIN LoadAll : ~LoadAll[id].remote => id \in DOMAIN disk
<1>1. ById(Shared) /\ \A id \in DOMAIN Shared : Shared[id].remote
  BY RecordsAssumption
<1>2. /\ DOMAIN LoadAll = DOMAIN disk \cup DOMAIN Shared
      /\ \A id \in DOMAIN disk : LoadAll[id] = disk[id]
      /\ \A id \in DOMAIN Shared : id \notin DOMAIN disk => LoadAll[id] = Shared[id]
      /\ LoadAll = [j \in DOMAIN LoadAll |-> LoadAll[j]]
  BY OverAt DEF LoadAll
<1>3. \A id \in DOMAIN LoadAll : ~LoadAll[id].remote => id \in DOMAIN disk
  BY <1>1, <1>2
<1>4. \A id \in DOMAIN LoadAll : LoadAll[id] \in Record /\ LoadAll[id].id = id
  BY <1>1, <1>2 DEF Tree, ById
<1> QED BY <1>2, <1>3, <1>4 DEF Memory, ById

-----------------------------------------------------------------------------
(***************************************************************************)
(* Steps of one process.                                                   *)
(***************************************************************************)
DiskStep ==
  /\ Tree(disk') /\ DOMAIN disk \subseteq DOMAIN disk'
  /\ \A id \in DOMAIN disk : SameRules(disk[id], disk'[id])

Only(p) == DOMAIN proc' = Procs /\ \A q \in Procs : q # p => proc'[q] = proc[q]

LEMMA DiskStays ==
  ASSUME Tree(disk), disk' = disk
  PROVE  DiskStep
BY DEF DiskStep, Tree, ById, SameRules

LEMMA SaveDisk ==
  ASSUME Tree(disk), NEW r \in Record, r.id \in Ids, ~r.remote, disk' = SaveRecord(disk, r)
  PROVE  /\ DiskStep /\ DOMAIN disk' = DOMAIN disk \cup {r.id}
         /\ disk' = Put(disk, r.id, disk'[r.id])
         /\ r.id \in DOMAIN disk => disk'[r.id] = updateRecordYAMLText(disk[r.id], r)
         /\ r.id \notin DOMAIN disk => disk'[r.id] = r
<1> DEFINE x == IF r.id \in DOMAIN disk THEN updateRecordYAMLText(disk[r.id], r) ELSE r
<1>1. x \in Record /\ x.id = r.id /\ ~x.remote /\ (r.id \in DOMAIN disk => SameRules(x, disk[r.id]))
  <2>1. CASE r.id \in DOMAIN disk
    <3>1. disk[r.id] \in Record /\ disk[r.id].id = r.id /\ ~disk[r.id].remote
      BY <2>1 DEF Tree, ById
    <3> QED BY <2>1, <3>1, UpdateSet
  <2>2. CASE r.id \notin DOMAIN disk
    BY <2>2
  <2> QED BY <2>1, <2>2
<1>2. disk' = Put(disk, r.id, x)
  BY DEF SaveRecord
<1> HIDE DEF x
<1>3. Tree(disk')
  BY <1>1, <1>2, PutTree
<1>4. /\ DOMAIN disk' = DOMAIN disk \cup {r.id} /\ disk'[r.id] = x
      /\ \A j \in DOMAIN disk : j # r.id => disk'[j] = disk[j]
  BY <1>2 DEF Put
<1>5. DiskStep
  BY <1>1, <1>3, <1>4 DEF DiskStep, SameRules
<1> QED BY <1>2, <1>4, <1>5 DEF x

LEMMA MemoryKept ==
  ASSUME DiskStep, NEW m, Memory(m)
  PROVE  Memory(m)'
BY DEF DiskStep, Memory

LEMMA OthersKept ==
  ASSUME Typed, DiskStep, NEW p \in Procs, Only(p), NEW q \in Procs, q # p
  PROVE  ProcOK(q)'
<1>1. proc'[q] = proc[q] /\ ProcOK(q)
  BY DEF Typed, Only
<1> SUFFICES ASSUME proc[q] # Idle PROVE Command(q)' /\ (Midway(q)' => Journaled(q)')
  BY <1>1 DEF ProcOK
<1>2. Command(q) /\ (Midway(q) => Journaled(q))
  BY <1>1 DEF ProcOK
<1>3. Mem(q)' = Mem(q) /\ Mine(q)' = Mine(q) /\ (Midway(q)' <=> Midway(q))
  BY <1>1 DEF Mem, Mine, Midway
<1>4. Memory(Mem(q))'
  BY <1>2, <1>3, MemoryKept DEF Command
<1>5. Command(q)'
  BY <1>1, <1>2, <1>3, <1>4 DEF Command
<1>6. ASSUME Journaled(q) PROVE Journaled(q)'
  BY <1>1, <1>6 DEF Journaled, DiskStep, SameRules
<1> QED BY <1>2, <1>3, <1>5, <1>6

LEMMA RepoKept ==
  ASSUME Repo, DiskStep, UNCHANGED repo
  PROVE  Repo'
BY DEF Repo, DiskStep, repo, Tree

LEMMA BudgetKept ==
  ASSUME Budget, UNCHANGED <<config, left>>
  PROVE  Budget'
BY DEF Budget

\* A step of a process that leaves git and the budgets alone.
LEMMA ProcStep ==
  ASSUME Typed, DiskStep, NEW p \in Procs, Only(p), ProcOK(p)', Manifest(manifest)',
         UNCHANGED <<repo, config, left>>
  PROVE  Typed'
<1>1. \A q \in Procs : ProcOK(q)'
  BY OthersKept
<1>2. Repo' /\ Budget'
  BY RepoKept, BudgetKept DEF Typed
<1> QED BY <1>1, <1>2 DEF Typed, Only, DiskStep

LEMMA GoesOn ==
  ASSUME Typed, DiskStep, NEW p \in Procs, proc[p] # Idle, NEW pc \in Places \ {"created"}, Goto(p, pc),
         Midway(p)' => Midway(p),
         proc[p].cmd \in {"create", "locklayer"} /\ pc # "loaded" => proc[p].pc # "loaded"
  PROVE  /\ Only(p) /\ ProcOK(p)' /\ proc'[p].pc = pc
         /\ \A f \in DOMAIN proc[p] : f # "pc" => proc'[p][f] = proc[p][f]
<1>1. Command(p) /\ (Midway(p) => Journaled(p)) /\ DOMAIN proc = Procs
  BY DEF Typed, ProcOK
<1>2. proc'[p] = [proc[p] EXCEPT !.pc = pc] /\ Only(p)
  BY <1>1 DEF Goto, Only
<1>3. DOMAIN proc'[p] = DOMAIN proc[p] /\ proc'[p].pc = pc
      /\ \A f \in DOMAIN proc[p] : f # "pc" => proc'[p][f] = proc[p][f]
  BY <1>1, <1>2 DEF Command
<1>4. proc'[p].cmd = proc[p].cmd /\ proc'[p].id = proc[p].id /\ proc'[p].mem = proc[p].mem
  BY <1>1, <1>3 DEF Command
<1>5. Mem(p)' = Mem(p) /\ Mine(p)' = Mine(p)
  BY <1>4 DEF Mem, Mine
<1>6. Memory(Mem(p))'
  BY <1>1, <1>5, MemoryKept DEF Command
<1>7. Command(p)'
  BY <1>1, <1>3, <1>4, <1>5, <1>6 DEF Command
<1>8. ASSUME Midway(p)' PROVE Journaled(p)'
  <2>1. Journaled(p)
    BY <1>1, <1>8
  <2>2. /\ proc'[p].snap = proc[p].snap /\ proc'[p].snapManifest = proc[p].snapManifest
        /\ proc'[p].copy = proc[p].copy
    BY <1>3, <2>1 DEF Journaled
  <2> QED BY <1>3, <1>4, <2>1, <2>2 DEF Journaled, DiskStep, SameRules
<1> QED BY <1>2, <1>3, <1>7, <1>8 DEF ProcOK

LEMMA Stops ==
  ASSUME Typed, NEW p \in Procs, Done(p)
  PROVE  Only(p) /\ ProcOK(p)' /\ proc'[p] = Idle
BY DEF Typed, Done, Only, ProcOK

LEMMA RunningBusy ==
  ASSUME Typed, NEW p \in Procs, NEW cmds, NEW pc \in Places, Running(p, cmds, pc)
  PROVE  /\ proc[p] # Idle /\ Command(p) /\ (Midway(p) => Journaled(p))
         /\ proc[p].pc = pc /\ proc[p].cmd \in cmds
BY DEF Typed, ProcOK, Running, Idle, Places

LEMMA StayingTree ==
  ASSUME Typed
  PROVE  /\ Tree(disk) /\ Manifest(manifest) /\ Repo /\ Budget /\ config \in Configs
         /\ \A p \in Procs : ProcOK(p)
BY DEF Typed

-----------------------------------------------------------------------------
(***************************************************************************)
(* Types, one action after the other.                                      *)
(***************************************************************************)
LEMMA BeginTyped ==
  ASSUME Typed, NEW p \in Procs, NEW cmd, NEW id, NEW force,
         Begin(p, [cmd |-> cmd, id |-> id, force |-> force]),
         cmd \in OnRecord \cup OnAll, cmd \in OnRecord => id \in Ids,
         cmd \in OnRecord \ {"create", "locklayer"} => id \in DOMAIN LoadAll /\ ~LoadAll[id].remote
  PROVE  /\ Typed' /\ Only(p) /\ UNCHANGED <<files, repo, config>>
         /\ proc'[p].pc = "loaded" /\ proc'[p].cmd = cmd /\ proc'[p].id = id /\ proc'[p].force = force
         /\ proc'[p].mem = LoadAll /\ proc'[p].before = files /\ proc'[p] # Idle
<1> DEFINE new == Over([cmd |-> cmd, id |-> id, force |-> force],
                       [pc |-> "loaded", mem |-> LoadAll, before |-> files])
<1>1. /\ {"pc", "cmd", "id", "force", "mem", "before"} \subseteq DOMAIN new
      /\ new.pc = "loaded" /\ new.cmd = cmd /\ new.id = id /\ new.force = force
      /\ new.mem = LoadAll /\ new.before = files
  BY DEF Over
<1>2. DOMAIN proc = Procs /\ proc' = [proc EXCEPT ![p] = new] /\ UNCHANGED <<files, repo, config>>
  BY DEF Begin, Typed
<1> HIDE DEF new
<1>3. proc'[p] = new /\ Only(p) /\ new # Idle
  BY <1>1, <1>2 DEF Only, Idle
<1>4. DiskStep
  BY <1>2, DiskStays, StayingTree DEF files
<1>5. Mem(p)' = LoadAll /\ (id \in DOMAIN LoadAll => Mine(p)' = LoadAll[id])
  BY <1>1, <1>3 DEF Mem, Mine
<1>6. Memory(Mem(p))'
  BY <1>2, <1>5, Loads, StayingTree DEF Memory, files
<1>7. Command(p)'
  BY <1>1, <1>3, <1>5, <1>6 DEF Command, Places
<1>8. ProcOK(p)'
  BY <1>1, <1>3, <1>7 DEF ProcOK, Midway
<1>9. Budget'
  BY <1>2 DEF Begin, Budget, Typed
<1>10. Repo' /\ \A q \in Procs : ProcOK(q)'
  BY <1>2, <1>3, <1>4, <1>8, RepoKept, OthersKept, StayingTree
<1>11. Typed'
  BY <1>2, <1>3, <1>9, <1>10, StayingTree DEF Typed, files, Only, Tree, Manifest
<1> QED BY <1>1, <1>2, <1>3, <1>11

LEMMA StartTyped ==
  ASSUME Typed, NEW p \in Procs, NEW cmd \in OnRecord, NEW id \in Ids, NEW force \in BOOLEAN,
         Start(p, cmd, id, force)
  PROVE  Typed' /\ Begin(p, [cmd |-> cmd, id |-> id, force |-> force])
<1>1. cmd \in OnRecord \ {"create", "locklayer"} => id \in DOMAIN LoadAll /\ ~LoadAll[id].remote
  BY DEF Start, Accepts, OnRecord, Lockable
<1>2. Begin(p, [cmd |-> cmd, id |-> id, force |-> force])
  BY DEF Start
<1> QED BY <1>1, <1>2, BeginTyped

LEMMA StartOnAllTyped ==
  ASSUME Typed, NEW p \in Procs, NEW cmd \in OnAll, StartOnAll(p, cmd)
  PROVE  Typed' /\ Begin(p, [cmd |-> cmd, id |-> None, force |-> FALSE])
<1>1. cmd \notin OnRecord
  BY DEF OnAll, OnRecord
<1>2. Begin(p, [cmd |-> cmd, id |-> None, force |-> FALSE])
  BY DEF StartOnAll
<1> QED BY <1>1, <1>2, BeginTyped

LEMMA CreateTyped ==
  ASSUME Typed, NEW p \in Procs, NEW t \in Templates, NEW s \in DOMAIN LoadAll \cup {None},
         createRecord(p, t, s)
  PROVE  /\ Typed' /\ DiskStep /\ Only(p) /\ UNCHANGED <<manifest, writable, repo, config, left>>
         /\ LET new == Draft(t, proc[p].id, s, proc[p].cmd = "locklayer")
            IN  /\ new \in Record /\ new.id = proc[p].id /\ new.status = "draft" /\ ~new.remote
                /\ disk' = SaveRecord(disk, new) /\ proc'[p].mem = Put(Mem(p), new.id, new)
                /\ proc'[p].pc = "created" /\ proc'[p].cmd = proc[p].cmd /\ proc'[p].id = proc[p].id
                /\ proc[p].cmd \in {"create", "locklayer"} /\ proc[p].pc = "loaded"
<1> DEFINE new == Draft(t, proc[p].id, s, proc[p].cmd = "locklayer")
<1>1. /\ Running(p, {"create", "locklayer"}, "loaded")
      /\ disk' = SaveRecord(disk, new) /\ UNCHANGED <<manifest, writable, repo, config, left>>
      /\ proc' = [proc EXCEPT ![p].mem = Put(Mem(p), new.id, new), ![p].pc = "created"]
  BY DEF createRecord
<1>2. /\ proc[p] # Idle /\ Command(p) /\ proc[p].pc = "loaded" /\ proc[p].cmd \in {"create", "locklayer"}
      /\ proc[p].id \in Ids
  BY <1>1, RunningBusy DEF Places, Command, OnRecord
<1>3. /\ t \in Record /\ t.status = "draft" /\ ~t.remote
      /\ \A i \in DOMAIN LoadAll : LoadAll[i] \in Record /\ LoadAll[i].id = i
  BY RecordsAssumption, Loads, StayingTree DEF Memory, ById
<1>4. s \in AnyId
  BY <1>3, RecordFields DEF AnyId
<1>5. (proc[p].cmd = "locklayer") \in BOOLEAN /\ proc[p].id \in AnyId
  BY <1>2 DEF AnyId
<1>6. new \in Record /\ new.id = proc[p].id /\ new.status = "draft" /\ ~new.remote /\ new.supersedes = s
  <2>1. PICK l \in BOOLEAN : l = (proc[p].cmd = "locklayer")
    OBVIOUS
  <2>2. new = Draft(t, proc[p].id, s, l)
    BY <2>1
  <2> HIDE DEF new
  <2> QED BY <1>3, <1>4, <1>5, <2>2, DraftSet
<1> HIDE DEF new
<1>7. DiskStep /\ proc[p].id \in DOMAIN disk'
  BY <1>1, <1>2, <1>6, SaveDisk, StayingTree
<1>8. DOMAIN proc = Procs
  BY DEF Typed
<1>9. /\ Only(p) /\ DOMAIN proc'[p] = DOMAIN proc[p] /\ proc'[p].pc = "created"
      /\ proc'[p].mem = Put(Mem(p), new.id, new) /\ proc'[p].cmd = proc[p].cmd /\ proc'[p].id = proc[p].id
  BY <1>1, <1>2, <1>8 DEF Only, Command
<1>10. Memory(Mem(p))'
  <2>1. ById(Mem(p)) /\ \A i \in DOMAIN Mem(p) : ~Mem(p)[i].remote => i \in DOMAIN disk
    BY <1>2 DEF Command, Memory
  <2> DEFINE m == Put(Mem(p), new.id, new)
  <2>2. /\ DOMAIN m = DOMAIN Mem(p) \cup {new.id} /\ m[new.id] = new /\ m = [j \in DOMAIN m |-> m[j]]
        /\ \A j \in DOMAIN Mem(p) : j # new.id => m[j] = Mem(p)[j]
    BY DEF Put
  <2>3. Mem(p)' = m
    BY <1>9 DEF Mem
  <2> HIDE DEF m
  <2>4. ById(m)
    BY <1>6, <2>1, <2>2 DEF ById
  <2>5. \A i \in DOMAIN m : ~m[i].remote => i \in DOMAIN disk'
    BY <1>6, <1>7, <2>1, <2>2 DEF DiskStep
  <2> QED BY <2>3, <2>4, <2>5 DEF Memory
<1>11. /\ proc'[p].id \in DOMAIN Mem(p)' /\ Mine(p)' = new
       /\ new.supersedes \in DOMAIN Mem(p)' \cup {None}
  <2>1. s \in DOMAIN Mem(p) \cup {None}
    BY DEF createRecord
  <2> QED BY <1>6, <1>9, <2>1 DEF Mem, Mine, Put
<1>12. Command(p)'
  BY <1>2, <1>6, <1>9, <1>10, <1>11 DEF Command, Places
<1>13. ProcOK(p)'
  BY <1>2, <1>9, <1>12 DEF ProcOK, Midway, Transition
<1>14. Typed'
  BY <1>1, <1>7, <1>9, <1>13, ProcStep, StayingTree DEF Manifest
<1> QED BY <1>1, <1>2, <1>6, <1>7, <1>9, <1>14 DEF new

-----------------------------------------------------------------------------
(***************************************************************************)
(* Git's index and head.                                                   *)
(***************************************************************************)
IndexOK(ix) ==
  {"recs", "manifest", "code"} \subseteq DOMAIN ix /\ Tree(ix.recs) /\ DOMAIN ix.recs \subseteq DOMAIN disk

LEMMA RepoIndex ==
  ASSUME Typed
  PROVE  IndexOK(index) /\ IndexOK([index EXCEPT !.code = {}])
BY DEF Typed, Repo, IndexOK

LEMMA AddOK ==
  ASSUME Typed, NEW ix, IndexOK(ix), NEW id \in DOMAIN disk
  PROVE  IndexOK(Add(ix, id)) /\ Add(ix, id).recs = Put(ix.recs, id, disk[id])
         /\ Add(ix, id).manifest = ix.manifest /\ Add(ix, id).code = ix.code
<1> DEFINE new == Put(ix.recs, id, disk[id])
<1>1. id \in Ids /\ disk[id] \in Record /\ disk[id].id = id /\ ~disk[id].remote
  BY DEF Typed, Tree, ById
<1>2. Tree(new)
  BY <1>1, PutTree DEF IndexOK
<1>3. DOMAIN new \subseteq DOMAIN disk
  BY DEF Put, IndexOK
<1> HIDE DEF new
<1>4. Add(ix, id) = [ix EXCEPT !.recs = new]
  BY DEF Add, new
<1>5. Add(ix, id).recs = new /\ DOMAIN Add(ix, id) = DOMAIN ix
      /\ Add(ix, id).manifest = ix.manifest /\ Add(ix, id).code = ix.code
  BY <1>4 DEF IndexOK
<1>6. IndexOK(Add(ix, id))
  BY <1>2, <1>3, <1>5 DEF IndexOK
<1> QED BY <1>5, <1>6 DEF new

LEMMA ResetOK ==
  ASSUME Typed, NEW ix, IndexOK(ix), NEW id
  PROVE  IndexOK(Reset(ix, id))
<1> DEFINE recs == IF id \in DOMAIN head.recs THEN Put(ix.recs, id, head.recs[id]) ELSE Drop(ix.recs, id)
<1>1. Tree(recs) /\ DOMAIN recs \subseteq DOMAIN disk
  <2>1. CASE id \in DOMAIN head.recs
    <3>1. /\ id \in Ids /\ head.recs[id] \in Record /\ head.recs[id].id = id /\ ~head.recs[id].remote
          /\ id \in DOMAIN disk
      BY <2>1 DEF Typed, Repo, Tree, ById
    <3>2. Tree(Put(ix.recs, id, head.recs[id]))
      BY <3>1, PutTree DEF IndexOK
    <3>3. DOMAIN Put(ix.recs, id, head.recs[id]) \subseteq DOMAIN disk
      BY <3>1 DEF Put, IndexOK
    <3> QED BY <2>1, <3>2, <3>3
  <2>2. CASE id \notin DOMAIN head.recs
    <3>1. /\ DOMAIN Drop(ix.recs, id) \subseteq DOMAIN ix.recs
          /\ \A j \in DOMAIN Drop(ix.recs, id) : Drop(ix.recs, id)[j] = ix.recs[j]
          /\ Drop(ix.recs, id) = [j \in DOMAIN Drop(ix.recs, id) |-> Drop(ix.recs, id)[j]]
      BY DEF Drop
    <3>2. Tree(Drop(ix.recs, id)) /\ DOMAIN Drop(ix.recs, id) \subseteq DOMAIN disk
      BY <3>1 DEF IndexOK, Tree, ById
    <3> QED BY <2>2, <3>2
  <2> QED BY <2>1, <2>2
<1> HIDE DEF recs
<1>2. Reset(ix, id) = [ix EXCEPT !.recs = recs]
  BY DEF Reset, recs
<1> QED BY <1>1, <1>2 DEF IndexOK

LEMMA ManifestStaged ==
  ASSUME NEW ix, IndexOK(ix), NEW m
  PROVE  IndexOK([ix EXCEPT !.manifest = m])
BY DEF IndexOK

LEMMA StagedOK ==
  ASSUME Typed, NEW p \in Procs, proc[p].id \in DOMAIN disk
  PROVE  IndexOK(StagedBy(p)) /\ StagedBy(p).recs = Put(index.recs, proc[p].id, disk[proc[p].id])
<1> DEFINE ix == Add(index, proc[p].id)
           m == IF proc[p].cmd = "complete" THEN manifest ELSE ix.manifest
<1>1. IndexOK(ix) /\ ix.recs = Put(index.recs, proc[p].id, disk[proc[p].id])
  BY RepoIndex, AddOK
<1> HIDE DEF ix
<1>2. StagedBy(p) = [ix EXCEPT !.manifest = m]
  BY DEF StagedBy, ix
<1> HIDE DEF m
<1>3. StagedBy(p).recs = ix.recs
  BY <1>1, <1>2 DEF IndexOK
<1> QED BY <1>1, <1>2, <1>3, ManifestStaged

LEMMA StagingRepo ==
  ASSUME Typed, DiskStep, IndexOK(index'), UNCHANGED <<head, log>>
  PROVE  Repo'
BY DEF Typed, Repo, IndexOK, DiskStep

LEMMA IndexKept ==
  ASSUME DiskStep, NEW ix, IndexOK(ix)
  PROVE  DOMAIN ix.recs \subseteq DOMAIN disk'
BY DEF DiskStep, IndexOK

LEMMA CommittedRepo ==
  ASSUME Typed, disk' = disk, NEW ix, NEW tags, IndexOK(ix), Committed(ix, Commit(ix, tags))
  PROVE  Repo'
<1>1. /\ head' = [recs |-> ix.recs, manifest |-> ix.manifest] /\ index' = [ix EXCEPT !.code = {}]
      /\ log' = log \cup {Commit(ix, tags)} /\ Commit(ix, tags).after = ix.recs
  BY DEF Committed, Commit
<1>2. \A c \in log' : DOMAIN c.after \subseteq DOMAIN disk'
  BY <1>1 DEF Typed, Repo, IndexOK
<1>3. head'.recs = ix.recs /\ {"recs", "manifest"} \subseteq DOMAIN head'
  BY <1>1
<1>4. index'.recs = ix.recs /\ {"recs", "manifest", "code"} \subseteq DOMAIN index'
  BY <1>1 DEF IndexOK
<1> QED BY <1>2, <1>3, <1>4 DEF Repo, IndexOK

\* A step of a process that may also stage or commit.
LEMMA GitStep ==
  ASSUME Typed, DiskStep, NEW p \in Procs, Only(p), ProcOK(p)', Manifest(manifest)', Repo',
         UNCHANGED <<config, left>>
  PROVE  Typed'
<1>1. \A q \in Procs : ProcOK(q)'
  BY OthersKept
<1>2. Budget'
  BY BudgetKept DEF Typed
<1> QED BY <1>1, <1>2 DEF Typed, Only, DiskStep

-----------------------------------------------------------------------------
(***************************************************************************)
(* The other commands.                                                     *)
(***************************************************************************)
\* A record taken from memory can be saved.
LEMMA MemoryRecord ==
  ASSUME Typed, NEW p \in Procs, proc[p] # Idle, NEW id \in DOMAIN Mem(p), ~Mem(p)[id].remote
  PROVE  /\ Mem(p)[id] \in Record /\ Mem(p)[id].id = id /\ id \in DOMAIN disk /\ id \in Ids
         /\ disk[id] \in Record /\ disk[id].id = id /\ ~disk[id].remote
BY StayingTree DEF ProcOK, Command, Memory, ById, Tree

LEMMA SupersedeTyped ==
  ASSUME Typed, NEW p \in Procs, Supersede(p)
  PROVE  Typed' /\ Only(p) /\ DiskStep /\ proc'[p] = Idle /\ proc[p].cmd = "create"
<1> DEFINE target == Mine(p).supersedes
           old == [Mem(p)[target] EXCEPT !.by = proc[p].id, !.status = "superseded"]
<1>1. /\ Running(p, {"create"}, "created") /\ Done(p) /\ UNCHANGED <<manifest, writable, repo, config, left>>
      /\ disk' = IF target = None \/ Mem(p)[target].remote THEN disk ELSE SaveRecord(disk, old)
  BY DEF Supersede
<1>2. proc[p] # Idle /\ Command(p) /\ proc[p].cmd = "create"
  BY <1>1, RunningBusy DEF Places
<1>3. Only(p) /\ ProcOK(p)' /\ proc'[p] = Idle
  BY <1>1, Stops
<1>4. DiskStep
  <2>1. CASE target = None \/ Mem(p)[target].remote
    BY <1>1, <2>1, DiskStays, StayingTree
  <2>2. CASE target # None /\ ~Mem(p)[target].remote /\ target \in DOMAIN Mem(p)
    <3>1. Mem(p)[target] \in Record /\ Mem(p)[target].id = target /\ target \in Ids
      BY <1>2, <2>2, MemoryRecord
    <3>2. proc[p].id \in AnyId /\ "superseded" \in Statuses
      BY <1>2 DEF Command, OnRecord, AnyId, Statuses
    <3>3. [Mem(p)[target] EXCEPT !.by = proc[p].id] \in Record
      BY <3>1, <3>2, BySet
    <3>4. [[Mem(p)[target] EXCEPT !.by = proc[p].id] EXCEPT !.status = "superseded"] \in Record
      BY <3>2, <3>3, StatusSet
    <3>5. DOMAIN Mem(p)[target] = Fields
      BY <3>1, RecordFields
    <3>6. old = [[Mem(p)[target] EXCEPT !.by = proc[p].id] EXCEPT !.status = "superseded"]
      BY <3>5 DEF Fields
    <3>7. old.id = target /\ ~old.remote
      BY <2>2, <3>1, <3>5 DEF Fields
    <3> HIDE DEF old
    <3> QED BY <1>1, <2>2, <3>1, <3>4, <3>6, <3>7, SaveDisk, StayingTree
  <2>3. target \in DOMAIN Mem(p) \cup {None}
    BY <1>1, <1>2 DEF Command, Running
  <2> QED BY <2>1, <2>2, <2>3
<1>5. Typed'
  BY <1>1, <1>3, <1>4, ProcStep, StayingTree DEF Manifest
<1> QED BY <1>2, <1>3, <1>4, <1>5

LEMMA CommitDraftTyped ==
  ASSUME Typed, NEW p \in Procs, CommitDraft(p)
  PROVE  /\ Typed' /\ Only(p) /\ UNCHANGED <<files, config, left>> /\ proc[p].cmd = "locklayer"
         /\ \/ proc'[p] = Idle
            \/ /\ proc'[p].pc = "loaded2" /\ proc'[p].mem = proc[p].mem /\ proc'[p].cmd = "locklayer"
               /\ proc'[p].id = proc[p].id
<1> DEFINE ix == Add(index, proc[p].id)
           c == Commit(ix, {proc[p].id})
<1>1. /\ Running(p, {"locklayer"}, "created") /\ proc[p].id \in DOMAIN disk /\ UNCHANGED <<files, config, left>>
      /\ \/ Committed(ix, c) /\ Goto(p, "loaded2")
         \/ index' = ix /\ Done(p) /\ UNCHANGED <<head, log>>
         \/ Goto(p, "loaded2") /\ UNCHANGED repo
  BY DEF CommitDraft
<1>2. proc[p] # Idle /\ Command(p) /\ proc[p].cmd = "locklayer" /\ proc[p].pc = "created"
  BY <1>1, RunningBusy DEF Places
<1>3. DiskStep /\ IndexOK(ix) /\ disk' = disk /\ Manifest(manifest)'
  BY <1>1, DiskStays, StayingTree, RepoIndex, AddOK DEF files, Manifest
<1>4. ASSUME Goto(p, "loaded2")
      PROVE  /\ Only(p) /\ ProcOK(p)' /\ proc'[p].pc = "loaded2" /\ proc'[p].mem = proc[p].mem
             /\ proc'[p].cmd = "locklayer" /\ proc'[p].id = proc[p].id
  <2>1. proc'[p].cmd = "locklayer"
    BY <1>2, <1>4 DEF Goto, Typed, Command
  <2>2. ~Midway(p)'
    BY <2>1 DEF Midway, Transition
  <2>3. "loaded2" \in Places \ {"created"}
    BY DEF Places
  <2> QED BY <1>2, <1>3, <1>4, <2>1, <2>2, <2>3, GoesOn DEF Command
<1>5. CASE Committed(ix, c) /\ Goto(p, "loaded2")
  BY <1>1, <1>2, <1>3, <1>4, <1>5, CommittedRepo, GitStep
<1>6. CASE index' = ix /\ Done(p) /\ UNCHANGED <<head, log>>
  <2>1. IndexOK(index')
    BY <1>3, <1>6
  <2>2. Repo'
    BY <1>3, <1>6, <2>1, StagingRepo
  <2> QED BY <1>1, <1>2, <1>3, <1>6, <2>2, Stops, GitStep
<1>7. CASE Goto(p, "loaded2") /\ UNCHANGED repo
  BY <1>1, <1>2, <1>3, <1>4, <1>7, ProcStep
<1> QED BY <1>1, <1>5, <1>6, <1>7

LEMMA SealLayerTyped ==
  ASSUME Typed, NEW p \in Procs, SealLayer(p)
  PROVE  /\ Typed' /\ Only(p) /\ UNCHANGED <<files, repo, config, left>> /\ proc[p].cmd = "locklayer"
         /\ proc'[p].pc = "loaded" /\ proc'[p].cmd = "complete" /\ proc'[p].mem = proc[p].mem
         /\ proc'[p].before = files /\ proc'[p].id = proc[p].id
<1>1. /\ Running(p, {"locklayer"}, "loaded2") /\ UNCHANGED <<files, repo, config, left>>
      /\ proc' = [proc EXCEPT ![p].cmd = "complete", ![p].force = TRUE, ![p].pc = "loaded",
                              ![p].before = files]
  BY DEF SealLayer
<1>2. /\ proc[p] # Idle /\ Command(p) /\ proc[p].cmd = "locklayer" /\ proc[p].pc = "loaded2"
      /\ DOMAIN proc = Procs
  BY <1>1, RunningBusy DEF Places, Typed
<1>3. /\ Only(p) /\ DOMAIN proc'[p] = DOMAIN proc[p] /\ proc'[p].pc = "loaded" /\ proc'[p].cmd = "complete"
      /\ proc'[p].mem = proc[p].mem /\ proc'[p].before = files /\ proc'[p].id = proc[p].id
  BY <1>1, <1>2 DEF Only, Command
<1>4. DiskStep /\ Manifest(manifest)'
  BY <1>1, DiskStays, StayingTree DEF files, Manifest
<1>5. Mem(p)' = Mem(p) /\ Mine(p)' = Mine(p) /\ Memory(Mem(p))'
  BY <1>2, <1>3, <1>4, MemoryKept DEF Mem, Mine, Command
<1>6. Command(p)'
  BY <1>2, <1>3, <1>5 DEF Command, Places, OnRecord
<1>7. ProcOK(p)'
  BY <1>3, <1>6 DEF ProcOK, Midway
<1> QED BY <1>1, <1>2, <1>3, <1>4, <1>7, ProcStep

LEMMA RollbackDisk ==
  ASSUME Typed, NEW p \in Procs, proc[p] # Idle, Midway(p), Rollback(p)
  PROVE  DiskStep /\ Only(p) /\ ProcOK(p)' /\ proc'[p] = Idle /\ Manifest(manifest)'
<1>1. Command(p) /\ Journaled(p)
  BY StayingTree DEF ProcOK
<1>2. /\ disk' = Put(disk, proc[p].id, proc[p].snap) /\ Done(p)
      /\ manifest' = IF proc[p].cmd = "complete" THEN proc[p].snapManifest ELSE manifest
  BY DEF Rollback
<1>3. Only(p) /\ ProcOK(p)' /\ proc'[p] = Idle
  BY <1>2, Stops
<1>4. Tree(disk')
  BY <1>1, <1>2, PutTree, StayingTree DEF Journaled, Tree
<1>5. DiskStep
  <2>1. \A j \in DOMAIN disk : SameRules(disk[j], disk'[j])
    BY <1>1, <1>2 DEF Put, Journaled, SameRules
  <2>2. DOMAIN disk \subseteq DOMAIN disk'
    BY <1>2 DEF Put
  <2> QED BY <1>4, <2>1, <2>2 DEF DiskStep
<1>6. Manifest(manifest)'
  BY <1>1, <1>2, StayingTree DEF Journaled, Manifest
<1> QED BY <1>3, <1>5, <1>6

LEMMA TransitionedSet ==
  ASSUME NEW r \in Record, NEW cmd \in Transition
  PROVE  /\ Transitioned(r, cmd) \in Record /\ Transitioned(r, cmd).id = r.id
         /\ Transitioned(r, cmd).remote = r.remote /\ Transitioned(r, cmd).status = NextStatus[cmd]
         /\ SameRules(Transitioned(r, cmd), r) /\ NextStatus[cmd] \in Statuses
         /\ r.id \notin Placed(config) => updateRecordYAMLText(r, Transitioned(r, cmd)) = Transitioned(r, cmd)
<1> DEFINE b == r.sealed \/ cmd = "complete"
           x == [[r EXCEPT !.status = NextStatus[cmd]] EXCEPT !.sealed = b]
<1>1. NextStatus[cmd] \in Statuses
  BY DEF Transition, NextStatus, Statuses
<1>2. b \in BOOLEAN /\ DOMAIN r = Fields /\ r = [f \in Fields |-> r[f]]
  BY RecordFields
<1>3. [r EXCEPT !.status = NextStatus[cmd]] \in Record
  BY <1>1, StatusSet
<1>4. x \in Record
  BY <1>2, <1>3, SealedSet
<1>5. Transitioned(r, cmd) = x
  BY <1>2 DEF Transitioned, Fields
<1>6. /\ x.id = r.id /\ x.remote = r.remote /\ x.status = NextStatus[cmd] /\ x.sealed = b /\ x.by = r.by
      /\ x.affected = r.affected /\ x.forbidden = r.forbidden /\ x.supersedes = r.supersedes
      /\ DOMAIN x = Fields /\ \A f \in Fields \ {"status", "sealed"} : x[f] = r[f]
  BY <1>2 DEF Fields
<1>7. ASSUME r.id \notin Placed(config) PROVE updateRecordYAMLText(r, x) = x
  <2> DEFINE u == updateRecordYAMLText(r, x)
  <2>1. DOMAIN u = Fields /\ u = [f \in Fields |-> u[f]]
    BY <1>2 DEF updateRecordYAMLText
  <2>2. u.status = x.status /\ u.sealed = (r.sealed \/ x.sealed) /\ u.by = r.by
        /\ \A f \in Fields \ {"status", "sealed", "by"} : u[f] = r[f]
    BY <1>2, <1>6, <1>7 DEF updateRecordYAMLText, Fields, Placed
  <2>3. (r.sealed \/ x.sealed) = x.sealed
    BY <1>6
  <2>4. \A f \in Fields : u[f] = x[f]
    BY <1>6, <2>2, <2>3
  <2>5. x = [f \in Fields |-> x[f]]
    BY <1>4, RecordFields
  <2> HIDE DEF u, x
  <2> QED BY <2>1, <2>4, <2>5 DEF u
<1> HIDE DEF x
<1> QED BY <1>1, <1>4, <1>5, <1>6, <1>7 DEF SameRules

LEMMA SaveTyped ==
  ASSUME Typed, NEW p \in Procs, Save(p)
  PROVE  /\ Typed' /\ Only(p) /\ DiskStep /\ UNCHANGED <<manifest, writable, repo, config, left>>
         /\ proc[p] # Idle /\ proc[p].cmd \in Transition /\ proc[p].pc = "loaded"
         /\ proc[p].id \in DOMAIN disk
         /\ LET r == [Mine(p) EXCEPT !.status = NextStatus[proc[p].cmd],
                                     !.sealed = @ \/ proc[p].cmd = "complete"]
            IN  /\ r = Transitioned(Mine(p), proc[p].cmd) /\ r.id = proc[p].id
                /\ disk' = SaveRecord(disk, r)
                /\ proc'[p].mem = [Mem(p) EXCEPT ![proc[p].id] = r] /\ proc'[p].pc = "saved"
                /\ proc'[p].snap = disk[proc[p].id] /\ proc'[p].snapManifest = manifest
                /\ proc'[p].targets = materializeTargets(r.affected)
                /\ proc'[p].perms = materializeTargets(r.affected) \cap writable
                /\ proc'[p].cmd = proc[p].cmd /\ proc'[p].id = proc[p].id
                /\ proc'[p].before = proc[p].before
<1> DEFINE cmd == proc[p].cmd
           r == [Mine(p) EXCEPT !.status = NextStatus[cmd], !.sealed = @ \/ cmd = "complete"]
           unlocks == materializeTargets(r.affected)
           first == [snap |-> disk[r.id], snapManifest |-> manifest, targets |-> unlocks,
                     perms |-> unlocks \cap writable, copy |-> NoManifest]
           rest == [proc[p] EXCEPT !.mem[r.id] = r, !.pc = "saved"]
<1>1. /\ Running(p, Transition, "loaded") /\ r.id \in DOMAIN disk /\ disk' = SaveRecord(disk, r)
      /\ proc' = [proc EXCEPT ![p] = Over(first, rest)]
      /\ UNCHANGED <<manifest, writable, repo, config, left>>
  BY DEF Save
<1>2. /\ proc[p] # Idle /\ Command(p) /\ cmd \in Transition /\ proc[p].pc = "loaded" /\ DOMAIN proc = Procs
      /\ cmd \in OnRecord /\ cmd \notin {"create", "locklayer"}
  BY <1>1, RunningBusy DEF Places, Typed, Transition, OnRecord
<1>3. proc[p].id \in DOMAIN Mem(p) /\ ~Mine(p).remote
  BY <1>2 DEF Command
<1>4. /\ Mine(p) \in Record /\ Mine(p).id = proc[p].id /\ proc[p].id \in Ids /\ proc[p].id \in DOMAIN disk
      /\ disk[proc[p].id] \in Record /\ disk[proc[p].id].id = proc[p].id /\ ~disk[proc[p].id].remote
  BY <1>2, <1>3, MemoryRecord DEF Mine, Mem
<1>5. r = Transitioned(Mine(p), cmd)
  BY DEF Transitioned
<1> HIDE DEF r
<1>6. r \in Record /\ r.id = proc[p].id /\ ~r.remote
  BY <1>2, <1>3, <1>4, <1>5, TransitionedSet
<1>7. DiskStep /\ DOMAIN disk' = DOMAIN disk
  BY <1>1, <1>4, <1>6, SaveDisk, StayingTree
<1>8. /\ DOMAIN rest = DOMAIN proc[p] /\ rest.pc = "saved" /\ rest.cmd = cmd /\ rest.id = proc[p].id
      /\ rest.before = proc[p].before /\ rest.mem = [Mem(p) EXCEPT ![r.id] = r] /\ rest.force = proc[p].force
  BY <1>2 DEF Command, Mem
<1>9. {"pc", "cmd", "id", "force", "mem", "before"} \subseteq DOMAIN rest
  BY <1>2, <1>8 DEF Command
<1> HIDE DEF rest, unlocks
<1>10. /\ proc'[p] = Over(first, rest) /\ Only(p)
  BY <1>1, <1>2 DEF Only
<1>11. /\ DOMAIN first = {"snap", "snapManifest", "targets", "perms", "copy"}
       /\ first.snap = disk[r.id] /\ first.snapManifest = manifest /\ first.targets = unlocks
       /\ first.perms = unlocks \cap writable /\ first.copy = NoManifest
  OBVIOUS
<1> HIDE DEF first
<1>12. /\ DOMAIN proc'[p] = DOMAIN first \cup DOMAIN rest
       /\ \A f \in DOMAIN first : proc'[p][f] = first[f]
       /\ \A f \in DOMAIN rest : f \notin DOMAIN first => proc'[p][f] = rest[f]
  BY <1>10 DEF Over
<1>13. /\ proc'[p].pc = "saved" /\ proc'[p].cmd = cmd /\ proc'[p].id = proc[p].id
       /\ proc'[p].before = proc[p].before /\ proc'[p].mem = [Mem(p) EXCEPT ![r.id] = r]
       /\ proc'[p].snap = disk[r.id] /\ proc'[p].snapManifest = manifest /\ proc'[p].targets = unlocks
       /\ proc'[p].perms = unlocks \cap writable /\ proc'[p].copy = NoManifest
  BY <1>8, <1>9, <1>11, <1>12
<1>14. /\ {"pc", "cmd", "id", "force", "mem", "before"} \subseteq DOMAIN proc'[p]
       /\ {"snap", "snapManifest", "targets", "perms", "copy"} \subseteq DOMAIN proc'[p]
  BY <1>9, <1>11, <1>12
<1>15. /\ DOMAIN Mem(p)' = DOMAIN Mem(p) /\ Mem(p)'[proc[p].id] = r
       /\ \A j \in DOMAIN Mem(p) : j # proc[p].id => Mem(p)'[j] = Mem(p)[j]
       /\ Mem(p)' = [j \in DOMAIN Mem(p)' |-> Mem(p)'[j]]
  BY <1>3, <1>6, <1>13 DEF Mem
<1>16. Memory(Mem(p))'
  <2>1. Memory(Mem(p))
    BY <1>2 DEF Command
  <2>2. ById(Mem(p)')
    BY <1>6, <1>15, <2>1 DEF Memory, ById
  <2>3. \A id \in DOMAIN Mem(p)' : ~Mem(p)'[id].remote => id \in DOMAIN disk'
    BY <1>4, <1>7, <1>15, <2>1 DEF Memory
  <2> QED BY <2>2, <2>3 DEF Memory
<1>17. Mine(p)' = r
  BY <1>13, <1>15 DEF Mine, Mem
<1>18. Command(p)'
  BY <1>2, <1>3, <1>6, <1>13, <1>14, <1>15, <1>16, <1>17 DEF Command, Places
<1>19. Journaled(p)'
  <2>1. SameRules(disk[proc[p].id], disk'[proc[p].id])
    BY <1>4, <1>7 DEF DiskStep
  <2> QED BY <1>1, <1>4, <1>6, <1>7, <1>13, <1>14, <2>1, StayingTree DEF Journaled, Manifest
<1>20. Typed'
  BY <1>1, <1>7, <1>10, <1>18, <1>19, ProcStep, StayingTree DEF ProcOK, Manifest
<1> QED BY <1>1, <1>2, <1>4, <1>5, <1>6, <1>7, <1>10, <1>13, <1>20 DEF r, unlocks

\* A transition that goes on: what it wrote down stays.
Kept(p) ==
  \A f \in {"cmd", "id", "force", "mem", "before", "snap", "snapManifest", "targets", "perms"} :
    proc'[p][f] = proc[p][f]

MidPlaces == {"sealing", "sealed", "valid", "ready", "committed"}

LEMMA MidwayGoes ==
  ASSUME Typed, NEW p \in Procs, proc[p] # Idle, Midway(p), NEW pc \in MidPlaces, Goto(p, pc), disk' = disk
  PROVE  /\ Only(p) /\ ProcOK(p)' /\ proc'[p].pc = pc /\ Kept(p) /\ proc'[p].copy = proc[p].copy /\ DiskStep
         /\ Midway(p)'
<1>1. Command(p) /\ Journaled(p) /\ DiskStep
  BY StayingTree, DiskStays DEF ProcOK
<1>2. pc \in Places \ {"created"} /\ proc[p].cmd \notin {"create", "locklayer"}
  BY DEF MidPlaces, Places, Midway, Transition
<1>3. /\ Only(p) /\ ProcOK(p)' /\ proc'[p].pc = pc
      /\ \A f \in DOMAIN proc[p] : f # "pc" => proc'[p][f] = proc[p][f]
  BY <1>1, <1>2, GoesOn
<1>4. Kept(p) /\ proc'[p].copy = proc[p].copy
  BY <1>1, <1>3 DEF Kept, Command, Journaled
<1>5. Midway(p)'
  BY <1>3, <1>4 DEF Midway, Kept, MidPlaces
<1> QED BY <1>1, <1>3, <1>4, <1>5

LEMMA RunningMidway ==
  ASSUME Typed, NEW p \in Procs, NEW cmds \in SUBSET Transition, NEW pc \in MidPlaces \cup {"saved"}, Running(p, cmds, pc)
  PROVE  /\ proc[p] # Idle /\ Command(p) /\ Midway(p) /\ Journaled(p)
         /\ proc[p].pc = pc /\ proc[p].cmd \in cmds
BY RunningBusy DEF MidPlaces, Places, Midway

LEMMA ReadManifestTyped ==
  ASSUME Typed, NEW p \in Procs, ReadManifest(p)
  PROVE  /\ Typed' /\ Only(p) /\ UNCHANGED <<files, repo, config, left>>
         /\ proc[p] # Idle /\ Midway(p) /\ proc[p].cmd = "complete" /\ proc[p].pc = "saved"
         /\ Kept(p) /\ proc'[p].copy = manifest /\ proc'[p].pc = "sealing"
<1>1. /\ Running(p, {"complete"}, "saved") /\ UNCHANGED <<files, repo, config, left>>
      /\ proc' = [proc EXCEPT ![p].copy = manifest, ![p].pc = "sealing"]
  BY DEF ReadManifest
<1>2. /\ proc[p] # Idle /\ Command(p) /\ Midway(p) /\ Journaled(p) /\ proc[p].pc = "saved"
      /\ proc[p].cmd = "complete" /\ DOMAIN proc = Procs
  BY <1>1, RunningMidway DEF Transition, Typed
<1>3. /\ Only(p) /\ DOMAIN proc'[p] = DOMAIN proc[p] /\ proc'[p].pc = "sealing" /\ proc'[p].copy = manifest
      /\ \A f \in DOMAIN proc[p] : f \notin {"pc", "copy"} => proc'[p][f] = proc[p][f]
  BY <1>1, <1>2 DEF Only, Command, Journaled
<1>4. Kept(p)
  BY <1>2, <1>3 DEF Kept, Command, Journaled
<1>5. DiskStep /\ Manifest(manifest)'
  BY <1>1, DiskStays, StayingTree DEF files, Manifest
<1>6. Mem(p)' = Mem(p) /\ Mine(p)' = Mine(p) /\ Memory(Mem(p))'
  BY <1>2, <1>4, <1>5, MemoryKept DEF Mem, Mine, Command, Kept
<1>7. Command(p)'
  BY <1>2, <1>3, <1>4, <1>6 DEF Command, Places, Kept
<1>8. Journaled(p)'
  BY <1>2, <1>3, <1>4, <1>5, StayingTree DEF Journaled, Kept, DiskStep, SameRules, Manifest
<1> QED BY <1>1, <1>2, <1>3, <1>4, <1>5, <1>7, <1>8, ProcStep DEF ProcOK

LEMMA PutManifest ==
  ASSUME NEW m, Manifest(m), NEW id \in Ids, NEW x \in Record
  PROVE  Manifest(Put(SealedIn(m), id, x)) /\ Put(SealedIn(m), id, x) # NoManifest
<1> DEFINE new == Put(SealedIn(m), id, x)
<1>1. PICK S \in SUBSET Ids : SealedIn(m) \in [S -> Record]
  <2>1. CASE m = NoManifest
    <3>1. SealedIn(m) \in [{} -> Record]
      BY <2>1 DEF SealedIn, Empty
    <3> QED BY <3>1
  <2>2. CASE m # NoManifest
    BY <2>2 DEF Manifest, SealedIn
  <2> QED BY <2>1, <2>2
<1>2. new \in [S \cup {id} -> Record]
  BY <1>1 DEF Put
<1>3. S \cup {id} \in SUBSET Ids
  BY <1>1
<1> HIDE DEF new
<1>4. Manifest(new) /\ new # NoManifest
  BY <1>2, <1>3, ManifestAssumption DEF Manifest
<1> QED BY <1>4 DEF new

LEMMA SealRecordTyped ==
  ASSUME Typed, NEW p \in Procs, SealRecord(p)
  PROVE  /\ Typed' /\ Only(p) /\ UNCHANGED <<disk, writable, repo, config, left>>
         /\ proc[p] # Idle /\ Midway(p) /\ proc[p].cmd = "complete" /\ proc[p].pc = "sealing"
         /\ Kept(p) /\ proc'[p].pc = "sealed"
         /\ \/ manifest' = Put(SealedIn(proc[p].copy), proc[p].id, Content(Mine(p)))
            \/ config.faults /\ manifest' = manifest
<1>1. /\ Running(p, {"complete"}, "sealing") /\ Goto(p, "sealed") /\ UNCHANGED <<disk, writable, repo, config, left>>
      /\ \/ manifest' = Put(SealedIn(proc[p].copy), proc[p].id, Content(Mine(p)))
         \/ config.faults /\ UNCHANGED manifest
  BY DEF SealRecord
<1>2. /\ proc[p] # Idle /\ Command(p) /\ Midway(p) /\ Journaled(p) /\ proc[p].pc = "sealing"
      /\ proc[p].cmd = "complete"
  BY <1>1, RunningMidway DEF Transition, MidPlaces
<1>3. Only(p) /\ ProcOK(p)' /\ proc'[p].pc = "sealed" /\ Kept(p) /\ DiskStep
  BY <1>1, <1>2, MidwayGoes DEF MidPlaces
<1>4. Manifest(manifest)'
  <2>1. proc[p].id \in DOMAIN Mem(p) /\ ~Mine(p).remote /\ proc[p].id \in Ids
    BY <1>2 DEF Command, OnRecord
  <2>2. Mine(p) \in Record
    BY <1>2, <2>1, MemoryRecord DEF Mine, Mem
  <2>3. Content(Mine(p)) \in Record
    BY <2>2, ContentSame
  <2>4. Manifest(Put(SealedIn(proc[p].copy), proc[p].id, Content(Mine(p))))
    BY <1>2, <2>1, <2>3, PutManifest DEF Journaled
  <2> QED BY <1>1, <2>4, StayingTree DEF Manifest
<1> QED BY <1>1, <1>2, <1>3, <1>4, ProcStep

LEMMA RefuseTyped ==
  ASSUME Typed, NEW p \in Procs, Refuse(p) \/ SpecsFail(p)
  PROVE  /\ Typed' /\ Only(p) /\ UNCHANGED <<repo, config, left>> /\ proc'[p] = Idle /\ Rollback(p)
         /\ proc[p] # Idle /\ Midway(p)
<1>1. Rollback(p) /\ UNCHANGED <<repo, config, left>>
  BY DEF Refuse, SpecsFail
<1>2. proc[p] # Idle /\ Midway(p)
  <2>1. Running(p, {"open"}, "saved") \/ Running(p, {"complete"}, "sealed") \/ Running(p, {"complete"}, "valid")
    BY DEF Refuse, SpecsFail, ToValidate
  <2> QED BY <2>1, RunningMidway DEF Transition, MidPlaces
<1> QED BY <1>1, <1>2, RollbackDisk, ProcStep

LEMMA ValidateTyped ==
  ASSUME Typed, NEW p \in Procs, Validate(p)
  PROVE  /\ Typed' /\ Only(p) /\ UNCHANGED <<files, repo, config, left>> /\ proc[p] # Idle /\ Midway(p)
         /\ Kept(p) /\ proc'[p].pc = "valid"
         /\ \/ proc[p].cmd = "open" /\ proc[p].pc = "saved"
            \/ proc[p].cmd = "complete" /\ proc[p].pc = "sealed"
<1>1. /\ Running(p, {"open"}, "saved") \/ Running(p, {"complete"}, "sealed")
      /\ Goto(p, "valid") /\ UNCHANGED <<files, repo, config, left>>
  BY DEF Validate, ToValidate
<1>2. proc[p] # Idle /\ Midway(p)
      /\ \/ proc[p].cmd = "open" /\ proc[p].pc = "saved"
         \/ proc[p].cmd = "complete" /\ proc[p].pc = "sealed"
  BY <1>1, RunningMidway DEF Transition, MidPlaces
<1> QED BY <1>1, <1>2, MidwayGoes, ProcStep, StayingTree DEF MidPlaces, files, Manifest

LEMMA SpecsPassTyped ==
  ASSUME Typed, NEW p \in Procs, SpecsPass(p)
  PROVE  /\ Typed' /\ Only(p) /\ UNCHANGED <<files, repo, config, left>> /\ proc[p] # Idle /\ Midway(p)
         /\ Kept(p) /\ proc'[p].pc = "ready" /\ proc[p].cmd = "complete" /\ proc[p].pc = "valid"
<1>1. Running(p, {"complete"}, "valid") /\ Goto(p, "ready") /\ UNCHANGED <<files, repo, config, left>>
  BY DEF SpecsPass
<1>2. proc[p] # Idle /\ Midway(p) /\ proc[p].cmd = "complete" /\ proc[p].pc = "valid"
  BY <1>1, RunningMidway DEF Transition, MidPlaces
<1> QED BY <1>1, <1>2, MidwayGoes, ProcStep, StayingTree DEF MidPlaces, files, Manifest

LEMMA UnlockTyped ==
  ASSUME Typed, NEW p \in Procs, Unlock(p)
  PROVE  /\ Typed' /\ Only(p) /\ UNCHANGED <<disk, manifest, repo, config, left>> /\ proc[p] # Idle /\ Midway(p)
         /\ Kept(p) /\ proc'[p].pc = "ready" /\ proc[p].cmd = "open" /\ proc[p].pc = "valid"
         /\ writable' = writable \cup materializeTargets(Mine(p).affected)
<1>1. /\ Running(p, {"open"}, "valid") /\ Goto(p, "ready") /\ UNCHANGED <<disk, manifest, repo, config, left>>
      /\ writable' = writable \cup materializeTargets(Mine(p).affected)
  BY DEF Unlock, MaterializeScope
<1>2. proc[p] # Idle /\ Midway(p) /\ proc[p].cmd = "open" /\ proc[p].pc = "valid"
  BY <1>1, RunningMidway DEF Transition, MidPlaces
<1> QED BY <1>1, <1>2, MidwayGoes, ProcStep, StayingTree DEF MidPlaces, Manifest

LEMMA ToCommitMidway ==
  ASSUME Typed, NEW p \in Procs, ToCommit(p)
  PROVE  /\ proc[p] # Idle /\ Midway(p) /\ Journaled(p)
         /\ \/ proc[p].cmd \in {"open", "complete"} /\ proc[p].pc = "ready"
            \/ proc[p].cmd = "deprecate" /\ proc[p].pc = "saved"
<1>1. Running(p, {"open", "complete"}, "ready") \/ Running(p, {"deprecate"}, "saved")
  BY DEF ToCommit
<1> QED BY <1>1, RunningMidway DEF Transition, MidPlaces

LEMMA CommitStatusTyped ==
  ASSUME Typed, NEW p \in Procs, CommitStatus(p)
  PROVE  /\ Typed' /\ Only(p) /\ UNCHANGED <<files, config, left>> /\ proc[p] # Idle /\ Midway(p)
         /\ Kept(p) /\ proc'[p].pc = "committed"
         /\ \/ proc[p].cmd \in {"open", "complete"} /\ proc[p].pc = "ready"
            \/ proc[p].cmd = "deprecate" /\ proc[p].pc = "saved"
<1> DEFINE c == Commit(StagedBy(p), {proc[p].id})
<1>1. /\ ToCommit(p) /\ proc[p].id \in DOMAIN disk /\ Goto(p, "committed") /\ UNCHANGED <<files, config, left>>
      /\ Committed(StagedBy(p), c) \/ UNCHANGED repo
  BY DEF CommitStatus
<1>2. /\ proc[p] # Idle /\ Midway(p)
      /\ \/ proc[p].cmd \in {"open", "complete"} /\ proc[p].pc = "ready"
         \/ proc[p].cmd = "deprecate" /\ proc[p].pc = "saved"
  BY <1>1, ToCommitMidway
<1>3. disk' = disk /\ Manifest(manifest)'
  BY <1>1, StayingTree DEF files, Manifest
<1>4. Only(p) /\ ProcOK(p)' /\ proc'[p].pc = "committed" /\ Kept(p) /\ DiskStep
  BY <1>1, <1>2, <1>3, MidwayGoes DEF MidPlaces
<1>5. Repo'
  <2>1. CASE Committed(StagedBy(p), c)
    BY <1>1, <1>3, <2>1, StagedOK, CommittedRepo
  <2>2. CASE UNCHANGED repo
    BY <1>4, <2>2, RepoKept, StayingTree
  <2> QED BY <1>1, <2>1, <2>2
<1> QED BY <1>1, <1>2, <1>3, <1>4, <1>5, GitStep

LEMMA CommitRejectedTyped ==
  ASSUME Typed, NEW p \in Procs, CommitRejected(p)
  PROVE  /\ Typed' /\ Only(p) /\ UNCHANGED <<head, log, config, left>> /\ proc'[p] = Idle /\ Rollback(p)
         /\ proc[p] # Idle /\ Midway(p)
         /\ index'.recs = Reset(index, proc[p].id).recs
<1> DEFINE unstaged == Reset(index, proc[p].id)
<1>1. /\ ToCommit(p) /\ Rollback(p) /\ UNCHANGED <<head, log, config, left>>
      /\ index' = IF proc[p].cmd = "complete" THEN [unstaged EXCEPT !.manifest = head.manifest] ELSE unstaged
  BY DEF CommitRejected
<1>2. proc[p] # Idle /\ Midway(p)
  BY <1>1, ToCommitMidway
<1>3. DiskStep /\ Only(p) /\ ProcOK(p)' /\ proc'[p] = Idle /\ Manifest(manifest)'
  BY <1>1, <1>2, RollbackDisk
<1>4. IndexOK(unstaged)
  BY RepoIndex, ResetOK
<1> HIDE DEF unstaged
<1>5. IndexOK(index') /\ index'.recs = unstaged.recs
  BY <1>1, <1>4, ManifestStaged DEF IndexOK
<1>6. Repo'
  <2>1. DOMAIN index'.recs \subseteq DOMAIN disk'
    BY <1>3, <1>5 DEF DiskStep, IndexOK
  <2> QED BY <1>1, <1>3, <1>5, StagingRepo
<1> QED BY <1>1, <1>2, <1>3, <1>5, <1>6, GitStep DEF unstaged

LEMMA RelockTyped ==
  ASSUME Typed, NEW p \in Procs, relockClosedScope(p)
  PROVE  /\ Typed' /\ Only(p) /\ UNCHANGED <<disk, manifest, repo, config, left>> /\ proc'[p] = Idle
         /\ proc[p] # Idle /\ Midway(p) /\ proc[p].pc = "committed"
         /\ writable' = IF proc[p].cmd = "open" THEN writable ELSE Relocked(writable, Mine(p), Mem(p))
<1>1. /\ Running(p, Transition, "committed") /\ Done(p) /\ UNCHANGED <<disk, manifest, repo, config, left>>
      /\ writable' = IF proc[p].cmd = "open" THEN writable ELSE Relocked(writable, Mine(p), Mem(p))
  BY DEF relockClosedScope
<1>2. proc[p] # Idle /\ Midway(p) /\ proc[p].pc = "committed"
  BY <1>1, RunningMidway DEF MidPlaces
<1>3. DiskStep /\ Manifest(manifest)'
  BY <1>1, DiskStays, StayingTree DEF Manifest
<1> QED BY <1>1, <1>2, <1>3, Stops, ProcStep

\* Of a record file that exists only three fields are rewritten, whatever scope
\* the record has in memory.
LEMMA ScopeStaysInMemory ==
  ASSUME Typed, NEW r \in Record, r.id \in DOMAIN disk, NEW scope
  PROVE  SaveRecord(disk, [r EXCEPT !.affected = scope]) = SaveRecord(disk, r)
<1> DEFINE x == [r EXCEPT !.affected = scope]
<1>1. DOMAIN r = Fields
  BY RecordFields
<1>2. x.id = r.id /\ x.status = r.status /\ x.sealed = r.sealed /\ x.by = r.by
  BY <1>1 DEF Fields
<1> HIDE DEF x
<1>3. SaveRecord(disk, x) = SaveRecord(disk, r)
  BY <1>2 DEF SaveRecord, updateRecordYAMLText
<1> QED BY <1>3 DEF x

LEMMA ChangeScopeTyped ==
  ASSUME Typed, NEW p \in Procs, ChangeScope(p)
  PROVE  /\ Typed' /\ Only(p) /\ UNCHANGED <<manifest, repo, config, left>> /\ proc'[p] = Idle
         /\ proc[p] # Idle /\ proc[p].cmd \in {"lockscope", "addscope"} /\ proc[p].id \in DOMAIN Mem(p)
         /\ disk' = SaveRecord(disk, Mine(p)) /\ ~Mine(p).remote /\ DiskStep
         /\ writable \subseteq writable'
<1> DEFINE added == IF proc[p].cmd = "lockscope" THEN AutoPopulateScope(Mine(p), log)
                                                 ELSE AddedScope(Mem(p), Mine(p))
<1>1. /\ Running(p, {"lockscope", "addscope"}, "loaded") /\ Mine(p).id \in DOMAIN disk
      /\ disk' = SaveRecord(disk, [Mine(p) EXCEPT !.affected = @ \cup added])
      /\ writable' = (IF Mine(p).status = "open" THEN MaterializeScope(writable, added) ELSE writable)
      /\ Done(p) /\ UNCHANGED <<manifest, repo, config, left>>
  BY DEF ChangeScope
<1>2. /\ proc[p] # Idle /\ Command(p) /\ proc[p].cmd \in {"lockscope", "addscope"}
  BY <1>1, RunningBusy DEF Places
<1>3. proc[p].id \in DOMAIN Mem(p) /\ ~Mine(p).remote
  BY <1>2 DEF Command, OnRecord
<1>4. Mine(p) \in Record /\ Mine(p).id \in Ids
  BY <1>2, <1>3, MemoryRecord DEF Mine, Mem
<1> HIDE DEF added
<1>5. disk' = SaveRecord(disk, Mine(p))
  BY <1>1, <1>4, ScopeStaysInMemory
<1>6. DiskStep
  BY <1>3, <1>4, <1>5, SaveDisk, StayingTree
<1>7. Typed' /\ Only(p) /\ proc'[p] = Idle
  BY <1>1, <1>6, Stops, ProcStep, StayingTree DEF Manifest
<1>8. writable \subseteq writable'
  BY <1>1 DEF MaterializeScope
<1> QED BY <1>1, <1>2, <1>3, <1>5, <1>6, <1>7, <1>8

LEMMA SaveScopeTyped ==
  ASSUME Typed, NEW p \in Procs, SaveScope(p)
  PROVE  /\ Typed' /\ Only(p) /\ UNCHANGED <<manifest, writable, repo, config, left>> /\ proc'[p] = Idle
         /\ proc[p] # Idle /\ proc[p].cmd = "savescope" /\ DiskStep /\ DOMAIN disk' = DOMAIN disk
         /\ \A id \in DOMAIN disk :
              \/ disk'[id] = disk[id]
              \/ id \in DOMAIN Mem(p) /\ disk'[id] = updateRecordYAMLText(disk[id], Mem(p)[id])
<1>1. PICK populated \in SUBSET DOMAIN Mem(p) :
        disk' = [id \in DOMAIN disk |->
                   IF id \in populated THEN updateRecordYAMLText(disk[id], Mem(p)[id]) ELSE disk[id]]
  BY DEF SaveScope
<1>2. /\ Running(p, {"savescope"}, "loaded") /\ Done(p) /\ UNCHANGED <<manifest, writable, repo, config, left>>
  BY DEF SaveScope
<1>3. proc[p] # Idle /\ Command(p) /\ proc[p].cmd = "savescope"
  BY <1>2, RunningBusy DEF Places
<1>4. ById(Mem(p)) /\ Tree(disk)
  BY <1>3, StayingTree DEF Command, Memory
<1>5. ASSUME NEW id \in DOMAIN disk
      PROVE  /\ disk'[id] \in Record /\ disk'[id].id = id /\ ~disk'[id].remote /\ SameRules(disk[id], disk'[id])
             /\ \/ disk'[id] = disk[id]
                \/ id \in DOMAIN Mem(p) /\ disk'[id] = updateRecordYAMLText(disk[id], Mem(p)[id])
  <2>1. disk[id] \in Record /\ disk[id].id = id /\ ~disk[id].remote
    BY <1>4 DEF Tree, ById
  <2>2. CASE id \in populated
    <3>1. Mem(p)[id] \in Record /\ disk'[id] = updateRecordYAMLText(disk[id], Mem(p)[id])
      BY <1>1, <1>4, <2>2 DEF ById
    <3>2. SameRules(disk'[id], disk[id]) /\ disk'[id] \in Record /\ disk'[id].id = id /\ ~disk'[id].remote
      BY <2>1, <3>1, UpdateSet
    <3> QED BY <2>2, <3>1, <3>2 DEF SameRules
  <2>3. CASE id \notin populated
    <3>1. disk'[id] = disk[id]
      BY <1>1, <2>3
    <3> QED BY <2>1, <3>1 DEF SameRules
  <2> QED BY <2>2, <2>3
<1>6. DOMAIN disk' = DOMAIN disk /\ disk' = [id \in DOMAIN disk' |-> disk'[id]]
  BY <1>1
<1>7. DiskStep
  BY <1>4, <1>5, <1>6 DEF DiskStep, Tree, ById
<1>8. Typed' /\ Only(p) /\ proc'[p] = Idle
  BY <1>2, <1>7, Stops, ProcStep, StayingTree DEF Manifest
<1> QED BY <1>2, <1>3, <1>5, <1>6, <1>7, <1>8

LEMMA ReconcileTyped ==
  ASSUME Typed, NEW p \in Procs, Reconcile(p)
  PROVE  /\ Typed' /\ Only(p) /\ UNCHANGED <<disk, manifest, repo, config, left>> /\ proc'[p] = Idle
         /\ proc[p] # Idle /\ proc[p].cmd = "reconcile" /\ writable' = Reconciled(writable, Mem(p))
<1>1. /\ Running(p, {"reconcile"}, "loaded") /\ Done(p) /\ UNCHANGED <<disk, manifest, repo, config, left>>
      /\ writable' = Reconciled(writable, Mem(p))
  BY DEF Reconcile
<1>2. proc[p] # Idle /\ proc[p].cmd = "reconcile"
  BY <1>1, RunningBusy DEF Places
<1>3. DiskStep /\ Manifest(manifest)'
  BY <1>1, DiskStays, StayingTree DEF Manifest
<1> QED BY <1>1, <1>2, <1>3, Stops, ProcStep

LEMMA CompiledManifest ==
  ASSUME Typed, NEW recs, Memory(recs)
  PROVE  /\ Manifest(CompileManifest(manifest, recs))
         /\ \A id \in DOMAIN recs : ~recs[id].remote /\ isTerminalStatus(recs[id].status) =>
              /\ id \in DOMAIN SealedIn(CompileManifest(manifest, recs))
              /\ CompileManifest(manifest, recs)[id] = Content(recs[id])
<1> DEFINE sealed == {id \in DOMAIN recs : ~recs[id].remote /\ isTerminalStatus(recs[id].status)}
           kept == DOMAIN SealedIn(manifest) \ (DOMAIN recs \ sealed)
           merged == [id \in kept \cup sealed |-> IF id \in sealed THEN Content(recs[id]) ELSE manifest[id]]
<1>1. CASE merged = SealedIn(manifest)
  <2>1. CompileManifest(manifest, recs) = manifest
    BY <1>1 DEF CompileManifest
  <2>2. ASSUME NEW id \in sealed
        PROVE  id \in DOMAIN SealedIn(manifest) /\ SealedIn(manifest) = manifest /\ manifest[id] = Content(recs[id])
    <3>1. id \in DOMAIN merged /\ merged[id] = Content(recs[id])
      OBVIOUS
    <3>2. manifest # NoManifest
      BY <1>1, <3>1 DEF SealedIn, Empty
    <3> QED BY <1>1, <3>1, <3>2 DEF SealedIn
  <2> QED BY <2>1, <2>2, StayingTree
<1>2. CASE merged # SealedIn(manifest)
  <2>1. CompileManifest(manifest, recs) = merged
    BY <1>2 DEF CompileManifest
  <2>2. sealed \subseteq Ids
    BY StayingTree DEF Memory, Tree
  <2>3. kept \subseteq Ids /\ \A id \in kept \ sealed : manifest[id] \in Record
    <3>1. CASE manifest = NoManifest
      <4>1. kept = {}
        BY <3>1 DEF SealedIn, Empty
      <4> QED BY <4>1
    <3>2. CASE manifest # NoManifest
      <4>1. PICK S \in SUBSET Ids : manifest \in [S -> Record]
        BY <3>2, StayingTree DEF Manifest
      <4>2. kept \subseteq S
        BY <3>2, <4>1 DEF SealedIn
      <4> QED BY <4>1, <4>2
    <3> QED BY <3>1, <3>2
  <2>4. \A id \in sealed : Content(recs[id]) \in Record
    <3> SUFFICES ASSUME NEW id \in sealed PROVE Content(recs[id]) \in Record
      OBVIOUS
    <3>1. recs[id] \in Record
      BY DEF Memory, ById
    <3> QED BY <3>1, ContentSame
  <2>5. kept \cup sealed \in SUBSET Ids
    BY <2>2, <2>3
  <2>6. \A id \in kept \cup sealed : (IF id \in sealed THEN Content(recs[id]) ELSE manifest[id]) \in Record
    BY <2>3, <2>4
  <2> HIDE DEF kept, sealed
  <2>7. merged \in [kept \cup sealed -> Record] /\ \A id \in sealed : merged[id] = Content(recs[id])
    BY <2>6
  <2> HIDE DEF merged
  <2>8. Manifest(merged) /\ SealedIn(merged) = merged
    BY <2>5, <2>7, ManifestAssumption DEF Manifest, SealedIn
  <2>9. \A id \in sealed : id \in DOMAIN merged
    BY <2>7
  <2> QED BY <2>1, <2>7, <2>8, <2>9 DEF sealed
<1> QED BY <1>1, <1>2

LEMMA CompileTyped ==
  ASSUME Typed, NEW p \in Procs, Compile(p)
  PROVE  /\ Typed' /\ Only(p) /\ UNCHANGED <<disk, writable, repo, config, left>> /\ proc'[p] = Idle
         /\ proc[p] # Idle /\ proc[p].cmd = "compile" /\ manifest' = CompileManifest(manifest, Mem(p))
<1>1. /\ Running(p, {"compile"}, "loaded") /\ Done(p) /\ UNCHANGED <<disk, writable, repo, config, left>>
      /\ manifest' = CompileManifest(manifest, Mem(p))
  BY DEF Compile
<1>2. proc[p] # Idle /\ proc[p].cmd = "compile" /\ Command(p)
  BY <1>1, RunningBusy DEF Places
<1>3. Manifest(manifest')
  BY <1>1, <1>2, CompiledManifest DEF Command
<1>4. DiskStep /\ Manifest(manifest)'
  BY <1>1, <1>3, DiskStays, StayingTree DEF Manifest
<1> QED BY <1>1, <1>2, <1>4, Stops, ProcStep

LEMMA CrashTyped ==
  ASSUME Typed, NEW p \in Procs, Crash(p)
  PROVE  /\ Typed' /\ Only(p) /\ UNCHANGED <<files, repo, config>> /\ proc'[p] = Idle
         /\ left' # left /\ left.crashes > 0
<1>1. /\ left.crashes > 0 /\ left' = [left EXCEPT !.crashes = @ - 1] /\ Done(p)
      /\ UNCHANGED <<files, repo, config>>
  BY DEF Crash
<1>2. left \in [commands : Nat, commits : Nat, edits : Nat, crashes : Nat]
  BY DEF Typed, Budget
<1>3. config.budget.crashes \in Nat /\ left.crashes \in Nat
  BY <1>2, RecordsAssumption DEF Typed
<1>4. left' # left /\ Budget'
  BY <1>1, <1>2, <1>3 DEF Budget, Typed
<1>5. DiskStep /\ Only(p) /\ ProcOK(p)' /\ proc'[p] = Idle
  BY <1>1, Stops, DiskStays, StayingTree DEF files
<1>6. Repo' /\ \A q \in Procs : ProcOK(q)'
  BY <1>1, <1>5, RepoKept, OthersKept, StayingTree
<1> QED BY <1>1, <1>4, <1>5, <1>6, StayingTree DEF Typed, files, Only, DiskStep, Manifest

\* The developer's steps leave the processes alone.
LEMMA DeveloperStep ==
  ASSUME Typed, DiskStep, UNCHANGED <<manifest, proc, config>>, Repo', Budget'
  PROVE  Typed'
<1>1. \A q \in Procs : ProcOK(q)'
  <2> SUFFICES ASSUME NEW q \in Procs, proc[q] # Idle PROVE Command(q)' /\ (Midway(q)' => Journaled(q)')
    BY DEF ProcOK
  <2>1. Command(q) /\ (Midway(q) => Journaled(q))
    BY StayingTree DEF ProcOK
  <2>2. Mem(q)' = Mem(q) /\ Mine(q)' = Mine(q) /\ (Midway(q)' <=> Midway(q)) /\ Memory(Mem(q))'
    BY <2>1, MemoryKept DEF Mem, Mine, Midway, Command
  <2>3. Command(q)'
    BY <2>1, <2>2 DEF Command
  <2>4. Journaled(q) => Journaled(q)'
    BY DEF Journaled, DiskStep, SameRules, Manifest
  <2> QED BY <2>1, <2>2, <2>3, <2>4
<1> QED BY <1>1 DEF Typed, DiskStep, Manifest

LEMMA HandEditTyped ==
  ASSUME Typed, NEW id \in Ids, NEW status \in Statuses, HandEdit(id, status)
  PROVE  Typed' /\ DiskStep /\ UNCHANGED <<manifest, writable, repo, proc, config>> /\ left.edits > 0 /\ Alone
<1>1. /\ Alone /\ left.edits > 0 /\ id \in DOMAIN disk /\ left' = [left EXCEPT !.edits = @ - 1]
      /\ disk' = [disk EXCEPT ![id].status = status, ![id].long = ~@]
      /\ UNCHANGED <<manifest, writable, repo, proc, config>>
  BY DEF HandEdit
<1>2. Tree(disk) /\ disk[id] \in Record /\ disk[id].id = id /\ ~disk[id].remote
  BY <1>1, StayingTree DEF Tree, ById
<1> DEFINE x == [[disk[id] EXCEPT !.status = status] EXCEPT !.long = ~disk[id].long]
<1>3. DOMAIN disk[id] = Fields /\ disk[id].long \in BOOLEAN
  BY <1>2, RecordFields
<1>4. [disk[id] EXCEPT !.status = status] \in Record
  BY <1>2, StatusSet
<1>5. PICK b \in BOOLEAN : b = ~disk[id].long
  BY <1>3
<1>6. x = [[disk[id] EXCEPT !.status = status] EXCEPT !.long = b]
  BY <1>5
<1>7. x \in Record
  BY <1>4, <1>6, LongSet
<1>8. x.id = id /\ ~x.remote /\ SameRules(disk[id], x)
  BY <1>2, <1>3 DEF SameRules, Fields
<1>9. disk' = [disk EXCEPT ![id] = x]
  BY <1>1, <1>3 DEF Fields
<1> HIDE DEF x
<1>10. DiskStep
  <2>1. disk = [j \in DOMAIN disk |-> disk[j]]
    BY <1>2 DEF Tree, ById
  <2>2. /\ DOMAIN disk' = DOMAIN disk /\ disk' = [j \in DOMAIN disk' |-> disk'[j]]
        /\ disk'[id] = x /\ \A j \in DOMAIN disk : j # id => disk'[j] = disk[j]
    BY <1>1, <1>9, <2>1
  <2>3. \A j \in DOMAIN disk : disk'[j] \in Record /\ disk'[j].id = j /\ ~disk'[j].remote
    BY <1>2, <1>7, <1>8, <2>2 DEF Tree, ById
  <2>4. Tree(disk')
    BY <1>2, <2>2, <2>3 DEF Tree, ById
  <2>5. \A j \in DOMAIN disk : SameRules(disk[j], disk'[j])
    BY <1>8, <2>2 DEF SameRules
  <2> QED BY <2>2, <2>4, <2>5 DEF DiskStep
<1>11. Budget'
  <2>1. left \in [commands : Nat, commits : Nat, edits : Nat, crashes : Nat] /\ config.budget.edits \in Nat
    BY RecordsAssumption DEF Typed, Budget
  <2> QED BY <1>1, <2>1 DEF Budget, Typed
<1> QED BY <1>1, <1>10, <1>11, RepoKept, DeveloperStep, StayingTree

LEMMA StagingTyped ==
  ASSUME Typed, (\E id \in Ids : StageRecord(id)) \/ (\E f \in Files : StageCode(f))
  PROVE  Typed' /\ UNCHANGED <<files, head, log, proc, config, left>>
<1>1. UNCHANGED <<files, head, log, proc, config, left>>
  BY DEF StageRecord, StageCode
<1>2. IndexOK(index')
  <2>1. ASSUME NEW id \in Ids, StageRecord(id) PROVE IndexOK(index')
    BY <2>1, RepoIndex, AddOK DEF StageRecord
  <2>2. ASSUME NEW f \in Files, StageCode(f) PROVE IndexOK(index')
    BY <2>2, RepoIndex DEF StageCode, IndexOK
  <2> QED BY <2>1, <2>2
<1>3. DiskStep
  BY <1>1, DiskStays, StayingTree DEF files
<1>4. Repo' /\ Budget'
  BY <1>1, <1>2, <1>3, StagingRepo, BudgetKept, StayingTree
<1> QED BY <1>1, <1>3, <1>4, DeveloperStep DEF files

LEMMA UserCommitTyped ==
  ASSUME Typed, NEW tags, UserCommit(tags)
  PROVE  Typed' /\ UNCHANGED <<files, proc, config>>
<1>1. /\ left.commits > 0 /\ left' = [left EXCEPT !.commits = @ - 1] /\ UNCHANGED <<files, proc, config>>
      /\ Committed(index, Commit(index, tags))
  BY DEF UserCommit
<1>2. DiskStep
  BY <1>1, DiskStays, StayingTree DEF files
<1>3. Repo'
  BY <1>1, RepoIndex, CommittedRepo DEF files
<1>4. Budget'
  BY <1>1 DEF Budget, Typed
<1> QED BY <1>1, <1>2, <1>3, <1>4, DeveloperStep DEF files

-----------------------------------------------------------------------------
(***************************************************************************)
(* What a run may do, by who does it.                                      *)
(***************************************************************************)
Begins(p) ==
  \/ \E cmd \in OnRecord, id \in Ids, force \in BOOLEAN : Start(p, cmd, id, force)
  \/ \E cmd \in OnAll : StartOnAll(p, cmd)

Develops ==
  \/ \E id \in Ids, s \in Statuses : HandEdit(id, s)
  \/ (\E id \in Ids : StageRecord(id)) \/ (\E f \in Files : StageCode(f))
  \/ \E tags \in {{}} \cup {{id} : id \in Ids} : UserCommit(tags)

LEMMA StepTyped ==
  ASSUME Typed, NEW p \in Procs, Step(p)
  PROVE  Typed'
<1>1. CASE \E t \in Templates, s \in DOMAIN LoadAll \cup {None} : createRecord(p, t, s)
  BY <1>1, CreateTyped
<1>2. CASE Supersede(p) \/ CommitDraft(p) \/ SealLayer(p)
  BY <1>2, SupersedeTyped, CommitDraftTyped, SealLayerTyped
<1>3. CASE Save(p) \/ ReadManifest(p) \/ SealRecord(p)
  BY <1>3, SaveTyped, ReadManifestTyped, SealRecordTyped
<1>4. CASE Refuse(p) \/ Validate(p) \/ SpecsFail(p) \/ SpecsPass(p) \/ Unlock(p)
  BY <1>4, RefuseTyped, ValidateTyped, SpecsPassTyped, UnlockTyped
<1>5. CASE CommitStatus(p) \/ CommitRejected(p) \/ relockClosedScope(p)
  BY <1>5, CommitStatusTyped, CommitRejectedTyped, RelockTyped
<1>6. CASE ChangeScope(p) \/ SaveScope(p) \/ Reconcile(p) \/ Compile(p)
  BY <1>6, ChangeScopeTyped, SaveScopeTyped, ReconcileTyped, CompileTyped
<1> QED BY <1>1, <1>2, <1>3, <1>4, <1>5, <1>6 DEF Step

LEMMA NextTyped ==
  ASSUME Typed, [Next]_vars
  PROVE  Typed'
<1>1. ASSUME NEW p \in Procs, Begins(p) \/ Step(p) \/ Crash(p) PROVE Typed'
  BY <1>1, StartTyped, StartOnAllTyped, StepTyped, CrashTyped DEF Begins
<1>2. CASE Develops
  BY <1>2, HandEditTyped, StagingTyped, UserCommitTyped DEF Develops
<1>3. CASE UNCHANGED vars
  <2>1. DiskStep /\ UNCHANGED <<manifest, proc, config, repo, left>>
    BY <1>3, DiskStays, StayingTree DEF vars, repo
  <2> QED BY <2>1, RepoKept, BudgetKept, DeveloperStep, StayingTree
<1> QED BY <1>1, <1>2, <1>3 DEF Next, Begins, Develops

LEMMA InitTyped ==
  ASSUME Init
  PROVE  Typed
<1>1. /\ config \in Configs /\ disk = config.recs /\ manifest = NoManifest
      /\ head = [recs |-> config.recs, manifest |-> NoManifest]
      /\ index = [recs |-> config.recs, manifest |-> NoManifest, code |-> {}]
      /\ log = {} /\ proc = [p \in Procs |-> Idle] /\ left = config.budget
  BY DEF Init
<1>2. Tree(config.recs) /\ config.budget \in [commands : Nat, commits : Nat, edits : Nat, crashes : Nat]
  BY <1>1, RecordsAssumption DEF Tree
<1>3. Repo
  BY <1>1, <1>2 DEF Repo
<1>4. Budget
  BY <1>1, <1>2 DEF Budget
<1> QED BY <1>1, <1>2, <1>3, <1>4 DEF Typed, Manifest, ProcOK

-----------------------------------------------------------------------------
(***************************************************************************)
(* One command at a time.                                                  *)
(***************************************************************************)
LEMMA Resting ==
  ASSUME AllIdle'
  PROVE  OneCommand'
<1>1. \A p \in Procs : proc'[p] = Idle /\ proc'[p].cmd = "none"
  BY DEF AllIdle, Idle
<1> QED BY <1>1 DEF OneCommand, Solo, UpToDate, Journal, Transition

\* A command that runs runs alone.
LEMMA OthersIdle ==
  ASSUME OneCommand, ~config.concurrent, NEW p \in Procs, proc[p] # Idle
  PROVE  \A q \in Procs : q # p => proc[q] = Idle
BY DEF OneCommand, Solo

LEMMA Ends ==
  ASSUME OneCommand, ~config.concurrent, NEW p \in Procs, proc[p] # Idle, Only(p), proc'[p] = Idle
  PROVE  AllIdle' /\ OneCommand'
BY OthersIdle, Resting DEF AllIdle, Only

\* It suffices to follow the one that runs.
LEMMA Follows ==
  ASSUME NEW p \in Procs, \A q \in Procs : q # p => proc[q] = Idle, Only(p), Remembers(p)',
         proc'[p].cmd \in {"create", "locklayer"} /\ proc'[p].pc = "loaded" => proc'[p].id \notin DOMAIN Mem(p)',
         Journal(p)'
  PROVE  OneCommand'
<1>1. \A q \in Procs : q # p => proc'[q] = Idle
  BY DEF Only
<1>2. \A q \in Procs : q # p => Journal(q)'
  BY <1>1 DEF Journal, Idle, Transition
<1> QED BY <1>1, <1>2 DEF OneCommand, Solo, UpToDate

LEMMA BeginsWith ==
  ASSUME NEW p \in Procs, Begins(p)
  PROVE  \E cmd, id, force :
           /\ cmd \in OnRecord \cup OnAll /\ (cmd \in OnRecord => id \in Ids)
           /\ cmd \in OnRecord \ {"create", "locklayer"} => id \in DOMAIN LoadAll /\ ~LoadAll[id].remote
           /\ cmd \in {"create", "locklayer"} => id \notin DOMAIN LoadAll
           /\ Begin(p, [cmd |-> cmd, id |-> id, force |-> force])
<1>1. ASSUME NEW cmd \in OnRecord, NEW id \in Ids, NEW force \in BOOLEAN, Start(p, cmd, id, force)
      PROVE  /\ Begin(p, [cmd |-> cmd, id |-> id, force |-> force])
             /\ cmd \in OnRecord \ {"create", "locklayer"} => id \in DOMAIN LoadAll /\ ~LoadAll[id].remote
             /\ cmd \in {"create", "locklayer"} => id \notin DOMAIN LoadAll
  BY <1>1 DEF Start, Accepts, Fresh, OnRecord, Lockable
<1>2. ASSUME NEW cmd \in OnAll, StartOnAll(p, cmd)
      PROVE  Begin(p, [cmd |-> cmd, id |-> None, force |-> FALSE])
             /\ cmd \notin OnRecord /\ cmd \notin {"create", "locklayer"}
  BY <1>2 DEF StartOnAll, OnAll, OnRecord
<1> QED BY <1>1, <1>2 DEF Begins

LEMMA BeginsOne ==
  ASSUME Typed, ~config.concurrent, NEW p \in Procs, Begins(p)
  PROVE  OneCommand' /\ AllIdle
<1>1. PICK cmd, id, force :
        /\ cmd \in OnRecord \cup OnAll /\ (cmd \in OnRecord => id \in Ids)
        /\ cmd \in OnRecord \ {"create", "locklayer"} => id \in DOMAIN LoadAll /\ ~LoadAll[id].remote
        /\ cmd \in {"create", "locklayer"} => id \notin DOMAIN LoadAll
        /\ Begin(p, [cmd |-> cmd, id |-> id, force |-> force])
  BY BeginsWith
<1>2. /\ Typed' /\ Only(p) /\ UNCHANGED <<files, repo, config>>
      /\ proc'[p].pc = "loaded" /\ proc'[p].cmd = cmd /\ proc'[p].id = id
      /\ proc'[p].mem = LoadAll /\ proc'[p].before = files
  BY <1>1, BeginTyped
<1>3. AllIdle
  BY <1>1 DEF Begin, Alone, AllIdle
<1>4. Remembers(p)' /\ Mem(p)' = LoadAll
  BY <1>2 DEF Mem, LoadAll, files, Remembers, Midway
<1>5. Journal(p)'
  <2>1. PICK d, m, w : d = disk /\ m = manifest /\ w = writable
    OBVIOUS
  <2>2. proc'[p].before = <<d, m, w>> /\ disk' = d /\ manifest' = m /\ writable' = w
    BY <1>2, <2>1 DEF files
  <2>3. Tree(d) /\ Manifest(m) /\ From(p, d, m, w)'
    BY <1>2, <2>1, <2>2, StayingTree DEF From
  <2>4. cmd \in Transition => "loaded" \in Places0[cmd]
    BY DEF Transition, Places0, Places
  <2> QED BY <1>2, <2>2, <2>3, <2>4 DEF Journal
<1>6. \A q \in Procs : q # p => proc[q] = Idle
  BY <1>3 DEF AllIdle
<1> QED BY <1>1, <1>2, <1>3, <1>4, <1>5, <1>6, Follows

LEMMA CreateOne ==
  ASSUME Typed, OneCommand, ~config.concurrent, NEW p \in Procs, NEW t \in Templates,
         NEW s \in DOMAIN LoadAll \cup {None}, createRecord(p, t, s)
  PROVE  /\ OneCommand'
         /\ LET new == Draft(t, proc[p].id, s, proc[p].cmd = "locklayer")
            IN  disk' = Put(disk, proc[p].id, new) /\ new.status = "draft" /\ proc[p].id \notin DOMAIN disk
         /\ ~Midway(p) /\ ~Midway(p)'
<1> DEFINE new == Draft(t, proc[p].id, s, proc[p].cmd = "locklayer")
<1>1. /\ Typed' /\ Only(p) /\ new \in Record /\ new.id = proc[p].id /\ new.status = "draft"
      /\ disk' = SaveRecord(disk, new) /\ proc'[p].mem = Put(Mem(p), new.id, new)
      /\ proc'[p].pc = "created" /\ proc'[p].cmd = proc[p].cmd
      /\ proc[p].cmd \in {"create", "locklayer"} /\ proc[p].pc = "loaded"
  BY CreateTyped
<1> HIDE DEF new
<1>2. proc[p] # Idle
  BY <1>1 DEF Idle
<1>3. Mem(p) = LoadAll /\ proc[p].id \notin DOMAIN LoadAll /\ proc[p].id \notin DOMAIN disk
  BY <1>1, <1>2, Loads, StayingTree DEF OneCommand, UpToDate, Remembers, Midway
<1>4. disk' = Put(disk, proc[p].id, new)
  BY <1>1, <1>3 DEF SaveRecord
<1>5. Mem(p)' = LoadAll'
  BY <1>1, <1>3, <1>4, OverPut DEF Mem, LoadAll
<1>6. Journal(p)' /\ ~Midway(p) /\ ~Midway(p)' /\ Remembers(p)'
  BY <1>1, <1>5 DEF Journal, Transition, Midway, Remembers
<1> QED BY <1>1, <1>2, <1>3, <1>4, <1>5, <1>6, OthersIdle, Follows DEF new

LEMMA CommitDraftOne ==
  ASSUME Typed, OneCommand, ~config.concurrent, NEW p \in Procs, CommitDraft(p)
  PROVE  OneCommand' /\ proc[p] # Idle /\ ~Midway(p) /\ ~Midway(p)'
<1>1. /\ Typed' /\ Only(p) /\ UNCHANGED <<files, config, left>> /\ proc[p].cmd = "locklayer"
      /\ \/ proc'[p] = Idle
         \/ proc'[p].pc = "loaded2" /\ proc'[p].mem = proc[p].mem /\ proc'[p].cmd = "locklayer"
  BY CommitDraftTyped
<1>2. proc[p] # Idle /\ ~Midway(p)
  BY <1>1 DEF Idle, Midway, Transition
<1>3. CASE proc'[p] = Idle
  BY <1>1, <1>2, <1>3, Ends DEF Midway, Idle, Transition
<1>4. CASE proc'[p].pc = "loaded2" /\ proc'[p].mem = proc[p].mem /\ proc'[p].cmd = "locklayer"
  <2>1. Mem(p)' = LoadAll'
    BY <1>1, <1>2, <1>4 DEF OneCommand, UpToDate, Remembers, Mem, LoadAll, files
  <2>2. Journal(p)' /\ ~Midway(p)' /\ Remembers(p)'
    BY <1>4, <2>1 DEF Journal, Transition, Midway, Remembers
  <2> QED BY <1>1, <1>2, <1>4, <2>1, <2>2, OthersIdle, Follows
<1> QED BY <1>1, <1>2, <1>3, <1>4

LEMMA SealLayerOne ==
  ASSUME Typed, OneCommand, ~config.concurrent, NEW p \in Procs, SealLayer(p)
  PROVE  OneCommand' /\ proc[p] # Idle /\ ~Midway(p) /\ ~Midway(p)'
<1>1. /\ Typed' /\ Only(p) /\ UNCHANGED <<files, repo, config, left>> /\ proc[p].cmd = "locklayer"
      /\ proc'[p].pc = "loaded" /\ proc'[p].cmd = "complete" /\ proc'[p].mem = proc[p].mem
      /\ proc'[p].before = files
  BY SealLayerTyped
<1>2. proc[p] # Idle /\ ~Midway(p) /\ ~Midway(p)'
  BY <1>1 DEF Idle, Midway, Transition
<1>3. Remembers(p)'
  BY <1>1, <1>2 DEF OneCommand, UpToDate, Remembers, Mem, LoadAll, files
<1>4. Journal(p)'
  <2>1. PICK d, m, w : d = disk /\ m = manifest /\ w = writable
    OBVIOUS
  <2>2. proc'[p].before = <<d, m, w>> /\ disk' = d /\ manifest' = m /\ writable' = w
    BY <1>1, <2>1 DEF files
  <2>3. Tree(d) /\ Manifest(m) /\ From(p, d, m, w)'
    BY <1>1, <2>1, <2>2, StayingTree DEF From
  <2>4. "loaded" \in Places0["complete"]
    BY DEF Places0, Places
  <2> QED BY <1>1, <2>2, <2>3, <2>4 DEF Journal
<1> QED BY <1>1, <1>2, <1>3, <1>4, OthersIdle, Follows

LEMMA SaveOne ==
  ASSUME Typed, OneCommand, ~config.concurrent, NEW p \in Procs, Save(p)
  PROVE  /\ OneCommand' /\ proc[p] # Idle /\ ~Midway(p)
         /\ proc[p].before = files /\ proc'[p].before = proc[p].before
<1> DEFINE cmd == proc[p].cmd
           id == proc[p].id
           r == [Mine(p) EXCEPT !.status = NextStatus[cmd], !.sealed = @ \/ cmd = "complete"]
<1>1. /\ Typed' /\ Only(p) /\ UNCHANGED <<manifest, writable, repo, config, left>>
      /\ proc[p] # Idle /\ cmd \in Transition /\ proc[p].pc = "loaded" /\ id \in DOMAIN disk
      /\ r = Transitioned(Mine(p), cmd) /\ r.id = id /\ disk' = SaveRecord(disk, r)
      /\ proc'[p].mem = [Mem(p) EXCEPT ![id] = r] /\ proc'[p].pc = "saved"
      /\ proc'[p].snap = disk[id] /\ proc'[p].snapManifest = manifest
      /\ proc'[p].targets = materializeTargets(r.affected)
      /\ proc'[p].perms = materializeTargets(r.affected) \cap writable
      /\ proc'[p].cmd = cmd /\ proc'[p].id = id /\ proc'[p].before = proc[p].before
  BY SaveTyped
<1> HIDE DEF r
<1>2. PICK d, m, w : /\ proc[p].before = <<d, m, w>> /\ Tree(d) /\ Manifest(m)
                     /\ disk = d /\ manifest = m /\ writable = w
  BY <1>1 DEF OneCommand, Journal, From
<1>3. Mem(p) = LoadAll /\ Mine(p) = disk[id]
  BY <1>1, Loads, StayingTree DEF OneCommand, UpToDate, Remembers, Midway, Mine, Mem
<1>4. disk' = Put(disk, id, updateRecordYAMLText(disk[id], r))
  BY <1>1 DEF SaveRecord
<1>5. /\ DOMAIN LoadAll = DOMAIN disk \cup DOMAIN Shared /\ LoadAll = [j \in DOMAIN LoadAll |-> LoadAll[j]]
  BY Loads, StayingTree DEF Memory, ById
<1>6. [LoadAll EXCEPT ![id] = r] = Put(LoadAll, id, r)
  <2>1. DOMAIN LoadAll \cup {id} = DOMAIN LoadAll
    BY <1>1, <1>5
  <2> QED BY <1>5, <2>1 DEF Put
<1>7. Mine(p)' = r
  BY <1>1, <1>3, <1>5 DEF Mine
<1>8. Remembers(p)'
  <2>1. LoadAll' = Put(LoadAll, id, updateRecordYAMLText(disk[id], r))
    BY <1>4, OverPut DEF LoadAll
  <2>2. Put(LoadAll', id, r) = Put(LoadAll, id, r)
    BY <2>1, PutTwice
  <2>3. Midway(p)'
    BY <1>1 DEF Midway
  <2> QED BY <1>1, <1>3, <1>6, <1>7, <2>2, <2>3 DEF Mem, Remembers
<1>9. Journal(p)'
  <2>1. "saved" \in Places0[cmd] /\ cmd \in Transition
    BY <1>1 DEF Transition, Places0, Places
  <2>2. From(p, d, m, w)'
    <3>1. /\ id \in DOMAIN d /\ proc'[p].snap = d[id] /\ proc'[p].snapManifest = m
          /\ r = Transitioned(d[id], cmd) /\ disk' = Put(d, id, updateRecordYAMLText(d[id], r))
          /\ manifest' = m
          /\ proc'[p].perms = proc'[p].targets \cap w
      BY <1>1, <1>2, <1>3, <1>4
    <3>2. (IF proc[p].cmd = "complete" THEN Sealing(p, m) ELSE manifest = m)'
      BY <1>1, <3>1 DEF Sealing
    <3>3. Unlocking(p, w)'
      BY <1>1, <1>2 DEF Unlocking
    <3>4. updateRecordYAMLText(d[id], Mine(p))' = updateRecordYAMLText(d[id], r)
      BY <1>1, <1>7 DEF updateRecordYAMLText
    <3> QED BY <1>1, <1>7, <3>1, <3>2, <3>3, <3>4 DEF From
  <2> QED BY <1>1, <1>2, <2>1, <2>2 DEF Journal
<1>10. OneCommand'
  BY <1>1, <1>8, <1>9, OthersIdle, Follows DEF Transition
<1> QED BY <1>1, <1>2, <1>10 DEF Midway, files

\* A transition that goes on leaves what it found where it was.
LEMMA MidwayOne ==
  ASSUME Typed, OneCommand, ~config.concurrent, NEW p \in Procs, proc[p] # Idle, Midway(p), Only(p), Kept(p),
         disk' = disk, config' = config, proc'[p].pc \in Places0[proc[p].cmd] \ {"loaded"},
         \A d, m, w : From(p, d, m, w) =>
           (IF proc[p].cmd = "complete" THEN Sealing(p, m) ELSE manifest = m)' /\ Unlocking(p, w)'
  PROVE  OneCommand'
<1>1. PICK d, m, w : proc[p].before = <<d, m, w>> /\ Tree(d) /\ Manifest(m) /\ From(p, d, m, w)
  BY DEF OneCommand, Journal, Midway
<1>2. (IF proc[p].cmd = "complete" THEN Sealing(p, m) ELSE manifest = m)' /\ Unlocking(p, w)'
  BY <1>1
<1>3. Mem(p)' = Mem(p) /\ Mine(p)' = Mine(p) /\ LoadAll' = LoadAll
  BY DEF Mem, Mine, LoadAll, Kept
<1>4. From(p, d, m, w)'
  <2>1. updateRecordYAMLText(d[proc[p].id], Mine(p))' = updateRecordYAMLText(d[proc[p].id], Mine(p))
    BY <1>3 DEF updateRecordYAMLText, Kept
  <2> QED BY <1>1, <1>2, <1>3, <2>1 DEF From, Midway, Kept
<1>5. Journal(p)' /\ proc'[p].cmd \in Transition /\ Midway(p)'
  BY <1>1, <1>4 DEF Journal, Kept, Midway
<1>6. Remembers(p)'
  BY <1>3, <1>5 DEF OneCommand, UpToDate, Remembers, Kept
<1> QED BY <1>5, <1>6, OthersIdle, Follows DEF Transition

LEMMA ReadManifestOne ==
  ASSUME Typed, OneCommand, ~config.concurrent, NEW p \in Procs, ReadManifest(p)
  PROVE  OneCommand'
<1>1. /\ Only(p) /\ UNCHANGED <<files, repo, config, left>>
      /\ proc[p] # Idle /\ Midway(p) /\ proc[p].cmd = "complete" /\ proc[p].pc = "saved"
      /\ Kept(p) /\ proc'[p].copy = manifest /\ proc'[p].pc = "sealing"
  BY ReadManifestTyped
<1>2. "sealing" \in Places0["complete"] \ {"loaded"}
  BY DEF Places0, Places
<1>3. ASSUME NEW d, NEW m, NEW w, From(p, d, m, w)
      PROVE  (IF proc[p].cmd = "complete" THEN Sealing(p, m) ELSE manifest = m)' /\ Unlocking(p, w)'
  BY <1>1, <1>3 DEF From, Sealing, Unlocking, Kept, files
<1> QED BY <1>1, <1>2, <1>3, MidwayOne DEF files

LEMMA SealRecordOne ==
  ASSUME Typed, OneCommand, ~config.concurrent, NEW p \in Procs, SealRecord(p)
  PROVE  OneCommand'
<1>1. /\ Only(p) /\ UNCHANGED <<disk, writable, repo, config, left>>
      /\ proc[p] # Idle /\ Midway(p) /\ proc[p].cmd = "complete" /\ proc[p].pc = "sealing"
      /\ Kept(p) /\ proc'[p].pc = "sealed"
      /\ \/ manifest' = Put(SealedIn(proc[p].copy), proc[p].id, Content(Mine(p)))
         \/ config.faults /\ manifest' = manifest
  BY SealRecordTyped
<1>2. "sealed" \in Places0["complete"] \ {"loaded"}
  BY DEF Places0, Places
<1>3. Mine(p)' = Mine(p)
  BY <1>1 DEF Mine, Kept
<1>4. ASSUME NEW d, NEW m, NEW w, From(p, d, m, w)
      PROVE  (IF proc[p].cmd = "complete" THEN Sealing(p, m) ELSE manifest = m)' /\ Unlocking(p, w)'
  BY <1>1, <1>3, <1>4 DEF From, Sealing, Unlocking, Kept
<1> QED BY <1>1, <1>2, <1>4, MidwayOne

\* Once sealed, only the place changes.
LEMMA PlaceOne ==
  ASSUME Typed, OneCommand, ~config.concurrent, NEW p \in Procs, Validate(p) \/ SpecsPass(p) \/ CommitStatus(p)
  PROVE  OneCommand'
<1>1. /\ Only(p) /\ UNCHANGED <<files, config, left>> /\ proc[p] # Idle /\ Midway(p) /\ Kept(p)
      /\ \/ proc'[p].pc = "valid" /\ \/ proc[p].cmd = "open" /\ proc[p].pc = "saved"
                                     \/ proc[p].cmd = "complete" /\ proc[p].pc = "sealed"
         \/ proc'[p].pc = "ready" /\ proc[p].cmd = "complete" /\ proc[p].pc = "valid"
         \/ proc'[p].pc = "committed" /\ \/ proc[p].cmd \in {"open", "complete"} /\ proc[p].pc = "ready"
                                         \/ proc[p].cmd = "deprecate" /\ proc[p].pc = "saved"
  BY ValidateTyped, SpecsPassTyped, CommitStatusTyped
<1>2. proc'[p].pc \in Places0[proc[p].cmd] \ {"loaded"}
  BY <1>1 DEF Places0, Places
<1>3. Mine(p)' = Mine(p)
  BY <1>1 DEF Mine, Kept
<1>4. ASSUME NEW d, NEW m, NEW w, From(p, d, m, w)
      PROVE  (IF proc[p].cmd = "complete" THEN Sealing(p, m) ELSE manifest = m)' /\ Unlocking(p, w)'
  <2>1. proc[p].pc # "loaded"
    BY <1>1
  <2>2. (IF proc[p].cmd = "complete" THEN Sealing(p, m) ELSE manifest = m)'
    BY <1>1, <1>3, <1>4, <2>1 DEF From, Sealing, Kept, files
  <2>3. Unlocking(p, w)'
    BY <1>1, <1>4, <2>1 DEF From, Unlocking, Kept, files
  <2> QED BY <2>2, <2>3
<1> QED BY <1>1, <1>2, <1>4, MidwayOne DEF files

LEMMA UnlockOne ==
  ASSUME Typed, OneCommand, ~config.concurrent, NEW p \in Procs, Unlock(p)
  PROVE  OneCommand'
<1>1. /\ Only(p) /\ UNCHANGED <<disk, manifest, repo, config, left>> /\ proc[p] # Idle /\ Midway(p)
      /\ Kept(p) /\ proc'[p].pc = "ready" /\ proc[p].cmd = "open" /\ proc[p].pc = "valid"
      /\ writable' = writable \cup materializeTargets(Mine(p).affected)
  BY UnlockTyped
<1>2. "ready" \in Places0["open"] \ {"loaded"}
  BY DEF Places0
<1>3. ASSUME NEW d, NEW m, NEW w, From(p, d, m, w)
      PROVE  (IF proc[p].cmd = "complete" THEN Sealing(p, m) ELSE manifest = m)' /\ Unlocking(p, w)'
  BY <1>1, <1>3 DEF From, Unlocking, Kept
<1> QED BY <1>1, <1>2, <1>3, MidwayOne

LEMMA EndsOne ==
  ASSUME Typed, OneCommand, ~config.concurrent, NEW p \in Procs,
         \/ Supersede(p) \/ Refuse(p) \/ SpecsFail(p) \/ CommitRejected(p) \/ relockClosedScope(p)
         \/ ChangeScope(p) \/ SaveScope(p) \/ Reconcile(p) \/ Compile(p) \/ Crash(p)
  PROVE  OneCommand' /\ AllIdle' /\ proc[p] # Idle
<1>1. proc[p] # Idle /\ Only(p) /\ proc'[p] = Idle
  <2>1. CASE Supersede(p) \/ Crash(p)
    BY <2>1, SupersedeTyped, CrashTyped DEF Idle, Crash
  <2>2. CASE Refuse(p) \/ SpecsFail(p) \/ CommitRejected(p) \/ relockClosedScope(p)
    BY <2>2, RefuseTyped, CommitRejectedTyped, RelockTyped
  <2>3. CASE ChangeScope(p) \/ SaveScope(p) \/ Reconcile(p) \/ Compile(p)
    BY <2>3, ChangeScopeTyped, SaveScopeTyped, ReconcileTyped, CompileTyped
  <2> QED BY <2>1, <2>2, <2>3
<1> QED BY <1>1, Ends

LEMMA DevelopsOne ==
  ASSUME Typed, ~config.concurrent, Develops
  PROVE  AllIdle /\ AllIdle' /\ OneCommand'
<1>1. AllIdle /\ proc' = proc
  BY DEF Develops, HandEdit, StageRecord, StageCode, UserCommit, Alone, AllIdle
<1>2. AllIdle'
  BY <1>1 DEF AllIdle
<1> QED BY <1>1, <1>2, Resting

LEMMA ConfigStays ==
  ASSUME [Next]_vars
  PROVE  config' = config
<1>1. ASSUME NEW p \in Procs, Begins(p) \/ Crash(p) PROVE config' = config
  BY <1>1 DEF Begins, Start, StartOnAll, Begin, Crash
<1>2. ASSUME NEW p \in Procs, Step(p) PROVE config' = config
  BY <1>2 DEF Step, createRecord, Supersede, CommitDraft, SealLayer, Save, ReadManifest, SealRecord, Refuse,
              Validate, SpecsFail, SpecsPass, Unlock, CommitStatus, CommitRejected, relockClosedScope,
              ChangeScope, SaveScope, Reconcile, Compile
<1>3. CASE Develops
  BY <1>3 DEF Develops, HandEdit, StageRecord, StageCode, UserCommit
<1>4. CASE UNCHANGED vars
  BY <1>4 DEF vars
<1> QED BY <1>1, <1>2, <1>3, <1>4 DEF Next, Begins, Develops

LEMMA NextOne ==
  ASSUME Typed, OneCommand, [Next]_vars
  PROVE  OneCommand'
<1>1. config' = config
  BY ConfigStays
<1>2. CASE config.concurrent
  BY <1>1, <1>2 DEF OneCommand
<1>3. ASSUME ~config.concurrent, NEW p \in Procs, Begins(p) \/ Crash(p) PROVE OneCommand'
  BY <1>3, BeginsOne, EndsOne
<1>4. ASSUME ~config.concurrent, NEW p \in Procs, Step(p) PROVE OneCommand'
  <2>1. CASE \E t \in Templates, s \in DOMAIN LoadAll \cup {None} : createRecord(p, t, s)
    BY <1>4, <2>1, CreateOne
  <2>2. CASE CommitDraft(p) \/ SealLayer(p) \/ Save(p)
    BY <1>4, <2>2, CommitDraftOne, SealLayerOne, SaveOne
  <2>3. CASE ReadManifest(p) \/ SealRecord(p) \/ Unlock(p)
    BY <1>4, <2>3, ReadManifestOne, SealRecordOne, UnlockOne
  <2>4. CASE Validate(p) \/ SpecsPass(p) \/ CommitStatus(p)
    BY <1>4, <2>4, PlaceOne
  <2>5. CASE \/ Supersede(p) \/ Refuse(p) \/ SpecsFail(p) \/ CommitRejected(p) \/ relockClosedScope(p)
             \/ ChangeScope(p) \/ SaveScope(p) \/ Reconcile(p) \/ Compile(p)
    BY <1>4, <2>5, EndsOne
  <2> QED BY <1>4, <2>1, <2>2, <2>3, <2>4, <2>5 DEF Step
<1>5. CASE Develops /\ ~config.concurrent
  BY <1>5, DevelopsOne
<1>6. CASE UNCHANGED vars
  <2>1. UNCHANGED <<disk, manifest, writable, proc, config>>
    BY <1>6 DEF vars
  <2>2. \A p \in Procs : Mem(p)' = Mem(p) /\ Mine(p)' = Mine(p) /\ Midway(p)' = Midway(p)
    BY <2>1 DEF Mem, Mine, Midway
  <2>3. LoadAll' = LoadAll
    BY <2>1 DEF LoadAll
  <2>4. UpToDate => UpToDate'
    BY <2>1, <2>2, <2>3 DEF UpToDate, Remembers
  <2>5. ASSUME NEW p \in Procs, NEW d, NEW m, NEW w, From(p, d, m, w) PROVE From(p, d, m, w)'
    <3>1. updateRecordYAMLText(d[proc[p].id], Mine(p))' = updateRecordYAMLText(d[proc[p].id], Mine(p))
      BY <2>1, <2>2 DEF updateRecordYAMLText
    <3> QED BY <2>1, <2>2, <2>5, <3>1 DEF From, Sealing, Unlocking
  <2>6. \A p \in Procs : Journal(p) => Journal(p)'
    BY <2>1, <2>5 DEF Journal
  <2> QED BY <2>1, <2>4, <2>6 DEF OneCommand, Solo
<1> QED BY <1>2, <1>3, <1>4, <1>5, <1>6 DEF Next, Begins, Develops

LEMMA InitOne ==
  ASSUME Init
  PROVE  OneCommand
BY DEF Init, OneCommand, Solo, UpToDate, Journal, Idle, Transition

-----------------------------------------------------------------------------
(***************************************************************************)
(* What a command finds, it leaves or restores.                            *)
(***************************************************************************)
LEMMA Rolled ==
  ASSUME Typed, OneCommand, ~config.concurrent, NEW p \in Procs, proc[p] # Idle, Midway(p), Rollback(p)
  PROVE  files' = proc[p].before
<1>1. PICK d, m, w : proc[p].before = <<d, m, w>> /\ Tree(d) /\ Manifest(m) /\ From(p, d, m, w)
  BY DEF OneCommand, Journal, Midway
<1>2. /\ disk' = Put(disk, proc[p].id, proc[p].snap)
      /\ manifest' = IF proc[p].cmd = "complete" THEN proc[p].snapManifest ELSE manifest
      /\ writable' = IF proc[p].cmd = "open" THEN (writable \ proc[p].targets) \cup proc[p].perms ELSE writable
  BY DEF Rollback
<1>3. /\ proc[p].id \in DOMAIN d /\ proc[p].snap = d[proc[p].id] /\ proc[p].snapManifest = m
      /\ disk = Put(d, proc[p].id, updateRecordYAMLText(d[proc[p].id], Mine(p)))
      /\ proc[p].perms = proc[p].targets \cap w
      /\ proc[p].cmd # "complete" => manifest = m
      /\ Unlocking(p, w)
  BY <1>1 DEF From, Midway
<1>4. disk' = d
  <2>1. d = [j \in DOMAIN d |-> d[j]]
    BY <1>1 DEF Tree, ById
  <2>2. DOMAIN d \cup {proc[p].id} = DOMAIN d
    BY <1>3
  <2>3. DOMAIN disk = DOMAIN d /\ \A j \in DOMAIN d : j # proc[p].id => disk[j] = d[j]
    BY <1>3, <2>2 DEF Put
  <2>4. disk' = [j \in DOMAIN d |-> IF j = proc[p].id THEN d[proc[p].id] ELSE disk[j]]
    BY <1>2, <1>3, <2>2, <2>3 DEF Put
  <2>5. disk' = [j \in DOMAIN d |-> d[j]]
    BY <2>3, <2>4
  <2> QED BY <2>1, <2>5
<1>5. manifest' = m
  BY <1>2, <1>3
<1>6. writable' = w
  <2>1. CASE proc[p].cmd = "open"
    <3>1. writable = w \/ writable = w \cup proc[p].targets
      BY <1>3 DEF Unlocking
    <3>2. writable' = (writable \ proc[p].targets) \cup (proc[p].targets \cap w)
      BY <1>2, <1>3, <2>1
    <3> QED BY <3>1, <3>2
  <2>2. CASE proc[p].cmd # "open"
    BY <1>2, <1>3, <2>2 DEF Unlocking
  <2> QED BY <2>1, <2>2
<1> QED BY <1>1, <1>4, <1>5, <1>6 DEF files

\* The exact paths of an open record are projected writable.
LEMMA OpenProjected ==
  ASSUME NEW recs, NEW id \in DOMAIN recs, recs[id].status = "open",
         NEW f \in materializeTargets(recs[id].affected)
  PROVE  Projected(f, recs)
<1>1. PICK q \in recs[id].affected : q.kind = "exact" /\ f = q.segs
  BY DEF materializeTargets
<1>2. MatchPattern(f, q)
  BY <1>1 DEF MatchPattern
<1>3. q \in OpenAllowlistScope(Ran(recs))
  BY <1>1 DEF OpenAllowlistScope, Ran
<1> QED BY <1>2, <1>3 DEF Projected, IsWritablePath, MatchesAny

LEMMA ReconciledCovers ==
  ASSUME NEW recs, NEW id \in DOMAIN recs, recs[id].status = "open", NEW w,
         materializeTargets(recs[id].affected) \subseteq w
  PROVE  materializeTargets(recs[id].affected) \subseteq Reconciled(w, recs)
<1> SUFFICES ASSUME NEW f \in materializeTargets(recs[id].affected) PROVE f \in Reconciled(w, recs)
  OBVIOUS
<1>1. Projected(f, recs) /\ f \in w
  BY OpenProjected
<1> QED BY <1>1 DEF Reconciled

LEMMA RelockedCovers ==
  ASSUME NEW recs, NEW id \in DOMAIN recs, recs[id].status = "open", NEW w, NEW closed,
         materializeTargets(recs[id].affected) \subseteq w
  PROVE  materializeTargets(recs[id].affected) \subseteq Relocked(w, closed, recs)
<1> SUFFICES ASSUME NEW f \in materializeTargets(recs[id].affected) PROVE f \in Relocked(w, closed, recs)
  OBVIOUS
<1>1. Projected(f, recs) /\ f \in w
  BY OpenProjected
<1> QED BY <1>1 DEF Relocked

LEMMA UpdateSame ==
  ASSUME NEW r \in Record
  PROVE  r.id \notin Placed(config) => updateRecordYAMLText(r, r) = r
<1> SUFFICES ASSUME r.id \notin Placed(config) PROVE updateRecordYAMLText(r, r) = r
  OBVIOUS
<1> DEFINE u == updateRecordYAMLText(r, r)
<1>1. DOMAIN r = Fields /\ r = [f \in Fields |-> r[f]] /\ r.sealed \in BOOLEAN
  BY RecordFields
<1>2. DOMAIN u = Fields /\ u = [f \in Fields |-> u[f]]
  BY <1>1 DEF updateRecordYAMLText
<1>3. /\ u.status = r.status /\ u.sealed = (r.sealed \/ r.sealed) /\ u.by = r.by
      /\ \A f \in Fields \ {"status", "sealed", "by"} : u[f] = r[f]
  BY <1>1 DEF updateRecordYAMLText, Fields, Placed
<1>4. (r.sealed \/ r.sealed) = r.sealed
  BY <1>1
<1>5. \A f \in Fields : u[f] = r[f]
  BY <1>3, <1>4
<1> HIDE DEF u
<1> QED BY <1>1, <1>2, <1>5 DEF u

LEMMA FineKept ==
  ASSUME Fine, UNCHANGED <<files, config>>
  PROVE  Fine'
BY DEF Fine, Seals, Writable, files, Untampered, OneAtATime

\* A record that is neither implemented nor open may change.
LEMMA FineOther ==
  ASSUME Fine, UNCHANGED <<manifest, writable, config>>, NEW i, NEW x, disk' = Put(disk, i, x),
         x.status \notin {"implemented", "open"}
  PROVE  Fine'
<1>1. /\ DOMAIN disk' = DOMAIN disk \cup {i} /\ disk'[i] = x
      /\ \A j \in DOMAIN disk : j # i => disk'[j] = disk[j]
  BY DEF Put
<1>2. Seals(disk, manifest)'
  BY <1>1 DEF Fine, Seals, Untampered, OneAtATime
<1>3. Writable(disk, writable)'
  BY <1>1 DEF Fine, Writable, Untampered, OneAtATime
<1> QED BY <1>2, <1>3 DEF Fine

LEMMA SupersedeFine ==
  ASSUME Typed, Fine, NEW p \in Procs, Supersede(p)
  PROVE  Fine'
<1> DEFINE target == Mine(p).supersedes
           old == [Mem(p)[target] EXCEPT !.by = proc[p].id, !.status = "superseded"]
<1>1. /\ Running(p, {"create"}, "created") /\ UNCHANGED <<manifest, writable, repo, config, left>>
      /\ disk' = IF target = None \/ Mem(p)[target].remote THEN disk ELSE SaveRecord(disk, old)
  BY DEF Supersede
<1>2. CASE disk' = disk
  BY <1>1, <1>2, FineKept DEF files
<1>3. CASE target # None /\ ~Mem(p)[target].remote /\ disk' = SaveRecord(disk, old)
  <2>1. proc[p] # Idle /\ Command(p) /\ target \in DOMAIN Mem(p)
    BY <1>1, <1>3, RunningBusy DEF Places, Command
  <2>2. Mem(p)[target] \in Record /\ target \in DOMAIN disk /\ Mem(p)[target].id = target
    BY <1>3, <2>1, MemoryRecord
  <2>3. DOMAIN Mem(p)[target] = Fields
    BY <2>2, RecordFields
  <2>4. old.status = "superseded" /\ old.id = target
    BY <2>2, <2>3 DEF Fields
  <2>5. disk' = Put(disk, target, updateRecordYAMLText(disk[target], old))
    BY <1>3, <2>2, <2>4 DEF SaveRecord
  <2>6. disk[target] \in Record
    BY <2>2, StayingTree DEF Tree, ById
  <2>7. updateRecordYAMLText(disk[target], old).status = "superseded"
    <3>1. DOMAIN disk[target] = Fields
      BY <2>6, RecordFields
    <3> HIDE DEF old
    <3> QED BY <2>4, <3>1 DEF updateRecordYAMLText, Fields
  <2> QED BY <1>1, <2>5, <2>7, FineOther
<1> QED BY <1>1, <1>2, <1>3

LEMMA ScopeFine ==
  ASSUME Typed, OneCommand, ~config.concurrent, Fine, NEW p \in Procs, ChangeScope(p) \/ SaveScope(p)
  PROVE  Fine'
<1>1. /\ proc[p] # Idle /\ proc[p].cmd \in {"lockscope", "addscope", "savescope"} /\ DiskStep
      /\ UNCHANGED <<manifest, repo, config, left>> /\ writable \subseteq writable'
  BY ChangeScopeTyped, SaveScopeTyped
<1>2. Mem(p) = LoadAll
  BY <1>1 DEF OneCommand, UpToDate, Remembers, Midway, Transition
<1>3. \A id \in DOMAIN disk : LoadAll[id] = disk[id] /\ disk[id] \in Record /\ disk[id].id = id
  BY Loads, StayingTree DEF Tree, ById
<1>4. /\ DOMAIN disk' = DOMAIN disk
      /\ \A id \in DOMAIN disk : disk'[id] = disk[id] \/ disk'[id] = updateRecordYAMLText(disk[id], disk[id])
  <2>1. CASE ChangeScope(p)
    <3>1. proc[p].id \in DOMAIN Mem(p) /\ ~Mine(p).remote /\ disk' = SaveRecord(disk, Mine(p)) /\ Command(p)
      BY <1>1, <2>1, ChangeScopeTyped, StayingTree DEF ProcOK
    <3>2. proc[p].id \in DOMAIN disk /\ Mine(p) = disk[proc[p].id] /\ Mine(p).id = proc[p].id
      <4>1. ~Mem(p)[proc[p].id].remote /\ Mine(p) = Mem(p)[proc[p].id]
        BY <3>1 DEF Mine, Mem
      <4>2. proc[p].id \in DOMAIN disk
        BY <1>1, <3>1, <4>1, MemoryRecord
      <4> QED BY <1>2, <1>3, <4>1, <4>2
    <3>3. disk' = Put(disk, proc[p].id, updateRecordYAMLText(disk[proc[p].id], disk[proc[p].id]))
      BY <3>1, <3>2 DEF SaveRecord
    <3> QED BY <3>2, <3>3 DEF Put
  <2>2. CASE SaveScope(p)
    BY <1>2, <1>3, <2>2, SaveScopeTyped
  <2> QED BY <2>1, <2>2
<1>5. \A id \in DOMAIN disk :
        /\ disk'[id].status = disk[id].status /\ disk'[id].affected = disk[id].affected
        /\ id \notin Placed(config) => disk'[id] = disk[id]
  BY <1>3, <1>4, UpdateSet, UpdateSame DEF SameRules
<1>6. Seals(disk, manifest)'
  BY <1>1, <1>4, <1>5 DEF Fine, Seals, Untampered, OneAtATime
<1>7. Writable(disk, writable)'
  BY <1>1, <1>4, <1>5 DEF Fine, Writable, Untampered, OneAtATime
<1> QED BY <1>6, <1>7 DEF Fine

LEMMA ReconcileFine ==
  ASSUME Typed, OneCommand, ~config.concurrent, Fine, NEW p \in Procs, Reconcile(p)
  PROVE  Fine' /\ writable' = Reconciled(writable, LoadAll)
<1>1. /\ UNCHANGED <<disk, manifest, repo, config, left>> /\ proc[p] # Idle
      /\ writable' = Reconciled(writable, Mem(p))
  BY ReconcileTyped
<1>2. writable' = Reconciled(writable, LoadAll)
  BY <1>1, ReconcileTyped DEF OneCommand, UpToDate, Remembers, Midway, Transition
<1>3. \A id \in DOMAIN disk : LoadAll[id] = disk[id] /\ id \in DOMAIN LoadAll
  BY Loads, StayingTree
<1>4. Seals(disk, manifest)'
  BY <1>1 DEF Fine, Seals, Untampered, OneAtATime
<1>5. Writable(disk, writable)'
  <2> SUFFICES ASSUME Untampered, NEW id \in DOMAIN disk, disk[id].status = "open"
               PROVE  materializeTargets(disk[id].affected) \subseteq writable'
    BY <1>1 DEF Writable, Untampered, OneAtATime
  <2> QED BY <1>2, <1>3, ReconciledCovers DEF Fine, Writable
<1> QED BY <1>2, <1>4, <1>5 DEF Fine

LEMMA CompileFine ==
  ASSUME Typed, OneCommand, ~config.concurrent, Fine, NEW p \in Procs, Compile(p)
  PROVE  Fine'
<1>1. /\ UNCHANGED <<disk, writable, repo, config, left>> /\ proc[p] # Idle
      /\ manifest' = CompileManifest(manifest, Mem(p))
  BY CompileTyped
<1>2. manifest' = CompileManifest(manifest, LoadAll)
  BY <1>1, CompileTyped DEF OneCommand, UpToDate, Remembers, Midway, Transition
<1>3. Memory(LoadAll)
  BY Loads, StayingTree
<1>4. Seals(disk, manifest)'
  <2> SUFFICES ASSUME NEW id \in DOMAIN disk, disk[id].status = "implemented"
               PROVE  id \in DOMAIN SealedIn(manifest') /\ manifest'[id] = disk[id]
    BY <1>1 DEF Seals
  <2>1. LoadAll[id] = disk[id] /\ id \in DOMAIN LoadAll /\ disk[id] \in Record /\ ~disk[id].remote
    BY Loads, StayingTree DEF Tree, ById
  <2>2. Content(disk[id]) = disk[id]
    BY <2>1, ContentSame
  <2>3. isTerminalStatus(disk[id].status)
    BY DEF isTerminalStatus
  <2> QED BY <1>2, <1>3, <2>1, <2>2, <2>3, CompiledManifest
<1>5. Writable(disk, writable)'
  BY <1>1 DEF Fine, Writable, Untampered, OneAtATime
<1> QED BY <1>4, <1>5 DEF Fine

\* A transition that succeeds.
LEMMA RelockFine ==
  ASSUME Typed, OneCommand, ~config.concurrent, NEW p \in Procs, Found(p), relockClosedScope(p)
  PROVE  Fine' /\ proc[p].id \in DOMAIN disk' /\ disk'[proc[p].id].status = NextStatus[proc[p].cmd]
<1> DEFINE id == proc[p].id
           cmd == proc[p].cmd
<1>1. /\ UNCHANGED <<disk, manifest, repo, config, left>> /\ proc[p] # Idle /\ Midway(p) /\ proc[p].pc = "committed"
      /\ writable' = IF cmd = "open" THEN writable ELSE Relocked(writable, Mine(p), Mem(p))
  BY RelockTyped
<1>2. PICK d, m, w : proc[p].before = <<d, m, w>> /\ Tree(d) /\ Manifest(m) /\ From(p, d, m, w)
  BY <1>1 DEF OneCommand, Journal, Midway
<1>3. /\ id \in DOMAIN d /\ Mine(p) = Transitioned(d[id], cmd)
      /\ disk = Put(d, id, updateRecordYAMLText(d[id], Mine(p)))
      /\ proc[p].targets = materializeTargets(Mine(p).affected)
      /\ IF cmd = "complete" THEN Sealing(p, m) ELSE manifest = m
      /\ Unlocking(p, w)
  BY <1>1, <1>2 DEF From
<1>4. cmd \in Transition /\ id \in Ids /\ d[id] \in Record /\ ~d[id].remote /\ d[id].id = id
  BY <1>1, <1>2, <1>3 DEF Midway, Tree, ById
<1>5. Mine(p) \in Record /\ Mine(p).status = NextStatus[cmd] /\ Content(Mine(p)) = Mine(p)
  BY <1>3, <1>4, TransitionedSet, ContentSame
<1>6. /\ DOMAIN disk = DOMAIN d /\ disk[id].status = NextStatus[cmd] /\ disk[id].affected = Mine(p).affected
      /\ id \notin Placed(config) => disk[id] = Mine(p)
      /\ \A j \in DOMAIN d : j # id => disk[j] = d[j]
  <2>1. disk[id] = updateRecordYAMLText(d[id], Mine(p)) /\ DOMAIN disk = DOMAIN d
        /\ \A j \in DOMAIN d : j # id => disk[j] = d[j]
    BY <1>3 DEF Put
  <2>2. disk[id].status = NextStatus[cmd] /\ SameRules(disk[id], d[id])
    BY <1>4, <1>5, <2>1, UpdateSet
  <2>3. SameRules(Mine(p), d[id])
    BY <1>3, <1>4, TransitionedSet
  <2>4. id \notin Placed(config) => disk[id] = Mine(p)
    BY <1>3, <1>4, <2>1, TransitionedSet
  <2> QED BY <2>1, <2>2, <2>3, <2>4 DEF SameRules
<1>7. Mem(p) = Put(LoadAll, id, Mine(p))
  BY <1>1 DEF OneCommand, UpToDate, Remembers
<1>8. Seals(d, m) /\ Writable(d, w)
  BY <1>2 DEF Found
<1>9. Seals(disk, manifest)
  <2> SUFFICES ASSUME Untampered, ~config.faults, NEW j \in DOMAIN disk \ Placed(config), disk[j].status = "implemented"
               PROVE  j \in DOMAIN SealedIn(manifest) /\ manifest[j] = disk[j]
    BY DEF Seals
  <2>1. CASE cmd = "complete"
    <3>1. manifest = Put(SealedIn(m), id, Mine(p))
      BY <1>1, <1>3, <1>5, <2>1 DEF Sealing
    <3>2. SealedIn(manifest) = manifest
      BY <1>2, <1>4, <1>5, <3>1, PutManifest DEF SealedIn
    <3>3. /\ DOMAIN manifest = DOMAIN SealedIn(m) \cup {id} /\ manifest[id] = Mine(p)
          /\ \A k \in DOMAIN SealedIn(m) : k # id => manifest[k] = SealedIn(m)[k]
      BY <3>1 DEF Put
    <3>4. CASE j = id
      BY <1>6, <3>2, <3>3, <3>4
    <3>5. CASE j # id
      <4>1. j \in DOMAIN d /\ d[j].status = "implemented" /\ disk[j] = d[j]
        BY <1>6, <3>5
      <4>2. j \in DOMAIN SealedIn(m) /\ m[j] = d[j]
        BY <1>8, <4>1 DEF Seals
      <4>3. SealedIn(m) = m
        BY <4>2 DEF SealedIn, Empty
      <4> QED BY <3>2, <3>3, <3>5, <4>1, <4>2, <4>3
    <3> QED BY <3>4, <3>5
  <2>2. CASE cmd # "complete"
    <3>1. j # id
      BY <1>6, <1>4, <1>5, <2>2 DEF Transition, NextStatus
    <3>2. j \in DOMAIN d /\ d[j].status = "implemented" /\ disk[j] = d[j]
      BY <1>6, <3>1
    <3> QED BY <1>3, <1>8, <2>2, <3>2 DEF Seals
  <2> QED BY <2>1, <2>2
<1>10. ASSUME Untampered, NEW j \in DOMAIN disk, disk[j].status = "open"
       PROVE  materializeTargets(disk[j].affected) \subseteq writable'
  <2>1. CASE cmd = "open"
    <3>1. writable' = w \cup materializeTargets(Mine(p).affected)
      BY <1>1, <1>3, <2>1 DEF Unlocking
    <3>2. CASE j = id
      BY <1>6, <3>1, <3>2
    <3>3. CASE j # id
      BY <1>6, <1>8, <1>10, <3>1, <3>3 DEF Writable
    <3> QED BY <3>2, <3>3
  <2>2. CASE cmd # "open"
    <3>1. j # id
      BY <1>6, <1>4, <1>5, <1>10, <2>2 DEF Transition, NextStatus
    <3>2. materializeTargets(disk[j].affected) \subseteq writable
      BY <1>3, <1>6, <1>8, <1>10, <2>2, <3>1 DEF Writable, Unlocking
    <3>3. j \in DOMAIN Mem(p) /\ Mem(p)[j] = disk[j]
      BY <1>7, <3>1, Loads, StayingTree DEF Put
    <3>4. materializeTargets(Mem(p)[j].affected) \subseteq Relocked(writable, Mine(p), Mem(p))
      BY <1>10, <3>2, <3>3, RelockedCovers
    <3> QED BY <1>1, <2>2, <3>3, <3>4
  <2> QED BY <2>1, <2>2
<1>11. Seals(disk, manifest)'
  BY <1>1, <1>9 DEF Seals, Untampered, OneAtATime
<1>12. Writable(disk, writable)'
  BY <1>1, <1>10 DEF Writable, Untampered, OneAtATime
<1> QED BY <1>1, <1>3, <1>6, <1>5, <1>11, <1>12 DEF Fine

\* A transition that fails.
LEMMA RolledFine ==
  ASSUME Typed, OneCommand, ~config.concurrent, NEW p \in Procs, proc[p] # Idle, Midway(p), Found(p), Rollback(p),
         config' = config
  PROVE  Fine'
<1>1. files' = proc[p].before
  BY Rolled
<1>2. PICK d, m, w : proc[p].before = <<d, m, w>>
  BY DEF OneCommand, Journal, Midway
<1>3. disk' = d /\ manifest' = m /\ writable' = w
  BY <1>1, <1>2 DEF files
<1>4. Seals(d, m) /\ Writable(d, w)
  BY <1>2 DEF Found
<1> QED BY <1>3, <1>4 DEF Fine, Seals, Writable, Untampered, OneAtATime

LEMMA AtRest ==
  ASSUME AllIdle
  PROVE  \A q \in Procs : ~Midway(q)
BY DEF AllIdle, Midway, Idle, Transition

LEMMA RestGood ==
  ASSUME Fine', AllIdle'
  PROVE  Good'
<1>1. \A q \in Procs : ~Midway(q)'
  BY DEF AllIdle, Midway, Idle, Transition
<1> QED BY <1>1 DEF Good

LEMMA OnlyMidway ==
  ASSUME OneCommand, Good, ~config.concurrent, NEW p \in Procs, proc[p] # Idle
  PROVE  /\ \A q \in Procs : q # p => proc[q] = Idle /\ ~Midway(q)
         /\ Midway(p) => Found(p)
         /\ ~Midway(p) => Fine
<1>1. \A q \in Procs : q # p => proc[q] = Idle
  BY OthersIdle
<1>2. \A q \in Procs : q # p => ~Midway(q)
  BY <1>1 DEF Midway, Idle, Transition
<1> QED BY <1>1, <1>2 DEF Good

LEMMA BusyGood ==
  ASSUME OneCommand, Good, ~config.concurrent, NEW p \in Procs, proc[p] # Idle, Only(p), config' = config,
         \/ ~Midway(p)' /\ Fine'
         \/ Midway(p)' /\ Found(p) /\ proc'[p].before = proc[p].before
  PROVE  Good'
<1>1. \A q \in Procs : q # p => ~Midway(q)'
  BY OnlyMidway DEF Only, Midway
<1>2. Found(p) /\ proc'[p].before = proc[p].before => Found(p)'
  BY DEF Found, Seals, Writable, Untampered, OneAtATime
<1> QED BY <1>1, <1>2 DEF Good

LEMMA MidwayGood ==
  ASSUME Typed, OneCommand, Good, ~config.concurrent, NEW p \in Procs,
         ReadManifest(p) \/ SealRecord(p) \/ Validate(p) \/ SpecsPass(p) \/ Unlock(p) \/ CommitStatus(p)
  PROVE  Good'
<1>1. /\ Only(p) /\ proc[p] # Idle /\ Midway(p) /\ Kept(p) /\ config' = config
      /\ proc'[p].pc \in {"sealing", "sealed", "valid", "ready", "committed"}
  BY ReadManifestTyped, SealRecordTyped, ValidateTyped, SpecsPassTyped, UnlockTyped, CommitStatusTyped
<1>2. Midway(p)' /\ proc'[p].before = proc[p].before
  BY <1>1 DEF Midway, Kept
<1> QED BY <1>1, <1>2, OnlyMidway, BusyGood

LEMMA EarlyGood ==
  ASSUME Typed, OneCommand, Good, ~config.concurrent, NEW p \in Procs,
         \/ \E t \in Templates, s \in DOMAIN LoadAll \cup {None} : createRecord(p, t, s)
         \/ CommitDraft(p) \/ SealLayer(p) \/ Save(p)
  PROVE  Good'
<1>1. ASSUME NEW t \in Templates, NEW s \in DOMAIN LoadAll \cup {None}, createRecord(p, t, s) PROVE Good'
  <2>1. /\ Only(p) /\ UNCHANGED <<manifest, writable, repo, config, left>> /\ proc[p].pc = "loaded"
    BY <1>1, CreateTyped
  <2>2. proc[p] # Idle
    BY <2>1 DEF Idle
  <2>3. PICK x : disk' = Put(disk, proc[p].id, x) /\ x.status = "draft"
    BY <1>1, CreateOne
  <2>4. ~Midway(p) /\ ~Midway(p)'
    BY <1>1, CreateOne
  <2>5. Fine'
    BY <2>1, <2>2, <2>3, <2>4, OnlyMidway, FineOther
  <2> QED BY <2>1, <2>2, <2>4, <2>5, BusyGood
<1>2. CASE CommitDraft(p) \/ SealLayer(p)
  <2>1. Only(p) /\ UNCHANGED <<files, config>> /\ proc[p] # Idle /\ ~Midway(p) /\ ~Midway(p)'
    BY <1>2, CommitDraftTyped, SealLayerTyped, CommitDraftOne, SealLayerOne
  <2> QED BY <2>1, OnlyMidway, FineKept, BusyGood
<1>3. CASE Save(p)
  <2>1. Only(p) /\ UNCHANGED <<manifest, writable, config>> /\ proc[p] # Idle /\ ~Midway(p)
        /\ proc[p].before = files /\ proc'[p].before = proc[p].before
    BY <1>3, SaveTyped, SaveOne
  <2>2. Midway(p)'
    BY <1>3, SaveTyped DEF Midway
  <2>3. Found(p)
    BY <2>1, OnlyMidway DEF Found, Fine, files
  <2> QED BY <2>1, <2>2, <2>3, BusyGood
<1> QED BY <1>1, <1>2, <1>3

LEMMA EndGood ==
  ASSUME Typed, OneCommand, Good, ~config.concurrent, NEW p \in Procs,
         \/ Supersede(p) \/ Refuse(p) \/ SpecsFail(p) \/ CommitRejected(p) \/ relockClosedScope(p)
         \/ ChangeScope(p) \/ SaveScope(p) \/ Reconcile(p) \/ Compile(p) \/ Crash(p)
  PROVE  Good'
<1>1. AllIdle' /\ proc[p] # Idle
  BY EndsOne
<1>2. CASE Supersede(p)
  <2>1. ~Midway(p)
    BY <1>2, SupersedeTyped DEF Midway, Transition
  <2> QED BY <1>1, <1>2, <2>1, OnlyMidway, SupersedeFine, RestGood
<1>3. CASE Refuse(p) \/ SpecsFail(p) \/ CommitRejected(p)
  <2>1. Rollback(p) /\ Midway(p) /\ config' = config
    BY <1>3, RefuseTyped, CommitRejectedTyped
  <2> QED BY <1>1, <2>1, OnlyMidway, RolledFine, RestGood
<1>4. CASE relockClosedScope(p)
  <2>1. Midway(p)
    BY <1>4, RelockTyped
  <2> QED BY <1>1, <1>4, <2>1, OnlyMidway, RelockFine, RestGood
<1>5. CASE ChangeScope(p) \/ SaveScope(p) \/ Reconcile(p) \/ Compile(p)
  <2>1. ~Midway(p)
    BY <1>5, ChangeScopeTyped, SaveScopeTyped, ReconcileTyped, CompileTyped DEF Midway, Transition
  <2> QED BY <1>1, <1>5, <2>1, OnlyMidway, ScopeFine, ReconcileFine, CompileFine, RestGood
<1>6. CASE Crash(p)
  <2>1. left.crashes > 0 /\ config' = config
    BY <1>6, CrashTyped
  <2>2. config.budget.crashes # 0
    BY <2>1, RecordsAssumption DEF Typed, Budget
  <2>3. ~Untampered'
    BY <2>1, <2>2 DEF Untampered, OneAtATime
  <2>4. Fine'
    BY <2>3 DEF Fine, Seals, Writable
  <2> QED BY <1>1, <2>4, RestGood
<1> QED BY <1>2, <1>3, <1>4, <1>5, <1>6

LEMMA OutsideGood ==
  ASSUME Typed, Good, ~config.concurrent, Develops \/ \E p \in Procs : Begins(p)
  PROVE  Good'
<1>1. ASSUME NEW p \in Procs, Begins(p) PROVE Good'
  <2>1. AllIdle
    BY <1>1, BeginsOne
  <2>2. UNCHANGED <<files, config>> /\ \A q \in Procs : proc'[q] = proc[q] \/ proc'[q].pc = "loaded"
    <3>1. PICK cmd, id, force :
            /\ cmd \in OnRecord \cup OnAll /\ (cmd \in OnRecord => id \in Ids)
            /\ cmd \in OnRecord \ {"create", "locklayer"} => id \in DOMAIN LoadAll /\ ~LoadAll[id].remote
            /\ Begin(p, [cmd |-> cmd, id |-> id, force |-> force])
      BY <1>1, BeginsWith
    <3> QED BY <3>1, BeginTyped DEF Only
  <2>3. Fine'
    BY <2>1, <2>2, AtRest, FineKept DEF Good
  <2>4. \A q \in Procs : ~Midway(q)'
    BY <2>1, <2>2, AtRest DEF Midway
  <2> QED BY <2>3, <2>4 DEF Good
<1>2. CASE Develops
  <2>1. AllIdle /\ AllIdle'
    BY <1>2, DevelopsOne
  <2>2. CASE \E id \in Ids, s \in Statuses : HandEdit(id, s)
    <3>1. left.edits > 0 /\ config' = config
      BY <2>2 DEF HandEdit
    <3>2. config.budget.edits # 0
      BY <3>1, RecordsAssumption DEF Typed, Budget
    <3>3. ~Untampered'
      BY <3>1, <3>2 DEF Untampered
    <3>4. Fine'
      BY <3>3 DEF Fine, Seals, Writable
    <3> QED BY <2>1, <3>4, RestGood
  <2>3. CASE UNCHANGED <<files, config>>
    BY <2>1, <2>3, AtRest, FineKept, RestGood DEF Good
  <2> QED BY <1>2, <2>2, <2>3 DEF Develops, StageRecord, StageCode, UserCommit
<1> QED BY <1>1, <1>2

LEMMA NextGood ==
  ASSUME Typed, OneCommand, Good, [Next]_vars
  PROVE  Good'
<1>1. CASE config.concurrent
  BY <1>1, ConfigStays DEF Good
<1>2. CASE ~config.concurrent /\ Develops
  BY <1>2, OutsideGood
<1>3. ASSUME ~config.concurrent, NEW p \in Procs, Begins(p) \/ Crash(p) PROVE Good'
  BY <1>3, OutsideGood, EndGood
<1>4. ASSUME ~config.concurrent, NEW p \in Procs, Step(p) PROVE Good'
  BY <1>4, EarlyGood, MidwayGood, EndGood DEF Step
<1>5. CASE UNCHANGED vars
  BY <1>5 DEF vars, Good, Fine, Found, Seals, Writable, Midway, Untampered, OneAtATime
<1> QED BY <1>1, <1>2, <1>3, <1>4, <1>5 DEF Next, Begins, Develops

LEMMA InitGood ==
  ASSUME Init
  PROVE  Good
<1>1. /\ config \in Configs /\ disk = config.recs /\ manifest = NoManifest
      /\ writable = Reconciled(Files, Over(config.recs, Shared)) /\ proc = [p \in Procs |-> Idle]
  BY DEF Init
<1>2. Seals(disk, manifest)
  BY <1>1, RecordsAssumption DEF Seals
<1>3. Writable(disk, writable)
  <2> SUFFICES ASSUME NEW id \in DOMAIN disk, disk[id].status = "open"
               PROVE  materializeTargets(disk[id].affected) \subseteq writable
    BY DEF Writable
  <2>1. id \in DOMAIN Over(config.recs, Shared) /\ Over(config.recs, Shared)[id] = disk[id]
    BY <1>1 DEF Over
  <2>2. materializeTargets(disk[id].affected) \subseteq Files
    BY DEF materializeTargets
  <2> QED BY <1>1, <2>1, <2>2, ReconciledCovers
<1>4. \A p \in Procs : ~Midway(p)
  BY <1>1 DEF Midway, Idle, Transition
<1> QED BY <1>2, <1>3, <1>4 DEF Good, Fine

-----------------------------------------------------------------------------
(***************************************************************************)
(* The inductive invariant, and the promises it keeps.                     *)
(***************************************************************************)
RecordsInv == Typed /\ OneCommand /\ Good

\* Whatever the commands do, at once or one after the other, killed or not,
\* record files, manifest, git and what each command holds in memory and in its
\* rollback journal stay well formed; no record file loses its id, its scopes or
\* what it supersedes (SaveRecord, SealRecord, SetStatus).
THEOREM RecordsTyped == Spec => []Typed
BY InitTyped, NextTyped, PTL DEF Spec

LEMMA Invariant == Spec => []RecordsInv
<1>1. Init => RecordsInv
  BY InitTyped, InitOne, InitGood DEF RecordsInv
<1>2. RecordsInv /\ [Next]_vars => RecordsInv'
  BY NextTyped, NextOne, NextGood DEF RecordsInv
<1> QED BY <1>1, <1>2, PTL DEF Spec

\* An implemented record whose file has a line for its seal, or a place for it at
\* the end, is sealed as it stands on disk: Complete's roll-backs, re-completions,
\* supersessions and compiles included, and whatever happens to records of other
\* files (completeRecord, SealRecord, updateRecordYAMLText, CompileManifest).
THEOREM SealAlwaysMatches == Spec => []SealMatchesRecord
<1>1. RecordsInv => SealMatchesRecord
  <2> SUFFICES ASSUME RecordsInv, AllIdle, Untampered, ~config.faults PROVE Seals(disk, manifest)
    BY DEF SealMatchesRecord, Seals, SealsAgree
  <2> QED BY AtRest DEF RecordsInv, Good, Fine, Untampered, OneAtATime
<1> QED BY <1>1, Invariant, PTL

\* While no command runs every file an open record names can be written, after
\* any openings, closings of records with overlapping scopes, roll-backs and
\* reconciles (MaterializeScope, relockClosedScope, Reconcile).
THEOREM OpenAlwaysWritable == Spec => []OpenScopeWritable
<1>1. RecordsInv => OpenScopeWritable
  <2> SUFFICES ASSUME RecordsInv, AllIdle, Untampered PROVE Writable(disk, writable)
    BY DEF OpenScopeWritable, Writable, Local
  <2> QED BY AtRest DEF RecordsInv, Good, Fine, Untampered, OneAtATime
<1> QED BY <1>1, Invariant, PTL

LEMMA RunningNotIdle ==
  ASSUME NEW p, NEW cmds, NEW pc, pc # "idle", Running(p, cmds, pc)
  PROVE  proc[p] # Idle
BY DEF Running, Idle

LEMMA StepBusy ==
  ASSUME NEW p \in Procs, Step(p)
  PROVE  proc[p] # Idle
<1>1. CASE \/ (\E t \in Templates, s \in DOMAIN LoadAll \cup {None} : createRecord(p, t, s))
           \/ Supersede(p) \/ CommitDraft(p) \/ SealLayer(p)
  BY <1>1, RunningNotIdle DEF createRecord, Supersede, CommitDraft, SealLayer
<1>2. CASE Save(p) \/ ReadManifest(p) \/ SealRecord(p) \/ SpecsFail(p) \/ SpecsPass(p) \/ Unlock(p)
  BY <1>2, RunningNotIdle DEF Save, ReadManifest, SealRecord, SpecsFail, SpecsPass, Unlock
<1>3. CASE Refuse(p) \/ Validate(p)
  BY <1>3, RunningNotIdle DEF Refuse, Validate, ToValidate
<1>4. CASE CommitStatus(p) \/ CommitRejected(p)
  BY <1>4, RunningNotIdle DEF CommitStatus, CommitRejected, ToCommit
<1>5. CASE relockClosedScope(p) \/ ChangeScope(p) \/ SaveScope(p) \/ Reconcile(p) \/ Compile(p)
  BY <1>5, RunningNotIdle DEF relockClosedScope, ChangeScope, SaveScope, Reconcile, Compile
<1> QED BY <1>1, <1>2, <1>3, <1>4, <1>5 DEF Step

\* Only its own step ends a command that runs alone.
LEMMA EndsItself ==
  ASSUME RecordsInv, ~config.concurrent, [Next]_vars, NEW p \in Procs, Ended(p)
  PROVE  Step(p)
<1>1. ASSUME NEW q \in Procs, Begins(q) PROVE FALSE
  BY <1>1, BeginsOne DEF RecordsInv, Ended, AllIdle
<1>2. ASSUME NEW q \in Procs, Crash(q) PROVE FALSE
  BY <1>2, CrashTyped DEF RecordsInv, Ended
<1>3. ASSUME NEW q \in Procs, Step(q) PROVE q = p
  BY <1>3, StepBusy, OthersIdle DEF RecordsInv, Ended
<1>4. CASE Develops
  BY <1>4, DevelopsOne DEF RecordsInv, Ended, AllIdle
<1>5. CASE UNCHANGED vars
  BY <1>5 DEF vars, Ended
<1> QED BY <1>1, <1>2, <1>3, <1>4, <1>5 DEF Next, Begins, Develops

\* How a transition ends.
LEMMA TransitionEnds ==
  ASSUME RecordsInv, ~config.concurrent, [Next]_vars, NEW p \in Procs, Ended(p), proc[p].cmd \in Transition
  PROVE  Refuse(p) \/ SpecsFail(p) \/ CommitRejected(p) \/ relockClosedScope(p)
<1>1. Step(p) /\ Typed /\ OneCommand /\ proc[p] # Idle /\ proc'[p] = Idle
  BY EndsItself DEF RecordsInv, Ended
<1>2. proc[p].cmd \notin {"create", "locklayer", "lockscope", "addscope", "savescope", "reconcile", "compile"}
  BY DEF Transition
<1>3. ~(\E t \in Templates, s \in DOMAIN LoadAll \cup {None} : createRecord(p, t, s))
  BY <1>1, <1>2, CreateTyped
<1>4. ~Supersede(p) /\ ~CommitDraft(p) /\ ~SealLayer(p)
  BY <1>1, <1>2, SupersedeTyped, CommitDraftTyped, SealLayerTyped
<1>5. ~Save(p) /\ ~ReadManifest(p) /\ ~SealRecord(p) /\ ~Validate(p) /\ ~SpecsPass(p) /\ ~Unlock(p) /\ ~CommitStatus(p)
  <2>1. proc'[p].pc = "idle"
    BY <1>1 DEF Idle
  <2>2. ~Save(p) /\ ~ReadManifest(p) /\ ~SealRecord(p)
    BY <1>1, <2>1, SaveTyped, ReadManifestTyped, SealRecordTyped
  <2>3. ~Validate(p) /\ ~SpecsPass(p) /\ ~Unlock(p) /\ ~CommitStatus(p)
    BY <1>1, <2>1, ValidateTyped, SpecsPassTyped, UnlockTyped, CommitStatusTyped
  <2> QED BY <2>2, <2>3
<1>6. ~ChangeScope(p) /\ ~SaveScope(p) /\ ~Reconcile(p) /\ ~Compile(p)
  BY <1>1, <1>2, ChangeScopeTyped, SaveScopeTyped, ReconcileTyped, CompileTyped
<1> QED BY <1>1, <1>3, <1>4, <1>5, <1>6 DEF Step

\* Open, complete and deprecate are all or nothing: one that ends without moving
\* its record to the new status leaves record, manifest, write bits and git's
\* index as it found them (rollbackTransition, unstageFiles).
THEOREM AlwaysAllOrNothing == Spec => AllOrNothing
<1>1. ASSUME RecordsInv, [Next]_vars, NEW p \in Procs, OneAtATime, Ended(p), proc[p].cmd \in Transition
      PROVE  \/ disk'[proc[p].id].status = NextStatus[proc[p].cmd]
             \/ files' = proc[p].before /\ (Unstaged(index', proc[p].id) \/ index' = index)
  <2>1. ~config.concurrent /\ Typed /\ OneCommand /\ Good /\ proc[p] # Idle
    BY <1>1 DEF OneAtATime, RecordsInv, Ended
  <2>2. Refuse(p) \/ SpecsFail(p) \/ CommitRejected(p) \/ relockClosedScope(p)
    BY <1>1, <2>1, TransitionEnds
  <2>3. CASE Refuse(p) \/ SpecsFail(p)
    BY <2>1, <2>3, RefuseTyped, Rolled DEF repo
  <2>4. CASE CommitRejected(p)
    <3>1. Rollback(p) /\ Midway(p) /\ index'.recs = Reset(index, proc[p].id).recs
      BY <2>1, <2>4, CommitRejectedTyped
    <3>2. index'.recs = IF proc[p].id \in DOMAIN head.recs
                        THEN Put(index.recs, proc[p].id, head.recs[proc[p].id])
                        ELSE Drop(index.recs, proc[p].id)
      BY <2>1, <3>1, RepoIndex DEF Reset, IndexOK
    <3>3. Unstaged(index', proc[p].id)
      BY <3>2 DEF Unstaged, Put, Drop
    <3> QED BY <2>1, <3>1, <3>3, Rolled
  <2>5. CASE relockClosedScope(p)
    <3>1. Midway(p)
      BY <2>1, <2>5, RelockTyped
    <3> QED BY <2>1, <2>5, <3>1, OnlyMidway, RelockFine
  <2> QED BY <2>2, <2>3, <2>4, <2>5
<1>2. RecordsInv /\ [Next]_vars =>
        [\A p \in Procs :
          OneAtATime /\ Ended(p) /\ proc[p].cmd \in Transition =>
            LET id == proc[p].id
            IN  \/ disk'[id].status = NextStatus[proc[p].cmd]
                \/ files' = proc[p].before /\ (Unstaged(index', id) \/ index' = index)]_vars
  BY <1>1
<1> QED BY <1>2, Invariant, PTL DEF Spec, AllOrNothing

\* After reconcile a file this configuration governs is writable exactly if an
\* open record or an exemption covers it, whatever crashes, faults and hand edits
\* came before (Reconcile).
THEOREM ReconcileAlwaysRepairs == Spec => ReconcileRepairs
<1>1. ASSUME RecordsInv, [Next]_vars, NEW p \in Procs, ~config.concurrent, Ended(p), proc[p].cmd = "reconcile",
             config.restrict, ~ColdStartSkip(LoadAll), NEW f \in boundToOwnConfigDir(config.ownDir, Files)
      PROVE  f \in writable' <=> Projected(f, LoadAll)
  <2>1. Step(p) /\ Typed /\ OneCommand /\ proc[p] # Idle /\ proc'[p] = Idle
    BY <1>1, EndsItself DEF RecordsInv, Ended
  <2>2. Reconcile(p)
    <3>1. ~(\E t \in Templates, s \in DOMAIN LoadAll \cup {None} : createRecord(p, t, s))
      BY <1>1, <2>1, CreateTyped
    <3>2. ~Supersede(p) /\ ~CommitDraft(p) /\ ~SealLayer(p)
      BY <1>1, <2>1, SupersedeTyped, CommitDraftTyped, SealLayerTyped
    <3>3. ~Midway(p)
      BY <1>1 DEF Midway, Transition
    <3>4. /\ ~Save(p) /\ ~ReadManifest(p) /\ ~SealRecord(p) /\ ~Validate(p) /\ ~SpecsPass(p) /\ ~Unlock(p)
          /\ ~CommitStatus(p) /\ ~Refuse(p) /\ ~SpecsFail(p) /\ ~CommitRejected(p) /\ ~relockClosedScope(p)
      BY <1>1, <2>1, <3>3, SaveTyped, ReadManifestTyped, SealRecordTyped, ValidateTyped, SpecsPassTyped,
         UnlockTyped, CommitStatusTyped, RefuseTyped, CommitRejectedTyped, RelockTyped DEF Transition
    <3>5. ~ChangeScope(p) /\ ~SaveScope(p) /\ ~Compile(p)
      BY <1>1, <2>1, ChangeScopeTyped, SaveScopeTyped, CompileTyped
    <3> QED BY <2>1, <3>1, <3>2, <3>4, <3>5 DEF Step
  <2>3. writable' = Reconciled(writable, LoadAll)
    BY <1>1, <2>1, <2>2, ReconcileTyped DEF OneCommand, UpToDate, Remembers, Midway, Transition
  <2> QED BY <1>1, <2>3 DEF Reconciled
<1>2. RecordsInv /\ [Next]_vars =>
        [\A p \in Procs :
          ~config.concurrent /\ Ended(p) /\ proc[p].cmd = "reconcile" /\ config.restrict
              /\ ~ColdStartSkip(LoadAll) =>
              \A f \in boundToOwnConfigDir(config.ownDir, Files) :
                  f \in writable' <=> Projected(f, LoadAll)]_vars
  BY <1>1
<1> QED BY <1>2, Invariant, PTL DEF Spec, ReconcileRepairs

-----------------------------------------------------------------------------
(***************************************************************************)
(* Hook, commands and audit.                                               *)
(***************************************************************************)
LEMMA NextDisk ==
  ASSUME Typed, [Next]_vars
  PROVE  DiskStep
<1>1. disk' = disk => DiskStep
  BY DiskStays, StayingTree
<1>2. ASSUME NEW p \in Procs, Begins(p) \/ Crash(p) PROVE disk' = disk
  BY <1>2, BeginsWith, CrashTyped DEF Begin, files
<1>3. CASE Develops
  BY <1>1, <1>3, HandEditTyped, StagingTyped, UserCommitTyped DEF Develops, files
<1>4. CASE UNCHANGED vars
  BY <1>1, <1>4 DEF vars
<1>5. ASSUME NEW p \in Procs, Step(p) PROVE DiskStep
  <2>1. CASE \/ (\E t \in Templates, s \in DOMAIN LoadAll \cup {None} : createRecord(p, t, s))
             \/ Supersede(p) \/ Save(p) \/ ChangeScope(p) \/ SaveScope(p)
    BY <2>1, CreateTyped, SupersedeTyped, SaveTyped, ChangeScopeTyped, SaveScopeTyped
  <2>2. CASE Refuse(p) \/ SpecsFail(p) \/ CommitRejected(p)
    BY <2>2, RefuseTyped, CommitRejectedTyped, RollbackDisk
  <2>3. CASE CommitDraft(p) \/ SealLayer(p) \/ ReadManifest(p) \/ SealRecord(p) \/ Validate(p) \/ SpecsPass(p)
    BY <1>1, <2>3, CommitDraftTyped, SealLayerTyped, ReadManifestTyped, SealRecordTyped, ValidateTyped,
       SpecsPassTyped DEF files
  <2>4. CASE Unlock(p) \/ CommitStatus(p) \/ relockClosedScope(p) \/ Reconcile(p) \/ Compile(p)
    BY <1>1, <2>4, UnlockTyped, CommitStatusTyped, RelockTyped, ReconcileTyped, CompileTyped DEF files
  <2> QED BY <1>5, <2>1, <2>2, <2>3, <2>4 DEF Step
<1> QED BY <1>1, <1>2, <1>3, <1>4, <1>5 DEF Next, Begins, Develops

LEMMA CommittedLog ==
  ASSUME Typed, NEW ix, IndexOK(ix), NEW tags, Committed(ix, Commit(ix, tags)), MayPass(Commit(ix, tags)), disk' = disk
  PROVE  \E c : /\ log' = log \cup {c} /\ (config.hook => CommitMsg(c))
                /\ DOMAIN c.after \subseteq DOMAIN disk /\ disk' = disk
<1>1. PICK c : c = Commit(ix, tags)
  OBVIOUS
<1>2. c.after = ix.recs /\ log' = log \cup {c}
  BY <1>1 DEF Committed, Commit
<1>3. config.hook => CommitMsg(c)
  BY <1>1 DEF MayPass
<1> QED BY <1>2, <1>3 DEF IndexOK

\* A commit is only made if the hook has no objection.
LEMMA LogGrows ==
  ASSUME Typed, [Next]_vars
  PROVE  \/ log' = log
         \/ \E c : /\ log' = log \cup {c} /\ (config.hook => CommitMsg(c))
                   /\ DOMAIN c.after \subseteq DOMAIN disk /\ disk' = disk
<1>1. ASSUME NEW p \in Procs, Begins(p) \/ Crash(p) PROVE log' = log
  BY <1>1, BeginsWith, CrashTyped DEF Begin, repo
<1>2. CASE Develops
  <2>1. CASE \E tags \in {{}} \cup {{id} : id \in Ids} : UserCommit(tags)
    <3>1. PICK tags : UserCommit(tags)
      BY <2>1
    <3>2. MayPass(Commit(index, tags)) /\ Committed(index, Commit(index, tags)) /\ disk' = disk
      BY <3>1 DEF UserCommit, files
    <3> QED BY <3>2, RepoIndex, CommittedLog
  <2>2. CASE (\E id \in Ids, s \in Statuses : HandEdit(id, s)) \/ (\E id \in Ids : StageRecord(id))
             \/ \E f \in Files : StageCode(f)
    BY <2>2 DEF HandEdit, StageRecord, StageCode, repo
  <2> QED BY <1>2, <2>1, <2>2 DEF Develops
<1>3. CASE UNCHANGED vars
  BY <1>3 DEF vars
<1>4. ASSUME NEW p \in Procs, Step(p)
      PROVE  \/ log' = log
             \/ \E c : /\ log' = log \cup {c} /\ (config.hook => CommitMsg(c))
                       /\ DOMAIN c.after \subseteq DOMAIN disk /\ disk' = disk
  <2>1. CASE \/ (\E t \in Templates, s \in DOMAIN LoadAll \cup {None} : createRecord(p, t, s))
             \/ Supersede(p) \/ SealLayer(p) \/ Save(p) \/ ReadManifest(p) \/ SealRecord(p)
    BY <2>1 DEF createRecord, Supersede, SealLayer, Save, ReadManifest, SealRecord, repo
  <2>2. CASE Refuse(p) \/ Validate(p) \/ SpecsFail(p) \/ SpecsPass(p) \/ Unlock(p)
    BY <2>2 DEF Refuse, Validate, SpecsFail, SpecsPass, Unlock, repo
  <2>3. CASE CommitRejected(p) \/ relockClosedScope(p) \/ ChangeScope(p) \/ SaveScope(p) \/ Reconcile(p) \/ Compile(p)
    BY <2>3 DEF CommitRejected, relockClosedScope, ChangeScope, SaveScope, Reconcile, Compile, repo
  <2>4. CASE CommitDraft(p)
    <3>1. PICK ix, tags : /\ ix = Add(index, proc[p].id) /\ tags = {proc[p].id}
      OBVIOUS
    <3>2. /\ proc[p].id \in DOMAIN disk /\ disk' = disk
          /\ log' = log \/ (MayPass(Commit(ix, tags)) /\ Committed(ix, Commit(ix, tags)))
      BY <2>4, <3>1 DEF CommitDraft, repo, files
    <3>3. IndexOK(ix)
      BY <3>1, <3>2, RepoIndex, AddOK
    <3> QED BY <3>2, <3>3, CommittedLog
  <2>5. CASE CommitStatus(p)
    <3>1. PICK ix, tags : /\ ix = StagedBy(p) /\ tags = {proc[p].id}
      OBVIOUS
    <3>2. /\ proc[p].id \in DOMAIN disk /\ disk' = disk
          /\ log' = log \/ (MayPass(Commit(ix, tags)) /\ Committed(ix, Commit(ix, tags)))
      BY <2>5, <3>1 DEF CommitStatus, repo, files
    <3>3. IndexOK(ix)
      BY <3>1, <3>2, StagedOK
    <3> QED BY <3>2, <3>3, CommittedLog
  <2> QED BY <1>4, <2>1, <2>2, <2>3, <2>4, <2>5 DEF Step
<1> QED BY <1>1, <1>2, <1>3, <1>4 DEF Next, Begins, Develops

\* What the hook asked of a commit still holds of the record.
Audited ==
  config.hook =>
    \A c \in log : \A id \in c.tags :
      id \in DOMAIN c.after /\ ~wasRecordImplemented(c.before, id) =>
        \A f \in Enforceable(c, config.exclude, id) : MayCommit(c, disk[id], f)

LEMMA SameJudgement ==
  ASSUME NEW a, NEW b, SameRules(a, b), a.id = b.id, NEW c, NEW f, MayCommit(c, a, f)
  PROVE  MayCommit(c, b, f)
BY DEF SameRules, MayCommit, isRecordFile, isFileForbiddenForRecord, SupersedesThrough, IsInScope, ScopeMode

\* What may be staged may be committed.
LEMMA StagedPasses ==
  ASSUME NEW c, CommitMsg(c), NEW id \in c.tags, id \in DOMAIN disk, disk[id].id = id,
         NEW f \in Enforceable(c, config.exclude, id)
  PROVE  MayCommit(c, disk[id], f)
<1> DEFINE r == disk[id]
           fs == Enforceable(c, config.exclude, id)
<1>1. id \in DOMAIN LoadAll /\ LoadAll[id] = r
  BY DEF LoadAll, Over
<1>2. CheckStaged(c, LoadAll, config.exclude, config.tagRequired) = {}
  BY DEF CommitMsg
<1>3. StagedViolations(c, config.exclude, r) = {}
  <2>1. c.tags # {} /\ id \in c.tags \cap DOMAIN LoadAll
    BY <1>1
  <2> QED BY <1>1, <1>2, <2>1 DEF CheckStaged
<1>4. {Violation(r.id, f2) : f2 \in {g \in fs : ~MayStage(c, r, g)}} = {}
  <2>1. fs # {} /\ r.id = id
    OBVIOUS
  <2> HIDE DEF fs, r
  <2> QED BY <1>3, <2>1 DEF StagedViolations, fs
<1>5. MayStage(c, r, f)
  BY <1>4
<1> QED BY <1>5 DEF MayStage, MayCommit

LEMMA NextAudited ==
  ASSUME Typed, Audited, [Next]_vars
  PROVE  Audited'
<1> SUFFICES ASSUME config.hook, NEW c \in log', NEW id \in c.tags,
                    id \in DOMAIN c.after, ~wasRecordImplemented(c.before, id),
                    NEW f \in Enforceable(c, config.exclude, id)
             PROVE  MayCommit(c, disk'[id], f)
  BY ConfigStays DEF Audited
<1>1. DiskStep
  BY NextDisk
<1>2. CASE c \in log
  <2>1. id \in DOMAIN disk /\ MayCommit(c, disk[id], f)
    BY <1>2, StayingTree DEF Audited, Repo
  <2>2. SameRules(disk[id], disk'[id]) /\ disk[id].id = disk'[id].id
    BY <1>1, <2>1, StayingTree DEF DiskStep, Tree, ById
  <2> QED BY <2>1, <2>2, SameJudgement
<1>3. CASE c \notin log
  <2>1. CommitMsg(c) /\ DOMAIN c.after \subseteq DOMAIN disk /\ disk' = disk
    BY <1>3, LogGrows
  <2>2. id \in DOMAIN disk /\ disk[id].id = id
    BY <2>1, StayingTree DEF Tree, ById
  <2> QED BY <2>1, <2>2, StagedPasses
<1> QED BY <1>2, <1>3

LEMMA AuditAgrees ==
  ASSUME Typed, Audited
  PROVE  AuditAgreesWithHook
<1> SUFFICES ASSUME config.hook, NEW c \in log,
                    \A id \in c.tags : id \in DOMAIN c.after /\ ~wasRecordImplemented(c.before, id),
                    NEW id \in c.tags \cap DOMAIN LoadAll
             PROVE  CommitViolations(c, config.exclude, LoadAll[id]) = {}
  BY DEF AuditAgreesWithHook, CheckCommit
<1>1. id \in DOMAIN disk /\ disk[id].id = id /\ LoadAll[id] = disk[id]
  BY Loads, StayingTree DEF Repo, Tree, ById
<1>2. \A f \in Enforceable(c, config.exclude, id) : MayCommit(c, disk[id], f)
  BY DEF Audited
<1> QED BY <1>1, <1>2 DEF CommitViolations

LEMMA OwnRecordFile ==
  ASSUME NEW id
  PROVE  Base(RecordPath(id)) = id /\ Len(RecordPath(id)) > 1
BY DEF Base, RecordPath

LEMMA OwnPasses ==
  ASSUME RecordsInv
  PROVE  OwnCommitsPassTheHook
<1> SUFFICES ASSUME NEW p \in Procs, Untampered, Running(p, {"open", "complete"}, "ready"), proc[p].id \in DOMAIN disk,
                    NEW c, c = Commit(StagedBy(p), {proc[p].id}),
                    c.files \subseteq {RecordPath(proc[p].id), ManifestPath},
                    ~isFileForbiddenForRecord(RecordPath(proc[p].id), disk[proc[p].id]),
                    \/ InHeadAs(proc[p].id, {"draft", "open"})
                    \/ proc[p].cmd = "open" /\ proc[p].id \notin DOMAIN head.recs
             PROVE  CommitMsg(c)
  BY DEF OwnCommitsPassTheHook
<1> DEFINE id == proc[p].id
           r == disk[id]
           own == RecordPath(id)
           fs == Enforceable(c, config.exclude, r.id)
<1>1. ~config.concurrent /\ Typed /\ OneCommand
  BY DEF RecordsInv, Untampered, OneAtATime
<1>2. /\ proc[p] # Idle /\ Midway(p) /\ proc[p].pc = "ready" /\ proc[p].cmd \in {"open", "complete"}
  BY <1>1, RunningMidway DEF Transition, MidPlaces
<1>3. r.id = id /\ id \in DOMAIN LoadAll /\ LoadAll[id] = r
  BY <1>1, Loads, StayingTree DEF Tree, ById
<1>4. r.status = NextStatus[proc[p].cmd]
  <2>1. PICK d, m, w : Tree(d) /\ From(p, d, m, w)
    BY <1>1, <1>2 DEF OneCommand, Journal, Midway
  <2>2. id \in DOMAIN d /\ Mine(p) = Transitioned(d[id], proc[p].cmd)
        /\ disk = Put(d, id, updateRecordYAMLText(d[id], Mine(p)))
    BY <1>2, <2>1 DEF From
  <2>3. d[id] \in Record /\ proc[p].cmd \in Transition
    BY <1>2, <2>1, <2>2 DEF Tree, ById, Midway
  <2>4. Mine(p) \in Record /\ Mine(p).status = NextStatus[proc[p].cmd]
    BY <2>2, <2>3, TransitionedSet
  <2>5. r = updateRecordYAMLText(d[id], Mine(p))
    BY <2>2 DEF Put
  <2> QED BY <2>3, <2>4, <2>5, UpdateSet
<1>5. Base(own) = id /\ Len(own) > 1
  BY OwnRecordFile
<1>6. \A f \in fs : f = own
  BY DEF Enforceable, isHashManifest
<1>7. c.tags = {id} /\ c.before = head.recs /\ c.after = Put(index.recs, id, r)
  BY <1>1, StagedOK DEF Commit
<1>8. proc[p].cmd = "complete" => isCompletionTransition(c, own)
  <2> SUFFICES ASSUME proc[p].cmd = "complete" PROVE isCompletionTransition(c, own)
    OBVIOUS
  <2>1. id \in DOMAIN head.recs /\ head.recs[id].status \in {"draft", "open"}
    BY DEF InHeadAs
  <2>2. id \in DOMAIN c.after /\ c.after[id] = r
    BY <1>7 DEF Put
  <2>3. r.status = "implemented"
    BY <1>4 DEF NextStatus
  <2>4. Holds(c.before, own) /\ At(c.before, own) = head.recs[id]
    BY <1>5, <1>7, <2>1 DEF Holds, At
  <2>5. Holds(c.after, own) /\ At(c.after, own) = r
    BY <1>5, <2>2 DEF Holds, At
  <2> QED BY <2>1, <2>3, <2>4, <2>5 DEF isCompletionTransition
<1>9. proc[p].cmd = "open" => r.status = "open"
  BY <1>4 DEF NextStatus
<1>10. isRecordFile(own, r)
  BY <1>3, <1>5 DEF isRecordFile
<1> HIDE DEF fs, own, r
<1>11. MayStage(c, r, own)
  BY <1>2, <1>8, <1>9, <1>10 DEF MayStage, r, own
<1>12. StagedViolations(c, config.exclude, r) = {}
  <2>1. CASE fs = {}
    BY <2>1 DEF StagedViolations, fs
  <2>2. CASE fs # {}
    <3>1. ~(r.status = "implemented" /\ ~\E f \in fs : isRecordFile(f, r) /\ isCompletionTransition(c, f))
      BY <1>2, <1>6, <1>8, <1>9, <1>10, <2>2
    <3>2. {g \in fs : ~MayStage(c, r, g)} = {}
      BY <1>6, <1>11
    <3> QED BY <2>2, <3>1, <3>2 DEF StagedViolations, fs
  <2> QED BY <2>1, <2>2
<1>13. c.tags # {} /\ c.tags \cap DOMAIN LoadAll = {id}
  BY <1>3, <1>7
<1>14. CheckStaged(c, LoadAll, config.exclude, config.tagRequired) = {}
  BY <1>3, <1>12, <1>13 DEF CheckStaged
<1> QED BY <1>14 DEF CommitMsg

\* The commands pass their own commit hook, and the audit reports no commit of an
\* unsealed record that the hook let through, whatever the record has become
\* since (CheckStaged, CheckCommit, isCompletionTransition).
THEOREM HookAlwaysAgrees == Spec => []HookAgrees
<1>1. Init => Audited
  BY DEF Init, Audited
<1>2. RecordsInv /\ Audited /\ [Next]_vars => Audited'
  BY NextAudited DEF RecordsInv
<1>3. RecordsInv /\ Audited => HookAgrees
  BY AuditAgrees, OwnPasses DEF RecordsInv, HookAgrees
<1> QED BY <1>1, <1>2, <1>3, Invariant, PTL DEF Spec

-----------------------------------------------------------------------------
(***************************************************************************)
(* What lint says of a record before it is sealed, and after.              *)
(***************************************************************************)
SameBody(a, b) ==
  /\ a.id = b.id /\ a.type = b.type /\ a.missing = b.missing /\ a.malformed = b.malformed
  /\ a.long = b.long /\ a.constraints = b.constraints /\ a.affected = b.affected
  /\ a.forbidden = b.forbidden /\ a.supersedes = b.supersedes /\ a.by = b.by
  /\ a.extends = b.extends /\ a.implements = b.implements /\ a.related = b.related
  /\ a.specs = b.specs /\ a.traces = b.traces /\ a.monitors = b.monitors /\ a.remote = b.remote

LEMMA TransitionedBody ==
  ASSUME NEW r \in Record, NEW cmd \in Transition
  PROVE  SameBody(r, Transitioned(r, cmd))
<1>1. DOMAIN r = Fields
  BY RecordFields
<1> QED BY <1>1 DEF Transitioned, SameBody, Fields

\* The rules that read only the record say the same.
LEMMA OwnRules ==
  ASSUME NEW a, NEW b, SameBody(a, b), a.status \in Statuses, b.status \in Statuses
  PROVE  /\ validateRequiredFields(a) = validateRequiredFields(b)
         /\ validateFormats(a) = validateFormats(b)
         /\ validateType(a) = validateType(b)
         /\ validateScopePatterns(a) = validateScopePatterns(b)
         /\ validateScopeSelfOverlap(a) = validateScopeSelfOverlap(b)
<1>1. effectiveType(a) = effectiveType(b)
  BY DEF effectiveType, SameBody
<1>2. validateRequiredFields(a) = validateRequiredFields(b)
  BY <1>1 DEF validateRequiredFields, SameBody, Issue, When
<1>3. validateFormats(a) = validateFormats(b)
  BY DEF validateFormats, SameBody, Issue, When
<1>4. validateType(a) = validateType(b)
  BY DEF validateType, SameBody, Issue, When
<1>5. validateScopePatterns(a) = validateScopePatterns(b)
  BY DEF validateScopePatterns, SameBody, Issue, When
<1>6. validateScopeSelfOverlap(a) = validateScopeSelfOverlap(b)
  BY DEF validateScopeSelfOverlap, SameBody, Issue, When
<1> QED BY <1>2, <1>3, <1>4, <1>5, <1>6

\* Two worlds that differ in the status of record i only.
Alike(w, v, i) ==
  /\ DOMAIN w.recs = DOMAIN v.recs
  /\ \A j \in DOMAIN w.recs : SameBody(w.recs[j], v.recs[j]) /\ (j # i => w.recs[j] = v.recs[j])

LEMMA GraphRules ==
  ASSUME NEW w, NEW v, NEW a, NEW b, SameBody(a, b), Alike(w, v, a.id)
  PROVE  /\ validateSupersedes(w, a) = validateSupersedes(v, b)
         /\ validateExtends(w, a) = validateExtends(v, b)
         /\ validateSupersessionType(w, a) = validateSupersessionType(v, b)
         /\ validateImplements(w, a) = validateImplements(v, b)
         /\ validateBugConditionals(w, a) = validateBugConditionals(v, b)
<1>1. effectiveType(a) = effectiveType(b)
  BY DEF effectiveType, SameBody
<1>2. \A j \in DOMAIN w.recs :
        /\ effectiveType(w.recs[j]) = effectiveType(v.recs[j]) /\ w.recs[j].implements = v.recs[j].implements
  BY DEF Alike, effectiveType, SameBody
<1>3. \A j : Known(w, j) <=> Known(v, j)
  BY DEF Alike, Known
<1>4. Extenders(w, a) = Extenders(v, b)
  BY DEF Extenders, Alike, SameBody
<1>5. validateSupersedes(w, a) = validateSupersedes(v, b)
  BY <1>3, <1>4 DEF validateSupersedes, SameBody, Issue, When
<1>6. validateExtends(w, a) = validateExtends(v, b)
  <2>1. Known(w, a.extends) => a.extends \in DOMAIN w.recs
    BY DEF Known
  <2> QED BY <1>1, <1>2, <1>3, <2>1 DEF validateExtends, SameBody, Issue, When
<1>7. validateSupersessionType(w, a) = validateSupersessionType(v, b)
  <2>1. Known(w, a.supersedes) => a.supersedes \in DOMAIN w.recs
    BY DEF Known
  <2> QED BY <1>1, <1>2, <1>3, <2>1 DEF validateSupersessionType, SameBody, Issue, When
<1>8. validateImplements(w, a) = validateImplements(v, b)
  <2>1. Known(w, a.implements) => a.implements \in DOMAIN w.recs
    BY DEF Known
  <2> QED BY <1>1, <1>2, <1>3, <2>1 DEF validateImplements, SameBody, Issue, When
<1>9. validateBugConditionals(w, a) = validateBugConditionals(v, b)
  <2>1. /\ Known(w, a.supersedes) => a.supersedes \in DOMAIN w.recs
        /\ Known(w, a.extends) => a.extends \in DOMAIN w.recs
    BY DEF Known
  <2> QED BY <1>2, <1>3, <2>1 DEF validateBugConditionals, SameBody, Issue, When
<1> QED BY <1>5, <1>6, <1>7, <1>8, <1>9

\* These never make an error.
LEMMA SoftRules ==
  ASSUME NEW w, NEW r,
         NEW i \in validateSupersededBy(w, r) \cup validateRelated(w, r) \cup validateNotApplicableFields(r)
                     \cup validateTitleLength(r) \cup validateConstraintsHint(r) \cup validateSealedAtSHA(r)
  PROVE  i.severity # "error"
<1>1. \A rule, severity : Issue(r, rule, severity).severity = severity
  BY DEF Issue
<1>2. \A bad, issue : \A k \in When(bad, issue) : k = issue
  BY DEF When
<1>3. "warning" # "error" /\ "hint" # "error"
  OBVIOUS
<1>4. CASE i \in validateSupersededBy(w, r) \cup validateRelated(w, r)
  BY <1>1, <1>2, <1>3, <1>4 DEF validateSupersededBy, validateRelated
<1>5. CASE i \in validateNotApplicableFields(r)
  <2> DEFINE of == {f \in {"affected_scope", "forbidden_scope", "associated_specs"} :
                     /\ effectiveType(r) = "brief"
                     /\ CASE f = "affected_scope" -> r.affected # {}
                          [] f = "forbidden_scope" -> r.forbidden # {}
                          [] f = "associated_specs" -> r.specs # {}}
             bad == effectiveType(r) = "imprint" /\ (r.traces \/ r.monitors)
  <2>1. i \in {Issue(r, "not applicable", "warning") : field \in of} \cup When(bad, Issue(r, "not applicable", "warning"))
    BY <1>5 DEF validateNotApplicableFields
  <2> HIDE DEF of, bad
  <2> QED BY <1>1, <1>2, <1>3, <2>1
<1>6. CASE i \in validateTitleLength(r) \cup validateConstraintsHint(r)
  BY <1>1, <1>2, <1>3, <1>6 DEF validateTitleLength, validateConstraintsHint
<1>7. CASE i \in validateSealedAtSHA(r)
  BY <1>1, <1>2, <1>3, <1>7 DEF validateSealedAtSHA
<1> QED BY <1>4, <1>5, <1>6, <1>7

\* Of a sealed record only a pattern that does not compile is an error.
LEMMA SealedScope ==
  ASSUME NEW w, NEW r \in Record, r.status = "implemented", NEW i \in validateScopePaths(w, r), i.severity = "error"
  PROVE  validateScopePatterns(r) = {Issue(r, "scope", "error")}
<1>1. isTerminalStatus(r.status)
  BY DEF isTerminalStatus
<1>2. ASSUME NEW patterns \in SUBSET Pattern,
             NEW k \in validateScopePatternList(w, r, patterns, "warning", "warning"), k.severity = "error"
      PROVE  \E p \in patterns : p.kind = "regex" /\ ~p.valid
  <2>1. PICK p \in patterns :
          k \in CASE p.kind = "regex" -> validateRegexPattern(w, r, p, "warning")
                  [] p.kind = "glob"  -> validateGlobPattern(w, r, p, "warning")
                  [] p.kind = "exact" -> validateExactPath(w, r, p, "warning", "warning")
    BY DEF validateScopePatternList
  <2>2. p.kind \in {"regex", "glob", "exact"}
    BY DEF Pattern
  <2>3. \/ p.kind = "regex" /\ k \in validateRegexPattern(w, r, p, "warning")
        \/ p.kind = "glob" /\ k \in validateGlobPattern(w, r, p, "warning")
        \/ p.kind = "exact" /\ k \in validateExactPath(w, r, p, "warning", "warning")
    BY <2>1, <2>2
  <2>4. CASE p.kind = "regex" /\ k \in validateRegexPattern(w, r, p, "warning")
    BY <1>2, <2>4 DEF validateRegexPattern, Issue, When
  <2>5. CASE p.kind = "glob" /\ k \in validateGlobPattern(w, r, p, "warning")
    BY <1>2, <2>5 DEF validateGlobPattern, Issue, When
  <2>6. CASE p.kind = "exact" /\ k \in validateExactPath(w, r, p, "warning", "warning")
    BY <1>2, <2>6 DEF validateExactPath, Issue, When
  <2> QED BY <2>4, <2>5, <2>6, <2>3
<1>3. \/ i \in validateScopePatternList(w, r, r.affected, "warning", "warning")
      \/ i \in validateScopePatternList(w, r, r.forbidden, "warning", "warning")
  BY <1>1 DEF validateScopePaths
<1>4. \E p \in r.affected \cup r.forbidden : p.kind = "regex" /\ ~p.valid
  BY <1>2, <1>3, RecordFields
<1> QED BY <1>4 DEF validateScopePatterns, When

LEMMA SealingKeepsClean ==
  ASSUME NEW w, NEW v, NEW a \in Record, NEW b \in Record, SameBody(a, b), Alike(w, v, a.id),
         a.status # "draft", ~a.remote, b.status = "implemented", validateImmutability(v, b) = {},
         HasErrors(lintRecord(v, b))
  PROVE  HasErrors(lintRecord(w, a))
<1>1. PICK i \in lintRecord(v, b) : i.severity = "error"
  BY DEF HasErrors
<1>2. ~b.remote /\ a.status \in Statuses /\ b.status \in Statuses
  BY RecordFields DEF SameBody
<1>3. i \notin validateSupersededBy(v, b) \cup validateRelated(v, b) \cup validateNotApplicableFields(b)
                 \cup validateTitleLength(b) \cup validateConstraintsHint(b) \cup validateSealedAtSHA(b)
  BY <1>1, SoftRules
<1>4. \/ i \in validateRequiredFields(b) \cup validateFormats(b) \cup validateType(b)
      \/ i \in validateSupersedes(v, b) \cup validateExtends(v, b) \cup validateSupersessionType(v, b)
                 \cup validateImplements(v, b) \cup validateBugConditionals(v, b)
      \/ i \in validateScopePatterns(b) \cup validateScopeSelfOverlap(b)
      \/ i \in validateScopePaths(v, b) \cup validateImprintScopeContainment(v, b) \cup validateAssociatedSpecs(v, b)
  BY <1>1, <1>2, <1>3 DEF lintRecord
<1>5. /\ validateRequiredFields(a) \cup validateFormats(a) \cup validateType(a) \subseteq lintRecord(w, a)
      /\ validateSupersedes(w, a) \cup validateExtends(w, a) \cup validateSupersessionType(w, a)
           \cup validateImplements(w, a) \cup validateBugConditionals(w, a) \subseteq lintRecord(w, a)
      /\ validateScopePatterns(a) \cup validateScopeSelfOverlap(a) \subseteq lintRecord(w, a)
  BY DEF lintRecord
<1>6. CASE i \in validateRequiredFields(b) \cup validateFormats(b) \cup validateType(b)
  BY <1>1, <1>2, <1>5, <1>6, OwnRules DEF HasErrors
<1>7. CASE i \in validateSupersedes(v, b) \cup validateExtends(v, b) \cup validateSupersessionType(v, b)
                   \cup validateImplements(v, b) \cup validateBugConditionals(v, b)
  BY <1>1, <1>5, <1>7, GraphRules DEF HasErrors
<1>8. CASE i \in validateScopePatterns(b) \cup validateScopeSelfOverlap(b)
  BY <1>1, <1>2, <1>5, <1>8, OwnRules DEF HasErrors
<1>9. CASE i \in validateScopePaths(v, b)
  <2>1. validateScopePatterns(b) = {Issue(b, "scope", "error")}
    BY <1>1, <1>9, SealedScope
  <2>2. Issue(b, "scope", "error") \in lintRecord(w, a)
    BY <1>2, <1>5, <2>1, OwnRules
  <2>3. Issue(b, "scope", "error").severity = "error"
    BY DEF Issue
  <2> QED BY <2>2, <2>3 DEF HasErrors
<1>10. i \notin validateImprintScopeContainment(v, b)
  BY DEF validateImprintScopeContainment, When
<1>11. i \notin validateAssociatedSpecs(v, b)
  BY <1>1 DEF validateAssociatedSpecs, isTerminalStatus, Issue, When
<1> QED BY <1>4, <1>6, <1>7, <1>8, <1>9, <1>10, <1>11

LEMMA StepLeft ==
  ASSUME NEW p \in Procs, Step(p)
  PROVE  left' = left
BY DEF Step, createRecord, Supersede, CommitDraft, SealLayer, Save, ReadManifest, SealRecord, Refuse, Validate,
       SpecsFail, SpecsPass, Unlock, CommitStatus, CommitRejected, relockClosedScope, ChangeScope, SaveScope,
       Reconcile, Compile

LEMMA CleanCompletes ==
  ASSUME RecordsInv, [Next]_vars, NEW p \in Procs, OneAtATime, ~config.faults,
         Running(p, {"complete"}, "sealed"), proc'[p] = Idle, CleanBefore(p)
  PROVE  FALSE
<1> DEFINE id == proc[p].id
<1>1. ~config.concurrent /\ Typed /\ OneCommand /\ config.budget.crashes = 0
  BY DEF OneAtATime, RecordsInv
<1>2. /\ proc[p] # Idle /\ Midway(p) /\ proc[p].pc = "sealed" /\ proc[p].cmd = "complete"
  BY <1>1, RunningMidway DEF Transition, MidPlaces
<1>3. Refuse(p)
  <2>1. left' = left
    <3>1. ASSUME NEW q \in Procs, Crash(q) PROVE FALSE
      <4>1. left.crashes > 0
        BY <1>1, <3>1, CrashTyped
      <4> QED BY <1>1, <4>1, RecordsAssumption DEF Typed, Budget
    <3>2. ASSUME NEW q \in Procs, Begins(q) PROVE FALSE
      BY <1>1, <1>2, <3>2, BeginsOne DEF AllIdle
    <3>3. ~Develops
      BY <1>1, <1>2, DevelopsOne DEF AllIdle
    <3>4. ASSUME NEW q \in Procs, Step(q) PROVE left' = left
      BY <3>4, StepLeft
    <3>5. CASE UNCHANGED vars
      BY <3>5 DEF vars
    <3> QED BY <3>1, <3>2, <3>3, <3>4, <3>5 DEF Next, Begins, Develops
  <2>2. Refuse(p) \/ SpecsFail(p) \/ CommitRejected(p) \/ relockClosedScope(p)
    BY <1>1, <1>2, <2>1, TransitionEnds DEF Ended, Midway
  <2>3. ~SpecsFail(p) /\ ~CommitRejected(p) /\ ~relockClosedScope(p)
    BY <1>2 DEF SpecsFail, CommitRejected, ToCommit, relockClosedScope, Running
  <2> QED BY <2>2, <2>3
<1>4. PICK d, m, w : proc[p].before = <<d, m, w>> /\ Tree(d) /\ Manifest(m) /\ From(p, d, m, w)
  BY <1>1, <1>2 DEF OneCommand, Journal, Midway
<1> DEFINE a == d[id]
           b == Mine(p)
           recs == Over(d, Shared)
           W == [World(recs) EXCEPT !.manifest = m]
           V == World(Mem(p))
<1>5. /\ id \in DOMAIN d /\ b = Transitioned(a, "complete") /\ disk = Put(d, id, updateRecordYAMLText(a, b))
      /\ manifest = Put(SealedIn(m), id, Content(b))
  BY <1>2, <1>4 DEF From, Sealing
<1>6. a \in Record /\ a.id = id /\ ~a.remote /\ id \in Ids
  BY <1>4, <1>5 DEF Tree, ById
<1>7. b \in Record /\ b.id = id /\ b.status = "implemented" /\ SameBody(a, b)
  <2>1. PICK t \in Transition : t = "complete" /\ NextStatus[t] = "implemented"
    BY DEF Transition, NextStatus
  <2>2. b = Transitioned(a, t)
    BY <1>5, <2>1
  <2> HIDE DEF a, b
  <2> QED BY <1>6, <2>1, <2>2, TransitionedSet, TransitionedBody
<1>8. Mem(p) = Put(recs, id, b)
  <2>1. Mem(p) = Put(LoadAll, id, b)
    BY <1>1, <1>2 DEF OneCommand, UpToDate, Remembers
  <2>2. LoadAll = Put(recs, id, updateRecordYAMLText(a, b))
    BY <1>5, OverPut DEF LoadAll
  <2> HIDE DEF recs, a, b
  <2> QED BY <2>1, <2>2, PutTwice
<1>9. recs[id] = a /\ id \in DOMAIN recs
  BY <1>5 DEF Over
<1> HIDE DEF recs
<1>10. W.recs = recs /\ V.recs = Mem(p) /\ V.manifest = manifest
  BY DEF World
<1>11. Alike(W, V, id)
  <2>1. DOMAIN Mem(p) = DOMAIN recs /\ Mem(p)[id] = b /\ \A j \in DOMAIN recs : j # id => Mem(p)[j] = recs[j]
    BY <1>8, <1>9 DEF Put
  <2>2. \A j \in DOMAIN recs : SameBody(recs[j], Mem(p)[j])
    BY <1>7, <1>9, <2>1 DEF SameBody
  <2> HIDE DEF W, V
  <2> QED BY <1>10, <2>1, <2>2 DEF Alike
<1>12. validateImmutability(V, b) = {}
  <2>1. id \in DOMAIN manifest /\ manifest[id] = Content(b)
    BY <1>5 DEF Put
  <2> HIDE DEF V, b
  <2> QED BY <1>7, <1>10, <2>1 DEF validateImmutability, When
<1>13. HasErrors(lintRecord(V, b))
  <2>1. Invalid(p)
    BY <1>3 DEF Refuse
  <2>2. V.recs[id] = b
    BY <1>10 DEF Mine, Mem
  <2> HIDE DEF b
  <2> QED BY <2>1, <2>2 DEF Invalid, LintRecord
<1>14. a.status # "draft" /\ ~HasErrors(lintRecord(W, a))
  <2>1. proc[p].before[1] = d /\ proc[p].before[2] = m
    BY <1>4
  <2>2. recs[id].status # "draft" /\ ~HasErrors(LintRecord(W, id))
    BY <2>1 DEF CleanBefore, recs
  <2> HIDE DEF W
  <2> QED BY <1>9, <1>10, <2>2 DEF LintRecord
<1> HIDE DEF W, V, a, b
<1> QED BY <1>6, <1>7, <1>11, <1>12, <1>13, <1>14, SealingKeepsClean

\* Sealing does not invalidate: complete does not refuse, for what its own lint
\* says of the sealed record, a record that was no draft and linted without an
\* error when complete started (completeRecord, LintRecord).
THEOREM CleanAlwaysCompletes == Spec => CleanRecordCompletes
<1>1. RecordsInv /\ [Next]_vars =>
        [\A p \in Procs :
          OneAtATime /\ ~config.faults /\ Running(p, {"complete"}, "sealed") /\ proc'[p] = Idle =>
            ~CleanBefore(p)]_vars
  BY CleanCompletes
<1> QED BY <1>1, Invariant, PTL DEF Spec, CleanRecordCompletes
=============================================================================
