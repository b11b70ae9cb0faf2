---------------------------- MODULE LayoutExport ----------------------------
(***************************************************************************)
(* The tree a Git or GitLab sink keeps for one inventory: how a snapshot   *)
(* is split into parts, projected to files, written part by part, and how  *)
(* stale files are pruned against the union of the parts                   *)
(* (internal/sink/layout_export.go, internal/sink/layout,                  *)
(* internal/export/partition.go).  One part is one commit; what happens    *)
(* inside a commit is in GitExport.                                        *)
(***************************************************************************)
EXTENDS Naturals, Sequences, FiniteSets, SequencesExt

CONSTANTS
    Resources,    \* numbered in the order stableItems sorts them
    Name,         \* resource -> its name, the identifier of the path template
    Sanitized,    \* name with characters unsafe in a path -> the segment it becomes
    Manifests,    \* resources whose attributes embed their manifest
    Size,         \* resource -> size of its item
    Deployments,  \* [mode, content, maxBytes, foreign]: layout.mode and content
                  \* ("auto" when not set), the paths another inventory owns
    Worlds,       \* the snapshots: sets of resources
    Absent,
    MaxEdits, MaxFaults   \* bounds: changes and faults together, faults among them

VARIABLES
    env,      \* the sink's layout, fixed
    want,     \* [items, gen, ver]: the snapshot; ver tells contents apart
    tree,     \* path -> [of, ver]: files of the branch, as a set of pairs
    record,   \* paths of the inventory's ownership record
    job,      \* the set being exported | Absent
    done,     \* the last set exported to the end | Absent
    refused,  \* the content whose export ended in a terminal error | Absent
    cutShort, \* an attempt ended after the commit of one of its parts
    edits, faults

vars == <<env, want, tree, record, job, done, refused, cutShort, edits, faults>>

-----------------------------------------------------------------------------
(* Splitting *)

TotalSize(items) == FoldSet(LAMBDA r, n : n + Size[r], 0, items)

stableItems(items) == SetToSortSeq(items, <)

\* partitionItemGroups: greedy in the sorted order; "none" when a single item
\* is too large.
partitionItemGroups(items, maxBytes) ==
    LET add(groups, r) ==
            IF groups = "none" \/ Size[r] > maxBytes THEN "none"
            ELSE IF groups # <<>> /\ TotalSize(Last(groups)) + Size[r] <= maxBytes
                 THEN [groups EXCEPT ![Len(groups)] = @ \cup {r}]
                 ELSE Append(groups, {r})
    IN  IF maxBytes = 0 \/ TotalSize(items) <= maxBytes THEN <<items>>
        ELSE FoldLeft(add, <<>>, stableItems(items))

\* PartitionObjectPath: the suffix the inventory name gets in a part's path, and
\* with it every path rendered from that name.
PartitionObjectPath(k, total) == IF total > 1 THEN <<k, total>> ELSE <<0, 0>>

baseInventoryName(suffix, k, total) == IF total > 1 /\ suffix = <<k, total>> THEN <<0, 0>> ELSE suffix

-----------------------------------------------------------------------------
(* Projection of one part *)

inferManifestKey(r) == r \in Manifests

\* inferResourceLayoutHints looks at the items of one part.
inferResourceLayoutHints(part) == part # {} /\ \A r \in part : inferManifestKey(r)

Resolve(part) ==
    LET embeds == inferResourceLayoutHints(part)
        mode == IF env.mode # "auto" THEN env.mode ELSE IF embeds THEN "perResource" ELSE "document"
    IN  [mode |-> mode,
         content |-> IF env.content # "auto" THEN env.content
                     ELSE IF embeds /\ mode # "document" THEN "manifest" ELSE "item",
         prune |-> mode # "document"]

\* renderInventoryPath for the document, the split index and the set manifest.
renderInventoryPath(kind, suffix) == <<kind, suffix>>
DocumentPath(suffix) == renderInventoryPath("document", suffix)
IndexPath(suffix) == renderInventoryPath("index", suffix)
setManifestPath(suffix, k, total) == renderInventoryPath("manifest", baseInventoryName(suffix, k, total))

sanitizeSegment(v) == IF v \in DOMAIN Sanitized THEN Sanitized[v] ELSE v

renderItemPath(r) == <<"item", sanitizeSegment(Name[r])>>

\* manifestPayload needs the embedded object.
itemPayloadFails(r, content) == content = "manifest" /\ ~inferManifestKey(r)

Failed == [ok |-> FALSE, files |-> {}]
File(path, of, ver) == <<path, [of |-> of, ver |-> ver]>>
Paths(files) == {f[1] : f \in files}

projectDocument(part, suffix, ver) == [ok |-> TRUE, files |-> {File(DocumentPath(suffix), part, ver)}]

\* Two items that render one path, or an item without its payload, fail the part.
projectPerResource(part, content, ver) ==
    IF \/ \E q, r \in part : q # r /\ renderItemPath(q) = renderItemPath(r)
       \/ \E r \in part : itemPayloadFails(r, content)
    THEN Failed
    ELSE [ok |-> TRUE, files |-> {File(renderItemPath(r), {r}, ver) : r \in part}]

\* The index counts and lists the rows of its part.
buildIndex(part, ver) == [of |-> part, ver |-> ver]

projectSplit(part, content, suffix, ver) ==
    LET rows == projectPerResource(part, content, ver)
        index == <<IndexPath(suffix), buildIndex(part, ver)>>
    IN  IF ~rows.ok \/ IndexPath(suffix) \in Paths(rows.files) THEN Failed
        ELSE [ok |-> TRUE, files |-> rows.files \cup {index}]

Project(part, suffix, ver) ==
    LET l == Resolve(part)
    IN  CASE l.mode = "perResource" -> projectPerResource(part, l.content, ver)
          [] l.mode = "split"       -> projectSplit(part, l.content, suffix, ver)
          [] OTHER                  -> projectDocument(part, suffix, ver)

-----------------------------------------------------------------------------
(* Prune intent of one part *)

\* Mutant: prune intent of a part that does not know of the others.
gitExportOpts_PerPart(prune, k, total, paths, plan) ==
    [prune |-> prune, plan |-> plan \cup paths, keep |-> paths]

\* gitExportOpts: prune on the last part, keeping the union (PrunePlan).
gitExportOpts(prune, k, total, paths, plan) ==
    IF ~prune \/ total = 1 THEN [prune |-> prune, plan |-> plan, keep |-> paths]
    ELSE [prune |-> k = total, plan |-> plan \cup paths,
          keep |-> IF k = total THEN plan \cup paths ELSE paths]

\* The parts before the last claim the manifest path too.
setManifestClaim(prune, suffix, k, total) ==
    IF prune /\ total > 1 /\ k < total THEN {setManifestPath(suffix, k, total)} ELSE {}

BuildSetManifest(gen, total, paths) == [gen |-> gen, total |-> total, paths |-> paths]

appendSetManifest(prune, suffix, k, total, paths, union) ==
    IF prune /\ total > 1 /\ k = total
    THEN {File(setManifestPath(suffix, k, total), {}, BuildSetManifest(job.gen, total, union))}
    ELSE {}

\* resolveSnapshotExport
resolveSnapshotExport(part, k, total, plan) ==
    LET suffix == PartitionObjectPath(k, total)
        projected == Project(part, suffix, job.ver)
        prune == Resolve(part).prune
        paths == Paths(projected.files)
        opts == gitExportOpts(prune, k, total, paths, plan)
        sidecar == appendSetManifest(prune, suffix, k, total, paths, opts.plan)
    IN  [ok |-> projected.ok, written |-> projected.files \cup sidecar,
         keep |-> opts.keep \cup Paths(sidecar), prune |-> opts.prune, plan |-> opts.plan,
         claims |-> opts.keep \cup Paths(sidecar) \cup setManifestClaim(prune, suffix, k, total)]

\* VerifySet: what a consumer makes of the manifest and the files it lists.
VerifySet(manifest, present, gen) ==
    /\ manifest.paths \subseteq present
    /\ \A q \in present \ manifest.paths : q[1] = "manifest"
    /\ manifest.gen = gen

-----------------------------------------------------------------------------

Init ==
    /\ env \in Deployments
    /\ want = [items |-> {}, gen |-> 1, ver |-> 0]
    /\ tree = {} /\ record = {}
    /\ job = Absent /\ done = Absent /\ refused = Absent /\ cutShort = FALSE
    /\ edits = 0 /\ faults = 0

\* The store changes; an edit of the spec also bumps the generation.
Change ==
    /\ edits + faults < MaxEdits
    /\ edits' = edits + 1
    /\ \E s \in Worlds, g \in {0, 1} :
          want' = [items |-> s, gen |-> want.gen + g, ver |-> want.ver + 1]
    /\ UNCHANGED <<env, tree, record, job, done, refused, cutShort, faults>>

Current == [items |-> want.items, gen |-> want.gen, ver |-> want.ver]

\* The reconciler partitions the snapshot and starts a PrunePlan.  A terminal
\* error is not retried until the snapshot changes.
Begin ==
    /\ job = Absent /\ done # Current /\ refused # want.ver
    /\ LET groups == partitionItemGroups(want.items, env.maxBytes)
       IN  IF groups = "none"
           THEN refused' = want.ver /\ job' = Absent
           ELSE /\ job' = [items |-> want.items, gen |-> want.gen, ver |-> want.ver,
                           parts |-> groups, k |-> 1, plan |-> {}]
                /\ UNCHANGED refused
    /\ UNCHANGED <<env, want, tree, record, done, cutShort, edits, faults>>

\* An empty part is skipped unless the layout mode names a tree.
Skips(part) == part = {} /\ env.mode \in {"auto", "document"}

Finished == done' = [items |-> job.items, gen |-> job.gen, ver |-> job.ver] /\ job' = Absent

CutShort == cutShort' = (cutShort \/ job.k > 1)

\* RunExportEnvelope of one part, up to the commit of the git backend.
ExportPart ==
    /\ job # Absent
    /\ LET part == job.parts[job.k]
           total == Len(job.parts)
           x == resolveSnapshotExport(part, job.k, total, job.plan)
           refuses == ~x.ok \/ x.claims \cap env.foreign # {}
       IN  \/ /\ Skips(part)
              /\ Finished
              /\ UNCHANGED <<tree, record, refused, cutShort>>
           \/ /\ ~Skips(part) /\ refuses
              /\ job' = Absent /\ refused' = job.ver
              /\ CutShort
              /\ UNCHANGED <<tree, record, done>>
           \/ /\ ~Skips(part) /\ ~refuses
              /\ tree' = {f \in tree : /\ f[1] \notin Paths(x.written)
                                       /\ x.prune => ~(f[1] \in record /\ f[1] \notin x.keep)}
                          \cup x.written
              /\ record' = IF x.prune THEN x.keep ELSE record
              /\ IF job.k = total THEN Finished
                 ELSE job' = [job EXCEPT !.k = @ + 1, !.plan = x.plan] /\ UNCHANGED done
              /\ UNCHANGED <<refused, cutShort>>
    /\ UNCHANGED <<env, want, edits, faults>>

\* The push of a part fails, or the process stops between two parts.
PartFails ==
    /\ job # Absent
    /\ faults < MaxFaults /\ edits + faults < MaxEdits
    /\ faults' = faults + 1
    /\ job' = Absent
    /\ CutShort
    /\ UNCHANGED <<env, want, tree, record, done, refused, edits>>

Next == Change \/ Begin \/ ExportPart \/ PartFails

Spec == Init /\ [][Next]_vars

FairSpec == Spec /\ WF_vars(Begin) /\ WF_vars(ExportPart)

-----------------------------------------------------------------------------
(* Properties *)

\* Types, and that no path has two files.
TypeOK ==
    /\ \A q \in record : q[1] \in {"item", "index", "document", "manifest"}
    /\ job # Absent => job.k \in 1..Len(job.parts)
    /\ \A f, g \in tree : f[1] = g[1] => f = g

Collides(items) == \E q, r \in items : q # r /\ renderItemPath(q) = renderItemPath(r)

\* Every part of a set is kept: when the last part is committed, the tree has
\* a current file for every resource of the snapshot, written by whichever
\* part.  Pruning on one part must not take a sibling's files, and parts must not
\* overwrite each other: in document mode too, where the part suffix is in the
\* inventory name that the path template must hold (PartitionObjectPath,
\* renderInventoryPath).  The comment on appendSetManifest and ADR-0405 say the
\* contrary of document mode, that all parts overwrite one path.
SetSurvivesItsPrune ==
    job = Absent /\ done # Absent /\ done = Current /\ ~Collides(done.items) =>
        \A r \in done.items : \E f \in tree : r \in f[2].of /\ f[2].ver = done.ver

\* The parts hold every item once, in order, each within the ceiling.
PartitionIsExact ==
    job # Absent =>
        /\ UNION Range(job.parts) = job.items
        /\ \A j, k \in DOMAIN job.parts : j < k =>
              \A q \in job.parts[j], r \in job.parts[k] : q < r
        /\ env.maxBytes > 0 => \A k \in DOMAIN job.parts : TotalSize(job.parts[k]) <= env.maxBytes

\* An inventory whose set manifest is another one's is refused before any of
\* its parts is committed.
ManifestConflictIsEarly ==
    /\ \E q \in env.foreign : q[1] = "manifest"
    /\ env.mode \in {"perResource", "split"} /\ job # Absent
    => job.k = 1

\* A consumer that lists the files of a finished multipart export finds the
\* set complete, unless an earlier attempt was cut short.
FinishedSetVerifies ==
    /\ job = Absent /\ done # Absent /\ done = Current /\ ~cutShort
    /\ env.mode \in {"perResource", "split"}
    /\ Len(partitionItemGroups(done.items, env.maxBytes)) > 1
    => \E f \in tree : f[1][1] = "manifest" /\ VerifySet(f[2].ver, Paths(tree), done.gen)

\* Files of resources that left the inventory drop out of a tree layout once
\* an export of the newer snapshot has succeeded.
RemovedResourcesDropOut ==
    job = Absent /\ done # Absent /\ done = Current /\ env.mode = "perResource" =>
        \A f \in tree : f[2].of \subseteq done.items

\* Two rows that render one path are an error, never a silent overwrite.
NoSilentOverwrite ==
    job = Absent /\ done # Absent /\ done = Current /\ env.mode = "perResource" =>
        \A r \in done.items : \E f \in tree : r \in f[2].of

\* A snapshot that can be partitioned and rendered is exported in the end.
TreeIsCurrent == done = Current \/ refused = want.ver
TreeConverges == <>[]TreeIsCurrent
=============================================================================
