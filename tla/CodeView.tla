------------------------------ MODULE CodeView ------------------------------
(***************************************************************************)
(* The code graph of src/code_graph.rs, exported from an index by the      *)
(* commands of src/graph_query.rs that need it: a query cache, the parsed  *)
(* files that the next export reuses, and a manifest that tells by a       *)
(* fingerprint which index they are of.  No lock is taken, and the cache   *)
(* and the manifest are written in place: opened, which empties them, and  *)
(* filled.  graph.nq, written first and read when there is no cache, is    *)
(* left out; so are indexes of more than 1000 files.                       *)
(***************************************************************************)
EXTENDS CodeIndex

CONSTANTS Missing, Torn     \* a file that does not exist, and one that cannot be parsed

ASSUME CodeViewAssumption == Missing \notin [Files -> Nat] /\ Torn \notin [Files -> Nat]

VARIABLES
  cache,      \* query-cache.json: the contents that the graph is of
  parsed,     \* parsed-files.json: contents by the stat of the index's record
  manifest,   \* manifest.json: the fingerprint, a stat for each file of the index
  graph,      \* the graph each process exports, and whether it did so twice
  orderly     \* history: no two exports met, and none died or failed

files == <<cache, parsed, manifest>>
graphVars == <<files, graph, orderly>>
vars == <<indexVars, graphVars>>

NoGraph == [parsed |-> NoRecords, again |-> FALSE]

Init ==
  /\ IndexInit
  /\ cache = Missing /\ parsed = NoRecords /\ manifest = Missing
  /\ graph = [p \in Processes |-> NoGraph]
  /\ orderly = TRUE

Exporting == {"parse", "open_cache", "fill_cache", "save_parsed", "open_manifest", "fill_manifest"}
Alone(p) == \A q \in Processes \ {p} : proc[q].pc \notin Exporting \cup {"load_cache"}

-----------------------------------------------------------------------------
(***************************************************************************)
(* code_graph_source_fingerprint: the stats of the files.                  *)
(* Faulty variant: their names.                                            *)
(***************************************************************************)
FingerprintOfNames(records) ==
  [f \in Files |-> IF records[f].stat = 0 THEN 0 ELSE 1]

Fingerprint(records) == [f \in Files |-> records[f].stat]

(***************************************************************************)
(* ensure_graph_artifacts refreshes what is missing or not of this index;  *)
(* ensure_or_load_graph_query_cache asks code_graph_refresh_reason, which  *)
(* has none when there is no manifest, and then tries to load the cache.   *)
(***************************************************************************)
RefreshReason(p) == manifest # Missing /\ manifest # Fingerprint(proc[p].held)

Refresh(p) ==
  IF proc[p].kind = "graph"
  THEN cache = Missing \/ manifest = Missing \/ RefreshReason(p)
  ELSE cache \in {Missing, Torn} \/ RefreshReason(p)

Ensure(p) ==
  /\ At(p, "loaded") /\ proc[p].kind \in {"graph", "explain"}
  /\ Goto(p, IF Refresh(p) THEN "parse" ELSE "load_cache")
  /\ orderly' = (orderly /\ Alone(p))
  /\ UNCHANGED <<tree, clock, artifacts, lock, watch, counts, files, graph>>

(***************************************************************************)
(* build_graph_with_cache: what was parsed under the record's stat is      *)
(* reused, and the other files are read now, though the stat is older.     *)
(***************************************************************************)
Reparsed(p, f) == parsed[f].stat = proc[p].held[f].stat

ParsedFile(p, f) ==
  IF proc[p].held[f].stat = 0 THEN NoRecord
  ELSE IF Reparsed(p, f) THEN [parsed[f] EXCEPT !.stat = proc[p].held[f].stat]
  ELSE IF tree[f] = 0 THEN NoRecord
  ELSE [stat |-> proc[p].held[f].stat, content |-> tree[f]]

Parse(p) ==
  /\ At(p, "parse")
  /\ graph' = [graph EXCEPT ![p].parsed = [f \in Files |-> ParsedFile(p, f)]]
  /\ Goto(p, "open_cache")
  /\ UNCHANGED <<tree, clock, artifacts, lock, watch, counts, files, orderly>>

(***************************************************************************)
(* The order of the writes: the cache, the parsed files, the manifest.     *)
(* That the parsed files cannot be written is not looked at.               *)
(***************************************************************************)
OpenCache(p) ==
  /\ At(p, "open_cache")
  /\ cache' = Torn
  /\ Goto(p, "fill_cache")
  /\ UNCHANGED <<tree, clock, artifacts, lock, watch, counts, parsed, manifest, graph, orderly>>

FillCache(p) ==
  /\ At(p, "fill_cache")
  /\ cache' = Contents(graph[p].parsed)
  /\ Goto(p, "save_parsed")
  /\ UNCHANGED <<tree, clock, artifacts, lock, watch, counts, parsed, manifest, graph, orderly>>

SaveParsed(p) ==
  /\ At(p, "save_parsed")
  /\ parsed' \in {parsed, graph[p].parsed}
  /\ Goto(p, "open_manifest")
  /\ UNCHANGED <<tree, clock, artifacts, lock, watch, counts, cache, manifest, graph, orderly>>

OpenManifest(p) ==
  /\ At(p, "open_manifest")
  /\ manifest' = Torn
  /\ Goto(p, "fill_manifest")
  /\ UNCHANGED <<tree, clock, artifacts, lock, watch, counts, cache, parsed, graph, orderly>>

FillManifest(p) ==
  /\ At(p, "fill_manifest")
  /\ manifest' = Fingerprint(proc[p].held)
  /\ Goto(p, "load_cache")
  /\ UNCHANGED <<tree, clock, artifacts, lock, watch, counts, cache, parsed, graph, orderly>>

(***************************************************************************)
(* A file cannot be written.  ensure_or_load_graph_query_cache ignores it  *)
(* and loads whatever cache there is; a query ends with the error.         *)
(***************************************************************************)
FailExport(p) ==
  /\ proc[p].pc \in Exporting
  /\ \/ proc[p].kind = "explain" /\ Goto(p, "load_cache")
     \/ proc[p].kind = "graph" /\ proc' = [proc EXCEPT ![p] = Idle]
  /\ graph' = [graph EXCEPT ![p] = NoGraph]
  /\ orderly' = FALSE
  /\ UNCHANGED <<tree, clock, artifacts, lock, watch, counts, files>>

(***************************************************************************)
(* The cache is loaded without another look at the manifest; a query that  *)
(* cannot exports once more (load_or_refresh_graph_cache), explain does    *)
(* without.                                                                *)
(***************************************************************************)
LoadCache(p) ==
  /\ At(p, "load_cache")
  /\ cache \notin {Missing, Torn}
  /\ Answer(p, cache)
  /\ graph' = [graph EXCEPT ![p] = NoGraph]
  /\ UNCHANGED <<tree, clock, artifacts, lock, watch, counts, files, orderly>>

ExportAgain(p) ==
  /\ At(p, "load_cache")
  /\ cache \in {Missing, Torn}
  /\ proc[p].kind = "graph" /\ ~graph[p].again
  /\ graph' = [graph EXCEPT ![p].again = TRUE]
  /\ Goto(p, "parse")
  /\ UNCHANGED <<tree, clock, artifacts, lock, watch, counts, files, orderly>>

NoCache(p) ==
  /\ At(p, "load_cache")
  /\ cache \in {Missing, Torn}
  /\ proc[p].kind = "explain" \/ graph[p].again
  /\ Answer(p, Contents(proc[p].held))
  /\ graph' = [graph EXCEPT ![p] = NoGraph]
  /\ UNCHANGED <<tree, clock, artifacts, lock, watch, counts, files, orderly>>

-----------------------------------------------------------------------------
DieExporting(p) ==
  /\ Die(p)
  /\ graph' = [graph EXCEPT ![p] = NoGraph]
  /\ orderly' = (orderly /\ proc[p].pc \notin Exporting)
  /\ UNCHANGED files

Export(p) == \/ Ensure(p) \/ Parse(p) \/ OpenCache(p) \/ FillCache(p) \/ SaveParsed(p)
             \/ OpenManifest(p) \/ FillManifest(p) \/ FailExport(p)
             \/ LoadCache(p) \/ ExportAgain(p) \/ NoCache(p)

Next ==
  \/ ((\E p \in Agents : Index(p)) \/ Others) /\ UNCHANGED graphVars
  \/ \E p \in Agents : Export(p) \/ DieExporting(p)

Spec == Init /\ [][Next]_vars

-----------------------------------------------------------------------------
(* However files are edited, other commands run and die meanwhile, the     *)
(* commands that use the code graph answer with what the tree has been     *)
(* since they were started, as long as no two exports meet and none is cut *)
(* short (ensure_graph_artifacts, ensure_or_load_graph_query_cache).       *)
GraphIsOfItsTime ==
  \A p \in Agents :
    At(p, "answered") /\ proc[p].kind \in {"graph", "explain"} /\ orderly => OfItsTime(p)

(* "build/refresh it on-the-fly when missing/stale" (src/graph_query.rs):  *)
(* explain is not given the graph of a tree that is no more.               *)
StaleCacheIsRefreshed ==
  \A p \in Agents : At(p, "answered") /\ proc[p].kind = "explain" => OfItsTime(p)
=============================================================================
