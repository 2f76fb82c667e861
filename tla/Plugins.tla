------------------------------- MODULE Plugins -------------------------------
(***************************************************************************)
(* The plugin manager (internal/plugin/manager.go) and the store each      *)
(* JavaScript plugin keeps (internal/plugin/js/plugin.go).                 *)
(*                                                                         *)
(* A plugin is a directory (script, manifest, state.json) and an instance  *)
(* that runs its script.  A request of the UI builds a new instance, swaps *)
(* it for the old one and rebuilds the pipeline, while flows keep calling  *)
(* whichever instances the pipeline listed when they started, and while a  *)
(* flusher per instance writes the store to disk from time to time.        *)
(* Requests are serialised by opMu; Close takes only mu.                   *)
(*                                                                         *)
(* A script's store is the set of the writes made to it: a flow's script   *)
(* writes its own name, a script being loaded the number of the request    *)
(* that loads it, which is how many are still to come.                     *)
(***************************************************************************)
EXTENDS Naturals, FiniteSets

CONSTANTS
    PluginIds,     \* the plugins' names
    Requests,      \* requests of the UI that may be under way at a time
    Flows,         \* flows whose hooks call the plugins
    MaxRequests,   \* how many requests are made in all
    MaxInstances,  \* how many instances are built in all
    MaxStops,      \* how many times the program stops and starts again
    Odd            \* writes of a value that JSON has no form for (a function, NaN)

ASSUME PluginsAssumption ==
    /\ MaxRequests \in Nat /\ MaxStops \in Nat
    /\ MaxInstances \in Nat
    /\ IsFiniteSet(PluginIds) /\ Cardinality(PluginIds) <= MaxInstances
    /\ Flows \cap (0 .. MaxRequests) = {}

VARIABLES
    inst,      \* the instances
    made,      \* how many there are
    plugins,   \* m.plugins: the instance of each plugin, 0 for none
    failed,    \* m.failed: the directories that did not load
    hooks,     \* the instances the pipeline lists
    disk,      \* the plugins' directories
    request,   \* the requests under way
    flowAt,    \* the flows
    life,      \* whether the program runs, closes its plugins or has closed them
    left,      \* the requests and stops still to come
    promised,  \* what each store held when the last request looked it up
    foreign,   \* what was written before the plugin was created
    doubtful,  \* the plugins of which a file could not be written
    unflushed  \* the plugins whose store could not be saved when one was closed

pluginVars == <<inst, made, plugins, failed, hooks, disk, request, flowAt, life,
                left, promised, foreign, doubtful, unflushed>>

Instances == 1 .. MaxInstances
Writes == Flows \cup (0 .. MaxRequests)

Unbuilt == [of |-> "none", enabled |-> FALSE, store |-> {}, dirty |-> FALSE,
            quit |-> FALSE, flusher |-> "ended", held |-> {}, shut |-> TRUE]

NoDir == [there |-> FALSE, source |-> "none", manifest |-> "none", state |-> {}]

NoRequest == [kind |-> "none", id |-> "none", at |-> "idle", new |-> 0, on |-> FALSE,
         carried |-> {}]

OnOff(on) == IF on THEN "on" ELSE "off"
Loads(d) == d.there /\ d.source = "good" /\ d.manifest \in {"on", "off"}
Loaded == {plugins[p] : p \in PluginIds} \ {0}

----------------------------------------------------------------------------
(* Requests                                                                *)

Under(q) == request[q].at \notin {"idle", "done"}

\* opMu: one request at a time.
MayOperate(q) == \A r \in Requests : ~Under(r)

\* A request that holds mu for more than a step.
HoldsMu(q) == request[q].at \in {"closing", "register"}

MuFree(q) == life # "closing" /\ \A r \in Requests \ {q} : ~HoldsMu(r)

To(q, stage) == request' = [request EXCEPT ![q].at = stage]
Ended(q) == To(q, "done")

Begin(q, kind, p) ==
    /\ request[q].at \in {"idle", "done"} /\ MayOperate(q) /\ left.requests > 0
    /\ left' = [left EXCEPT !.requests = @ - 1]
    /\ request' = [request EXCEPT ![q] =
           [NoRequest EXCEPT !.kind = kind, !.id = p, !.at = "begun"]]
    /\ UNCHANGED <<inst, made, plugins, failed, hooks, disk, flowAt, life, promised, foreign, doubtful, unflushed>>

\* os.ErrNotExist, or "exists already" for a new plugin.
NotFound(q) ==
    LET r == request[q] IN
    /\ r.at = "begun" /\ MuFree(q)
    /\ \/ r.kind \in {"save", "update", "enable"} /\ plugins[r.id] = 0
       \/ r.kind = "delete" /\ plugins[r.id] = 0 /\ r.id \notin failed
       \/ r.kind = "create" /\ (plugins[r.id] # 0 \/ disk[r.id].there)
    /\ Ended(q)
    /\ UNCHANGED <<inst, made, plugins, failed, hooks, disk, flowAt, life, left,
                   promised, foreign, doubtful, unflushed>>

\* json.Marshal takes the whole store or none of it.
Marshals(store) == store \cap Odd = {}

\* SavePluginSource and UpdateManifest: look the plugin up and copy its store,
\* which gives an empty one when the store cannot be marshalled.
CopyOf(store) == IF Marshals(store) THEN store ELSE {}

Snapshot(q) ==
    LET r == request[q]
        store == CopyOf(inst[plugins[r.id]].store) IN
    /\ r.at = "begun" /\ r.kind \in {"save", "update"} /\ plugins[r.id] # 0 /\ MuFree(q)
    /\ request' = [request EXCEPT ![q].at = "build", ![q].carried = store,
                                  ![q].on = inst[plugins[r.id]].enabled]
    /\ promised' = [promised EXCEPT ![r.id] = store]
    /\ UNCHANGED <<inst, made, plugins, failed, hooks, disk, flowAt, life, left, foreign, doubtful, unflushed>>

\* NewPlugin's initial store: the one carried over from the old instance, or
\* what state.json holds.
InitialStore(r) == IF r.kind = "create" THEN disk[r.id].state ELSE r.carried

\* A new instance, whose script may write to the store while it is loaded.
Fresh(p, on, store, top) ==
    [of |-> p, enabled |-> on, store |-> store \cup top, dirty |-> top # {},
     quit |-> FALSE, flusher |-> "waits", held |-> {}, shut |-> FALSE]

Built(q) ==
    LET r == request[q] IN
    /\ r.at = "build" /\ made < MaxInstances
    /\ made' = made + 1
    /\ \E top \in {{}, {left.requests}} :
          inst' = [inst EXCEPT ![made + 1] =
              Fresh(r.id, r.on, InitialStore(r), top)]
    /\ request' = [request EXCEPT ![q].new = made + 1,
                                  ![q].at = IF r.kind = "create" THEN "enter" ELSE "write"]
    /\ UNCHANGED <<plugins, failed, hooks, disk, flowAt, life, left, promised, foreign, doubtful, unflushed>>

\* The script does not compile, throws while it is loaded, or (an update) the
\* script cannot be read back from disk.
BuildFails(q) ==
    /\ request[q].at = "build"
    /\ IF request[q].kind = "create"
       THEN disk' = [disk EXCEPT ![request[q].id] = NoDir]
       ELSE UNCHANGED disk
    /\ Ended(q)
    /\ UNCHANGED <<inst, made, plugins, failed, hooks, flowAt, life, left, promised, foreign, doubtful, unflushed>>

\* The file a request writes: truncated first, then filled.
Part(r) == IF r.kind = "save" THEN "source" ELSE "manifest"
OnDisk(r) == IF Part(r) = "source" THEN "good" ELSE OnOff(r.on)
PutPart(p, part, value) == disk' = [disk EXCEPT ![p][part] = value]

Truncate(q) ==
    LET r == request[q] IN
    /\ r.at = "write" /\ To(q, "fill")
    /\ PutPart(r.id, Part(r), "torn")
    /\ UNCHANGED <<inst, made, plugins, failed, hooks, flowAt, life, left, promised, foreign, doubtful, unflushed>>

Fill(q) ==
    LET r == request[q] IN
    /\ r.at = "fill" /\ To(q, "swap")
    /\ PutPart(r.id, Part(r), OnDisk(r))
    /\ UNCHANGED <<inst, made, plugins, failed, hooks, flowAt, life, left, promised, foreign, doubtful, unflushed>>

\* The write fails, before or after the file was truncated: the new instance
\* is closed again, which waits for its flusher and saves its store.
WriteFails(q) ==
    LET r == request[q] IN
    /\ r.at \in {"write", "fill"} /\ To(q, "abandon")
    /\ inst' = [inst EXCEPT ![r.new].quit = TRUE]
    /\ doubtful' = doubtful \cup {r.id}
    /\ UNCHANGED <<made, plugins, failed, hooks, disk, flowAt, life, left, promised, foreign, unflushed>>

Abandoned(q) ==
    LET r == request[q] IN
    /\ r.at = "abandon" /\ inst[r.new].shut
    /\ Ended(q)
    /\ UNCHANGED <<inst, made, plugins, failed, hooks, disk, flowAt, life, left,
                   promised, foreign, doubtful, unflushed>>

\* swap: under mu, close the old instance, then enter the new one.
SwapCloses(q) ==
    LET p == request[q].id IN
    /\ request[q].at = "swap" /\ MuFree(q)
    /\ To(q, "closing")
    /\ inst' = IF plugins[p] = 0 THEN inst ELSE [inst EXCEPT ![plugins[p]].quit = TRUE]
    /\ UNCHANGED <<made, plugins, failed, hooks, disk, flowAt, life, left, promised, foreign, doubtful, unflushed>>

SwapEnters(q) ==
    LET r == request[q] IN
    /\ r.at = "closing" /\ r.kind # "delete"
    /\ plugins[r.id] # 0 => inst[plugins[r.id]].shut
    /\ plugins' = [plugins EXCEPT ![r.id] = r.new]
    /\ To(q, "rebuild")
    /\ UNCHANGED <<inst, made, failed, hooks, disk, flowAt, life, left, promised, foreign, doubtful, unflushed>>

\* rebuildPipeline: Clear, then Register each under mu.
ClearHooks(q) ==
    /\ request[q].at = "rebuild" /\ MuFree(q)
    /\ hooks' = {} /\ To(q, "register")
    /\ UNCHANGED <<inst, made, plugins, failed, disk, flowAt, life, left, promised, foreign, doubtful, unflushed>>

RegisterHook(q) ==
    /\ request[q].at = "register"
    /\ IF Loaded \subseteq hooks
       THEN Ended(q) /\ UNCHANGED hooks
       ELSE \E i \in Loaded \ hooks : hooks' = hooks \cup {i} /\ UNCHANGED request
    /\ UNCHANGED <<inst, made, plugins, failed, disk, flowAt, life, left, promised, foreign, doubtful, unflushed>>

----------------------------------------------------------------------------
(* CreatePlugin, DeletePlugin and EnablePlugin                             *)

\* The directory and its manifest.
MakeDir(q) ==
    LET r == request[q] IN
    /\ r.at = "begun" /\ r.kind = "create" /\ plugins[r.id] = 0 /\ ~disk[r.id].there
    /\ MuFree(q)
    /\ \E on \in BOOLEAN :
          /\ disk' = [disk EXCEPT ![r.id] =
                 [NoDir EXCEPT !.there = TRUE, !.manifest = OnOff(on)]]
          /\ request' = [request EXCEPT ![q].at = "source", ![q].on = on]
    /\ promised' = [promised EXCEPT ![r.id] = {}]
    /\ foreign' = [foreign EXCEPT ![r.id] =
           @ \cup UNION {inst[i].store : i \in Instances}]
    /\ doubtful' = doubtful \ {r.id}
    /\ UNCHANGED <<inst, made, plugins, failed, hooks, flowAt, life, left, unflushed>>

WriteSource(q) ==
    LET r == request[q] IN
    /\ r.at = "source" /\ To(q, "build")
    /\ PutPart(r.id, "source", "good")
    /\ UNCHANGED <<inst, made, plugins, failed, hooks, flowAt, life, left, promised, foreign, doubtful, unflushed>>

\* Writing the manifest or the script fails: RemoveAll.
CreateFails(q) ==
    /\ request[q].at = "source"
    /\ disk' = [disk EXCEPT ![request[q].id] = NoDir]
    /\ Ended(q)
    /\ UNCHANGED <<inst, made, plugins, failed, hooks, flowAt, life, left, promised, foreign, doubtful, unflushed>>

Enter(q) ==
    LET r == request[q] IN
    /\ r.at = "enter" /\ MuFree(q)
    /\ plugins' = [plugins EXCEPT ![r.id] = r.new]
    /\ failed' = failed \ {r.id}
    /\ To(q, "rebuild")
    /\ UNCHANGED <<inst, made, hooks, disk, flowAt, life, left, promised, foreign, doubtful, unflushed>>

\* DeletePlugin: out of the table first, then closed, then its directory.
Take(q) ==
    LET r == request[q] IN
    /\ r.at = "begun" /\ r.kind = "delete" /\ plugins[r.id] # 0 /\ MuFree(q)
    /\ request' = [request EXCEPT ![q].at = "remove", ![q].new = plugins[r.id]]
    /\ plugins' = [plugins EXCEPT ![r.id] = 0]
    /\ inst' = [inst EXCEPT ![plugins[r.id]].quit = TRUE]
    /\ promised' = [promised EXCEPT ![r.id] = {}]
    /\ UNCHANGED <<made, failed, hooks, disk, flowAt, life, left, foreign, doubtful, unflushed>>

RemoveDir(q) ==
    LET r == request[q] IN
    /\ r.at = "remove" /\ inst[r.new].shut
    /\ disk' = [disk EXCEPT ![r.id] = NoDir]
    /\ To(q, "rebuild")
    /\ UNCHANGED <<inst, made, plugins, failed, hooks, flowAt, life, left, promised, foreign, doubtful, unflushed>>

\* Part of the directory cannot be removed: the pipeline is not rebuilt.
RemoveFails(q) ==
    LET r == request[q] IN
    /\ r.at = "remove" /\ inst[r.new].shut
    /\ \E gone \in {disk[r.id].source, "none"} : PutPart(r.id, "source", gone)
    /\ Ended(q)
    /\ UNCHANGED <<inst, made, plugins, failed, hooks, flowAt, life, left, promised, foreign, doubtful, unflushed>>

\* A directory that did not load.
RemoveFailed(q) ==
    LET r == request[q] IN
    /\ r.at = "begun" /\ r.kind = "delete" /\ plugins[r.id] = 0 /\ r.id \in failed /\ MuFree(q)
    /\ failed' = failed \ {r.id}
    /\ disk' = [disk EXCEPT ![r.id] = NoDir]
    /\ Ended(q)
    /\ UNCHANGED <<inst, made, plugins, hooks, flowAt, life, left, promised, foreign, doubtful, unflushed>>

\* EnablePlugin, under both locks; the manifest may fail to be written.
Enable(q) ==
    LET r == request[q] IN
    /\ r.at = "begun" /\ r.kind = "enable" /\ plugins[r.id] # 0 /\ MuFree(q)
    /\ \E on \in BOOLEAN, erred \in BOOLEAN :
          /\ inst' = [inst EXCEPT ![plugins[r.id]].enabled = on]
          /\ IF erred
             THEN \E kept \in {disk[r.id].manifest, "torn"} : PutPart(r.id, "manifest", kept)
             ELSE PutPart(r.id, "manifest", OnOff(on))
          /\ doubtful' = IF erred THEN doubtful \cup {r.id} ELSE doubtful
    /\ Ended(q)
    /\ UNCHANGED <<made, plugins, failed, hooks, flowAt, life, left, promised, foreign, unflushed>>

----------------------------------------------------------------------------
(* Flows, and the flusher of each instance                                 *)

\* A flow takes the list of hooks once and calls them from it.
ListHooks(f) ==
    /\ flowAt[f].at = "idle" /\ hooks # {}
    /\ flowAt' = [flowAt EXCEPT ![f] = [at |-> "listed", calls |-> hooks, in |-> 0]]
    /\ UNCHANGED <<inst, made, plugins, failed, hooks, disk, request, life, left, promised,
                   foreign, doubtful, unflushed>>

\* The script writes to its store; it may go on running after Close.
StoreSet(f, i) ==
    /\ flowAt[f].at = "listed" /\ i \in flowAt[f].calls /\ inst[i].enabled
    /\ inst' = [inst EXCEPT ![i].store = @ \cup {f}]
    /\ flowAt' = [flowAt EXCEPT ![f].at = "set", ![f].in = i]
    /\ UNCHANGED <<made, plugins, failed, hooks, disk, request, life, left, promised, foreign, doubtful, unflushed>>

\* Only after the store is unlocked does the write mark it dirty.
MarkDirty(f) ==
    LET i == flowAt[f].in IN
    /\ flowAt[f].at = "set"
    /\ inst' = [inst EXCEPT ![i].dirty = TRUE]
    /\ flowAt' = [flowAt EXCEPT ![f].at = "listed", ![f].calls = @ \ {i}, ![f].in = 0]
    /\ UNCHANGED <<made, plugins, failed, hooks, disk, request, life, left, promised, foreign, doubtful, unflushed>>

\* The ticker finds the store dirty: Swap(false), then marshal under storeMu,
\* which may leave nothing to write and the store no longer dirty.
FlushMarshals(i) ==
    /\ inst[i].flusher = "waits" /\ inst[i].dirty
    /\ inst' = IF Marshals(inst[i].store)
               THEN [inst EXCEPT ![i].flusher = "writes", ![i].held = inst[i].store,
                                 ![i].dirty = FALSE]
               ELSE [inst EXCEPT ![i].dirty = FALSE]
    /\ UNCHANGED <<made, plugins, failed, hooks, disk, request, flowAt, life, left, promised,
                   foreign, doubtful, unflushed>>

\* The temporary file and the rename.  In a directory that is gone they fail,
\* and elsewhere they may; nobody is told.
Saved(p, data) ==
    disk' = IF disk[p].there THEN [disk EXCEPT ![p].state = data] ELSE disk

FlushWrites(i) ==
    /\ inst[i].flusher = "writes"
    /\ Saved(inst[i].of, inst[i].held) \/ UNCHANGED disk
    /\ inst' = [inst EXCEPT ![i].flusher = "waits", ![i].held = {}]
    /\ UNCHANGED <<made, plugins, failed, hooks, request, flowAt, life, left, promised, foreign, doubtful, unflushed>>

FlusherQuits(i) ==
    /\ inst[i].flusher = "waits" /\ inst[i].quit
    /\ inst' = [inst EXCEPT ![i].flusher = "ended"]
    /\ UNCHANGED <<made, plugins, failed, hooks, disk, request, flowAt, life, left, promised,
                   foreign, doubtful, unflushed>>

\* Mutant of FlusherDone: Close does not wait.
FlusherDoneEarly(i) == TRUE

\* Close waits for the flusher, then saves the store a last time, if it can.
FlusherDone(i) == inst[i].flusher = "ended"

FinalFlush(i) ==
    /\ inst[i].quit /\ FlusherDone(i) /\ ~inst[i].shut
    /\ \/ /\ Marshals(inst[i].store) /\ Saved(inst[i].of, inst[i].store)
          /\ unflushed' = unflushed \ {inst[i].of}
       \/ unflushed' = unflushed \cup {inst[i].of} /\ UNCHANGED disk
    /\ inst' = [inst EXCEPT ![i].shut = TRUE]
    /\ UNCHANGED <<made, plugins, failed, hooks, request, flowAt, life, left, promised, foreign, doubtful>>

----------------------------------------------------------------------------
(* The program stops and starts                                            *)

\* Close takes mu, not opMu: it may come in the middle of a request.
CloseBegins ==
    /\ life = "runs" /\ left.stops > 0 /\ \A r \in Requests : ~HoldsMu(r)
    /\ life' = "closing"
    /\ UNCHANGED <<inst, made, plugins, failed, hooks, disk, request, flowAt, left, promised,
                   foreign, doubtful, unflushed>>

CloseOne(i) ==
    /\ life = "closing" /\ i \in Loaded /\ ~inst[i].quit
    /\ \A j \in Loaded : inst[j].quit => inst[j].shut
    /\ inst' = [inst EXCEPT ![i].quit = TRUE]
    /\ UNCHANGED <<made, plugins, failed, hooks, disk, request, flowAt, life, left, promised,
                   foreign, doubtful, unflushed>>

CloseEnds ==
    /\ life = "closing" /\ \A i \in Loaded : inst[i].shut
    /\ life' = "closed"
    /\ plugins' = [p \in PluginIds |-> 0]
    /\ UNCHANGED <<inst, made, failed, hooks, disk, request, flowAt, left, promised, foreign, doubtful, unflushed>>

\* LoadAll: the directories that are there, before any flow runs.  The first
\* instances are numbered in any order.
Numberings(dirs) ==
    LET up == {p \in PluginIds : Loads(dirs[p])} IN
    {f \in [PluginIds -> 0 .. Cardinality(up)] :
        /\ \A p \in PluginIds : f[p] # 0 <=> p \in up
        /\ \A p, r \in up : f[p] = f[r] => p = r}

LoadedFrom(dirs, number) ==
    [i \in Instances |->
        IF \E p \in PluginIds : number[p] = i
        THEN LET p == CHOOSE x \in PluginIds : number[x] = i
             IN Fresh(p, dirs[p].manifest = "on", dirs[p].state, {})
        ELSE Unbuilt]

Restart ==
    /\ left.stops > 0
    /\ left' = [left EXCEPT !.stops = @ - 1]
    /\ plugins' \in Numberings(disk)
    /\ inst' = LoadedFrom(disk, plugins')
    /\ hooks' = {plugins'[p] : p \in PluginIds} \ {0}
    /\ made' = Cardinality(hooks')
    /\ failed' = {p \in PluginIds : disk[p].there /\ ~Loads(disk[p])}
    /\ request' = [q \in Requests |-> NoRequest]
    /\ flowAt' = [f \in Flows |->
           IF flowAt[f].at = "idle" THEN flowAt[f]
           ELSE [at |-> "over", calls |-> {}, in |-> 0]]
    /\ life' = "runs"
    /\ promised' = [p \in PluginIds |-> IF plugins'[p] # 0 THEN disk[p].state ELSE {}]
    /\ doubtful' = {} /\ unflushed' = {}
    /\ UNCHANGED <<disk, foreign>>

----------------------------------------------------------------------------
\* A start with some plugins installed and enabled.
Installed == [there |-> TRUE, source |-> "good", manifest |-> "on", state |-> {}]

PluginsInit ==
    /\ disk \in [PluginIds -> {NoDir, Installed}]
    /\ plugins \in Numberings(disk)
    /\ inst = LoadedFrom(disk, plugins)
    /\ hooks = Loaded /\ made = Cardinality(hooks)
    /\ failed = {}
    /\ request = [q \in Requests |-> NoRequest]
    /\ flowAt = [f \in Flows |-> [at |-> "idle", calls |-> {}, in |-> 0]]
    /\ life = "runs"
    /\ left = [requests |-> MaxRequests, stops |-> MaxStops]
    /\ promised = [p \in PluginIds |-> {}]
    /\ foreign = [p \in PluginIds |-> {}]
    /\ doubtful = {} /\ unflushed = {}

RequestStep(q) ==
    \/ \E kind \in {"save", "update", "create", "delete", "enable"}, p \in PluginIds :
          Begin(q, kind, p)
    \/ NotFound(q) \/ Snapshot(q) \/ Built(q) \/ BuildFails(q)
    \/ Truncate(q) \/ Fill(q) \/ WriteFails(q) \/ Abandoned(q)
    \/ SwapCloses(q) \/ SwapEnters(q) \/ ClearHooks(q) \/ RegisterHook(q)
    \/ MakeDir(q) \/ WriteSource(q) \/ CreateFails(q) \/ Enter(q)
    \/ Take(q) \/ RemoveDir(q) \/ RemoveFails(q) \/ RemoveFailed(q) \/ Enable(q)

PluginsNext ==
    \/ \E q \in Requests : RequestStep(q)
    \/ \E f \in Flows : ListHooks(f) \/ MarkDirty(f) \/ \E i \in Instances : StoreSet(f, i)
    \/ \E i \in Instances :
          FlushMarshals(i) \/ FlushWrites(i) \/ FlusherQuits(i) \/ FinalFlush(i) \/ CloseOne(i)
    \/ CloseBegins \/ CloseEnds \/ Restart

PluginsTypeOK ==
    /\ made \in 0 .. MaxInstances /\ hooks \subseteq Instances /\ failed \subseteq PluginIds
    /\ \A i \in Instances :
          /\ inst[i].store \subseteq Writes /\ inst[i].held \subseteq Writes
          /\ inst[i].shut => inst[i].flusher = "ended" /\ (i <= made => inst[i].quit)
    /\ plugins \in [PluginIds -> 0 .. MaxInstances]
    /\ \A p \in PluginIds : plugins[p] # 0 => inst[plugins[p]].of = p

\* Between requests the three places that know the plugins agree: the table
\* holds exactly the instances that were not closed (none leaked by a
\* concurrent create, none revived after a delete), the pipeline calls those
\* and otherwise only the closed instance of a directory that could not be
\* removed, and a restart would load every one of them as it is, unless a file
\* of it could not be written.
PluginsAgree ==
    PluginsTypeOK /\
    ((life = "runs" /\ \A q \in Requests : ~Under(q)) =>
       /\ \A i \in 1 .. made : i \in Loaded <=> ~inst[i].quit
       /\ Loaded \subseteq hooks
       /\ \A i \in hooks \ Loaded :
             inst[i].shut /\ plugins[inst[i].of] = 0 /\ disk[inst[i].of].there
       /\ \A p \in PluginIds \ doubtful : plugins[p] # 0 =>
             Loads(disk[p]) /\ disk[p].manifest = OnOff(inst[plugins[p]].enabled))

\* What a request copied of a store stays: the instance that is loaded has it,
\* and after a clean stop so has state.json, unless the store could not be
\* saved when an instance was last closed, which no one is told (and but for an
\* instance that a request enters when everything was closed).  A store that
\* JSON has no form for is copied as an empty one.  And a plugin that is created anew never finds what a deleted plugin of its
\* name wrote, whose flusher may have been at work when it was deleted.
StoreCarried ==
    \A p \in PluginIds :
       /\ plugins[p] # 0 => promised[p] \subseteq inst[plugins[p]].store
       /\ life = "closed" /\ plugins[p] = 0 /\ p \notin unflushed => promised[p] \subseteq disk[p].state
       /\ disk[p].state \cap foreign[p] = {}

\* What a flow's script wrote is in the store of every later instance of the
\* plugin (completions.ts: the store survives a change of the plugin).
ReloadKeepsWrites ==
    \A p \in PluginIds : \A i \in 1 .. made :
       plugins[p] > i /\ inst[i].of = p =>
          (inst[i].store \cap Flows) \ foreign[p] \subseteq inst[plugins[p]].store

\* Both of the above, of every state of the plugins.
PluginsSound == PluginsAgree /\ StoreCarried

PluginsSpec == PluginsInit /\ [][PluginsNext]_pluginVars

=============================================================================
