------------------------------- MODULE Settings -------------------------------
(***************************************************************************)
(* The configuration: internal/service/config.go, UpdateConfig of          *)
(* service.go, the appliers that app/bootstrap.go connects to the engine,  *)
(* and the operating system's proxy setting, which desktop/app.go points   *)
(* at the running listener.                                                *)
(*                                                                         *)
(* A setting is 0 or 1; 2 in a patch is a value that the merge ignores,    *)
(* but for the upstream proxy, whose address is stored as it was typed:    *)
(* there 2 is one that the engine cannot parse.                            *)
(***************************************************************************)
EXTENDS Naturals, Sequences, FiniteSets, Selection

CONSTANTS
  Updates,      \* the calls of UpdateConfig
  Patchable,    \* the settings their patches name
  MaxStarts     \* bound on the runs of the program

(* The runtime takes over some settings at each update, some when the      *)
(* patch names them, the system proxy when it changes, the port at start.  *)
Always      == {"upstream", "scope"}
WhenNamed   == {"recording", "proxyAuth", "throttle", "passthrough"}
Applied     == Always \cup WhenNamed
Settings    == Applied \cup {"systemProxy", "autoProxy", "port"}
Appliers    == <<"recording", "upstream", "proxyAuth", "scope", "systemProxy", "throttle", "passthrough">>
Defaults    == [k \in Settings |-> IF k \in {"throttle", "proxyAuth", "upstream", "port"} THEN 0 ELSE 1]
Torn        == [k \in Settings |-> 3]
Unparsable  == 2
ValuesOf(k) == IF k = "upstream" THEN 0..Unparsable ELSE 0..1

ASSUME SettingsAssumption == Patchable \subseteq Settings /\ MaxStarts \in Nat

VARIABLES
  phase,       \* of the program: "down", "starting", "up"
  starts,      \* how often it was started
  cfg,         \* configStore.cfg
  file,        \* config.json; Torn when it cannot be decoded
  engine,      \* what the runtime works with, and the port it listens on
  osProxy,     \* the port the system proxy points to, 2 for none
  proxyOn,     \* Bridge.sysProxyOn
  update,      \* [Updates -> its step, patch, the merged configuration, what is left to apply]
  unsaved,     \* the last save failed
  unset        \* the last attempt on the system proxy failed

settingVars == <<phase, starts, cfg, file, engine, osProxy, proxyOn, update, unsaved, unset>>

Idle == [pc |-> "idle", patch |-> <<>>, merged |-> Torn, todo |-> <<>>]

SettingsInit ==
  /\ phase = "down" /\ starts = 0
  /\ cfg = Defaults /\ file = Torn
  /\ engine = [k \in Applied \cup {"port"} |-> 0]
  /\ osProxy = 2 /\ proxyOn = FALSE
  /\ update = [u \in Updates |-> Idle]
  /\ unsaved = FALSE /\ unset = FALSE

Named(patch)   == {k \in DOMAIN patch : patch[k] \in ValuesOf(k)}
Merged(patch)  == [k \in Settings |-> IF k \in Named(patch) THEN patch[k] ELSE cfg[k]]
Load(f)        == IF f = Torn THEN Defaults ELSE f

(* What UpdateConfig applies, in its order.                                *)
ToApply(patch, old) == Only(Appliers,
  Always \cup {k \in Named(patch) : k \in WhenNamed \/ (k = "systemProxy" /\ patch[k] # old)})

-----------------------------------------------------------------------------
Locked(u) == update[u].pc \in {"saving", "applying"}
Free      == \A u \in Updates : ~Locked(u)
Saving    == phase = "starting" \/ \E u \in Updates : update[u].pc = "saving"

(* applyMu: one update at a time.                                          *)
MayLock == Free

(* applyMu.Lock, then cs.update: merge and begin to save; the file is      *)
(* truncated first, unless it cannot be opened.                            *)
Merge(u) ==
  /\ phase = "up" /\ update[u].pc = "idle" /\ MayLock
  /\ \E S \in SUBSET Patchable : \E patch \in [S -> 0..2] :
       LET todo == ToApply(patch, cfg["systemProxy"])
           merged == Merged(patch)
       IN /\ Cardinality(S) \in 1..2
          /\ cfg' = merged
          /\ \/ /\ file' = Torn
                /\ update' = [update EXCEPT ![u] = [pc |-> "saving", patch |-> patch, merged |-> merged, todo |-> todo]]
                /\ UNCHANGED unsaved
             \/ /\ unsaved' = TRUE
                /\ update' = [update EXCEPT ![u] = [pc |-> "applying", patch |-> patch, merged |-> merged, todo |-> todo]]
                /\ UNCHANGED file
  /\ UNCHANGED <<phase, starts, engine, osProxy, proxyOn, unset>>

(* Mutant of Contents: the values that were only named are not written.    *)
ContentsDefaults(c) == [c EXCEPT !["port"] = Defaults["port"]]

(* saveConfigFile writes the whole configuration.                          *)
Contents(c) == c

Write(u) ==
  /\ update[u].pc = "saving"
  /\ \/ file' = Contents(cfg) /\ unsaved' = FALSE
     \/ unsaved' = TRUE /\ UNCHANGED file
  /\ update' = [update EXCEPT ![u].pc = "applying"]
  /\ UNCHANGED <<phase, starts, cfg, engine, osProxy, proxyOn, unset>>

(* Bridge.applySystemProxy: the flag is set before the attempt to set the  *)
(* proxy and reset only after it was cleared.                              *)
ApplySystemProxy(on, works) ==
  /\ proxyOn' = IF on THEN TRUE ELSE (proxyOn /\ ~works)
  /\ osProxy' = IF ~works THEN osProxy ELSE IF on THEN engine["port"] ELSE 2
  /\ unset' = ~works

Apply(u) ==
  /\ update[u].pc = "applying" /\ update[u].todo # <<>>
  /\ LET k == Head(update[u].todo)  v == update[u].merged[k] IN
     IF k = "systemProxy"
     THEN \E works \in BOOLEAN : ApplySystemProxy(v = 1, works) /\ UNCHANGED engine
     ELSE /\ engine' = IF v = Unparsable THEN engine ELSE [engine EXCEPT ![k] = v]
          /\ UNCHANGED <<osProxy, proxyOn, unset>>
  /\ update' = [update EXCEPT ![u].todo = Tail(@)]
  /\ UNCHANGED <<phase, starts, cfg, file, unsaved>>

Unlock(u) ==
  /\ update[u].pc = "applying" /\ update[u].todo = <<>>
  /\ update' = [update EXCEPT ![u] = [Idle EXCEPT !.pc = "done"]]
  /\ UNCHANGED <<phase, starts, cfg, file, engine, osProxy, proxyOn, unsaved, unset>>

(* StartRecording and StopRecording switch the runtime only.               *)
Record ==
  /\ phase = "up"
  /\ \E on \in 0..1 : engine' = [engine EXCEPT !["recording"] = on]
  /\ UNCHANGED <<phase, starts, cfg, file, osProxy, proxyOn, update, unsaved, unset>>

-----------------------------------------------------------------------------
(* Build hands the loaded settings to the engine before it listens; one    *)
(* that it cannot parse is logged, and the engine connects directly.       *)
Restored(loaded) == [k \in DOMAIN engine |-> IF loaded[k] = Unparsable THEN 0 ELSE loaded[k]]

(* Build and ServiceStartup: what was saved is loaded and applied, the     *)
(* system proxy is set, or cleared if it still points here, and the        *)
(* outcome is saved in turn.  What cannot be decoded, as after a crash in  *)
(* the middle of a save, is read as the defaults.                          *)
Start ==
  /\ phase = "down" /\ starts < MaxStarts
  /\ LET loaded  == Load(file)
         auto    == loaded["autoProxy"]
         Command == auto = 1 \/ osProxy = loaded["port"]
     IN
     /\ cfg' = [loaded EXCEPT !["systemProxy"] = auto]
     /\ engine' = Restored(loaded)
     /\ \E works \in BOOLEAN :
          /\ proxyOn' = (auto = 1)
          /\ osProxy' = IF ~works THEN osProxy
                        ELSE IF auto = 1 THEN loaded["port"]
                        ELSE IF osProxy = loaded["port"] THEN 2 ELSE osProxy
          /\ unset' = (Command /\ ~works)
  /\ starts' = starts + 1
  /\ \/ phase' = "starting" /\ file' = Torn /\ unsaved' = FALSE
     \/ phase' = "up" /\ unsaved' = TRUE /\ UNCHANGED file
  /\ UNCHANGED update

ProxyStarted ==
  /\ phase = "starting"
  /\ phase' = "up"
  /\ \/ file' = Contents(cfg) /\ UNCHANGED unsaved
     \/ unsaved' = TRUE /\ UNCHANGED file
  /\ UNCHANGED <<starts, cfg, engine, osProxy, proxyOn, update, unset>>

(* ServiceShutdown, after the window and with it the calls are gone:       *)
(* releaseSystemProxy looks at the flag and at the setting itself.         *)
Shutdown ==
  /\ phase = "up" /\ Free
  /\ phase' = "down"
  /\ \/ /\ osProxy' = IF proxyOn \/ osProxy = engine["port"] THEN 2 ELSE osProxy
        /\ UNCHANGED unset
     \/ unset' = TRUE /\ UNCHANGED osProxy
  /\ proxyOn' = FALSE
  /\ UNCHANGED <<starts, cfg, file, engine, update, unsaved>>

(* The process dies: only the file and the operating system's setting stay.*)
Die ==
  /\ phase # "down"
  /\ phase' = "down"
  /\ update' = [u \in Updates |-> IF Locked(u) THEN [Idle EXCEPT !.pc = "done"] ELSE update[u]]
  /\ proxyOn' = FALSE
  /\ UNCHANGED <<starts, cfg, file, engine, osProxy, unsaved, unset>>

SettingsNext ==
  \/ \E u \in Updates : Merge(u) \/ Write(u) \/ Apply(u) \/ Unlock(u)
  \/ Record \/ Start \/ ProxyStarted \/ Shutdown \/ Die

SettingsSpec == SettingsInit /\ [][SettingsNext]_settingVars

-----------------------------------------------------------------------------
(* When no update is under way the runtime works with the stored settings, *)
(* but for an upstream address that it cannot parse, and the system proxy  *)
(* points at the running listener exactly when the configuration says so,  *)
(* unless the system refused, also after a crash and with another port;    *)
(* and the file holds the configuration unless it is being saved or that   *)
(* failed (service.go:461, config.go:336, bootstrap.go:72, app.go:85).     *)
SettingsAgree ==
  /\ phase = "up" /\ Free =>
       /\ \A k \in Applied \ {"recording"} : cfg[k] = Unparsable \/ engine[k] = cfg[k]
       /\ unset \/ (osProxy = engine["port"]) = (cfg["systemProxy"] = 1)
  /\ phase # "down" => Saving \/ unsaved \/ file = cfg
=============================================================================
