---------------------------- MODULE MCManagement -----------------------------
(***************************************************************************)
(* The management side of the program: the components share no state, so   *)
(* that a behaviour is about one of them, its subject, and the others stay *)
(* as they were initially.                                                 *)
(***************************************************************************)
EXTENDS Settings, Windows, ServerCerts, RuleBook, Plugins, Recording

CONSTANTS wide, named, renewed, expired, here, there   \* certificates and hosts

VARIABLE subject

vars == <<subject, settingVars, windowVars, certVars, bookVars, pluginVars, recordingVars>>

(* One certificate for both hosts, two for the same one, one out of date.  *)
MCExact(c) == IF c = wide THEN {} ELSE {here}
MCWild(c)  == IF c = wide THEN {here, there} ELSE IF c = expired THEN {there} ELSE {}
MCValid(c) == c # expired

(* The patterns of the rules match the URLs of the same name.              *)
MCMatches == {<<u, u>> : u \in Urls}

Init ==
  /\ subject \in {"settings", "windows", "certs", "rules", "plugins", "recording"}
  /\ SettingsInit /\ WindowsInit /\ CertsInit /\ BookInit
  /\ PluginsInit /\ (subject # "plugins" => Loaded = {})
  /\ RecordingInit /\ (subject # "recording" => ~recording /\ cap = 1)

Next ==
  /\ UNCHANGED subject
  /\ \/ subject = "settings" /\ SettingsNext
        /\ UNCHANGED <<windowVars, certVars, bookVars, pluginVars, recordingVars>>
     \/ subject = "windows" /\ WindowsNext
        /\ UNCHANGED <<settingVars, certVars, bookVars, pluginVars, recordingVars>>
     \/ subject = "certs" /\ CertsNext
        /\ UNCHANGED <<settingVars, windowVars, bookVars, pluginVars, recordingVars>>
     \/ subject = "rules" /\ BookNext
        /\ UNCHANGED <<settingVars, windowVars, certVars, pluginVars, recordingVars>>
     \/ subject = "plugins" /\ PluginsNext
        /\ UNCHANGED <<settingVars, windowVars, certVars, bookVars, recordingVars>>
     \/ subject = "recording" /\ RecordingNext
        /\ UNCHANGED <<settingVars, windowVars, certVars, bookVars, pluginVars>>

Spec == Init /\ [][Next]_vars
=============================================================================
