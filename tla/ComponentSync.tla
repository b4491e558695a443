---------------------------- MODULE ComponentSync ----------------------------
(***************************************************************************)
(* The add-on copies the integration into Home Assistant's configuration   *)
(* when it starts (component_sync.py) and leaves a marker beside it; the   *)
(* integration reads the marker at its start and on every poll             *)
(* (restart_issue.py).  Home Assistant keeps running the version it loaded. *)
(***************************************************************************)
EXTENDS Naturals

CONSTANTS
  Versions,   \* bound: releases of the add-on in an instance, 1 .. Versions
  MaxDeaths   \* bound: how often the add-on dies in the middle of a sync

VARIABLES
  image,          \* version of the integration in the add-on's image
  pc,             \* where sync_custom_component is
  notice,         \* needs_restart_notice
  target, marker, \* the integration's directory, and the marker in it (0: none)
  temp,           \* the directory the copy is made in
  running,        \* version Home Assistant has loaded (0: none)
  check,          \* what async_sync_restart_issue has read so far
  issue,          \* the repair issue "restart required"
  deaths          \* how often the add-on died in the middle

addon == <<image, pc, notice, deaths>>
files == <<target, marker, temp>>
core  == <<running, check, issue>>
vars  == <<addon, files, core>>

None      == [ files |-> "none", version |-> 0 ]
Part(v)   == [ files |-> "part", version |-> v ]
Whole(v)  == [ files |-> "whole", version |-> v ]
Unchecked == [ at |-> "idle", marker |-> 0 ]

\* What the manifest may be found to say: _read_manifest_version and
\* _current_component_version.  Which files a directory has that is being removed is open.
Manifest(dir) ==
  IF dir.files = "part" THEN {0, dir.version} ELSE {dir.version}

\* _component_is_incomplete looks for five files of the integration; a directory that is
\* being removed may still have them.
Incomplete(dir) ==
  IF dir.files = "part" THEN BOOLEAN ELSE {dir.files = "none"}

Init ==
  /\ image = 1 /\ pc = "off" /\ notice = FALSE /\ deaths = 0
  /\ target = None /\ marker = 0 /\ temp = None
  /\ running = 0 /\ check = Unchecked /\ issue = FALSE

----------------------------------------------------------------------------
(* sync_custom_component                                                   *)

Begin ==
  /\ pc = "off" /\ pc' = "clean"
  /\ \E previous \in Manifest(target), incomplete \in Incomplete(target) :
       notice' = (incomplete \/ previous # image)
  /\ UNCHANGED <<image, deaths, files, core>>

\* Mutant of Clean: a directory left by a sync that died is used as it is.
MutantClean == UNCHANGED temp

\* What an earlier sync left behind is removed.
Clean == temp' = None

Cleaned ==
  /\ pc = "clean" /\ pc' = "copy" /\ Clean
  /\ UNCHANGED <<image, notice, deaths, target, marker, core>>

\* copytree, file by file
Copy ==
  /\ pc = "copy"
  /\ CASE temp.files = "none"  -> temp' = Part(image) /\ UNCHANGED pc
       [] temp.files = "part"  -> temp' = Whole(image) /\ pc' = "remove"
       [] temp.files = "whole" -> UNCHANGED temp /\ pc' = "remove"
  /\ UNCHANGED <<image, notice, deaths, target, marker, core>>

\* rmtree of the target, file by file; the marker goes with it.
Remove ==
  /\ pc = "remove"
  /\ IF target.files = "whole"
     THEN target' = Part(target.version) /\ marker' \in {0, marker} /\ UNCHANGED pc
     ELSE target' = None /\ marker' = 0 /\ pc' = "replace"
  /\ UNCHANGED <<image, notice, deaths, temp, core>>

Replace ==
  /\ pc = "replace" /\ pc' = "mark"
  /\ target' = temp /\ temp' = None
  /\ UNCHANGED <<image, notice, deaths, marker, core>>

Mark ==
  /\ pc = "mark" /\ pc' = "done"
  /\ marker' = IF notice THEN image ELSE 0
  /\ UNCHANGED <<image, notice, deaths, target, temp, core>>

\* The add-on is stopped; a sync is not undone.
Die ==
  /\ pc \notin {"off", "done"} /\ deaths < MaxDeaths /\ deaths' = deaths + 1
  /\ pc' = "off"
  /\ UNCHANGED <<image, notice, files, core>>

\* The add-on is stopped and may be updated, also after a sync that died.
Update ==
  /\ pc \in {"off", "done"} /\ pc' = "off"
  /\ image' \in {image, image + 1} \cap (1 .. Versions)
  /\ UNCHANGED <<notice, deaths, files, core>>

----------------------------------------------------------------------------
(* Home Assistant                                                          *)

\* A restart loads what is there; an integration that lacks a file it needs does not load.
\* The issue is not persistent.
Load ==
  /\ running' \in Manifest(target)
  /\ check' = Unchecked /\ issue' = FALSE
  /\ UNCHANGED <<addon, files>>

\* async_sync_restart_issue reads the marker, reads the manifest and removes the marker in
\* three jobs of the executor; the add-on's sync may go on between them.
ReadMarker ==
  /\ running # 0 /\ check.at = "idle"
  /\ check' = [ at |-> "manifest", marker |-> marker ]
  /\ UNCHANGED <<addon, files, running, issue>>

\* Both are read from the disk; the version that runs is not asked.
ReadManifest ==
  /\ check.at = "manifest"
  /\ \E version \in Manifest(target) :
       IF check.marker \notin {0, version}
       THEN check' = Unchecked /\ issue' = TRUE
       ELSE IF check.marker = 0
       THEN check' = Unchecked /\ issue' = FALSE
       ELSE check' = [ check EXCEPT !.at = "remove" ] /\ UNCHANGED issue
  /\ UNCHANGED <<addon, files, running>>

\* The marker that is removed is the one that is there now.
RemoveMarker ==
  /\ check.at = "remove" /\ check' = Unchecked
  /\ marker' = 0 /\ issue' = FALSE
  /\ UNCHANGED <<addon, target, temp, running>>

Next ==
  \/ Begin \/ Cleaned \/ Copy \/ Remove \/ Replace \/ Mark \/ Die \/ Update
  \/ Load \/ ReadMarker \/ ReadManifest \/ RemoveMarker

Spec == Init /\ [][Next]_vars

----------------------------------------------------------------------------

Dirs == {None} \cup { Part(v) : v \in 1 .. Versions } \cup { Whole(v) : v \in 1 .. Versions }

TypeOK ==
  /\ image \in 1 .. Versions /\ notice \in BOOLEAN /\ deaths \in 0 .. MaxDeaths
  /\ pc \in {"off", "clean", "copy", "remove", "replace", "mark", "done"}
  /\ target \in Dirs /\ temp \in Dirs /\ marker \in 0 .. Versions
  /\ running \in 0 .. Versions /\ issue \in BOOLEAN
  /\ check \in [ at : {"idle", "manifest", "remove"}, marker : 0 .. Versions ]

\* When a sync is through, the whole integration of the image is there, whatever syncs
\* that died left behind, and a marker names that version; between syncs a whole
\* integration is missing only when one died.
TargetWhole ==
  /\ pc = "done" => target = Whole(image) /\ marker \in {0, image}
  /\ pc = "off" /\ deaths = 0 /\ target # None => target.files = "whole"

\* While Home Assistant runs another version than the one synchronised, the marker the
\* sync left or the repair issue tells (DOCS.md:133).
NoticeKept ==
  pc = "done" /\ notice /\ running \notin {0, target.version} => marker # 0 \/ issue
=============================================================================
