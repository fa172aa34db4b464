------------------------------ MODULE DevBuild ------------------------------
(***************************************************************************)
(* The developer tasks (lib/tasks/dev): pristine, reconfigure,             *)
(* maybe_reconfigure and build, which configure the extension again only   *)
(* when the hash of the watched files differs from the one recorded.       *)
(*                                                                         *)
(* The watched files that people edit are one value, `sources'.  A task    *)
(* may be interrupted, or a command of it may fail, at every step, leaving *)
(* the file it was writing in part; the files may be edited at any time.   *)
(***************************************************************************)
CONSTANTS Contents, Absent, Partial

ASSUME ContentsAssumption == Absent \notin Contents /\ Partial \notin Contents /\ Absent # Partial

VARIABLES
    sources,    \* what the watched files hold
    conf,       \* EXT_DIR/build-config.cmake: the sources extconf.rb saw
    makefile,   \* EXT_DIR/Makefile exists
    ninja,      \* NINJA_FILE: the sources and the conf that cmake saw
    lib,        \* LIB_FILE exists
    hash,       \* HASH_FILE
    task, pc,   \* the task under way and its next step
    raced,      \* history: the sources changed during the last configuration
    disturbed   \* history: an edit, an interruption or a removal since the hash was written

disk == <<conf, makefile, ninja, lib>>
devBuildVars == <<sources, disk, hash, task, pc, raced, disturbed>>

Configurations == [sources : Contents, conf : Contents \cup {Absent, Partial}]
Hashes == [sources : Contents, conf : Contents \cup {Absent, Partial},
           ninja : Configurations \cup {Absent, Partial}]

\* A file that is missing or cut short does not read like one that was finished.
ASSUME MarkersAssumption ==
    /\ Absent \notin Configurations \cup Hashes
    /\ Partial \notin Configurations \cup Hashes

\* A fresh checkout.
DevBuildInit ==
    /\ sources \in Contents
    /\ conf = Absent /\ ninja = Absent /\ hash = Absent
    /\ makefile = FALSE /\ lib = FALSE
    /\ task = "none" /\ pc = "idle" /\ raced = FALSE /\ disturbed = TRUE

-----------------------------------------------------------------------------

\* Mutant: the build outputs are not part of the hash.
SourcesHash == [sources |-> sources, conf |-> Absent, ninja |-> Absent]

state_hash == [sources |-> sources, conf |-> conf, ninja |-> ninja]

needs_reconfigure == hash # state_hash

configured == ninja = [sources |-> sources, conf |-> sources]

Configuring == {"extconf", "cmake", "write_hash"}
Cleaning == {"unlink_hash", "ninja_clean", "unlink_outputs", "rmtree"}

Step(from, to) ==
    /\ pc = from /\ pc' = to
    /\ task' = IF to = "idle" THEN "none" ELSE task
    /\ UNCHANGED sources

Start(t) ==
    /\ pc = "idle" /\ task' = t
    /\ pc' = IF t \in {"pristine", "reconfigure"} THEN "unlink_hash" ELSE "check"
    /\ UNCHANGED <<sources, disk, hash, raced, disturbed>>

Check ==
    /\ Step("check", IF needs_reconfigure THEN "unlink_hash"
                     ELSE IF task = "build" THEN "make" ELSE "idle")
    /\ UNCHANGED <<disk, hash, raced, disturbed>>

(* pristine! *)

UnlinkHash ==
    /\ Step("unlink_hash", "ninja_clean")
    /\ hash' = Absent /\ raced' = FALSE /\ disturbed' = TRUE
    /\ UNCHANGED disk

\* What ninja does first: it runs cmake again when the files it was made from changed.
Regenerated == IF ninja = Absent THEN Absent ELSE [sources |-> sources, conf |-> conf]

\* `ninja clean' where there is a NINJA_FILE, and `make clean' of the tests.
NinjaClean ==
    /\ Step("ninja_clean", "unlink_outputs")
    /\ ninja' = Regenerated
    /\ UNCHANGED <<conf, makefile, lib, hash, raced, disturbed>>

\* LIB_FILE, and BUILD_INFO_FILE, which would be in BUILD_DIR.
UnlinkOutputs ==
    /\ Step("unlink_outputs", "rmtree")
    /\ lib' = FALSE
    /\ UNCHANGED <<conf, makefile, ninja, hash, raced, disturbed>>

Rmtree ==
    /\ Step("rmtree", IF task = "pristine" THEN "idle" ELSE "extconf")
    /\ ninja' = Absent /\ hash' = Absent
    /\ UNCHANGED <<conf, makefile, lib, raced, disturbed>>

(* reconfigure! *)

\* extconf.rb: write_build_config unlinks its file and writes it, then create_makefile.
Extconf ==
    /\ Step("extconf", "cmake")
    /\ conf' = sources /\ makefile' = TRUE
    /\ UNCHANGED <<ninja, lib, hash, raced, disturbed>>

Cmake ==
    /\ Step("cmake", "write_hash")
    /\ ninja' = [sources |-> sources, conf |-> conf]
    /\ UNCHANGED <<conf, makefile, lib, hash, raced, disturbed>>

\* Mutant: the hash of the files as they were before cmake ran is written.
WriteHashEarly ==
    /\ Step("write_hash", IF task = "build" THEN "make" ELSE "idle")
    /\ hash' = [state_hash EXCEPT !.ninja = Absent] /\ disturbed' = FALSE
    /\ UNCHANGED <<disk, raced>>

write_hash_file ==
    /\ Step("write_hash", IF task = "build" THEN "make" ELSE "idle")
    /\ hash' = state_hash /\ disturbed' = FALSE
    /\ UNCHANGED <<disk, raced>>

(* build! *)

\* `make' of the tests leaves the files of the configuration alone.
Make ==
    /\ Step("make", "ninja")
    /\ UNCHANGED <<disk, hash, raced, disturbed>>

Ninja ==
    /\ Step("ninja", "install")
    /\ ninja' = Regenerated
    /\ UNCHANGED <<conf, makefile, lib, hash, raced, disturbed>>

NinjaInstall ==
    /\ Step("install", "idle")
    /\ ninja' = Regenerated /\ lib' = TRUE
    /\ UNCHANGED <<conf, makefile, hash, raced, disturbed>>

-----------------------------------------------------------------------------

Edit(c) ==
    /\ sources' = c /\ c # sources
    /\ raced' = (raced \/ pc \in Configuring)
    /\ disturbed' = TRUE
    /\ UNCHANGED <<disk, hash, task, pc>>

\* Mutant: a command that fails does not end the task.
FailureIgnored ==
    /\ pc = "cmake" /\ pc' = "write_hash"
    /\ ninja' \in {Absent, Partial} /\ disturbed' = TRUE
    /\ UNCHANGED <<sources, conf, makefile, lib, hash, task, raced>>

\* The step under way has had part of its effect; exec_paginated! exits when a command
\* fails, and so does the user.  The cmake that ninja runs again may be cut short as well.
Interrupted ==
    /\ pc # "idle"
    /\ conf' \in IF pc = "extconf" THEN {conf, Absent, Partial, sources} ELSE {conf}
    /\ makefile' \in {makefile, makefile \/ pc = "extconf"}
    /\ ninja' \in IF pc = "rmtree" THEN {ninja, Absent}
                  ELSE IF pc = "cmake" THEN {Absent, Partial, [sources |-> sources, conf |-> conf]}
                  ELSE IF pc \in {"ninja_clean", "ninja", "install"} /\ ninja # Absent
                       THEN {ninja, Partial, Regenerated}
                  ELSE {ninja}
    /\ hash' \in IF pc = "write_hash" THEN {hash, Partial} ELSE {hash}
    /\ lib' \in {lib} \cup (IF pc = "install" THEN {TRUE} ELSE {})
                    \cup (IF pc = "unlink_outputs" THEN {FALSE} ELSE {})
    /\ task' = "none" /\ pc' = "idle" /\ disturbed' = TRUE
    /\ UNCHANGED <<sources, raced>>

TaskStep ==
    \/ Check \/ UnlinkHash \/ NinjaClean \/ UnlinkOutputs \/ Rmtree
    \/ Extconf \/ Cmake \/ write_hash_file \/ Make \/ Ninja \/ NinjaInstall

DevBuildNext ==
    \/ \E t \in {"pristine", "reconfigure", "maybe_reconfigure", "build"} : Start(t)
    \/ TaskStep
    \/ \E c \in Contents : Edit(c)
    \/ Interrupted

DevBuildSpec == DevBuildInit /\ [][DevBuildNext]_devBuildVars

-----------------------------------------------------------------------------
(* Properties.                                                             *)

DevBuildTypeOK ==
    /\ sources \in Contents /\ conf \in Contents \cup {Absent, Partial}
    /\ ninja \in Configurations \cup {Absent, Partial}
    /\ hash \in Hashes \cup {Absent, Partial}
    /\ makefile \in BOOLEAN /\ lib \in BOOLEAN
    /\ task \in {"none", "pristine", "reconfigure", "maybe_reconfigure", "build"}
    /\ task = "none" <=> pc = "idle"
    /\ pc \in Cleaning \cup Configuring \cup {"idle", "check", "make", "ninja", "install"}
    /\ raced \in BOOLEAN /\ disturbed \in BOOLEAN

\* A hash that matches vouches for a configuration that was finished, and made from the
\* files as they are, wherever an earlier task was interrupted (dev_tasks.rb:39, :61, :64);
\* only an edit during the configuration escapes it.
HashMeansConfigured == hash = state_hash /\ ~raced => configured

\* build! goes on to compile only with a configuration that cmake completed, even when the
\* files were edited meanwhile or earlier tasks cut short (dev_tasks.rb:67-72).
NeverBuildsPartial == pc \in {"make", "ninja", "install"} => ninja \notin {Absent, Partial}

\* 'Reconfigures only if needed' (dev.rake:21): unless a file was edited, a task interrupted
\* or the hash removed since it was written, maybe_reconfigure! leaves the configuration alone.
OnlyIfNeeded ==
    [][Check /\ pc' = "unlink_hash" => disturbed \/ raced]_devBuildVars

=============================================================================
