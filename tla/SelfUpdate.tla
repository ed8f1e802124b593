----------------------------- MODULE SelfUpdate -----------------------------
(* wg-quick-op update, install and uninstall: the steps by which a binary   *)
(* replaces itself on disk, rewrites the service script and restarts the    *)
(* service.  Any call may fail, the process may die and the machine may be  *)
(* rebooted between any two of them, and the mirror may move on to another  *)
(* release between the downloads.                                           *)
EXTENDS Naturals

CONSTANTS
  MaxVersion,  \* releases are numbered; 0 is the version installed at first
  Faulty,      \* releases whose binary does not run here or misstates its version
  None,        \* no file, or no process
  Part         \* a file that has been written in part

Versions == 0..MaxVersion
Contents == Versions \cup {None, Part}

ASSUME VersionAssumption == MaxVersion \in Nat /\ Faulty \subseteq Versions \ {0}
ASSUME ContentAssumption == None \notin Nat /\ Part \notin Nat /\ None # Part

VARIABLES
  inPlace,  \* the binary that is run is /usr/sbin/wg-quick-op itself
  systemd,  \* /run/systemd/system exists
  github,   \* latest release on GitHub
  mirror,   \* latest release on the mirror
  bin,      \* bin[f]: content of the binary, of its .old copy, of /usr/sbin/wg-quick-op
  script,   \* the service script, which is "whole" whichever version wrote it
  service,  \* version of the service process, or None
  caller,   \* the command: "update", "install", or "none" at first
  opts,     \* the flags of update
  pc,       \* next step of the command, "idle" between commands
  self,     \* version that runs the command
  source,   \* where update found the release: "github", "mirror" or None
  want,     \* the release update has announced
  origin,   \* the binary Install has opened
  again,    \* Install is called for the second time, by AddService
  result    \* how the last command ended

host == <<inPlace, systemd>>
releases == <<github, mirror>>
disk == <<bin, script>>
command == <<caller, self>>
locals == <<opts, source, want, origin, again>>
vars == <<host, releases, disk, service, command, pc, locals, result>>

Files == {"target", "backup", "sbin"}
Options == [sync : BOOLEAN, strict : BOOLEAN, restart : BOOLEAN, force : BOOLEAN]
NoOptions == [sync |-> FALSE, strict |-> FALSE, restart |-> FALSE, force |-> FALSE]
UpdateSteps == {"release", "sums", "backup", "download", "extract", "verify",
                "sanity", "rollback", "sync", "restart", "fallback", "startOld", "cleanup"}
InstallSteps == {"open", "remove", "create", "copy", "lookPath", "script", "write", "overwrite"}
UninstallSteps == {"stop", "rmScript", "rmBinary"}

\* The file at /usr/sbin/wg-quick-op.  The systemd unit names it; the init.d
\* script and LookPath search $PATH for the command, which is taken to lead there.
Installed == IF inPlace THEN "target" ELSE "sbin"

Runs(content) == content \in Versions \ Faulty

\* Fault: a file that has been written in part is run.
Started_Any == IF script = "none" THEN None ELSE bin[Installed]

\* What a start of the service leads to.
Started == IF Runs(bin[Installed]) /\ script = "whole" THEN bin[Installed] ELSE None

Init ==
  /\ inPlace \in BOOLEAN /\ systemd \in BOOLEAN
  /\ github \in Versions /\ mirror \in 0..github
  /\ script \in {"none", "whole"}
  /\ bin = [f \in Files |-> IF f = "target" \/ (f = Installed /\ script = "whole") THEN 0 ELSE None]
  /\ service = IF script = "whole" THEN 0 ELSE None
  /\ caller = "none"
  /\ opts = NoOptions
  /\ pc = "idle" /\ self = 0
  /\ source = None /\ want = 0
  /\ origin = None /\ again = FALSE
  /\ result = "none"

At(step) == pc = step /\ UNCHANGED <<host, releases, command>>

GoTo(step) == pc' = step /\ UNCHANGED <<locals, result>>

\* The command ends.
Finish(r) ==
  /\ pc' = "idle" /\ result' = r /\ opts' = NoOptions
  /\ source' = None /\ origin' = None /\ again' = FALSE
  /\ UNCHANGED want
----------------------------------------------------------------------------

\* update is run from a binary that runs.
Update(o) ==
  /\ pc = "idle" /\ Runs(bin["target"])
  /\ caller' = "update" /\ opts' = o /\ self' = bin["target"]
  /\ pc' = "release" /\ result' = "none"
  /\ UNCHANGED <<host, releases, disk, service, source, want, origin, again>>

\* fetchLatestReleaseWithSource: the mirror, or GitHub by choice or because the
\* mirror has failed.  Nothing is done for the release that runs already.
FetchRelease(from) ==
  /\ At("release")
  /\ source' = from
  /\ want' = IF from = "mirror" THEN mirror ELSE github
  /\ IF want' = self /\ ~opts.force
       THEN pc' = "idle" /\ result' = "latest" /\ opts' = NoOptions
       ELSE pc' = "sums" /\ UNCHANGED <<result, opts>>
  /\ UNCHANGED <<disk, service, origin, again>>

\* The checksum of the announced release: the name of its list has the version.
FetchSums ==
  /\ At("sums")
  /\ GoTo("backup")
  /\ UNCHANGED <<disk, service>>

\* No release, no asset in it, or no checksum: nothing has been touched.
FetchFails ==
  /\ pc \in {"release", "sums"} /\ At(pc)
  /\ Finish("failed")
  /\ UNCHANGED <<disk, service>>

\* Fault: the running binary is deleted.
Backup_Delete ==
  /\ At("backup")
  /\ \/ bin' = [bin EXCEPT !["target"] = None] /\ GoTo("download")
     \/ Finish("failed") /\ UNCHANGED bin
  /\ UNCHANGED <<script, service>>

\* The running binary is renamed; an older backup is replaced.
Backup ==
  /\ At("backup")
  /\ \/ /\ bin' = [bin EXCEPT !["backup"] = bin["target"], !["target"] = None]
        /\ GoTo("download")
     \/ Finish("failed") /\ UNCHANGED bin
  /\ UNCHANGED <<script, service>>

\* streamExtractVerifyTarGzToPath: the answer of the server is there, its
\* archive has a binary, and the output file is created; or one of these fails.
Download ==
  /\ At("download")
  /\ \/ bin' = [bin EXCEPT !["target"] = Part] /\ GoTo("extract")
     \/ GoTo("rollback") /\ UNCHANGED bin
  /\ UNCHANGED <<script, service>>

\* The release an asset URL leads to: one of GitHub's names the release, the
\* mirror's says "latest".
Served == IF source = "mirror" THEN mirror ELSE want

\* The binary is written to its place as it comes in, before it is verified.
Extract ==
  /\ At("extract")
  /\ \/ bin' = [bin EXCEPT !["target"] = Served] /\ GoTo("verify")
     \/ GoTo("rollback") /\ UNCHANGED bin
  /\ UNCHANGED <<script, service>>

\* The hash of what has been read is that of the announced release.  The right
\* archive may fail as well: its end need not have been read.
Verify ==
  /\ At("verify")
  /\ \/ bin["target"] = want /\ GoTo("sanity")
     \/ GoTo("rollback")
  /\ UNCHANGED <<disk, service>>

\* Fault: the new binary is not tried.
Sanity_Skipped ==
  /\ At("sanity")
  /\ \/ GoTo("sync")
     \/ GoTo("rollback")
  /\ UNCHANGED <<disk, service>>

\* sanityCheckVersion: the new binary runs and tells the announced version.
Sanity ==
  /\ At("sanity")
  /\ \/ Runs(bin["target"]) /\ bin["target"] = want /\ GoTo("sync")
     \/ GoTo("rollback")
  /\ UNCHANGED <<disk, service>>

\* rollback: the backup is renamed back, and the update has failed.
Rollback ==
  /\ At("rollback")
  /\ \/ /\ bin' = [bin EXCEPT !["target"] = bin["backup"], !["backup"] = None]
        /\ Finish("failed")
     \/ Finish("stuck") /\ UNCHANGED bin
  /\ UNCHANGED <<script, service>>
----------------------------------------------------------------------------

\* Fault: an error of the child does not undo the update.
AfterSync_NoRollback(ok) == IF ok \/ ~opts.strict THEN GoTo("restart") ELSE Finish("failed")

\* trySyncServiceScripts has ended; only --sync-service-strict minds an error.
AfterSync(ok) == IF ok \/ ~opts.strict THEN GoTo("restart") ELSE GoTo("rollback")

\* The service script is synchronised by the install command of the new binary,
\* if there is a script.
Sync ==
  /\ At("sync")
  /\ IF ~opts.sync THEN GoTo("restart")
     ELSE IF script = "none" THEN AfterSync(FALSE)
     ELSE GoTo("open")
  /\ UNCHANGED <<disk, service>>

\* The init script is called if there is one; procd reports success whatever
\* becomes of the process, and a failed call may have stopped the service or
\* started the new binary as well.
Restart ==
  /\ At("restart")
  /\ IF opts.restart /\ ~systemd /\ script # "none"
       THEN \/ service' = Started /\ GoTo("cleanup")
            \/ service' \in {service, None, Started} /\ GoTo("fallback")
       ELSE GoTo("cleanup") /\ UNCHANGED service
  /\ UNCHANGED disk

\* Fault: the service is started again without its old binary.
Fallback_KeepNew ==
  /\ At("fallback")
  /\ GoTo("startOld")
  /\ UNCHANGED <<disk, service>>

\* The restart has failed: the backup is renamed back.
Fallback ==
  /\ At("fallback")
  /\ \/ /\ bin' = [bin EXCEPT !["target"] = bin["backup"], !["backup"] = None]
        /\ GoTo("startOld")
     \/ Finish("stuck") /\ UNCHANGED bin
  /\ UNCHANGED <<script, service>>

\* The service is started with what is installed now.  procd starts nothing when
\* an instance with the same command line runs already, unless that has just died.
StartOld ==
  /\ At("startOld")
  /\ \/ /\ service' \in {Started} \cup ({service} \ {None})
        /\ Finish("fellback")
     \/ service' \in {service, None} /\ Finish("down")
  /\ UNCHANGED disk

\* The backup is deleted, an error of it ignored: "Update done".
Cleanup ==
  /\ At("cleanup")
  /\ bin' \in {bin, [bin EXCEPT !["backup"] = None]}
  /\ Finish("done")
  /\ UNCHANGED <<script, service>>
----------------------------------------------------------------------------

\* install is run by the administrator.
InstallCommand ==
  /\ pc = "idle" /\ Runs(bin["target"])
  /\ caller' = "install" /\ self' = bin["target"]
  /\ pc' = "open" /\ result' = "none"
  /\ UNCHANGED <<host, releases, disk, service, locals>>

\* The install command exits, with status 0 or not.
Exit(ok) == IF caller = "update" THEN AfterSync(ok)
            ELSE Finish(IF ok THEN "installed" ELSE "failed")

\* Install returns, its error logged and forgotten: AddService goes on.
InstallReturns ==
  /\ pc' = IF again THEN "script" ELSE "lookPath"
  /\ origin' = None
  /\ UNCHANGED <<opts, source, want, again, result>>

\* Install: the running binary is opened; it must still be there.
InstallOpen ==
  /\ At("open")
  /\ \/ /\ bin["target"] # None
        /\ origin' = bin["target"]
        /\ pc' = "remove"
        /\ UNCHANGED <<opts, source, want, again, result>>
     \/ InstallReturns
  /\ UNCHANGED <<disk, service>>

\* The child ends before Install: its configuration cannot be read.
InstallDies ==
  /\ At("open") /\ ~again
  /\ Exit(FALSE)
  /\ UNCHANGED <<disk, service>>

\* Install: the installed binary is removed.
InstallRemove ==
  /\ At("remove")
  /\ \/ bin' = [bin EXCEPT ![Installed] = None] /\ GoTo("create")
     \/ InstallReturns /\ UNCHANGED bin
  /\ UNCHANGED <<script, service>>

\* Install: the new file is created.
InstallCreate ==
  /\ At("create")
  /\ \/ bin' = [bin EXCEPT ![Installed] = Part] /\ GoTo("copy")
     \/ InstallReturns /\ UNCHANGED bin
  /\ UNCHANGED <<script, service>>

\* Install: the opened binary is copied.  When that fails, the file is removed,
\* an error of which is ignored.
InstallCopy ==
  /\ At("copy")
  /\ \E content \in {origin, None, Part} : bin' = [bin EXCEPT ![Installed] = content]
  /\ InstallReturns
  /\ UNCHANGED <<script, service>>

\* Fault: AddService installs until it finds the binary.
LookPath_Loop ==
  /\ At("lookPath")
  /\ pc' = IF bin[Installed] = None THEN "open" ELSE "script"
  /\ UNCHANGED <<disk, service, locals, result>>

\* AddService: a binary that is not found is installed, once.
LookPath ==
  /\ At("lookPath")
  /\ again' = (bin[Installed] = None)
  /\ pc' = IF again' THEN "open" ELSE "script"
  /\ UNCHANGED <<disk, service, opts, source, want, origin, result>>

\* addInitdService removes the script and creates it anew, addSystemdService
\* truncates it; log.Fatal when it cannot be opened.  A script that could not be
\* removed is opened as it is, for it is not truncated then.
ScriptOpen ==
  /\ At("script")
  /\ \/ script' = "part" /\ GoTo("write")
     \/ ~systemd /\ script # "none" /\ UNCHANGED script /\ GoTo("overwrite")
     \/ script' \in {script} \cup (IF systemd THEN {} ELSE {"none"}) /\ Exit(FALSE)
  /\ UNCHANGED <<bin, service>>

\* The script that the installing binary carries is written, or log.Fatal.
ScriptWrite ==
  /\ At("write")
  /\ \/ script' = "whole" /\ Exit(TRUE)
     \/ UNCHANGED script /\ Exit(FALSE)
  /\ UNCHANGED <<bin, service>>

\* It is written over the old one, of which a longer tail stays behind.
ScriptOverwrite ==
  /\ At("overwrite")
  /\ \/ script' \in {"whole", "part"} /\ Exit(TRUE)
     \/ script' \in {script, "part"} /\ Exit(FALSE)
  /\ UNCHANGED <<bin, service>>
----------------------------------------------------------------------------

\* uninstall is run by the administrator.
UninstallCommand ==
  /\ pc = "idle" /\ Runs(bin["target"])
  /\ caller' = "uninstall" /\ self' = bin["target"]
  /\ pc' = "stop" /\ result' = "none"
  /\ UNCHANGED <<host, releases, disk, service, locals>>

\* RmService: the service is stopped; errors are logged here and below.
RmStop ==
  /\ At("stop")
  /\ service' \in {service, None} /\ GoTo("rmScript")
  /\ UNCHANGED disk

\* RmService: the script is removed.
RmScript ==
  /\ At("rmScript")
  /\ script' \in {script, "none"} /\ GoTo("rmBinary")
  /\ UNCHANGED <<bin, service>>

\* Uninstall: the binary found in $PATH is removed.
Uninstall ==
  /\ At("rmBinary")
  /\ bin' \in {bin, [bin EXCEPT ![Installed] = None]}
  /\ Finish("uninstalled")
  /\ UNCHANGED <<script, service>>
----------------------------------------------------------------------------

\* The command is killed, with its child, or the machine stops.
Crash ==
  /\ pc # "idle"
  /\ Finish("crashed")
  /\ UNCHANGED <<host, releases, disk, service, command>>

\* The service ends and the init system starts it again, or the machine boots.
Respawn ==
  /\ service' = Started
  /\ UNCHANGED <<host, releases, disk, command, pc, locals, result>>

\* A release is published on GitHub.
Publish ==
  /\ github < MaxVersion
  /\ github' = github + 1
  /\ UNCHANGED <<host, mirror, disk, service, command, pc, locals, result>>

\* The mirror catches up.
Mirror ==
  /\ mirror' = github
  /\ UNCHANGED <<host, github, disk, service, command, pc, locals, result>>

UpdateStep == \/ \E from \in {"github", "mirror"} : FetchRelease(from)
              \/ FetchSums \/ FetchFails
              \/ Backup \/ Download \/ Extract \/ Verify \/ Sanity \/ Rollback
              \/ Sync \/ Restart \/ Fallback \/ StartOld \/ Cleanup

InstallStep == \/ InstallOpen \/ InstallDies \/ InstallRemove \/ InstallCreate
               \/ InstallCopy \/ LookPath \/ ScriptOpen \/ ScriptWrite \/ ScriptOverwrite

UninstallStep == RmStop \/ RmScript \/ Uninstall

Environment == Crash \/ Respawn \/ Publish \/ Mirror

CommandStep == UpdateStep \/ InstallStep \/ UninstallStep

Next == \/ CommandStep \/ Environment
        \/ InstallCommand \/ UninstallCommand \/ \E o \in Options : Update(o)

\* Requests and the self check have time limits; file operations and the
\* scripts of the init system end by themselves.
Spec == Init /\ [][Next]_vars
FairSpec == Spec /\ WF_vars(CommandStep)
----------------------------------------------------------------------------

\* Type invariant of the update.
TypeOK ==
  /\ inPlace \in BOOLEAN /\ systemd \in BOOLEAN
  /\ github \in Versions /\ mirror \in Versions
  /\ bin \in [Files -> Contents]
  /\ script \in {"none", "part", "whole"}
  /\ service \in Versions \cup {None}
  /\ caller \in {"none", "update", "install", "uninstall"}
  /\ opts \in Options
  /\ pc \in UpdateSteps \cup InstallSteps \cup UninstallSteps \cup {"idle"}
  /\ self \in Versions
  /\ source \in {"github", "mirror", None}
  /\ want \in Versions
  /\ origin \in Contents
  /\ again \in BOOLEAN
  /\ result \in {"none", "latest", "failed", "stuck", "done", "fellback", "down",
                 "installed", "uninstalled", "crashed"}

\* Until an update says that it is done, a binary that runs is on disk, under
\* its own name or that of the backup: whatever fails, whenever the machine
\* stops, even when the rollback fails and when an update is run after a crash.
Recoverable ==
  caller = "update" /\ result # "done" => Runs(bin["target"]) \/ Runs(bin["backup"])

\* An update that reports a failure, and none of its rollback, has left the
\* binary that ran it in place.
FailureRestores ==
  caller = "update" /\ result = "failed" => bin["target"] = self

\* An update that reports "done" has put the announced release in place and
\* that runs, although the mirror may have changed under it and the binary is
\* written before it is verified.  An Install in place that fails afterwards is
\* left to DoneMeansRunnable.
DoneIsAnnounced ==
  caller = "update" /\ result = "done" =>
    \/ bin["target"] = want /\ Runs(want)
    \/ inPlace /\ bin["target"] \in {None, Part}

\* "Update done": the binary can be run.  The install command that update runs
\* in between removes the binary it copies from, and exits with status 0 when
\* the copy fails; the backup is then deleted.
DoneMeansRunnable == caller = "update" /\ result = "done" => Runs(bin["target"])

\* "fallback success": the binary that ran before is back in place and, if it is
\* the installed one and the script is whole, the service is not left dead,
\* whatever the restart that failed and the new binary did before.
FallbackServes ==
  caller = "update" /\ result = "fellback" =>
    /\ bin["target"] = self
    /\ inPlace /\ script = "whole" => service # None

\* "Restart old service success": the service runs the binary that ran before,
\* under the same conditions.
FallbackRestores ==
  caller = "update" /\ result = "fellback" =>
    (inPlace /\ script = "whole" => service = self)

\* The steps a command may still take: from each step to the end, and from the
\* first Install to its second one, which AddService calls for.
Distance == [release |-> 23, sums |-> 22, backup |-> 21, download |-> 20, extract |-> 19,
             verify |-> 18, sanity |-> 17, sync |-> 16, lookPath |-> 11,
             open |-> 10, remove |-> 9, create |-> 8, copy |-> 7, script |-> 6, write |-> 5,
             overwrite |-> 5,
             restart |-> 4, fallback |-> 3, startOld |-> 2, cleanup |-> 1, rollback |-> 1,
             stop |-> 3, rmScript |-> 2, rmBinary |-> 1, idle |-> 0]
FirstInstall == pc \in {"open", "remove", "create", "copy"} /\ ~again
StepsLeft == Distance[pc] + IF FirstInstall THEN 5 ELSE 0

\* Every step of a command brings it nearer to its end, so that no failure leads
\* it in a circle: AddService calls Install again when it finds no binary, and
\* Install may fail again.
NearerEnd == [][CommandStep => StepsLeft' \in 0..(StepsLeft - 1)]_vars

\* Every command ends, also when nothing can be installed.
CommandEnds == []<>(pc = "idle")
============================================================================
