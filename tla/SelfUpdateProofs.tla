-------------------------- MODULE SelfUpdateProofs --------------------------
(* SelfUpdate for any number of releases, any of which may be faulty.       *)
EXTENDS SelfUpdate, TLAPS

\* The part of the types that the end of a command touches.
CommandTypes ==
  /\ opts \in Options
  /\ pc \in UpdateSteps \cup InstallSteps \cup UninstallSteps \cup {"idle"}
  /\ source \in {"github", "mirror", None}
  /\ want \in Versions
  /\ origin \in Contents
  /\ again \in BOOLEAN
  /\ result \in {"none", "latest", "failed", "stuck", "done", "fellback", "down",
                 "installed", "uninstalled", "crashed"}

\* The new binary is in place, or Install has damaged it in its own place.
Replaced ==
  /\ Runs(want)
  /\ bin["target"] = want \/ (inPlace /\ bin["target"] \in {None, Part})

\* The steps of update between the backup and its end.
Guarded == (UpdateSteps \ {"release", "sums", "backup", "startOld"}) \cup InstallSteps

\* Only update takes its steps, uninstall takes its own; a running command has no result yet.
Control ==
  /\ pc \in UpdateSteps => caller = "update"
  /\ pc \in UninstallSteps => caller = "uninstall"
  /\ pc # "idle" => result = "none"
  /\ caller = "update" => Runs(self)

\* What is on disk at each step of update.
Disk ==
  caller = "update" =>
    /\ pc \in {"release", "sums", "backup", "startOld"} => bin["target"] = self
    /\ pc \in Guarded => bin["backup"] = self
    /\ pc = "sync" => bin["target"] = want /\ Runs(want)
    /\ pc \in InstallSteps \cup {"restart", "cleanup"} => Replaced
    /\ pc = "open" => bin["target"] # Part
    /\ pc \in {"remove", "create", "copy"} => origin = want

\* What is on disk when update has ended.
Ended == Recoverable /\ FailureRestores /\ DoneIsAnnounced /\ FallbackServes

IInv == TypeOK /\ Control /\ Disk /\ Ended

\* What the end of the install command leaves in the variables of the command.
LEMMA ExitType ==
  ASSUME TypeOK, NEW ok \in BOOLEAN, Exit(ok) PROVE CommandTypes'
<1>1. NoOptions \in Options
  BY DEF NoOptions, Options
<1>2. CASE caller = "update" /\ (ok \/ ~opts.strict)
  BY <1>2 DEF TypeOK, CommandTypes, Exit, AfterSync, GoTo, UpdateSteps, locals
<1>3. CASE caller = "update" /\ ~(ok \/ ~opts.strict)
  BY <1>3 DEF TypeOK, CommandTypes, Exit, AfterSync, GoTo, UpdateSteps, locals
<1>4. CASE caller # "update"
  BY <1>1, <1>4 DEF TypeOK, CommandTypes, Exit, Finish, Contents
<1> QED BY <1>2, <1>3, <1>4

\* Every step keeps the types.
LEMMA TypeStep == TypeOK /\ [Next]_vars => TypeOK'
<1> SUFFICES ASSUME TypeOK, [Next]_vars PROVE TypeOK'
  OBVIOUS
<1>0. NoOptions \in Options
  BY DEF NoOptions, Options
<1> USE <1>0, VersionAssumption, ContentAssumption
    DEF TypeOK, Versions, Contents, Files, UpdateSteps, InstallSteps,
        UninstallSteps, Runs, host, releases, disk, command, locals
<1>1. ASSUME NEW o \in Options, Update(o) PROVE TypeOK'
  BY <1>1 DEF Update
<1>2. ASSUME NEW from \in {"github", "mirror"}, FetchRelease(from) PROVE TypeOK'
  BY <1>2 DEF FetchRelease, At
<1>3. CASE FetchSums
  BY <1>3 DEF FetchSums, At, GoTo
<1>4. CASE FetchFails
  BY <1>4 DEF FetchFails, At, Finish
<1>5. CASE Backup
  <2>1. bin' \in [Files -> Contents]
    BY <1>5 DEF Backup
  <2>2. CASE GoTo("download")
    BY <1>5, <2>1, <2>2 DEF Backup, At, GoTo
  <2>3. CASE Finish("failed")
    BY <1>5, <2>1, <2>3 DEF Backup, At, Finish
  <2> QED BY <1>5, <2>2, <2>3 DEF Backup
<1>6. CASE Download
  BY <1>6 DEF Download, At, GoTo
<1>7. CASE Extract
  BY <1>7 DEF Extract, At, GoTo, Served
<1>8. CASE Verify
  BY <1>8 DEF Verify, At, GoTo
<1>9. CASE Sanity
  BY <1>9 DEF Sanity, At, GoTo
<1>10. CASE Rollback
  BY <1>10 DEF Rollback, At, Finish
<1>11. CASE Sync
  BY <1>11 DEF Sync, At, GoTo, AfterSync
<1>12. CASE Restart
  BY <1>12 DEF Restart, At, GoTo, Started
<1>13. CASE Fallback
  <2>1. bin' \in [Files -> Contents]
    BY <1>13 DEF Fallback
  <2>2. CASE GoTo("startOld")
    BY <1>13, <2>1, <2>2 DEF Fallback, At, GoTo
  <2>3. CASE Finish("stuck")
    BY <1>13, <2>1, <2>3 DEF Fallback, At, Finish
  <2> QED BY <1>13, <2>2, <2>3 DEF Fallback
<1>14. CASE StartOld
  BY <1>14 DEF StartOld, At, Finish, Started
<1>15. CASE Cleanup
  BY <1>15 DEF Cleanup, At, Finish
<1>16. CASE InstallOpen
  BY <1>16 DEF InstallOpen, At, InstallReturns
<1>17. CASE InstallDies
  <2>1. CommandTypes'
    BY <1>17, ExitType DEF InstallDies
  <2> QED BY <1>17, <2>1 DEF InstallDies, At, CommandTypes
<1>18. CASE InstallRemove
  BY <1>18 DEF InstallRemove, At, GoTo, InstallReturns, Installed
<1>19. CASE InstallCreate
  BY <1>19 DEF InstallCreate, At, GoTo, InstallReturns, Installed
<1>20. CASE InstallCopy
  BY <1>20 DEF InstallCopy, At, InstallReturns, Installed
<1>21. CASE LookPath
  BY <1>21 DEF LookPath, At, Installed
<1>22. CASE ScriptOpen
  <2>1. script' \in {"none", "part", "whole"}
    BY <1>22 DEF ScriptOpen
  <2>2. CommandTypes'
    BY <1>22, ExitType DEF ScriptOpen, CommandTypes, GoTo
  <2> QED BY <1>22, <2>1, <2>2 DEF ScriptOpen, At, CommandTypes
<1>23. CASE ScriptWrite
  <2>1. script' \in {"none", "part", "whole"}
    BY <1>23 DEF ScriptWrite
  <2>2. CommandTypes'
    BY <1>23, ExitType DEF ScriptWrite
  <2> QED BY <1>23, <2>1, <2>2 DEF ScriptWrite, At, CommandTypes
<1>34. CASE ScriptOverwrite
  <2>1. script' \in {"none", "part", "whole"}
    BY <1>34 DEF ScriptOverwrite
  <2>2. CommandTypes'
    BY <1>34, ExitType DEF ScriptOverwrite
  <2> QED BY <1>34, <2>1, <2>2 DEF ScriptOverwrite, At, CommandTypes
<1>24. CASE Crash
  BY <1>24 DEF Crash, Finish
<1>25. CASE Respawn
  BY <1>25 DEF Respawn, Started
<1>26. CASE Publish
  BY <1>26 DEF Publish
<1>27. CASE Mirror
  BY <1>27 DEF Mirror
<1>28. CASE InstallCommand
  BY <1>28 DEF InstallCommand
<1>29. CASE UninstallCommand
  BY <1>29 DEF UninstallCommand
<1>30. CASE RmStop
  BY <1>30 DEF RmStop, At, GoTo
<1>31. CASE RmScript
  BY <1>31 DEF RmScript, At, GoTo
<1>32. CASE Uninstall
  BY <1>32 DEF Uninstall, At, Finish, Installed
<1>33. CASE UNCHANGED vars
  BY <1>33 DEF vars
<1> QED BY <1>1, <1>2, <1>3, <1>4, <1>5, <1>6, <1>7, <1>8, <1>9, <1>10, <1>11,
           <1>12, <1>13, <1>14, <1>15, <1>16, <1>17, <1>18, <1>19, <1>20,
           <1>21, <1>22, <1>23, <1>24, <1>25, <1>26, <1>27, <1>28, <1>29,
           <1>30, <1>31, <1>32, <1>33, <1>34 DEF Next, CommandStep, UpdateStep,
           InstallStep, UninstallStep, Environment

\* Every step keeps the relation of the command to its steps.
LEMMA ControlStep == TypeOK /\ Control /\ [Next]_vars => Control'
<1> SUFFICES ASSUME TypeOK /\ Control, [Next]_vars PROVE Control'
  OBVIOUS
<1> USE VersionAssumption, ContentAssumption
    DEF TypeOK, Versions, Contents, Files, UpdateSteps, InstallSteps,
        UninstallSteps, Runs, host, releases, disk, command, locals, Control
<1>1. ASSUME NEW o \in Options, Update(o) PROVE Control'
  BY <1>1 DEF Update
<1>2. ASSUME NEW from \in {"github", "mirror"}, FetchRelease(from) PROVE Control'
  BY <1>2 DEF FetchRelease, At
<1>3. CASE FetchSums
  BY <1>3 DEF FetchSums, At, GoTo
<1>4. CASE FetchFails
  BY <1>4 DEF FetchFails, At, Finish
<1>5. CASE Backup
  BY <1>5 DEF Backup, At, GoTo, Finish
<1>6. CASE Download
  BY <1>6 DEF Download, At, GoTo
<1>7. CASE Extract
  BY <1>7 DEF Extract, At, GoTo, Served
<1>8. CASE Verify
  BY <1>8 DEF Verify, At, GoTo
<1>9. CASE Sanity
  BY <1>9 DEF Sanity, At, GoTo
<1>10. CASE Rollback
  BY <1>10 DEF Rollback, At, Finish
<1>11. CASE Sync
  BY <1>11 DEF Sync, At, GoTo, AfterSync
<1>12. CASE Restart
  BY <1>12 DEF Restart, At, GoTo, Started
<1>13. CASE Fallback
  BY <1>13 DEF Fallback, At, GoTo, Finish
<1>14. CASE StartOld
  BY <1>14 DEF StartOld, At, Finish, Started
<1>15. CASE Cleanup
  BY <1>15 DEF Cleanup, At, Finish
<1>16. CASE InstallOpen
  BY <1>16 DEF InstallOpen, At, InstallReturns
<1>17. CASE InstallDies
  BY <1>17 DEF InstallDies, At, Exit, AfterSync, GoTo, Finish
<1>18. CASE InstallRemove
  BY <1>18 DEF InstallRemove, At, GoTo, InstallReturns, Installed
<1>19. CASE InstallCreate
  BY <1>19 DEF InstallCreate, At, GoTo, InstallReturns, Installed
<1>20. CASE InstallCopy
  BY <1>20 DEF InstallCopy, At, InstallReturns, Installed
<1>21. CASE LookPath
  BY <1>21 DEF LookPath, At, Installed
<1>22. CASE ScriptOpen
  BY <1>22 DEF ScriptOpen, At, GoTo, Exit, AfterSync, Finish
<1>23. CASE ScriptWrite
  BY <1>23 DEF ScriptWrite, At, Exit, AfterSync, GoTo, Finish
<1>34. CASE ScriptOverwrite
  BY <1>34 DEF ScriptOverwrite, At, Exit, AfterSync, GoTo, Finish
<1>24. CASE Crash
  BY <1>24 DEF Crash, Finish
<1>25. CASE Respawn
  BY <1>25 DEF Respawn, Started
<1>26. CASE Publish
  BY <1>26 DEF Publish
<1>27. CASE Mirror
  BY <1>27 DEF Mirror
<1>28. CASE InstallCommand
  BY <1>28 DEF InstallCommand
<1>29. CASE UninstallCommand
  BY <1>29 DEF UninstallCommand
<1>30. CASE RmStop
  BY <1>30 DEF RmStop, At, GoTo
<1>31. CASE RmScript
  BY <1>31 DEF RmScript, At, GoTo
<1>32. CASE Uninstall
  BY <1>32 DEF Uninstall, At, Finish, Installed
<1>33. CASE UNCHANGED vars
  BY <1>33 DEF vars
<1> QED BY <1>1, <1>2, <1>3, <1>4, <1>5, <1>6, <1>7, <1>8, <1>9, <1>10, <1>11,
           <1>12, <1>13, <1>14, <1>15, <1>16, <1>17, <1>18, <1>19, <1>20,
           <1>21, <1>22, <1>23, <1>24, <1>25, <1>26, <1>27, <1>28, <1>29,
           <1>30, <1>31, <1>32, <1>33, <1>34 DEF Next, CommandStep, UpdateStep,
           InstallStep, UninstallStep, Environment

\* Every step keeps what the steps of update rely on.
LEMMA DiskStep == TypeOK /\ Control /\ Disk /\ [Next]_vars => Disk'
<1> SUFFICES ASSUME TypeOK /\ Control /\ Disk, [Next]_vars PROVE Disk'
  OBVIOUS
<1> USE VersionAssumption, ContentAssumption
    DEF TypeOK, Versions, Contents, Files, UpdateSteps, InstallSteps,
        UninstallSteps, Runs, host, releases, disk, command, locals, Control, Disk,
        Guarded, Replaced
<1>1. ASSUME NEW o \in Options, Update(o) PROVE Disk'
  BY <1>1 DEF Update
<1>2. ASSUME NEW from \in {"github", "mirror"}, FetchRelease(from) PROVE Disk'
  BY <1>2 DEF FetchRelease, At
<1>3. CASE FetchSums
  BY <1>3 DEF FetchSums, At, GoTo
<1>4. CASE FetchFails
  BY <1>4 DEF FetchFails, At, Finish
<1>5. CASE Backup
  BY <1>5 DEF Backup, At, GoTo, Finish
<1>6. CASE Download
  BY <1>6 DEF Download, At, GoTo
<1>7. CASE Extract
  BY <1>7 DEF Extract, At, GoTo, Served
<1>8. CASE Verify
  BY <1>8 DEF Verify, At, GoTo
<1>9. CASE Sanity
  BY <1>9 DEF Sanity, At, GoTo
<1>10. CASE Rollback
  BY <1>10 DEF Rollback, At, Finish
<1>11. CASE Sync
  BY <1>11 DEF Sync, At, GoTo, AfterSync
<1>12. CASE Restart
  BY <1>12 DEF Restart, At, GoTo, Started
<1>13. CASE Fallback
  BY <1>13 DEF Fallback, At, GoTo, Finish
<1>14. CASE StartOld
  BY <1>14 DEF StartOld, At, Finish, Started
<1>15. CASE Cleanup
  BY <1>15 DEF Cleanup, At, Finish
<1>16. CASE InstallOpen
  BY <1>16 DEF InstallOpen, At, InstallReturns
<1>17. CASE InstallDies
  BY <1>17 DEF InstallDies, At, Exit, AfterSync, GoTo, Finish
<1>18. CASE InstallRemove
  BY <1>18 DEF InstallRemove, At, GoTo, InstallReturns, Installed
<1>19. CASE InstallCreate
  BY <1>19 DEF InstallCreate, At, GoTo, InstallReturns, Installed
<1>20. CASE InstallCopy
  BY <1>20 DEF InstallCopy, At, InstallReturns, Installed
<1>21. CASE LookPath
  <2>1. CASE bin[Installed] = None
    BY <1>21, <2>1 DEF LookPath, At, Installed
  <2>2. CASE bin[Installed] # None
    BY <1>21, <2>2 DEF LookPath, At, Installed
  <2> QED BY <2>1, <2>2
<1>22. CASE ScriptOpen
  BY <1>22 DEF ScriptOpen, At, GoTo, Exit, AfterSync, Finish
<1>23. CASE ScriptWrite
  BY <1>23 DEF ScriptWrite, At, Exit, AfterSync, GoTo, Finish
<1>34. CASE ScriptOverwrite
  BY <1>34 DEF ScriptOverwrite, At, Exit, AfterSync, GoTo, Finish
<1>24. CASE Crash
  BY <1>24 DEF Crash, Finish
<1>25. CASE Respawn
  BY <1>25 DEF Respawn, Started
<1>26. CASE Publish
  BY <1>26 DEF Publish
<1>27. CASE Mirror
  BY <1>27 DEF Mirror
<1>28. CASE InstallCommand
  BY <1>28 DEF InstallCommand
<1>29. CASE UninstallCommand
  BY <1>29 DEF UninstallCommand
<1>30. CASE RmStop
  BY <1>30 DEF RmStop, At, GoTo
<1>31. CASE RmScript
  BY <1>31 DEF RmScript, At, GoTo
<1>32. CASE Uninstall
  BY <1>32 DEF Uninstall, At, Finish, Installed
<1>33. CASE UNCHANGED vars
  BY <1>33 DEF vars
<1> QED BY <1>1, <1>2, <1>3, <1>4, <1>5, <1>6, <1>7, <1>8, <1>9, <1>10, <1>11,
           <1>12, <1>13, <1>14, <1>15, <1>16, <1>17, <1>18, <1>19, <1>20,
           <1>21, <1>22, <1>23, <1>24, <1>25, <1>26, <1>27, <1>28, <1>29,
           <1>30, <1>31, <1>32, <1>33, <1>34 DEF Next, CommandStep, UpdateStep,
           InstallStep, UninstallStep, Environment

\* Every step keeps what holds of an update that has ended.
LEMMA EndedStep == IInv /\ [Next]_vars => Ended'
<1> SUFFICES ASSUME IInv, [Next]_vars PROVE Ended'
  OBVIOUS
<1> USE VersionAssumption, ContentAssumption
    DEF TypeOK, Versions, Contents, Files, UpdateSteps, InstallSteps,
        UninstallSteps, Runs, host, releases, disk, command, locals, IInv, Control, Disk,
        Guarded, Replaced, Ended, Recoverable, FailureRestores, DoneIsAnnounced,
        FallbackServes, Installed
<1>1. ASSUME NEW o \in Options, Update(o) PROVE Ended'
  BY <1>1 DEF Update
<1>2. ASSUME NEW from \in {"github", "mirror"}, FetchRelease(from) PROVE Ended'
  BY <1>2 DEF FetchRelease, At
<1>3. CASE FetchSums
  BY <1>3 DEF FetchSums, At, GoTo
<1>4. CASE FetchFails
  BY <1>4 DEF FetchFails, At, Finish
<1>5. CASE Backup
  BY <1>5 DEF Backup, At, GoTo, Finish
<1>6. CASE Download
  BY <1>6 DEF Download, At, GoTo
<1>7. CASE Extract
  BY <1>7 DEF Extract, At, GoTo, Served
<1>8. CASE Verify
  BY <1>8 DEF Verify, At, GoTo
<1>9. CASE Sanity
  BY <1>9 DEF Sanity, At, GoTo
<1>10. CASE Rollback
  BY <1>10 DEF Rollback, At, Finish
<1>11. CASE Sync
  BY <1>11 DEF Sync, At, GoTo, AfterSync
<1>12. CASE Restart
  BY <1>12 DEF Restart, At, GoTo, Started
<1>13. CASE Fallback
  BY <1>13 DEF Fallback, At, GoTo, Finish
<1>14. CASE StartOld
  BY <1>14 DEF StartOld, At, Finish, Started
<1>15. CASE Cleanup
  BY <1>15 DEF Cleanup, At, Finish
<1>16. CASE InstallOpen
  BY <1>16 DEF InstallOpen, At, InstallReturns
<1>17. CASE InstallDies
  BY <1>17 DEF InstallDies, At, Exit, AfterSync, GoTo, Finish
<1>18. CASE InstallRemove
  BY <1>18 DEF InstallRemove, At, GoTo, InstallReturns, Installed
<1>19. CASE InstallCreate
  BY <1>19 DEF InstallCreate, At, GoTo, InstallReturns, Installed
<1>20. CASE InstallCopy
  BY <1>20 DEF InstallCopy, At, InstallReturns, Installed
<1>21. CASE LookPath
  BY <1>21 DEF LookPath, At, Installed
<1>22. CASE ScriptOpen
  BY <1>22 DEF ScriptOpen, At, GoTo, Exit, AfterSync, Finish
<1>23. CASE ScriptWrite
  BY <1>23 DEF ScriptWrite, At, Exit, AfterSync, GoTo, Finish
<1>34. CASE ScriptOverwrite
  BY <1>34 DEF ScriptOverwrite, At, Exit, AfterSync, GoTo, Finish
<1>24. CASE Crash
  BY <1>24 DEF Crash, Finish
<1>25. CASE Respawn
  BY <1>25 DEF Respawn, Started
<1>26. CASE Publish
  BY <1>26 DEF Publish
<1>27. CASE Mirror
  BY <1>27 DEF Mirror
<1>28. CASE InstallCommand
  BY <1>28 DEF InstallCommand
<1>29. CASE UninstallCommand
  BY <1>29 DEF UninstallCommand
<1>30. CASE RmStop
  BY <1>30 DEF RmStop, At, GoTo
<1>31. CASE RmScript
  BY <1>31 DEF RmScript, At, GoTo
<1>32. CASE Uninstall
  BY <1>32 DEF Uninstall, At, Finish, Installed
<1>33. CASE UNCHANGED vars
  BY <1>33 DEF vars
<1> QED BY <1>1, <1>2, <1>3, <1>4, <1>5, <1>6, <1>7, <1>8, <1>9, <1>10, <1>11,
           <1>12, <1>13, <1>14, <1>15, <1>16, <1>17, <1>18, <1>19, <1>20,
           <1>21, <1>22, <1>23, <1>24, <1>25, <1>26, <1>27, <1>28, <1>29,
           <1>30, <1>31, <1>32, <1>33, <1>34 DEF Next, CommandStep, UpdateStep,
           InstallStep, UninstallStep, Environment

LEMMA InitInv == Init => IInv
<1> SUFFICES ASSUME Init PROVE IInv
  OBVIOUS
<1> USE VersionAssumption, ContentAssumption DEF Init, Versions, Contents, Files, Runs
<1>1. TypeOK
  <2>1. opts \in Options
    BY DEF NoOptions, Options
  <2>2. bin \in [Files -> Contents]
    OBVIOUS
  <2>3. mirror \in Versions /\ service \in Versions \cup {None}
    OBVIOUS
  <2>4. /\ caller \in {"none", "update", "install", "uninstall"} /\ pc = "idle" /\ result = "none"
        /\ inPlace \in BOOLEAN /\ systemd \in BOOLEAN /\ again \in BOOLEAN
    OBVIOUS
  <2>5. /\ github \in Versions /\ script \in {"none", "part", "whole"} /\ self \in Versions
        /\ source = None /\ want \in Versions /\ origin \in Contents
    OBVIOUS
  <2> QED BY ONLY <2>1, <2>2, <2>3, <2>4, <2>5 DEF TypeOK
<1>2. Control
  BY DEF Control, UpdateSteps, UninstallSteps
<1>3. Disk /\ Ended
  BY DEF Disk, Ended, Recoverable, FailureRestores, DoneIsAnnounced, FallbackServes
<1> QED BY <1>1, <1>2, <1>3 DEF IInv

\* The inductive invariant.
LEMMA Inductive == Spec => []IInv
<1>1. IInv /\ [Next]_vars => IInv'
  BY TypeStep, ControlStep, DiskStep, EndedStep DEF IInv
<1> QED BY InitInv, <1>1, PTL DEF Spec

\* The variables of the update keep their types (cmd/update.go, daemon/binary.go).
THEOREM TypeCorrect == Spec => []TypeOK
BY Inductive, PTL DEF IInv

\* Until an update says that it is done there is a binary that runs, under its
\* own name or that of the backup, whatever fails and wherever the update is
\* interrupted (cmd/update.go:131-179).
THEOREM AlwaysRecoverable == Spec => []Recoverable
BY Inductive, PTL DEF IInv, Ended

\* An update that reports a failure has left the binary that ran it in place
\* (the rollbacks of cmd/update.go:136-162).
THEOREM FailureLeavesOld == Spec => []FailureRestores
BY Inductive, PTL DEF IInv, Ended

\* "Update done": the announced release is in place and runs, unless an Install
\* in place has failed (cmd/update.go:145-180).
THEOREM DoneWasAnnounced == Spec => []DoneIsAnnounced
BY Inductive, PTL DEF IInv, Ended

\* "fallback success": the old binary is in place, and an in-place service runs,
\* if not always the old binary (cmd/update.go:167-173).
THEOREM FallbackIsOld == Spec => []FallbackServes
BY Inductive, PTL DEF IInv, Ended

\* The one way to lose the binary with "Update done" is an update in place, whose
\* Install removes the file it copies from (binary.go:43-57): installed elsewhere,
\* what DoneMeansRunnable says is true.
THEOREM DoneRunsElsewhere == Spec => [](~inPlace => DoneMeansRunnable)
<1>1. IInv => (~inPlace => DoneMeansRunnable)
  BY DEF IInv, Ended, DoneIsAnnounced, DoneMeansRunnable
<1> QED BY <1>1, Inductive, PTL
----------------------------------------------------------------------------

\* The distances, one by one.
LEMMA Distances ==
  /\ Distance["release"] = 23 /\ Distance["sums"] = 22 /\ Distance["backup"] = 21
  /\ Distance["download"] = 20 /\ Distance["extract"] = 19 /\ Distance["verify"] = 18
  /\ Distance["sanity"] = 17 /\ Distance["sync"] = 16 /\ Distance["lookPath"] = 11
  /\ Distance["open"] = 10 /\ Distance["remove"] = 9 /\ Distance["create"] = 8
  /\ Distance["copy"] = 7 /\ Distance["script"] = 6 /\ Distance["write"] = 5
  /\ Distance["restart"] = 4 /\ Distance["fallback"] = 3 /\ Distance["startOld"] = 2
  /\ Distance["overwrite"] = 5
  /\ Distance["cleanup"] = 1 /\ Distance["rollback"] = 1 /\ Distance["stop"] = 3
  /\ Distance["rmScript"] = 2 /\ Distance["rmBinary"] = 1 /\ Distance["idle"] = 0
BY DEF Distance

\* A step to a place outside Install.
LEMMA LeftOutside ==
  ASSUME pc' \notin {"open", "remove", "create", "copy"}, Distance[pc'] \in Nat
  PROVE  StepsLeft' = Distance[pc']
BY DEF StepsLeft, FirstInstall

\* What is left at the end of the install command.
LEMMA ExitLeft ==
  ASSUME NEW ok \in BOOLEAN, Exit(ok)
  PROVE  StepsLeft' \in 0..4
<1>1. pc' \in {"restart", "rollback", "idle"}
  BY DEF Exit, AfterSync, GoTo, Finish
<1> QED BY <1>1, LeftOutside, Distances

\* What is left when Install returns, for the first or the second time.
LEMMA InstallLeft ==
  ASSUME TypeOK, pc \in {"open", "remove", "create", "copy"}, InstallReturns
  PROVE  StepsLeft' \in 0..(StepsLeft - 1)
<1>1. CASE again
  <2>1. StepsLeft' = 6
    BY <1>1, LeftOutside, Distances DEF InstallReturns
  <2>2. StepsLeft \in {7, 8, 9, 10}
    BY <1>1, Distances DEF StepsLeft, FirstInstall
  <2> QED BY <2>1, <2>2
<1>2. CASE ~again
  <2>1. StepsLeft' = 11
    BY <1>2, LeftOutside, Distances DEF InstallReturns
  <2>2. StepsLeft \in {12, 13, 14, 15}
    BY <1>2, Distances DEF StepsLeft, FirstInstall
  <2> QED BY <2>1, <2>2
<1> QED BY <1>1, <1>2

\* A step inside Install.
LEMMA InsideLeft ==
  ASSUME UNCHANGED again, pc \in {"open", "remove", "create"},
         pc' = IF pc = "open" THEN "remove" ELSE IF pc = "remove" THEN "create" ELSE "copy"
  PROVE  StepsLeft' \in 0..(StepsLeft - 1)
<1>1. FirstInstall' <=> FirstInstall
  BY DEF FirstInstall
<1> QED BY <1>1, Distances DEF StepsLeft

\* A step of the update command to a place nearer to the end.
LEMMA OutsideLeft ==
  ASSUME pc' \notin {"open", "remove", "create", "copy"},
         pc \notin {"open", "remove", "create", "copy"},
         Distance[pc] \in Nat, Distance[pc'] \in 0..(Distance[pc] - 1)
  PROVE  StepsLeft' \in 0..(StepsLeft - 1)
<1>1. StepsLeft' = Distance[pc']
  BY LeftOutside
<1>2. StepsLeft = Distance[pc]
  BY DEF StepsLeft, FirstInstall
<1> QED BY <1>1, <1>2

\* Every step of a command brings the end nearer.
LEMMA NearerStep ==
  ASSUME TypeOK, CommandStep
  PROVE  StepsLeft' \in 0..(StepsLeft - 1)
<1>1. CASE UpdateStep
  <2>1. ASSUME NEW from \in {"github", "mirror"}, FetchRelease(from)
        PROVE  StepsLeft' \in 0..(StepsLeft - 1)
    <3>1. pc = "release" /\ pc' \in {"idle", "sums"}
      BY <2>1 DEF FetchRelease, At
    <3> QED BY <3>1, OutsideLeft, Distances
  <2>2. CASE FetchSums \/ FetchFails \/ Backup
    <3>1. \/ pc = "sums" /\ pc' \in {"backup", "idle"}
          \/ pc = "release" /\ pc' = "idle"
          \/ pc = "backup" /\ pc' \in {"download", "idle"}
      BY <2>2 DEF FetchSums, FetchFails, Backup, At, GoTo, Finish
    <3> QED BY <3>1, OutsideLeft, Distances
  <2>3. CASE Download \/ Extract \/ Verify \/ Sanity
    <3>1. \/ pc = "download" /\ pc' \in {"extract", "rollback"}
          \/ pc = "extract" /\ pc' \in {"verify", "rollback"}
          \/ pc = "verify" /\ pc' \in {"sanity", "rollback"}
          \/ pc = "sanity" /\ pc' \in {"sync", "rollback"}
      BY <2>3 DEF Download, Extract, Verify, Sanity, At, GoTo
    <3> QED BY <3>1, OutsideLeft, Distances
  <2>4. CASE Sync
    <3>1. pc = "sync" /\ pc' \in {"restart", "rollback", "idle", "open"}
      BY <2>4 DEF Sync, AfterSync, At, GoTo
    <3>2. CASE pc' = "open"
      <4>1. StepsLeft = 16 /\ StepsLeft' \in {10, 15}
        BY <3>1, <3>2, Distances DEF StepsLeft, FirstInstall
      <4> QED BY <4>1
    <3>3. CASE pc' # "open"
      BY <3>1, <3>3, OutsideLeft, Distances
    <3> QED BY <3>2, <3>3
  <2>5. CASE Restart \/ Fallback \/ StartOld \/ Cleanup \/ Rollback
    <3>1. \/ pc = "restart" /\ pc' \in {"cleanup", "fallback"}
          \/ pc = "fallback" /\ pc' \in {"startOld", "idle"}
          \/ pc \in {"startOld", "cleanup", "rollback"} /\ pc' = "idle"
      BY <2>5 DEF Restart, Fallback, StartOld, Cleanup, Rollback, At, GoTo, Finish
    <3> QED BY <3>1, OutsideLeft, Distances
  <2> QED BY <1>1, <2>1, <2>2, <2>3, <2>4, <2>5 DEF UpdateStep
<1>2. CASE InstallStep
  <2>1. CASE InstallReturns /\ pc \in {"open", "remove", "create", "copy"}
    BY <2>1, InstallLeft
  <2>2. CASE /\ UNCHANGED again /\ pc \in {"open", "remove", "create"}
             /\ pc' = IF pc = "open" THEN "remove" ELSE IF pc = "remove" THEN "create" ELSE "copy"
    BY <2>2, InsideLeft
  <2>3. CASE InstallOpen \/ InstallRemove \/ InstallCreate \/ InstallCopy
    BY <2>1, <2>2, <2>3 DEF InstallOpen, InstallRemove, InstallCreate, InstallCopy, At, GoTo, locals
  <2>4. CASE LookPath
    <3>1. StepsLeft = 11
      BY <2>4, Distances DEF LookPath, At, StepsLeft, FirstInstall
    <3>2. StepsLeft' \in {6, 10}
      BY <2>4, Distances DEF LookPath, StepsLeft, FirstInstall
    <3> QED BY <3>1, <3>2
  <2>5. CASE InstallDies \/ ScriptOpen \/ ScriptWrite \/ ScriptOverwrite
    <3>0. \/ \E ok \in BOOLEAN : Exit(ok)
          \/ pc = "script" /\ pc' \in {"write", "overwrite"}
      BY <2>5 DEF InstallDies, ScriptOpen, ScriptWrite, ScriptOverwrite, At, GoTo
    <3>1. StepsLeft' \in 0..4 \/ (pc = "script" /\ pc' \in {"write", "overwrite"})
      BY <3>0, ExitLeft
    <3>2. StepsLeft \in {15, 6, 5}
      <4>1. (pc = "open" /\ ~again) \/ pc \in {"script", "write", "overwrite"}
        BY <2>5 DEF InstallDies, ScriptOpen, ScriptWrite, ScriptOverwrite, At
      <4> QED BY <4>1, Distances DEF StepsLeft, FirstInstall
    <3>3. CASE pc = "script" /\ pc' \in {"write", "overwrite"}
      BY <3>3, OutsideLeft, Distances
    <3> QED BY <3>1, <3>2, <3>3
  <2> QED BY <1>2, <2>3, <2>4, <2>5 DEF InstallStep
<1>3. CASE UninstallStep
  <2>1. \/ pc = "stop" /\ pc' = "rmScript"
        \/ pc = "rmScript" /\ pc' = "rmBinary"
        \/ pc = "rmBinary" /\ pc' = "idle"
    BY <1>3 DEF UninstallStep, RmStop, RmScript, Uninstall, At, GoTo, Finish
  <2> QED BY <2>1, OutsideLeft, Distances
<1> QED BY <1>1, <1>2, <1>3 DEF CommandStep

\* No failure leads a command in a circle; an update takes 23 steps at most, of any
\* release, with Install and AddService calling each other.
THEOREM EndComesNearer == Spec => NearerEnd
<1>1. TypeOK /\ [Next]_vars => [CommandStep => StepsLeft' \in 0..(StepsLeft - 1)]_vars
  BY NearerStep
<1> QED BY <1>1, TypeCorrect, PTL DEF NearerEnd, Spec
============================================================================
