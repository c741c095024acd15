------------------------------ MODULE ModuleReload ------------------------------
(***************************************************************************)
(* The program of src/src/dl_rt/main.c, which looks before each call       *)
(* whether the shared object it calls has been built anew, while somebody  *)
(* builds it.                                                              *)
(*                                                                         *)
(* A build is a version with the time in seconds it was made.  dlopen maps *)
(* what the file holds only when no mapping of that name is left; else it  *)
(* counts one more user of the old one, and dlclose one less.              *)
(***************************************************************************)
EXTENDS Integers

CONSTANTS None,        \* NULL, a missing or half-written file
          MaxVersion,  \* bound: how often the object is built
          MaxTime,     \* bound: how long this goes on
          MaxUpdates   \* bound: how many numbers the program reads

VARIABLES file,     \* version and st_mtime of the path, or None
          built,    \* the latest version
          now,
          at,       \* where the program is
          handle,   \* whether ptr->handle is set
          mod_time, \* ptr->mod_time
          run,      \* the version ptr->run points into
          mod_stat, \* the st_mtime of this update
          seen,     \* the version at the path when it called stat
          mapped,   \* the version that is mapped
          users,    \* how often dlopen has been called for it
          updates

disk == <<file, built, now>>
module == <<handle, mod_time, run>>
linker == <<mapped, users>>
vars == <<disk, at, module, mod_stat, seen, linker, updates>>

Version == 1 .. MaxVersion
Time == 0 .. MaxTime
Exists == file # None

Init ==
    /\ file = None /\ built = 0 /\ now = 0
    /\ at = "read"
    /\ handle = FALSE /\ mod_time = 0 /\ run = None
    /\ mod_stat = 0 /\ seen = None
    /\ mapped = None /\ users = 0
    /\ updates = 0

-------------------------------------------------------------------------------
(***************************************************************************)
(* The builder and the clock.                                              *)
(***************************************************************************)
Build ==
    /\ built < MaxVersion
    /\ built' = built + 1
    /\ file' = [version |-> built', mtime |-> now]
    /\ UNCHANGED <<now, at, module, mod_stat, seen, linker, updates>>

Remove ==
    /\ file' = None
    /\ UNCHANGED <<built, now, at, module, mod_stat, seen, linker, updates>>

Tick ==
    /\ now < MaxTime
    /\ now' = now + 1
    /\ UNCHANGED <<file, built, at, module, mod_stat, seen, linker, updates>>

-------------------------------------------------------------------------------
(***************************************************************************)
(* The program.                                                            *)
(***************************************************************************)
Read ==
    /\ at = "read"
    /\ updates < MaxUpdates
    /\ updates' = updates + 1
    /\ at' = "stat"
    /\ UNCHANGED <<disk, module, mod_stat, seen, linker>>

(* The result of stat is not looked at: without a file the time is what    *)
(* the stack holds.                                                        *)
Stat ==
    /\ at = "stat"
    /\ IF Exists THEN mod_stat' = file.mtime /\ seen' = file.version
       ELSE mod_stat' \in Time /\ seen' = None
    /\ at' = IF ~handle \/ mod_stat' # mod_time THEN "close" ELSE "open"
    /\ UNCHANGED <<disk, module, linker, updates>>

(* Mutation: dlclose until nothing is mapped. *)
CloseAll ==
    /\ at = "close"
    /\ users' = 0 /\ mapped' = None
    /\ handle' = FALSE
    /\ at' = "open"
    /\ UNCHANGED <<disk, mod_time, run, mod_stat, seen, updates>>

close_module ==
    /\ at = "close"
    /\ IF handle THEN /\ users' = users - 1
                      /\ mapped' = IF users = 1 THEN None ELSE mapped
       ELSE UNCHANGED linker
    /\ handle' = FALSE
    /\ at' = "open"
    /\ UNCHANGED <<disk, mod_time, run, mod_stat, seen, updates>>

(* dlopen is called whether the module was closed or not. *)
Open ==
    /\ at = "open"
    /\ users > 0 \/ Exists
    /\ mapped' = IF users > 0 THEN mapped ELSE file.version
    /\ users' = users + 1
    /\ handle' = TRUE /\ run' = mapped' /\ mod_time' = mod_stat
    /\ at' = "call"
    /\ UNCHANGED <<disk, mod_stat, seen, updates>>

(* No object to open, or one without the symbol: check_error ends the      *)
(* program.                                                                *)
OpenFails ==
    /\ at = "open"
    /\ users = 0
    /\ at' = "exited"
    /\ UNCHANGED <<disk, module, mod_stat, seen, linker, updates>>

Call ==
    /\ at = "call"
    /\ at' = "read"
    /\ UNCHANGED <<disk, module, mod_stat, seen, linker, updates>>

Next ==
    \/ Build \/ Remove \/ Tick
    \/ Read \/ Stat \/ close_module \/ Open \/ OpenFails \/ Call

Spec == Init /\ [][Next]_vars

-------------------------------------------------------------------------------
(***************************************************************************)
(* Properties.                                                             *)
(***************************************************************************)
TypeOK ==
    /\ file \in [version : Version, mtime : Time] \cup {None}
    /\ built \in 0 .. MaxVersion /\ now \in Time
    /\ at \in {"read", "stat", "close", "open", "call", "exited"}
    /\ handle \in BOOLEAN /\ mod_time \in Time /\ mod_stat \in Time
    /\ {run, seen, mapped} \subseteq Version \cup {None}
    /\ users \in 0 .. MaxUpdates /\ updates \in 0 .. MaxUpdates

(* The function that is called lies in what is mapped, and the program     *)
(* waits for its next number with a mapping that will be there.            *)
CallsMapped ==
    /\ at \in {"call", "stat"} /\ handle => run = mapped /\ mapped # None
    /\ mapped # None <=> users > 0

(* A module that has just been mapped is not older than the file was when  *)
(* stat was called, though the file can change between stat and dlopen.    *)
NotOlderThanSeen ==
    at = "call" /\ users = 1 /\ seen # None => mapped >= seen

(* Every call goes into a mapping that is there and not older than seen. *)
CallSafety == TypeOK /\ CallsMapped /\ NotOlderThanSeen

(* What keeps it from step to step: each update gives one use at most, and *)
(* no later version at the path is older than the one that was seen.       *)
IInv ==
    /\ TypeOK
    /\ mapped # None <=> users > 0
    /\ handle => users > 0 /\ run = mapped
    /\ at = "call" => handle
    /\ users + (IF at \in {"stat", "close", "open"} THEN 1 ELSE 0) <= updates
    /\ file # None => file.version <= built
    /\ seen # None => seen <= built
    /\ at \in {"close", "open"} /\ seen # None /\ file # None => file.version >= seen
    /\ NotOlderThanSeen

(* A use that is not given back, wherever the program is. *)
Kept(v) ==
    /\ run = v /\ mapped = v
    /\ users >= IF at = "open" /\ ~handle THEN 1 ELSE 2

(* An update that finds the module unchanged opens it all the same, and    *)
(* the program never gives that use back: from then on no build is called  *)
(* any more, however often the object is built and its new time noted.     *)
SecondUseIsForEver ==
    \A v \in Version :
        [](at = "call" /\ users >= 2 /\ mapped = v => [](run = v /\ mapped = v))
==============================================================================
