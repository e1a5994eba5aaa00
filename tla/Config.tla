------------------------------- MODULE Config -------------------------------
(****************************************************************************)
(* The configuration of a command: defaults, over them the file, over that  *)
(* the environment (util/configloader, config/config.go); a file that is    *)
(* made when there is none (graph/local_config.go), and `sous config',      *)
(* which sets a value in it (cli/sous_config.go).  Commands run at the same *)
(* time, each with an environment of its own.                               *)
(*                                                                          *)
(* Fields of each kind stand for all: a path; a URL; a string of the same   *)
(* name in another part of the configuration, which must not be empty when  *)
(* a boolean says that it is used; an integer and a map of URLs.  A text is *)
(* "" or one of two that are good for a field of any kind, or "bad", which  *)
(* is no number, no boolean, no map, no URL and no place for a directory,   *)
(* or "ftp", which is a map, but of no URLs that are good.                  *)
(*                                                                          *)
(* The file is emptied and then written, and either may fail (the disk is   *)
(* full); nothing keeps two commands from writing it at the same time.      *)
(****************************************************************************)
EXTENDS Naturals, FiniteSets, Sequences, Functions, TLC

CONSTANTS Procs, Environments,
          Answers,       \* to the question for the server
          Edited,        \* the fields that are edited by hand
          Arguments,     \* [cmd |-> "work"], or a name and a value to set
          MaxRuns, MaxFaults   \* bounds

VARIABLES file,        \* NoFile, Broken or the fields that it has
          dirs,        \* the directories that there are
          proc,        \* the commands that run
          said,        \* what the user has set last, per field, or Unsaid
          unsure,      \* the fields that something else may have been written to
          runs, faults

vars == <<file, dirs, proc, said, unsure, runs, faults>>

(* In the order in which they are visited.                                  *)
Visited == <<"StateLocation", "Server", "SiblingURLs", "ExtraConsole", "GraphiteEnabled",
             "GraphiteServer", "PollIntervalForClient">>
Fields == Range(Visited)
Kind == [f \in Fields |->
            CASE f \in {"StateLocation", "Server", "GraphiteServer"} -> "string"
              [] f = "PollIntervalForClient" -> "int"
              [] f \in {"ExtraConsole", "GraphiteEnabled"} -> "bool"
              [] f = "SiblingURLs" -> "map"]
Name(f) == IF f = "GraphiteServer" THEN "Server" ELSE f        \* without its path
Texts == {"", "one", "two", "bad", "ftp"}
EditedAssumption == Edited \subseteq Fields
Unsaid == "unsaid"
Empty == [f \in {} |-> ""]
NoFile == [missing |-> "file"]
Broken == [broken |-> "file"]        \* whatever is not read as YAML
idle == [at |-> "idle"]

DefaultConfig == [f \in Fields |-> IF f = "PollIntervalForClient" THEN "one" ELSE ""]
defaultStateLocation == "one"

checkURL(text) == text \notin {"bad", "ftp"}
validateGraphite(c) == c["GraphiteEnabled"] # "" => c["GraphiteServer"] # ""
Validate(c) ==
    /\ c["Server"] # "" => checkURL(c["Server"])
    /\ checkURL(c["SiblingURLs"])
    /\ validateGraphite(c)

----------------------------------------------------------------------------
(* configloader.                                                            *)

Error == [error |-> TRUE]
IsError(r) == "error" \in DOMAIN r

(* What the environment makes of a field.  A boolean that is none is left   *)
(* as it was, others are an error and end the visit: the fields before them *)
(* keep what they have been given.                                          *)
Parses(kind, text) == kind = "string" \/ text = "one" \/ text = "two" \/ (kind = "map" /\ text = "ftp")
overrideField(f, old, env) ==
    IF f \in DOMAIN env /\ Parses(Kind[f], env[f]) THEN env[f] ELSE old
Refuses(f, env) == f \in DOMAIN env /\ Kind[f] # "bool" /\ ~Parses(Kind[f], env[f])
Refused(env) == \E f \in Fields : Refuses(f, env)
forEachField(env) ==
    {Visited[i] : i \in {j \in DOMAIN Visited : \A k \in 1..j : ~Refuses(Visited[k], env)}}
overrideWithEnv(c, env) ==
    LET visited == forEachField(env)
    IN  [f \in Fields |-> IF f \in visited THEN overrideField(f, c[f], env) ELSE c[f]]

loadYAMLFileMutant ==          \* mutant: the defaults lie over the file
    [f \in Fields |-> IF f \in DOMAIN file /\ DefaultConfig[f] = "" THEN file[f] ELSE DefaultConfig[f]]

(* The file lies over the defaults: what Save wrote holds all fields, what  *)
(* is left of it when that fails the first of them, or none.                *)
loadYAMLFile == [f \in Fields |-> IF f \in DOMAIN file THEN file[f] ELSE DefaultConfig[f]]

(* The directory is made before the environment is looked at.               *)
FillDefaults(c) ==
    IF c["StateLocation"] = "" THEN [c EXCEPT !["StateLocation"] = defaultStateLocation] ELSE c
EnsureDirExists(dir) == dir # "bad"
Load(env) ==
    LET c == FillDefaults(loadYAMLFile)
        ensured == file # Broken /\ EnsureDirExists(c["StateLocation"])
    IN  [config |-> IF ensured THEN overrideWithEnv(c, env) ELSE c,
         dirs |-> IF ensured THEN {c["StateLocation"]} ELSE {},
         failed |-> ~ensured \/ Refused(env)]

forFieldNamed(name) == {f \in Fields : Name(f) = name}
SetValue(c, name, text) ==
    IF forFieldNamed(name) = {} THEN Error
    ELSE IF \E f \in forFieldNamed(name) : Kind[f] \notin {"string", "int"} \/ ~Parses(Kind[f], text)
         THEN Error
    ELSE [f \in Fields |-> IF f \in forFieldNamed(name) THEN text ELSE c[f]]
SetValidValue(c, name, text) ==
    LET set == SetValue(c, name, text)
    IN  IF IsError(set) THEN Error ELSE IF Validate(set) THEN set ELSE Error

(* Of fields with one name, the last that is visited.                       *)
GetValue(c, name) == IF name = "Server" THEN c["GraphiteServer"] ELSE c[name]

----------------------------------------------------------------------------
(* Commands.                                                                *)

(* A command that is going to write the file.                               *)
Writing(p) == \/ proc[p].at \in {"init", "saving"}
              \/ proc[p].at = "run" /\ proc[p].args.cmd = "set"

(* newPossiblyInvalidConfig.  Without a file, one is written with what has  *)
(* been loaded and asked for, be it valid or not.                           *)
Start(p, env, args) ==
    /\ proc[p].at = "idle" /\ runs < MaxRuns /\ runs' = runs + 1
    /\ LET c == Load(env)
       IN  /\ dirs' = dirs \cup c.dirs
           /\ proc' = [proc EXCEPT ![p] =
                 IF file = NoFile
                 THEN [at |-> "init", config |-> c.config, failed |-> c.failed, args |-> args, env |-> env]
                 ELSE IF c.failed THEN idle
                 ELSE [at |-> "run", config |-> c.config, args |-> args, env |-> env]]
    /\ unsure' = IF args.cmd = "work" /\ file # NoFile THEN unsure
                 ELSE IF \E q \in Procs : Writing(q) THEN Fields
                 ELSE unsure \cup DOMAIN env
    /\ UNCHANGED <<file, said, faults>>

(* Save: the file is emptied, if it can be opened, and then written from    *)
(* its beginning.  Over what somebody else has written in between, that may *)
(* leave the end of theirs.                                                 *)
Fault == faults < MaxFaults /\ faults' = faults + 1
Save(p, c, sets, after) ==
    \/ /\ file' = Empty /\ UNCHANGED faults
       /\ proc' = [proc EXCEPT ![p] = [at |-> "saving", config |-> c, sets |-> sets, after |-> after]]
    \/ Fault /\ UNCHANGED file /\ proc' = [proc EXCEPT ![p] = after]

Part(c, n) == [f \in {Visited[i] : i \in 1..n} |-> c[f]]
WriteFile(p) ==
    LET r == proc[p] IN
    /\ r.at = "saving" /\ proc' = [proc EXCEPT ![p] = r.after]
    /\ \/ /\ file' = r.config \/ (file # Empty /\ file' = Broken)
          /\ said' = [f \in Fields |-> IF f \in DOMAIN r.sets THEN r.sets[f] ELSE said[f]]
          /\ UNCHANGED <<unsure, faults>>
       \/ /\ Fault /\ unsure' = Fields
          /\ file' = Broken \/ \E n \in 0..Len(Visited) : file' = Part(r.config, n)
          /\ UNCHANGED said
    /\ UNCHANGED <<dirs, runs>>

(* Where there is a terminal the user is asked for the server.              *)
userInitConfig(c, answer) == IF answer = "" THEN c ELSE [c EXCEPT !["Server"] = answer]
Initialise(p) ==
    LET r == proc[p] IN
    /\ r.at = "init"
    /\ \E answer \in Answers :
          LET c == userInitConfig(r.config, answer)
          IN  Save(p, c, IF answer = "" THEN Empty ELSE [f \in {"Server"} |-> answer],
                   IF r.failed THEN idle
                   ELSE [at |-> "run", config |-> c, args |-> r.args, env |-> r.env])
    /\ UNCHANGED <<dirs, said, unsure, runs>>

(* `sous config name value': what is saved is all that has been loaded.     *)
SousConfig(p) ==
    LET r == proc[p]
        c == SetValidValue(r.config, r.args.name, r.args.value)
    IN
    /\ r.at = "run" /\ r.args.cmd = "set"
    /\ \/ IsError(c) /\ proc' = [proc EXCEPT ![p] = idle] /\ UNCHANGED <<file, faults>>
       \/ /\ ~IsError(c)
          /\ Save(p, c, [f \in forFieldNamed(r.args.name) |-> r.args.value], idle)
    /\ UNCHANGED <<dirs, said, unsure, runs>>

(* Any other command works with a configuration that is valid.              *)
Work(p) ==
    /\ proc[p].at = "run" /\ proc[p].args.cmd = "work"
    /\ proc' = [proc EXCEPT ![p] = IF Validate(@.config)
                                   THEN [at |-> "works", config |-> @.config, env |-> @.env] ELSE idle]
    /\ UNCHANGED <<file, dirs, said, unsure, runs, faults>>
Exit(p) ==
    /\ proc[p].at = "works" /\ proc' = [proc EXCEPT ![p] = idle]
    /\ UNCHANGED <<file, dirs, said, unsure, runs, faults>>

(* The user may edit the file, to something valid or not.                   *)
Edit(f, text) ==
    /\ file \notin {NoFile, Broken} /\ runs < MaxRuns
    /\ Kind[f] = "string" \/ Parses(Kind[f], text)
    /\ file' = [g \in DOMAIN file \cup {f} |-> IF g = f THEN text ELSE file[g]]
    /\ said' = [said EXCEPT ![f] = text] /\ runs' = runs + 1
    /\ unsure' = IF \E q \in Procs : Writing(q) THEN Fields ELSE unsure
    /\ UNCHANGED <<dirs, proc, faults>>

Init == /\ file = NoFile /\ dirs = {} /\ proc = [p \in Procs |-> idle]
        /\ said = [f \in Fields |-> Unsaid] /\ unsure = {} /\ runs = 0 /\ faults = 0
Next ==
    \/ \E p \in Procs :
          \/ \E env \in Environments, args \in Arguments : Start(p, env, args)
          \/ Initialise(p) \/ SousConfig(p) \/ WriteFile(p) \/ Work(p) \/ Exit(p)
    \/ \E f \in Edited, text \in {"one", "ftp"} : Edit(f, text)
Spec == Init /\ [][Next]_vars

----------------------------------------------------------------------------
(* A command that sets one value loads and writes all of them.  What the    *)
(* user has set, at the first question, with `sous config' or by hand, is   *)
(* what the next command will load, whatever else was set since and by      *)
(* whichever commands - if they wrote the file one after the other and      *)
(* without failing, and none had that field from its environment.           *)
Asked == [f \in Fields |-> IF said[f] = Unsaid THEN DefaultConfig[f] ELSE said[f]]
SetIsKept ==
    \A f \in Fields :
        said[f] # Unsaid /\ f \notin unsure /\ (\A p \in Procs : proc[p].at # "saving") =>
            file \notin {NoFile, Broken} /\ FillDefaults(loadYAMLFile)[f] = FillDefaults(Asked)[f]

----------------------------------------------------------------------------
(* Said of the code by its comments or its use, and not so: see the README. *)

(* `sous config' validates what it writes: the file of a configuration that *)
(* is valid becomes no other but by its first writing or by hand.           *)
ValidFile(c) == c \notin {NoFile, Broken} /\ DOMAIN c = Fields /\ Validate(c)
ValidIsKept ==
    [][ValidFile(file) /\ ~ValidFile(file') =>
         \/ \E p \in Procs : proc[p].at = "init"
         \/ \E f \in Edited, text \in Texts : Edit(f, text)]_vars

Working(p) == proc[p].at = "works"
Overridden(p, f) == f \in DOMAIN proc[p].env

(* The environment overrides the file, for the command that is given it:    *)
(* `sous config' writes what is overridden into the file.                   *)
EnvironmentStaysOut ==
    \A p \in Procs : Working(p) => \A f \in Fields \ {"Server", "GraphiteServer"} :
        said[f] = Unsaid /\ ~Overridden(p, f) => proc[p].config[f] = FillDefaults(DefaultConfig)[f]

(* A key names one value.                                                   *)
KeysAreApart ==
    \A p \in Procs : Working(p) /\ ~Overridden(p, "GraphiteServer") =>
        proc[p].config["GraphiteServer"] = DefaultConfig["GraphiteServer"]

(* `sous config server' shows the server: the one of Graphite, as it is.    *)
GetShowsServer ==
    \A p \in Procs : proc[p].at = "run" => GetValue(proc[p].config, "Server") = proc[p].config["Server"]

(* "This is necessary for the 'sous config' command that should still work  *)
(* with invalid configs": one whose directory cannot be made, which the     *)
(* validation does not ask, ends every command, `sous config' too.          *)
ConfigCanBeRepaired == EnsureDirExists(FillDefaults(loadYAMLFile)["StateLocation"])

(* The directory of the state is there.                                     *)
StateHasPlace == \A p \in Procs : Working(p) => proc[p].config["StateLocation"] \in dirs

(* What was set is seen.                                                    *)
SetIsSeen ==
    \A p \in Procs : \A f \in {"Server", "PollIntervalForClient"} :
        Working(p) /\ (\A q \in Procs \ {p} : proc[q] = idle) /\ said[f] # Unsaid /\ ~Overridden(p, f)
            => proc[p].config[f] = said[f]
=============================================================================
