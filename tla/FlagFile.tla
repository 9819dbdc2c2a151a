------------------------------- MODULE FlagFile -------------------------------
(***************************************************************************)
(* The streamer processes of one agent.  Genesys starts one per call, with *)
(* /startRecording; it records until the agent's flag file is gone.  A     *)
(* second one per call, without /startRecording, removes the file.  All of *)
(* them use the same file, simple-flag-{AgentID}.txt (streamer.py).        *)
(***************************************************************************)
EXTENDS Naturals

CONSTANTS
    MaxCalls,  \* bound: calls of the agent
    Mishaps    \* per call, "create": the file cannot be written; "remove":
               \* nor removed by a process of the call; "interrupt" the
               \* monitoring loop; "kill" the process; "slow" threads

ASSUME FlagFileAssumption ==
    /\ MaxCalls \in Nat
    /\ Mishaps \in [1 .. MaxCalls -> SUBSET {"create", "remove", "interrupt", "kill", "slow"}]

VARIABLES
    flag,       \* the process id in the flag file: the call of its process
    proc,       \* per call, where its recording process is
    stopper     \* per call, the process that is to stop it

flagVars == <<flag, proc, stopper>>

Calls == 1 .. MaxCalls
NoFlag == 0

FlagInit ==
    /\ flag = NoFlag
    /\ proc = [c \in Calls |-> "none"]
    /\ stopper = [c \in Calls |-> "none"]

(* The agent has one call at a time. *)
Start(c) ==
    /\ proc[c] = "none"
    /\ \A d \in Calls : d < c => stopper[d] # "none"
    /\ proc' = [proc EXCEPT ![c] = "starting"]
    /\ UNCHANGED <<flag, stopper>>

(* _create_flag_file overwrites the file; then the threads are started. *)
CreateFlag(c) ==
    /\ proc[c] = "starting"
    /\ \/ flag' = c
       \/ "create" \in Mishaps[c] /\ UNCHANGED flag
    /\ proc' = [proc EXCEPT ![c] = "recording"]
    /\ UNCHANGED stopper

(* The call ends; Genesys starts the second process, ... *)
EndCall(c) ==
    /\ proc[c] # "none" /\ stopper[c] = "none"
    /\ stopper' = [stopper EXCEPT ![c] = "starting"]
    /\ UNCHANGED <<flag, proc>>

(* _remove_flag_file removes whatever file there is by now; an error of    *)
(* os.remove is logged, and the caller goes on.                            *)
RemoveFlagFile(c) ==
    \/ flag' = NoFlag
    \/ "remove" \in Mishaps[c] /\ UNCHANGED flag

(* ... which removes the file. *)
RemoveFlag(c) ==
    /\ stopper[c] = "starting"
    /\ stopper' = [stopper EXCEPT ![c] = "done"]
    /\ RemoveFlagFile(c)
    /\ UNCHANGED proc

(* Every half second the process looks for the file.  A keyboard interrupt *)
(* or an error in the loop stops it, too.                                  *)
Monitor(c) ==
    /\ proc[c] = "recording"
    /\ flag = NoFlag \/ "interrupt" \in Mishaps[c]
    /\ proc' = [proc EXCEPT ![c] = "stopping"]
    /\ UNCHANGED <<flag, stopper>>

(* Mutant: the file is taken to be gone. *)
StopWithFlag(c) ==
    /\ proc[c] = "stopping"
    /\ proc' = [proc EXCEPT ![c] = "joining"]
    /\ UNCHANGED <<flag, stopper>>

(* stop() removes the file, and then sets stop_event in any case. *)
Stop(c) ==
    /\ proc[c] = "stopping"
    /\ RemoveFlagFile(c)
    /\ proc' = [proc EXCEPT ![c] = "joining"]
    /\ UNCHANGED stopper

(* The threads are joined and the process ends. *)
Exit(c) ==
    /\ proc[c] = "joining"
    /\ proc' = [proc EXCEPT ![c] = "exited"]
    /\ UNCHANGED <<flag, stopper>>

(* The process is killed, or the icon's notification raises in stop()      *)
(* before the file is removed.                                             *)
Kill(c) ==
    /\ "kill" \in Mishaps[c]
    /\ proc[c] \in {"recording", "stopping"}
    /\ proc' = [proc EXCEPT ![c] = "killed"]
    /\ UNCHANGED <<flag, stopper>>

Genesys(c) == Start(c) \/ EndCall(c) \/ RemoveFlag(c)

-----------------------------------------------------------------------------
(* Properties *)

(* Every variable keeps its type. *)
FlagTypeOK ==
    /\ flag \in Calls \cup {NoFlag}
    /\ proc \in [Calls -> {"none", "starting", "recording", "stopping", "joining", "exited", "killed"}]
    /\ stopper \in [Calls -> {"none", "starting", "done"}]

(* The file shows that a recording is in progress: as long as it is there, *)
(* the process that wrote it has not passed its stop, unless it was killed *)
(* or the removal in its stop() may fail.  This holds however many         *)
(* processes create and remove the one file, and also if removals fail in  *)
(* the others.                                                             *)
FlagMeansRecording ==
    flag # NoFlag =>
        \/ proc[flag] \in {"recording", "stopping", "killed"}
        \/ "remove" \in Mishaps[flag]
=============================================================================
