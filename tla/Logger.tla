------------------------------- MODULE Logger --------------------------------
(***************************************************************************)
(* The LOG_* macros of src/Logger.h over the one Logger of the process: a  *)
(* statement sets the shared level, formats its message into a buffer of   *)
(* its own, and log() prints the level and then the rest of the line.      *)
(***************************************************************************)
EXTENDS Naturals, Sequences

CONSTANTS Threads,
          MaxLines          \* bound: the statements begun

VARIABLES
    logLevel_,
    statement,              \* of each thread: the level of the one it is in
    at,                     \* of each thread: how far it is
    out,                    \* std::cout: the pieces written to it
    begun,
    exited

vars == <<logLevel_, statement, at, out, begun, exited>>

Level == {"INFO", "ERROR", "FATAL", "DEBUG"}    \* DEBUG: when SZDEBUG is defined

\* The Logger is static, so its level starts as 0.
Init == /\ logLevel_ = "INFO"
        /\ statement = [t \in Threads |-> "INFO"]
        /\ at = [t \in Threads |-> "idle"]
        /\ out = <<>> /\ begun = 0 /\ exited = FALSE

\* A line's two pieces: the label and " time : msg", by the level it belongs to.
Label(level) == [piece |-> "label", level |-> level]
Message(level) == [piece |-> "message", level |-> level]

SetLogLevel(t) == /\ ~exited /\ at[t] = "idle" /\ begun < MaxLines
                  /\ \E level \in Level : /\ statement' = [statement EXCEPT ![t] = level]
                                          /\ logLevel_' = level
                  /\ begun' = begun + 1
                  /\ at' = [at EXCEPT ![t] = "formatted"]
                  /\ UNCHANGED <<out, exited>>

PrintLevel(t) == /\ ~exited /\ at[t] = "formatted"
                 /\ out' = Append(out, Label(logLevel_))
                 /\ at' = [at EXCEPT ![t] = "labelled"]
                 /\ UNCHANGED <<logLevel_, statement, begun, exited>>

PrintMessage(t) == /\ ~exited /\ at[t] = "labelled"
                   /\ out' = Append(out, Message(statement[t]))
                   /\ at' = [at EXCEPT ![t] = IF statement[t] = "FATAL" THEN "exit" ELSE "idle"]
                   /\ UNCHANGED <<logLevel_, statement, begun, exited>>

\* LOG_FATAL ends the process, whatever the other threads are in the middle of.
Exit(t) == /\ ~exited /\ at[t] = "exit"
           /\ exited' = TRUE
           /\ UNCHANGED <<logLevel_, statement, at, out, begun>>

Next == \E t \in Threads : SetLogLevel(t) \/ PrintLevel(t) \/ PrintMessage(t) \/ Exit(t)

Spec == Init /\ [][Next]_vars

\* log() promises lines of the form "[level] time : msg" (the comment at
\* Logger.cc:17): each message comes right after the label of its own level.
\* Logger does not keep it once two threads log.
LinesKeepTheirForm ==
    \A i \in DOMAIN out : out[i].piece = "message" =>
        i > 1 /\ out[i - 1] = Label(out[i].level)
==============================================================================
