-------------------------------- MODULE Tool --------------------------------
(***************************************************************************)
(* The command-line client (src/client/client_main.cpp): one connection,   *)
(* one call of CacheClient, and an exit code.  "library" stands for a      *)
(* program that links the client and calls it as it likes.                 *)
(***************************************************************************)
EXTENDS CacheClient

Command == {"put", "get", "delete", "ping", "clear", "stats"}
NeedsKey == {"put", "get", "delete"}

VARIABLES
    command,   \* what was typed, or "library"
    keyed,     \* a key was typed
    main,      \* where main() is
    exit,      \* its exit code, or -1
    verdict    \* history: the status the server gave to the last request

toolvars == <<command, keyed, main, exit, verdict>>

\* "none" is the verdict on a request that has not been answered.
ASSUME ToolAssumption == "none" \notin Status

ToolInit ==
    /\ Init
    /\ command \in Command \union {"library", "--help", "nothing", "unknown"}
    /\ keyed \in BOOLEAN
    /\ main = "usage" /\ exit = -1 /\ verdict = "none"

Exits(code) == main' = "exited" /\ exit' = code
Proceeds(place) == main' = place /\ UNCHANGED exit

main_usage ==
    /\ main = "usage"
    /\ \/ command = "--help" /\ Exits(0)
       \/ command = "nothing" /\ Exits(2)
       \/ command \notin {"--help", "nothing"} /\ Proceeds("connect")
    /\ UNCHANGED vars

main_connect ==
    /\ main = "connect"
    /\ \/ connect /\ Proceeds("call")
       \/ Exits(1) /\ UNCHANGED vars

main_call ==
    /\ main = "call"
    /\ \/ /\ command \notin Command \/ (command \in NeedsKey /\ ~keyed)
          /\ Exits(2)
          /\ UNCHANGED vars
       \/ /\ command \in Command /\ (command \in NeedsKey => keyed)
          /\ \/ execute
             \/ command \in NeedsKey /\ execute_refuses(TRUE)
          /\ Proceeds("report")

\* Mutant: what is not an error is a success.
report_any(status) == 0

report_status(status) ==
    CASE status = "kOk" -> 0
      [] status = "kNotFound" -> 3
      [] OTHER -> 4

\* CacheClient::stats() turns any status but OK into an error of its own.
main_report ==
    /\ main = "report" /\ at = "idle"
    /\ Exits(IF ~result.ok \/ (command = "stats" /\ result.status # "kOk") THEN 1
             ELSE report_status(result.status))
    /\ UNCHANGED vars

main_step == main_usage \/ main_connect \/ main_call \/ main_report

ToolNext ==
    /\ \/ command # "library" /\ main_step /\ UNCHANGED verdict
       \/ command # "library" /\ call_step /\ UNCHANGED <<main, exit, verdict>>
       \/ command = "library" /\ (calls \/ call_step) /\ UNCHANGED <<main, exit, verdict>>
       \/ server_answers /\ verdict' = down'[Len(down')].status /\ UNCHANGED <<main, exit>>
       \/ server_else /\ UNCHANGED <<main, exit, verdict>>
    /\ UNCHANGED <<command, keyed>>

\* main() does not stop by itself.
ToolSpec == ToolInit /\ [][ToolNext]_<<vars, toolvars>> /\ WF_vars(call_step)

\* The exit code tells what the server did, through every loss on the way: 0 only
\* if it answered this very request with OK, 3 only if with NOT_FOUND, 4 only if
\* with another status; and a request it refused or never answered ends in neither
\* 0 nor 3 (report_status() and the tests of result.ok() in main()).
ExitTellsVerdict ==
    command \in Command =>
        /\ exit = 0 => verdict = "kOk"
        /\ exit = 3 => verdict = "kNotFound"
        /\ exit = 4 => verdict \notin {"none", "kOk", "kNotFound"}
        /\ exit = 2 => next_id = 1
=============================================================================
