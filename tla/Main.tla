------------------------------- MODULE Main ---------------------------------
(***************************************************************************)
(* main() of the daemon (src/src/main.cpp): the command line is parsed and *)
(* checked, and the server started with what came of it, on a path other   *)
(* daemons started in the same way may use.                                *)
(***************************************************************************)
EXTENDS Startup, Config

CONSTANTS
    CommandLines,   \* what the operator may type; one is chosen per behaviour
    Followed        \* bound: those whose daemons are followed beyond main()

ASSUME FollowedAreTyped == Followed \subseteq CommandLines

VARIABLES
    command,   \* the command line of every daemon here; it does not change
    parsed,    \* what parse_server_args() returned to each
    exit       \* the exit code of those that did not get to start(), else -1

mainvars == <<command, parsed, exit, vars>>

Nothing == [result |-> "none"]

MainInit ==
    /\ command \in CommandLines
    /\ parsed = [d \in Daemon |-> Nothing]
    /\ exit = [d \in Daemon |-> -1]
    /\ Init

\* A server is started with a configuration, and not otherwise.
main(d) ==
    /\ at[d] = "off"
    /\ LET p == parse_server_args(command)
       IN  /\ parsed' = [parsed EXCEPT ![d] = p]
           /\ \/ p.result = "help" /\ exit' = [exit EXCEPT ![d] = 0] /\ UNCHANGED vars
              \/ p.result = "error" /\ exit' = [exit EXCEPT ![d] = 2] /\ UNCHANGED vars
              \/ /\ p.result = "config"
                 /\ IF command \in Followed THEN start(d) ELSE UNCHANGED vars
                 /\ UNCHANGED exit
    /\ UNCHANGED command

serve(d) ==
    /\ step(d) \/ shutdown(d) \/ crash(d)
    /\ UNCHANGED <<command, parsed, exit>>

MainNext == \E d \in Daemon : main(d) \/ serve(d)

MainSpec == MainInit /\ [][MainNext]_mainvars

-----------------------------------------------------------------------------
(* Properties. *)

\* The daemon does what its command line says: it starts exactly when every option
\* is known, every number fits and every limit is workable, with the exact value of
\* the last text given for each field and the default of the others; it prints help
\* and exits with 0 when asked before anything is wrong, and exits with 2 otherwise.
\* So nothing wraps, in parse_size() or in the sum of validate(): the cache of a
\* daemon that starts has room for an entry of the longest key and value.  (Nothing
\* like that holds of responses: validate() compares the value alone with the output
\* limit, without the header, and connection.cpp doubles the limit.)
CommandLineHonoured ==
    LET help == AsksForHelp(command)
        proper == \A i \in DOMAIN Settings(command) : Proper(Settings(command)[i])
        starts == ~help /\ proper /\ Workable(Said(command))
    IN  \A d \in Daemon : parsed[d] # Nothing =>
          /\ exit[d] = IF help THEN 0 ELSE IF starts THEN -1 ELSE 2
          /\ starts <=> parsed[d].result = "config"
          /\ starts => parsed[d].config = Said(command)
          /\ at[d] # "off" => starts
=============================================================================
