------------------------------- MODULE Config -------------------------------
(***************************************************************************)
(* The daemon's command line (src/src/config.cpp) as pure operators.       *)
(* size_t holds 0..SizeMax, its arithmetic wraps, and all numbers are      *)
(* scaled down with it.  A text is a sequence of characters, a word of     *)
(* argv an option, perhaps with "=" and a text, or a mere text.            *)
(***************************************************************************)
EXTENDS Integers, Sequences, SequencesExt

CONSTANTS
    SizeMax,                   \* bound: the largest size_t
    Kilo,                      \* scaled: 1024
    kMaxKeyBytesHardLimit, kMaxValueBytesHardLimit, kMaxWorkerThreads,
    kEntryOverheadBytes,
    kMaxBacklog, kMaxDrainMs,  \* the literals 65535 and 600'000
    kSunPath,                  \* sizeof(sun_path)
    Default                    \* ServerConfig with its initializers

Characters == <<"0", "1", "2", "3", "4", "5", "6", "7", "8", "9">>
Digit == [c \in ToSet(Characters) |-> (CHOOSE i \in DOMAIN Characters : Characters[i] = c) - 1]
Suffix == [k |-> Kilo, m |-> Kilo * Kilo, g |-> Kilo * Kilo * Kilo]

multiplier(text) == IF Last(text) \in DOMAIN Suffix THEN Suffix[Last(text)] ELSE 1
digits(text) == IF Last(text) \in DOMAIN Suffix THEN Front(text) ELSE text

NotANumber == -1

\* Mutant: the digit to come is left out of the test.
OverflowsLate(value, digit) == value > SizeMax \div 10

Overflows(value, digit) == value > (SizeMax - digit) \div 10

AddDigit(value, c) ==
    IF value = NotANumber \/ c \notin DOMAIN Digit THEN NotANumber
    ELSE IF Overflows(value, Digit[c]) THEN NotANumber
    ELSE (value * 10 + Digit[c]) % (SizeMax + 1)

parse_size(text) ==
    IF text = <<>> \/ digits(text) = <<>> THEN NotANumber
    ELSE LET value == FoldLeft(AddDigit, 0, digits(text))
         IN  IF value = NotANumber \/ value > SizeMax \div multiplier(text) THEN NotANumber
             ELSE (value * multiplier(text)) % (SizeMax + 1)

\* The options that take a number, named by the field they set.
Numeric == {"max_entries", "max_cache_bytes", "max_value_bytes", "max_key_bytes",
            "worker_threads", "max_pending_requests", "max_connections",
            "max_conn_output_bytes", "max_inflight_per_conn", "accept_backlog",
            "shutdown_drain_ms"}

\* The two options converted to int have a ceiling of their own.
Ceiling(o) == CASE o = "accept_backlog" -> kMaxBacklog
                [] o = "shutdown_drain_ms" -> kMaxDrainMs
                [] OTHER -> SizeMax

-----------------------------------------------------------------------------
(* ServerConfig::validate(). *)

validate(c) ==
    /\ c.socket_path # <<>> /\ Len(c.socket_path) < kSunPath
    /\ c.max_entries # 0
    /\ c.max_value_bytes # 0 /\ c.max_value_bytes <= kMaxValueBytesHardLimit
    /\ c.max_key_bytes # 0 /\ c.max_key_bytes <= kMaxKeyBytesHardLimit
    /\ c.max_cache_bytes >=
         (c.max_value_bytes + c.max_key_bytes + kEntryOverheadBytes) % (SizeMax + 1)
    /\ c.worker_threads # 0 /\ c.worker_threads <= kMaxWorkerThreads
    /\ c.max_pending_requests # 0
    /\ c.max_connections # 0
    /\ c.max_inflight_per_conn # 0
    /\ c.max_conn_output_bytes >= c.max_value_bytes
    /\ c.accept_backlog > 0
    /\ c.shutdown_drain_ms >= 0

-----------------------------------------------------------------------------
(* parse_server_args(). *)

Option(name) == [kind |-> "option", name |-> name, text |-> <<"-">>]
Inline(name, text) == [kind |-> "inline", name |-> name, text |-> text]
Text(text) == [kind |-> "text", name |-> "none", text |-> text]

\* Where the loop is: still going, the option whose value the next word is, and the
\* configuration so far.
Loop(going, awaits, config) == [going |-> going, awaits |-> awaits, config |-> config]
Stopped(result) == Loop(result, "none", Default)

\* An option has its value.
Assign(config, name, text) ==
    IF name = "socket_path" THEN Loop("yes", "none", [config EXCEPT !.socket_path = text])
    ELSE IF name \notin Numeric THEN Stopped("error")
    ELSE LET size == parse_size(text)
         IN  IF size = NotANumber \/ size > Ceiling(name) THEN Stopped("error")
             ELSE Loop("yes", "none", [config EXCEPT ![name] = size])

\* The next word.  After an option without "=" it is the value, whatever it looks
\* like.
TakeWord(loop, word) ==
    IF loop.going # "yes" THEN loop
    ELSE IF loop.awaits # "none" THEN Assign(loop.config, loop.awaits, word.text)
    ELSE IF word = Option("--help") THEN Stopped("help")
    ELSE IF word = Option("--verbose") THEN loop
    ELSE IF word.kind = "inline" THEN Assign(loop.config, word.name, word.text)
    ELSE Loop("yes", IF word.kind = "option" THEN word.name ELSE "unknown", loop.config)

Refused == [result |-> "error"]

parse_server_args(argv) ==
    LET end == FoldLeft(TakeWord, Loop("yes", "none", Default), argv)
    IN  IF end.going = "help" THEN [result |-> "help"]
        ELSE IF end.going = "error" \/ end.awaits # "none" \/ ~validate(end.config) THEN Refused
        ELSE [result |-> "config", config |-> end.config]

-----------------------------------------------------------------------------
(* The same in other words: what a command line says. *)

\* The number a text stands for, however large, or NotANumber.
Meant(text) ==
    IF text = <<>> \/ digits(text) = <<>> \/ ~(ToSet(digits(text)) \subseteq DOMAIN Digit)
    THEN NotANumber
    ELSE FoldLeft(LAMBDA v, c : v * 10 + Digit[c], 0, digits(text)) * multiplier(text)

\* Whether word i is the value of the option before it.
IsValue(argv) ==
    LET taken[i \in 0..Len(argv)] ==
          i > 1 /\ ~taken[i - 1] /\ argv[i - 1].kind # "inline"
            /\ argv[i - 1] \notin {Option("--help"), Option("--verbose")}
    IN  taken

\* The options of a command line that take a value, each with its text, if any.
Settings(argv) ==
    LET value == IsValue(argv)
    IN  [i \in {j \in DOMAIN argv : ~value[j] /\ argv[j] \notin {Option("--help"), Option("--verbose")}} |->
           IF argv[i].kind = "inline" THEN [name |-> argv[i].name, text |-> argv[i].text]
           ELSE IF i + 1 \in DOMAIN argv THEN [name |-> argv[i].name, text |-> argv[i + 1].text]
           ELSE [name |-> "missing", text |-> <<>>]]

Proper(setting) ==
    \/ setting.name = "socket_path"
    \/ setting.name \in Numeric /\ Meant(setting.text) \in 0..Ceiling(setting.name)

\* The last text of an option counts; an option not given leaves the default.
Said(argv) ==
    LET settings == Settings(argv)
        given(name) == {i \in DOMAIN settings : settings[i].name = name}
    IN  [name \in DOMAIN Default |->
           IF given(name) = {} THEN Default[name]
           ELSE LET text == settings[Max(given(name))].text
                IN  IF name = "socket_path" THEN text ELSE Meant(text)]

\* What the messages of validate() ask for, of numbers that do not wrap.
Workable(c) ==
    /\ Len(c.socket_path) \in 1..(kSunPath - 1)
    /\ \A name \in Numeric \ {"shutdown_drain_ms"} : c[name] > 0
    /\ c.max_value_bytes <= kMaxValueBytesHardLimit
    /\ c.max_key_bytes <= kMaxKeyBytesHardLimit
    /\ c.worker_threads <= kMaxWorkerThreads
    /\ c.max_value_bytes + c.max_key_bytes + kEntryOverheadBytes <= c.max_cache_bytes
    /\ c.max_value_bytes <= c.max_conn_output_bytes

\* Help is given if nothing before it is wrong.
AsksForHelp(argv) ==
    \E i \in DOMAIN argv :
        /\ argv[i] = Option("--help") /\ ~IsValue(argv)[i]
        /\ \A j \in DOMAIN Settings(argv) : j < i => Proper(Settings(argv)[j])
=============================================================================
