------------------------------ MODULE MCMain --------------------------------
(***************************************************************************)
(* Command lines for Main, with size_t of eight bits: every short text     *)
(* for every option, pairs of options with telling values, and every short *)
(* arrangement of a few words.                                             *)
(***************************************************************************)
EXTENDS Main

MCDefault ==
    [socket_path |-> <<"s">>, max_entries |-> 10, max_cache_bytes |-> 100,
     max_value_bytes |-> 20, max_key_bytes |-> 4, worker_threads |-> 4,
     max_pending_requests |-> 30, max_connections |-> 9, max_conn_output_bytes |-> 40,
     max_inflight_per_conn |-> 5, accept_backlog |-> 5, shutdown_drain_ms |-> 2]

Texts == SeqOf({"0", "2", "5", "9", "k", "g"}, 3)

Single == {<<Inline(name, text)>> : name \in DOMAIN MCDefault, text \in Texts}

Telling == {<<"0">>, <<"4", "k">>, <<"6", "4">>, <<"2", "4", "9">>, <<"2", "5", "5">>}
Pairs ==
    {<<Inline(n1, t1), Inline(n2, t2)>> :
        n1, n2 \in Numeric, t1, t2 \in Telling}

Words == {Option("worker_threads"), Option("socket_path"), Option("--help"), Option("--verbose"),
          Text(<<"2">>), Text(<<"x">>), Inline("worker_threads", <<"7">>)}
Arranged == SeqOf(Words, 4)

MCFollowed == {<<>>, <<Inline("worker_threads", <<"7">>)>>}
MCCommandLines == Single \union Pairs \union Arranged \union MCFollowed
=============================================================================
