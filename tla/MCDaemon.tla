------------------------------- MODULE MCDaemon -------------------------------
(***************************************************************************)
(* A small instance of Daemon: the three platforms, two definitions.       *)
(***************************************************************************)
EXTENDS Daemon, TLC

\* The settings of the tokenizer a layer may have.
Tokenized(tokenizer, extension) ==
  [Silent EXCEPT !.tokenizer = tokenizer, !.tokenizer_extension = extension]

FilesOf ==
  {None, Bad,
   [Tokenized(None, "lib.so") EXCEPT !.default_agents = <<"pi", "claude", "pi">>]}

OtherFiles ==
  [name \in {"named.toml", "absent.toml"} |->
    IF name = "named.toml" THEN Tokenized("jieba", "lib.so") ELSE None]

Plainly(layer) == [config_path |-> None, layer |-> layer]

Shells == {Plainly(Silent), Plainly(Tokenized(None, "env.so"))}

Called == {Plainly(Silent), Plainly([Silent EXCEPT !.database_path = "my.db"])}

Options == {[Silent EXCEPT !.watch_interval_seconds = 1800, !.default_agents = <<"pi">>]}

Tried ==
  {Plainly(Tokenized(t, e)) : t \in {None, "unicode61", "jieba"}, e \in {None, "x.so"}}
  \cup {Plainly(Bad), [config_path |-> "absent.toml", layer |-> Silent],
        [config_path |-> "named.toml", layer |-> Silent],
        Plainly([Silent EXCEPT !.database_path = "x.db", !.exclude = {"x"}]),
        Plainly([Silent EXCEPT !.exclude = Bad]),
        Plainly([Silent EXCEPT !.default_agents = <<>>, !.watch_interval_seconds = 0])}
=============================================================================
