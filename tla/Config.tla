--------------------------------- MODULE Config ---------------------------------
(***************************************************************************)
(* config.rs: the configuration of one invocation, resolved from the       *)
(* command line, the environment, a file and the defaults.                 *)
(*                                                                         *)
(* Abstractions.  A layer is a record with None in the settings it leaves  *)
(* alone.  output_format and watch_debounce_ms resolve as database_path    *)
(* does and are left out; so is the text of a layer: one that cannot be    *)
(* parsed (TOML, a list, a number, a glob) is Bad.                         *)
(***************************************************************************)
EXTENDS Integers, Sequences, FiniteSets, SequencesExt

CONSTANTS
  None,     \* Option::None, and a file that does not exist
  Bad,      \* what cannot be parsed
  Invalid   \* load returns an error

Silent ==
  [database_path |-> None, default_agents |-> None, exclude |-> None,
   watch_interval_seconds |-> None, tokenizer |-> None, tokenizer_extension |-> None]

Defaults ==
  [database_path |-> "default.db", default_agents |-> <<"claude", "codex">>, exclude |-> {},
   watch_interval_seconds |-> 300, tokenizer |-> "unicode61", tokenizer_extension |-> None]

\* A setting a layer leaves alone differs from what the defaults give it.
ASSUME ConfigAssumption ==
  /\ None # "default.db" /\ None # <<"claude", "codex">> /\ None # {} /\ None # 300
  /\ None # "unicode61" /\ None # "jieba"

\* What a layer that can be parsed is: TokenizerKind has two values.
IsLayer(layer) ==
  /\ DOMAIN layer = DOMAIN Silent
  /\ layer.tokenizer \in {None, "unicode61", "jieba"}

Over(value, lower) == IF value = None THEN lower ELSE value

\* Mutated form: an explicit unicode61 does not clear a lower extension.
KeepExtension(config, layer) ==
  IF layer.tokenizer = None THEN config ELSE [config EXCEPT !.tokenizer = layer.tokenizer]

Selected(config, layer) ==
  IF layer.tokenizer = None THEN config
  ELSE [config EXCEPT
          !.tokenizer = layer.tokenizer,
          !.tokenizer_extension = IF layer.tokenizer = "unicode61" THEN None ELSE @]

\* apply_tokenizer_layer
TokenizerLayer(config, layer) ==
  LET selected == Selected(config, layer)
  IN IF layer.tokenizer_extension = None THEN selected
     ELSE [selected EXCEPT
             !.tokenizer = IF layer.tokenizer = None THEN "jieba" ELSE @,
             !.tokenizer_extension = layer.tokenizer_extension]

\* apply_file, apply_environment, apply_overrides
Apply(config, layer) ==
  [TokenizerLayer(config, layer) EXCEPT
     !.database_path = Over(layer.database_path, @),
     !.default_agents = Over(layer.default_agents, @),
     !.exclude = Over(layer.exclude, @),
     !.watch_interval_seconds = Over(layer.watch_interval_seconds, @)]

FirstOccurrences(agents) ==
  LET first == {i \in DOMAIN agents : \A j \in 1 .. i - 1 : agents[j] # agents[i]}
      order == SetToSortSeq(first, <)
  IN [i \in DOMAIN order |-> agents[order[i]]]

Valid(config) ==
  /\ config.default_agents # <<>>
  /\ config.exclude # Bad
  /\ (config.tokenizer = "jieba") = (config.tokenizer_extension # None)
  /\ config.watch_interval_seconds # 0

Validated(config) ==
  IF Valid(config)
  THEN [config EXCEPT !.default_agents = FirstOccurrences(@)]
  ELSE Invalid

\* The file that --config or TRACEDB_CONFIG names has to exist.
Load(files, environment, overrides) ==
  LET named == Over(overrides.config_path, environment.config_path)
      file == files[Over(named, "default.toml")]
  IN IF file = Bad \/ environment.layer = Bad \/ (named # None /\ file = None) THEN Invalid
     ELSE Validated(Apply(Apply(Apply(Defaults, Over(file, Silent)),
                                environment.layer),
                          overrides.layer))

(***************************************************************************)
(* What README.md:149-150 and README.md:604-609 say of the layers, highest *)
(* first: each setting comes from the highest layer that has it; a layer   *)
(* with an extension and no tokenizer selects jieba; an explicit unicode61 *)
(* clears the extensions below it; jieba without an extension is an error, *)
(* and so is an extension with unicode61.                                  *)
(***************************************************************************)
Top(setting) ==
  IF setting = {} THEN 0 ELSE CHOOSE i \in setting : \A j \in setting : i <= j

Having(layers, field) == {i \in DOMAIN layers : layers[i][field] # None}

Resolved(layers) ==
  LET from(field) == layers[Top(Having(layers, field))][field]
      explicit == Top(Having(layers, "tokenizer"))
      cleared == Top({i \in DOMAIN layers : layers[i].tokenizer = "unicode61"})
      supplied == Top(Having(layers, "tokenizer_extension"))
      \* The defaults select unicode61, below every extension.
      extension == IF supplied = 0 \/ cleared < supplied THEN None
                   ELSE layers[supplied].tokenizer_extension
      implied == supplied # 0 /\ supplied < explicit
  IN [database_path |-> from("database_path"),
      default_agents |-> from("default_agents"),
      exclude |-> from("exclude"),
      watch_interval_seconds |-> from("watch_interval_seconds"),
      tokenizer |-> IF implied THEN "jieba" ELSE layers[explicit].tokenizer,
      tokenizer_extension |-> extension]

Documented(layers) == Validated(Resolved(layers))
=============================================================================
