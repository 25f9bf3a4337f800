------------------------------ MODULE YamlTokens ------------------------------
(***************************************************************************)
(* The token streams that libyaml's scanner hands to the converter and to   *)
(* yaml2profile(), as those two use them.  The four tokens KEY scalar VALUE *)
(* scalar are one PAIR here, and KEY scalar VALUE without a scalar after it *)
(* is a KEY.                                                                *)
(***************************************************************************)
EXTENDS Integers, Sequences, FiniteSets, SequencesExt

Tok(t, k, v) == [t |-> t, k |-> k, v |-> v]

ENTRY == Tok("ENTRY", "", "")       \* YAML_BLOCK_ENTRY_TOKEN
MAP   == Tok("MAP", "", "")         \* YAML_BLOCK_MAPPING_START_TOKEN
SEQ   == Tok("SEQ", "", "")         \* YAML_BLOCK_SEQUENCE_START_TOKEN
FLOW  == Tok("FLOW", "", "")        \* YAML_FLOW_SEQUENCE_START_TOKEN and END
END   == Tok("END", "", "")         \* YAML_BLOCK_END_TOKEN
NONE  == Tok("NONE", "", "")        \* what a scan past the end of stream gives
ERROR == Tok("ERROR", "", "")       \* yaml_parser_scan() fails: half a key or quote
SCALAR(v)  == Tok("SCALAR", "", v)
PAIR(k, v) == Tok("PAIR", k, v)
KEY(k)     == Tok("KEY", k, "")

\* SCAN(): the next token of a stream, and what is left of it.
Peek(s) == IF s = <<>> THEN NONE ELSE Head(s)

Drop(s) == IF s = <<>> THEN s ELSE Tail(s)

\* The mappings and lists that are open after s: the scanner closes them when
\* the stream ends.
Unclosed(s) ==
  Cardinality({i \in 1..Len(s) : s[i] \in {MAP, SEQ}})
  - Cardinality({i \in 1..Len(s) : s[i] = END})

Closed(s) == s \o [i \in 1..Unclosed(s) |-> END]
==============================================================================
