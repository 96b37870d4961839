-------------------------------- MODULE MCApp --------------------------------
(* Instances of App for TLC. *)
EXTENDS App

TwoKeys == [server |-> "port", log |-> "port"]
OneNumber == [seven |-> 7]

Lines ==
    {[is |-> "section", name |-> n] : n \in {"", "server", "log"}}
        \union {[is |-> "pair", key |-> "port", value |-> v] : v \in {"seven", "word"}}
        \union {[is |-> "pair", key |-> "level", value |-> "seven"], [is |-> "other"]}

SomeFiles == UNION {[1..n -> Lines] : n \in 0..5}
NoFile == <<[is |-> "missing"]>>
=============================================================================
