----------------------------- MODULE MCRequest ------------------------------
(***************************************************************************)
(* Requests with three required keys for TLC, with values that are right   *)
(* or wrong, an optional key and one that nobody knows.                    *)
(***************************************************************************)
EXTENDS Request

Keys3 == {"info_hash", "port", "left"}

Pair(k, v) == [key |-> k, val |-> v]

SomeWrong == {Pair("info_hash", "short"), Pair("port", "low"),
              Pair("event", "other")}

SomePairs == SomeWrong \cup {Pair("info_hash", "hash"), Pair("port", "high"),
                             Pair("left", "0"), Pair("event", "start"),
                             Pair("compact", "1")}

InOrder == <<"info_hash", "port", "left", "event">>
=============================================================================
