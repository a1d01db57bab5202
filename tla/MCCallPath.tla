----------------------------- MODULE MCCallPath -----------------------------
(* CallPath on every stub and the traits of at most two methods that       *)
(* matter to it: its own tag once or twice, another one, none.            *)
EXTENDS CallPath

Method(tags) == [tag : tags, ret : {"none", "unit", "value"}, args : 0 .. 1]

MCStubs  == Method({"login"}) \cup [tag : {"connect"}, ret : {"unit"}, args : {0}]
MCTraits ==
    LET login == Method({"login"})
        other == {[tag |-> "connect", ret |-> "unit", args |-> 0],
                  [tag |-> "untagged", ret |-> "none", args |-> 0]}
        twice == {m \in login : m.args = 1}
    IN  {<< >>} \cup {<<m>> : m \in login}
          \cup {<<m, n>> : m \in other, n \in login} \cup {<<m, n>> : m \in twice, n \in twice}
=============================================================================
