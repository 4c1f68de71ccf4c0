------------------------------ MODULE MCPipeline ------------------------------
EXTENDS Pipeline

(* r holds a match f, a directory d, a removed entry and a device; d holds *)
(* a directory e with a match m that is out of reach of three descriptors, *)
(* a directory l whose path is too long, a match g and another file o.     *)
MCNodes == {"r", "f", "d", "t", "e", "m", "l", "g", "o"}

MCType ==
    [n \in MCNodes |-> IF n \in {"r", "d", "e", "l"} THEN "dir"
                       ELSE IF n = "t" THEN "dev" ELSE "file"]

Entry(n) == [name |-> "other", node |-> n]
Dot(self, parent) == <<[name |-> ".", node |-> self], [name |-> "..", node |-> parent]>>

MCEntries ==
    [n \in {"r", "d", "e", "l"} |->
       CASE n = "r" -> Dot("r", "r") \o <<Entry("f"), [name |-> "other", node |-> "null"],
                                          Entry("d"), Entry("t")>>
         [] n = "d" -> Dot("d", "r") \o <<Entry("l"), Entry("o"), Entry("g"), Entry("e")>>
         [] n = "e" -> Dot("e", "d") \o <<Entry("m")>>
         [] n = "l" -> Dot("l", "d")]
=============================================================================
