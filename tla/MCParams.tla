------------------------------ MODULE MCParams ------------------------------
EXTENDS Params

Num(x) == [v |-> x, whole |-> TRUE]
Junk == [v |-> 3, whole |-> FALSE]
Word == [v |-> NoNumber, whole |-> FALSE]
E(name, t) == [name |-> name, t |-> t]
A(name, t) == [name |-> name, t |-> t, eq |-> TRUE]
Bare(name) == [name |-> name, t |-> Num(0), eq |-> FALSE]

MCEnvs ==
  {<<>>,
   <<E("range", Num(2)), E("freq", Num(2)), E("freq", Num(4)), E("wrprio", Num(2)), E("ram", Num(4)),
     E("rtprio", Num(4))>>,
   <<E("window", Word)>>, <<E("bufsz", Junk)>>}
MCArgs ==
  {<<>>, "freq" :> Num(1) @@ "range" :> Num(4) @@ "wrprio" :> Num(2) @@ "snapdir" :> Num(4),
   "chunk" :> Junk}
MCLists ==
  {<<>>, <<A("freq", Num(2))>>, <<A("range", Num(2))>>,
   <<A("range", Num(4)), A("buf", Num(2))>>, <<A("freq", Num(4)), Bare("w")>>,
   <<A("range", Word)>>, <<A("freq", Num(8)), A("s", Num(2))>>, <<A("nosuch", Num(2))>>}

NoEnvs == {<<>>}
NoArgs == {<<>>}
GoodLists == {<<A("freq", Num(2))>>, <<A("range", Num(2))>>}
=============================================================================
