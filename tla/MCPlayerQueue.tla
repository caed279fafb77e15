-------------------------- MODULE MCPlayerQueue --------------------------
EXTENDS PlayerQueue
CONSTANTS v1, v2, r1, b1

MCPriority == [t \in Tracks |-> IF t \in {v1, v2} THEN 5 ELSE 0]
Auto == [order |-> "auto", date |-> "desc", priority |-> "none"]
Free == [Auto EXCEPT !.order = "free"]
S(mode, owner, repeat, vip, regular) ==
  [mode |-> mode, owner |-> owner, repeat |-> repeat, shuffle |-> FALSE, break |-> 5,
   rules |-> [g \in {"vip", "regular"} |-> IF g = "vip" THEN vip ELSE regular]]
O(set, q, bg) == [st |-> set, queue |-> q, backgrounds |-> bg]
MCOpened ==
  {O(S("stream", TRUE, "none", Free, Auto), <<r1, v1, v2>>, <<>>),
   O(S("stream", TRUE, "none", Auto, Free), <<r1, b1, v2>>, <<r1, b1>>),
   O(S("flow", TRUE, "none", Auto, Auto), <<r1, b1, v2>>, <<>>),
   O([S("static", TRUE, "all", Auto, Free) EXCEPT !.break = 0], <<r1, v1, b1>>, <<>>),
   O(S("static", FALSE, "once", Auto, Auto), <<r1, v1, b1>>, <<>>)}
=============================================================================
