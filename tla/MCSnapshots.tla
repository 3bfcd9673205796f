----------------------------- MODULE MCSnapshots -----------------------------
(* Instances of Snapshots for TLC.                                         *)
EXTENDS Snapshots

R(given, low, high, count, path) ==
  [given |-> given \cup {"path"}, low |-> low, high |-> high, count |-> count, path |-> path]

(* By sample: one page in two files; ranges of three, four and five pages,  *)
(* which need one to three chunks; ranges that do not fit s_bytes, positive, *)
(* zero and negative; by time, one longer than two deliveries and one       *)
(* shorter; and requests that are not legal.                                *)
MCRequests ==
  {R({"start", "finish", "count"}, 0, 5, 2, "a"),
   R({"start", "finish"}, 7, 30, 1, "a"),
   R({"start", "finish"}, 0, 25, 1, "b"),
   R({"start", "finish"}, 0, 131, 1, "a"),
   R({"start", "finish"}, 1, 129, 1, "a"),
   R({"start", "finish"}, 0, 70, 1, "a"),
   R({"begin", "end"}, 173, 225, 1, "b"),
   R({"begin", "end"}, 165, 181, 1, "b"),
   R({"start", "length"}, 0, 0, 1, "a"),
   R({"start", "finish"}, 9, 9, 1, "a")}
MCPaths == {"a", "b"}
MCDirs == {"a"}
==============================================================================
