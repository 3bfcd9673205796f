--------------------------------- MODULE Params ---------------------------------
(***************************************************************************)
(* Parameters (param.c): where the text of each one lies, who frees it, and *)
(* what reaches the program's variables.  The daemon starts from literals,  *)
(* then its environment, then its command line, and the texts of the        *)
(* command line become heap blocks; afterwards a Param command points into  *)
(* the string buffer that it came in, which returns to the pool and is      *)
(* written again by later commands and replies.                             *)
(*                                                                         *)
(* A text is the number at its beginning, if there is one, and whether      *)
(* nothing follows it; of string parameters the number tells texts apart.   *)
(* What the READER's verification and states make of the values is in       *)
(* ReaderRing and AdcCommand, what a request of the WRITER and its table    *)
(* mean is in Snapshots; parameters of type bool have no user.  Commands are carried out one at a time, as   *)
(* MAIN's socket takes no second before the first is answered.              *)
(***************************************************************************)
EXTENDS Integers, Sequences, FiniteSets, SequencesExt, TLC

CONSTANTS
  Buffers,      \* string buffers in the pool: 8
  Wide,         \* long is two words: amd64
  MaxPrio,      \* sched_get_priority_max(SCHED_FIFO)
  Envs,         \* environments: sequences of [name, t]
  Args,         \* command lines: functions from names to texts
  Lists,        \* parameter lists: sequences of [name, t, eq]
  MaxCommands   \* bound: commands

VARIABLES
  stage,    \* of start-up, "run", or how it ended: "exit", "abort", "crash"
  env, args,
  str,      \* p_str of each parameter: [at, b, t]
  dyn,      \* p_dyn
  setby,    \* p_setby
  val,      \* *p_val
  heap,     \* the blocks allocated: one a parameter, at most
  pool,     \* free string buffers, in order
  kept,     \* those that snapshots keep
  n,        \* commands
  given,    \* the number last given for a parameter
  moved,    \* parameters whose text is no longer the one given
  last      \* the last command: kind, accepted, and what it set

startVars == <<env, args>>
tableVars == <<str, dyn, setby, heap>>
poolVars == <<pool, kept>>
ghostVars == <<given, moved>>
vars == <<stage, startVars, tableVars, val, poolVars, n, ghostVars, last>>
-----------------------------------------------------------------------------
(* The table of the daemon, in its order.  Mutant: two lines swapped.       *)
Names_Swapped ==
  <<"tmpdir", "freq", "snapshot", "snapdir", "dev", "bufsz", "range", "window", "bufhwm",
    "sscorr", "syncwait", "rtprio", "rdprio", "wrprio", "user", "group", "ram", "wof",
    "chunk", "uuid">>
Names ==
  <<"tmpdir", "freq", "snapshot", "snapdir", "dev", "range", "bufsz", "window", "bufhwm",
    "sscorr", "syncwait", "rtprio", "rdprio", "wrprio", "user", "group", "ram", "wof",
    "chunk", "uuid">>
Name == {Names[i] : i \in DOMAIN Names}
Double == {"freq", "window", "bufhwm", "sscorr", "syncwait", "wof"}
Int32 == {"range", "bufsz", "rtprio", "rdprio", "wrprio", "ram", "chunk"}
CmdSource == {"freq", "range", "bufsz", "window", "bufhwm", "sscorr", "syncwait"}
Unset == {"rtprio", "rdprio", "wrprio", "user", "group", "uuid"}

(* What follows an int in rparams and wparams.                              *)
Follows(p) ==
  CASE p = "range" -> {"bufsz"} [] p = "bufsz" -> {"window"}
    [] p = "wrprio" -> {"ram"} [] p = "ram" -> {"chunk"} [] OTHER -> {}
Spilt == -2
NoNumber == -1
Text == [v : Nat \cup {NoNumber}, whole : BOOLEAN]

ASSUME ParamsAssumption ==
  /\ Buffers \in Nat /\ Buffers >= 3 /\ Wide \in BOOLEAN
  /\ MaxPrio \in Nat /\ MaxCommands \in Nat
  /\ \A e \in Envs : e \in Seq([name : STRING, t : Text])
  /\ \A a \in Args : DOMAIN a \subseteq Name /\ a \in [DOMAIN a -> Text]
  /\ \A list \in Lists : list \in Seq([name : STRING, t : Text, eq : BOOLEAN])

(* strncmp over the length of what was asked for.  No parameter's name is   *)
(* the beginning of another's, so a whole name finds its own.               *)
Begins(name, p) == Len(name) <= Len(p) /\ SubSeq(p, 1, Len(name)) = name

ASSUME NamesAssumption == \A o, p \in Name : Begins(o, p) <=> o = p

(* A 32-bit variable is scanned by %li: on amd64 the upper half lands in    *)
(* what follows it.                                                         *)
Stored(v, p, x) ==
  [q \in Name |-> IF q = p THEN x
                  ELSE IF Wide /\ p \in Int32 /\ q \in Follows(p) THEN Spilt
                  ELSE v[q]]

(* sscanf takes a number off the front of a text; argtable wants it whole.  *)
Scans(p, t) == p \in Double \cup Int32 => t.v # NoNumber
ArgScans(p, t) == p \in Double \cup Int32 => t.v # NoNumber /\ t.whole

(* %g shows six digits: an odd number stands for one that has more.         *)
Shown(p, x) == IF p \in Double /\ x % 2 = 1 THEN x - 1 ELSE x

(* find_param_by_name: the first whose name begins so.                      *)
Beginning(name) == {p \in Name : Begins(name, p)}
Find(name) ==
  Names[CHOOSE i \in DOMAIN Names : Names[i] \in Beginning(name)
          /\ \A j \in 1 .. i - 1 : Names[j] \notin Beginning(name)]

Null == [at |-> "null", b |-> 0, t |-> [v |-> 0, whole |-> TRUE]]
Fixed(t) == [at |-> "fixed", b |-> 0, t |-> t]
InBuffer(b, t) == [at |-> "buffer", b |-> b, t |-> t]
Block(t) == [at |-> "heap", b |-> 0, t |-> t]
Literal == [v |-> 0, whole |-> TRUE]

TypeOK ==
  /\ stage \in {"env", "assign", "parse", "back", "ids", "prio", "writer", "reader",
                "run", "exit", "abort", "crash"}
  /\ \A p \in Name : str[p].at \in {"null", "fixed", "buffer", "heap"} /\ val[p] \in Int
  /\ dyn \in [Name -> BOOLEAN] /\ setby \in [Name -> SUBSET {"env", "arg", "cmd"}]
  /\ heap \subseteq Name
  /\ IsInjective(pool) /\ Len(pool) + Cardinality(kept) = Buffers
  /\ n \in 0 .. MaxCommands /\ moved \subseteq Name
-----------------------------------------------------------------------------
(***************************************************************************)
(* Start-up.                                                               *)
(***************************************************************************)
NoCommandYet == [kind |-> "none", ok |-> FALSE, set |-> {}]

Init ==
  /\ stage = "env" /\ env \in Envs /\ args \in Args
  /\ str = [p \in Name |-> IF p \in Unset THEN Null ELSE Fixed(Literal)]
  /\ dyn = [p \in Name |-> FALSE] /\ setby = [p \in Name |-> {}]
  /\ val = [p \in Name |-> 0] /\ heap = {}
  /\ pool = [i \in 1 .. Buffers |-> i] /\ kept = {} /\ n = 0
  /\ given = [p \in Name |-> 0] /\ moved = {}
  /\ last = NoCommandYet

(* set_param_from_env: of several, the last in the environment.             *)
InEnv(p) == {i \in DOMAIN env : env[i].name = p}
FromEnv(p) == env[CHOOSE i \in InEnv(p) : \A j \in InEnv(p) : j <= i].t

SetFromEnv ==
  /\ stage = "env" /\ stage' = "assign"
  /\ str' = [p \in Name |-> IF InEnv(p) # {} THEN Fixed(FromEnv(p)) ELSE str[p]]
  /\ setby' = [p \in Name |-> IF InEnv(p) # {} THEN setby[p] \cup {"env"} ELSE setby[p]]
  /\ UNCHANGED <<startVars, dyn, heap, val, poolVars, n, ghostVars, last>>

(* assign_param, for each of ps in turn until one fails.                    *)
Assign(s, ps, acc, p) ==
  IF ~acc.ok \/ p \notin ps \/ s[p].at = "null" THEN acc
  ELSE IF Scans(p, s[p].t) THEN [acc EXCEPT !.val = Stored(@, p, s[p].t.v)]
  ELSE [acc EXCEPT !.ok = FALSE]

Unassigned == [val |-> val, ok |-> TRUE]
Assigned(s, ps) ==
  LET acc[i \in 0 .. Len(Names)] ==
        IF i = 0 THEN Unassigned ELSE Assign(s, ps, acc[i - 1], Names[i])
  IN acc[Len(Names)]

AssignAll ==
  /\ stage = "assign"
  /\ LET a == Assigned(str, Name) IN
       /\ val' = a.val
       /\ stage' = IF a.ok THEN "parse" ELSE "abort"
  /\ UNCHANGED <<startVars, tableVars, poolVars, n, ghostVars, last>>

(* Every parameter has an option of its name; arg_param_match finds it by   *)
(* that, as commands do.                                                    *)
Option == Name
Matched(o) == Find(o)

(* arg_make_main fakes a parse of every text as the default of its option;  *)
(* help and version end the program, and so does a command line that does   *)
(* not parse.                                                               *)
BadDefault == \E o \in Option : str[Matched(o)].at # "null" /\ ~ArgScans(o, str[Matched(o)].t)

ParseArgs ==
  /\ stage = "parse"
  /\ stage' = IF BadDefault THEN "abort"
              ELSE IF \E o \in DOMAIN args : ~ArgScans(o, args[o]) THEN "exit"
              ELSE "back"
  /\ UNCHANGED <<startVars, tableVars, val, poolVars, n, ghostVars, last>>

(* arg_results_to_params: only options that were given.  Mutant: defaults   *)
(* are written back too.                                                    *)
Given_WithDefaults(p) == (\E o \in DOMAIN args : Matched(o) = p) \/ str[p].at # "null"
Given(p) == \E o \in DOMAIN args : Matched(o) = p

Data(p) == IF p \in DOMAIN args THEN args[p] ELSE Literal

ResultsBack ==
  /\ stage = "back" /\ stage' = "ids"
  /\ val' = [p \in Name |-> IF Given(p) THEN Data(p).v ELSE val[p]]
  /\ setby' = [p \in Name |-> IF Given(p) THEN setby[p] \cup {"arg"} ELSE setby[p]]
  /\ dyn' = [p \in Name |-> Given(p) /\ p \in Double \cup Int32]
  /\ heap' = {p \in Name : dyn'[p]}
  /\ str' = [p \in Name |->
       IF ~Given(p) THEN str[p]
       ELSE IF dyn'[p] THEN Block([v |-> Shown(p, Data(p).v), whole |-> TRUE])
       ELSE Fixed(Data(p))]
  /\ given' = val'
  /\ moved' = {p \in DOMAIN args : Shown(p, Data(p).v) # Data(p).v}
  /\ UNCHANGED <<startVars, poolVars, n, last>>

(* The rest of start-up leaves the tables alone.                            *)
afterParsing == <<startVars, tableVars, poolVars, n, ghostVars, last>>

(* tmpdir, user and groups, the clock, capabilities and log buffers: each    *)
(* may be found wanting.                                                    *)
FindIds ==
  /\ stage = "ids" /\ stage' \in {"prio", "exit"}
  /\ UNCHANGED <<val, afterParsing>>

(* The common priority is for the thread that has none.                     *)
Priority(p) ==
  IF p \in {"rdprio", "wrprio"} /\ val["rtprio"] # 0 /\ val[p] = 0 THEN val["rtprio"] ELSE val[p]

SetPriorities ==
  /\ stage = "prio" /\ stage' = "writer"
  /\ val' = [p \in Name |-> Priority(p)]
  /\ UNCHANGED afterParsing

(* verify_writer_params and then verify_reader_params, which wants the size *)
(* of a chunk from it: a bad priority ends the program; the other checks    *)
(* are in Snapshots and ReaderRing and may fail here.                        *)
Verify(next, prio) ==
  /\ stage' \in {next, "exit"}
  /\ val[prio] \notin 0 .. MaxPrio => stage' = "exit"
  /\ UNCHANGED <<val, afterParsing>>
VerifyWriter == stage = "writer" /\ Verify("reader", "wrprio")
VerifyReader == stage = "reader" /\ Verify("run", "rdprio")
-----------------------------------------------------------------------------
(***************************************************************************)
(* Commands.  Each takes two buffers: it arrives in one and is answered in  *)
(* the other, and both go to the end of the pool.                           *)
(***************************************************************************)
CanCommand == stage = "run" /\ n < MaxCommands /\ Len(pool) >= 2 /\ n' = n + 1
Cmd == pool[1]
Err == pool[2]
GivenBack == pool' = SubSeq(pool, 3, Len(pool)) \o <<Cmd, Err>>

(* release_strbuf goes round the ring of the two and ends with the one it   *)
(* was called with: MAIN calls it with the reply of a command it passed on, *)
(* and with the command when it answered that itself.                       *)
GivenBackByMain == pool' = SubSeq(pool, 3, Len(pool)) \o <<Err, Cmd>>

(* When a buffer is written, each text that lies in it stays, as less is     *)
(* written, or becomes no number, or some other number.                      *)
Leavings == {[v |-> NoNumber, whole |-> FALSE], [v |-> 6, whole |-> TRUE]}
Into(s, b) == {p \in Name : s[p].at = "buffer" /\ s[p].b = b}
Overwritten(s, b) ==
  {[p \in Name |-> IF p \in DOMAIN f THEN InBuffer(b, f[p]) ELSE s[p]] :
     f \in UNION {[X -> Leavings] : X \in SUBSET Into(s, b)}}
Disturbed(s, s2) == {p \in Name : s[p].at = "buffer" /\ s[p].t # s2[p].t}

(* set_param_value: the old text is freed if p_dyn says that it was         *)
(* allocated; p_dyn is left as it is.                                       *)
SetValue(acc, p, ptr) ==
  LET frees == acc.dyn[p] /\ acc.str[p].at # "null" IN
  [acc EXCEPT !.bad = @ \/ (frees /\ ~(acc.str[p].at = "heap" /\ p \in acc.heap)),
              !.heap = IF frees THEN @ \ {p} ELSE @,
              !.str[p] = ptr, !.setby[p] = @ \cup {"cmd"},
              !.set = @ \cup {p}, !.given[p] = ptr.t.v]

(* set_param_from_cmd, until one fails.                                     *)
SetFromCmd(acc, a) ==
  IF acc.err # "none" \/ acc.bad THEN acc
  ELSE IF Beginning(a.name) = {} THEN [acc EXCEPT !.err = "unknown"]
  ELSE IF Find(a.name) \notin CmdSource THEN [acc EXCEPT !.err = "source"]
  ELSE IF ~a.eq THEN [acc EXCEPT !.err = "invalid"]
  ELSE SetValue(acc, Find(a.name), InBuffer(Cmd, a.t))

Start(s) ==
  [str |-> s, dyn |-> dyn, heap |-> heap, setby |-> setby, given |-> given,
   set |-> {}, bad |-> FALSE, err |-> "none"]
SetFromString(s, list) ==
  LET acc[i \in 0 .. Len(list)] ==
        IF i = 0 THEN Start(s) ELSE SetFromCmd(acc[i - 1], list[i])
  IN IF list = <<>> THEN [Start(s) EXCEPT !.err = "invalid"] ELSE acc[Len(list)]

(* process_reader_command, Param: an empty list and a name without a value  *)
(* are let pass.  Every parameter of a command is assigned again.           *)
Param ==
  /\ CanCommand
  /\ \E list \in Lists, s1 \in Overwritten(str, Cmd) :
       LET r == SetFromString(s1, list)
           ok == r.err \in {"none", "invalid"}
           a == IF ok THEN Assigned(r.str, CmdSource) ELSE [val |-> val, ok |-> FALSE]
       IN \E s2 \in Overwritten(r.str, Err) :
            /\ str' = s2 /\ heap' = r.heap /\ setby' = r.setby /\ dyn' = r.dyn
            /\ val' = IF r.bad THEN val ELSE a.val
            /\ stage' = IF r.bad THEN "crash" ELSE "run"
            /\ given' = r.given
            /\ moved' = ((moved \cup Disturbed(str, s1)) \ r.set) \cup Disturbed(r.str, s2)
            /\ last' = [kind |-> "Param", ok |-> a.ok /\ ~r.bad, set |-> r.set]
  /\ GivenBack
  /\ UNCHANGED <<startVars, kept>>

(* A command that has nothing to do with parameters, and its answer.        *)
WrittenOver ==
  \E s1 \in Overwritten(str, Cmd) : \E s2 \in Overwritten(s1, Err) :
    /\ str' = s2 /\ moved' = moved \cup Disturbed(str, s2)

Other ==
  /\ CanCommand /\ WrittenOver
  /\ GivenBack \/ GivenBackByMain
  /\ last' = [NoCommandYet EXCEPT !.kind = "other"]
  /\ UNCHANGED <<stage, startVars, dyn, setby, heap, val, kept, given>>

(* The WRITER's requests set parameters of tables of their own; of those    *)
(* here they only write over texts, and an accepted one keeps its buffer.   *)
Request ==
  /\ CanCommand /\ WrittenOver
  /\ \/ GivenBack /\ UNCHANGED kept
     \/ \* an accepted Snap keeps the buffer it came in
        /\ kept' = kept \cup {Cmd}
        /\ pool' = SubSeq(pool, 3, Len(pool)) \o <<Err>>
     \/ \* Ztatus gives back one of a snapshot that is finished
        \E b \in kept :
          /\ kept' = kept \ {b}
          /\ pool' = SubSeq(pool, 3, Len(pool)) \o <<b, Cmd, Err>>
  /\ last' = [NoCommandYet EXCEPT !.kind = "request"]
  /\ UNCHANGED <<stage, startVars, dyn, setby, heap, val, given>>

Next ==
  \/ SetFromEnv \/ AssignAll \/ ParseArgs \/ ResultsBack
  \/ FindIds \/ SetPriorities \/ VerifyWriter \/ VerifyReader
  \/ Param \/ Other \/ Request

Spec == Init /\ [][Next]_vars
-----------------------------------------------------------------------------
(***************************************************************************)
(* Properties.                                                             *)
(***************************************************************************)
(* The daemon starts with what it was told: each variable holds the value   *)
(* of the command line, failing that of the last such name in the           *)
(* environment, failing that of the table, and none is left half written    *)
(* by the one before it (the puzzle of reader.h:22-23, whose answer is the   *)
(* order of the table).  The common priority is that of a thread which was  *)
(* given none (snapshot.c:848-866).                                         *)
Told(p) ==
  IF p \in DOMAIN args THEN args[p].v
  ELSE IF InEnv(p) # {} THEN FromEnv(p).v ELSE Literal.v
ToldOrCommon(p) == IF p \in {"rdprio", "wrprio"} /\ Told(p) = 0 THEN Told("rtprio") ELSE Told(p)
StartsAsTold == stage = "run" /\ n = 0 => \A p \in Name : val[p] = ToldOrCommon(p)

(* A Param that is accepted leaves no variable half written, and every      *)
(* parameter that commands may set has the value last given for it, be it   *)
(* by this command or before, save those whose text has been lost since.    *)
SetAsGiven ==
  last.kind = "Param" /\ last.ok =>
    \A p \in CmdSource : val[p] # Spilt /\ (p \notin moved => val[p] = given[p])

(* snapshot.8a:66-67: parameters "can be set individually or in             *)
(* combination", so a Param changes no parameter that it does not name.  The *)
(* code assigns them all again, from texts in buffers that have been used   *)
(* since.                                                                   *)
OthersKept ==
  [][n' # n /\ last'.kind = "Param" => \A p \in Name \ last'.set : val'[p] = val[p]]_vars
=============================================================================
