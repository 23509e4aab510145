------------------------------ MODULE ReadAll ------------------------------
(***************************************************************************)
(* File.ReadAll: one goroutine per channel, at most NumCPU at a time, over *)
(* values that are computed once and shared.                               *)
(*                                                                         *)
(* The shared values are behind sync.Once: the data section of a data      *)
(* group, its de-interleaved streams, the record layout of a group, the    *)
(* compiled conversion of a channel, the master samples of a group.        *)
(* Computing one may need others (a layout needs the section, an unsorted  *)
(* one the de-interleaved streams, which need the section), so a goroutine *)
(* runs a stack of computations and waits wherever another goroutine is    *)
(* already computing what it needs.  A failure is stored like a value.     *)
(***************************************************************************)
EXTENDS Integers, Sequences, FiniteSets

CONSTANTS
    NChan,     \* channels 1..NChan, in file order
    NameOf,    \* channel name; names may repeat
    GroupOf,   \* channel group of a channel
    MasterOf,  \* master channel of a group, 0 if it has none
    DGOf,      \* data group of a channel group
    Unsorted,  \* data groups with record IDs
    NumCPU,
    Windowed,  \* is the read restricted by WithRange?
    MaxFaults  \* bound: things that fail in one behaviour

Chans == 1..NChan
GroupIds == {GroupOf[c] : c \in Chans}
DGs == {DGOf[g] : g \in GroupIds}

ASSUME ReadAllAssumption ==
    /\ NChan \in Nat \ {0} /\ NumCPU \in Nat \ {0} /\ MaxFaults \in Nat
    /\ Chans \subseteq DOMAIN NameOf /\ Chans \subseteq DOMAIN GroupOf
    /\ \A g \in GroupIds : MasterOf[g] \in {0} \union {c \in Chans : GroupOf[c] = g}
    /\ Windowed \in BOOLEAN

Section(d) == <<"section", d>>
Streams(d) == <<"streams", d>>
Layout(g)  == <<"layout", g>>
Conv(c)    == <<"conv", c>>
Master(g)  == <<"master", g>>
ReadOf(c)  == <<"read", c>>

Onces ==
    {Section(d) : d \in DGs} \union {Streams(d) : d \in DGs}
    \union {Layout(g) : g \in GroupIds} \union {Conv(c) : c \in Chans}
    \union {Master(g) : g \in GroupIds}

(* What may fail by itself: opening a section, parsing the records of an   *)
(* unsorted one, compiling a conversion, extracting a channel's column.    *)
Fallible ==
    {Section(d) : d \in DGs} \union {Streams(d) : d \in Unsorted}
    \union {Conv(c) : c \in Chans} \union {ReadOf(c) : c \in Chans}

HasOtherMaster(c) == MasterOf[GroupOf[c]] \notin {0, c}

(* The shared values a computation asks for, in order.  Read resolves the  *)
(* layout once for the samples and once more for the master; a windowed    *)
(* read extracts the master samples itself.                                *)
ReadNeeds(c) ==
    IF HasOtherMaster(c)
    THEN <<Layout(GroupOf[c]), Conv(c), Layout(GroupOf[c]),
           IF Windowed THEN Conv(MasterOf[GroupOf[c]]) ELSE Master(GroupOf[c])>>
    ELSE <<Layout(GroupOf[c]), Conv(c)>>

LayoutNeeds(g) ==
    IF DGOf[g] \in Unsorted THEN <<Streams(DGOf[g])>> ELSE <<Section(DGOf[g])>>

Needs(x) ==
    CASE x[1] \in {"section", "conv"} -> <<>>
      [] x[1] = "streams" -> <<Section(x[2])>>
      [] x[1] = "layout"  -> LayoutNeeds(x[2])
      [] x[1] = "master"  -> <<Conv(MasterOf[x[2]])>>
      [] x[1] = "read"    -> ReadNeeds(x[2])

VARIABLES
    faulty,    \* what fails in this behaviour; fixed
    once,      \* state of each Once: "new", "running", "ok" or "error"
    stack,     \* goroutine of a channel: computations it is inside of
    outcome,   \* goroutine: "off", "running", "ok", "error" or "gone"
    sem,       \* tokens in the semaphore channel
    main,      \* ReadAll itself: "spawn", "wait" or "returned"
    next,      \* next channel to start
    results,   \* channels whose slot in results is filled
    firstErr   \* channel whose error was kept, 0 if none

vars == <<faulty, once, stack, outcome, sem, main, next, results, firstErr>>

Frame(x) == [of |-> x, i |-> 1]
Top(c) == stack[c][Len(stack[c])]
Pop(s) == SubSeq(s, 1, Len(s) - 1)

(* Extracting the master column for a group fails with the master's own    *)
(* column.                                                                 *)
FailsItself(x) ==
    \/ x \in faulty
    \/ x[1] = "master" /\ ReadOf(MasterOf[x[2]]) \in faulty
    \/ /\ x[1] = "read" /\ Windowed /\ HasOtherMaster(x[2])
       /\ ReadOf(MasterOf[GroupOf[x[2]]]) \in faulty

(* ReadAll takes a token, waiting if NumCPU goroutines run, and starts the *)
(* next channel.                                                           *)
Spawn ==
    /\ main = "spawn" /\ next <= NChan /\ sem < NumCPU
    /\ sem' = sem + 1
    /\ outcome' = [outcome EXCEPT ![next] = "running"]
    /\ stack' = [stack EXCEPT ![next] = <<Frame(ReadOf(next))>>]
    /\ next' = next + 1
    /\ main' = IF next = NChan THEN "wait" ELSE "spawn"
    /\ UNCHANGED <<faulty, once, results, firstErr>>

Need(c) == Needs(Top(c).of)[Top(c).i]
HasNeed(c) == outcome[c] = "running" /\ Top(c).i <= Len(Needs(Top(c).of))

(* Mutation: a check of the value instead of a Once.                       *)
EnterUnlessDone(c) ==
    /\ HasNeed(c) /\ once[Need(c)] \in {"new", "running"}
    /\ once' = [once EXCEPT ![Need(c)] = "running"]
    /\ stack' = [stack EXCEPT ![c] = Append(@, Frame(Need(c)))]
    /\ UNCHANGED <<faulty, outcome, sem, main, next, results, firstErr>>

(* once.Do by the first goroutine: it computes the value itself.           *)
EnterOnce(c) ==
    /\ HasNeed(c) /\ once[Need(c)] = "new"
    /\ once' = [once EXCEPT ![Need(c)] = "running"]
    /\ stack' = [stack EXCEPT ![c] = Append(@, Frame(Need(c)))]
    /\ UNCHANGED <<faulty, outcome, sem, main, next, results, firstErr>>

(* The result of the computation on top of the stack: a shared value is    *)
(* stored, a channel's read is finished.                                   *)
Complete(c, r) ==
    /\ stack' = [stack EXCEPT ![c] = Pop(@)]
    /\ IF Len(stack[c]) = 1
       THEN outcome' = [outcome EXCEPT ![c] = r] /\ UNCHANGED once
       ELSE once' = [once EXCEPT ![Top(c).of] = r] /\ UNCHANGED outcome
    /\ UNCHANGED <<faulty, sem, main, next, results, firstErr>>

(* The needed value is there: go on.                                       *)
PassOnce(c) ==
    /\ HasNeed(c) /\ once[Need(c)] = "ok"
    /\ stack' = [stack EXCEPT ![c][Len(stack[c])].i = @ + 1]
    /\ UNCHANGED <<faulty, once, outcome, sem, main, next, results, firstErr>>

(* Mutation: a stored error is not handed on.                              *)
ErrorIsDropped(c) ==
    /\ HasNeed(c) /\ once[Need(c)] = "error" /\ Complete(c, "ok")

(* The needed value is an error: so is the value that needs it.            *)
PassError(c) ==
    /\ HasNeed(c) /\ once[Need(c)] = "error" /\ Complete(c, "error")

(* Everything needed is there: compute.                                    *)
Compute(c) ==
    /\ outcome[c] = "running" /\ ~HasNeed(c)
    /\ Complete(c, IF FailsItself(Top(c).of) THEN "error" ELSE "ok")

(* Mutation: the goroutine gives its token back but never calls wg.Done.   *)
FinishWithoutDone(c) ==
    /\ outcome[c] \in {"ok", "error"} /\ sem > 0
    /\ sem' = sem - 1
    /\ UNCHANGED <<faulty, once, stack, outcome, main, next, results, firstErr>>

(* The goroutine records its signal or, under the mutex, the first error;  *)
(* its deferred call returns the token and is done.                        *)
Finish(c) ==
    /\ outcome[c] \in {"ok", "error"}
    /\ IF outcome[c] = "ok"
       THEN results' = results \union {c} /\ UNCHANGED firstErr
       ELSE /\ firstErr' = IF firstErr = 0 THEN c ELSE firstErr
            /\ UNCHANGED results
    /\ outcome' = [outcome EXCEPT ![c] = "gone"]
    /\ sem' = sem - 1
    /\ UNCHANGED <<faulty, once, stack, main, next>>

(* wg.Wait ends when every goroutine is done.                              *)
Wait ==
    /\ main = "wait" /\ \A c \in Chans : outcome[c] = "gone"
    /\ main' = "returned"
    /\ UNCHANGED <<faulty, once, stack, outcome, sem, next, results, firstErr>>

(* The map ReadAll returns: for each name, the signal of the first channel *)
(* that has it.                                                            *)
Out == [n \in {NameOf[c] : c \in Chans} |->
           CHOOSE c \in Chans : /\ NameOf[c] = n
                                /\ \A d \in Chans : NameOf[d] = n => c <= d]

Init ==
    /\ faulty \in {S \in SUBSET Fallible : Cardinality(S) <= MaxFaults}
    /\ once = [o \in Onces |-> "new"]
    /\ stack = [c \in Chans |-> <<>>]
    /\ outcome = [c \in Chans |-> "off"]
    /\ sem = 0 /\ main = "spawn" /\ next = 1
    /\ results = {} /\ firstErr = 0

Goroutine(c) == EnterOnce(c) \/ PassOnce(c) \/ PassError(c) \/ Compute(c) \/ Finish(c)

Next == Spawn \/ Wait \/ \E c \in Chans : Goroutine(c)

Spec == Init /\ [][Next]_vars

(* Go runs every goroutine that is not blocked.                            *)
FairSpec ==
    Spec /\ WF_vars(Spawn) /\ WF_vars(Wait) /\ \A c \in Chans : WF_vars(Goroutine(c))

-----------------------------------------------------------------------------
(* Does the read of channel c fail, judged from what is faulty alone?      *)
LayoutFails(g) ==
    \/ Section(DGOf[g]) \in faulty
    \/ DGOf[g] \in Unsorted /\ Streams(DGOf[g]) \in faulty
ColumnFails(c) == Conv(c) \in faulty \/ ReadOf(c) \in faulty
ReadFails(c) ==
    \/ LayoutFails(GroupOf[c]) \/ ColumnFails(c)
    \/ HasOtherMaster(c) /\ ColumnFails(MasterOf[GroupOf[c]])

(* When ReadAll returns, whatever the schedule was: it returns an error    *)
(* exactly when some channel cannot be read, the error is of such a        *)
(* channel, and otherwise every entry of the map has its signal.  No       *)
(* schedule hides a failure that one Once stored for several channels.     *)
ReturnsWhatReadsGive ==
    main = "returned" =>
        /\ firstErr # 0 <=> \E c \in Chans : ReadFails(c)
        /\ firstErr # 0 => ReadFails(firstErr)
        /\ firstErr = 0 => \A n \in DOMAIN Out : Out[n] \in results

(* Two goroutines never compute the same shared value: the value under     *)
(* computation is on exactly one stack.                                    *)
ComputedByOne ==
    \A o \in Onces : once[o] = "running" =>
        Cardinality({c \in Chans : \E i \in DOMAIN stack[c] : stack[c][i].of = o}) = 1

(* ReadAll returns: the nested waits on shared values and the wait for a   *)
(* token never block everyone.                                             *)
ReadAllReturns == <>(main = "returned")
=============================================================================
