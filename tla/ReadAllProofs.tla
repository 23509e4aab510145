--------------------------- MODULE ReadAllProofs ---------------------------
(***************************************************************************)
(* Proofs about ReadAll, for any number of channels, groups, data groups   *)
(* and processors, and any set of things that fail.                        *)
(*                                                                         *)
(* What a Once stores is decided by `faulty` alone (Bad): a computation    *)
(* fails exactly when it fails itself or one of the values it asks for     *)
(* does (BadExactlyWhen).  So the schedule decides who computes a value    *)
(* and never what the value is, and the first error, whichever goroutine   *)
(* it comes from, is the error of a channel that cannot be read.           *)
(***************************************************************************)
EXTENDS ReadAll, TLAPS, SequenceTheorems, FiniteSetTheorems,
        WellFoundedInduction

(* The shared values that are ever asked for: a group without a master has *)
(* no master samples.                                                      *)
Shared ==
    {Section(d) : d \in DGs} \union {Streams(d) : d \in DGs}
    \union {Layout(g) : g \in GroupIds} \union {Conv(c) : c \in Chans}
    \union {Master(g) : g \in {h \in GroupIds : MasterOf[h] # 0}}

Items == Shared \union {ReadOf(c) : c \in Chans}

Frames == [of : Items, i : Nat \ {0}]

(* Does computing x fail, judged from what is faulty alone?                *)
Bad(x) ==
    \/ x[1] = "section" /\ x \in faulty
    \/ x[1] = "streams" /\ (Section(x[2]) \in faulty \/ x \in faulty)
    \/ x[1] = "layout"  /\ LayoutFails(x[2])
    \/ x[1] = "conv"    /\ x \in faulty
    \/ x[1] = "master"  /\ ColumnFails(MasterOf[x[2]])
    \/ x[1] = "read"    /\ ReadFails(x[2])

States == {"new", "running", "ok", "error"}
Outcomes == {"off", "running", "ok", "error", "gone"}

TypeInv ==
    /\ faulty \subseteq Fallible
    /\ once \in [Onces -> States]
    /\ stack \in [Chans -> Seq(Frames)]
    /\ outcome \in [Chans -> Outcomes]
    /\ next \in 1..(NChan + 1)
    /\ main \in {"spawn", "wait", "returned"}

(* A goroutine's stack: the read of its channel at the bottom, above it    *)
(* shared values under computation; what a computation has already been    *)
(* given is there.                                                         *)
StackInv ==
    \A c \in Chans :
        /\ stack[c] # <<>> <=> outcome[c] = "running"
        /\ \A i \in DOMAIN stack[c] :
              /\ i = 1 => stack[c][i].of = ReadOf(c)
              /\ i > 1 => stack[c][i].of \in Shared /\ once[stack[c][i].of] = "running"
              /\ \A k \in 1..Len(Needs(stack[c][i].of)) :
                    k < stack[c][i].i => once[Needs(stack[c][i].of)[k]] = "ok"

(* No shared value is computed twice at a time, not even by one goroutine. *)
Exclusive ==
    \A c, d \in Chans : \A i \in DOMAIN stack[c], j \in DOMAIN stack[d] :
        stack[c][i].of = stack[d][j].of => c = d /\ i = j

(* A value under computation is on some stack.                             *)
Owned ==
    \A o \in Onces : once[o] = "running" =>
        \E c \in Chans : \E i \in DOMAIN stack[c] : stack[c][i].of = o

(* What was computed agrees with `faulty`.                                 *)
ValuesRight ==
    /\ \A o \in Shared : /\ once[o] = "ok" => ~Bad(o)
                         /\ once[o] = "error" => Bad(o)
    /\ \A c \in Chans : /\ outcome[c] = "ok" => ~ReadFails(c)
                        /\ outcome[c] = "error" => ReadFails(c)

(* What finished goroutines left behind.                                   *)
Recorded ==
    /\ firstErr # 0 => firstErr \in Chans /\ ReadFails(firstErr)
    /\ \A c \in Chans : outcome[c] = "gone" =>
          /\ ReadFails(c) => firstErr # 0
          /\ ~ReadFails(c) => c \in results

Progress ==
    /\ \A c \in Chans : c >= next => outcome[c] = "off"
    /\ main = "returned" => \A c \in Chans : outcome[c] = "gone"

(* The inductive invariant.                                                *)
IInv ==
    /\ TypeInv /\ StackInv /\ Exclusive /\ Owned
    /\ ValuesRight /\ Recorded /\ Progress

(* The tokens taken are the goroutines that have not returned theirs.      *)
Holders == {c \in Chans : outcome[c] \in {"running", "ok", "error"}}
TokensInv == sem = Cardinality(Holders) /\ sem <= NumCPU

-----------------------------------------------------------------------------
(* What a computation asks for.                                            *)

(* A shared value is of one of five kinds (tree.go: dataGroup,             *)
(* channelGroup, Channel), and a read is none of them.                     *)
LEMMA ItemKinds ==
    ASSUME NEW x \in Items
    PROVE  \/ \E d \in DGs : x = Section(d)
           \/ \E d \in DGs : x = Streams(d)
           \/ \E g \in GroupIds : x = Layout(g)
           \/ \E c \in Chans : x = Conv(c)
           \/ \E g \in GroupIds : MasterOf[g] # 0 /\ x = Master(g)
           \/ \E c \in Chans : x = ReadOf(c)
  BY DEF Items, Shared

(* A read is not a shared value.                                           *)
LEMMA ReadsAreNotShared ==
    /\ Shared \subseteq Onces /\ Shared \subseteq Items
    /\ \A c \in Chans : ReadOf(c) \in Items /\ ReadOf(c) \notin Onces
<1>1. Shared \subseteq Onces
  BY DEF Shared, Onces
<1>2. Shared \subseteq Items /\ \A c \in Chans : ReadOf(c) \in Items
  BY DEF Items
<1>3. ASSUME NEW c \in Chans PROVE ReadOf(c) \notin Onces
  <2>1. \A o \in Onces : o[1] # "read"
    BY DEF Onces, Section, Streams, Layout, Conv, Master
  <2> QED
    BY <2>1 DEF ReadOf
<1> QED
  BY <1>1, <1>2, <1>3

(* Needs, kind by kind.                                                    *)
LEMMA NeedsByKind ==
    ASSUME NEW x
    PROVE  /\ x[1] \in {"section", "conv"} => Needs(x) = <<>>
           /\ x[1] = "streams" => Needs(x) = <<Section(x[2])>>
           /\ x[1] = "layout" => Needs(x) = LayoutNeeds(x[2])
           /\ x[1] = "master" => Needs(x) = <<Conv(MasterOf[x[2]])>>
           /\ x[1] = "read" => Needs(x) = ReadNeeds(x[2])
<1>1. CASE x[1] \in {"section", "conv"}
  BY Zenon, <1>1 DEF Needs
<1>2. CASE x[1] = "streams"
  BY Zenon, <1>2 DEF Needs
<1>3. CASE x[1] = "layout"
  BY Zenon, <1>3 DEF Needs
<1>4. CASE x[1] = "master"
  BY Zenon, <1>4 DEF Needs
<1>5. CASE x[1] = "read"
  BY Zenon, <1>5 DEF Needs
<1> QED
  BY <1>1, <1>2, <1>3, <1>4, <1>5

(* The values a computation asks for are shared values, and it fails       *)
(* exactly when it fails itself or one of them does (read.go: read,        *)
(* extractColumn, masterValues, resolveLayout; unsorted.go: deinterleaved).*)
LEMMA BadExactlyWhen ==
    ASSUME NEW x \in Items, faulty \subseteq Fallible
    PROVE  /\ Len(Needs(x)) \in Nat
           /\ \A k \in 1..Len(Needs(x)) : Needs(x)[k] \in Shared
           /\ Bad(x) <=> \/ FailsItself(x)
                         \/ \E k \in 1..Len(Needs(x)) : Bad(Needs(x)[k])
<1>1. ASSUME NEW d \in DGs, x = Section(d)
      PROVE  Needs(x) = <<>> /\ (Bad(x) <=> FailsItself(x))
  BY <1>1, NeedsByKind DEF Bad, FailsItself, Section
<1>2. ASSUME NEW d \in DGs, x = Streams(d)
      PROVE  /\ Needs(x) = <<Section(d)>> /\ Section(d) \in Shared
             /\ Bad(x) <=> FailsItself(x) \/ Bad(Section(d))
  BY <1>2, NeedsByKind DEF Bad, FailsItself, Section, Streams, Shared
<1>3. ASSUME NEW g \in GroupIds, x = Layout(g)
      PROVE  \E s \in Shared : /\ Needs(x) = <<s>>
                               /\ Bad(x) <=> FailsItself(x) \/ Bad(s)
  <2>1. x \notin faulty
    BY <1>3 DEF Fallible, Section, Streams, Conv, ReadOf, Layout
  <2>2. ~FailsItself(x)
    BY <1>3, <2>1 DEF FailsItself, Layout
  <2>3. DGOf[g] \in DGs
    BY DEF DGs
  <2>4. CASE DGOf[g] \in Unsorted
    <3>1. Needs(x) = <<Streams(DGOf[g])>>
      BY <1>3, <2>4, NeedsByKind DEF LayoutNeeds, Layout
    <3>2. Streams(DGOf[g]) \in Shared
      BY <2>3 DEF Shared
    <3>3. Bad(x) <=> Bad(Streams(DGOf[g]))
      BY <1>3, <2>4 DEF Bad, Layout, LayoutFails, Streams, Section
    <3> QED
      BY <2>2, <3>1, <3>2, <3>3
  <2>5. CASE DGOf[g] \notin Unsorted
    <3>1. Needs(x) = <<Section(DGOf[g])>>
      BY <1>3, <2>5, NeedsByKind DEF LayoutNeeds, Layout
    <3>2. Section(DGOf[g]) \in Shared
      BY <2>3 DEF Shared
    <3>3. Bad(x) <=> Bad(Section(DGOf[g]))
      BY <1>3, <2>5 DEF Bad, Layout, LayoutFails, Section
    <3> QED
      BY <2>2, <3>1, <3>2, <3>3
  <2> QED
    BY <2>4, <2>5
<1>4. ASSUME NEW c \in Chans, x = Conv(c)
      PROVE  Needs(x) = <<>> /\ (Bad(x) <=> FailsItself(x))
  BY <1>4, NeedsByKind DEF Bad, FailsItself, Conv
<1>5. ASSUME NEW g \in GroupIds, MasterOf[g] # 0, x = Master(g)
      PROVE  /\ Needs(x) = <<Conv(MasterOf[g])>> /\ Conv(MasterOf[g]) \in Shared
             /\ Bad(x) <=> FailsItself(x) \/ Bad(Conv(MasterOf[g]))
  <2>1. MasterOf[g] \in Chans
    BY <1>5, ReadAllAssumption
  <2>2. Conv(MasterOf[g]) \in Shared
    BY <2>1 DEF Shared
  <2>3. x \notin faulty
    BY <1>5 DEF Fallible, Section, Streams, Conv, ReadOf, Master
  <2>4. FailsItself(x) <=> ReadOf(MasterOf[g]) \in faulty
    BY <1>5, <2>3 DEF FailsItself, Master
  <2>5. Bad(x) <=> ColumnFails(MasterOf[g])
    BY <1>5 DEF Bad, Master
  <2>6. Bad(Conv(MasterOf[g])) <=> Conv(MasterOf[g]) \in faulty
    BY DEF Bad, Conv
  <2>7. Needs(x) = <<Conv(MasterOf[g])>>
    BY <1>5, NeedsByKind DEF Master
  <2> QED
    BY <2>2, <2>4, <2>5, <2>6, <2>7 DEF ColumnFails
<1>6. ASSUME NEW c \in Chans, x = ReadOf(c)
      PROVE  /\ Len(Needs(x)) \in Nat
             /\ \A k \in 1..Len(Needs(x)) : Needs(x)[k] \in Shared
             /\ Bad(x) <=> \/ FailsItself(x)
                           \/ \E k \in 1..Len(Needs(x)) : Bad(Needs(x)[k])
  <2> DEFINE g == GroupOf[c]
             m == MasterOf[g]
             last == IF Windowed THEN Conv(m) ELSE Master(g)
  <2>1. g \in GroupIds /\ Layout(g) \in Shared /\ Conv(c) \in Shared
    BY DEF GroupIds, Shared
  <2>2. Bad(Layout(g)) <=> LayoutFails(g)
    BY DEF Bad, Layout
  <2>3. \A e \in Chans : Bad(Conv(e)) <=> Conv(e) \in faulty
    BY DEF Bad, Conv
  <2>4. Bad(x) <=> ReadFails(c)
    BY <1>6 DEF Bad, ReadOf
  <2>5. FailsItself(x) <=> \/ ReadOf(c) \in faulty
                           \/ Windowed /\ HasOtherMaster(c) /\ ReadOf(m) \in faulty
    BY <1>6 DEF FailsItself, ReadOf
  <2>6. CASE ~HasOtherMaster(c)
    <3>1. x[1] = "read" /\ x[2] = c
      BY <1>6 DEF ReadOf
    <3>2. Needs(x) = <<Layout(g), Conv(c)>>
      BY Zenon, <2>6, <3>1, NeedsByKind DEF ReadNeeds
    <3>3. ReadFails(c) <=> LayoutFails(g) \/ ColumnFails(c)
      BY <2>6 DEF ReadFails
    <3> HIDE DEF g, m
    <3>4. /\ Len(Needs(x)) = 2
          /\ Needs(x)[1] = Layout(g) /\ Needs(x)[2] = Conv(c)
      BY <3>2
    <3>5. \A k \in 1..2 : k = 1 \/ k = 2
      OBVIOUS
    <3> QED
      BY <2>1, <2>2, <2>3, <2>4, <2>5, <2>6, <3>3, <3>4, <3>5 DEF ColumnFails
  <2>7. CASE HasOtherMaster(c)
    <3>1. x[1] = "read" /\ x[2] = c
      BY <1>6 DEF ReadOf
    <3>2. Needs(x) = <<Layout(g), Conv(c), Layout(g), last>>
      BY Zenon, <2>7, <3>1, NeedsByKind DEF ReadNeeds
    <3>3. m \in Chans /\ m # 0
      BY <2>1, <2>7, ReadAllAssumption DEF HasOtherMaster
    <3>4. last \in Shared
      BY <2>1, <3>3 DEF Shared
    <3>5. ReadFails(c) <=> LayoutFails(g) \/ ColumnFails(c) \/ ColumnFails(m)
      BY <2>7 DEF ReadFails
    <3>6. Bad(last) <=> Conv(m) \in faulty \/ (~Windowed /\ ReadOf(m) \in faulty)
      <4>1. Bad(Master(g)) <=> ColumnFails(m)
        BY DEF Bad, Master
      <4> QED
        BY <2>3, <3>3, <4>1, ReadAllAssumption DEF ColumnFails
    <3> HIDE DEF last, g, m
    <3>7. /\ Len(Needs(x)) = 4
          /\ Needs(x)[1] = Layout(g) /\ Needs(x)[2] = Conv(c)
          /\ Needs(x)[3] = Layout(g) /\ Needs(x)[4] = last
      BY <3>2
    <3>8. \A k \in 1..4 : k = 1 \/ k = 2 \/ k = 3 \/ k = 4
      OBVIOUS
    <3>9. (\E k \in 1..Len(Needs(x)) : Bad(Needs(x)[k]))
             <=> Bad(Layout(g)) \/ Bad(Conv(c)) \/ Bad(last)
      BY <3>7, <3>8
    <3>10. \A k \in 1..Len(Needs(x)) : Needs(x)[k] \in Shared
      BY <2>1, <3>4, <3>7, <3>8
    <3> QED
      BY <2>2, <2>3, <2>4, <2>5, <2>7, <3>5, <3>6, <3>7, <3>9, <3>10 DEF ColumnFails
  <2> QED
    BY <2>6, <2>7
<1>7. ASSUME Needs(x) = <<>>, Bad(x) <=> FailsItself(x)
      PROVE  /\ Len(Needs(x)) \in Nat
             /\ \A k \in 1..Len(Needs(x)) : Needs(x)[k] \in Shared
             /\ Bad(x) <=> \/ FailsItself(x)
                           \/ \E k \in 1..Len(Needs(x)) : Bad(Needs(x)[k])
  <2>1. Len(Needs(x)) = 0
    BY <1>7
  <2> QED
    BY <1>7, <2>1
<1>8. ASSUME NEW s \in Shared, Needs(x) = <<s>>, Bad(x) <=> FailsItself(x) \/ Bad(s)
      PROVE  /\ Len(Needs(x)) \in Nat
             /\ \A k \in 1..Len(Needs(x)) : Needs(x)[k] \in Shared
             /\ Bad(x) <=> \/ FailsItself(x)
                           \/ \E k \in 1..Len(Needs(x)) : Bad(Needs(x)[k])
  <2>1. Len(Needs(x)) = 1 /\ Needs(x)[1] = s
    BY <1>8
  <2>2. \A k \in 1..1 : k = 1
    OBVIOUS
  <2> QED
    BY <1>8, <2>1, <2>2
<1> QED
  BY ItemKinds, <1>1, <1>2, <1>3, <1>4, <1>5, <1>6, <1>7, <1>8

-----------------------------------------------------------------------------
(* Steps.                                                                  *)

(* What fails is fixed, so is what follows from it.                        *)
LEMMA BadIsFixed ==
    ASSUME faulty' = faulty
    PROVE  /\ \A x : Bad(x)' <=> Bad(x)
           /\ \A c : ReadFails(c)' <=> ReadFails(c)
  BY DEF Bad, ReadFails, LayoutFails, ColumnFails

(* Any computation on any stack.                                           *)
LEMMA FrameOnStack ==
    ASSUME TypeInv, NEW d \in Chans, NEW i \in DOMAIN stack[d]
    PROVE  /\ i \in Nat \ {0} /\ i <= Len(stack[d])
           /\ stack[d][i].of \in Items /\ stack[d][i].i \in Nat \ {0}
           /\ \A k \in 1..Len(Needs(stack[d][i].of)) : Needs(stack[d][i].of)[k] \in Onces
<1>1. stack[d] \in Seq(Frames)
  BY DEF TypeInv
<1>2. i \in 1..Len(stack[d]) /\ Len(stack[d]) \in Nat
  BY <1>1, LenProperties
<1>3. stack[d][i] \in Frames
  BY <1>1, <1>2, ElementOfSeq
<1>4. stack[d][i].of \in Items /\ stack[d][i].i \in Nat \ {0}
  BY <1>3 DEF Frames
<1> QED
  BY <1>2, <1>4, BadExactlyWhen, ReadsAreNotShared DEF TypeInv

(* The stack of a running goroutine and the computation on top of it.      *)
LEMMA TopOfStack ==
    ASSUME TypeInv, StackInv, NEW c \in Chans, outcome[c] = "running"
    PROVE  /\ stack[c] \in Seq(Frames)
           /\ Len(stack[c]) \in Nat \ {0} /\ DOMAIN stack[c] = 1..Len(stack[c])
           /\ Len(stack[c]) \in DOMAIN stack[c]
           /\ Top(c) = stack[c][Len(stack[c])] /\ Top(c) \in Frames
           /\ Top(c).of \in Items /\ Top(c).i \in Nat \ {0}
           /\ HasNeed(c) => Top(c).i \in 1..Len(Needs(Top(c).of)) /\ Need(c) \in Shared
<1>1. stack[c] \in Seq(Frames) /\ stack[c] # <<>>
  BY DEF TypeInv, StackInv
<1>2. Len(stack[c]) \in Nat \ {0} /\ DOMAIN stack[c] = 1..Len(stack[c])
  BY <1>1, EmptySeq, LenProperties
<1>3. Top(c) = stack[c][Len(stack[c])] /\ Top(c) \in Frames
  BY <1>1, <1>2, ElementOfSeq DEF Top
<1>4. Top(c).of \in Items /\ Top(c).i \in Nat \ {0}
  BY <1>3 DEF Frames
<1>5. ASSUME HasNeed(c)
      PROVE  Top(c).i \in 1..Len(Needs(Top(c).of)) /\ Need(c) \in Shared
  <2>1. Len(Needs(Top(c).of)) \in Nat
    BY <1>4, BadExactlyWhen DEF TypeInv
  <2>2. Top(c).i \in 1..Len(Needs(Top(c).of))
    BY <1>4, <1>5, <2>1 DEF HasNeed
  <2> QED
    BY <1>4, <2>2, BadExactlyWhen DEF Need, TypeInv
<1> QED
  BY <1>1, <1>2, <1>3, <1>4, <1>5

(* The result of a completed computation is what `faulty` says: a needed   *)
(* value that failed makes it fail, and with all of them there it fails    *)
(* only by itself (read.go: read, readMasterFloats).                       *)
LEMMA ResultIsRight ==
    ASSUME IInv, NEW c \in Chans, outcome[c] = "running"
    PROVE  /\ HasNeed(c) /\ once[Need(c)] = "error" => Bad(Top(c).of)
           /\ ~HasNeed(c) => (Bad(Top(c).of) <=> FailsItself(Top(c).of))
<1> DEFINE x == Top(c).of
           n == Len(stack[c])
<1>1. /\ n \in DOMAIN stack[c] /\ Top(c) = stack[c][n] /\ x \in Items
      /\ Top(c).i \in Nat \ {0}
      /\ HasNeed(c) => Top(c).i \in 1..Len(Needs(x)) /\ Need(c) \in Shared
  BY TopOfStack DEF IInv
<1>2. /\ Len(Needs(x)) \in Nat
      /\ \A k \in 1..Len(Needs(x)) : Needs(x)[k] \in Shared
      /\ Bad(x) <=> FailsItself(x) \/ \E k \in 1..Len(Needs(x)) : Bad(Needs(x)[k])
  BY <1>1, BadExactlyWhen DEF IInv, TypeInv
<1>3. ASSUME HasNeed(c), once[Need(c)] = "error" PROVE Bad(x)
  <2>1. Bad(Need(c))
    BY <1>1, <1>3 DEF IInv, ValuesRight
  <2> QED
    BY <1>1, <1>2, <1>3, <2>1 DEF Need
<1>4. ASSUME ~HasNeed(c) PROVE Bad(x) <=> FailsItself(x)
  <2>1. \A k \in 1..Len(Needs(x)) : k < Top(c).i
    BY <1>1, <1>2, <1>4 DEF HasNeed
  <2>2. \A k \in 1..Len(Needs(x)) : once[Needs(x)[k]] = "ok"
    BY <1>1, <2>1 DEF IInv, StackInv
  <2> QED
    BY <1>2, <2>2 DEF IInv, ValuesRight
<1> QED
  BY <1>3, <1>4

(* once.Do by the first goroutine keeps the invariant.                     *)
LEMMA EnterOnceInv ==
    ASSUME IInv, NEW c \in Chans, EnterOnce(c)
    PROVE  IInv'
<1> DEFINE o == Need(c)
           n == Len(stack[c])
<1>1. /\ outcome[c] = "running" /\ HasNeed(c) /\ once[o] = "new"
      /\ once' = [once EXCEPT ![o] = "running"]
      /\ stack' = [stack EXCEPT ![c] = Append(stack[c], Frame(o))]
      /\ UNCHANGED <<faulty, outcome, sem, main, next, results, firstErr>>
  BY DEF EnterOnce, HasNeed
<1>2. /\ stack[c] \in Seq(Frames) /\ n \in Nat \ {0} /\ DOMAIN stack[c] = 1..n
      /\ o \in Shared
  BY <1>1, TopOfStack DEF IInv
<1>3. o \in Onces /\ o \in Items
  BY <1>2, ReadsAreNotShared
<1>4. Frame(o) \in Frames /\ Frame(o).of = o /\ Frame(o).i = 1
  BY <1>3 DEF Frame, Frames
<1> DEFINE t == Append(stack[c], Frame(o))
<1>5. /\ t \in Seq(Frames) /\ DOMAIN t = 1..(n + 1) /\ t # <<>>
      /\ t[n + 1] = Frame(o) /\ \A i \in 1..n : t[i] = stack[c][i]
  <2>1. /\ t \in Seq(Frames) /\ Len(t) = n + 1 /\ t[n + 1] = Frame(o)
        /\ \A i \in 1..n : t[i] = stack[c][i]
    BY <1>2, <1>4, AppendProperties
  <2> QED
    BY <1>2, <2>1, LenProperties, EmptySeq
<1> HIDE DEF o, n, t
<1>6. /\ stack'[c] = t /\ \A d \in Chans : d # c => stack'[d] = stack[d]
      /\ stack' \in [Chans -> Seq(Frames)]
  BY <1>1, <1>5 DEF IInv, TypeInv, t, o
<1>7. /\ once' \in [Onces -> States] /\ once'[o] = "running"
      /\ \A q \in Onces : q # o => once'[q] = once[q]
  BY <1>1, <1>3 DEF IInv, TypeInv, States
<1>8. TypeInv'
  BY <1>1, <1>6, <1>7 DEF IInv, TypeInv
(* Every frame of the new stacks is a frame of the old ones or the new     *)
(* one.                                                                    *)
<1>9. \A d \in Chans : \A i \in DOMAIN stack'[d] :
         \/ i \in DOMAIN stack[d] /\ stack'[d][i] = stack[d][i]
         \/ d = c /\ i = n + 1 /\ stack'[d][i] = Frame(o) /\ i > 1
  BY <1>2, <1>5, <1>6
<1>10. \A d \in Chans : \A i \in DOMAIN stack[d] :
          i \in DOMAIN stack'[d] /\ stack'[d][i] = stack[d][i] /\ ~(d = c /\ i = n + 1)
  BY <1>2, <1>5, <1>6
<1>11. \A q \in Onces : /\ once[q] = "running" => once'[q] = "running"
                        /\ once[q] = "ok" => once'[q] = "ok"
                        /\ once'[q] \in {"ok", "error"} => once'[q] = once[q]
  BY <1>1, <1>3, <1>7 DEF o
<1>12. StackInv'
  <2> SUFFICES ASSUME NEW d \in Chans
               PROVE  /\ stack'[d] # <<>> <=> outcome'[d] = "running"
                      /\ \A i \in DOMAIN stack'[d] :
                            /\ i = 1 => stack'[d][i].of = ReadOf(d)
                            /\ i > 1 => /\ stack'[d][i].of \in Shared
                                        /\ once'[stack'[d][i].of] = "running"
                            /\ \A k \in 1..Len(Needs(stack'[d][i].of)) :
                                  k < stack'[d][i].i =>
                                      once'[Needs(stack'[d][i].of)[k]] = "ok"
    BY DEF StackInv
  <2>1. stack'[d] # <<>> <=> outcome'[d] = "running"
    BY <1>1, <1>5, <1>6 DEF IInv, StackInv
  <2>2. ASSUME NEW i \in DOMAIN stack[d], stack'[d][i] = stack[d][i]
        PROVE  /\ i = 1 => stack'[d][i].of = ReadOf(d)
               /\ i > 1 => stack'[d][i].of \in Shared /\ once'[stack'[d][i].of] = "running"
               /\ \A k \in 1..Len(Needs(stack'[d][i].of)) :
                     k < stack'[d][i].i => once'[Needs(stack'[d][i].of)[k]] = "ok"
    <3>1. \A k \in 1..Len(Needs(stack[d][i].of)) : Needs(stack[d][i].of)[k] \in Onces
      BY FrameOnStack DEF IInv
    <3> QED
      BY <1>11, <2>2, <3>1, ReadsAreNotShared DEF IInv, StackInv
  <2>3. ASSUME NEW i \in DOMAIN stack'[d], d = c, i > 1, stack'[d][i] = Frame(o)
        PROVE  /\ i = 1 => stack'[d][i].of = ReadOf(d)
               /\ i > 1 => stack'[d][i].of \in Shared /\ once'[stack'[d][i].of] = "running"
               /\ \A k \in 1..Len(Needs(stack'[d][i].of)) :
                     k < stack'[d][i].i => once'[Needs(stack'[d][i].of)[k]] = "ok"
    <3>1. \A k \in 1..Len(Needs(o)) : ~(k < 1)
      BY <1>3, BadExactlyWhen DEF IInv, TypeInv
    <3>2. i # 1
      BY <1>2, <1>5, <1>6, <2>3
    <3> QED
      BY <1>2, <1>4, <1>7, <2>3, <3>1, <3>2
  <2> QED
    BY <1>9, <2>1, <2>2, <2>3
<1>13. \A d \in Chans : \A i \in DOMAIN stack[d] : stack[d][i].of # o
  <2> SUFFICES ASSUME NEW d \in Chans, NEW i \in DOMAIN stack[d], stack[d][i].of = o
               PROVE  FALSE
    OBVIOUS
  <2>1. i \in Nat \ {0}
    BY LenProperties DEF IInv, TypeInv
  <2>2. CASE i = 1
    BY <1>3, <2>2, ReadsAreNotShared DEF IInv, StackInv
  <2>3. CASE i > 1
    BY <1>1, <2>3 DEF IInv, StackInv, o
  <2> QED
    BY <2>1, <2>2, <2>3
<1>14. Exclusive'
  BY <1>4, <1>9, <1>13 DEF IInv, Exclusive
<1>15. Owned'
  <2> SUFFICES ASSUME NEW q \in Onces, once'[q] = "running"
               PROVE  \E d \in Chans : \E i \in DOMAIN stack'[d] : stack'[d][i].of = q
    BY DEF Owned
  <2>1. CASE q = o
    <3>1. n + 1 \in DOMAIN stack'[c] /\ stack'[c][n + 1].of = o
      BY <1>2, <1>4, <1>5, <1>6
    <3> QED
      BY <2>1, <3>1
  <2>2. CASE q # o
    BY <1>7, <1>10, <2>2 DEF IInv, Owned
  <2> QED
    BY <2>1, <2>2
<1>16. ValuesRight'
  BY <1>1, <1>11, BadIsFixed, ReadsAreNotShared DEF IInv, ValuesRight
<1>17. Recorded' /\ Progress'
  BY <1>1, BadIsFixed DEF IInv, Recorded, Progress
<1> QED
  BY <1>8, <1>12, <1>14, <1>15, <1>16, <1>17 DEF IInv

(* Going on with a value that is there keeps the invariant.                *)
LEMMA PassOnceInv ==
    ASSUME IInv, NEW c \in Chans, PassOnce(c)
    PROVE  IInv'
<1> DEFINE n == Len(stack[c])
           f == Top(c)
           t == [stack[c] EXCEPT ![n] = [f EXCEPT !.i = f.i + 1]]
<1>1. /\ outcome[c] = "running" /\ HasNeed(c) /\ once[Need(c)] = "ok"
      /\ UNCHANGED <<faulty, once, outcome, sem, main, next, results, firstErr>>
  BY DEF PassOnce, HasNeed
<1>2. /\ stack[c] \in Seq(Frames) /\ n \in Nat \ {0} /\ DOMAIN stack[c] = 1..n
      /\ f = stack[c][n] /\ f \in Frames /\ f.of \in Items /\ f.i \in Nat \ {0}
      /\ f.i \in 1..Len(Needs(f.of))
  BY <1>1, TopOfStack DEF IInv
<1>3. stack' = [stack EXCEPT ![c] = t]
  BY <1>2 DEF PassOnce
<1> DEFINE g == [f EXCEPT !.i = f.i + 1]
<1>4. g \in Frames /\ g.of = f.of /\ g.i = f.i + 1
  BY <1>2 DEF Frames
<1>5. /\ t \in Seq(Frames) /\ DOMAIN t = 1..n /\ t[n] = g /\ t # <<>>
      /\ \A i \in 1..n : i # n => t[i] = stack[c][i]
  <2>1. /\ t \in Seq(Frames) /\ Len(t) = n /\ t[n] = g
        /\ \A i \in 1..n : i # n => t[i] = stack[c][i]
    BY <1>2, <1>4, ExceptSeq
  <2> QED
    BY <1>2, <2>1, LenProperties, EmptySeq
<1> HIDE DEF n, f, g, t
<1>6. /\ stack'[c] = t /\ \A d \in Chans : d # c => stack'[d] = stack[d]
      /\ stack' \in [Chans -> Seq(Frames)]
  BY <1>3, <1>5 DEF IInv, TypeInv
<1>7. TypeInv'
  BY <1>1, <1>6 DEF IInv, TypeInv
<1>8. \A d \in Chans :
         /\ DOMAIN stack'[d] = DOMAIN stack[d]
         /\ stack'[d] # <<>> <=> stack[d] # <<>>
         /\ \A i \in DOMAIN stack[d] :
               /\ stack'[d][i].of = stack[d][i].of
               /\ \/ stack'[d][i] = stack[d][i]
                  \/ stack[d][i] = f /\ stack'[d][i] = g
  <2>1. stack[c] # <<>>
    BY <1>1 DEF IInv, StackInv
  <2> QED
    BY <1>2, <1>4, <1>5, <1>6, <2>1
<1>9. StackInv'
  <2> SUFFICES ASSUME NEW d \in Chans, NEW i \in DOMAIN stack[d],
                      NEW k \in 1..Len(Needs(stack[d][i].of)), k < stack'[d][i].i
               PROVE  once[Needs(stack[d][i].of)[k]] = "ok"
    BY <1>1, <1>8 DEF IInv, StackInv
  <2>1. CASE k < stack[d][i].i
    BY <2>1 DEF IInv, StackInv
  <2>2. CASE ~(k < stack[d][i].i)
    <3>1. stack[d][i] = f /\ k < f.i + 1
      BY <1>4, <1>8, <2>2
    <3>2. k = f.i
      BY <1>2, <2>2, <3>1
    <3> QED
      BY <1>1, <3>1, <3>2 DEF Need, f
  <2> QED
    BY <2>1, <2>2
<1>10. Exclusive' /\ Owned'
  BY <1>1, <1>8 DEF IInv, Exclusive, Owned
<1>11. ValuesRight'
  BY <1>1, BadIsFixed DEF IInv, ValuesRight
<1>12. Recorded' /\ Progress'
  BY <1>1, BadIsFixed DEF IInv, Recorded, Progress
<1> QED
  BY <1>7, <1>9, <1>10, <1>11, <1>12 DEF IInv

(* Storing a result that is right keeps the invariant: the value leaves    *)
(* the only stack it was on.                                               *)
LEMMA CompleteInv ==
    ASSUME IInv, NEW c \in Chans, outcome[c] = "running",
           NEW r \in {"ok", "error"}, r = "error" <=> Bad(Top(c).of), Complete(c, r)
    PROVE  IInv'
<1> DEFINE x == Top(c).of
           n == Len(stack[c])
           t == Pop(stack[c])
<1>1. /\ stack[c] \in Seq(Frames) /\ n \in Nat \ {0} /\ DOMAIN stack[c] = 1..n
      /\ n \in DOMAIN stack[c] /\ Top(c) = stack[c][n] /\ x \in Items
  BY TopOfStack DEF IInv
<1>2. /\ stack' = [stack EXCEPT ![c] = t]
      /\ UNCHANGED <<faulty, sem, main, next, results, firstErr>>
  BY DEF Complete
<1>3. /\ t \in Seq(Frames) /\ DOMAIN t = 1..(n - 1) /\ (t = <<>> <=> n = 1)
      /\ \A i \in 1..(n - 1) : t[i] = stack[c][i]
  <2>1. t \in Seq(Frames) /\ Len(t) = n - 1 /\ \A i \in 1..(n - 1) : t[i] = stack[c][i]
    <3>1. 1 \in 1..(n + 1) /\ n - 1 \in (1 - 1)..n
      BY <1>1
    <3> QED
      BY <1>1, <3>1, SubSeqProperties DEF Pop
  <2> HIDE DEF t
  <2>2. DOMAIN t = 1..(n - 1)
    BY <2>1, LenProperties
  <2>3. t = <<>> <=> Len(t) = 0
    BY <2>1, EmptySeq
  <2>4. n - 1 = 0 <=> n = 1
    BY <1>1
  <2> QED
    BY <2>1, <2>2, <2>3, <2>4
<1> HIDE DEF n, t, x
<1>4. /\ stack'[c] = t /\ \A d \in Chans : d # c => stack'[d] = stack[d]
      /\ stack' \in [Chans -> Seq(Frames)]
  BY <1>2, <1>3 DEF IInv, TypeInv
(* The frames left are the old ones without the top of c.                  *)
<1>5. \A d \in Chans : \A i \in DOMAIN stack'[d] :
         i \in DOMAIN stack[d] /\ stack'[d][i] = stack[d][i] /\ ~(d = c /\ i = n)
  BY <1>1, <1>3, <1>4
<1>6. \A d \in Chans : \A i \in DOMAIN stack[d] :
         ~(d = c /\ i = n) => i \in DOMAIN stack'[d] /\ stack'[d][i] = stack[d][i]
  BY <1>1, <1>3, <1>4
<1>7. Exclusive'
  BY <1>5 DEF IInv, Exclusive
<1>8. \A d \in Chans : \A i \in DOMAIN stack'[d] : stack'[d][i].of # x
  BY <1>1, <1>5 DEF IInv, Exclusive, x
<1>9. CASE n = 1
  <2>1. outcome' = [outcome EXCEPT ![c] = r] /\ once' = once
    BY <1>9 DEF Complete, n
  <2>2. x = ReadOf(c)
    BY <1>1, <1>9 DEF IInv, StackInv, x
  <2>3. r = "error" <=> ReadFails(c)
    BY <2>2 DEF Bad, x, ReadOf
  <2>4. outcome'[c] = r /\ \A d \in Chans : d # c => outcome'[d] = outcome[d]
    BY <2>1 DEF IInv, TypeInv
  <2>5. TypeInv'
    BY <1>2, <1>4, <2>1 DEF IInv, TypeInv, Outcomes
  <2>6. StackInv'
    <3> SUFFICES ASSUME NEW d \in Chans
                 PROVE  /\ stack'[d] # <<>> <=> outcome'[d] = "running"
                        /\ \A i \in DOMAIN stack'[d] :
                              /\ i \in DOMAIN stack[d]
                              /\ stack'[d][i] = stack[d][i]
      BY <2>1 DEF IInv, StackInv
    <3>1. stack'[d] # <<>> <=> outcome'[d] = "running"
      <4>1. CASE d = c
        BY <1>3, <1>4, <1>9, <2>4, <4>1
      <4>2. CASE d # c
        BY <1>4, <2>4, <4>2 DEF IInv, StackInv
      <4> QED
        BY <4>1, <4>2
    <3> QED
      BY <1>5, <3>1
  <2>7. Owned'
    <3> SUFFICES ASSUME NEW q \in Onces, once[q] = "running"
                 PROVE  \E d \in Chans : \E i \in DOMAIN stack'[d] : stack'[d][i].of = q
      BY <2>1 DEF Owned
    <3>1. PICK d \in Chans : \E i \in DOMAIN stack[d] : stack[d][i].of = q
      BY DEF IInv, Owned
    <3>2. PICK i \in DOMAIN stack[d] : stack[d][i].of = q
      BY <3>1
    <3>3. ~(d = c /\ i = n)
      BY <1>1, <2>2, <3>2, ReadsAreNotShared DEF x
    <3> QED
      BY <1>6, <3>2, <3>3
  <2>8. ValuesRight'
    BY <1>2, <2>1, <2>3, <2>4, BadIsFixed DEF IInv, ValuesRight
  <2>9. Recorded'
    BY <1>2, <2>1, <2>3, <2>4, BadIsFixed DEF IInv, Recorded
  <2>10. Progress'
    <3>1. ~(c >= next) /\ main # "returned"
      BY DEF IInv, Progress
    <3> QED
      BY <1>2, <2>4, <3>1 DEF IInv, Progress
  <2> QED
    BY <1>7, <2>5, <2>6, <2>7, <2>8, <2>9, <2>10 DEF IInv
<1>10. CASE n # 1
  <2>1. once' = [once EXCEPT ![x] = r] /\ outcome' = outcome
    BY <1>10 DEF Complete, n, x
  <2>2. x \in Shared /\ x \in Onces /\ once[x] = "running"
    <3>1. n > 1
      BY <1>1, <1>10
    <3> QED
      BY <1>1, <3>1, ReadsAreNotShared DEF IInv, StackInv, x
  <2>3. once'[x] = r /\ \A q \in Onces : q # x => once'[q] = once[q]
    BY <2>1, <2>2 DEF IInv, TypeInv
  <2>4. TypeInv'
    BY <1>2, <1>4, <2>1, <2>2 DEF IInv, TypeInv, States
  <2>5. StackInv'
    <3> SUFFICES ASSUME NEW d \in Chans
                 PROVE  /\ stack'[d] # <<>> <=> outcome'[d] = "running"
                        /\ \A i \in DOMAIN stack'[d] :
                              /\ i = 1 => stack'[d][i].of = ReadOf(d)
                              /\ i > 1 => /\ stack'[d][i].of \in Shared
                                          /\ once'[stack'[d][i].of] = "running"
                              /\ \A k \in 1..Len(Needs(stack'[d][i].of)) :
                                    k < stack'[d][i].i =>
                                        once'[Needs(stack'[d][i].of)[k]] = "ok"
      BY DEF StackInv
    <3>1. stack'[d] # <<>> <=> outcome'[d] = "running"
      BY <1>3, <1>4, <1>10, <2>1 DEF IInv, StackInv
    <3>2. ASSUME NEW i \in DOMAIN stack'[d]
          PROVE  /\ i = 1 => stack'[d][i].of = ReadOf(d)
                 /\ i > 1 => /\ stack'[d][i].of \in Shared
                             /\ once'[stack'[d][i].of] = "running"
                 /\ \A k \in 1..Len(Needs(stack'[d][i].of)) :
                       k < stack'[d][i].i => once'[Needs(stack'[d][i].of)[k]] = "ok"
      <4>1. i \in DOMAIN stack[d] /\ stack'[d][i] = stack[d][i] /\ stack[d][i].of # x
        BY <1>5, <1>8
      <4>2. \A k \in 1..Len(Needs(stack[d][i].of)) : Needs(stack[d][i].of)[k] \in Onces
        BY <4>1, FrameOnStack DEF IInv
      <4> QED
        BY <2>2, <2>3, <4>1, <4>2, ReadsAreNotShared DEF IInv, StackInv
    <3> QED
      BY <3>1, <3>2
  <2>6. Owned'
    <3> SUFFICES ASSUME NEW q \in Onces, once'[q] = "running"
                 PROVE  \E d \in Chans : \E i \in DOMAIN stack'[d] : stack'[d][i].of = q
      BY DEF Owned
    <3>1. q # x /\ once[q] = "running"
      BY <2>3
    <3>2. PICK d \in Chans : \E i \in DOMAIN stack[d] : stack[d][i].of = q
      BY <3>1 DEF IInv, Owned
    <3>3. PICK i \in DOMAIN stack[d] : stack[d][i].of = q
      BY <3>2
    <3>4. ~(d = c /\ i = n)
      BY <1>1, <3>1, <3>3 DEF x
    <3> QED
      BY <1>6, <3>3, <3>4
  <2>7. ValuesRight'
    BY <1>2, <2>1, <2>2, <2>3, BadIsFixed, ReadsAreNotShared DEF IInv, ValuesRight, x
  <2>8. Recorded' /\ Progress'
    BY <1>2, <2>1, BadIsFixed DEF IInv, Recorded, Progress
  <2> QED
    BY <1>7, <2>4, <2>5, <2>6, <2>7, <2>8 DEF IInv
<1> QED
  BY <1>9, <1>10

(* Starting the next channel's goroutine keeps the invariant.              *)
LEMMA SpawnInv ==
    ASSUME IInv, Spawn
    PROVE  IInv'
<1> DEFINE s == <<Frame(ReadOf(next))>>
<1>1. /\ main = "spawn" /\ next \in Chans
      /\ outcome' = [outcome EXCEPT ![next] = "running"]
      /\ stack' = [stack EXCEPT ![next] = s]
      /\ next' = next + 1 /\ main' \in {"spawn", "wait"}
      /\ UNCHANGED <<faulty, once, results, firstErr>>
  BY ReadAllAssumption DEF IInv, TypeInv, Spawn, Chans
<1>2. outcome[next] = "off" /\ stack[next] = <<>>
  <2>1. next >= next
    BY <1>1, ReadAllAssumption DEF Chans
  <2>2. outcome[next] = "off"
    BY <1>1, <2>1 DEF IInv, Progress
  <2> QED
    BY <1>1, <2>2 DEF IInv, StackInv
<1>3. /\ Frame(ReadOf(next)) \in Frames
      /\ Frame(ReadOf(next)).of = ReadOf(next) /\ Frame(ReadOf(next)).i = 1
  BY <1>1, ReadsAreNotShared DEF Frame, Frames
<1>4. s \in Seq(Frames) /\ DOMAIN s = 1..1 /\ s[1] = Frame(ReadOf(next)) /\ s # <<>>
  BY <1>3
<1> HIDE DEF s
<1>5. /\ stack'[next] = s /\ \A d \in Chans : d # next => stack'[d] = stack[d]
      /\ stack' \in [Chans -> Seq(Frames)]
      /\ outcome'[next] = "running" /\ \A d \in Chans : d # next => outcome'[d] = outcome[d]
  BY <1>1, <1>4 DEF IInv, TypeInv
<1>6. TypeInv'
  <2>1. next' \in 1..(NChan + 1)
    BY <1>1, ReadAllAssumption DEF Chans
  <2> QED
    BY <1>1, <1>5, <2>1 DEF IInv, TypeInv, Outcomes
<1>7. \A d \in Chans : \A i \in DOMAIN stack'[d] :
         \/ d # next /\ i \in DOMAIN stack[d] /\ stack'[d][i] = stack[d][i]
         \/ d = next /\ i = 1 /\ stack'[d][i] = Frame(ReadOf(next))
  BY <1>4, <1>5
<1>8. StackInv'
  <2> SUFFICES ASSUME NEW d \in Chans
               PROVE  /\ stack'[d] # <<>> <=> outcome'[d] = "running"
                      /\ \A i \in DOMAIN stack'[d] :
                            /\ i = 1 => stack'[d][i].of = ReadOf(d)
                            /\ i > 1 => /\ stack'[d][i].of \in Shared
                                        /\ once[stack'[d][i].of] = "running"
                            /\ \A k \in 1..Len(Needs(stack'[d][i].of)) :
                                  k < stack'[d][i].i =>
                                      once[Needs(stack'[d][i].of)[k]] = "ok"
    BY <1>1 DEF StackInv
  <2>1. CASE d # next
    BY <1>5, <2>1 DEF IInv, StackInv
  <2>2. CASE d = next
    <3>1. \A k \in 1..Len(Needs(ReadOf(next))) : ~(k < 1)
      BY <1>1, BadExactlyWhen, ReadsAreNotShared DEF IInv, TypeInv
    <3> QED
      BY <1>3, <1>4, <1>5, <1>7, <2>2, <3>1
  <2> QED
    BY <2>1, <2>2
<1>9. \A d \in Chans : \A i \in DOMAIN stack[d] : stack[d][i].of # ReadOf(next)
  <2> SUFFICES ASSUME NEW d \in Chans, NEW i \in DOMAIN stack[d],
                      stack[d][i].of = ReadOf(next)
               PROVE  FALSE
    OBVIOUS
  <2>1. i \in Nat \ {0}
    BY FrameOnStack DEF IInv
  <2>2. CASE i = 1
    <3>1. ReadOf(d) = ReadOf(next)
      BY <2>2 DEF IInv, StackInv
    <3>2. d = next
      BY <3>1 DEF ReadOf
    <3>3. DOMAIN stack[d] = {}
      BY <1>2, <3>2
    <3> QED
      BY <3>3
  <2>3. CASE i > 1
    BY <1>1, <2>3, ReadsAreNotShared DEF IInv, StackInv
  <2> QED
    BY <2>1, <2>2, <2>3
<1>10. Exclusive'
  BY <1>3, <1>7, <1>9 DEF IInv, Exclusive
<1>11. Owned'
  <2>1. \A d \in Chans : \A i \in DOMAIN stack[d] : d # next
    BY <1>2
  <2> QED
    BY <1>1, <1>5, <2>1 DEF IInv, Owned
<1>12. ValuesRight' /\ Recorded'
  BY <1>1, <1>5, BadIsFixed DEF IInv, ValuesRight, Recorded
<1>13. Progress'
  <2>1. \A d \in Chans : d >= next + 1 => d >= next /\ d # next
    BY <1>1, ReadAllAssumption DEF Chans
  <2> QED
    BY <1>1, <1>5, <2>1 DEF IInv, Progress
<1> QED
  BY <1>6, <1>8, <1>10, <1>11, <1>12, <1>13 DEF IInv

(* Recording a finished read keeps the invariant: the first error is kept. *)
LEMMA FinishInv ==
    ASSUME IInv, NEW c \in Chans, Finish(c)
    PROVE  IInv'
<1>1. /\ outcome[c] \in {"ok", "error"}
      /\ outcome' = [outcome EXCEPT ![c] = "gone"]
      /\ UNCHANGED <<faulty, once, stack, main, next>>
  BY DEF Finish
<1>2. /\ outcome'[c] = "gone" /\ \A d \in Chans : d # c => outcome'[d] = outcome[d]
      /\ outcome' \in [Chans -> Outcomes]
  BY <1>1 DEF IInv, TypeInv, Outcomes
<1>3. TypeInv'
  BY <1>1, <1>2 DEF IInv, TypeInv
<1>4. StackInv' /\ Exclusive' /\ Owned'
  <2>1. \A d \in Chans : outcome'[d] = "running" <=> outcome[d] = "running"
    BY <1>1, <1>2
  <2> QED
    BY <1>1, <2>1 DEF IInv, StackInv, Exclusive, Owned
<1>5. ValuesRight'
  BY <1>1, <1>2, BadIsFixed DEF IInv, ValuesRight
<1>6. Recorded'
  <2>1. CASE outcome[c] = "ok"
    <3>1. results' = results \union {c} /\ firstErr' = firstErr
      BY <2>1 DEF Finish
    <3>2. ~ReadFails(c)
      BY <2>1 DEF IInv, ValuesRight
    <3> QED
      BY <1>1, <1>2, <3>1, <3>2, BadIsFixed DEF IInv, Recorded
  <2>2. CASE outcome[c] = "error"
    <3>1. results' = results /\ firstErr' = IF firstErr = 0 THEN c ELSE firstErr
      BY <2>2 DEF Finish
    <3>2. ReadFails(c) /\ c # 0
      BY <2>2, ReadAllAssumption DEF IInv, ValuesRight, Chans
    <3> QED
      BY <1>1, <1>2, <3>1, <3>2, BadIsFixed DEF IInv, Recorded
  <2> QED
    BY <1>1, <2>1, <2>2
<1>7. Progress'
  <2>1. ~(c >= next) /\ main # "returned"
    BY <1>1 DEF IInv, Progress
  <2> QED
    BY <1>1, <1>2, <2>1 DEF IInv, Progress
<1> QED
  BY <1>3, <1>4, <1>5, <1>6, <1>7 DEF IInv

(* The invariant holds in every state.                                     *)
THEOREM ReadAllInv == Spec => []IInv
<1>1. Init => IInv
  <2> SUFFICES ASSUME Init PROVE IInv
    OBVIOUS
  <2>1. TypeInv
    BY ReadAllAssumption DEF Init, TypeInv, States, Outcomes
  <2>2. \A c \in Chans : stack[c] = <<>> /\ DOMAIN stack[c] = {} /\ outcome[c] = "off"
    BY DEF Init
  <2>3. StackInv /\ Exclusive
    BY <2>2 DEF StackInv, Exclusive
  <2>4. Owned /\ ValuesRight
    BY <2>2, ReadsAreNotShared DEF Init, Owned, ValuesRight
  <2>5. Recorded /\ Progress
    BY <2>2 DEF Init, Recorded, Progress
  <2> QED
    BY <2>1, <2>3, <2>4, <2>5 DEF IInv
<1>2. IInv /\ [Next]_vars => IInv'
  <2> SUFFICES ASSUME IInv, [Next]_vars PROVE IInv'
    OBVIOUS
  <2>1. CASE Spawn
    BY <2>1, SpawnInv
  <2>2. CASE Wait
    <3>1. /\ UNCHANGED <<faulty, once, stack, outcome, sem, next, results, firstErr>>
          /\ main' = "returned" /\ \A c \in Chans : outcome[c] = "gone"
      BY <2>2 DEF Wait
    <3>2. TypeInv' /\ StackInv'
      BY <3>1 DEF IInv, TypeInv, StackInv
    <3>3. Exclusive' /\ Owned'
      BY <3>1 DEF IInv, Exclusive, Owned
    <3>4. ValuesRight' /\ Recorded' /\ Progress'
      BY <3>1, BadIsFixed DEF IInv, ValuesRight, Recorded, Progress
    <3> QED
      BY <3>2, <3>3, <3>4 DEF IInv
  <2>3. ASSUME NEW c \in Chans, EnterOnce(c) PROVE IInv'
    BY <2>3, EnterOnceInv
  <2>4. ASSUME NEW c \in Chans, PassOnce(c) PROVE IInv'
    BY <2>4, PassOnceInv
  <2>5. ASSUME NEW c \in Chans, PassError(c) PROVE IInv'
    <3>1. /\ outcome[c] = "running" /\ HasNeed(c) /\ once[Need(c)] = "error"
          /\ Complete(c, "error")
      BY <2>5 DEF PassError, HasNeed
    <3> QED
      BY <3>1, ResultIsRight, CompleteInv
  <2>6. ASSUME NEW c \in Chans, Compute(c) PROVE IInv'
    <3> DEFINE r == IF FailsItself(Top(c).of) THEN "error" ELSE "ok"
    <3>1. outcome[c] = "running" /\ ~HasNeed(c) /\ Complete(c, r)
      BY <2>6 DEF Compute
    <3>2. r \in {"ok", "error"} /\ (r = "error" <=> Bad(Top(c).of))
      BY <3>1, ResultIsRight
    <3> HIDE DEF r
    <3> QED
      BY <3>1, <3>2, CompleteInv
  <2>7. ASSUME NEW c \in Chans, Finish(c) PROVE IInv'
    BY <2>7, FinishInv
  <2>8. CASE UNCHANGED vars
    <3>1. UNCHANGED <<faulty, once, stack, outcome, sem, next, results, firstErr, main>>
      BY <2>8 DEF vars
    <3>2. TypeInv' /\ StackInv'
      BY <3>1 DEF IInv, TypeInv, StackInv
    <3>3. Exclusive' /\ Owned'
      BY <3>1 DEF IInv, Exclusive, Owned
    <3>4. ValuesRight' /\ Recorded' /\ Progress'
      BY <3>1, BadIsFixed DEF IInv, ValuesRight, Recorded, Progress
    <3> QED
      BY <3>2, <3>3, <3>4 DEF IInv
  <2> QED
    BY <2>1, <2>2, <2>3, <2>4, <2>5, <2>6, <2>7, <2>8 DEF Next, Goroutine
<1> QED
  BY <1>1, <1>2, PTL DEF Spec

-----------------------------------------------------------------------------
(* The results.                                                            *)

(* Whatever the number of goroutines, the value a sync.Once guards is      *)
(* computed by exactly one of them at a time (read.go: masterValues,       *)
(* recordLayout, sectionReader, compiledConversion).                       *)
THEOREM MutualExclusion == Spec => []ComputedByOne
<1>1. IInv => ComputedByOne
  <2> SUFFICES ASSUME IInv, NEW o \in Onces, once[o] = "running"
               PROVE  Cardinality({c \in Chans : \E i \in DOMAIN stack[c] :
                                                     stack[c][i].of = o}) = 1
    BY DEF ComputedByOne
  <2>1. PICK c \in Chans : \E i \in DOMAIN stack[c] : stack[c][i].of = o
    BY DEF IInv, Owned
  <2>2. {d \in Chans : \E i \in DOMAIN stack[d] : stack[d][i].of = o} = {c}
    BY <2>1 DEF IInv, Exclusive
  <2> QED
    BY <2>2, FS_Singleton
<1> QED
  BY <1>1, ReadAllInv, PTL

(* The channel whose signal the returned map holds under a name exists:    *)
(* the first one of that name (read.go: File.ReadAll).                     *)
LEMMA OutIsAChannel ==
    ASSUME NEW n \in DOMAIN Out
    PROVE  Out[n] \in Chans
<1> DEFINE T == {c \in Chans : NameOf[c] = n}
<1>1. DOMAIN Out = {NameOf[c] : c \in Chans}
  BY DEF Out
<1>2. T # {} /\ T \subseteq Nat
  BY <1>1, ReadAllAssumption DEF Chans
<1>3. PICK c \in T : \A d \in T : ~(<<d, c>> \in OpToRel(<, Nat))
  <2> HIDE DEF T
  <2> QED
    BY <1>2, NatLessThanWellFounded, WFMin
<1>4. \A d \in T : c <= d
  <2> HIDE DEF T
  <2>1. \A d \in T : ~(d < c)
    BY <1>2, <1>3 DEF OpToRel
  <2> QED
    BY <1>2, <2>1
<1>5. c \in Chans /\ NameOf[c] = n /\ \A d \in Chans : NameOf[d] = n => c <= d
  BY <1>3, <1>4
<1> QED
  BY <1>1, <1>5 DEF Out

(* What ReadAll returns does not depend on the schedule: an error exactly  *)
(* when some channel cannot be read, and otherwise every signal of the map.*)
THEOREM ReturnsRight == Spec => []ReturnsWhatReadsGive
<1>1. IInv => ReturnsWhatReadsGive
  <2> SUFFICES ASSUME IInv, main = "returned"
               PROVE  /\ firstErr # 0 <=> \E c \in Chans : ReadFails(c)
                      /\ firstErr # 0 => ReadFails(firstErr)
                      /\ firstErr = 0 => \A n \in DOMAIN Out : Out[n] \in results
    BY DEF ReturnsWhatReadsGive
  <2>1. \A c \in Chans : outcome[c] = "gone"
    BY DEF IInv, Progress
  <2> QED
    BY <2>1, OutIsAChannel DEF IInv, Recorded
<1> QED
  BY <1>1, ReadAllInv, PTL

(* A read at work or not yet recorded holds exactly one token of the       *)
(* semaphore, so no more than NumCPU of them exist at a time, and the      *)
(* deferred receive never finds the semaphore empty (read.go: ReadAll).    *)
THEOREM AtMostNumCPU == Spec => []TokensInv
<1>1. Init => TokensInv
  <2> SUFFICES ASSUME Init PROVE TokensInv
    OBVIOUS
  <2>1. Holders = {}
    BY DEF Init, Holders
  <2> QED
    BY <2>1, FS_EmptySet, ReadAllAssumption DEF Init, TokensInv
<1>2. IInv /\ TokensInv /\ [Next]_vars => TokensInv'
  <2> SUFFICES ASSUME IInv, TokensInv, [Next]_vars PROVE TokensInv'
    OBVIOUS
  <2>1. IsFiniteSet(Holders) /\ Cardinality(Holders) \in Nat
    <3>1. IsFiniteSet(Chans)
      BY FS_Interval, ReadAllAssumption DEF Chans
    <3>2. Holders \subseteq Chans
      BY DEF Holders
    <3> QED
      BY <3>1, <3>2, FS_Subset, FS_CardinalityType
  <2>2. ASSUME Holders' = Holders, sem' = sem PROVE TokensInv'
    BY <2>2 DEF TokensInv
  <2>3. CASE Spawn
    <3>1. next \in Chans /\ sem < NumCPU /\ sem' = sem + 1
      BY <2>3, ReadAllAssumption DEF IInv, TypeInv, Spawn, Chans
    <3>2. outcome[next] = "off"
      BY <3>1, ReadAllAssumption DEF IInv, Progress, Chans
    <3>3. Holders' = Holders \union {next} /\ next \notin Holders
      BY <2>3, <3>1, <3>2 DEF Spawn, Holders, IInv, TypeInv
    <3>4. Cardinality(Holders') = Cardinality(Holders) + 1
      BY <2>1, <3>3, FS_AddElement
    <3> QED
      BY <2>1, <3>1, <3>4, ReadAllAssumption DEF TokensInv
  <2>4. CASE Wait
    BY <2>2, <2>4 DEF Wait, Holders
  <2>5. ASSUME NEW c \in Chans, EnterOnce(c) \/ PassOnce(c) PROVE TokensInv'
    BY <2>2, <2>5 DEF EnterOnce, PassOnce, Holders
  <2>6. ASSUME NEW c \in Chans, NEW r \in {"ok", "error"},
               outcome[c] = "running", Complete(c, r)
        PROVE  TokensInv'
    <3>1. sem' = sem /\ (outcome' = [outcome EXCEPT ![c] = r] \/ outcome' = outcome)
      BY <2>6 DEF Complete
    <3>2. Holders' = Holders
      BY <2>6, <3>1 DEF Holders, IInv, TypeInv
    <3> QED
      BY <2>2, <3>1, <3>2
  <2>7. ASSUME NEW c \in Chans, PassError(c) PROVE TokensInv'
    BY <2>6, <2>7 DEF PassError, HasNeed
  <2>8. ASSUME NEW c \in Chans, Compute(c) PROVE TokensInv'
    BY <2>6, <2>8 DEF Compute
  <2>9. ASSUME NEW c \in Chans, Finish(c) PROVE TokensInv'
    <3>1. c \in Holders /\ sem' = sem - 1 /\ Holders' = Holders \ {c}
      BY <2>9 DEF Finish, Holders, IInv, TypeInv
    <3>2. Cardinality(Holders') = Cardinality(Holders) - 1
      BY <2>1, <3>1, FS_RemoveElement
    <3> QED
      BY <2>1, <3>1, <3>2, ReadAllAssumption DEF TokensInv
  <2>10. CASE UNCHANGED vars
    BY <2>2, <2>10 DEF vars, Holders
  <2> QED
    BY <2>3, <2>4, <2>5, <2>7, <2>8, <2>9, <2>10 DEF Next, Goroutine
<1> QED
  BY <1>1, <1>2, ReadAllInv, PTL DEF Spec

-----------------------------------------------------------------------------
(* Nobody waits for everybody.                                             *)

(* A computation only asks for values of a smaller rank.                   *)
Rank(x) ==
    IF x[1] \in {"section", "conv"} THEN 0
    ELSE IF x[1] \in {"streams", "master"} THEN 1
    ELSE IF x[1] = "layout" THEN 2 ELSE 3

(* The computations a goroutine is inside of have decreasing ranks; main   *)
(* spawns until every channel was started and then waits.                  *)
RankInv ==
    /\ \A c \in Chans : \A i, j \in DOMAIN stack[c] :
          i < j => Rank(stack[c][j].of) < Rank(stack[c][i].of)
    /\ main = "spawn" => next <= NChan
    /\ main = "wait" => next = NChan + 1
    /\ \A c \in Chans : c < next => outcome[c] # "off"

Waiting(c) == HasNeed(c) /\ once[Need(c)] = "running"

(* Until ReadAll has returned somebody can go on: main starts a channel or *)
(* returns, a goroutine records its result, or a goroutine does not wait   *)
(* for a value another one is computing.                                   *)
SomeoneCanGoOn ==
    \/ main = "returned"
    \/ main = "spawn" /\ next <= NChan /\ sem < NumCPU
    \/ main = "wait" /\ \A c \in Chans : outcome[c] = "gone"
    \/ \E c \in Chans : outcome[c] \in {"ok", "error"}
    \/ \E c \in Chans : outcome[c] = "running" /\ ~Waiting(c)

(* A value is asked for only by a computation of a higher rank (read.go:   *)
(* the nesting of the Do calls).                                           *)
LEMMA NeedsRankLower ==
    ASSUME NEW x \in Items, faulty \subseteq Fallible, NEW k \in 1..Len(Needs(x))
    PROVE  Rank(x) \in 0..3 /\ Rank(Needs(x)[k]) \in 0..3 /\ Rank(Needs(x)[k]) < Rank(x)
<1>1. Rank(x) \in 0..3 /\ Rank(Needs(x)[k]) \in 0..3
  BY DEF Rank
<1>2. Needs(x)[k] \in Shared
  BY BadExactlyWhen
<1>3. \A y \in Shared : y[1] \in {"section", "streams", "layout", "conv", "master"}
  BY DEF Shared, Section, Streams, Layout, Conv, Master
<1>4. CASE x[1] \in {"section", "conv"}
  <2>1. Len(Needs(x)) = 0
    BY <1>4, NeedsByKind
  <2> QED
    BY <2>1
<1>5. CASE x[1] \in {"streams", "master"}
  <2>1. \E y : Needs(x) = <<y>> /\ y[1] \in {"section", "conv"}
    <3>1. CASE x[1] = "streams"
      BY <3>1, NeedsByKind DEF Section
    <3>2. CASE x[1] = "master"
      BY <3>2, NeedsByKind DEF Conv
    <3> QED
      BY <1>5, <3>1, <3>2
  <2>2. PICK y : Needs(x) = <<y>> /\ y[1] \in {"section", "conv"}
    BY <2>1
  <2>3. Len(<<y>>) = 1 /\ <<y>>[1] = y
    OBVIOUS
  <2>4. Needs(x)[k] = y
    BY <2>2, <2>3
  <2> QED
    BY <1>1, <1>5, <2>2, <2>4 DEF Rank
<1>6. CASE x[1] = "layout"
  <2>1. \E y : Needs(x) = <<y>> /\ y[1] \in {"section", "streams"}
    <3>1. Needs(x) = LayoutNeeds(x[2])
      BY <1>6, NeedsByKind
    <3> QED
      BY <3>1 DEF LayoutNeeds, Section, Streams
  <2>2. PICK y : Needs(x) = <<y>> /\ y[1] \in {"section", "streams"}
    BY <2>1
  <2>3. Len(<<y>>) = 1 /\ <<y>>[1] = y
    OBVIOUS
  <2>4. Needs(x)[k] = y
    BY <2>2, <2>3
  <2> QED
    BY <1>1, <1>6, <2>2, <2>4 DEF Rank
<1>7. CASE x[1] = "read"
  <2>1. Rank(x) = 3
    BY <1>7 DEF Rank
  <2>2. \A y : y[1] \in {"section", "streams", "layout", "conv", "master"} => Rank(y) < 3
    BY DEF Rank
  <2> QED
    BY <1>1, <1>2, <1>3, <2>1, <2>2
<1>8. x[1] \in {"section", "streams", "layout", "conv", "master", "read"}
  BY ItemKinds DEF Section, Streams, Layout, Conv, Master, ReadOf
<1> QED
  BY <1>4, <1>5, <1>6, <1>7, <1>8

(* The ranks on a stack decrease.                                          *)
THEOREM RanksDecrease == Spec => []RankInv
<1>1. Init => RankInv
  BY ReadAllAssumption DEF Init, RankInv, Chans
<1>2. IInv /\ RankInv /\ [Next]_vars => RankInv'
  <2> SUFFICES ASSUME IInv, RankInv, [Next]_vars PROVE RankInv'
    OBVIOUS
  <2> USE DEF RankInv
  <2>1. CASE Spawn
    <3>1. /\ main = "spawn" /\ next \in Chans /\ next' = next + 1
          /\ outcome' = [outcome EXCEPT ![next] = "running"]
          /\ stack' = [stack EXCEPT ![next] = <<Frame(ReadOf(next))>>]
          /\ main' = IF next = NChan THEN "wait" ELSE "spawn"
      BY <2>1, ReadAllAssumption DEF IInv, TypeInv, Spawn, Chans
    <3>2. DOMAIN stack'[next] = {1} /\ \A d \in Chans : d # next => stack'[d] = stack[d]
      BY <3>1 DEF IInv, TypeInv
    <3>3. \A c \in Chans : \A i, j \in DOMAIN stack'[c] :
             i < j => Rank(stack'[c][j].of) < Rank(stack'[c][i].of)
      BY <3>2
    <3>4. \A c \in Chans : c < next' => outcome'[c] # "off"
      BY <3>1, ReadAllAssumption DEF IInv, TypeInv, Chans
    <3>5. (main' = "spawn" => next' <= NChan) /\ (main' = "wait" => next' = NChan + 1)
      BY <3>1, ReadAllAssumption DEF Chans
    <3> QED
      BY <3>3, <3>4, <3>5
  <2>2. CASE Wait
    BY <2>2 DEF Wait
  <2>3. ASSUME NEW c \in Chans, EnterOnce(c) PROVE RankInv'
    <3> DEFINE n == Len(stack[c])
               t == Append(stack[c], Frame(Need(c)))
    <3>1. /\ outcome[c] = "running" /\ HasNeed(c)
          /\ stack' = [stack EXCEPT ![c] = t] /\ UNCHANGED <<outcome, main, next>>
      BY <2>3 DEF EnterOnce, HasNeed
    <3>2. /\ stack[c] \in Seq(Frames) /\ n \in Nat \ {0} /\ DOMAIN stack[c] = 1..n
          /\ Top(c) = stack[c][n] /\ Top(c).of \in Items /\ Need(c) \in Shared
          /\ Top(c).i \in 1..Len(Needs(Top(c).of))
      BY <3>1, TopOfStack DEF IInv
    <3>3. Frame(Need(c)) \in Frames /\ Frame(Need(c)).of = Need(c)
      BY <3>2, ReadsAreNotShared DEF Frame, Frames
    <3>4. /\ DOMAIN t = 1..(n + 1) /\ t[n + 1].of = Need(c)
          /\ \A i \in 1..n : t[i] = stack[c][i]
      <4>1. /\ t \in Seq(Frames) /\ Len(t) = n + 1 /\ t[n + 1] = Frame(Need(c))
            /\ \A i \in 1..n : t[i] = stack[c][i]
        BY <3>2, <3>3, AppendProperties
      <4> QED
        BY <3>3, <4>1, LenProperties
    <3>5. Rank(Need(c)) < Rank(stack[c][n].of) /\ Rank(Need(c)) \in 0..3
      BY <3>2, NeedsRankLower DEF Need, IInv, TypeInv
    <3>6. \A i \in DOMAIN stack[c] : Rank(stack[c][i].of) \in 0..3
      BY DEF Rank
    <3> HIDE DEF n, t
    <3>7. stack'[c] = t /\ \A d \in Chans : d # c => stack'[d] = stack[d]
      BY <3>1 DEF IInv, TypeInv
    <3>8. \A i \in 1..n : Rank(Need(c)) < Rank(stack[c][i].of)
      <4> SUFFICES ASSUME NEW i \in 1..n PROVE Rank(Need(c)) < Rank(stack[c][i].of)
        OBVIOUS
      <4>1. CASE i = n
        BY <3>5, <4>1
      <4>2. CASE i < n
        <5>1. Rank(stack[c][n].of) < Rank(stack[c][i].of)
          BY <3>2, <4>2
        <5> QED
          BY <3>2, <3>5, <3>6, <5>1
      <4> QED
        BY <3>2, <4>1, <4>2
    <3>9. ASSUME NEW i \in DOMAIN t, NEW j \in DOMAIN t, i < j
          PROVE  Rank(t[j].of) < Rank(t[i].of)
      <4>1. CASE j = n + 1
        <5>1. i \in 1..n
          BY <3>2, <3>4, <3>9, <4>1
        <5> QED
          BY <3>4, <3>8, <4>1, <5>1
      <4>2. CASE j # n + 1
        <5>1. i \in 1..n /\ j \in 1..n
          BY <3>2, <3>4, <3>9, <4>2
        <5> QED
          BY <3>2, <3>4, <3>9, <5>1
      <4> QED
        BY <4>1, <4>2
    <3> QED
      BY <3>1, <3>7, <3>9
  <2>4. ASSUME NEW c \in Chans, PassOnce(c) PROVE RankInv'
    <3> DEFINE n == Len(stack[c])
    <3>1. /\ outcome[c] = "running" /\ UNCHANGED <<outcome, main, next>>
          /\ stack' = [stack EXCEPT ![c][n].i = @ + 1]
      BY <2>4 DEF PassOnce, HasNeed
    <3>2. stack[c] \in Seq(Frames) /\ DOMAIN stack[c] = 1..n /\ n \in 1..n
      BY <3>1, TopOfStack DEF IInv
    <3>3. \A d \in Chans : /\ DOMAIN stack'[d] = DOMAIN stack[d]
                           /\ \A i \in DOMAIN stack[d] : stack'[d][i].of = stack[d][i].of
      <4>1. stack[c][n] \in Frames
        BY <3>2, ElementOfSeq
      <4>2. stack \in [Chans -> Seq(Frames)]
        BY DEF IInv, TypeInv
      <4> QED
        BY <3>1, <3>2, <4>1, <4>2 DEF Frames
    <3> QED
      BY <3>1, <3>3
  <2>5. ASSUME NEW c \in Chans, NEW r \in {"ok", "error"},
               outcome[c] = "running", Complete(c, r)
        PROVE  RankInv'
    <3> DEFINE n == Len(stack[c])
               t == Pop(stack[c])
    <3>1. /\ stack' = [stack EXCEPT ![c] = t] /\ UNCHANGED <<main, next>>
          /\ outcome' = [outcome EXCEPT ![c] = r] \/ outcome' = outcome
      BY <2>5 DEF Complete
    <3>2. stack[c] \in Seq(Frames) /\ n \in Nat \ {0} /\ DOMAIN stack[c] = 1..n
      BY <2>5, TopOfStack DEF IInv
    <3>3. DOMAIN t = 1..(n - 1) /\ \A i \in 1..(n - 1) : t[i] = stack[c][i]
      <4>1. t \in Seq(Frames) /\ Len(t) = n - 1 /\ \A i \in 1..(n - 1) : t[i] = stack[c][i]
        BY <3>2, SubSeqProperties DEF Pop
      <4> HIDE DEF t
      <4> QED
        BY <4>1, LenProperties
    <3> HIDE DEF n, t
    <3>4. stack'[c] = t /\ \A d \in Chans : d # c => stack'[d] = stack[d]
      BY <3>1 DEF IInv, TypeInv
    <3>5. \A d \in Chans : \A i \in DOMAIN stack'[d] :
             i \in DOMAIN stack[d] /\ stack'[d][i] = stack[d][i]
      BY <3>2, <3>3, <3>4
    <3>6. \A d \in Chans : outcome'[d] = "off" => outcome[d] = "off"
      BY <2>5, <3>1 DEF IInv, TypeInv
    <3> QED
      BY <3>1, <3>5, <3>6
  <2>6. ASSUME NEW c \in Chans, PassError(c) PROVE RankInv'
    BY <2>5, <2>6 DEF PassError, HasNeed
  <2>7. ASSUME NEW c \in Chans, Compute(c) PROVE RankInv'
    BY <2>5, <2>7 DEF Compute
  <2>8. ASSUME NEW c \in Chans, Finish(c) PROVE RankInv'
    BY <2>8 DEF Finish, IInv, TypeInv
  <2>9. CASE UNCHANGED vars
    BY <2>9 DEF vars
  <2> QED
    BY <2>1, <2>2, <2>3, <2>4, <2>6, <2>7, <2>8, <2>9 DEF Next, Goroutine
<1> QED
  BY <1>1, <1>2, ReadAllInv, PTL DEF Spec

(* The nested waits on sync.Once values and the wait for a token never     *)
(* block everyone: of the running goroutines the one whose computation has *)
(* the least rank does not wait, since whoever computes what it needs is   *)
(* inside of a computation of a smaller rank still (read.go: ReadAll).     *)
THEOREM NoDeadlock == Spec => []SomeoneCanGoOn
<1>1. IInv /\ RankInv /\ TokensInv => SomeoneCanGoOn
  <2> SUFFICES ASSUME IInv, RankInv, TokensInv PROVE SomeoneCanGoOn
    OBVIOUS
  <2> DEFINE Running == {c \in Chans : outcome[c] = "running"}
             R == {Rank(Top(c).of) : c \in Running}
  <2>1. CASE Running # {}
    <3>1. R \subseteq Nat /\ R # {}
      BY <2>1 DEF Rank
    <3>2. PICK m \in R : \A r \in R : ~(<<r, m>> \in OpToRel(<, Nat))
      <4> HIDE DEF R
      <4> QED
        BY <3>1, NatLessThanWellFounded, WFMin
    <3>3. \A r \in R : ~(r < m)
      <4> HIDE DEF R
      <4> QED
        BY <3>1, <3>2 DEF OpToRel
    <3>4. PICK c \in Running : m = Rank(Top(c).of)
      BY <3>2
    <3>5. ASSUME Waiting(c) PROVE FALSE
      <4>1. Top(c).of \in Items /\ Top(c).i \in 1..Len(Needs(Top(c).of)) /\ Need(c) \in Shared
        BY <3>4, <3>5, TopOfStack DEF IInv, Waiting
      <4>2. Rank(Need(c)) < m /\ Rank(Need(c)) \in 0..3 /\ m \in 0..3
        BY <3>4, <4>1, NeedsRankLower DEF Need, IInv, TypeInv
      <4>3. PICK d \in Chans : \E i \in DOMAIN stack[d] : stack[d][i].of = Need(c)
        BY <3>5, <4>1, ReadsAreNotShared DEF IInv, Owned, Waiting
      <4>4. PICK i \in DOMAIN stack[d] : stack[d][i].of = Need(c)
        BY <4>3
      <4>5. d \in Running
        <5>1. stack[d] # <<>>
          BY <4>4
        <5> QED
          BY <5>1 DEF IInv, StackInv
      <4>6. /\ Len(stack[d]) \in DOMAIN stack[d] /\ Top(d) = stack[d][Len(stack[d])]
            /\ i \in Nat /\ Len(stack[d]) \in Nat /\ i <= Len(stack[d])
        BY <4>5, TopOfStack, FrameOnStack DEF IInv
      <4>7. Rank(Top(d).of) <= Rank(Need(c)) /\ Rank(Top(d).of) \in 0..3
        <5>1. CASE i = Len(stack[d])
          BY <4>2, <4>4, <4>6, <5>1 DEF Rank
        <5>2. CASE i < Len(stack[d])
          <6>1. Rank(Top(d).of) < Rank(Need(c))
            BY <4>4, <4>6, <5>2 DEF RankInv
          <6>2. Rank(Top(d).of) \in 0..3
            BY DEF Rank
          <6> QED
            BY <4>2, <6>1, <6>2
        <5> QED
          BY <4>6, <5>1, <5>2
      <4>8. Rank(Top(d).of) \in R
        BY <4>5
      <4> QED
        BY <3>3, <4>2, <4>7, <4>8
    <3> QED
      BY <3>4, <3>5 DEF SomeoneCanGoOn
  <2>2. CASE Running = {} /\ ~\E c \in Chans : outcome[c] \in {"ok", "error"}
    <3>1. \A c \in Chans : outcome[c] \in {"off", "gone"}
      BY <2>2 DEF IInv, TypeInv, Outcomes
    <3>2. Holders = {}
      BY <3>1 DEF Holders
    <3>3. sem < NumCPU
      BY <3>2, FS_EmptySet, ReadAllAssumption DEF TokensInv
    <3>4. main = "wait" => \A c \in Chans : outcome[c] = "gone"
      BY <3>1, ReadAllAssumption DEF RankInv, Chans
    <3> QED
      BY <3>3, <3>4 DEF SomeoneCanGoOn, RankInv, IInv, TypeInv
  <2> QED
    BY <2>1, <2>2 DEF SomeoneCanGoOn
<1> QED
  BY <1>1, ReadAllInv, RanksDecrease, AtMostNumCPU, PTL
=============================================================================
