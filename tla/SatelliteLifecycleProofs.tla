---------------------- MODULE SatelliteLifecycleProofs ----------------------
(***************************************************************************)
(* Proofs about SatelliteLifecycle.                                        *)
(*                                                                         *)
(* The state that matters is the stack of calls main has still to make.    *)
(* The invariant has three layers.  "Below" says which call may be below   *)
(* which, and "Released" that a lock is given up below the call that takes *)
(* it: both are lemmas about the lists of calls alone.  Over the set of    *)
(* calls that are due, the same with a signal handler as without one, the  *)
(* parts RegistryOK to PhaseOK say how far a creation, a destruction or    *)
(* the end has come; each call that is due stands for what is still        *)
(* missing.  HandlerOK and WorkersOK are the other threads.                *)
(*                                                                         *)
(* A part is kept by a step that neither takes away a call it needs nor    *)
(* makes one due that it forbids ("Keeps"); the lemmas of a part name the  *)
(* other steps one by one, for main, the handler, the workers and the      *)
(* logs.                                                                   *)
(*                                                                         *)
(* The last part is about main's own locks: what a stack of calls does to  *)
(* them is a path through their states, one step per call ("Leads").       *)
(***************************************************************************)
EXTENDS SatelliteLifecycle, SequenceTheorems, FiniteSetTheorems, WellFoundedInduction, TLAPS

(***************************************************************************)
(* The calls.                                                              *)
(***************************************************************************)
CalculationCalls == {"register", "add", "stopFlag", "erase"}
SatelliteCalls ==
    {"channels", "enable", "disable", "stopThreads", "destroy", "delete", "addSatellite",
     "insert", "close", "deleteExperiment", "pushElevationAngle"}
PlainCalls ==
    {"lock", "unlock", "eraseAll", "upgrade", "exclusive", "giveUp", "stopExperiments",
     "activate", "deactivate", "shared", "stopManager", "join", "handled", "exit"}
AllCalls ==
    (CalculationCalls \X Calculations) \cup (SatelliteCalls \X Satellites)
    \cup ({"clear"} \X Workers) \cup (PlainCalls \X {"none"})

(* What may be below what on the stack of calls. *)
AfterDestroy ==
    {"destroy", "deactivate", "upgrade", "exclusive", "stopExperiments", "activate",
     "stopManager", "join", "exit", "enable", "disable"}
AfterClose == AfterDestroy \cup {"giveUp", "delete", "close", "handled"}
AfterStop == {"activate", "stopManager", "join", "exit", "handled"}
Takes == {"upgrade", "exclusive", "shared"}
Below(e, f) ==
    /\ e[1] # "pushElevationAngle"
    /\ e[1] \in {"delete", "destroy"} => f[1] \in AfterDestroy /\ f # <<"destroy", e[2]>>
    /\ e[1] \in {"close", "deleteExperiment"} => f[1] \in AfterClose
    /\ e[1] = "stopExperiments" => f[1] \in AfterStop
    /\ e[1] = "channels" => f[1] \in {"addSatellite", "enable", "disable"}
    /\ e[1] = "insert" => /\ f[1] \notin {"insert", "addSatellite"}
                          /\ f \notin {<<"register", Experiment(e[2])>>, <<"add", Experiment(e[2])>>}
    /\ e[1] = "addSatellite" => /\ f[1] \in {"register", "channels", "enable", "disable"}
                                /\ f # <<"register", Experiment(e[2])>>
    /\ e[1] \in {"register", "add"} => f \notin {<<"register", e[2]>>, <<"add", e[2]>>}
    /\ e[1] = "activate" => f[1] # "deactivate"
    /\ e[1] \in Takes => f[1] \notin {"stopThreads", "eraseAll", "erase", "clear"}
Ordered(s) == \A i, j \in DOMAIN s : i < j => Below(s[i], s[j])

Ends == {"giveUp", "stopExperiments", "pushElevationAngle"}
(* Whatever takes the lock has a call that gives it up below it, before the
   next satellite is destroyed. *)
Released(s) ==
    \A i \in DOMAIN s : s[i][1] \in Takes =>
        \E j \in DOMAIN s :
            /\ i < j /\ s[j][1] \in Ends
            /\ \A k \in DOMAIN s : i < k /\ k < j => s[k][1] # "destroy"

(* A stack of calls main can be in. *)
Good(s) == s \in Seq(AllCalls) /\ Ordered(s) /\ Released(s)

(* Does signalTerminate run?  What main does then waits below it. *)
HandlerRuns == interrupted \notin {"no", "handled"}
(* The calls main has still to make, without the handler's. *)
Due == ToSet(IF HandlerRuns THEN suspended ELSE todo)
Has(n, a) == <<n, a>> \in Due
HasAny(N) == \E e \in Due : e[1] \in N
Registered == ToSet(registered)
AllReturned == \A w \in Workers : running[w] = <<"returned", "none">>
(* signalTerminate is past join(). *)
Joined ==
    \/ interrupted = "handled"
    \/ HandlerRuns /\ <<"join", "none">> \notin ToSet(todo)
(* The satellite is being destroyed. *)
Doomed(s) == Has("delete", s) \/ Has("destroy", s)

(* The stacks are good; nothing of an interrupted main is left when no handler
   runs. *)
StackOK ==
    /\ Good(todo) /\ Good(suspended)
    /\ ~HandlerRuns => suspended = <<>>
    /\ ~HasAny({"handled"})

HandlerNames ==
    {"deactivate", "upgrade", "exclusive", "stopExperiments", "stopFlag", "lock", "erase",
     "unlock", "giveUp", "close", "deleteExperiment", "handled"}
(* The handler has its own last call still to make; past join() every worker
   has returned, and then it closes experiments that exist. *)
HandlerOK ==
    /\ HandlerRuns =>
          /\ <<"handled", "none">> \in ToSet(todo)
          /\ \/ todo \in {HandlerCalls, Tail(HandlerCalls)}
             \/ AllReturned /\ registered = <<>> /\ \A e \in ToSet(todo) : e[1] \in HandlerNames
          /\ \A s \in Satellites : <<"deleteExperiment", s>> \in ToSet(todo) => s \in experiments
    /\ interrupted = "handled" => AllReturned

(* A worker runs the head of its order; it pushes for a channel with data. *)
WorkersOK == \A w \in Workers :
    /\ \/ running[w] \in {Idle, <<"returned", "none">>}
       \/ /\ running[w][1] \in {"running", "waiting", "pushing"}
          /\ order[w] # <<>> /\ running[w] = <<running[w][1], Head(order[w])>>
    /\ running[w][1] = "returned" => order[w] = <<>>
    /\ running[w][1] \in {"waiting", "pushing"} =>
          running[w][2][2] \in ChannelKinds /\ running[w][2][1] \in fed

(* The registry holds living calculations, each once.  An order names what is
   registered, or is about to be cleared. *)
RegistryOK ==
    /\ Registered \subseteq alive
    /\ \A i, j \in DOMAIN registered : registered[i] = registered[j] => i = j
    /\ \A c \in Calculations :
          /\ Has("add", c) => c \in alive /\ c \notin Registered
          /\ Has("register", c) => c \notin alive
    /\ \A w \in Workers : \A c \in ToSet(order[w]) : c \in Registered \/ Has("clear", w)

(* Who owns what: channels their calculations, satellites_ the experiments;
   what lives without an owner is about to get one. *)
OwnersOK ==
    /\ fed \subseteq channels
    /\ \A s \in Satellites :
          /\ s \in experiments => s \in channels \/ Has("channels", s)
          /\ Experiment(s) \in alive => s \in experiments \/ Has("insert", s)
          /\ s \in experiments => Experiment(s) \in alive
          /\ Has("insert", s) => Experiment(s) \in alive \/ Has("register", Experiment(s))
          /\ \A k \in ChannelKinds :
                /\ <<s, k>> \in alive => s \in channels \/ Has("channels", s)
                /\ s \in channels => <<s, k>> \in alive
                /\ Has("channels", s) => <<s, k>> \in alive \/ Has("register", <<s, k>>)

(* The calls of a creation and of a destruction. *)
CreateNames == {"addSatellite", "register", "add", "insert", "channels"}
DestroyNames ==
    {"stopThreads", "stopFlag", "erase", "eraseAll", "clear", "close", "deleteExperiment",
     "delete", "destroy", "deactivate", "stopExperiments", "activate"}
(* Creation and destruction are never due together; what is inserted is not
   there yet. *)
CreatingOK ==
    /\ ~(HasAny(CreateNames) /\ HasAny(DestroyNames))
    /\ \A s \in Satellites :
          /\ Has("register", Experiment(s)) \/ Has("add", Experiment(s)) => Has("insert", s)
          /\ Has("addSatellite", s) => s \notin experiments /\ ~HasAny({"insert"})
          /\ Has("insert", s) => s \notin experiments
          /\ Has("channels", s) => s \notin channels
          /\ Has("insert", s) \/ Has("addSatellite", s) => s \in channels \/ Has("channels", s)
          /\ \A k \in ChannelKinds :
                Has("register", <<s, k>>) \/ Has("add", <<s, k>>) => Has("channels", s)

(* The order of destruction: the channels' calculations are released before
   the experiment, the experiment is closed before the satellite is deleted,
   and only the satellites that are doomed are taken apart. *)
DestroyingOK ==
    /\ HasAny({"stopExperiments", "eraseAll"}) => \A s \in channels : Doomed(s)
    /\ \A c \in Calculations : Has("erase", c) => Doomed(c[1])
    /\ \A s \in Satellites :
          /\ Has("delete", s) => /\ s \in channels
                                 /\ s \notin experiments \/ Has("close", s) \/ Has("deleteExperiment", s)
          /\ Has("close", s) => Has("delete", s)
          /\ Has("deleteExperiment", s) =>
                Has("delete", s) /\ (Experiment(s) \notin Registered \/ Has("erase", Experiment(s)))
          /\ Has("erase", Experiment(s)) => Has("deleteExperiment", s)
          /\ Has("stopThreads", s) => Doomed(s)
          /\ \A k \in ChannelKinds :
                /\ Has("delete", s) =>
                      \/ <<s, k>> \notin Registered
                      \/ Has("stopThreads", s) \/ Has("erase", <<s, k>>)
                /\ Has("deleteExperiment", s) =>
                      <<s, k>> \notin Registered /\ \A w \in Workers : <<s, k>> \notin ToSet(order[w])

(* Satellites are added to active predictions only. *)
PredictionsReady ==
    /\ HasAny({"addSatellite"}) => isActive
    /\ phase = "input" => isActive \/ HasAny({"activate"})
    /\ phase = "input" /\ HasAny({"deactivate"}) => HasAny({"activate"})
(* While input is read all that lives is registered, or about to be, or
   doomed. *)
AllRegistered == phase = "input" => \A c \in alive : c \in Registered \/ Has("add", c) \/ Doomed(c[1])
(* A satellite with channels has an experiment, or gets one, or is about to be
   deleted. *)
ChannelsHaveExperiments == \A s \in Satellites :
    s \in channels \/ Has("channels", s) =>
        s \in experiments \/ Has("addSatellite", s) \/ Has("insert", s) \/ Has("delete", s)
(* A satellite whose channels have data and are known to the scheduler has an
   experiment: why no push fails. *)
FedHaveExperiments == \A s \in fed, k \in ChannelKinds :
    <<s, k>> \in Registered \/ (\E w \in Workers : <<s, k>> \in ToSet(order[w])) => s \in experiments
(* What workers may count on, as long as they have not been joined. *)
ReadyOK ==
    ~Joined => PredictionsReady /\ AllRegistered /\ ChannelsHaveExperiments /\ FedHaveExperiments

(* What main may still do with satellites_ locked: no order is cleared unless
   an experiment is being closed. *)
Holding ==
    /\ HasAny({"clear"}) => \E s \in Satellites : Has("deleteExperiment", s)
    /\ ~HasAny({"stopThreads", "eraseAll"})
    /\ \A s \in Satellites, k \in ChannelKinds : ~Has("erase", <<s, k>>)
    /\ HasAny({"destroy"}) => HasAny({"giveUp"})
    /\ HasAny(Ends)
LocksOK == ~Joined /\ access # "none" => Holding

(* At the end no channel is registered, and none is ordered once main locks
   satellites_. *)
TornDown == \A s \in Satellites, k \in ChannelKinds :
    /\ <<s, k>> \notin Registered \/ Has("stopThreads", s) \/ Has("erase", <<s, k>>)
    /\ access # "none" => \A w \in Workers : <<s, k>> \notin ToSet(order[w])
(* What is due in which phase. *)
PhaseOK ==
    /\ phase # "terminated"
    /\ phase = "input" => ~HasAny({"stopManager", "join", "exit"})
    /\ phase = "input" /\ interrupted = "no" => ~managerStopped
    /\ phase = "ending" => ~HasAny(CreateNames)
    /\ phase = "ending" /\ ~Joined => TornDown

(* A set of numbers that is not empty has a least one. *)
LEMMA Least == ASSUME NEW T \in SUBSET Nat, T # {} PROVE \E n \in T : \A m \in T : n <= m
<1>1. IsWellFoundedOn(OpToRel(<, Nat), Nat)
  BY NatLessThanWellFounded
<1>2. PICK n \in T : \A m \in T : ~(<<m, n>> \in OpToRel(<, Nat))
  BY <1>1, WFMin
<1>3. \A m \in T : ~(m < n)
  BY <1>2 DEF OpToRel
<1> QED BY <1>3

(* FlattenSeq unrolled: the concatenations it is built from. *)
LEMMA Flattening ==
    ASSUME NEW S, NEW ss \in Seq(Seq(S)), ss # <<>>
    PROVE  \E f \in [1 .. Len(ss) -> Seq(S)] :
              /\ f[1] = ss[1]
              /\ \A i \in 2 .. Len(ss) : f[i] = f[i - 1] \o ss[i]
              /\ FlattenSeq(ss) = f[Len(ss)]
<1> DEFINE n == Len(ss)
           Upto(m) == {g \in [1 .. m -> Seq(S)] : g[1] = ss[1] /\ \A i \in 2 .. m : g[i] = g[i - 1] \o ss[i]}
<1>1. n \in Nat \ {0} /\ \A i \in 1 .. n : ss[i] \in Seq(S)
  BY EmptySeq, LenProperties, ElementOfSeq
<1> HIDE DEF n, Upto
<1>2. Upto(n) # {}
  <2> DEFINE B == {m \in 1 .. n : Upto(m) = {}}
  <2> SUFFICES ASSUME B # {} PROVE FALSE
    <3>1. n \in 1 .. n
      BY <1>1
    <3>2. Upto(n) = {} => n \in B
      BY <3>1
    <3> QED BY <3>2
  <2>0. B \in SUBSET Nat
    BY <1>1
  <2>1. PICK m \in B : \A k \in B : m <= k
    <3> HIDE DEF B
    <3> QED BY Least, <2>0
  <2>y. m \in 1 .. n /\ Upto(m) = {}
    OBVIOUS
  <2>2. m # 1
    <3> DEFINE g == [i \in 1 .. 1 |-> ss[1]]
    <3>1. g \in Upto(1)
      BY <1>1 DEF Upto
    <3> HIDE DEF g
    <3> QED BY <3>1, <2>y
  <2>3. m - 1 \in 1 .. n /\ m - 1 \notin B
    <3> HIDE DEF B
    <3> QED BY <2>1, <2>2, <1>1, <2>y
  <2>4. PICK g \in Upto(m - 1) : TRUE
    BY <2>3
  <2>x. m \in 2 .. n
    BY <2>2, <2>y, <1>1
  <2> DEFINE h == [i \in 1 .. m |-> IF i = m THEN g[m - 1] \o ss[m] ELSE g[i]]
  <2>5. g[m - 1] \o ss[m] \in Seq(S)
    <3>1. g[m - 1] \in Seq(S) /\ ss[m] \in Seq(S)
      BY <2>x, <2>4, <1>1 DEF Upto
    <3> QED BY <3>1, ConcatProperties
  <2>6. h \in [1 .. m -> Seq(S)]
    BY <2>4, <2>5, <2>x, <1>1 DEF Upto
  <2>7. h[1] = ss[1]
    BY <2>4, <2>x, <1>1 DEF Upto
  <2>8. ASSUME NEW i \in 2 .. m PROVE h[i] = h[i - 1] \o ss[i]
    <3>0. h[i - 1] = g[i - 1]
      BY <2>x, <1>1
    <3>1. CASE i = m
      <4>1. h[m] = g[m - 1] \o ss[m]
        <5>1. m \in 1 .. m
          BY <2>x, <1>1
        <5> QED BY <5>1
      <4>2. h[m - 1] = g[m - 1]
        BY <3>0, <3>1
      <4> HIDE DEF h
      <4> QED BY <3>1, <4>1, <4>2
    <3>2. CASE i # m
      <4>1. h[i] = g[i] /\ i \in 2 .. m - 1
        BY <3>2, <2>x, <1>1
      <4>2. g[i] = g[i - 1] \o ss[i]
        BY <4>1, <2>4 DEF Upto
      <4> QED BY <4>1, <4>2, <3>0
    <3> QED BY <3>1, <3>2
  <2>9. h \in Upto(m)
    <3> HIDE DEF h
    <3> QED BY <2>6, <2>7, <2>8 DEF Upto
  <2> HIDE DEF h
  <2> QED BY <2>9, <2>y
<1> DEFINE flatten == CHOOSE g : g = [i \in 1 .. n |-> IF i = 1 THEN ss[i] ELSE g[i - 1] \o ss[i]]
<1>3. FlattenSeq(ss) = flatten[n]
  BY <1>1 DEF FlattenSeq, n
<1>4. PICK g \in Upto(n) : TRUE
  BY <1>2
<1>5. g = [i \in 1 .. n |-> IF i = 1 THEN ss[i] ELSE g[i - 1] \o ss[i]]
  <2>1. \A i \in 1 .. n : g[i] = IF i = 1 THEN ss[i] ELSE g[i - 1] \o ss[i]
    <3>1. \A i \in 1 .. n : i = 1 \/ i \in 2 .. n
      BY <1>1
    <3> QED BY <1>4, <3>1 DEF Upto
  <2> QED BY <1>4, <2>1 DEF Upto
<1>6. flatten = [i \in 1 .. n |-> IF i = 1 THEN ss[i] ELSE flatten[i - 1] \o ss[i]]
  BY <1>5
<1> HIDE DEF flatten
<1>x. \A i \in 1 .. n : flatten[i] = IF i = 1 THEN ss[i] ELSE flatten[i - 1] \o ss[i]
  BY <1>6
<1>7. flatten[1] = ss[1] /\ \A i \in 2 .. n : flatten[i] = flatten[i - 1] \o ss[i]
  <2>1. 1 \in 1 .. n /\ \A i \in 2 .. n : i \in 1 .. n /\ i # 1
    BY <1>1
  <2> QED BY <1>x, <2>1
<1>8. DOMAIN flatten = 1 .. n /\ flatten = [i \in 1 .. n |-> flatten[i]]
  BY <1>6
<1>9. \A m \in 1 .. n : flatten[m] \in Seq(S)
  <2> DEFINE B == {m \in 1 .. n : flatten[m] \notin Seq(S)}
  <2> SUFFICES ASSUME B # {} PROVE FALSE
    OBVIOUS
  <2>0. B \in SUBSET Nat
    BY <1>1
  <2>1. PICK m \in B : \A k \in B : m <= k
    <3> HIDE DEF B
    <3> QED BY Least, <2>0
  <2>x. m \in 1 .. n /\ flatten[m] \notin Seq(S)
    OBVIOUS
  <2>2. m # 1
    BY <1>1, <1>7, <2>x
  <2>3. m - 1 \in 1 .. n /\ m - 1 \notin B
    <3> HIDE DEF B
    <3> QED BY <2>1, <2>2, <1>1, <2>x
  <2>4. flatten[m - 1] \in Seq(S)
    BY <2>3
  <2>5. ss[m] \in Seq(S) /\ flatten[m] = flatten[m - 1] \o ss[m]
    <3>1. m \in 2 .. n
      BY <2>x, <2>2, <1>1
    <3> QED BY <3>1, <2>x, <1>1, <1>7
  <2> QED BY <2>x, <2>4, <2>5, ConcatProperties
<1> QED
  BY <1>3, <1>7, <1>8, <1>9 DEF n

(* RemoveFirst removes at one of the places where the element is. *)
LEMMA RemoveFirstIsRemoveAt == ASSUME NEW s, NEW e, \E i \in 1..Len(s) : s[i] = e, Len(s) \in Nat
   PROVE \E it \in 1..Len(s) : s[it] = e /\ RemoveFirst(s, e) = RemoveAt(s, it)
<1> DEFINE I == {i \in 1 .. Len(s) : s[i] = e}
<1>1. RemoveFirst(s, e) = RemoveAt(s, Min(I))
  BY DEF RemoveFirst, SelectInSeq
<1>2. PICK n \in I : \A m \in I : n <= m
  <2>1. I \in SUBSET Nat /\ I # {}
    OBVIOUS
  <2> HIDE DEF I
  <2> QED BY <2>1, Least
<1>3. Min(I) \in I
  <2> HIDE DEF I
  <2> QED BY <1>2 DEF Min
<1> QED BY <1>1, <1>3

(* What a concatenation holds. *)
LEMMA ConcatFacts ==
    ASSUME NEW S, NEW a \in Seq(S), NEW b \in Seq(S)
    PROVE  /\ a \o b \in Seq(S)
           /\ ToSet(a \o b) = ToSet(a) \cup ToSet(b)
<1>1. /\ a \o b \in Seq(S) /\ Len(a \o b) = Len(a) + Len(b)
      /\ \A i \in 1 .. Len(a) + Len(b) : (a \o b)[i] = IF i <= Len(a) THEN a[i] ELSE b[i - Len(a)]
      /\ Len(a) \in Nat /\ Len(b) \in Nat
      /\ DOMAIN a = 1 .. Len(a) /\ DOMAIN b = 1 .. Len(b) /\ DOMAIN (a \o b) = 1 .. Len(a) + Len(b)
  BY ConcatProperties, LenProperties
<1>2. ASSUME NEW e \in ToSet(a \o b) PROVE e \in ToSet(a) \cup ToSet(b)
  <2>1. PICK i \in 1 .. Len(a) + Len(b) : (a \o b)[i] = e
    BY <1>1 DEF ToSet
  <2>2. CASE i <= Len(a)
    BY <2>1, <2>2, <1>1 DEF ToSet
  <2>3. CASE ~(i <= Len(a))
    <3>1. i - Len(a) \in 1 .. Len(b) /\ e = b[i - Len(a)]
      BY <2>1, <2>3, <1>1
    <3> QED BY <3>1, <1>1 DEF ToSet
  <2> QED BY <2>2, <2>3
<1>3. ASSUME NEW e \in ToSet(a) PROVE e \in ToSet(a \o b)
  <2>1. PICK i \in 1 .. Len(a) : a[i] = e
    BY <1>1 DEF ToSet
  <2>2. i \in 1 .. Len(a) + Len(b) /\ (a \o b)[i] = e
    BY <2>1, <1>1
  <2> QED BY <2>2, <1>1 DEF ToSet
<1>4. ASSUME NEW e \in ToSet(b) PROVE e \in ToSet(a \o b)
  <2>1. PICK i \in 1 .. Len(b) : b[i] = e
    BY <1>1 DEF ToSet
  <2>2. Len(a) + i \in 1 .. Len(a) + Len(b) /\ ~(Len(a) + i <= Len(a)) /\ Len(a) + i - Len(a) = i
    BY <1>1
  <2>3. (a \o b)[Len(a) + i] = e
    BY <2>1, <2>2, <1>1
  <2> QED BY <2>2, <2>3, <1>1 DEF ToSet
<1> QED BY <1>1, <1>2, <1>3, <1>4

(* Lists of calls put together one after the other: the brackets do not matter. *)
LEMMA Regroup ==
    \A s, t, u \in Seq(AllCalls) : (s \o t) \o u = s \o (t \o u)
<1> DEFINE S == Seq(AllCalls)
<1>1. ASSUME NEW s \in S, NEW t \in S, NEW u \in S PROVE (s \o t) \o u = s \o (t \o u)
  BY <1>1, ConcatAssociative
<1> QED BY <1>1

(* The empty stack is good. *)
LEMMA GoodEmpty == Good(<<>>) /\ ToSet(<<>>) = {}
<1>1. <<>> \in Seq(AllCalls) /\ DOMAIN <<>> = {}
  BY EmptySeq, LenProperties
<1> QED BY <1>1 DEF Good, Ordered, Released, ToSet

(* Two ordered lists make one when everything of the first may be above
   everything of the second. *)
LEMMA OrderedConcat ==
    ASSUME NEW a \in Seq(AllCalls), NEW b \in Seq(AllCalls), Ordered(a), Ordered(b),
           \A e \in ToSet(a), f \in ToSet(b) : Below(e, f)
    PROVE  Ordered(a \o b)
<1> DEFINE ab == a \o b
<1>1. /\ Len(ab) = Len(a) + Len(b)
      /\ \A i \in 1 .. Len(a) + Len(b) : ab[i] = IF i <= Len(a) THEN a[i] ELSE b[i - Len(a)]
      /\ Len(a) \in Nat /\ Len(b) \in Nat
      /\ DOMAIN a = 1 .. Len(a) /\ DOMAIN b = 1 .. Len(b) /\ DOMAIN ab = 1 .. Len(a) + Len(b)
  BY ConcatProperties, LenProperties
<1> HIDE DEF ab
<1> SUFFICES ASSUME NEW i \in 1 .. Len(a) + Len(b), NEW j \in 1 .. Len(a) + Len(b), i < j
             PROVE  Below(ab[i], ab[j])
  BY <1>1 DEF Ordered, ab
<1>2. CASE j <= Len(a)
  <2>1. ab[i] = a[i] /\ ab[j] = a[j] /\ i \in DOMAIN a /\ j \in DOMAIN a
    BY <1>1, <1>2
  <2> QED BY <2>1 DEF Ordered
<1>3. CASE i > Len(a)
  <2>1. /\ ab[i] = b[i - Len(a)] /\ ab[j] = b[j - Len(a)] /\ i - Len(a) \in DOMAIN b
        /\ j - Len(a) \in DOMAIN b /\ i - Len(a) < j - Len(a)
    BY <1>1, <1>3
  <2> QED BY <2>1 DEF Ordered
<1>4. CASE i <= Len(a) /\ j > Len(a)
  <2>1. ab[i] = a[i] /\ i \in DOMAIN a /\ ab[j] = b[j - Len(a)] /\ j - Len(a) \in DOMAIN b
    BY <1>1, <1>4
  <2>2. ab[i] \in ToSet(a) /\ ab[j] \in ToSet(b)
    BY <2>1 DEF ToSet
  <2> QED BY <2>2
<1> QED BY <1>1, <1>2, <1>3, <1>4

(* A list whose locks are released below may be put on another, if that one
   releases its own or the other ends in a release before anything is
   destroyed. *)
LEMMA ReleasedConcat ==
    ASSUME NEW a \in Seq(AllCalls), NEW b \in Seq(AllCalls), Released(b),
           \/ Released(a)
           \/ (\E e \in ToSet(b) : e[1] \in Ends) /\ \A e \in ToSet(a) \cup ToSet(b) : e[1] # "destroy"
    PROVE  Released(a \o b)
<1> DEFINE ab == a \o b
<1>1. /\ Len(ab) = Len(a) + Len(b)
      /\ \A i \in 1 .. Len(a) + Len(b) : ab[i] = IF i <= Len(a) THEN a[i] ELSE b[i - Len(a)]
      /\ Len(a) \in Nat /\ Len(b) \in Nat
      /\ DOMAIN a = 1 .. Len(a) /\ DOMAIN b = 1 .. Len(b) /\ DOMAIN ab = 1 .. Len(a) + Len(b)
  BY ConcatProperties, LenProperties
<1>0. ToSet(ab) = ToSet(a) \cup ToSet(b)
  BY ConcatFacts
<1> HIDE DEF ab
<1> SUFFICES ASSUME NEW i \in 1 .. Len(a) + Len(b), ab[i][1] \in Takes
             PROVE  \E j \in 1 .. Len(a) + Len(b) :
                       /\ i < j /\ ab[j][1] \in Ends
                       /\ \A k \in 1 .. Len(a) + Len(b) : i < k /\ k < j => ab[k][1] # "destroy"
  BY <1>1 DEF Released, ab
<1>2. CASE i > Len(a)
  <2>1. i - Len(a) \in DOMAIN b /\ ab[i] = b[i - Len(a)]
    BY <1>1, <1>2
  <2>2. PICK j \in DOMAIN b : /\ i - Len(a) < j /\ b[j][1] \in Ends
                              /\ \A k \in DOMAIN b : i - Len(a) < k /\ k < j => b[k][1] # "destroy"
    BY <2>1 DEF Released
  <2>3. /\ Len(a) + j \in 1 .. Len(a) + Len(b) /\ i < Len(a) + j /\ ab[Len(a) + j] = b[j]
    <3>1. Len(a) + j \in 1 .. Len(a) + Len(b) /\ ~(Len(a) + j <= Len(a)) /\ Len(a) + j - Len(a) = j
      BY <1>1, <2>2
    <3> QED BY <3>1, <1>1, <2>2
  <2>4. ASSUME NEW k \in 1 .. Len(a) + Len(b), i < k, k < Len(a) + j PROVE ab[k][1] # "destroy"
    <3>1. k - Len(a) \in DOMAIN b /\ ab[k] = b[k - Len(a)] /\ i - Len(a) < k - Len(a) /\ k - Len(a) < j
      BY <1>1, <1>2, <2>4, <2>2
    <3> QED BY <3>1, <2>2
  <2> QED BY <2>2, <2>3, <2>4
<1>3. CASE i <= Len(a) /\ Released(a)
  <2>1. i \in DOMAIN a /\ ab[i] = a[i]
    BY <1>1, <1>3
  <2>2. PICK j \in DOMAIN a : /\ i < j /\ a[j][1] \in Ends
                              /\ \A k \in DOMAIN a : i < k /\ k < j => a[k][1] # "destroy"
    BY <2>1, <1>3 DEF Released
  <2>3. j \in 1 .. Len(a) + Len(b) /\ ab[j] = a[j]
    BY <1>1, <2>2
  <2>4. ASSUME NEW k \in 1 .. Len(a) + Len(b), i < k, k < j PROVE ab[k][1] # "destroy"
    <3>1. k \in DOMAIN a /\ ab[k] = a[k]
      BY <1>1, <2>4, <2>2
    <3> QED BY <3>1, <2>2, <2>4
  <2> QED BY <2>2, <2>3, <2>4
<1>4. CASE i <= Len(a) /\ ~Released(a)
  <2>1. PICK e \in ToSet(b) : e[1] \in Ends
    BY <1>4
  <2>2. PICK j \in 1 .. Len(b) : b[j] = e
    BY <2>1, <1>1 DEF ToSet
  <2>3. /\ Len(a) + j \in 1 .. Len(a) + Len(b) /\ i < Len(a) + j /\ ab[Len(a) + j] = e
    <3>1. Len(a) + j \in 1 .. Len(a) + Len(b) /\ ~(Len(a) + j <= Len(a)) /\ Len(a) + j - Len(a) = j
      BY <1>1, <2>2
    <3> QED BY <3>1, <1>1, <2>2, <1>4
  <2>4. ASSUME NEW k \in 1 .. Len(a) + Len(b) PROVE ab[k][1] # "destroy"
    <3>1. ab[k] \in ToSet(ab)
      BY <1>1 DEF ToSet
    <3> QED BY <3>1, <1>0, <1>4
  <2> QED BY <2>1, <2>3, <2>4
<1> QED BY <1>1, <1>2, <1>3, <1>4

(* Good lists one after the other. *)
LEMMA GoodConcat ==
    ASSUME NEW a, NEW b, Good(a), Good(b), \A e \in ToSet(a), f \in ToSet(b) : Below(e, f)
    PROVE  Good(a \o b) /\ ToSet(a \o b) = ToSet(a) \cup ToSet(b)
BY ConcatFacts, OrderedConcat, ReleasedConcat DEF Good

(* A list that takes a lock on top of one that gives it up. *)
LEMMA TakeConcat ==
    ASSUME NEW a \in Seq(AllCalls), NEW b, Ordered(a), Good(b),
           \A e \in ToSet(a) \cup ToSet(b) : e[1] # "destroy",
           \E e \in ToSet(b) : e[1] \in Ends,
           \A e \in ToSet(a), f \in ToSet(b) : Below(e, f)
    PROVE  Good(a \o b) /\ ToSet(a \o b) = ToSet(a) \cup ToSet(b)
BY ConcatFacts, OrderedConcat, ReleasedConcat DEF Good

(* A single call. *)
LEMMA GoodOne ==
    ASSUME NEW e \in AllCalls
    PROVE  /\ <<e>> \in Seq(AllCalls) /\ Ordered(<<e>>) /\ ToSet(<<e>>) = {e}
           /\ e[1] \notin Takes => Good(<<e>>)
<1>1. <<e>> \in Seq(AllCalls) /\ DOMAIN <<e>> = {1} /\ <<e>>[1] = e
  OBVIOUS
<1> HIDE DEF AllCalls
<1> QED BY <1>1 DEF Good, Ordered, Released, ToSet

(* What remains of a good stack when its top returns. *)
LEMMA GoodTail ==
    ASSUME NEW s, Good(s), s # <<>>
    PROVE  /\ Good(Tail(s)) /\ Head(s) \in AllCalls
           /\ ToSet(s) = {Head(s)} \cup ToSet(Tail(s))
           /\ \A f \in ToSet(Tail(s)) : Below(Head(s), f)
           /\ Head(s)[1] \in Takes =>
                 \E j \in 1 .. Len(Tail(s)) :
                    /\ Tail(s)[j][1] \in Ends
                    /\ \A k \in 1 .. Len(Tail(s)) : k < j => Tail(s)[k][1] # "destroy"
<1> DEFINE t == Tail(s)
<1>1. /\ s \in Seq(AllCalls) /\ Head(s) \in AllCalls /\ t \in Seq(AllCalls) /\ Len(t) = Len(s) - 1
      /\ \A i \in 1 .. Len(t) : t[i] = s[i + 1]
      /\ Len(s) \in Nat \ {0} /\ DOMAIN s = 1 .. Len(s) /\ DOMAIN t = 1 .. Len(t) /\ Head(s) = s[1]
  BY HeadTailProperties, LenProperties, EmptySeq DEF Good
<1> HIDE DEF t
<1>2. ToSet(s) = {Head(s)} \cup ToSet(t)
  <2>1. ASSUME NEW e \in ToSet(s) PROVE e = Head(s) \/ e \in ToSet(t)
    <3>1. PICK i \in 1 .. Len(s) : s[i] = e
      BY <1>1 DEF ToSet
    <3>2. CASE i # 1
      <4>1. i - 1 \in 1 .. Len(t) /\ t[i - 1] = s[i - 1 + 1] /\ i - 1 + 1 = i
        BY <1>1, <3>2
      <4> QED BY <4>1, <3>1, <1>1 DEF ToSet
    <3> QED BY <3>1, <3>2, <1>1
  <2>2. ASSUME NEW e \in ToSet(t) PROVE e \in ToSet(s)
    <3>1. PICK i \in 1 .. Len(t) : t[i] = e
      BY <1>1 DEF ToSet
    <3>2. i + 1 \in 1 .. Len(s) /\ s[i + 1] = e
      BY <1>1, <3>1
    <3> QED BY <3>2, <1>1 DEF ToSet
  <2>3. Head(s) \in ToSet(s)
    BY <1>1 DEF ToSet
  <2> QED BY <2>1, <2>2, <2>3
<1>3. Ordered(t)
  <2>1. ASSUME NEW i \in 1 .. Len(t), NEW j \in 1 .. Len(t), i < j PROVE Below(t[i], t[j])
    <3>1. i + 1 \in DOMAIN s /\ j + 1 \in DOMAIN s /\ i + 1 < j + 1 /\ t[i] = s[i + 1] /\ t[j] = s[j + 1]
      BY <1>1, <2>1
    <3> QED BY <3>1 DEF Good, Ordered
  <2> QED BY <2>1, <1>1 DEF Ordered
<1>4. ASSUME NEW i \in 0 .. Len(t), s[i + 1][1] \in Takes
      PROVE  \E j \in 1 .. Len(t) : /\ i < j /\ t[j][1] \in Ends
                                    /\ \A k \in 1 .. Len(t) : i < k /\ k < j => t[k][1] # "destroy"
  <2>1. PICK j \in DOMAIN s : /\ i + 1 < j /\ s[j][1] \in Ends
                              /\ \A k \in DOMAIN s : i + 1 < k /\ k < j => s[k][1] # "destroy"
    <3>1. i + 1 \in DOMAIN s
      BY <1>1
    <3> QED BY <3>1, <1>4 DEF Good, Released
  <2>2. j - 1 \in 1 .. Len(t) /\ i < j - 1 /\ t[j - 1] = s[j]
    <3>1. j - 1 \in 1 .. Len(t) /\ i < j - 1 /\ (j - 1) + 1 = j
      BY <1>1, <2>1
    <3> QED BY <3>1, <1>1
  <2>3. ASSUME NEW k \in 1 .. Len(t), i < k, k < j - 1 PROVE t[k][1] # "destroy"
    <3>1. k + 1 \in DOMAIN s /\ i + 1 < k + 1 /\ k + 1 < j /\ t[k] = s[k + 1]
      BY <1>1, <2>1, <2>3
    <3> QED BY <3>1, <2>1
  <2> QED BY <2>1, <2>2, <2>3
<1>5. Released(t)
  <2>1. ASSUME NEW i \in 1 .. Len(t), t[i][1] \in Takes
        PROVE  \E j \in 1 .. Len(t) : /\ i < j /\ t[j][1] \in Ends
                                      /\ \A k \in 1 .. Len(t) : i < k /\ k < j => t[k][1] # "destroy"
    <3>1. i \in 0 .. Len(t) /\ s[i + 1] = t[i]
      BY <1>1
    <3> QED BY <3>1, <2>1, <1>4
  <2> QED BY <2>1, <1>1 DEF Released
<1>6. ASSUME NEW f \in ToSet(t) PROVE Below(Head(s), f)
  <2>1. PICK i \in 1 .. Len(t) : t[i] = f
    BY <1>1 DEF ToSet
  <2>2. 1 \in DOMAIN s /\ i + 1 \in DOMAIN s /\ 1 < i + 1 /\ s[i + 1] = f
    BY <1>1, <2>1
  <2> QED BY <2>2, <1>1 DEF Good, Ordered
<1>7. ASSUME Head(s)[1] \in Takes
      PROVE  \E j \in 1 .. Len(t) : /\ t[j][1] \in Ends
                                    /\ \A k \in 1 .. Len(t) : k < j => t[k][1] # "destroy"
  <2>1. 0 \in 0 .. Len(t) /\ s[0 + 1] = Head(s)
    BY <1>1
  <2>2. PICK j \in 1 .. Len(t) : /\ 0 < j /\ t[j][1] \in Ends
                                 /\ \A k \in 1 .. Len(t) : 0 < k /\ k < j => t[k][1] # "destroy"
    BY <2>1, <1>4, <1>7
  <2> QED BY <2>2
<1> QED BY <1>1, <1>2, <1>3, <1>5, <1>6, <1>7 DEF Good, t

(* Good lists flattened: what ForEach builds.  The proof takes the least
   prefix that would not be good. *)
LEMMA GoodFlatten ==
    ASSUME NEW ss \in Seq(Seq(AllCalls)), \A i \in 1 .. Len(ss) : Good(ss[i]),
           \A i, j \in 1 .. Len(ss) : i < j => \A e \in ToSet(ss[i]), f \in ToSet(ss[j]) : Below(e, f)
    PROVE  /\ Good(FlattenSeq(ss))
           /\ \A e : e \in ToSet(FlattenSeq(ss)) <=> \E i \in 1 .. Len(ss) : e \in ToSet(ss[i])
<1>1. CASE ss = <<>>
  <2>1. Len(ss) = 0
    BY <1>1, EmptySeq
  <2>2. FlattenSeq(ss) = <<>>
    BY <2>1, <1>1 DEF FlattenSeq
  <2> QED BY <2>1, <2>2, GoodEmpty
<1>2. CASE ss # <<>>
  <2> DEFINE n == Len(ss)
  <2>1. n \in Nat \ {0} /\ \A i \in 1 .. n : ss[i] \in Seq(AllCalls)
    BY <1>2, EmptySeq, LenProperties, ElementOfSeq
  <2>2. PICK f \in [1 .. n -> Seq(AllCalls)] :
              /\ f[1] = ss[1]
              /\ \A i \in 2 .. n : f[i] = f[i - 1] \o ss[i]
              /\ FlattenSeq(ss) = f[n]
    BY <1>2, Flattening
  <2> HIDE DEF n
  <2> DEFINE Q(m) == /\ Good(f[m])
                     /\ \A e : e \in ToSet(f[m]) <=> \E i \in 1 .. m : e \in ToSet(ss[i])
             B == {m \in 1 .. n : ~Q(m)}
  <2>3. B = {}
    <3> SUFFICES ASSUME B # {} PROVE FALSE
      OBVIOUS
    <3> HIDE DEF Q
    <3>0. B \in SUBSET Nat
      BY <2>1
    <3>1. PICK m \in B : \A k \in B : m <= k
      <4> HIDE DEF B
      <4> QED BY <3>0, Least
    <3>2. m \in 1 .. n /\ ~Q(m)
      OBVIOUS
    <3>3. m # 1
      <4>1. \A i \in 1 .. 1 : i = 1
        OBVIOUS
      <4>2. Q(1)
        <5>1. Good(f[1]) /\ f[1] = ss[1]
          BY <2>1, <2>2 DEF n
        <5> QED BY <5>1, <4>1 DEF Q
      <4> QED BY <4>2, <3>2
    <3>4. m - 1 \in 1 .. n /\ m - 1 \notin B
      <4> HIDE DEF B
      <4> QED BY <3>1, <3>2, <3>3, <2>1
    <3>5. Q(m - 1)
      BY <3>4
    <3>6. f[m] = f[m - 1] \o ss[m] /\ Good(ss[m])
      <4>1. m \in 2 .. n
        BY <3>2, <3>3, <2>1
      <4> QED BY <4>1, <2>2, <3>2 DEF n
    <3>7. Good(f[m]) /\ ToSet(f[m]) = ToSet(f[m - 1]) \cup ToSet(ss[m])
      <4>1. ASSUME NEW e \in ToSet(f[m - 1]), NEW g \in ToSet(ss[m]) PROVE Below(e, g)
        <5>1. PICK i \in 1 .. m - 1 : e \in ToSet(ss[i])
          BY <3>5 DEF Q
        <5>2. i \in 1 .. n /\ i < m
          BY <3>2, <2>1
        <5> QED BY <5>1, <5>2, <3>2 DEF n
      <4>2. Good(f[m - 1])
        BY <3>5 DEF Q
      <4> QED BY <4>1, <4>2, <3>6, GoodConcat
    <3>8. Q(m)
      <4>1. ASSUME NEW e PROVE e \in ToSet(f[m]) <=> \E i \in 1 .. m : e \in ToSet(ss[i])
        <5>1. e \in ToSet(f[m]) <=> (\E i \in 1 .. m - 1 : e \in ToSet(ss[i])) \/ e \in ToSet(ss[m])
          BY <3>5, <3>7 DEF Q
        <5>2. \A i : i \in 1 .. m <=> i \in 1 .. m - 1 \/ i = m
          BY <3>2, <2>1
        <5> QED BY <5>1, <5>2
      <4> QED BY <4>1, <3>7 DEF Q
    <3> QED BY <3>8, <3>2
  <2>4. n \in 1 .. n
    BY <2>1
  <2>5. Q(n)
    <3> HIDE DEF Q
    <3> QED BY <2>3, <2>4
  <2> QED BY <2>5, <2>2 DEF n
<1> QED BY <1>1, <1>2

(* SetToSeq lists every element of a finite set once. *)
LEMMA SetInOrder ==
    ASSUME NEW S, IsFiniteSet(S)
    PROVE  /\ SetToSeq(S) \in Seq(S) /\ Len(SetToSeq(S)) \in Nat
           /\ \A i \in 1 .. Len(SetToSeq(S)) : SetToSeq(S)[i] \in S
           /\ \A i, j \in 1 .. Len(SetToSeq(S)) : SetToSeq(S)[i] = SetToSeq(S)[j] => i = j
           /\ \A x \in S : \E i \in 1 .. Len(SetToSeq(S)) : SetToSeq(S)[i] = x
<1> DEFINE n == Cardinality(S)  q == SetToSeq(S)
<1>1. n \in Nat /\ \E f : f \in Bijection(1 .. n, S)
  BY FS_CardinalityType DEF ExistsBijection
<1>2. \E f \in [1 .. n -> S] : IsInjective(f)
  BY <1>1 DEF Bijection, Injection
<1>3. q \in [1 .. n -> S] /\ IsInjective(q)
  <2> HIDE DEF n
  <2>1. q = CHOOSE f \in [1 .. n -> S] : IsInjective(f)
    BY DEF SetToSeq, n
  <2> HIDE DEF q
  <2> QED BY <1>2, <2>1
<1> HIDE DEF q
<1>4. q \in Injection(1 .. n, S)
  BY <1>3 DEF Injection
<1>5. Cardinality(1 .. n) = n /\ IsFiniteSet(1 .. n)
  <2> HIDE DEF n
  <2>1. 1 \in Int /\ n \in Int
    BY <1>1
  <2> QED BY <1>1, <2>1, FS_Interval
<1>6. q \in Surjection(1 .. n, S)
  BY <1>4, <1>5, FS_Injection
<1>7. q \in Seq(S) /\ Len(q) = n
  <2> HIDE DEF n
  <2>1. q \in Seq(S)
    BY <1>1, <1>3, SeqDef
  <2>2. DOMAIN q = 1 .. n /\ DOMAIN q = 1 .. Len(q) /\ Len(q) \in Nat
    BY <2>1, <1>3, LenProperties
  <2> QED BY <2>1, <2>2, <1>1
<1> HIDE DEF n
<1>8. \A i \in 1 .. n : q[i] \in S
  BY <1>3
<1>9. \A i, j \in 1 .. n : q[i] = q[j] => i = j
  BY <1>3 DEF IsInjective
<1>10. \A x \in S : \E i \in 1 .. n : q[i] = x
  BY <1>6, <1>3 DEF Surjection
<1> QED BY <1>1, <1>7, <1>8, <1>9, <1>10 DEF q

(* ForEach, for the calls G[x] of each x of T. *)
LEMMA GoodForEach ==
    ASSUME NEW T, IsFiniteSet(T), NEW G, \A x \in T : Good(G[x]),
           \A x, y \in T : x # y => \A e \in ToSet(G[x]), f \in ToSet(G[y]) : Below(e, f),
           NEW c, c = FlattenSeq([i \in 1 .. Len(SetToSeq(T)) |-> G[SetToSeq(T)[i]]])
    PROVE  /\ Good(c)
           /\ \A e : e \in ToSet(c) <=> \E x \in T : e \in ToSet(G[x])
<1> DEFINE q == SetToSeq(T)  n == Len(q)  ss == [i \in 1 .. n |-> G[q[i]]]
<1>1. /\ n \in Nat /\ \A i \in 1 .. n : q[i] \in T
      /\ \A i, j \in 1 .. n : q[i] = q[j] => i = j
      /\ \A x \in T : \E i \in 1 .. n : q[i] = x
  BY SetInOrder
<1> HIDE DEF q, n
<1>2. \A i \in 1 .. n : ss[i] = G[q[i]] /\ Good(ss[i]) /\ ss[i] \in Seq(AllCalls)
  BY <1>1 DEF Good
<1>3. ss \in Seq(Seq(AllCalls)) /\ Len(ss) = n
  <2>1. ss \in [1 .. n -> Seq(AllCalls)]
    BY <1>2
  <2>2. DOMAIN ss = 1 .. n
    OBVIOUS
  <2> HIDE DEF ss
  <2>3. ss \in Seq(Seq(AllCalls))
    BY <2>1, <1>1, SeqDef
  <2>4. DOMAIN ss = 1 .. Len(ss) /\ Len(ss) \in Nat
    BY <2>3, LenProperties
  <2> QED BY <2>2, <2>3, <2>4, <1>1
<1>4. c = FlattenSeq(ss)
  BY DEF q, n
<1> HIDE DEF ss
<1>5. \A i, j \in 1 .. Len(ss) : i < j => \A e \in ToSet(ss[i]), f \in ToSet(ss[j]) : Below(e, f)
  <2> SUFFICES ASSUME NEW i \in 1 .. n, NEW j \in 1 .. n, i < j,
                      NEW e \in ToSet(ss[i]), NEW f \in ToSet(ss[j])
               PROVE  Below(e, f)
    BY <1>3
  <2>1. i # j
    BY <1>1
  <2>2. q[i] \in T /\ q[j] \in T /\ q[i] # q[j] /\ e \in ToSet(G[q[i]]) /\ f \in ToSet(G[q[j]])
    BY <2>1, <1>1, <1>2
  <2> QED BY <2>2
<1>6. /\ Good(c)
      /\ \A e : e \in ToSet(c) <=> \E i \in 1 .. n : e \in ToSet(ss[i])
  BY <1>2, <1>3, <1>4, <1>5, GoodFlatten
<1>7. ASSUME NEW e PROVE e \in ToSet(c) <=> \E x \in T : e \in ToSet(G[x])
  <2>1. ASSUME e \in ToSet(c) PROVE \E x \in T : e \in ToSet(G[x])
    BY <2>1, <1>6, <1>2, <1>1
  <2>2. ASSUME NEW x \in T, e \in ToSet(G[x]) PROVE e \in ToSet(c)
    <3>1. PICK i \in 1 .. n : q[i] = x
      BY <1>1
    <3> QED BY <3>1, <2>2, <1>6, <1>2
  <2> QED BY <2>1, <2>2
<1> QED BY <1>6, <1>7

(* Every name with an argument of its kind is a call. *)
LEMMA CallTypes ==
    /\ \A n \in CalculationCalls, c \in Calculations : <<n, c>> \in AllCalls
    /\ \A n \in SatelliteCalls, s \in Satellites : <<n, s>> \in AllCalls
    /\ \A w \in Workers : <<"clear", w>> \in AllCalls
    /\ \A n \in PlainCalls : <<n, "none">> \in AllCalls
BY DEF AllCalls

(* A list of one call. *)
LEMMA OneCall ==
    ASSUME NEW n, NEW a, <<n, a>> \in AllCalls
    PROVE  /\ Call(n, a) \in Seq(AllCalls) /\ Ordered(Call(n, a)) /\ ToSet(Call(n, a)) = {<<n, a>>}
           /\ n \notin {"upgrade", "exclusive", "shared"} => Good(Call(n, a))
<1>1. <<n, a>>[1] = n
  OBVIOUS
<1> QED BY <1>1, GoodOne DEF Call, Takes

(* A list of one call without an argument. *)
LEMMA OneStep ==
    ASSUME NEW n \in PlainCalls
    PROVE  /\ Step(n) \in Seq(AllCalls) /\ Ordered(Step(n)) /\ ToSet(Step(n)) = {<<n, "none">>}
           /\ n \notin {"upgrade", "exclusive", "shared"} => Good(Step(n))
BY CallTypes, OneCall DEF Step

(* An experiment is no calculation of a channel. *)
LEMMA ChannelTypes ==
    ASSUME NEW s \in Satellites
    PROVE  /\ Experiment(s) \in Calculations /\ Experiment(s)[1] = s
           /\ \A k \in ChannelKinds : <<s, k>> \in Calculations /\ <<s, k>> # Experiment(s)
BY KindsAssumption DEF Experiment, Calculations

(* releaseCalculation: the flag, the lock, the registry. *)
LEMMA ReleaseCalls ==
    ASSUME NEW c \in Calculations
    PROVE  /\ Good(Release(c))
           /\ ToSet(Release(c)) = {<<"stopFlag", c>>, <<"lock", "none">>, <<"erase", c>>}
<1>1. Good(Call("stopFlag", c)) /\ ToSet(Call("stopFlag", c)) = {<<"stopFlag", c>>}
  BY CallTypes, OneCall DEF CalculationCalls
<1>2. Good(Step("lock")) /\ ToSet(Step("lock")) = {<<"lock", "none">>}
  BY OneStep DEF PlainCalls
<1>3. Good(Call("erase", c)) /\ ToSet(Call("erase", c)) = {<<"erase", c>>}
  BY CallTypes, OneCall DEF CalculationCalls
<1>4. /\ Below(<<"stopFlag", c>>, <<"lock", "none">>) /\ Below(<<"stopFlag", c>>, <<"erase", c>>)
      /\ Below(<<"lock", "none">>, <<"erase", c>>)
  BY DEF Below, Takes
<1>5. /\ Good(Call("stopFlag", c) \o Step("lock"))
      /\ ToSet(Call("stopFlag", c) \o Step("lock")) = {<<"stopFlag", c>>, <<"lock", "none">>}
  BY <1>1, <1>2, <1>4, GoodConcat
<1> QED
  BY <1>3, <1>4, <1>5, GoodConcat DEF Release

(* clearOrders: every worker's order, then the lock is released. *)
LEMMA ClearCalls ==
    /\ Good(ClearOrders)
    /\ \A e : e \in ToSet(ClearOrders) <=>
          (\E w \in Workers : e = <<"clear", w>>) \/ e = <<"unlock", "none">>
<1> DEFINE G == [w \in Workers |-> <<<<"clear", w>>>>]
           c == FlattenSeq([i \in 1 .. Len(SetToSeq(Workers)) |-> G[SetToSeq(Workers)[i]]])
<1>1. \A w \in Workers : Good(G[w]) /\ ToSet(G[w]) = {<<"clear", w>>}
  BY CallTypes, OneCall DEF Call
<1>2. \A w, v \in Workers : Below(<<"clear", w>>, <<"clear", v>>)
  BY DEF Below, Takes
<1>3. [i \in 1 .. Len(SetToSeq(Workers)) |-> G[SetToSeq(Workers)[i]]]
      = [i \in 1 .. Len(SetToSeq(Workers)) |-> <<<<"clear", SetToSeq(Workers)[i]>>>>]
  BY SetInOrder, FiniteAssumption
<1>4. ClearOrders = c \o Step("unlock")
  BY <1>3 DEF ClearOrders, ForEach, Call
<1> HIDE DEF G
<1>5. /\ Good(c)
      /\ \A e : e \in ToSet(c) <=> \E w \in Workers : e \in ToSet(G[w])
  <2>1. \A w, v \in Workers : w # v => \A e \in ToSet(G[w]), f \in ToSet(G[v]) : Below(e, f)
    BY <1>1, <1>2
  <2>2. c = FlattenSeq([i \in 1 .. Len(SetToSeq(Workers)) |-> G[SetToSeq(Workers)[i]]])
    OBVIOUS
  <2> HIDE DEF c
  <2> QED BY <1>1, <2>1, <2>2, FiniteAssumption, GoodForEach
<1> HIDE DEF c
<1>6. Good(Step("unlock")) /\ ToSet(Step("unlock")) = {<<"unlock", "none">>}
  BY OneStep DEF PlainCalls
<1>7. \A w \in Workers : Below(<<"clear", w>>, <<"unlock", "none">>)
  BY DEF Below, Takes
<1>8. \A e \in ToSet(c), f \in ToSet(Step("unlock")) : Below(e, f)
  BY <1>1, <1>5, <1>6, <1>7
<1>9. Good(c \o Step("unlock")) /\ ToSet(c \o Step("unlock")) = ToSet(c) \cup {<<"unlock", "none">>}
  BY <1>5, <1>6, <1>8, GoodConcat
<1> QED BY <1>1, <1>4, <1>5, <1>9

(* What may be below a call that takes the lock. *)
UpgradeAllows(f) == f[1] \notin {"stopThreads", "eraseAll", "erase", "clear"}

(* Calls in the scope of an upgrade lock. *)
LEMMA ExclusiveCalls ==
    ASSUME NEW calls, Good(calls),
           \A f \in ToSet(calls) : UpgradeAllows(f) /\ f[1] # "destroy" /\ Below(f, <<"giveUp", "none">>)
    PROVE  /\ Good(WithExclusiveAccess(calls))
           /\ ToSet(WithExclusiveAccess(calls))
              = ToSet(calls) \cup {<<"upgrade", "none">>, <<"exclusive", "none">>, <<"giveUp", "none">>}
<1> DEFINE ue == Step("upgrade") \o Step("exclusive")  rest == calls \o Step("giveUp")
<1>1. /\ Step("upgrade") \in Seq(AllCalls) /\ Ordered(Step("upgrade")) /\
             ToSet(Step("upgrade")) = {<<"upgrade", "none">>}
      /\ Step("exclusive") \in Seq(AllCalls) /\ Ordered(Step("exclusive"))
      /\ ToSet(Step("exclusive")) = {<<"exclusive", "none">>}
      /\ Good(Step("giveUp")) /\ ToSet(Step("giveUp")) = {<<"giveUp", "none">>}
  BY OneStep DEF PlainCalls
<1>2. /\ Below(<<"upgrade", "none">>, <<"exclusive", "none">>) /\ Below(<<"upgrade", "none">>,
             <<"giveUp", "none">>)
      /\ Below(<<"exclusive", "none">>, <<"giveUp", "none">>)
      /\ \A f \in ToSet(calls) : Below(<<"upgrade", "none">>, f) /\ Below(<<"exclusive", "none">>, f)
  BY DEF Below, Takes, UpgradeAllows
<1>3. /\ ue \in Seq(AllCalls) /\ Ordered(ue) /\ ToSet(ue) = {<<"upgrade", "none">>, <<"exclusive", "none">>}
  <2>1. Step("upgrade") \in Seq(AllCalls) /\ Step("exclusive") \in Seq(AllCalls) /\ Ordered(Step("exclusive"))
    BY <1>1
  <2>2. \A e \in ToSet(Step("upgrade")), f \in ToSet(Step("exclusive")) : Below(e, f)
    BY <1>1, <1>2
  <2>3. Ordered(ue)
    BY <1>1, <2>1, <2>2, OrderedConcat
  <2>4. ue \in Seq(AllCalls) /\ ToSet(ue) = ToSet(Step("upgrade")) \cup ToSet(Step("exclusive"))
    BY <2>1, ConcatFacts
  <2> HIDE DEF ue
  <2> QED BY <1>1, <2>3, <2>4
<1>4. Good(rest) /\ ToSet(rest) = ToSet(calls) \cup {<<"giveUp", "none">>}
  BY <1>1, GoodConcat
<1>5. WithExclusiveAccess(calls) = ue \o rest
  <2>1. ue \in Seq(AllCalls) /\ calls \in Seq(AllCalls) /\ Step("giveUp") \in Seq(AllCalls)
    BY <1>1, <1>3 DEF Good
  <2> HIDE DEF ue
  <2>2. (ue \o calls) \o Step("giveUp") = ue \o (calls \o Step("giveUp"))
    BY <2>1, Regroup
  <2> QED BY <2>2 DEF WithExclusiveAccess, ue
<1> HIDE DEF ue, rest
<1>6. /\ \A e \in ToSet(ue) \cup ToSet(rest) : e[1] # "destroy"
      /\ \E e \in ToSet(rest) : e[1] \in Ends
      /\ \A e \in ToSet(ue), f \in ToSet(rest) : Below(e, f)
  BY <1>2, <1>3, <1>4 DEF Ends
<1>7. Good(ue \o rest) /\ ToSet(ue \o rest) = ToSet(ue) \cup ToSet(rest)
  BY <1>3, <1>4, <1>6, TakeConcat
<1> QED BY <1>3, <1>4, <1>5, <1>7

(* closeSatellite of one satellite. *)
LEMMA CloseCalls ==
    ASSUME NEW s \in Satellites
    PROVE  /\ Good(CloseSatellite(s))
           /\ ToSet(CloseSatellite(s)) = {<<"close", s>>, <<"upgrade", "none">>,
                                          <<"exclusive", "none">>, <<"giveUp", "none">>}
<1>1. Good(Call("close", s)) /\ ToSet(Call("close", s)) = {<<"close", s>>}
  BY CallTypes, OneCall DEF SatelliteCalls
<1>2. Below(<<"close", s>>, <<"giveUp", "none">>) /\ UpgradeAllows(<<"close", s>>)
  BY DEF Below, Takes, UpgradeAllows, AfterClose
<1> QED BY <1>1, <1>2, ExclusiveCalls DEF CloseSatellite

(* SvmPredictionData::stop() up to its loop over satellites_. *)
LEMMA StopCalls ==
    /\ Good(StopPredictions)
    /\ ToSet(StopPredictions) = {<<"deactivate", "none">>, <<"upgrade", "none">>,
                                 <<"exclusive", "none">>, <<"stopExperiments", "none">>}
<1> DEFINE d == Step("deactivate")  u == Step("upgrade")  x == Step("exclusive")  p == Step("stopExperiments")
<1>1. /\ Good(d) /\ ToSet(d) = {<<"deactivate", "none">>}
      /\ u \in Seq(AllCalls) /\ Ordered(u) /\ ToSet(u) = {<<"upgrade", "none">>}
      /\ x \in Seq(AllCalls) /\ Ordered(x) /\ ToSet(x) = {<<"exclusive", "none">>}
      /\ Good(p) /\ ToSet(p) = {<<"stopExperiments", "none">>}
      /\ d \in Seq(AllCalls) /\ p \in Seq(AllCalls)
  BY OneStep DEF PlainCalls, Good
<1>2. /\ Below(<<"upgrade", "none">>, <<"exclusive", "none">>) /\ Below(<<"upgrade", "none">>,
             <<"stopExperiments", "none">>)
      /\ Below(<<"exclusive", "none">>, <<"stopExperiments", "none">>)
      /\ Below(<<"deactivate", "none">>, <<"upgrade", "none">>) /\ Below(<<"deactivate", "none">>,
             <<"exclusive", "none">>)
      /\ Below(<<"deactivate", "none">>, <<"stopExperiments", "none">>)
  BY DEF Below, Takes
<1> DEFINE xp == x \o p  uxp == u \o xp
<1>3. StopPredictions = d \o uxp
  <2>1. StopPredictions = ((d \o u) \o x) \o p
    BY DEF StopPredictions
  <2> HIDE DEF d, u, x, p
  <2>2. d \in Seq(AllCalls) /\ u \in Seq(AllCalls) /\ x \in Seq(AllCalls) /\ p \in Seq(AllCalls)
    BY <1>1
  <2>3. (d \o u) \in Seq(AllCalls)
    BY <2>2, ConcatProperties
  <2>4. (x \o p) \in Seq(AllCalls)
    BY <2>2, ConcatProperties
  <2>5. \A a \in Seq(AllCalls) : (a \o x) \o p = a \o (x \o p)
    BY <2>2, Regroup, Zenon
  <2>6. \A b \in Seq(AllCalls) : (d \o u) \o b = d \o (u \o b)
    BY <2>2, Regroup, Zenon
  <2>7. ((d \o u) \o x) \o p = (d \o u) \o (x \o p)
    BY <2>3, <2>5, Zenon
  <2>8. (d \o u) \o (x \o p) = d \o (u \o (x \o p))
    BY <2>4, <2>6, Zenon
  <2> QED BY <2>1, <2>7, <2>8, Zenon DEF xp, uxp
<1> HIDE DEF d, u, x, p
<1>4. Good(xp) /\ ToSet(xp) = {<<"exclusive", "none">>, <<"stopExperiments", "none">>}
  <2>1. /\ \A e \in ToSet(x), f \in ToSet(p) : Below(e, f)
        /\ \A e \in ToSet(x) \cup ToSet(p) : e[1] # "destroy"
        /\ \E e \in ToSet(p) : e[1] \in Ends
    BY <1>1, <1>2 DEF Ends
  <2>2. Good(xp) /\ ToSet(xp) = ToSet(x) \cup ToSet(p)
    BY <1>1, <2>1, TakeConcat
  <2> HIDE DEF xp
  <2> QED BY <2>2, <1>1
<1> HIDE DEF xp
<1>5. /\ Good(uxp)
      /\ ToSet(uxp) = {<<"upgrade", "none">>, <<"exclusive", "none">>, <<"stopExperiments", "none">>}
  <2>1. /\ \A e \in ToSet(u), f \in ToSet(xp) : Below(e, f)
        /\ \A e \in ToSet(u) \cup ToSet(xp) : e[1] # "destroy"
        /\ \E e \in ToSet(xp) : e[1] \in Ends
    BY <1>1, <1>2, <1>4 DEF Ends
  <2>2. Good(uxp) /\ ToSet(uxp) = ToSet(u) \cup ToSet(xp)
    BY <1>1, <1>4, <2>1, TakeConcat
  <2> HIDE DEF uxp
  <2> QED BY <2>2, <1>1, <1>4
<1> HIDE DEF uxp
<1>6. \A e \in ToSet(d), f \in ToSet(uxp) : Below(e, f)
  BY <1>1, <1>2, <1>5
<1>7. Good(d \o uxp) /\ ToSet(d \o uxp) = ToSet(d) \cup ToSet(uxp)
  BY <1>1, <1>5, <1>6, GoodConcat
<1> QED BY <1>1, <1>3, <1>5, <1>7

(* ThreadManager::stop() and the joining of its threads. *)
LEMMA StopManagerCalls ==
    /\ Good(StopManager)
    /\ ToSet(StopManager) = {<<"stopManager", "none">>, <<"join", "none">>}
<1>1. /\ Good(Step("stopManager")) /\ ToSet(Step("stopManager")) = {<<"stopManager", "none">>}
      /\ Good(Step("join")) /\ ToSet(Step("join")) = {<<"join", "none">>}
  BY OneStep DEF PlainCalls
<1>2. Below(<<"stopManager", "none">>, <<"join", "none">>)
  BY DEF Below, Takes
<1> QED BY <1>1, <1>2, GoodConcat DEF StopManager

(* addNewCalculation of every calculation of the channels, then the pointers. *)
LEMMA CreateChannelsCalls ==
    ASSUME NEW s \in Satellites
    PROVE  /\ Good(CreateChannels(s))
           /\ \A e : e \in ToSet(CreateChannels(s)) <=>
                 (\E k \in ChannelKinds : e = <<"register", <<s, k>>>>) \/ e = <<"channels", s>>
<1> DEFINE G == [k \in ChannelKinds |-> <<<<"register", <<s, k>>>>>>]
           c == FlattenSeq([i \in 1 .. Len(SetToSeq(ChannelKinds)) |-> G[SetToSeq(ChannelKinds)[i]]])
           l == Call("channels", s)
<1>1. \A k \in ChannelKinds : Good(G[k]) /\ ToSet(G[k]) = {<<"register", <<s, k>>>>}
  BY CallTypes, OneCall, ChannelTypes DEF Call, CalculationCalls
<1>2. \A k, m \in ChannelKinds : k # m => Below(<<"register", <<s, k>>>>, <<"register", <<s, m>>>>)
  BY DEF Below, Takes
<1>3. [i \in 1 .. Len(SetToSeq(ChannelKinds)) |-> G[SetToSeq(ChannelKinds)[i]]]
      = [i \in 1 .. Len(SetToSeq(ChannelKinds)) |-> <<<<"register", <<s, SetToSeq(ChannelKinds)[i]>>>>>>]
  BY SetInOrder, FiniteAssumption
<1>4. CreateChannels(s) = c \o l
  BY <1>3 DEF CreateChannels, ForEach, Call, Register
<1> HIDE DEF G
<1>5. /\ Good(c)
      /\ \A e : e \in ToSet(c) <=> \E k \in ChannelKinds : e \in ToSet(G[k])
  <2>1. \A w, v \in ChannelKinds : w # v => \A e \in ToSet(G[w]), f \in ToSet(G[v]) : Below(e, f)
    BY <1>1, <1>2
  <2>2. c = FlattenSeq([i \in 1 .. Len(SetToSeq(ChannelKinds)) |-> G[SetToSeq(ChannelKinds)[i]]])
    OBVIOUS
  <2> HIDE DEF c
  <2> QED BY <1>1, <2>1, <2>2, FiniteAssumption, GoodForEach
<1>6. Good(l) /\ ToSet(l) = {<<"channels", s>>}
  BY CallTypes, OneCall DEF SatelliteCalls
<1> HIDE DEF c, l
<1>7. \A k \in ChannelKinds : Below(<<"register", <<s, k>>>>, <<"channels", s>>)
  BY DEF Below, Takes
<1>8. \A e \in ToSet(c), f \in ToSet(l) : Below(e, f)
  BY <1>1, <1>5, <1>6, <1>7
<1>9. Good(c \o l) /\ ToSet(c \o l) = ToSet(c) \cup {<<"channels", s>>}
  BY <1>5, <1>6, <1>8, GoodConcat
<1> QED BY <1>1, <1>4, <1>5, <1>9

(* A satellite that rises, GPS or GLONASS: the same calls in another order. *)
LEMMA CreateCalls ==
    ASSUME NEW s \in Satellites
    PROVE  /\ Good(Create(s))
           /\ \A e : e \in ToSet(Create(s)) <=>
                 \/ \E k \in ChannelKinds : e = <<"register", <<s, k>>>>
                 \/ e = <<"channels", s>> \/ e = <<"addSatellite", s>>
<1> DEFINE a == Call("addSatellite", s)  c == CreateChannels(s)
<1>1. Good(a) /\ ToSet(a) = {<<"addSatellite", s>>}
  BY CallTypes, OneCall DEF SatelliteCalls
<1>2. Good(c) /\ \A e : e \in ToSet(c) <=>
                 (\E k \in ChannelKinds : e = <<"register", <<s, k>>>>) \/ e = <<"channels", s>>
  BY CreateChannelsCalls
<1>3. Create(s) = IF s \in Gps THEN a \o c ELSE c \o a
  BY DEF Create
<1> HIDE DEF a, c
<1>4. /\ Below(<<"addSatellite", s>>, <<"channels", s>>) /\ Below(<<"channels", s>>, <<"addSatellite", s>>)
      /\ \A k \in ChannelKinds : Below(<<"addSatellite", s>>, <<"register", <<s, k>>>>)
                               /\ Below(<<"register", <<s, k>>>>, <<"addSatellite", s>>)
  BY ChannelTypes DEF Below, Takes
<1>5. /\ \A e \in ToSet(a), f \in ToSet(c) : Below(e, f)
      /\ \A e \in ToSet(c), f \in ToSet(a) : Below(e, f)
  BY <1>1, <1>2, <1>4
<1>6. /\ Good(a \o c) /\ ToSet(a \o c) = ToSet(a) \cup ToSet(c)
      /\ Good(c \o a) /\ ToSet(c \o a) = ToSet(c) \cup ToSet(a)
  BY <1>1, <1>2, <1>5, GoodConcat
<1> QED BY <1>1, <1>2, <1>3, <1>6

(* A satellite that sets. *)
LEMMA DestroyCalls ==
    ASSUME NEW s \in Satellites
    PROVE  /\ Good(Destroy(s))
           /\ ToSet(Destroy(s)) = {<<"stopThreads", s>>, <<"close", s>>, <<"upgrade", "none">>,
                                   <<"exclusive", "none">>, <<"giveUp", "none">>, <<"delete", s>>}
<1> DEFINE t == StopThreads(s)  c == CloseSatellite(s)  d == Call("delete", s)  tc == t \o c
<1>1. /\ Good(t) /\ ToSet(t) = {<<"stopThreads", s>>}
      /\ Good(d) /\ ToSet(d) = {<<"delete", s>>}
  BY CallTypes, OneCall DEF SatelliteCalls, StopThreads
<1>2. Good(c) /\ ToSet(c) = {<<"close", s>>, <<"upgrade", "none">>, <<"exclusive", "none">>, <<"giveUp",
          "none">>}
  BY CloseCalls
<1>3. Destroy(s) = tc \o d
  BY DEF Destroy
<1> HIDE DEF t, c, d
<1>4. \A e \in ToSet(t), f \in ToSet(c) : Below(e, f)
  BY <1>1, <1>2 DEF Below, Takes
<1>5. Good(tc) /\ ToSet(tc) = ToSet(t) \cup ToSet(c)
  BY <1>1, <1>2, <1>4, GoodConcat
<1> HIDE DEF tc
<1>6. \A e \in ToSet(tc), f \in ToSet(d) : Below(e, f)
  BY <1>1, <1>2, <1>5 DEF Below, Takes, AfterClose
<1>7. Good(tc \o d) /\ ToSet(tc \o d) = ToSet(tc) \cup ToSet(d)
  BY <1>1, <1>5, <1>6, GoodConcat
<1> QED BY <1>1, <1>2, <1>3, <1>5, <1>7

(* ~SatelliteGroup: all are stopped, then all are destroyed. *)
LEMMA DestroyGroupCalls ==
    /\ Good(DestroyGroup)
    /\ \A e : e \in ToSet(DestroyGroup) <=>
          \E s \in Satellites : e = <<"stopThreads", s>> \/ e = <<"destroy", s>>
<1> DEFINE q == SetToSeq(Satellites)
           G == [s \in Satellites |-> <<<<"stopThreads", s>>>>]
           H == [s \in Satellites |-> <<<<"destroy", s>>>>]
           c == FlattenSeq([i \in 1 .. Len(q) |-> G[q[i]]])
           d == FlattenSeq([i \in 1 .. Len(q) |-> H[q[i]]])
<1>1. \A s \in Satellites : /\ Good(G[s]) /\ ToSet(G[s]) = {<<"stopThreads", s>>}
                            /\ Good(H[s]) /\ ToSet(H[s]) = {<<"destroy", s>>}
  BY CallTypes, OneCall DEF Call, SatelliteCalls
<1>2. \A s, t \in Satellites : /\ Below(<<"stopThreads", s>>, <<"stopThreads", t>>)
                               /\ Below(<<"stopThreads", s>>, <<"destroy", t>>)
                               /\ s # t => Below(<<"destroy", s>>, <<"destroy", t>>)
  BY DEF Below, Takes, AfterDestroy, AfterStop
<1>3. /\ [i \in 1 .. Len(q) |-> G[q[i]]] = [i \in 1 .. Len(q) |-> <<<<"stopThreads", q[i]>>>>]
      /\ [i \in 1 .. Len(q) |-> H[q[i]]] = [i \in 1 .. Len(q) |-> <<<<"destroy", q[i]>>>>]
  BY SetInOrder, FiniteAssumption
<1>4. DestroyGroup = c \o d
  BY <1>3 DEF DestroyGroup, ForEach, Call, StopThreads
<1> HIDE DEF G, H
<1>5. /\ Good(c)
      /\ \A e : e \in ToSet(c) <=> \E s \in Satellites : e \in ToSet(G[s])
  <2>1. ASSUME NEW w \in Satellites, NEW v \in Satellites, NEW e \in ToSet(G[w]), NEW f \in ToSet(G[v])
        PROVE  Below(e, f)
    <3>1. e = <<"stopThreads", w>> /\ f = <<"stopThreads", v>>
      BY <1>1
    <3> QED BY <3>1, <1>2
  <2>2. c = FlattenSeq([i \in 1 .. Len(SetToSeq(Satellites)) |-> G[SetToSeq(Satellites)[i]]])
    OBVIOUS
  <2> HIDE DEF c
  <2> QED BY <1>1, <2>1, <2>2, FiniteAssumption, GoodForEach
<1>6. /\ Good(d)
      /\ \A e : e \in ToSet(d) <=> \E s \in Satellites : e \in ToSet(H[s])
  <2>1. ASSUME NEW w \in Satellites, NEW v \in Satellites, w # v, NEW e \in ToSet(H[w]), NEW f \in ToSet(H[v])
        PROVE  Below(e, f)
    <3>1. e = <<"destroy", w>> /\ f = <<"destroy", v>>
      BY <1>1
    <3> QED BY <3>1, <2>1, <1>2
  <2>2. d = FlattenSeq([i \in 1 .. Len(SetToSeq(Satellites)) |-> H[SetToSeq(Satellites)[i]]])
    OBVIOUS
  <2> HIDE DEF d
  <2> QED BY <1>1, <2>1, <2>2, FiniteAssumption, GoodForEach
<1> HIDE DEF c, d
<1>7. \A e \in ToSet(c), f \in ToSet(d) : Below(e, f)
  <2> SUFFICES ASSUME NEW e \in ToSet(c), NEW f \in ToSet(d) PROVE Below(e, f)
    OBVIOUS
  <2>1. PICK w \in Satellites : e = <<"stopThreads", w>>
    BY <1>1, <1>5
  <2>2. PICK v \in Satellites : f = <<"destroy", v>>
    BY <1>1, <1>6
  <2> QED BY <2>1, <2>2, <1>2
<1>8. Good(c \o d) /\ ToSet(c \o d) = ToSet(c) \cup ToSet(d)
  BY <1>5, <1>6, <1>7, GoodConcat
<1> QED BY <1>1, <1>4, <1>5, <1>6, <1>8

(* The whole lists that the handlers of logs start with. *)
LEMMA SatVisCalls ==
    ASSUME NEW s \in Satellites, NEW n \in {"enable", "disable"}
    PROVE  /\ Good(<<>> \o Call(n, s)) /\ ToSet(<<>> \o Call(n, s)) = {<<n, s>>}
           /\ Good(Create(s) \o Call(n, s))
           /\ ToSet(Create(s) \o Call(n, s)) = ToSet(Create(s)) \cup {<<n, s>>}
           /\ Good(Destroy(s) \o Call(n, s))
           /\ ToSet(Destroy(s) \o Call(n, s)) = ToSet(Destroy(s)) \cup {<<n, s>>}
<1>1. Good(Call(n, s)) /\ ToSet(Call(n, s)) = {<<n, s>>}
  BY CallTypes, OneCall DEF SatelliteCalls
<1>2. \A e \in ToSet(Create(s)), f \in ToSet(Call(n, s)) : Below(e, f)
  <2>1. /\ Below(<<"channels", s>>, <<n, s>>) /\ Below(<<"addSatellite", s>>, <<n, s>>)
        /\ \A k \in ChannelKinds : Below(<<"register", <<s, k>>>>, <<n, s>>)
    BY DEF Below, Takes
  <2> QED BY <1>1, <2>1, CreateCalls
<1>3. \A e \in ToSet(Destroy(s)), f \in ToSet(Call(n, s)) : Below(e, f)
  <2>1. /\ Below(<<"stopThreads", s>>, <<n, s>>) /\ Below(<<"close", s>>, <<n, s>>)
        /\ Below(<<"upgrade", "none">>, <<n, s>>) /\ Below(<<"exclusive", "none">>, <<n, s>>)
        /\ Below(<<"giveUp", "none">>, <<n, s>>) /\ Below(<<"delete", s>>, <<n, s>>)
    BY DEF Below, Takes, AfterDestroy, AfterClose
  <2> QED BY <1>1, <2>1, DestroyCalls
<1> QED BY <1>1, <1>2, <1>3, CreateCalls, DestroyCalls, GoodConcat, GoodEmpty

(* What an elevation angle calls. *)
LEMMA ElevationCalls ==
    ASSUME NEW s \in Satellites
    PROVE  /\ Good(Step("shared") \o Call("pushElevationAngle", s))
           /\ ToSet(Step("shared") \o Call("pushElevationAngle", s))
              = {<<"shared", "none">>, <<"pushElevationAngle", s>>}
<1> DEFINE a == Step("shared")  p == Call("pushElevationAngle", s)
<1>1. /\ a \in Seq(AllCalls) /\ Ordered(a) /\ ToSet(a) = {<<"shared", "none">>}
      /\ Good(p) /\ ToSet(p) = {<<"pushElevationAngle", s>>} /\ p \in Seq(AllCalls) /\ Ordered(p) /\ Released(p)
  BY CallTypes, OneCall, OneStep DEF SatelliteCalls, PlainCalls, Good
<1> HIDE DEF a, p
<1>2. \A e \in ToSet(a), f \in ToSet(p) : Below(e, f)
  BY <1>1 DEF Below, Takes
<1>3. Ordered(a \o p)
  BY <1>1, <1>2, OrderedConcat
<1>4. <<"pushElevationAngle", s>> \in ToSet(p) /\ <<"pushElevationAngle", s>>[1] \in Ends
  BY <1>1 DEF Ends
<1>5. \A e \in ToSet(a) \cup ToSet(p) : e[1] # "destroy"
  BY <1>1
<1>6. Released(a \o p)
  BY <1>1, <1>4, <1>5, ReleasedConcat
<1>7. a \o p \in Seq(AllCalls) /\ ToSet(a \o p) = ToSet(a) \cup ToSet(p)
  BY <1>1, ConcatFacts
<1> QED BY <1>1, <1>3, <1>6, <1>7 DEF Good, a, p

(* The group destroyed and the predictions stopped. *)
LEMMA DestroyAndStopCalls ==
    /\ Good(DestroyGroup \o StopPredictions)
    /\ \A e : e \in ToSet(DestroyGroup \o StopPredictions) <=>
          \/ \E s \in Satellites : e = <<"stopThreads", s>> \/ e = <<"destroy", s>>
          \/ e \in {<<"deactivate", "none">>, <<"upgrade", "none">>,
                    <<"exclusive", "none">>, <<"stopExperiments", "none">>}
<1>1. \A s \in Satellites, n \in {"deactivate", "upgrade", "exclusive", "stopExperiments"} :
          Below(<<"stopThreads", s>>, <<n, "none">>) /\ Below(<<"destroy", s>>, <<n, "none">>)
  BY DEF Below, Takes, AfterDestroy, AfterStop
<1>2. \A e \in ToSet(DestroyGroup), f \in ToSet(StopPredictions) : Below(e, f)
  <2> SUFFICES ASSUME NEW e \in ToSet(DestroyGroup), NEW f \in ToSet(StopPredictions) PROVE Below(e, f)
    OBVIOUS
  <2>1. PICK w \in Satellites : e = <<"stopThreads", w>> \/ e = <<"destroy", w>>
    BY DestroyGroupCalls
  <2>2. PICK n \in {"deactivate", "upgrade", "exclusive", "stopExperiments"} : f = <<n, "none">>
    BY StopCalls
  <2> QED BY <2>1, <2>2, <1>1
<1> QED BY <1>2, DestroyGroupCalls, StopCalls, GoodConcat

(* What a gap in the time stamps calls. *)
LEMMA GapCalls ==
    /\ Good(ReleaseAll \o DestroyGroup \o StopPredictions \o Step("activate"))
    /\ \A e : e \in ToSet(ReleaseAll \o DestroyGroup \o StopPredictions \o Step("activate")) <=>
          \/ \E s \in Satellites : e = <<"stopThreads", s>> \/ e = <<"destroy", s>>
          \/ e \in {<<"deactivate", "none">>, <<"upgrade", "none">>,
                    <<"exclusive", "none">>, <<"stopExperiments", "none">>,
                    <<"lock", "none">>, <<"eraseAll", "none">>, <<"activate", "none">>}
<1> DEFINE r == ReleaseAll  d == DestroyGroup  p == StopPredictions  a == Step("activate")
           dp == d \o p  rdp == r \o dp
<1>1. Good(r) /\ ToSet(r) = {<<"lock", "none">>, <<"eraseAll", "none">>}
  <2>1. /\ Good(Step("lock")) /\ ToSet(Step("lock")) = {<<"lock", "none">>}
        /\ Good(Step("eraseAll")) /\ ToSet(Step("eraseAll")) = {<<"eraseAll", "none">>}
    BY OneStep DEF PlainCalls
  <2>2. Below(<<"lock", "none">>, <<"eraseAll", "none">>)
    BY DEF Below, Takes
  <2> QED BY <2>1, <2>2, GoodConcat DEF ReleaseAll
<1>2. Good(a) /\ ToSet(a) = {<<"activate", "none">>}
  BY OneStep DEF PlainCalls
<1>3. Good(d) /\ Good(p)
  BY DestroyGroupCalls, StopCalls
<1>4. Good(dp) /\ \A e : e \in ToSet(dp) <=>
          \/ \E s \in Satellites : e = <<"stopThreads", s>> \/ e = <<"destroy", s>>
          \/ e \in {<<"deactivate", "none">>, <<"upgrade", "none">>,
                    <<"exclusive", "none">>, <<"stopExperiments", "none">>}
  BY DestroyAndStopCalls
<1> HIDE DEF r, d, p, a
<1>5. ((r \o d) \o p) \o a = rdp \o a
  <2>1. r \in Seq(AllCalls) /\ d \in Seq(AllCalls) /\ p \in Seq(AllCalls)
    BY <1>1, <1>3 DEF Good
  <2> QED BY <2>1, Regroup
<1> HIDE DEF dp
<1>6. \A e \in ToSet(r), f \in ToSet(dp) : Below(e, f)
  <2>1. \A f : Below(<<"lock", "none">>, f) /\ Below(<<"eraseAll", "none">>, f)
    BY DEF Below, Takes
  <2> QED BY <1>1, <2>1
<1>7. Good(rdp) /\ ToSet(rdp) = ToSet(r) \cup ToSet(dp)
  BY <1>1, <1>4, <1>6, GoodConcat
<1> HIDE DEF rdp
<1>8. \A e \in ToSet(rdp), f \in ToSet(a) : Below(e, f)
  <2>1. /\ \A s \in Satellites : /\ Below(<<"stopThreads", s>>, <<"activate", "none">>)
                                 /\ Below(<<"destroy", s>>, <<"activate", "none">>)
        /\ \A n \in {"deactivate", "upgrade", "exclusive", "stopExperiments", "lock", "eraseAll"} :
              Below(<<n, "none">>, <<"activate", "none">>)
    BY DEF Below, Takes, AfterDestroy, AfterStop
  <2> SUFFICES ASSUME NEW e \in ToSet(rdp) PROVE Below(e, <<"activate", "none">>)
    BY <1>2
  <2>2. CASE \E s \in Satellites : e = <<"stopThreads", s>> \/ e = <<"destroy", s>>
    BY <2>1, <2>2
  <2>3. CASE \E n \in {"deactivate", "upgrade", "exclusive", "stopExperiments", "lock",
            "eraseAll"} : e = <<n, "none">>
    BY <2>1, <2>3
  <2> QED BY <1>1, <1>4, <1>7, <2>2, <2>3
<1>9. Good(rdp \o a) /\ ToSet(rdp \o a) = ToSet(rdp) \cup ToSet(a)
  BY <1>2, <1>7, <1>8, GoodConcat
<1> QED BY <1>1, <1>2, <1>4, <1>5, <1>7, <1>9 DEF r, d, p, a

(* What the end of main calls. *)
LEMMA EndCalls ==
    /\ Good(DestroyGroup \o StopPredictions \o StopManager \o Step("exit"))
    /\ \A e : e \in ToSet(DestroyGroup \o StopPredictions \o StopManager \o Step("exit")) <=>
          \/ \E s \in Satellites : e = <<"stopThreads", s>> \/ e = <<"destroy", s>>
          \/ e \in {<<"deactivate", "none">>, <<"upgrade", "none">>,
                    <<"exclusive", "none">>, <<"stopExperiments", "none">>,
                    <<"stopManager", "none">>, <<"join", "none">>, <<"exit", "none">>}
<1> DEFINE dp == DestroyGroup \o StopPredictions  m == StopManager  x == Step("exit")  dpm == dp \o m
<1>1. Good(m) /\ ToSet(m) = {<<"stopManager", "none">>, <<"join", "none">>}
  BY StopManagerCalls
<1>2. Good(x) /\ ToSet(x) = {<<"exit", "none">>}
  BY OneStep DEF PlainCalls
<1>3. Good(dp) /\ \A e : e \in ToSet(dp) <=>
          \/ \E s \in Satellites : e = <<"stopThreads", s>> \/ e = <<"destroy", s>>
          \/ e \in {<<"deactivate", "none">>, <<"upgrade", "none">>,
                    <<"exclusive", "none">>, <<"stopExperiments", "none">>}
  BY DestroyAndStopCalls
<1> HIDE DEF dp, m, x
<1>4. \A s \in Satellites, n \in {"stopManager", "join", "exit"} :
         /\ Below(<<"stopThreads", s>>, <<n, "none">>) /\ Below(<<"destroy", s>>, <<n, "none">>)
         /\ \A l \in {"deactivate", "upgrade", "exclusive", "stopExperiments", "stopManager", "join"} :
               Below(<<l, "none">>, <<n, "none">>)
  BY DEF Below, Takes, AfterDestroy, AfterStop
<1>5. \A l \in {"deactivate", "upgrade", "exclusive", "stopExperiments", "stopManager", "join"},
          n \in {"stopManager", "join", "exit"} : Below(<<l, "none">>, <<n, "none">>)
  BY DEF Below, Takes, AfterDestroy, AfterStop
<1>6. \A e \in ToSet(dp), f \in ToSet(m) : Below(e, f)
  BY <1>1, <1>3, <1>4, <1>5
<1>7. Good(dpm) /\ ToSet(dpm) = ToSet(dp) \cup ToSet(m)
  BY <1>1, <1>3, <1>6, GoodConcat
<1> HIDE DEF dpm
<1>8. \A e \in ToSet(dpm), f \in ToSet(x) : Below(e, f)
  <2> SUFFICES ASSUME NEW e \in ToSet(dpm) PROVE Below(e, <<"exit", "none">>)
    BY <1>2
  <2>2. CASE \E s \in Satellites : e = <<"stopThreads", s>> \/ e = <<"destroy", s>>
    BY <1>4, <2>2
  <2>3. CASE \E n \in {"deactivate", "upgrade", "exclusive", "stopExperiments", "stopManager",
            "join"} : e = <<n, "none">>
    BY <1>5, <2>3
  <2> QED BY <1>1, <1>3, <1>7, <2>2, <2>3
<1>9. Good(dpm \o x) /\ ToSet(dpm \o x) = ToSet(dpm) \cup ToSet(x)
  BY <1>2, <1>7, <1>8, GoodConcat
<1> QED BY <1>1, <1>2, <1>3, <1>7, <1>9 DEF dp, m, x, dpm

(* The head of a list that starts with a call. *)
LEMMA FirstCall ==
    ASSUME NEW x \in AllCalls, NEW t \in Seq(AllCalls)
    PROVE  <<x>> \o t # <<>> /\ Head(<<x>> \o t) = x /\ Tail(<<x>> \o t) = t
<1> DEFINE j == <<x>>
<1>1. Len(t) \in Nat
  BY LenProperties
<1>2. j \in Seq(AllCalls) /\ Len(j) = 1 /\ j[1] = x
  OBVIOUS
<1> HIDE DEF j
<1>3. /\ j \o t \in Seq(AllCalls) /\ Len(j \o t) = 1 + Len(t)
      /\ \A i \in 1 .. 1 + Len(t) : (j \o t)[i] = IF i <= 1 THEN j[i] ELSE t[i - 1]
  <2>1. j \in Seq(AllCalls)
    BY <1>2
  <2>2. /\ j \o t \in Seq(AllCalls) /\ Len(j \o t) = Len(j) + Len(t)
        /\ \A i \in 1 .. Len(j) + Len(t) :
              (j \o t)[i] = IF i <= Len(j) THEN j[i] ELSE t[i - Len(j)]
    BY <2>1, ConcatProperties
  <2> QED BY <1>2, <2>2
<1>4. j \o t # <<>> /\ Head(j \o t) = (j \o t)[1]
  BY <1>1, <1>3, EmptySeq
<1>5. /\ Tail(j \o t) \in Seq(AllCalls) /\ Len(Tail(j \o t)) = Len(t)
      /\ \A i \in 1 .. Len(t) : Tail(j \o t)[i] = (j \o t)[i + 1]
  BY <1>1, <1>3, <1>4, HeadTailProperties
<1>6. \A i \in 1 .. Len(t) : Tail(j \o t)[i] = t[i]
  BY <1>1, <1>3, <1>5
<1>7. Tail(j \o t) = t
  BY <1>5, <1>6, SeqEqual
<1> QED BY <1>1, <1>2, <1>3, <1>4, <1>7 DEF j

(* The calls of signalTerminate. *)
LEMMA HandlerListCalls ==
    /\ Good(HandlerCalls) /\ HandlerCalls # <<>>
    /\ Head(HandlerCalls) = <<"stopManager", "none">>
    /\ Tail(HandlerCalls) # <<>> /\ Head(Tail(HandlerCalls)) = <<"join", "none">>
    /\ ToSet(Tail(Tail(HandlerCalls))) = {<<"deactivate", "none">>, <<"upgrade", "none">>,
          <<"exclusive", "none">>, <<"stopExperiments", "none">>, <<"handled", "none">>}
<1> DEFINE m == StopManager  p == StopPredictions  h == Step("handled")  ph == p \o h
<1>1. Good(m) /\ ToSet(m) = {<<"stopManager", "none">>, <<"join", "none">>}
  BY StopManagerCalls
<1>2. Good(h) /\ ToSet(h) = {<<"handled", "none">>}
  BY OneStep DEF PlainCalls
<1>3. Good(p) /\ ToSet(p) = {<<"deactivate", "none">>, <<"upgrade", "none">>,
                              <<"exclusive", "none">>, <<"stopExperiments", "none">>}
  BY StopCalls
<1>4. HandlerCalls = m \o ph
  <2>1. HandlerCalls = (m \o p) \o h
    BY DEF HandlerCalls
  <2> HIDE DEF m, p, h
  <2>2. m \in Seq(AllCalls) /\ p \in Seq(AllCalls) /\ h \in Seq(AllCalls)
    BY <1>1, <1>2, <1>3 DEF Good
  <2>3. (m \o p) \o h = m \o (p \o h)
    BY <2>2, Regroup, Zenon
  <2> QED BY <2>1, <2>3
<1> HIDE DEF m, p, h
<1>6. \A e \in ToSet(p), f \in ToSet(h) : Below(e, f)
  BY <1>2, <1>3 DEF Below, Takes, AfterStop
<1>7. Good(ph) /\ ToSet(ph) = ToSet(p) \cup ToSet(h)
  BY <1>2, <1>3, <1>6, GoodConcat
<1> HIDE DEF ph
<1>8. \A e \in ToSet(m), f \in ToSet(ph) : Below(e, f)
  BY <1>1, <1>2, <1>3, <1>7 DEF Below, Takes
<1>9. Good(m \o ph) /\ ToSet(m \o ph) = ToSet(m) \cup ToSet(ph)
  BY <1>1, <1>7, <1>8, GoodConcat
<1>12. ToSet(ph) = {<<"deactivate", "none">>, <<"upgrade", "none">>,
          <<"exclusive", "none">>, <<"stopExperiments", "none">>, <<"handled", "none">>}
  BY <1>2, <1>3, <1>7
<1>13. /\ m \o ph # <<>> /\ Head(m \o ph) = <<"stopManager", "none">>
       /\ Tail(m \o ph) # <<>> /\ Head(Tail(m \o ph)) = <<"join", "none">>
       /\ Tail(Tail(m \o ph)) = ph
  <2> DEFINE a == <<"stopManager", "none">>  j == <<"join", "none">>
  <2>1. a \in AllCalls /\ j \in AllCalls /\ <<a>> \in Seq(AllCalls) /\ <<j>> \in Seq(AllCalls)
        /\ ph \in Seq(AllCalls)
    BY CallTypes, OneStep, <1>7 DEF PlainCalls, Step, Call, Good
  <2>2. m = <<a>> \o <<j>>
    BY DEF StopManager, Step, Call, m
  <2> HIDE DEF a, j
  <2>3. m \o ph = <<a>> \o (<<j>> \o ph) /\ <<j>> \o ph \in Seq(AllCalls)
    <3>1. (<<a>> \o <<j>>) \o ph = <<a>> \o (<<j>> \o ph)
      BY <2>1, Regroup, Zenon
    <3>2. <<j>> \o ph \in Seq(AllCalls)
      BY <2>1, ConcatProperties
    <3> QED BY <3>1, <3>2, <2>2
  <2>4. /\ m \o ph # <<>> /\ Head(m \o ph) = a /\ Tail(m \o ph) = <<j>> \o ph
        /\ <<j>> \o ph # <<>> /\ Head(<<j>> \o ph) = j /\ Tail(<<j>> \o ph) = ph
    BY <2>1, <2>3, FirstCall
  <2> QED BY <2>4 DEF a, j
<1> QED BY <1>4, <1>9, <1>12, <1>13

(* addNewCalculation, past its check for a stopped manager. *)
LEMMA AddCalls ==
    ASSUME NEW c \in Calculations
    PROVE  /\ Good(Step("lock") \o Call("add", c))
           /\ ToSet(Step("lock") \o Call("add", c)) = {<<"lock", "none">>, <<"add", c>>}
<1>1. /\ Good(Step("lock")) /\ ToSet(Step("lock")) = {<<"lock", "none">>}
      /\ Good(Call("add", c)) /\ ToSet(Call("add", c)) = {<<"add", c>>}
  BY CallTypes, OneCall, OneStep DEF CalculationCalls, PlainCalls
<1>2. Below(<<"lock", "none">>, <<"add", c>>)
  BY DEF Below, Takes
<1> QED BY <1>1, <1>2, GoodConcat

(* stopThreads() of a satellite releases its channels' calculations. *)
LEMMA StopThreadsCalls ==
    ASSUME NEW s \in Satellites
    PROVE  /\ Good(ReleaseChannels(s))
           /\ \A e : e \in ToSet(ReleaseChannels(s)) <=> \E k \in ChannelKinds :
                 e \in {<<"stopFlag", <<s, k>>>>, <<"lock", "none">>, <<"erase", <<s, k>>>>}
<1> DEFINE q == SetToSeq(ChannelKinds)
           G == [k \in ChannelKinds |-> Release(<<s, k>>)]
           d == FlattenSeq([i \in 1 .. Len(q) |-> G[q[i]]])
<1>1. ASSUME NEW k \in ChannelKinds
      PROVE  /\ Good(G[k])
             /\ ToSet(G[k]) = {<<"stopFlag", <<s, k>>>>, <<"lock", "none">>, <<"erase", <<s, k>>>>}
  <2>1. G[k] = Release(<<s, k>>) /\ <<s, k>> \in Calculations
    BY ChannelTypes
  <2> HIDE DEF G
  <2> QED BY <2>1, ReleaseCalls
<1>2. [i \in 1 .. Len(q) |-> G[q[i]]] = [i \in 1 .. Len(q) |-> Release(<<s, q[i]>>)]
  BY SetInOrder, FiniteAssumption
<1>3. ReleaseChannels(s) = d
  BY <1>2 DEF ReleaseChannels, ForEach
<1> HIDE DEF G
<1>4. ASSUME NEW w \in ChannelKinds, NEW v \in ChannelKinds, NEW e \in ToSet(G[w]), NEW f \in ToSet(G[v])
      PROVE  Below(e, f)
  <2>1. e[1] \in {"stopFlag", "lock", "erase"}
    BY <1>1
  <2> QED BY <2>1 DEF Below, Takes
<1>5. /\ Good(d)
      /\ \A e : e \in ToSet(d) <=> \E k \in ChannelKinds : e \in ToSet(G[k])
  <2>1. d = FlattenSeq([i \in 1 .. Len(SetToSeq(ChannelKinds)) |-> G[SetToSeq(ChannelKinds)[i]]])
    OBVIOUS
  <2> HIDE DEF d, q
  <2> QED BY <1>1, <1>4, <2>1, FiniteAssumption, GoodForEach
<1> HIDE DEF d
<1> HIDE DEF q
<1>6. ASSUME NEW e
      PROVE  e \in ToSet(d) <=> \E k \in ChannelKinds :
                e \in {<<"stopFlag", <<s, k>>>>, <<"lock", "none">>, <<"erase", <<s, k>>>>}
  <2>1. \A k \in ChannelKinds : e \in ToSet(G[k]) <=>
                e \in {<<"stopFlag", <<s, k>>>>, <<"lock", "none">>, <<"erase", <<s, k>>>>}
    BY <1>1
  <2> QED BY <2>1, <1>5
<1>7. Good(d) /\ \A e : e \in ToSet(d) <=> \E k \in ChannelKinds :
                e \in {<<"stopFlag", <<s, k>>>>, <<"lock", "none">>, <<"erase", <<s, k>>>>}
  BY <1>5, <1>6
<1> QED BY <1>3, <1>7

(* addSatellite while the predictions are active. *)
LEMMA AddSatelliteCalls ==
    ASSUME NEW s \in Satellites
    PROVE  /\ Good(WithExclusiveAccess(Register(Experiment(s)) \o Call("insert", s)))
           /\ ToSet(WithExclusiveAccess(Register(Experiment(s)) \o Call("insert", s)))
              = {<<"register", Experiment(s)>>, <<"insert", s>>, <<"upgrade", "none">>,
                 <<"exclusive", "none">>, <<"giveUp", "none">>}
<1> DEFINE r == Register(Experiment(s))  i == Call("insert", s)  ri == r \o i
<1>1. /\ Good(r) /\ ToSet(r) = {<<"register", Experiment(s)>>}
      /\ Good(i) /\ ToSet(i) = {<<"insert", s>>}
  BY CallTypes, OneCall, ChannelTypes DEF CalculationCalls, SatelliteCalls, Register
<1> HIDE DEF r, i
<1>2. Below(<<"register", Experiment(s)>>, <<"insert", s>>)
  BY DEF Below, Takes
<1>3. Good(ri) /\ ToSet(ri) = {<<"register", Experiment(s)>>, <<"insert", s>>}
  BY <1>1, <1>2, GoodConcat
<1> HIDE DEF ri
<1>4. \A f \in ToSet(ri) : UpgradeAllows(f) /\ f[1] # "destroy" /\ Below(f, <<"giveUp", "none">>)
  <2>1. /\ Below(<<"register", Experiment(s)>>, <<"giveUp", "none">>)
        /\ Below(<<"insert", s>>, <<"giveUp", "none">>)
    BY DEF Below, Takes
  <2> QED BY <1>3, <2>1 DEF UpgradeAllows
<1>5. /\ Good(WithExclusiveAccess(ri))
      /\ ToSet(WithExclusiveAccess(ri))
         = ToSet(ri) \cup {<<"upgrade", "none">>, <<"exclusive", "none">>, <<"giveUp", "none">>}
  BY <1>3, <1>4, ExclusiveCalls
<1> QED BY <1>3, <1>5 DEF ri, r, i

(* close() of a satellite that has an experiment. *)
LEMMA CloseExperimentCalls ==
    ASSUME NEW s \in Satellites
    PROVE  /\ Good(Release(Experiment(s)) \o Call("deleteExperiment", s))
           /\ ToSet(Release(Experiment(s)) \o Call("deleteExperiment", s))
              = {<<"stopFlag", Experiment(s)>>, <<"lock", "none">>, <<"erase", Experiment(s)>>,
                 <<"deleteExperiment", s>>}
<1>1. /\ Good(Release(Experiment(s)))
      /\ ToSet(Release(Experiment(s))) = {<<"stopFlag", Experiment(s)>>, <<"lock", "none">>,
                                          <<"erase", Experiment(s)>>}
  BY ReleaseCalls, ChannelTypes
<1>2. Good(Call("deleteExperiment", s)) /\ ToSet(Call("deleteExperiment", s)) = {<<"deleteExperiment", s>>}
  BY CallTypes, OneCall DEF SatelliteCalls
<1>3. \A e \in ToSet(Release(Experiment(s))), f \in ToSet(Call("deleteExperiment", s)) : Below(e, f)
  <2>1. \A n \in {"stopFlag", "lock", "erase"} : \A x, f : Below(<<n, x>>, f)
    BY DEF Below, Takes
  <2> QED BY <1>1, <2>1
<1>4. ToSet(Release(Experiment(s)) \o Call("deleteExperiment", s))
      = ToSet(Release(Experiment(s))) \cup ToSet(Call("deleteExperiment", s))
  BY <1>1, <1>2, <1>3, GoodConcat
<1> QED BY <1>1, <1>2, <1>3, <1>4, GoodConcat

(* The loops of SvmPredictionData::stop() over what satellites_ holds. *)
LEMMA StopExperimentsCalls ==
    ASSUME NEW E \in SUBSET Satellites
    PROVE  /\ Good(CloseAll(E))
           /\ \A e : e \in ToSet(CloseAll(E)) <=>
                 \/ e = <<"giveUp", "none">>
                 \/ \E s \in E : e \in {<<"stopFlag", Experiment(s)>>, <<"lock", "none">>,
                                        <<"erase", Experiment(s)>>, <<"close", s>>,
                                        <<"upgrade", "none">>, <<"exclusive", "none">>}
<1> DEFINE q == SetToSeq(E)
           G == [s \in E |-> Release(Experiment(s))]
           H == [s \in E |-> CloseSatellite(s)]
           a == FlattenSeq([i \in 1 .. Len(q) |-> G[q[i]]])
           g == Step("giveUp")
           b == FlattenSeq([i \in 1 .. Len(q) |-> H[q[i]]])
           ag == a \o g
<1>0. IsFiniteSet(E)
  BY FS_Subset, FiniteAssumption
<1>1. ASSUME NEW s \in E
      PROVE  /\ Good(G[s])
             /\ ToSet(G[s]) = {<<"stopFlag", Experiment(s)>>, <<"lock", "none">>, <<"erase", Experiment(s)>>}
             /\ Good(H[s])
             /\ ToSet(H[s]) = {<<"close", s>>, <<"upgrade", "none">>, <<"exclusive", "none">>,
                    <<"giveUp", "none">>}
  <2>1. G[s] = Release(Experiment(s)) /\ H[s] = CloseSatellite(s) /\ Experiment(s) \in Calculations /\
            s \in Satellites
    BY ChannelTypes
  <2> HIDE DEF G, H
  <2> QED BY <2>1, ReleaseCalls, CloseCalls
<1>2. /\ [i \in 1 .. Len(q) |-> G[q[i]]] = [i \in 1 .. Len(q) |-> Release(Experiment(q[i]))]
      /\ [i \in 1 .. Len(q) |-> H[q[i]]] = [i \in 1 .. Len(q) |-> CloseSatellite(q[i])]
  BY SetInOrder, <1>0
<1>3. CloseAll(E) = ag \o b
  BY <1>2 DEF CloseAll, ForEach
<1> HIDE DEF G, H
<1>4. ASSUME NEW w \in E, NEW v \in E, NEW e \in ToSet(G[w]), NEW f \in ToSet(G[v])
      PROVE  Below(e, f)
  <2>1. e[1] \in {"stopFlag", "lock", "erase"}
    BY <1>1
  <2> QED BY <2>1 DEF Below, Takes
<1>5. ASSUME NEW w \in E, NEW v \in E, NEW e \in ToSet(H[w]), NEW f \in ToSet(H[v])
      PROVE  Below(e, f)
  <2>1. e[1] \in {"close", "upgrade", "exclusive", "giveUp"} /\ f[1] \in {"close", "upgrade",
            "exclusive", "giveUp"}
    BY <1>1
  <2> QED BY <2>1 DEF Below, Takes, AfterClose, AfterDestroy
<1>6. /\ Good(a)
      /\ \A e : e \in ToSet(a) <=> \E s \in E : e \in ToSet(G[s])
  <2>1. a = FlattenSeq([i \in 1 .. Len(SetToSeq(E)) |-> G[SetToSeq(E)[i]]])
    OBVIOUS
  <2> HIDE DEF a
  <2> QED BY <1>0, <1>1, <1>4, <2>1, GoodForEach
<1>7. /\ Good(b)
      /\ \A e : e \in ToSet(b) <=> \E s \in E : e \in ToSet(H[s])
  <2>1. b = FlattenSeq([i \in 1 .. Len(SetToSeq(E)) |-> H[SetToSeq(E)[i]]])
    OBVIOUS
  <2> HIDE DEF b
  <2> QED BY <1>0, <1>1, <1>5, <2>1, GoodForEach
<1>8. Good(g) /\ ToSet(g) = {<<"giveUp", "none">>}
  BY OneStep DEF PlainCalls
<1> HIDE DEF a, b, g
<1>9. \A e \in ToSet(a) \cup ToSet(g) : \A f : Below(e, f)
  <2>1. \A e \in ToSet(a) \cup ToSet(g) : e[1] \in {"stopFlag", "lock", "erase", "giveUp"}
    BY <1>1, <1>6, <1>8
  <2> QED BY <2>1 DEF Below, Takes
<1>10. Good(ag) /\ ToSet(ag) = ToSet(a) \cup ToSet(g)
  BY <1>6, <1>8, <1>9, GoodConcat
<1> HIDE DEF ag
<1>11. Good(ag \o b) /\ ToSet(ag \o b) = ToSet(ag) \cup ToSet(b)
  BY <1>7, <1>9, <1>10, GoodConcat
<1>12. ASSUME NEW e PROVE
       e \in ToSet(CloseAll(E)) <=> \/ e = <<"giveUp", "none">>
                          \/ \E s \in E : e \in ToSet(G[s]) \/ e \in ToSet(H[s])
  BY <1>3, <1>6, <1>7, <1>8, <1>10, <1>11
<1>13. ASSUME NEW e, NEW s \in E PROVE
       e \in ToSet(G[s]) \/ e \in ToSet(H[s]) <=>
          e = <<"giveUp", "none">> \/ e \in {<<"stopFlag", Experiment(s)>>, <<"lock", "none">>,
                                   <<"erase", Experiment(s)>>, <<"close", s>>,
                                   <<"upgrade", "none">>, <<"exclusive", "none">>}
  BY <1>1
<1>14. Good(CloseAll(E))
  BY <1>3, <1>11
<1> HIDE DEF q
<1> QED BY <1>12, <1>13, <1>14

(* The calls below the one main makes next. *)
Rest == ToSet(Tail(todo))

(* The argument of a call, from its name. *)
LEMMA ArgumentTypes ==
    ASSUME NEW n, NEW a, <<n, a>> \in AllCalls
    PROVE  /\ n \in CalculationCalls => a \in Calculations
           /\ n \in SatelliteCalls => a \in Satellites
           /\ n = "clear" => a \in Workers
           /\ n \in PlainCalls => a = "none"
BY DEF AllCalls, CalculationCalls, SatelliteCalls, PlainCalls

(* The call main makes next, and what is below it. *)
LEMMA TopOfStack ==
    ASSUME NEW n, Good(todo), Calls(n)
    PROVE  /\ ToSet(todo) = {<<n, Argument>>} \cup Rest
           /\ <<n, Argument>> \in AllCalls /\ Head(todo) = <<n, Argument>>
           /\ Rest \subseteq AllCalls /\ Good(Tail(todo))
           /\ \A f \in Rest : Below(<<n, Argument>>, f)
<1>1. todo # <<>> /\ Head(todo)[1] = n
  BY DEF Calls
<1>2. Head(todo) \in AllCalls
  BY <1>1, GoodTail
<1>3. \A e \in AllCalls : e = <<e[1], e[2]>>
  BY DEF AllCalls
<1>4. Head(todo) = <<n, Argument>>
  BY <1>1, <1>2, <1>3 DEF Argument
<1>5. Good(Tail(todo))
  BY <1>1, GoodTail
<1>6. \A s : s \in Seq(AllCalls) => ToSet(s) \subseteq AllCalls
  BY LenProperties, ElementOfSeq DEF ToSet
<1>7. Rest \subseteq AllCalls
  BY <1>5, <1>6 DEF Good, Rest
<1> QED BY <1>1, <1>2, <1>4, <1>5, <1>7, GoodTail DEF Rest

(* A call that returns takes nothing but itself off the calls that are due. *)
LEMMA ReturnStack ==
    ASSUME NEW n, StackOK, ~HandlerRuns, Calls(n), Return, UNCHANGED signal
    PROVE  /\ Due = {<<n, Argument>>} \cup Rest /\ Due' = Rest
           /\ StackOK' /\ ~HandlerRuns'
<1>1. /\ ToSet(todo) = {<<n, Argument>>} \cup Rest /\ Good(Tail(todo))
  BY TopOfStack DEF StackOK
<1>2. suspended' = suspended /\ interrupted' = interrupted /\ todo' = Tail(todo)
  BY DEF signal, Return
<1>3. ~HandlerRuns'
  BY <1>2 DEF HandlerRuns
<1>4. Due = {<<n, Argument>>} \cup Rest /\ Due' = Rest
  BY <1>1, <1>2, <1>3 DEF Due, Rest
<1>5. ~HasAny({"handled"})'
  BY <1>4 DEF HasAny, StackOK
<1>6. Good(todo)' /\ Good(suspended)'
  BY <1>1, <1>2 DEF StackOK
<1>7. suspended' = <<>>
  BY <1>2 DEF StackOK
<1> QED BY <1>3, <1>4, <1>5, <1>6, <1>7 DEF StackOK

(* A call that is replaced by those it makes. *)
LEMMA CallsStack ==
    ASSUME NEW n, NEW c, StackOK, ~HandlerRuns, Calls(n), CallsNow(c), UNCHANGED signal,
           Good(c), \A e \in ToSet(c) : e[1] # "handled" /\ \A f \in Rest : Below(e, f)
    PROVE  /\ Due = {<<n, Argument>>} \cup Rest /\ Due' = ToSet(c) \cup Rest
           /\ StackOK' /\ ~HandlerRuns'
<1>1. /\ ToSet(todo) = {<<n, Argument>>} \cup Rest /\ Good(Tail(todo))
  BY TopOfStack DEF StackOK
<1>2. suspended' = suspended /\ interrupted' = interrupted /\ todo' = c \o Tail(todo)
  BY DEF signal, CallsNow
<1>3. ~HandlerRuns'
  BY <1>2 DEF HandlerRuns
<1>4. Good(c \o Tail(todo)) /\ ToSet(c \o Tail(todo)) = ToSet(c) \cup Rest
  BY <1>1, GoodConcat DEF Rest
<1>5. Due = {<<n, Argument>>} \cup Rest /\ Due' = ToSet(c) \cup Rest
  BY <1>1, <1>2, <1>3, <1>4 DEF Due
<1>6. ~HasAny({"handled"})'
  BY <1>5 DEF HasAny, StackOK
<1>7. Good(todo)' /\ Good(suspended)'
  BY <1>2, <1>4 DEF StackOK
<1>8. suspended' = <<>>
  BY <1>2 DEF StackOK
<1> QED BY <1>3, <1>5, <1>6, <1>7, <1>8 DEF StackOK

(* What a call of main does to the calls that are due: it is replaced by C. *)
Becomes(n, C) ==
    /\ <<n, Argument>> \in AllCalls /\ Due = {<<n, Argument>>} \cup Rest
    /\ \A f \in Rest : Below(<<n, Argument>>, f)
    /\ Due' = C \cup Rest /\ StackOK' /\ ~HandlerRuns'

(* The calls of ClearOrders, Release and an upgrade lock, as sets. *)
ClearSet == {<<"clear", w>> : w \in Workers} \cup {<<"unlock", "none">>}
ReleaseSet(C) == UNION {{<<"stopFlag", c>>, <<"lock", "none">>, <<"erase", c>>} : c \in C}
ExclusiveSet == {<<"upgrade", "none">>, <<"exclusive", "none">>, <<"giveUp", "none">>}

(* A call that returns becomes nothing. *)
LEMMA Returns ==
    ASSUME NEW n, StackOK, ~HandlerRuns, Calls(n), Return, UNCHANGED signal
    PROVE  Becomes(n, {})
BY ReturnStack, TopOfStack DEF Becomes, StackOK

(* A call becomes those it is replaced by. *)
LEMMA CallsOthers ==
    ASSUME NEW n, NEW c, NEW C, StackOK, ~HandlerRuns, Calls(n), CallsNow(c), UNCHANGED signal,
           Good(c), ToSet(c) = C, \A e \in C : e[1] # "handled" /\ \A f \in Rest : Below(e, f)
    PROVE  Becomes(n, C)
BY CallsStack, TopOfStack DEF Becomes, StackOK

(* A call that has nothing to call. *)
LEMMA CallsNothing ==
    ASSUME NEW n, StackOK, ~HandlerRuns, Calls(n), CallsNow(<<>>), UNCHANGED signal
    PROVE  Becomes(n, {})
BY CallsOthers, GoodEmpty

(* The actions that return. *)
LEMMA ReturnSteps ==
    ASSUME StackOK, ~HandlerRuns
    PROVE  /\ DoStopFlag => Becomes("stopFlag", {})
           /\ DoLock => Becomes("lock", {})
           /\ DoAdd => Becomes("add", {})
           /\ DoClear => Becomes("clear", {})
           /\ DoUnlock => Becomes("unlock", {})
           /\ DoStopManager => Becomes("stopManager", {})
           /\ DoJoin => Becomes("join", {})
           /\ DoChannels => Becomes("channels", {})
           /\ DoEnable => Becomes("enable", {})
           /\ DoDisable => Becomes("disable", {})
           /\ DoDelete => Becomes("delete", {})
           /\ DoUpgrade => Becomes("upgrade", {})
           /\ DoExclusive => Becomes("exclusive", {})
           /\ DoGiveUp => Becomes("giveUp", {})
           /\ DoInsert => Becomes("insert", {})
           /\ DoDeleteExperiment => Becomes("deleteExperiment", {})
           /\ DoShared => Becomes("shared", {})
           /\ DoExit => Becomes("exit", {})
           /\ DoActivate => \/ Calls("activate") /\ Becomes("activate", {}) /\ isActive' = TRUE
                            \/ Calls("deactivate") /\ Becomes("deactivate", {}) /\ isActive' = FALSE
           /\ ~DoHandled
<1>1. ASSUME DoStopFlag PROVE Becomes("stopFlag", {})
  BY <1>1, Returns DEF DoStopFlag, signal, locks
<1>2. ASSUME DoLock PROVE Becomes("lock", {})
  BY <1>2, Returns DEF DoLock, signal, locks
<1>3. ASSUME DoAdd PROVE Becomes("add", {})
  BY <1>3, Returns DEF DoAdd, signal, locks
<1>4. ASSUME DoClear PROVE Becomes("clear", {})
  BY <1>4, Returns DEF DoClear, signal, locks
<1>5. ASSUME DoUnlock PROVE Becomes("unlock", {})
  BY <1>5, Returns DEF DoUnlock, signal, locks
<1>6. ASSUME DoStopManager PROVE Becomes("stopManager", {})
  BY <1>6, Returns DEF DoStopManager, signal, locks
<1>7. ASSUME DoJoin PROVE Becomes("join", {})
  BY <1>7, Returns DEF DoJoin, signal, locks
<1>8. ASSUME DoChannels PROVE Becomes("channels", {})
  BY <1>8, Returns DEF DoChannels, signal, locks
<1>9. ASSUME DoEnable PROVE Becomes("enable", {})
  BY <1>9, Returns DEF DoEnable, signal, locks
<1>10. ASSUME DoDisable PROVE Becomes("disable", {})
  BY <1>10, Returns DEF DoDisable, signal, locks
<1>11. ASSUME DoDelete PROVE Becomes("delete", {})
  BY <1>11, Returns DEF DoDelete, signal, locks
<1>12. ASSUME DoUpgrade PROVE Becomes("upgrade", {})
  BY <1>12, Returns DEF DoUpgrade, signal, locks
<1>13. ASSUME DoExclusive PROVE Becomes("exclusive", {})
  BY <1>13, Returns DEF DoExclusive, signal, locks
<1>14. ASSUME DoGiveUp PROVE Becomes("giveUp", {})
  BY <1>14, Returns DEF DoGiveUp, signal, locks
<1>15. ASSUME DoInsert PROVE Becomes("insert", {})
  BY <1>15, Returns DEF DoInsert, signal, locks
<1>16. ASSUME DoDeleteExperiment PROVE Becomes("deleteExperiment", {})
  BY <1>16, Returns DEF DoDeleteExperiment, signal, locks
<1>17. ASSUME DoShared PROVE Becomes("shared", {})
  BY <1>17, Returns DEF DoShared, signal, locks
<1>18. ASSUME DoExit PROVE Becomes("exit", {})
  BY <1>18, Returns DEF DoExit, signal, locks
<1>19. ASSUME DoActivate
       PROVE  \/ Calls("activate") /\ Becomes("activate", {}) /\ isActive' = TRUE
              \/ Calls("deactivate") /\ Becomes("deactivate", {}) /\ isActive' = FALSE
  BY <1>19, Returns DEF DoActivate
<1>20. ASSUME DoHandled PROVE FALSE
  <2>1. Calls("handled")
    BY <1>20 DEF DoHandled
  <2>2. <<"handled", Argument>> \in Due
    BY <2>1, TopOfStack DEF StackOK, Due
  <2> QED BY <2>2 DEF StackOK, HasAny
<1> QED BY <1>1, <1>2, <1>3, <1>4, <1>5, <1>6, <1>7, <1>8, <1>9, <1>10, <1>11, <1>12, <1>13, <1>14,
        <1>15, <1>16, <1>17, <1>18, <1>19, <1>20

(* pushElevationAngle ends its log, whether it throws or not. *)
LEMMA PushElevationAngleStack ==
    ASSUME StackOK, ~HandlerRuns, DoPushElevationAngle
    PROVE  Becomes("pushElevationAngle", {}) /\ Rest = {}
<1>1. Calls("pushElevationAngle") /\ todo # <<>> /\ UNCHANGED signal
  BY DEF DoPushElevationAngle, Calls, signal
<1>2. Rest = {} /\ Good(Tail(todo))
  <2>1. <<"pushElevationAngle", Argument>>[1] = "pushElevationAngle"
    OBVIOUS
  <2> QED BY <1>1, <2>1, TopOfStack DEF StackOK, Below, Takes
<1>3. Tail(todo) = <<>>
  <2>1. Tail(todo) \in Seq(AllCalls)
    BY <1>2 DEF Good
  <2>2. \A i \in 1 .. Len(Tail(todo)) : Tail(todo)[i] \in Rest
    BY <2>1, LenProperties DEF Rest, ToSet
  <2>3. Len(Tail(todo)) \in Nat /\ ~(1 \in 1 .. Len(Tail(todo)))
    BY <1>2, <2>1, <2>2, LenProperties
  <2> QED BY <2>1, <2>3, EmptySeq
<1>4. Return
  BY <1>3 DEF Return, DoPushElevationAngle
<1> QED BY <1>1, <1>2, <1>4, Returns

(* addNewCalculation. *)
LEMMA RegisterStack ==
    ASSUME StackOK, ~HandlerRuns, DoRegister
    PROVE  Becomes("register", IF managerStopped THEN {} ELSE {<<"lock", "none">>, <<"add", Argument>>})
<1>1. Calls("register") /\ UNCHANGED signal
  BY DEF DoRegister, signal
<1>2. CASE managerStopped
  BY <1>1, <1>2, Returns DEF DoRegister
<1>3. CASE ~managerStopped
  <2>1. <<"register", Argument>> \in AllCalls /\ \A f \in Rest : Below(<<"register", Argument>>, f)
    BY <1>1, TopOfStack DEF StackOK
  <2>2. Argument \in Calculations
    BY <2>1, ArgumentTypes DEF CalculationCalls
  <2>3. \A f \in Rest : Below(<<"lock", "none">>, f) /\ Below(<<"add", Argument>>, f)
    BY <2>1 DEF Below, Takes
  <2>4. CallsNow(Step("lock") \o Call("add", Argument))
    BY <1>3 DEF DoRegister
  <2>5. Becomes("register", {<<"lock", "none">>, <<"add", Argument>>})
    <3>1. \A e \in {<<"lock", "none">>, <<"add", Argument>>} :
             e[1] # "handled" /\ \A f \in Rest : Below(e, f)
      BY <2>3
    <3> QED BY <1>1, <2>2, <3>1, <2>4, AddCalls, CallsOthers
  <2> QED BY <1>3, <2>5
<1> QED BY <1>2, <1>3

(* The list of clearOrders as a set; it may be on top of anything. *)
LEMMA ClearList ==
    Good(ClearOrders) /\ ToSet(ClearOrders) = ClearSet
    /\ \A e \in ClearSet : e[1] # "handled" /\ \A f : Below(e, f)
<1>1. ToSet(ClearOrders) = ClearSet
  BY ClearCalls DEF ClearSet
<1>2. ASSUME NEW e \in ClearSet, NEW f PROVE e[1] # "handled" /\ Below(e, f)
  <2>1. e[1] \in {"clear", "unlock"}
    BY DEF ClearSet
  <2> QED BY <2>1 DEF Below, Takes
<1>3. \A e \in ClearSet : e[1] # "handled"
  BY DEF ClearSet
<1> QED BY <1>1, <1>2, <1>3, ClearCalls

(* releaseCalculation, with the lock in its hands. *)
LEMMA EraseStack ==
    ASSUME StackOK, ~HandlerRuns, DoErase
    PROVE  Becomes("erase", IF Contains(registered, Argument) THEN ClearSet ELSE {<<"unlock", "none">>})
<1>1. Calls("erase") /\ UNCHANGED signal
  BY DEF DoErase, signal
<1>2. CASE Contains(registered, Argument)
  <2>1. CallsNow(ClearOrders)
    BY <1>2 DEF DoErase
  <2>2. Becomes("erase", ClearSet)
    BY <1>1, <2>1, ClearList, CallsOthers
  <2> QED BY <1>2, <2>2
<1>3. CASE ~Contains(registered, Argument)
  <2>1. CallsNow(Step("unlock"))
    BY <1>3 DEF DoErase
  <2>2. Good(Step("unlock")) /\ ToSet(Step("unlock")) = {<<"unlock", "none">>}
    BY OneStep DEF PlainCalls
  <2>3. \A f \in Rest : Below(<<"unlock", "none">>, f)
    BY DEF Below, Takes
  <2>4. Becomes("erase", {<<"unlock", "none">>})
    BY <1>1, <2>1, <2>2, <2>3, CallsOthers
  <2> QED BY <1>3, <2>4
<1> QED BY <1>2, <1>3

(* releaseAllCalculation, with the lock in its hands. *)
LEMMA EraseAllStack ==
    ASSUME StackOK, ~HandlerRuns, DoEraseAll
    PROVE  Becomes("eraseAll", ClearSet)
<1>1. Calls("eraseAll") /\ UNCHANGED signal /\ CallsNow(ClearOrders)
  BY DEF DoEraseAll, signal
<1> QED BY <1>1, ClearList, CallsOthers

(* stopThreads() of a satellite, with channels or without. *)
LEMMA StopThreadsStack ==
    ASSUME StackOK, ~HandlerRuns, DoStopThreads
    PROVE  Becomes("stopThreads",
        IF Argument \in channels THEN ReleaseSet(ChannelCalculations(Argument)) ELSE {})
<1>1. Calls("stopThreads") /\ UNCHANGED signal
  BY DEF DoStopThreads, signal
<1>2. CASE Argument \in channels
  <2> DEFINE c == ReleaseChannels(Argument)
             C == ReleaseSet(ChannelCalculations(Argument))
  <2>1. CallsNow(c)
    BY <1>2 DEF DoStopThreads
  <2>2. Argument \in Satellites
    BY <1>1, TopOfStack, ArgumentTypes DEF StackOK, SatelliteCalls
  <2>3. Good(c) /\ \A e : e \in ToSet(c) <=> \E k \in ChannelKinds :
                 e \in {<<"stopFlag", <<Argument, k>>>>, <<"lock", "none">>, <<"erase", <<Argument, k>>>>}
    BY <2>2, StopThreadsCalls
  <2> HIDE DEF c
  <2>4. ToSet(c) = C
    BY <2>3 DEF ReleaseSet, ChannelCalculations
  <2>5. ASSUME NEW e \in C PROVE e[1] # "handled" /\ \A f \in Rest : Below(e, f)
    <3>1. e[1] \in {"stopFlag", "lock", "erase"}
      BY DEF ReleaseSet
    <3> QED BY <3>1 DEF Below, Takes
  <2> HIDE DEF C
  <2>6. Becomes("stopThreads", C)
    BY <1>1, <2>1, <2>3, <2>4, <2>5, CallsOthers
  <2> QED BY <1>2, <2>6 DEF C
<1>3. CASE Argument \notin channels
  <2>1. CallsNow(<<>>)
    BY <1>3 DEF DoStopThreads
  <2> QED BY <1>1, <1>3, <2>1, CallsNothing
<1> QED BY <1>2, <1>3

(* destroyChannels() of a satellite, with channels or without. *)
LEMMA DestroyStack ==
    ASSUME StackOK, ~HandlerRuns, DoDestroy
    PROVE  Becomes("destroy", IF Argument \in channels
                              THEN {<<"stopThreads", Argument>>, <<"close", Argument>>, <<"delete", Argument>>}
                                   \cup ExclusiveSet
                              ELSE {})
<1>1. Calls("destroy") /\ UNCHANGED signal
  BY DEF DoDestroy, signal
<1>2. CASE Argument \in channels
  <2>1. CallsNow(Destroy(Argument))
    BY <1>2 DEF DoDestroy
  <2>2. <<"destroy", Argument>> \in AllCalls /\ \A f \in Rest : Below(<<"destroy", Argument>>, f)
    BY <1>1, TopOfStack DEF StackOK
  <2>3. Argument \in Satellites
    BY <2>2, ArgumentTypes DEF SatelliteCalls
  <2> DEFINE C == {<<"stopThreads", Argument>>, <<"close", Argument>>, <<"delete", Argument>>} \cup ExclusiveSet
  <2>4. Good(Destroy(Argument)) /\ ToSet(Destroy(Argument)) = C
    BY <2>3, DestroyCalls DEF ExclusiveSet
  <2>5. ASSUME NEW e \in C PROVE e[1] # "handled" /\ \A f \in Rest : Below(e, f)
    <3> SUFFICES ASSUME NEW f \in Rest PROVE Below(e, f)
      BY DEF ExclusiveSet
    <3>1. f[1] \in AfterDestroy /\ f # <<"destroy", Argument>>
      BY <2>2 DEF Below, Takes
    <3> QED BY <3>1 DEF Below, Takes, ExclusiveSet, AfterDestroy, AfterClose
  <2> HIDE DEF C
  <2>6. Becomes("destroy", C)
    BY <1>1, <2>1, <2>4, <2>5, CallsOthers
  <2> QED BY <1>2, <2>6 DEF C
<1>3. CASE Argument \notin channels
  <2>1. CallsNow(<<>>)
    BY <1>3 DEF DoDestroy
  <2> QED BY <1>1, <1>3, <2>1, CallsNothing
<1> QED BY <1>2, <1>3

(* addSatellite, while the predictions are active or not. *)
LEMMA AddSatelliteStack ==
    ASSUME StackOK, ~HandlerRuns, DoAddSatellite
    PROVE  Becomes("addSatellite", IF isActive
                                   THEN {<<"register", Experiment(Argument)>>, <<"insert", Argument>>}
                                        \cup ExclusiveSet
                                   ELSE {})
<1>1. Calls("addSatellite") /\ UNCHANGED signal
  BY DEF DoAddSatellite, signal
<1>2. CASE isActive
  <2> DEFINE c == WithExclusiveAccess(Register(Experiment(Argument)) \o Call("insert", Argument))
             C == {<<"register", Experiment(Argument)>>, <<"insert", Argument>>} \cup ExclusiveSet
  <2>1. CallsNow(c)
    BY <1>2 DEF DoAddSatellite
  <2>2. <<"addSatellite", Argument>> \in AllCalls /\ \A f \in Rest : Below(<<"addSatellite", Argument>>, f)
    BY <1>1, TopOfStack DEF StackOK
  <2>3. Argument \in Satellites
    BY <2>2, ArgumentTypes DEF SatelliteCalls
  <2>4. Good(c) /\ ToSet(c) = C
    BY <2>3, AddSatelliteCalls DEF ExclusiveSet
  <2> HIDE DEF c
  <2>5. ASSUME NEW e \in C PROVE e[1] # "handled" /\ \A f \in Rest : Below(e, f)
    <3> SUFFICES ASSUME NEW f \in Rest PROVE Below(e, f)
      BY DEF ExclusiveSet
    <3>1. /\ f[1] \in {"register", "channels", "enable", "disable"}
          /\ f # <<"register", Experiment(Argument)>>
      BY <2>2 DEF Below, Takes
    <3>2. f # <<"add", Experiment(Argument)>>
      BY <3>1
    <3> QED BY <3>1, <3>2 DEF Below, Takes, ExclusiveSet
  <2> HIDE DEF C
  <2>6. Becomes("addSatellite", C)
    BY <1>1, <2>1, <2>4, <2>5, CallsOthers
  <2> QED BY <1>2, <2>6 DEF C
<1>3. CASE ~isActive
  <2>1. CallsNow(<<>>)
    BY <1>3 DEF DoAddSatellite
  <2> QED BY <1>1, <1>3, <2>1, CallsNothing
<1> QED BY <1>2, <1>3

(* closeSatellite, with an experiment or without. *)
LEMMA CloseStack ==
    ASSUME StackOK, ~HandlerRuns, DoClose
    PROVE  Becomes("close", IF Argument \in experiments
                            THEN ReleaseSet({Experiment(Argument)}) \cup {<<"deleteExperiment", Argument>>}
                            ELSE {})
<1>1. Calls("close") /\ UNCHANGED signal
  BY DEF DoClose, signal
<1>2. CASE Argument \in experiments
  <2> DEFINE c == Release(Experiment(Argument)) \o Call("deleteExperiment", Argument)
             C == ReleaseSet({Experiment(Argument)}) \cup {<<"deleteExperiment", Argument>>}
  <2>1. CallsNow(c)
    BY <1>2 DEF DoClose
  <2>2. <<"close", Argument>> \in AllCalls /\ \A f \in Rest : Below(<<"close", Argument>>, f)
    BY <1>1, TopOfStack DEF StackOK
  <2>3. Argument \in Satellites
    BY <2>2, ArgumentTypes DEF SatelliteCalls
  <2>4. Good(c) /\ ToSet(c) = C
    BY <2>3, CloseExperimentCalls DEF ReleaseSet
  <2> HIDE DEF c
  <2>5. ASSUME NEW e \in C PROVE e[1] # "handled" /\ \A f \in Rest : Below(e, f)
    <3>0. e[1] \in {"stopFlag", "lock", "erase", "deleteExperiment"}
      BY DEF ReleaseSet
    <3> SUFFICES ASSUME NEW f \in Rest PROVE Below(e, f)
      BY <3>0
    <3>1. f[1] \in AfterClose
      BY <2>2 DEF Below, Takes
    <3> QED BY <3>0, <3>1 DEF Below, Takes
  <2> HIDE DEF C
  <2>6. Becomes("close", C)
    BY <1>1, <2>1, <2>4, <2>5, CallsOthers
  <2> QED BY <1>2, <2>6 DEF C
<1>3. CASE Argument \notin experiments
  <2>1. CallsNow(<<>>)
    BY <1>3 DEF DoClose
  <2> QED BY <1>1, <1>3, <2>1, CallsNothing
<1> QED BY <1>2, <1>3

(* Main's own stop() finds no experiment left. *)
LEMMA StopExperimentsStack ==
    ASSUME StackOK, ~HandlerRuns, experiments = {}, DoStopExperiments
    PROVE  Becomes("stopExperiments", {<<"giveUp", "none">>})
<1>1. Calls("stopExperiments") /\ UNCHANGED signal /\ CallsNow(CloseAll({}))
  BY DEF DoStopExperiments, signal
<1>2. Good(CloseAll({})) /\ ToSet(CloseAll({})) = {<<"giveUp", "none">>}
  <2>1. {} \in SUBSET Satellites
    OBVIOUS
  <2>2. Good(CloseAll({})) /\ \A e : e \in ToSet(CloseAll({})) <=>
                 \/ e = <<"giveUp", "none">>
                 \/ \E s \in {} : e \in {<<"stopFlag", Experiment(s)>>, <<"lock", "none">>,
                                        <<"erase", Experiment(s)>>, <<"close", s>>,
                                        <<"upgrade", "none">>, <<"exclusive", "none">>}
    BY <2>1, StopExperimentsCalls
  <2> QED BY <2>2
<1>3. \A f \in Rest : Below(<<"giveUp", "none">>, f)
  BY DEF Below, Takes
<1> QED BY <1>1, <1>2, <1>3, CallsOthers

(* Each call of main is made by one action. *)
LEMMA StepNames ==
    /\ DoRegister => Calls("register")
    /\ DoStopFlag => Calls("stopFlag")
    /\ DoLock => Calls("lock")
    /\ DoAdd => Calls("add")
    /\ DoErase => Calls("erase")
    /\ DoEraseAll => Calls("eraseAll")
    /\ DoClear => Calls("clear")
    /\ DoUnlock => Calls("unlock")
    /\ DoStopManager => Calls("stopManager")
    /\ DoJoin => Calls("join")
    /\ DoChannels => Calls("channels")
    /\ DoEnable => Calls("enable")
    /\ DoDisable => Calls("disable")
    /\ DoStopThreads => Calls("stopThreads")
    /\ DoDestroy => Calls("destroy")
    /\ DoDelete => Calls("delete")
    /\ DoAddSatellite => Calls("addSatellite")
    /\ DoUpgrade => Calls("upgrade")
    /\ DoExclusive => Calls("exclusive")
    /\ DoGiveUp => Calls("giveUp")
    /\ DoInsert => Calls("insert")
    /\ DoClose => Calls("close")
    /\ DoDeleteExperiment => Calls("deleteExperiment")
    /\ DoStopExperiments => Calls("stopExperiments")
    /\ DoShared => Calls("shared")
    /\ DoPushElevationAngle => Calls("pushElevationAngle")
    /\ DoHandled => Calls("handled")
    /\ DoExit => Calls("exit")
    /\ DoActivate => Calls("activate") \/ Calls("deactivate")
BY DEF DoRegister, DoStopFlag, DoLock, DoAdd, DoErase, DoEraseAll, DoClear, DoUnlock, DoStopManager,
    DoJoin, DoChannels, DoEnable, DoDisable, DoStopThreads, DoDestroy, DoDelete, DoAddSatellite,
    DoUpgrade, DoExclusive, DoGiveUp, DoInsert, DoClose, DoDeleteExperiment, DoStopExperiments, DoShared,
    DoPushElevationAngle, DoHandled, DoExit, DoActivate

(* What the handler returns from leaves the interrupted calls alone. *)
LEMMA HandlerReturnStack ==
    ASSUME NEW n, StackOK, HandlerRuns, Calls(n), Return, UNCHANGED signal
    PROVE  /\ Due' = Due /\ StackOK' /\ HandlerRuns'
           /\ ToSet(todo) = {<<n, Argument>>} \cup Rest /\ ToSet(todo') = Rest
           /\ \A f \in Rest : Below(<<n, Argument>>, f)
<1>1. /\ ToSet(todo) = {<<n, Argument>>} \cup Rest /\ Good(Tail(todo))
      /\ \A f \in Rest : Below(<<n, Argument>>, f)
  BY TopOfStack DEF StackOK
<1>2. suspended' = suspended /\ interrupted' = interrupted /\ todo' = Tail(todo)
  BY DEF signal, Return
<1>3. HandlerRuns' /\ Due' = Due
  BY <1>2 DEF HandlerRuns, Due
<1>4. ~HasAny({"handled"})'
  BY <1>3 DEF HasAny, StackOK
<1>5. Good(todo)' /\ Good(suspended)'
  BY <1>1, <1>2 DEF StackOK
<1> QED BY <1>1, <1>2, <1>3, <1>4, <1>5 DEF StackOK, Rest

(* What the handler calls leaves the interrupted calls alone. *)
LEMMA HandlerCallsStack ==
    ASSUME NEW n, NEW c, StackOK, HandlerRuns, Calls(n), CallsNow(c), UNCHANGED signal,
           Good(c), \A e \in ToSet(c) : \A f \in Rest : Below(e, f)
    PROVE  /\ Due' = Due /\ StackOK' /\ HandlerRuns'
           /\ ToSet(todo) = {<<n, Argument>>} \cup Rest /\ ToSet(todo') = ToSet(c) \cup Rest
<1>1. /\ ToSet(todo) = {<<n, Argument>>} \cup Rest /\ Good(Tail(todo))
  BY TopOfStack DEF StackOK
<1>2. suspended' = suspended /\ interrupted' = interrupted /\ todo' = c \o Tail(todo)
  BY DEF signal, CallsNow
<1>3. HandlerRuns' /\ Due' = Due
  BY <1>2 DEF HandlerRuns, Due
<1>4. ~HasAny({"handled"})'
  BY <1>3 DEF HasAny, StackOK
<1>5. Good(c \o Tail(todo)) /\ ToSet(c \o Tail(todo)) = ToSet(c) \cup Rest
  BY <1>1, GoodConcat DEF Rest
<1>6. Good(todo)' /\ Good(suspended)'
  BY <1>2, <1>5 DEF StackOK
<1> QED BY <1>1, <1>2, <1>3, <1>4, <1>5, <1>6 DEF StackOK

(* The second half of the handler, after join(). *)
Closing ==
    /\ AllReturned /\ registered = <<>> /\ \A e \in ToSet(todo) : e[1] \in HandlerNames
    /\ <<"handled", "none">> \in ToSet(todo)
    /\ \A s \in Satellites : <<"deleteExperiment", s>> \in ToSet(todo) => s \in experiments

(* What the handler does to the state that main comes back to. *)
HandlerEffect ==
    /\ Due' = Due /\ StackOK' /\ HandlerOK' /\ interrupted' # "no"
    /\ UNCHANGED <<channels, fed, order, running, phase>>
    /\ \/ UNCHANGED <<registered, alive, experiments>>
       \/ /\ registered' = <<>> /\ AllReturned
          /\ \/ UNCHANGED <<alive, experiments>>
             \/ \E s \in experiments : /\ alive' = alive \ {Experiment(s)}
                                       /\ experiments' = experiments \ {s}
    /\ \/ Joined'
       \/ ~Joined /\ UNCHANGED <<registered, alive, experiments, isActive, access>>

(* The calls of signalTerminate, and those that remain when the manager is
   stopped. *)
LEMMA HandlerLists ==
    /\ Good(HandlerCalls) /\ Good(Tail(HandlerCalls))
    /\ ToSet(HandlerCalls) = {<<"stopManager", "none">>, <<"join", "none">>, <<"deactivate", "none">>,
          <<"upgrade", "none">>, <<"exclusive", "none">>, <<"stopExperiments", "none">>, <<"handled", "none">>}
    /\ ToSet(Tail(HandlerCalls)) = {<<"join", "none">>, <<"deactivate", "none">>, <<"upgrade", "none">>,
          <<"exclusive", "none">>, <<"stopExperiments", "none">>, <<"handled", "none">>}
<1>1. ToSet(HandlerCalls) = {<<"stopManager", "none">>} \cup ToSet(Tail(HandlerCalls)) /\
          Good(Tail(HandlerCalls))
  BY HandlerListCalls, GoodTail
<1>2. ToSet(Tail(HandlerCalls)) = {<<"join", "none">>} \cup ToSet(Tail(Tail(HandlerCalls)))
  BY <1>1, HandlerListCalls, GoodTail
<1> QED BY <1>1, <1>2, HandlerListCalls

(* A call of the handler that returns, once the workers are joined. *)
LEMMA ClosingReturn ==
    ASSUME NEW n, StackOK, HandlerRuns, Closing, Calls(n), n # "handled", Return,
           UNCHANGED signal, UNCHANGED running, UNCHANGED registered, UNCHANGED experiments
    PROVE  Closing' /\ Due' = Due /\ StackOK' /\ HandlerRuns'
<1>1. /\ Due' = Due /\ StackOK' /\ HandlerRuns'
      /\ ToSet(todo) = {<<n, Argument>>} \cup Rest /\ ToSet(todo') = Rest
  BY HandlerReturnStack
<1>2. <<"handled", "none">> \in Rest
  <2>1. <<"handled", "none">> # <<n, Argument>>
    OBVIOUS
  <2> QED BY <1>1, <2>1 DEF Closing
<1>3. AllReturned'
  BY DEF Closing, AllReturned
<1> QED BY <1>1, <1>2, <1>3 DEF Closing

(* The handler past join() is a handler in order. *)
LEMMA ClosingMeans ==
    ASSUME HandlerRuns, Closing PROVE HandlerOK /\ Joined
<1>1. \A e \in ToSet(todo) : e # <<"join", "none">>
  BY DEF Closing, HandlerNames
<1>2. interrupted # "handled"
  BY DEF HandlerRuns
<1> QED BY <1>1, <1>2 DEF Closing, HandlerOK, Joined

(* The same, one step later. *)
LEMMA ClosingMeansNext ==
    ASSUME HandlerRuns', Closing' PROVE HandlerOK' /\ Joined'
<1>1. \A e \in ToSet(todo') : e # <<"join", "none">>
  BY DEF Closing, HandlerNames
<1>2. interrupted' # "handled"
  BY DEF HandlerRuns
<1> QED BY <1>1, <1>2 DEF Closing, HandlerOK, Joined

(* What a step of the signal handler may change: the experiments go only when
   every worker has returned, and what main was doing stays. *)
LEMMA HandlerStep ==
    ASSUME StackOK, HandlerOK, WorkersOK, HandlerRuns, experiments \in SUBSET Satellites, MainStep
    PROVE  HandlerEffect
<1> USE DEF objects, manager, locks
<1>1. CASE todo = HandlerCalls
  <2>1. DoStopManager
    <3>1. Head(todo)[1] = "stopManager"
      BY <1>1, HandlerListCalls
    <3> QED BY <3>1, StepNames DEF MainStep, Calls
  <2>2. todo' = Tail(HandlerCalls) /\ Calls("stopManager") /\ Return /\ UNCHANGED signal
        /\ UNCHANGED <<channels, fed, experiments, isActive, alive, registered, order, running, access, phase>>
    BY <1>1, <2>1 DEF DoStopManager, Return
  <2>3. Due' = Due /\ StackOK' /\ HandlerRuns'
    BY <2>2, HandlerReturnStack
  <2>4. HandlerOK'
    <3>1. interrupted' # "handled"
      BY <2>3 DEF HandlerRuns
    <3>2. \A s \in Satellites : <<"deleteExperiment", s>> \notin ToSet(todo')
      BY <2>2, HandlerLists
    <3>3. <<"handled", "none">> \in ToSet(todo')
      BY <2>2, HandlerLists
    <3>4. (todo \in {HandlerCalls, Tail(HandlerCalls)})'
      BY <2>2
    <3> QED BY <3>1, <3>2, <3>3, <3>4 DEF HandlerOK
  <2>5. ~Joined /\ interrupted' # "no"
    BY <1>1, HandlerLists, <2>2, <2>3 DEF Joined, HandlerRuns
  <2> QED BY <2>2, <2>3, <2>4, <2>5 DEF HandlerEffect
<1>2. CASE todo = Tail(HandlerCalls)
  <2>1. DoJoin
    <3>1. Head(todo)[1] = "join"
      BY <1>2, HandlerListCalls
    <3> QED BY <3>1, StepNames DEF MainStep, Calls
  <2>2. todo' = Tail(Tail(HandlerCalls)) /\ Calls("join") /\ Return /\ UNCHANGED signal
        /\ UNCHANGED <<channels, fed, experiments, isActive, alive, order, running, access, phase>>
        /\ registered' = <<>>
    BY <1>2, <2>1 DEF DoJoin, Return
  <2>3. Due' = Due /\ StackOK' /\ HandlerRuns'
    BY <2>2, HandlerReturnStack
  <2>4. AllReturned
    BY <2>1 DEF DoJoin, AllReturned, WorkersOK, Idle
  <2>5. Closing'
    <3>1. AllReturned'
      BY <2>2, <2>4 DEF AllReturned
    <3>2. /\ \A s \in Satellites : <<"deleteExperiment", s>> \notin ToSet(todo')
          /\ <<"handled", "none">> \in ToSet(todo')
          /\ \A e \in ToSet(todo') : e[1] \in HandlerNames
      BY <2>2, HandlerListCalls DEF HandlerNames
    <3> QED BY <2>2, <3>1, <3>2 DEF Closing
  <2>6. HandlerOK' /\ Joined' /\ interrupted' # "no"
    BY <2>3, <2>5, ClosingMeansNext DEF HandlerRuns
  <2> QED BY <2>2, <2>3, <2>4, <2>6 DEF HandlerEffect
<1>3. CASE todo \notin {HandlerCalls, Tail(HandlerCalls)}
  <2>1. Closing /\ Joined
    <3>1. Closing
      BY <1>3 DEF HandlerOK, Closing
    <3> QED BY <3>1, ClosingMeans
  <2>2. \A n : Calls(n) => n \in HandlerNames
    <3>1. SUFFICES ASSUME NEW n, Calls(n) PROVE n \in HandlerNames
      OBVIOUS
    <3>2. <<n, Argument>> \in ToSet(todo)
      BY <3>1, TopOfStack DEF StackOK
    <3> QED BY <3>2, <2>1 DEF Closing
  <2>3. \/ DoActivate \/ DoUpgrade \/ DoExclusive \/ DoStopExperiments \/ DoStopFlag \/ DoLock
        \/ DoErase \/ DoUnlock \/ DoGiveUp \/ DoClose \/ DoDeleteExperiment \/ DoHandled
    BY <2>2, StepNames DEF MainStep, HandlerNames
  <2>4. ASSUME Closing', Due' = Due, StackOK', HandlerRuns',
               UNCHANGED <<channels, fed, order, running, phase, registered, alive, experiments>>
        PROVE  HandlerEffect
    <3>1. HandlerOK' /\ Joined' /\ interrupted' # "no"
      BY <2>4, ClosingMeansNext DEF HandlerRuns
    <3> QED BY <2>4, <3>1 DEF HandlerEffect
  <2>5. CASE DoActivate
    <3>1. \E n \in {"activate", "deactivate"} : Calls(n) /\ Return
      BY <2>5 DEF DoActivate
    <3>2. UNCHANGED <<signal, channels, fed, order, running, phase, registered, alive, experiments>>
      BY <2>5 DEF DoActivate
    <3> QED BY <3>1, <3>2, <2>1, <2>4, ClosingReturn
  <2>6. CASE DoUpgrade
    <3>1. Calls("upgrade") /\ Return
          /\ UNCHANGED <<signal, channels, fed, order, running, phase, registered, alive, experiments>>
      BY <2>6 DEF DoUpgrade, signal
    <3> QED BY <3>1, <2>1, <2>4, ClosingReturn
  <2>7. CASE DoExclusive
    <3>1. Calls("exclusive") /\ Return
          /\ UNCHANGED <<signal, channels, fed, order, running, phase, registered, alive, experiments>>
      BY <2>7 DEF DoExclusive, signal
    <3> QED BY <3>1, <2>1, <2>4, ClosingReturn
  <2>8. CASE DoStopFlag
    <3>1. Calls("stopFlag") /\ Return
          /\ UNCHANGED <<signal, channels, fed, order, running, phase, registered, alive, experiments>>
      BY <2>8 DEF DoStopFlag, signal
    <3> QED BY <3>1, <2>1, <2>4, ClosingReturn
  <2>9. CASE DoLock
    <3>1. Calls("lock") /\ Return
          /\ UNCHANGED <<signal, channels, fed, order, running, phase, registered, alive, experiments>>
      BY <2>9 DEF DoLock, signal
    <3> QED BY <3>1, <2>1, <2>4, ClosingReturn
  <2>10. CASE DoUnlock
    <3>1. Calls("unlock") /\ Return
          /\ UNCHANGED <<signal, channels, fed, order, running, phase, registered, alive, experiments>>
      BY <2>10 DEF DoUnlock, signal
    <3> QED BY <3>1, <2>1, <2>4, ClosingReturn
  <2>11. CASE DoGiveUp
    <3>1. Calls("giveUp") /\ Return
          /\ UNCHANGED <<signal, channels, fed, order, running, phase, registered, alive, experiments>>
      BY <2>11 DEF DoGiveUp, signal
    <3> QED BY <3>1, <2>1, <2>4, ClosingReturn
  <2>12. CASE DoErase
    <3>1. registered = <<>> /\ ~Contains(registered, Argument) /\ registered' = registered
      <4>1. registered = <<>>
        BY <2>1 DEF Closing
      <4>2. ~Contains(registered, Argument)
        BY <4>1, EmptySeq DEF Contains
      <4> QED BY <2>12, <4>1, <4>2, EmptySeq DEF DoErase, RemoveFirst
    <3>2. Calls("erase") /\ CallsNow(Step("unlock"))
          /\ UNCHANGED <<signal, channels, fed, order, running, phase, alive, experiments>>
      BY <2>12, <3>1 DEF DoErase
    <3>3. Good(Step("unlock")) /\ ToSet(Step("unlock")) = {<<"unlock", "none">>}
      BY OneStep DEF PlainCalls
    <3>4. \A f \in Rest : Below(<<"unlock", "none">>, f)
      BY DEF Below, Takes
    <3>5. /\ Due' = Due /\ StackOK' /\ HandlerRuns'
          /\ ToSet(todo) = {<<"erase", Argument>>} \cup Rest
          /\ ToSet(todo') = {<<"unlock", "none">>} \cup Rest
      BY <3>2, <3>3, <3>4, HandlerCallsStack
    <3>6. Closing'
      <4>1. AllReturned'
        BY <2>1, <3>2 DEF Closing, AllReturned
      <4> QED BY <2>1, <3>1, <3>2, <3>5, <4>1 DEF Closing, HandlerNames
    <3> QED BY <3>1, <3>2, <3>5, <3>6, <2>4
  <2>13. CASE DoStopExperiments
    <3>1. Calls("stopExperiments") /\ CallsNow(CloseAll(experiments))
          /\ UNCHANGED <<signal, channels, fed, order, running, phase, alive, experiments, registered>>
      BY <2>13 DEF DoStopExperiments
    <3>2. Good(CloseAll(experiments)) /\ \A e \in ToSet(CloseAll(experiments)) :
             e[1] \in {"giveUp", "stopFlag", "lock", "erase", "close", "upgrade", "exclusive"}
      BY StopExperimentsCalls
    <3>3. \A f \in Rest : f[1] \in AfterStop
      <4>1. \A f \in Rest : Below(<<"stopExperiments", Argument>>, f)
        BY <3>1, TopOfStack DEF StackOK
      <4> QED BY <4>1 DEF Below, Takes
    <3>4. \A e \in ToSet(CloseAll(experiments)), f \in Rest : Below(e, f)
      BY <3>2, <3>3 DEF Below, Takes, AfterStop, AfterClose, AfterDestroy
    <3>5. /\ Due' = Due /\ StackOK' /\ HandlerRuns'
          /\ ToSet(todo) = {<<"stopExperiments", Argument>>} \cup Rest
          /\ ToSet(todo') = ToSet(CloseAll(experiments)) \cup Rest
      BY <3>1, <3>2, <3>4, HandlerCallsStack
    <3>6. Closing'
      <4>1. AllReturned'
        BY <2>1, <3>1 DEF Closing, AllReturned
      <4>2. \A e \in ToSet(todo') : e[1] \in HandlerNames
        BY <2>1, <3>2, <3>5 DEF Closing, HandlerNames
      <4>3. <<"handled", "none">> \in ToSet(todo')
        BY <2>1, <3>5 DEF Closing
      <4>4. ASSUME NEW s \in Satellites, <<"deleteExperiment", s>> \in ToSet(todo') PROVE s \in experiments'
        <5>1. <<"deleteExperiment", s>> \notin ToSet(CloseAll(experiments))
          BY <3>2
        <5> QED BY <4>4, <5>1, <2>1, <3>1, <3>5 DEF Closing
      <4> QED BY <2>1, <3>1, <4>1, <4>2, <4>3, <4>4 DEF Closing
    <3> QED BY <3>1, <3>5, <3>6, <2>4
  <2>14. CASE DoClose
    <3>1. Calls("close") /\ UNCHANGED signal
          /\ UNCHANGED <<channels, fed, order, running, phase, alive, experiments, registered>>
      BY <2>14 DEF DoClose, signal
    <3>2. /\ \A f \in Rest : Below(<<"close", Argument>>, f)
          /\ Argument \in Satellites
      BY <3>1, TopOfStack, ArgumentTypes DEF StackOK, SatelliteCalls
    <3> DEFINE c == IF Argument \in experiments
                    THEN Release(Experiment(Argument)) \o Call("deleteExperiment", Argument) ELSE <<>>
    <3>3. CallsNow(c)
      BY <2>14 DEF DoClose
    <3>4. Good(c) /\ \A e \in ToSet(c) : /\ e[1] \in {"stopFlag", "lock", "erase", "deleteExperiment"}
                                         /\ e[1] = "deleteExperiment" => e[2] \in experiments
      BY <3>2, CloseExperimentCalls, GoodEmpty
    <3> HIDE DEF c
    <3>5. \A e \in ToSet(c), f \in Rest : Below(e, f)
      BY <3>2, <3>4 DEF Below, Takes
    <3>6. /\ Due' = Due /\ StackOK' /\ HandlerRuns'
          /\ ToSet(todo) = {<<"close", Argument>>} \cup Rest
          /\ ToSet(todo') = ToSet(c) \cup Rest
      BY <3>1, <3>3, <3>4, <3>5, HandlerCallsStack
    <3>7. Closing'
      <4>1. AllReturned'
        BY <2>1, <3>1 DEF Closing, AllReturned
      <4>2. \A e \in ToSet(todo') : e[1] \in HandlerNames
        BY <2>1, <3>4, <3>6 DEF Closing, HandlerNames
      <4>3. <<"handled", "none">> \in ToSet(todo')
        BY <2>1, <3>6 DEF Closing
      <4>4. ASSUME NEW s \in Satellites, <<"deleteExperiment", s>> \in ToSet(todo') PROVE s \in experiments'
        <5>1. CASE <<"deleteExperiment", s>> \in ToSet(c)
          BY <5>1, <3>1, <3>4
        <5>2. CASE <<"deleteExperiment", s>> \in Rest
          BY <5>2, <2>1, <3>1, <3>6 DEF Closing
        <5> QED BY <4>4, <3>6, <5>1, <5>2
      <4> QED BY <2>1, <3>1, <4>1, <4>2, <4>3, <4>4 DEF Closing
    <3> QED BY <3>1, <3>6, <3>7, <2>4
  <2>15. CASE DoDeleteExperiment
    <3>1. /\ Calls("deleteExperiment") /\ Return /\ UNCHANGED signal
          /\ UNCHANGED <<channels, fed, order, running, phase, registered>>
          /\ alive' = alive \ {Experiment(Argument)} /\ experiments' = experiments \ {Argument}
      BY <2>15 DEF DoDeleteExperiment, signal
    <3>2. /\ Due' = Due /\ StackOK' /\ HandlerRuns'
          /\ ToSet(todo) = {<<"deleteExperiment", Argument>>} \cup Rest /\ ToSet(todo') = Rest
          /\ \A f \in Rest : Below(<<"deleteExperiment", Argument>>, f)
      BY <3>1, HandlerReturnStack
    <3>3. \A f \in Rest : f[1] # "deleteExperiment"
      BY <3>2 DEF Below, Takes, AfterClose, AfterDestroy
    <3>4. Argument \in experiments
      <4>1. Argument \in Satellites
        BY <3>1, TopOfStack, ArgumentTypes DEF StackOK, SatelliteCalls
      <4> QED BY <4>1, <3>2, <2>1 DEF Closing
    <3>5. Closing'
      <4>1. AllReturned'
        BY <2>1, <3>1 DEF Closing, AllReturned
      <4> QED BY <2>1, <3>1, <3>2, <3>3, <4>1 DEF Closing
    <3>6. HandlerOK' /\ Joined' /\ interrupted' # "no"
      BY <3>2, <3>5, ClosingMeansNext DEF HandlerRuns
    <3>7. registered' = <<>> /\ AllReturned
      BY <2>1, <3>1 DEF Closing
    <3> QED BY <3>1, <3>2, <3>4, <3>6, <3>7 DEF HandlerEffect
  <2>16. CASE DoHandled
    <3>1. /\ todo' = suspended /\ suspended' = <<>> /\ interrupted' = "handled"
          /\ UNCHANGED <<phase, objects, manager, locks>>
      BY <2>16 DEF DoHandled
    <3>2. ~HandlerRuns' /\ Joined'
      BY <3>1 DEF HandlerRuns, Joined
    <3>3. Due' = Due
      BY <3>1, <3>2 DEF Due
    <3>4. StackOK'
      <4>1. ~HasAny({"handled"})'
        BY <3>3 DEF HasAny, StackOK
      <4>2. Good(todo)' /\ Good(suspended)'
        BY <3>1, GoodEmpty DEF StackOK
      <4> QED BY <3>1, <4>1, <4>2 DEF StackOK
    <3>5. HandlerOK'
      <4>1. AllReturned'
        BY <2>1, <3>1 DEF Closing, AllReturned
      <4> QED BY <3>2, <4>1 DEF HandlerOK
    <3>6. UNCHANGED <<channels, fed, order, running, phase, registered, alive, experiments>>
      BY <3>1
    <3>7. interrupted' # "no"
      BY <3>1
    <3> QED BY <3>2, <3>3, <3>4, <3>5, <3>6, <3>7 DEF HandlerEffect
  <2> QED BY <2>3, <2>5, <2>6, <2>7, <2>8, <2>9, <2>10, <2>11, <2>12, <2>13, <2>14, <2>15, <2>16
<1> QED BY <1>1, <1>2, <1>3

(***************************************************************************)
(* Types.                                                                  *)
(***************************************************************************)
(* The tail of a sequence, and its head. *)
LEMMA TailType ==
    ASSUME NEW S, NEW s \in Seq(S), s # <<>>
    PROVE  Tail(s) \in Seq(S) /\ Head(s) \in S /\ ToSet(Tail(s)) \subseteq ToSet(s) /\ Head(s) \in ToSet(s)
<1>1. /\ Tail(s) \in Seq(S) /\ Head(s) \in S /\ Head(s) = s[1] /\ Len(Tail(s)) = Len(s) - 1
      /\ \A i \in 1 .. Len(Tail(s)) : Tail(s)[i] = s[i + 1]
      /\ Len(s) \in Nat \ {0} /\ DOMAIN s = 1 .. Len(s) /\ DOMAIN Tail(s) = 1 .. Len(Tail(s))
  BY HeadTailProperties, LenProperties, EmptySeq
<1>2. Head(s) \in ToSet(s)
  BY <1>1 DEF ToSet
<1>3. ASSUME NEW e \in ToSet(Tail(s)) PROVE e \in ToSet(s)
  <2>1. PICK i \in 1 .. Len(Tail(s)) : Tail(s)[i] = e
    BY <1>1 DEF ToSet
  <2>2. i + 1 \in 1 .. Len(s) /\ s[i + 1] = e
    BY <1>1, <2>1
  <2> QED BY <2>2, <1>1 DEF ToSet
<1> QED BY <1>1, <1>2, <1>3

(* The elements of a sequence; it is empty when there are none. *)
LEMMA SetType ==
    ASSUME NEW S, NEW s \in Seq(S)
    PROVE  ToSet(s) \subseteq S /\ (ToSet(s) = {} => s = <<>>) /\ (s = <<>> => ToSet(s) = {})
<1>1. /\ Len(s) \in Nat /\ DOMAIN s = 1 .. Len(s) /\ ToSet(s) \subseteq S
  BY LenProperties, ElementOfSeq DEF ToSet
<1>2. ASSUME s # <<>> PROVE ToSet(s) # {}
  <2>1. 1 \in 1 .. Len(s)
    BY <1>1, <1>2, EmptySeq
  <2> QED BY <2>1, <1>1 DEF ToSet
<1>3. s = <<>> => ToSet(s) = {}
  BY DEF ToSet
<1> QED BY <1>1, <1>2, <1>3

(* RemoveAt, element by element. *)
LEMMA RemoveAtProperties ==
    ASSUME NEW S, NEW s \in Seq(S), NEW it \in 1 .. Len(s)
    PROVE  /\ RemoveAt(s, it) \in Seq(S)
           /\ Len(RemoveAt(s, it)) = Len(s) - 1
           /\ \A i \in 1 .. Len(s) - 1 :
                RemoveAt(s, it)[i] = IF i < it THEN s[i] ELSE s[i + 1]
<1> DEFINE a == SubSeq(s, 1, it - 1)  b == SubSeq(s, it + 1, Len(s))
<1>0. Len(s) \in Nat /\ \A i \in 1 .. Len(s) : s[i] \in S
  BY ElementOfSeq, LenProperties
<1>1. /\ a \in Seq(S) /\ Len(a) = it - 1
      /\ \A i \in 1 .. it - 1 : a[i] = s[i]
  <2>1. \A i \in 1 .. it - 1 : s[i] \in S
    BY <1>0
  <2>2. QED
    BY <1>0, <2>1, SubSeqProperties
<1>2. /\ b \in Seq(S) /\ Len(b) = Len(s) - it
      /\ \A i \in 1 .. Len(s) - it : b[i] = s[it + i]
  <2>1. \A i \in it + 1 .. Len(s) : s[i] \in S
    BY <1>0
  <2>2. /\ b \in Seq(S)
        /\ Len(b) = IF it + 1 <= Len(s) THEN Len(s) - (it + 1) + 1 ELSE 0
        /\ \A i \in 1 .. Len(s) - (it + 1) + 1 : b[i] = s[it + 1 + i - 1]
    BY <1>0, <2>1, SubSeqProperties
  <2>3. QED
    BY <1>0, <2>2
<1>3. /\ a \o b \in Seq(S) /\ Len(a \o b) = Len(a) + Len(b)
      /\ \A i \in 1 .. Len(a) + Len(b) :
           (a \o b)[i] = IF i <= Len(a) THEN a[i] ELSE b[i - Len(a)]
  BY <1>1, <1>2, ConcatProperties
<1>4. RemoveAt(s, it) = a \o b
  BY DEF RemoveAt
<1> HIDE DEF a, b
<1>5. Len(a) + Len(b) = Len(s) - 1
  BY <1>0, <1>1, <1>2
<1>6. ASSUME NEW i \in 1 .. Len(s) - 1
      PROVE  RemoveAt(s, it)[i] = IF i < it THEN s[i] ELSE s[i + 1]
  <2>1. (a \o b)[i] = IF i <= it - 1 THEN a[i] ELSE b[i - (it - 1)]
    BY <1>1, <1>3, <1>5
  <2>2. CASE i < it
    BY <1>0, <1>1, <1>4, <2>1, <2>2
  <2>3. CASE ~(i < it)
    <3>1. i - (it - 1) \in 1 .. Len(s) - it /\ it + (i - (it - 1)) = i + 1
      BY <1>0, <2>3
    <3>2. b[i - (it - 1)] = s[it + (i - (it - 1))]
      BY <1>2, <3>1
    <3>3. QED
      BY <1>0, <1>4, <2>1, <2>3, <3>1, <3>2
  <2>4. QED
    BY <2>2, <2>3
<1>7. QED
  BY <1>3, <1>4, <1>5, <1>6

(* What is in ToSet of a sequence is at one of its positions. *)
LEMMA ToSetProperties ==
    /\ ToSet(<<>>) = {}
    /\ \A S : \A s \in Seq(S) : \A e : e \in ToSet(s) <=> \E i \in 1 .. Len(s) : s[i] = e
<1>1. ToSet(<<>>) = {}
  BY DEF ToSet
<1>2. ASSUME NEW S, NEW s \in Seq(S), NEW e
      PROVE  e \in ToSet(s) <=> \E i \in 1 .. Len(s) : s[i] = e
  BY LenProperties DEF ToSet
<1>3. QED
  BY <1>1, <1>2

(* erase of an element that occurs once: it is gone and the rest occur once. *)
LEMMA EraseOnce ==
    ASSUME NEW S, NEW s \in Seq(S), NEW it \in 1 .. Len(s),
           \A i, j \in 1 .. Len(s) : s[i] = s[j] => i = j
    PROVE  /\ ToSet(RemoveAt(s, it)) = ToSet(s) \ {s[it]}
           /\ \A i, j \in 1 .. Len(RemoveAt(s, it)) :
                RemoveAt(s, it)[i] = RemoveAt(s, it)[j] => i = j
<1> DEFINE t == RemoveAt(s, it)
<1>1. /\ t \in Seq(S) /\ Len(t) = Len(s) - 1 /\ Len(s) \in Nat
      /\ \A i \in 1 .. Len(s) - 1 : t[i] = IF i < it THEN s[i] ELSE s[i + 1]
  BY RemoveAtProperties, LenProperties
<1> HIDE DEF t
<1>2. ASSUME NEW i \in 1 .. Len(t), NEW j \in 1 .. Len(t), t[i] = t[j] PROVE i = j
  <2> DEFINE orig(k) == IF k < it THEN k ELSE k + 1
  <2>1. /\ orig(i) \in 1 .. Len(s) /\ orig(j) \in 1 .. Len(s)
        /\ t[i] = s[orig(i)] /\ t[j] = s[orig(j)]
    BY <1>1
  <2>2. orig(i) = orig(j)
    BY <1>2, <2>1
  <2>3. QED
    BY <2>2, <1>1
<1>3. ASSUME NEW e PROVE e \in ToSet(t) <=> e \in ToSet(s) /\ e # s[it]
  <2>1. ASSUME e \in ToSet(t) PROVE e \in ToSet(s) /\ e # s[it]
    <3>1. PICK k \in 1 .. Len(t) : t[k] = e
      BY <2>1, <1>1, ToSetProperties
    <3>2. PICK n \in 1 .. Len(s) : n # it /\ s[n] = e
      <4>1. CASE k < it
        BY <4>1, <3>1, <1>1
      <4>2. CASE ~(k < it)
        BY <4>2, <3>1, <1>1
      <4>3. QED
        BY <4>1, <4>2
    <3>3. QED
      BY <3>2, ToSetProperties
  <2>2. ASSUME e \in ToSet(s), e # s[it] PROVE e \in ToSet(t)
    <3>1. PICK n \in 1 .. Len(s) : s[n] = e
      BY <2>2, ToSetProperties
    <3>2. \E k \in 1 .. Len(t) : t[k] = e
      <4>1. CASE n < it
        BY <4>1, <3>1, <1>1
      <4>2. CASE n > it
        <5>1. n - 1 \in 1 .. Len(t) /\ ~(n - 1 < it) /\ (n - 1) + 1 = n
          BY <4>2, <1>1
        <5>2. t[n - 1] = s[n]
          BY <5>1, <1>1
        <5>3. QED
          BY <5>1, <5>2, <3>1
      <4>3. QED
        BY <4>1, <4>2, <3>1, <2>2
    <3>3. QED
      BY <3>2, <1>1, ToSetProperties
  <2>3. QED
    BY <2>1, <2>2
<1>4. QED
  BY <1>2, <1>3 DEF t

(* RemoveFirst of a sequence, with repetitions or without. *)
LEMMA EraseFirst ==
    ASSUME NEW S, NEW s \in Seq(S), NEW c
    PROVE  /\ RemoveFirst(s, c) \in Seq(S)
           /\ ~Contains(s, c) => RemoveFirst(s, c) = s /\ c \notin ToSet(s)
           /\ Contains(s, c) => c \in ToSet(s)
           /\ (\A i, j \in 1 .. Len(s) : s[i] = s[j] => i = j) =>
                 /\ ToSet(RemoveFirst(s, c)) = ToSet(s) \ {c}
                 /\ \A i, j \in 1 .. Len(RemoveFirst(s, c)) :
                        RemoveFirst(s, c)[i] = RemoveFirst(s, c)[j] => i = j
<1>1. Len(s) \in Nat
  BY LenProperties
<1>2. Contains(s, c) <=> c \in ToSet(s)
  BY ToSetProperties DEF Contains
<1>3. CASE Contains(s, c)
  <2>1. \E i \in 1 .. Len(s) : s[i] = c
    BY <1>3 DEF Contains
  <2>2. PICK it \in 1 .. Len(s) : s[it] = c /\ RemoveFirst(s, c) = RemoveAt(s, it)
    BY <1>1, <2>1, RemoveFirstIsRemoveAt
  <2>3. RemoveFirst(s, c) \in Seq(S)
    BY <2>2, RemoveAtProperties
  <2>4. (\A i, j \in 1 .. Len(s) : s[i] = s[j] => i = j) =>
           /\ ToSet(RemoveFirst(s, c)) = ToSet(s) \ {c}
           /\ \A i, j \in 1 .. Len(RemoveFirst(s, c)) :
                  RemoveFirst(s, c)[i] = RemoveFirst(s, c)[j] => i = j
    BY <2>2, EraseOnce
  <2> QED BY <1>2, <1>3, <2>3, <2>4
<1>4. CASE ~Contains(s, c)
  <2>1. RemoveFirst(s, c) = s
    BY <1>4 DEF RemoveFirst, Contains
  <2> QED BY <1>2, <1>4, <2>1
<1> QED BY <1>3, <1>4

(* Every step of main keeps the types. *)
LEMMA MainTypes ==
    ASSUME TypeOK, Good(todo), MainStep
    PROVE  TypeOK'
<1> USE DEF TypeOK, objects, manager, locks, signal
<1>1. ASSUME NEW n, Calls(n)
      PROVE  /\ n \in CalculationCalls => Argument \in Calculations
             /\ n \in SatelliteCalls => Argument \in Satellites
             /\ n = "clear" => Argument \in Workers
  BY <1>1, TopOfStack, ArgumentTypes
<1>2. ASSUME DoRegister PROVE TypeOK'
  <2>1. Argument \in Calculations
    BY <1>2, <1>1 DEF DoRegister, CalculationCalls
  <2> QED BY <1>2, <2>1 DEF DoRegister
<1>3. ASSUME DoStopFlag PROVE TypeOK'
  <2>1. Argument \in Calculations
    BY <1>3, <1>1 DEF DoStopFlag, CalculationCalls
  <2> QED BY <1>3, <2>1 DEF DoStopFlag
<1>4. ASSUME DoLock PROVE TypeOK'
  BY <1>4 DEF DoLock
<1>5. ASSUME DoAdd PROVE TypeOK'
  <2>1. Argument \in Calculations
    BY <1>5, <1>1 DEF DoAdd, CalculationCalls
  <2>2. Append(registered, Argument) \in Seq(Calculations)
    BY <2>1, AppendProperties
  <2> QED BY <1>5, <2>2 DEF DoAdd
<1>6. ASSUME DoErase PROVE TypeOK'
  <2>1. RemoveFirst(registered, Argument) \in Seq(Calculations)
    BY EraseFirst
  <2> QED BY <1>6, <2>1 DEF DoErase
<1>7. ASSUME DoEraseAll PROVE TypeOK'
  BY <1>7 DEF DoEraseAll
<1>8. ASSUME DoClear PROVE TypeOK'
  <2>1. Argument \in Workers /\ CanClear(Argument) /\ order' = [order EXCEPT ![Argument] = <<>>]
        /\ UNCHANGED <<phase, objects, registered, running, managerStopped, locks, signal>>
    BY <1>8, <1>1 DEF DoClear
  <2>2. order' \in [Workers -> Seq(Calculations)]
    BY <2>1, EmptySeq
  <2>3. \A w \in Workers : w # Argument => order'[w] = order[w]
    BY <2>1
  <2> QED BY <2>1, <2>2, <2>3 DEF CanClear
<1>9. ASSUME DoUnlock PROVE TypeOK'
  BY <1>9 DEF DoUnlock
<1>10. ASSUME DoStopManager PROVE TypeOK'
  BY <1>10 DEF DoStopManager
<1>11. ASSUME DoJoin PROVE TypeOK'
  BY <1>11 DEF DoJoin
<1>12. ASSUME DoChannels PROVE TypeOK'
  <2>1. Argument \in Satellites
    BY <1>12, <1>1 DEF DoChannels, SatelliteCalls
  <2> QED BY <1>12, <2>1 DEF DoChannels
<1>13. ASSUME DoEnable PROVE TypeOK'
  <2>1. Argument \in Satellites
    BY <1>13, <1>1 DEF DoEnable, SatelliteCalls
  <2> QED BY <1>13, <2>1 DEF DoEnable
<1>14. ASSUME DoDisable PROVE TypeOK'
  BY <1>14 DEF DoDisable
<1>15. ASSUME DoStopThreads PROVE TypeOK'
  BY <1>15 DEF DoStopThreads
<1>16. ASSUME DoDestroy PROVE TypeOK'
  BY <1>16 DEF DoDestroy
<1>17. ASSUME DoDelete PROVE TypeOK'
  BY <1>17 DEF DoDelete
<1>18. ASSUME DoAddSatellite PROVE TypeOK'
  BY <1>18 DEF DoAddSatellite
<1>19. ASSUME DoUpgrade PROVE TypeOK'
  BY <1>19 DEF DoUpgrade
<1>20. ASSUME DoExclusive PROVE TypeOK'
  BY <1>20 DEF DoExclusive
<1>21. ASSUME DoGiveUp PROVE TypeOK'
  BY <1>21 DEF DoGiveUp
<1>22. ASSUME DoInsert PROVE TypeOK'
  <2>1. Argument \in Satellites
    BY <1>22, <1>1 DEF DoInsert, SatelliteCalls
  <2> QED BY <1>22, <2>1 DEF DoInsert
<1>23. ASSUME DoClose PROVE TypeOK'
  BY <1>23 DEF DoClose
<1>24. ASSUME DoDeleteExperiment PROVE TypeOK'
  BY <1>24 DEF DoDeleteExperiment
<1>25. ASSUME DoActivate PROVE TypeOK'
  BY <1>25 DEF DoActivate
<1>26. ASSUME DoStopExperiments PROVE TypeOK'
  BY <1>26 DEF DoStopExperiments
<1>27. ASSUME DoShared PROVE TypeOK'
  BY <1>27 DEF DoShared
<1>28. ASSUME DoPushElevationAngle PROVE TypeOK'
  BY <1>28 DEF DoPushElevationAngle
<1>29. ASSUME DoHandled PROVE TypeOK'
  BY <1>29 DEF DoHandled
<1>30. ASSUME DoExit PROVE TypeOK'
  BY <1>30 DEF DoExit
<1> QED BY <1>2, <1>3, <1>4, <1>5, <1>6, <1>7, <1>8, <1>9, <1>10, <1>11, <1>12, <1>13, <1>14, <1>15,
        <1>16, <1>17, <1>18, <1>19, <1>20, <1>21, <1>22, <1>23, <1>24, <1>25, <1>26, <1>27, <1>28, <1>29,
        <1>30 DEF MainStep

(* Every step of a worker or the order maker keeps the types. *)
LEMMA WorkerTypes ==
    ASSUME TypeOK, NEW w \in Workers, Fill(w) \/ Worker(w)
    PROVE  TypeOK'
<1> USE DEF TypeOK, objects, locks, signal, WorkerUnchanged, Idle
<1>0. ASSUME running[w][1] \in {"running", "waiting", "pushing"}
      PROVE  running[w][2] \in Calculations /\ order[w] # <<>>
  BY <1>0
<1>1. CASE Fill(w)
  <2>1. order' = [order EXCEPT ![w] = registered] /\ registered # <<>> /\ running[w] = Idle
    BY <1>1 DEF Fill
  <2>2. order' \in [Workers -> Seq(Calculations)] /\ \A v \in Workers : v # w => order'[v] = order[v]
    BY <2>1
  <2> QED BY <1>1, <2>1, <2>2 DEF Fill
<1>2. CASE Enter(w)
  <2>1. order[w] # <<>> /\ order[w] \in Seq(Calculations) /\ running[w] = Idle
    BY <1>2 DEF Enter
  <2>2. Head(order[w]) \in Calculations /\ Tail(order[w]) \in Seq(Calculations)
    BY <2>1, TailType
  <2>3. CASE Head(order[w]) \in stopped
    <3>1. order' = [order EXCEPT ![w] = Tail(order[w])] /\ running' = running
      BY <1>2, <2>3 DEF Enter
    <3>2. order' \in [Workers -> Seq(Calculations)] /\ \A v \in Workers : v # w => order'[v] = order[v]
      BY <3>1, <2>2
    <3> QED BY <1>2, <2>1, <3>1, <3>2 DEF Enter
  <2>4. CASE Head(order[w]) \notin stopped
    <3>1. running' = [running EXCEPT ![w] = <<"running", Head(order[w])>>] /\ order' = order
      BY <1>2, <2>4 DEF Enter
    <3> QED BY <1>2, <2>1, <2>2, <3>1 DEF Enter
  <2> QED BY <2>3, <2>4
<1>3. CASE Push(w)
  <2>1. running' = [running EXCEPT ![w] = <<"waiting", running[w][2]>>]
    BY <1>3 DEF Push, Goto
  <2>2. running[w][2] \in Calculations /\ order[w] # <<>>
    BY <1>0, <1>3 DEF Push
  <2> QED BY <1>3, <2>1, <2>2 DEF Push
<1>4. CASE Share(w)
  <2>1. running' = [running EXCEPT ![w] = <<"pushing", running[w][2]>>]
    BY <1>4 DEF Share, Goto
  <2>2. running[w][2] \in Calculations /\ order[w] # <<>>
    BY <1>0, <1>4 DEF Share
  <2> QED BY <1>4, <2>1, <2>2 DEF Share
<1>5. CASE Pushed(w)
  <2>1. running[w][2] \in Calculations /\ order[w] # <<>>
    BY <1>0, <1>5 DEF Pushed
  <2>2. CASE phase' = "terminated" /\ running' = running
    BY <1>5, <2>2 DEF Pushed
  <2>3. CASE running' = [running EXCEPT ![w] = <<"running", running[w][2]>>] /\ phase' = phase
    BY <1>5, <2>1, <2>3 DEF Pushed
  <2> QED BY <1>5, <2>2, <2>3 DEF Pushed, Goto
<1>6. CASE Leave(w)
  <2>1. order[w] # <<>> /\ order[w] \in Seq(Calculations)
    BY <1>6 DEF Leave
  <2>2. Tail(order[w]) \in Seq(Calculations)
    BY <2>1, TailType
  <2> QED BY <1>6, <2>2 DEF Leave
<1>7. CASE ReturnWorker(w)
  BY <1>7, EmptySeq DEF ReturnWorker
<1> QED BY <1>1, <1>2, <1>3, <1>4, <1>5, <1>6, <1>7 DEF Worker

(* The inductive invariant. *)
IInv ==
    /\ TypeOK /\ StackOK /\ HandlerOK /\ WorkersOK /\ RegistryOK /\ OwnersOK
    /\ CreatingOK /\ DestroyingOK /\ ReadyOK /\ LocksOK /\ PhaseOK

(* A step of main, with no signal handler on top of it. *)
BaseStep == IInv /\ ~HandlerRuns /\ MainStep

(* The calls named in N that were due still are; those named in W that are due
   now already were. *)
Keeps(N, W) ==
    /\ \A e \in Due : e[1] \in N => e \in Due'
    /\ \A e \in Due' : e[1] \in W => e \in Due

(* A call that becomes others keeps the calls of other names and makes no
   others due. *)
LEMMA BecomesKeeps ==
    ASSUME NEW n, NEW C, NEW N, NEW W, Becomes(n, C), n \notin N, \A e \in C : e[1] \notin W
    PROVE  Keeps(N, W)
BY DEF Becomes, Keeps

(* What is due stays due. *)
LEMMA SameKeeps ==
    ASSUME NEW N, NEW W, Due' = Due
    PROVE  Keeps(N, W)
BY DEF Keeps

(* Whoever destroys creates nothing. *)
LEMMA NoCreation ==
    ASSUME NEW n, NEW C, CreatingOK, Becomes(n, C), n \in DestroyNames
    PROVE  /\ \A e \in Due : e[1] \notin CreateNames
           /\ (\A e \in C : e[1] \notin CreateNames) => \A e \in Due' : e[1] \notin CreateNames
<1>1. HasAny(DestroyNames)
  <2>1. <<n, Argument>> \in Due /\ <<n, Argument>>[1] = n
    BY DEF Becomes
  <2> QED BY <2>1 DEF HasAny
<1>2. \A e \in Due : e[1] \notin CreateNames
  BY <1>1 DEF CreatingOK, HasAny
<1> QED BY <1>2 DEF Becomes

(* Where a satellite is deleted its experiment is gone, nothing that was
   registered for it is left, and no order names its channels. *)
LEMMA DeleteFacts ==
    ASSUME IInv, ~HandlerRuns, Becomes("delete", {})
    PROVE  /\ Argument \in Satellites /\ Argument \in channels /\ Argument \notin experiments
           /\ \A f \in Rest : f[1] \in AfterDestroy
           /\ \A k \in ChannelKinds :
                 /\ <<Argument, k>> \in Calculations /\ <<Argument, k>> \notin Registered
                 /\ \A w \in Workers : <<Argument, k>> \notin ToSet(order[w])
           /\ Experiment(Argument) \notin alive
<1> USE DEF IInv
<1>1. Argument \in Satellites
  BY ArgumentTypes DEF Becomes, SatelliteCalls
<1>2. \A f \in Rest : f[1] \in AfterDestroy
  BY DEF Becomes, Below
<1>3. \A e \in Due : e[1] \in AfterDestroy \cup {"delete"}
  BY <1>2 DEF Becomes
<1>4. Has("delete", Argument)
  BY DEF Becomes, Has
<1>5. /\ ~Has("close", Argument) /\ ~Has("deleteExperiment", Argument) /\ ~Has("stopThreads", Argument)
      /\ \A c : ~Has("erase", c)
      /\ \A w : ~Has("clear", w)
      /\ \A s : ~Has("insert", s)
  BY <1>3 DEF Has, AfterDestroy
<1>6. Argument \in channels /\ Argument \notin experiments
  BY <1>1, <1>4, <1>5 DEF DestroyingOK
<1>7. ASSUME NEW k \in ChannelKinds
      PROVE  /\ <<Argument, k>> \in Calculations /\ <<Argument, k>> \notin Registered
             /\ \A w \in Workers : <<Argument, k>> \notin ToSet(order[w])
  <2>1. <<Argument, k>> \notin Registered
    BY <1>1, <1>4, <1>5, <1>7 DEF DestroyingOK
  <2>2. <<Argument, k>> \in Calculations
    BY <1>1, <1>7, ChannelTypes
  <2> QED BY <2>1, <2>2, <1>5 DEF RegistryOK
<1>8. Experiment(Argument) \notin alive
  BY <1>1, <1>5, <1>6 DEF OwnersOK
<1> QED BY <1>1, <1>2, <1>6, <1>7, <1>8

(***************************************************************************)
(* The workers and the handler.                                            *)
(***************************************************************************)
(* The workers when neither they nor their orders move. *)
LEMMA WorkersKept ==
    ASSUME WorkersOK, UNCHANGED order, UNCHANGED running, fed \subseteq fed'
    PROVE  WorkersOK'
BY DEF WorkersOK

(* The workers when main moves: an order is cleared only when its worker is
   idle, data is deleted only when no worker calculates from it. *)
LEMMA WorkersBase ==
    ASSUME BaseStep
    PROVE  WorkersOK'
<1> USE DEF BaseStep, IInv
<1>1. CASE DoClear
  <2>1. Argument \in Workers
    BY <1>1, ReturnSteps, ArgumentTypes DEF Becomes
  <2>2. /\ order' = [order EXCEPT ![Argument] = <<>>] /\ CanClear(Argument)
        /\ UNCHANGED running /\ UNCHANGED fed
    BY <1>1 DEF DoClear, objects
  <2>3. running[Argument][1] \notin {"running", "waiting", "pushing"}
    BY <2>2 DEF CanClear
  <2>4. \A w \in Workers : w # Argument => order'[w] = order[w]
    BY <2>2 DEF TypeOK
  <2>5. order'[Argument] = <<>>
    BY <2>1, <2>2 DEF TypeOK
  <2> QED BY <2>1, <2>2, <2>3, <2>4, <2>5 DEF WorkersOK
<1>2. CASE DoDelete
  <2>1. /\ UNCHANGED running /\ UNCHANGED order /\ fed' = fed \ {Argument}
    BY <1>2 DEF DoDelete, manager
  <2>2. Becomes("delete", {})
    BY <1>2, ReturnSteps
  <2>3. ASSUME NEW w \in Workers, running[w][1] \in {"waiting", "pushing"}
        PROVE  running[w][2][1] # Argument
    <3>1. order[w] # <<>> /\ running[w][2] = Head(order[w]) /\ running[w][2][2] \in ChannelKinds
      BY <2>3 DEF WorkersOK, Idle
    <3>2. running[w][2] \in ToSet(order[w]) /\ running[w][2] \in Calculations
      BY <3>1, TailType DEF TypeOK
    <3>3. running[w][2] = <<running[w][2][1], running[w][2][2]>>
      BY <3>2 DEF Calculations
    <3> QED BY <3>1, <3>2, <3>3, <2>2, DeleteFacts
  <2> QED BY <2>1, <2>3 DEF WorkersOK
<1>3. CASE ~DoClear /\ ~DoDelete
  <2>1. UNCHANGED order /\ UNCHANGED running /\ UNCHANGED fed
    BY <1>3 DEF MainStep, objects, manager, DoRegister, DoStopFlag, DoLock, DoAdd, DoErase, DoEraseAll,
       DoUnlock, DoStopManager, DoJoin, DoChannels, DoEnable, DoDisable, DoStopThreads, DoDestroy,
       DoAddSatellite, DoUpgrade, DoExclusive, DoGiveUp, DoInsert, DoClose, DoDeleteExperiment,
       DoActivate, DoStopExperiments, DoShared, DoPushElevationAngle, DoHandled, DoExit
  <2> QED BY <2>1, WorkersKept
<1> QED BY <1>1, <1>2, <1>3

(* The workers when one of them, or the order maker, moves. *)
LEMMA WorkersThread ==
    ASSUME IInv, NEW w \in Workers, Fill(w) \/ Worker(w)
    PROVE  WorkersOK'
<1> USE DEF IInv, TypeOK, WorkerUnchanged, objects
<1>1. CASE Fill(w)
  <2>1. /\ order' = [order EXCEPT ![w] = registered] /\ running[w] = Idle /\ UNCHANGED running /\ UNCHANGED fed
    BY <1>1 DEF Fill
  <2>2. \A v \in Workers : v # w => order'[v] = order[v]
    BY <2>1
  <2> QED BY <2>1, <2>2 DEF WorkersOK, Idle
<1>2. CASE Enter(w)
  <2>1. order[w] # <<>> /\ running[w] = Idle /\ UNCHANGED fed
    BY <1>2 DEF Enter
  <2>2. CASE order' = [order EXCEPT ![w] = Tail(order[w])] /\ running' = running
    <3>1. \A v \in Workers : v # w => order'[v] = order[v]
      BY <2>2
    <3> QED BY <2>1, <2>2, <3>1 DEF WorkersOK, Idle
  <2>3. CASE running' = [running EXCEPT ![w] = <<"running", Head(order[w])>>] /\ order' = order
    <3>1. running'[w] = <<"running", Head(order[w])>> /\ \A v \in Workers : v # w => running'[v] = running[v]
      BY <2>3
    <3> QED BY <2>1, <2>3, <3>1 DEF WorkersOK, Idle
  <2> QED BY <1>2, <2>2, <2>3 DEF Enter
<1>3. CASE Push(w)
  <2>1. running' = [running EXCEPT ![w] = <<"waiting", running[w][2]>>] /\ UNCHANGED order /\ UNCHANGED fed
    BY <1>3 DEF Push, Goto
  <2>2. running'[w] = <<"waiting", running[w][2]>> /\ \A v \in Workers : v # w => running'[v] = running[v]
    BY <2>1
  <2>3. running[w][1] = "running" /\ running[w][2][2] \in ChannelKinds /\ running[w][2][1] \in fed
    BY <1>3 DEF Push, HasValue
  <2>4. order[w] # <<>> /\ running[w][2] = Head(order[w])
    BY <2>3 DEF WorkersOK, Idle
  <2> QED BY <2>1, <2>2, <2>3, <2>4 DEF WorkersOK, Idle
<1>4. CASE Share(w)
  <2>1. running' = [running EXCEPT ![w] = <<"pushing", running[w][2]>>] /\ UNCHANGED order /\ UNCHANGED fed
    BY <1>4 DEF Share, Goto
  <2>2. running'[w] = <<"pushing", running[w][2]>> /\ \A v \in Workers : v # w => running'[v] = running[v]
    BY <2>1
  <2>3. running[w][1] = "waiting"
    BY <1>4 DEF Share
  <2>4. /\ order[w] # <<>> /\ running[w][2] = Head(order[w])
        /\ running[w][2][2] \in ChannelKinds /\ running[w][2][1] \in fed
    BY <2>3 DEF WorkersOK, Idle
  <2> QED BY <2>1, <2>2, <2>4 DEF WorkersOK, Idle
<1>5. CASE Pushed(w)
  <2>1. CASE UNCHANGED running
    BY <1>5, <2>1 DEF Pushed, WorkersOK
  <2>2. CASE running' = [running EXCEPT ![w] = <<"running", running[w][2]>>]
    <3>1. running'[w] = <<"running", running[w][2]>> /\ \A v \in Workers : v # w => running'[v] = running[v]
      BY <2>2
    <3>2. order[w] # <<>> /\ running[w][2] = Head(order[w]) /\ UNCHANGED order /\ UNCHANGED fed
      BY <1>5 DEF Pushed, WorkersOK, Idle
    <3> QED BY <3>1, <3>2 DEF WorkersOK, Idle
  <2> QED BY <1>5, <2>1, <2>2 DEF Pushed, Goto
<1>6. CASE Leave(w)
  <2>1. /\ running' = [running EXCEPT ![w] = Idle] /\ order' = [order EXCEPT ![w] = Tail(order[w])]
        /\ UNCHANGED fed
    BY <1>6 DEF Leave
  <2>2. /\ running'[w] = Idle
        /\ \A v \in Workers : v # w => running'[v] = running[v] /\ order'[v] = order[v]
    BY <2>1
  <2> QED BY <2>1, <2>2 DEF WorkersOK, Idle
<1>7. CASE ReturnWorker(w)
  <2>1. /\ running' = [running EXCEPT ![w] = <<"returned", "none">>] /\ order' = [order EXCEPT ![w] = <<>>]
        /\ UNCHANGED fed
    BY <1>7 DEF ReturnWorker
  <2>2. /\ running'[w] = <<"returned", "none">> /\ order'[w] = <<>>
        /\ \A v \in Workers : v # w => running'[v] = running[v] /\ order'[v] = order[v]
    BY <2>1
  <2> QED BY <2>1, <2>2 DEF WorkersOK, Idle
<1> QED BY <1>1, <1>2, <1>3, <1>4, <1>5, <1>6, <1>7 DEF Worker

(* Orders shrink, or are filled with the registry. *)
LEMMA OrderStep ==
    ASSUME IInv, NEW w \in Workers, Fill(w) \/ Worker(w)
    PROVE  /\ \A v \in Workers : \/ ToSet(order'[v]) \subseteq ToSet(order[v])
                                 \/ Fill(w) /\ ToSet(order'[v]) = Registered
           /\ Fill(w) => registered # <<>>
<1> USE DEF IInv, TypeOK
<1>1. CASE order' = [order EXCEPT ![w] = Tail(order[w])] /\ order[w] # <<>>
  <2>1. ToSet(order'[w]) \subseteq ToSet(order[w])
    <3>1. order[w] \in Seq(Calculations) /\ order'[w] = Tail(order[w])
      BY <1>1
    <3> QED BY <3>1, <1>1, TailType
  <2>2. \A v \in Workers : v # w => order'[v] = order[v]
    BY <1>1
  <2>3. ~Fill(w)
    BY <1>1 DEF Fill
  <2> QED BY <2>1, <2>2, <2>3
<1>2. CASE UNCHANGED order
  BY <1>2 DEF Fill
<1>3. CASE Fill(w)
  <2>1. order' = [order EXCEPT ![w] = registered] /\ registered # <<>>
    BY <1>3 DEF Fill
  <2>2. order'[w] = registered /\ \A v \in Workers : v # w => order'[v] = order[v]
    BY <2>1
  <2> QED BY <1>3, <2>1, <2>2 DEF Registered
<1>4. CASE order' = [order EXCEPT ![w] = <<>>] /\ ~Fill(w)
  <2>1. order'[w] = <<>> /\ \A v \in Workers : v # w => order'[v] = order[v]
    BY <1>4
  <2> QED BY <1>4, <2>1, ToSetProperties
<1>5. CASE Leave(w)
  <2>1. order[w] # <<>>
    BY <1>5 DEF Leave
  <2> QED BY <1>1, <1>5, <2>1 DEF Leave
<1>6. ~Fill(w) \/ ~ReturnWorker(w)
  BY DEF Fill, ReturnWorker
<1>7. CASE ReturnWorker(w)
  BY <1>4, <1>6, <1>7 DEF ReturnWorker
<1>8. CASE Enter(w)
  BY <1>1, <1>2, <1>8 DEF Enter
<1>9. CASE Push(w) \/ Share(w) \/ Pushed(w)
  BY <1>2, <1>9 DEF Push, Share, Pushed
<1> QED BY <1>3, <1>5, <1>7, <1>8, <1>9 DEF Worker

(* The handler when a worker moves. *)
LEMMA HandlerThread ==
    ASSUME IInv, NEW w \in Workers, Fill(w) \/ Worker(w)
    PROVE  HandlerOK' /\ ~AllReturned /\ UNCHANGED todo /\ UNCHANGED signal
<1>1. running[w] # <<"returned", "none">>
  BY DEF Fill, Worker, Enter, Push, Share, Pushed, Leave, ReturnWorker, Idle
<1>2. ~AllReturned
  BY <1>1 DEF AllReturned
<1>3. UNCHANGED todo /\ UNCHANGED signal /\ UNCHANGED experiments
  BY DEF Fill, Worker, Enter, Push, Share, Pushed, Leave, ReturnWorker, WorkerUnchanged, objects
<1>4. UNCHANGED interrupted
  BY <1>3 DEF signal
<1>5. HandlerOK'
  <2>1. HandlerRuns' = HandlerRuns
    BY <1>4 DEF HandlerRuns
  <2> QED BY <1>2, <1>3, <1>4, <2>1 DEF HandlerOK, IInv
<1> QED BY <1>2, <1>3, <1>5

(* The handler when main moves: there is none. *)
LEMMA HandlerBase ==
    ASSUME BaseStep
    PROVE  HandlerOK' /\ UNCHANGED signal /\ Joined' = Joined
<1> USE DEF BaseStep, IInv
<1>1. ~DoHandled
  BY ReturnSteps
<1>2. UNCHANGED running /\ UNCHANGED signal
  BY <1>1 DEF MainStep, manager, signal, DoRegister, DoStopFlag, DoLock, DoAdd, DoErase, DoEraseAll, DoClear,
     DoUnlock, DoStopManager, DoJoin, DoChannels, DoEnable, DoDisable, DoStopThreads, DoDestroy, DoDelete,
     DoAddSatellite, DoUpgrade, DoExclusive, DoGiveUp, DoInsert, DoClose, DoDeleteExperiment,
     DoActivate, DoStopExperiments, DoShared, DoPushElevationAngle, DoExit
<1>3. interrupted' = interrupted /\ ~HandlerRuns'
  BY <1>2 DEF signal, HandlerRuns
<1>4. HandlerOK'
  BY <1>2, <1>3 DEF HandlerOK, AllReturned
<1> QED BY <1>2, <1>3, <1>4 DEF Joined

(***************************************************************************)
(* The steps between two logs.                                             *)
(***************************************************************************)
(* Nothing was due and now C is. *)
Starts(C) ==
    /\ Due = {} /\ Due' = C /\ StackOK' /\ HandlerOK' /\ ~HandlerRuns /\ ~HandlerRuns'
    /\ UNCHANGED interrupted /\ UNCHANGED running /\ Joined' = Joined

(* The calls of a satellite that rises or sets, and of the group's
   destruction. *)
CreateSet(s) ==
    {<<"register", <<s, k>>>> : k \in ChannelKinds} \cup {<<"channels", s>>, <<"addSatellite", s>>}
DestroySet(s) == {<<"stopThreads", s>>, <<"close", s>>, <<"delete", s>>} \cup ExclusiveSet
TearDownSet ==
    {<<"stopThreads", s>> : s \in Satellites} \cup {<<"destroy", s>> : s \in Satellites}
    \cup {<<"deactivate", "none">>, <<"upgrade", "none">>, <<"exclusive", "none">>,
          <<"stopExperiments", "none">>}

(* A log whose calls are in order starts with nothing due. *)
LEMMA LogStarts ==
    ASSUME IInv, todo = <<>>, Good(todo'), UNCHANGED <<signal, running, registered>>,
           \A e \in ToSet(todo') : e[1] # "handled"
    PROVE  Starts(ToSet(todo'))
<1> USE DEF IInv
<1>1. UNCHANGED interrupted /\ UNCHANGED suspended
  BY DEF signal
<1>2. ToSet(todo) = {}
  BY SetType DEF StackOK, Good
<1>3. ~HandlerRuns
  BY <1>2 DEF HandlerOK
<1>4. ~HandlerRuns' /\ Joined' = Joined
  BY <1>1, <1>3 DEF HandlerRuns, Joined
<1>5. Due = {} /\ Due' = ToSet(todo')
  BY <1>2, <1>3, <1>4 DEF Due
<1>6. StackOK'
  <2>1. ~HasAny({"handled"})'
    BY <1>5 DEF HasAny
  <2>2. suspended' = <<>> /\ Good(suspended)'
    BY <1>1, <1>3, GoodEmpty DEF StackOK
  <2> QED BY <2>1, <2>2 DEF StackOK
<1>7. HandlerOK'
  BY <1>1, <1>3, <1>4 DEF HandlerOK, AllReturned
<1> QED BY <1>1, <1>3, <1>4, <1>5, <1>6, <1>7 DEF Starts

(* What is due after a SATVIS log. *)
LEMMA SatVisStarts ==
    ASSUME IInv, NEW s \in Satellites, SatVis(s)
    PROVE  \E n \in {"enable", "disable"} :
              \/ s \notin channels /\ Starts(CreateSet(s) \cup {<<n, s>>})
              \/ s \in channels /\ Starts(DestroySet(s) \cup {<<n, s>>})
              \/ Starts({<<n, s>>})
<1>1. /\ todo = <<>> /\ UNCHANGED <<signal, running, registered>>
      /\ \E n \in {"enable", "disable"} :
            \/ s \notin channels /\ todo' = Create(s) \o Call(n, s)
            \/ s \in channels /\ todo' = Destroy(s) \o Call(n, s)
            \/ todo' = <<>> \o Call(n, s)
  BY DEF SatVis, manager
<1>2. PICK n \in {"enable", "disable"} :
            \/ s \notin channels /\ todo' = Create(s) \o Call(n, s)
            \/ s \in channels /\ todo' = Destroy(s) \o Call(n, s)
            \/ todo' = <<>> \o Call(n, s)
  BY <1>1
<1>3. CASE s \notin channels /\ todo' = Create(s) \o Call(n, s)
  <2>1. Good(todo') /\ ToSet(todo') = ToSet(Create(s)) \cup {<<n, s>>}
    BY <1>3, SatVisCalls
  <2>2. ToSet(Create(s)) = CreateSet(s)
    BY CreateCalls DEF CreateSet
  <2>3. \A e \in CreateSet(s) \cup {<<n, s>>} : e[1] # "handled"
    BY DEF CreateSet
  <2> QED BY <1>1, <1>3, <2>1, <2>2, <2>3, LogStarts
<1>4. CASE s \in channels /\ todo' = Destroy(s) \o Call(n, s)
  <2>1. Good(todo') /\ ToSet(todo') = ToSet(Destroy(s)) \cup {<<n, s>>}
    BY <1>4, SatVisCalls
  <2>2. ToSet(Destroy(s)) = DestroySet(s)
    BY DestroyCalls DEF DestroySet, ExclusiveSet
  <2>3. \A e \in DestroySet(s) \cup {<<n, s>>} : e[1] # "handled"
    BY DEF DestroySet, ExclusiveSet
  <2> QED BY <1>1, <1>4, <2>1, <2>2, <2>3, LogStarts
<1>5. CASE todo' = <<>> \o Call(n, s)
  <2>1. Good(todo') /\ ToSet(todo') = {<<n, s>>}
    BY <1>5, SatVisCalls
  <2>2. \A e \in {<<n, s>>} : e[1] # "handled"
    OBVIOUS
  <2> QED BY <1>1, <2>1, <2>2, LogStarts
<1> QED BY <1>2, <1>3, <1>4, <1>5

(* What is due after the other logs, a gap and the end of the input. *)
LEMMA LogStacks ==
    ASSUME IInv
    PROVE  /\ \A s \in Satellites : Feed(s) => Starts({})
           /\ \A s \in Satellites :
                 Elevation(s) => Starts({<<"shared", "none">>, <<"pushElevationAngle", s>>})
           /\ Gap => Starts(TearDownSet \cup {<<"lock", "none">>, <<"eraseAll", "none">>, <<"activate",
                  "none">>})
           /\ EndOfInput =>
                 Starts(TearDownSet \cup {<<"stopManager", "none">>, <<"join", "none">>, <<"exit", "none">>})
<1>1. ASSUME NEW s \in Satellites, Feed(s) PROVE Starts({})
  <2>1. todo = <<>> /\ todo' = <<>> /\ UNCHANGED <<signal, running, registered>>
    BY <1>1 DEF Feed, manager
  <2>2. Good(todo') /\ ToSet(todo') = {}
    BY <2>1, GoodEmpty
  <2> QED BY <2>1, <2>2, LogStarts
<1>2. ASSUME NEW s \in Satellites, Elevation(s)
      PROVE  Starts({<<"shared", "none">>, <<"pushElevationAngle", s>>})
  <2> DEFINE c == Step("shared") \o Call("pushElevationAngle", s)
             C == {<<"shared", "none">>, <<"pushElevationAngle", s>>}
  <2>1. todo = <<>> /\ todo' = c /\ UNCHANGED <<signal, running, registered>>
    BY <1>2 DEF Elevation, manager
  <2>2. Good(c) /\ ToSet(c) = C /\ \A e \in C : e[1] # "handled"
    BY ElevationCalls
  <2> HIDE DEF c, C
  <2>3. Starts(C)
    BY <2>1, <2>2, LogStarts
  <2> QED BY <2>3 DEF C
<1>3. ASSUME Gap
      PROVE  Starts(TearDownSet \cup {<<"lock", "none">>, <<"eraseAll", "none">>, <<"activate", "none">>})
  <2> DEFINE c == ReleaseAll \o DestroyGroup \o StopPredictions \o Step("activate")
             C == TearDownSet \cup {<<"lock", "none">>, <<"eraseAll", "none">>, <<"activate", "none">>}
  <2>1. todo = <<>> /\ todo' = c /\ UNCHANGED <<signal, running, registered>>
    BY <1>3 DEF Gap, manager
  <2>2. Good(c) /\ ToSet(c) = C
    BY GapCalls DEF TearDownSet
  <2>3. \A e \in C : e[1] # "handled"
    BY DEF TearDownSet
  <2> HIDE DEF c, C
  <2>4. Starts(C)
    BY <2>1, <2>2, <2>3, LogStarts
  <2> QED BY <2>4 DEF C
<1>4. ASSUME EndOfInput
      PROVE  Starts(TearDownSet \cup {<<"stopManager", "none">>, <<"join", "none">>, <<"exit", "none">>})
  <2> DEFINE c == DestroyGroup \o StopPredictions \o StopManager \o Step("exit")
             C == TearDownSet \cup {<<"stopManager", "none">>, <<"join", "none">>, <<"exit", "none">>}
  <2>1. todo = <<>> /\ todo' = c /\ UNCHANGED <<signal, running, registered>>
    BY <1>4 DEF EndOfInput, manager
  <2>2. Good(c) /\ ToSet(c) = C
    BY EndCalls DEF TearDownSet
  <2>3. \A e \in C : e[1] # "handled"
    BY DEF TearDownSet
  <2> HIDE DEF c, C
  <2>4. Starts(C)
    BY <2>1, <2>2, <2>3, LogStarts
  <2> QED BY <2>4 DEF C
<1> QED BY <1>1, <1>2, <1>3, <1>4

(* A log makes due what it calls. *)
LEMMA StartsKeeps ==
    ASSUME NEW C, NEW N, NEW W, Starts(C), \A e \in C : e[1] \notin W
    PROVE  Keeps(N, W)
BY DEF Starts, Keeps

(* A signal interrupts what was due and leaves it due. *)
LEMMA SignalStack ==
    ASSUME IInv, Signal
    PROVE  /\ Due' = Due /\ StackOK' /\ HandlerOK' /\ interrupted' # "no" /\ interrupted = "no" /\ ~Joined
<1> USE DEF IInv
<1>1. /\ interrupted = "no" /\ interrupted' \in Held /\ suspended' = todo /\ todo' = HandlerCalls
      /\ UNCHANGED registered /\ UNCHANGED running /\ UNCHANGED experiments
  BY DEF Signal, objects, manager
<1>2. ~HandlerRuns /\ suspended = <<>> /\ ~Joined
  BY <1>1 DEF HandlerRuns, StackOK, Joined
<1>3. interrupted' \notin {"no", "handled"} /\ HandlerRuns'
  <2>1. \A h \in Held : h \notin {"no", "handled"}
    BY DEF Held, TypeOK
  <2> QED BY <1>1, <2>1 DEF HandlerRuns
<1>4. Due' = Due
  BY <1>1, <1>2, <1>3 DEF Due
<1>5. StackOK'
  <2>1. ~HasAny({"handled"})'
    BY <1>4 DEF HasAny, StackOK
  <2> QED BY <1>1, <1>3, <2>1, HandlerLists DEF StackOK
<1>6. HandlerOK'
  <2>1. \A s \in Satellites : <<"deleteExperiment", s>> \notin ToSet(HandlerCalls)
    BY HandlerLists
  <2>2. <<"handled", "none">> \in ToSet(HandlerCalls)
    BY HandlerLists
  <2> QED BY <1>1, <1>3, <2>1, <2>2 DEF HandlerOK
<1> QED BY <1>1, <1>2, <1>3, <1>4, <1>5, <1>6

(***************************************************************************)
(* What each call of main is replaced by.                                  *)
(***************************************************************************)
(* The names of the calls that a call of main is replaced by. *)
Callees(n) ==
    CASE n = "register" -> {"lock", "add"}
      [] n \in {"erase", "eraseAll"} -> {"clear", "unlock"}
      [] n = "stopThreads" -> {"stopFlag", "lock", "erase"}
      [] n = "destroy" -> {"stopThreads", "close", "delete", "upgrade", "exclusive", "giveUp"}
      [] n = "addSatellite" -> {"register", "insert", "upgrade", "exclusive", "giveUp"}
      [] n = "close" -> {"stopFlag", "lock", "erase", "deleteExperiment"}
      [] n = "stopExperiments" -> {"giveUp"}
      [] OTHER -> {}

(* When stop() runs every satellite has been deleted, and with it its experiment. *)
LEMMA StopExperimentsFacts ==
    ASSUME IInv, ~HandlerRuns, DoStopExperiments
    PROVE  channels = {} /\ experiments = {} /\ Becomes("stopExperiments", {<<"giveUp", "none">>})
<1> USE DEF IInv
<1>1. Calls("stopExperiments")
  BY DEF DoStopExperiments
<1>2. /\ ToSet(todo) = {<<"stopExperiments", Argument>>} \cup Rest
      /\ \A f \in Rest : Below(<<"stopExperiments", Argument>>, f)
  BY <1>1, TopOfStack DEF StackOK
<1>3. Due = {<<"stopExperiments", Argument>>} \cup Rest
  BY <1>2 DEF Due
<1>4. \A e \in Due : e[1] \in AfterStop \cup {"stopExperiments"}
  BY <1>2, <1>3 DEF Below
<1>5. \A s : ~Doomed(s) /\ ~Has("channels", s)
  BY <1>4 DEF Doomed, Has, AfterStop
<1>6. HasAny({"stopExperiments", "eraseAll"})
  <2>1. <<"stopExperiments", Argument>> \in Due /\ <<"stopExperiments", Argument>>[1] = "stopExperiments"
    BY <1>3
  <2> QED BY <2>1 DEF HasAny
<1>7. channels = {}
  BY <1>5, <1>6 DEF DestroyingOK
<1>8. experiments = {}
  BY <1>5, <1>7 DEF OwnersOK, TypeOK
<1> QED BY <1>7, <1>8, StopExperimentsStack

(* Every step of main replaces a call by some of those its function makes. *)
LEMMA MainBecomes ==
    ASSUME BaseStep
    PROVE  \E n, C : Calls(n) /\ Becomes(n, C) /\ \A e \in C : e[1] \in Callees(n)
<1> USE DEF BaseStep, IInv
<1> DEFINE Goal == \E n, C : Calls(n) /\ Becomes(n, C) /\ \A e \in C : e[1] \in Callees(n)
<1>1. ASSUME NEW n, Calls(n), Becomes(n, {}) PROVE Goal
  <2>1. \A e \in {} : e[1] \in Callees(n)
    OBVIOUS
  <2> QED BY <1>1, <2>1
<1>2. ASSUME NEW n, NEW C, Calls(n), Becomes(n, C), \A e \in C : e[1] \in Callees(n) PROVE Goal
  BY <1>2
<1> HIDE DEF Goal
<1>3. CASE DoStopFlag
  BY <1>3, <1>1, ReturnSteps, StepNames
<1>4. CASE DoLock
  BY <1>4, <1>1, ReturnSteps, StepNames
<1>5. CASE DoAdd
  BY <1>5, <1>1, ReturnSteps, StepNames
<1>6. CASE DoClear
  BY <1>6, <1>1, ReturnSteps, StepNames
<1>7. CASE DoUnlock
  BY <1>7, <1>1, ReturnSteps, StepNames
<1>8. CASE DoStopManager
  BY <1>8, <1>1, ReturnSteps, StepNames
<1>9. CASE DoJoin
  BY <1>9, <1>1, ReturnSteps, StepNames
<1>10. CASE DoChannels
  BY <1>10, <1>1, ReturnSteps, StepNames
<1>11. CASE DoEnable
  BY <1>11, <1>1, ReturnSteps, StepNames
<1>12. CASE DoDisable
  BY <1>12, <1>1, ReturnSteps, StepNames
<1>13. CASE DoDelete
  BY <1>13, <1>1, ReturnSteps, StepNames
<1>14. CASE DoUpgrade
  BY <1>14, <1>1, ReturnSteps, StepNames
<1>15. CASE DoExclusive
  BY <1>15, <1>1, ReturnSteps, StepNames
<1>16. CASE DoGiveUp
  BY <1>16, <1>1, ReturnSteps, StepNames
<1>17. CASE DoInsert
  BY <1>17, <1>1, ReturnSteps, StepNames
<1>18. CASE DoDeleteExperiment
  BY <1>18, <1>1, ReturnSteps, StepNames
<1>19. CASE DoShared
  BY <1>19, <1>1, ReturnSteps, StepNames
<1>20. CASE DoExit
  BY <1>20, <1>1, ReturnSteps, StepNames
<1>21. CASE DoActivate
  <2>1. \E n : Calls(n) /\ Becomes(n, {})
    BY <1>21, ReturnSteps
  <2> QED BY <2>1, <1>1
<1>22. CASE DoPushElevationAngle
  BY <1>22, <1>1, PushElevationAngleStack, StepNames
<1>23. CASE DoRegister
  <2> DEFINE C == IF managerStopped THEN {} ELSE {<<"lock", "none">>, <<"add", Argument>>}
  <2>1. Calls("register") /\ Becomes("register", C)
    BY <1>23, StepNames, RegisterStack
  <2>2. \A e \in C : e[1] \in Callees("register")
    BY DEF Callees
  <2> HIDE DEF C
  <2> QED BY <2>1, <2>2, <1>2
<1>24. CASE DoErase
  <2> DEFINE C == IF Contains(registered, Argument) THEN ClearSet ELSE {<<"unlock", "none">>}
  <2>1. Calls("erase") /\ Becomes("erase", C)
    BY <1>24, StepNames, EraseStack
  <2>2. \A e \in C : e[1] \in Callees("erase")
    BY DEF Callees, ClearSet
  <2> HIDE DEF C
  <2> QED BY <2>1, <2>2, <1>2
<1>25. CASE DoEraseAll
  <2> DEFINE C == ClearSet
  <2>1. Calls("eraseAll") /\ Becomes("eraseAll", C)
    BY <1>25, StepNames, EraseAllStack
  <2>2. \A e \in C : e[1] \in Callees("eraseAll")
    BY DEF Callees, ClearSet
  <2> HIDE DEF C
  <2> QED BY <2>1, <2>2, <1>2
<1>26. CASE DoStopThreads
  <2> DEFINE C == IF Argument \in channels THEN ReleaseSet(ChannelCalculations(Argument)) ELSE {}
  <2>1. Calls("stopThreads") /\ Becomes("stopThreads", C)
    BY <1>26, StepNames, StopThreadsStack
  <2>2. \A e \in C : e[1] \in Callees("stopThreads")
    BY DEF Callees, ReleaseSet
  <2> HIDE DEF C
  <2> QED BY <2>1, <2>2, <1>2
<1>27. CASE DoDestroy
  <2> DEFINE C == IF Argument \in channels
                  THEN {<<"stopThreads", Argument>>, <<"close", Argument>>, <<"delete",
                      Argument>>} \cup ExclusiveSet
                  ELSE {}
  <2>1. Calls("destroy") /\ Becomes("destroy", C)
    BY <1>27, StepNames, DestroyStack
  <2>2. \A e \in C : e[1] \in Callees("destroy")
    BY DEF Callees, ExclusiveSet
  <2> HIDE DEF C
  <2> QED BY <2>1, <2>2, <1>2
<1>28. CASE DoAddSatellite
  <2> DEFINE C == IF isActive
                  THEN {<<"register", Experiment(Argument)>>, <<"insert", Argument>>} \cup ExclusiveSet
                  ELSE {}
  <2>1. Calls("addSatellite") /\ Becomes("addSatellite", C)
    BY <1>28, StepNames, AddSatelliteStack
  <2>2. \A e \in C : e[1] \in Callees("addSatellite")
    BY DEF Callees, ExclusiveSet
  <2> HIDE DEF C
  <2> QED BY <2>1, <2>2, <1>2
<1>29. CASE DoClose
  <2> DEFINE C == IF Argument \in experiments
                  THEN ReleaseSet({Experiment(Argument)}) \cup {<<"deleteExperiment", Argument>>} ELSE {}
  <2>1. Calls("close") /\ Becomes("close", C)
    BY <1>29, StepNames, CloseStack
  <2>2. \A e \in C : e[1] \in Callees("close")
    BY DEF Callees, ReleaseSet
  <2> HIDE DEF C
  <2> QED BY <2>1, <2>2, <1>2
<1>30. CASE DoStopExperiments
  <2> DEFINE C == {<<"giveUp", "none">>}
  <2>1. Calls("stopExperiments") /\ Becomes("stopExperiments", C)
    BY <1>30, StepNames, StopExperimentsFacts
  <2>2. \A e \in C : e[1] \in Callees("stopExperiments")
    BY DEF Callees
  <2> HIDE DEF C
  <2> QED BY <2>1, <2>2, <1>2
<1> QED BY <1>3, <1>4, <1>5, <1>6, <1>7, <1>8, <1>9, <1>10, <1>11, <1>12, <1>13, <1>14, <1>15, <1>16,
        <1>17, <1>18, <1>19, <1>20, <1>21, <1>22, <1>23, <1>24, <1>25, <1>26, <1>27, <1>28, <1>29, <1>30,
        ReturnSteps DEF MainStep, Goal

(* A call that returns keeps the calls of other names. *)
LEMMA ReturnKeeps ==
    ASSUME NEW n, NEW N, NEW W, Becomes(n, {}), n \notin N
    PROVE  Keeps(N, W)
BY BecomesKeeps

(* A step of main keeps the names that it neither is nor calls. *)
LEMMA QuietKeeps ==
    ASSUME BaseStep, NEW N, NEW W, \A n : Calls(n) => n \notin N /\ \A m \in Callees(n) : m \notin W
    PROVE  Keeps(N, W)
<1>1. PICK n, C : Calls(n) /\ Becomes(n, C) /\ \A e \in C : e[1] \in Callees(n)
  BY MainBecomes
<1>2. n \notin N /\ \A e \in C : e[1] \notin W
  BY <1>1
<1> QED BY <1>1, <1>2, BecomesKeeps

(* The steps between two logs, for what they do not make due. *)
LEMMA LogKeeps ==
    ASSUME IInv, NEW N, NEW W
    PROVE  /\ (\E s \in Satellites : Feed(s)) => Keeps(N, W)
           /\ (\E s \in Satellites : Elevation(s)) /\ W \cap {"shared", "pushElevationAngle"} = {} =>
                  Keeps(N, W)
           /\ Gap /\ W \cap {"stopThreads", "destroy", "deactivate", "upgrade", "exclusive", "stopExperiments",
                            "lock", "eraseAll", "activate"} = {} => Keeps(N, W)
           /\ EndOfInput /\ W \cap {"stopThreads", "destroy", "deactivate", "upgrade", "exclusive",
                                   "stopExperiments", "stopManager", "join", "exit"} = {} => Keeps(N, W)
<1>1. ASSUME NEW s \in Satellites, Feed(s) PROVE Keeps(N, W)
  <2>1. Starts({})
    BY <1>1, LogStacks
  <2> QED BY <2>1, StartsKeeps
<1>2. ASSUME NEW s \in Satellites, Elevation(s), W \cap {"shared", "pushElevationAngle"} = {} PROVE Keeps(N, W)
  <2> DEFINE C == {<<"shared", "none">>, <<"pushElevationAngle", s>>}
  <2>1. Starts(C)
    BY <1>2, LogStacks
  <2>2. \A e \in C : e[1] \notin W
    BY <1>2
  <2> HIDE DEF C
  <2> QED BY <2>1, <2>2, StartsKeeps
<1>3. ASSUME Gap, W \cap {"stopThreads", "destroy", "deactivate", "upgrade", "exclusive", "stopExperiments",
                            "lock", "eraseAll", "activate"} = {} PROVE Keeps(N, W)
  <2> DEFINE C == TearDownSet \cup {<<"lock", "none">>, <<"eraseAll", "none">>, <<"activate", "none">>}
  <2>1. Starts(C)
    BY <1>3, LogStacks
  <2>2. \A e \in C : e[1] \notin W
    BY <1>3 DEF TearDownSet
  <2> HIDE DEF C
  <2> QED BY <2>1, <2>2, StartsKeeps
<1>4. ASSUME EndOfInput, W \cap {"stopThreads", "destroy", "deactivate", "upgrade", "exclusive",
                                   "stopExperiments", "stopManager", "join", "exit"} = {} PROVE Keeps(N, W)
  <2> DEFINE C == TearDownSet \cup {<<"stopManager", "none">>, <<"join", "none">>, <<"exit", "none">>}
  <2>1. Starts(C)
    BY <1>4, LogStacks
  <2>2. \A e \in C : e[1] \notin W
    BY <1>4 DEF TearDownSet
  <2> HIDE DEF C
  <2> QED BY <2>1, <2>2, StartsKeeps
<1> QED BY <1>1, <1>2, <1>3, <1>4

(***************************************************************************)
(* The registry.                                                           *)
(***************************************************************************)
(* The registry when none of it changes. *)
LEMMA RegistryKept ==
    ASSUME RegistryOK, Keeps({"clear"}, {"add", "register"}),
           UNCHANGED registered, UNCHANGED alive, UNCHANGED order
    PROVE  RegistryOK'
<1>1. Registered' = Registered
  BY DEF Registered
<1>2. /\ \A c : Has("add", c)' => Has("add", c)
      /\ \A c : Has("register", c)' => Has("register", c)
      /\ \A w : Has("clear", w) => Has("clear", w)'
  BY DEF Keeps, Has
<1> QED BY <1>1, <1>2 DEF RegistryOK

(* The registry when main moves. *)
LEMMA RegistryBase ==
    ASSUME BaseStep
    PROVE  RegistryOK'
<1> USE DEF BaseStep, IInv
<1>0. /\ registered \in Seq(Calculations) /\ DOMAIN registered = 1 .. Len(registered) /\ Len(registered) \in Nat
      /\ \A w \in Workers : order[w] \in Seq(Calculations)
  BY LenProperties DEF TypeOK
<1>1. CASE DoRegister
  <2> DEFINE C == IF managerStopped THEN {} ELSE {<<"lock", "none">>, <<"add", Argument>>}
  <2>1. Becomes("register", C)
    BY <1>1, RegisterStack
  <2>2. alive' = alive \cup {Argument} /\ UNCHANGED registered /\ UNCHANGED order
    BY <1>1 DEF DoRegister, manager
  <2>3. Argument \in Calculations
    BY <2>1, ArgumentTypes DEF Becomes, CalculationCalls
  <2>4. Has("register", Argument)
    BY <2>1 DEF Becomes, Has
  <2>5. Argument \notin alive /\ Argument \notin Registered
    BY <2>3, <2>4 DEF RegistryOK
  <2>6. <<"register", Argument>> \notin Rest
    BY <2>1 DEF Becomes, Below
  <2>7. /\ \A c : Has("add", c)' => Has("add", c) \/ c = Argument
        /\ \A c : Has("register", c)' => Has("register", c) /\ c # Argument
        /\ \A w : Has("clear", w) => Has("clear", w)'
    BY <2>1, <2>6 DEF Becomes, Has
  <2>8. Registered' = Registered
    BY <2>2 DEF Registered
  <2> QED BY <2>2, <2>5, <2>7, <2>8 DEF RegistryOK
<1>2. CASE DoAdd
  <2>1. Becomes("add", {})
    BY <1>2, ReturnSteps
  <2>2. registered' = Append(registered, Argument) /\ UNCHANGED alive /\ UNCHANGED order
    BY <1>2 DEF DoAdd, objects
  <2>3. Argument \in Calculations
    BY <2>1, ArgumentTypes DEF Becomes, CalculationCalls
  <2>4. Has("add", Argument)
    BY <2>1 DEF Becomes, Has
  <2>5. Argument \in alive /\ Argument \notin Registered
    BY <2>3, <2>4 DEF RegistryOK
  <2>6. <<"add", Argument>> \notin Rest
    BY <2>1 DEF Becomes, Below
  <2>7. /\ \A c : Has("add", c)' => Has("add", c) /\ c # Argument
        /\ \A c : Has("register", c)' => Has("register", c)
        /\ \A w : Has("clear", w) => Has("clear", w)'
    BY <2>1, <2>6 DEF Becomes, Has
  <2>8. /\ registered' \in Seq(Calculations) /\ Len(registered') = Len(registered) + 1
        /\ \A i \in 1 .. Len(registered) : registered'[i] = registered[i]
        /\ registered'[Len(registered) + 1] = Argument
        /\ DOMAIN registered' = 1 .. Len(registered) + 1
    BY <1>0, <2>2, <2>3, AppendProperties, LenProperties
  <2>9. Registered' = Registered \cup {Argument}
    <3>1. \A c : c \in Registered' <=> \E i \in 1 .. Len(registered) + 1 : registered'[i] = c
      BY <2>8, ToSetProperties DEF Registered
    <3>2. \A c : c \in Registered <=> \E i \in 1 .. Len(registered) : registered[i] = c
      BY <1>0, ToSetProperties DEF Registered
    <3>3. \A i : i \in 1 .. Len(registered) + 1 <=> i \in 1 .. Len(registered) \/ i = Len(registered) + 1
      BY <1>0
    <3> QED BY <3>1, <3>2, <3>3, <2>8
  <2>10. ASSUME NEW i \in DOMAIN registered', NEW j \in DOMAIN registered', registered'[i] = registered'[j]
         PROVE  i = j
    <3>1. \A k \in 1 .. Len(registered) : registered[k] # Argument
      BY <1>0, <2>5, ToSetProperties DEF Registered
    <3>2. i \in 1 .. Len(registered) \/ i = Len(registered) + 1
      BY <1>0, <2>8
    <3>3. j \in 1 .. Len(registered) \/ j = Len(registered) + 1
      BY <1>0, <2>8
    <3> QED BY <3>1, <3>2, <3>3, <2>8, <2>10, <1>0 DEF RegistryOK
  <2> QED BY <2>2, <2>5, <2>7, <2>9, <2>10 DEF RegistryOK
<1>3. CASE DoErase
  <2> DEFINE C == IF Contains(registered, Argument) THEN ClearSet ELSE {<<"unlock", "none">>}
  <2>1. Becomes("erase", C)
    BY <1>3, EraseStack
  <2>2. registered' = RemoveFirst(registered, Argument) /\ UNCHANGED alive /\ UNCHANGED order
    BY <1>3 DEF DoErase, objects
  <2>3. \A i, j \in 1 .. Len(registered) : registered[i] = registered[j] => i = j
    BY <1>0 DEF RegistryOK
  <2>4. /\ registered' \in Seq(Calculations) /\ Registered' = Registered \ {Argument}
        /\ \A i, j \in 1 .. Len(registered') : registered'[i] = registered'[j] => i = j
    BY <1>0, <2>2, <2>3, EraseFirst DEF Registered
  <2>5. DOMAIN registered' = 1 .. Len(registered')
    BY <2>4, LenProperties
  <2>6. /\ \A c : Has("add", c)' => Has("add", c)
        /\ \A c : Has("register", c)' => Has("register", c)
        /\ \A w : Has("clear", w) => Has("clear", w)'
        /\ Argument \in Registered => \A w \in Workers : Has("clear", w)'
    <3>1. Argument \in Registered => Contains(registered, Argument)
      BY <1>0, EraseFirst DEF Registered
    <3> QED BY <2>1, <3>1 DEF Becomes, Has, ClearSet
  <2>7. \A w \in Workers : \A c \in ToSet(order[w]) : c \in Registered' \/ Has("clear", w)'
    BY <2>4, <2>6 DEF RegistryOK
  <2> QED BY <2>2, <2>4, <2>5, <2>6, <2>7 DEF RegistryOK
<1>4. CASE DoEraseAll
  <2>1. Becomes("eraseAll", ClearSet)
    BY <1>4, EraseAllStack
  <2>2. registered' = <<>> /\ UNCHANGED alive /\ UNCHANGED order
    BY <1>4 DEF DoEraseAll, objects
  <2>3. /\ \A c : Has("add", c)' => Has("add", c)
        /\ \A c : Has("register", c)' => Has("register", c)
        /\ \A w \in Workers : Has("clear", w)'
    BY <2>1 DEF Becomes, Has, ClearSet
  <2>4. Registered' = {} /\ DOMAIN registered' = {}
    BY <2>2, ToSetProperties DEF Registered
  <2> QED BY <2>2, <2>3, <2>4 DEF RegistryOK
<1>5. CASE DoClear
  <2>1. Becomes("clear", {})
    BY <1>5, ReturnSteps
  <2>2. order' = [order EXCEPT ![Argument] = <<>>] /\ UNCHANGED alive /\ UNCHANGED registered
    BY <1>5 DEF DoClear, objects
  <2>3. Argument \in Workers
    BY <2>1, ArgumentTypes DEF Becomes
  <2>4. ToSet(order'[Argument]) = {} /\ \A w \in Workers : w # Argument => order'[w] = order[w]
    BY <2>2, <2>3, ToSetProperties DEF TypeOK
  <2>5. /\ \A c : Has("add", c)' => Has("add", c)
        /\ \A c : Has("register", c)' => Has("register", c)
        /\ \A w : w # Argument /\ Has("clear", w) => Has("clear", w)'
    BY <2>1 DEF Becomes, Has
  <2>6. Registered' = Registered
    BY <2>2 DEF Registered
  <2> QED BY <2>2, <2>4, <2>5, <2>6 DEF RegistryOK
<1>6. CASE DoJoin
  <2>1. Becomes("join", {})
    BY <1>6, ReturnSteps
  <2>2. /\ registered' = <<>> /\ UNCHANGED alive /\ UNCHANGED order
        /\ \A w \in Workers : running[w][1] = "returned"
    BY <1>6 DEF DoJoin, objects
  <2>3. \A w \in Workers : ToSet(order[w]) = {}
    BY <2>2, ToSetProperties DEF WorkersOK
  <2>4. Registered' = {} /\ DOMAIN registered' = {}
    BY <2>2, ToSetProperties DEF Registered
  <2>5. /\ \A c : Has("add", c)' => Has("add", c)
        /\ \A c : Has("register", c)' => Has("register", c)
    BY <2>1 DEF Becomes, Has
  <2> QED BY <2>2, <2>3, <2>4, <2>5 DEF RegistryOK
<1>7. CASE DoDelete
  <2>1. Becomes("delete", {})
    BY <1>7, ReturnSteps
  <2>2. alive' = alive \ ChannelCalculations(Argument) /\ UNCHANGED registered /\ UNCHANGED order
    BY <1>7 DEF DoDelete, manager
  <2>3. \A c \in ChannelCalculations(Argument) : c \notin Registered
    BY <2>1, DeleteFacts DEF ChannelCalculations
  <2>4. Registered' = Registered
    BY <2>2 DEF Registered
  <2>5. \A f \in Rest : f[1] \in AfterDestroy
    BY <2>1, DeleteFacts
  <2>6. /\ \A c : ~Has("add", c)' /\ ~Has("register", c)'
        /\ \A w : Has("clear", w) => Has("clear", w)'
    BY <2>1, <2>5 DEF Becomes, Has, AfterDestroy
  <2> QED BY <2>2, <2>3, <2>4, <2>6 DEF RegistryOK
<1>8. CASE DoDeleteExperiment
  <2>1. Becomes("deleteExperiment", {})
    BY <1>8, ReturnSteps
  <2>2. alive' = alive \ {Experiment(Argument)} /\ UNCHANGED registered /\ UNCHANGED order
    BY <1>8 DEF DoDeleteExperiment, manager
  <2>3. Argument \in Satellites
    BY <2>1, ArgumentTypes DEF Becomes, SatelliteCalls
  <2>4. \A f \in Rest : f[1] \in AfterClose
    BY <2>1 DEF Becomes, Below
  <2>5. /\ \A c : ~Has("add", c)' /\ ~Has("register", c)' /\ ~Has("erase", c)
        /\ \A w : Has("clear", w) => Has("clear", w)'
        /\ Has("deleteExperiment", Argument)
    BY <2>1, <2>4 DEF Becomes, Has, AfterClose, AfterDestroy
  <2>6. Experiment(Argument) \notin Registered
    BY <2>3, <2>5 DEF DestroyingOK
  <2>7. Registered' = Registered
    BY <2>2 DEF Registered
  <2> QED BY <2>2, <2>5, <2>6, <2>7 DEF RegistryOK
<1>9. CASE DoAddSatellite
  <2> DEFINE C == IF isActive THEN {<<"register", Experiment(Argument)>>, <<"insert",
          Argument>>} \cup ExclusiveSet
                  ELSE {}
  <2>1. Becomes("addSatellite", C)
    BY <1>9, AddSatelliteStack
  <2>2. UNCHANGED alive /\ UNCHANGED registered /\ UNCHANGED order
    BY <1>9 DEF DoAddSatellite, objects, manager
  <2>3. Argument \in Satellites /\ Has("addSatellite", Argument)
    BY <2>1, ArgumentTypes DEF Becomes, SatelliteCalls, Has
  <2>4. Experiment(Argument) \notin alive
    <3>1. Argument \notin experiments /\ ~Has("insert", Argument)
      BY <2>3 DEF CreatingOK, HasAny, Has
    <3> QED BY <2>3, <3>1 DEF OwnersOK
  <2>5. /\ \A c : Has("add", c)' => Has("add", c)
        /\ \A c : Has("register", c)' => Has("register", c) \/ c = Experiment(Argument)
        /\ \A w : Has("clear", w) => Has("clear", w)'
    BY <2>1 DEF Becomes, Has, ExclusiveSet
  <2>6. Registered' = Registered
    BY <2>2 DEF Registered
  <2> QED BY <2>2, <2>4, <2>5, <2>6 DEF RegistryOK
<1>10. CASE ~(DoRegister \/ DoAdd \/ DoErase \/ DoEraseAll \/ DoClear \/ DoJoin \/ DoDelete \/
            DoDeleteExperiment \/ DoAddSatellite)
  <2>1. ASSUME NEW n, Calls(n)
        PROVE  n \in {"stopFlag", "lock", "unlock", "stopManager", "channels", "enable", "disable",
                  "stopThreads", "destroy", "upgrade", "exclusive", "giveUp", "insert", "close", "activate",
                  "deactivate", "stopExperiments", "shared", "pushElevationAngle", "exit"}
    BY <1>10, <2>1, StepNames, ReturnSteps DEF MainStep, Calls
  <2>2. Keeps({"clear"}, {"add", "register"})
    <3>1. \A n : Calls(n) => n \notin {"clear"} /\ \A m \in Callees(n) : m \notin {"add", "register"}
      BY <2>1 DEF Callees
    <3> QED BY <3>1, QuietKeeps
  <2>3. UNCHANGED registered /\ UNCHANGED alive /\ UNCHANGED order
    BY <1>10, ReturnSteps DEF MainStep, objects, manager, locks, signal, DoStopFlag, DoLock,
        DoUnlock, DoStopManager, DoChannels, DoEnable, DoDisable, DoStopThreads, DoDestroy,
        DoUpgrade, DoExclusive, DoGiveUp, DoInsert, DoClose, DoActivate, DoStopExperiments,
        DoShared, DoPushElevationAngle, DoExit
  <2> QED BY <2>2, <2>3, RegistryKept
<1> QED BY <1>1, <1>2, <1>3, <1>4, <1>5, <1>6, <1>7, <1>8, <1>9, <1>10

(* The registry when a worker or the order maker moves. *)
LEMMA RegistryThread ==
    ASSUME IInv, NEW w \in Workers, Fill(w) \/ Worker(w)
    PROVE  RegistryOK'
<1> USE DEF IInv
<1>1. Due' = Due
  <2>1. UNCHANGED todo /\ UNCHANGED interrupted /\ UNCHANGED suspended
    BY HandlerThread DEF signal
  <2> QED BY <2>1 DEF Due, HandlerRuns
<1>2. UNCHANGED registered /\ UNCHANGED alive
  BY DEF Fill, Worker, Enter, Push, Share, Pushed, Leave, ReturnWorker, WorkerUnchanged, objects
<1>3. \A v \in Workers : ToSet(order'[v]) \subseteq ToSet(order[v]) \/ ToSet(order'[v]) = Registered
  BY OrderStep
<1>4. /\ \A n, a : Has(n, a)' = Has(n, a)
      /\ Registered' = Registered
  BY <1>1, <1>2 DEF Has, Registered
<1> QED BY <1>2, <1>3, <1>4 DEF RegistryOK

(* The registry when a log is parsed. *)
LEMMA RegistryLog ==
    ASSUME IInv, (\E s \in Satellites : SatVis(s) \/ Feed(s) \/ Elevation(s)) \/ Gap \/ EndOfInput
    PROVE  RegistryOK'
<1> USE DEF IInv
<1>1. UNCHANGED registered /\ UNCHANGED alive /\ UNCHANGED order
  BY DEF SatVis, Feed, Elevation, Gap, EndOfInput, objects, manager
<1>2. CASE \E s \in Satellites : SatVis(s) /\ s \notin channels /\ \E n \in {"enable",
          "disable"} : Starts(CreateSet(s) \cup {<<n, s>>})
  <2>1. PICK s \in Satellites, n \in {"enable", "disable"} : s \notin channels /\
            Starts(CreateSet(s) \cup {<<n, s>>})
    BY <1>2
  <2>2. ASSUME NEW k \in ChannelKinds PROVE <<s, k>> \notin alive
    <3>1. ~Has("channels", s)
      BY <2>1 DEF Starts, Has
    <3> QED BY <2>1, <3>1 DEF OwnersOK
  <2>3. /\ \A c : ~Has("add", c)'
        /\ \A c : Has("register", c)' => \E k \in ChannelKinds : c = <<s, k>>
        /\ \A v : ~Has("clear", v)
    BY <2>1 DEF Starts, Has, CreateSet
  <2>4. Registered' = Registered
    BY <1>1 DEF Registered
  <2> QED BY <1>1, <2>2, <2>3, <2>4 DEF RegistryOK
<1>3. CASE Keeps({"clear"}, {"add", "register"})
  BY <1>1, <1>3, RegistryKept
<1>4. CASE \E s \in Satellites : SatVis(s) /\ s \in channels /\ \E n \in {"enable",
          "disable"} : Starts(DestroySet(s) \cup {<<n, s>>})
  BY <1>3, <1>4, StartsKeeps DEF DestroySet, ExclusiveSet
<1>5. CASE \E s \in Satellites, n \in {"enable", "disable"} : Starts({<<n, s>>})
  BY <1>3, <1>5, StartsKeeps
<1>6. CASE (\E s \in Satellites : Feed(s) \/ Elevation(s)) \/ Gap \/ EndOfInput
  BY <1>3, <1>6, LogKeeps
<1> QED BY <1>2, <1>4, <1>5, <1>6, SatVisStarts

(* The registry when the signal handler moves. *)
LEMMA RegistryHandler ==
    ASSUME IInv, HandlerEffect
    PROVE  RegistryOK'
<1> USE DEF IInv
<1>1. Due' = Due /\ UNCHANGED order
  BY DEF HandlerEffect
<1>2. \A n, a : Has(n, a)' = Has(n, a)
  BY <1>1 DEF Has
<1>3. CASE UNCHANGED <<registered, alive, experiments>>
  <2>1. UNCHANGED registered /\ UNCHANGED alive /\ UNCHANGED order
    BY <1>1, <1>3
  <2> QED BY <1>1, <2>1, SameKeeps, RegistryKept
<1>4. CASE registered' = <<>> /\ AllReturned
  <2>1. Registered' = {} /\ DOMAIN registered' = {}
    BY <1>4, ToSetProperties DEF Registered
  <2>2. \A w \in Workers : ToSet(order'[w]) = {}
    <3>1. \A w \in Workers : running[w][1] = "returned"
      BY <1>4 DEF AllReturned
    <3> QED BY <3>1, <1>1, ToSetProperties DEF WorkersOK
  <2>3. \A c \in Calculations : Has("add", c) => c \in alive'
    <3>1. SUFFICES ASSUME NEW c \in Calculations, Has("add", c), c \notin alive' PROVE FALSE
      OBVIOUS
    <3>2. c \in alive
      BY <3>1 DEF RegistryOK
    <3>3. PICK s \in experiments : alive' = alive \ {Experiment(s)}
      BY <3>1, <3>2 DEF HandlerEffect
    <3>4. s \in Satellites /\ c = Experiment(s)
      BY <3>1, <3>2, <3>3 DEF TypeOK
    <3> QED BY <3>1, <3>3, <3>4 DEF CreatingOK
  <2>4. alive' \subseteq alive
    BY DEF HandlerEffect
  <2> QED BY <1>2, <2>1, <2>2, <2>3, <2>4 DEF RegistryOK
<1> QED BY <1>3, <1>4 DEF HandlerEffect

(***************************************************************************)
(* Who owns what is alive.                                                 *)
(***************************************************************************)
(* The owners when none of them changes. *)
LEMMA OwnersKept ==
    ASSUME OwnersOK, Keeps({"channels", "insert", "register"}, {"channels", "insert"}),
           UNCHANGED alive, UNCHANGED channels, UNCHANGED experiments, UNCHANGED fed
    PROVE  OwnersOK'
<1>1. /\ \A s : Has("channels", s)' = Has("channels", s) /\ Has("insert", s)' = Has("insert", s)
      /\ \A c : Has("register", c) => Has("register", c)'
  BY DEF Keeps, Has
<1> QED BY <1>1 DEF OwnersOK

(* The owners when main moves. *)
LEMMA OwnersBase ==
    ASSUME BaseStep
    PROVE  OwnersOK'
<1> USE DEF BaseStep, IInv
<1>1. CASE DoRegister
  <2> DEFINE C == IF managerStopped THEN {} ELSE {<<"lock", "none">>, <<"add", Argument>>}
  <2>1. Becomes("register", C)
    BY <1>1, RegisterStack
  <2>2. alive' = alive \cup {Argument} /\ UNCHANGED channels /\ UNCHANGED experiments /\ UNCHANGED fed
    BY <1>1 DEF DoRegister
  <2>3. Has("register", Argument)
    BY <2>1 DEF Becomes, Has
  <2>4. /\ \A s : Has("channels", s)' = Has("channels", s) /\ Has("insert", s)' = Has("insert", s)
        /\ \A c : Has("register", c) => Has("register", c)' \/ c = Argument
    BY <2>1 DEF Becomes, Has
  <2>5. ASSUME NEW s \in Satellites, Argument = Experiment(s) PROVE Has("insert", s)
    BY <2>3, <2>5 DEF CreatingOK
  <2>6. ASSUME NEW s \in Satellites, NEW k \in ChannelKinds, Argument = <<s, k>> PROVE Has("channels", s)
    BY <2>3, <2>6 DEF CreatingOK
  <2> QED BY <2>2, <2>4, <2>5, <2>6 DEF OwnersOK
<1>2. CASE DoChannels
  <2>1. Becomes("channels", {})
    BY <1>2, ReturnSteps
  <2>2. channels' = channels \cup {Argument} /\ UNCHANGED alive /\ UNCHANGED experiments /\ UNCHANGED fed
    BY <1>2 DEF DoChannels
  <2>3. Argument \in Satellites /\ Has("channels", Argument)
    BY <2>1, ArgumentTypes DEF Becomes, SatelliteCalls, Has
  <2>4. \A f \in Rest : f[1] \in {"addSatellite", "enable", "disable"}
    BY <2>1 DEF Becomes, Below
  <2>5. \A c, s : ~Has("register", c) /\ ~Has("insert", s) /\ ~Has("channels", s)'
        /\ ~Has("insert", s)' /\ (Has("channels", s) => s = Argument)
    BY <2>1, <2>4 DEF Becomes, Has
  <2> QED BY <2>2, <2>3, <2>5 DEF OwnersOK
<1>3. CASE DoInsert
  <2>1. Becomes("insert", {})
    BY <1>3, ReturnSteps
  <2>2. experiments' = experiments \cup {Argument} /\ UNCHANGED alive /\ UNCHANGED channels /\ UNCHANGED fed
    BY <1>3 DEF DoInsert
  <2>3. Argument \in Satellites /\ Has("insert", Argument)
    BY <2>1, ArgumentTypes DEF Becomes, SatelliteCalls, Has
  <2>4. \A f \in Rest : f[1] # "insert" /\ f # <<"register", Experiment(Argument)>>
    BY <2>1 DEF Becomes, Below
  <2>5. ~Has("register", Experiment(Argument))
    BY <2>1, <2>4 DEF Becomes, Has
  <2>6. /\ \A s : ~Has("insert", s)' /\ Has("channels", s)' = Has("channels", s)
        /\ \A s : Has("insert", s) => s = Argument
        /\ \A c : Has("register", c) => Has("register", c)'
    BY <2>1, <2>4 DEF Becomes, Has
  <2>7. Experiment(Argument) \in alive
    BY <2>3, <2>5 DEF OwnersOK
  <2>8. Argument \in channels \/ Has("channels", Argument)
    BY <2>3 DEF CreatingOK
  <2> QED BY <2>2, <2>6, <2>7, <2>8 DEF OwnersOK
<1>4. CASE DoDelete
  <2>1. Becomes("delete", {})
    BY <1>4, ReturnSteps
  <2>2. /\ alive' = alive \ ChannelCalculations(Argument) /\ channels' = channels \ {Argument}
        /\ fed' = fed \ {Argument} /\ UNCHANGED experiments
    BY <1>4 DEF DoDelete
  <2>3. \A f \in Rest : f[1] \in AfterDestroy
    BY <2>1, DeleteFacts
  <2>4. \A s : ~Has("channels", s)' /\ ~Has("channels", s) /\ ~Has("insert", s)' /\ ~Has("insert", s)
    BY <2>1, <2>3 DEF Becomes, Has, AfterDestroy
  <2>5. \A s \in Satellites : Experiment(s) \notin ChannelCalculations(Argument)
    BY KindsAssumption DEF ChannelCalculations, Experiment
  <2>6. \A s \in Satellites, k \in ChannelKinds : s # Argument => <<s, k>> \notin ChannelCalculations(Argument)
    BY DEF ChannelCalculations
  <2>7. \A k \in ChannelKinds : <<Argument, k>> \notin alive'
    BY <2>2 DEF ChannelCalculations
  <2>8. Argument \notin experiments
    BY <2>1, DeleteFacts
  <2> QED BY <2>2, <2>4, <2>5, <2>6, <2>7, <2>8 DEF OwnersOK
<1>5. CASE DoDeleteExperiment
  <2>1. Becomes("deleteExperiment", {})
    BY <1>5, ReturnSteps
  <2>2. /\ alive' = alive \ {Experiment(Argument)} /\ experiments' = experiments \ {Argument}
        /\ UNCHANGED channels /\ UNCHANGED fed
    BY <1>5 DEF DoDeleteExperiment
  <2>3. \A f \in Rest : f[1] \in AfterClose
    BY <2>1 DEF Becomes, Below
  <2>4. \A s : ~Has("channels", s)' /\ ~Has("channels", s) /\ ~Has("insert", s)' /\ ~Has("insert", s)
    BY <2>1, <2>3 DEF Becomes, Has, AfterDestroy, AfterClose
  <2>5. /\ \A s \in Satellites : s # Argument => Experiment(s) # Experiment(Argument)
        /\ \A s \in Satellites, k \in ChannelKinds : <<s, k>> # Experiment(Argument)
    BY KindsAssumption DEF Experiment
  <2> QED BY <2>2, <2>4, <2>5 DEF OwnersOK
<1>6. CASE DoAddSatellite
  <2> DEFINE C == IF isActive THEN {<<"register", Experiment(Argument)>>, <<"insert",
          Argument>>} \cup ExclusiveSet
                  ELSE {}
  <2>1. Becomes("addSatellite", C)
    BY <1>6, AddSatelliteStack
  <2>2. UNCHANGED alive /\ UNCHANGED channels /\ UNCHANGED experiments /\ UNCHANGED fed
    BY <1>6 DEF DoAddSatellite, objects
  <2>3. /\ \A s : Has("channels", s)' <=> Has("channels", s)
        /\ \A s : Has("insert", s) => Has("insert", s)'
        /\ \A s : Has("insert", s)' => Has("insert", s) \/ s = Argument
        /\ \A s : Has("insert", s)' => Has("insert", s) \/ Has("register", Experiment(s))'
        /\ \A c : Has("register", c) => Has("register", c)'
    <3>1. /\ Due = {<<"addSatellite", Argument>>} \cup Rest /\ Due' = C \cup Rest
          /\ C = {} \/ C = {<<"register", Experiment(Argument)>>, <<"insert", Argument>>} \cup ExclusiveSet
      BY <2>1 DEF Becomes
    <3> HIDE DEF C
    <3>2. /\ \A s : <<"channels", s>> \notin C
          /\ \A s : <<"insert", s>> \in C => s = Argument /\ <<"register", Experiment(Argument)>> \in C
      BY <3>1 DEF ExclusiveSet
    <3> QED BY <3>1, <3>2 DEF Has
  <2> HIDE DEF C
  <2> QED BY <2>2, <2>3 DEF OwnersOK
<1>7. CASE ~(DoRegister \/ DoChannels \/ DoInsert \/ DoDelete \/ DoDeleteExperiment \/ DoAddSatellite)
  <2>1. ASSUME NEW n, Calls(n)
        PROVE  n \in {"stopFlag", "lock", "add", "erase", "eraseAll", "clear", "unlock",
                  "stopManager", "join", "enable", "disable", "stopThreads", "destroy", "upgrade", "exclusive",
                  "giveUp", "close", "activate", "deactivate", "stopExperiments", "shared",
                  "pushElevationAngle", "exit"}
    BY <1>7, <2>1, StepNames, ReturnSteps DEF MainStep, Calls
  <2>2. Keeps({"channels", "insert", "register"}, {"channels", "insert"})
    <3>1. \A n : Calls(n) => n \notin {"channels", "insert", "register"} /\
              \A m \in Callees(n) : m \notin {"channels", "insert"}
      BY <2>1 DEF Callees
    <3> QED BY <3>1, QuietKeeps
  <2>3. UNCHANGED alive /\ UNCHANGED channels /\ UNCHANGED experiments /\ UNCHANGED fed
    BY <1>7, ReturnSteps DEF MainStep, objects, manager, locks, signal, DoStopFlag, DoLock, DoAdd,
        DoErase, DoEraseAll, DoClear, DoUnlock, DoStopManager, DoJoin, DoEnable, DoDisable,
        DoStopThreads, DoDestroy, DoUpgrade, DoExclusive, DoGiveUp, DoClose, DoActivate,
        DoStopExperiments, DoShared, DoPushElevationAngle, DoExit
  <2> QED BY <2>2, <2>3, OwnersKept
<1> QED BY <1>1, <1>2, <1>3, <1>4, <1>5, <1>6, <1>7

(* The owners when a log is parsed. *)
LEMMA OwnersLog ==
    ASSUME IInv, (\E s \in Satellites : SatVis(s) \/ Feed(s) \/ Elevation(s)) \/ Gap \/ EndOfInput
    PROVE  OwnersOK'
<1> USE DEF IInv
<1>1. UNCHANGED alive /\ UNCHANGED channels /\ UNCHANGED experiments
  BY DEF SatVis, Feed, Elevation, Gap, EndOfInput, objects
<1>2. CASE \E s \in Satellites : SatVis(s) /\ s \notin channels /\ \E n \in {"enable",
          "disable"} : Starts(CreateSet(s) \cup {<<n, s>>})
  <2>1. PICK s \in Satellites, n \in {"enable", "disable"} :
              SatVis(s) /\ s \notin channels /\ Starts(CreateSet(s) \cup {<<n, s>>})
    BY <1>2
  <2>2. UNCHANGED fed
    BY <2>1 DEF SatVis, objects
  <2>3. /\ \A r : Has("channels", r)' <=> r = s
        /\ \A r : ~Has("channels", r) /\ ~Has("insert", r) /\ ~Has("insert", r)'
        /\ \A c : ~Has("register", c)
        /\ \A k \in ChannelKinds : Has("register", <<s, k>>)'
    BY <2>1 DEF Starts, Has, CreateSet
  <2> QED BY <1>1, <2>2, <2>3 DEF OwnersOK
<1>3. CASE Keeps({"channels", "insert", "register"}, {"channels", "insert"}) /\ UNCHANGED fed
  BY <1>1, <1>3, OwnersKept
<1>4. CASE \E s \in Satellites : SatVis(s) /\ s \in channels /\ \E n \in {"enable",
          "disable"} : Starts(DestroySet(s) \cup {<<n, s>>})
  <2>1. UNCHANGED fed
    BY <1>4 DEF SatVis, objects
  <2> QED BY <1>3, <1>4, <2>1, StartsKeeps DEF DestroySet, ExclusiveSet
<1>5. CASE \E s \in Satellites, n \in {"enable", "disable"} : SatVis(s) /\ Starts({<<n, s>>})
  <2>1. UNCHANGED fed
    BY <1>5 DEF SatVis, objects
  <2> QED BY <1>3, <1>5, <2>1, StartsKeeps
<1>6. CASE (\E s \in Satellites : Elevation(s)) \/ Gap \/ EndOfInput
  <2>1. UNCHANGED fed
    BY <1>6 DEF Elevation, Gap, EndOfInput, objects
  <2> QED BY <1>3, <1>6, <2>1, LogKeeps
<1>7. CASE \E s \in Satellites : Feed(s)
  <2>1. PICK s \in Satellites : Feed(s)
    BY <1>7
  <2>2. fed' = fed \cup {s} /\ s \in channels
    BY <2>1 DEF Feed
  <2>3. Due' = Due
    BY <2>1, LogStacks DEF Starts
  <2>4. \A n, a : Has(n, a)' = Has(n, a)
    BY <2>3 DEF Has
  <2> QED BY <1>1, <2>2, <2>4 DEF OwnersOK
<1> QED BY <1>2, <1>4, <1>5, <1>6, <1>7, SatVisStarts

(* The owners when the signal handler moves. *)
LEMMA OwnersHandler ==
    ASSUME IInv, HandlerEffect
    PROVE  OwnersOK'
<1> USE DEF IInv
<1>1. Due' = Due /\ UNCHANGED channels /\ UNCHANGED fed
  BY DEF HandlerEffect
<1>2. CASE UNCHANGED alive /\ UNCHANGED experiments
  BY <1>1, <1>2, SameKeeps, OwnersKept
<1>3. CASE \E s \in experiments : alive' = alive \ {Experiment(s)} /\ experiments' = experiments \ {s}
  <2>1. PICK s \in experiments : alive' = alive \ {Experiment(s)} /\ experiments' = experiments \ {s}
    BY <1>3
  <2>2. s \in Satellites
    BY DEF TypeOK
  <2>3. ~Has("insert", s)
    BY <2>2 DEF CreatingOK
  <2>4. /\ \A r \in Satellites : r # s => Experiment(r) # Experiment(s)
        /\ \A r \in Satellites, k \in ChannelKinds : <<r, k>> # Experiment(s)
    BY KindsAssumption DEF Experiment
  <2>5. \A n, a : Has(n, a)' = Has(n, a)
    BY <1>1 DEF Has
  <2> QED BY <1>1, <2>1, <2>3, <2>4, <2>5 DEF OwnersOK
<1> QED BY <1>2, <1>3 DEF HandlerEffect

(***************************************************************************)
(* Nothing is created while something is destroyed.                        *)
(***************************************************************************)
(* Creation when nothing new is due. *)
LEMMA CreatingKept ==
    ASSUME CreatingOK, Keeps({"channels", "insert"}, CreateNames \cup DestroyNames),
           UNCHANGED channels, UNCHANGED experiments
    PROVE  CreatingOK'
<1>1. \A n, a : n \in CreateNames \cup DestroyNames /\ Has(n, a)' => Has(n, a)
  BY DEF Keeps, Has
<1>2. \A n, a : n \in {"channels", "insert"} /\ Has(n, a) => Has(n, a)'
  BY DEF Keeps, Has
<1>3. /\ HasAny(CreateNames)' => HasAny(CreateNames)
      /\ HasAny(DestroyNames)' => HasAny(DestroyNames)
      /\ HasAny({"insert"})' => HasAny({"insert"})
  BY DEF Keeps, HasAny, CreateNames
<1>4. \A a : /\ Has("insert", a)' <=> Has("insert", a)
             /\ Has("channels", a)' <=> Has("channels", a)
             /\ Has("addSatellite", a)' => Has("addSatellite", a)
             /\ Has("register", a)' => Has("register", a)
             /\ Has("add", a)' => Has("add", a)
  BY <1>1, <1>2 DEF CreateNames
<1> QED BY <1>3, <1>4 DEF CreatingOK

(* Creation when none is due. *)
LEMMA CreatingNone ==
    ASSUME \A e \in Due' : e[1] \notin CreateNames
    PROVE  CreatingOK'
<1>1. ~HasAny(CreateNames)' /\ \A n, a : n \in CreateNames => ~Has(n, a)'
  BY DEF HasAny, Has
<1>2. \A a : ~Has("insert", a)' /\ ~Has("channels", a)' /\ ~Has("addSatellite", a)'
             /\ ~Has("register", a)' /\ ~Has("add", a)'
  BY <1>1 DEF CreateNames
<1> QED BY <1>1, <1>2 DEF CreatingOK

(* Whoever creates destroys nothing. *)
LEMMA NoDestruction ==
    ASSUME CreatingOK, NEW n, NEW C, Becomes(n, C), n \in CreateNames, \A e \in C : e[1] \notin DestroyNames
    PROVE  /\ ~HasAny(DestroyNames)' /\ \A e \in Due' : e[1] \notin DestroyNames
           /\ \A e \in Due : e[1] \notin DestroyNames
<1>1. HasAny(CreateNames)
  <2>1. <<n, Argument>> \in Due /\ <<n, Argument>>[1] = n
    BY DEF Becomes
  <2> QED BY <2>1 DEF HasAny
<1>2. \A e \in Due : e[1] \notin DestroyNames
  BY <1>1 DEF CreatingOK, HasAny
<1> QED BY <1>2 DEF Becomes, HasAny

(* Creation when main moves. *)
LEMMA CreatingBase ==
    ASSUME BaseStep
    PROVE  CreatingOK'
<1> USE DEF BaseStep, IInv
<1>1. CASE DoRegister
  <2> DEFINE C == IF managerStopped THEN {} ELSE {<<"lock", "none">>, <<"add", Argument>>}
  <2>1. Becomes("register", C)
    BY <1>1, RegisterStack
  <2>2. UNCHANGED channels /\ UNCHANGED experiments
    BY <1>1 DEF DoRegister
  <2>3. \A e \in C : e[1] \notin DestroyNames
    BY DEF DestroyNames
  <2>4. ~HasAny(DestroyNames)'
    BY NoDestruction, <2>1, <2>3 DEF CreateNames
  <2>5. Has("register", Argument)
    BY <2>1 DEF Becomes, Has
  <2>6. /\ \A s : Has("channels", s)' = Has("channels", s) /\ Has("insert", s)' = Has("insert", s)
        /\ \A s : Has("addSatellite", s)' => Has("addSatellite", s)
        /\ \A c : Has("register", c)' => Has("register", c)
        /\ \A c : Has("add", c)' => Has("add", c) \/ c = Argument
        /\ HasAny({"insert"})' => HasAny({"insert"})
    BY <2>1 DEF Becomes, Has, HasAny
  <2> HIDE DEF C
  <2> QED BY <2>2, <2>4, <2>5, <2>6 DEF CreatingOK
<1>2. CASE DoChannels
  <2>1. Becomes("channels", {})
    BY <1>2, ReturnSteps
  <2>2. channels' = channels \cup {Argument} /\ UNCHANGED experiments
    BY <1>2 DEF DoChannels
  <2>3. \A f \in Rest : f[1] \in {"addSatellite", "enable", "disable"}
    BY <2>1 DEF Becomes, Below
  <2>4. ~HasAny(DestroyNames)'
    BY NoDestruction, <2>1 DEF CreateNames
  <2>5. \A c, s : /\ ~Has("register", c)' /\ ~Has("add", c)' /\ ~Has("insert", s)' /\ ~Has("channels", s)'
                  /\ Has("addSatellite", s)' => Has("addSatellite", s)
                  /\ Has("channels", s) => s = Argument
    BY <2>1, <2>3 DEF Becomes, Has
  <2>6. ~HasAny({"insert"})'
    BY <2>1, <2>3 DEF Becomes, HasAny
  <2> QED BY <2>2, <2>4, <2>5, <2>6 DEF CreatingOK
<1>3. CASE DoInsert
  <2>1. Becomes("insert", {})
    BY <1>3, ReturnSteps
  <2>2. experiments' = experiments \cup {Argument} /\ UNCHANGED channels
    BY <1>3 DEF DoInsert
  <2>3. Argument \in Satellites
    BY <2>1, ArgumentTypes DEF Becomes, SatelliteCalls
  <2>4. /\ \A f \in Rest : f[1] \notin {"insert", "addSatellite"}
        /\ \A f \in Rest : f \notin {<<"register", Experiment(Argument)>>, <<"add", Experiment(Argument)>>}
    BY <2>1 DEF Becomes, Below
  <2>5. ~HasAny(DestroyNames)'
    BY NoDestruction, <2>1 DEF CreateNames
  <2>6. /\ \A s : ~Has("insert", s)' /\ ~Has("addSatellite", s)' /\ Has("channels", s)' = Has("channels", s)
        /\ \A s : Has("insert", s) => s = Argument
        /\ \A c : Has("register", c)' => Has("register", c) /\ c # Experiment(Argument)
        /\ \A c : Has("add", c)' => Has("add", c) /\ c # Experiment(Argument)
    BY <2>1, <2>4 DEF Becomes, Has
  <2>7. ~HasAny({"insert"})'
    BY <2>1, <2>4 DEF Becomes, HasAny
  <2> QED BY <2>2, <2>3, <2>5, <2>6, <2>7 DEF CreatingOK
<1>4. CASE DoAddSatellite
  <2> DEFINE C == IF isActive THEN {<<"register", Experiment(Argument)>>, <<"insert",
          Argument>>} \cup ExclusiveSet
                  ELSE {}
  <2>1. Becomes("addSatellite", C)
    BY <1>4, AddSatelliteStack
  <2>2. UNCHANGED channels /\ UNCHANGED experiments
    BY <1>4 DEF DoAddSatellite, objects
  <2>3. Argument \in Satellites /\ Has("addSatellite", Argument)
    BY <2>1, ArgumentTypes DEF Becomes, SatelliteCalls, Has
  <2>4. \A f \in Rest : f[1] \in {"register", "channels", "enable", "disable"}
    BY <2>1 DEF Becomes, Below
  <2>5. \A e \in C : e[1] \notin DestroyNames
    BY DEF DestroyNames, ExclusiveSet
  <2>6. ~HasAny(DestroyNames)'
    BY NoDestruction, <2>1, <2>5 DEF CreateNames
  <2>7. /\ Due = {<<"addSatellite", Argument>>} \cup Rest /\ Due' = C \cup Rest
        /\ C = {} \/ C = {<<"register", Experiment(Argument)>>, <<"insert", Argument>>} \cup ExclusiveSet
    BY <2>1 DEF Becomes
  <2> HIDE DEF C
  <2>8. /\ \A s : <<"channels", s>> \notin C /\ <<"addSatellite", s>> \notin C
        /\ \A c : <<"add", c>> \notin C
        /\ \A s : <<"insert", s>> \in C => s = Argument
        /\ \A c : <<"register", c>> \in C => c = Experiment(Argument) /\ <<"insert", Argument>> \in C
    BY <2>7 DEF ExclusiveSet
  <2>9. \A s : /\ Has("channels", s)' <=> Has("channels", s)
               /\ Has("insert", s) => Has("insert", s)'
    BY <2>7, <2>8 DEF Has
  <2>15. \A s : ~Has("addSatellite", s)'
    BY <2>4, <2>7, <2>8 DEF Has
  <2>12. \A s : Has("insert", s)' => s = Argument
    BY <2>4, <2>7, <2>8 DEF Has
  <2>13. \A c : /\ Has("add", c)' => Has("add", c)
                /\ Has("register", c)' => Has("register", c) \/ c = Experiment(Argument)
    BY <2>4, <2>7, <2>8 DEF Has
  <2>14. \A c, s : Has("register", c)' /\ ~Has("register", c) /\ s = Argument => Has("insert", s)'
    BY <2>4, <2>7, <2>8 DEF Has
  <2>10. \A s \in Satellites : Experiment(s) = Experiment(Argument) => s = Argument
    BY DEF Experiment
  <2>11. \A s \in Satellites, k \in ChannelKinds : <<s, k>> # Experiment(Argument)
    BY KindsAssumption DEF Experiment
  <2> QED BY <2>2, <2>3, <2>6, <2>9, <2>10, <2>11, <2>12, <2>13, <2>14, <2>15 DEF CreatingOK
<1>5. CASE \/ DoStopThreads \/ DoStopFlag \/ DoErase \/ DoEraseAll \/ DoClear \/ DoClose
           \/ DoDeleteExperiment \/ DoDelete \/ DoDestroy \/ DoActivate \/ DoStopExperiments
  <2>1. PICK n, C : Calls(n) /\ Becomes(n, C) /\ \A e \in C : e[1] \in Callees(n)
    BY MainBecomes
  <2>2. n \in DestroyNames
    BY <1>5, <2>1, StepNames DEF Calls, DestroyNames
  <2>3. \A m \in Callees(n) : m \notin CreateNames
    BY <2>2 DEF Callees, CreateNames, DestroyNames
  <2> QED BY <2>1, <2>2, <2>3, NoCreation, CreatingNone
<1>6. CASE ~(DoRegister \/ DoChannels \/ DoInsert \/ DoAddSatellite \/ DoStopThreads \/ DoStopFlag
            \/ DoErase \/ DoEraseAll \/ DoClear \/ DoClose \/ DoDeleteExperiment \/ DoDelete \/ DoDestroy \/
            DoActivate \/ DoStopExperiments)
  <2>1. ASSUME NEW n, Calls(n)
        PROVE  n \in {"lock", "add", "unlock", "stopManager", "join", "enable", "disable",
                  "upgrade", "exclusive", "giveUp", "shared", "pushElevationAngle", "exit"}
    BY <1>6, <2>1, StepNames, ReturnSteps DEF MainStep, Calls
  <2>2. Keeps({"channels", "insert"}, (CreateNames \cup DestroyNames))
    <3>1. \A n : Calls(n) => n \notin {"channels", "insert"} /\
              \A m \in Callees(n) : m \notin (CreateNames \cup DestroyNames)
      BY <2>1 DEF Callees, CreateNames, DestroyNames
    <3> QED BY <3>1, QuietKeeps
  <2>3. UNCHANGED channels /\ UNCHANGED experiments
    BY <1>6, ReturnSteps DEF MainStep, objects, manager, locks, signal, DoLock, DoAdd, DoUnlock,
        DoStopManager, DoJoin, DoEnable, DoDisable, DoUpgrade, DoExclusive, DoGiveUp, DoShared,
        DoPushElevationAngle, DoExit
  <2> QED BY <2>2, <2>3, CreatingKept
<1> QED BY <1>1, <1>2, <1>3, <1>4, <1>5, <1>6

(* Creation when a log is parsed. *)
LEMMA CreatingLog ==
    ASSUME IInv, (\E s \in Satellites : SatVis(s) \/ Feed(s) \/ Elevation(s)) \/ Gap \/ EndOfInput
    PROVE  CreatingOK'
<1> USE DEF IInv
<1>1. UNCHANGED channels /\ UNCHANGED experiments
  BY DEF SatVis, Feed, Elevation, Gap, EndOfInput, objects
<1>2. CASE \E s \in Satellites : SatVis(s) /\ s \notin channels /\ \E n \in {"enable",
          "disable"} : Starts(CreateSet(s) \cup {<<n, s>>})
  <2>1. PICK s \in Satellites, n \in {"enable", "disable"} :
              SatVis(s) /\ s \notin channels /\ Starts(CreateSet(s) \cup {<<n, s>>})
    BY <1>2
  <2>2. /\ \A r : Has("channels", r)' <=> r = s
        /\ \A r : Has("addSatellite", r)' <=> r = s
        /\ \A r : ~Has("insert", r)' /\ ~Has("channels", r)
        /\ \A c : ~Has("add", c)'
        /\ \A c : Has("register", c)' => \E k \in ChannelKinds : c = <<s, k>>
    BY <2>1 DEF Starts, Has, CreateSet
  <2>3. ~HasAny(DestroyNames)' /\ ~HasAny({"insert"})'
    BY <2>1 DEF Starts, HasAny, CreateSet, DestroyNames
  <2>4. s \notin experiments
    BY <2>1, <2>2 DEF OwnersOK
  <2>5. \A r \in Satellites : ~Has("register", Experiment(r))'
    <3>1. \A r \in Satellites, k \in ChannelKinds : Experiment(r) # <<s, k>>
      BY KindsAssumption DEF Experiment
    <3> QED BY <3>1, <2>2
  <2> QED BY <1>1, <2>1, <2>2, <2>3, <2>4, <2>5 DEF CreatingOK
<1>3. CASE \A e \in Due' : e[1] \notin CreateNames
  BY <1>3, CreatingNone
<1>4. CASE \E s \in Satellites : SatVis(s) /\ s \in channels /\ \E n \in {"enable",
          "disable"} : Starts(DestroySet(s) \cup {<<n, s>>})
  BY <1>3, <1>4 DEF Starts, DestroySet, ExclusiveSet, CreateNames
<1>5. CASE \E s \in Satellites, n \in {"enable", "disable"} : Starts({<<n, s>>})
  BY <1>3, <1>5 DEF Starts, CreateNames
<1>6. CASE (\E s \in Satellites : Feed(s) \/ Elevation(s)) \/ Gap \/ EndOfInput
  <2>1. Keeps({}, CreateNames)
    BY <1>6, LogKeeps DEF CreateNames
  <2>2. Due = {}
    BY <1>6, LogStacks DEF Starts
  <2> QED BY <1>3, <2>1, <2>2 DEF Keeps
<1> QED BY <1>2, <1>4, <1>5, <1>6, SatVisStarts

(* Creation when the signal handler moves. *)
LEMMA CreatingHandler ==
    ASSUME IInv, HandlerEffect
    PROVE  CreatingOK'
<1> USE DEF IInv
<1>1. Due' = Due /\ UNCHANGED channels /\ experiments' \subseteq experiments
  BY DEF HandlerEffect
<1>2. /\ \A n, a : Has(n, a)' = Has(n, a)
      /\ HasAny(CreateNames)' = HasAny(CreateNames)
      /\ HasAny(DestroyNames)' = HasAny(DestroyNames)
      /\ HasAny({"insert"})' = HasAny({"insert"})
  BY <1>1 DEF Has, HasAny, CreateNames, DestroyNames
<1> QED BY <1>1, <1>2 DEF CreatingOK

(***************************************************************************)
(* In which order things are destroyed.                                    *)
(***************************************************************************)
(* Destruction when nothing new is due and nothing is added. *)
LEMMA DestroyingKept ==
    ASSUME DestroyingOK,
           Keeps({"stopThreads", "erase", "close", "deleteExperiment", "delete", "destroy"},
                 {"delete", "deleteExperiment", "close", "stopThreads", "erase", "stopExperiments",
                     "eraseAll"}),
           Registered' \subseteq Registered, UNCHANGED channels, experiments' \subseteq experiments,
           \A w \in Workers : ToSet(order'[w]) \subseteq ToSet(order[w])
    PROVE  DestroyingOK'
<1>1. \A a : /\ Has("delete", a)' <=> Has("delete", a)
             /\ Has("deleteExperiment", a)' <=> Has("deleteExperiment", a)
             /\ Has("close", a)' <=> Has("close", a)
             /\ Has("stopThreads", a)' <=> Has("stopThreads", a)
             /\ Has("erase", a)' <=> Has("erase", a)
             /\ Has("destroy", a) => Has("destroy", a)'
  BY DEF Keeps, Has
<1>2. HasAny({"stopExperiments", "eraseAll"})' => HasAny({"stopExperiments", "eraseAll"})
  BY DEF Keeps, HasAny
<1>3. \A s : Doomed(s) => Doomed(s)'
  BY <1>1 DEF Doomed
<1> QED BY <1>1, <1>2, <1>3 DEF DestroyingOK

(* Destruction when neither the calls nor the objects change. *)
LEMMA DestroyingSame ==
    ASSUME DestroyingOK,
           Keeps({"stopThreads", "erase", "close", "deleteExperiment", "delete", "destroy"},
                 {"delete", "deleteExperiment", "close", "stopThreads", "erase", "stopExperiments",
                     "eraseAll"}),
           UNCHANGED registered, UNCHANGED channels, UNCHANGED experiments, UNCHANGED order
    PROVE  DestroyingOK'
BY DestroyingKept DEF Registered

(* Destruction when none is due. *)
LEMMA DestroyingNone ==
    ASSUME \A e \in Due' : e[1] \notin DestroyNames
    PROVE  DestroyingOK'
<1>1. ~HasAny({"stopExperiments", "eraseAll"})'
  BY DEF HasAny, DestroyNames
<1>2. \A a : /\ ~Has("delete", a)' /\ ~Has("deleteExperiment", a)' /\ ~Has("close", a)'
             /\ ~Has("stopThreads", a)' /\ ~Has("erase", a)'
  BY DEF Has, DestroyNames
<1> QED BY <1>1, <1>2 DEF DestroyingOK

(* Destruction when main moves. *)
LEMMA DestroyingBase ==
    ASSUME BaseStep
    PROVE  DestroyingOK'
<1> USE DEF BaseStep, IInv
<1>0. /\ registered \in Seq(Calculations) /\ DOMAIN registered = 1 .. Len(registered)
  BY LenProperties DEF TypeOK
<1>1. CASE DoAdd \/ DoChannels \/ DoInsert
  <2>1. PICK n, C : Calls(n) /\ Becomes(n, C) /\ \A e \in C : e[1] \in Callees(n)
    BY MainBecomes
  <2>2. n \in {"add", "channels", "insert"}
    BY <1>1, <2>1, StepNames DEF Calls
  <2>3. Callees(n) = {} /\ n \in CreateNames
    BY <2>2 DEF Callees, CreateNames
  <2> QED BY <2>1, <2>3, NoDestruction, DestroyingNone
<1>2. CASE DoStopThreads
  <2> DEFINE C == IF Argument \in channels THEN ReleaseSet(ChannelCalculations(Argument)) ELSE {}
  <2>1. Becomes("stopThreads", C)
    BY <1>2, StopThreadsStack
  <2>2. UNCHANGED registered /\ UNCHANGED channels /\ UNCHANGED experiments /\ UNCHANGED order
    BY <1>2 DEF DoStopThreads, manager
  <2>3. Argument \in Satellites /\ Has("stopThreads", Argument)
    BY <2>1, ArgumentTypes DEF Becomes, SatelliteCalls, Has
  <2>4. /\ \A e \in C : e[1] \in {"stopFlag", "lock", "erase"}
        /\ \A c : <<"erase", c>> \in C => \E k \in ChannelKinds : c = <<Argument, k>>
        /\ Argument \in channels => \A k \in ChannelKinds : <<"erase", <<Argument, k>>>> \in C
    BY DEF ReleaseSet, ChannelCalculations
  <2>5. Due = {<<"stopThreads", Argument>>} \cup Rest /\ Due' = C \cup Rest
    BY <2>1 DEF Becomes
  <2> HIDE DEF C
  <2>6. \A a : /\ Has("delete", a)' <=> Has("delete", a)
               /\ Has("deleteExperiment", a)' <=> Has("deleteExperiment", a)
               /\ Has("close", a)' <=> Has("close", a)
               /\ Has("destroy", a)' <=> Has("destroy", a)
    BY <2>4, <2>5 DEF Has
  <2>7. /\ \A s : Has("stopThreads", s)' => Has("stopThreads", s)
        /\ \A s : Has("stopThreads", s) => Has("stopThreads", s)' \/ s = Argument
        /\ \A c : Has("erase", c) => Has("erase", c)'
        /\ \A c : Has("erase", c)' => Has("erase", c) \/ \E k \in ChannelKinds : c = <<Argument, k>>
        /\ \A s, k : s = Argument /\ k \in ChannelKinds /\ s \in channels => Has("erase", <<s, k>>)'
    BY <2>4, <2>5 DEF Has
  <2>8. HasAny({"stopExperiments", "eraseAll"})' => HasAny({"stopExperiments", "eraseAll"})
    BY <2>4, <2>5 DEF HasAny
  <2>9. \A s : Doomed(s)' <=> Doomed(s)
    BY <2>6 DEF Doomed
  <2>10. Registered' = Registered
    BY <2>2 DEF Registered
  <2>11. \A s \in Satellites, k \in ChannelKinds : Experiment(s) # <<Argument, k>>
    BY KindsAssumption DEF Experiment
  <2>12. /\ HasAny({"stopExperiments", "eraseAll"})' => \A s \in channels' : Doomed(s)'
         /\ \A c \in Calculations : Has("erase", c)' => Doomed(c[1])'
    <3>1. Doomed(Argument)
      BY <2>3 DEF DestroyingOK
    <3> QED BY <2>2, <2>3, <2>7, <2>8, <2>9, <3>1 DEF DestroyingOK
  <2>13. ASSUME NEW s \in Satellites
         PROVE  /\ Has("delete", s)' => /\ s \in channels'
                                        /\ s \notin experiments' \/ Has("close",
                                               s)' \/ Has("deleteExperiment", s)'
                /\ Has("close", s)' => Has("delete", s)'
                /\ Has("deleteExperiment", s)' =>
                      Has("delete", s)' /\ (Experiment(s) \notin Registered' \/ Has("erase", Experiment(s))')
                /\ Has("erase", Experiment(s))' => Has("deleteExperiment", s)'
                /\ Has("stopThreads", s)' => Doomed(s)'
    BY <2>2, <2>6, <2>7, <2>9, <2>10, <2>11 DEF DestroyingOK
  <2>14. ASSUME NEW s \in Satellites, NEW k \in ChannelKinds
         PROVE  /\ Has("delete", s)' => \/ <<s, k>> \notin Registered'
                                        \/ Has("stopThreads", s)' \/ Has("erase", <<s, k>>)'
                /\ Has("deleteExperiment", s)' =>
                      <<s, k>> \notin Registered' /\ \A w \in Workers : <<s, k>> \notin ToSet(order'[w])
    BY <2>2, <2>6, <2>7, <2>10 DEF DestroyingOK
  <2> QED BY <2>12, <2>13, <2>14 DEF DestroyingOK
<1>3. CASE DoErase
  <2> DEFINE C == IF Contains(registered, Argument) THEN ClearSet ELSE {<<"unlock", "none">>}
  <2>1. Becomes("erase", C)
    BY <1>3, EraseStack
  <2>2. registered' = RemoveFirst(registered, Argument) /\ UNCHANGED channels /\
            UNCHANGED experiments /\ UNCHANGED order
    BY <1>3 DEF DoErase, objects
  <2>3. Registered' = Registered \ {Argument}
    <3>1. \A i, j \in 1 .. Len(registered) : registered[i] = registered[j] => i = j
      BY <1>0 DEF RegistryOK
    <3> QED BY <1>0, <2>2, <3>1, EraseFirst DEF Registered
  <2>4. \A e \in C : e[1] \in {"clear", "unlock"}
    BY DEF ClearSet
  <2>5. Due = {<<"erase", Argument>>} \cup Rest /\ Due' = C \cup Rest
    BY <2>1 DEF Becomes
  <2> HIDE DEF C
  <2>6. \A a : /\ Has("delete", a)' <=> Has("delete", a)
               /\ Has("deleteExperiment", a)' <=> Has("deleteExperiment", a)
               /\ Has("close", a)' <=> Has("close", a)
               /\ Has("destroy", a)' <=> Has("destroy", a)
               /\ Has("stopThreads", a)' <=> Has("stopThreads", a)
    BY <2>4, <2>5 DEF Has
  <2>7. \A c : /\ Has("erase", c)' => Has("erase", c)
               /\ Has("erase", c) => Has("erase", c)' \/ c = Argument
    BY <2>4, <2>5 DEF Has
  <2>8. HasAny({"stopExperiments", "eraseAll"})' => HasAny({"stopExperiments", "eraseAll"})
    BY <2>4, <2>5 DEF HasAny
  <2>9. \A s : Doomed(s)' <=> Doomed(s)
    BY <2>6 DEF Doomed
  <2> QED BY <2>2, <2>3, <2>6, <2>7, <2>8, <2>9 DEF DestroyingOK
<1>4. CASE DoDestroy
  <2> DEFINE C == IF Argument \in channels
                  THEN {<<"stopThreads", Argument>>, <<"close", Argument>>, <<"delete",
                      Argument>>} \cup ExclusiveSet
                  ELSE {}
  <2>1. Becomes("destroy", C)
    BY <1>4, DestroyStack
  <2>2. UNCHANGED registered /\ UNCHANGED channels /\ UNCHANGED experiments /\ UNCHANGED order
    BY <1>4 DEF DoDestroy, manager
  <2>3. Argument \in Satellites
    BY <2>1, ArgumentTypes DEF Becomes, SatelliteCalls
  <2>4. \A f \in Rest : f[1] \in AfterDestroy
    BY <2>1 DEF Becomes, Below
  <2>5. Due = {<<"destroy", Argument>>} \cup Rest /\ Due' = C \cup Rest
    BY <2>1 DEF Becomes
  <2>6. /\ Argument \notin channels => C = {}
        /\ \A e \in C : e[1] \in {"stopThreads", "close", "delete", "upgrade", "exclusive", "giveUp"}
        /\ \A n, s : n \in {"stopThreads", "close", "delete"} => (<<n, s>> \in C <=> s = Argument /\
               s \in channels)
    BY DEF ExclusiveSet
  <2> HIDE DEF C
  <2>7. \A s : /\ Has("delete", s)' <=> s = Argument /\ s \in channels
               /\ Has("close", s)' <=> s = Argument /\ s \in channels
               /\ Has("stopThreads", s)' <=> s = Argument /\ s \in channels
    BY <2>4, <2>5, <2>6 DEF Has, AfterDestroy
  <2>8. \A a : ~Has("deleteExperiment", a)' /\ ~Has("erase", a)' /\ ~Has("delete", a)
    BY <2>4, <2>5, <2>6 DEF Has, AfterDestroy
  <2>9. HasAny({"stopExperiments", "eraseAll"})' => HasAny({"stopExperiments", "eraseAll"})
    BY <2>5, <2>6 DEF HasAny
  <2>10. \A s \in channels : Doomed(s) => Doomed(s)'
    <3>1. \A s : Has("destroy", s) => Has("destroy", s)' \/ s = Argument
      BY <2>5 DEF Has
    <3> QED BY <3>1, <2>7, <2>8 DEF Doomed
  <2>11. \A s : Has("delete", s)' => Doomed(s)'
    BY DEF Doomed
  <2> QED BY <2>2, <2>7, <2>8, <2>9, <2>10, <2>11 DEF DestroyingOK
<1>5. CASE DoDelete
  <2>1. Becomes("delete", {})
    BY <1>5, ReturnSteps
  <2>2. UNCHANGED registered /\ channels' = channels \ {Argument} /\ UNCHANGED experiments /\ UNCHANGED order
    BY <1>5 DEF DoDelete, manager
  <2>3. \A f \in Rest : f[1] \in AfterDestroy
    BY <2>1, DeleteFacts
  <2>4. Due = {<<"delete", Argument>>} \cup Rest /\ Due' = Rest
    BY <2>1 DEF Becomes
  <2>5. \A a : /\ ~Has("delete", a)' /\ ~Has("deleteExperiment", a)' /\ ~Has("close", a)'
               /\ ~Has("stopThreads", a)' /\ ~Has("erase", a)'
    BY <2>3, <2>4 DEF Has, AfterDestroy
  <2>6. HasAny({"stopExperiments", "eraseAll"})' => HasAny({"stopExperiments", "eraseAll"})
    BY <2>4 DEF HasAny
  <2>7. \A s : s # Argument /\ Doomed(s) => Doomed(s)'
    BY <2>4 DEF Doomed, Has
  <2> QED BY <2>2, <2>5, <2>6, <2>7 DEF DestroyingOK
<1>6. CASE DoClose
  <2> DEFINE C == IF Argument \in experiments
                  THEN ReleaseSet({Experiment(Argument)}) \cup {<<"deleteExperiment", Argument>>} ELSE {}
  <2>1. Becomes("close", C)
    BY <1>6, CloseStack
  <2>2. UNCHANGED registered /\ UNCHANGED channels /\ UNCHANGED experiments /\ UNCHANGED order
    BY <1>6 DEF DoClose, objects, manager
  <2>3. Argument \in Satellites
    BY <2>1, ArgumentTypes DEF Becomes, SatelliteCalls
  <2>4. \A f \in Rest : f[1] \in AfterClose
    BY <2>1 DEF Becomes, Below
  <2>5. Due = {<<"close", Argument>>} \cup Rest /\ Due' = C \cup Rest
    BY <2>1 DEF Becomes
  <2>6. /\ \A e \in C : e[1] \in {"stopFlag", "lock", "erase", "deleteExperiment"}
        /\ \A c : <<"erase", c>> \in C <=> c = Experiment(Argument) /\ Argument \in experiments
        /\ \A s : <<"deleteExperiment", s>> \in C <=> s = Argument /\ s \in experiments
    BY DEF ReleaseSet
  <2> HIDE DEF C
  <2>7. \A s : /\ Has("delete", s)' <=> Has("delete", s)
               /\ Has("destroy", s)' <=> Has("destroy", s)
               /\ Has("close", s)' => Has("close", s)
               /\ Has("close", s) => Has("close", s)' \/ s = Argument
               /\ ~Has("stopThreads", s)' /\ ~Has("stopThreads", s)
    BY <2>4, <2>5, <2>6 DEF Has, AfterClose, AfterDestroy
  <2>8. \A s : Has("deleteExperiment", s)' <=> s = Argument /\ s \in experiments
    BY <2>4, <2>5, <2>6 DEF Has, AfterClose, AfterDestroy
  <2>9. \A c : /\ Has("erase", c)' <=> c = Experiment(Argument) /\ Argument \in experiments
               /\ ~Has("erase", c)
    BY <2>4, <2>5, <2>6 DEF Has, AfterClose, AfterDestroy
  <2>10. \A w : ~Has("clear", w)
    BY <2>4, <2>5 DEF Has, AfterClose, AfterDestroy
  <2>11. HasAny({"stopExperiments", "eraseAll"})' => HasAny({"stopExperiments", "eraseAll"})
    BY <2>5, <2>6 DEF HasAny
  <2>12. \A s : Doomed(s)' <=> Doomed(s)
    BY <2>7 DEF Doomed
  <2>13. Has("close", Argument) /\ Has("delete", Argument)
    <3>1. Has("close", Argument)
      BY <2>5 DEF Has
    <3> QED BY <3>1, <2>3 DEF DestroyingOK
  <2>14. ASSUME NEW k \in ChannelKinds
         PROVE  <<Argument, k>> \notin Registered /\ \A w \in Workers : <<Argument, k>> \notin ToSet(order[w])
    <3>1. <<Argument, k>> \notin Registered
      BY <2>3, <2>7, <2>9, <2>13 DEF DestroyingOK
    <3> QED BY <3>1, <2>10 DEF RegistryOK
  <2>15. Registered' = Registered
    BY <2>2 DEF Registered
  <2>16. /\ \A s \in Satellites : Experiment(s) = Experiment(Argument) => s = Argument
         /\ Experiment(Argument)[1] = Argument
         /\ \A s \in Satellites, k \in ChannelKinds : <<s, k>> # Experiment(Argument)
    BY KindsAssumption DEF Experiment
  <2>17. /\ HasAny({"stopExperiments", "eraseAll"})' => \A s \in channels' : Doomed(s)'
         /\ \A c \in Calculations : Has("erase", c)' => Doomed(c[1])'
    <3>1. \A s : s = Argument => Doomed(s)'
      BY <2>12, <2>13 DEF Doomed
    <3> QED BY <2>2, <2>9, <2>11, <2>12, <2>16, <3>1 DEF DestroyingOK
  <2>18. ASSUME NEW s \in Satellites
         PROVE  /\ Has("delete", s)' => /\ s \in channels'
                                        /\ s \notin experiments' \/ Has("close",
                                               s)' \/ Has("deleteExperiment", s)'
                /\ Has("close", s)' => Has("delete", s)'
                /\ Has("deleteExperiment", s)' =>
                      Has("delete", s)' /\ (Experiment(s) \notin Registered' \/ Has("erase", Experiment(s))')
                /\ Has("erase", Experiment(s))' => Has("deleteExperiment", s)'
                /\ Has("stopThreads", s)' => Doomed(s)'
    <3>1. /\ Has("delete", s) => s \in channels /\ (s \notin experiments \/ Has("close", s))
          /\ Has("close", s) => Has("delete", s)
      <4>1. ~Has("deleteExperiment", s)
        BY <2>4, <2>5 DEF Has, AfterClose, AfterDestroy
      <4> QED BY <4>1 DEF DestroyingOK
    <3> QED BY <2>2, <2>7, <2>8, <2>9, <2>13, <2>15, <2>16, <3>1
  <2>19. ASSUME NEW s \in Satellites, NEW k \in ChannelKinds
         PROVE  /\ Has("delete", s)' => \/ <<s, k>> \notin Registered'
                                        \/ Has("stopThreads", s)' \/ Has("erase", <<s, k>>)'
                /\ Has("deleteExperiment", s)' =>
                      <<s, k>> \notin Registered' /\ \A w \in Workers : <<s, k>> \notin ToSet(order'[w])
    <3>1. Has("delete", s) => <<s, k>> \notin Registered
      BY <2>7, <2>9 DEF DestroyingOK
    <3> QED BY <2>2, <2>7, <2>8, <2>14, <2>15, <3>1
  <2> QED BY <2>17, <2>18, <2>19 DEF DestroyingOK
<1>7. CASE DoDeleteExperiment
  <2>1. Becomes("deleteExperiment", {})
    BY <1>7, ReturnSteps
  <2>2. UNCHANGED registered /\ UNCHANGED channels /\ experiments' = experiments \ {Argument} /\ UNCHANGED order
    BY <1>7 DEF DoDeleteExperiment, manager
  <2>3. \A f \in Rest : f[1] \in AfterClose
    BY <2>1 DEF Becomes, Below
  <2>4. Due = {<<"deleteExperiment", Argument>>} \cup Rest /\ Due' = Rest
    BY <2>1 DEF Becomes
  <2>5. \A s : /\ Has("delete", s)' <=> Has("delete", s)
               /\ Has("destroy", s)' <=> Has("destroy", s)
               /\ Has("close", s)' <=> Has("close", s)
               /\ ~Has("stopThreads", s)' /\ ~Has("stopThreads", s)
               /\ ~Has("erase", s)' /\ ~Has("erase", s)
               /\ ~Has("deleteExperiment", s)'
               /\ Has("deleteExperiment", s) => s = Argument
    BY <2>3, <2>4 DEF Has, AfterClose, AfterDestroy
  <2>6. HasAny({"stopExperiments", "eraseAll"})' => HasAny({"stopExperiments", "eraseAll"})
    BY <2>4 DEF HasAny
  <2>7. \A s : Doomed(s)' <=> Doomed(s)
    BY <2>5 DEF Doomed
  <2>8. Registered' = Registered
    BY <2>2 DEF Registered
  <2> QED BY <2>2, <2>5, <2>6, <2>7, <2>8 DEF DestroyingOK
<1>8. CASE DoEraseAll \/ DoJoin
  <2>1. registered' = <<>> /\ UNCHANGED channels /\ UNCHANGED experiments /\ UNCHANGED order
    BY <1>8 DEF DoEraseAll, DoJoin, objects
  <2>2. PICK n, C : Calls(n) /\ Becomes(n, C) /\ \A e \in C : e[1] \in Callees(n)
    BY MainBecomes
  <2>3. n \in {"eraseAll", "join"}
    BY <1>8, <2>2, StepNames DEF Calls
  <2>4. Keeps({"stopThreads", "erase", "close", "deleteExperiment", "delete", "destroy"}, {"delete",
            "deleteExperiment", "close", "stopThreads", "erase", "stopExperiments", "eraseAll"})
    <3>1. n \notin {"stopThreads", "erase", "close", "deleteExperiment", "delete", "destroy"} /\
              \A m \in Callees(n) : m \notin {"delete", "deleteExperiment", "close", "stopThreads",
              "erase", "stopExperiments", "eraseAll"}
      BY <2>3 DEF Callees
    <3>2. \A e \in C : e[1] \notin {"delete", "deleteExperiment", "close", "stopThreads", "erase",
              "stopExperiments", "eraseAll"}
      BY <2>2, <3>1
    <3> QED BY <2>2, <3>1, <3>2, BecomesKeeps
  <2>5. Registered' = {}
    BY <2>1, ToSetProperties DEF Registered
  <2> QED BY <2>1, <2>4, <2>5, DestroyingKept
<1>9. CASE DoClear
  <2>1. Becomes("clear", {})
    BY <1>9, ReturnSteps
  <2>2. /\ order' = [order EXCEPT ![Argument] = <<>>] /\ UNCHANGED channels /\ UNCHANGED experiments
        /\ UNCHANGED registered
    BY <1>9 DEF DoClear, objects
  <2>3. Argument \in Workers
    BY <2>1, ArgumentTypes DEF Becomes
  <2>4. ToSet(order'[Argument]) = {} /\ \A w \in Workers : w # Argument => order'[w] = order[w]
    BY <2>2, <2>3, ToSetProperties DEF TypeOK
  <2>5. Keeps({"stopThreads", "erase", "close", "deleteExperiment", "delete", "destroy"}, {"delete",
            "deleteExperiment", "close", "stopThreads", "erase", "stopExperiments", "eraseAll"})
    BY <2>1, ReturnKeeps
  <2>6. Registered' = Registered
    BY <2>2 DEF Registered
  <2> QED BY <2>2, <2>4, <2>5, <2>6, DestroyingKept
<1>10. CASE ~(DoAdd \/ DoChannels \/ DoInsert \/ DoStopThreads \/ DoErase \/ DoDestroy \/ DoDelete
            \/ DoClose \/ DoDeleteExperiment \/ DoEraseAll \/ DoClear \/ DoJoin)
  <2>1. ASSUME NEW n, Calls(n)
        PROVE  n \in {"register", "stopFlag", "lock", "unlock", "stopManager", "enable", "disable",
                  "addSatellite", "upgrade", "exclusive", "giveUp", "activate", "deactivate", "stopExperiments",
                  "shared", "pushElevationAngle", "exit"}
    BY <1>10, <2>1, StepNames, ReturnSteps DEF MainStep, Calls
  <2>2. Keeps({"stopThreads", "erase", "close", "deleteExperiment", "delete", "destroy"}, {"delete",
            "deleteExperiment", "close", "stopThreads", "erase", "stopExperiments", "eraseAll"})
    <3>1. \A n : Calls(n) => n \notin {"stopThreads", "erase", "close", "deleteExperiment", "delete",
              "destroy"} /\ \A m \in Callees(n) : m \notin {"delete", "deleteExperiment", "close",
              "stopThreads", "erase", "stopExperiments", "eraseAll"}
      BY <2>1 DEF Callees
    <3> QED BY <3>1, QuietKeeps
  <2>3. UNCHANGED registered /\ UNCHANGED channels /\ UNCHANGED experiments /\ UNCHANGED order
    BY <1>10, ReturnSteps DEF MainStep, objects, manager, locks, signal, DoRegister, DoStopFlag,
        DoLock, DoUnlock, DoStopManager, DoEnable, DoDisable, DoAddSatellite, DoUpgrade,
        DoExclusive, DoGiveUp, DoActivate, DoStopExperiments, DoShared, DoPushElevationAngle, DoExit
  <2> QED BY <2>2, <2>3, DestroyingSame
<1> QED BY <1>1, <1>2, <1>3, <1>4, <1>5, <1>6, <1>7, <1>8, <1>9, <1>10

(* Destruction when a worker or the order maker moves. *)
LEMMA DestroyingThread ==
    ASSUME IInv, NEW w \in Workers, Fill(w) \/ Worker(w)
    PROVE  DestroyingOK'
<1> USE DEF IInv
<1>1. Due' = Due
  <2>1. UNCHANGED todo /\ UNCHANGED interrupted /\ UNCHANGED suspended
    BY HandlerThread DEF signal
  <2> QED BY <2>1 DEF Due, HandlerRuns
<1>2. UNCHANGED registered /\ UNCHANGED channels /\ UNCHANGED experiments
  BY DEF Fill, Worker, Enter, Push, Share, Pushed, Leave, ReturnWorker, WorkerUnchanged, objects
<1>3. \A v \in Workers : ToSet(order'[v]) \subseteq ToSet(order[v]) \/ ToSet(order'[v]) = Registered
  BY OrderStep
<1>4. /\ \A n, a : Has(n, a)' = Has(n, a)
      /\ Registered' = Registered
  BY <1>1, <1>2 DEF Has, Registered
<1>5. /\ \A s : Doomed(s)' = Doomed(s)
      /\ HasAny({"stopExperiments", "eraseAll"})' = HasAny({"stopExperiments", "eraseAll"})
  BY <1>1, <1>4 DEF Doomed, HasAny
<1> QED BY <1>2, <1>3, <1>4, <1>5 DEF DestroyingOK

(* Destruction when a log is parsed. *)
LEMMA DestroyingLog ==
    ASSUME IInv, (\E s \in Satellites : SatVis(s) \/ Feed(s) \/ Elevation(s)) \/ Gap \/ EndOfInput
    PROVE  DestroyingOK'
<1> USE DEF IInv
<1>1. UNCHANGED registered /\ UNCHANGED channels /\ UNCHANGED experiments /\ UNCHANGED order
  BY DEF SatVis, Feed, Elevation, Gap, EndOfInput, objects, manager
<1>2. CASE \A e \in Due' : e[1] \notin DestroyNames
  BY <1>2, DestroyingNone
<1>3. CASE \E s \in Satellites : \E n \in {"enable", "disable"} :
              \/ s \notin channels /\ Starts(CreateSet(s) \cup {<<n, s>>})
              \/ Starts({<<n, s>>})
  BY <1>2, <1>3 DEF Starts, CreateSet, DestroyNames
<1>4. CASE (\E s \in Satellites : Feed(s) \/ Elevation(s))
  <2>1. Keeps({}, DestroyNames)
    BY <1>4, LogKeeps DEF DestroyNames
  <2>2. Due = {}
    BY <1>4, LogStacks DEF Starts
  <2> QED BY <1>2, <2>1, <2>2 DEF Keeps
<1>5. CASE \E s \in Satellites : s \in channels /\ \E n \in {"enable",
          "disable"} : Starts(DestroySet(s) \cup {<<n, s>>})
  <2>1. PICK s \in Satellites, n \in {"enable", "disable"} : s \in channels /\
            Starts(DestroySet(s) \cup {<<n, s>>})
    BY <1>5
  <2>2. \A r : /\ Has("delete", r)' <=> r = s
               /\ Has("close", r)' <=> r = s
               /\ Has("stopThreads", r)' <=> r = s
               /\ ~Has("erase", r)' /\ ~Has("deleteExperiment", r)'
    BY <2>1 DEF Starts, Has, DestroySet, ExclusiveSet
  <2>3. ~HasAny({"stopExperiments", "eraseAll"})'
    BY <2>1 DEF Starts, HasAny, DestroySet, ExclusiveSet
  <2>4. \A r : Has("delete", r)' => Doomed(r)'
    BY DEF Doomed
  <2> QED BY <1>1, <2>1, <2>2, <2>3, <2>4 DEF DestroyingOK
<1>6. CASE Gap \/ EndOfInput
  <2>1. \E C \in {{<<"lock", "none">>, <<"eraseAll", "none">>, <<"activate", "none">>},
                  {<<"stopManager", "none">>, <<"join", "none">>, <<"exit",
                      "none">>}} : Starts(TearDownSet \cup C)
    BY <1>6, LogStacks
  <2>2. \A a : ~Has("delete", a)' /\ ~Has("close", a)' /\ ~Has("erase", a)' /\ ~Has("deleteExperiment", a)'
    BY <2>1 DEF Starts, Has, TearDownSet
  <2>3. \A s \in Satellites : Has("destroy", s)'
    BY <2>1 DEF Starts, Has, TearDownSet
  <2>4. \A s \in Satellites : Doomed(s)'
    BY <2>3 DEF Doomed
  <2>5. channels \subseteq Satellites /\ \A c \in Calculations : c[1] \in Satellites
    BY DEF TypeOK, Calculations
  <2> QED BY <1>1, <2>2, <2>4, <2>5 DEF DestroyingOK
<1> QED BY <1>3, <1>4, <1>5, <1>6, SatVisStarts

(* Destruction when the signal handler moves. *)
LEMMA DestroyingHandler ==
    ASSUME IInv, HandlerEffect
    PROVE  DestroyingOK'
<1> USE DEF IInv
<1>1. Due' = Due /\ UNCHANGED channels /\ experiments' \subseteq experiments /\ UNCHANGED order
  BY DEF HandlerEffect
<1>2. Registered' \subseteq Registered
  <2>1. registered' = registered \/ registered' = <<>>
    BY DEF HandlerEffect
  <2> QED BY <2>1, ToSetProperties DEF Registered
<1> QED BY <1>1, <1>2, SameKeeps, DestroyingKept

(***************************************************************************)
(* What the workers may count on, as long as they have not been joined.    *)
(***************************************************************************)
(* The elements of a sequence with one more. *)
LEMMA SetAppend ==
    ASSUME NEW S, NEW q \in Seq(S), NEW x \in S
    PROVE  ToSet(Append(q, x)) = ToSet(q) \cup {x}
<1> DEFINE p == Append(q, x)
<1>1. p \in Seq(S) /\ Len(p) = Len(q) + 1 /\ Len(q) \in Nat
  BY AppendProperties, LenProperties
<1>2. (\A i \in 1 .. Len(q) : p[i] = q[i]) /\ p[Len(q) + 1] = x
  BY AppendProperties
<1> HIDE DEF p
<1>3. /\ \A e : e \in ToSet(p) <=> \E i \in 1 .. Len(p) : p[i] = e
      /\ \A e : e \in ToSet(q) <=> \E i \in 1 .. Len(q) : q[i] = e
  BY <1>1, ToSetProperties
<1>4. \A e : e \in ToSet(q) => e \in ToSet(p)
  <2>1. \A i \in 1 .. Len(q) : i \in 1 .. Len(p)
    BY <1>1
  <2> QED BY <1>2, <1>3, <2>1
<1>5. x \in ToSet(p)
  <2>1. Len(q) + 1 \in 1 .. Len(p)
    BY <1>1
  <2> QED BY <1>2, <1>3, <2>1
<1>6. \A e : e \in ToSet(p) => e \in ToSet(q) \/ e = x
  <2>1. \A i \in 1 .. Len(p) : i \in 1 .. Len(q) \/ i = Len(q) + 1
    BY <1>1
  <2> QED BY <1>2, <1>3, <2>1
<1> QED BY <1>4, <1>5, <1>6 DEF p

(* isActive_ when it does not change. *)
LEMMA PredictionsKept ==
    ASSUME PredictionsReady, Keeps({"activate"}, {"addSatellite", "deactivate"}),
           UNCHANGED isActive, UNCHANGED phase
    PROVE  PredictionsReady'
<1>1. /\ HasAny({"addSatellite"})' => HasAny({"addSatellite"})
      /\ HasAny({"deactivate"})' => HasAny({"deactivate"})
      /\ HasAny({"activate"}) => HasAny({"activate"})'
  BY DEF Keeps, HasAny
<1> QED BY <1>1 DEF PredictionsReady

(* What is registered when nothing is created and nothing erased. *)
LEMMA RegisteredKept ==
    ASSUME AllRegistered, Keeps({"add", "delete", "destroy"}, {}), alive' \subseteq alive,
           Registered \subseteq Registered', UNCHANGED phase
    PROVE  AllRegistered'
<1>1. \A a : /\ Has("add", a) => Has("add", a)'
             /\ Has("delete", a) => Has("delete", a)'
             /\ Has("destroy", a) => Has("destroy", a)'
  BY DEF Keeps, Has
<1>2. \A s : Doomed(s) => Doomed(s)'
  BY <1>1 DEF Doomed
<1> QED BY <1>1, <1>2 DEF AllRegistered

(* The satellites' experiments when none goes and no channels come. *)
LEMMA ChannelsKept ==
    ASSUME ChannelsHaveExperiments, Keeps({"addSatellite", "insert", "delete"}, {"channels"}),
           channels' \subseteq channels, experiments \subseteq experiments'
    PROVE  ChannelsHaveExperiments'
<1>1. \A s : /\ Has("addSatellite", s) => Has("addSatellite", s)'
             /\ Has("insert", s) => Has("insert", s)'
             /\ Has("delete", s) => Has("delete", s)'
             /\ Has("channels", s)' => Has("channels", s)
  BY DEF Keeps, Has
<1> QED BY <1>1 DEF ChannelsHaveExperiments

(* The experiments that workers push to, when none goes. *)
LEMMA FedKept ==
    ASSUME FedHaveExperiments, fed' \subseteq fed, experiments \subseteq experiments',
           Registered' \subseteq Registered, \A w \in Workers : ToSet(order'[w]) \subseteq ToSet(order[w])
    PROVE  FedHaveExperiments'
BY DEF FedHaveExperiments

(* What lives belongs to a satellite with channels, unless it is being created. *)
LEMMA OwnersLive ==
    ASSUME OwnersOK, TypeOK, \A e \in Due : e[1] \notin CreateNames, NEW c \in alive
    PROVE  c[1] \in channels
<1>1. \A s : ~Has("channels", s) /\ ~Has("insert", s)
  BY DEF Has, CreateNames
<1>2. PICK s \in Satellites, k \in ChannelKinds \cup {"experiment"} : c = <<s, k>>
  BY DEF TypeOK, Calculations
<1>3. CASE k \in ChannelKinds
  BY <1>1, <1>2, <1>3 DEF OwnersOK
<1>4. CASE k = "experiment"
  <2>1. Experiment(s) \in alive
    BY <1>2, <1>4 DEF Experiment
  <2> QED BY <1>1, <1>2, <2>1 DEF OwnersOK
<1> QED BY <1>2, <1>3, <1>4

(* isActive_ when main moves. *)
LEMMA PredictionsBase ==
    ASSUME BaseStep, PredictionsReady
    PROVE  PredictionsReady'
<1> USE DEF BaseStep, IInv
<1>1. CASE DoActivate
  <2>1. CASE Becomes("activate", {}) /\ isActive' = TRUE
    <3>1. \A e \in Due' : e[1] # "deactivate"
      BY <2>1 DEF Becomes, Below
    <3> QED BY <2>1, <3>1 DEF PredictionsReady, HasAny
  <2>2. CASE Becomes("deactivate", {}) /\ isActive' = FALSE
    <3>1. \A e \in Due' : e[1] # "addSatellite"
      BY <2>2, NoCreation DEF CreateNames, DestroyNames
    <3>2. UNCHANGED phase
      BY <1>1 DEF DoActivate
    <3>3. Due = {<<"deactivate", Argument>>} \cup Due'
      BY <2>2 DEF Becomes
    <3>4. HasAny({"deactivate"})
      <4>1. <<"deactivate", Argument>> \in Due
        BY <3>3
      <4> QED BY <4>1 DEF HasAny
    <3>5. HasAny({"activate"}) => HasAny({"activate"})'
      BY <3>3 DEF HasAny
    <3>6. ~HasAny({"addSatellite"})'
      BY <3>1 DEF HasAny
    <3> QED BY <3>2, <3>4, <3>5, <3>6 DEF PredictionsReady
  <2> QED BY <1>1, <2>1, <2>2, ReturnSteps
<1>2. CASE DoExit
  <2>1. phase' = "done" /\ UNCHANGED isActive
    BY <1>2 DEF DoExit, objects
  <2>2. Becomes("exit", {})
    BY <1>2, ReturnSteps
  <2>3. HasAny({"addSatellite"})' => HasAny({"addSatellite"})
    BY <2>2 DEF Becomes, HasAny
  <2> QED BY <2>1, <2>3 DEF PredictionsReady
<1>3. CASE ~DoActivate /\ ~DoExit
  <2>1. ASSUME NEW n, Calls(n)
        PROVE  n \in {"register", "stopFlag", "lock", "add", "erase", "eraseAll", "clear", "unlock",
                  "stopManager", "join", "channels", "enable", "disable", "stopThreads", "destroy", "delete",
                  "addSatellite", "upgrade", "exclusive", "giveUp", "insert", "close", "deleteExperiment",
                  "stopExperiments", "shared", "pushElevationAngle"}
    BY <1>3, <2>1, StepNames, ReturnSteps DEF MainStep, Calls
  <2>2. Keeps({"activate"}, {"addSatellite", "deactivate"})
    <3>1. \A n : Calls(n) => n \notin {"activate"} /\ \A m \in Callees(n) : m \notin {"addSatellite",
              "deactivate"}
      BY <2>1 DEF Callees
    <3> QED BY <3>1, QuietKeeps
  <2>3. UNCHANGED isActive /\ UNCHANGED phase
    BY <1>3, ReturnSteps DEF MainStep, objects, manager, locks, signal, DoRegister, DoStopFlag,
        DoLock, DoAdd, DoErase, DoEraseAll, DoClear, DoUnlock, DoStopManager, DoJoin, DoChannels,
        DoEnable, DoDisable, DoStopThreads, DoDestroy, DoDelete, DoAddSatellite, DoUpgrade,
        DoExclusive, DoGiveUp, DoInsert, DoClose, DoDeleteExperiment, DoStopExperiments, DoShared,
        DoPushElevationAngle
  <2> QED BY <2>2, <2>3, PredictionsKept
<1> QED BY <1>1, <1>2, <1>3

(* What is registered when main moves. *)
LEMMA RegisteredBase ==
    ASSUME BaseStep, AllRegistered, interrupted = "no"
    PROVE  AllRegistered'
<1> USE DEF BaseStep, IInv
<1>0. /\ registered \in Seq(Calculations) /\ DOMAIN registered = 1 .. Len(registered)
      /\ \A c \in alive : c \in Calculations
  BY LenProperties DEF TypeOK
<1>1. CASE DoRegister
  <2> DEFINE C == IF managerStopped THEN {} ELSE {<<"lock", "none">>, <<"add", Argument>>}
  <2>1. Becomes("register", C)
    BY <1>1, RegisterStack
  <2>2. alive' = alive \cup {Argument} /\ UNCHANGED phase /\ UNCHANGED registered
    BY <1>1 DEF DoRegister, manager
  <2>3. phase = "input" => <<"add", Argument>> \in C
    BY DEF PhaseOK
  <2> HIDE DEF C
  <2>4. \A a : /\ Has("add", a) => Has("add", a)'
               /\ Has("delete", a) => Has("delete", a)'
               /\ Has("destroy", a) => Has("destroy", a)'
    BY <2>1 DEF Becomes, Has
  <2>5. \A s : Doomed(s) => Doomed(s)'
    BY <2>4 DEF Doomed
  <2>6. phase = "input" => \A c : c = Argument => Has("add", c)'
    BY <2>1, <2>3 DEF Becomes, Has
  <2>7. Registered' = Registered
    BY <2>2 DEF Registered
  <2> QED BY <2>2, <2>4, <2>5, <2>6, <2>7 DEF AllRegistered
<1>2. CASE DoAdd
  <2>1. Becomes("add", {})
    BY <1>2, ReturnSteps
  <2>2. registered' = Append(registered, Argument) /\ UNCHANGED alive /\ UNCHANGED phase
    BY <1>2 DEF DoAdd, objects
  <2>3. Argument \in Calculations
    BY <2>1, ArgumentTypes DEF Becomes, CalculationCalls
  <2>4. Registered' = Registered \cup {Argument}
    BY <1>0, <2>2, <2>3, SetAppend DEF Registered
  <2>5. \A a : /\ Has("add", a) => Has("add", a)' \/ a = Argument
               /\ Has("delete", a) => Has("delete", a)'
               /\ Has("destroy", a) => Has("destroy", a)'
    BY <2>1 DEF Becomes, Has
  <2>6. \A s : Doomed(s) => Doomed(s)'
    BY <2>5 DEF Doomed
  <2> QED BY <2>2, <2>4, <2>5, <2>6 DEF AllRegistered
<1>3. CASE DoErase
  <2> DEFINE C == IF Contains(registered, Argument) THEN ClearSet ELSE {<<"unlock", "none">>}
  <2>1. Becomes("erase", C)
    BY <1>3, EraseStack
  <2>2. registered' = RemoveFirst(registered, Argument) /\ UNCHANGED alive /\ UNCHANGED phase
    BY <1>3 DEF DoErase, objects
  <2>3. Registered' = Registered \ {Argument}
    <3>1. \A i, j \in 1 .. Len(registered) : registered[i] = registered[j] => i = j
      BY <1>0 DEF RegistryOK
    <3> QED BY <1>0, <2>2, <3>1, EraseFirst DEF Registered
  <2> HIDE DEF C
  <2>4. \A a : /\ Has("add", a) => Has("add", a)'
               /\ Has("delete", a) => Has("delete", a)'
               /\ Has("destroy", a) => Has("destroy", a)'
    BY <2>1 DEF Becomes, Has
  <2>5. \A s : Doomed(s) => Doomed(s)'
    BY <2>4 DEF Doomed
  <2>6. \A c : c = Argument => Doomed(c[1])
    <3>1. Has("erase", Argument) /\ Argument \in Calculations
      BY <2>1, ArgumentTypes DEF Becomes, Has, CalculationCalls
    <3> QED BY <3>1 DEF DestroyingOK
  <2> QED BY <2>2, <2>3, <2>4, <2>5, <2>6 DEF AllRegistered
<1>4. CASE DoEraseAll
  <2>1. Becomes("eraseAll", ClearSet)
    BY <1>4, EraseAllStack
  <2>2. UNCHANGED alive /\ UNCHANGED phase
    BY <1>4 DEF DoEraseAll, objects
  <2>3. \A c \in alive : c[1] \in channels
    BY <2>1, NoCreation, OwnersLive DEF DestroyNames
  <2>4. \A s \in channels : Doomed(s)
    <3>1. <<"eraseAll", Argument>> \in Due
      BY <2>1 DEF Becomes
    <3>2. HasAny({"stopExperiments", "eraseAll"})
      BY <3>1 DEF HasAny
    <3> QED BY <3>2 DEF DestroyingOK
  <2>5. \A s : Doomed(s) => Doomed(s)'
    BY <2>1 DEF Becomes, Has, Doomed
  <2> QED BY <2>2, <2>3, <2>4, <2>5 DEF AllRegistered
<1>5. CASE DoJoin
  <2>1. Becomes("join", {}) /\ UNCHANGED phase
    BY <1>5, ReturnSteps DEF DoJoin
  <2>2. HasAny({"stopManager", "join", "exit"})
    <3>1. <<"join", Argument>> \in Due
      BY <2>1 DEF Becomes
    <3> QED BY <3>1 DEF HasAny
  <2>3. phase # "input"
    BY <2>2 DEF PhaseOK
  <2> QED BY <2>1, <2>3 DEF AllRegistered
<1>6. CASE DoDelete
  <2>1. Becomes("delete", {})
    BY <1>6, ReturnSteps
  <2>2. /\ alive' = alive \ ChannelCalculations(Argument)
        /\ UNCHANGED phase /\ UNCHANGED registered
    BY <1>6 DEF DoDelete, manager
  <2>3. \A c \in alive' : c[1] # Argument
    <3>1. Experiment(Argument) \notin alive
      BY <2>1, DeleteFacts
    <3> QED BY <1>0, <2>2, <3>1 DEF Calculations, Experiment, ChannelCalculations
  <2>4. \A c : Has("add", c) => Has("add", c)'
    BY <2>1 DEF Becomes, Has
  <2>5. \A s : s # Argument /\ Doomed(s) => Doomed(s)'
    BY <2>1 DEF Becomes, Has, Doomed
  <2>6. Registered' = Registered
    BY <2>2 DEF Registered
  <2> QED BY <2>2, <2>3, <2>4, <2>5, <2>6 DEF AllRegistered
<1>7. CASE DoDestroy
  <2> DEFINE C == IF Argument \in channels
                  THEN {<<"stopThreads", Argument>>, <<"close", Argument>>, <<"delete",
                      Argument>>} \cup ExclusiveSet
                  ELSE {}
  <2>1. Becomes("destroy", C)
    BY <1>7, DestroyStack
  <2>2. UNCHANGED alive /\ UNCHANGED phase /\ UNCHANGED registered
    BY <1>7 DEF DoDestroy, manager
  <2>3. \A c \in alive : c[1] \in channels
    BY <2>1, NoCreation, OwnersLive DEF DestroyNames
  <2>4. Argument \in channels => <<"delete", Argument>> \in C
    OBVIOUS
  <2> HIDE DEF C
  <2>5. \A c : /\ Has("add", c) => Has("add", c)'
               /\ Has("delete", c) => Has("delete", c)'
               /\ Has("destroy", c) => Has("destroy", c)' \/ c = Argument
               /\ c = Argument /\ c \in channels => Has("delete", c)'
    BY <2>1, <2>4 DEF Becomes, Has
  <2>6. \A s \in channels : Doomed(s) => Doomed(s)'
    BY <2>5 DEF Doomed
  <2>7. Registered' = Registered
    BY <2>2 DEF Registered
  <2> QED BY <2>2, <2>3, <2>5, <2>6, <2>7 DEF AllRegistered
<1>8. CASE DoDeleteExperiment
  <2>1. Becomes("deleteExperiment", {})
    BY <1>8, ReturnSteps
  <2>2. alive' \subseteq alive /\ UNCHANGED phase /\ UNCHANGED registered
    BY <1>8 DEF DoDeleteExperiment, manager
  <2>3. Keeps({"add", "delete", "destroy"}, {})
    BY <2>1, ReturnKeeps
  <2> QED BY <2>2, <2>3, RegisteredKept DEF Registered
<1>9. CASE DoExit
  BY <1>9 DEF DoExit, AllRegistered
<1>10. CASE ~(DoRegister \/ DoAdd \/ DoErase \/ DoEraseAll \/ DoJoin \/ DoDelete \/ DoDestroy \/
            DoDeleteExperiment \/ DoExit)
  <2>1. ASSUME NEW n, Calls(n)
        PROVE  n \in {"stopFlag", "lock", "clear", "unlock", "stopManager", "channels", "enable",
                  "disable", "stopThreads", "addSatellite", "upgrade", "exclusive", "giveUp", "insert", "close",
                  "activate", "deactivate", "stopExperiments", "shared", "pushElevationAngle"}
    BY <1>10, <2>1, StepNames, ReturnSteps DEF MainStep, Calls
  <2>2. Keeps({"add", "delete", "destroy"}, {})
    <3>1. \A n : Calls(n) => n \notin {"add", "delete", "destroy"} /\ \A m \in Callees(n) : m \notin {}
      BY <2>1 DEF Callees
    <3> QED BY <3>1, QuietKeeps
  <2>3. UNCHANGED alive /\ UNCHANGED phase /\ UNCHANGED registered
    BY <1>10, ReturnSteps DEF MainStep, objects, manager, locks, signal, DoStopFlag, DoLock,
        DoClear, DoUnlock, DoStopManager, DoChannels, DoEnable, DoDisable, DoStopThreads,
        DoAddSatellite, DoUpgrade, DoExclusive, DoGiveUp, DoInsert, DoClose, DoActivate,
        DoStopExperiments, DoShared, DoPushElevationAngle
  <2> QED BY <2>2, <2>3, RegisteredKept DEF Registered
<1> QED BY <1>1, <1>2, <1>3, <1>4, <1>5, <1>6, <1>7, <1>8, <1>9, <1>10

(* The satellites' experiments when main moves. *)
LEMMA ChannelsBase ==
    ASSUME BaseStep, ChannelsHaveExperiments, PredictionsReady
    PROVE  ChannelsHaveExperiments'
<1> USE DEF BaseStep, IInv
<1>1. CASE DoChannels
  <2>1. Becomes("channels", {})
    BY <1>1, ReturnSteps
  <2>2. channels' = channels \cup {Argument} /\ UNCHANGED experiments
    BY <1>1 DEF DoChannels
  <2>3. \A s : /\ Has("channels", s)' => Has("channels", s)
               /\ s = Argument => Has("channels", s)
               /\ Has("addSatellite", s) => Has("addSatellite", s)'
               /\ Has("insert", s) => Has("insert", s)'
               /\ Has("delete", s) => Has("delete", s)'
    BY <2>1 DEF Becomes, Has
  <2> QED BY <2>2, <2>3 DEF ChannelsHaveExperiments
<1>2. CASE DoDelete
  <2>1. Becomes("delete", {})
    BY <1>2, ReturnSteps
  <2>2. channels' = channels \ {Argument} /\ UNCHANGED experiments
    BY <1>2 DEF DoDelete
  <2>3. \A e \in Due' : e[1] \notin CreateNames
    BY <2>1, NoCreation DEF DestroyNames
  <2>4. \A s : /\ ~Has("channels", s)'
               /\ Has("addSatellite", s) => Has("addSatellite", s)'
               /\ Has("insert", s) => Has("insert", s)'
               /\ s # Argument /\ Has("delete", s) => Has("delete", s)'
    BY <2>1, <2>3 DEF Becomes, Has, CreateNames
  <2> QED BY <2>2, <2>4 DEF ChannelsHaveExperiments
<1>3. CASE DoAddSatellite
  <2> DEFINE C == {<<"register", Experiment(Argument)>>, <<"insert", Argument>>} \cup ExclusiveSet
  <2>1. Calls("addSatellite") /\ UNCHANGED channels /\ UNCHANGED experiments
    BY <1>3 DEF DoAddSatellite, objects
  <2>2. isActive
    <3>1. \E D : Becomes("addSatellite", D)
      BY <1>3, AddSatelliteStack
    <3>2. <<"addSatellite", Argument>> \in Due
      BY <3>1 DEF Becomes
    <3>3. HasAny({"addSatellite"})
      BY <3>2 DEF HasAny
    <3> QED BY <3>3 DEF PredictionsReady
  <2>3. Becomes("addSatellite", C)
    BY <1>3, <2>2, AddSatelliteStack
  <2>4. /\ \A e \in C : e[1] # "channels"
        /\ <<"insert", Argument>> \in C
    BY DEF ExclusiveSet
  <2> HIDE DEF C
  <2>5. \A s : /\ Has("channels", s)' => Has("channels", s)
               /\ Has("addSatellite", s) => Has("addSatellite", s)' \/ s = Argument
               /\ s = Argument => Has("insert", s)'
               /\ Has("insert", s) => Has("insert", s)'
               /\ Has("delete", s) => Has("delete", s)'
    BY <2>3, <2>4 DEF Becomes, Has
  <2> QED BY <2>1, <2>5 DEF ChannelsHaveExperiments
<1>4. CASE DoInsert
  <2>1. Becomes("insert", {})
    BY <1>4, ReturnSteps
  <2>2. UNCHANGED channels /\ experiments' = experiments \cup {Argument}
    BY <1>4 DEF DoInsert
  <2>3. \A s : /\ Has("channels", s)' => Has("channels", s)
               /\ Has("addSatellite", s) => Has("addSatellite", s)'
               /\ Has("insert", s) => Has("insert", s)' \/ s = Argument
               /\ Has("delete", s) => Has("delete", s)'
    BY <2>1 DEF Becomes, Has
  <2> QED BY <2>2, <2>3 DEF ChannelsHaveExperiments
<1>5. CASE DoDeleteExperiment
  <2>1. Becomes("deleteExperiment", {})
    BY <1>5, ReturnSteps
  <2>2. UNCHANGED channels /\ experiments' = experiments \ {Argument}
    BY <1>5 DEF DoDeleteExperiment
  <2>3. \A s : /\ Has("channels", s)' => Has("channels", s)
               /\ Has("addSatellite", s) => Has("addSatellite", s)'
               /\ Has("insert", s) => Has("insert", s)'
               /\ Has("delete", s) => Has("delete", s)'
               /\ s = Argument => Has("deleteExperiment", s)
    BY <2>1 DEF Becomes, Has
  <2>4. \A s \in Satellites : s = Argument => Has("delete", s)
    BY <2>3 DEF DestroyingOK
  <2> QED BY <2>2, <2>3, <2>4 DEF ChannelsHaveExperiments
<1>6. CASE ~DoChannels /\ ~DoDelete /\ ~DoAddSatellite /\ ~DoInsert /\ ~DoDeleteExperiment
  <2>1. ASSUME NEW n, Calls(n)
        PROVE  n \in {"register", "stopFlag", "lock", "add", "erase", "eraseAll", "clear", "unlock",
                  "stopManager", "join", "enable", "disable", "stopThreads", "destroy", "upgrade", "exclusive",
                  "giveUp", "close", "activate", "deactivate", "stopExperiments", "shared",
                  "pushElevationAngle", "exit"}
    BY <1>6, <2>1, StepNames, ReturnSteps DEF MainStep, Calls
  <2>2. Keeps({"addSatellite", "insert", "delete"}, {"channels"})
    <3>1. \A n : Calls(n) => n \notin {"addSatellite", "insert", "delete"} /\
              \A m \in Callees(n) : m \notin {"channels"}
      BY <2>1 DEF Callees
    <3> QED BY <3>1, QuietKeeps
  <2>3. UNCHANGED channels /\ UNCHANGED experiments
    BY <1>6, ReturnSteps DEF MainStep, objects, manager, locks, signal, DoRegister, DoStopFlag,
        DoLock, DoAdd, DoErase, DoEraseAll, DoClear, DoUnlock, DoStopManager, DoJoin, DoEnable,
        DoDisable, DoStopThreads, DoDestroy, DoUpgrade, DoExclusive, DoGiveUp, DoClose, DoActivate,
        DoStopExperiments, DoShared, DoPushElevationAngle, DoExit
  <2> QED BY <2>2, <2>3, ChannelsKept
<1> QED BY <1>1, <1>2, <1>3, <1>4, <1>5, <1>6

(* The experiments that workers push to, when main moves. *)
LEMMA FedBase ==
    ASSUME BaseStep, FedHaveExperiments
    PROVE  FedHaveExperiments'
<1> USE DEF BaseStep, IInv
<1>0. registered \in Seq(Calculations) /\ DOMAIN registered = 1 .. Len(registered)
  BY LenProperties DEF TypeOK
<1>1. CASE DoAdd
  <2>1. Becomes("add", {})
    BY <1>1, ReturnSteps
  <2>2. /\ registered' = Append(registered, Argument) /\ UNCHANGED fed /\ UNCHANGED experiments
        /\ UNCHANGED order
    BY <1>1 DEF DoAdd, objects
  <2>3. Argument \in Calculations
    BY <2>1, ArgumentTypes DEF Becomes, CalculationCalls
  <2>4. Registered' = Registered \cup {Argument}
    BY <1>0, <2>2, <2>3, SetAppend DEF Registered
  <2>5. ASSUME NEW s \in fed, NEW k \in ChannelKinds PROVE <<s, k>> # Argument
    <3>1. s \in channels /\ s \in Satellites
      BY DEF OwnersOK, TypeOK
    <3>2. ~Has("add", <<s, k>>)
      BY <3>1 DEF CreatingOK
    <3> QED BY <2>1, <3>2 DEF Becomes, Has
  <2> QED BY <2>2, <2>4, <2>5 DEF FedHaveExperiments
<1>2. CASE DoErase
  <2>1. registered' = RemoveFirst(registered, Argument) /\ UNCHANGED fed /\ UNCHANGED experiments /\
            UNCHANGED order
    BY <1>2 DEF DoErase, objects
  <2>2. Registered' \subseteq Registered
    <3>1. \A i, j \in 1 .. Len(registered) : registered[i] = registered[j] => i = j
      BY <1>0 DEF RegistryOK
    <3>2. Registered' = Registered \ {Argument}
      BY <1>0, <2>1, <3>1, EraseFirst DEF Registered
    <3> QED BY <3>2
  <2> QED BY <2>1, <2>2, FedKept
<1>3. CASE DoEraseAll \/ DoJoin
  <2>1. registered' = <<>> /\ UNCHANGED fed /\ UNCHANGED experiments /\ UNCHANGED order
    BY <1>3 DEF DoEraseAll, DoJoin, objects
  <2>2. Registered' = {}
    BY <2>1, ToSetProperties DEF Registered
  <2> QED BY <2>1, <2>2, FedKept
<1>4. CASE DoClear
  <2>1. Becomes("clear", {})
    BY <1>4, ReturnSteps
  <2>2. /\ order' = [order EXCEPT ![Argument] = <<>>] /\ UNCHANGED fed /\ UNCHANGED experiments
        /\ UNCHANGED registered
    BY <1>4 DEF DoClear, objects
  <2>3. Argument \in Workers
    BY <2>1, ArgumentTypes DEF Becomes
  <2>4. ToSet(order'[Argument]) = {} /\ \A w \in Workers : w # Argument => order'[w] = order[w]
    BY <2>2, <2>3, ToSetProperties DEF TypeOK
  <2>5. Registered' = Registered
    BY <2>2 DEF Registered
  <2> QED BY <2>2, <2>4, <2>5, FedKept
<1>5. CASE DoDelete
  <2>1. fed' \subseteq fed /\ UNCHANGED experiments /\ UNCHANGED registered /\ UNCHANGED order
    BY <1>5 DEF DoDelete, manager
  <2> QED BY <2>1, FedKept DEF Registered
<1>6. CASE DoInsert
  <2>1. UNCHANGED fed /\ experiments \subseteq experiments' /\ UNCHANGED registered /\ UNCHANGED order
    BY <1>6 DEF DoInsert, manager
  <2> QED BY <2>1, FedKept DEF Registered
<1>7. CASE DoDeleteExperiment
  <2>1. Becomes("deleteExperiment", {})
    BY <1>7, ReturnSteps
  <2>2. UNCHANGED fed /\ experiments' = experiments \ {Argument} /\ UNCHANGED registered /\ UNCHANGED order
    BY <1>7 DEF DoDeleteExperiment, manager
  <2>3. Argument \in Satellites /\ Has("deleteExperiment", Argument)
    BY <2>1, ArgumentTypes DEF Becomes, SatelliteCalls, Has
  <2>4. \A k \in ChannelKinds : /\ <<Argument, k>> \notin Registered
                                /\ \A w \in Workers : <<Argument, k>> \notin ToSet(order[w])
    BY <2>3 DEF DestroyingOK
  <2>5. Registered' = Registered
    BY <2>2 DEF Registered
  <2> QED BY <2>2, <2>4, <2>5 DEF FedHaveExperiments
<1>8. CASE ~(DoAdd \/ DoErase \/ DoEraseAll \/ DoJoin \/ DoClear \/ DoDelete \/ DoInsert \/
    DoDeleteExperiment)
  <2>1. UNCHANGED fed /\ UNCHANGED experiments /\ UNCHANGED registered /\ UNCHANGED order
    BY <1>8, ReturnSteps DEF MainStep, objects, manager, DoRegister, DoStopFlag, DoLock, DoUnlock,
        DoStopManager, DoChannels, DoEnable, DoDisable, DoStopThreads, DoDestroy, DoAddSatellite,
        DoUpgrade, DoExclusive, DoGiveUp, DoClose, DoActivate, DoStopExperiments, DoShared,
        DoPushElevationAngle, DoExit
  <2> QED BY <2>1, FedKept DEF Registered
<1> QED BY <1>1, <1>2, <1>3, <1>4, <1>5, <1>6, <1>7, <1>8

(* What workers may count on when nothing of it changes. *)
LEMMA ReadyKept ==
    ASSUME ReadyOK, Joined' = Joined, Due' = Due, UNCHANGED <<channels, fed, isActive, phase>>,
           Registered' = Registered, alive' = alive, experiments \subseteq experiments',
           \A w \in Workers : ToSet(order'[w]) \subseteq ToSet(order[w])
    PROVE  ReadyOK'
<1>1. PredictionsReady => PredictionsReady'
  BY SameKeeps, PredictionsKept
<1>2. AllRegistered => AllRegistered'
  BY SameKeeps, RegisteredKept
<1>3. ChannelsHaveExperiments => ChannelsHaveExperiments'
  BY SameKeeps, ChannelsKept
<1>4. FedHaveExperiments => FedHaveExperiments'
  BY FedKept
<1> QED BY <1>1, <1>2, <1>3, <1>4 DEF ReadyOK

(* What workers may count on when main moves. *)
LEMMA ReadyBase ==
    ASSUME BaseStep
    PROVE  ReadyOK'
<1>1. Joined' = Joined
  BY HandlerBase
<1>2. ~Joined => interrupted = "no"
  BY DEF BaseStep, Joined, HandlerRuns
<1>3. ~Joined => PredictionsReady /\ AllRegistered /\ ChannelsHaveExperiments /\ FedHaveExperiments
  BY DEF BaseStep, IInv, ReadyOK
<1> QED BY <1>1, <1>2, <1>3, PredictionsBase, RegisteredBase, ChannelsBase, FedBase DEF ReadyOK

(* Whoever has been joined has returned. *)
LEMMA JoinedMeans ==
    ASSUME IInv, Joined
    PROVE  AllReturned
<1> USE DEF IInv
<1>1. CASE interrupted = "handled"
  BY <1>1 DEF HandlerOK
<1>2. CASE HandlerRuns /\ <<"join", "none">> \notin ToSet(todo)
  <2>1. todo \notin {HandlerCalls, Tail(HandlerCalls)}
    BY <1>2, HandlerLists
  <2> QED BY <1>2, <2>1 DEF HandlerOK
<1> QED BY <1>1, <1>2 DEF Joined

(* No worker comes to a key that satellites_ does not have. *)
LEMMA PushFinds ==
    ASSUME IInv
    PROVE  PushFindsExperiment
<1> USE DEF IInv
<1>1. ASSUME NEW w \in Workers, running[w][1] \in {"waiting", "pushing"}
      PROVE  running[w][2][1] \in experiments
  <2>1. ~AllReturned
    BY <1>1 DEF AllReturned
  <2>2. ~Joined
    BY <2>1, JoinedMeans
  <2>3. FedHaveExperiments
    BY <2>2 DEF ReadyOK
  <2>4. /\ running[w] \notin {Idle, <<"returned", "none">>}
        /\ running[w][2][2] \in ChannelKinds /\ running[w][2][1] \in fed
    BY <1>1 DEF WorkersOK, Idle
  <2>5. order[w] # <<>> /\ running[w][2] = Head(order[w])
    BY <2>4 DEF WorkersOK
  <2>6. order[w] \in Seq(Calculations)
    BY DEF TypeOK
  <2>7. Head(order[w]) \in ToSet(order[w]) /\ Head(order[w]) \in Calculations
    <3>1. Len(order[w]) \in Nat /\ Len(order[w]) >= 1 /\ Head(order[w]) = order[w][1] /\
              order[w][1] \in Calculations
      BY <2>5, <2>6, EmptySeq, HeadTailProperties, LenProperties, ElementOfSeq
    <3>2. 1 \in 1 .. Len(order[w])
      BY <3>1
    <3> QED BY <2>6, <3>1, <3>2, ToSetProperties
  <2>8. running[w][2] = <<running[w][2][1], running[w][2][2]>>
    BY <2>5, <2>7 DEF Calculations
  <2>9. <<running[w][2][1], running[w][2][2]>> \in ToSet(order[w])
    BY <2>5, <2>7, <2>8
  <2> QED BY <2>3, <2>4, <2>9 DEF FedHaveExperiments
<1> QED BY <1>1 DEF PushFindsExperiment

(* The calls that are due, and the phase, do not change when a worker moves. *)
LEMMA ThreadFacts ==
    ASSUME IInv, NEW w \in Workers, Fill(w) \/ Worker(w)
    PROVE  /\ Due' = Due /\ ~Joined /\ Joined' = Joined /\ StackOK' /\ UNCHANGED interrupted
           /\ UNCHANGED registered /\ Registered' = Registered
           /\ UNCHANGED channels /\ UNCHANGED fed /\ UNCHANGED experiments /\ UNCHANGED isActive
           /\ UNCHANGED alive /\ UNCHANGED phase /\ UNCHANGED managerStopped /\ UNCHANGED access
<1>1. UNCHANGED todo /\ UNCHANGED interrupted /\ UNCHANGED suspended /\ ~AllReturned
  BY HandlerThread DEF signal
<1>2. UNCHANGED channels /\ UNCHANGED fed /\ UNCHANGED experiments /\ UNCHANGED isActive
      /\ UNCHANGED alive /\ UNCHANGED managerStopped /\ UNCHANGED access /\ UNCHANGED registered
  BY DEF Fill, Worker, Enter, Push, Share, Pushed, Leave, ReturnWorker, WorkerUnchanged, objects, locks
<1>3. UNCHANGED phase
  <2>1. CASE Pushed(w)
    <3>1. running[w][2][1] \in experiments
      BY <2>1, PushFinds DEF Pushed, PushFindsExperiment
    <3> QED BY <2>1, <3>1 DEF Pushed
  <2>2. CASE ~Pushed(w)
    BY <2>2 DEF Fill, Worker, Enter, Push, Share, Leave, ReturnWorker
  <2> QED BY <2>1, <2>2
<1>4. Due' = Due
  BY <1>1 DEF Due, HandlerRuns
<1>5. Joined' = Joined
  BY <1>1 DEF Joined, HandlerRuns
<1>6. ~Joined
  BY <1>1, JoinedMeans
<1>7. StackOK'
  <2>1. ~HasAny({"handled"})'
    BY <1>4 DEF IInv, StackOK, HasAny
  <2>2. Good(todo)' /\ Good(suspended)' /\ (~HandlerRuns => suspended = <<>>)'
    BY <1>1 DEF IInv, StackOK, HandlerRuns, Good, Ordered, Released
  <2> QED BY <2>1, <2>2 DEF StackOK
<1> QED BY <1>1, <1>2, <1>3, <1>4, <1>5, <1>6, <1>7 DEF Registered

(* What workers may count on when one of them moves. *)
LEMMA ReadyThread ==
    ASSUME IInv, NEW w \in Workers, Fill(w) \/ Worker(w)
    PROVE  ReadyOK'
<1>1. PredictionsReady /\ AllRegistered /\ ChannelsHaveExperiments /\ FedHaveExperiments
  BY ThreadFacts DEF IInv, ReadyOK
<1>2. PredictionsReady'
  BY <1>1, ThreadFacts, SameKeeps, PredictionsKept
<1>3. AllRegistered'
  BY <1>1, ThreadFacts, SameKeeps, RegisteredKept
<1>4. ChannelsHaveExperiments'
  BY <1>1, ThreadFacts, SameKeeps, ChannelsKept
<1>5. FedHaveExperiments'
  <2>1. \A v \in Workers : ToSet(order'[v]) \subseteq ToSet(order[v]) \/ ToSet(order'[v]) = Registered
    BY OrderStep
  <2> QED BY <1>1, <2>1, ThreadFacts DEF FedHaveExperiments
<1> QED BY <1>2, <1>3, <1>4, <1>5 DEF ReadyOK

(* What workers may count on when the signal handler moves: nothing once they
   are joined. *)
LEMMA ReadyHandler ==
    ASSUME IInv, HandlerEffect
    PROVE  ReadyOK'
<1> USE DEF IInv
<1>0. Joined \in BOOLEAN /\ Joined' \in BOOLEAN
  BY DEF Joined
<1>1. CASE Joined'
  BY <1>1 DEF ReadyOK
<1>2. CASE ~Joined'
  <2>1. /\ ~Joined /\ Due' = Due /\ UNCHANGED <<registered, alive, experiments, isActive>>
        /\ UNCHANGED <<channels, fed, order, phase>>
    BY <1>2 DEF HandlerEffect
  <2>2. /\ Registered' = Registered /\ alive' = alive /\ experiments \subseteq experiments'
        /\ \A w \in Workers : ToSet(order'[w]) \subseteq ToSet(order[w])
    BY <2>1 DEF Registered
  <2>3. Joined' = Joined
    BY <1>2, <2>1, <1>0
  <2> QED BY <2>1, <2>2, <2>3, ReadyKept
<1> QED BY <1>1, <1>2

(* A log starts calls and changes nothing but what is fed. *)
LEMMA LogFacts ==
    ASSUME IInv, (\E s \in Satellites : SatVis(s) \/ Feed(s) \/ Elevation(s)) \/ Gap \/ EndOfInput
    PROVE  /\ \E C : Starts(C)
           /\ UNCHANGED registered /\ UNCHANGED channels /\ UNCHANGED experiments /\ UNCHANGED order
           /\ UNCHANGED isActive /\ UNCHANGED alive /\ UNCHANGED managerStopped /\ UNCHANGED access
           /\ UNCHANGED running /\ UNCHANGED interrupted /\ Registered' = Registered
           /\ phase = "input" /\ fed \subseteq fed'
<1>1. UNCHANGED registered /\ UNCHANGED channels /\ UNCHANGED experiments /\ UNCHANGED order
      /\ UNCHANGED isActive /\ UNCHANGED alive /\ UNCHANGED managerStopped /\ UNCHANGED access
      /\ UNCHANGED running
  BY DEF SatVis, Feed, Elevation, Gap, EndOfInput, objects, manager, locks
<1>2. phase = "input" /\ fed \subseteq fed' /\ UNCHANGED interrupted
  BY DEF SatVis, Feed, Elevation, Gap, EndOfInput, objects, signal
<1>3. \E C : Starts(C)
  BY LogStacks, SatVisStarts
<1> QED BY <1>1, <1>2, <1>3 DEF Registered

(* The names of what a log makes due. *)
LEMMA LogNames ==
    ASSUME IInv
    PROVE  /\ \A s \in Satellites : SatVis(s) => \A e \in Due' :
                 e[1] \in {"register", "channels", "addSatellite", "stopThreads", "close", "delete", "upgrade",
                           "exclusive", "giveUp", "enable", "disable"}
           /\ \A s \in Satellites : Feed(s) \/ Elevation(s) => \A e \in Due' :
                 e[1] \in {"shared", "pushElevationAngle"}
           /\ Gap => \A e \in Due' : e[1] \in {"stopThreads", "destroy", "deactivate", "upgrade", "exclusive",
                 "stopExperiments", "lock", "eraseAll", "activate"}
           /\ EndOfInput => \A e \in Due' : e[1] \in {"stopThreads", "destroy", "deactivate", "upgrade",
                  "exclusive",
                 "stopExperiments", "stopManager", "join", "exit"}
<1>1. ASSUME NEW s \in Satellites, SatVis(s)
      PROVE  \A e \in Due' :
                 e[1] \in {"register", "channels", "addSatellite", "stopThreads", "close", "delete", "upgrade",
                           "exclusive", "giveUp", "enable", "disable"}
  <2>1. \E n \in {"enable", "disable"} :
              \/ Starts(CreateSet(s) \cup {<<n, s>>}) \/ Starts(DestroySet(s) \cup {<<n,
                     s>>}) \/ Starts({<<n, s>>})
    BY <1>1, SatVisStarts
  <2> QED BY <2>1 DEF Starts, CreateSet, DestroySet, ExclusiveSet
<1>2. ASSUME NEW s \in Satellites, Feed(s) \/ Elevation(s)
      PROVE  \A e \in Due' : e[1] \in {"shared", "pushElevationAngle"}
  BY <1>2, LogStacks DEF Starts
<1>3. ASSUME Gap
      PROVE  \A e \in Due' : e[1] \in {"stopThreads", "destroy", "deactivate", "upgrade", "exclusive",
                 "stopExperiments", "lock", "eraseAll", "activate"}
  BY <1>3, LogStacks DEF Starts, TearDownSet
<1>4. ASSUME EndOfInput
      PROVE  \A e \in Due' : e[1] \in {"stopThreads", "destroy", "deactivate", "upgrade", "exclusive",
                 "stopExperiments", "stopManager", "join", "exit"}
  BY <1>4, LogStacks DEF Starts, TearDownSet
<1> QED BY <1>1, <1>2, <1>3, <1>4

(* What workers may count on when a log is parsed. *)
LEMMA ReadyLog ==
    ASSUME IInv, (\E s \in Satellites : SatVis(s) \/ Feed(s) \/ Elevation(s)) \/ Gap \/ EndOfInput, ~Joined'
    PROVE  PredictionsReady' /\ AllRegistered' /\ ChannelsHaveExperiments' /\ FedHaveExperiments'
<1> USE DEF IInv
<1>1. /\ Due = {} /\ ~Joined
      /\ UNCHANGED registered /\ UNCHANGED channels /\ UNCHANGED experiments /\ UNCHANGED order
      /\ UNCHANGED isActive /\ UNCHANGED alive /\ Registered' = Registered /\ phase = "input"
  BY LogFacts DEF Starts
<1>2. PredictionsReady /\ AllRegistered /\ ChannelsHaveExperiments /\ FedHaveExperiments
  BY <1>1 DEF ReadyOK
<1>3. isActive
  BY <1>1, <1>2 DEF PredictionsReady, HasAny
<1>4. PredictionsReady'
  <2>1. CASE \A e \in Due' : e[1] # "deactivate"
    BY <1>1, <1>3, <2>1 DEF PredictionsReady, HasAny
  <2>2. CASE Gap
    <3>1. <<"activate", "none">> \in Due'
      BY <2>2, LogStacks DEF Starts
    <3>2. HasAny({"activate"})'
      BY <3>1 DEF HasAny
    <3> QED BY <1>1, <1>3, <3>2 DEF PredictionsReady
  <2>3. CASE EndOfInput
    <3>1. phase' # "input"
      BY <2>3 DEF EndOfInput
    <3> QED BY <1>1, <1>3, <3>1 DEF PredictionsReady
  <2> QED BY <2>1, <2>2, <2>3, LogNames
<1>5. AllRegistered'
  <2>1. \A c \in alive : c \in Registered
    BY <1>1, <1>2 DEF AllRegistered, Has, Doomed
  <2> QED BY <1>1, <2>1 DEF AllRegistered
<1>6. \A s \in Satellites : s \in channels => s \in experiments
  BY <1>1, <1>2 DEF ChannelsHaveExperiments, Has
<1>7. ChannelsHaveExperiments'
  <2>1. ASSUME NEW s \in Satellites, Has("channels", s)' PROVE Has("addSatellite", s)'
    <3>1. <<"channels", s>> \in Due'
      BY <2>1 DEF Has
    <3>2. PICK r \in Satellites : SatVis(r)
      BY <3>1, LogNames
    <3>3. \E n \in {"enable", "disable"} :
              \/ Starts(CreateSet(r) \cup {<<n, r>>}) \/ Starts(DestroySet(r) \cup {<<n,
                     r>>}) \/ Starts({<<n, r>>})
      BY <3>2, SatVisStarts
    <3>4. <<"addSatellite", s>> \in Due'
      BY <3>1, <3>3 DEF Starts, CreateSet, DestroySet, ExclusiveSet
    <3> QED BY <3>4 DEF Has
  <2> QED BY <1>1, <1>6, <2>1 DEF ChannelsHaveExperiments
<1>8. FedHaveExperiments'
  <2>1. \A s \in fed' : s \in fed \/ s \in experiments
    <3>1. \A s \in channels : s \in experiments
      BY <1>6 DEF TypeOK
    <3> QED BY <3>1 DEF SatVis, Feed, Elevation, Gap, EndOfInput, objects
  <2> QED BY <1>1, <1>2, <2>1 DEF FedHaveExperiments
<1> QED BY <1>4, <1>5, <1>7, <1>8

(***************************************************************************)
(* What main may still do while it has satellites_ locked.                 *)
(***************************************************************************)
(* What main may do with the lock in its hands, when nothing new is due. *)
LEMMA HoldingKept ==
    ASSUME Holding, Keeps({"deleteExperiment", "giveUp", "pushElevationAngle", "stopExperiments"},
                          {"clear", "stopThreads", "eraseAll", "erase", "destroy"})
    PROVE  Holding'
<1>1. /\ HasAny({"clear"})' => HasAny({"clear"})
      /\ HasAny({"stopThreads", "eraseAll"})' => HasAny({"stopThreads", "eraseAll"})
      /\ HasAny({"destroy"})' => HasAny({"destroy"})
      /\ HasAny({"giveUp"}) => HasAny({"giveUp"})'
      /\ HasAny(Ends) => HasAny(Ends)'
  BY DEF Keeps, HasAny, Ends
<1>2. \A a : /\ Has("deleteExperiment", a) => Has("deleteExperiment", a)'
             /\ Has("erase", a)' => Has("erase", a)
  BY DEF Keeps, Has
<1> QED BY <1>1, <1>2 DEF Holding

(* The lock when it does not change hands. *)
LEMMA LocksKept ==
    ASSUME LocksOK, Joined' = Joined, UNCHANGED access,
           Keeps({"deleteExperiment", "giveUp", "pushElevationAngle", "stopExperiments"},
                 {"clear", "stopThreads", "eraseAll", "erase", "destroy"})
    PROVE  LocksOK'
BY HoldingKept DEF LocksOK

(* Whatever takes the lock has its release below it, before anything else is destroyed. *)
LEMMA TakesFacts ==
    ASSUME NEW n \in Takes, Good(todo), Calls(n)
    PROVE  /\ \E e \in Rest : e[1] \in Ends
           /\ (\E e \in Rest : e[1] = "destroy") => \E e \in Rest : e[1] = "giveUp"
           /\ \A e \in Rest : e[1] \notin {"stopThreads", "eraseAll", "erase", "clear"}
<1> DEFINE t == Tail(todo)
<1>1. /\ Good(t) /\ Head(todo) = <<n, Argument>>
      /\ \A f \in Rest : Below(<<n, Argument>>, f)
  BY TopOfStack
<1>2. /\ t \in Seq(AllCalls) /\ Len(t) \in Nat /\ DOMAIN t = 1 .. Len(t) /\ Ordered(t)
      /\ Rest = ToSet(t)
  BY <1>1, LenProperties DEF Good, Rest
<1>3. PICK j \in 1 .. Len(t) : t[j][1] \in Ends /\ \A k \in 1 .. Len(t) : k < j => t[k][1] # "destroy"
  BY <1>1, GoodTail DEF Calls
<1> HIDE DEF t
<1>4. \A e : e \in Rest <=> \E i \in 1 .. Len(t) : t[i] = e
  BY <1>2, ToSetProperties
<1>5. t[j] \in Rest
  BY <1>3, <1>4
<1>6. ASSUME NEW e \in Rest, e[1] = "destroy" PROVE \E f \in Rest : f[1] = "giveUp"
  <2>1. PICK i \in 1 .. Len(t) : t[i] = e
    BY <1>4
  <2>2. i # j
    BY <1>3, <1>6, <2>1 DEF Ends
  <2>3. j < i
    BY <1>2, <1>3, <1>6, <2>1, <2>2
  <2>4. Below(t[j], e)
    BY <1>2, <2>1, <2>3 DEF Ordered
  <2>5. t[j][1] = "giveUp"
    BY <1>3, <1>6, <2>4 DEF Ends, Below, AfterStop
  <2> QED BY <1>5, <2>5
<1>7. \A e \in Rest : e[1] \notin {"stopThreads", "eraseAll", "erase", "clear"}
  BY <1>1 DEF Below
<1> QED BY <1>3, <1>5, <1>6, <1>7

(* What main may do with the lock in its hands, when it moves. *)
LEMMA LocksBase ==
    ASSUME BaseStep, ~Joined, access' # "none"
    PROVE  Holding'
<1> USE DEF BaseStep, IInv
<1>1. CASE DoUpgrade \/ DoExclusive \/ DoShared
  <2>1. PICK n \in Takes : Calls(n) /\ Becomes(n, {})
    BY <1>1, ReturnSteps, StepNames DEF Takes
  <2>2. /\ \E e \in Rest : e[1] \in Ends
        /\ (\E e \in Rest : e[1] = "destroy") => \E e \in Rest : e[1] = "giveUp"
        /\ \A e \in Rest : e[1] \notin {"stopThreads", "eraseAll", "erase", "clear"}
    BY <2>1, TakesFacts DEF StackOK
  <2>3. Due' = Rest
    BY <2>1 DEF Becomes
  <2>4. /\ ~HasAny({"clear"})' /\ ~HasAny({"stopThreads", "eraseAll"})' /\ HasAny(Ends)'
        /\ HasAny({"destroy"})' => HasAny({"giveUp"})'
    BY <2>2, <2>3 DEF HasAny
  <2>5. \A c : ~Has("erase", c)'
    BY <2>2, <2>3 DEF Has
  <2> QED BY <2>4, <2>5 DEF Holding
<1>2. CASE DoGiveUp \/ DoPushElevationAngle
  BY <1>2 DEF DoGiveUp, DoPushElevationAngle
<1>3. CASE DoStopExperiments
  <2>1. Becomes("stopExperiments", {<<"giveUp", "none">>})
    BY <1>3, StopExperimentsFacts
  <2>2. \A e \in Due' : e[1] \in AfterStop \cup {"giveUp"}
    BY <2>1 DEF Becomes, Below
  <2>3. HasAny({"giveUp"})' /\ HasAny(Ends)'
    <3>1. <<"giveUp", "none">> \in Due'
      BY <2>1 DEF Becomes
    <3> QED BY <3>1 DEF HasAny, Ends
  <2>4. ~HasAny({"clear"})' /\ ~HasAny({"stopThreads", "eraseAll"})' /\ \A c : ~Has("erase", c)'
    BY <2>2 DEF HasAny, Has, AfterStop
  <2> QED BY <2>3, <2>4 DEF Holding
<1>4. CASE DoDestroy \/ DoStopThreads \/ DoEraseAll
  <2>1. UNCHANGED access
    BY <1>4 DEF DoDestroy, DoStopThreads, DoEraseAll, locks
  <2>2. Holding
    BY <2>1 DEF LocksOK
  <2>3. PICK n, C : Calls(n) /\ Becomes(n, C)
    BY MainBecomes
  <2>4. n \in {"destroy", "stopThreads", "eraseAll"}
    BY <1>4, <2>3, StepNames DEF Calls
  <2>5. <<n, Argument>> \in Due /\ Due = {<<n, Argument>>} \cup Rest
    BY <2>3 DEF Becomes
  <2>6. n = "destroy"
    BY <2>2, <2>4, <2>5 DEF Holding, HasAny
  <2>7. HasAny({"giveUp"})
    BY <2>2, <2>5, <2>6 DEF Holding, HasAny
  <2>8. \A f \in Rest : f[1] \in AfterDestroy
    BY <2>3, <2>6 DEF Becomes, Below
  <2> QED BY <2>5, <2>6, <2>7, <2>8 DEF HasAny, AfterDestroy
<1>5. CASE DoErase
  <2> DEFINE C == IF Contains(registered, Argument) THEN ClearSet ELSE {<<"unlock", "none">>}
  <2>1. Becomes("erase", C)
    BY <1>5, EraseStack
  <2>2. Holding
    <3>1. UNCHANGED access
      BY <1>5 DEF DoErase, locks
    <3> QED BY <3>1 DEF LocksOK
  <2>3. \A e \in C : e[1] \in {"clear", "unlock"}
    BY DEF ClearSet
  <2> HIDE DEF C
  <2>4. Argument \in Calculations /\ Has("erase", Argument)
    BY <2>1, ArgumentTypes DEF Becomes, Has, CalculationCalls
  <2>5. PICK s \in Satellites, k \in ChannelKinds \cup {"experiment"} : Argument = <<s, k>>
    BY <2>4 DEF Calculations
  <2>6. k = "experiment"
    BY <2>2, <2>4, <2>5 DEF Holding
  <2>7. Has("deleteExperiment", s)
    BY <2>4, <2>5, <2>6 DEF DestroyingOK, Experiment
  <2>8. Due = {<<"erase", Argument>>} \cup Rest /\ Due' = C \cup Rest
    BY <2>1 DEF Becomes
  <2>9. /\ \A c : Has("erase", c)' => Has("erase", c)
        /\ Has("deleteExperiment", s)'
    BY <2>3, <2>7, <2>8 DEF Has
  <2>10. /\ HasAny({"stopThreads", "eraseAll"})' => HasAny({"stopThreads", "eraseAll"})
         /\ HasAny({"destroy"})' => HasAny({"destroy"})
         /\ HasAny({"giveUp"}) => HasAny({"giveUp"})'
         /\ HasAny(Ends) => HasAny(Ends)'
    BY <2>3, <2>8 DEF HasAny, Ends
  <2> QED BY <2>2, <2>9, <2>10 DEF Holding
<1>6. CASE DoClose
  <2> DEFINE C == IF Argument \in experiments
                  THEN ReleaseSet({Experiment(Argument)}) \cup {<<"deleteExperiment", Argument>>} ELSE {}
  <2>1. Becomes("close", C)
    BY <1>6, CloseStack
  <2>2. Holding
    <3>1. UNCHANGED access
      BY <1>6 DEF DoClose, locks
    <3> QED BY <3>1 DEF LocksOK
  <2>3. /\ \A e \in C : e[1] \in {"stopFlag", "lock", "erase", "deleteExperiment"}
        /\ \A c : <<"erase", c>> \in C => c = Experiment(Argument)
    BY DEF ReleaseSet
  <2> HIDE DEF C
  <2>4. Due = {<<"close", Argument>>} \cup Rest /\ Due' = C \cup Rest
    BY <2>1 DEF Becomes
  <2>5. \A s, k : k \in ChannelKinds => <<s, k>> # Experiment(Argument)
    BY KindsAssumption DEF Experiment
  <2>6. /\ \A s, k : k \in ChannelKinds /\ Has("erase", <<s, k>>)' => Has("erase", <<s, k>>)
        /\ \A s : Has("deleteExperiment", s) => Has("deleteExperiment", s)'
    BY <2>3, <2>4, <2>5 DEF Has
  <2>7. /\ HasAny({"clear"})' => HasAny({"clear"})
        /\ HasAny({"stopThreads", "eraseAll"})' => HasAny({"stopThreads", "eraseAll"})
        /\ HasAny({"destroy"})' => HasAny({"destroy"})
        /\ HasAny({"giveUp"}) => HasAny({"giveUp"})'
        /\ HasAny(Ends) => HasAny(Ends)'
    BY <2>3, <2>4 DEF HasAny, Ends
  <2> QED BY <2>2, <2>6, <2>7 DEF Holding
<1>7. CASE DoDeleteExperiment
  <2>1. Becomes("deleteExperiment", {})
    BY <1>7, ReturnSteps
  <2>2. Holding
    <3>1. UNCHANGED access
      BY <1>7 DEF DoDeleteExperiment, locks
    <3> QED BY <3>1 DEF LocksOK
  <2>3. Due = {<<"deleteExperiment", Argument>>} \cup Rest /\ Due' = Rest /\ \A f \in Rest : f[1] \in AfterClose
    BY <2>1 DEF Becomes, Below
  <2>4. ~HasAny({"clear"})' /\ \A c : ~Has("erase", c)'
    BY <2>3 DEF HasAny, Has, AfterClose, AfterDestroy
  <2>5. /\ HasAny({"stopThreads", "eraseAll"})' => HasAny({"stopThreads", "eraseAll"})
        /\ HasAny({"destroy"})' => HasAny({"destroy"})
        /\ HasAny({"giveUp"}) => HasAny({"giveUp"})'
        /\ HasAny(Ends) => HasAny(Ends)'
    BY <2>3 DEF HasAny, Ends
  <2> QED BY <2>2, <2>4, <2>5 DEF Holding
<1>8. CASE ~(DoUpgrade \/ DoExclusive \/ DoShared \/ DoGiveUp \/ DoPushElevationAngle \/
            DoStopExperiments \/ DoDestroy \/ DoStopThreads \/ DoEraseAll \/ DoErase \/ DoClose \/
            DoDeleteExperiment)
  <2>1. ASSUME NEW n, Calls(n)
        PROVE  n \in {"register", "stopFlag", "lock", "add", "clear", "unlock", "stopManager",
                  "join", "channels", "enable", "disable", "delete", "addSatellite", "insert", "activate",
                  "deactivate", "exit"}
    BY <1>8, <2>1, StepNames, ReturnSteps DEF MainStep, Calls
  <2>2. Keeps({"deleteExperiment", "giveUp", "pushElevationAngle", "stopExperiments"}, {"clear",
            "stopThreads", "eraseAll", "erase", "destroy"})
    <3>1. \A n : Calls(n) => n \notin {"deleteExperiment", "giveUp", "pushElevationAngle",
              "stopExperiments"} /\ \A m \in Callees(n) : m \notin {"clear", "stopThreads", "eraseAll",
              "erase", "destroy"}
      BY <2>1 DEF Callees
    <3> QED BY <3>1, QuietKeeps
  <2>3. UNCHANGED access
    BY <1>8, ReturnSteps DEF MainStep, objects, manager, locks, signal, DoRegister, DoStopFlag,
        DoLock, DoAdd, DoClear, DoUnlock, DoStopManager, DoJoin, DoChannels, DoEnable, DoDisable,
        DoDelete, DoAddSatellite, DoInsert, DoActivate, DoExit
  <2> QED BY <2>2, <2>3, HoldingKept DEF LocksOK
<1> QED BY <1>1, <1>2, <1>3, <1>4, <1>5, <1>6, <1>7, <1>8

(* The lock when main moves. *)
LEMMA LocksMain ==
    ASSUME BaseStep
    PROVE  LocksOK'
<1>1. Joined' = Joined
  BY HandlerBase
<1> QED BY <1>1, LocksBase DEF LocksOK

(* The lock when a worker or the order maker moves. *)
LEMMA LocksThread ==
    ASSUME IInv, NEW w \in Workers, Fill(w) \/ Worker(w)
    PROVE  LocksOK'
BY ThreadFacts, SameKeeps, LocksKept DEF IInv

(* The lock when the signal handler moves. *)
LEMMA LocksHandler ==
    ASSUME IInv, HandlerEffect
    PROVE  LocksOK'
<1> USE DEF IInv
<1>0. Joined \in BOOLEAN /\ Joined' \in BOOLEAN
  BY DEF Joined
<1>1. CASE Joined'
  BY <1>1 DEF LocksOK
<1>2. CASE ~Joined'
  <2>1. ~Joined /\ Due' = Due /\ UNCHANGED access
    BY <1>2 DEF HandlerEffect
  <2>2. Joined' = Joined
    BY <1>0, <1>2, <2>1
  <2> QED BY <2>1, <2>2, SameKeeps, LocksKept
<1> QED BY <1>1, <1>2

(* No log is parsed with the lock in main's hands. *)
LEMMA LocksLog ==
    ASSUME IInv, (\E s \in Satellites : SatVis(s) \/ Feed(s) \/ Elevation(s)) \/ Gap \/ EndOfInput
    PROVE  LocksOK' /\ (~Joined => access = "none")
<1>1. Due = {} /\ Joined' = Joined /\ UNCHANGED access
  BY LogFacts DEF Starts
<1>2. ~HasAny(Ends)
  BY <1>1 DEF HasAny
<1>3. ~Joined => access = "none"
  BY <1>2 DEF IInv, LocksOK, Holding
<1> QED BY <1>1, <1>3 DEF LocksOK

(***************************************************************************)
(* The end of the input.                                                   *)
(***************************************************************************)
(* What was torn down stays so when nothing is added. *)
LEMMA TornDownKept ==
    ASSUME TornDown, Keeps({"stopThreads", "erase"}, {}), Registered' \subseteq Registered,
           access' # "none" => access # "none",
           \A w \in Workers : ToSet(order'[w]) \subseteq ToSet(order[w])
    PROVE  TornDown'
<1>1. \A a : /\ Has("stopThreads", a) => Has("stopThreads", a)'
             /\ Has("erase", a) => Has("erase", a)'
  BY DEF Keeps, Has
<1> QED BY <1>1 DEF TornDown

(* What was torn down when main moves. *)
LEMMA TornDownBase ==
    ASSUME BaseStep, TornDown, phase = "ending", phase' = "ending"
    PROVE  TornDown'
<1> USE DEF BaseStep, IInv
<1>0. /\ registered \in Seq(Calculations) /\ DOMAIN registered = 1 .. Len(registered)
      /\ ~HasAny(CreateNames)
  BY LenProperties DEF TypeOK, PhaseOK
<1>1. CASE DoAdd
  <2>1. Becomes("add", {})
    BY <1>1, ReturnSteps
  <2>2. <<"add", Argument>> \in Due /\ <<"add", Argument>>[1] \in CreateNames
    BY <2>1 DEF Becomes, CreateNames
  <2> QED BY <1>0, <2>2 DEF HasAny
<1>2. CASE DoStopThreads
  <2> DEFINE C == IF Argument \in channels THEN ReleaseSet(ChannelCalculations(Argument)) ELSE {}
  <2>1. Becomes("stopThreads", C)
    BY <1>2, StopThreadsStack
  <2>2. UNCHANGED registered /\ UNCHANGED order /\ UNCHANGED access
    BY <1>2 DEF DoStopThreads, manager, locks
  <2>3. Argument \in channels => \A k \in ChannelKinds : <<"erase", <<Argument, k>>>> \in C
    <3>1. \A D : \A c \in D : <<"erase", c>> \in ReleaseSet(D)
      BY DEF ReleaseSet
    <3>2. \A k \in ChannelKinds : <<Argument, k>> \in ChannelCalculations(Argument)
      BY DEF ChannelCalculations
    <3>3. Argument \in channels => C = ReleaseSet(ChannelCalculations(Argument))
      OBVIOUS
    <3> HIDE DEF C
    <3> QED BY <3>1, <3>2, <3>3
  <2> HIDE DEF C
  <2>4. /\ \A s : Has("stopThreads", s) => Has("stopThreads", s)' \/ s = Argument
        /\ \A c : Has("erase", c) => Has("erase", c)'
        /\ \A s, k : s = Argument /\ s \in channels /\ k \in ChannelKinds => Has("erase", <<s, k>>)'
    BY <2>1, <2>3 DEF Becomes, Has
  <2>5. ASSUME NEW s \in Satellites, NEW k \in ChannelKinds, s \notin channels PROVE <<s, k>> \notin Registered
    <3>1. ~Has("channels", s)
      BY <1>0 DEF HasAny, Has, CreateNames
    <3> QED BY <2>5, <3>1 DEF OwnersOK, RegistryOK
  <2>6. Registered' = Registered
    BY <2>2 DEF Registered
  <2> QED BY <2>2, <2>4, <2>5, <2>6 DEF TornDown
<1>3. CASE DoErase
  <2> DEFINE C == IF Contains(registered, Argument) THEN ClearSet ELSE {<<"unlock", "none">>}
  <2>1. Becomes("erase", C)
    BY <1>3, EraseStack
  <2>2. registered' = RemoveFirst(registered, Argument) /\ UNCHANGED order /\ UNCHANGED access
    BY <1>3 DEF DoErase, locks
  <2>3. Registered' = Registered \ {Argument}
    <3>1. \A i, j \in 1 .. Len(registered) : registered[i] = registered[j] => i = j
      BY <1>0 DEF RegistryOK
    <3> QED BY <1>0, <2>2, <3>1, EraseFirst DEF Registered
  <2> HIDE DEF C
  <2>4. /\ \A s : Has("stopThreads", s) => Has("stopThreads", s)'
        /\ \A c : Has("erase", c) => Has("erase", c)' \/ c = Argument
    BY <2>1 DEF Becomes, Has
  <2> QED BY <2>2, <2>3, <2>4 DEF TornDown
<1>4. CASE DoEraseAll \/ DoJoin
  <2>1. registered' = <<>> /\ UNCHANGED order /\ UNCHANGED access
    BY <1>4 DEF DoEraseAll, DoJoin, locks
  <2>2. Registered' = {}
    BY <2>1, ToSetProperties DEF Registered
  <2> QED BY <2>1, <2>2 DEF TornDown
<1>5. CASE DoClear
  <2>1. Becomes("clear", {})
    BY <1>5, ReturnSteps
  <2>2. order' = [order EXCEPT ![Argument] = <<>>] /\ UNCHANGED registered /\ UNCHANGED access
    BY <1>5 DEF DoClear, locks
  <2>3. Argument \in Workers
    BY <2>1, ArgumentTypes DEF Becomes
  <2>4. ToSet(order'[Argument]) = {} /\ \A w \in Workers : w # Argument => order'[w] = order[w]
    BY <2>2, <2>3, ToSetProperties DEF TypeOK
  <2>5. Registered' = Registered
    BY <2>2 DEF Registered
  <2>6. Keeps({"stopThreads", "erase"}, {})
    BY <2>1, ReturnKeeps
  <2> QED BY <2>2, <2>4, <2>5, <2>6, TornDownKept
<1>6. CASE DoUpgrade \/ DoExclusive \/ DoShared
  <2>1. PICK n \in Takes : Calls(n) /\ Becomes(n, {})
    BY <1>6, ReturnSteps, StepNames DEF Takes
  <2>2. \A e \in Rest : e[1] \notin {"stopThreads", "eraseAll", "erase", "clear"}
    BY <2>1, TakesFacts DEF StackOK
  <2>3. Due = {<<n, Argument>>} \cup Rest
    BY <2>1 DEF Becomes
  <2>4. \A a : ~Has("stopThreads", a) /\ ~Has("erase", a) /\ ~Has("clear", a)
    BY <2>2, <2>3 DEF Has, Takes
  <2>5. \A s \in Satellites, k \in ChannelKinds :
           <<s, k>> \notin Registered /\ \A w \in Workers : <<s, k>> \notin ToSet(order[w])
    <3>1. \A s \in Satellites, k \in ChannelKinds : <<s, k>> \notin Registered
      BY <2>4 DEF TornDown
    <3> QED BY <2>4, <3>1 DEF RegistryOK
  <2>6. UNCHANGED order /\ Registered' = Registered
    BY <1>6 DEF DoUpgrade, DoExclusive, DoShared, manager, Registered
  <2> QED BY <2>5, <2>6 DEF TornDown
<1>7. CASE DoGiveUp \/ DoPushElevationAngle
  <2>1. access' = "none" /\ UNCHANGED order /\ UNCHANGED registered
    BY <1>7 DEF DoGiveUp, DoPushElevationAngle, manager
  <2>2. \E n \in {"giveUp", "pushElevationAngle"} : Becomes(n, {})
    BY <1>7, ReturnSteps, PushElevationAngleStack
  <2>3. Keeps({"stopThreads", "erase"}, {})
    BY <2>2, ReturnKeeps
  <2> QED BY <2>1, <2>3, TornDownKept DEF Registered
<1>8. CASE DoExit
  BY <1>8 DEF DoExit
<1>9. CASE ~(DoAdd \/ DoStopThreads \/ DoErase \/ DoEraseAll \/ DoJoin \/ DoClear \/ DoUpgrade \/
            DoExclusive \/ DoShared \/ DoGiveUp \/ DoPushElevationAngle \/ DoExit)
  <2>1. ASSUME NEW n, Calls(n)
        PROVE  n \in {"register", "stopFlag", "lock", "unlock", "stopManager", "channels", "enable",
                  "disable", "destroy", "delete", "addSatellite", "insert", "close", "deleteExperiment",
                  "activate", "deactivate", "stopExperiments"}
    BY <1>9, <2>1, StepNames, ReturnSteps DEF MainStep, Calls
  <2>2. Keeps({"stopThreads", "erase"}, {})
    <3>1. \A n : Calls(n) => n \notin {"stopThreads", "erase"} /\ \A m \in Callees(n) : m \notin {}
      BY <2>1 DEF Callees
    <3> QED BY <3>1, QuietKeeps
  <2>3. UNCHANGED registered /\ UNCHANGED order /\ UNCHANGED access
    BY <1>9, ReturnSteps DEF MainStep, objects, manager, locks, signal, DoRegister, DoStopFlag,
        DoLock, DoUnlock, DoStopManager, DoChannels, DoEnable, DoDisable, DoDestroy, DoDelete,
        DoAddSatellite, DoInsert, DoClose, DoDeleteExperiment, DoActivate, DoStopExperiments
  <2> QED BY <2>2, <2>3, TornDownKept DEF Registered
<1> QED BY <1>1, <1>2, <1>3, <1>4, <1>5, <1>6, <1>7, <1>8, <1>9

(* The phase when main moves. *)
LEMMA PhaseBase ==
    ASSUME BaseStep
    PROVE  PhaseOK'
<1> USE DEF BaseStep, IInv
<1>1. PICK n, C : Calls(n) /\ Becomes(n, C) /\ \A e \in C : e[1] \in Callees(n)
  BY MainBecomes
<1>2. UNCHANGED interrupted /\ Joined' = Joined
  BY HandlerBase DEF signal
<1>3. phase' = phase \/ phase' = "done"
  <2>1. CASE DoExit
    BY <2>1 DEF DoExit
  <2>2. CASE ~DoExit
    BY <2>2, ReturnSteps DEF MainStep, DoRegister, DoStopFlag, DoLock, DoAdd, DoErase, DoEraseAll,
        DoClear, DoUnlock,
            DoStopManager, DoJoin, DoChannels, DoEnable, DoDisable, DoStopThreads, DoDestroy,
            DoDelete, DoAddSatellite, DoUpgrade, DoExclusive, DoGiveUp, DoInsert, DoClose,
            DoDeleteExperiment, DoActivate, DoStopExperiments, DoShared, DoPushElevationAngle
  <2> QED BY <2>1, <2>2
<1>4. Due = {<<n, Argument>>} \cup Rest /\ Due' = C \cup Rest
  BY <1>1 DEF Becomes
<1>5. HasAny({"stopManager", "join", "exit"})' => HasAny({"stopManager", "join", "exit"})
  <2>1. \A e \in C : e[1] \notin {"stopManager", "join", "exit"}
    BY <1>1 DEF Callees
  <2> QED BY <1>4, <2>1 DEF HasAny
<1>6. HasAny(CreateNames)' => HasAny(CreateNames)
  <2>1. \A e \in C : e[1] \in CreateNames => n \in CreateNames
    BY <1>1 DEF Callees, CreateNames
  <2>2. n \in CreateNames => HasAny(CreateNames)
    <3>1. <<n, Argument>> \in Due /\ <<n, Argument>>[1] = n
      BY <1>4
    <3> QED BY <3>1 DEF HasAny
  <2> QED BY <1>4, <2>1, <2>2 DEF HasAny
<1>7. phase = "input" => UNCHANGED managerStopped
  <2>1. CASE DoStopManager
    <3>1. n = "stopManager"
      BY <1>1, <2>1, StepNames DEF Calls
    <3>2. <<n, Argument>> \in Due /\ <<n, Argument>>[1] = n
      BY <1>4
    <3>3. HasAny({"stopManager", "join", "exit"})
      BY <3>1, <3>2 DEF HasAny
    <3> QED BY <3>3 DEF PhaseOK
  <2>2. CASE ~DoStopManager
    BY <2>2, ReturnSteps DEF MainStep, manager, DoRegister, DoStopFlag, DoLock, DoAdd, DoErase,
        DoEraseAll, DoClear, DoUnlock, DoJoin,
            DoChannels, DoEnable, DoDisable, DoStopThreads, DoDestroy, DoDelete, DoAddSatellite,
            DoUpgrade, DoExclusive, DoGiveUp, DoInsert, DoClose, DoDeleteExperiment, DoActivate,
            DoStopExperiments, DoShared, DoPushElevationAngle, DoExit
  <2> QED BY <2>1, <2>2
<1>8. phase = "ending" /\ phase' = "ending" /\ ~Joined => TornDown'
  BY TornDownBase DEF PhaseOK
<1> QED BY <1>2, <1>3, <1>5, <1>6, <1>7, <1>8 DEF PhaseOK

(* The phase when a worker moves: none terminates the program. *)
LEMMA PhaseThread ==
    ASSUME IInv, NEW w \in Workers, Fill(w) \/ Worker(w)
    PROVE  PhaseOK'
<1> USE DEF IInv
<1>1. /\ Due' = Due /\ ~Joined /\ Joined' = Joined /\ UNCHANGED interrupted /\ Registered' = Registered
      /\ UNCHANGED phase /\ UNCHANGED managerStopped /\ UNCHANGED access
  BY ThreadFacts
<1>2. /\ HasAny({"stopManager", "join", "exit"})' <=> HasAny({"stopManager", "join", "exit"})
      /\ HasAny(CreateNames)' <=> HasAny(CreateNames)
      /\ HasAny({"stopThreads", "eraseAll"})' <=> HasAny({"stopThreads", "eraseAll"})
      /\ \A a : /\ Has("stopThreads", a)' <=> Has("stopThreads", a)
                /\ Has("erase", a)' <=> Has("erase", a)
  BY <1>1 DEF HasAny, Has
<1>3. phase = "ending" => TornDown'
  <2>1. phase = "ending" => TornDown
    BY <1>1 DEF PhaseOK
  <2>2. phase = "ending" /\ access # "none" => \A s \in Satellites, k \in ChannelKinds : <<s,
            k>> \notin Registered
    <3>1. access # "none" => Holding
      BY <1>1 DEF LocksOK
    <3>2. access # "none" => \A s : ~Has("stopThreads", s)
      BY <3>1 DEF Holding, HasAny, Has
    <3> QED BY <2>1, <3>1, <3>2 DEF TornDown, Holding
  <2>3. \A v \in Workers : ToSet(order'[v]) \subseteq ToSet(order[v]) \/ ToSet(order'[v]) = Registered
    BY OrderStep
  <2> QED BY <1>1, <1>2, <2>1, <2>2, <2>3 DEF TornDown
<1> QED BY <1>1, <1>2, <1>3 DEF PhaseOK

(* The phase when the signal handler moves. *)
LEMMA PhaseHandler ==
    ASSUME IInv, HandlerEffect
    PROVE  PhaseOK'
<1> USE DEF IInv
<1>1. Due' = Due /\ interrupted' # "no" /\ UNCHANGED phase /\ UNCHANGED order
  BY DEF HandlerEffect
<1>2. /\ HasAny({"stopManager", "join", "exit"})' <=> HasAny({"stopManager", "join", "exit"})
      /\ HasAny(CreateNames)' <=> HasAny(CreateNames)
  BY <1>1 DEF HasAny
<1>3. phase = "ending" /\ ~Joined' => TornDown'
  <2>1. ASSUME phase = "ending", ~Joined' PROVE TornDown'
    <3>1. ~Joined /\ UNCHANGED registered /\ UNCHANGED access
      BY <2>1 DEF HandlerEffect
    <3>2. TornDown
      BY <2>1, <3>1 DEF PhaseOK
    <3> QED BY <1>1, <3>1, <3>2, SameKeeps, TornDownKept DEF Registered
  <2> QED BY <2>1
<1> QED BY <1>1, <1>2, <1>3 DEF PhaseOK

(* The phase when a log is parsed or the input ends. *)
LEMMA PhaseLog ==
    ASSUME IInv, (\E s \in Satellites : SatVis(s) \/ Feed(s) \/ Elevation(s)) \/ Gap \/ EndOfInput
    PROVE  PhaseOK'
<1> USE DEF IInv
<1>1. /\ Joined' = Joined /\ phase = "input" /\ UNCHANGED managerStopped /\ UNCHANGED interrupted
      /\ UNCHANGED access /\ Registered' = Registered
  BY LogFacts DEF Starts
<1>2. CASE EndOfInput
  <2>1. phase' = "ending"
    BY <1>2 DEF EndOfInput
  <2>2. ~HasAny(CreateNames)'
    <3>1. \A e \in Due' : e[1] \in {"stopThreads", "destroy", "deactivate", "upgrade", "exclusive",
                 "stopExperiments", "stopManager", "join", "exit"}
      BY <1>2, LogNames
    <3> QED BY <3>1 DEF HasAny, CreateNames
  <2>3. ~Joined => access' = "none"
    BY <1>1, LocksLog
  <2>4. \A s \in Satellites : Has("stopThreads", s)'
    BY <1>2, LogStacks DEF Starts, Has, TearDownSet
  <2> QED BY <1>1, <2>1, <2>2, <2>3, <2>4 DEF PhaseOK, TornDown
<1>3. CASE (\E s \in Satellites : SatVis(s) \/ Feed(s) \/ Elevation(s)) \/ Gap
  <2>1. phase' = "input"
    BY <1>3 DEF SatVis, Feed, Elevation, Gap
  <2>2. \A e \in Due' : e[1] \notin {"stopManager", "join", "exit"}
    BY <1>3, LogNames
  <2> QED BY <1>1, <2>1, <2>2 DEF PhaseOK, HasAny
<1> QED BY <1>2, <1>3

(***************************************************************************)
(* The invariant.                                                          *)
(***************************************************************************)
(* The invariant holds initially. *)
LEMMA InitInvariant ==
    ASSUME Init
    PROVE  IInv
<1>1. /\ todo = <<>> /\ phase = "input" /\ channels = {} /\ enabled = {} /\ fed = {} /\ experiments = {}
      /\ isActive = TRUE /\ alive = {} /\ stopped = {} /\ registered = <<>>
      /\ order = [w \in Workers |-> <<>>] /\ running = [w \in Workers |-> Idle]
      /\ managerStopped = FALSE /\ calcLocked = FALSE /\ access = "none"
      /\ suspended = <<>> /\ interrupted = "no"
  BY DEF Init
<1>2. TypeOK
  <2>1. registered \in Seq(Calculations) /\ order \in [Workers -> Seq(Calculations)]
    BY <1>1, EmptySeq
  <2>2. \A w \in Workers : running[w] = Idle /\ running[w][1] \notin {"running", "waiting", "pushing"}
    BY <1>1 DEF Idle
  <2> QED BY <1>1, <2>1, <2>2 DEF TypeOK
<1>3. ~HandlerRuns /\ ~Joined
  BY <1>1 DEF HandlerRuns, Joined
<1>4. Due = {} /\ Registered = {} /\ \A w \in Workers : ToSet(order[w]) = {}
  BY <1>1, <1>3, ToSetProperties DEF Due, Registered
<1>5. (\A n, a : ~Has(n, a)) /\ (\A N : ~HasAny(N)) /\ \A s : ~Doomed(s)
  BY <1>4 DEF Has, HasAny, Doomed
<1>6. StackOK
  BY <1>1, <1>3, <1>5, GoodEmpty DEF StackOK
<1>7. HandlerOK
  BY <1>1, <1>3 DEF HandlerOK
<1>8. WorkersOK
  BY <1>1 DEF WorkersOK, Idle
<1>9. RegistryOK
  <2>1. \A i \in DOMAIN registered : FALSE
    BY <1>1
  <2> QED BY <1>4, <1>5, <2>1 DEF RegistryOK
<1>10. OwnersOK
  BY <1>1, <1>5 DEF OwnersOK
<1>11. CreatingOK
  BY <1>5 DEF CreatingOK
<1>12. DestroyingOK
  BY <1>5 DEF DestroyingOK
<1>13. ReadyOK
  BY <1>1, <1>5 DEF ReadyOK, PredictionsReady, AllRegistered, ChannelsHaveExperiments, FedHaveExperiments
<1>14. LocksOK
  BY <1>1 DEF LocksOK
<1>15. PhaseOK
  BY <1>1, <1>5 DEF PhaseOK
<1> QED BY <1>2, <1>6, <1>7, <1>8, <1>9, <1>10, <1>11, <1>12, <1>13, <1>14, <1>15 DEF IInv

(* Steps of main keep the invariant. *)
LEMMA BaseInvariant ==
    ASSUME BaseStep
    PROVE  IInv'
<1>1. TypeOK'
  BY MainTypes DEF BaseStep, IInv, StackOK
<1>2. StackOK'
  BY MainBecomes DEF Becomes
<1> QED BY <1>1, <1>2, HandlerBase, WorkersBase, RegistryBase, OwnersBase, CreatingBase, DestroyingBase,
           ReadyBase, LocksMain, PhaseBase DEF IInv

(* Steps of the signal handler keep the invariant. *)
LEMMA HandlerInvariant ==
    ASSUME IInv, HandlerRuns, MainStep
    PROVE  IInv'
<1>1. TypeOK'
  BY MainTypes DEF IInv, StackOK
<1>2. HandlerEffect
  <2>1. experiments \in SUBSET Satellites
    BY DEF IInv, TypeOK
  <2> QED BY <2>1, HandlerStep DEF IInv
<1>3. StackOK' /\ HandlerOK' /\ UNCHANGED fed /\ UNCHANGED order /\ UNCHANGED running
  BY <1>2 DEF HandlerEffect
<1>4. WorkersOK'
  BY <1>3, WorkersKept DEF IInv
<1> QED BY <1>1, <1>2, <1>3, <1>4, RegistryHandler, OwnersHandler, CreatingHandler, DestroyingHandler,
           ReadyHandler, LocksHandler, PhaseHandler DEF IInv

(* Logs, gaps and the end of the input keep the invariant. *)
LEMMA LogInvariant ==
    ASSUME IInv, (\E s \in Satellites : SatVis(s) \/ Feed(s) \/ Elevation(s)) \/ Gap \/ EndOfInput
    PROVE  IInv'
<1>1. StackOK' /\ HandlerOK' /\ UNCHANGED order /\ UNCHANGED running /\ fed \subseteq fed'
  BY LogFacts DEF Starts
<1>2. WorkersOK'
  BY <1>1, WorkersKept DEF IInv
<1>3. TypeOK'
  <2>1. fed' \in SUBSET Satellites /\ phase' \in {"input", "ending", "done", "terminated"}
    BY DEF SatVis, Feed, Elevation, Gap, EndOfInput, objects, IInv, TypeOK
  <2>2. /\ UNCHANGED registered /\ UNCHANGED channels /\ UNCHANGED experiments
        /\ UNCHANGED isActive /\ UNCHANGED alive /\ UNCHANGED managerStopped /\ UNCHANGED access
        /\ UNCHANGED interrupted
    BY LogFacts
  <2>3. UNCHANGED enabled /\ UNCHANGED stopped /\ UNCHANGED calcLocked
    BY DEF SatVis, Feed, Elevation, Gap, EndOfInput, objects, locks
  <2> QED BY <1>1, <2>1, <2>2, <2>3 DEF IInv, TypeOK
<1>4. ReadyOK'
  BY ReadyLog DEF ReadyOK
<1> QED BY <1>1, <1>2, <1>3, <1>4, RegistryLog, OwnersLog, CreatingLog, DestroyingLog, LocksLog,
        PhaseLog DEF IInv

(* A signal keeps the invariant. *)
LEMMA SignalInvariant ==
    ASSUME IInv, Signal
    PROVE  IInv'
<1> USE DEF IInv
<1>1. /\ Due' = Due /\ StackOK' /\ HandlerOK' /\ interrupted' # "no" /\ interrupted = "no" /\ ~Joined
  BY SignalStack
<1>2. UNCHANGED phase /\ UNCHANGED channels /\ UNCHANGED enabled /\ UNCHANGED fed /\ UNCHANGED experiments
      /\ UNCHANGED isActive /\ UNCHANGED alive /\ UNCHANGED stopped /\ UNCHANGED registered
      /\ UNCHANGED order /\ UNCHANGED running /\ UNCHANGED managerStopped /\ UNCHANGED calcLocked
      /\ UNCHANGED access
  BY DEF Signal, objects, manager, locks
<1>3. TypeOK'
  <2>1. interrupted' \in {"no", "nothing", "calculations", "shared", "upgrade", "exclusive",
                          "logger", "handled"}
    BY DEF Signal, Held, TypeOK
  <2> QED BY <1>2, <2>1 DEF TypeOK
<1>4. Joined' = Joined
  <2>1. interrupted' # "handled" /\ todo' = HandlerCalls
    BY DEF Signal, Held, TypeOK
  <2>2. ~Joined'
    BY <2>1, HandlerLists DEF Joined
  <2>3. Joined \in BOOLEAN /\ Joined' \in BOOLEAN
    BY DEF Joined
  <2> QED BY <1>1, <2>2, <2>3
<1>5. Registered' = Registered /\ \A w \in Workers : ToSet(order'[w]) \subseteq ToSet(order[w])
  BY <1>2 DEF Registered
<1>6. WorkersOK'
  BY <1>2, WorkersKept
<1>7. RegistryOK'
  BY <1>1, <1>2, SameKeeps, RegistryKept
<1>8. OwnersOK'
  BY <1>1, <1>2, SameKeeps, OwnersKept
<1>9. CreatingOK'
  BY <1>1, <1>2, SameKeeps, CreatingKept
<1>10. DestroyingOK'
  BY <1>1, <1>2, SameKeeps, DestroyingSame
<1>11. ReadyOK'
  BY <1>1, <1>2, <1>4, <1>5, ReadyKept
<1>12. LocksOK'
  BY <1>1, <1>2, <1>4, SameKeeps, LocksKept
<1>13. PhaseOK'
  <2>1. /\ HasAny({"stopManager", "join", "exit"})' <=> HasAny({"stopManager", "join", "exit"})
        /\ HasAny(CreateNames)' <=> HasAny(CreateNames)
    BY <1>1 DEF HasAny
  <2>2. TornDown => TornDown'
    BY <1>1, <1>2, <1>5, SameKeeps, TornDownKept
  <2> QED BY <1>1, <1>2, <2>1, <2>2 DEF PhaseOK
<1> QED BY <1>1, <1>3, <1>6, <1>7, <1>8, <1>9, <1>10, <1>11, <1>12, <1>13

(* Steps of the workers and the order maker keep the invariant. *)
LEMMA ThreadInvariant ==
    ASSUME IInv, NEW w \in Workers, Fill(w) \/ Worker(w)
    PROVE  IInv'
<1>1. TypeOK'
  BY WorkerTypes DEF IInv
<1>2. OwnersOK'
  BY ThreadFacts, SameKeeps, OwnersKept DEF IInv
<1>3. CreatingOK'
  BY ThreadFacts, SameKeeps, CreatingKept DEF IInv
<1> QED BY <1>1, <1>2, <1>3, ThreadFacts, HandlerThread, WorkersThread, RegistryThread, DestroyingThread,
           ReadyThread, LocksThread, PhaseThread DEF IInv

(* So does no step at all. *)
LEMMA StutterInvariant ==
    ASSUME IInv, UNCHANGED vars
    PROVE  IInv'
<1> USE DEF IInv
<1>1. UNCHANGED todo /\ UNCHANGED interrupted /\ UNCHANGED suspended
      /\ UNCHANGED phase /\ UNCHANGED channels /\ UNCHANGED enabled /\ UNCHANGED fed /\ UNCHANGED experiments
      /\ UNCHANGED isActive /\ UNCHANGED alive /\ UNCHANGED stopped /\ UNCHANGED registered
      /\ UNCHANGED order /\ UNCHANGED running /\ UNCHANGED managerStopped /\ UNCHANGED calcLocked
      /\ UNCHANGED access
  BY DEF vars, objects, manager, locks, signal
<1>2. Due' = Due /\ Joined' = Joined /\ Registered' = Registered /\ HandlerRuns' = HandlerRuns
  BY <1>1 DEF Due, Joined, Registered, HandlerRuns
<1>3. (\A n, a : Has(n, a)' <=> Has(n, a)) /\ (\A N : HasAny(N)' <=> HasAny(N))
  BY <1>2 DEF Has, HasAny
<1>4. TypeOK'
  BY <1>1 DEF TypeOK
<1>5. StackOK'
  BY <1>1, <1>2, <1>3 DEF StackOK, Good, Ordered, Released
<1>6. HandlerOK'
  BY <1>1, <1>2 DEF HandlerOK, AllReturned
<1>7. WorkersOK'
  BY <1>1, WorkersKept
<1>8. RegistryOK'
  BY <1>1, <1>2, SameKeeps, RegistryKept
<1>9. OwnersOK'
  BY <1>1, <1>2, SameKeeps, OwnersKept
<1>10. CreatingOK'
  BY <1>1, <1>2, SameKeeps, CreatingKept
<1>11. DestroyingOK'
  BY <1>1, <1>2, SameKeeps, DestroyingSame
<1>12. ReadyOK'
  BY <1>1, <1>2, ReadyKept
<1>13. LocksOK'
  BY <1>1, <1>2, SameKeeps, LocksKept
<1>14. PhaseOK'
  <2>1. TornDown => TornDown'
    BY <1>1, <1>2, SameKeeps, TornDownKept
  <2> QED BY <1>1, <1>2, <1>3, <2>1 DEF PhaseOK
<1> QED BY <1>4, <1>5, <1>6, <1>7, <1>8, <1>9, <1>10, <1>11, <1>12, <1>13, <1>14

(* Every step keeps the invariant. *)
LEMMA NextInvariant ==
    ASSUME IInv, [Next]_vars
    PROVE  IInv'
<1>1. CASE MainStep
  BY <1>1, BaseInvariant, HandlerInvariant DEF BaseStep
<1>2. CASE Log \/ Gap \/ EndOfInput
  BY <1>2, LogInvariant DEF Log
<1>3. CASE Signal
  BY <1>3, SignalInvariant
<1>4. CASE \E w \in Workers : Fill(w) \/ Worker(w)
  BY <1>4, ThreadInvariant
<1>5. CASE UNCHANGED vars
  BY <1>5, StutterInvariant
<1> QED BY <1>1, <1>2, <1>3, <1>4, <1>5 DEF Next, Terminated

(* The invariant, for every set of satellites, kinds of calculations and
   workers, with signals or without. *)
THEOREM InvariantTheorem == Spec => []IInv
<1>1. Init => IInv
  BY InitInvariant
<1>2. IInv /\ [Next]_vars => IInv'
  BY NextInvariant
<1> QED BY <1>1, <1>2, PTL DEF Spec

(* TypeOK holds in every behaviour. *)
THEOREM TypeTheorem == Spec => []TypeOK
<1>1. IInv => TypeOK
  BY DEF IInv
<1> QED BY <1>1, InvariantTheorem, PTL

(* PushFindsExperiment: no worker that has passed isActive_ ever comes to a
   key that satellites_ does not have, whatever main or a signal does in
   between.  So nobody has to catch the out_of_range of satellites_.at(). *)
THEOREM PushTheorem == Spec => []PushFindsExperiment
<1>1. IInv => PushFindsExperiment
  BY PushFinds
<1> QED BY <1>1, InvariantTheorem, PTL

(***************************************************************************)
(* Nothing leaks.                                                          *)
(***************************************************************************)
(* A sequence without repetitions is as long as its set is large. *)
LEMMA LengthIsCardinality ==
    ASSUME NEW S, NEW q \in Seq(S), \A i, j \in 1 .. Len(q) : q[i] = q[j] => i = j
    PROVE  IsFiniteSet(ToSet(q)) /\ Cardinality(ToSet(q)) = Len(q)
<1>1. Len(q) \in Nat /\ DOMAIN q = 1 .. Len(q)
  BY LenProperties
<1>2. \A e : e \in ToSet(q) <=> \E i \in 1 .. Len(q) : q[i] = e
  BY ToSetProperties
<1>3. q \in [1 .. Len(q) -> ToSet(q)]
  <2>1. q = [i \in 1 .. Len(q) |-> q[i]]
    BY <1>1, SeqDef
  <2> QED BY <1>2, <2>1
<1>4. ExistsBijection(1 .. Len(q), ToSet(q))
  BY <1>2, <1>3 DEF ExistsBijection, Bijection, Injection, Surjection, IsInjective
<1> QED BY <1>1, <1>4, FS_NatBijection, FS_CountingElements

(* While the handler runs main adds nothing. *)
LEMMA NoInsertWhileHandled ==
    ASSUME IInv, HandlerRuns, NEW n, Calls(n)
    PROVE  n \notin {"insert", "clear"} /\ (~AllReturned => n \in {"stopManager", "join"})
<1> USE DEF IInv
<1>1. Head(todo) = <<n, Argument>> /\ Head(todo) \in ToSet(todo)
  BY TopOfStack DEF StackOK
<1>2. todo \in {HandlerCalls, Tail(HandlerCalls)} => n \in {"stopManager", "join"}
  BY HandlerListCalls DEF Calls
<1>3. \A e \in ToSet(todo) : e[1] \in HandlerNames => e[1] \notin {"insert", "clear"}
  BY DEF HandlerNames
<1> QED BY <1>1, <1>2, <1>3 DEF HandlerOK

(* Between two logs nothing is left over. *)
LEMMA NothingLeaksOut ==
    ASSUME IInv
    PROVE  NothingLeaks
<1> USE DEF IInv
<1>1. ASSUME Calls("insert") PROVE Argument \notin experiments
  <2>1. ~HandlerRuns
    BY <1>1, NoInsertWhileHandled
  <2>2. <<"insert", Argument>> \in AllCalls /\ <<"insert", Argument>> \in ToSet(todo)
    BY <1>1, TopOfStack DEF StackOK
  <2>3. Has("insert", Argument) /\ Argument \in Satellites
    BY <2>1, <2>2, ArgumentTypes DEF Due, Has, SatelliteCalls
  <2> QED BY <2>3 DEF CreatingOK
<1>2. ASSUME todo = <<>>, phase = "input", interrupted = "no"
      PROVE  /\ experiments = channels /\ alive = UpCalculations
             /\ ToSet(registered) = alive /\ Len(registered) = Cardinality(alive)
  <2>1. Due = {} /\ ~Joined
    BY <1>2, ToSetProperties DEF Due, HandlerRuns, Joined
  <2>2. \A n, a : ~Has(n, a) /\ ~Doomed(a)
    BY <2>1 DEF Has, Doomed
  <2>3. AllRegistered /\ ChannelsHaveExperiments
    BY <2>1 DEF ReadyOK
  <2>4. experiments = channels
    BY <2>2, <2>3 DEF ChannelsHaveExperiments, OwnersOK, TypeOK
  <2>5. alive = UpCalculations
    <3>1. ASSUME NEW s \in Satellites
          PROVE  /\ Experiment(s) \in alive <=> s \in channels
                 /\ \A k \in ChannelKinds : <<s, k>> \in alive <=> s \in channels
      BY <2>2, <2>4 DEF OwnersOK
    <3>2. ASSUME NEW c \in alive PROVE c \in UpCalculations
      <4>1. PICK s \in Satellites, k \in ChannelKinds \cup {"experiment"} : c = <<s, k>>
        BY DEF TypeOK, Calculations
      <4>2. s \in channels /\ c \in ChannelCalculations(s) \cup {Experiment(s)}
        BY <3>1, <4>1 DEF ChannelCalculations, Experiment
      <4> QED BY <4>2 DEF UpCalculations
    <3>3. ASSUME NEW c \in UpCalculations PROVE c \in alive
      <4>1. PICK s \in channels : c \in ChannelCalculations(s) \cup {Experiment(s)}
        BY DEF UpCalculations
      <4>2. s \in Satellites
        BY DEF TypeOK
      <4> QED BY <3>1, <4>1, <4>2 DEF ChannelCalculations
    <3> QED BY <3>2, <3>3
  <2>6. ToSet(registered) = alive
    BY <1>2, <2>2, <2>3 DEF AllRegistered, RegistryOK, Registered
  <2>7. Len(registered) = Cardinality(alive)
    <3>1. registered \in Seq(Calculations) /\ DOMAIN registered = 1 .. Len(registered)
      BY LenProperties DEF TypeOK
    <3>2. \A i, j \in 1 .. Len(registered) : registered[i] = registered[j] => i = j
      BY <3>1 DEF RegistryOK
    <3> QED BY <2>6, <3>1, <3>2, LengthIsCardinality
  <2> QED BY <2>4, <2>5, <2>6, <2>7
<1> QED BY <1>1, <1>2 DEF NothingLeaks

(* NothingLeaks: between two logs the registry holds the calculations of the
   satellites that are up, each once, and satellites_ their experiments. *)
THEOREM LeakTheorem == Spec => []NothingLeaks
<1>1. IInv => NothingLeaks
  BY NothingLeaksOut
<1> QED BY <1>1, InvariantTheorem, PTL

(***************************************************************************)
(* The circular wait.                                                      *)
(***************************************************************************)
(* Whoever is inside a method is at the head of the worker's order. *)
LEMMA RunningIsOrdered ==
    ASSUME IInv, NEW w \in Workers, running[w][1] \in {"running", "waiting", "pushing"}
    PROVE  running[w][2] \in ToSet(order[w]) /\ running[w][2] \in Calculations
<1> USE DEF IInv
<1>1. order[w] # <<>> /\ running[w][2] = Head(order[w]) /\ order[w] \in Seq(Calculations)
  <2>1. running[w] \notin {Idle, <<"returned", "none">>}
    BY DEF Idle
  <2>2. order[w] # <<>> /\ running[w] = <<running[w][1], Head(order[w])>>
    BY <2>1 DEF WorkersOK
  <2> QED BY <2>2 DEF TypeOK
<1> QED BY <1>1, TailType

(* Where the two waits can meet. *)
LEMMA CircularWaitFacts ==
    ASSUME IInv
    PROVE  CircularWaitOnlyOnSet
<1> USE DEF IInv
<1>1. ASSUME NEW w \in Workers, CircularWait(w)
      PROVE  /\ phase = "input" /\ running[w][2][1] \in channels \cap fed
             /\ \E s \in channels \ {running[w][2][1]} :
                   Contains(todo, <<"deleteExperiment", s>>) /\ Contains(todo, <<"delete", s>>)
  <2> DEFINE r == running[w][2][1]
             k == running[w][2][2]
  <2>1. /\ Calls("clear") /\ access = "exclusive" /\ running[w][1] = "waiting"
    BY <1>1 DEF CircularWait
  <2>2. ~HandlerRuns
    BY <2>1, NoInsertWhileHandled
  <2>3. ~Joined
    BY <2>1, JoinedMeans DEF AllReturned
  <2>4. Due = ToSet(todo) /\ <<"clear", Argument>> \in Due
    BY <2>1, <2>2, TopOfStack DEF Due, StackOK
  <2>5. Holding
    BY <2>1, <2>3 DEF LocksOK
  <2>6. PICK s \in Satellites : Has("deleteExperiment", s)
    <3>1. HasAny({"clear"})
      BY <2>4 DEF HasAny
    <3> QED BY <2>5, <3>1 DEF Holding
  <2>7. Has("delete", s) /\ s \in channels
    BY <2>6 DEF DestroyingOK
  <2>8. k \in ChannelKinds /\ r \in fed
    <3>1. running[w] \notin {Idle, <<"returned", "none">>}
      BY <2>1 DEF Idle
    <3> QED BY <2>1, <3>1 DEF WorkersOK
  <2>9. <<r, k>> \in ToSet(order[w]) /\ r \in Satellites
    <3>1. running[w][2] \in ToSet(order[w]) /\ running[w][2] \in Calculations
      BY <2>1, RunningIsOrdered
    <3>2. running[w][2] = <<r, k>> /\ r \in Satellites
      BY <3>1 DEF Calculations
    <3> QED BY <3>1, <3>2
  <2> HIDE DEF r, k
  <2>10. r # s
    BY <2>6, <2>8, <2>9 DEF DestroyingOK
  <2>11. r \in channels
    BY <2>8 DEF OwnersOK
  <2>12. phase = "input"
    <3>1. phase = "ending" => TornDown
      BY <2>3 DEF PhaseOK
    <3>2. phase # "ending"
      BY <2>1, <2>8, <2>9, <3>1 DEF TornDown
    <3> QED BY <2>1, <3>2 DEF Calls, Running
  <2>13. \A e : e \in Due => Contains(todo, e)
    <3>1. todo \in Seq(AllCalls)
      BY DEF StackOK, Good
    <3> QED BY <2>4, <3>1, ToSetProperties, LenProperties DEF Contains
  <2>14. Contains(todo, <<"deleteExperiment", s>>) /\ Contains(todo, <<"delete", s>>)
    BY <2>6, <2>7, <2>13 DEF Has
  <2> QED BY <2>7, <2>8, <2>10, <2>11, <2>12, <2>14 DEF r
<1> QED BY <1>1 DEF CircularWaitOnlyOnSet

(* CircularWaitOnlyOnSet: the circular wait of main and a worker needs a
   satellite that sets while another one is calculated; there is none at a gap
   or at the end. *)
THEOREM CircularWaitTheorem == Spec => []CircularWaitOnlyOnSet
<1>1. IInv => CircularWaitOnlyOnSet
  BY CircularWaitFacts
<1> QED BY <1>1, InvariantTheorem, PTL

(***************************************************************************)
(* The living.                                                             *)
(***************************************************************************)
(* Orders name living calculations. *)
OrdersLive == \A w \in Workers : ToSet(order[w]) \subseteq alive

(* The orders when nothing is deleted and they do not grow. *)
LEMMA OrdersLiveKept ==
    ASSUME OrdersLive, alive \subseteq alive', \A w \in Workers : ToSet(order'[w]) \subseteq ToSet(order[w])
    PROVE  OrdersLive'
BY DEF OrdersLive

(* The orders when main moves: what is deleted was cleared from them. *)
LEMMA OrdersLiveBase ==
    ASSUME BaseStep, OrdersLive
    PROVE  OrdersLive'
<1> USE DEF BaseStep, IInv
<1>1. CASE DoDelete
  <2>1. Becomes("delete", {})
    BY <1>1, ReturnSteps
  <2>2. alive' = alive \ ChannelCalculations(Argument) /\ UNCHANGED order
    BY <1>1 DEF DoDelete, manager
  <2> QED BY <2>1, <2>2, DeleteFacts DEF OrdersLive, ChannelCalculations
<1>2. CASE DoDeleteExperiment
  <2>1. Becomes("deleteExperiment", {})
    BY <1>2, ReturnSteps
  <2>2. alive' = alive \ {Experiment(Argument)} /\ UNCHANGED order
    BY <1>2 DEF DoDeleteExperiment, manager
  <2>3. Argument \in Satellites /\ Has("deleteExperiment", Argument)
    BY <2>1, ArgumentTypes DEF Becomes, SatelliteCalls, Has
  <2>4. \A e \in Due : e[1] \in AfterClose \cup {"deleteExperiment"}
    BY <2>1 DEF Becomes, Below
  <2>5. ~Has("erase", Experiment(Argument)) /\ \A w : ~Has("clear", w)
    BY <2>4 DEF Has, AfterClose, AfterDestroy
  <2>6. Experiment(Argument) \notin Registered
    BY <2>3, <2>5 DEF DestroyingOK
  <2>7. Experiment(Argument) \in Calculations
    BY <2>3, ChannelTypes
  <2>8. \A w \in Workers : Experiment(Argument) \notin ToSet(order[w])
    BY <2>5, <2>6, <2>7 DEF RegistryOK
  <2> QED BY <2>2, <2>8 DEF OrdersLive
<1>3. CASE DoClear
  <2>1. Becomes("clear", {})
    BY <1>3, ReturnSteps
  <2>2. order' = [order EXCEPT ![Argument] = <<>>] /\ UNCHANGED alive
    BY <1>3 DEF DoClear, objects
  <2>3. Argument \in Workers
    BY <2>1, ArgumentTypes DEF Becomes
  <2>4. ToSet(order'[Argument]) = {} /\ \A w \in Workers : w # Argument => order'[w] = order[w]
    BY <2>2, <2>3, ToSetProperties DEF TypeOK
  <2> QED BY <2>2, <2>4 DEF OrdersLive
<1>4. CASE ~(DoDelete \/ DoDeleteExperiment \/ DoClear)
  <2>1. UNCHANGED order /\ alive \subseteq alive'
    BY <1>4, ReturnSteps DEF MainStep, manager, objects, DoRegister, DoStopFlag, DoLock, DoAdd, DoErase,
       DoEraseAll, DoUnlock, DoStopManager, DoJoin, DoChannels, DoEnable, DoDisable, DoStopThreads, DoDestroy,
       DoAddSatellite, DoUpgrade, DoExclusive, DoGiveUp, DoInsert, DoClose, DoActivate, DoStopExperiments,
       DoShared, DoPushElevationAngle, DoExit
  <2> QED BY <2>1, OrdersLiveKept
<1> QED BY <1>1, <1>2, <1>3, <1>4

(* The orders name the living after every step. *)
LEMMA OrdersLiveNext ==
    ASSUME IInv, OrdersLive, [Next]_vars
    PROVE  OrdersLive'
<1> USE DEF IInv
<1>1. CASE MainStep /\ ~HandlerRuns
  BY <1>1, OrdersLiveBase DEF BaseStep
<1>2. CASE MainStep /\ HandlerRuns
  <2>1. HandlerEffect
    <3>1. experiments \in SUBSET Satellites
      BY DEF TypeOK
    <3> QED BY <1>2, <3>1, HandlerStep
  <2>2. UNCHANGED order /\ (UNCHANGED alive \/ AllReturned)
    BY <2>1 DEF HandlerEffect
  <2>3. AllReturned => \A w \in Workers : order[w] = <<>>
    BY DEF AllReturned, WorkersOK
  <2>4. AllReturned => OrdersLive'
    BY <2>2, <2>3, ToSetProperties DEF OrdersLive
  <2> QED BY <2>2, <2>4 DEF OrdersLive
<1>3. CASE Log \/ Gap \/ EndOfInput
  <2>1. UNCHANGED order /\ UNCHANGED alive
    BY <1>3, LogFacts DEF Log
  <2> QED BY <2>1 DEF OrdersLive
<1>4. CASE Signal \/ UNCHANGED vars
  BY <1>4 DEF Signal, vars, objects, manager, OrdersLive
<1>5. CASE \E w \in Workers : Fill(w) \/ Worker(w)
  <2>1. PICK w \in Workers : Fill(w) \/ Worker(w)
    BY <1>5
  <2>2. UNCHANGED alive
    BY <2>1, ThreadFacts
  <2>3. \A v \in Workers : ToSet(order'[v]) \subseteq ToSet(order[v]) \/ ToSet(order'[v]) = Registered
    BY <2>1, OrderStep
  <2> QED BY <2>2, <2>3 DEF OrdersLive, RegistryOK
<1> QED BY <1>1, <1>2, <1>3, <1>4, <1>5 DEF Next, Terminated

(* SchedulerKnowsTheLiving: what the scheduler still knows, in its registry,
   on an order or inside a method, is a living object. *)
THEOREM LivingTheorem == Spec => []SchedulerKnowsTheLiving
<1>1. Init => OrdersLive
  <2>1. Init => \A w \in Workers : order[w] = <<>>
    BY DEF Init
  <2> QED BY <2>1, ToSetProperties DEF OrdersLive
<1>2. IInv /\ OrdersLive /\ [Next]_vars => OrdersLive'
  BY OrdersLiveNext
<1>3. IInv /\ OrdersLive => SchedulerKnowsTheLiving
  BY RunningIsOrdered DEF IInv, OrdersLive, RegistryOK, Registered, SchedulerKnowsTheLiving
<1> QED BY <1>1, <1>2, <1>3, InvariantTheorem, PTL DEF Spec

-----------------------------------------------------------------------------
(***************************************************************************)
(* The locks main takes.  Each call finds them in some state and leaves    *)
(* them in another; a stack of calls leads from the state main is in to    *)
(* the one with both given up.                                             *)
(***************************************************************************)
LockStates == {"none", "shared", "upgrade", "exclusive"} \X {"free", "taken"}
Free == <<"none", "free">>

(* Calls that give up lockCalcutaions_, and those that want it free. *)
Unlocking == {"add", "erase", "eraseAll", "unlock"}
WantsUnlocked ==
    {"lock", "register", "stopThreads", "destroy", "addSatellite", "close", "stopExperiments",
     "handled"}
(* The calls named n find the locks as x and leave them as y. *)
MovesCalculations(n, x, y) ==
    \/ n = "lock" /\ x = "free" /\ y = "taken"
    \/ n \in Unlocking /\ x = "taken" /\ y = "free"
    \/ /\ n \notin Unlocking \cup {"lock"} /\ y = x
       /\ n = "clear" => x = "taken"
       /\ n \in WantsUnlocked => x = "free"
MovesAccess(n, x, y) ==
    \/ n = "upgrade" /\ x = "none" /\ y = "upgrade"
    \/ n = "exclusive" /\ x = "upgrade" /\ y = "exclusive"
    \/ n \in {"giveUp", "stopExperiments"} /\ x = "exclusive" /\ y = "none"
    \/ n = "shared" /\ x = "none" /\ y = "shared"
    \/ n = "pushElevationAngle" /\ x = "shared" /\ y = "none"
    \/ /\ n \notin {"upgrade", "exclusive", "giveUp", "stopExperiments", "shared", "pushElevationAngle"}
       /\ y = x
       /\ n \in {"addSatellite", "destroy", "handled"} => x = "none"
       /\ n = "close" => x = "exclusive"
Moves(n, x, y) == MovesAccess(n, x[1], y[1]) /\ MovesCalculations(n, x[2], y[2])

(* The calls of s, one after the other, take the locks from x to y. *)
Leads(s, x, y) ==
    /\ s \in Seq(AllCalls)
    /\ \E f \in [1 .. Len(s) + 1 -> LockStates] :
          /\ f[1] = x /\ f[Len(s) + 1] = y
          /\ \A i \in 1 .. Len(s) : Moves(s[i][1], f[i], f[i + 1])

(* No call leaves the locks alone. *)
LEMMA LeadsEmpty ==
    ASSUME NEW x \in LockStates
    PROVE  Leads(<<>>, x, x) /\ \A y : Leads(<<>>, x, y) => y = x
<1>1. <<>> \in Seq(AllCalls) /\ Len(<<>>) = 0
  BY EmptySeq
<1>2. PICK f \in [1 .. 0 + 1 -> LockStates] : f[1] = x
  <2>1. [i \in 1 .. 1 |-> x][1] = x /\ [i \in 1 .. 1 |-> x] \in [1 .. 0 + 1 -> LockStates]
    OBVIOUS
  <2> QED BY <2>1
<1>3. Leads(<<>>, x, x)
  <2>1. f \in [1 .. Len(<<>>) + 1 -> LockStates] /\ f[1] = x /\ f[Len(<<>>) + 1] = x
    BY <1>1, <1>2
  <2>2. 1 .. Len(<<>>) = {}
    BY <1>1
  <2> QED BY <1>1, <2>1, <2>2 DEF Leads
<1>4. ASSUME NEW y, Leads(<<>>, x, y) PROVE y = x
  BY <1>1, <1>4 DEF Leads
<1> QED BY <1>3, <1>4

(* One call does what it does. *)
LEMMA LeadsOne ==
    ASSUME NEW e \in AllCalls, NEW x \in LockStates, NEW y \in LockStates, Moves(e[1], x, y)
    PROVE  Leads(<<e>>, x, y)
<1> DEFINE s == <<e>>  f == [i \in 1 .. 2 |-> IF i = 1 THEN x ELSE y]
<1>1. s \in Seq(AllCalls) /\ Len(s) = 1 /\ s[1] = e
  OBVIOUS
<1>2. f \in [1 .. 2 -> LockStates] /\ f[1] = x /\ f[2] = y
  OBVIOUS
<1> HIDE DEF s, f
<1>3. f \in [1 .. Len(s) + 1 -> LockStates] /\ f[Len(s) + 1] = y
  BY <1>1, <1>2
<1>4. \A i \in 1 .. Len(s) : i = 1 /\ i + 1 = 2
  BY <1>1
<1>5. \A i \in 1 .. Len(s) : Moves(s[i][1], f[i], f[i + 1])
  BY <1>1, <1>2, <1>4
<1> QED BY <1>1, <1>2, <1>3, <1>5 DEF Leads, s

(* Calls after calls. *)
LEMMA LeadsConcat ==
    ASSUME NEW a, NEW b, NEW x, NEW y, NEW z, Leads(a, x, z), Leads(b, z, y)
    PROVE  Leads(a \o b, x, y)
<1>1. PICK f \in [1 .. Len(a) + 1 -> LockStates] :
          /\ f[1] = x /\ f[Len(a) + 1] = z
          /\ \A i \in 1 .. Len(a) : Moves(a[i][1], f[i], f[i + 1])
  BY DEF Leads
<1>2. PICK g \in [1 .. Len(b) + 1 -> LockStates] :
          /\ g[1] = z /\ g[Len(b) + 1] = y
          /\ \A i \in 1 .. Len(b) : Moves(b[i][1], g[i], g[i + 1])
  BY DEF Leads
<1> DEFINE ab == a \o b
           h == [i \in 1 .. Len(a) + Len(b) + 1 |-> IF i <= Len(a) THEN f[i] ELSE g[i - Len(a)]]
<1>3. /\ ab \in Seq(AllCalls) /\ Len(ab) = Len(a) + Len(b)
      /\ \A i \in 1 .. Len(a) + Len(b) : ab[i] = IF i <= Len(a) THEN a[i] ELSE b[i - Len(a)]
      /\ Len(a) \in Nat /\ Len(b) \in Nat
  BY ConcatProperties, LenProperties DEF Leads
<1> HIDE DEF ab
<1>4. h \in [1 .. Len(ab) + 1 -> LockStates]
  BY <1>3
<1>5. h[Len(ab) + 1] = y
  <2>1. Len(ab) + 1 \in 1 .. Len(a) + Len(b) + 1 /\ ~(Len(ab) + 1 <= Len(a))
        /\ Len(ab) + 1 - Len(a) = Len(b) + 1
    BY <1>3
  <2> QED BY <2>1, <1>2
<1>6. h[1] = x
  <2>1. CASE Len(a) = 0
    <3>1. h[1] = g[1]
      BY <2>1, <1>3
    <3>2. x = z
      BY <2>1, <1>1
    <3> QED BY <3>1, <3>2, <1>2
  <2>2. CASE Len(a) # 0
    BY <2>2, <1>1, <1>3
  <2> QED BY <2>1, <2>2
<1>7. ASSUME NEW i \in 1 .. Len(ab) PROVE Moves(ab[i][1], h[i], h[i + 1])
  <2>0. i \in 1 .. Len(a) + Len(b) + 1 /\ i + 1 \in 1 .. Len(a) + Len(b) + 1
    BY <1>3
  <2>1. CASE i < Len(a)
    <3>1. ab[i] = a[i] /\ h[i] = f[i] /\ h[i + 1] = f[i + 1] /\ i \in 1 .. Len(a)
      BY <2>0, <2>1, <1>3
    <3> HIDE DEF h
    <3> QED BY <3>1, <1>1
  <2>2. CASE i = Len(a)
    <3>1. ab[i] = a[i] /\ h[i] = f[i] /\ i \in 1 .. Len(a)
      BY <2>0, <2>2, <1>3
    <3>2. h[i + 1] = f[i + 1]
      <4>1. i + 1 - Len(a) = 1 /\ ~(i + 1 <= Len(a))
        BY <2>2, <1>3
      <4>2. h[i + 1] = g[1]
        BY <4>1, <2>0
      <4> HIDE DEF h
      <4> QED BY <4>2, <2>2, <1>1, <1>2
    <3> HIDE DEF h
    <3> QED BY <3>1, <3>2, <1>1
  <2>3. CASE i > Len(a)
    <3>1. i - Len(a) \in 1 .. Len(b) /\ i + 1 - Len(a) = i - Len(a) + 1
      BY <2>3, <1>3
    <3>2. ab[i] = b[i - Len(a)] /\ h[i] = g[i - Len(a)] /\ h[i + 1] = g[i - Len(a) + 1]
      BY <2>0, <2>3, <1>3
    <3> HIDE DEF h
    <3> QED BY <3>1, <3>2, <1>2
  <2> QED BY <2>1, <2>2, <2>3, <1>3
<1> HIDE DEF h
<1> QED BY <1>3, <1>4, <1>5, <1>6, <1>7 DEF Leads, ab

(* The first call, and the others. *)
LEMMA LeadsTail ==
    ASSUME NEW s, NEW x, NEW y, Leads(s, x, y), s # <<>>
    PROVE  \E z \in LockStates : Moves(Head(s)[1], x, z) /\ Leads(Tail(s), z, y)
<1>1. PICK f \in [1 .. Len(s) + 1 -> LockStates] :
          /\ f[1] = x /\ f[Len(s) + 1] = y
          /\ \A i \in 1 .. Len(s) : Moves(s[i][1], f[i], f[i + 1])
  BY DEF Leads
<1> DEFINE t == Tail(s)  g == [i \in 1 .. Len(s) |-> f[i + 1]]
<1>2. /\ Len(s) \in Nat \ {0} /\ t \in Seq(AllCalls) /\ Len(t) = Len(s) - 1 /\ Head(s) = s[1]
      /\ \A i \in 1 .. Len(t) : t[i] = s[i + 1]
  BY HeadTailProperties, LenProperties, EmptySeq DEF Leads
<1> HIDE DEF t
<1>3. g \in [1 .. Len(t) + 1 -> LockStates]
  BY <1>2
<1>4. g[1] = f[2] /\ g[Len(t) + 1] = y
  BY <1>1, <1>2
<1>5. ASSUME NEW i \in 1 .. Len(t) PROVE Moves(t[i][1], g[i], g[i + 1])
  <2>1. i + 1 \in 1 .. Len(s) /\ g[i] = f[i + 1] /\ g[i + 1] = f[i + 1 + 1] /\ t[i] = s[i + 1]
    BY <1>2
  <2> HIDE DEF g
  <2> QED BY <2>1, <1>1
<1>6. Moves(s[1][1], x, f[2]) /\ f[2] \in LockStates
  <2>1. 1 \in 1 .. Len(s) /\ 1 + 1 = 2 /\ 2 \in 1 .. Len(s) + 1
    BY <1>2
  <2> QED BY <2>1, <1>1
<1> HIDE DEF g
<1>7. Leads(t, f[2], y)
  BY <1>2, <1>3, <1>4, <1>5 DEF Leads
<1> QED BY <1>2, <1>6, <1>7 DEF t

(* ForEach leaves the locks as they are if the calls G[x] do. *)
LEMMA LeadsForEach ==
    ASSUME NEW T, IsFiniteSet(T), NEW l \in LockStates, NEW G, \A x \in T : Leads(G[x], l, l),
           NEW c, c = FlattenSeq([i \in 1 .. Len(SetToSeq(T)) |-> G[SetToSeq(T)[i]]])
    PROVE  Leads(c, l, l)
<1> DEFINE q == SetToSeq(T)  n == Len(q)  ss == [i \in 1 .. n |-> G[q[i]]]
<1>1. n \in Nat /\ \A i \in 1 .. n : q[i] \in T
  BY SetInOrder
<1> HIDE DEF q, n
<1>2. \A i \in 1 .. n : ss[i] \in Seq(AllCalls) /\ Leads(ss[i], l, l)
  BY <1>1 DEF Leads
<1>3. ss \in Seq(Seq(AllCalls)) /\ Len(ss) = n
  <2>1. ss \in [1 .. n -> Seq(AllCalls)]
    BY <1>2
  <2>2. DOMAIN ss = 1 .. n
    OBVIOUS
  <2> HIDE DEF ss
  <2>3. ss \in Seq(Seq(AllCalls))
    BY <2>1, <1>1, SeqDef
  <2>4. DOMAIN ss = 1 .. Len(ss) /\ Len(ss) \in Nat
    BY <2>3, LenProperties
  <2> QED BY <2>2, <2>3, <2>4, <1>1
<1>4. c = FlattenSeq(ss)
  BY DEF q, n
<1> HIDE DEF ss
<1>5. CASE ss = <<>>
  <2>1. Len(ss) = 0
    BY <1>5, EmptySeq
  <2>2. c = <<>>
    BY <2>1, <1>4, <1>5 DEF FlattenSeq
  <2> QED BY <2>2, LeadsEmpty
<1>6. CASE ss # <<>>
  <2>1. PICK f \in [1 .. Len(ss) -> Seq(AllCalls)] :
              /\ f[1] = ss[1]
              /\ \A i \in 2 .. Len(ss) : f[i] = f[i - 1] \o ss[i]
              /\ FlattenSeq(ss) = f[Len(ss)]
    BY <1>3, <1>6, Flattening
  <2>2. n \in Nat \ {0}
    BY <1>1, <1>3, <1>6, EmptySeq
  <2> DEFINE B == {m \in 1 .. n : ~Leads(f[m], l, l)}
  <2>3. B = {}
    <3> SUFFICES ASSUME B # {} PROVE FALSE
      OBVIOUS
    <3>0. B \in SUBSET Nat
      BY <2>2
    <3>1. PICK m \in B : \A k \in B : m <= k
      <4> HIDE DEF B
      <4> QED BY <3>0, Least
    <3>2. m \in 1 .. n /\ ~Leads(f[m], l, l)
      OBVIOUS
    <3>3. m # 1
      BY <1>2, <2>1, <3>2
    <3>4. m - 1 \in 1 .. n /\ m - 1 \notin B /\ m \in 2 .. n
      <4> HIDE DEF B
      <4> QED BY <3>1, <3>2, <3>3, <2>2
    <3>5. Leads(f[m - 1], l, l) /\ f[m] = f[m - 1] \o ss[m] /\ Leads(ss[m], l, l)
      BY <3>4, <1>2, <1>3, <2>1
    <3> QED BY <3>5, <3>2, LeadsConcat
  <2>4. n \in 1 .. n
    BY <2>2
  <2>5. Leads(f[n], l, l)
    BY <2>3, <2>4
  <2> QED BY <2>5, <2>1, <1>3, <1>4
<1> QED BY <1>5, <1>6

(* A call with an argument. *)
LEMMA CallLeads ==
    ASSUME NEW n, NEW a, <<n, a>> \in AllCalls,
           NEW x \in LockStates, NEW y \in LockStates, Moves(n, x, y)
    PROVE  Leads(Call(n, a), x, y)
<1>1. <<n, a>>[1] = n
  OBVIOUS
<1> QED BY <1>1, LeadsOne DEF Call

(* A call without an argument. *)
LEMMA StepLeads ==
    ASSUME NEW n \in PlainCalls, NEW x \in LockStates, NEW y \in LockStates, Moves(n, x, y)
    PROVE  Leads(Step(n), x, y)
BY CallTypes, CallLeads DEF Step

Accesses == {"none", "shared", "upgrade", "exclusive"}

(* Calls of the scheduler: what main holds of satellites_ is as before. *)
LEMMA ReleaseLeads ==
    ASSUME NEW c \in Calculations, NEW a \in Accesses
    PROVE  Leads(Release(c), <<a, "free">>, <<a, "free">>)
<1> DEFINE x == <<a, "free">>  y == <<a, "taken">>
<1>1. x \in LockStates /\ y \in LockStates
  BY DEF LockStates, Accesses
<1>2. Moves("stopFlag", x, x) /\ Moves("lock", x, y) /\ Moves("erase", y, x)
  BY DEF Moves, MovesAccess, MovesCalculations, Unlocking, WantsUnlocked
<1> HIDE DEF x, y
<1>3. Leads(Call("stopFlag", c), x, x) /\ Leads(Call("erase", c), y, x)
  BY <1>1, <1>2, CallTypes, CallLeads DEF CalculationCalls
<1>4. Leads(Step("lock"), x, y)
  BY <1>1, <1>2, StepLeads DEF PlainCalls
<1>5. Leads(Release(c), x, x)
  BY <1>3, <1>4, LeadsConcat DEF Release
<1> QED BY <1>5 DEF x

(* clearOrders, from the registry found to the lock given up. *)
LEMMA ClearLeads ==
    ASSUME NEW a \in Accesses
    PROVE  Leads(ClearOrders, <<a, "taken">>, <<a, "free">>)
<1> DEFINE x == <<a, "free">>  y == <<a, "taken">>
           G == [w \in Workers |-> <<<<"clear", w>>>>]
           c == FlattenSeq([i \in 1 .. Len(SetToSeq(Workers)) |-> G[SetToSeq(Workers)[i]]])
<1>1. x \in LockStates /\ y \in LockStates
  BY DEF LockStates, Accesses
<1>2. Moves("clear", y, y) /\ Moves("unlock", y, x)
  BY DEF Moves, MovesAccess, MovesCalculations, Unlocking, WantsUnlocked
<1>3. [i \in 1 .. Len(SetToSeq(Workers)) |-> G[SetToSeq(Workers)[i]]]
      = [i \in 1 .. Len(SetToSeq(Workers)) |-> <<<<"clear", SetToSeq(Workers)[i]>>>>]
  BY SetInOrder, FiniteAssumption
<1>4. ClearOrders = c \o Step("unlock")
  BY <1>3 DEF ClearOrders, ForEach, Call
<1> HIDE DEF x, y
<1>5. \A w \in Workers : Leads(G[w], y, y)
  <2> SUFFICES ASSUME NEW w \in Workers PROVE Leads(G[w], y, y)
    OBVIOUS
  <2>1. Leads(Call("clear", w), y, y)
    BY <1>1, <1>2, CallTypes, CallLeads
  <2>2. G[w] = Call("clear", w)
    BY DEF Call
  <2> QED BY <2>1, <2>2
<1> HIDE DEF G
<1>6. Leads(c, y, y)
  <2>1. c = FlattenSeq([i \in 1 .. Len(SetToSeq(Workers)) |-> G[SetToSeq(Workers)[i]]])
    OBVIOUS
  <2> HIDE DEF c
  <2> QED BY <1>1, <1>5, <2>1, FiniteAssumption, LeadsForEach
<1> HIDE DEF c
<1>7. Leads(Step("unlock"), y, x)
  BY <1>1, <1>2, StepLeads DEF PlainCalls
<1>8. Leads(ClearOrders, y, x)
  BY <1>4, <1>6, <1>7, LeadsConcat
<1> QED BY <1>8 DEF x, y

(* releaseAll takes the lock and gives it up. *)
LEMMA ReleaseAllLeads == Leads(ReleaseAll, Free, Free)
<1> DEFINE y == <<"none", "taken">>
<1>1. Free \in LockStates /\ y \in LockStates
  BY DEF LockStates, Free
<1>2. Moves("lock", Free, y) /\ Moves("eraseAll", y, Free)
  BY DEF Moves, MovesAccess, MovesCalculations, Unlocking, WantsUnlocked, Free
<1> HIDE DEF y
<1>3. Leads(Step("lock"), Free, y) /\ Leads(Step("eraseAll"), y, Free)
  BY <1>1, <1>2, StepLeads DEF PlainCalls
<1> QED BY <1>3, LeadsConcat DEF ReleaseAll

(* The calculations of a satellite's channels are released one by one. *)
LEMMA ReleaseChannelsLeads ==
    ASSUME NEW s \in Satellites, NEW a \in Accesses
    PROVE  Leads(ReleaseChannels(s), <<a, "free">>, <<a, "free">>)
<1> DEFINE x == <<a, "free">>
           G == [k \in ChannelKinds |-> Release(<<s, k>>)]
           c == FlattenSeq([i \in 1 .. Len(SetToSeq(ChannelKinds)) |-> G[SetToSeq(ChannelKinds)[i]]])
<1>1. x \in LockStates
  BY DEF LockStates, Accesses
<1>2. \A k \in ChannelKinds : Leads(G[k], x, x)
  BY ChannelTypes, ReleaseLeads
<1> HIDE DEF x
<1>3. [i \in 1 .. Len(SetToSeq(ChannelKinds)) |-> G[SetToSeq(ChannelKinds)[i]]]
      = [i \in 1 .. Len(SetToSeq(ChannelKinds)) |-> Release(<<s, SetToSeq(ChannelKinds)[i]>>)]
  BY SetInOrder, FiniteAssumption
<1>4. ReleaseChannels(s) = c
  BY <1>3 DEF ReleaseChannels, ForEach
<1> HIDE DEF G
<1>5. Leads(c, x, x)
  <2>1. c = FlattenSeq([i \in 1 .. Len(SetToSeq(ChannelKinds)) |-> G[SetToSeq(ChannelKinds)[i]]])
    OBVIOUS
  <2> HIDE DEF c
  <2> QED BY <1>1, <1>2, <2>1, FiniteAssumption, LeadsForEach
<1> HIDE DEF c
<1> QED BY <1>4, <1>5 DEF x

(* Calls in the scope of an upgrade lock. *)
LEMMA ExclusiveLeads ==
    ASSUME NEW calls, Leads(calls, <<"exclusive", "free">>, <<"exclusive", "free">>)
    PROVE  Leads(WithExclusiveAccess(calls), Free, Free)
<1> DEFINE u == <<"upgrade", "free">>  x == <<"exclusive", "free">>
<1>1. Free \in LockStates /\ u \in LockStates /\ x \in LockStates
  BY DEF LockStates, Free
<1>2. Moves("upgrade", Free, u) /\ Moves("exclusive", u, x) /\ Moves("giveUp", x, Free)
  BY DEF Moves, MovesAccess, MovesCalculations, Unlocking, WantsUnlocked, Free
<1>3. Leads(calls, x, x)
  OBVIOUS
<1> HIDE DEF u, x
<1>4. Leads(Step("upgrade"), Free, u) /\ Leads(Step("exclusive"), u, x) /\ Leads(Step("giveUp"), x, Free)
  BY <1>1, <1>2, StepLeads DEF PlainCalls
<1>5. Leads(Step("upgrade") \o Step("exclusive"), Free, x)
  BY <1>4, LeadsConcat
<1>6. Leads(Step("upgrade") \o Step("exclusive") \o calls, Free, x)
  BY <1>3, <1>5, LeadsConcat
<1> QED BY <1>4, <1>6, LeadsConcat DEF WithExclusiveAccess

(* closeSatellite of one satellite. *)
LEMMA CloseLeads ==
    ASSUME NEW s \in Satellites
    PROVE  Leads(CloseSatellite(s), Free, Free)
<1> DEFINE x == <<"exclusive", "free">>
<1>1. x \in LockStates /\ Moves("close", x, x)
  BY DEF LockStates, Moves, MovesAccess, MovesCalculations, Unlocking, WantsUnlocked
<1>2. Leads(Call("close", s), x, x)
  BY <1>1, CallTypes, CallLeads DEF SatelliteCalls
<1> QED BY <1>2, ExclusiveLeads DEF CloseSatellite

(* The body of SvmPredictionData::stop(), from exclusive access on. *)
LEMMA CloseAllLeads ==
    ASSUME NEW S \in SUBSET Satellites
    PROVE  Leads(CloseAll(S), <<"exclusive", "free">>, Free)
<1> DEFINE x == <<"exclusive", "free">>
           G == [s \in S |-> Release(Experiment(s))]
           c == FlattenSeq([i \in 1 .. Len(SetToSeq(S)) |-> G[SetToSeq(S)[i]]])
           H == [s \in S |-> CloseSatellite(s)]
           d == FlattenSeq([i \in 1 .. Len(SetToSeq(S)) |-> H[SetToSeq(S)[i]]])
<1>0. IsFiniteSet(S)
  BY FiniteAssumption, FS_Subset
<1>1. x \in LockStates /\ Free \in LockStates /\ Moves("giveUp", x, Free)
  BY DEF LockStates, Free, Moves, MovesAccess, MovesCalculations, Unlocking, WantsUnlocked
<1>2. \A s \in S : Leads(G[s], x, x) /\ Leads(H[s], Free, Free)
  BY ChannelTypes, ReleaseLeads, CloseLeads DEF Accesses
<1>3. [i \in 1 .. Len(SetToSeq(S)) |-> G[SetToSeq(S)[i]]]
      = [i \in 1 .. Len(SetToSeq(S)) |-> Release(Experiment(SetToSeq(S)[i]))]
  BY <1>0, SetInOrder
<1>4. [i \in 1 .. Len(SetToSeq(S)) |-> H[SetToSeq(S)[i]]]
      = [i \in 1 .. Len(SetToSeq(S)) |-> CloseSatellite(SetToSeq(S)[i])]
  BY <1>0, SetInOrder
<1>5. CloseAll(S) = c \o Step("giveUp") \o d
  BY <1>3, <1>4 DEF CloseAll, ForEach
<1> HIDE DEF G, H, x
<1>6. Leads(c, x, x)
  <2>1. c = FlattenSeq([i \in 1 .. Len(SetToSeq(S)) |-> G[SetToSeq(S)[i]]])
    OBVIOUS
  <2> HIDE DEF c
  <2> QED BY <1>0, <1>1, <1>2, <2>1, LeadsForEach
<1>7. Leads(d, Free, Free)
  <2>1. d = FlattenSeq([i \in 1 .. Len(SetToSeq(S)) |-> H[SetToSeq(S)[i]]])
    OBVIOUS
  <2> HIDE DEF d
  <2> QED BY <1>0, <1>1, <1>2, <2>1, LeadsForEach
<1> HIDE DEF c, d
<1>8. Leads(Step("giveUp"), x, Free)
  BY <1>1, StepLeads DEF PlainCalls
<1>9. Leads(CloseAll(S), x, Free)
  BY <1>5, <1>6, <1>7, <1>8, LeadsConcat
<1> QED BY <1>9 DEF x

(* SvmPredictionData::stop() as far as its loop over satellites_. *)
LEMMA StopPredictionsLeads == Leads(StopPredictions, Free, Free)
<1> DEFINE u == <<"upgrade", "free">>  x == <<"exclusive", "free">>
<1>1. Free \in LockStates /\ u \in LockStates /\ x \in LockStates
  BY DEF LockStates, Free
<1>2. /\ Moves("deactivate", Free, Free) /\ Moves("upgrade", Free, u) /\ Moves("exclusive", u, x)
      /\ Moves("stopExperiments", x, Free)
  BY DEF Moves, MovesAccess, MovesCalculations, Unlocking, WantsUnlocked, Free
<1> HIDE DEF u, x
<1>3. /\ Leads(Step("deactivate"), Free, Free) /\ Leads(Step("upgrade"), Free, u)
      /\ Leads(Step("exclusive"), u, x) /\ Leads(Step("stopExperiments"), x, Free)
  BY <1>1, <1>2, StepLeads DEF PlainCalls
<1>4. Leads(Step("deactivate") \o Step("upgrade"), Free, u)
  BY <1>3, LeadsConcat
<1>5. Leads(Step("deactivate") \o Step("upgrade") \o Step("exclusive"), Free, x)
  BY <1>3, <1>4, LeadsConcat
<1> QED BY <1>3, <1>5, LeadsConcat DEF StopPredictions

(* ThreadManager::stop() takes none of the locks. *)
LEMMA StopManagerLeads == Leads(StopManager, Free, Free)
<1>1. Free \in LockStates /\ Moves("stopManager", Free, Free) /\ Moves("join", Free, Free)
  BY DEF LockStates, Free, Moves, MovesAccess, MovesCalculations, Unlocking, WantsUnlocked
<1>2. Leads(Step("stopManager"), Free, Free) /\ Leads(Step("join"), Free, Free)
  BY <1>1, StepLeads DEF PlainCalls
<1> QED BY <1>2, LeadsConcat DEF StopManager

(* signalTerminate, if it finds both locks free. *)
LEMMA HandlerLeads == Leads(HandlerCalls, Free, Free)
<1>1. Free \in LockStates /\ Moves("handled", Free, Free)
  BY DEF LockStates, Free, Moves, MovesAccess, MovesCalculations, Unlocking, WantsUnlocked
<1>2. Leads(Step("handled"), Free, Free)
  BY <1>1, StepLeads DEF PlainCalls
<1> QED BY <1>2, StopManagerLeads, StopPredictionsLeads, LeadsConcat DEF HandlerCalls

(* Creation and destruction of satellites. *)
LEMMA CreateLeads ==
    ASSUME NEW s \in Satellites
    PROVE  Leads(Create(s), Free, Free)
<1> DEFINE G == [k \in ChannelKinds |-> Register(<<s, k>>)]
           c == FlattenSeq([i \in 1 .. Len(SetToSeq(ChannelKinds)) |-> G[SetToSeq(ChannelKinds)[i]]])
<1>1. /\ Free \in LockStates /\ Moves("register", Free, Free)
      /\ Moves("channels", Free, Free) /\ Moves("addSatellite", Free, Free)
  BY DEF LockStates, Free, Moves, MovesAccess, MovesCalculations, Unlocking, WantsUnlocked
<1>2. \A k \in ChannelKinds : Leads(G[k], Free, Free)
  BY <1>1, ChannelTypes, CallTypes, CallLeads DEF Register, CalculationCalls
<1>3. [i \in 1 .. Len(SetToSeq(ChannelKinds)) |-> G[SetToSeq(ChannelKinds)[i]]]
      = [i \in 1 .. Len(SetToSeq(ChannelKinds)) |-> Register(<<s, SetToSeq(ChannelKinds)[i]>>)]
  BY SetInOrder, FiniteAssumption
<1>4. CreateChannels(s) = c \o Call("channels", s)
  BY <1>3 DEF CreateChannels, ForEach
<1> HIDE DEF G
<1>5. Leads(c, Free, Free)
  <2>1. c = FlattenSeq([i \in 1 .. Len(SetToSeq(ChannelKinds)) |-> G[SetToSeq(ChannelKinds)[i]]])
    OBVIOUS
  <2> HIDE DEF c
  <2> QED BY <1>1, <1>2, <2>1, FiniteAssumption, LeadsForEach
<1> HIDE DEF c
<1>6. Leads(Call("channels", s), Free, Free) /\ Leads(Call("addSatellite", s), Free, Free)
  BY <1>1, CallTypes, CallLeads DEF SatelliteCalls
<1>7. Leads(CreateChannels(s), Free, Free)
  BY <1>4, <1>5, <1>6, LeadsConcat
<1> QED BY <1>6, <1>7, LeadsConcat DEF Create

(* stopThreads of one satellite. *)
LEMMA StopThreadsLeads ==
    ASSUME NEW s \in Satellites
    PROVE  Leads(StopThreads(s), Free, Free)
<1>1. Free \in LockStates /\ Moves("stopThreads", Free, Free)
  BY DEF LockStates, Free, Moves, MovesAccess, MovesCalculations, Unlocking, WantsUnlocked
<1> QED BY <1>1, CallTypes, CallLeads DEF StopThreads, SatelliteCalls

(* The destructor of a satellite. *)
LEMMA DestroyLeads ==
    ASSUME NEW s \in Satellites
    PROVE  Leads(Destroy(s), Free, Free)
<1>1. Free \in LockStates /\ Moves("delete", Free, Free)
  BY DEF LockStates, Free, Moves, MovesAccess, MovesCalculations, Unlocking, WantsUnlocked
<1>2. Leads(Call("delete", s), Free, Free)
  BY <1>1, CallTypes, CallLeads DEF SatelliteCalls
<1>3. Leads(StopThreads(s) \o CloseSatellite(s), Free, Free)
  BY StopThreadsLeads, CloseLeads, LeadsConcat
<1> QED BY <1>2, <1>3, LeadsConcat DEF Destroy

(* The destructor of the group. *)
LEMMA DestroyGroupLeads == Leads(DestroyGroup, Free, Free)
<1> DEFINE G == [s \in Satellites |-> StopThreads(s)]
           c == FlattenSeq([i \in 1 .. Len(SetToSeq(Satellites)) |-> G[SetToSeq(Satellites)[i]]])
           H == [s \in Satellites |-> Call("destroy", s)]
           d == FlattenSeq([i \in 1 .. Len(SetToSeq(Satellites)) |-> H[SetToSeq(Satellites)[i]]])
<1>1. Free \in LockStates /\ Moves("destroy", Free, Free)
  BY DEF LockStates, Free, Moves, MovesAccess, MovesCalculations, Unlocking, WantsUnlocked
<1>2. \A s \in Satellites : Leads(G[s], Free, Free) /\ Leads(H[s], Free, Free)
  BY <1>1, StopThreadsLeads, CallTypes, CallLeads DEF SatelliteCalls
<1>3. [i \in 1 .. Len(SetToSeq(Satellites)) |-> G[SetToSeq(Satellites)[i]]]
      = [i \in 1 .. Len(SetToSeq(Satellites)) |-> StopThreads(SetToSeq(Satellites)[i])]
  BY SetInOrder, FiniteAssumption
<1>4. [i \in 1 .. Len(SetToSeq(Satellites)) |-> H[SetToSeq(Satellites)[i]]]
      = [i \in 1 .. Len(SetToSeq(Satellites)) |-> Call("destroy", SetToSeq(Satellites)[i])]
  BY SetInOrder, FiniteAssumption
<1>5. DestroyGroup = c \o d
  BY <1>3, <1>4 DEF DestroyGroup, ForEach
<1> HIDE DEF G, H
<1>6. Leads(c, Free, Free)
  <2>1. c = FlattenSeq([i \in 1 .. Len(SetToSeq(Satellites)) |-> G[SetToSeq(Satellites)[i]]])
    OBVIOUS
  <2> HIDE DEF c
  <2> QED BY <1>1, <1>2, <2>1, FiniteAssumption, LeadsForEach
<1>7. Leads(d, Free, Free)
  <2>1. d = FlattenSeq([i \in 1 .. Len(SetToSeq(Satellites)) |-> H[SetToSeq(Satellites)[i]]])
    OBVIOUS
  <2> HIDE DEF d
  <2> QED BY <1>1, <1>2, <2>1, FiniteAssumption, LeadsForEach
<1> QED BY <1>5, <1>6, <1>7, LeadsConcat

(* What main does for a log. *)
LEMMA LogLeads ==
    ASSUME TypeOK, Log \/ Gap \/ EndOfInput
    PROVE  ((\E s \in Satellites : Feed(s)) /\ UNCHANGED todo) \/ Leads(todo', Free, Free)
<1>1. Free \in LockStates
  BY DEF LockStates, Free
<1>2. ASSUME NEW s \in Satellites, SatVis(s) PROVE Leads(todo', Free, Free)
  <2>1. PICK n \in {"enable", "disable"} :
            todo' \in {c \o Call(n, s) : c \in {Create(s), Destroy(s), <<>>}}
    BY <1>2 DEF SatVis
  <2>2. Moves(n, Free, Free)
    BY DEF Free, Moves, MovesAccess, MovesCalculations, Unlocking, WantsUnlocked
  <2>3. Leads(Call(n, s), Free, Free)
    BY <1>1, <2>2, CallTypes, CallLeads DEF SatelliteCalls
  <2>4. Leads(<<>>, Free, Free)
    BY <1>1, LeadsEmpty
  <2> QED BY <2>1, <2>3, <2>4, CreateLeads, DestroyLeads, LeadsConcat
<1>3. ASSUME NEW s \in Satellites, Elevation(s) PROVE Leads(todo', Free, Free)
  <2> DEFINE x == <<"shared", "free">>
  <2>1. x \in LockStates /\ Moves("shared", Free, x) /\ Moves("pushElevationAngle", x, Free)
    BY DEF LockStates, Free, Moves, MovesAccess, MovesCalculations, Unlocking, WantsUnlocked
  <2> HIDE DEF x
  <2>2. Leads(Step("shared"), Free, x) /\ Leads(Call("pushElevationAngle", s), x, Free)
    BY <1>1, <2>1, CallTypes, CallLeads, StepLeads DEF SatelliteCalls, PlainCalls
  <2>3. todo' = Step("shared") \o Call("pushElevationAngle", s)
    BY <1>3 DEF Elevation
  <2> QED BY <2>2, <2>3, LeadsConcat
<1>4. ASSUME Gap PROVE Leads(todo', Free, Free)
  <2>1. Moves("activate", Free, Free)
    BY DEF Free, Moves, MovesAccess, MovesCalculations, Unlocking, WantsUnlocked
  <2>2. Leads(Step("activate"), Free, Free)
    BY <1>1, <2>1, StepLeads DEF PlainCalls
  <2>3. todo' = ReleaseAll \o DestroyGroup \o StopPredictions \o Step("activate")
    BY <1>4 DEF Gap
  <2> QED BY <2>2, <2>3, ReleaseAllLeads, DestroyGroupLeads, StopPredictionsLeads, LeadsConcat
<1>5. ASSUME EndOfInput PROVE Leads(todo', Free, Free)
  <2>1. Moves("exit", Free, Free)
    BY DEF Free, Moves, MovesAccess, MovesCalculations, Unlocking, WantsUnlocked
  <2>2. Leads(Step("exit"), Free, Free)
    BY <1>1, <2>1, StepLeads DEF PlainCalls
  <2>3. todo' = DestroyGroup \o StopPredictions \o StopManager \o Step("exit")
    BY <1>5 DEF EndOfInput
  <2> QED BY <2>2, <2>3, DestroyGroupLeads, StopPredictionsLeads, StopManagerLeads, LeadsConcat
<1>6. ASSUME NEW s \in Satellites, Feed(s) PROVE UNCHANGED todo
  BY <1>6 DEF Feed
<1> QED BY <1>2, <1>3, <1>4, <1>5, <1>6 DEF Log

(* What main, or the handler on top of it, believes of the locks: a handler
   that interrupted main with lockCalcutaions_ held waits at its first lock(),
   one that interrupted it with access to satellites_ where it wants that access,
   and one that interrupted it inside the logger before it gets there. *)
Believed == <<access, IF calcLocked /\ interrupted # "calculations" THEN "taken" ELSE "free">>
Blocked == {"shared", "upgrade", "exclusive"}
(* The handler up to the message it cannot write, and up to the lock of
   satellites_ it cannot get. *)
LoggerLists == {HandlerCalls, Tail(HandlerCalls), Tail(Tail(HandlerCalls))}
BlockedLists == LoggerLists \cup {Tail(Tail(Tail(HandlerCalls)))}

LockInv ==
    /\ interrupted \notin Blocked \cup {"logger"} => Leads(todo, Believed, Free)
    /\ interrupted = "nothing" => Leads(suspended, Free, Free)
    /\ interrupted = "calculations" => calcLocked /\ Leads(suspended, <<"none", "taken">>, Free)
    /\ interrupted \in Blocked => access \in Blocked /\ todo \in BlockedLists
    /\ interrupted = "logger" => todo \in LoggerLists

(* The first call of a list stays the first when the list is extended. *)
LEMMA FirstStays ==
    ASSUME NEW s \in Seq(AllCalls), NEW t \in Seq(AllCalls), s # <<>>
    PROVE  /\ s \o t \in Seq(AllCalls) /\ s \o t # <<>>
           /\ Head(s \o t) = Head(s) /\ Tail(s \o t) = Tail(s) \o t
<1> DEFINE st == s \o t  u == Tail(s) \o t
<1>1. /\ Len(s) \in Nat \ {0} /\ Len(t) \in Nat /\ Head(s) = s[1]
      /\ Tail(s) \in Seq(AllCalls) /\ Len(Tail(s)) = Len(s) - 1
      /\ \A i \in 1 .. Len(s) - 1 : Tail(s)[i] = s[i + 1]
  BY HeadTailProperties, LenProperties, EmptySeq
<1>2. /\ st \in Seq(AllCalls) /\ Len(st) = Len(s) + Len(t)
      /\ \A i \in 1 .. Len(s) + Len(t) : st[i] = IF i <= Len(s) THEN s[i] ELSE t[i - Len(s)]
  BY ConcatProperties
<1>3. /\ u \in Seq(AllCalls) /\ Len(u) = Len(s) - 1 + Len(t)
      /\ \A i \in 1 .. Len(s) - 1 + Len(t) :
            u[i] = IF i <= Len(s) - 1 THEN Tail(s)[i] ELSE t[i - (Len(s) - 1)]
  <2> DEFINE r == Tail(s)
  <2>1. r \in Seq(AllCalls) /\ Len(r) = Len(s) - 1
    BY <1>1
  <2> HIDE DEF r
  <2>2. /\ r \o t \in Seq(AllCalls) /\ Len(r \o t) = Len(r) + Len(t)
        /\ \A i \in 1 .. Len(r) + Len(t) : (r \o t)[i] = IF i <= Len(r) THEN r[i] ELSE t[i - Len(r)]
    BY <2>1, ConcatProperties
  <2> QED BY <2>1, <2>2 DEF r
<1> HIDE DEF st, u
<1>4. st # <<>> /\ Head(st) = st[1] /\ st[1] = s[1]
  BY <1>1, <1>2, EmptySeq
<1>5. /\ Tail(st) \in Seq(AllCalls) /\ Len(Tail(st)) = Len(s) + Len(t) - 1
      /\ \A i \in 1 .. Len(s) + Len(t) - 1 : Tail(st)[i] = st[i + 1]
  BY <1>2, <1>4, HeadTailProperties
<1>6. ASSUME NEW i \in 1 .. Len(s) + Len(t) - 1 PROVE Tail(st)[i] = u[i]
  <2>0. Tail(st)[i] = st[i + 1] /\ i + 1 \in 1 .. Len(s) + Len(t) /\ i \in 1 .. Len(s) - 1 + Len(t)
    BY <1>1, <1>5
  <2>1. CASE i <= Len(s) - 1
    <3>1. st[i + 1] = s[i + 1]
      BY <2>0, <2>1, <1>1, <1>2
    <3>2. u[i] = s[i + 1]
      <4>1. i \in 1 .. Len(s) - 1
        BY <2>1, <1>1
      <4> QED BY <4>1, <2>0, <1>1, <1>3
    <3> QED BY <2>0, <3>1, <3>2
  <2>2. CASE ~(i <= Len(s) - 1)
    <3>1. i - (Len(s) - 1) = i + 1 - Len(s) /\ ~(i + 1 <= Len(s))
      BY <2>2, <1>1
    <3>2. st[i + 1] = t[i + 1 - Len(s)]
      BY <2>0, <3>1, <1>2
    <3>3. u[i] = t[i - (Len(s) - 1)]
      BY <2>0, <2>2, <1>3
    <3> QED BY <2>0, <3>1, <3>2, <3>3
  <2> QED BY <2>1, <2>2
<1>7. Tail(st) = u
  <2>1. Len(Tail(st)) = Len(u)
    BY <1>1, <1>3, <1>5
  <2>2. \A i \in 1 .. Len(u) : Tail(st)[i] = u[i]
    <3>1. Len(u) = Len(s) + Len(t) - 1
      BY <1>1, <1>3
    <3> QED BY <3>1, <1>6
  <2> QED BY <1>3, <1>5, <2>1, <2>2, SeqEqual
<1> QED BY <1>1, <1>2, <1>4, <1>7 DEF st, u

(* The handler's first calls. *)
LEMMA BlockedNames ==
    /\ HandlerCalls # <<>> /\ Head(HandlerCalls)[1] = "stopManager"
    /\ Tail(HandlerCalls) # <<>> /\ Head(Tail(HandlerCalls))[1] = "join"
    /\ Tail(Tail(HandlerCalls)) # <<>> /\ Head(Tail(Tail(HandlerCalls)))[1] = "deactivate"
    /\ Tail(Tail(Tail(HandlerCalls))) # <<>> /\ Head(Tail(Tail(Tail(HandlerCalls))))[1] = "upgrade"
<1> DEFINE m == <<"stopManager", "none">>  j == <<"join", "none">>  d == <<"deactivate", "none">>
           u == <<"upgrade", "none">>
           M == Step("stopManager")  J == Step("join")  D == Step("deactivate")  U == Step("upgrade")
           X == Step("exclusive")  P == Step("stopExperiments")  H == Step("handled")
<1>1. /\ m \in AllCalls /\ j \in AllCalls /\ d \in AllCalls /\ u \in AllCalls
      /\ J \in Seq(AllCalls) /\ U \in Seq(AllCalls)
      /\ X \in Seq(AllCalls) /\ P \in Seq(AllCalls) /\ H \in Seq(AllCalls)
  BY CallTypes, OneStep DEF PlainCalls
<1>2. M = <<m>> /\ J = <<j>> /\ D = <<d>> /\ U = <<u>>
  BY DEF Step, Call
<1>3. m[1] = "stopManager" /\ j[1] = "join" /\ d[1] = "deactivate" /\ u[1] = "upgrade"
  OBVIOUS
<1>4. HandlerCalls = ((M \o J) \o (((D \o U) \o X) \o P)) \o H
  BY DEF HandlerCalls, StopManager, StopPredictions
<1> HIDE DEF m, j, d, u, M, J, D, U, X, P, H
<1>5. /\ M \o J \in Seq(AllCalls) /\ M \o J # <<>> /\ Head(M \o J) = m /\ Tail(M \o J) = J
      /\ D \o U \in Seq(AllCalls) /\ D \o U # <<>> /\ Head(D \o U) = d /\ Tail(D \o U) = U
  <2>1. <<m>> \in Seq(AllCalls) /\ <<d>> \in Seq(AllCalls)
    BY <1>1
  <2>2. M \o J \in Seq(AllCalls) /\ D \o U \in Seq(AllCalls)
    BY <1>1, <1>2, <2>1, ConcatProperties
  <2> QED BY <1>1, <1>2, <2>2, FirstCall
<1> DEFINE DU == D \o U  DUX == DU \o X  Q == DUX \o P  UX == U \o X  R == UX \o P
           MJ == M \o J  MQ == MJ \o Q  JQ == J \o Q
<1>6. DU \in Seq(AllCalls) /\ DU # <<>> /\ Head(DU) = d /\ Tail(DU) = U
      /\ MJ \in Seq(AllCalls) /\ MJ # <<>> /\ Head(MJ) = m /\ Tail(MJ) = J
  BY <1>5
<1> HIDE DEF DU, MJ
<1>7. DUX \in Seq(AllCalls) /\ DUX # <<>> /\ Head(DUX) = d /\ Tail(DUX) = UX
  BY <1>1, <1>6, FirstStays
<1>8. U # <<>> /\ Head(U) = u
  BY <1>2
<1>9. UX \in Seq(AllCalls) /\ UX # <<>> /\ Head(UX) = u
  BY <1>1, <1>8, FirstStays
<1> HIDE DEF DUX, UX
<1>10. Q \in Seq(AllCalls) /\ Q # <<>> /\ Head(Q) = d /\ Tail(Q) = R
  BY <1>1, <1>7, FirstStays
<1>11. R \in Seq(AllCalls) /\ R # <<>> /\ Head(R) = u
  BY <1>1, <1>9, FirstStays
<1> HIDE DEF Q, R
<1>12. MQ \in Seq(AllCalls) /\ MQ # <<>> /\ Head(MQ) = m /\ Tail(MQ) = JQ
  BY <1>6, <1>10, FirstStays
<1>13. JQ # <<>> /\ Head(JQ) = j /\ Tail(JQ) = Q
  BY <1>1, <1>2, <1>10, FirstCall
<1>14. JQ \in Seq(AllCalls)
  BY <1>1, <1>10, ConcatProperties
<1>15. HandlerCalls = MQ \o H
  BY <1>4 DEF MJ, Q, DUX, DU
<1> HIDE DEF MQ, JQ
<1>16. HandlerCalls # <<>> /\ Head(HandlerCalls) = m /\ Tail(HandlerCalls) = JQ \o H
  BY <1>1, <1>12, <1>15, FirstStays
<1>17. JQ \o H # <<>> /\ Head(JQ \o H) = j /\ Tail(JQ \o H) = Q \o H
  BY <1>1, <1>13, <1>14, FirstStays
<1>18. Q \o H # <<>> /\ Head(Q \o H) = d /\ Tail(Q \o H) = R \o H
  BY <1>1, <1>10, FirstStays
<1>19. R \o H # <<>> /\ Head(R \o H) = u
  BY <1>1, <1>11, FirstStays
<1> QED BY <1>3, <1>16, <1>17, <1>18, <1>19

(* A call is replaced by calls that lead to where it would. *)
LEMMA ReplacedLeads ==
    ASSUME NEW n, Calls(n), NEW V \in LockStates, Leads(todo, V, Free), NEW c, CallsNow(c),
           NEW W, \A z \in LockStates : Moves(n, V, z) => Leads(c, W, z)
    PROVE  Leads(todo', W, Free)
<1>1. PICK z \in LockStates : Moves(n, V, z) /\ Leads(Tail(todo), z, Free)
  BY LeadsTail DEF Calls
<1>2. Leads(c, W, z)
  BY <1>1
<1> QED BY <1>1, <1>2, LeadsConcat DEF CallsNow

(* A call returns. *)
LEMMA ReturnLeads ==
    ASSUME NEW n, Calls(n), NEW V \in LockStates, Leads(todo, V, Free), Return,
           NEW W, \A z \in LockStates : Moves(n, V, z) => z = W
    PROVE  Leads(todo', W, Free)
<1>1. PICK z \in LockStates : Moves(n, V, z) /\ Leads(Tail(todo), z, Free)
  BY LeadsTail DEF Calls
<1> QED BY <1>1 DEF Return

(* The access and the lock of a state. *)
LEMMA BelievedTypes ==
    ASSUME TypeOK
    PROVE  Believed \in LockStates /\ access \in Accesses
BY DEF TypeOK, Believed, LockStates, Accesses

(* The calls that return: access and calcLocked are what the call leaves. *)
LEMMA ReturningLeads ==
    ASSUME TypeOK, TypeOK', StackOK, Leads(todo, Believed, Free), UNCHANGED signal,
           interrupted = "calculations" => calcLocked,
           \/ DoStopFlag \/ DoLock \/ DoAdd \/ DoClear \/ DoUnlock \/ DoStopManager \/ DoJoin
           \/ DoChannels \/ DoEnable \/ DoDisable \/ DoDelete \/ DoUpgrade \/ DoExclusive
           \/ DoGiveUp \/ DoInsert \/ DoDeleteExperiment \/ DoActivate \/ DoShared \/ DoExit
    PROVE  /\ Leads(todo', Believed', Free)
           /\ interrupted = "calculations" => calcLocked'
<1> USE DEF Moves, MovesAccess, MovesCalculations, Unlocking, WantsUnlocked
<1>0. /\ Believed \in LockStates /\ interrupted' = interrupted
      /\ Believed[1] = access
      /\ Believed[2] = IF calcLocked /\ interrupted # "calculations" THEN "taken" ELSE "free"
      /\ Believed'[1] = access'
      /\ Believed'[2] = IF calcLocked' /\ interrupted' # "calculations" THEN "taken" ELSE "free"
      /\ calcLocked \in BOOLEAN /\ calcLocked' \in BOOLEAN
  BY BelievedTypes DEF signal, Believed, TypeOK
<1>1. \A z \in LockStates : z = <<z[1], z[2]>>
  BY DEF LockStates
<1>2. Believed' = <<Believed'[1], Believed'[2]>>
  BY DEF Believed
<1> HIDE DEF Moves
<1>3. ASSUME NEW n, Calls(n), Return,
             \A z \in LockStates : Moves(n, Believed, z) => z[1] = Believed'[1] /\ z[2] = Believed'[2]
      PROVE  Leads(todo', Believed', Free)
  <2>1. \A z \in LockStates : Moves(n, Believed, z) => z = Believed'
    BY <1>1, <1>2, <1>3
  <2> QED BY <1>0, <1>3, <2>1, ReturnLeads
<1>4. ASSUME NEW n, Calls(n), Return, UNCHANGED locks,
             n \in {"stopFlag", "clear", "stopManager", "join", "channels", "enable", "disable",
                    "delete", "insert", "deleteExperiment", "activate", "deactivate", "exit"}
      PROVE  Leads(todo', Believed', Free) /\ calcLocked' = calcLocked
  <2>1. access' = access /\ calcLocked' = calcLocked
    BY <1>4 DEF locks
  <2>2. \A z \in LockStates : Moves(n, Believed, z) => z[1] = Believed'[1] /\ z[2] = Believed'[2]
    BY <1>0, <1>4, <2>1 DEF Moves
  <2> QED BY <1>3, <1>4, <2>1, <2>2
<1>5. ASSUME NEW n, Calls(n), Return, UNCHANGED calcLocked,
             \/ n = "upgrade" /\ access' = "upgrade"
             \/ n = "exclusive" /\ access' = "exclusive"
             \/ n = "giveUp" /\ access' = "none"
             \/ n = "shared" /\ access' = "shared"
      PROVE  Leads(todo', Believed', Free)
  <2>1. \A z \in LockStates : Moves(n, Believed, z) => z[1] = Believed'[1] /\ z[2] = Believed'[2]
    BY <1>0, <1>5 DEF Moves
  <2> QED BY <1>3, <1>5, <2>1
<1>6. CASE DoLock
  <2>1. Calls("lock") /\ Return /\ ~calcLocked /\ calcLocked' = TRUE /\ access' = access
    BY <1>6 DEF DoLock
  <2>2. interrupted # "calculations"
    BY <2>1
  <2>3. \A z \in LockStates : Moves("lock", Believed, z) => z[1] = Believed'[1] /\ z[2] = Believed'[2]
    BY <1>0, <2>1, <2>2 DEF Moves
  <2>4. Leads(todo', Believed', Free)
    BY <1>3, <2>1, <2>3
  <2> QED BY <2>2, <2>4
<1>7. CASE DoAdd \/ DoUnlock
  <2>1. PICK n \in Unlocking : Calls(n) /\ Return /\ calcLocked' = FALSE /\ access' = access
    BY <1>7 DEF DoAdd, DoUnlock
  <2>2. interrupted # "calculations"
    <3>1. PICK z \in LockStates : Moves(n, Believed, z)
      BY <1>0, <2>1, LeadsTail DEF Calls
    <3>2. Believed[2] = "taken"
      BY <2>1, <3>1 DEF Moves
    <3> QED BY <1>0, <3>2
  <2>3. \A z \in LockStates : Moves(n, Believed, z) => z[1] = Believed'[1] /\ z[2] = Believed'[2]
    BY <1>0, <2>1, <2>2 DEF Moves
  <2>4. Leads(todo', Believed', Free)
    BY <1>3, <2>1, <2>3
  <2> QED BY <2>2, <2>4
<1>8. CASE DoUpgrade \/ DoExclusive \/ DoGiveUp \/ DoShared
  <2>1. UNCHANGED calcLocked
    BY <1>8 DEF DoUpgrade, DoExclusive, DoGiveUp, DoShared
  <2>2. Leads(todo', Believed', Free)
    BY <1>5, <1>8, <2>1 DEF DoUpgrade, DoExclusive, DoGiveUp, DoShared
  <2> QED BY <2>1, <2>2
<1>9. CASE \/ DoStopFlag \/ DoClear \/ DoStopManager \/ DoJoin \/ DoChannels \/ DoEnable \/ DoDisable
           \/ DoDelete \/ DoInsert \/ DoDeleteExperiment \/ DoActivate \/ DoExit
  <2>1. \E n \in {"stopFlag", "clear", "stopManager", "join", "channels", "enable", "disable",
                  "delete", "insert", "deleteExperiment", "activate", "deactivate", "exit"} :
           Calls(n) /\ Return /\ UNCHANGED locks
    BY <1>9 DEF DoStopFlag, DoClear, DoStopManager, DoJoin, DoChannels, DoEnable, DoDisable,
                DoDelete, DoInsert, DoDeleteExperiment, DoActivate, DoExit
  <2> QED BY <1>4, <2>1
<1> QED BY <1>6, <1>7, <1>8, <1>9

(* The calls that are replaced by others, and an elevation angle. *)
LEMMA CallingLeads ==
    ASSUME TypeOK, TypeOK', StackOK, Leads(todo, Believed, Free), UNCHANGED signal,
           interrupted = "calculations" => calcLocked,
           \/ DoRegister \/ DoErase \/ DoEraseAll \/ DoStopThreads \/ DoDestroy \/ DoAddSatellite
           \/ DoClose \/ DoStopExperiments \/ DoPushElevationAngle
    PROVE  /\ Leads(todo', Believed', Free)
           /\ interrupted = "calculations" => calcLocked'
<1> DEFINE a == access  l == Believed[2]
<1>0. /\ Believed \in LockStates /\ Believed = <<a, l>> /\ a \in Accesses
      /\ <<a, "free">> \in LockStates /\ <<a, "taken">> \in LockStates
  BY BelievedTypes DEF Believed, LockStates, Accesses
<1>1. calcLocked' = calcLocked /\ interrupted' = interrupted
  BY DEF signal, locks, DoRegister, DoErase, DoEraseAll, DoStopThreads, DoDestroy, DoAddSatellite,
         DoClose, DoStopExperiments, DoPushElevationAngle
<1>2. ~DoPushElevationAngle => Believed' = Believed
  BY <1>1 DEF Believed, locks, DoRegister, DoErase, DoEraseAll, DoStopThreads, DoDestroy,
              DoAddSatellite, DoClose, DoStopExperiments
<1>3. \A z \in LockStates : z = <<z[1], z[2]>>
  BY DEF LockStates
(* What a call wants of the locks, and leaves them as. *)
<1>4. ASSUME NEW n, NEW z \in LockStates, Moves(n, Believed, z)
      PROVE  /\ n \in {"register", "stopThreads", "close"} => l = "free" /\ z = <<a, "free">>
             /\ n \in {"erase", "eraseAll"} => l = "taken" /\ z = <<a, "free">>
             /\ n \in {"destroy", "addSatellite"} => Believed = Free /\ z = Free
             /\ n = "close" => a = "exclusive"
             /\ n = "stopExperiments" => Believed = <<"exclusive", "free">> /\ z = Free
             /\ n = "pushElevationAngle" => a = "shared" /\ z = <<"none", l>>
  <2>1. Believed[1] = a /\ z = <<z[1], z[2]>>
    BY <1>0, <1>3, <1>4
  <2>2. MovesAccess(n, a, z[1]) /\ MovesCalculations(n, l, z[2])
    BY <1>4, <2>1 DEF Moves
  <2> HIDE DEF a, l
  <2> QED BY <1>0, <2>1, <2>2 DEF MovesAccess, MovesCalculations, Unlocking, WantsUnlocked, Free
<1> HIDE DEF a, l
<1>x. Leads(<<>>, <<a, "free">>, <<a, "free">>) /\ Leads(<<>>, Free, Free)
  BY <1>0, LeadsEmpty DEF Free, LockStates
<1>5. CASE DoRegister
  <2> DEFINE c == IF managerStopped THEN <<>> ELSE Step("lock") \o Call("add", Argument)
  <2>1. Calls("register")
    BY <1>5 DEF DoRegister
  <2>2. CASE managerStopped
    <3>1. Return
      BY <1>5, <2>2 DEF DoRegister
    <3>2. \A z \in LockStates : Moves("register", Believed, z) => z = Believed
      BY <1>0, <1>4
    <3> QED BY <1>0, <1>1, <1>2, <1>5, <2>1, <3>1, <3>2, ReturnLeads DEF DoRegister, DoPushElevationAngle, Calls
  <2>3. CASE ~managerStopped
    <3>1. CallsNow(Step("lock") \o Call("add", Argument))
      BY <1>5, <2>3 DEF DoRegister
    <3>2. Moves("lock", <<a, "free">>, <<a, "taken">>) /\ Moves("add", <<a, "taken">>, <<a, "free">>)
      BY DEF Moves, MovesAccess, MovesCalculations, Unlocking, WantsUnlocked
    <3>3. <<"register", Argument>> \in AllCalls
      BY <2>1, TopOfStack DEF StackOK
    <3>4. <<"add", Argument>> \in AllCalls
      BY <3>3, ArgumentTypes, CallTypes DEF CalculationCalls
    <3>5. Leads(Step("lock"), <<a, "free">>, <<a, "taken">>)
      BY <1>0, <3>2, StepLeads DEF PlainCalls
    <3>6. Leads(Call("add", Argument), <<a, "taken">>, <<a, "free">>)
      BY <1>0, <3>2, <3>4, CallLeads
    <3>7. Leads(Step("lock") \o Call("add", Argument), <<a, "free">>, <<a, "free">>)
      BY <3>5, <3>6, LeadsConcat
    <3>8. \A z \in LockStates : Moves("register", Believed, z) =>
              Leads(Step("lock") \o Call("add", Argument), Believed, z)
      BY <1>0, <1>4, <3>7
    <3>9. Leads(todo', Believed, Free)
      BY <1>0, <2>1, <3>1, <3>8, ReplacedLeads
    <3> QED BY <1>1, <1>2, <1>5, <2>1, <3>9 DEF DoRegister, DoPushElevationAngle, Calls
  <2> QED BY <2>2, <2>3
<1>6. CASE DoErase \/ DoEraseAll
  <2>1. PICK n \in {"erase", "eraseAll"} : Calls(n) /\ (CallsNow(ClearOrders) \/ CallsNow(Step("unlock")))
    BY <1>6 DEF DoErase, DoEraseAll
  <2>2. Moves("unlock", <<a, "taken">>, <<a, "free">>)
    BY DEF Moves, MovesAccess, MovesCalculations, Unlocking, WantsUnlocked
  <2>3. Leads(Step("unlock"), <<a, "taken">>, <<a, "free">>)
    BY <1>0, <2>2, StepLeads DEF PlainCalls
  <2>4. Leads(ClearOrders, <<a, "taken">>, <<a, "free">>)
    BY <1>0, ClearLeads
  <2>5. \A z \in LockStates : Moves(n, Believed, z) =>
            Leads(Step("unlock"), Believed, z) /\ Leads(ClearOrders, Believed, z)
    BY <1>0, <1>4, <2>1, <2>3, <2>4
  <2>6. Leads(todo', Believed, Free)
    BY <1>0, <2>1, <2>5, ReplacedLeads
  <2>7. ~DoPushElevationAngle
    BY <2>1 DEF DoPushElevationAngle, Calls
  <2> QED BY <1>1, <1>2, <2>6, <2>7
<1>7. CASE DoStopThreads
  <2>1. Calls("stopThreads")
        /\ CallsNow(IF Argument \in channels THEN ReleaseChannels(Argument) ELSE <<>>)
    BY <1>7 DEF DoStopThreads
  <2>2. <<"stopThreads", Argument>> \in AllCalls
    BY <2>1, TopOfStack DEF StackOK
  <2>3. Argument \in Satellites
    BY <2>2, ArgumentTypes DEF SatelliteCalls
  <2>4. Leads(ReleaseChannels(Argument), <<a, "free">>, <<a, "free">>)
    BY <1>0, <2>3, ReleaseChannelsLeads
  <2>5. \A z \in LockStates : Moves("stopThreads", Believed, z) =>
            Leads(ReleaseChannels(Argument), Believed, z) /\ Leads(<<>>, Believed, z)
    BY <1>0, <1>4, <1>x, <2>4
  <2>6. Leads(todo', Believed, Free)
    <3>1. CASE Argument \in channels
      BY <3>1, <1>0, <2>1, <2>5, ReplacedLeads
    <3>2. CASE Argument \notin channels
      BY <3>2, <1>0, <2>1, <2>5, ReplacedLeads
    <3> QED BY <3>1, <3>2
  <2>7. ~DoPushElevationAngle
    BY <2>1 DEF DoPushElevationAngle, Calls
  <2> QED BY <1>1, <1>2, <2>6, <2>7
<1>8. CASE DoDestroy
  <2>1. Calls("destroy") /\ CallsNow(IF Argument \in channels THEN Destroy(Argument) ELSE <<>>)
    BY <1>8 DEF DoDestroy
  <2>2. <<"destroy", Argument>> \in AllCalls
    BY <2>1, TopOfStack DEF StackOK
  <2>3. Argument \in Satellites
    BY <2>2, ArgumentTypes DEF SatelliteCalls
  <2>4. Leads(Destroy(Argument), Free, Free)
    BY <2>3, DestroyLeads
  <2>5. \A z \in LockStates : Moves("destroy", Believed, z) =>
            Leads(Destroy(Argument), Believed, z) /\ Leads(<<>>, Believed, z)
    BY <1>4, <1>x, <2>4
  <2>6. Leads(todo', Believed, Free)
    <3>1. CASE Argument \in channels
      BY <3>1, <1>0, <2>1, <2>5, ReplacedLeads
    <3>2. CASE Argument \notin channels
      BY <3>2, <1>0, <2>1, <2>5, ReplacedLeads
    <3> QED BY <3>1, <3>2
  <2>7. ~DoPushElevationAngle
    BY <2>1 DEF DoPushElevationAngle, Calls
  <2> QED BY <1>1, <1>2, <2>6, <2>7
<1>9. CASE DoAddSatellite
  <2> DEFINE w == WithExclusiveAccess(Register(Experiment(Argument)) \o Call("insert", Argument))
             x == <<"exclusive", "free">>
  <2>1. Calls("addSatellite") /\ CallsNow(IF isActive THEN w ELSE <<>>)
    BY <1>9 DEF DoAddSatellite
  <2>2. <<"addSatellite", Argument>> \in AllCalls
    BY <2>1, TopOfStack DEF StackOK
  <2>3. Argument \in Satellites
    BY <2>2, ArgumentTypes DEF SatelliteCalls
  <2>4. x \in LockStates /\ Moves("register", x, x) /\ Moves("insert", x, x)
    BY DEF LockStates, Moves, MovesAccess, MovesCalculations, Unlocking, WantsUnlocked
  <2>5. Leads(Register(Experiment(Argument)), x, x)
    <3> HIDE DEF x
    <3> QED BY <2>3, <2>4, ChannelTypes, CallTypes, CallLeads DEF Register, CalculationCalls
  <2>6. Leads(Call("insert", Argument), x, x)
    <3> HIDE DEF x
    <3> QED BY <2>3, <2>4, CallTypes, CallLeads DEF SatelliteCalls
  <2>7. Leads(w, Free, Free)
    BY <2>5, <2>6, LeadsConcat, ExclusiveLeads
  <2> HIDE DEF w, x
  <2>8. \A z \in LockStates : Moves("addSatellite", Believed, z) =>
            Leads(w, Believed, z) /\ Leads(<<>>, Believed, z)
    BY <1>4, <1>x, <2>7
  <2>9. Leads(todo', Believed, Free)
    <3>1. CASE isActive
      BY <3>1, <1>0, <2>1, <2>8, ReplacedLeads
    <3>2. CASE ~isActive
      BY <3>2, <1>0, <2>1, <2>8, ReplacedLeads
    <3> QED BY <3>1, <3>2
  <2>10. ~DoPushElevationAngle
    BY <2>1 DEF DoPushElevationAngle, Calls
  <2> QED BY <1>1, <1>2, <2>9, <2>10
<1>10. CASE DoClose
  <2> DEFINE c == Release(Experiment(Argument)) \o Call("deleteExperiment", Argument)
             x == <<"exclusive", "free">>
  <2>1. Calls("close") /\ CallsNow(IF Argument \in experiments THEN c ELSE <<>>)
    BY <1>10 DEF DoClose
  <2>2. <<"close", Argument>> \in AllCalls
    BY <2>1, TopOfStack DEF StackOK
  <2>3. Argument \in Satellites
    BY <2>2, ArgumentTypes DEF SatelliteCalls
  <2>4. x \in LockStates /\ Moves("deleteExperiment", x, x)
    BY DEF LockStates, Moves, MovesAccess, MovesCalculations, Unlocking, WantsUnlocked
  <2>5. Leads(Release(Experiment(Argument)), x, x)
    BY <2>3, ChannelTypes, ReleaseLeads DEF Accesses
  <2>6. Leads(Call("deleteExperiment", Argument), x, x)
    <3> HIDE DEF x
    <3> QED BY <2>3, <2>4, CallTypes, CallLeads DEF SatelliteCalls
  <2>7. Leads(c, x, x) /\ Leads(<<>>, x, x)
    BY <2>4, <2>5, <2>6, LeadsConcat, LeadsEmpty
  <2> HIDE DEF c
  <2>8. \A z \in LockStates : Moves("close", Believed, z) =>
            Leads(c, Believed, z) /\ Leads(<<>>, Believed, z)
    BY <1>0, <1>4, <2>7
  <2>9. Leads(todo', Believed, Free)
    <3>1. CASE Argument \in experiments
      BY <3>1, <1>0, <2>1, <2>8, ReplacedLeads
    <3>2. CASE Argument \notin experiments
      BY <3>2, <1>0, <2>1, <2>8, ReplacedLeads
    <3> QED BY <3>1, <3>2
  <2>10. ~DoPushElevationAngle
    BY <2>1 DEF DoPushElevationAngle, Calls
  <2> QED BY <1>1, <1>2, <2>9, <2>10
<1>11. CASE DoStopExperiments
  <2>1. Calls("stopExperiments") /\ CallsNow(CloseAll(experiments))
    BY <1>11 DEF DoStopExperiments
  <2>2. Leads(CloseAll(experiments), <<"exclusive", "free">>, Free)
    BY CloseAllLeads DEF TypeOK
  <2>3. \A z \in LockStates : Moves("stopExperiments", Believed, z) =>
            Leads(CloseAll(experiments), Believed, z)
    BY <1>4, <2>2
  <2>4. Leads(todo', Believed, Free)
    BY <1>0, <2>1, <2>3, ReplacedLeads
  <2>5. ~DoPushElevationAngle
    BY <2>1 DEF DoPushElevationAngle, Calls
  <2> QED BY <1>1, <1>2, <2>4, <2>5
<1>12. CASE DoPushElevationAngle
  <2>1. /\ Calls("pushElevationAngle") /\ access' = "none"
        /\ Return \/ todo' = <<>>
    BY <1>12 DEF DoPushElevationAngle
  <2>2. Believed' = <<"none", l>>
    BY <1>1, <2>1 DEF Believed, l
  <2>3. CASE Return
    <3>1. \A z \in LockStates : Moves("pushElevationAngle", Believed, z) => z = Believed'
      BY <1>4, <2>2
    <3> QED BY <1>0, <1>1, <2>1, <2>3, <3>1, ReturnLeads
  <2>4. CASE todo' = <<>>
    (* nothing is below it *)
    <3>1. Tail(todo) = <<>>
      <4>1. Good(Tail(todo)) /\ todo # <<>> /\ \A f \in Rest : FALSE
        BY <2>1, TopOfStack DEF StackOK, Below, Calls
      <4>2. Tail(todo) \in Seq(AllCalls) /\ Rest = {}
        BY <4>1 DEF Good
      <4> DEFINE t == Tail(todo)
      <4>3. Len(t) \in Nat /\ \A i \in 1 .. Len(t) : t[i] \in ToSet(t)
        BY <4>2, LenProperties DEF ToSet
      <4>4. ToSet(t) = {} /\ t \in Seq(AllCalls)
        BY <4>2 DEF Rest
      <4> HIDE DEF t
      <4>5. ~(1 \in 1 .. Len(t))
        BY <4>3, <4>4
      <4>6. Len(t) = 0
        BY <4>3, <4>5
      <4>7. t = <<>>
        BY <4>4, <4>6, EmptySeq
      <4> QED BY <4>7 DEF t
    <3>2. PICK z \in LockStates : Moves("pushElevationAngle", Believed, z) /\ Leads(Tail(todo), z, Free)
      BY <1>0, <2>1, LeadsTail DEF Calls
    <3>3. z = Believed' /\ Leads(<<>>, z, Free)
      BY <1>4, <2>2, <3>1, <3>2
    <3> QED BY <1>1, <2>4, <3>3
  <2> QED BY <2>1, <2>3, <2>4
<1> QED BY <1>5, <1>6, <1>7, <1>8, <1>9, <1>10, <1>11, <1>12

(* signalTerminate returns only with the locks as it found them. *)
LEMMA HandledLocks ==
    ASSUME IInv, LockInv, DoHandled
    PROVE  LockInv'
<1>1. /\ Calls("handled") /\ todo' = suspended /\ interrupted' = "handled"
      /\ access' = access /\ calcLocked' = calcLocked
  BY DEF DoHandled, locks
<1>2. interrupted \notin Blocked \cup {"logger"}
  BY <1>1, BlockedNames DEF LockInv, BlockedLists, LoggerLists, Calls
<1>3. Believed = Free
  <2>1. PICK z \in LockStates : Moves("handled", Believed, z)
    BY <1>1, <1>2, LeadsTail DEF LockInv, Calls
  <2>2. Believed[1] = "none" /\ Believed[2] = "free"
    BY <2>1 DEF Moves, MovesAccess, MovesCalculations, Unlocking, WantsUnlocked
  <2> QED BY <2>2 DEF Believed, Free
<1>4. HandlerRuns
  <2>1. <<"handled", Argument>> \in ToSet(todo)
    BY <1>1, TopOfStack DEF IInv, StackOK
  <2> QED BY <2>1 DEF IInv, StackOK, HasAny, Due
<1>5. interrupted \in {"nothing", "calculations"}
  BY <1>2, <1>4 DEF HandlerRuns, Blocked, IInv, TypeOK
<1>6. Leads(suspended, Believed', Free)
  <2>0. access = "none" /\ (calcLocked /\ interrupted # "calculations" => FALSE)
    BY <1>3 DEF Believed, Free
  <2>1. CASE interrupted = "nothing"
    <3>1. Believed' = Free
      BY <1>1, <2>0, <2>1 DEF Believed, Free
    <3> QED BY <2>1, <3>1 DEF LockInv
  <2>2. CASE interrupted = "calculations"
    <3>1. Believed' = <<"none", "taken">>
      BY <1>1, <2>0, <2>2 DEF Believed, LockInv
    <3> QED BY <2>2, <3>1 DEF LockInv
  <2> QED BY <1>5, <2>1, <2>2
<1> QED BY <1>1, <1>6 DEF LockInv, Blocked

(* Main, or the handler on top of it, makes a call. *)
LEMMA MainLocks ==
    ASSUME IInv, IInv', LockInv, MainStep
    PROVE  LockInv'
<1>1. CASE DoHandled
  BY <1>1, HandledLocks
<1>2. CASE ~DoHandled /\ interrupted \notin Blocked \cup {"logger"}
  <2>1. UNCHANGED signal
    BY <1>2 DEF MainStep, DoRegister, DoStopFlag, DoLock, DoAdd, DoErase, DoEraseAll, DoClear, DoUnlock,
                DoStopManager, DoJoin, DoChannels, DoEnable, DoDisable, DoStopThreads, DoDestroy,
                DoDelete, DoAddSatellite, DoUpgrade, DoExclusive, DoGiveUp, DoInsert, DoClose,
                DoDeleteExperiment, DoActivate, DoStopExperiments, DoShared, DoPushElevationAngle, DoExit
  <2>2. TypeOK /\ TypeOK' /\ StackOK /\ Leads(todo, Believed, Free)
        /\ (interrupted = "calculations" => calcLocked)
    BY <1>2 DEF IInv, LockInv
  <2>3. /\ Leads(todo', Believed', Free)
        /\ interrupted = "calculations" => calcLocked'
    BY <1>2, <2>1, <2>2, ReturningLeads, CallingLeads DEF MainStep
  <2>4. interrupted' = interrupted /\ suspended' = suspended
    BY <2>1 DEF signal
  <2> QED BY <1>2, <2>3, <2>4 DEF LockInv, Blocked
<1>3. CASE ~DoHandled /\ interrupted \in Blocked
  <2>1. access # "none" /\ todo \in BlockedLists
    BY <1>3 DEF LockInv, Blocked
  <2>2. \A n : Calls(n) => n \in {"stopManager", "join", "deactivate", "upgrade"}
    BY <2>1, BlockedNames DEF BlockedLists, LoggerLists, Calls
  <2>3. DoStopManager \/ DoJoin \/ (DoActivate /\ Calls("deactivate"))
    <3>1. ~DoUpgrade
      BY <2>1 DEF DoUpgrade
    <3> QED BY <1>3, <2>2, <3>1, StepNames DEF MainStep
  <2>4. Return /\ UNCHANGED <<locks, signal>> /\ ~Calls("upgrade")
    BY <2>3 DEF DoStopManager, DoJoin, DoActivate, Calls
  <2>5. todo # Tail(Tail(Tail(HandlerCalls)))
    BY <2>3, <2>4, BlockedNames DEF Calls, DoStopManager, DoJoin
  <2>6. todo' \in BlockedLists
    BY <2>1, <2>4, <2>5 DEF BlockedLists, LoggerLists, Return
  <2>7. access' = access /\ interrupted' = interrupted
    BY <2>4 DEF locks, signal
  <2> QED BY <1>3, <2>6, <2>7 DEF LockInv, Blocked
<1>4. CASE ~DoHandled /\ interrupted = "logger"
  <2>1. todo \in LoggerLists
    BY <1>4 DEF LockInv
  <2>2. \A n : Calls(n) => n \in {"stopManager", "join", "deactivate"}
    BY <2>1, BlockedNames DEF LoggerLists, Calls
  <2>3. DoStopManager \/ DoJoin
    <3>1. ~DoActivate
      BY <1>4, <2>2 DEF DoActivate
    <3> QED BY <1>4, <2>2, <3>1, StepNames DEF MainStep
  <2>4. Return /\ UNCHANGED signal /\ (Calls("stopManager") \/ Calls("join"))
    BY <2>3 DEF DoStopManager, DoJoin
  <2>5. todo # Tail(Tail(HandlerCalls))
    BY <2>4, BlockedNames DEF Calls
  <2>6. todo' \in LoggerLists
    BY <2>1, <2>4, <2>5 DEF LoggerLists, Return
  <2>7. interrupted' = "logger"
    BY <1>4, <2>4 DEF signal
  <2> QED BY <2>6, <2>7 DEF LockInv, Blocked
<1> QED BY <1>1, <1>2, <1>3, <1>4

(* Every other step. *)
LEMMA OtherLocks ==
    ASSUME IInv, LockInv, Log \/ Gap \/ EndOfInput \/ Signal \/ UNCHANGED vars
                          \/ \E w \in Workers : Fill(w) \/ Worker(w)
    PROVE  LockInv'
<1>1. CASE Log \/ Gap \/ EndOfInput
  <2>1. todo = <<>> \/ \E s \in Satellites : Feed(s)
    BY <1>1 DEF Log, Gap, EndOfInput, SatVis, Elevation
  <2>2. todo = <<>> /\ UNCHANGED <<locks, signal>>
    BY <1>1 DEF Log, Gap, EndOfInput, SatVis, Elevation, Feed
  <2>3. ~HandlerRuns
    <3>1. ToSet(todo) = {}
      BY <2>2, GoodEmpty
    <3> QED BY <3>1 DEF IInv, HandlerOK
  <2>4. interrupted \in {"no", "handled"} /\ interrupted' = interrupted
    BY <2>2, <2>3 DEF HandlerRuns, signal
  <2>5. Believed \in LockStates /\ Free \in LockStates /\ Leads(<<>>, Believed, Free)
    BY <2>2, <2>4, BelievedTypes DEF IInv, LockInv, Blocked, LockStates, Free
  <2>6. Free = Believed
    BY <2>5, LeadsEmpty
  <2>7. Believed' = Believed
    BY <2>2, <2>4 DEF Believed, locks
  <2>8. Leads(todo', Free, Free)
    <3>1. CASE UNCHANGED todo
      BY <3>1, <2>2, <2>5, LeadsEmpty
    <3>2. CASE todo' # todo
      BY <1>1, <3>2, LogLeads DEF IInv
    <3> QED BY <3>1, <3>2
  <2> QED BY <2>4, <2>6, <2>7, <2>8 DEF LockInv, Blocked
<1>2. CASE Signal
  <2>1. /\ interrupted = "no" /\ interrupted' \in Held /\ suspended' = todo /\ todo' = HandlerCalls
        /\ access' = access /\ calcLocked' = calcLocked
    BY <1>2 DEF Signal, locks
  <2>2. Leads(todo, Believed, Free) /\ access \in Accesses /\ calcLocked \in BOOLEAN
    BY <2>1, BelievedTypes DEF LockInv, Blocked, IInv, TypeOK
  <2>3. CASE interrupted' = "logger"
    BY <2>1, <2>3 DEF LoggerLists, LockInv, Blocked
  <2>4. CASE access # "none" /\ interrupted' # "logger"
    <3>1. interrupted' = access
      BY <2>1, <2>4 DEF Held
    <3>2. HandlerCalls \in BlockedLists /\ access \in Blocked
      BY <2>2, <2>4 DEF BlockedLists, LoggerLists, Blocked, Accesses
    <3>3. interrupted' \in Blocked /\ access' \in Blocked /\ todo' \in BlockedLists
      BY <2>1, <3>1, <3>2
    <3> QED BY <3>3 DEF LockInv, Blocked
  <2>5. CASE access = "none" /\ calcLocked /\ interrupted' # "logger"
    <3>1. interrupted' = "calculations" /\ Believed = <<"none", "taken">> /\ Believed' = Free
      BY <2>1, <2>5 DEF Held, Believed, Free
    <3>2. Leads(todo', Believed', Free) /\ Leads(suspended', <<"none", "taken">>, Free)
      BY <2>1, <2>2, <3>1, HandlerLeads
    <3> QED BY <2>1, <2>5, <3>1, <3>2 DEF LockInv, Blocked
  <2>6. CASE access = "none" /\ ~calcLocked /\ interrupted' # "logger"
    <3>1. interrupted' = "nothing" /\ Believed = Free /\ Believed' = Free
      BY <2>1, <2>6 DEF Held, Believed, Free
    <3>2. Leads(todo', Believed', Free) /\ Leads(suspended', Free, Free)
      BY <2>1, <2>2, <3>1, HandlerLeads
    <3> QED BY <2>1, <2>6, <3>1, <3>2 DEF LockInv, Blocked
  <2> QED BY <2>3, <2>4, <2>5, <2>6
<1>3. CASE UNCHANGED vars \/ \E w \in Workers : Fill(w) \/ Worker(w)
  <2>1. UNCHANGED <<todo, suspended, interrupted, access, calcLocked>>
    BY <1>3 DEF vars, locks, signal, Fill, Worker, Enter, Push, Share, Pushed, Leave, ReturnWorker,
                WorkerUnchanged
  <2>2. Believed' = Believed
    BY <2>1 DEF Believed
  <2> QED BY <2>1, <2>2 DEF LockInv
<1> QED BY <1>1, <1>2, <1>3

(* Main waits for a lock only if a worker has it, never for one it holds
   itself: the mutexes are not recursive, and nobody would release it.  It gives
   up what it holds and nothing else, and is back at the input with none.  A
   signal that finds main with one of these locks in its hands, or inside the
   logger, is the exception. *)
MainNeverWaitsForItself ==
    interrupted \in {"no", "nothing", "handled"} =>
        /\ Calls("lock") => ~calcLocked
        /\ Calls("upgrade") \/ Calls("shared") => access = "none"
        /\ Calls("add") \/ Calls("unlock") => calcLocked
        /\ Calls("giveUp") => access = "exclusive"
        /\ todo = <<>> => ~calcLocked /\ access = "none"

(* MainNeverWaitsForItself, for every set of satellites, kinds and workers. *)
THEOREM LocksTheorem == Spec => []MainNeverWaitsForItself
<1>1. Init => LockInv
  <2> SUFFICES ASSUME Init PROVE LockInv
    OBVIOUS
  <2>1. todo = <<>> /\ suspended = <<>> /\ access = "none" /\ calcLocked = FALSE /\ interrupted = "no"
    BY DEF Init
  <2>2. Believed = Free /\ Free \in LockStates
    BY <2>1 DEF Believed, Free, LockStates
  <2> QED BY <2>1, <2>2, LeadsEmpty DEF LockInv, Blocked
<1>2. IInv /\ IInv' /\ LockInv /\ [Next]_vars => LockInv'
  BY MainLocks, OtherLocks DEF Next, Terminated
<1>3. IInv /\ LockInv => MainNeverWaitsForItself
  <2> SUFFICES ASSUME IInv, LockInv, interrupted \in {"no", "nothing", "handled"}
               PROVE  /\ Calls("lock") => ~calcLocked
                      /\ Calls("upgrade") \/ Calls("shared") => access = "none"
                      /\ Calls("add") \/ Calls("unlock") => calcLocked
                      /\ Calls("giveUp") => access = "exclusive"
                      /\ todo = <<>> => ~calcLocked /\ access = "none"
    BY DEF MainNeverWaitsForItself
  <2>1. Leads(todo, Believed, Free) /\ Believed \in LockStates
    BY BelievedTypes DEF LockInv, Blocked, IInv
  <2>2. Believed[1] = access /\ Believed[2] = IF calcLocked THEN "taken" ELSE "free"
    BY DEF Believed
  <2>3. ASSUME NEW n, Calls(n)
        PROVE  /\ n = "lock" => ~calcLocked
               /\ n \in {"upgrade", "shared"} => access = "none"
               /\ n \in {"add", "unlock"} => calcLocked
               /\ n = "giveUp" => access = "exclusive"
    <3>1. PICK z \in LockStates : Moves(n, Believed, z)
      BY <2>1, <2>3, LeadsTail DEF Calls
    <3> QED BY <2>2, <3>1 DEF Moves, MovesAccess, MovesCalculations, Unlocking, WantsUnlocked
  <2>4. ASSUME todo = <<>> PROVE ~calcLocked /\ access = "none"
    <3>1. Free = Believed
      BY <2>1, <2>4, LeadsEmpty
    <3> QED BY <2>2, <3>1 DEF Free
  <2> QED BY <2>3, <2>4
<1>4. IInv /\ [Next]_vars => IInv'
  BY NextInvariant
<1>5. Init => IInv
  BY InitInvariant
<1> QED BY <1>1, <1>2, <1>3, <1>4, <1>5, PTL DEF Spec
=============================================================================
