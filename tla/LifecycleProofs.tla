--------------------------- MODULE LifecycleProofs ---------------------------
(***************************************************************************)
(* graph_init and graph_destroy for any number of devices, images, shaders *)
(* and pools, and whichever calls fail: what exists at each step is undone *)
(* in an order in which nothing goes before what needs it, once and        *)
(* completely.                                                             *)
(*                                                                         *)
(* Each function is shown to do its part on its own, given that its caller *)
(* can undo what is there; the parts are then put together.                *)
(***************************************************************************)
EXTENDS Lifecycle, SequenceTheorems, NatLemmas, TLAPS

\* The objects of an array.
All(k, n) == {<<k, i>> : i \in 1 .. n}

\* None of the objects in X is of one of the kinds in K.
Lacks(X, K) == \A o \in X : o[1] \notin K

IsSeq(s) == \E T : s \in Seq(T)

Closed(X) == \A o \in X : Needs(o) \subseteq X

\* u names the objects of X, each once, and none before one that needs it.
Teardown(u, X) ==
    /\ u \in Seq(X)
    /\ \A o \in X : \E i \in DOMAIN u : u[i] = o
    /\ \A i, j \in DOMAIN u : u[i] = u[j] => i = j
    /\ \A i \in DOMAIN u : \A o \in Needs(u[i]) : \E j \in DOMAIN u : i < j /\ u[j] = o

\* From the objects X, the step s leads to Y; the caller undoes base, and what
\* the step undoes before it is the rest of X.
Passes(s, base, X, Y) ==
    /\ s.makes \cap X = {} /\ s.frees \subseteq X
    /\ Y = (X \cup s.makes) \ s.frees /\ Closed(Y)
    /\ \A o \in s.makes : Needs(o) \subseteq X
    /\ s.call # "free" => s.undo \o base \in Seq(X)
    /\ s.call # "free" /\ s.checked /\ ~s.spins => Teardown(s.undo \o base, X)

IsStep(s) ==
    s = [call |-> s.call, makes |-> s.makes, frees |-> s.frees, undo |-> s.undo,
         checked |-> s.checked, spins |-> s.spins]

\* The objects before and after each of the steps.
Traces(steps, base, X, Y, L) ==
    /\ DOMAIN L = 1 .. Len(steps) + 1
    /\ L[1] = X /\ L[Len(steps) + 1] = Y
    /\ \A i \in 1 .. Len(steps) : Passes(steps[i], base, L[i], L[i + 1])

\* b stores into the array that the calloc a makes.
Fills(b, a) ==
    /\ a.call = "calloc" /\ a.frees = {} /\ b.frees = {}
    /\ \E o \in b.makes : Holder(o) \cap a.makes # {}

\* What is not checked is the array of what comes next.
Careful(steps) ==
    \A i \in 1 .. Len(steps) : ~steps[i].checked =>
        /\ i + 1 \in 1 .. Len(steps)
        /\ Fills(steps[i + 1], steps[i])

Runs(steps, base, X, Y) ==
    /\ \E S : steps \in Seq(S) /\ \A s \in S : IsStep(s) /\ IsSeq(s.undo)
    /\ \E L : Traces(steps, base, X, Y, L)

Does(steps, base, X, Y) == Runs(steps, base, X, Y) /\ Careful(steps)

\* The objects that exist when the given step of graph_init comes next.
LiveAt == CHOOSE L : Traces(graph_init, <<>>, {}, ToSet(graph_destroy), L)

InStep ==
    \/ live = LiveAt[next]
    \/ next > 1 /\ ~graph_init[next - 1].checked /\ live = LiveAt[next - 1]

IInv ==
    /\ TypeOK
    /\ Closed(live)
    /\ pc = "init" => InStep
    /\ pc = "up" => live = ToSet(graph_destroy)
    /\ pc \in {"unwind", "down"} => Teardown(todo, live)
    /\ pc \in {"failed", "gone"} => live = {}

-----------------------------------------------------------------------------
(* Sequences.                                                              *)

LEMMA Joined ==
    ASSUME NEW S, NEW T, NEW s \in Seq(S), NEW t \in Seq(T)
    PROVE  /\ s \o t \in Seq(S \cup T)
           /\ Len(s) \in Nat /\ Len(t) \in Nat /\ Len(s \o t) = Len(s) + Len(t)
           /\ DOMAIN s = 1 .. Len(s) /\ DOMAIN t = 1 .. Len(t)
           /\ DOMAIN (s \o t) = 1 .. Len(s) + Len(t)
           /\ \A i \in 1 .. Len(s) : (s \o t)[i] = s[i]
           /\ \A i \in 1 .. Len(t) : (s \o t)[Len(s) + i] = t[i]
<1> DEFINE c == s \o t
<1>1. s \in Seq(S \cup T) /\ t \in Seq(S \cup T)
  <2>1. S \subseteq S \cup T /\ T \subseteq S \cup T
    OBVIOUS
  <2> QED
    BY <2>1, SeqMonotonic
<1>2. /\ c \in Seq(S \cup T) /\ Len(c) = Len(s) + Len(t)
      /\ \A i \in 1 .. Len(s) + Len(t) :
            c[i] = IF i <= Len(s) THEN s[i] ELSE t[i - Len(s)]
  BY <1>1, ConcatProperties
<1>3. /\ Len(s) \in Nat /\ Len(t) \in Nat
      /\ DOMAIN s = 1 .. Len(s) /\ DOMAIN t = 1 .. Len(t) /\ DOMAIN c = 1 .. Len(c)
  BY <1>1, <1>2, LenProperties
<1> HIDE DEF c
<1>4. ASSUME NEW i \in 1 .. Len(s) PROVE c[i] = s[i]
  BY <1>2, <1>3
<1>5. ASSUME NEW i \in 1 .. Len(t) PROVE c[Len(s) + i] = t[i]
  <2>1. /\ Len(s) + i \in 1 .. Len(s) + Len(t) /\ ~(Len(s) + i <= Len(s))
        /\ (Len(s) + i) - Len(s) = i
    BY <1>3
  <2> QED
    BY <1>2, <2>1
<1> QED
  BY <1>2, <1>3, <1>4, <1>5 DEF c

LEMMA Associates ==
    ASSUME NEW S, NEW T, NEW U, NEW s \in Seq(S), NEW t \in Seq(T), NEW u \in Seq(U)
    PROVE  (s \o t) \o u = s \o (t \o u)
<1> DEFINE A == S \cup T \cup U
<1>1. S \subseteq A /\ T \subseteq A /\ U \subseteq A
  OBVIOUS
<1> HIDE DEF A
<1>2. s \in Seq(A) /\ t \in Seq(A) /\ u \in Seq(A)
  BY <1>1, SeqMonotonic
<1> QED
  BY <1>2, ConcatAssociative

LEMMA Pair ==
    ASSUME NEW S, NEW a \in S, NEW b \in S PROVE <<a, b>> = <<a>> \o <<b>>
<1> DEFINE c == <<a>> \o <<b>>
<1>1. <<a>> \in Seq(S) /\ <<b>> \in Seq(S) /\ <<a, b>> \in Seq(S)
  OBVIOUS
<1>2. Len(<<a>>) = 1 /\ <<a>>[1] = a /\ Len(<<b>>) = 1 /\ <<b>>[1] = b
  OBVIOUS
<1>3. Len(<<a, b>>) = 2 /\ <<a, b>>[1] = a /\ <<a, b>>[2] = b
  OBVIOUS
<1>4. /\ c \in Seq(S) /\ Len(c) = 1 + 1
      /\ \A i \in 1 .. 1 + 1 : c[i] = IF i <= 1 THEN <<a>>[i] ELSE <<b>>[i - 1]
  BY <1>1, <1>2, ConcatProperties
<1> HIDE DEF c
<1>5. Len(c) = 2 /\ c[1] = a /\ c[2] = b
  BY <1>2, <1>4
<1>6. \A i \in 1 .. Len(c) : c[i] = <<a, b>>[i]
  BY <1>3, <1>5
<1> QED
  BY <1>1, <1>3, <1>4, <1>5, <1>6, SeqEqual DEF c

-----------------------------------------------------------------------------
(* Tearing down.                                                           *)

LEMMA TeardownClosed == ASSUME NEW u, NEW X, Teardown(u, X) PROVE Closed(X)
<1>1. SUFFICES ASSUME NEW o \in X, NEW p \in Needs(o) PROVE p \in X
  BY DEF Closed
<1>2. PICK i \in DOMAIN u : u[i] = o
  BY DEF Teardown
<1>3. PICK j \in DOMAIN u : u[j] = p
  BY <1>2 DEF Teardown
<1>4. u \in Seq(X)
  BY DEF Teardown
<1>5. j \in 1 .. Len(u)
  BY <1>4, LenProperties
<1>6. u[j] \in X
  BY <1>4, <1>5, ElementOfSeq
<1> QED
  BY <1>3, <1>6

LEMMA TeardownNone ==
    /\ Teardown(<<>>, {})
    /\ \A X : Teardown(<<>>, X) => X = {}
<1>1. <<>> \in Seq({}) /\ DOMAIN <<>> = {}
  OBVIOUS
<1> QED
  BY <1>1 DEF Teardown

LEMMA TeardownTail ==
    ASSUME NEW u, NEW X, Teardown(u, X), u # <<>>
    PROVE  Head(u) \in X /\ Teardown(Tail(u), X \ {Head(u)})
<1> DEFINE t == Tail(u)
           Y == X \ {Head(u)}
<1>1. u \in Seq(X) /\ Len(u) \in Nat /\ DOMAIN u = 1 .. Len(u)
  BY LenProperties DEF Teardown
<1>2. /\ Head(u) \in X /\ Head(u) = u[1]
      /\ t \in Seq(X) /\ Len(t) = Len(u) - 1 /\ \A i \in 1 .. Len(t) : t[i] = u[i + 1]
  BY <1>1, HeadTailProperties
<1>3. Len(u) # 0
  BY <1>1, EmptySeq
<1>4. DOMAIN t = 1 .. Len(u) - 1
  BY <1>2, LenProperties
<1>5. \A i, j \in DOMAIN u : u[i] = u[j] => i = j
  BY DEF Teardown
<1> HIDE DEF t
<1>6. \A i \in DOMAIN t : t[i] = u[i + 1] /\ i + 1 \in DOMAIN u /\ i \in Nat
  BY <1>1, <1>2, <1>4
<1>7. \A i \in DOMAIN u : i = 1 \/ (i - 1 \in DOMAIN t /\ t[i - 1] = u[i] /\ i \in Nat)
  BY <1>1, <1>2, <1>4
<1>8. 1 \in DOMAIN u
  BY <1>1, <1>3
<1>9. \A i \in DOMAIN t : t[i] \in Y
  <2>1. SUFFICES ASSUME NEW i \in DOMAIN t PROVE t[i] \in Y
    OBVIOUS
  <2>2. t[i] \in X
    BY <1>2, <1>4, <2>1, ElementOfSeq
  <2>3. u[i + 1] # u[1]
    BY <1>5, <1>6, <1>8
  <2> QED
    BY <1>2, <1>6, <2>2, <2>3
<1>10. t \in Seq(Y)
  <2>1. t \in [1 .. Len(u) - 1 -> Y] /\ Len(u) - 1 \in Nat
    <3>1. t \in [1 .. Len(t) -> X]
      BY <1>2, LenProperties
    <3> QED
      BY <1>1, <1>2, <1>3, <1>4, <1>9, <3>1
  <2> QED
    BY <2>1
<1>11. \A o \in Y : \E i \in DOMAIN t : t[i] = o
  <2>1. SUFFICES ASSUME NEW o \in Y PROVE \E i \in DOMAIN t : t[i] = o
    OBVIOUS
  <2>2. PICK i \in DOMAIN u : u[i] = o
    BY DEF Teardown
  <2> QED
    BY <1>2, <1>7, <2>2
<1>12. \A i, j \in DOMAIN t : t[i] = t[j] => i = j
  BY <1>5, <1>6
<1>13. \A i \in DOMAIN t : \A o \in Needs(t[i]) : \E j \in DOMAIN t : i < j /\ t[j] = o
  <2>1. SUFFICES ASSUME NEW i \in DOMAIN t, NEW o \in Needs(t[i])
                 PROVE  \E j \in DOMAIN t : i < j /\ t[j] = o
    OBVIOUS
  <2>2. PICK j \in DOMAIN u : i + 1 < j /\ u[j] = o
    BY <1>6 DEF Teardown
  <2>3. j # 1 /\ i < j - 1
    BY <1>1, <1>6, <2>2
  <2> QED
    BY <1>7, <2>2, <2>3
<1> QED
  BY <1>2, <1>10, <1>11, <1>12, <1>13 DEF Teardown, t

LEMMA TeardownMore ==
    ASSUME NEW u, NEW X, Teardown(u, X), NEW A, NEW a \in Seq(A),
           \A o \in A : o \notin X /\ Needs(o) \subseteq X /\ \E i \in DOMAIN a : a[i] = o,
           \A i, j \in DOMAIN a : a[i] = a[j] => i = j,
           NEW Y, Y = X \cup A
    PROVE  Teardown(a \o u, Y)
<1> DEFINE c == a \o u
           l == Len(a)
<1>1. /\ u \in Seq(X) /\ Len(u) \in Nat /\ DOMAIN u = 1 .. Len(u)
      /\ \A o \in X : \E i \in DOMAIN u : u[i] = o
      /\ \A i, j \in DOMAIN u : u[i] = u[j] => i = j
      /\ \A i \in DOMAIN u : \A o \in Needs(u[i]) : \E j \in DOMAIN u : i < j /\ u[j] = o
  BY LenProperties DEF Teardown
<1>2. /\ c \in Seq(A \cup X) /\ l \in Nat /\ Len(c) = l + Len(u)
      /\ DOMAIN a = 1 .. l /\ DOMAIN c = 1 .. l + Len(u)
      /\ \A i \in 1 .. l : c[i] = a[i]
      /\ \A i \in 1 .. Len(u) : c[l + i] = u[i]
  BY <1>1, Joined
<1>3. c \in Seq(Y)
  <2>1. A \cup X = Y
    OBVIOUS
  <2> QED
    BY <1>2, <2>1
<1>4. (\A i \in DOMAIN a : a[i] \in A) /\ (\A i \in DOMAIN u : u[i] \in X)
  BY <1>1, <1>2, ElementOfSeq
<1> HIDE DEF c, l
<1>5. \A i \in DOMAIN c :
        \/ i \in DOMAIN a /\ c[i] = a[i]
        \/ i - l \in DOMAIN u /\ c[i] = u[i - l] /\ i = l + (i - l)
  <2>1. SUFFICES ASSUME NEW i \in DOMAIN c, i \notin DOMAIN a
                 PROVE  i - l \in DOMAIN u /\ c[i] = u[i - l] /\ i = l + (i - l)
    BY <1>2
  <2>2. i - l \in 1 .. Len(u) /\ i = l + (i - l)
    BY <1>1, <1>2, <2>1
  <2> QED
    BY <1>1, <1>2, <2>2
<1>6. \A i \in DOMAIN u : l + i \in DOMAIN c /\ c[l + i] = u[i] /\ i \in Nat /\ l + i > l
  BY <1>1, <1>2
<1>7. \A i \in DOMAIN a : i \in DOMAIN c /\ c[i] = a[i] /\ i \in Nat /\ i <= l
  BY <1>1, <1>2
<1>8. \A o \in Y : \E i \in DOMAIN c : c[i] = o
  <2>1. SUFFICES ASSUME NEW o \in Y PROVE \E i \in DOMAIN c : c[i] = o
    OBVIOUS
  <2>2. CASE o \in A
    BY <1>7, <2>2
  <2>3. CASE o \in X
    BY <1>1, <1>6, <2>3
  <2> QED
    BY <2>2, <2>3
<1>9. ASSUME NEW i \in DOMAIN c, NEW j \in DOMAIN c, c[i] = c[j] PROVE i = j
  <2>1. CASE i \in DOMAIN a /\ j \in DOMAIN a
    BY <1>7, <1>9, <2>1
  <2>2. CASE i \notin DOMAIN a /\ j \notin DOMAIN a
    BY <1>1, <1>5, <1>9, <2>2
  <2>3. CASE (i \in DOMAIN a /\ j \notin DOMAIN a) \/ (i \notin DOMAIN a /\ j \in DOMAIN a)
    BY <1>4, <1>5, <1>7, <1>9, <2>3
  <2> QED
    BY <2>1, <2>2, <2>3
<1>10. ASSUME NEW i \in DOMAIN c, NEW o \in Needs(c[i])
       PROVE  \E j \in DOMAIN c : i < j /\ c[j] = o
  <2>1. CASE i \in DOMAIN a
    <3>1. o \in X /\ i <= l /\ i \in Nat
      BY <1>4, <1>7, <1>10, <2>1
    <3>2. PICK k \in DOMAIN u : u[k] = o
      BY <1>1, <3>1
    <3>3. l + k \in DOMAIN c /\ c[l + k] = o /\ k \in Nat /\ l + k > l
      BY <1>6, <3>2
    <3>4. i < l + k
      BY <1>2, <3>1, <3>3
    <3> QED
      BY <3>3, <3>4
  <2>2. CASE i \notin DOMAIN a
    <3>1. i - l \in DOMAIN u /\ c[i] = u[i - l] /\ i = l + (i - l)
      BY <1>5, <2>2
    <3>2. PICK k \in DOMAIN u : i - l < k /\ u[k] = o
      BY <1>1, <1>10, <3>1
    <3>3. i < l + k
      BY <1>1, <1>2, <3>1, <3>2
    <3> QED
      BY <1>6, <3>2, <3>3
  <2> QED
    BY <2>1, <2>2
<1> QED
  BY <1>3, <1>8, <1>9, <1>10 DEF Teardown, c

-----------------------------------------------------------------------------
(* What needs what.                                                        *)

LEMMA NeedsNothing ==
    /\ Needs(One("g")) = {} /\ Needs(One("glfw")) = {} /\ Needs(One("inst")) = {}
    /\ Needs(One("names")) = {} /\ Needs(One("iter")) = {} /\ Needs(One("layers")) = {}
    /\ Needs(One("exts")) = {} /\ Needs(One("props")) = {} /\ Needs(One("set")) = {}
    /\ Needs(One("fmts")) = {} /\ Needs(One("modes")) = {} /\ Needs(One("fams")) = {}
    /\ Needs(One("devs")) = {} /\ Needs(One("imgs")) = {} /\ Needs(One("views")) = {}
    /\ Needs(One("mods")) = {} /\ Needs(One("stages")) = {} /\ Needs(One("frames")) = {}
    /\ Needs(One("bufs")) = {} /\ Needs(One("grps")) = {} /\ Needs(One("obj_f")) = {}
    /\ Needs(One("obj_s")) = {}
<1>1. /\ Holder(One("g")) = {} /\ Holder(One("glfw")) = {} /\ Holder(One("inst")) = {}
      /\ Holder(One("names")) = {} /\ Holder(One("iter")) = {} /\ Holder(One("layers")) = {}
      /\ Holder(One("exts")) = {} /\ Holder(One("props")) = {} /\ Holder(One("set")) = {}
      /\ Holder(One("fmts")) = {} /\ Holder(One("modes")) = {} /\ Holder(One("fams")) = {}
      /\ Holder(One("devs")) = {} /\ Holder(One("imgs")) = {} /\ Holder(One("views")) = {}
      /\ Holder(One("mods")) = {} /\ Holder(One("stages")) = {} /\ Holder(One("frames")) = {}
      /\ Holder(One("bufs")) = {} /\ Holder(One("grps")) = {} /\ Holder(One("obj_f")) = {}
      /\ Holder(One("obj_s")) = {}
  BY Zenon DEF Holder, One
<1> QED
  BY <1>1, Zenon DEF Needs, One

LEMMA NeedsOne ==
    /\ Needs(One("win")) = {One("glfw")} /\ Needs(One("msgr")) = {One("inst")}
    /\ Needs(One("dev")) = {One("inst")} /\ Needs(One("srf")) = {One("inst"), One("win")}
    /\ Needs(One("sch")) = {One("dev"), One("srf")} /\ Needs(One("rpass")) = {One("dev")}
    /\ Needs(One("layout")) = {One("dev")}
    /\ Needs(One("pipe")) = {One("layout"), One("rpass")}
    /\ Needs(One("cmds")) = {One("bufs"), One("pipe")} \cup ToSet(pools_destroy)
<1>1. /\ Holder(One("win")) = {} /\ Holder(One("msgr")) = {} /\ Holder(One("dev")) = {}
      /\ Holder(One("srf")) = {} /\ Holder(One("sch")) = {} /\ Holder(One("rpass")) = {}
      /\ Holder(One("layout")) = {} /\ Holder(One("pipe")) = {}
      /\ Holder(One("cmds")) = {One("bufs")}
  BY Zenon DEF Holder, One
<1>2. Needs(One("cmds")) = Holder(One("cmds")) \cup ({One("pipe")} \cup ToSet(pools_destroy))
  BY Zenon DEF Needs, One
<1>3. Needs(One("cmds")) = {One("bufs"), One("pipe")} \cup ToSet(pools_destroy)
  BY <1>1, <1>2
<1> QED
  BY <1>1, <1>3, Zenon DEF Needs, One

LEMMA NeedsEach ==
    \A i : /\ Needs(<<"view", i>>) = {One("views"), One("dev"), One("sch")}
           /\ Needs(<<"mod", i>>) = {One("mods"), One("dev")}
           /\ Needs(<<"frame", i>>) = {One("frames"), One("rpass"), <<"view", i>>}
           /\ Needs(<<"pool", i>>) = {One("dev")}
           /\ Needs(<<"grp", i>>) = {One("grps"), One("dev")}
           /\ Needs(<<"fence", i>>) = {One("obj_f"), One("dev")}
           /\ Needs(<<"sem", i>>) = {One("obj_s"), One("dev")}
<1>1. SUFFICES ASSUME NEW i
               PROVE  /\ Needs(<<"view", i>>) = {One("views"), One("dev"), One("sch")}
                      /\ Needs(<<"mod", i>>) = {One("mods"), One("dev")}
                      /\ Needs(<<"frame", i>>) = {One("frames"), One("rpass"), <<"view", i>>}
                      /\ Needs(<<"pool", i>>) = {One("dev")}
                      /\ Needs(<<"grp", i>>) = {One("grps"), One("dev")}
                      /\ Needs(<<"fence", i>>) = {One("obj_f"), One("dev")}
                      /\ Needs(<<"sem", i>>) = {One("obj_s"), One("dev")}
  OBVIOUS
<1>2. /\ Holder(<<"view", i>>) = {One("views")} /\ Holder(<<"mod", i>>) = {One("mods")}
      /\ Holder(<<"frame", i>>) = {One("frames")} /\ Holder(<<"pool", i>>) = {}
      /\ Holder(<<"grp", i>>) = {One("grps")} /\ Holder(<<"fence", i>>) = {One("obj_f")}
      /\ Holder(<<"sem", i>>) = {One("obj_s")}
  BY Zenon DEF Holder, One
<1>3. /\ Needs(<<"view", i>>) = Holder(<<"view", i>>) \cup {One("dev"), One("sch")}
      /\ Needs(<<"mod", i>>) = Holder(<<"mod", i>>) \cup {One("dev")}
      /\ Needs(<<"frame", i>>) = Holder(<<"frame", i>>) \cup {One("rpass"), <<"view", i>>}
      /\ Needs(<<"pool", i>>) = Holder(<<"pool", i>>) \cup {One("dev")}
      /\ Needs(<<"grp", i>>) = Holder(<<"grp", i>>) \cup {One("dev")}
      /\ Needs(<<"fence", i>>) = Holder(<<"fence", i>>) \cup {One("dev")}
      /\ Needs(<<"sem", i>>) = Holder(<<"sem", i>>) \cup {One("dev")}
  BY Zenon DEF Needs, One
<1> QED
  BY <1>2, <1>3

-----------------------------------------------------------------------------
(* What can be torn down can still be with one more object, or an array.   *)

LEMMA Linked ==
    ASSUME NEW s, NEW t, NEW u, IsSeq(s), IsSeq(t), IsSeq(u)
    PROVE  /\ (s \o t) \o u = s \o (t \o u) /\ IsSeq(s \o t)
           /\ <<>> \o s = s /\ s \o <<>> = s
<1>1. PICK S : s \in Seq(S)
  BY DEF IsSeq
<1>2. PICK T : t \in Seq(T)
  BY DEF IsSeq
<1>3. PICK U : u \in Seq(U)
  BY DEF IsSeq
<1>4. (s \o t) \o u = s \o (t \o u)
  BY <1>1, <1>2, <1>3, Associates
<1>5. s \o t \in Seq(S \cup T)
  BY <1>1, <1>2, Joined
<1>6. <<>> \o s = s /\ s \o <<>> = s
  BY <1>1, ConcatEmptySeq
<1> QED
  BY <1>4, <1>5, <1>6 DEF IsSeq

LEMMA Literals ==
    /\ IsSeq(<<>>) /\ \A a : IsSeq(<<a>>)
    /\ \A a, b : IsSeq(<<a, b>>) /\ <<a, b>> = <<a>> \o <<b>>
<1>1. IsSeq(<<>>)
  <2>1. <<>> \in Seq({})
    OBVIOUS
  <2> QED
    BY <2>1 DEF IsSeq
<1>2. ASSUME NEW a, NEW b PROVE IsSeq(<<a>>) /\ IsSeq(<<a, b>>) /\ <<a, b>> = <<a>> \o <<b>>
  <2>1. <<a>> \in Seq({a, b}) /\ <<a, b>> \in Seq({a, b})
    OBVIOUS
  <2>2. <<a, b>> = <<a>> \o <<b>>
    <3>1. a \in {a, b} /\ b \in {a, b}
      OBVIOUS
    <3> QED
      BY <3>1, Pair
  <2>3. IsSeq(<<a>>) /\ IsSeq(<<a, b>>)
    BY <2>1 DEF IsSeq
  <2> QED
    BY <2>2, <2>3
<1> QED
  BY <1>1, <1>2

LEMMA PutFirst == ASSUME NEW a, NEW b, NEW c PROVE <<a>> \o <<b, c>> = <<a, b, c>>
<1>1. <<a, b, c>> = <<a, b>> \o <<c>>
  OBVIOUS
<1>2. <<a, b>> = <<a>> \o <<b>> /\ <<b, c>> = <<b>> \o <<c>>
  BY Literals
<1>3. (<<a>> \o <<b>>) \o <<c>> = <<a>> \o (<<b>> \o <<c>>)
  BY Literals, Linked
<1> QED
  BY <1>1, <1>2, <1>3

LEMMA TeardownIsSeq ==
    ASSUME NEW u, NEW X, Teardown(u, X) PROVE u \in Seq(X) /\ IsSeq(u) /\ <<>> \o u = u
<1>1. u \in Seq(X) /\ IsSeq(u)
  BY DEF Teardown, IsSeq
<1> QED
  BY <1>1, Linked, Literals

LEMMA TeardownOne ==
    ASSUME NEW u, NEW X, Teardown(u, X), NEW o, o \notin X, Needs(o) \subseteq X
    PROVE  Teardown(<<o>> \o u, X \cup {o})
<1>1. <<o>> \in Seq({o}) /\ DOMAIN <<o>> = {1} /\ <<o>>[1] = o
  OBVIOUS
<1> QED
  BY <1>1, TeardownMore

\* a is destroyed before b.
LEMMA TeardownTwo ==
    ASSUME NEW u, NEW X, Teardown(u, X), NEW a, NEW b, a # b, b \notin X, a \notin X,
           Needs(b) \subseteq X, Needs(a) \subseteq X \cup {b}
    PROVE  Teardown(<<a, b>> \o u, X \cup {b, a})
<1>1. Teardown(<<b>> \o u, X \cup {b})
  BY TeardownOne
<1>2. a \notin X \cup {b}
  OBVIOUS
<1>3. Teardown(<<a>> \o (<<b>> \o u), (X \cup {b}) \cup {a})
  BY <1>1, <1>2, TeardownOne
<1>4. <<a>> \o (<<b>> \o u) = <<a, b>> \o u
  BY Linked, Literals, TeardownIsSeq
<1>5. (X \cup {b}) \cup {a} = X \cup {b, a}
  OBVIOUS
<1> QED
  BY <1>3, <1>4, <1>5

LEMMA Arrays ==
    ASSUME NEW k, NEW n \in Nat
    PROVE  /\ Each(k, n) \in Seq(All(k, n)) /\ Len(Each(k, n)) = n
           /\ DOMAIN Each(k, n) = 1 .. n /\ \A i \in 1 .. n : Each(k, n)[i] = <<k, i>>
           /\ Down(k, n) \in Seq(All(k, n)) /\ Len(Down(k, n)) = n
           /\ DOMAIN Down(k, n) = 1 .. n
           /\ \A i \in 1 .. n : Down(k, n)[i] = <<k, (n - i) + 1>>
<1> DEFINE e == Each(k, n)
<1>1. /\ e \in [1 .. n -> All(k, n)] /\ \A i \in 1 .. n : e[i] = <<k, i>>
  BY DEF Each, All
<1>2. e \in Seq(All(k, n)) /\ Len(e) = n /\ DOMAIN e = 1 .. n
  BY <1>1
<1> HIDE DEF e
<1>3. \A i \in 1 .. n : (n - i) + 1 \in 1 .. n
  OBVIOUS
<1>4. /\ Down(k, n) = [i \in 1 .. n |-> e[(n - i) + 1]]
  BY <1>2 DEF Down, Reverse, e
<1>5. Down(k, n) \in [1 .. n -> All(k, n)]
  BY <1>1, <1>3, <1>4
<1>6. /\ Down(k, n) \in Seq(All(k, n)) /\ Len(Down(k, n)) = n /\ DOMAIN Down(k, n) = 1 .. n
  BY <1>5
<1>7. \A i \in 1 .. n : Down(k, n)[i] = <<k, (n - i) + 1>>
  BY <1>1, <1>3, <1>4
<1> QED
  BY <1>1, <1>2, <1>6, <1>7 DEF e

LEMMA TeardownArray ==
    ASSUME NEW u, NEW X, Teardown(u, X), NEW k, NEW n \in Nat,
           \A i \in 1 .. n : <<k, i>> \notin X /\ Needs(<<k, i>>) \subseteq X
    PROVE  /\ Teardown(Each(k, n) \o u, X \cup All(k, n))
           /\ Teardown(Down(k, n) \o u, X \cup All(k, n))
<1>1. ASSUME NEW o \in All(k, n) PROVE o \notin X /\ Needs(o) \subseteq X
  BY <1>1 DEF All
<1>2. ASSUME NEW o \in All(k, n)
      PROVE  /\ \E i \in DOMAIN Each(k, n) : Each(k, n)[i] = o
             /\ \E i \in DOMAIN Down(k, n) : Down(k, n)[i] = o
  <2>1. PICK i \in 1 .. n : o = <<k, i>>
    BY <1>2 DEF All
  <2>2. (n - i) + 1 \in 1 .. n /\ (n - ((n - i) + 1)) + 1 = i
    OBVIOUS
  <2>3. i \in DOMAIN Each(k, n) /\ Each(k, n)[i] = o
    BY <2>1, Arrays
  <2>4. PICK j \in 1 .. n : (n - j) + 1 = i
    BY <2>2
  <2>5. j \in DOMAIN Down(k, n) /\ Down(k, n)[j] = o
    BY <2>1, <2>4, Arrays
  <2> QED
    BY <2>3, <2>5
<1>3. \A i, j \in DOMAIN Each(k, n) : Each(k, n)[i] = Each(k, n)[j] => i = j
  BY Arrays
<1>4. \A i, j \in DOMAIN Down(k, n) : Down(k, n)[i] = Down(k, n)[j] => i = j
  <2>1. \A i, j \in 1 .. n : (n - i) + 1 = (n - j) + 1 => i = j
    OBVIOUS
  <2>2. \A i, j \in 1 .. n : Down(k, n)[i] = Down(k, n)[j] => (n - i) + 1 = (n - j) + 1
    BY Arrays
  <2> QED
    BY <2>1, <2>2, Arrays
<1>5. Each(k, n) \in Seq(All(k, n)) /\ Down(k, n) \in Seq(All(k, n))
  BY Arrays
<1>6. Teardown(Each(k, n) \o u, X \cup All(k, n))
  BY <1>1, <1>2, <1>3, <1>5, TeardownMore
<1>7. Teardown(Down(k, n) \o u, X \cup All(k, n))
  BY <1>1, <1>2, <1>4, <1>5, TeardownMore
<1> QED
  BY <1>6, <1>7

-----------------------------------------------------------------------------
(* What a step does.                                                       *)

LEMMA RunsStep ==
    ASSUME NEW s, NEW base, NEW X, NEW Y, IsStep(s), IsSeq(s.undo), Passes(s, base, X, Y)
    PROVE  Runs(<<s>>, base, X, Y)
<1> DEFINE L == <<X, Y>>
<1>1. <<s>> \in Seq({s}) /\ Len(<<s>>) = 1 /\ <<s>>[1] = s
  OBVIOUS
<1>2. DOMAIN L = 1 .. 1 + 1 /\ L[1] = X /\ L[2] = Y
  OBVIOUS
<1> HIDE DEF L
<1>3. Traces(<<s>>, base, X, Y, L)
  <2>1. \A i \in 1 .. 1 : i = 1 /\ i + 1 = 2
    OBVIOUS
  <2>2. L[1 + 1] = Y
    BY <1>2
  <2>3. \A i \in 1 .. 1 : Passes(<<s>>[i], base, L[i], L[i + 1])
    BY <1>1, <1>2, <2>1
  <2> QED
    BY <1>1, <1>2, <2>2, <2>3 DEF Traces
<1>4. \A r \in {s} : IsStep(r) /\ IsSeq(r.undo)
  OBVIOUS
<1>5. Runs(<<s>>, base, X, Y)
  <2>1. \E S : <<s>> \in Seq(S) /\ \A r \in S : IsStep(r) /\ IsSeq(r.undo)
    <3> DEFINE S == {s}
    <3>1. <<s>> \in Seq(S) /\ \A r \in S : IsStep(r) /\ IsSeq(r.undo)
      BY <1>1, <1>4
    <3> HIDE DEF S
    <3> QED
      BY <3>1
  <2>2. \E K : Traces(<<s>>, base, X, Y, K)
    BY <1>3
  <2> QED
    BY <2>1, <2>2 DEF Runs
<1> QED
  BY <1>5

LEMMA DoesStep ==
    ASSUME NEW s, NEW base, NEW X, NEW Y, IsStep(s), IsSeq(s.undo), s.checked,
           Passes(s, base, X, Y)
    PROVE  Does(<<s>>, base, X, Y)
<1>1. Len(<<s>>) = 1 /\ <<s>>[1] = s
  OBVIOUS
<1>2. Careful(<<s>>)
  BY <1>1 DEF Careful
<1> QED
  BY <1>2, RunsStep DEF Does

LEMMA DoesMake ==
    ASSUME NEW X, NEW undo, NEW base, IsSeq(undo), Teardown(undo \o base, X),
           NEW call, NEW o, o \notin X, Needs(o) \subseteq X
    PROVE  Does(<<Make(call, o, undo)>>, base, X, X \cup {o})
<1> DEFINE s == Make(call, o, undo)
<1>1. /\ IsStep(s) /\ s.makes = {o} /\ s.frees = {} /\ s.undo = undo
      /\ s.checked /\ ~s.spins
  BY DEF IsStep, Make, Step
<1> HIDE DEF s
<1>2. Closed(X)
  BY TeardownClosed
<1>3. Closed(X \cup {o}) /\ X \cup {o} = (X \cup s.makes) \ s.frees
  BY <1>1, <1>2 DEF Closed
<1>4. undo \o base \in Seq(X)
  BY DEF Teardown
<1>5. s.makes \cap X = {} /\ s.frees \subseteq X /\ \A p \in s.makes : Needs(p) \subseteq X
  BY <1>1
<1>6. Passes(s, base, X, X \cup {o})
  BY <1>1, <1>3, <1>4, <1>5 DEF Passes
<1>7. Does(<<s>>, base, X, X \cup {o})
  BY <1>1, <1>6, DoesStep
<1> QED
  BY <1>7 DEF s

LEMMA DoesGet ==
    ASSUME NEW X, NEW undo, NEW base, IsSeq(undo), Teardown(undo \o base, X), NEW call
    PROVE  Does(<<Get(call, undo)>>, base, X, X)
<1> DEFINE s == Get(call, undo)
<1>1. /\ IsStep(s) /\ s.makes = {} /\ s.frees = {} /\ s.undo = undo
      /\ s.checked /\ ~s.spins
  BY DEF IsStep, Get, Step
<1> HIDE DEF s
<1>2. Closed(X)
  BY TeardownClosed
<1>3. X = (X \cup s.makes) \ s.frees
  BY <1>1
<1>4. undo \o base \in Seq(X)
  BY DEF Teardown
<1>5. s.makes \cap X = {} /\ s.frees \subseteq X /\ \A p \in s.makes : Needs(p) \subseteq X
  BY <1>1
<1>6. Passes(s, base, X, X)
  BY <1>1, <1>2, <1>3, <1>4, <1>5 DEF Passes
<1>7. Does(<<s>>, base, X, X)
  BY <1>1, <1>6, DoesStep
<1> QED
  BY <1>7 DEF s

LEMMA DoesFree ==
    ASSUME NEW Y, Closed(Y), NEW o, o \notin Y, NEW base
    PROVE  Does(<<Free(o)>>, base, Y \cup {o}, Y)
<1> DEFINE s == Free(o)
<1>1. /\ IsStep(s) /\ s.call = "free" /\ s.makes = {} /\ s.frees = {o} /\ s.undo = <<>>
      /\ s.checked /\ ~s.spins
  BY DEF IsStep, Free, Step
<1> HIDE DEF s
<1>2. /\ Y = ((Y \cup {o}) \cup s.makes) \ s.frees
      /\ s.makes \cap (Y \cup {o}) = {} /\ s.frees \subseteq Y \cup {o}
      /\ \A p \in s.makes : Needs(p) \subseteq Y \cup {o}
  BY <1>1
<1>3. Passes(s, base, Y \cup {o}, Y)
  BY <1>1, <1>2 DEF Passes
<1>4. IsSeq(s.undo)
  BY <1>1, Literals
<1>5. Does(<<s>>, base, Y \cup {o}, Y)
  BY <1>1, <1>3, <1>4, DoesStep
<1> QED
  BY <1>5 DEF s

-----------------------------------------------------------------------------
(* One after the other, in a caller that has more to undo, again and again.*)

LEMMA RunsThen ==
    ASSUME NEW s, NEW t, NEW base, NEW X, NEW Y, NEW Z,
           Runs(s, base, X, Y), Runs(t, base, Y, Z)
    PROVE  Runs(s \o t, base, X, Z)
<1>1. PICK S : s \in Seq(S) /\ \A r \in S : IsStep(r) /\ IsSeq(r.undo)
  BY DEF Runs
<1>2. PICK T : t \in Seq(T) /\ \A r \in T : IsStep(r) /\ IsSeq(r.undo)
  BY DEF Runs
<1>3. PICK K : Traces(s, base, X, Y, K)
  BY DEF Runs
<1>4. PICK L : Traces(t, base, Y, Z, L)
  BY DEF Runs
<1> DEFINE c == s \o t
           m == Len(s)
           n == Len(t)
           M == [i \in 1 .. m + n + 1 |-> IF i <= m THEN K[i] ELSE L[i - m]]
<1>5. /\ c \in Seq(S \cup T) /\ m \in Nat /\ n \in Nat /\ Len(c) = m + n
      /\ \A i \in 1 .. m : c[i] = s[i]
      /\ \A i \in 1 .. n : c[m + i] = t[i]
  BY <1>1, <1>2, Joined
<1>6. /\ K[1] = X /\ K[m + 1] = Y /\ \A i \in 1 .. m : Passes(s[i], base, K[i], K[i + 1])
      /\ L[1] = Y /\ L[n + 1] = Z /\ \A i \in 1 .. n : Passes(t[i], base, L[i], L[i + 1])
  BY <1>3, <1>4 DEF Traces
<1> HIDE DEF c, m, n
<1>7. /\ \A i \in 1 .. m : M[i] = K[i]
      /\ \A i \in 1 .. n + 1 : M[m + i] = L[i]
      /\ DOMAIN M = 1 .. (m + n) + 1
  <2>1. ASSUME NEW i \in 1 .. n + 1 PROVE M[m + i] = L[i]
    <3>1. m + i \in 1 .. m + n + 1 /\ ~(m + i <= m) /\ (m + i) - m = i
      BY <1>5
    <3> QED
      BY <3>1
  <2>2. \A i \in 1 .. m : i \in 1 .. m + n + 1 /\ i <= m
    BY <1>5
  <2>3. m + n + 1 = (m + n) + 1
    OBVIOUS
  <2> QED
    BY <2>1, <2>2, <2>3
<1> HIDE DEF M
<1>8. \A i \in 1 .. m + 1 : M[i] = K[i]
  <2>1. M[m + 1] = L[1]
    BY <1>5, <1>7
  <2>2. M[m + 1] = K[m + 1]
    BY <1>6, <2>1
  <2>3. \A i \in 1 .. m + 1 : i \in 1 .. m \/ i = m + 1
    BY <1>5
  <2> QED
    BY <1>7, <2>2, <2>3
<1>9. \A i \in 1 .. m + n : i \in 1 .. m \/ (\E j \in 1 .. n : i = m + j)
  <2>1. SUFFICES ASSUME NEW i \in 1 .. m + n, ~(i <= m)
                 PROVE  \E j \in 1 .. n : i = m + j
    BY <1>5
  <2>2. i - m \in 1 .. n /\ i = m + (i - m)
    BY <1>5, <2>1
  <2> QED
    BY <2>2
<1>10. \A i \in 1 .. m + n : Passes(c[i], base, M[i], M[i + 1])
  <2>1. ASSUME NEW i \in 1 .. m PROVE Passes(c[i], base, M[i], M[i + 1])
    <3>1. i \in 1 .. m + 1 /\ i + 1 \in 1 .. m + 1
      BY <1>5
    <3> QED
      BY <1>5, <1>6, <1>8, <3>1
  <2>2. ASSUME NEW j \in 1 .. n PROVE Passes(c[m + j], base, M[m + j], M[(m + j) + 1])
    <3>1. j \in 1 .. n + 1 /\ j + 1 \in 1 .. n + 1 /\ (m + j) + 1 = m + (j + 1)
      BY <1>5
    <3> QED
      BY <1>5, <1>6, <1>7, <3>1
  <2> QED
    BY <1>9, <2>1, <2>2
<1>11. Traces(c, base, X, Z, M)
  <2>1. M[1] = X
    <3>1. 1 \in 1 .. m + 1
      BY <1>5
    <3> QED
      BY <1>6, <1>8, <3>1
  <2>2. M[(m + n) + 1] = Z
    <3>1. n + 1 \in 1 .. n + 1 /\ m + (n + 1) = (m + n) + 1
      BY <1>5
    <3> QED
      BY <1>6, <1>7, <3>1
  <2> QED
    BY <1>5, <1>7, <1>10, <2>1, <2>2 DEF Traces
<1>12. \A r \in S \cup T : IsStep(r) /\ IsSeq(r.undo)
  BY <1>1, <1>2
<1> QED
  BY <1>5, <1>11, <1>12 DEF Runs, c

LEMMA CarefulThen ==
    ASSUME NEW s, NEW t, IsSeq(s), IsSeq(t), Careful(s), Careful(t)
    PROVE  Careful(s \o t)
<1>1. PICK S : s \in Seq(S)
  BY DEF IsSeq
<1>2. PICK T : t \in Seq(T)
  BY DEF IsSeq
<1> DEFINE c == s \o t
           m == Len(s)
           n == Len(t)
<1>3. /\ m \in Nat /\ n \in Nat /\ Len(c) = m + n
      /\ \A i \in 1 .. m : c[i] = s[i]
      /\ \A i \in 1 .. n : c[m + i] = t[i]
  BY <1>1, <1>2, Joined
<1>4. /\ \A i \in 1 .. m : ~s[i].checked =>
            i + 1 \in 1 .. m /\ Fills(s[i + 1], s[i])
      /\ \A i \in 1 .. n : ~t[i].checked =>
            i + 1 \in 1 .. n /\ Fills(t[i + 1], t[i])
  BY DEF Careful
<1> HIDE DEF c, m, n
<1>5. \A i \in 1 .. m + n : i \in 1 .. m \/ (\E j \in 1 .. n : i = m + j)
  <2>1. SUFFICES ASSUME NEW i \in 1 .. m + n, ~(i <= m)
                 PROVE  \E j \in 1 .. n : i = m + j
    BY <1>3
  <2>2. i - m \in 1 .. n /\ i = m + (i - m)
    BY <1>3, <2>1
  <2> QED
    BY <2>2
<1>6. Careful(c)
  <2>1. ASSUME NEW i \in 1 .. m, ~c[i].checked
        PROVE  /\ i + 1 \in 1 .. m + n
               /\ Fills(c[i + 1], c[i])
    <3>1. i + 1 \in 1 .. m /\ Fills(s[i + 1], s[i])
      BY <1>3, <1>4, <2>1
    <3>2. i + 1 \in 1 .. m + n /\ c[i + 1] = s[i + 1] /\ c[i] = s[i]
      BY <1>3, <3>1
    <3> QED
      BY <3>1, <3>2
  <2>2. ASSUME NEW j \in 1 .. n, ~c[m + j].checked
        PROVE  /\ (m + j) + 1 \in 1 .. m + n
               /\ Fills(c[(m + j) + 1], c[m + j])
    <3>1. j + 1 \in 1 .. n /\ Fills(t[j + 1], t[j])
      BY <1>3, <1>4, <2>2
    <3>2. (m + j) + 1 = m + (j + 1) /\ (m + j) + 1 \in 1 .. m + n
      BY <1>3, <3>1
    <3>3. c[m + (j + 1)] = t[j + 1] /\ c[m + j] = t[j]
      BY <1>3, <3>1
    <3> QED
      BY <3>1, <3>2, <3>3
  <2>3. ASSUME NEW i \in 1 .. m + n, ~c[i].checked
        PROVE  /\ i + 1 \in 1 .. m + n
               /\ Fills(c[i + 1], c[i])
    <3>1. CASE i \in 1 .. m
      BY <2>1, <2>3, <3>1
    <3>2. CASE \E j \in 1 .. n : i = m + j
      BY <2>2, <2>3, <3>2
    <3> QED
      BY <1>5, <3>1, <3>2
  <2> QED
    BY <1>3, <2>3 DEF Careful
<1> QED
  BY <1>6 DEF c

LEMMA DoesThen ==
    ASSUME NEW s, NEW t, NEW base, NEW X, NEW Y, NEW Z,
           Does(s, base, X, Y), Does(t, base, Y, Z)
    PROVE  Does(s \o t, base, X, Z)
<1>1. Runs(s \o t, base, X, Z)
  BY RunsThen DEF Does
<1>2. IsSeq(s) /\ IsSeq(t)
  BY DEF Does, Runs, IsSeq
<1>3. Careful(s \o t)
  BY <1>2, CarefulThen DEF Does
<1> QED
  BY <1>1, <1>3 DEF Does

LEMMA DoesWithin ==
    ASSUME NEW steps, NEW base, NEW after, NEW X, NEW Y, IsSeq(after), IsSeq(base),
           Does(steps, after \o base, X, Y)
    PROVE  Does(Within(steps, after), base, X, Y)
<1>1. PICK S : steps \in Seq(S) /\ \A r \in S : IsStep(r) /\ IsSeq(r.undo)
  BY DEF Does, Runs
<1>2. PICK L : Traces(steps, after \o base, X, Y, L)
  BY DEF Does, Runs
<1> DEFINE w == Within(steps, after)
           n == Len(steps)
           Then(s) == [s EXCEPT !.undo = @ \o after]
           T == {Then(s) : s \in S}
<1>3. n \in Nat /\ DOMAIN steps = 1 .. n /\ \A i \in 1 .. n : steps[i] \in S
  BY <1>1, LenProperties, ElementOfSeq
<1>4. w = [i \in 1 .. n |-> Then(steps[i])]
  BY <1>3 DEF Within
<1>5. w \in Seq(T) /\ Len(w) = n /\ \A i \in 1 .. n : w[i] = Then(steps[i])
  <2> HIDE DEF Then, n
  <2>1. w \in [1 .. n -> T]
    BY <1>3, <1>4
  <2> QED
    BY <1>3, <1>4, <2>1
<1> HIDE DEF w, n
<1>6. ASSUME NEW s \in S
      PROVE  /\ IsStep(Then(s)) /\ IsSeq(Then(s).undo)
             /\ Then(s).call = s.call /\ Then(s).makes = s.makes /\ Then(s).frees = s.frees
             /\ Then(s).checked = s.checked /\ Then(s).spins = s.spins
             /\ Then(s).undo \o base = s.undo \o (after \o base)
  <2>1. IsStep(s) /\ IsSeq(s.undo)
    BY <1>1
  <2>2. Then(s) = [call |-> s.call, makes |-> s.makes, frees |-> s.frees,
                   undo |-> s.undo \o after, checked |-> s.checked, spins |-> s.spins]
    <3>1. PICK c, m, f, u, k, p : s = [call |-> c, makes |-> m, frees |-> f, undo |-> u,
                                       checked |-> k, spins |-> p]
      BY <2>1 DEF IsStep
    <3> DEFINE v == u \o after
    <3>2. s.call = c /\ s.makes = m /\ s.frees = f /\ s.undo = u /\ s.checked = k /\ s.spins = p
      BY <3>1
    <3>3. [s EXCEPT !.undo = v] = [call |-> c, makes |-> m, frees |-> f, undo |-> v,
                                   checked |-> k, spins |-> p]
      <4> HIDE DEF v
      <4> QED
        BY <3>1
    <3> QED
      BY <3>2, <3>3
  <2>3. /\ IsStep(Then(s)) /\ Then(s).undo = s.undo \o after
        /\ Then(s).call = s.call /\ Then(s).makes = s.makes /\ Then(s).frees = s.frees
        /\ Then(s).checked = s.checked /\ Then(s).spins = s.spins
    <3> HIDE DEF Then
    <3> QED
      BY <2>2 DEF IsStep
  <2> HIDE DEF Then
  <2>4. IsSeq(s.undo \o after) /\ (s.undo \o after) \o base = s.undo \o (after \o base)
    <3>1. ASSUME NEW v, IsSeq(v)
          PROVE  IsSeq(v \o after) /\ (v \o after) \o base = v \o (after \o base)
      BY <3>1, Linked
    <3> QED
      BY <2>1, <3>1
  <2> QED
    BY <2>3, <2>4
<1>7. \A r \in T : IsStep(r) /\ IsSeq(r.undo)
  BY <1>6
<1> HIDE DEF Then, T
<1>8. \A i \in 1 .. n : /\ w[i].call = steps[i].call /\ w[i].makes = steps[i].makes
                        /\ w[i].frees = steps[i].frees /\ w[i].checked = steps[i].checked
                        /\ w[i].spins = steps[i].spins
                        /\ w[i].undo \o base = steps[i].undo \o (after \o base)
  BY <1>3, <1>5, <1>6
<1>9. \A i \in 1 .. n : Passes(steps[i], after \o base, L[i], L[i + 1])
  BY <1>2 DEF Traces, n
<1>10. \A i \in 1 .. n : Passes(w[i], base, L[i], L[i + 1])
  <2>1. SUFFICES ASSUME NEW i \in 1 .. n PROVE Passes(w[i], base, L[i], L[i + 1])
    OBVIOUS
  <2>2. Passes(steps[i], after \o base, L[i], L[i + 1])
    BY <1>9
  <2> QED
    BY <1>8, <2>2 DEF Passes
<1>11. Traces(w, base, X, Y, L)
  BY <1>2, <1>5, <1>10 DEF Traces, n
<1>12. Careful(w)
  <2>1. Careful(steps)
    BY DEF Does
  <2> QED
    BY <1>5, <1>8, <2>1 DEF Careful, Fills, n
<1> QED
  BY <1>5, <1>7, <1>11, <1>12 DEF Does, Runs, w

LEMMA DoesTwo ==
    ASSUME NEW a, NEW b, NEW base, NEW X, NEW Y, NEW Z,
           Does(<<a>>, base, X, Y), Does(<<b>>, base, Y, Z)
    PROVE  Does(<<a, b>>, base, X, Z)
<1>1. <<a, b>> = <<a>> \o <<b>>
  BY Literals
<1> QED
  BY <1>1, DoesThen

LEMMA DoesThree ==
    ASSUME NEW a, NEW b, NEW c, NEW base, NEW X, NEW Y, NEW Z,
           Does(<<a, b>>, base, X, Y), Does(<<c>>, base, Y, Z)
    PROVE  Does(<<a, b, c>>, base, X, Z)
<1>1. <<a, b, c>> = <<a, b>> \o <<c>>
  OBVIOUS
<1> QED
  BY <1>1, DoesThen

LEMMA DoesFour ==
    ASSUME NEW a, NEW b, NEW c, NEW d, NEW base, NEW X, NEW Y, NEW Z,
           Does(<<a, b, c>>, base, X, Y), Does(<<d>>, base, Y, Z)
    PROVE  Does(<<a, b, c, d>>, base, X, Z)
<1>1. <<a, b, c, d>> = <<a, b, c>> \o <<d>>
  OBVIOUS
<1> QED
  BY <1>1, DoesThen

LEMMA DoesFive ==
    ASSUME NEW a, NEW b, NEW c, NEW d, NEW e, NEW base, NEW X, NEW Y, NEW Z,
           Does(<<a, b, c, d>>, base, X, Y), Does(<<e>>, base, Y, Z)
    PROVE  Does(<<a, b, c, d, e>>, base, X, Z)
<1>1. <<a, b, c, d, e>> = <<a, b, c, d>> \o <<e>>
  OBVIOUS
<1> QED
  BY <1>1, DoesThen

\* A step whose failure goes unnoticed until the next one.
LEMMA DoesUnchecked ==
    ASSUME NEW s, NEW t, NEW base, NEW X, NEW Y, NEW Z,
           IsStep(s), IsSeq(s.undo), Passes(s, base, X, Y), Does(t, base, Y, Z),
           Len(t) \in Nat \ {0}, Fills(t[1], s)
    PROVE  Does(<<s>> \o t, base, X, Z)
<1> DEFINE c == <<s>> \o t
           n == Len(t)
<1>1. Runs(<<s>>, base, X, Y)
  BY RunsStep
<1>2. Runs(c, base, X, Z)
  BY <1>1, RunsThen DEF Does
<1>3. PICK T : t \in Seq(T)
  BY DEF Does, Runs
<1>4. <<s>> \in Seq({s}) /\ Len(<<s>>) = 1 /\ <<s>>[1] = s
  OBVIOUS
<1>5. /\ Len(c) = 1 + n /\ c[1] = s /\ \A i \in 1 .. n : c[1 + i] = t[i]
  BY <1>3, <1>4, Joined
<1>6. \A i \in 1 .. n : ~t[i].checked =>
            i + 1 \in 1 .. n /\ Fills(t[i + 1], t[i])
  BY DEF Does, Careful
<1>7. n \in Nat \ {0}
  OBVIOUS
<1> HIDE DEF c, n
<1>8. Careful(c)
  <2>1. SUFFICES ASSUME NEW i \in 1 .. 1 + n, ~c[i].checked
                 PROVE  /\ i + 1 \in 1 .. 1 + n
                        /\ Fills(c[i + 1], c[i])
    BY <1>5 DEF Careful
  <2>2. CASE i = 1
    <3>1. c[1 + 1] = t[1] /\ i + 1 = 1 + 1 /\ i + 1 \in 1 .. 1 + n
      BY <1>5, <1>7, <2>2
    <3> QED
      BY <1>5, <2>2, <3>1
  <2>3. CASE i # 1
    <3>1. PICK j \in 1 .. n : i = 1 + j
      <4>1. i - 1 \in 1 .. n /\ i = 1 + (i - 1)
        BY <1>7, <2>3
      <4> QED
        BY <4>1
    <3>2. c[i] = t[j]
      BY <1>5, <3>1
    <3>3. j + 1 \in 1 .. n /\ Fills(t[j + 1], t[j])
      BY <1>6, <2>1, <3>2
    <3>4. c[1 + (j + 1)] = t[j + 1] /\ i + 1 = 1 + (j + 1) /\ i + 1 \in 1 .. 1 + n
      BY <1>5, <1>7, <3>1, <3>3
    <3> QED
      BY <3>2, <3>3, <3>4
  <2> QED
    BY <2>2, <2>3
<1> QED
  BY <1>2, <1>8 DEF Does, c

LEMMA AllGrows ==
    ASSUME NEW k, NEW n \in Nat
    PROVE  /\ All(k, 0) = {}
           /\ \A i \in 1 .. n : All(k, i) = All(k, i - 1) \cup {<<k, i>>}
           /\ \A i \in 1 .. n : <<k, i>> \notin All(k, i - 1)
<1>1. All(k, 0) = {}
  BY DEF All
<1>2. ASSUME NEW i \in 1 .. n
      PROVE  All(k, i) = All(k, i - 1) \cup {<<k, i>>} /\ <<k, i>> \notin All(k, i - 1)
  <2>1. 1 .. i = (1 .. i - 1) \cup {i} /\ i \notin 1 .. i - 1
    OBVIOUS
  <2> QED
    BY <2>1 DEF All
<1> QED
  BY <1>1, <1>2

\* A loop that fills an array.
LEMMA DoesArray ==
    ASSUME NEW n \in Nat, NEW steps, IsSeq(steps), Len(steps) = n, NEW k, NEW base, NEW X,
           Closed(X),
           \A i \in 1 .. n :
                /\ IsStep(steps[i]) /\ IsSeq(steps[i].undo) /\ steps[i].checked
                /\ steps[i].makes = {<<k, i>>} /\ steps[i].frees = {}
                /\ <<k, i>> \notin X /\ Needs(<<k, i>>) \subseteq X
                /\ steps[i].undo \o base \in Seq(X \cup All(k, i - 1))
                /\ ~steps[i].spins => Teardown(steps[i].undo \o base, X \cup All(k, i - 1))
    PROVE  Does(steps, base, X, X \cup All(k, n))
<1> DEFINE S == {steps[i] : i \in 1 .. n}
           L == [i \in 1 .. n + 1 |-> X \cup All(k, i - 1)]
<1>1. steps \in Seq(S) /\ Len(steps) = n
  <2>1. PICK T : steps \in Seq(T)
    BY DEF IsSeq
  <2>2. steps \in [1 .. n -> T]
    BY <2>1, LenProperties
  <2>3. steps \in [1 .. n -> S]
    BY <2>2
  <2> HIDE DEF S
  <2> QED
    BY <2>3
<1>2. \A s \in S : IsStep(s) /\ IsSeq(s.undo)
  OBVIOUS
<1> HIDE DEF S
<1>3. /\ All(k, 0) = {}
      /\ \A i \in 1 .. n : All(k, i) = All(k, i - 1) \cup {<<k, i>>}
      /\ \A i \in 1 .. n : <<k, i>> \notin All(k, i - 1)
  BY AllGrows
<1>4. /\ DOMAIN L = 1 .. n + 1 /\ L[1] = X /\ L[n + 1] = X \cup All(k, n)
      /\ \A i \in 1 .. n : L[i] = X \cup All(k, i - 1) /\ L[i + 1] = X \cup All(k, i)
  <2>1. /\ 1 \in 1 .. n + 1 /\ 1 - 1 = 0 /\ n + 1 \in 1 .. n + 1 /\ (n + 1) - 1 = n
        /\ \A i \in 1 .. n : i \in 1 .. n + 1 /\ i + 1 \in 1 .. n + 1 /\ (i + 1) - 1 = i
    OBVIOUS
  <2> QED
    BY <1>3, <2>1
<1> HIDE DEF L
<1>5. ASSUME NEW i \in 1 .. n PROVE Passes(steps[i], base, L[i], L[i + 1])
  <2> DEFINE s == steps[i]
             o == <<k, i>>
             Y == X \cup All(k, i - 1)
             Z == X \cup All(k, i)
  <2>1. /\ s.checked /\ s.makes = {o} /\ s.frees = {} /\ o \notin X /\ Needs(o) \subseteq X
        /\ s.undo \o base \in Seq(Y)
        /\ ~s.spins => Teardown(s.undo \o base, Y)
    OBVIOUS
  <2> HIDE DEF s
  <2>2. Z = Y \cup {o} /\ o \notin Y
    BY <1>3, <2>1
  <2>3. L[i] = Y /\ L[i + 1] = Z
    BY <1>4
  <2>4. Z \subseteq X \cup {<<k, j>> : j \in 1 .. n}
    <3>1. 1 .. i \subseteq 1 .. n
      OBVIOUS
    <3> QED
      BY <3>1 DEF All
  <2>5. Closed(Z)
    <3>1. \A p \in Z : p \in X \/ \E j \in 1 .. n : p = <<k, j>>
      BY <2>4
    <3>2. \A p \in Z : Needs(p) \subseteq X
      BY <3>1 DEF Closed
    <3> QED
      BY <3>2 DEF Closed
  <2> HIDE DEF o, Y, Z
  <2>6. s.makes \cap Y = {} /\ s.frees \subseteq Y /\ Z = (Y \cup s.makes) \ s.frees
    BY <2>1, <2>2
  <2>7. \A p \in s.makes : Needs(p) \subseteq Y
    BY <2>1 DEF Y
  <2>8. Passes(s, base, Y, Z)
    BY <2>1, <2>5, <2>6, <2>7, Zenon DEF Passes
  <2> QED
    BY <2>3, <2>8 DEF s
<1>6. Traces(steps, base, X, X \cup All(k, n), L)
  BY <1>1, <1>4, <1>5 DEF Traces
<1>7. Runs(steps, base, X, X \cup All(k, n))
  BY <1>1, <1>2, <1>6 DEF Runs
<1>8. Careful(steps)
  BY <1>1 DEF Careful
<1> QED
  BY <1>1, <1>7, <1>8 DEF Does

LEMMA LoopIsSeq ==
    ASSUME NEW n \in Nat, NEW t, NEW S, t \in [1 .. n -> S] PROVE IsSeq(t) /\ Len(t) = n
<1>1. t \in Seq(S) /\ Len(t) = n
  OBVIOUS
<1> QED
  BY <1>1 DEF IsSeq

\* The same, when each failure undoes what was made before it.
LEMMA DoesMakes ==
    ASSUME NEW n \in Nat, NEW undo, NEW call, NEW k, NEW base, NEW X, Closed(X),
           \A i \in 1 .. n :
                /\ <<k, i>> \notin X /\ Needs(<<k, i>>) \subseteq X
                /\ IsSeq(undo[i]) /\ Teardown(undo[i] \o base, X \cup All(k, i - 1)),
           NEW steps, IsSeq(steps), Len(steps) = n,
           \A i \in 1 .. n : steps[i] = Make(call, <<k, i>>, undo[i])
    PROVE  Does(steps, base, X, X \cup All(k, n))
<1>1. \A i \in 1 .. n :
        /\ IsStep(steps[i]) /\ steps[i].undo = undo[i] /\ steps[i].checked
        /\ steps[i].makes = {<<k, i>>} /\ steps[i].frees = {}
  BY DEF IsStep, Make, Step
<1>2. ASSUME NEW i \in 1 .. n
      PROVE  /\ IsSeq(steps[i].undo)
             /\ Teardown(steps[i].undo \o base, X \cup All(k, i - 1))
             /\ steps[i].undo \o base \in Seq(X \cup All(k, i - 1))
  <2>1. Teardown(undo[i] \o base, X \cup All(k, i - 1)) /\ IsSeq(undo[i])
    OBVIOUS
  <2>2. undo[i] \o base \in Seq(X \cup All(k, i - 1))
    BY <2>1 DEF Teardown
  <2> QED
    BY <1>1, <2>1, <2>2
<1> QED
  BY <1>1, <1>2, DoesArray

\* A loop that frees, in an order that frees nothing that is still needed.
LEMMA DoesFrees ==
    ASSUME NEW os, IsSeq(os), NEW w, NEW W, Teardown(w, W), NEW X, Teardown(os \o w, X),
           NEW base
    PROVE  Does(Frees(os), base, X, W)
<1> DEFINE u == os \o w
           n == Len(os)
           m == Len(w)
           f == Frees(os)
           After(i) == {u[j] : j \in i .. n + m}
           L == [i \in 1 .. n + 1 |-> After(i)]
           S == {Free(o) : o \in X}
<1>1. PICK T : os \in Seq(T)
  BY DEF IsSeq
<1>2. /\ w \in Seq(W) /\ u \in Seq(X)
      /\ \A o \in X : \E i \in DOMAIN u : u[i] = o
      /\ \A i, j \in DOMAIN u : u[i] = u[j] => i = j
      /\ \A i \in DOMAIN u : \A o \in Needs(u[i]) : \E j \in DOMAIN u : i < j /\ u[j] = o
      /\ \A o \in W : \E i \in DOMAIN w : w[i] = o
  BY DEF Teardown
<1>3. /\ n \in Nat /\ m \in Nat /\ DOMAIN os = 1 .. n /\ DOMAIN w = 1 .. m
      /\ DOMAIN u = 1 .. n + m
      /\ \A i \in 1 .. n : u[i] = os[i]
      /\ \A i \in 1 .. m : u[n + i] = w[i]
  BY <1>1, <1>2, Joined
<1>4. \A i \in 1 .. n + m : u[i] \in X
  <2>1. Len(u) = n + m
    BY <1>1, <1>2, Joined
  <2> HIDE DEF u, n, m
  <2> QED
    BY <1>2, <2>1, ElementOfSeq
<1>5. \A i \in 1 .. m : w[i] \in W
  BY <1>2, ElementOfSeq
<1>6. f = [i \in 1 .. n |-> Free(os[i])]
  BY <1>3 DEF Frees
<1> HIDE DEF u, n, m, f
<1>7. \A i \in 1 .. n : i \in 1 .. n + m
  BY <1>3
<1>8. f \in Seq(S) /\ Len(f) = n /\ \A i \in 1 .. n : f[i] = Free(u[i])
  <2>1. f \in [1 .. n -> S] /\ \A i \in 1 .. n : f[i] = Free(u[i])
    BY <1>3, <1>4, <1>6, <1>7
  <2> HIDE DEF S
  <2> QED
    BY <1>3, <2>1
<1>9. \A s \in S : IsStep(s) /\ IsSeq(s.undo) /\ s.call = "free" /\ s.checked
  BY Literals DEF IsStep, Free, Step
<1>10. \A i \in 1 .. n : f[i].call = "free" /\ f[i].makes = {} /\ f[i].frees = {u[i]}
  BY <1>8 DEF Free, Step
<1> HIDE DEF S
<1>11. L[1] = X /\ L[n + 1] = W /\ DOMAIN L = 1 .. n + 1
  <2>1. After(1) = X
    BY <1>2, <1>3, <1>4
  <2>2. After(n + 1) = W
    <3>1. ASSUME NEW j \in n + 1 .. n + m PROVE u[j] \in W
      <4>1. j - n \in 1 .. m /\ n + (j - n) = j
        BY <1>3
      <4>2. u[j] = w[j - n]
        BY <1>3, <4>1
      <4> QED
        BY <1>5, <4>1, <4>2
    <3>2. ASSUME NEW o \in W PROVE \E j \in n + 1 .. n + m : u[j] = o
      <4>1. PICK i \in 1 .. m : w[i] = o
        BY <1>2, <1>3
      <4>2. n + i \in n + 1 .. n + m /\ u[n + i] = o
        BY <1>3, <4>1
      <4> QED
        BY <4>2
    <3> QED
      BY <3>1, <3>2
  <2>3. 1 \in 1 .. n + 1 /\ n + 1 \in 1 .. n + 1
    BY <1>3
  <2> QED
    BY <2>1, <2>2, <2>3
<1>12. ASSUME NEW i \in 1 .. n PROVE Passes(f[i], base, L[i], L[i + 1])
  <2>1. L[i] = After(i) /\ L[i + 1] = After(i + 1)
    BY <1>3
  <2>2. i .. n + m = {i} \cup (i + 1 .. n + m) /\ i \in 1 .. n + m
    BY <1>3
  <2>3. After(i) = After(i + 1) \cup {u[i]}
    BY <2>2
  <2>4. u[i] \notin After(i + 1)
    <3>1. ASSUME NEW j \in i + 1 .. n + m PROVE u[j] # u[i]
      <4>1. j \in 1 .. n + m /\ j # i
        BY <1>3
      <4> QED
        BY <1>2, <1>3, <2>2, <4>1
    <3> QED
      BY <3>1
  <2>5. Closed(After(i + 1))
    <3>1. ASSUME NEW j \in i + 1 .. n + m, NEW o \in Needs(u[j]) PROVE o \in After(i + 1)
      <4>1. j \in 1 .. n + m
        BY <1>3
      <4>2. PICK h \in 1 .. n + m : j < h /\ u[h] = o
        BY <1>2, <1>3, <4>1, <3>1
      <4>3. h \in i + 1 .. n + m
        BY <1>3, <4>2
      <4> QED
        BY <4>2, <4>3
    <3> QED
      BY <3>1 DEF Closed
  <2> HIDE DEF After, L
  <2> QED
    BY <1>10, <2>1, <2>3, <2>4, <2>5 DEF Passes
<1> HIDE DEF L
<1>13. Traces(f, base, X, W, L)
  BY <1>8, <1>11, <1>12 DEF Traces
<1>14. Runs(f, base, X, W)
  BY <1>8, <1>9, <1>13 DEF Runs
<1>15. \A i \in 1 .. n : f[i] \in S
  BY <1>8, ElementOfSeq
<1>16. Careful(f)
  BY <1>8, <1>9, <1>15 DEF Careful
<1> QED
  BY <1>14, <1>16 DEF Does, f

LEMMA DoesRepeat ==
    ASSUME NEW steps, NEW base, NEW X, Does(steps, base, X, X), NEW n \in Nat
    PROVE  Does(Repeat(n, steps), base, X, X)
<1> DEFINE p == Len(steps)
           N == n * p
           r == Repeat(n, steps)
           At(i) == ((i - 1) % p) + 1
<1>1. PICK S : steps \in Seq(S) /\ \A s \in S : IsStep(s) /\ IsSeq(s.undo)
  BY DEF Does, Runs
<1>2. PICK L : Traces(steps, base, X, X, L)
  BY DEF Does, Runs
<1>3. /\ L[1] = X /\ L[p + 1] = X /\ \A i \in 1 .. p : Passes(steps[i], base, L[i], L[i + 1])
  BY <1>2 DEF Traces
<1>4. \A i \in 1 .. p : ~steps[i].checked =>
            i + 1 \in 1 .. p /\ Fills(steps[i + 1], steps[i])
  BY DEF Does, Careful
<1>5. p \in Nat /\ \A i \in 1 .. p : steps[i] \in S
  BY <1>1, LenProperties, ElementOfSeq
<1>6. r = [i \in 1 .. N |-> steps[At(i)]]
  BY DEF Repeat
<1> HIDE DEF p
<1>7. N \in Nat /\ (p = 0 => N = 0) /\ (p # 0 => N % p = 0)
  <2>1. N \in Nat /\ (p = 0 => N = 0) /\ N = p * n
    BY <1>5
  <2>2. p # 0 => (p * n) % p = 0
    BY <1>5, NextRemainder
  <2> QED
    BY <2>1, <2>2
<1> HIDE DEF N, r
<1>8. ASSUME NEW i \in 1 .. N
      PROVE  /\ At(i) \in 1 .. p
             /\ At(i) = p => At(i + 1) = 1
             /\ At(i) # p => At(i + 1) = At(i) + 1 /\ i # N
  <2>1. p \in Nat \ {0} /\ i - 1 \in Nat /\ (i - 1) + 1 = i /\ (i + 1) - 1 = i
    BY <1>5, <1>7
  <2>2. /\ (i - 1) % p \in 0 .. p - 1
        /\ (i - 1) % p = p - 1 => ((i - 1) + 1) % p = 0
        /\ (i - 1) % p # p - 1 => ((i - 1) + 1) % p = ((i - 1) % p) + 1
    BY <2>1, NextRemainder
  <2> DEFINE a == (i - 1) % p
             b == i % p
  <2>3. /\ a \in 0 .. p - 1 /\ (a = p - 1 => b = 0) /\ (a # p - 1 => b = a + 1)
        /\ At(i) = a + 1 /\ At(i + 1) = b + 1
    BY <2>1, <2>2
  <2>4. i = N => b = 0
    BY <1>7, <2>1
  <2> HIDE DEF a, b, At
  <2> QED
    BY <1>5, <2>1, <2>3, <2>4
<1> HIDE DEF At
<1>9. r \in Seq(S) /\ Len(r) = N /\ \A i \in 1 .. N : r[i] = steps[At(i)]
  <2>1. r \in [1 .. N -> S]
    BY <1>5, <1>6, <1>8
  <2> QED
    BY <1>6, <1>7, <2>1
<1> DEFINE M == [i \in 1 .. N + 1 |-> IF i = N + 1 THEN X ELSE L[At(i)]]
<1>10. /\ DOMAIN M = 1 .. N + 1 /\ M[N + 1] = X
       /\ \A i \in 1 .. N : M[i] = L[At(i)]
       /\ \A i \in 1 .. N : i + 1 \in 1 .. N \/ i = N
       /\ N # 0 => 1 \in 1 .. N
  BY <1>7
<1> HIDE DEF M
<1>11. M[1] = X
  <2>1. CASE N = 0
    BY <1>10, <2>1
  <2>2. CASE N # 0
    <3>1. p \in Nat \ {0} /\ 1 - 1 = 0
      BY <1>5, <1>7, <2>2
    <3>2. (p * 0) % p = 0 /\ p * 0 = 0
      BY <3>1, NextRemainder
    <3>3. At(1) = 1
      BY <3>1, <3>2 DEF At
    <3> QED
      BY <1>3, <1>10, <2>2, <3>3
  <2> QED
    BY <2>1, <2>2
<1>12. ASSUME NEW i \in 1 .. N PROVE Passes(r[i], base, M[i], M[i + 1])
  <2>1. Passes(steps[At(i)], base, L[At(i)], L[At(i) + 1])
    BY <1>3, <1>8
  <2>2. M[i + 1] = L[At(i) + 1]
    <3>1. CASE i = N
      BY <1>3, <1>8, <1>10, <3>1
    <3>2. CASE i + 1 \in 1 .. N
      BY <1>3, <1>8, <1>10, <3>2
    <3> QED
      BY <1>10, <3>1, <3>2
  <2> QED
    BY <1>9, <1>10, <2>1, <2>2
<1>13. Traces(r, base, X, X, M)
  BY <1>9, <1>10, <1>11, <1>12 DEF Traces
<1>14. Runs(r, base, X, X)
  BY <1>1, <1>9, <1>13 DEF Runs
<1>15. Careful(r)
  <2>1. SUFFICES ASSUME NEW i \in 1 .. N, ~r[i].checked
                 PROVE  /\ i + 1 \in 1 .. N
                        /\ Fills(r[i + 1], r[i])
    BY <1>9 DEF Careful
  <2>2. /\ At(i) + 1 \in 1 .. p
        /\ Fills(steps[At(i) + 1], steps[At(i)])
    BY <1>4, <1>8, <1>9, <2>1
  <2>3. At(i) # p
    BY <1>5, <2>2
  <2>4. i + 1 \in 1 .. N /\ At(i + 1) = At(i) + 1
    BY <1>8, <1>10, <2>3
  <2> QED
    BY <1>9, <2>2, <2>4
<1> QED
  BY <1>14, <1>15 DEF Does, r

-----------------------------------------------------------------------------
(* The functions, one by one: each in a caller that can undo X with base.  *)

LEMMA Lacking ==
    ASSUME NEW K, NEW X, Lacks(X, K)
    PROVE  /\ \A k \in K : One(k) \notin X /\ \A i : <<k, i>> \notin X
           /\ \A k, j : k # j => One(k) # One(j) /\ \A i : <<k, i>> # One(j)
           /\ \A k : k \notin K => Lacks(X \cup {One(k)}, K)
           /\ \A J : J \subseteq K => Lacks(X, J)
  BY DEF Lacks, One

LEMMA Kept == ASSUME NEW X, NEW o, Closed(X), Needs(o) \subseteq X PROVE Closed(X \cup {o})
  BY DEF Closed

LEMMA Begins ==
    ASSUME NEW base, NEW X, Teardown(base, X), NEW call
    PROVE  /\ Closed(X) /\ Does(<<Get(call, <<>>)>>, base, X, X)
           /\ \A o : o \notin X /\ Needs(o) \subseteq X =>
                /\ Does(<<Make(call, o, <<>>)>>, base, X, X \cup {o})
                /\ Teardown(<<o>> \o base, X \cup {o})
                /\ Closed(X \cup {o})
<1>1. Teardown(<<>> \o base, X) /\ IsSeq(<<>>) /\ Closed(X)
  BY TeardownIsSeq, Literals, TeardownClosed
<1>2. Does(<<Get(call, <<>>)>>, base, X, X)
  BY <1>1, DoesGet
<1>3. ASSUME NEW o, o \notin X, Needs(o) \subseteq X
      PROVE  /\ Does(<<Make(call, o, <<>>)>>, base, X, X \cup {o})
             /\ Teardown(<<o>> \o base, X \cup {o}) /\ Closed(X \cup {o})
  <2>1. Does(<<Make(call, o, <<>>)>>, base, X, X \cup {o})
    BY <1>1, <1>3, DoesMake
  <2> QED
    BY <1>1, <1>3, <2>1, TeardownOne, Kept
<1> QED
  BY <1>1, <1>2, <1>3

LEMMA WinOpen ==
    ASSUME NEW base, NEW X, Teardown(base, X), Lacks(X, {"glfw", "win"})
    PROVE  /\ Does(win_open, base, X, X \cup {One("glfw"), One("win")})
           /\ Teardown(win_close \o base, X \cup {One("glfw"), One("win")})
<1> DEFINE g == One("glfw")
           w == One("win")
<1>1. g \notin X /\ w \notin X /\ w # g /\ Needs(g) = {} /\ Needs(w) = {g}
  BY Lacking, NeedsNothing, NeedsOne
<1> HIDE DEF g, w
<1>2. /\ Does(<<Make("glfwInit", g, <<>>)>>, base, X, X \cup {g})
      /\ Teardown(<<g>> \o base, X \cup {g})
  BY <1>1, Begins
<1>3. Does(<<Get("default_win_size", <<g>>)>>, base, X \cup {g}, X \cup {g})
  BY <1>2, DoesGet, Literals
<1>4. Does(<<Make("glfwCreateWindow", w, <<g>>)>>, base, X \cup {g}, (X \cup {g}) \cup {w})
  BY <1>1, <1>2, DoesMake, Literals
<1>5. (X \cup {g}) \cup {w} = X \cup {g, w}
  OBVIOUS
<1>6. Does(<<Make("glfwInit", g, <<>>), Get("default_win_size", <<g>>),
             Make("glfwCreateWindow", w, <<g>>)>>, base, X, X \cup {g, w})
  BY <1>2, <1>3, <1>4, <1>5, DoesTwo, DoesThree
<1>7. Teardown(<<w, g>> \o base, X \cup {g, w})
  BY <1>1, TeardownTwo
<1> QED
  BY <1>6, <1>7 DEF win_open, win_close, g, w

LEMMA NamesetToArray ==
    ASSUME NEW base, NEW X, Teardown(base, X), NEW arr, arr \notin X, Needs(arr) = {},
           arr # One("iter"), One("iter") \notin X
    PROVE  Does(nameset_to_array(arr), base, X, X \cup {arr})
<1> DEFINE t == One("iter")
           Y == X \cup {arr}
<1>1. t \notin Y /\ Needs(t) = {}
  BY NeedsNothing
<1> HIDE DEF t
<1>2. /\ Does(<<Make("malloc", arr, <<>>)>>, base, X, Y)
      /\ Teardown(<<arr>> \o base, Y) /\ Closed(Y)
  BY Begins
<1>3. Does(<<Make("nameset_begin", t, <<arr>>)>>, base, Y, Y \cup {t})
  <2> HIDE DEF Y
  <2> QED
    BY <1>1, <1>2, DoesMake, Literals
<1>4. Does(<<Free(t)>>, base, Y \cup {t}, Y)
  BY <1>1, <1>2, DoesFree
<1> QED
  BY <1>2, <1>3, <1>4, DoesTwo, DoesThree DEF nameset_to_array, t

\* What get_layers and get_exts share.
LEMMA Named ==
    ASSUME NEW base, NEW X, Teardown(base, X), NEW arr, arr \notin X, Needs(arr) = {},
           arr # One("iter"), arr # One("names"), Lacks(X, {"names", "iter"}), NEW gets,
           Does(gets, <<One("names")>> \o base, X \cup {One("names")}, X \cup {One("names")})
    PROVE  Does(<<Make("nameset_init", One("names"), <<>>)>>
                    \o Within(gets \o nameset_to_array(arr), <<One("names")>>)
                    \o <<Free(One("names"))>>,
                base, X, X \cup {arr})
<1> DEFINE m == One("names")
           Y == X \cup {m}
           b == <<m>> \o base
<1>1. m \notin X /\ Needs(m) = {} /\ One("iter") \notin Y
  BY Lacking, NeedsNothing
<1> HIDE DEF m
<1>2. /\ Does(<<Make("nameset_init", m, <<>>)>>, base, X, Y)
      /\ Teardown(b, Y)
  BY <1>1, Begins
<1>3. arr \notin Y
  BY DEF m
<1> HIDE DEF Y, b
<1>4. Does(nameset_to_array(arr), b, Y, Y \cup {arr})
  BY <1>1, <1>2, <1>3, NamesetToArray
<1>5. Does(gets \o nameset_to_array(arr), b, Y, Y \cup {arr})
  BY <1>4, DoesThen DEF b, Y, m
<1>6. Does(Within(gets \o nameset_to_array(arr), <<m>>), base, Y, Y \cup {arr})
  BY <1>5, DoesWithin, Literals, TeardownIsSeq DEF b
<1>7. Y \cup {arr} = (X \cup {arr}) \cup {m} /\ m \notin X \cup {arr}
  BY <1>1, <1>3 DEF Y
<1>8. Closed(X \cup {arr})
  BY TeardownClosed, Kept
<1>9. Does(<<Free(m)>>, base, Y \cup {arr}, X \cup {arr})
  BY <1>7, <1>8, DoesFree
<1> QED
  BY <1>2, <1>6, <1>9, DoesThen DEF m

LEMMA GetLayers ==
    ASSUME NEW base, NEW X, Teardown(base, X), Lacks(X, {"names", "iter", "layers"})
    PROVE  Does(get_layers, base, X, X \cup {One("layers")})
<1> DEFINE m == One("names")
<1>1. m \notin X /\ Needs(m) = {} /\ Lacks(X, {"names", "iter"})
  BY Lacking, NeedsNothing
<1>2. /\ One("layers") \notin X /\ Needs(One("layers")) = {}
      /\ One("layers") # One("iter") /\ One("layers") # m
  BY Lacking, NeedsNothing
<1> HIDE DEF m
<1>3. Teardown(<<m>> \o base, X \cup {m})
  BY <1>1, Begins
<1>4. Does(<<Get("nameset_set", <<>>)>>, <<m>> \o base, X \cup {m}, X \cup {m})
  BY <1>3, Begins
<1> QED
  BY <1>1, <1>2, <1>4, Named DEF get_layers, m

LEMMA GetExts ==
    ASSUME NEW base, NEW X, Teardown(base, X), Lacks(X, {"names", "iter", "exts"})
    PROVE  Does(get_exts, base, X, X \cup {One("exts")})
<1> DEFINE m == One("names")
<1>1. m \notin X /\ Needs(m) = {} /\ Lacks(X, {"names", "iter"})
  BY Lacking, NeedsNothing
<1>2. /\ One("exts") \notin X /\ Needs(One("exts")) = {}
      /\ One("exts") # One("iter") /\ One("exts") # m
  BY Lacking, NeedsNothing
<1> HIDE DEF m
<1>3. Teardown(<<m>> \o base, X \cup {m})
  BY <1>1, Begins
<1>4. Does(<<Get("glfwGetRequiredInstanceExtensions", <<>>), Get("nameset_set", <<>>)>>,
           <<m>> \o base, X \cup {m}, X \cup {m})
  BY <1>3, Begins, DoesTwo
<1> QED
  BY <1>1, <1>2, <1>4, Named DEF get_exts, m

LEMMA DoesOffered ==
    ASSUME NEW base, NEW X, Teardown(base, X), Lacks(X, {"props", "set"}), NEW enumerate
    PROVE  LET Y == X \cup {One("props"), One("set")} IN
           /\ Does(Offered(enumerate), base, X, Y)
           /\ Does(<<Get("nameset_get", <<One("set"), One("props")>>)>>, base, Y, Y)
           /\ Does(<<Free(One("set")), Free(One("props"))>>, base, Y, X)
<1> DEFINE p == One("props")
           s == One("set")
           Xp == X \cup {p}
           Y == X \cup {p, s}
<1>1. p \notin X /\ s \notin X /\ p # s /\ Needs(p) = {} /\ Needs(s) = {}
  BY Lacking, NeedsNothing
<1> HIDE DEF p, s
<1>2. /\ Does(<<Get(enumerate, <<>>)>>, base, X, X) /\ Closed(X)
      /\ Does(<<Make("malloc", p, <<>>)>>, base, X, Xp) /\ Teardown(<<p>> \o base, Xp)
      /\ Closed(Xp)
  BY <1>1, Begins
<1>3. Teardown(<<s, p>> \o base, Y)
  BY <1>1, TeardownTwo
<1>4. s \notin Xp /\ Xp \cup {s} = Y
  BY <1>1
<1>5. IsSeq(<<p>>) /\ IsSeq(<<s, p>>)
  BY Literals
<1> HIDE DEF Xp, Y
<1>6. Does(<<Get(enumerate, <<p>>)>>, base, Xp, Xp)
  BY <1>2, <1>5, DoesGet
<1>7. Does(<<Make("nameset_init", s, <<p>>)>>, base, Xp, Y)
  BY <1>1, <1>2, <1>4, <1>5, DoesMake
<1>8. \A call : Does(<<Get(call, <<s, p>>)>>, base, Y, Y)
  BY <1>3, <1>5, DoesGet
<1>9. Does(<<Get(enumerate, <<>>), Make("malloc", p, <<>>), Get(enumerate, <<p>>),
             Make("nameset_init", s, <<p>>), Get("nameset_set", <<s, p>>)>>, base, X, Y)
  BY <1>2, <1>6, <1>7, <1>8, DoesTwo, DoesThree, DoesFour, DoesFive
<1>10. Does(<<Free(s)>>, base, Y, Xp)
  BY <1>2, <1>4, DoesFree
<1>11. Does(<<Free(p)>>, base, Xp, X)
  BY <1>1, <1>2, DoesFree DEF Xp
<1>12. Does(<<Free(s), Free(p)>>, base, Y, X)
  BY <1>10, <1>11, DoesTwo
<1> QED
  BY <1>8, <1>9, <1>12 DEF Offered, p, s, Y

LEMMA DoesChecks ==
    ASSUME NEW base, NEW X, Teardown(base, X), Lacks(X, {"props", "set"})
    PROVE  /\ Does(check_layers, base, X, X) /\ Does(check_exts, base, X, X)
           /\ Does(check_dev_exts, base, X, X)
<1> DEFINE p == One("props")
           s == One("set")
           Y == X \cup {p, s}
           a == Get("nameset_get", <<s, p>>)
<1>1. \A e : Does(Offered(e), base, X, Y)
  BY DoesOffered
<1>2. Does(<<a>>, base, Y, Y) /\ Does(<<Free(s), Free(p)>>, base, Y, X)
  BY DoesOffered
<1> HIDE DEF p, s, Y, a
<1>3. Does(<<a>> \o <<Free(s), Free(p)>>, base, Y, X)
  BY <1>2, DoesThen
<1>4. <<a>> \o <<Free(s), Free(p)>> = <<a, Free(s), Free(p)>>
  BY PutFirst
<1>5. /\ \A e : Does(Offered(e) \o <<a, Free(s), Free(p)>>, base, X, X)
      /\ \A e : Does(Offered(e) \o <<Free(s), Free(p)>>, base, X, X)
  BY <1>1, <1>2, <1>3, <1>4, DoesThen
<1> QED
  BY <1>5 DEF check_layers, check_exts, check_dev_exts, a, p, s

LEMMA InstCreate ==
    ASSUME NEW base, NEW X, Teardown(base, X),
           Lacks(X, {"names", "iter", "layers", "exts", "props", "set", "inst"})
    PROVE  /\ Does(inst_create, base, X, X \cup {One("inst")})
           /\ Teardown(inst_destroy \o base, X \cup {One("inst")})
<1> DEFINE l == One("layers")
           e == One("exts")
           n == One("inst")
           Xl == X \cup {l}
           Xe == Xl \cup {e}
           bl == <<l>> \o base
           be == <<e, l>> \o base
<1>1. /\ l \notin X /\ e \notin X /\ n \notin X /\ l # e /\ l # n /\ e # n
      /\ Needs(l) = {} /\ Needs(e) = {} /\ Needs(n) = {}
  BY Lacking, NeedsNothing
<1>2. /\ Lacks(X, {"names", "iter", "layers"}) /\ Lacks(Xl, {"names", "iter", "exts"})
      /\ Lacks(Xl, {"props", "set"}) /\ Lacks(Xe, {"props", "set"})
  BY DEF Lacks, One
<1> HIDE DEF l, e, n
<1>3. /\ Does(<<Get("vkEnumerateInstanceVersion", <<>>)>>, base, X, X)
      /\ Does(<<Get("check_version", <<>>)>>, base, X, X)
      /\ Closed(X) /\ Teardown(bl, Xl) /\ Closed(Xl)
  BY <1>1, Begins
<1>4. Teardown(be, Xe)
  <2>1. Teardown(<<e, l>> \o base, X \cup {l, e})
    BY <1>1, TeardownTwo
  <2>2. X \cup {l, e} = Xe
    OBVIOUS
  <2> QED
    BY <2>1, <2>2
<1>5. IsSeq(base) /\ IsSeq(<<l>>) /\ IsSeq(<<e, l>>)
  BY Literals, TeardownIsSeq
<1>6. n \notin Xe /\ Needs(n) \subseteq Xe
  BY <1>1
<1>7. /\ Closed(X \cup {n}) /\ Closed((X \cup {n}) \cup {l})
      /\ l \notin X \cup {n} /\ e \notin (X \cup {n}) \cup {l}
      /\ Xe \cup {n} = ((X \cup {n}) \cup {l}) \cup {e}
  BY <1>1, <1>3, Kept
<1> HIDE DEF Xl, Xe, bl, be
<1>8. Does(get_layers, base, X, Xl)
  BY <1>2, GetLayers DEF Xl, l
<1>9. Does(Within(check_layers \o get_exts, <<l>>), base, Xl, Xe)
  <2>1. Does(check_layers, bl, Xl, Xl)
    BY <1>2, <1>3, DoesChecks
  <2>2. Does(get_exts, bl, Xl, Xe)
    BY <1>2, <1>3, GetExts DEF Xe, e
  <2>3. Does(check_layers \o get_exts, bl, Xl, Xe)
    BY <2>1, <2>2, DoesThen
  <2> QED
    BY <1>5, <2>3, DoesWithin DEF bl
<1>10. Does(Within(check_exts \o <<Make("vkCreateInstance", n, <<>>)>>, <<e, l>>),
            base, Xe, Xe \cup {n})
  <2>1. Does(check_exts, be, Xe, Xe)
    BY <1>2, <1>4, DoesChecks
  <2>2. Does(<<Make("vkCreateInstance", n, <<>>)>>, be, Xe, Xe \cup {n})
    BY <1>4, <1>6, Begins
  <2>3. Does(check_exts \o <<Make("vkCreateInstance", n, <<>>)>>, be, Xe, Xe \cup {n})
    BY <2>1, <2>2, DoesThen
  <2> QED
    BY <1>5, <2>3, DoesWithin DEF be
<1>11. Does(<<Free(e), Free(l)>>, base, Xe \cup {n}, X \cup {n})
  <2>1. Does(<<Free(e)>>, base, Xe \cup {n}, (X \cup {n}) \cup {l})
    BY <1>7, DoesFree
  <2>2. Does(<<Free(l)>>, base, (X \cup {n}) \cup {l}, X \cup {n})
    BY <1>7, DoesFree
  <2> QED
    BY <2>1, <2>2, DoesTwo
<1>12. Does(<<Get("vkEnumerateInstanceVersion", <<>>), Get("check_version", <<>>)>>, base, X, X)
  BY <1>3, DoesTwo
<1>13. Does(<<Get("vkEnumerateInstanceVersion", <<>>), Get("check_version", <<>>)>>
                \o get_layers, base, X, Xl)
  BY <1>8, <1>12, DoesThen
<1>14. Does(<<Get("vkEnumerateInstanceVersion", <<>>), Get("check_version", <<>>)>>
                \o get_layers \o Within(check_layers \o get_exts, <<l>>), base, X, Xe)
  BY <1>9, <1>13, DoesThen
<1>15. Does(<<Get("vkEnumerateInstanceVersion", <<>>), Get("check_version", <<>>)>>
                \o get_layers \o Within(check_layers \o get_exts, <<l>>)
                \o Within(check_exts \o <<Make("vkCreateInstance", n, <<>>)>>, <<e, l>>),
            base, X, Xe \cup {n})
  BY <1>10, <1>14, DoesThen
<1>16. Teardown(<<n>> \o base, X \cup {n})
  BY <1>1, Begins
<1> QED
  BY <1>11, <1>15, <1>16, DoesThen DEF inst_create, inst_destroy, l, e, n

LEMMA DoesListed ==
    ASSUME NEW base, NEW X, Teardown(base, X), NEW arr, arr \notin X, Needs(arr) = {},
           NEW enumerate
    PROVE  Does(Listed(enumerate, arr), base, X, X)
<1>1. /\ Does(<<Get(enumerate, <<>>)>>, base, X, X) /\ Closed(X)
      /\ Does(<<Make("malloc", arr, <<>>)>>, base, X, X \cup {arr})
      /\ Teardown(<<arr>> \o base, X \cup {arr})
  BY Begins
<1>2. Does(<<Get(enumerate, <<arr>>)>>, base, X \cup {arr}, X \cup {arr})
  BY <1>1, DoesGet, Literals
<1>3. Does(<<Free(arr)>>, base, X \cup {arr}, X)
  BY <1>1, DoesFree
<1> QED
  BY <1>1, <1>2, <1>3, DoesTwo, DoesThree, DoesFour DEF Listed

LEMMA RateDev ==
    ASSUME NEW base, NEW X, Teardown(base, X),
           Lacks(X, {"props", "set", "fmts", "modes", "fams"})
    PROVE  Does(rate_dev, base, X, X)
<1>1. Does(check_dev_exts, base, X, X)
  BY Lacking, DoesChecks
<1>2. Does(check_srf, base, X, X)
  <2> DEFINE f == One("fmts")
             m == One("modes")
  <2>1. f \notin X /\ m \notin X /\ Needs(f) = {} /\ Needs(m) = {}
    BY Lacking, NeedsNothing
  <2> HIDE DEF f, m
  <2>2. /\ \A call : Does(<<Get(call, <<>>)>>, base, X, X)
        /\ \A call : Does(Listed(call, f), base, X, X) /\ Does(Listed(call, m), base, X, X)
    BY <2>1, Begins, DoesListed
  <2> QED
    BY <2>2, DoesThen DEF check_srf, f, m
<1>3. Does(create_queues, base, X, X)
  <2> DEFINE f == One("fams")
  <2>1. f \notin X /\ Needs(f) = {}
    BY Lacking, NeedsNothing
  <2> HIDE DEF f
  <2>2. /\ Does(<<Make("malloc", f, <<>>)>>, base, X, X \cup {f}) /\ Closed(X)
        /\ Teardown(<<f>> \o base, X \cup {f})
    BY <2>1, Begins
  <2>3. Does(<<Get("vkGetPhysicalDeviceSurfaceSupportKHR", <<f>>)>>, base,
             X \cup {f}, X \cup {f})
    BY <2>2, DoesGet, Literals
  <2>4. Does(<<Free(f)>>, base, X \cup {f}, X)
    BY <2>1, <2>2, DoesFree
  <2> QED
    BY <2>2, <2>3, <2>4, DoesTwo, DoesThree DEF create_queues, f
<1> QED
  BY <1>1, <1>2, <1>3, DoesThen DEF rate_dev

LEMMA SelectPdev ==
    ASSUME NEW base, NEW X, Teardown(base, X),
           Lacks(X, {"devs", "props", "set", "fmts", "modes", "fams"})
    PROVE  Does(select_pdev, base, X, X)
<1> DEFINE d == One("devs")
           Y == X \cup {d}
           b == <<d>> \o base
           call == "vkEnumeratePhysicalDevices"
<1>1. /\ d \notin X /\ Needs(d) = {}
      /\ Lacks(Y, {"props", "set", "fmts", "modes", "fams"})
  <2>1. Lacks(X, {"props", "set", "fmts", "modes", "fams"})
    BY Lacking
  <2> QED
    BY <2>1, Lacking, NeedsNothing
<1> HIDE DEF d
<1>2. /\ Does(<<Get(call, <<>>)>>, base, X, X) /\ Closed(X)
      /\ Does(<<Make("malloc", d, <<>>)>>, base, X, Y) /\ Teardown(b, Y)
  BY <1>1, Begins
<1>3. Does(<<Free(d)>>, base, Y, X)
  BY <1>1, <1>2, DoesFree
<1> HIDE DEF Y, b
<1>4. Does(Repeat(NDevs, rate_dev), b, Y, Y)
  <2>1. Does(rate_dev, b, Y, Y)
    BY <1>1, <1>2, RateDev
  <2>2. NDevs \in Nat
    BY SizesAssumption
  <2> QED
    BY <2>1, <2>2, DoesRepeat
<1>5. Does(<<Get(call, <<>>)>> \o Repeat(NDevs, rate_dev), b, Y, Y)
  <2>1. Does(<<Get(call, <<>>)>>, b, Y, Y)
    BY <1>2, Begins
  <2> QED
    BY <1>4, <2>1, DoesThen
<1>6. Does(<<Get(call, <<>>)>> \o Repeat(NDevs, rate_dev) \o <<Get("best_score", <<>>)>>,
           b, Y, Y)
  <2>1. Does(<<Get("best_score", <<>>)>>, b, Y, Y)
    BY <1>2, Begins
  <2> QED
    BY <1>5, <2>1, DoesThen
<1>7. Does(Within(<<Get(call, <<>>)>> \o Repeat(NDevs, rate_dev)
                      \o <<Get("best_score", <<>>)>>, <<d>>), base, Y, Y)
  BY <1>6, DoesWithin, Literals, TeardownIsSeq DEF b
<1>8. Does(<<Get(call, <<>>), Make("malloc", d, <<>>)>>, base, X, Y)
  BY <1>2, DoesTwo
<1>9. Does(<<Get(call, <<>>), Make("malloc", d, <<>>)>>
             \o Within(<<Get(call, <<>>)>> \o Repeat(NDevs, rate_dev)
                      \o <<Get("best_score", <<>>)>>, <<d>>), base, X, Y)
  BY <1>7, <1>8, DoesThen
<1> QED
  BY <1>3, <1>9, DoesThen DEF select_pdev, d

LEMMA OneEach ==
    ASSUME NEW base, NEW X, Teardown(base, X)
    PROVE  /\ Lacks(X, {"srf"}) /\ {One("inst"), One("win")} \subseteq X =>
                /\ Does(srf_init, base, X, X \cup {One("srf")})
                /\ Teardown(srf_destroy \o base, X \cup {One("srf")})
           /\ Lacks(X, {"msgr"}) /\ One("inst") \in X =>
                /\ Does(debug_start, base, X, X \cup {One("msgr")})
                /\ Teardown(debug_stop \o base, X \cup {One("msgr")})
           /\ Lacks(X, {"dev"}) /\ One("inst") \in X =>
                /\ Does(dev_init, base, X, X \cup {One("dev")})
                /\ Teardown(dev_destroy \o base, X \cup {One("dev")})
           /\ Lacks(X, {"sch"}) /\ {One("dev"), One("srf")} \subseteq X =>
                /\ Does(sch_init, base, X, X \cup {One("sch")})
                /\ Teardown(sch_destroy \o base, X \cup {One("sch")})
           /\ Lacks(X, {"rpass"}) /\ One("dev") \in X =>
                /\ Does(rpass_init, base, X, X \cup {One("rpass")})
                /\ Teardown(rpass_destroy \o base, X \cup {One("rpass")})
<1>1. ASSUME NEW k, Lacks(X, {k}), Needs(One(k)) \subseteq X, NEW call
      PROVE  /\ Does(<<Make(call, One(k), <<>>)>>, base, X, X \cup {One(k)})
             /\ Teardown(<<One(k)>> \o base, X \cup {One(k)})
  <2>1. One(k) \notin X
    BY <1>1, Lacking
  <2> QED
    BY <1>1, <2>1, Begins
<1>2. \A call : Does(<<Get(call, <<>>)>>, base, X, X)
  BY Begins
<1>3. /\ Needs(One("srf")) = {One("inst"), One("win")} /\ Needs(One("msgr")) = {One("inst")}
      /\ Needs(One("dev")) = {One("inst")} /\ Needs(One("sch")) = {One("dev"), One("srf")}
      /\ Needs(One("rpass")) = {One("dev")}
  BY NeedsOne
<1>4. ASSUME Lacks(X, {"srf"}) /\ {One("inst"), One("win")} \subseteq X
      PROVE  /\ Does(srf_init, base, X, X \cup {One("srf")})
             /\ Teardown(srf_destroy \o base, X \cup {One("srf")})
  BY <1>1, <1>3, <1>4 DEF srf_init, srf_destroy
<1>5. ASSUME Lacks(X, {"msgr"}) /\ One("inst") \in X
      PROVE  /\ Does(debug_start, base, X, X \cup {One("msgr")})
             /\ Teardown(debug_stop \o base, X \cup {One("msgr")})
  BY <1>1, <1>3, <1>5 DEF debug_start, debug_stop
<1>6. ASSUME Lacks(X, {"dev"}) /\ One("inst") \in X
      PROVE  /\ Does(dev_init, base, X, X \cup {One("dev")})
             /\ Teardown(dev_destroy \o base, X \cup {One("dev")})
  BY <1>1, <1>3, <1>6 DEF dev_init, dev_destroy
<1>7. ASSUME Lacks(X, {"sch"}) /\ {One("dev"), One("srf")} \subseteq X
      PROVE  /\ Does(sch_init, base, X, X \cup {One("sch")})
             /\ Teardown(sch_destroy \o base, X \cup {One("sch")})
  BY <1>1, <1>2, <1>3, <1>7, DoesTwo DEF sch_init, sch_destroy
<1>8. ASSUME Lacks(X, {"rpass"}) /\ One("dev") \in X
      PROVE  /\ Does(rpass_init, base, X, X \cup {One("rpass")})
             /\ Teardown(rpass_destroy \o base, X \cup {One("rpass")})
  BY <1>1, <1>3, <1>8 DEF rpass_init, rpass_destroy
<1> QED
  BY <1>4, <1>5, <1>6, <1>7, <1>8

LEMMA TrianglePipeInit ==
    ASSUME NEW base, NEW X, Teardown(base, X), Lacks(X, {"layout", "pipe"}),
           {One("dev"), One("rpass")} \subseteq X
    PROVE  /\ Does(triangle_pipe_init, base, X, X \cup {One("layout"), One("pipe")})
           /\ Teardown(triangle_pipe_destroy \o base, X \cup {One("layout"), One("pipe")})
<1> DEFINE l == One("layout")
           p == One("pipe")
           Y == X \cup {l}
<1>1. /\ l \notin X /\ p \notin X /\ l # p /\ Needs(l) \subseteq X
      /\ Needs(p) \subseteq X \cup {l}
  BY Lacking, NeedsOne
<1> HIDE DEF l, p
<1>2. /\ Does(<<Make("vkCreatePipelineLayout", l, <<>>)>>, base, X, Y)
      /\ Teardown(<<l>> \o base, Y)
  BY <1>1, Begins
<1>3. Does(<<Make("vkCreateGraphicsPipelines", p, <<l>>)>>, base, Y, Y \cup {p})
  BY <1>1, <1>2, DoesMake, Literals
<1>4. Y \cup {p} = X \cup {l, p}
  OBVIOUS
<1>5. Teardown(<<p, l>> \o base, X \cup {l, p})
  BY <1>1, TeardownTwo
<1> QED
  BY <1>2, <1>3, <1>4, <1>5, DoesTwo DEF triangle_pipe_init, triangle_pipe_destroy, l, p

\* What undoes the first i of an array, and then tail.
LEMMA ArrayUndo ==
    ASSUME NEW base, NEW tail, IsSeq(base), IsSeq(tail), NEW Y, Teardown(tail \o base, Y),
           NEW k, NEW n \in Nat,
           \A i \in 1 .. n : <<k, i>> \notin Y /\ Needs(<<k, i>>) \subseteq Y,
           NEW i \in 0 .. n
    PROVE  /\ IsSeq(Each(k, i)) /\ IsSeq(Down(k, i))
           /\ IsSeq(Each(k, i) \o tail) /\ IsSeq(Down(k, i) \o tail)
           /\ Teardown((Each(k, i) \o tail) \o base, Y \cup All(k, i))
           /\ Teardown((Down(k, i) \o tail) \o base, Y \cup All(k, i))
<1>1. i \in Nat /\ \A j \in 1 .. i : j \in 1 .. n
  OBVIOUS
<1>2. IsSeq(Each(k, i)) /\ IsSeq(Down(k, i))
  BY <1>1, Arrays DEF IsSeq
<1>3. \A j \in 1 .. i : <<k, j>> \notin Y /\ Needs(<<k, j>>) \subseteq Y
  BY <1>1
<1>4. /\ Teardown(Each(k, i) \o (tail \o base), Y \cup All(k, i))
      /\ Teardown(Down(k, i) \o (tail \o base), Y \cup All(k, i))
  BY <1>1, <1>3, TeardownArray
<1>5. /\ IsSeq(Each(k, i) \o tail)
      /\ (Each(k, i) \o tail) \o base = Each(k, i) \o (tail \o base)
  BY <1>2, Linked
<1>6. /\ IsSeq(Down(k, i) \o tail)
      /\ (Down(k, i) \o tail) \o base = Down(k, i) \o (tail \o base)
  BY <1>2, Linked
<1> QED
  BY <1>2, <1>4, <1>5, <1>6

LEMMA Excepts ==
    ASSUME NEW c, NEW m, NEW f, NEW u, NEW k, NEW p, NEW v, NEW s,
           s = [call |-> c, makes |-> m, frees |-> f, undo |-> u, checked |-> k, spins |-> p]
    PROVE  /\ [s EXCEPT !.checked = v] = [call |-> c, makes |-> m, frees |-> f, undo |-> u,
                                          checked |-> v, spins |-> p]
           /\ [s EXCEPT !.spins = v] = [call |-> c, makes |-> m, frees |-> f, undo |-> u,
                                        checked |-> k, spins |-> v]
  OBVIOUS

LEMMA ImgInit ==
    ASSUME NEW base, NEW X, Teardown(base, X), Lacks(X, {"imgs", "views", "view"}),
           {One("dev"), One("sch")} \subseteq X
    PROVE  LET Y == X \cup {One("imgs"), One("views")} \cup All("view", NImgs) IN
           Does(img_init, base, X, Y) /\ Teardown(img_destroy \o base, Y)
<1> DEFINE m == One("imgs")
           v == One("views")
           Xm == X \cup {m}
           Xv == X \cup {m, v}
           Y == Xv \cup All("view", NImgs)
           tail == <<v, m>>
           a == Get("vkGetSwapchainImagesKHR", <<>>)
           b == Make("malloc", m, <<>>)
           c == Get("vkGetSwapchainImagesKHR", <<m>>)
           d == [Make("calloc", v, <<>>) EXCEPT !.checked = FALSE]
           undo == [i \in 1 .. NImgs |-> Each("view", i - 1) \o tail]
           t == [i \in 1 .. NImgs |->
                    Make("vkCreateImageView", <<"view", i>>, Each("view", i - 1) \o tail)]
<1>1. /\ m \notin X /\ v \notin X /\ m # v /\ Needs(m) = {} /\ Needs(v) = {}
      /\ NImgs \in Nat \ {0} /\ IsSeq(tail) /\ IsSeq(base)
  BY Lacking, NeedsNothing, SizesAssumption, Literals, TeardownIsSeq
<1>2. \A i \in 1 .. NImgs : <<"view", i>> \notin Xv /\ Needs(<<"view", i>>) \subseteq Xv
  BY NeedsEach, Lacking
<1>3. Holder(<<"view", 1>>) = {v}
  BY Zenon DEF Holder, One
<1> HIDE DEF m, v
<1>4. Does(<<a>>, base, X, X) /\ Does(<<b>>, base, X, Xm) /\ Teardown(<<m>> \o base, Xm)
  BY <1>1, Begins
<1>5. Does(<<c>>, base, Xm, Xm)
  BY <1>4, DoesGet, Literals
<1>6. Does(<<a, b, c>>, base, X, Xm)
  <2> HIDE DEF a, b, c, Xm
  <2> QED
    BY <1>4, <1>5, DoesTwo, DoesThree
<1>7. Teardown(tail \o base, Xv) /\ Closed(Xv)
  BY <1>1, TeardownTwo, TeardownClosed
<1>8. \A i \in 0 .. NImgs :
        /\ IsSeq(Each("view", i) \o tail)
        /\ Teardown((Each("view", i) \o tail) \o base, Xv \cup All("view", i))
  <2> HIDE DEF tail, Xv
  <2> QED
    BY <1>1, <1>2, <1>7, ArrayUndo
<1>9. Does(t, base, Xv, Y) /\ Len(t) = NImgs
  <2>1. \A i \in 1 .. NImgs : i - 1 \in 0 .. NImgs
    BY <1>1
  <2>2. \A i \in 1 .. NImgs : undo[i] = Each("view", i - 1) \o tail
    OBVIOUS
  <2> HIDE DEF undo
  <2>3. /\ \A i \in 1 .. NImgs : t[i] = Make("vkCreateImageView", <<"view", i>>, undo[i])
        /\ t \in [1 .. NImgs -> {t[i] : i \in 1 .. NImgs}]
    BY <2>2
  <2> HIDE DEF tail, Xv, t
  <2>4. \A i \in 1 .. NImgs :
            /\ <<"view", i>> \notin Xv /\ Needs(<<"view", i>>) \subseteq Xv
            /\ IsSeq(undo[i]) /\ Teardown(undo[i] \o base, Xv \cup All("view", i - 1))
    BY <1>2, <1>8, <2>1, <2>2
  <2>5. NImgs \in Nat
    BY <1>1
  <2>6. IsSeq(t) /\ Len(t) = NImgs
    BY <2>3, <2>5, LoopIsSeq
  <2> QED
    BY <1>7, <2>3, <2>4, <2>5, <2>6, DoesMakes
<1>10. IsSeq(t) /\ t[1].makes = {<<"view", 1>>} /\ t[1].frees = {}
  <2>1. 1 \in 1 .. NImgs
    BY <1>1
  <2>2. t[1].makes = {<<"view", 1>>} /\ t[1].frees = {}
    BY <2>1 DEF Make, Step
  <2> HIDE DEF t
  <2> QED
    BY <1>9, <2>2 DEF Does, Runs, IsSeq
<1>11. /\ IsStep(d) /\ d.makes = {v} /\ d.frees = {} /\ d.undo = <<>> /\ d.call = "calloc"
       /\ d.checked = FALSE
  <2> DEFINE s == Make("calloc", v, <<>>)
             yes == TRUE
             no == FALSE
  <2>1. s = [call |-> "calloc", makes |-> {v}, frees |-> {}, undo |-> <<>>,
             checked |-> yes, spins |-> no]
    BY DEF Make, Step
  <2>2. d = [s EXCEPT !.checked = no]
    OBVIOUS
  <2> HIDE DEF s, yes, no, d
  <2>3. d = [call |-> "calloc", makes |-> {v}, frees |-> {}, undo |-> <<>>,
             checked |-> no, spins |-> no]
    BY <2>1, <2>2, Excepts
  <2>4. /\ IsStep(d) /\ d.makes = {v} /\ d.frees = {} /\ d.undo = <<>> /\ d.call = "calloc"
        /\ d.checked = no
    BY <2>3 DEF IsStep
  <2> QED
    BY <2>4 DEF no
<1> HIDE DEF d, t
<1>12. Passes(d, base, Xm, Xv)
  <2>1. base \in Seq(X) /\ <<>> \o base = base
    BY TeardownIsSeq
  <2>2. d.undo \o base \in Seq(Xm)
    BY <1>11, <2>1, SeqMonotonic
  <2>3. v \notin Xm /\ Xv = Xm \cup {v}
    BY <1>1
  <2> HIDE DEF Xm, Xv
  <2> QED
    BY <1>1, <1>7, <1>11, <2>2, <2>3 DEF Passes
<1>13. Does(<<d>> \o t, base, Xm, Y)
  <2> HIDE DEF Xm, Xv, Y
  <2>1. Fills(t[1], d)
    BY <1>3, <1>10, <1>11 DEF Fills
  <2>2. Len(t) \in Nat \ {0} /\ IsStep(d) /\ IsSeq(d.undo)
    BY <1>1, <1>9, <1>11, Literals
  <2> QED
    BY <1>9, <1>12, <2>1, <2>2, DoesUnchecked
<1>14. <<a, b, c, d>> \o t = <<a, b, c>> \o (<<d>> \o t)
  <2> HIDE DEF a, b, c
  <2>1. <<a, b, c, d>> = <<a, b, c>> \o <<d>>
    OBVIOUS
  <2>2. IsSeq(<<a, b, c>>)
    <3>1. <<a, b, c>> \in Seq({a, b, c})
      OBVIOUS
    <3> QED
      BY <3>1 DEF IsSeq
  <2> QED
    BY <1>10, <2>1, <2>2, Literals, Linked
<1>15. Does(<<a, b, c, d>> \o t, base, X, Y)
  <2> HIDE DEF a, b, c, Xm, Y
  <2> QED
    BY <1>6, <1>13, <1>14, DoesThen
<1>16. Teardown((Each("view", NImgs) \o tail) \o base, Y)
  <2>1. NImgs \in 0 .. NImgs
    BY <1>1
  <2> QED
    BY <1>8, <2>1
<1> QED
  BY <1>15, <1>16 DEF img_init, img_destroy, d, t, m, v

LEMMA ShadersInit ==
    ASSUME NEW base, NEW X, Teardown(base, X), Lacks(X, {"mods", "stages", "mod"}),
           One("dev") \in X
    PROVE  LET Y == X \cup {One("mods"), One("stages")} \cup All("mod", NShaders) IN
           Does(shaders_init, base, X, Y) /\ Teardown(shaders_destroy \o base, Y)
<1> DEFINE m == One("mods")
           g == One("stages")
           Xm == X \cup {m}
           Xg == X \cup {m, g}
           Y == Xg \cup All("mod", NShaders)
           tail == <<g, m>>
           undo == [i \in 1 .. NShaders |-> Down("mod", i - 1) \o tail]
           t == [i \in 1 .. NShaders |->
                    Make("vkCreateShaderModule", <<"mod", i>>, Down("mod", i - 1) \o tail)]
<1>1. /\ m \notin X /\ g \notin X /\ m # g /\ Needs(m) = {} /\ Needs(g) = {}
      /\ NShaders \in Nat /\ IsSeq(tail) /\ IsSeq(base)
  BY Lacking, NeedsNothing, SizesAssumption, Literals, TeardownIsSeq
<1>2. \A i \in 1 .. NShaders : <<"mod", i>> \notin Xg /\ Needs(<<"mod", i>>) \subseteq Xg
  BY NeedsEach, Lacking
<1> HIDE DEF m, g
<1>3. Does(<<Make("malloc", m, <<>>)>>, base, X, Xm) /\ Teardown(<<m>> \o base, Xm)
  BY <1>1, Begins
<1>4. Xm \cup {g} = Xg /\ g \notin Xm
  BY <1>1
<1>5. Does(<<Make("malloc", g, <<m>>)>>, base, Xm, Xg)
  BY <1>1, <1>3, <1>4, DoesMake, Literals
<1>6. Teardown(tail \o base, Xg) /\ Closed(Xg)
  BY <1>1, TeardownTwo, TeardownClosed
<1>7. \A i \in 0 .. NShaders :
        /\ IsSeq(Down("mod", i) \o tail)
        /\ Teardown((Down("mod", i) \o tail) \o base, Xg \cup All("mod", i))
        /\ Teardown((Each("mod", i) \o tail) \o base, Xg \cup All("mod", i))
  <2> HIDE DEF tail, Xg
  <2> QED
    BY <1>1, <1>2, <1>6, ArrayUndo
<1>8. Does(t, base, Xg, Y)
  <2>1. \A i \in 1 .. NShaders : i - 1 \in 0 .. NShaders
    BY <1>1
  <2>2. \A i \in 1 .. NShaders : undo[i] = Down("mod", i - 1) \o tail
    OBVIOUS
  <2> HIDE DEF undo
  <2>3. /\ \A i \in 1 .. NShaders : t[i] = Make("vkCreateShaderModule", <<"mod", i>>, undo[i])
        /\ t \in [1 .. NShaders -> {t[i] : i \in 1 .. NShaders}]
    BY <2>2
  <2> HIDE DEF tail, Xg, t
  <2>4. \A i \in 1 .. NShaders :
            /\ <<"mod", i>> \notin Xg /\ Needs(<<"mod", i>>) \subseteq Xg
            /\ IsSeq(undo[i]) /\ Teardown(undo[i] \o base, Xg \cup All("mod", i - 1))
    BY <1>2, <1>7, <2>1, <2>2
  <2>5. IsSeq(t) /\ Len(t) = NShaders
    BY <1>1, <2>3, LoopIsSeq
  <2> QED
    BY <1>1, <1>6, <2>3, <2>4, <2>5, DoesMakes
<1>9. Does(<<Make("malloc", m, <<>>), Make("malloc", g, <<m>>)>>, base, X, Xg)
  <2> HIDE DEF Xm, Xg
  <2> QED
    BY <1>3, <1>5, DoesTwo
<1>10. Teardown((Each("mod", NShaders) \o tail) \o base, Y)
  <2>1. NShaders \in 0 .. NShaders
    BY <1>1
  <2> QED
    BY <1>7, <2>1
<1>11. Does(<<Make("malloc", m, <<>>), Make("malloc", g, <<m>>)>> \o t, base, X, Y)
  <2> HIDE DEF Xm, Xg, Y, t
  <2> QED
    BY <1>8, <1>9, DoesThen
<1> QED
  BY <1>10, <1>11 DEF shaders_init, shaders_destroy, m, g

LEMMA FramesInit ==
    ASSUME NEW base, NEW X, Teardown(base, X), Lacks(X, {"frames", "frame"}),
           One("rpass") \in X, All("view", NImgs) \subseteq X
    PROVE  LET Y == X \cup {One("frames")} \cup All("frame", NImgs) IN
           Does(frames_init, base, X, Y) /\ Teardown(frames_destroy \o base, Y)
<1> DEFINE m == One("frames")
           Xm == X \cup {m}
           Y == Xm \cup All("frame", NImgs)
           t == [i \in 1 .. NImgs |->
                    [Make("vkCreateFramebuffer", <<"frame", i>>, <<m>>) EXCEPT !.spins = i > 1]]
<1>1. /\ m \notin X /\ Needs(m) = {} /\ NImgs \in Nat /\ IsSeq(<<m>>) /\ IsSeq(base)
  BY Lacking, NeedsNothing, SizesAssumption, Literals, TeardownIsSeq
<1>2. \A i \in 1 .. NImgs : <<"frame", i>> \notin Xm /\ Needs(<<"frame", i>>) \subseteq Xm
  <2>1. \A i \in 1 .. NImgs : <<"view", i>> \in X
    BY DEF All
  <2> QED
    BY <2>1, NeedsEach, Lacking
<1> HIDE DEF m
<1>3. /\ Does(<<Make("malloc", m, <<>>)>>, base, X, Xm) /\ Teardown(<<m>> \o base, Xm)
      /\ Closed(Xm)
  BY <1>1, Begins
<1>4. \A i \in 0 .. NImgs : Teardown((Each("frame", i) \o <<m>>) \o base, Xm \cup All("frame", i))
  <2> HIDE DEF Xm
  <2> QED
    BY <1>1, <1>2, <1>3, ArrayUndo
<1>5. IsSeq(t) /\ Len(t) = NImgs
  <2>1. t \in [1 .. NImgs -> {t[i] : i \in 1 .. NImgs}]
    OBVIOUS
  <2> HIDE DEF t
  <2> QED
    BY <1>1, <2>1, LoopIsSeq
<1>6. ASSUME NEW i \in 1 .. NImgs
      PROVE  /\ IsStep(t[i]) /\ t[i].undo = <<m>> /\ t[i].checked
             /\ t[i].makes = {<<"frame", i>>} /\ t[i].frees = {}
             /\ ~t[i].spins => i = 1
  <2> DEFINE s == Make("vkCreateFramebuffer", <<"frame", i>>, <<m>>)
             yes == TRUE
             no == FALSE
             more == i > 1
  <2>1. s = [call |-> "vkCreateFramebuffer", makes |-> {<<"frame", i>>}, frees |-> {},
             undo |-> <<m>>, checked |-> yes, spins |-> no]
    BY DEF Make, Step
  <2>2. t[i] = [s EXCEPT !.spins = more]
    OBVIOUS
  <2> HIDE DEF s, yes, no, more, t
  <2>3. t[i] = [call |-> "vkCreateFramebuffer", makes |-> {<<"frame", i>>}, frees |-> {},
                undo |-> <<m>>, checked |-> yes, spins |-> more]
    BY <2>1, <2>2, Excepts
  <2>4. /\ IsStep(t[i]) /\ t[i].undo = <<m>> /\ t[i].checked = yes
        /\ t[i].makes = {<<"frame", i>>} /\ t[i].frees = {} /\ t[i].spins = more
    BY <2>3 DEF IsStep
  <2>5. ~more => i = 1
    BY DEF more
  <2> QED
    BY <2>4, <2>5 DEF yes
<1> HIDE DEF t
<1>7. ASSUME NEW i \in 1 .. NImgs
      PROVE  /\ t[i].undo \o base \in Seq(Xm \cup All("frame", i - 1))
             /\ ~t[i].spins => Teardown(t[i].undo \o base, Xm \cup All("frame", i - 1))
  <2>1. <<m>> \o base \in Seq(Xm)
    BY <1>3, TeardownIsSeq
  <2>2. <<m>> \o base \in Seq(Xm \cup All("frame", i - 1))
    <3> HIDE DEF Xm
    <3>1. Xm \subseteq Xm \cup All("frame", i - 1)
      OBVIOUS
    <3> QED
      BY <2>1, <3>1, SeqMonotonic
  <2>3. i = 1 => Xm \cup All("frame", i - 1) = Xm
    BY DEF All
  <2> HIDE DEF Xm
  <2> QED
    BY <1>3, <1>6, <2>2, <2>3
<1>8. Does(t, base, Xm, Y)
  <2> HIDE DEF Xm
  <2> QED
    BY <1>1, <1>2, <1>3, <1>5, <1>6, <1>7, DoesArray
<1>9. Does(<<Make("malloc", m, <<>>)>> \o t, base, X, Y)
  <2> HIDE DEF Xm, Y
  <2> QED
    BY <1>3, <1>8, DoesThen
<1>10. Teardown((Each("frame", NImgs) \o <<m>>) \o base, Y)
  <2>1. NImgs \in 0 .. NImgs
    BY <1>1
  <2> QED
    BY <1>4, <2>1
<1> QED
  BY <1>9, <1>10 DEF frames_init, frames_destroy, m, t

LEMMA PoolsInit ==
    ASSUME NEW base, NEW X, Teardown(base, X), Lacks(X, {"pool"}), One("dev") \in X
    PROVE  LET Y == X \cup All("pool", NPools) IN
           Does(pools_init, base, X, Y) /\ Teardown(pools_destroy \o base, Y)
<1> DEFINE t == pools_init
           undo == [i \in 1 .. NPools |-> Down("pool", i - 1)]
<1>1. NPools \in Nat /\ Closed(X)
  BY SizesAssumption, TeardownClosed
<1>2. \A i : <<"pool", i>> \notin X /\ Needs(<<"pool", i>>) \subseteq X
  BY NeedsEach, Lacking
<1>3. ASSUME NEW i \in Nat
      PROVE  /\ IsSeq(Down("pool", i)) /\ Teardown(Down("pool", i) \o base, X \cup All("pool", i))
             /\ Teardown(Each("pool", i) \o base, X \cup All("pool", i))
  BY <1>2, TeardownArray, Arrays DEF IsSeq
<1>4. /\ \A i \in 1 .. NPools : t[i] = Make("vkCreateCommandPool", <<"pool", i>>, undo[i])
      /\ t \in [1 .. NPools -> {t[i] : i \in 1 .. NPools}]
  BY DEF pools_init
<1>5. \A i \in 1 .. NPools : undo[i] = Down("pool", i - 1) /\ i - 1 \in Nat
  OBVIOUS
<1> HIDE DEF t, undo
<1>6. IsSeq(t) /\ Len(t) = NPools
  BY <1>1, <1>4, LoopIsSeq
<1>7. \A i \in 1 .. NPools :
        /\ <<"pool", i>> \notin X /\ Needs(<<"pool", i>>) \subseteq X
        /\ IsSeq(undo[i]) /\ Teardown(undo[i] \o base, X \cup All("pool", i - 1))
  BY <1>2, <1>3, <1>5
<1>8. Does(t, base, X, X \cup All("pool", NPools))
  BY <1>1, <1>4, <1>6, <1>7, DoesMakes
<1> QED
  BY <1>1, <1>3, <1>8 DEF pools_destroy, t

LEMMA PoolsSet == ToSet(pools_destroy) = All("pool", NPools)
<1>1. /\ NPools \in Nat /\ DOMAIN pools_destroy = 1 .. NPools
      /\ \A i \in 1 .. NPools : pools_destroy[i] = <<"pool", i>>
  BY SizesAssumption, Arrays DEF pools_destroy
<1> HIDE DEF pools_destroy
<1> QED
  BY <1>1 DEF ToSet, All

LEMMA TriangleCmdsInit ==
    ASSUME NEW base, NEW X, Teardown(base, X), Lacks(X, {"bufs", "cmds"}),
           One("pipe") \in X, All("pool", NPools) \subseteq X
    PROVE  /\ Does(triangle_cmds_init, base, X, X \cup {One("bufs"), One("cmds")})
           /\ Teardown(triangle_cmds_destroy \o base, X \cup {One("bufs"), One("cmds")})
<1> DEFINE b == One("bufs")
           c == One("cmds")
           Xb == X \cup {b}
           Y == X \cup {b, c}
           tail == <<c, b>>
           two == <<Get("vkBeginCommandBuffer", tail), Get("vkEndCommandBuffer", tail)>>
<1>1. /\ b \notin X /\ c \notin X /\ b # c /\ Needs(b) = {} /\ Needs(c) \subseteq X \cup {b}
      /\ NImgs \in Nat
  BY Lacking, NeedsNothing, NeedsOne, PoolsSet, SizesAssumption
<1> HIDE DEF b, c
<1>2. Does(<<Make("malloc", b, <<>>)>>, base, X, Xb) /\ Teardown(<<b>> \o base, Xb)
  BY <1>1, Begins
<1>3. c \notin Xb /\ Xb \cup {c} = Y /\ Needs(c) \subseteq Xb
  BY <1>1
<1>4. Teardown(tail \o base, Y) /\ IsSeq(tail)
  BY <1>1, TeardownTwo, Literals
<1> HIDE DEF Xb, Y, tail
<1>5. Does(<<Make("vkAllocateCommandBuffers", c, <<b>>)>>, base, Xb, Y)
  BY <1>2, <1>3, DoesMake, Literals
<1>6. Does(two, base, Y, Y)
  BY <1>4, DoesGet, DoesTwo
<1> HIDE DEF two
<1>7. Does(Repeat(NImgs, two), base, Y, Y)
  BY <1>1, <1>6, DoesRepeat
<1>8. Does(<<Make("malloc", b, <<>>), Make("vkAllocateCommandBuffers", c, <<b>>)>>, base, X, Y)
  BY <1>2, <1>5, DoesTwo
<1>9. Does(<<Make("malloc", b, <<>>), Make("vkAllocateCommandBuffers", c, <<b>>)>>
             \o Repeat(NImgs, two), base, X, Y)
  BY <1>7, <1>8, DoesThen
<1> QED
  BY <1>4, <1>9 DEF triangle_cmds_init, triangle_cmds_destroy, two, tail, b, c, Y

\* One of sync_init's arrays.
LEMMA DoesSync ==
    ASSUME NEW base, NEW tail, NEW X, IsSeq(base), IsSeq(tail), Teardown(tail \o base, X),
           NEW k, NEW call, NEW t,
           \A i \in 1 .. NImgs : /\ <<k, i>> \notin X /\ Needs(<<k, i>>) \subseteq X
                                 /\ t[i] = Make(call, <<k, i>>, Down(k, i - 1) \o tail),
           IsSeq(t), Len(t) = NImgs
    PROVE  /\ Does(t, base, X, X \cup All(k, NImgs))
           /\ IsSeq(Down(k, NImgs) \o tail)
           /\ Teardown((Down(k, NImgs) \o tail) \o base, X \cup All(k, NImgs))
<1> DEFINE undo == [i \in 1 .. NImgs |-> Down(k, i - 1) \o tail]
<1>1. NImgs \in Nat /\ Closed(X)
  BY SizesAssumption, TeardownClosed
<1>2. \A i \in 0 .. NImgs : /\ IsSeq(Down(k, i) \o tail)
                            /\ Teardown((Down(k, i) \o tail) \o base, X \cup All(k, i))
  BY <1>1, ArrayUndo
<1>3. \A i \in 1 .. NImgs : undo[i] = Down(k, i - 1) \o tail /\ i - 1 \in 0 .. NImgs
  BY <1>1
<1>4. NImgs \in 0 .. NImgs
  BY <1>1
<1> HIDE DEF undo
<1>5. \A i \in 1 .. NImgs :
        /\ <<k, i>> \notin X /\ Needs(<<k, i>>) \subseteq X
        /\ IsSeq(undo[i]) /\ Teardown(undo[i] \o base, X \cup All(k, i - 1))
  BY <1>2, <1>3
<1>6. \A i \in 1 .. NImgs : t[i] = Make(call, <<k, i>>, undo[i])
  BY <1>3
<1>7. Does(t, base, X, X \cup All(k, NImgs))
  BY <1>1, <1>5, <1>6, DoesMakes
<1> QED
  BY <1>2, <1>4, <1>7

LEMMA SyncInit ==
    ASSUME NEW base, NEW X, Teardown(base, X), One("dev") \in X,
           Lacks(X, {"grps", "obj_f", "obj_s", "grp", "fence", "sem"})
    PROVE  LET Y == X \cup {One("grps"), One("obj_f"), One("obj_s")}
                      \cup All("grp", NImgs) \cup All("fence", NImgs) \cup All("sem", NImgs) IN
           Does(sync_init, base, X, Y) /\ Teardown(sync_destroy \o base, Y)
<1> DEFINE g == One("grps")
           f == One("obj_f")
           s == One("obj_s")
           Xg == X \cup {g}
           Xf == X \cup {g, f}
           A == X \cup {g, f, s}
           G == A \cup All("grp", NImgs)
           F == G \cup All("fence", NImgs)
           Y == F \cup All("sem", NImgs)
           t0 == <<s>> \o <<f, g>>
           t1 == Down("grp", NImgs) \o t0
           t2 == Down("fence", NImgs) \o t1
           grp == [i \in 1 .. NImgs |->
                        Make("vkCreateSemaphore", <<"grp", i>>, Down("grp", i - 1) \o t0)]
           fence == [i \in 1 .. NImgs |->
                        Make("vkCreateFence", <<"fence", i>>,
                             Down("fence", i - 1) \o Down("grp", NImgs) \o t0)]
           sem == [i \in 1 .. NImgs |->
                        Make("vkCreateSemaphore", <<"sem", i>>,
                             Down("sem", i - 1) \o Down("fence", NImgs)
                                 \o Down("grp", NImgs) \o t0)]
<1>1. /\ g \notin X /\ f \notin X /\ s \notin X /\ g # f /\ g # s /\ f # s
      /\ Needs(g) = {} /\ Needs(f) = {} /\ Needs(s) = {}
      /\ NImgs \in Nat /\ IsSeq(base)
  BY Lacking, NeedsNothing, SizesAssumption, TeardownIsSeq
<1>2. \A i : /\ <<"grp", i>> \notin A /\ Needs(<<"grp", i>>) \subseteq A
             /\ <<"fence", i>> \notin A /\ Needs(<<"fence", i>>) \subseteq A
             /\ <<"sem", i>> \notin A /\ Needs(<<"sem", i>>) \subseteq A
  BY NeedsEach, Lacking
<1>3. \A i : /\ <<"fence", i>> \notin G /\ Needs(<<"fence", i>>) \subseteq G
             /\ <<"sem", i>> \notin F /\ Needs(<<"sem", i>>) \subseteq F
  BY <1>2 DEF All
<1> HIDE DEF g, f, s
<1>4. Does(<<Make("malloc", g, <<>>)>>, base, X, Xg) /\ Teardown(<<g>> \o base, Xg)
  BY <1>1, Begins
<1>5. f \notin Xg /\ Xg \cup {f} = Xf /\ s \notin Xf /\ Xf \cup {s} = A
  BY <1>1
<1>6. Teardown(<<f, g>> \o base, Xf) /\ IsSeq(<<f, g>>)
  BY <1>1, TeardownTwo, Literals
<1>7. Teardown(t0 \o base, A) /\ IsSeq(t0)
  <2>1. Teardown(<<s>> \o (<<f, g>> \o base), Xf \cup {s})
    <3> HIDE DEF Xf
    <3> QED
      BY <1>1, <1>5, <1>6, TeardownOne
  <2>2. t0 \o base = <<s>> \o (<<f, g>> \o base) /\ IsSeq(t0)
    BY <1>1, <1>6, Linked, Literals
  <2> QED
    BY <1>5, <2>1, <2>2
<1> HIDE DEF Xg, Xf, A, t0
<1>8. Does(<<Make("malloc", f, <<g>>)>>, base, Xg, Xf)
  BY <1>1, <1>4, <1>5, DoesMake, Literals
<1>9. Does(<<Make("malloc", s, <<f, g>>)>>, base, Xf, A)
  BY <1>1, <1>5, <1>6, DoesMake
<1>10. Does(<<Make("malloc", g, <<>>), Make("malloc", f, <<g>>), Make("malloc", s, <<f, g>>)>>,
            base, X, A)
  BY <1>4, <1>8, <1>9, DoesTwo, DoesThree
<1>11. /\ Does(grp, base, A, G) /\ IsSeq(t1) /\ Teardown(t1 \o base, G)
  <2>1. /\ \A i \in 1 .. NImgs :
            grp[i] = Make("vkCreateSemaphore", <<"grp", i>>, Down("grp", i - 1) \o t0)
        /\ grp \in [1 .. NImgs -> {grp[i] : i \in 1 .. NImgs}]
    OBVIOUS
  <2> HIDE DEF grp
  <2>2. IsSeq(grp) /\ Len(grp) = NImgs
    BY <1>1, <2>1, LoopIsSeq
  <2>3. /\ Does(grp, base, A, A \cup All("grp", NImgs))
        /\ IsSeq(Down("grp", NImgs) \o t0)
        /\ Teardown((Down("grp", NImgs) \o t0) \o base, A \cup All("grp", NImgs))
    BY <1>1, <1>2, <1>7, <2>1, <2>2, DoesSync
  <2> QED
    BY <2>3
<1>12. \A k, i : i \in Nat => IsSeq(Down(k, i))
  BY Arrays DEF IsSeq
<1>13. \A i \in 1 .. NImgs : i - 1 \in Nat
  OBVIOUS
<1>14. /\ Does(fence, base, G, F) /\ IsSeq(t2) /\ Teardown(t2 \o base, F)
  <2>1. /\ \A i \in 1 .. NImgs :
            fence[i] = Make("vkCreateFence", <<"fence", i>>,
                            Down("fence", i - 1) \o Down("grp", NImgs) \o t0)
        /\ fence \in [1 .. NImgs -> {fence[i] : i \in 1 .. NImgs}]
    OBVIOUS
  <2> HIDE DEF fence
  <2>2. ASSUME NEW i \in 1 .. NImgs
        PROVE  Down("fence", i - 1) \o Down("grp", NImgs) \o t0 = Down("fence", i - 1) \o t1
    BY <1>1, <1>7, <1>12, <1>13, Linked
  <2>3. \A i \in 1 .. NImgs :
            fence[i] = Make("vkCreateFence", <<"fence", i>>, Down("fence", i - 1) \o t1)
    BY <2>1, <2>2
  <2>4. IsSeq(fence) /\ Len(fence) = NImgs
    BY <1>1, <2>1, LoopIsSeq
  <2> HIDE DEF t1, G
  <2>5. /\ Does(fence, base, G, G \cup All("fence", NImgs))
        /\ IsSeq(Down("fence", NImgs) \o t1)
        /\ Teardown((Down("fence", NImgs) \o t1) \o base, G \cup All("fence", NImgs))
    BY <1>1, <1>3, <1>11, <2>3, <2>4, DoesSync
  <2> QED
    BY <2>5
<1>15. Does(sem, base, F, Y)
  <2>1. /\ \A i \in 1 .. NImgs :
            sem[i] = Make("vkCreateSemaphore", <<"sem", i>>,
                          Down("sem", i - 1) \o Down("fence", NImgs) \o Down("grp", NImgs) \o t0)
        /\ sem \in [1 .. NImgs -> {sem[i] : i \in 1 .. NImgs}]
    OBVIOUS
  <2> HIDE DEF sem
  <2>2. ASSUME NEW i \in 1 .. NImgs
        PROVE  Down("sem", i - 1) \o Down("fence", NImgs) \o Down("grp", NImgs) \o t0
                    = Down("sem", i - 1) \o t2
    <3> DEFINE a == Down("sem", i - 1)
               b == Down("fence", NImgs)
               c == Down("grp", NImgs)
    <3>1. IsSeq(a) /\ IsSeq(b) /\ IsSeq(c)
      BY <1>1, <1>12, <1>13
    <3>2. t2 = b \o (c \o t0)
      OBVIOUS
    <3> HIDE DEF a, b, c, t2
    <3>3. IsSeq(a \o b) /\ IsSeq(c \o t0)
      BY <1>7, <3>1, Linked
    <3>4. ((a \o b) \o c) \o t0 = (a \o b) \o (c \o t0)
      BY <1>7, <3>1, <3>3, Linked
    <3>5. (a \o b) \o (c \o t0) = a \o (b \o (c \o t0))
      BY <3>1, <3>3, Linked
    <3> QED
      BY <3>2, <3>4, <3>5 DEF a, b, c
  <2>3. \A i \in 1 .. NImgs :
            sem[i] = Make("vkCreateSemaphore", <<"sem", i>>, Down("sem", i - 1) \o t2)
    BY <2>1, <2>2
  <2>4. IsSeq(sem) /\ Len(sem) = NImgs
    BY <1>1, <2>1, LoopIsSeq
  <2> HIDE DEF t2, F
  <2> QED
    BY <1>1, <1>3, <1>14, <2>3, <2>4, DoesSync
<1> HIDE DEF grp, fence, sem, G, F, Y
<1>16. Does(<<Make("malloc", g, <<>>), Make("malloc", f, <<g>>), Make("malloc", s, <<f, g>>)>>
              \o grp \o fence \o sem, base, X, Y)
  BY <1>10, <1>11, <1>14, <1>15, DoesThen
<1>17. Teardown((Each("sem", NImgs) \o Each("fence", NImgs) \o Each("grp", NImgs) \o t0) \o base, Y)
  <2> DEFINE a == Each("sem", NImgs)
             b == Each("fence", NImgs)
             c == Each("grp", NImgs)
  <2>1. IsSeq(a) /\ IsSeq(b) /\ IsSeq(c)
    BY <1>1, Arrays DEF IsSeq
  <2>2. Teardown(c \o (t0 \o base), G)
    BY <1>1, <1>2, <1>7, TeardownArray DEF G
  <2>3. Teardown(b \o (c \o (t0 \o base)), F)
    BY <1>1, <1>3, <2>2, TeardownArray DEF F
  <2>4. Teardown(a \o (b \o (c \o (t0 \o base))), Y)
    BY <1>1, <1>3, <2>3, TeardownArray DEF Y
  <2> HIDE DEF a, b, c
  <2>5. IsSeq(t0 \o base) /\ IsSeq(a \o b) /\ IsSeq((a \o b) \o c)
    BY <1>1, <1>7, <2>1, Linked
  <2>6. (((a \o b) \o c) \o t0) \o base = ((a \o b) \o c) \o (t0 \o base)
    BY <1>1, <1>7, <2>5, Linked
  <2>7. ((a \o b) \o c) \o (t0 \o base) = (a \o b) \o (c \o (t0 \o base))
    BY <2>1, <2>5, Linked
  <2>8. IsSeq(c \o (t0 \o base))
    BY <2>1, <2>5, Linked
  <2>9. (a \o b) \o (c \o (t0 \o base)) = a \o (b \o (c \o (t0 \o base)))
    BY <2>1, <2>8, Linked
  <2> QED
    BY <2>4, <2>6, <2>7, <2>9 DEF a, b, c
<1>18. t0 = <<s, f, g>>
  BY PutFirst DEF t0
<1>19. sync_destroy = Each("sem", NImgs) \o Each("fence", NImgs) \o Each("grp", NImgs) \o t0
  BY <1>18 DEF sync_destroy, g, f, s
<1>20. sync_init =
        <<Make("malloc", g, <<>>), Make("malloc", f, <<g>>), Make("malloc", s, <<f, g>>)>>
            \o grp \o fence \o sem
  BY DEF sync_init, grp, fence, sem, t0, g, f, s, err_free_obj_f, err_free_grp_sems
<1> QED
  BY <1>16, <1>17, <1>19, <1>20 DEF Y, F, G, A, g, f, s

-----------------------------------------------------------------------------
(* graph_init and graph_destroy.                                           *)

LEMMA LacksMore ==
    ASSUME NEW X, NEW K, Lacks(X, K)
    PROVE  /\ Lacks({}, K)
           /\ \A k : k \notin K => /\ Lacks(X \cup {One(k)}, K)
                                   /\ \A n : Lacks(X \cup All(k, n), K)
           /\ \A k, j : k \notin K /\ j \notin K => Lacks(X \cup {One(k), One(j)}, K)
           /\ \A J : J \subseteq K => Lacks(X, J)
  BY DEF Lacks, One, All

LEMMA DestroysAreSeqs ==
    /\ IsSeq(win_close) /\ IsSeq(inst_destroy) /\ IsSeq(debug_stop) /\ IsSeq(srf_destroy)
    /\ IsSeq(dev_destroy) /\ IsSeq(sch_destroy) /\ IsSeq(img_destroy) /\ IsSeq(shaders_destroy)
    /\ IsSeq(rpass_destroy) /\ IsSeq(triangle_pipe_destroy) /\ IsSeq(frames_destroy)
    /\ IsSeq(pools_destroy) /\ IsSeq(triangle_cmds_destroy) /\ IsSeq(sync_destroy)
<1>1. /\ IsSeq(win_close) /\ IsSeq(inst_destroy) /\ IsSeq(debug_stop) /\ IsSeq(srf_destroy)
      /\ IsSeq(dev_destroy) /\ IsSeq(sch_destroy) /\ IsSeq(rpass_destroy)
      /\ IsSeq(triangle_pipe_destroy) /\ IsSeq(triangle_cmds_destroy)
  BY Literals DEF win_close, inst_destroy, debug_stop, srf_destroy, dev_destroy, sch_destroy,
                  rpass_destroy, triangle_pipe_destroy, triangle_cmds_destroy
<1>2. \A k : \A n \in Nat : IsSeq(Each(k, n))
  BY Arrays DEF IsSeq
<1>3. NImgs \in Nat /\ NShaders \in Nat /\ NPools \in Nat
  BY SizesAssumption
<1>4. \A s, t : IsSeq(s) /\ IsSeq(t) => IsSeq(s \o t)
  BY Linked
<1>5. IsSeq(img_destroy) /\ IsSeq(shaders_destroy) /\ IsSeq(frames_destroy) /\ IsSeq(pools_destroy)
  BY <1>2, <1>3, <1>4, Literals DEF img_destroy, shaders_destroy, frames_destroy, pools_destroy
<1>6. IsSeq(sync_destroy)
  <2>1. ASSUME NEW a, NEW b, NEW c PROVE IsSeq(<<a, b, c>>)
    <3>1. <<a>> \o <<b, c>> = <<a, b, c>>
      BY PutFirst
    <3>2. IsSeq(<<a>> \o <<b, c>>)
      BY <1>4, Literals
    <3> QED
      BY <3>1, <3>2
  <2> QED
    BY <1>2, <1>3, <1>4, <2>1 DEF sync_destroy
<1> QED
  BY <1>1, <1>5, <1>6

\* A function of graph_init's, with the label that its failure goes to.
LEMMA Stays ==
    ASSUME NEW f, NEW after, NEW X, NEW Y, IsSeq(after), Does(f, after, X, Y)
    PROVE  Does(Within(f, after), <<>>, X, Y)
<1>1. after \o <<>> = after /\ IsSeq(<<>>)
  BY Linked, Literals
<1> QED
  BY <1>1, DoesWithin


\* Up to img_init.
LEMMA Earlier ==
    \E X : /\ Teardown(err_free_img, X) /\ All("view", NImgs) \subseteq X /\ One("dev") \in X
           /\ Lacks(X, {"mods", "stages", "mod", "rpass", "layout", "pipe", "frames", "frame",
                        "pool", "bufs", "cmds", "grps", "obj_f", "obj_s", "grp", "fence", "sem"})
           /\ Does(<<Make("malloc", One("g"), <<>>)>>
                   \o Within(win_open,    err_free_g)
                   \o Within(inst_create, err_close_win)
                   \o Within(debug_start, err_free_inst)
                   \o Within(srf_init,    err_stop_debug)
                   \o Within(select_pdev, err_free_srf)
                   \o Within(dev_init,    err_free_srf)
                   \o Within(sch_init,    err_free_dev)
                   \o Within(img_init,    err_free_sch), <<>>, {}, X)
<1> DEFINE S1 == {} \cup {One("g")}
           S2 == S1 \cup {One("glfw"), One("win")}
           S3 == S2 \cup {One("inst")}
           S4 == S3 \cup {One("msgr")}
           S5 == S4 \cup {One("srf")}
           S6 == S5 \cup {One("dev")}
           S7 == S6 \cup {One("sch")}
           S8 == S7 \cup {One("imgs"), One("views")} \cup All("view", NImgs)
           L8 == {"mods", "stages", "mod", "rpass", "layout", "pipe", "frames", "frame",
                  "pool", "bufs", "cmds", "grps", "obj_f", "obj_s", "grp", "fence", "sem"}
           L1 == {"names", "iter", "layers", "exts", "props", "set", "glfw", "win", "inst",
                  "msgr", "srf", "devs", "fmts", "modes", "fams", "dev", "sch", "imgs", "views",
                  "view"}

<1>1. /\ One("inst") \in S3 /\ One("inst") \in S5
      /\ {One("inst"), One("win")} \subseteq S4
      /\ {One("dev"), One("srf")} \subseteq S6 /\ {One("dev"), One("sch")} \subseteq S7
  OBVIOUS
<1>2. /\ Lacks(S1, {"glfw", "win"}) /\ Lacks(S3, {"msgr"}) /\ Lacks(S4, {"srf"})
      /\ Lacks(S2, {"names", "iter", "layers", "exts", "props", "set", "inst"})
      /\ Lacks(S5, {"devs", "props", "set", "fmts", "modes", "fams"})
      /\ Lacks(S5, {"dev"}) /\ Lacks(S6, {"sch"}) /\ Lacks(S7, {"imgs", "views", "view"})
  BY DEF Lacks, One
<1>3. Lacks(S8, L8)
  <2>1. Lacks(S7, L8)
    BY DEF Lacks, One
  <2>2. Lacks(S7 \cup {One("imgs"), One("views")}, L8)
    <3> HIDE DEF S7
    <3> QED
      BY <2>1, LacksMore
  <2> HIDE DEF S7
  <2> QED
    BY <2>2, LacksMore
<1>4. All("view", NImgs) \subseteq S8 /\ One("dev") \in S8
  OBVIOUS
<1> HIDE DEF L8
<1>5. One("g") \notin {} /\ Needs(One("g")) \subseteq {} /\ Teardown(<<>>, {})
  BY NeedsNothing, TeardownNone
<1>6. /\ Does(<<Make("malloc", One("g"), <<>>)>>, <<>>, {}, S1)
      /\ Teardown(<<One("g")>>, S1)
  <2>1. Teardown(<<One("g")>> \o <<>>, S1) /\ <<One("g")>> \o <<>> = <<One("g")>>
    BY <1>5, Begins, Linked, Literals
  <2> QED
    BY <1>5, <2>1, Begins

<1> DEFINE p0 == <<Make("malloc", One("g"), <<>>)>>
           p1 == p0 \o Within(win_open, err_free_g)
           p2 == p1 \o Within(inst_create, err_close_win)
           p3 == p2 \o Within(debug_start, err_free_inst)
           p4 == p3 \o Within(srf_init, err_stop_debug)
           p5 == p4 \o Within(select_pdev, err_free_srf)
           p6 == p5 \o Within(dev_init, err_free_srf)
           p7 == p6 \o Within(sch_init, err_free_dev)
           p8 == p7 \o Within(img_init, err_free_sch)
<1>7. Teardown(err_free_g, S1)
  BY <1>6 DEF err_free_g
<1>8. Does(win_open, err_free_g, S1, S2) /\ Teardown(err_close_win, S2)
  <2>1. Does(win_open, err_free_g, S1, S2) /\ Teardown(win_close \o err_free_g, S2)
    <3> HIDE DEF S1
    <3> QED
      BY <1>2, <1>7, WinOpen
  <2> QED
    BY <2>1 DEF err_close_win
<1>9. Does(inst_create, err_close_win, S2, S3) /\ Teardown(err_free_inst, S3)
  <2>1. Does(inst_create, err_close_win, S2, S3) /\ Teardown(inst_destroy \o err_close_win, S3)
    <3> HIDE DEF S2
    <3> QED
      BY <1>2, <1>8, InstCreate
  <2> QED
    BY <2>1 DEF err_free_inst
<1>10. Does(debug_start, err_free_inst, S3, S4) /\ Teardown(err_stop_debug, S4)
  <2>1. Does(debug_start, err_free_inst, S3, S4) /\ Teardown(debug_stop \o err_free_inst, S4)
    <3> HIDE DEF S3
    <3> QED
      BY <1>1, <1>2, <1>9, OneEach
  <2> QED
    BY <2>1 DEF err_stop_debug
<1>11. Does(srf_init, err_stop_debug, S4, S5) /\ Teardown(err_free_srf, S5)
  <2>1. Does(srf_init, err_stop_debug, S4, S5) /\ Teardown(srf_destroy \o err_stop_debug, S5)
    <3> HIDE DEF S4
    <3> QED
      BY <1>1, <1>2, <1>10, OneEach
  <2> QED
    BY <2>1 DEF err_free_srf
<1>12. Does(select_pdev, err_free_srf, S5, S5)
  <2> HIDE DEF S5
  <2> QED
    BY <1>2, <1>11, SelectPdev
<1>13. Does(dev_init, err_free_srf, S5, S6) /\ Teardown(err_free_dev, S6)
  <2>1. Does(dev_init, err_free_srf, S5, S6) /\ Teardown(dev_destroy \o err_free_srf, S6)
    <3> HIDE DEF S5
    <3> QED
      BY <1>1, <1>2, <1>11, OneEach
  <2> QED
    BY <2>1 DEF err_free_dev
<1>14. Does(sch_init, err_free_dev, S6, S7) /\ Teardown(err_free_sch, S7)
  <2>1. Does(sch_init, err_free_dev, S6, S7) /\ Teardown(sch_destroy \o err_free_dev, S7)
    <3> HIDE DEF S6
    <3> QED
      BY <1>1, <1>2, <1>13, OneEach
  <2> QED
    BY <2>1 DEF err_free_sch
<1>15. Does(img_init, err_free_sch, S7, S8) /\ Teardown(err_free_img, S8)
  <2>1. Does(img_init, err_free_sch, S7, S8) /\ Teardown(img_destroy \o err_free_sch, S8)
    <3> HIDE DEF S7
    <3> QED
      BY <1>1, <1>2, <1>14, ImgInit
  <2> QED
    BY <2>1 DEF err_free_img
<1> HIDE DEF S1, S2, S3, S4, S5, S6, S7, S8
<1>16. Does(p0, <<>>, {}, S1)
  BY <1>6
<1> HIDE DEF p0, p1, p2, p3, p4, p5, p6, p7, p8
<1>17. Does(p1, <<>>, {}, S2)
  <2>1. IsSeq(err_free_g)
    BY <1>7, TeardownIsSeq
  <2>2. Does(Within(win_open, err_free_g), <<>>, S1, S2)
    BY <1>8, <2>1, Stays
  <2> QED
    BY <1>16, <2>2, DoesThen DEF p1
<1>18. Does(p2, <<>>, {}, S3)
  <2>1. IsSeq(err_close_win)
    BY <1>8, TeardownIsSeq
  <2>2. Does(Within(inst_create, err_close_win), <<>>, S2, S3)
    BY <1>9, <2>1, Stays
  <2> QED
    BY <1>17, <2>2, DoesThen DEF p2
<1>19. Does(p3, <<>>, {}, S4)
  <2>1. IsSeq(err_free_inst)
    BY <1>9, TeardownIsSeq
  <2>2. Does(Within(debug_start, err_free_inst), <<>>, S3, S4)
    BY <1>10, <2>1, Stays
  <2> QED
    BY <1>18, <2>2, DoesThen DEF p3
<1>20. Does(p4, <<>>, {}, S5)
  <2>1. IsSeq(err_stop_debug)
    BY <1>10, TeardownIsSeq
  <2>2. Does(Within(srf_init, err_stop_debug), <<>>, S4, S5)
    BY <1>11, <2>1, Stays
  <2> QED
    BY <1>19, <2>2, DoesThen DEF p4
<1>21. Does(p5, <<>>, {}, S5)
  <2>1. IsSeq(err_free_srf)
    BY <1>11, TeardownIsSeq
  <2>2. Does(Within(select_pdev, err_free_srf), <<>>, S5, S5)
    BY <1>12, <2>1, Stays
  <2> QED
    BY <1>20, <2>2, DoesThen DEF p5
<1>22. Does(p6, <<>>, {}, S6)
  <2>1. IsSeq(err_free_srf)
    BY <1>11, TeardownIsSeq
  <2>2. Does(Within(dev_init, err_free_srf), <<>>, S5, S6)
    BY <1>13, <2>1, Stays
  <2> QED
    BY <1>21, <2>2, DoesThen DEF p6
<1>23. Does(p7, <<>>, {}, S7)
  <2>1. IsSeq(err_free_dev)
    BY <1>13, TeardownIsSeq
  <2>2. Does(Within(sch_init, err_free_dev), <<>>, S6, S7)
    BY <1>14, <2>1, Stays
  <2> QED
    BY <1>22, <2>2, DoesThen DEF p7
<1>24. Does(p8, <<>>, {}, S8)
  <2>1. IsSeq(err_free_sch)
    BY <1>14, TeardownIsSeq
  <2>2. Does(Within(img_init, err_free_sch), <<>>, S7, S8)
    BY <1>15, <2>1, Stays
  <2> QED
    BY <1>23, <2>2, DoesThen DEF p8
<1> QED
  BY <1>3, <1>4, <1>15, <1>24
     DEF L8, p0, p1, p2, p3, p4, p5, p6, p7, p8

\* What is created from rpass_init on.
Rest ==
    {One("rpass"), One("layout"), One("pipe"), One("frames"), One("bufs"), One("cmds"),
     One("grps"), One("obj_f"), One("obj_s")}
    \cup All("frame", NImgs) \cup All("pool", NPools)
    \cup All("grp", NImgs) \cup All("fence", NImgs) \cup All("sem", NImgs)

\* From rpass_init on, whether or not the shaders are still there.
LEMMA Later ==
    ASSUME NEW base, NEW X, Teardown(base, X), One("dev") \in X, All("view", NImgs) \subseteq X,
           Lacks(X, {"rpass", "layout", "pipe", "frames", "frame", "pool", "bufs", "cmds",
                     "grps", "obj_f", "obj_s", "grp", "fence", "sem"})
    PROVE
    LET b1 == rpass_destroy \o base
        b2 == triangle_pipe_destroy \o b1
        b3 == frames_destroy \o b2
        b4 == pools_destroy \o b3
        b5 == triangle_cmds_destroy \o b4
    IN  /\ Teardown(sync_destroy \o b5, X \cup Rest)
        /\ \A before, W : Does(before, <<>>, W, X) =>
                Does(before \o Within(rpass_init,         base)
                            \o Within(triangle_pipe_init, b1)
                            \o Within(frames_init,        b2)
                            \o Within(pools_init,         b3)
                            \o Within(triangle_cmds_init, b4)
                            \o Within(sync_init,          b5), <<>>, W, X \cup Rest)
<1> DEFINE R == X \cup {One("rpass")}
           P == R \cup {One("layout"), One("pipe")}
           F == P \cup {One("frames")} \cup All("frame", NImgs)
           Q == F \cup All("pool", NPools)
           C == Q \cup {One("bufs"), One("cmds")}
           Z == C \cup {One("grps"), One("obj_f"), One("obj_s")}
                  \cup All("grp", NImgs) \cup All("fence", NImgs) \cup All("sem", NImgs)
           b1 == rpass_destroy \o base
           b2 == triangle_pipe_destroy \o b1
           b3 == frames_destroy \o b2
           b4 == pools_destroy \o b3
           b5 == triangle_cmds_destroy \o b4
<1>1. /\ {One("dev"), One("rpass")} \subseteq R /\ One("rpass") \in P
      /\ All("view", NImgs) \subseteq P /\ One("dev") \in F /\ One("pipe") \in Q
      /\ All("pool", NPools) \subseteq Q /\ One("dev") \in C
  OBVIOUS
<1>2. /\ Lacks(X, {"rpass"}) /\ Lacks(R, {"layout", "pipe"}) /\ Lacks(P, {"frames", "frame"})
      /\ Lacks(F, {"pool"}) /\ Lacks(Q, {"bufs", "cmds"})
      /\ Lacks(C, {"grps", "obj_f", "obj_s", "grp", "fence", "sem"})
  BY DEF Lacks, One, All
<1>3. Does(rpass_init, base, X, R) /\ Teardown(b1, R)
  BY <1>2, OneEach
<1>4. Does(triangle_pipe_init, b1, R, P) /\ Teardown(b2, P)
  <2> HIDE DEF R, b1
  <2> QED
    BY <1>3, <1>1, <1>2, TrianglePipeInit
<1>5. Does(frames_init, b2, P, F) /\ Teardown(b3, F)
  <2> HIDE DEF P, b2
  <2> QED
    BY <1>4, <1>1, <1>2, FramesInit
<1>6. Does(pools_init, b3, F, Q) /\ Teardown(b4, Q)
  <2> HIDE DEF F, b3
  <2> QED
    BY <1>5, <1>1, <1>2, PoolsInit
<1>7. Does(triangle_cmds_init, b4, Q, C) /\ Teardown(b5, C)
  <2> HIDE DEF Q, b4
  <2> QED
    BY <1>6, <1>1, <1>2, TriangleCmdsInit
<1>8. Does(sync_init, b5, C, Z) /\ Teardown(sync_destroy \o b5, Z)
  <2> HIDE DEF C, b5
  <2> QED
    BY <1>7, <1>1, <1>2, SyncInit
<1>9. Z = X \cup Rest
  BY DEF Rest
<1> HIDE DEF R, P, F, Q, C, Z
<1>10. IsSeq(base) /\ IsSeq(b1) /\ IsSeq(b2) /\ IsSeq(b3) /\ IsSeq(b4) /\ IsSeq(b5)
  BY <1>3, <1>4, <1>5, <1>6, <1>7, TeardownIsSeq
<1> HIDE DEF b1, b2, b3, b4, b5
<1>11. ASSUME NEW before, NEW W, Does(before, <<>>, W, X)
      PROVE  Does(before \o Within(rpass_init, base)
                         \o Within(triangle_pipe_init, b1)
                         \o Within(frames_init, b2)
                         \o Within(pools_init, b3)
                         \o Within(triangle_cmds_init, b4)
                         \o Within(sync_init, b5), <<>>, W, Z)
  <2> DEFINE p0 == before
             p1 == p0 \o Within(rpass_init, base)
             p2 == p1 \o Within(triangle_pipe_init, b1)
             p3 == p2 \o Within(frames_init, b2)
             p4 == p3 \o Within(pools_init, b3)
             p5 == p4 \o Within(triangle_cmds_init, b4)
             p6 == p5 \o Within(sync_init, b5)
  <2>1. Does(p0, <<>>, W, X)
    BY <1>11
  <2> HIDE DEF p0, p1, p2, p3, p4, p5, p6
  <2>2. Does(p1, <<>>, W, R)
    <3>1. Does(Within(rpass_init, base), <<>>, X, R)
      BY <1>3, <1>10, Stays
    <3> QED
      BY <2>1, <3>1, DoesThen DEF p1
  <2>3. Does(p2, <<>>, W, P)
    <3>1. Does(Within(triangle_pipe_init, b1), <<>>, R, P)
      BY <1>4, <1>10, Stays
    <3> QED
      BY <2>2, <3>1, DoesThen DEF p2
  <2>4. Does(p3, <<>>, W, F)
    <3>1. Does(Within(frames_init, b2), <<>>, P, F)
      BY <1>5, <1>10, Stays
    <3> QED
      BY <2>3, <3>1, DoesThen DEF p3
  <2>5. Does(p4, <<>>, W, Q)
    <3>1. Does(Within(pools_init, b3), <<>>, F, Q)
      BY <1>6, <1>10, Stays
    <3> QED
      BY <2>4, <3>1, DoesThen DEF p4
  <2>6. Does(p5, <<>>, W, C)
    <3>1. Does(Within(triangle_cmds_init, b4), <<>>, Q, C)
      BY <1>7, <1>10, Stays
    <3> QED
      BY <2>5, <3>1, DoesThen DEF p5
  <2>7. Does(p6, <<>>, W, Z)
    <3>1. Does(Within(sync_init, b5), <<>>, C, Z)
      BY <1>8, <1>10, Stays
    <3> QED
      BY <2>6, <3>1, DoesThen DEF p6
  <2> QED
    BY <2>7 DEF p0, p1, p2, p3, p4, p5, p6
<1> QED
  BY <1>8, <1>9, <1>11 DEF b1, b2, b3, b4, b5

\* graph_destroy, taken apart from its end.
LEMMA Destroying ==
    graph_destroy = sync_destroy \o (triangle_cmds_destroy \o (pools_destroy \o (frames_destroy
                        \o (triangle_pipe_destroy \o (rpass_destroy \o err_free_img)))))
<1> DEFINE a1 == sync_destroy
           a2 == a1 \o triangle_cmds_destroy
           a3 == a2 \o pools_destroy
           a4 == a3 \o frames_destroy
           a5 == a4 \o triangle_pipe_destroy
           a6 == a5 \o rpass_destroy
           a7 == a6 \o img_destroy
           a8 == a7 \o sch_destroy
           a9 == a8 \o dev_destroy
           a10 == a9 \o srf_destroy
           a11 == a10 \o debug_stop
           a12 == a11 \o inst_destroy
           a13 == a12 \o win_close
           r14 == err_free_g
           r13 == win_close \o r14
           r12 == inst_destroy \o r13
           r11 == debug_stop \o r12
           r10 == srf_destroy \o r11
           r9 == dev_destroy \o r10
           r8 == sch_destroy \o r9
           r7 == img_destroy \o r8
           r6 == rpass_destroy \o r7
           r5 == triangle_pipe_destroy \o r6
           r4 == frames_destroy \o r5
           r3 == pools_destroy \o r4
           r2 == triangle_cmds_destroy \o r3
<1>1. graph_destroy = a13 \o r14
  BY DEF graph_destroy, err_free_g
<1>2. IsSeq(r14)
  BY Literals DEF err_free_g
<1>3. err_free_img = r7
  BY DEF err_free_img, err_free_sch, err_free_dev, err_free_srf, err_stop_debug, err_free_inst,
         err_close_win
<1> HIDE DEF a1, a2, a3, a4, a5, a6, a7, a8, a9, a10, a11, a12, a13,
            r2, r3, r4, r5, r6, r7, r8, r9, r10, r11, r12, r13, r14
<1>4. IsSeq(a1)
  BY DestroysAreSeqs DEF a1
<1>5. IsSeq(a2)
  BY <1>4, DestroysAreSeqs, Linked DEF a2
<1>6. IsSeq(a3)
  BY <1>5, DestroysAreSeqs, Linked DEF a3
<1>7. IsSeq(a4)
  BY <1>6, DestroysAreSeqs, Linked DEF a4
<1>8. IsSeq(a5)
  BY <1>7, DestroysAreSeqs, Linked DEF a5
<1>9. IsSeq(a6)
  BY <1>8, DestroysAreSeqs, Linked DEF a6
<1>10. IsSeq(a7)
  BY <1>9, DestroysAreSeqs, Linked DEF a7
<1>11. IsSeq(a8)
  BY <1>10, DestroysAreSeqs, Linked DEF a8
<1>12. IsSeq(a9)
  BY <1>11, DestroysAreSeqs, Linked DEF a9
<1>13. IsSeq(a10)
  BY <1>12, DestroysAreSeqs, Linked DEF a10
<1>14. IsSeq(a11)
  BY <1>13, DestroysAreSeqs, Linked DEF a11
<1>15. IsSeq(a12)
  BY <1>14, DestroysAreSeqs, Linked DEF a12
<1>16. a12 \o r13 = a13 \o r14 /\ IsSeq(r13)
  BY <1>15, <1>2, DestroysAreSeqs, Linked DEF a13, r13
<1>17. a11 \o r12 = a12 \o r13 /\ IsSeq(r12)
  BY <1>14, <1>16, DestroysAreSeqs, Linked DEF a12, r12
<1>18. a10 \o r11 = a11 \o r12 /\ IsSeq(r11)
  BY <1>13, <1>17, DestroysAreSeqs, Linked DEF a11, r11
<1>19. a9 \o r10 = a10 \o r11 /\ IsSeq(r10)
  BY <1>12, <1>18, DestroysAreSeqs, Linked DEF a10, r10
<1>20. a8 \o r9 = a9 \o r10 /\ IsSeq(r9)
  BY <1>11, <1>19, DestroysAreSeqs, Linked DEF a9, r9
<1>21. a7 \o r8 = a8 \o r9 /\ IsSeq(r8)
  BY <1>10, <1>20, DestroysAreSeqs, Linked DEF a8, r8
<1>22. a6 \o r7 = a7 \o r8 /\ IsSeq(r7)
  BY <1>9, <1>21, DestroysAreSeqs, Linked DEF a7, r7
<1>23. a5 \o r6 = a6 \o r7 /\ IsSeq(r6)
  BY <1>8, <1>22, DestroysAreSeqs, Linked DEF a6, r6
<1>24. a4 \o r5 = a5 \o r6 /\ IsSeq(r5)
  BY <1>7, <1>23, DestroysAreSeqs, Linked DEF a5, r5
<1>25. a3 \o r4 = a4 \o r5 /\ IsSeq(r4)
  BY <1>6, <1>24, DestroysAreSeqs, Linked DEF a4, r4
<1>26. a2 \o r3 = a3 \o r4 /\ IsSeq(r3)
  BY <1>5, <1>25, DestroysAreSeqs, Linked DEF a3, r3
<1>27. a1 \o r2 = a2 \o r3 /\ IsSeq(r2)
  BY <1>4, <1>26, DestroysAreSeqs, Linked DEF a2, r2
<1> QED
  BY <1>1, <1>3, <1>16, <1>17, <1>18, <1>19, <1>20, <1>21, <1>22, <1>23, <1>24, <1>25, <1>26, <1>27 DEF a1, r2, r3, r4, r5, r6

\* graph_init leads from nothing to what graph_destroy destroys.
LEMMA Graph ==
    /\ Does(graph_init, <<>>, {}, ToSet(graph_destroy))
    /\ Teardown(graph_destroy, ToSet(graph_destroy))
<1>1. PICK X :
        /\ Teardown(err_free_img, X) /\ All("view", NImgs) \subseteq X /\ One("dev") \in X
        /\ Lacks(X, {"mods", "stages", "mod", "rpass", "layout", "pipe", "frames", "frame",
                     "pool", "bufs", "cmds", "grps", "obj_f", "obj_s", "grp", "fence", "sem"})
        /\ Does(<<Make("malloc", One("g"), <<>>)>>
                \o Within(win_open,    err_free_g)
                \o Within(inst_create, err_close_win)
                \o Within(debug_start, err_free_inst)
                \o Within(srf_init,    err_stop_debug)
                \o Within(select_pdev, err_free_srf)
                \o Within(dev_init,    err_free_srf)
                \o Within(sch_init,    err_free_dev)
                \o Within(img_init,    err_free_sch), <<>>, {}, X)
  BY Earlier
<1> DEFINE Shaders == {One("mods"), One("stages")} \cup All("mod", NShaders)
           Y == X \cup Shaders
           Z == X \cup Rest
           later == {"rpass", "layout", "pipe", "frames", "frame", "pool", "bufs", "cmds",
                     "grps", "obj_f", "obj_s", "grp", "fence", "sem"}
           p8 == <<Make("malloc", One("g"), <<>>)>>
                     \o Within(win_open,    err_free_g)
                     \o Within(inst_create, err_close_win)
                     \o Within(debug_start, err_free_inst)
                     \o Within(srf_init,    err_stop_debug)
                     \o Within(select_pdev, err_free_srf)
                     \o Within(dev_init,    err_free_srf)
                     \o Within(sch_init,    err_free_dev)
                     \o Within(img_init,    err_free_sch)
           p9 == p8 \o Within(shaders_init, err_free_img)
           p15 == p9 \o Within(rpass_init,         err_free_shaders)
                     \o Within(triangle_pipe_init, err_free_rpass)
                     \o Within(frames_init,        err_free_pipe)
                     \o Within(pools_init,         err_free_frames)
                     \o Within(triangle_cmds_init, err_free_pools)
                     \o Within(sync_init,          err_free_tri_cmds)
<1>2. Does(p8, <<>>, {}, X)
  BY <1>1
<1>3. graph_init = p15 \o Frees(shaders_destroy)
  BY DEF graph_init
<1> HIDE DEF p8, p15
<1>4. Does(shaders_init, err_free_img, X, Y) /\ Teardown(err_free_shaders, Y)
  <2>1. Lacks(X, {"mods", "stages", "mod"})
    BY <1>1, LacksMore
  <2>2. X \cup {One("mods"), One("stages")} \cup All("mod", NShaders) = Y
    OBVIOUS
  <2> QED
    BY <1>1, <2>1, <2>2, ShadersInit DEF err_free_shaders
<1>5. Does(p9, <<>>, {}, Y)
  <2>1. IsSeq(err_free_img)
    BY <1>1, TeardownIsSeq
  <2>2. Does(Within(shaders_init, err_free_img), <<>>, X, Y)
    BY <1>4, <2>1, Stays
  <2> HIDE DEF Y
  <2> QED
    BY <1>2, <2>2, DoesThen
<1>6. Lacks(X, later) /\ Lacks(Y, later)
  <2>1. Lacks(X, later)
    BY <1>1, LacksMore
  <2>2. Lacks(Y, later)
    BY <2>1 DEF Lacks, One, All
  <2> QED
    BY <2>1, <2>2
<1>7. All("view", NImgs) \subseteq Y /\ One("dev") \in Y /\ One("dev") \in Z
  BY <1>1
<1>8. Does(p15, <<>>, {}, Y \cup Rest)
  <2> HIDE DEF Y, p9
  <2>1. /\ err_free_rpass = rpass_destroy \o err_free_shaders
        /\ err_free_pipe = triangle_pipe_destroy \o err_free_rpass
        /\ err_free_frames = frames_destroy \o err_free_pipe
        /\ err_free_pools = pools_destroy \o err_free_frames
        /\ err_free_tri_cmds = triangle_cmds_destroy \o err_free_pools
    BY DEF err_free_rpass, err_free_pipe, err_free_frames, err_free_pools, err_free_tri_cmds
  <2>2. \A before, W : Does(before, <<>>, W, Y) =>
                Does(before \o Within(rpass_init,         err_free_shaders)
                            \o Within(triangle_pipe_init, err_free_rpass)
                            \o Within(frames_init,        err_free_pipe)
                            \o Within(pools_init,         err_free_frames)
                            \o Within(triangle_cmds_init, err_free_pools)
                            \o Within(sync_init,          err_free_tri_cmds), <<>>, W, Y \cup Rest)
    BY <1>4, <1>6, <1>7, <2>1, Later
  <2> QED
    BY <1>5, <2>2 DEF p15
<1>9. Teardown(graph_destroy, Z)
  <2>1. Teardown(sync_destroy \o (triangle_cmds_destroy \o (pools_destroy \o (frames_destroy
                    \o (triangle_pipe_destroy \o (rpass_destroy \o err_free_img))))), X \cup Rest)
    BY <1>1, <1>6, Later
  <2> QED
    BY <2>1, Destroying
<1>10. Teardown(shaders_destroy \o graph_destroy, Y \cup Rest)
  <2>1. Lacks(Z, {"mods", "stages", "mod"})
    <3>1. Lacks(X, {"mods", "stages", "mod"})
      BY <1>1, LacksMore
    <3> QED
      BY <3>1 DEF Lacks, One, All, Rest
  <2>2. Z \cup {One("mods"), One("stages")} \cup All("mod", NShaders) = Y \cup Rest
    OBVIOUS
  <2> HIDE DEF Z
  <2> QED
    BY <1>7, <1>9, <2>1, <2>2, ShadersInit
<1> HIDE DEF Y, Z
<1>11. Does(Frees(shaders_destroy), <<>>, Y \cup Rest, Z)
  BY <1>9, <1>10, DestroysAreSeqs, DoesFrees
<1>12. Does(graph_init, <<>>, {}, Z)
  BY <1>3, <1>8, <1>11, DoesThen
<1>13. Z = ToSet(graph_destroy)
  <2>1. graph_destroy \in Seq(Z) /\ \A o \in Z : \E i \in DOMAIN graph_destroy : graph_destroy[i] = o
    BY <1>9 DEF Teardown
  <2>2. \A i \in DOMAIN graph_destroy : graph_destroy[i] \in Z
    BY <2>1, LenProperties, ElementOfSeq
  <2> HIDE DEF graph_destroy
  <2> QED
    BY <2>1, <2>2 DEF ToSet
<1> QED
  BY <1>9, <1>12, <1>13

-----------------------------------------------------------------------------
(* The steps of graph_init, and the invariant.                             *)

LEMMA Trace ==
    /\ Len(graph_init) \in Nat /\ DOMAIN graph_init = 1 .. Len(graph_init)
    /\ LiveAt[1] = {} /\ LiveAt[Len(graph_init) + 1] = ToSet(graph_destroy)
    /\ \A i \in 1 .. Len(graph_init) :
            /\ Passes(graph_init[i], <<>>, LiveAt[i], LiveAt[i + 1])
            /\ graph_init[i].undo \o <<>> = graph_init[i].undo
            /\ ~graph_init[i].checked =>
                /\ i + 1 \in 1 .. Len(graph_init)
                /\ Fills(graph_init[i + 1], graph_init[i])
<1>1. Does(graph_init, <<>>, {}, ToSet(graph_destroy))
  BY Graph
<1> HIDE DEF graph_init, graph_destroy
<1>2. PICK S : graph_init \in Seq(S) /\ \A s \in S : IsStep(s) /\ IsSeq(s.undo)
  BY <1>1 DEF Does, Runs
<1>3. \E L : Traces(graph_init, <<>>, {}, ToSet(graph_destroy), L)
  BY <1>1 DEF Does, Runs
<1>4. Traces(graph_init, <<>>, {}, ToSet(graph_destroy), LiveAt)
  BY <1>3 DEF LiveAt
<1>5. /\ Len(graph_init) \in Nat /\ DOMAIN graph_init = 1 .. Len(graph_init)
      /\ \A i \in 1 .. Len(graph_init) : graph_init[i] \in S
  BY <1>2, LenProperties, ElementOfSeq
<1>6. Careful(graph_init)
  BY <1>1 DEF Does
<1>7. \A i \in 1 .. Len(graph_init) : graph_init[i].undo \o <<>> = graph_init[i].undo
  <2>1. SUFFICES ASSUME NEW i \in 1 .. Len(graph_init)
                 PROVE  graph_init[i].undo \o <<>> = graph_init[i].undo
    OBVIOUS
  <2>2. IsSeq(graph_init[i].undo)
    BY <1>2, <1>5
  <2>3. \A v : IsSeq(v) => v \o <<>> = v
    BY Linked, Literals
  <2> QED
    BY <2>2, <2>3
<1> QED
  BY <1>4, <1>5, <1>6, <1>7 DEF Traces, Careful

\* While graph_init runs, what exists is what should, unless the array of what
\* comes next is missing; and that is noticed, too late.
LEMMA Noticed ==
    ASSUME IInv, Pending
    PROVE  /\ next \in 1 .. Len(graph_init)
           /\ Faults \/ live = LiveAt[next]
           /\ graph_init[next].frees \subseteq live /\ graph_init[next].makes \cap live = {}
           /\ "calloc" \notin MayFail /\ live = LiveAt[next] => ~Faults
<1> DEFINE s == graph_init[next]
           p == graph_init[next - 1]
<1>1. next \in 1 .. Len(graph_init) /\ InStep
  BY Trace DEF IInv, TypeOK, Pending
<1>2. Passes(s, <<>>, LiveAt[next], LiveAt[next + 1])
  BY <1>1, Trace
<1>3. /\ s.makes \cap LiveAt[next] = {} /\ s.frees \subseteq LiveAt[next]
      /\ \A o \in s.makes : Needs(o) \subseteq LiveAt[next]
  BY <1>2 DEF Passes
<1>4. CASE live = LiveAt[next]
  <2>1. ~Faults
    <3>1. \A o \in s.makes : Holder(o) \subseteq Needs(o)
      BY DEF Needs
    <3> QED
      BY <1>3, <1>4, <3>1 DEF Faults
  <2> QED
    BY <1>1, <1>3, <1>4, <2>1
<1>5. CASE live # LiveAt[next]
  <2>1. next > 1 /\ ~p.checked /\ live = LiveAt[next - 1]
    BY <1>1, <1>5 DEF InStep
  <2>2. next - 1 \in 1 .. Len(graph_init) /\ (next - 1) + 1 = next
    BY <1>1, <2>1, Trace
  <2>3. Passes(p, <<>>, LiveAt[next - 1], LiveAt[next]) /\ Fills(s, p)
    BY <2>1, <2>2, Trace
  <2>4. /\ p.makes \cap live = {} /\ LiveAt[next] = live \cup p.makes
        /\ s.frees = {}
    BY <2>1, <2>3 DEF Passes, Fills
  <2>5. Faults
    <3>1. PICK o \in s.makes : Holder(o) \cap p.makes # {}
      BY <2>3 DEF Fills
    <3>2. ~(Holder(o) \subseteq live)
      BY <2>4, <3>1
    <3> QED
      BY <3>2 DEF Faults
  <2> QED
    BY <1>1, <1>3, <1>5, <2>4, <2>5
<1> QED
  BY <1>4, <1>5

LEMMA ObjectsMade == \A i \in 1 .. Len(graph_init) : graph_init[i].makes \subseteq Objects
  BY Trace DEF Objects

LEMMA Initially == Init => IInv
<1> SUFFICES ASSUME Init PROVE IInv
  OBVIOUS
<1>1. pc = "init" /\ next = 1 /\ todo = <<>> /\ live = {}
  BY DEF Init
<1>2. TypeOK
  <2>1. todo \in Seq(Objects)
    BY <1>1
  <2>2. next \in 1 .. Len(graph_init) + 1
    BY <1>1, Trace
  <2> QED
    BY <1>1, <2>1, <2>2 DEF TypeOK
<1>3. Closed(live)
  BY <1>1 DEF Closed
<1>4. InStep
  BY <1>1, Trace DEF InStep
<1> QED
  BY <1>1, <1>2, <1>3, <1>4 DEF IInv

LEMMA Inductive == IInv /\ [Next]_vars => IInv'
<1> SUFFICES ASSUME IInv, [Next]_vars PROVE IInv'
  OBVIOUS
<1>1. TypeOK /\ Closed(live)
  BY DEF IInv
<1>2. /\ pc \in {"init", "unwind", "spin", "up", "down", "failed", "gone", "crashed"}
      /\ next \in 1 .. Len(graph_init) + 1 /\ todo \in Seq(Objects) /\ live \subseteq Objects
  BY <1>1 DEF TypeOK
<1>3. CASE UNCHANGED vars
  BY <1>3 DEF vars, IInv, TypeOK, InStep
<1>4. CASE Succeed
  <2>1. Pending /\ ~Faults /\ pc' = pc /\ todo' = todo /\ next' = next + 1
        /\ live' = (live \cup graph_init[next].makes) \ graph_init[next].frees
    BY <1>4 DEF Succeed
  <2>2. pc = "init" /\ next \in 1 .. Len(graph_init) /\ live = LiveAt[next]
    BY <2>1, Noticed DEF Pending
  <2>3. Passes(graph_init[next], <<>>, LiveAt[next], LiveAt[next + 1])
    BY <2>2, Trace
  <2>4. live' = LiveAt[next + 1] /\ Closed(live')
    BY <2>1, <2>2, <2>3 DEF Passes
  <2>5. next' \in 1 .. Len(graph_init) + 1
    BY <2>1, <2>2, Trace
  <2>6. live' \subseteq Objects
    BY <1>2, <2>1, <2>2, ObjectsMade
  <2>7. TypeOK'
    BY <1>2, <2>1, <2>5, <2>6 DEF TypeOK
  <2>8. InStep'
    BY <2>1, <2>4 DEF InStep
  <2> QED
    BY <2>1, <2>2, <2>4, <2>7, <2>8 DEF IInv, Closed
<1>5. CASE Fail
  <2> DEFINE s == graph_init[next]
  <2>1. Pending /\ ~Faults /\ s.call \in MayFail /\ s.checked
        /\ pc' = (IF s.spins THEN "spin" ELSE "unwind") /\ todo' = s.undo
        /\ next' = next /\ live' = live
    BY <1>5 DEF Fail
  <2>2. pc = "init" /\ next \in 1 .. Len(graph_init) /\ live = LiveAt[next]
    BY <2>1, Noticed DEF Pending
  <2>3. Passes(s, <<>>, live, LiveAt[next + 1]) /\ s.undo \o <<>> = s.undo
    BY <2>2, Trace
  <2>4. s.call # "free"
    BY <2>1, MayFailAssumption
  <2>5. s.undo \in Seq(live) /\ (~s.spins => Teardown(s.undo, live))
    BY <2>1, <2>3, <2>4 DEF Passes
  <2>6. s.undo \in Seq(Objects)
    BY <1>2, <2>5, SeqMonotonic
  <2> HIDE DEF s
  <2>7. TypeOK'
    BY <1>2, <2>1, <2>6 DEF TypeOK
  <2> QED
    BY <1>1, <2>1, <2>5, <2>7 DEF IInv, Closed
<1>6. CASE FailUnnoticed
  <2>1. Pending /\ ~Faults /\ ~graph_init[next].checked /\ pc' = pc /\ todo' = todo
        /\ next' = next + 1 /\ live' = live
    BY <1>6 DEF FailUnnoticed
  <2>2. pc = "init" /\ next \in 1 .. Len(graph_init) /\ live = LiveAt[next]
    BY <2>1, Noticed DEF Pending
  <2>3. next' \in 1 .. Len(graph_init) + 1 /\ next' > 1 /\ next' - 1 = next
    BY <2>1, <2>2, Trace
  <2>4. TypeOK'
    BY <1>2, <2>1, <2>3 DEF TypeOK
  <2>5. InStep'
    BY <2>1, <2>2, <2>3 DEF InStep
  <2> QED
    BY <1>1, <2>1, <2>2, <2>4, <2>5 DEF IInv, Closed
<1>7. CASE Crash
  <2>1. pc' = "crashed" /\ next' = next /\ todo' = todo /\ live' = live
    BY <1>7 DEF Crash
  <2> QED
    BY <1>1, <1>2, <2>1 DEF IInv, TypeOK, Closed
<1>8. CASE Spin
  BY <1>8 DEF Spin, vars, IInv, TypeOK, InStep
<1>9. CASE Unwind \/ TearDown
  <2>1. pc \in {"unwind", "down"} /\ pc' = pc /\ next' = next /\ todo # <<>>
        /\ live' = live \ {Head(todo)} /\ todo' = Tail(todo)
    BY <1>9 DEF Unwind, TearDown
  <2>2. Teardown(todo, live)
    BY <2>1 DEF IInv
  <2>3. Teardown(Tail(todo), live \ {Head(todo)})
    BY <2>1, <2>2, TeardownTail
  <2>4. Teardown(todo', live')
    BY <2>1, <2>3
  <2>5. Closed(live')
    BY <2>4, TeardownClosed
  <2>6. Tail(todo) \in Seq(Objects)
    BY <1>2, <2>1, HeadTailProperties
  <2>7. TypeOK'
    BY <1>2, <2>1, <2>6 DEF TypeOK
  <2> QED
    BY <2>1, <2>4, <2>5, <2>7 DEF IInv, Closed, Teardown
<1>10. CASE ReturnNull \/ Return
  <2>1. pc \in {"unwind", "down"} /\ todo = <<>> /\ pc' \in {"failed", "gone"}
        /\ next' = next /\ todo' = todo /\ live' = live
    BY <1>10 DEF ReturnNull, Return
  <2>2. Teardown(<<>>, live)
    BY <2>1 DEF IInv
  <2>3. live = {}
    BY <2>2, TeardownNone
  <2> QED
    BY <1>1, <1>2, <2>1, <2>3 DEF IInv, TypeOK, Closed
<1>11. CASE ReturnGraph
  <2>1. pc = "init" /\ next = Len(graph_init) + 1 /\ pc' = "up"
        /\ next' = next /\ todo' = todo /\ live' = live
    BY <1>11 DEF ReturnGraph
  <2>2. live = ToSet(graph_destroy)
    <3>1. InStep
      BY <2>1 DEF IInv
    <3>2. CASE next > 1 /\ ~graph_init[next - 1].checked
      <4>1. next - 1 = Len(graph_init) /\ next - 1 \in 1 .. Len(graph_init)
        BY <2>1, <3>2, Trace
      <4>2. (next - 1) + 1 \in 1 .. Len(graph_init)
        BY <3>2, <4>1, Trace
      <4> QED
        BY <4>1, <4>2, Trace
    <3>3. CASE live = LiveAt[next]
      BY <2>1, <3>3, Trace
    <3> QED
      BY <3>1, <3>2, <3>3 DEF InStep
  <2> QED
    BY <1>1, <1>2, <2>1, <2>2 DEF IInv, TypeOK, Closed
<1>12. CASE Quit
  <2>1. pc = "up" /\ pc' = "down" /\ todo' = graph_destroy /\ next' = next /\ live' = live
    BY <1>12 DEF Quit
  <2>2. live = ToSet(graph_destroy)
    BY <2>1 DEF IInv
  <2>3. Teardown(todo', live')
    BY <2>1, <2>2, Graph
  <2>4. graph_destroy \in Seq(live)
    BY <2>2, Graph DEF Teardown
  <2>5. todo' \in Seq(Objects)
    BY <1>2, <2>1, <2>4, SeqMonotonic
  <2>6. TypeOK'
    BY <1>2, <2>1, <2>5 DEF TypeOK
  <2> QED
    BY <1>1, <2>1, <2>3, <2>6 DEF IInv, Closed, Teardown
<1>13. CASE Over
  BY <1>13 DEF Over, vars, IInv, TypeOK, InStep
<1> QED
  BY <1>3, <1>4, <1>5, <1>6, <1>7, <1>8, <1>9, <1>10, <1>11, <1>12, <1>13 DEF Next

\* At every step, whichever calls have failed: what exists can be undone in the
\* order in which it is about to be.
THEOREM LifecycleInvariance == Spec => []IInv
<1>1. Init => IInv
  BY Initially
<1>2. IInv /\ [Next]_vars => IInv'
  BY Inductive
<1> QED
  BY <1>1, <1>2, PTL DEF Spec

\* The variables keep their types.
THEOREM TypesSound == Spec => []TypeOK
<1>1. IInv => TypeOK
  BY DEF IInv
<1> QED
  BY <1>1, LifecycleInvariance, PTL

\* Nothing is destroyed or freed that does not exist, nor twice, for any number
\* of devices, images, shaders and pools, and whichever of the calls fail.
THEOREM DestroysSound == Spec => []DestroysLive
<1>1. IInv => DestroysLive
  <2>1. SUFFICES ASSUME IInv PROVE DestroysLive
    OBVIOUS
  <2>2. pc \in {"unwind", "down"} /\ todo # <<>> => Head(todo) \in live
    BY <2>1, TeardownTail DEF IInv
  <2>3. Pending => graph_init[next].frees \subseteq live
    BY <2>1, Noticed
  <2> QED
    BY <2>2, <2>3 DEF DestroysLive
<1> QED
  BY <1>1, LifecycleInvariance, PTL

\* Nothing outlives what it was created from, is stored in or refers to.
THEOREM OrderSound == Spec => []NeedsOutlive
<1>1. IInv => NeedsOutlive
  BY DEF IInv, NeedsOutlive, Closed
<1> QED
  BY <1>1, LifecycleInvariance, PTL

\* Neither graph_init when it fails nor graph_destroy leaves anything behind.
THEOREM NothingLeaks == Spec => []NoLeak
<1>1. IInv => NoLeak
  <2>1. SUFFICES ASSUME IInv PROVE NoLeak
    OBVIOUS
  <2>2. pc \in {"failed", "gone"} => live = {}
    BY <2>1 DEF IInv
  <2>3. Pending => graph_init[next].makes \cap live = {}
    BY <2>1, Noticed
  <2> QED
    BY <2>2, <2>3 DEF NoLeak
<1> QED
  BY <1>1, LifecycleInvariance, PTL

\* graph_destroy gives back exactly what graph_init hands out.
THEOREM HandsOutSound == Spec => []HandsOutTheGraph
<1>1. IInv => HandsOutTheGraph
  BY DEF IInv, HandsOutTheGraph
<1> QED
  BY <1>1, LifecycleInvariance, PTL

\* img_init's calloc is the only call whose failure makes the program store into
\* an array that is not there: if it never fails, nothing does.
THEOREM OnlyCalloc ==
    ASSUME "calloc" \notin MayFail
    PROVE  Spec => []AllocationsChecked
<1> DEFINE J == AllocationsChecked /\ (pc = "init" => live = LiveAt[next])
<1>1. Init => J
  BY Trace DEF Init, AllocationsChecked
<1>2. IInv /\ J /\ [Next]_vars => J'
  <2> SUFFICES ASSUME IInv, J, [Next]_vars PROVE J'
    OBVIOUS
  <2>1. CASE Succeed
    <3>1. Pending /\ ~Faults /\ pc' = pc /\ next' = next + 1
          /\ live' = (live \cup graph_init[next].makes) \ graph_init[next].frees
      BY <2>1 DEF Succeed
    <3>2. pc = "init" /\ next \in 1 .. Len(graph_init) /\ live = LiveAt[next]
      BY <3>1, Noticed DEF Pending
    <3>3. Passes(graph_init[next], <<>>, LiveAt[next], LiveAt[next + 1])
      BY <3>2, Trace
    <3>4. live' = LiveAt[next + 1]
      BY <3>1, <3>2, <3>3 DEF Passes
    <3> QED
      BY <3>1, <3>4 DEF AllocationsChecked
  <2>2. CASE FailUnnoticed
    <3>1. /\ Pending /\ ~graph_init[next].checked /\ graph_init[next].call \in MayFail
      BY <2>2 DEF FailUnnoticed
    <3>2. next \in 1 .. Len(graph_init)
      BY <3>1, Noticed
    <3>3. Fills(graph_init[next + 1], graph_init[next])
      BY <3>1, <3>2, Trace
    <3> QED
      BY <3>1, <3>3 DEF Fills
  <2>3. CASE Crash
    <3>1. Pending /\ Faults /\ pc = "init"
      BY <2>3 DEF Crash, Pending
    <3> QED
      BY <3>1, Noticed
  <2>4. CASE Fail
    BY <2>4 DEF Fail, AllocationsChecked
  <2>5. CASE Unwind \/ ReturnNull \/ ReturnGraph \/ Quit \/ TearDown \/ Return
    BY <2>5 DEF Unwind, ReturnNull, ReturnGraph, Quit, TearDown, Return, AllocationsChecked
  <2>6. CASE UNCHANGED vars
    BY <2>6 DEF vars, AllocationsChecked
  <2> QED
    BY <2>1, <2>2, <2>3, <2>4, <2>5, <2>6 DEF Next, Spin, Over
<1>3. J => AllocationsChecked
  OBVIOUS
<1> QED
  BY <1>1, <1>2, <1>3, LifecycleInvariance, PTL DEF Spec

=============================================================================
