-------------------------- MODULE PSstatisticsProofs --------------------------
(***************************************************************************)
(* Theorems about PSstatistics, for any number of worker threads, any data, *)
(* ranks and functions, and any function index map restored from a file.    *)
(*                                                                          *)
(* A datum is with one worker at a time and is added once to each part that *)
(* it belongs to (Distinct).  Of a part that is not flushed, what was added *)
(* is in the tallies of one worker (Kept); of one that is flushed it is     *)
(* with one worker, in the present packet, or in one that was sent (Once),  *)
(* unless a packet failed.  What a packet shows as new comes with totals    *)
(* that contain it (Covered): a section adds, and a merge moves, new data   *)
(* not before the totals, and a packet is sent when the objects of all      *)
(* workers are merged.                                                      *)
(***************************************************************************)
EXTENDS PSstatistics, TLAPS

Lefts ==
  { <<{"recent"}>>,
    <<{"full"}, {"recent"}>>,
    <<{"counter"}, {"full"}, {"recent"}>>,
    <<{"func"}, {"counter"}, {"full"}, {"recent"}>>,
    <<{"stats", "data"}, {"func"}, {"counter"}, {"full"}, {"recent"}>> }

PartsLeft(left) == UNION {left[i] : i \in DOMAIN left}

Job == [datum : Data, left : Lefts]
Busy(w) == doing[w] # Idle

Types ==
  /\ main \in {"serve", "stop", "join", "final", "end"}
  /\ store \in [Workers -> [Part -> Tally]]
  /\ doing \in [Workers -> {Idle} \cup Job]
  /\ handled \subseteq Data /\ todo \subseteq Data
  /\ sender \in {"collect", "send", "sleep", "ended"}
  /\ comb \in [Part -> Tally] /\ viz \in [Part -> Tally]
  /\ stop \in BOOLEAN /\ bad \in BOOLEAN
  /\ known \in [Ranks -> SUBSET {Func[d] : d \in Data}]

(* A datum is on its way, with one worker, or was added. *)
Distinct ==
  /\ handled \cap todo = {}
  /\ \A w \in Workers : Busy(w) => doing[w].datum \notin handled \cup todo
  /\ \A v, w \in Workers : Busy(v) /\ Busy(w) /\ v # w => doing[v].datum # doing[w].datum

-----------------------------------------------------------------------------
(* The sections that are left.                                              *)

LEMMA Tails ==
  /\ \A a : Len(<<a>>) = 1 /\ Head(<<a>>) = a
  /\ \A a, b : Len(<<a, b>>) = 2 /\ Head(<<a, b>>) = a /\ Tail(<<a, b>>) = <<b>>
  /\ \A a, b, c : Len(<<a, b, c>>) = 3 /\ Head(<<a, b, c>>) = a /\ Tail(<<a, b, c>>) = <<b, c>>
  /\ \A a, b, c, d : /\ Len(<<a, b, c, d>>) = 4 /\ Head(<<a, b, c, d>>) = a
                     /\ Tail(<<a, b, c, d>>) = <<b, c, d>>
  /\ \A a, b, c, d, e : /\ Len(<<a, b, c, d, e>>) = 5 /\ Head(<<a, b, c, d, e>>) = a
                        /\ Tail(<<a, b, c, d, e>>) = <<b, c, d, e>>
<1>1. \A a : Len(<<a>>) = 1 /\ Head(<<a>>) = a
  OBVIOUS
<1>2. \A a, b : Len(<<a, b>>) = 2 /\ Head(<<a, b>>) = a /\ Tail(<<a, b>>) = <<b>>
  OBVIOUS
<1>3. \A a, b, c : Len(<<a, b, c>>) = 3 /\ Head(<<a, b, c>>) = a /\ Tail(<<a, b, c>>) = <<b, c>>
  OBVIOUS
<1>4. \A a, b, c, d : /\ Len(<<a, b, c, d>>) = 4 /\ Head(<<a, b, c, d>>) = a
                     /\ Tail(<<a, b, c, d>>) = <<b, c, d>>
  OBVIOUS
<1>5. \A a, b, c, d, e : /\ Len(<<a, b, c, d, e>>) = 5 /\ Head(<<a, b, c, d, e>>) = a
                        /\ Tail(<<a, b, c, d, e>>) = <<b, c, d, e>>
  OBVIOUS
<1> QED
  BY <1>1, <1>2, <1>3, <1>4, <1>5

LEMMA PartsOfLefts ==
  /\ PartsLeft(<<{"recent"}>>) = {"recent"}
  /\ PartsLeft(<<{"full"}, {"recent"}>>) = {"full", "recent"}
  /\ PartsLeft(<<{"counter"}, {"full"}, {"recent"}>>) = {"counter", "full", "recent"}
  /\ PartsLeft(<<{"func"}, {"counter"}, {"full"}, {"recent"}>>) = {"func", "counter", "full", "recent"}
  /\ PartsLeft(<<{"stats", "data"}, {"func"}, {"counter"}, {"full"}, {"recent"}>>)
       = {"stats", "data", "func", "counter", "full", "recent"}
  BY DEF PartsLeft

LEMMA SectionFacts ==
  ASSUME NEW left \in Lefts
  PROVE  /\ Head(left) \subseteq Part
         /\ Len(left) = 1 => PartsLeft(left) = Head(left)
         /\ Len(left) # 1 => /\ Tail(left) \in Lefts
                             /\ PartsLeft(left) = Head(left) \cup PartsLeft(Tail(left))
                             /\ Head(left) \cap PartsLeft(Tail(left)) = {}
         /\ "data" \in Head(left) <=> "stats" \in Head(left)
         /\ "recent" \in Head(left) => "full" \notin PartsLeft(left)
<1>1. CASE left = <<{"recent"}>>
  BY <1>1, Tails, PartsOfLefts DEF Part
<1>2. CASE left = <<{"full"}, {"recent"}>>
  BY <1>2, Tails, PartsOfLefts DEF Part, Lefts
<1>3. CASE left = <<{"counter"}, {"full"}, {"recent"}>>
  BY <1>3, Tails, PartsOfLefts DEF Part, Lefts
<1>4. CASE left = <<{"func"}, {"counter"}, {"full"}, {"recent"}>>
  BY <1>4, Tails, PartsOfLefts DEF Part, Lefts
<1>5. CASE left = <<{"stats", "data"}, {"func"}, {"counter"}, {"full"}, {"recent"}>>
  BY <1>5, Tails, PartsOfLefts DEF Part, Lefts
<1> QED
  BY <1>1, <1>2, <1>3, <1>4, <1>5 DEF Lefts

LEMMA AllSections ==
  Sections \in Lefts /\ PartsLeft(Sections) = Part
  BY PartsOfLefts DEF Sections, Lefts, Part
-----------------------------------------------------------------------------
(* Tallies.                                                                 *)

LEMMA SatFacts ==
  \A x, y \in 0 .. 2 :
    /\ Sat(x + y) \in 0 .. 2 /\ Sat(x + 0) = x /\ Sat(0 + x) = x
    /\ Sat(x + y) > 0 <=> x > 0 \/ y > 0
  BY DEF Sat

LEMMA PlusIs ==
  ASSUME NEW a \in Tally, NEW b \in Tally
  PROVE  Plus(a, b) \in Tally /\ \A d \in Data : Plus(a, b)[d] = Sat(a[d] + b[d])
  BY SatFacts DEF Plus, Tally

LEMMA ZeroTallies ==
  /\ None \in Tally /\ \A d \in Data : None[d] = 0
  /\ Empty \in [Part -> Tally] /\ \A p \in Part, d \in Data : Empty[p][d] = 0
<1>1. None \in Tally /\ \A d \in Data : None[d] = 0
  BY DEF None, Tally
<1> QED
  BY <1>1 DEF Empty

LEMMA OneIs ==
  ASSUME NEW d \in Data
  PROVE  One(d) \in Tally /\ One(d)[d] = 1 /\ \A e \in Data : e # d => One(d)[e] = 0
  BY DEF One, None, Tally

LEMMA SelectIs ==
  ASSUME NEW a \in Tally, NEW b \in Tally, NEW S
  PROVE  /\ Only(a, S) \in Tally /\ \A d \in Data : Only(a, S)[d] = IF d \in S THEN a[d] ELSE 0
         /\ Override(a, b, S) \in Tally
         /\ \A d \in Data : Override(a, b, S)[d] = IF d \in S THEN a[d] ELSE b[d]
  BY DEF Only, Override, Tally

-----------------------------------------------------------------------------
(* What the workers do.                                                     *)

LEMMA IdleIsNoJob ==
  Idle \notin Job
<1>1. DOMAIN Idle = {}
  BY DEF Idle
<1>2. \A j \in Job : "datum" \in DOMAIN j
  BY DEF Job
<1> QED
  BY <1>1, <1>2

LEMMA BusyWith ==
  ASSUME Types, NEW w \in Workers, Busy(w)
  PROVE  doing[w] \in Job /\ doing[w].datum \in Data /\ doing[w].left \in Lefts
  BY DEF Types, Busy, Job

LEMMA ReceiveIs ==
  ASSUME Types, NEW w \in Workers, NEW d \in Data, Receive(w, d)
  PROVE  /\ ~Busy(w) /\ Busy(w)' /\ doing'[w].datum = d /\ doing'[w].left = Sections
         /\ doing' \in [Workers -> {Idle} \cup Job]
         /\ \A v \in Workers : v # w => doing'[v] = doing[v]
         /\ d \in todo /\ todo' = todo \ {d} /\ handled' = handled
<1> DEFINE j == [datum |-> d, left |-> Sections]
<1>1. /\ doing[w] = Idle /\ doing' = [doing EXCEPT ![w] = j]
      /\ d \in todo /\ todo' = todo \ {d} /\ handled' = handled
  BY DEF Receive
<1>2. j \in Job /\ j # Idle /\ j.datum = d /\ j.left = Sections
  BY AllSections, IdleIsNoJob DEF Job
<1> HIDE DEF j
<1> QED
  BY <1>1, <1>2 DEF Busy, Types

(* The datum d of worker w, of which it adds the section H.                 *)
LEMMA AddSectionIs ==
  ASSUME Types, NEW w \in Workers, AddSection(w),
         NEW d, d = doing[w].datum, NEW H, H = Head(doing[w].left)
  PROVE  /\ Busy(w) /\ d \in Data /\ doing[w].left \in Lefts
         /\ store' \in [Workers -> [Part -> Tally]]
         /\ \A v \in Workers : v # w => store'[v] = store[v]
         /\ \A p \in Part, e \in Data :
              store'[w][p][e] = IF e = d /\ p \in H /\ p \in PartsOf(d)
                                THEN Sat(store[w][p][e] + 1) ELSE store[w][p][e]
         /\ doing' \in [Workers -> {Idle} \cup Job]
         /\ \A v \in Workers : v # w => doing'[v] = doing[v]
         /\ todo' = todo
         /\ \/ /\ Len(doing[w].left) = 1 /\ ~Busy(w)' /\ handled' = handled \cup {d}
            \/ /\ Len(doing[w].left) # 1 /\ Busy(w)' /\ handled' = handled
               /\ doing'[w].datum = d /\ doing'[w].left = Tail(doing[w].left)
<1>1. Busy(w) /\ d \in Data /\ doing[w].left \in Lefts /\ doing[w] \in Job
  BY BusyWith DEF AddSection, Busy
<1> DEFINE s == [p \in Part |-> IF p \in H \cap PartsOf(d)
                                THEN Plus(store[w][p], One(d)) ELSE store[w][p]]
<1>2. store' = [store EXCEPT ![w] = s]
  BY DEF AddSection
<1>3. \A p \in Part : store[w][p] \in Tally
  BY DEF Types
<1>4. /\ s \in [Part -> Tally]
      /\ \A p \in Part, e \in Data :
           s[p][e] = IF e = d /\ p \in H /\ p \in PartsOf(d)
                     THEN Sat(store[w][p][e] + 1) ELSE store[w][p][e]
  <2>1. ASSUME NEW p \in Part
        PROVE  /\ s[p] \in Tally
               /\ \A e \in Data : s[p][e] = IF e = d /\ p \in H /\ p \in PartsOf(d)
                                            THEN Sat(store[w][p][e] + 1) ELSE store[w][p][e]
    <3> DEFINE t == store[w][p]
    <3>1. t \in Tally /\ One(d) \in Tally
      BY <1>1, <1>3, OneIs
    <3>2. s[p] = IF p \in H /\ p \in PartsOf(d) THEN Plus(t, One(d)) ELSE t
      OBVIOUS
    <3> HIDE DEF t, s
    <3>3. \A e \in Data : t[e] \in 0 .. 2
      BY <3>1 DEF Tally
    <3>4. CASE p \in H /\ p \in PartsOf(d)
      <4>1. s[p] \in Tally /\ \A e \in Data : s[p][e] = Sat(t[e] + One(d)[e])
        BY <3>1, <3>2, <3>4, PlusIs
      <4>2. \A e \in Data : e = d => s[p][e] = Sat(t[e] + 1)
        BY <1>1, <4>1, OneIs
      <4>3. \A e \in Data : e # d => s[p][e] = t[e]
        BY <1>1, <3>3, <4>1, OneIs, SatFacts
      <4> QED
        BY <3>4, <4>1, <4>2, <4>3 DEF t
    <3>5. CASE ~(p \in H /\ p \in PartsOf(d))
      BY <3>1, <3>2, <3>5 DEF t
    <3> QED
      BY <3>4, <3>5
  <2> QED
    BY <2>1
<1> HIDE DEF s
<1>5. /\ store' \in [Workers -> [Part -> Tally]] /\ store'[w] = s
      /\ \A v \in Workers : v # w => store'[v] = store[v]
  BY <1>2, <1>4 DEF Types
<1>6. CASE Len(doing[w].left) = 1
  <2>1. doing' = [doing EXCEPT ![w] = Idle] /\ handled' = handled \cup {d} /\ todo' = todo
    BY <1>6 DEF AddSection
  <2> QED
    BY <1>1, <1>4, <1>5, <1>6, <2>1 DEF Types, Busy
<1>7. CASE Len(doing[w].left) # 1
  <2> DEFINE j == [doing[w] EXCEPT !.left = Tail(doing[w].left)]
  <2>1. doing' = [doing EXCEPT ![w] = j] /\ handled' = handled /\ todo' = todo
    BY <1>7 DEF AddSection
  <2>2. j \in Job /\ j.datum = d /\ j.left = Tail(doing[w].left) /\ j # Idle
    <3>1. Tail(doing[w].left) \in Lefts
      BY <1>1, <1>7, SectionFacts
    <3>2. j \in Job /\ j.datum = d /\ j.left = Tail(doing[w].left)
      BY <1>1, <3>1 DEF Job
    <3> QED
      BY <3>2, IdleIsNoJob
  <2> HIDE DEF j
  <2> QED
    BY <1>1, <1>4, <1>5, <1>7, <2>1, <2>2 DEF Types, Busy
<1> QED
  BY <1>6, <1>7
-----------------------------------------------------------------------------
(* What was added.                                                          *)

Serving == UNCHANGED <<doing, todo, handled>>

LEMMA AddedIs ==
  ASSUME Types, NEW p, NEW d
  PROVE  d \in Added(p) <=> \/ d \in handled
                            \/ \E w \in Workers : Busy(w) /\ doing[w].datum = d
                                                  /\ p \notin PartsLeft(doing[w].left)
  BY DEF Added, Busy, PartsLeft

LEMMA AddedKept ==
  ASSUME Serving, NEW p
  PROVE  Added(p)' = Added(p)
  BY DEF Serving, Added

Given(p) == {d \in Added(p) : p \in PartsOf(d)}

LEMMA AddedReceive ==
  ASSUME Types, Types', NEW w \in Workers, NEW d \in Data, Receive(w, d), NEW p \in Part
  PROVE  Added(p)' = Added(p)
<1>1. /\ ~Busy(w) /\ Busy(w)' /\ doing'[w].left = Sections
      /\ \A v \in Workers : v # w => doing'[v] = doing[v]
      /\ handled' = handled
  BY ReceiveIs
<1>2. p \in PartsLeft(doing'[w].left)
  BY <1>1, AllSections
<1>3. \A v \in Workers : v # w => (Busy(v)' <=> Busy(v))
  BY <1>1 DEF Busy
<1> QED
  BY <1>1, <1>2, <1>3 DEF Added, Busy, PartsLeft

LEMMA AddedSection ==
  ASSUME Types, Distinct, NEW w \in Workers, AddSection(w), NEW p \in Part,
         NEW d, d = doing[w].datum, NEW H, H = Head(doing[w].left)
  PROVE  /\ Added(p)' = IF p \in H THEN Added(p) \cup {d} ELSE Added(p)
         /\ p \in H => d \notin Added(p)
<1> DEFINE l == doing[w].left
<1>1. /\ Busy(w) /\ d \in Data /\ l \in Lefts
      /\ \A v \in Workers : v # w => doing'[v] = doing[v]
      /\ \/ Len(l) = 1 /\ ~Busy(w)' /\ handled' = handled \cup {d}
         \/ /\ Len(l) # 1 /\ Busy(w)' /\ handled' = handled
            /\ doing'[w].datum = d /\ doing'[w].left = Tail(l)
  BY AddSectionIs
<1>2. /\ Len(l) = 1 => PartsLeft(l) = H
      /\ Len(l) # 1 => PartsLeft(l) = H \cup PartsLeft(Tail(l)) /\ H \cap PartsLeft(Tail(l)) = {}
  BY <1>1, SectionFacts
<1>3. d \notin handled /\ \A v \in Workers : v # w /\ Busy(v) => doing[v].datum # d
  BY <1>1 DEF Distinct
<1>4. \A v \in Workers : v # w => (Busy(v)' <=> Busy(v))
  BY <1>1 DEF Busy
<1> DEFINE Rest == handled \cup {doing[v].datum : v \in {v \in Workers \ {w} :
                     Busy(v) /\ p \notin PartsLeft(doing[v].left)}}
<1>5. /\ p \in PartsLeft(l) => Added(p) = Rest
      /\ p \notin PartsLeft(l) => Added(p) = Rest \cup {d}
  BY <1>1 DEF Added, Busy, PartsLeft
<1>6. d \notin Rest
  BY <1>3
<1>7. Added(p)' = handled' \cup {doing'[v].datum : v \in {v \in Workers :
                   Busy(v)' /\ p \notin PartsLeft(doing'[v].left)}}
  BY DEF Added, Busy, PartsLeft
<1>8. CASE Len(l) = 1
  <2>1. Added(p)' = Rest \cup {d}
    BY <1>1, <1>4, <1>7, <1>8
  <2> HIDE DEF Rest, l
  <2> QED
    BY <1>2, <1>5, <1>6, <1>8, <2>1
<1>9. CASE Len(l) # 1
  <2>1. Busy(w)' /\ handled' = handled /\ doing'[w].datum = d /\ doing'[w].left = Tail(l)
    BY <1>1, <1>9
  <2>2. /\ p \in PartsLeft(Tail(l)) => Added(p)' = Rest
        /\ p \notin PartsLeft(Tail(l)) => Added(p)' = Rest \cup {d}
    <3> HIDE DEF l
    <3> QED
      BY <1>1, <1>4, <1>7, <2>1
  <2> HIDE DEF Rest, l
  <2> QED
    BY <1>2, <1>5, <1>6, <1>9, <2>2
<1> QED
  BY <1>8, <1>9

LEMMA GivenSection ==
  ASSUME Types, Distinct, NEW w \in Workers, AddSection(w), NEW p \in Part,
         NEW d, d = doing[w].datum, NEW H, H = Head(doing[w].left)
  PROVE  /\ Given(p)' = IF p \in H /\ p \in PartsOf(d) THEN Given(p) \cup {d} ELSE Given(p)
         /\ p \in H => d \notin Given(p)
  BY AddedSection DEF Given, PartsOf

LEMMA DistinctStep ==
  ASSUME Types, Distinct, [Next]_vars
  PROVE  Distinct'
<1>1. ASSUME NEW w \in Workers, NEW d \in Data, Receive(w, d) PROVE Distinct'
  <2>1. /\ ~Busy(w) /\ Busy(w)' /\ doing'[w].datum = d
        /\ \A v \in Workers : v # w => doing'[v] = doing[v]
        /\ d \in todo /\ todo' = todo \ {d} /\ handled' = handled
    BY <1>1, ReceiveIs
  <2>2. \A v \in Workers : v # w => (Busy(v)' <=> Busy(v))
    BY <2>1 DEF Busy
  <2>3. \A v \in Workers : v # w /\ Busy(v) => doing[v].datum # d
    BY <2>1 DEF Distinct
  <2> QED
    BY <2>1, <2>2, <2>3 DEF Distinct
<1>2. ASSUME NEW w \in Workers, AddSection(w) PROVE Distinct'
  <2> DEFINE d == doing[w].datum
  <2>1. /\ Busy(w) /\ \A v \in Workers : v # w => doing'[v] = doing[v]
        /\ todo' = todo
        /\ \/ ~Busy(w)' /\ handled' = handled \cup {d}
           \/ Busy(w)' /\ handled' = handled /\ doing'[w].datum = d
    BY <1>2, AddSectionIs
  <2>2. \A v \in Workers : v # w => (Busy(v)' <=> Busy(v))
    BY <2>1 DEF Busy
  <2>3. d \notin handled \cup todo /\ \A v \in Workers : v # w /\ Busy(v) => doing[v].datum # d
    BY <2>1 DEF Distinct
  <2> HIDE DEF d
  <2> QED
    BY <2>1, <2>2, <2>3 DEF Distinct
<1>3. CASE Serving
  BY <1>3 DEF Serving, Distinct, Busy
<1> QED
  BY <1>1, <1>2, <1>3 DEF Next, Worker, Sender, Main, Rank, StartPacket, Merge, Send, SendFails, ServiceEnds,
     StopSender, Join, SendFinal, LookUp, serving, Serving, vars
-----------------------------------------------------------------------------
(* What the sender does.                                                    *)

Together == {{"stats", "data"}, {"func"}, {"counter"}, {"full", "recent"}}
Steps == [worker : Workers, parts : Together]

(* A part of w is still to be merged.                                       *)
Pending(w, p) == \E i \in DOMAIN plan : plan[i].worker = w /\ p \in plan[i].parts

Planned ==
  /\ plan \in Seq(Steps)
  /\ sender = "collect" <=> plan # <<>>
  /\ sender \in {"sleep", "ended"} => comb = Empty
  /\ bad => sender = "ended"

LEMMA Concatenated ==
  ASSUME NEW S, NEW s \in Seq(S), NEW t \in Seq(S)
  PROVE  /\ s \o t \in Seq(S) /\ Len(s \o t) = Len(s) + Len(t)
         /\ \A i \in 1 .. Len(s) : (s \o t)[i] = s[i]
         /\ \A i \in 1 .. Len(t) : (s \o t)[Len(s) + i] = t[i]
  OBVIOUS

LEMMA Enumerated ==
  ASSUME NEW S, NEW n \in Nat, NEW s \in [1 .. n -> S]
  PROVE  s \in Seq(S) /\ Len(s) = n
  OBVIOUS

LEMMA MergesAre ==
  /\ Merges \in Seq(Steps) /\ Merges # <<>>
  /\ \A w \in Workers, p \in {"stats", "full"} :
       \E i \in DOMAIN Merges : Merges[i].worker = w /\ p \in Merges[i].parts
<1> DEFINE A == [i \in 1 .. 2 * N |-> [worker |-> (i + 1) \div 2,
                        parts |-> IF i % 2 = 1 THEN {"stats", "data"} ELSE {"func"}]]
           B == [i \in Workers |-> [worker |-> i, parts |-> {"counter"}]]
           C == [i \in Workers |-> [worker |-> i, parts |-> {"full", "recent"}]]
<1>1. N \in Nat \ {0} /\ Workers = 1 .. N
  BY PSstatisticsAssumption DEF Workers
<1>2. A \in Seq(Steps) /\ Len(A) = 2 * N
  <2>1. \A i \in 1 .. 2 * N : (i + 1) \div 2 \in Workers
    BY <1>1
  <2>2. A \in [1 .. 2 * N -> Steps]
    BY <2>1 DEF Steps, Together
  <2>3. 2 * N \in Nat
    BY <1>1
  <2> QED
    BY <2>2, <2>3, Enumerated
<1>3. B \in Seq(Steps) /\ Len(B) = N
  <2>1. B \in [1 .. N -> Steps]
    BY <1>1 DEF Steps, Together
  <2> QED
    BY <1>1, <2>1
<1>4. C \in Seq(Steps) /\ Len(C) = N
  <2>1. C \in [1 .. N -> Steps]
    BY <1>1 DEF Steps, Together
  <2> QED
    BY <1>1, <2>1
<1>5. \A w \in Workers : 2 * w - 1 \in 1 .. 2 * N /\ A[2 * w - 1].worker = w /\ "stats" \in A[2 * w - 1].parts
  <2> SUFFICES ASSUME NEW w \in Workers
               PROVE  2 * w - 1 \in 1 .. 2 * N /\ A[2 * w - 1].worker = w /\ "stats" \in A[2 * w - 1].parts
    OBVIOUS
  <2>1. 2 * w - 1 \in 1 .. 2 * N /\ ((2 * w - 1) + 1) \div 2 = w /\ (2 * w - 1) % 2 = 1
    BY <1>1
  <2> QED
    BY <2>1
<1>6. \A w \in Workers : C[w].worker = w /\ "full" \in C[w].parts
  OBVIOUS
<1>7. Merges = (A \o B) \o C
  BY DEF Merges
<1> HIDE DEF A, B, C
<1>8. /\ A \o B \in Seq(Steps) /\ Len(A \o B) = 2 * N + N
      /\ \A i \in 1 .. 2 * N : (A \o B)[i] = A[i]
  <2>1. /\ A \o B \in Seq(Steps) /\ Len(A \o B) = Len(A) + Len(B)
        /\ \A i \in 1 .. Len(A) : (A \o B)[i] = A[i]
    BY <1>2, <1>3, Concatenated
  <2> QED
    BY <1>2, <1>3, <2>1
<1>9. /\ Merges \in Seq(Steps) /\ Len(Merges) = (2 * N + N) + N
      /\ \A i \in 1 .. 2 * N + N : Merges[i] = (A \o B)[i]
      /\ \A i \in 1 .. N : Merges[(2 * N + N) + i] = C[i]
  <2> DEFINE AB == A \o B
  <2>1. AB \in Seq(Steps) /\ Len(AB) = 2 * N + N
    BY <1>8
  <2> HIDE DEF AB
  <2>2. /\ AB \o C \in Seq(Steps) /\ Len(AB \o C) = Len(AB) + Len(C)
        /\ \A i \in 1 .. Len(AB) : (AB \o C)[i] = AB[i]
        /\ \A i \in 1 .. Len(C) : (AB \o C)[Len(AB) + i] = C[i]
    <3>1. AB \in Seq(Steps) /\ C \in Seq(Steps)
      BY <1>4, <2>1
    <3> QED
      BY <3>1, Concatenated
  <2>3. Merges = AB \o C
    BY <1>7 DEF AB
  <2>4. /\ AB \o C \in Seq(Steps) /\ Len(AB \o C) = (2 * N + N) + N
        /\ \A i \in 1 .. 2 * N + N : (AB \o C)[i] = AB[i]
        /\ \A i \in 1 .. N : (AB \o C)[(2 * N + N) + i] = C[i]
    BY <1>4, <2>1, <2>2
  <2> QED
    BY <2>3, <2>4 DEF AB
<1>10. ASSUME NEW w \in Workers
       PROVE  /\ 2 * w - 1 \in DOMAIN Merges /\ Merges[2 * w - 1] = A[2 * w - 1]
              /\ (2 * N + N) + w \in DOMAIN Merges /\ Merges[(2 * N + N) + w] = C[w]
  <2>1. /\ 2 * w - 1 \in 1 .. 2 * N + N /\ 2 * w - 1 \in 1 .. (2 * N + N) + N
        /\ (2 * N + N) + w \in 1 .. (2 * N + N) + N
    BY <1>1
  <2>2. DOMAIN Merges = 1 .. (2 * N + N) + N
    BY <1>9
  <2> QED
    BY <1>1, <1>5, <1>8, <1>9, <2>1, <2>2
<1>11. Merges # <<>>
  BY <1>1, <1>9
<1> QED
  BY <1>5, <1>6, <1>9, <1>10, <1>11

LEMMA MergeIs ==
  ASSUME Types, Planned, Merge, NEW m, m = Head(plan)
  PROVE  /\ m \in Steps /\ m.worker \in Workers /\ m.parts \in Together
         /\ store' \in [Workers -> [Part -> Tally]]
         /\ \A v \in Workers, p \in Part, e \in Data :
              store'[v][p][e] = IF v = m.worker /\ p \in m.parts /\ p \in Flushed
                                THEN 0 ELSE store[v][p][e]
         /\ comb' \in [Part -> Tally]
         /\ \A p \in Part, e \in Data :
              comb'[p][e] = IF p \in m.parts THEN Sat(comb[p][e] + store[m.worker][p][e])
                            ELSE comb[p][e]
         /\ plan' \in Seq(Steps) /\ sender' \in {"collect", "send"}
         /\ sender' = "collect" <=> plan' # <<>>
         /\ \A w \in Workers, p \in Part :
              Pending(w, p) => (Pending(w, p)' \/ (m.worker = w /\ p \in m.parts))
         /\ Serving /\ UNCHANGED <<viz, bad>> /\ ~bad
<1>1. plan \in Seq(Steps) /\ plan # <<>> /\ ~bad
  BY DEF Planned, Merge
<1>2. m \in Steps /\ m.worker \in Workers /\ m.parts \in Together
  <2>1. m \in Steps
    BY <1>1
  <2> QED
    BY <2>1 DEF Steps
<1> DEFINE s == [p \in Part |-> IF p \in m.parts \cap Flushed THEN None ELSE store[m.worker][p]]
<1>3. /\ store' = [store EXCEPT ![m.worker] = s]
      /\ comb' = [p \in Part |-> IF p \in m.parts THEN Plus(comb[p], store[m.worker][p]) ELSE comb[p]]
      /\ plan' = Tail(plan) /\ sender' = (IF Len(plan) = 1 THEN "send" ELSE "collect")
      /\ UNCHANGED <<doing, todo, handled, viz, bad>>
  BY DEF Merge
<1>4. \A p \in Part : store[m.worker][p] \in Tally /\ comb[p] \in Tally
  BY <1>2 DEF Types
<1>5. /\ s \in [Part -> Tally]
      /\ \A p \in Part, e \in Data :
           s[p][e] = IF p \in m.parts /\ p \in Flushed THEN 0 ELSE store[m.worker][p][e]
  BY <1>4, ZeroTallies
<1> HIDE DEF s
<1>6. /\ store' \in [Workers -> [Part -> Tally]]
      /\ \A v \in Workers, p \in Part, e \in Data :
           store'[v][p][e] = IF v = m.worker /\ p \in m.parts /\ p \in Flushed
                             THEN 0 ELSE store[v][p][e]
  <2>1. /\ store' \in [Workers -> [Part -> Tally]] /\ store'[m.worker] = s
        /\ \A v \in Workers : v # m.worker => store'[v] = store[v]
    BY <1>2, <1>3, <1>5 DEF Types
  <2> QED
    BY <1>5, <2>1
<1>7. /\ comb' \in [Part -> Tally]
      /\ \A p \in Part, e \in Data :
           comb'[p][e] = IF p \in m.parts THEN Sat(comb[p][e] + store[m.worker][p][e])
                         ELSE comb[p][e]
  BY <1>3, <1>4, PlusIs
<1>8. /\ Len(plan) \in Nat \ {0} /\ DOMAIN plan = 1 .. Len(plan) /\ plan' \in Seq(Steps)
      /\ Len(plan') = Len(plan) - 1 /\ DOMAIN plan' = 1 .. (Len(plan) - 1)
      /\ m = plan[1] /\ \A i \in 1 .. (Len(plan) - 1) : plan'[i] = plan[i + 1]
  BY <1>1, <1>3
<1>9. sender' \in {"collect", "send"} /\ (sender' = "collect" <=> plan' # <<>>)
  BY <1>3, <1>8
<1>10. ASSUME NEW w \in Workers, NEW p \in Part, Pending(w, p), ~(m.worker = w /\ p \in m.parts)
       PROVE  Pending(w, p)'
  <2>1. PICK i \in DOMAIN plan : plan[i].worker = w /\ p \in plan[i].parts
    BY <1>10 DEF Pending
  <2>2. i # 1
    BY <1>8, <1>10, <2>1
  <2>3. i - 1 \in DOMAIN plan' /\ plan'[i - 1] = plan[i]
    BY <1>8, <2>1, <2>2
  <2> QED
    BY <2>1, <2>3 DEF Pending
<1> QED
  BY <1>1, <1>2, <1>3, <1>6, <1>7, <1>8, <1>9, <1>10 DEF Serving
LEMMA SendIs ==
  ASSUME Types, Send
  PROVE  /\ viz' \in [Part -> Tally]
         /\ \A d \in Data :
              /\ viz'["data"][d] = IF d \in Anomalous THEN Sat(viz["data"][d] + comb["data"][d])
                                   ELSE viz["data"][d]
              /\ viz'["recent"][d] = Sat(viz["recent"][d] + comb["recent"][d])
              /\ viz'["stats"][d] = comb["stats"][d] \/ viz'["stats"][d] = viz["stats"][d]
              /\ d \in Anomalous /\ comb["data"][d] > 0 => viz'["stats"][d] = comb["stats"][d]
              /\ viz'["full"][d] = comb["full"][d] \/ viz'["full"][d] = viz["full"][d]
              /\ comb["recent"][d] > 0 => viz'["full"][d] = comb["full"][d]
         /\ comb' = Empty /\ sender = "send" /\ sender' = "sleep"
         /\ Serving /\ UNCHANGED <<store, plan, bad>>
<1> DEFINE new == Those(comb["data"]) \cap Anomalous
           rows == SameRank(new)
           va == ShownStats(viz)
           vb == ShownCounters(va)
<1>1. /\ viz' = ShownMetrics(vb)
      /\ comb' = Empty /\ sender = "send" /\ sender' = "sleep"
      /\ Serving /\ UNCHANGED <<store, plan, bad>>
  BY DEF Send, Shown, serving, Serving
<1>2. /\ \A p \in Part : comb[p] \in Tally /\ viz[p] \in Tally
      /\ Part = {"stats", "data", "func", "counter", "full", "recent"}
  BY DEF Types, Part
<1>3. Only(comb["data"], new) \in Tally
  BY <1>2, SelectIs
<1>4. /\ va \in [Part -> Tally]
      /\ va["data"] = Plus(viz["data"], Only(comb["data"], new))
      /\ va["stats"] = Override(comb["stats"], viz["stats"], rows)
      /\ va["full"] = viz["full"] /\ va["recent"] = viz["recent"]
  <2>1. Plus(viz["data"], Only(comb["data"], new)) \in Tally
    BY <1>2, <1>3, PlusIs
  <2>2. Override(comb["stats"], viz["stats"], rows) \in Tally
    BY <1>2, SelectIs
  <2> QED
    BY <1>2, <2>1, <2>2 DEF Types, ShownStats
<1> HIDE DEF va
<1>5. /\ vb \in [Part -> Tally]
      /\ vb["data"] = va["data"] /\ vb["stats"] = va["stats"]
      /\ vb["full"] = va["full"] /\ vb["recent"] = va["recent"]
  BY <1>2, <1>4 DEF ShownCounters
<1> HIDE DEF vb
<1> DEFINE keys == SameKey(Those(comb["recent"]))
<1>6. /\ viz' \in [Part -> Tally]
      /\ viz'["data"] = va["data"] /\ viz'["stats"] = va["stats"]
      /\ viz'["recent"] = Plus(viz["recent"], comb["recent"])
      /\ viz'["full"] = Override(comb["full"], viz["full"], keys)
  <2>1. Plus(viz["recent"], comb["recent"]) \in Tally
    BY <1>2, PlusIs
  <2>2. Override(comb["full"], viz["full"], keys) \in Tally
    BY <1>2, SelectIs
  <2> QED
    BY <1>1, <1>2, <1>4, <1>5, <2>1, <2>2 DEF ShownMetrics
<1>7. ASSUME NEW d \in Data
      PROVE  /\ viz'["data"][d] = IF d \in Anomalous THEN Sat(viz["data"][d] + comb["data"][d])
                                  ELSE viz["data"][d]
             /\ viz'["recent"][d] = Sat(viz["recent"][d] + comb["recent"][d])
             /\ viz'["stats"][d] = comb["stats"][d] \/ viz'["stats"][d] = viz["stats"][d]
             /\ d \in Anomalous /\ comb["data"][d] > 0 => viz'["stats"][d] = comb["stats"][d]
             /\ viz'["full"][d] = comb["full"][d] \/ viz'["full"][d] = viz["full"][d]
             /\ comb["recent"][d] > 0 => viz'["full"][d] = comb["full"][d]
  <2>1. comb["data"][d] \in 0 .. 2 /\ viz["data"][d] \in 0 .. 2
    BY <1>2 DEF Tally
  <2>2. d \in new <=> d \in Anomalous /\ comb["data"][d] > 0
    BY DEF Those
  <2>3. Only(comb["data"], new)[d] = IF d \in new THEN comb["data"][d] ELSE 0
    BY <1>2, SelectIs
  <2>4. viz'["data"][d] = Sat(viz["data"][d] + Only(comb["data"], new)[d])
    BY <1>2, <1>3, <1>4, <1>6, PlusIs
  <2>5. viz'["data"][d] = IF d \in Anomalous THEN Sat(viz["data"][d] + comb["data"][d])
                          ELSE viz["data"][d]
    <3>1. CASE d \in new
      BY <2>2, <2>3, <2>4, <3>1
    <3>2. CASE d \notin new
      <4>1. viz'["data"][d] = viz["data"][d]
        BY <2>1, <2>3, <2>4, <3>2, SatFacts
      <4>2. d \in Anomalous => comb["data"][d] = 0
        BY <2>1, <2>2, <3>2
      <4>3. d \in Anomalous => Sat(viz["data"][d] + comb["data"][d]) = viz["data"][d]
        BY <2>1, <4>2, SatFacts
      <4> QED
        BY <4>1, <4>3
    <3> QED
      BY <3>1, <3>2
  <2>6. viz'["recent"][d] = Sat(viz["recent"][d] + comb["recent"][d])
    BY <1>2, <1>6, PlusIs
  <2>7. viz'["stats"][d] = IF d \in rows THEN comb["stats"][d] ELSE viz["stats"][d]
    <3> HIDE DEF rows
    <3>1. comb["stats"] \in Tally /\ viz["stats"] \in Tally
      BY <1>2
    <3>2. Override(comb["stats"], viz["stats"], rows)[d]
            = IF d \in rows THEN comb["stats"][d] ELSE viz["stats"][d]
      BY <3>1, SelectIs
    <3> QED
      BY <3>2, <1>4, <1>6
  <2>8. d \in new => d \in rows
    BY DEF SameRank
  <2>9. viz'["full"][d] = IF d \in keys THEN comb["full"][d] ELSE viz["full"][d]
    <3> HIDE DEF keys
    <3>1. comb["full"] \in Tally /\ viz["full"] \in Tally
      BY <1>2
    <3>2. Override(comb["full"], viz["full"], keys)[d]
            = IF d \in keys THEN comb["full"][d] ELSE viz["full"][d]
      BY <3>1, SelectIs
    <3> QED
      BY <3>2, <1>6
  <2>10. comb["recent"][d] > 0 => d \in keys
    BY DEF SameKey, Those
  <2> HIDE DEF new, rows, keys
  <2> QED
    BY <2>2, <2>5, <2>6, <2>7, <2>8, <2>9, <2>10
<1> QED
  BY <1>1, <1>6, <1>7

-----------------------------------------------------------------------------
(* The courses that a step can take.                                        *)

(* Steps that leave the tallies of the workers and of the packets alone.    *)
Elsewhere ==
  /\ Serving /\ UNCHANGED <<store, viz, sender, plan, comb, bad>>

LEMMA Courses ==
  ASSUME [Next]_vars
  PROVE  \/ \E w \in Workers, d \in Data : Receive(w, d)
         \/ \E w \in Workers : AddSection(w)
         \/ StartPacket \/ Merge \/ Send \/ SendFails
         \/ Elsewhere
  BY DEF Next, Worker, Sender, Main, Rank, ServiceEnds, StopSender, Join, SendFinal, LookUp,
     Elsewhere, Serving, serving, packets, vars

LEMMA PlannedStep ==
  ASSUME Types, Planned, [Next]_vars
  PROVE  Planned'
<1>1. CASE \E w \in Workers, d \in Data : Receive(w, d)
  BY <1>1 DEF Receive, packets, Planned
<1>2. CASE \E w \in Workers : AddSection(w)
  BY <1>2 DEF AddSection, packets, Planned
<1>3. CASE StartPacket
  <2>1. <<>> \in Seq(Steps)
    OBVIOUS
  <2> QED
    BY <1>3, <2>1, MergesAre DEF StartPacket, Planned
<1>4. CASE Merge
  BY <1>4, MergeIs DEF Planned
<1>5. CASE Send
  BY <1>5 DEF Send, Planned
<1>6. CASE SendFails
  BY <1>6 DEF SendFails, Planned
<1>7. CASE Elsewhere
  BY <1>7 DEF Elsewhere, Planned
<1> QED
  BY <1>1, <1>2, <1>3, <1>4, <1>5, <1>6, <1>7, Courses

LEMMA TypesStep ==
  ASSUME Types, Planned, [Next]_vars
  PROVE  Types'
<1>1. /\ main' \in {"serve", "stop", "join", "final", "end"}
      /\ stop' \in BOOLEAN /\ bad' \in BOOLEAN
      /\ known' \in [Ranks -> SUBSET {Func[d] : d \in Data}]
  <2>1. CASE \E r \in Ranks : Rank(r)
    <3>1. PICK r \in Ranks, f \in {Func[d] : d \in Data} : LookUp(r, f)
      BY <2>1 DEF Rank
    <3>2. known' = [known EXCEPT ![r] = known[r] \cup {f}] /\ UNCHANGED <<main, stop, bad>>
      BY <3>1 DEF LookUp, packets
    <3> QED
      BY <3>2 DEF Types
  <2>2. CASE ~ \E r \in Ranks : Rank(r)
    <3>1. known' = known
      BY <2>2 DEF Next, Worker, Sender, Main, Receive, AddSection, StartPacket, Merge, Send,
         SendFails, ServiceEnds, StopSender, Join, SendFinal, index, vars
    <3>2. /\ main' \in {"serve", "stop", "join", "final", "end"}
          /\ stop' \in BOOLEAN /\ bad' \in BOOLEAN
      BY <2>2 DEF Types, Next, Worker, Sender, Main, Receive, AddSection, StartPacket, Merge, Send,
         SendFails, ServiceEnds, StopSender, Join, SendFinal, packets, vars
    <3> QED
      BY <3>1, <3>2 DEF Types
  <2> QED
    BY <2>1, <2>2
<1>2. ASSUME NEW w \in Workers, NEW d \in Data, Receive(w, d) PROVE Types'
  BY <1>1, <1>2, ReceiveIs DEF Types, Receive, packets
<1>3. ASSUME NEW w \in Workers, AddSection(w) PROVE Types'
  <2>1. /\ store' \in [Workers -> [Part -> Tally]] /\ doing' \in [Workers -> {Idle} \cup Job]
        /\ todo' = todo /\ handled' \subseteq Data
    BY <1>3, AddSectionIs DEF Types
  <2> QED
    BY <1>1, <1>3, <2>1 DEF Types, AddSection, packets
<1>4. CASE StartPacket
  BY <1>1, <1>4, ZeroTallies DEF Types, StartPacket, serving
<1>5. CASE Merge
  <2>1. /\ store' \in [Workers -> [Part -> Tally]] /\ comb' \in [Part -> Tally]
        /\ sender' \in {"collect", "send"} /\ Serving /\ viz' = viz
    BY <1>5, MergeIs
  <2> QED
    BY <1>1, <2>1 DEF Types, Serving
<1>6. CASE Send
  BY <1>1, <1>6, SendIs, ZeroTallies DEF Types, Serving
<1>7. CASE SendFails
  BY <1>1, <1>7, ZeroTallies DEF Types, SendFails, serving
<1>8. CASE Elsewhere
  BY <1>1, <1>8 DEF Types, Elsewhere, Serving
<1> QED
  BY <1>2, <1>3, <1>4, <1>5, <1>6, <1>7, <1>8, Courses
-----------------------------------------------------------------------------
(* Where what was added is.                                                 *)

ByOne(p, d) ==
  \E w \in Workers : store[w][p][d] = 1 /\ \A v \in Workers : v # w => store[v][p][d] = 0
ByNone(p, d) == \A w \in Workers : store[w][p][d] = 0

(* What is not flushed stays with the worker that received it.              *)
Kept ==
  \A p \in Part \ Flushed, d \in Data :
    /\ d \in Given(p) => ByOne(p, d)
    /\ d \notin Given(p) => ByNone(p, d)

(* What is flushed is in one place.                                         *)
Once ==
  \A p \in Flushed, d \in Data :
    /\ d \notin Given(p) => ByNone(p, d) /\ comb[p][d] = 0 /\ viz[p][d] = 0
    /\ d \in Given(p) /\ d \in Anomalous /\ ~bad =>
         \/ ByOne(p, d) /\ comb[p][d] = 0 /\ viz[p][d] = 0
         \/ ByNone(p, d) /\ comb[p][d] = 1 /\ viz[p][d] = 0
         \/ ByNone(p, d) /\ comb[p][d] = 0 /\ viz[p][d] = 1

LEMMA HoldersSection ==
  ASSUME Types, Distinct, NEW w \in Workers, AddSection(w), NEW p \in Part, NEW e \in Data
  PROVE  /\ e \notin Given(p) /\ e \in Given(p)' => (ByNone(p, e) => ByOne(p, e)')
         /\ (e \in Given(p) <=> e \in Given(p)') =>
               /\ ByNone(p, e) => ByNone(p, e)'
               /\ ByOne(p, e) => ByOne(p, e)'
         /\ e \in Given(p) => e \in Given(p)'
<1> DEFINE d == doing[w].datum
           H == Head(doing[w].left)
<1>1. /\ \A v \in Workers : v # w => store'[v] = store[v]
      /\ store'[w][p][e] = IF e = d /\ p \in H /\ p \in PartsOf(d)
                           THEN Sat(store[w][p][e] + 1) ELSE store[w][p][e]
  BY AddSectionIs
<1>2. /\ Given(p)' = IF p \in H /\ p \in PartsOf(d) THEN Given(p) \cup {d} ELSE Given(p)
      /\ p \in H => d \notin Given(p)
  BY GivenSection
<1> HIDE DEF d, H
<1>3. Sat(0 + 1) = 1
  BY DEF Sat
<1>4. e \notin Given(p) /\ e \in Given(p)' => (ByNone(p, e) => ByOne(p, e)')
  BY <1>1, <1>2, <1>3 DEF ByNone, ByOne
<1>5. CASE e \in Given(p) <=> e \in Given(p)'
  <2>1. store'[w][p][e] = store[w][p][e]
    BY <1>1, <1>2, <1>5
  <2>2. \A v \in Workers : store'[v][p][e] = store[v][p][e]
    BY <1>1, <2>1
  <2> QED
    BY <1>2, <1>4, <2>2 DEF ByNone, ByOne
<1> QED
  BY <1>2, <1>4, <1>5

LEMMA HoldersMerge ==
  ASSUME Types, Planned, Merge, NEW p \in Part, NEW e \in Data
  PROVE  /\ p \notin Flushed => /\ ByNone(p, e) => ByNone(p, e)'
                                /\ ByOne(p, e) => ByOne(p, e)'
         /\ ByNone(p, e) => ByNone(p, e)' /\ comb'[p][e] = comb[p][e]
         /\ p \in Flushed /\ ByOne(p, e) /\ comb[p][e] = 0 =>
              \/ ByOne(p, e)' /\ comb'[p][e] = 0
              \/ ByNone(p, e)' /\ comb'[p][e] = 1
<1>0. PICK m : m = Head(plan)
  OBVIOUS
<1>1. /\ m.worker \in Workers
      /\ \A v \in Workers : store'[v][p][e] = IF v = m.worker /\ p \in m.parts /\ p \in Flushed
                                              THEN 0 ELSE store[v][p][e]
      /\ comb'[p][e] = IF p \in m.parts THEN Sat(comb[p][e] + store[m.worker][p][e])
                       ELSE comb[p][e]
  BY <1>0, MergeIs
<1>2. comb[p][e] \in 0 .. 2
  BY DEF Types, Tally
<1>3. p \notin Flushed => /\ ByNone(p, e) => ByNone(p, e)'
                          /\ ByOne(p, e) => ByOne(p, e)'
  BY <1>1 DEF ByNone, ByOne
<1>4. ByNone(p, e) => ByNone(p, e)' /\ comb'[p][e] = comb[p][e]
  BY <1>1, <1>2, SatFacts DEF ByNone
<1>5. ASSUME p \in Flushed, ByOne(p, e), comb[p][e] = 0
      PROVE  \/ ByOne(p, e)' /\ comb'[p][e] = 0
             \/ ByNone(p, e)' /\ comb'[p][e] = 1
  <2>1. PICK w \in Workers : store[w][p][e] = 1 /\ \A v \in Workers : v # w => store[v][p][e] = 0
    BY <1>5 DEF ByOne
  <2>2. Sat(0 + 0) = 0 /\ Sat(0 + 1) = 1
    BY DEF Sat
  <2>3. CASE m.worker = w /\ p \in m.parts
    BY <1>1, <1>5, <2>1, <2>2, <2>3 DEF ByNone
  <2>4. CASE ~(m.worker = w /\ p \in m.parts)
    <3>1. comb'[p][e] = 0
      BY <1>1, <1>5, <2>1, <2>2, <2>4
    <3>2. store'[w][p][e] = 1 /\ \A v \in Workers : v # w => store'[v][p][e] = 0
      BY <1>1, <2>1, <2>4
    <3> QED
      BY <3>1, <3>2 DEF ByOne
  <2> QED
    BY <2>3, <2>4
<1> QED
  BY <1>3, <1>4, <1>5

LEMMA HoldersKept ==
  ASSUME store' = store
  PROVE  \A p, d : (ByOne(p, d)' <=> ByOne(p, d)) /\ (ByNone(p, d)' <=> ByNone(p, d))
  BY DEF ByOne, ByNone

LEMMA GivenKept ==
  ASSUME Types, Types', [Next]_vars, ~ \E w \in Workers : AddSection(w)
  PROVE  \A p \in Part : Given(p)' = Given(p)
<1>1. CASE \E w \in Workers, d \in Data : Receive(w, d)
  BY <1>1, AddedReceive DEF Given, PartsOf
<1>2. CASE StartPacket \/ Merge \/ Send \/ SendFails \/ Elsewhere
  <2>1. Serving
    BY <1>2 DEF StartPacket, Merge, Send, SendFails, Elsewhere, Serving, serving
  <2> QED
    BY <2>1, AddedKept DEF Given, PartsOf
<1> QED
  BY <1>1, <1>2, Courses

LEMMA KeptStep ==
  ASSUME Types, Types', Distinct, Planned, Kept, [Next]_vars
  PROVE  Kept'
<1>1. CASE \E w \in Workers : AddSection(w)
  BY <1>1, HoldersSection DEF Kept
<1>2. CASE ~ \E w \in Workers : AddSection(w)
  <2>1. \A p \in Part : Given(p)' = Given(p)
    BY <1>2, GivenKept
  <2>2. CASE Merge
    BY <2>1, <2>2, HoldersMerge DEF Kept
  <2>3. CASE ~Merge
    <3>1. store' = store
      BY <1>2, <2>3, Courses DEF Receive, StartPacket, Send, SendFails, Elsewhere, serving
    <3> QED
      BY <2>1, <3>1, HoldersKept DEF Kept
  <2> QED
    BY <2>2, <2>3
<1> QED
  BY <1>1, <1>2

LEMMA OnceStep ==
  ASSUME Types, Types', Distinct, Planned, Once, [Next]_vars
  PROVE  Once'
<1>0. Flushed \subseteq Part /\ Flushed = {"data", "recent"}
  BY DEF Flushed, Part
<1>1. CASE \E w \in Workers : AddSection(w)
  <2>1. PICK w \in Workers : AddSection(w)
    BY <1>1
  <2>2. UNCHANGED <<comb, viz, bad>>
    BY <2>1 DEF AddSection, packets
  <2> QED
    BY <1>0, <2>1, <2>2, HoldersSection DEF Once
<1>2. CASE ~ \E w \in Workers : AddSection(w)
  <2>1. \A p \in Part : Given(p)' = Given(p)
    BY <1>2, GivenKept
  <2>2. CASE Merge
    <3>1. UNCHANGED <<viz, bad>>
      BY <2>2 DEF Merge
    <3> QED
      BY <1>0, <2>1, <2>2, <3>1, HoldersMerge DEF Once
  <2>3. CASE Send
    <3> SUFFICES ASSUME NEW p \in Flushed, NEW d \in Data
                 PROVE  /\ d \notin Given(p)' => ByNone(p, d)' /\ comb'[p][d] = 0 /\ viz'[p][d] = 0
                        /\ d \in Given(p)' /\ d \in Anomalous /\ ~bad' =>
                             \/ ByOne(p, d)' /\ comb'[p][d] = 0 /\ viz'[p][d] = 0
                             \/ ByNone(p, d)' /\ comb'[p][d] = 1 /\ viz'[p][d] = 0
                             \/ ByNone(p, d)' /\ comb'[p][d] = 0 /\ viz'[p][d] = 1
      BY DEF Once
    <3>1. comb'[p][d] = 0 /\ store' = store /\ bad' = bad
      BY <1>0, <2>3, SendIs, ZeroTallies
    <3>2. viz'[p][d] = Sat(viz[p][d] + comb[p][d]) \/ (d \notin Anomalous /\ viz'[p][d] = viz[p][d])
      BY <1>0, <2>3, SendIs
    <3>3. Sat(0 + 0) = 0 /\ Sat(0 + 1) = 1 /\ Sat(1 + 0) = 1
      BY DEF Sat
    <3>4. /\ d \notin Given(p) => ByNone(p, d) /\ comb[p][d] = 0 /\ viz[p][d] = 0
          /\ d \in Given(p) /\ d \in Anomalous /\ ~bad =>
               \/ ByOne(p, d) /\ comb[p][d] = 0 /\ viz[p][d] = 0
               \/ ByNone(p, d) /\ comb[p][d] = 1 /\ viz[p][d] = 0
               \/ ByNone(p, d) /\ comb[p][d] = 0 /\ viz[p][d] = 1
      BY DEF Once
    <3>5. /\ ByOne(p, d)' <=> ByOne(p, d)
          /\ ByNone(p, d)' <=> ByNone(p, d)
      BY <3>1, HoldersKept
    <3>6. Given(p)' = Given(p)
      BY <1>0, <2>1
    <3> QED
      BY <3>1, <3>2, <3>3, <3>4, <3>5, <3>6
  <2>4. CASE StartPacket \/ SendFails
    <3>1. /\ store' = store /\ viz' = viz
          /\ \A p \in Flushed, d \in Data : comb'[p][d] = 0
          /\ bad' \/ (bad' = bad /\ comb = Empty)
      BY <1>0, <2>4, ZeroTallies DEF StartPacket, SendFails, serving, Planned
    <3> QED
      BY <1>0, <2>1, <3>1, HoldersKept, ZeroTallies DEF Once
  <2>5. CASE (\E w \in Workers, d \in Data : Receive(w, d)) \/ Elsewhere
    <3>1. UNCHANGED <<store, comb, viz, bad>>
      BY <2>5 DEF Receive, Elsewhere, packets
    <3> QED
      BY <1>0, <2>1, <3>1, HoldersKept DEF Once
  <2> QED
    BY <1>2, <2>2, <2>3, <2>4, <2>5, Courses
<1> QED
  BY <1>1, <1>2
-----------------------------------------------------------------------------
(* Totals that contain what is new.                                         *)

(* A worker that adds recent metrics has added them to the full ones.       *)
Ahead ==
  \A w \in Workers :
    Busy(w) /\ "full" \notin PartsLeft(doing[w].left) /\ "full" \in PartsOf(doing[w].datum) =>
      store[w]["full"][doing[w].datum] > 0

(* What is new in p is in the totals q: with the worker, in the packet once *)
(* the objects of the worker are merged, and in what was shown.             *)
Covered(p, q) ==
  /\ \A w \in Workers, d \in Data : store[w][p][d] > 0 => store[w][q][d] > 0
  /\ \A d \in Data : comb[p][d] > 0 => comb[q][d] > 0
  /\ \A d \in Data : comb[p][d] > 0 \/ viz[p][d] > 0 =>
       \E w \in Workers :
         /\ store[w][q][d] > 0
         /\ sender \in {"collect", "send"} /\ ~Pending(w, q) => comb[q][d] > 0
  /\ \A d \in Data : viz[p][d] > 0 => viz[q][d] > 0

LEMMA Tallied ==
  ASSUME Types, NEW p \in Part, NEW d \in Data
  PROVE  /\ comb[p][d] \in 0 .. 2 /\ viz[p][d] \in 0 .. 2
         /\ \A w \in Workers : store[w][p][d] \in 0 .. 2
  BY DEF Types, Tally

LEMMA StoreGrows ==
  ASSUME Types, Planned, [Next]_vars, NEW q \in Part \ Flushed, NEW w \in Workers, NEW d \in Data,
         store[w][q][d] > 0
  PROVE  store'[w][q][d] > 0
<1>1. ASSUME NEW v \in Workers, AddSection(v) PROVE store'[w][q][d] > 0
  <2>1. \/ store'[w][q][d] = store[w][q][d]
        \/ store'[w][q][d] = Sat(store[w][q][d] + 1)
    <3>1. /\ \A u \in Workers : u # v => store'[u] = store[u]
          /\ \/ store'[v][q][d] = store[v][q][d]
             \/ store'[v][q][d] = Sat(store[v][q][d] + 1)
      BY <1>1, AddSectionIs
    <3> QED
      BY <3>1
  <2>2. store[w][q][d] \in 0 .. 2
    BY Tallied
  <2> QED
    BY <2>1, <2>2, SatFacts
<1>2. CASE Merge
  BY <1>2, MergeIs
<1>3. CASE ~Merge /\ ~ \E v \in Workers : AddSection(v)
  <2>1. store' = store
    BY <1>3, Courses DEF Receive, StartPacket, Send, SendFails, Elsewhere, serving
  <2> QED
    BY <2>1
<1> QED
  BY <1>1, <1>2, <1>3

LEMMA AheadStep ==
  ASSUME Types, Planned, Ahead, [Next]_vars
  PROVE  Ahead'
<1>0. "full" \in Part \ Flushed
  BY DEF Part, Flushed
<1>1. ASSUME NEW w \in Workers, AddSection(w) PROVE Ahead'
  <2> DEFINE d == doing[w].datum
             H == Head(doing[w].left)
             l == doing[w].left
  <2>1. /\ Busy(w) /\ d \in Data /\ l \in Lefts
        /\ \A v \in Workers : v # w => doing'[v] = doing[v] /\ store'[v] = store[v]
        /\ store'[w]["full"][d] = IF "full" \in H /\ "full" \in PartsOf(d)
                                  THEN Sat(store[w]["full"][d] + 1) ELSE store[w]["full"][d]
        /\ \/ ~Busy(w)'
           \/ /\ Len(l) # 1 /\ doing'[w].datum = d /\ doing'[w].left = Tail(l)
    BY <1>0, <1>1, AddSectionIs
  <2>2. Len(l) # 1 => PartsLeft(l) = H \cup PartsLeft(Tail(l))
    BY <2>1, SectionFacts
  <2>3. store[w]["full"][d] \in 0 .. 2
    BY <1>0, <2>1, Tallied
  <2>4. \A v \in Workers : v # w => (Busy(v)' <=> Busy(v))
    BY <2>1 DEF Busy
  <2>5. Sat(store[w]["full"][d] + 1) > 0
    BY <2>3, SatFacts
  <2>6. ASSUME Busy(w)', "full" \notin PartsLeft(doing'[w].left), "full" \in PartsOf(doing'[w].datum)
        PROVE  store'[w]["full"][doing'[w].datum] > 0
    <3>1. doing'[w].datum = d /\ PartsLeft(l) = H \cup PartsLeft(Tail(l)) /\ doing'[w].left = Tail(l)
      BY <2>1, <2>2, <2>6
    <3>2. CASE "full" \in H
      BY <2>1, <2>5, <2>6, <3>1, <3>2
    <3>3. CASE "full" \notin H
      BY <2>1, <2>6, <3>1, <3>3 DEF Ahead
    <3> QED
      BY <3>2, <3>3
  <2> HIDE DEF d, H, l
  <2> QED
    BY <2>1, <2>4, <2>6 DEF Ahead, PartsOf
<1>2. ASSUME NEW w \in Workers, NEW d \in Data, Receive(w, d) PROVE Ahead'
  <2>1. /\ doing'[w].left = Sections /\ \A v \in Workers : v # w => doing'[v] = doing[v]
        /\ store' = store
    BY <1>2, ReceiveIs DEF Receive
  <2>2. "full" \in PartsLeft(doing'[w].left)
    BY <1>0, <2>1, AllSections
  <2> QED
    BY <2>1, <2>2 DEF Ahead, Busy, PartsOf
<1>3. CASE Serving
  <2>1. doing' = doing
    BY <1>3 DEF Serving
  <2>2. \A w \in Workers : Busy(w) => doing[w].datum \in Data
    BY BusyWith
  <2>3. \A w \in Workers, d \in Data : store[w]["full"][d] > 0 => store'[w]["full"][d] > 0
    BY <1>0, StoreGrows
  <2> QED
    BY <2>1, <2>2, <2>3 DEF Ahead, Busy, PartsOf
<1> QED
  BY <1>1, <1>2, <1>3, Courses DEF StartPacket, Merge, Send, SendFails, Elsewhere, serving, Serving

LEMMA CoveredStep ==
  ASSUME Types, Types', Distinct, Planned, Ahead, [Next]_vars,
         NEW p, NEW q, (p = "data" /\ q = "stats") \/ (p = "recent" /\ q = "full"), Covered(p, q)
  PROVE  Covered(p, q)'
<1>0. p \in Flushed /\ p \in Part /\ q \in Part \ Flushed /\ q \in {"stats", "full"}
  BY DEF Flushed, Part
<1>1. ASSUME NEW w \in Workers, AddSection(w) PROVE Covered(p, q)'
  <2> DEFINE d == doing[w].datum
             H == Head(doing[w].left)
  <2>1. UNCHANGED <<comb, viz, sender, plan>>
    BY <1>1 DEF AddSection, packets
  <2>2. /\ Busy(w) /\ d \in Data /\ doing[w].left \in Lefts
        /\ \A v \in Workers : v # w => store'[v] = store[v]
        /\ \A r \in Part, e \in Data :
             store'[w][r][e] = IF e = d /\ r \in H /\ r \in PartsOf(d)
                               THEN Sat(store[w][r][e] + 1) ELSE store[w][r][e]
    BY <1>1, AddSectionIs
  <2>3. ASSUME NEW v \in Workers, NEW e \in Data, store'[v][p][e] > 0 PROVE store'[v][q][e] > 0
    <3>1. CASE store[v][p][e] > 0
      BY <1>0, <3>1, StoreGrows DEF Covered
    <3>2. CASE ~(store[v][p][e] > 0)
      <4>1. v = w /\ e = d /\ p \in H /\ p \in PartsOf(d)
        BY <1>0, <2>2, <2>3, <3>2
      <4>2. CASE p = "data"
        <5>1. q \in H /\ q \in PartsOf(d)
          BY <1>0, <2>2, <4>1, <4>2, SectionFacts DEF PartsOf
        <5>2. store[w][q][d] \in 0 .. 2
          BY <1>0, <2>2, Tallied
        <5>3. store'[w][q][d] = Sat(store[w][q][d] + 1)
          BY <1>0, <2>2, <5>1
        <5> QED
          BY <4>1, <5>2, <5>3, SatFacts
      <4>3. CASE p = "recent"
        <5>1. q = "full" /\ "full" \notin PartsLeft(doing[w].left) /\ "full" \in PartsOf(d)
          BY <2>2, <4>1, <4>3, SectionFacts DEF PartsOf, Part
        <5>2. store[w][q][d] > 0
          BY <2>2, <5>1 DEF Ahead
        <5> QED
          BY <1>0, <2>2, <4>1, <5>2, StoreGrows
      <4> QED
        BY <4>2, <4>3
    <3> QED
      BY <3>1, <3>2
  <2>4. \A v \in Workers, e \in Data : store[v][q][e] > 0 => store'[v][q][e] > 0
    BY <1>0, StoreGrows
  <2>5. \A v \in Workers : Pending(v, q)' <=> Pending(v, q)
    BY <2>1 DEF Pending
  <2> HIDE DEF d, H
  <2> QED
    BY <2>1, <2>3, <2>4, <2>5 DEF Covered
<1>2. CASE Merge
  <2>0. PICK m : m = Head(plan)
    OBVIOUS
  <2>1. /\ m.worker \in Workers /\ m.parts \in Together
        /\ \A v \in Workers, e \in Data :
             /\ store'[v][p][e] > 0 => store[v][p][e] > 0
             /\ store'[v][q][e] = store[v][q][e]
        /\ \A r \in Part, e \in Data :
             comb'[r][e] = IF r \in m.parts THEN Sat(comb[r][e] + store[m.worker][r][e])
                           ELSE comb[r][e]
        /\ \A w \in Workers : Pending(w, q) => (Pending(w, q)' \/ (m.worker = w /\ q \in m.parts))
        /\ viz' = viz /\ sender = "collect"
    BY <1>0, <1>2, <2>0, MergeIs DEF Merge
  <2>2. p \in m.parts <=> q \in m.parts
    BY <2>1 DEF Together
  <2>3. \A r \in Part, e \in Data :
          comb'[r][e] > 0 <=> comb[r][e] > 0 \/ (r \in m.parts /\ store[m.worker][r][e] > 0)
    BY <2>1, Tallied, SatFacts
  <2>4. \A e \in Data : comb'[p][e] > 0 => comb'[q][e] > 0
    BY <1>0, <2>1, <2>2, <2>3 DEF Covered
  <2>5. ASSUME NEW e \in Data, comb'[p][e] > 0 \/ viz'[p][e] > 0
        PROVE  \E w \in Workers : /\ store'[w][q][e] > 0
                                  /\ ~Pending(w, q)' => comb'[q][e] > 0
    <3>1. CASE comb[p][e] > 0 \/ viz[p][e] > 0
      <4>1. PICK w \in Workers : store[w][q][e] > 0 /\ (~Pending(w, q) => comb[q][e] > 0)
        BY <2>1, <3>1 DEF Covered
      <4>2. ~Pending(w, q)' => comb'[q][e] > 0
        BY <1>0, <2>1, <2>3, <4>1
      <4> QED
        BY <2>1, <4>1, <4>2
    <3>2. CASE ~(comb[p][e] > 0 \/ viz[p][e] > 0)
      <4>1. p \in m.parts /\ store[m.worker][p][e] > 0
        BY <1>0, <2>1, <2>3, <2>5, <3>2
      <4>2. store[m.worker][q][e] > 0
        BY <2>1, <4>1 DEF Covered
      <4>3. comb'[q][e] > 0
        BY <1>0, <2>2, <2>3, <4>1, <4>2
      <4> QED
        BY <2>1, <4>2, <4>3
    <3> QED
      BY <3>1, <3>2
  <2> QED
    BY <2>1, <2>4, <2>5 DEF Covered
<1>3. CASE Send
  <2>1. /\ \A e \in Data : comb'[p][e] = 0
        /\ store' = store /\ sender = "send" /\ sender' = "sleep" /\ plan = <<>>
    BY <1>0, <1>3, SendIs, ZeroTallies DEF Planned
  <2>2. \A w \in Workers : ~Pending(w, q)
    BY <2>1 DEF Pending
  <2>3. ASSUME NEW e \in Data, viz'[p][e] > 0
        PROVE  viz'[q][e] > 0 /\ \E w \in Workers : store[w][q][e] > 0
    <3>1. /\ viz[p][e] > 0 \/ comb[p][e] > 0
          /\ comb[p][e] > 0 => viz'[q][e] = comb[q][e] \/ viz[p][e] > 0
          /\ viz'[q][e] = comb[q][e] \/ viz'[q][e] = viz[q][e]
      <4>1. comb[p][e] \in 0 .. 2 /\ viz[p][e] \in 0 .. 2
        BY <1>0, Tallied
      <4>2. CASE p = "data"
        <5>1. /\ viz'["data"][e] = IF e \in Anomalous THEN Sat(viz["data"][e] + comb["data"][e])
                                   ELSE viz["data"][e]
              /\ viz'["stats"][e] = comb["stats"][e] \/ viz'["stats"][e] = viz["stats"][e]
              /\ e \in Anomalous /\ comb["data"][e] > 0 => viz'["stats"][e] = comb["stats"][e]
          BY <1>3, SendIs
        <5> QED
          BY <2>3, <4>1, <4>2, <5>1, SatFacts
      <4>3. CASE p = "recent"
        <5>1. /\ viz'["recent"][e] = Sat(viz["recent"][e] + comb["recent"][e])
              /\ viz'["full"][e] = comb["full"][e] \/ viz'["full"][e] = viz["full"][e]
              /\ comb["recent"][e] > 0 => viz'["full"][e] = comb["full"][e]
          BY <1>3, SendIs
        <5> QED
          BY <2>3, <4>1, <4>3, <5>1, SatFacts
      <4> QED
        BY <4>2, <4>3
    <3>2. PICK w \in Workers : store[w][q][e] > 0 /\ comb[q][e] > 0
      BY <2>1, <2>2, <3>1 DEF Covered
    <3>3. viz[p][e] > 0 => viz[q][e] > 0
      BY DEF Covered
    <3> QED
      BY <3>1, <3>2, <3>3
  <2> QED
    BY <2>1, <2>3 DEF Covered
<1>4. CASE StartPacket \/ SendFails
  <2>1. /\ store' = store /\ viz' = viz /\ \A e \in Data : comb'[p][e] = 0
        /\ sender' \in {"collect", "send"} => plan' = Merges
    BY <1>0, <1>4, ZeroTallies DEF StartPacket, SendFails, serving
  <2>2. sender' \in {"collect", "send"} => \A w \in Workers : Pending(w, q)'
    BY <1>0, <2>1, MergesAre DEF Pending
  <2> QED
    BY <2>1, <2>2 DEF Covered
<1>5. CASE (\E w \in Workers, d \in Data : Receive(w, d)) \/ Elsewhere
  <2>1. UNCHANGED <<store, comb, viz, sender, plan>>
    BY <1>5 DEF Receive, Elsewhere, packets
  <2> QED
    BY <2>1 DEF Covered, Pending
<1> QED
  BY <1>1, <1>2, <1>3, <1>4, <1>5, Courses
-----------------------------------------------------------------------------
(* The invariant.                                                           *)

IInv ==
  /\ Types /\ Distinct /\ Planned
  /\ Kept /\ Once
  /\ Ahead /\ Covered("data", "stats") /\ Covered("recent", "full")

LEMMA InitHolds ==
  ASSUME Init
  PROVE  IInv
<1>1. /\ store = [w \in Workers |-> Empty] /\ doing = [w \in Workers |-> Idle]
      /\ handled = {} /\ todo = Data /\ comb = Empty /\ viz = Empty
      /\ sender = "sleep" /\ plan = <<>> /\ bad = FALSE
  BY DEF Init
<1>2. \A w \in Workers : ~Busy(w)
  BY <1>1 DEF Busy
<1>3. Types
  <2>1. /\ main \in {"serve", "stop", "join", "final", "end"} /\ stop \in BOOLEAN
        /\ known \in [Ranks -> SUBSET {Func[d] : d \in Data}]
    BY DEF Init
  <2>2. /\ store \in [Workers -> [Part -> Tally]] /\ doing \in [Workers -> {Idle} \cup Job]
        /\ comb \in [Part -> Tally] /\ viz \in [Part -> Tally]
    BY <1>1, ZeroTallies
  <2> QED
    BY <1>1, <2>1, <2>2 DEF Types
<1>4. /\ \A w \in Workers, p \in Part, d \in Data : store[w][p][d] = 0
      /\ \A p \in Part, d \in Data : comb[p][d] = 0 /\ viz[p][d] = 0
  BY <1>1, ZeroTallies
<1>5. \A p \in Part : Given(p) = {}
  BY <1>1, <1>2 DEF Given, Added, Busy
<1>6. Distinct /\ Ahead
  BY <1>1, <1>2 DEF Distinct, Ahead
<1>7. Planned
  <2>1. <<>> \in Seq(Steps)
    OBVIOUS
  <2> QED
    BY <1>1, <2>1 DEF Planned
<1>8. Kept /\ Once
  <2>1. Flushed \subseteq Part
    BY DEF Flushed, Part
  <2> QED
    BY <1>4, <1>5, <2>1 DEF Kept, Once, ByNone
<1>9. ASSUME NEW p \in Part, NEW q \in Part PROVE Covered(p, q)
  BY <1>4 DEF Covered
<1> QED
  BY <1>3, <1>6, <1>7, <1>8, <1>9 DEF IInv, Part

LEMMA StepHolds ==
  ASSUME IInv, [Next]_vars
  PROVE  IInv'
<1>1. /\ Types /\ Distinct /\ Planned /\ Kept /\ Once /\ Ahead
      /\ Covered("data", "stats") /\ Covered("recent", "full")
  BY DEF IInv
<1>2. Types' /\ Distinct' /\ Planned'
  BY <1>1, TypesStep, DistinctStep, PlannedStep
<1>3. Kept' /\ Once' /\ Ahead'
  BY <1>1, <1>2, KeptStep, OnceStep, AheadStep
<1>4. Covered("data", "stats")' /\ Covered("recent", "full")'
  <2>1. Covered("data", "stats")'
    BY <1>1, <1>2, CoveredStep
  <2>2. Covered("recent", "full")'
    BY <1>1, <1>2, CoveredStep
  <2> QED
    BY <2>1, <2>2
<1> QED
  BY <1>2, <1>3, <1>4 DEF IInv

\* What workers and sender do to a datum keeps the invariant.
THEOREM EachWhereItBelongs == Spec => []IInv
  BY InitHolds, StepHolds, PTL DEF Spec
-----------------------------------------------------------------------------
(* What the packets have shown.                                             *)

LEMMA TotalIs ==
  ASSUME NEW p, NEW d \in Data
  PROVE  /\ ByNone(p, d) => Total(p)[d] = 0
         /\ ByOne(p, d) => Total(p)[d] = 1
<1> DEFINE have == {w \in Workers : store[w][p][d] > 0}
<1>1. Total(p)[d] = IF have = {} THEN 0
                    ELSE IF \E w \in have : have = {w} /\ store[w][p][d] = 1 THEN 1 ELSE 2
  BY DEF Total
<1>2. ASSUME ByNone(p, d) PROVE have = {}
  BY <1>2 DEF ByNone
<1>3. ASSUME ByOne(p, d) PROVE \E w \in have : have = {w} /\ store[w][p][d] = 1
  <2>1. PICK w \in Workers : store[w][p][d] = 1 /\ \A v \in Workers : v # w => store[v][p][d] = 0
    BY <1>3 DEF ByOne
  <2>2. w \in have /\ have = {w}
    BY <2>1
  <2> QED
    BY <2>1, <2>2
<1> HIDE DEF have
<1> QED
  BY <1>1, <1>2, <1>3

\* PSstatSender.cpp, GlobalAnomalyStats::get_json_and_flush: what is flushed is
\* sent once, and with totals that contain it, whatever the workers add while
\* the sender merges their objects.
THEOREM PacketsRight == Spec => []PacketsExact
<1>1. IInv => PacketsExact
  <2> SUFFICES ASSUME IInv PROVE PacketsExact
    OBVIOUS
  <2>0. Once /\ Covered("data", "stats") /\ Covered("recent", "full")
    BY DEF IInv
  <2>1. Sat(0 + 0 + 0) = 0 /\ Sat(1 + 0 + 0) = 1 /\ Sat(0 + 1 + 0) = 1 /\ Sat(0 + 0 + 1) = 1
    BY DEF Sat
  <2>2. ASSUME ~bad, NEW p \in Flushed, NEW d \in Data, p = "data" => d \in Anomalous
        PROVE  Sat(Total(p)[d] + comb[p][d] + viz[p][d]) = IF d \in Given(p) THEN 1 ELSE 0
    <3>1. d \in Given(p) => d \in Anomalous
      BY <2>2 DEF Given, PartsOf, Flushed
    <3>2. CASE d \in Given(p)
      <4>1. \/ ByOne(p, d) /\ comb[p][d] = 0 /\ viz[p][d] = 0
            \/ ByNone(p, d) /\ comb[p][d] = 1 /\ viz[p][d] = 0
            \/ ByNone(p, d) /\ comb[p][d] = 0 /\ viz[p][d] = 1
        BY <2>0, <2>2, <3>1, <3>2 DEF Once
      <4> QED
        BY <2>1, <3>2, <4>1, TotalIs
    <3>3. CASE d \notin Given(p)
      <4>1. ByNone(p, d) /\ comb[p][d] = 0 /\ viz[p][d] = 0
        BY <2>0, <2>2, <3>3 DEF Once
      <4> QED
        BY <2>1, <3>3, <4>1, TotalIs
    <3> QED
      BY <3>2, <3>3
  <2>3. /\ \A d \in Data : d \in Given("data") <=> d \in Added("data")
        /\ \A d \in Data : d \in Given("recent") <=> d \in Added("recent") \cap Anomalous
    BY DEF Given, PartsOf, Part
  <2>4. "data" \in Flushed /\ "recent" \in Flushed
    BY DEF Flushed
  <2>5. NewDataOnce
    BY <2>2, <2>3, <2>4 DEF NewDataOnce
  <2>6. TotalsCoverNew
    BY <2>0 DEF TotalsCoverNew, Covered, Those
  <2> QED
    BY <2>5, <2>6 DEF PacketsExact
<1> QED
  BY <1>1, EachWhereItBelongs, PTL
-----------------------------------------------------------------------------
(* The final data.                                                          *)

(* An index is given once, and a model is for a function that has one.      *)
Indexed ==
  /\ IsInjective(fmap) /\ nextIdx \in Nat
  /\ \A f \in DOMAIN fmap : fmap[f] \in Nat /\ fmap[f] < nextIdx
  /\ \A t \in trained : \E f \in DOMAIN fmap : t = <<fmap[f], f>>

(* When the network has ended no worker adds anything.                      *)
Over == main # "serve" => \A w \in Workers : ~Busy(w)

Closed == Indexed /\ Over /\ FinalDataExact

LEMMA InitClosed ==
  ASSUME Init
  PROVE  Closed
<1>1. /\ fmap \in Restored /\ nextIdx = NextIndex(fmap) /\ main = "serve"
      /\ trained = {<<fmap[f], f>> : f \in DOMAIN fmap}
  BY DEF Init
<1>2. /\ IsInjective(fmap) /\ Range(fmap) \subseteq Nat
      /\ fmap # <<>> => \E i \in Range(fmap) : \A j \in Range(fmap) : i >= j
  BY <1>1, PSstatisticsAssumption
<1>3. \A f \in DOMAIN fmap : fmap[f] \in Range(fmap)
  BY DEF Range
<1>4. nextIdx \in Nat /\ \A f \in DOMAIN fmap : fmap[f] < nextIdx
  <2>1. CASE fmap = <<>>
    BY <1>1, <2>1 DEF NextIndex
  <2>2. CASE fmap # <<>>
    <3>1. Max(Range(fmap)) \in Range(fmap) /\ \A j \in Range(fmap) : Max(Range(fmap)) >= j
      BY <1>2, <2>2 DEF Max
    <3>2. nextIdx = Max(Range(fmap)) + 1
      BY <1>1, <2>2 DEF NextIndex
    <3> DEFINE m == Max(Range(fmap))
    <3>3. m \in Nat /\ nextIdx = m + 1 /\ \A f \in DOMAIN fmap : fmap[f] \in Nat /\ m >= fmap[f]
      BY <1>2, <1>3, <3>1, <3>2
    <3> HIDE DEF m
    <3> QED
      BY <3>3
  <2> QED
    BY <2>1, <2>2
<1> QED
  BY <1>1, <1>2, <1>3, <1>4 DEF Closed, Indexed, Over, FinalDataExact, FinalExact, ModelsNamedRight

LEMMA IndexedStep ==
  ASSUME Indexed, [Next]_vars
  PROVE  Indexed'
<1>1. ASSUME NEW r \in Ranks, NEW f, LookUp(r, f) PROVE Indexed'
  <2>1. CASE f \in DOMAIN fmap
    BY <1>1, <2>1 DEF LookUp, Indexed
  <2>2. CASE f \notin DOMAIN fmap
    <3>1. /\ fmap' = [g \in DOMAIN fmap \cup {f} |-> IF g = f THEN nextIdx ELSE fmap[g]]
          /\ nextIdx' = nextIdx + 1 /\ trained' = trained \cup {<<fmap'[f], f>>}
      BY <1>1, <2>2 DEF LookUp
    <3>2. /\ DOMAIN fmap' = DOMAIN fmap \cup {f} /\ fmap'[f] = nextIdx
          /\ \A g \in DOMAIN fmap : fmap'[g] = fmap[g]
      BY <2>2, <3>1
    <3>3. nextIdx' \in Nat /\ nextIdx < nextIdx' /\ \A n \in Nat : n < nextIdx => n < nextIdx' /\ n # nextIdx
      BY <3>1 DEF Indexed
    <3>4. \A g \in DOMAIN fmap' : fmap'[g] \in Nat /\ fmap'[g] < nextIdx'
      BY <3>2, <3>3 DEF Indexed
    <3>5. IsInjective(fmap')
      BY <3>2, <3>3 DEF Indexed, IsInjective
    <3>6. \A t \in trained' : \E g \in DOMAIN fmap' : t = <<fmap'[g], g>>
      BY <3>1, <3>2 DEF Indexed
    <3> QED
      BY <3>3, <3>4, <3>5, <3>6 DEF Indexed
  <2> QED
    BY <2>1, <2>2
<1>2. CASE UNCHANGED <<fmap, nextIdx, trained>>
  BY <1>2 DEF Indexed
<1> QED
  BY <1>1, <1>2 DEF Next, Worker, Sender, Main, Rank, Receive, AddSection, StartPacket, Merge, Send,
     SendFails, ServiceEnds, StopSender, Join, SendFinal, index, vars

LEMMA OverStep ==
  ASSUME Types, Over, [Next]_vars
  PROVE  Over'
<1>1. CASE main' = "serve"
  BY <1>1 DEF Over
<1>2. CASE main' # "serve"
  <2>1. CASE main = "serve"
    BY <1>2, <2>1 DEF Next, Worker, Sender, Main, Rank, Receive, AddSection, StartPacket, Merge, Send,
       SendFails, ServiceEnds, StopSender, Join, SendFinal, LookUp, serving, vars, Over, Busy
  <2>2. CASE main # "serve"
    <3>1. \A w \in Workers : doing[w] = Idle
      BY <2>2 DEF Over, Busy
    <3>2. doing' = doing
      BY <2>2, <3>1 DEF Next, Worker, Sender, Main, Rank, Receive, AddSection, StartPacket, Merge, Send,
         SendFails, ServiceEnds, StopSender, Join, SendFinal, LookUp, serving, vars
    <3> QED
      BY <3>1, <3>2 DEF Over, Busy
  <2> QED
    BY <2>1, <2>2
<1> QED
  BY <1>1, <1>2

(* What all workers have when no worker adds anything.                      *)
LEMMA AllReceived ==
  ASSUME Types, Kept, \A w \in Workers : ~Busy(w)
  PROVE  /\ Total("counter") = [d \in Data |-> IF d \in handled THEN 1 ELSE 0]
         /\ Total("func") = [d \in Data |-> IF d \in handled THEN 1 ELSE 0]
         /\ Total("full") = [d \in Data |-> IF d \in handled \cap Anomalous THEN 1 ELSE 0]
<1>1. \A p \in Part, d \in Data : d \in Given(p) <=> d \in handled /\ p \in PartsOf(d)
  BY AddedIs DEF Given, Types
<1>2. ASSUME NEW p \in {"counter", "func", "full"}, NEW d \in Data
      PROVE  Total(p)[d] = IF d \in handled /\ p \in PartsOf(d) THEN 1 ELSE 0
  <2>1. p \in Part \ Flushed
    BY DEF Part, Flushed
  <2> QED
    BY <1>1, <2>1, TotalIs DEF Kept
<1>3. \A p : Total(p) = [d \in Data |-> Total(p)[d]]
  BY DEF Total
<1>4. /\ \A d \in Data : "counter" \in PartsOf(d) /\ "func" \in PartsOf(d)
      /\ \A d \in Data : "full" \in PartsOf(d) <=> d \in Anomalous
  BY DEF PartsOf, Part
<1>5. ASSUME NEW p \in {"counter", "func"}
      PROVE  Total(p) = [d \in Data |-> IF d \in handled THEN 1 ELSE 0]
  <2>1. \A d \in Data : Total(p)[d] = IF d \in handled THEN 1 ELSE 0
    BY <1>2, <1>4
  <2> QED
    BY <1>3, <2>1
<1>6. Total("full") = [d \in Data |-> IF d \in handled \cap Anomalous THEN 1 ELSE 0]
  <2>1. \A d \in Data : Total("full")[d] = IF d \in handled \cap Anomalous THEN 1 ELSE 0
    BY <1>2, <1>4
  <2> QED
    BY <1>3, <2>1
<1> QED
  BY <1>5, <1>6

LEMMA ProfileIs ==
  ASSUME Types, Kept, \A w \in Workers : ~Busy(w)
  PROVE  Profile = [f \in {Func[d] : d \in handled} |->
           [runtime |-> [d \in Data |-> IF d \in handled \cap DataOf(f) THEN 1 ELSE 0],
            metrics |-> [d \in Data |-> IF d \in handled \cap DataOf(f) \cap Anomalous THEN 1 ELSE 0]]]
<1>1. /\ Total("func") = [d \in Data |-> IF d \in handled THEN 1 ELSE 0]
      /\ Total("full") = [d \in Data |-> IF d \in handled \cap Anomalous THEN 1 ELSE 0]
  BY AllReceived
<1>2. {Func[d] : d \in Those(Total("func")) \cup Those(Total("full"))} = {Func[d] : d \in handled}
  <2>1. Those(Total("func")) = handled
    BY <1>1 DEF Those, Types
  <2>2. Those(Total("full")) \subseteq handled
    BY <1>1 DEF Those
  <2> QED
    BY <2>1, <2>2
<1>3. ASSUME NEW f
      PROVE  /\ RuntimeOf(f) = [d \in Data |-> IF d \in handled \cap DataOf(f) THEN 1 ELSE 0]
             /\ MetricsOf(f) = [d \in Data |-> IF d \in handled \cap DataOf(f) \cap Anomalous THEN 1 ELSE 0]
  <2> DEFINE S == DataOf(f)
  <2>1. RuntimeOf(f) = [d \in Data |-> IF d \in S THEN Total("func")[d] ELSE 0]
    BY DEF RuntimeOf, Only
  <2>2. MetricsOf(f) = [d \in Data |-> IF d \in S THEN Total("full")[d] ELSE 0]
    BY DEF MetricsOf, Only
  <2> HIDE DEF S
  <2>3. RuntimeOf(f) = [d \in Data |-> IF d \in handled \cap S THEN 1 ELSE 0]
    BY <1>1, <2>1
  <2>4. MetricsOf(f) = [d \in Data |-> IF d \in handled \cap S \cap Anomalous THEN 1 ELSE 0]
    BY <1>1, <2>2
  <2> QED
    BY <2>3, <2>4 DEF S
<1> QED
  BY <1>2, <1>3 DEF Profile

LEMMA FinalStep ==
  ASSUME IInv, Closed, [Next]_vars
  PROVE  FinalDataExact'
<1>1. CASE SendFinal
  <2>1. PICK name \in {n \in [Range(fmap) -> DOMAIN fmap] : \A i \in Range(fmap) : fmap[n[i]] = i} :
          final' = [profile |-> Profile, counters |-> Total("counter"),
                    named |-> {<<i, name[i]>> : i \in {t[1] : t \in trained} \cap Range(fmap)},
                    failed |-> ~({t[1] : t \in trained} \subseteq Range(fmap))]
    BY <1>1 DEF SendFinal
  <2>2. UNCHANGED <<handled, trained>>
    BY <1>1 DEF SendFinal, serving, index
  <2>3. \A w \in Workers : ~Busy(w)
    BY <1>1 DEF SendFinal, Closed, Over
  <2>4. \A t \in trained : \E f \in DOMAIN fmap : t = <<fmap[f], f>> /\ fmap[f] \in Range(fmap)
    BY DEF Closed, Indexed, Range
  <2>5. {t[1] : t \in trained} \subseteq Range(fmap)
    BY <2>4
  <2>6. \A t \in trained : t = <<t[1], name[t[1]]>>
    <3> SUFFICES ASSUME NEW t \in trained PROVE t = <<t[1], name[t[1]]>>
      OBVIOUS
    <3>1. PICK f \in DOMAIN fmap : t = <<fmap[f], f>> /\ fmap[f] \in Range(fmap)
      BY <2>4
    <3>2. name[fmap[f]] \in DOMAIN fmap /\ fmap[name[fmap[f]]] = fmap[f]
      BY <3>1
    <3>3. name[fmap[f]] = f
      BY <3>2 DEF Closed, Indexed, IsInjective
    <3> QED
      BY <3>1, <3>3
  <2>7. {<<i, name[i]>> : i \in {t[1] : t \in trained} \cap Range(fmap)} = trained
    BY <2>5, <2>6
  <2>8. /\ Total("counter") = [d \in Data |-> IF d \in handled THEN 1 ELSE 0]
        /\ Profile = [f \in {Func[d] : d \in handled} |->
             [runtime |-> [d \in Data |-> IF d \in handled \cap DataOf(f) THEN 1 ELSE 0],
              metrics |-> [d \in Data |-> IF d \in handled \cap DataOf(f) \cap Anomalous THEN 1 ELSE 0]]]
    BY <2>3, AllReceived, ProfileIs DEF IInv
  <2>9. /\ final'.failed = FALSE /\ final'.named = trained
        /\ final'.counters = Total("counter") /\ final'.profile = Profile
    BY <2>1, <2>5, <2>7
  <2>10. FinalExact'
    BY <2>2, <2>8, <2>9 DEF FinalExact
  <2>11. ModelsNamedRight'
    BY <2>2, <2>9 DEF ModelsNamedRight
  <2> QED
    BY <2>10, <2>11 DEF FinalDataExact
<1>2. CASE ~SendFinal /\ main' = "end"
  <2>1. main = "end" /\ UNCHANGED final
    BY <1>2 DEF Next, Worker, Sender, Main, Rank, Receive, AddSection, StartPacket, Merge, Send,
       SendFails, ServiceEnds, StopSender, Join, LookUp, vars
  <2>2. \A w \in Workers : doing[w] = Idle
    BY <2>1 DEF Closed, Over, Busy
  <2>3. UNCHANGED <<handled, trained>>
    BY <1>2, <2>1, <2>2 DEF Next, Worker, Sender, Main, Rank, Receive, AddSection, StartPacket, Merge,
       Send, SendFails, ServiceEnds, StopSender, Join, LookUp, serving, index, vars
  <2>4. FinalExact /\ ModelsNamedRight
    BY DEF Closed, FinalDataExact
  <2>5. FinalExact'
    BY <1>2, <2>1, <2>3, <2>4 DEF FinalExact
  <2> QED
    BY <1>2, <2>1, <2>3, <2>4, <2>5 DEF FinalDataExact, ModelsNamedRight
<1>3. CASE main' # "end"
  BY <1>3 DEF FinalDataExact, FinalExact, ModelsNamedRight
<1> QED
  BY <1>1, <1>2, <1>3

\* sendFinalModuleDataToProvDB: whatever was flushed, lost or still unsent when
\* the service ended, the final data count everything received once, and name
\* every model after the function that it was trained with.
THEOREM FinalDataRight == Spec => []FinalDataExact
<1>1. Init => Closed
  BY InitClosed
<1>2. IInv /\ Closed /\ [Next]_vars => Closed'
  BY IndexedStep, OverStep, FinalStep DEF Closed, IInv
<1>3. Closed => FinalDataExact
  BY DEF Closed
<1> QED
  BY <1>1, <1>2, <1>3, EachWhereItBelongs, PTL DEF Spec
\* Every variable keeps its type: tallies are of the data that ranks sent, and
\* a worker is only busy with such a datum.
THEOREM TypeCorrect == Spec => []TypeOK
<1>1. IInv => TypeOK
  <2> SUFFICES ASSUME IInv PROVE TypeOK
    OBVIOUS
  <2>1. Types
    BY DEF IInv
  <2>2. \A w \in Workers : doing[w] # Idle => doing[w].datum \in Data
    BY <2>1, BusyWith DEF Busy
  <2> QED
    BY <2>1, <2>2 DEF Types, TypeOK
<1> QED
  BY <1>1, EachWhereItBelongs, PTL
===============================================================================
